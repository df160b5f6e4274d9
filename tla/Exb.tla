--------------------------------- MODULE Exb ---------------------------------
(***************************************************************************)
(* The .exb validator (core/exb/exb.c): exb_parse decides whether a file   *)
(* may be loaded and what the loader is told about it.                     *)
(*                                                                         *)
(* A file is a record of what its bytes say:                               *)
(*   size, head      its length; "ok" or the first header check it fails   *)
(*                   (magic, version, reserved bytes, kind, target,        *)
(*                   recorded size, CRC), the fields below being read after *)
(*   entry, seg_off, cap_off   from the header                             *)
(*   segs, caps      the entries of the two tables, as many as announced   *)
(* Offsets, sizes and addresses count the same small unit, EXB_PAGE of     *)
(* which make a page.                                                      *)
(***************************************************************************)
EXTENDS Integers, Sequences, FiniteSets, FiniteSetsExt

CONSTANTS
    EXB_HEADER_SIZE, EXB_SEG_SIZE, EXB_CAP_SIZE,
    EXB_PAGE,
    EXB_MAX_FILE, EXB_MAX_SEGS, EXB_MAX_CAPS, EXB_MAX_IMAGE_PAGES,
    EXB_DEFAULT_STACK_PAGES, EXB_MAX_STACK_PAGES,
    EXB_MAX_HEAP_REQUEST, EXB_MAX_TOKEN_REQUEST,
    EXB_VA_MIN, EXB_VA_LIMIT

ASSUME ExbAssumption ==
    /\ EXB_PAGE \in Nat \ {0} /\ EXB_HEADER_SIZE \in Nat \ {0}
    /\ EXB_SEG_SIZE \in Nat \ {0} /\ EXB_CAP_SIZE \in Nat \ {0}
    /\ EXB_VA_MIN \in Nat /\ EXB_VA_MIN % EXB_PAGE = 0
    /\ EXB_VA_LIMIT \in Nat /\ EXB_VA_LIMIT % EXB_PAGE = 0
    /\ EXB_MAX_SEGS \in Nat \ {0} /\ EXB_MAX_CAPS \in Nat /\ EXB_MAX_FILE \in Nat
    /\ EXB_MAX_IMAGE_PAGES \in Nat
    /\ EXB_MAX_STACK_PAGES \in Nat /\ EXB_DEFAULT_STACK_PAGES \in 1 .. EXB_MAX_STACK_PAGES
    /\ EXB_MAX_HEAP_REQUEST \in Nat /\ EXB_MAX_TOKEN_REQUEST \in Nat

\* The files there can be, well formed or not.
Files ==
    [size : Nat, head : STRING, entry : Nat, seg_off : Nat, cap_off : Nat,
     segs : Seq([vaddr : Nat, mem : Nat, foff : Nat, fsz : Nat, flags : SUBSET STRING, resv : Nat]),
     caps : Seq([kind : STRING, optional : BOOLEAN, resv : Nat, value : Nat])]

overlap(a0, a1, b0, b1) == a0 < b1 /\ b0 < a1

Pages(s) == (s.mem + EXB_PAGE - 1) \div EXB_PAGE
VEnd(s) == s.vaddr + Pages(s) * EXB_PAGE
FEnd(s) == s.foff + s.fsz
SegEnd(x) == x.seg_off + Len(x.segs) * EXB_SEG_SIZE
CapEnd(x) == x.cap_off + Len(x.caps) * EXB_CAP_SIZE
TotalPages(x, i) ==
    LET sum[j \in 0 .. i] == IF j = 0 THEN 0 ELSE sum[j - 1] + Pages(x.segs[j])
    IN  sum[i]

(* The checks in the order of parse_impl, each with the code it returns.   *)

TableChecks(x) ==
    LET n == Len(x.segs)  c == Len(x.caps) IN
    << <<x.size < EXB_HEADER_SIZE \/ x.size > EXB_MAX_FILE, "size">>,
       <<x.head # "ok", x.head>>,
       <<n < 1 \/ n > EXB_MAX_SEGS, "segtab">>,
       <<x.seg_off < EXB_HEADER_SIZE \/ SegEnd(x) > x.size, "segtab">>,
       <<c > EXB_MAX_CAPS, "cap">>,
       <<c = 0 /\ x.cap_off # 0, "cap">>,
       <<c > 0 /\ (x.cap_off < EXB_HEADER_SIZE \/ CapEnd(x) > x.size), "cap">>,
       <<c > 0 /\ overlap(x.seg_off, SegEnd(x), x.cap_off, CapEnd(x)), "overlap">> >>

\* Segment i, also against the segments before it.
SegChecks(x, i) ==
    LET s == x.segs[i] IN
    << <<s.resv # 0 \/ ~(s.flags \subseteq {"R", "W", "X"}) \/ "R" \notin s.flags, "seg">>,
       <<{"W", "X"} \subseteq s.flags, "wx">>,
       <<s.vaddr % EXB_PAGE # 0 \/ s.vaddr < EXB_VA_MIN \/ s.vaddr >= EXB_VA_LIMIT, "seg">>,
       <<s.mem = 0 \/ s.mem > EXB_MAX_IMAGE_PAGES * EXB_PAGE, "seg">>,
       <<VEnd(s) > EXB_VA_LIMIT \/ s.fsz > s.mem, "seg">>,
       <<s.fsz = 0 /\ s.foff # 0, "seg">>,
       <<s.fsz > 0 /\ (s.foff < EXB_HEADER_SIZE \/ FEnd(s) > x.size), "seg">>,
       <<s.fsz > 0 /\ overlap(s.foff, FEnd(s), x.seg_off, SegEnd(x)), "overlap">>,
       <<s.fsz > 0 /\ x.caps # <<>> /\ overlap(s.foff, FEnd(s), x.cap_off, CapEnd(x)), "overlap">>,
       <<TotalPages(x, i) > EXB_MAX_IMAGE_PAGES, "limit">>,
       <<\E j \in 1 .. (i - 1) :
           LET t == x.segs[j] IN
           \/ overlap(s.vaddr, VEnd(s), t.vaddr, VEnd(t))
           \/ s.fsz > 0 /\ t.fsz > 0 /\ overlap(s.foff, FEnd(s), t.foff, FEnd(t)), "overlap">> >>

\* Mutant: the zero-filled tail of a segment counts as code.
EntryInMemory(e, s) == "X" \in s.flags /\ e >= s.vaddr /\ e - s.vaddr < s.mem

EntryIn(e, s) == "X" \in s.flags /\ e >= s.vaddr /\ e - s.vaddr < s.fsz

EntryCheck(x) == << <<\A i \in DOMAIN x.segs : ~EntryIn(x.entry, x.segs[i]), "entry">> >>

\* A capability is [kind, optional, resv, value]; kind 0 is the base kind 0.
CapValueOk(c) ==
    CASE c.kind = "stack" -> /\ c.value % EXB_PAGE = 0
                             /\ c.value >= EXB_PAGE
                             /\ c.value <= EXB_MAX_STACK_PAGES * EXB_PAGE
      [] c.kind = "heap" -> c.value <= EXB_MAX_HEAP_REQUEST
      [] c.kind = "tokens" -> c.value <= EXB_MAX_TOKEN_REQUEST
      [] OTHER -> c.optional

KnownCaps == {"stack", "heap", "tokens"}
CapChecks(x, i) ==
    LET c == x.caps[i] IN
    << <<c.resv # 0 \/ c.kind = "zero", "cap">>,
       <<c.kind \in KnownCaps /\ \E j \in 1 .. (i - 1) : x.caps[j].kind = c.kind, "cap">>,
       <<~CapValueOk(c), "cap">> >>

\* The code of the first check that fails, and the first such code of several
\* lists of checks.
Verdict(checks) ==
    LET failed == {i \in DOMAIN checks : checks[i][1]}
    IN  IF failed = {} THEN "ok" ELSE checks[Min(failed)][2]
FirstError(codes) ==
    LET bad == {i \in DOMAIN codes : codes[i] # "ok"}
    IN  IF bad = {} THEN "ok" ELSE codes[Min(bad)]

\* parse_impl: the tables, the segments, the entry point, the capabilities.
parse_impl(x) ==
    FirstError(<<Verdict(TableChecks(x)),
                 FirstError([i \in DOMAIN x.segs |-> Verdict(SegChecks(x, i))]),
                 Verdict(EntryCheck(x)),
                 FirstError([i \in DOMAIN x.caps |-> Verdict(CapChecks(x, i))])>>)

\* What the last entry of a kind asks for, or the default.
CapValue(x, kind, default) ==
    LET asked == {i \in DOMAIN x.caps : x.caps[i].kind = kind}
    IN  IF asked = {} THEN default ELSE x.caps[Max(asked)].value

\* ExbInfo as the loader uses it: addresses and sizes in pages.
InfoOf(x) ==
    [entry |-> x.entry,
     segs |-> [i \in DOMAIN x.segs |-> [va |-> x.segs[i].vaddr \div EXB_PAGE,
                                        pages |-> Pages(x.segs[i]), perms |-> x.segs[i].flags]],
     stack |-> CapValue(x, "stack", EXB_DEFAULT_STACK_PAGES * EXB_PAGE) \div EXB_PAGE]
ZeroInfo == [entry |-> 0, segs |-> <<>>, stack |-> 0]

\* A failure leaves *out zeroed, wherever it was found.
exb_parse(x) ==
    LET rc == parse_impl(x)
    IN  [rc |-> rc, info |-> IF rc = "ok" THEN InfoOf(x) ELSE ZeroInfo]

-----------------------------------------------------------------------------
(* The format, stated over the bytes and pages a file lays claim to.       *)

Units(from, to) == from .. (to - 1)
FileBytes(x) == Units(EXB_HEADER_SIZE, x.size)
SegPages(s) == {a \div EXB_PAGE : a \in Units(s.vaddr, s.vaddr + s.mem)}

\* What the file claims of its own bytes, piece by piece.
Claims(x) == <<Units(x.seg_off, SegEnd(x)), Units(x.cap_off, CapEnd(x))>>
               \o [i \in DOMAIN x.segs |-> Units(x.segs[i].foff, FEnd(x.segs[i]))]
Apart(sets) == \A i, j \in DOMAIN sets : i # j => sets[i] \cap sets[j] = {}

ValidSeg(s) ==
    /\ s.resv = 0
    /\ s.flags \in {{"R"}, {"R", "W"}, {"R", "X"}}
    /\ s.vaddr % EXB_PAGE = 0
    /\ SegPages(s) # {}
    /\ SegPages(s) \subseteq Units(EXB_VA_MIN \div EXB_PAGE, EXB_VA_LIMIT \div EXB_PAGE)
    /\ s.fsz <= s.mem
    /\ s.fsz = 0 => s.foff = 0

ValidCaps(x) ==
    /\ \A i \in DOMAIN x.caps : x.caps[i].resv = 0 /\ x.caps[i].kind # "zero" /\ CapValueOk(x.caps[i])
    /\ \A k \in KnownCaps : Cardinality({i \in DOMAIN x.caps : x.caps[i].kind = k}) <= 1
    /\ x.caps = <<>> => x.cap_off = 0

ValidImage(x) ==
    /\ x.size \in EXB_HEADER_SIZE .. EXB_MAX_FILE /\ x.head = "ok"
    /\ Len(x.segs) \in 1 .. EXB_MAX_SEGS /\ Len(x.caps) <= EXB_MAX_CAPS
    /\ \A i \in DOMAIN x.segs : ValidSeg(x.segs[i])
    /\ \A i \in DOMAIN Claims(x) : Claims(x)[i] \subseteq FileBytes(x)
    /\ Apart(Claims(x))
    /\ Apart([i \in DOMAIN x.segs |-> SegPages(x.segs[i])])
    /\ Cardinality(UNION {SegPages(x.segs[i]) : i \in DOMAIN x.segs}) <= EXB_MAX_IMAGE_PAGES
    /\ \E i \in DOMAIN x.segs :
         "X" \in x.segs[i].flags /\ x.entry \in Units(x.segs[i].vaddr, x.segs[i].vaddr + x.segs[i].fsz)
    /\ ValidCaps(x)
=============================================================================
