---------------------------- MODULE AddressSpaces ----------------------------
(***************************************************************************)
(* Address spaces (the user half of mem/paging.c), the resource syscalls   *)
(* (sys.c), the loader (core/exb/load.c over load_amd64.c) and the ring-3  *)
(* runs of proc.c, as the command "run" and the kernel's harnesses drive   *)
(* them: create a space for an owner, load an image, run it in slices,     *)
(* reap it.                                                                *)
(*                                                                         *)
(* The kernel runs on one CPU with interrupts off, so that a syscall or a  *)
(* kernel call is one step; programs and their preemption interleave       *)
(* between the steps.  The page tables are kept in memory, as in the code: *)
(* mem[f] is the table in frame f, with Fan entries in place of 512, and   *)
(* a frame that is given back keeps its bytes.  Levels 3, 2, 1, 0 are the  *)
(* PML4, PDPT, PD and PT.  Addresses are page numbers.                     *)
(*                                                                         *)
(* An operation is an operator from a kernel state k (the record Kernel)   *)
(* to the state after the call; k.rc, k.tok and k.at are what it returns:  *)
(* a code, a token and a page table's frame.  The ledger                   *)
(* appears by its sequential behaviour; its steps on several CPUs are the  *)
(* subject of TokenLedger.                                                 *)
(***************************************************************************)
EXTENDS Exb

CONSTANTS
    RamFrames,      \* the frames free once the kernel has booted
    KernelTable,    \* the frame of the identity map's PDPT, in every PML4[0]
    Fan,            \* XPT_ENTS
    KernelHalf,     \* XPT_KERNEL_HALF: the user entries of a PML4 are 1 .. KernelHalf-1
    Owners,         \* process owner ids; each has one XAspace
    NSlots,         \* XTOK_TABLE_SLOTS
    GenMod,         \* 2^32
    MaxMap,         \* 0xFFFF
    NRecs,          \* XAS_MAX_MAPS
    OwnerRecs,      \* XAS_MAX_MAPS_PER_OWNER
    ListMax,        \* the tokens xproc_reap lists at a time
    Images,         \* the files that are loaded, good ones and bad ones
    RawImages,      \* the files the parser is checked on
    Sizes,          \* frame counts a program asks for
    RightSets,      \* rights a program asks for
    PermSets,       \* permissions a program asks for
    Vas,            \* pages a program maps, unmaps and touches
    DefaultQuota,   \* g_def_frames, g_def_tokens
    Quotas,         \* limits the kernel gives an owner: [frames, tokens]
    MaxCalls      \* bound: the xas_create and sys_alloc calls

\* The pages one entry of a table stands for, by the level of the table.
Reach(level) == CASE level = 0 -> 1
                  [] level = 1 -> Fan
                  [] level = 2 -> Fan * Fan
                  [] OTHER -> Fan * Fan * Fan

UserBase == Reach(3)
UserTop  == KernelHalf * Reach(3)
Slots == 0 .. (NSlots - 1)
UserRights == {"READ", "WRITE", "EXECUTE", "MAP", "RELEASE"}     \* XSYS_USER_RIGHTS
Tokens == [slot : Slots, gen : 1 .. (GenMod - 1)]

ASSUME SpacesAssumption ==
    /\ RamFrames \subseteq Nat \ {0} /\ IsFiniteSet(RamFrames)
    /\ KernelTable \in Nat \ RamFrames
    /\ Fan \in Nat /\ KernelHalf \in 2 .. Fan
    /\ NSlots \in Nat \ {0} /\ GenMod \in Nat /\ GenMod > 2
    /\ MaxMap \in Nat /\ NRecs \in Nat /\ OwnerRecs \in Nat /\ ListMax \in Nat \ {0}
    /\ "none" \notin Owners
    /\ Sizes \subseteq Nat /\ Vas \subseteq Nat
    /\ RightSets \subseteq SUBSET UserRights /\ PermSets \subseteq SUBSET {"R", "W", "X"}
    /\ {DefaultQuota} \cup Quotas \subseteq [frames : Nat, tokens : Nat]
    /\ Images \subseteq RawImages /\ RawImages \subseteq Files
    /\ EXB_VA_MIN = UserBase * EXB_PAGE          \* the layout of exb.h and paging.h:
    /\ EXB_VA_LIMIT \div EXB_PAGE <= UserTop - 1 - EXB_MAX_STACK_PAGES

VARIABLES
    bits,       \* the allocator's free frames
    mem,        \* page tables by frame
    table,      \* g_table
    hint,       \* g_next_hint
    g_maps,     \* the mapping records
    spaces,     \* the XAspace of each owner
    quota,      \* g_quota
    cur,        \* g_as: the owner whose space is in CR3, or Kernel's own map
    tlb,        \* translations the CPU holds for the space in CR3
    calls     \* how many of the calls MaxCalls bounds were made

vars == <<bits, mem, table, hint, g_maps, spaces, quota, cur, tlb, calls>>

None == "none"
Absent == [phys |-> 0, write |-> FALSE, nx |-> FALSE]   \* XPT_PRESENT clear
EmptyTable == [i \in 0 .. (Fan - 1) |-> Absent]
FreeEntry(gen) == [live |-> FALSE, gen |-> gen, owner |-> None, rights |-> {},
                   phys |-> 0, n |-> 0, map_count |-> 0]
NoRec == [live |-> FALSE, as_pml4 |-> 0, owner |-> None, virt |-> 0,
          tok |-> [slot |-> 0, gen |-> 0], pages |-> 0]
NoSpace == [state |-> "dead", pml4 |-> 0]

Kernel == [bits |-> bits, mem |-> mem, table |-> table, hint |-> hint,
           g_maps |-> g_maps, tlb |-> tlb,
           rc |-> "ok", tok |-> NoRec.tok, at |-> 0]

\* The state after a kernel call.
Becomes(k) ==
    /\ bits' = k.bits /\ mem' = k.mem /\ table' = k.table /\ hint' = k.hint
    /\ g_maps' = k.g_maps /\ tlb' = k.tlb

Init ==
    /\ bits = RamFrames
    /\ mem = [f \in RamFrames \cup {KernelTable} |-> EmptyTable]
    /\ table = [s \in Slots |-> FreeEntry(1)]
    /\ hint = 0
    /\ g_maps = [i \in 1 .. NRecs |-> NoRec]
    /\ spaces = [o \in Owners |-> NoSpace]
    /\ quota = [o \in Owners |-> DefaultQuota]
    /\ cur = None
    /\ tlb = {}
    /\ calls = 0

-----------------------------------------------------------------------------
(* The ledger and the allocator, called by one CPU.                        *)

Span(s, n) == s .. (s + n - 1)
Fits(k, n) == {s \in k.bits : Span(s, n) \subseteq k.bits}

\* lookup_live: a live slot of the token's generation.
LookupLive(k, tok) == k.table[tok.slot].live /\ k.table[tok.slot].gen = tok.gen

\* The turns of claim_slot's search, from the hint around the table, that meet
\* a free slot; the first of them ends it.
Claimable(k) == {i \in Slots : ~k.table[(k.hint + i) % NSlots].live}
ClaimSlot(k) == (k.hint + Min(Claimable(k))) % NSlots

\* A full table gives the frames, already cleared, back.
xtok_alloc_ram(k, o, n, rights) ==
    IF Fits(k, n) = {} THEN [k EXCEPT !.rc = "nomem"]
    ELSE LET f == Min(Fits(k, n))
             s == ClaimSlot(k)
             zeroed == [k EXCEPT !.mem = [g \in DOMAIN @ |-> IF g \in Span(f, n)
                                                             THEN EmptyTable ELSE @[g]]] IN
         IF Claimable(k) = {} THEN [zeroed EXCEPT !.rc = "nomem"]
         ELSE
         [zeroed EXCEPT
                   !.bits = @ \ Span(f, n),
                   !.table[s] = [@ EXCEPT !.live = TRUE, !.owner = o, !.rights = rights,
                                          !.phys = f, !.n = n],
                   !.hint = (s + 1) % NSlots,
                   !.rc = "ok",
                   !.tok = [slot |-> s, gen |-> k.table[s].gen]]

\* release_impl after its checks; xtok_reclaim checks nothing but the pin.
xtok_reclaim(k, tok) ==
    LET e == k.table[tok.slot] IN
    IF ~LookupLive(k, tok) \/ e.map_count # 0 THEN [k EXCEPT !.rc = "busy"]
    ELSE [k EXCEPT !.table[tok.slot] = FreeEntry(IF e.gen + 1 = GenMod THEN 1 ELSE e.gen + 1),
                   !.bits = @ \cup Span(e.phys, e.n),
                   !.rc = "ok"]

xtok_release_owned(k, tok, o) ==
    IF /\ LookupLive(k, tok)
       /\ k.table[tok.slot].owner = o
       /\ "RELEASE" \in k.table[tok.slot].rights
    THEN xtok_reclaim(k, tok)
    ELSE [k EXCEPT !.rc = "badtoken"]

MapAllowed(k, tok, o, need) ==
    LET e == k.table[tok.slot] IN
    /\ LookupLive(k, tok)
    /\ e.owner = o
    /\ need \subseteq e.rights
    /\ e.map_count # MaxMap

xtok_map_release(k, tok) ==
    IF LookupLive(k, tok) /\ k.table[tok.slot].map_count > 0
    THEN [k EXCEPT !.table[tok.slot].map_count = @ - 1]
    ELSE k

OwnedSlots(k, o) == {s \in Slots : k.table[s].live /\ k.table[s].owner = o}

\* xtok_owner_usage.
FramesOf(k, o) ==
    LET mine == OwnedSlots(k, o)
        sum[s \in 0 .. NSlots] ==
          IF s = 0 THEN 0
          ELSE sum[s - 1] + (IF s - 1 \in mine THEN k.table[s - 1].n ELSE 0)
    IN  sum[NSlots]
TokensOf(k, o) == Cardinality(OwnedSlots(k, o))

-----------------------------------------------------------------------------
(* Page tables.                                                            *)

Index(va, level) == (va \div Reach(level)) % Fan

\* at is the frame, 0 when there is none.
alloc_zero_table(k) ==
    IF k.bits = {} THEN [k EXCEPT !.at = 0]
    ELSE [k EXCEPT !.bits = @ \ {Min(k.bits)},
                   !.mem[Min(k.bits)] = EmptyTable,
                   !.at = Min(k.bits)]

\* k.at is the table of the level above, and becomes the one below it.
next_level(k, idx) ==
    LET t == k.at  e == k.mem[t][idx] IN
    IF e # Absent THEN [k EXCEPT !.at = e.phys]
    ELSE LET a == alloc_zero_table(k) IN
         IF a.at = 0 THEN a
         ELSE [a EXCEPT !.mem[t][idx] = [phys |-> a.at, write |-> TRUE, nx |-> FALSE]]

\* The page table for va under root, 0 if a level is absent.
walk_pte(k, root, va) ==
    LET Enter(t, level) == IF t = 0 THEN 0 ELSE k.mem[t][Index(va, level)].phys
    IN  Enter(Enter(Enter(root, 3), 2), 1)

map_page(k, root, va, e) ==
    LET Enter(m, level) == IF m.at = 0 THEN m ELSE next_level(m, Index(va, level))
        down == Enter(Enter(Enter([k EXCEPT !.at = root], 3), 2), 1)
        pt == down.at IN
    IF pt = 0 THEN [down EXCEPT !.rc = "nomem"]
    ELSE IF down.mem[pt][Index(va, 0)] # Absent THEN [down EXCEPT !.rc = "busy"]
    ELSE [down EXCEPT !.mem[pt][Index(va, 0)] = e, !.rc = "ok"]

\* Mutant: the translation stays in the TLB.
UnmapWithoutInvlpg(k, root, va) ==
    LET pt == walk_pte(k, root, va) IN
    IF pt = 0 \/ k.mem[pt][Index(va, 0)] = Absent THEN k
    ELSE [k EXCEPT !.mem[pt][Index(va, 0)] = Absent]

\* One turn of unmap_pages; invlpg drops the page from the TLB of this CPU.
UnmapPage(k, root, va) ==
    LET pt == walk_pte(k, root, va) IN
    IF pt = 0 \/ k.mem[pt][Index(va, 0)] = Absent THEN k
    ELSE [k EXCEPT !.mem[pt][Index(va, 0)] = Absent,
                   !.tlb = {t \in @ : t.va # va}]

unmap_pages(k, root, va, n) ==
    LET after[i \in 0 .. n] == IF i = 0 THEN k ELSE UnmapPage(after[i - 1], root, va + i - 1)
    IN  after[n]

drop_record(k, i) ==
    LET r == k.g_maps[i]
        unmapped == unmap_pages(k, r.as_pml4, r.virt, r.pages) IN
    [xtok_map_release(unmapped, r.tok) EXCEPT !.g_maps[i] = NoRec]

\* The records D, dropped in the order of the table.
DropRecords(k, D) ==
    LET after[i \in 0 .. NRecs] ==
          IF i = 0 THEN k
          ELSE IF i \in D THEN drop_record(after[i - 1], i) ELSE after[i - 1]
    IN  after[NRecs]

Need(perms) ==
    {"MAP", "READ"} \cup (IF "W" \in perms THEN {"WRITE"} ELSE {})
                    \cup (IF "X" \in perms THEN {"EXECUTE"} ELSE {})

Leaf(f, perms) == [phys |-> f, write |-> "W" \in perms, nx |-> "X" \notin perms]

\* Mutant: the rollback misses the last page it mapped.
RollBackShort(k, root, va, i, tok) ==
    [xtok_map_release(unmap_pages(k, root, va, IF i = 0 THEN 0 ELSE i - 1), tok) EXCEPT !.rc = k.rc]

\* What xas_map undoes, in this call only, when page i (from 0) could not be mapped.
RollBack(k, root, va, i, tok) ==
    [xtok_map_release(unmap_pages(k, root, va, i), tok) EXCEPT !.rc = k.rc]

\* One turn of xas_map's page loop; after a page that could not be mapped the
\* loop is over.
MapTurn(m, i, root, virt, tok, perms) ==
    LET p == map_page(m, root, virt + i - 1, Leaf(m.table[tok.slot].phys + i - 1, perms)) IN
    IF m.rc # "ok" THEN m
    ELSE IF p.rc = "ok" THEN p
    ELSE RollBack(p, root, virt, i - 1, tok)

MapLoop(k, n, root, virt, tok, perms) ==
    LET after[i \in 0 .. n] == IF i = 0 THEN [k EXCEPT !.rc = "ok"]
                               ELSE MapTurn(after[i - 1], i, root, virt, tok, perms)
    IN  after[n]

\* xas_map once the token is pinned: the page loop and the record.
MapPages(k, root, o, virt, tok, perms) ==
    LET n == k.table[tok.slot].n
        free == {i \in 1 .. NRecs : ~k.g_maps[i].live}
        mapped == MapLoop(k, n, root, virt, tok, perms) IN
    IF n = 0 \/ n > UserTop - virt THEN [xtok_map_release(k, tok) EXCEPT !.rc = "range"]
    ELSE IF free = {} THEN [xtok_map_release(k, tok) EXCEPT !.rc = "nomem"]
    ELSE IF mapped.rc # "ok" THEN mapped
    ELSE [mapped EXCEPT !.g_maps[Min(free)] =
            [live |-> TRUE, as_pml4 |-> root, owner |-> o, virt |-> virt,
             tok |-> tok, pages |-> n]]

xas_map(k, root, o, virt, tok, perms) ==
    LET mine == Cardinality({i \in 1 .. NRecs : k.g_maps[i].live /\ k.g_maps[i].owner = o}) IN
    IF \/ perms = {} \/ {"W", "X"} \subseteq perms
       \/ virt < UserBase \/ virt >= UserTop
       \/ mine >= OwnerRecs
       \/ ~MapAllowed(k, tok, o, Need(perms))
    THEN [k EXCEPT !.rc = "refused"]
    ELSE MapPages([k EXCEPT !.table[tok.slot].map_count = @ + 1], root, o, virt, tok, perms)

\* The first record of the table that starts at virt.
xas_unmap(k, root, virt) ==
    LET at == {i \in 1 .. NRecs : /\ k.g_maps[i].live
                                  /\ k.g_maps[i].as_pml4 = root
                                  /\ k.g_maps[i].virt = virt} IN
    IF at = {} THEN [k EXCEPT !.rc = "notmapped"] ELSE drop_record(k, Min(at))

\* Mutant: nothing is unmapped.
RevokeNothing(k, tok) == k

xas_revoke_token(k, tok) ==
    DropRecords(k, {i \in 1 .. NRecs : k.g_maps[i].live /\ k.g_maps[i].tok = tok})

RecordsOf(k, root) == {i \in 1 .. NRecs : k.g_maps[i].live /\ k.g_maps[i].as_pml4 = root}

Below(k, f) == {k.mem[f][i].phys : i \in {j \in DOMAIN k.mem[f] : k.mem[f][j] # Absent}}
UserEntries(k, root) ==
    {k.mem[root][i].phys : i \in {j \in 1 .. (KernelHalf - 1) : k.mem[root][j] # Absent}}

\* The frames of the user half of a page-table tree: root, PDPTs, PDs, PTs.
Tree(k, root) ==
    LET pdpts == UserEntries(k, root)
        pds == UNION {Below(k, f) : f \in pdpts}
        pts == UNION {Below(k, f) : f \in pds} IN
    {root} \cup pdpts \cup pds \cup pts

\* Mutant: the page tables of the lowest level are forgotten.
DestroyKeepsPts(k, root) ==
    LET dropped == DropRecords(k, RecordsOf(k, root))
        pdpts == UserEntries(dropped, root) IN
    [dropped EXCEPT !.bits = @ \cup {root} \cup pdpts \cup UNION {Below(dropped, f) : f \in pdpts}]

xas_destroy(k, root) ==
    LET dropped == DropRecords(k, RecordsOf(k, root)) IN
    [dropped EXCEPT !.bits = @ \cup Tree(dropped, root)]

-----------------------------------------------------------------------------
(* The loader.                                                             *)

quota_of(o) == quota[o]

xlb_quota_ok(k, o, frames, tokens) ==
    /\ FramesOf(k, o) <= quota_of(o).frames
    /\ TokensOf(k, o) <= quota_of(o).tokens
    /\ frames <= quota_of(o).frames - FramesOf(k, o)
    /\ tokens <= quota_of(o).tokens - TokensOf(k, o)

SegRights(perms) == Need(perms) \cup {"RELEASE"}

\* The segments of a parsed image, then its stack, below the guard page.
Pieces(info) ==
    Append(info.segs, [va |-> UserTop - 1 - info.stack, pages |-> info.stack, perms |-> {"R", "W"}])

\* The two loops of rollback, from the last entry down.
UnmapAll(k, root, vas) ==
    LET after[i \in 0 .. Len(vas)] ==
          IF i = 0 THEN k ELSE xas_unmap(after[i - 1], root, vas[Len(vas) + 1 - i])
    IN  after[Len(vas)]
ReleaseAll(k, toks) ==
    LET after[i \in 0 .. Len(toks)] ==
          IF i = 0 THEN k ELSE xtok_reclaim(after[i - 1], toks[Len(toks) + 1 - i])
    IN  after[Len(toks)]

\* Mutant: tokens are released while they are mapped.
ReleaseFirst(k, root, toks, vas) ==
    [UnmapAll(ReleaseAll(k, toks), root, vas) EXCEPT !.rc = "failed"]

\* Unmap in reverse, then release in reverse.
rollback(k, root, toks, vas) ==
    [ReleaseAll(UnmapAll(k, root, vas), toks) EXCEPT !.rc = "failed"]

\* One turn of the loader: t is the transaction [k, toks, vas].  The piece gets
\* its frames, then its pages.
LoadMapped(t, m, root, toks, va) ==
    IF m.rc # "ok" THEN [t EXCEPT !.k = rollback(m, root, toks, t.vas)]
    ELSE [k |-> m, toks |-> toks, vas |-> Append(t.vas, va)]
LoadPiece(t, o, root, p) ==
    LET a == xtok_alloc_ram(t.k, o, p.pages, SegRights(p.perms)) IN
    IF t.k.rc = "failed" THEN t
    ELSE IF a.rc = "nomem" THEN [t EXCEPT !.k = rollback(a, root, t.toks, t.vas)]
    ELSE LoadMapped(t, xas_map(a, root, o, p.va, a.tok, p.perms), root, Append(t.toks, a.tok), p.va)

PagesOf(pieces) ==
    LET sum[i \in 0 .. Len(pieces)] == IF i = 0 THEN 0 ELSE sum[i - 1] + pieces[i].pages
    IN  sum[Len(pieces)]

LoadAll(k, o, root, pieces) ==
    LET after[i \in 0 .. Len(pieces)] ==
          IF i = 0 THEN [k |-> [k EXCEPT !.rc = "ok"], toks |-> <<>>, vas |-> <<>>]
          ELSE LoadPiece(after[i - 1], o, root, pieces[i])
    IN  after[Len(pieces)].k

\* The image is untrusted until exb_parse has accepted it.
LoadImage(k, o, root, img) ==
    LET p == exb_parse(img)
        pieces == Pieces(p.info) IN
    IF p.rc # "ok" \/ ~xlb_quota_ok(k, o, PagesOf(pieces), Len(pieces))
    THEN [k EXCEPT !.rc = "failed"]
    ELSE LoadAll(k, o, root, pieces)

-----------------------------------------------------------------------------
(* What the kernel does for an owner o.                                    *)

Root(o) == spaces[o].pml4

\* In the copied kernel half only PML4[0] matters here.
xas_create(o) ==
    LET k == alloc_zero_table(Kernel) IN
    /\ cur = None
    /\ spaces[o].state = "dead"
    /\ calls < MaxCalls
    /\ k.at # 0
    /\ Becomes([k EXCEPT !.mem[k.at][0] = [phys |-> KernelTable, write |-> TRUE, nx |-> FALSE]])
    /\ spaces' = [spaces EXCEPT ![o] = [state |-> "empty", pml4 |-> k.at]]
    /\ calls' = calls + 1
    /\ UNCHANGED <<quota, cur>>

\* The caller gives up on a space whose load failed.
xload_exb(o, img) ==
    LET k == LoadImage(Kernel, o, Root(o), img) IN
    /\ cur = None
    /\ spaces[o].state = "empty"
    /\ Becomes(k)
    /\ spaces' = [spaces EXCEPT ![o].state = IF k.rc = "ok" THEN "ready" ELSE "failed"]
    /\ UNCHANGED <<quota, cur, calls>>

\* cmd_run_main after a failed load.
Discard(o) ==
    /\ cur = None
    /\ spaces[o].state = "failed"
    /\ Becomes(xas_destroy(Kernel, Root(o)))
    /\ spaces' = [spaces EXCEPT ![o] = NoSpace]
    /\ UNCHANGED <<quota, cur, calls>>

xproc_set_quota(o, q) ==
    /\ cur = None
    /\ quota' = [quota EXCEPT ![o] = q]
    /\ UNCHANGED <<bits, mem, table, hint, g_maps, spaces, cur, tlb, calls>>

\* Loading CR3 empties the TLB: no PCIDs, no global user pages.
xproc_run_ctx(o) ==
    /\ cur = None
    /\ spaces[o].state = "ready"
    /\ cur' = o
    /\ tlb' = {}
    /\ UNCHANGED <<bits, mem, table, hint, g_maps, spaces, quota, calls>>

\* user_hook and irq_hook, to xproc_leave_asm: after an exit or a fault the
\* caller does not resume the program.
Leave(o, ended) ==
    /\ cur = o
    /\ cur' = None
    /\ tlb' = {}
    /\ spaces' = [spaces EXCEPT ![o].state = IF ended THEN "ended" ELSE @]
    /\ UNCHANGED <<bits, mem, table, hint, g_maps, quota, calls>>

\* Up to ListMax tokens of the owner, lowest slots first.
xtok_owner_tokens(k, o) ==
    {[slot |-> s, gen |-> k.table[s].gen] :
       s \in {t \in OwnedSlots(k, o) :
               Cardinality({r \in OwnedSlots(k, o) : r < t}) < ListMax}}

\* One turn of xproc_reap's outer loop: the tokens of the list, slot by slot.
ReapBatch(k, o) ==
    LET listed == xtok_owner_tokens(k, o)
        tok(s) == [slot |-> s, gen |-> k.table[s].gen]
        after[s \in 0 .. NSlots] ==
          IF s = 0 THEN k
          ELSE IF tok(s - 1) \in listed
               THEN xtok_reclaim(xas_revoke_token(after[s - 1], tok(s - 1)), tok(s - 1))
               ELSE after[s - 1]
    IN  after[NSlots]

\* A turn that lists nothing or reclaims nothing is the last, and any further
\* one changes nothing either.
ReapTokens(k, o) ==
    LET after[i \in 0 .. NSlots] == IF i = 0 THEN k ELSE ReapBatch(after[i - 1], o)
    IN  after[NSlots]

\* cmd_run_main reaps a program that ended, or that used up its slices.
xproc_reap(o) ==
    /\ cur = None
    /\ spaces[o].state \in {"ready", "ended"}
    /\ Becomes(xas_destroy(ReapTokens(Kernel, o), Root(o)))
    /\ spaces' = [spaces EXCEPT ![o] = NoSpace]
    /\ UNCHANGED <<quota, cur, calls>>

-----------------------------------------------------------------------------
(* What a running program does.                                            *)

\* Mutant: the quota admits one token too many.
AllowanceOffByOne(k, o, n) ==
    /\ TokensOf(k, o) <= quota_of(o).tokens
    /\ n <= quota_of(o).frames /\ FramesOf(k, o) <= quota_of(o).frames - n

\* The two comparisons of sys_alloc.
WithinQuota(k, o, n) ==
    /\ TokensOf(k, o) < quota_of(o).tokens
    /\ n <= quota_of(o).frames /\ FramesOf(k, o) <= quota_of(o).frames - n

sys_alloc(o, n, rights) ==
    /\ cur = o
    /\ n > 0 /\ rights # {}
    /\ WithinQuota(Kernel, o, n)
    /\ calls < MaxCalls
    /\ Becomes(xtok_alloc_ram(Kernel, o, n, rights))
    /\ calls' = calls + 1
    /\ UNCHANGED <<spaces, quota, cur>>

sys_map(o, va, tok, perms) ==
    /\ cur = o
    /\ Becomes(xas_map(Kernel, Root(o), o, va, tok, perms))
    /\ UNCHANGED <<spaces, quota, cur, calls>>

sys_unmap(o, va) ==
    /\ cur = o
    /\ Becomes(xas_unmap(Kernel, Root(o), va))
    /\ UNCHANGED <<spaces, quota, cur, calls>>

sys_free(o, tok) ==
    /\ cur = o
    /\ Becomes(xtok_release_owned(Kernel, tok, o))
    /\ UNCHANGED <<spaces, quota, cur, calls>>

\* What the tables translate a user page to.
Translation(root, va) ==
    LET pt == walk_pte(Kernel, root, va) IN
    IF pt = 0 THEN Absent ELSE mem[pt][Index(va, 0)]

\* The program touches a page: the CPU walks the tables and keeps the result.
\* The kernel's entries lack XPT_USER, so that it reaches user pages only.
Touch(o, va) ==
    /\ cur = o
    /\ va >= UserBase /\ va < UserTop
    /\ Translation(Root(o), va) # Absent
    /\ tlb' = tlb \cup {[va |-> va, pte |-> Translation(Root(o), va)]}
    /\ UNCHANGED <<bits, mem, table, hint, g_maps, spaces, quota, cur, calls>>

-----------------------------------------------------------------------------
KernelStep(o) ==
    \/ xas_create(o)
    \/ \E img \in Images : xload_exb(o, img)
    \/ Discard(o)
    \/ \E q \in Quotas : xproc_set_quota(o, q)
    \/ xproc_run_ctx(o)
    \/ xproc_reap(o)

ProgramStep(o) ==
    \/ \E n \in Sizes, r \in RightSets : sys_alloc(o, n, r)
    \/ \E va \in Vas, tok \in Tokens, p \in PermSets : sys_map(o, va, tok, p)
    \/ \E va \in Vas : sys_unmap(o, va)
    \/ \E tok \in Tokens : sys_free(o, tok)
    \/ \E va \in Vas : Touch(o, va)
    \/ \E ended \in BOOLEAN : Leave(o, ended)

Next == \E o \in Owners : KernelStep(o) \/ ProgramStep(o)

Spec == Init /\ [][Next]_vars

-----------------------------------------------------------------------------
(* What the kernel promises.                                               *)

\* What exb_parse accepts is an image of the format that can be loaded: its
\* segments and stack lie in user space, apart and below the guard page.
Loadable(info) ==
    LET at == [i \in DOMAIN Pieces(info) |-> Span(Pieces(info)[i].va, Pieces(info)[i].pages)] IN
    /\ Len(at) <= EXB_MAX_SEGS + 1
    /\ Apart(at)
    /\ \A i \in DOMAIN at : at[i] # {} /\ at[i] \subseteq UserBase .. (UserTop - 2)

Misjudged ==
    {x \in RawImages : LET p == exb_parse(x) IN
        \/ (p.rc = "ok") # ValidImage(x)
        \/ p.rc = "ok" /\ ~Loadable(p.info)}

\* Whenever a space awaits its image, exb_parse accepts a file exactly when it
\* is an image of the format, stated over the bytes and pages it claims instead
\* of over pairs of bounds; and what it accepts can be loaded: the segments and
\* the stack lie in user space, apart from each other and below the guard page,
\* no more of them than the loader's transaction has room for (LOAD_MAX_HELD).
ParserExact == (\E o \in Owners : spaces[o].state = "empty") => Misjudged = {}

LiveSpaces == {o \in Owners : spaces[o].state # "dead"}
LiveSlots == {s \in Slots : table[s].live}
LiveRecs == {i \in DOMAIN g_maps : g_maps[i].live}
TokenFrames(s) == Span(table[s].phys, table[s].n)

\* Every frame of RAM is free, or in one live token, or a page table of one
\* live space, and never two of these; no other frame is ever free (the
\* kernel's tables, shared through PML4[0], are not given back).
FramesAccounted ==
    LET tokens == UNION {TokenFrames(s) : s \in LiveSlots}
        tables == UNION {Tree(Kernel, Root(o)) : o \in LiveSpaces} IN
    /\ bits \cup tokens \cup tables = RamFrames
    /\ bits \cap tokens = {} /\ bits \cap tables = {} /\ tokens \cap tables = {}
    /\ \A s, t \in LiveSlots : s # t => TokenFrames(s) \cap TokenFrames(t) = {}
    /\ \A o, p \in LiveSpaces :
         o # p => Tree(Kernel, Root(o)) \cap Tree(Kernel, Root(p)) = {}

\* Page tables, mapping records and ledger agree, whatever failed half way:
\* a page is present exactly when a record covers it and then shows that
\* token's frame; the token is live, belongs to the space's owner and carries
\* the rights for the page's permissions; no page is writable and
\* executable; and map_count counts the records.
TablesMatchRecords ==
    /\ \A o \in LiveSpaces : \A va \in UserBase .. (UserTop - 1) :
         LET e == Translation(Root(o), va)
             over == {i \in LiveRecs : /\ g_maps[i].as_pml4 = Root(o)
                                       /\ va \in Span(g_maps[i].virt, g_maps[i].pages)} IN
         /\ Cardinality(over) = (IF e = Absent THEN 0 ELSE 1)
         /\ \A i \in over :
              LET t == table[g_maps[i].tok.slot] IN
              /\ e.phys = t.phys + (va - g_maps[i].virt)
              /\ t.owner = o
              /\ "MAP" \in t.rights
              /\ e.write => "WRITE" \in t.rights /\ e.nx
              /\ ~e.nx => "EXECUTE" \in t.rights
    /\ \A i \in LiveRecs : LookupLive(Kernel, g_maps[i].tok)
    /\ \A s \in Slots :
         table[s].map_count = Cardinality({i \in LiveRecs : g_maps[i].tok.slot = s})

\* A program never reaches a page through a translation its tables no
\* longer hold: invlpg in unmap_pages and the CR3 loads are enough, although
\* frames are given back as soon as they are unmapped.
NoStaleTranslation ==
    /\ cur = None => tlb = {}
    /\ \A t \in tlb : Translation(Root(cur), t.va) = t.pte

\* A step that gives an owner more frames or more tokens leaves it within
\* its quota, also when the kernel lowers the quota under what the owner
\* already holds (sys_alloc, xlb_quota_ok).
QuotaHeld ==
    [][\A o \in Owners :
         LET more == Kernel' IN
         /\ FramesOf(more, o) > FramesOf(Kernel, o) => FramesOf(more, o) <= quota[o].frames
         /\ TokensOf(more, o) > TokensOf(Kernel, o) => TokensOf(more, o) <= quota[o].tokens]_vars

\* When a space goes away (reaped at any moment, with any mappings and pins,
\* or discarded), its owner keeps no token, no record names the space, and
\* every frame the two had is free again; other owners lose nothing.
ReapLeavesNothing ==
    [][\A o \in Owners : o \in LiveSpaces /\ spaces'[o].state = "dead" =>
         /\ \A s \in Slots : table'[s].live => table'[s].owner # o
         /\ \A i \in DOMAIN g_maps : g_maps'[i] = (IF g_maps[i].owner = o THEN NoRec ELSE g_maps[i])
         /\ bits' = bits \cup Tree(Kernel, Root(o))
                         \cup UNION {TokenFrames(s) : s \in OwnedSlots(Kernel, o)}]_vars

\* "On ANY failure, nothing the loader did remains" (xload.h): after a failed
\* load the same tokens are live with the same pins, the records are as
\* before and every space shows the same pages.  Only page tables built on
\* the way stay, with their space, until it is destroyed.
FailedLoadLeavesNothing ==
    [][\A o \in Owners : spaces[o].state = "empty" /\ spaces'[o].state = "failed" =>
         /\ LiveSlots' = LiveSlots
         /\ \A s \in LiveSlots : table'[s] = table[s]
         /\ g_maps' = g_maps
         /\ \A p \in LiveSpaces : \A va \in UserBase .. (UserTop - 1) :
              Translation(Root(p), va)' = Translation(Root(p), va)]_vars
=============================================================================
