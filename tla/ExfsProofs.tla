----------------------------- MODULE ExfsProofs -----------------------------
(***************************************************************************)
(* Proofs about Exfs (core/exfs).                                          *)
(*                                                                         *)
(* First: every call ends, wherever a device error hits it.  What the      *)
(* loops of the code need in general, then the shapes of the running call  *)
(* and of the group map, which every action keeps, then each action as the *)
(* cases of its outcome, and the order in which a call moves forward.      *)
(*                                                                         *)
(* Then the volume: one inductive invariant, Inv, that says of every state *)
(* what the map, the files, the blocks waiting for a commit and the        *)
(* running call hold in memory, and which tree the disk holds whatever     *)
(* happens next.  From it follow that the map is exact, that the tree on   *)
(* disk is whole at every step of every call, crashes included, and that   *)
(* what a commit reported as saved is what the disk holds.                 *)
(***************************************************************************)
EXTENDS Exfs, FiniteSetTheorems, WellFoundedInduction, SequenceTheorems, TLAPS

-----------------------------------------------------------------------------
(* Least elements, induction and loops, and division.                      *)

\* A set of naturals that is not empty has a least element, and Min finds it.
LEMMA Least ==
  ASSUME NEW T, T \subseteq Nat, T # {}
  PROVE  Min(T) \in T /\ \A y \in T : Min(T) <= y
<1>1. PICK x \in T : \A y \in T : ~(<<y, x>> \in OpToRel(<, Nat))
  BY NatLessThanWellFounded, WFMin
<1>2. OpToRel(<, Nat) = {ss \in Nat \X Nat : ss[1] < ss[2]} BY DEF OpToRel
<1>3. \A y \in T : ~(y < x) BY <1>1, <1>2
<1>4. \E z \in T : \A y \in T : z <= y BY <1>3
<1> QED BY <1>4 DEF Min

\* Induction over the positions of a loop.
LEMMA Ind ==
  ASSUME NEW n \in Nat, NEW S, NEW f, f[0] \in S[0],
         \A i \in 1 .. n : f[i - 1] \in S[i - 1] => f[i] \in S[i]
  PROVE  \A i \in 0 .. n : f[i] \in S[i]
<1> DEFINE T == {i \in 0 .. n : f[i] \notin S[i]}
<1> SUFFICES ASSUME T # {} PROVE FALSE OBVIOUS
<1>1. T \subseteq Nat OBVIOUS
<1>2. PICK x \in T : \A y \in T : x <= y
  <2> HIDE DEF T
  <2> QED BY <1>1, Least
<1> HIDE DEF T
<1>3. x \in 0 .. n /\ f[x] \notin S[x] BY <1>2 DEF T
<1>4. x # 0 BY <1>3
<1>5. x - 1 \in 0 .. n /\ x \in 1 .. n /\ ~(x <= x - 1) BY <1>3, <1>4
<1>6. x - 1 \notin T BY <1>5, <1>2
<1>7. f[x - 1] \in S[x - 1] BY <1>5, <1>6 DEF T
<1> QED BY <1>7, <1>5, <1>3

\* A loop with the states S[i] after turn i, when its turns are functions.
Closed(n, S, G) == \A i \in 1 .. n : \A s \in S[i - 1] : G[i][s] \in S[i]
\* h is the run of the loop with the turns G from b, within S.
Runs(h, n, b, G, S) ==
    /\ h = [i \in 0 .. n |-> IF i = 0 THEN b ELSE G[i][h[i - 1]]]
    /\ \A i \in 0 .. n : i = 0 \/ (i \in 1 .. n /\ h[i - 1] \in S[i - 1])

\* The first, the last and the other turns of a loop.
LEMMA Turns ==
  ASSUME NEW n \in Nat
  PROVE  /\ 0 \in 0 .. n /\ n \in 0 .. n
         /\ \A i \in 1 .. n : i \in 0 .. n /\ i # 0 /\ i - 1 \in 0 .. n
         /\ \A i \in 0 .. n : i # 0 => i \in 1 .. n
OBVIOUS

\* A loop whose turns keep within S has a run, and it stays within S.
LEMMA Iter ==
  ASSUME NEW n \in Nat, NEW S, NEW b \in S[0], NEW G, Closed(n, S, G)
  PROVE  \E h : Runs(h, n, b, G, S)
<1> DEFINE Ok(m, h) == Runs(h, m, b, G, S) /\ h[m] \in S[m]
           K == [m \in 0 .. n |-> m]
           W == [m \in 0 .. n |-> {k \in {m} : \E h : Ok(m, h)}]
<1>1. \E h : Ok(0, h)
  <2> DEFINE h == [i \in 0 .. 0 |-> b]
  <2>1. h = [i \in 0 .. 0 |-> IF i = 0 THEN b ELSE G[i][h[i - 1]]] /\ h[0] = b OBVIOUS
  <2> HIDE DEF h
  <2>2. Ok(0, h) BY <2>1 DEF Runs
  <2> QED BY <2>2
<1>2. ASSUME NEW m \in 1 .. n, NEW h, Ok(m - 1, h) PROVE \E e : Ok(m, e)
  <2> DEFINE e == [i \in 0 .. m |-> IF i = m THEN G[m][h[m - 1]] ELSE h[i]]
  <2>1. /\ m \in Nat /\ m # 0 /\ m - 1 \in Nat /\ m \in 0 .. m /\ m - 1 \in 0 .. m /\ m - 1 # m
        /\ \A i \in 0 .. m : i # m => i \in 0 .. (m - 1) /\ i \in 0 .. m
        /\ \A i \in 1 .. m : i # m => i \in 1 .. (m - 1) /\ i - 1 \in 0 .. m /\ i - 1 # m
    OBVIOUS
  <2>2. e[m] = G[m][h[m - 1]] /\ \A i \in 0 .. m : i # m => e[i] = h[i] BY <2>1
  <2>3. e = [i \in 0 .. m |-> e[i]] OBVIOUS
  <2> HIDE DEF e
  <2>4. ASSUME NEW i \in 0 .. m, i # 0 PROVE i \in 1 .. m /\ e[i] = G[i][e[i - 1]] /\ e[i - 1] \in S[i - 1]
    <3>1. i \in 1 .. m BY <2>1, <2>4
    <3>2. CASE i = m BY <3>1, <3>2, <1>2, <2>1, <2>2
    <3>3. CASE i # m BY <3>1, <3>3, <1>2, <2>1, <2>2, <2>4 DEF Runs
    <3> QED BY <3>1, <3>2, <3>3
  <2>5. e[0] = b BY <2>1, <2>2, <1>2, Turns DEF Runs
  <2>6. e = [i \in 0 .. m |-> IF i = 0 THEN b ELSE G[i][e[i - 1]]] BY <2>3, <2>4, <2>5
  <2>7. e[m] \in S[m] BY <2>2, <1>2 DEF Closed
  <2>8. Ok(m, e) BY <2>4, <2>6, <2>7 DEF Runs
  <2> QED BY <2>8
<1> HIDE DEF Ok
<1>3. K[0] \in W[0] /\ \A m \in 1 .. n : K[m - 1] \in W[m - 1] => K[m] \in W[m] BY <1>1, <1>2, Turns
<1>4. \A m \in 0 .. n : K[m] \in W[m]
  <2> HIDE DEF K, W
  <2> QED BY <1>3, Ind
<1>5. \E h : Ok(n, h) BY <1>4, Turns
<1> QED BY <1>5 DEF Ok

\* Division with a remainder.
LEMMA DivMod ==
  ASSUME NEW a \in Nat, NEW b \in Nat, b > 0
  PROVE  /\ a \div b \in Nat /\ a % b \in Nat /\ a % b < b
         /\ a = b * (a \div b) + (a % b)
<1>1. a \div b \in Nat OBVIOUS
<1>2. a % b \in Nat /\ a % b < b OBVIOUS
<1>3. a = b * (a \div b) + (a % b) BY SMTT(30)
<1> QED BY <1>1, <1>2, <1>3

\* What is larger by a whole divisor has a larger quotient.
LEMMA DivLess ==
  ASSUME NEW b \in Nat, b > 0, NEW u \in Nat, NEW k \in Nat, u < k
  PROVE  b * u + b <= b * k
<1>1. PICK e \in Nat : k = u + 1 + e
  <2>1. k - u - 1 \in Nat /\ k = u + 1 + (k - u - 1) OBVIOUS
  <2> QED BY <2>1
<1>2. b * k = b * u + b + b * e BY <1>1
<1>3. b * e \in Nat /\ b * u \in Nat BY <1>1
<1> QED BY <1>2, <1>3

\* A quotient and a remainder are the only ones.
LEMMA DivUnique ==
  ASSUME NEW b \in Nat, b > 0, NEW k \in Nat, NEW r \in Nat, r < b
  PROVE  (b * k + r) % b = r /\ (b * k + r) \div b = k
<1> DEFINE a == b * k + r
           u == a \div b
           s == a % b
<1>1. a \in Nat /\ b * k \in Nat BY SMTT(30)
<1>2. u \in Nat /\ s \in Nat /\ s < b /\ a = b * u + s BY <1>1, DivMod
<1>3. b * k + r = b * u + s BY <1>2
<1> HIDE DEF u, s, a
<1>4. b * u \in Nat BY <1>2
<1>5. ~(u < k) BY <1>1, <1>2, <1>3, <1>4, DivLess
<1>6. ~(k < u) BY <1>1, <1>2, <1>3, <1>4, DivLess
<1>7. u = k BY <1>2, <1>5, <1>6
<1>8. s = r BY <1>1, <1>2, <1>3, <1>7
<1> QED BY <1>7, <1>8 DEF u, s, a

-----------------------------------------------------------------------------
(* Calls end.                                                              *)

\* A job has its fields, and those that measure its progress are numbers.
JobRec(j) ==
    j \in [pc : {j.pc}, op : {j.op}, ino : {j.ino}, off : {j.off}, len : {j.len}, val : {j.val},
           need : {j.need}, k : {j.k}, i : {j.i}, fresh : {j.fresh}, stage : {j.stage}]
IsList(s) == \E S : s \in Seq(S)
JobShape(j) ==
    /\ JobRec(j)
    /\ j.ino \in Int /\ j.k \in Int /\ j.i \in Int
    /\ IsList(j.fresh)

\* The job n is the job j after a step that sets these fields.
JobIs(n, j, pc, ino, need, k, i, fresh, stage) ==
    /\ JobRec(n)
    /\ n.op = j.op /\ n.off = j.off /\ n.len = j.len /\ n.val = j.val
    /\ n.pc = pc /\ n.ino = ino /\ n.need = need /\ n.k = k /\ n.i = i
    /\ n.fresh = fresh /\ n.stage = stage

\* A map has its fields, and its cache is a list of entries.
EntryShape(e) == e \in [g : {e.g}, bits : {e.bits}, dirty : {e.dirty}]
CacheShape(c) == \E S : c \in Seq(S) /\ \A e \in S : EntryShape(e)
GmShape(m) ==
    /\ m \in [slot : {m.slot}, written : {m.written}, free : {m.free}, cache : {m.cache}]
    /\ CacheShape(m.cache)

\* The running call and the map have their shapes.
Shapes == JobShape(job) /\ GmShape(gm)

\* A cache with one more entry, the last thing load does.
LEMMA AppendEntry ==
  ASSUME NEW c, CacheShape(c), NEW e, EntryShape(e)
  PROVE  CacheShape(Append(c, e))
<1>1. PICK S : c \in Seq(S) /\ \A x \in S : EntryShape(x) BY DEF CacheShape
<1>2. c \in Seq(S \cup {e}) BY <1>1
<1>3. Append(c, e) \in Seq(S \cup {e}) BY <1>2
<1>4. \A x \in S \cup {e} : EntryShape(x) BY <1>1
<1> QED BY <1>3, <1>4 DEF CacheShape

\* A cache without one of its entries: a hit moves the entry to the end, an
\* eviction drops the first.
LEMMA SubCache ==
  ASSUME NEW c, CacheShape(c), NEW i \in DOMAIN c
  PROVE  CacheShape(RemoveAt(c, i)) /\ EntryShape(c[i]) /\ CacheShape(Tail(c))
<1>1. PICK S : c \in Seq(S) /\ \A x \in S : EntryShape(x) BY DEF CacheShape
<1>2. i \in 1 .. Len(c) /\ Len(c) \in Nat BY <1>1
<1>3. SubSeq(c, 1, i - 1) \in Seq(S) BY <1>1, <1>2
<1>4. SubSeq(c, i + 1, Len(c)) \in Seq(S) BY <1>1, <1>2
<1>5. RemoveAt(c, i) \in Seq(S) BY <1>3, <1>4 DEF RemoveAt
<1>6. c # <<>> BY <1>2
<1>7. Tail(c) \in Seq(S) BY <1>1, <1>6
<1>8. c[i] \in S BY <1>1, <1>2
<1> QED BY <1>1, <1>5, <1>7, <1>8 DEF CacheShape

\* A cache with one entry replaced, as a flush or a changed bitmap does.
LEMMA SetEntry ==
  ASSUME NEW c, CacheShape(c), NEW i, NEW e, EntryShape(e)
  PROVE  CacheShape([c EXCEPT ![i] = e])
<1>1. PICK S : c \in Seq(S) /\ \A x \in S : EntryShape(x) BY DEF CacheShape
<1>2. c \in Seq(S \cup {e}) BY <1>1
<1>3. DOMAIN c = 1 .. Len(c) /\ c = [x \in 1 .. Len(c) |-> c[x]] BY <1>1
<1>4. CASE i \notin DOMAIN c
  <2>1. [c EXCEPT ![i] = e] = c BY <1>3, <1>4
  <2> QED BY <2>1
<1>5. CASE i \in DOMAIN c
  <2>1. i \in 1 .. Len(c) /\ e \in S \cup {e} BY <1>3, <1>5
  <2>2. [c EXCEPT ![i] = e] \in Seq(S \cup {e}) BY <1>2, <2>1, ExceptSeq
  <2>3. \A x \in S \cup {e} : EntryShape(x) BY <1>1
  <2> QED BY <2>2, <2>3 DEF CacheShape
<1> QED BY <1>4, <1>5

\* flush_one keeps the shape of the map, written or not.
LEMMA FlushShape ==
  ASSUME NEW m, GmShape(m), NEW d, NEW f, NEW i \in DOMAIN m.cache, NEW w \in flush_one(m, d, f, i)
  PROVE  GmShape(w.m)
<1> DEFINE e == [m.cache[i] EXCEPT !.dirty = FALSE]
           n == [m EXCEPT !.written[m.cache[i].g] = TRUE, !.cache[i].dirty = FALSE]
<1>1. EntryShape(m.cache[i]) BY SubCache DEF GmShape
<1>2. EntryShape(e) BY <1>1 DEF EntryShape
<1>3. CacheShape([m.cache EXCEPT ![i] = e]) BY <1>2, SetEntry DEF GmShape
<1>4. n.cache = [m.cache EXCEPT ![i] = e] BY DEF GmShape
<1>5. GmShape(n) BY <1>3, <1>4 DEF GmShape
<1>6. w.m = n \/ w.m = m BY DEF flush_one
<1> QED BY <1>5, <1>6

\* load keeps it: on a hit, with room, and after an eviction that may fail.
LEMMA LoadShape ==
  ASSUME NEW m, GmShape(m), NEW d, NEW f, NEW g, NEW v \in load(m, d, f, g)
  PROVE  GmShape(v.m)
<1>1. CASE Cached(m, g) # {}
  <2> DEFINE i == CHOOSE i \in Cached(m, g) : TRUE
  <2>1. i \in DOMAIN m.cache BY <1>1 DEF Cached
  <2>2. v.m = [m EXCEPT !.cache = Append(RemoveAt(@, i), @[i])] BY <1>1 DEF load
  <2>3. CacheShape(Append(RemoveAt(m.cache, i), m.cache[i])) BY <2>1, SubCache, AppendEntry DEF GmShape
  <2> QED BY <2>2, <2>3 DEF GmShape
<1>2. CASE Cached(m, g) = {}
  <2> DEFINE room == IF Len(m.cache) < CacheSize THEN {[ok |-> TRUE, m |-> m, d |-> d, f |-> f]}
                     ELSE Evict(m, d, f)
  <2>1. PICK u \in room : v \in (IF u.ok THEN ReadGroup(u.m, u.d, u.f, g) ELSE {u}) BY <1>2 DEF load
  <2>2. GmShape(u.m)
    <3>1. CASE Len(m.cache) < CacheSize BY <3>1
    <3>2. CASE ~(Len(m.cache) < CacheSize)
      <4>1. u \in Evict(m, d, f) BY <3>2
      <4>2. PICK S : m.cache \in Seq(S) BY DEF GmShape, CacheShape
      <4>3. 1 \in DOMAIN m.cache BY <4>2, <3>2, GmapAssumption
      <4>4. \A n : GmShape(n) /\ DOMAIN n.cache = DOMAIN m.cache => GmShape([n EXCEPT !.cache = Tail(n.cache)])
        <5> SUFFICES ASSUME NEW n, GmShape(n), DOMAIN n.cache = DOMAIN m.cache
                     PROVE  GmShape([n EXCEPT !.cache = Tail(n.cache)])
          OBVIOUS
        <5>1. CacheShape(Tail(n.cache)) BY <4>3, SubCache DEF GmShape
        <5> QED BY <5>1 DEF GmShape
      <4>5. CASE ~m.cache[1].dirty BY <4>1, <4>4, <4>5 DEF Evict
      <4>6. CASE m.cache[1].dirty
        <5>1. PICK w \in flush_one(m, d, f, 1) : u = [w EXCEPT !.m = [w.m EXCEPT !.cache = Tail(w.m.cache)]]
          BY <4>1, <4>6 DEF Evict
        <5>2. GmShape(w.m) BY <5>1, <4>3, FlushShape
        <5>a. w \in [ok : {w.ok}, d : {w.d}, f : {w.f}, m : {w.m}] BY <5>1 DEF flush_one
        <5>3. DOMAIN w.m.cache = DOMAIN m.cache
          <6>1. w.m = m \/ w.m = [m EXCEPT !.written[m.cache[1].g] = TRUE, !.cache[1].dirty = FALSE]
            BY <5>1 DEF flush_one
          <6>2. [m EXCEPT !.written[m.cache[1].g] = TRUE, !.cache[1].dirty = FALSE].cache
                = [m.cache EXCEPT ![1] = [m.cache[1] EXCEPT !.dirty = FALSE]]
            BY DEF GmShape
          <6> QED BY <6>1, <6>2
        <5>4. u.m = [w.m EXCEPT !.cache = Tail(w.m.cache)] BY <5>1, <5>a
        <5> QED BY <5>2, <5>3, <5>4, <4>4
      <4> QED BY <4>5, <4>6
    <3> QED BY <3>1, <3>2
  <2>3. CASE u.ok
    <3> DEFINE e == [g |-> g, dirty |-> FALSE, bits |-> BitsOf(u.d[slot_block(g, NewestSlot(u.m, g))])]
    <3>1. EntryShape(e) BY DEF EntryShape
    <3>0. v \in ReadGroup(u.m, u.d, u.f, g) BY <2>1, <2>3
    <3>a. PICK r \in blk_got(u.f, slot_block(g, NewestSlot(u.m, g))) :
            v = [ok |-> r.ok, d |-> u.d, f |-> r.f,
                 m |-> IF r.ok THEN [u.m EXCEPT !.cache = Append(u.m.cache, e)] ELSE u.m]
      BY <3>0, Zenon DEF ReadGroup
    <3>b. v.m = IF r.ok THEN [u.m EXCEPT !.cache = Append(u.m.cache, e)] ELSE u.m BY <3>a
    <3>2. v.m = u.m \/ v.m = [u.m EXCEPT !.cache = Append(u.m.cache, e)] BY <3>b
    <3>3. CacheShape(Append(u.m.cache, e)) BY <2>2, <3>1, AppendEntry DEF GmShape
    <3> QED BY <3>2, <3>3, <2>2 DEF GmShape
  <2>4. CASE ~u.ok BY <2>1, <2>2, <2>4
  <2> QED BY <2>3, <2>4
<1> QED BY <1>1, <1>2

\* A changed bitmap of the group just loaded keeps it.
LEMMA PutShape ==
  ASSUME NEW m, GmShape(m), NEW bits, NEW g, NEW n
  PROVE  GmShape(PutBits(m, g, bits, n))
<1> DEFINE l == Len(m.cache)
           e == [m.cache[l] EXCEPT !.bits = bits, !.dirty = TRUE]
           p == PutBits(m, g, bits, n)
<1>0. p = [m EXCEPT !.cache[l].bits = bits, !.cache[l].dirty = TRUE, !.free[g] = n] BY DEF PutBits
<1>5. p \in [slot : {p.slot}, written : {p.written}, free : {p.free}, cache : {p.cache}]
  BY <1>0 DEF GmShape
<1>1. CASE l \notin DOMAIN m.cache
  <2>1. PICK S : m.cache \in Seq(S) BY DEF GmShape, CacheShape
  <2>2. p.cache = m.cache BY <1>0, <1>1, <2>1 DEF GmShape
  <2> QED BY <2>2, <1>5 DEF GmShape
<1>2. CASE l \in DOMAIN m.cache
  <2>1. EntryShape(m.cache[l]) BY <1>2, SubCache DEF GmShape
  <2>2. EntryShape(e) BY <2>1 DEF EntryShape
  <2>3. p.cache = [m.cache EXCEPT ![l] = e] BY <1>0, <1>2 DEF GmShape
  <2>4. CacheShape(p.cache) BY <2>2, <2>3, SetEntry DEF GmShape
  <2> QED BY <2>4, <1>5 DEF GmShape
<1> QED BY <1>1, <1>2

\* gmap_take keeps it, found or not.
LEMMA TakeShape ==
  ASSUME NEW m, GmShape(m), NEW d, NEW f, NEW hint, NEW need, NEW k,
         NEW r \in gmap_take(m, d, f, hint, need, k)
  PROVE  GmShape(r.m)
<1> DEFINE g == SearchGroup(hint, k)
<1>1. CASE m.free[g] = 0 BY <1>1 DEF gmap_take
<1>2. CASE m.free[g] # 0
  <2>1. PICK v \in load(m, d, f, g) : r = TakeFrom(v, SearchFrom(hint, k), g, need)
    BY <1>2 DEF gmap_take
  <2>2. GmShape(v.m) BY LoadShape
  <2>3. r.m = v.m \/ \E bits, n : r.m = PutBits(v.m, g, bits, n) BY <2>1 DEF TakeFrom
  <2> QED BY <2>3, <2>2, PutShape
<1> QED BY <1>1, <1>2

\* gmap_release keeps it, also when a block is already free.
LEMMA ReleaseShape ==
  ASSUME NEW m, GmShape(m), NEW d, NEW f, NEW e, NEW r \in gmap_release(m, d, f, e)
  PROVE  GmShape(r.m)
<1>1. PICK v \in load(m, d, f, GroupOf(e.start)) : r = ReleaseIn(v, e) BY DEF gmap_release
<1>2. GmShape(v.m) BY LoadShape
<1>3. r.m = v.m \/ \E bits, n : r.m = PutBits(v.m, GroupOf(e.start), bits, n) BY <1>1 DEF ReleaseIn
<1> QED BY <1>2, <1>3, PutShape

\* The empty map and the one a mount imports have the shape.
LEMMA InitGmShape == GmShape(gmap_init) /\ \A s, f : GmShape(gmap_import(s, f))
<1>2. CacheShape(<<>>)
  <2> DEFINE T == {x \in {0} : FALSE}
  <2>1. <<>> \in Seq(T) OBVIOUS
  <2>2. \A e \in T : EntryShape(e) OBVIOUS
  <2> HIDE DEF T
  <2> QED BY <2>1, <2>2 DEF CacheShape
<1>3. gmap_init.cache = <<>> BY DEF gmap_init
<1>4. gmap_init \in [slot : {gmap_init.slot}, written : {gmap_init.written}, free : {gmap_init.free},
                     cache : {gmap_init.cache}]
  BY DEF gmap_init
<1>5. GmShape(gmap_init) BY <1>2, <1>3, <1>4 DEF GmShape
<1>6. ASSUME NEW s, NEW f PROVE GmShape(gmap_import(s, f))
  <2> DEFINE n == [gmap_init EXCEPT !.slot = s, !.free = f]
  <2>1. n \in [slot : {n.slot}, written : {n.written}, free : {n.free}, cache : {n.cache}] BY <1>4
  <2>2. n.cache = <<>> BY <1>3, <1>4
  <2> HIDE DEF n
  <2>3. GmShape(n) BY <2>1, <2>2, <1>2 DEF GmShape
  <2> QED BY <2>3 DEF gmap_import, n
<1> QED BY <1>5, <1>6

\* One more fresh extent.
LEMMA AppendFresh ==
  ASSUME NEW s, IsList(s), NEW e
  PROVE  IsList(Append(s, e)) /\ Len(s) \in Nat /\ Len(Append(s, e)) = Len(s) + 1
<1>1. PICK S : s \in Seq(S) BY DEF IsList
<1>2. s \in Seq(S \cup {e}) BY <1>1
<1>3. Append(s, e) \in Seq(S \cup {e}) /\ Len(Append(s, e)) = Len(s) + 1 BY <1>2
<1> QED BY <1>1, <1>3 DEF IsList

\* The list a call starts with.
LEMMA EmptyList == IsList(<<>>) /\ Len(<<>>) = 0
<1>1. <<>> \in Seq({}) OBVIOUS
<1> QED BY <1>1 DEF IsList

\* The jobs that start a call.
LEMMA IdleJob == JobShape(Idle) /\ Idle.pc = "idle" /\ Idle.op = "none" /\ Idle.ino = 0 /\ Idle.i = 0
                 /\ Idle.k = 0 /\ Idle.need = 0 /\ Idle.fresh = <<>> /\ Idle.stage = <<>>
                 /\ Idle.off = 0 /\ Idle.len = 0
<1>1. JobRec(Idle) /\ Idle.ino \in Int /\ Idle.k \in Int /\ Idle.i \in Int BY DEF Idle, JobRec
<1>2. Idle.fresh = <<>> BY DEF Idle
<1> QED BY <1>1, <1>2, EmptyList DEF Idle, JobShape

\* The job of exfs_write.
LEMMA WriteFields ==
  ASSUME NEW i, NEW l, NEW v
  PROVE  LET j == WriteJob(i, l, v) IN
         /\ JobRec(j)
         /\ j.op = "write" /\ j.off = 0 /\ j.len = l /\ j.val = v
         /\ j.pc = (IF l = 0 THEN "reserve" ELSE "take") /\ j.ino = i /\ j.need = BlocksFor(l)
         /\ j.k = 0 /\ j.i = 0 /\ j.fresh = <<>> /\ j.stage = <<>>
<1> DEFINE p == IF l = 0 THEN "reserve" ELSE "take"
           b == BlocksFor(l)
           j == [Idle EXCEPT !.op = "write", !.ino = i, !.len = l, !.val = v, !.need = b, !.pc = p]
<1>1. JobRec(Idle) BY IdleJob DEF JobShape
<1>2. WriteJob(i, l, v) = j BY DEF WriteJob
<1> HIDE DEF p, b
<1>3. /\ JobRec(j) /\ j.op = "write" /\ j.off = Idle.off /\ j.len = l /\ j.val = v
      /\ j.pc = p /\ j.ino = i /\ j.need = b
      /\ j.k = Idle.k /\ j.i = Idle.i /\ j.fresh = Idle.fresh /\ j.stage = Idle.stage
  BY <1>1 DEF JobRec
<1> HIDE DEF j
<1> QED BY <1>2, <1>3, IdleJob DEF p, b

\* A write in place, before its blocks are counted.
AtJob(i, o, l, v) == [Idle EXCEPT !.op = "write_at", !.ino = i, !.off = o, !.len = l, !.val = v, !.pc = "take"]

\* The job of exfs_write_at.
LEMMA WriteAtFields ==
  ASSUME NEW i, NEW o, NEW l, NEW v
  PROVE  LET j == WriteAtJob(i, o, l, v) IN
         /\ JobRec(j)
         /\ j.op = "write_at" /\ j.off = o /\ j.len = l /\ j.val = v
         /\ j.pc = "take" /\ j.ino = i
         /\ j.need = LastBlock(AtJob(i, o, l, v)) - FirstBlock(AtJob(i, o, l, v)) + 1
         /\ j.k = 0 /\ j.i = 0 /\ j.fresh = <<>> /\ j.stage = <<>>
<1> DEFINE a == [Idle EXCEPT !.op = "write_at", !.ino = i, !.off = o, !.len = l, !.val = v, !.pc = "take"]
           b == LastBlock(a) - FirstBlock(a) + 1
           j == [a EXCEPT !.need = b]
<1>1. JobRec(Idle) BY IdleJob DEF JobShape
<1>2. WriteAtJob(i, o, l, v) = j /\ AtJob(i, o, l, v) = a BY DEF WriteAtJob, AtJob
<1> HIDE DEF b
<1>3. /\ JobRec(a) /\ a.op = "write_at" /\ a.off = o /\ a.len = l /\ a.val = v
      /\ a.pc = "take" /\ a.ino = i
      /\ a.k = Idle.k /\ a.i = Idle.i /\ a.fresh = Idle.fresh /\ a.stage = Idle.stage
  BY <1>1 DEF JobRec
<1> HIDE DEF a
<1>4. /\ JobRec(j) /\ j.op = a.op /\ j.off = a.off /\ j.len = a.len /\ j.val = a.val
      /\ j.pc = a.pc /\ j.ino = a.ino /\ j.need = b
      /\ j.k = a.k /\ j.i = a.i /\ j.fresh = a.fresh /\ j.stage = a.stage
  BY <1>3 DEF JobRec
<1> HIDE DEF j
<1> QED BY <1>2, <1>3, <1>4, IdleJob DEF b

\* The job of exfs_commit, of an unmount and of exfs_format.
LEMMA CommitFields ==
  ASSUME NEW o, NEW p
  PROVE  LET j == StartJob(o, p) IN
         /\ JobRec(j)
         /\ j.op = o /\ j.off = 0 /\ j.len = 0 /\ j.pc = p /\ j.ino = 0 /\ j.need = 0
         /\ j.k = 0 /\ j.i = 0 /\ j.fresh = <<>> /\ j.stage = <<>>
<1> DEFINE j == [Idle EXCEPT !.op = o, !.pc = p]
<1>1. JobRec(Idle) BY IdleJob DEF JobShape
<1>3. /\ JobRec(j) /\ j.op = o /\ j.off = Idle.off /\ j.len = Idle.len
      /\ j.pc = p /\ j.ino = Idle.ino /\ j.need = Idle.need
      /\ j.k = Idle.k /\ j.i = Idle.i /\ j.fresh = Idle.fresh /\ j.stage = Idle.stage
  BY <1>1 DEF JobRec
<1> HIDE DEF j
<1> QED BY <1>3, IdleJob DEF j, StartJob

\* The steps of a job: each sets these fields and leaves the others.
LEMMA JobSteps ==
  ASSUME NEW j, JobRec(j), NEW p, NEW q, NEW r, NEW s
  PROVE  /\ JobIs([j EXCEPT !.pc = "undo", !.i = 1], j, "undo", j.ino, j.need, j.k, 1, j.fresh, j.stage)
         /\ JobIs([j EXCEPT !.pc = "release", !.i = 1], j, "release", j.ino, j.need, j.k, 1, j.fresh, j.stage)
         /\ JobIs([j EXCEPT !.pc = "itab", !.i = 0], j, "itab", j.ino, j.need, j.k, 0, j.fresh, j.stage)
         /\ JobIs([j EXCEPT !.pc = "flush"], j, "flush", j.ino, j.need, j.k, j.i, j.fresh, j.stage)
         /\ JobIs([j EXCEPT !.k = @ + 1], j, j.pc, j.ino, j.need, j.k + 1, j.i, j.fresh, j.stage)
         /\ JobIs([j EXCEPT !.i = @ + 1], j, j.pc, j.ino, j.need, j.k, j.i + 1, j.fresh, j.stage)
         /\ JobIs([j EXCEPT !.i = @ + 1, !.pc = p], j, p, j.ino, j.need, j.k, j.i + 1, j.fresh, j.stage)
         /\ JobIs([j EXCEPT !.ino = p], j, j.pc, p, j.need, j.k, j.i, j.fresh, j.stage)
         /\ JobIs([j EXCEPT !.k = 0, !.fresh = q, !.pc = p], j, p, j.ino, j.need, 0, j.i, q, j.stage)
         /\ JobIs([j EXCEPT !.stage = q, !.i = 0, !.pc = p], j, p, j.ino, j.need, j.k, 0, j.fresh, q)
         /\ JobIs([j EXCEPT !.pc = "take", !.ino = q, !.need = p, !.fresh = <<>>, !.k = 0, !.i = 0], j,
                  "take", q, p, 0, 0, <<>>, j.stage)
         /\ JobIs([j EXCEPT !.pc = "file", !.ino = @ + 1, !.fresh = <<>>], j,
                  "file", j.ino + 1, j.need, j.k, j.i, <<>>, j.stage)
BY DEF JobRec, JobIs

\* A step to known fields keeps the shape of a job.
LEMMA JobIsShape ==
  ASSUME NEW j, NEW n, NEW pc, NEW ino \in Int, NEW need, NEW k \in Int, NEW i \in Int, NEW fresh,
         NEW stage, JobIs(n, j, pc, ino, need, k, i, fresh, stage), IsList(fresh)
  PROVE  JobShape(n)
BY DEF JobIs, JobShape

\* A failure: a write goes to its undo, any other call is over.
LEMMA FailedJob ==
  ASSUME NEW j, JobShape(j)
  PROVE  /\ JobShape(Failed(j))
         /\ \/ Failed(j) = Idle /\ j.op \notin {"write", "write_at"}
            \/ j.op \in {"write", "write_at"} /\ JobIs(Failed(j), j, "undo", j.ino, j.need, j.k, 1, j.fresh, j.stage)
<1>1. CASE j.op \notin {"write", "write_at"} BY <1>1, IdleJob DEF Failed
<1>2. CASE j.op \in {"write", "write_at"}
  <2>1. Failed(j) = [j EXCEPT !.pc = "undo", !.i = 1] BY <1>2 DEF Failed
  <2>2. JobIs(Failed(j), j, "undo", j.ino, j.need, j.k, 1, j.fresh, j.stage) BY <2>1, JobSteps DEF JobShape
  <2>3. j.ino \in Int /\ j.k \in Int /\ 1 \in Int /\ IsList(j.fresh) BY DEF JobShape
  <2>4. JobShape(Failed(j)) BY <2>2, <2>3, JobIsShape
  <2> QED BY <2>2, <2>4, <1>2
<1> QED BY <1>1, <1>2

\* Every call starts with a job of the shape.
LEMMA StartShape ==
  ASSUME Shapes, Call
  PROVE  Shapes'
<1> USE DEF Shapes
<1>1. ASSUME NEW n \in Names, NEW t, Make(n, t) PROVE Shapes' BY <1>1 DEF Make
<1>2. ASSUME NEW n \in Names, exfs_delete(n) PROVE Shapes' BY <1>2 DEF exfs_delete
<1>3. ASSUME NEW n \in Names, NEW l, NEW v, exfs_write(n, l, v) PROVE Shapes'
  <2>1. PICK i \in Inodes : job' = WriteJob(i, l, v) BY <1>3 DEF exfs_write, find
  <2>2. i \in Int BY <2>1 DEF Inodes
  <2>3. JobShape(job') BY <2>1, <2>2, WriteFields, EmptyList DEF JobShape
  <2> QED BY <2>3, <1>3 DEF exfs_write
<1>4. ASSUME NEW n \in Names, NEW o, NEW l, NEW v, exfs_write_at(n, o, l, v) PROVE Shapes'
  <2>1. PICK i \in Inodes : job' = WriteAtJob(i, o, l, v) BY <1>4 DEF exfs_write_at, find
  <2>2. i \in Int BY <2>1 DEF Inodes
  <2>3. JobShape(job') BY <2>1, <2>2, WriteAtFields, EmptyList DEF JobShape
  <2> QED BY <2>3, <1>4 DEF exfs_write_at
<1>a. \A o, p : JobShape(StartJob(o, p)) BY CommitFields, EmptyList DEF JobShape
<1>5. ASSUME NEW op, exfs_commit(op) PROVE Shapes' BY <1>5, <1>a DEF exfs_commit
<1>6. ASSUME UnmountClean PROVE Shapes' BY <1>6 DEF UnmountClean
<1>7. ASSUME exfs_format PROVE Shapes' BY <1>7, <1>a, InitGmShape DEF exfs_format
<1>8. ASSUME NEW U, exfs_mount(U) PROVE Shapes' BY <1>8, InitGmShape DEF exfs_mount
<1>9. ASSUME MountFails PROVE Shapes' BY <1>9, InitGmShape DEF MountFails
<1> QED BY <1>1, <1>2, <1>3, <1>4, <1>5, <1>6, <1>7, <1>8, <1>9 DEF Call, exfs_create, exfs_mkdir

\* An order of tuples: the first place where they differ decides.
LEMMA Lex ==
  ASSUME NEW a1, NEW a2, NEW a3, NEW a4, NEW a5, NEW a6, NEW a7,
         NEW b1, NEW b2, NEW b3, NEW b4, NEW b5, NEW b6, NEW b7,
         \/ a1 < b1
         \/ a1 = b1 /\ a2 < b2
         \/ a1 = b1 /\ a2 = b2 /\ a3 < b3
         \/ a1 = b1 /\ a2 = b2 /\ a3 = b3 /\ a4 < b4
         \/ a1 = b1 /\ a2 = b2 /\ a3 = b3 /\ a4 = b4 /\ a5 < b5
         \/ a1 = b1 /\ a2 = b2 /\ a3 = b3 /\ a4 = b4 /\ a5 = b5 /\ a6 < b6
         \/ a1 = b1 /\ a2 = b2 /\ a3 = b3 /\ a4 = b4 /\ a5 = b5 /\ a6 = b6 /\ a7 < b7
  PROVE  Precedes(<<a1, a2, a3, a4, a5, a6, a7>>, <<b1, b2, b3, b4, b5, b6, b7>>)
<1> DEFINE a == <<a1, a2, a3, a4, a5, a6, a7>>
           b == <<b1, b2, b3, b4, b5, b6, b7>>
<1>1. DOMAIN a = 1 .. 7 OBVIOUS
<1>2. /\ a[1] = a1 /\ a[2] = a2 /\ a[3] = a3 /\ a[4] = a4 /\ a[5] = a5 /\ a[6] = a6 /\ a[7] = a7
      /\ b[1] = b1 /\ b[2] = b2 /\ b[3] = b3 /\ b[4] = b4 /\ b[5] = b5 /\ b[6] = b6 /\ b[7] = b7
  OBVIOUS
<1> HIDE DEF a, b
<1>3. \E i \in 1 .. 7 : a[i] < b[i] /\ \A h \in 1 .. (i - 1) : a[h] = b[h]
  <2>1. \A h \in 1 .. 0 : FALSE OBVIOUS
  <2>2. \A h \in 1 .. 1 : h = 1 OBVIOUS
  <2>3. \A h \in 1 .. 2 : h = 1 \/ h = 2 OBVIOUS
  <2>4. \A h \in 1 .. 3 : h = 1 \/ h = 2 \/ h = 3 OBVIOUS
  <2>5. \A h \in 1 .. 4 : h = 1 \/ h = 2 \/ h = 3 \/ h = 4 OBVIOUS
  <2>6. \A h \in 1 .. 5 : h = 1 \/ h = 2 \/ h = 3 \/ h = 4 \/ h = 5 OBVIOUS
  <2>7. \A h \in 1 .. 6 : h = 1 \/ h = 2 \/ h = 3 \/ h = 4 \/ h = 5 \/ h = 6 OBVIOUS
  <2>8. 1 - 1 = 0 /\ 2 - 1 = 1 /\ 3 - 1 = 2 /\ 4 - 1 = 3 /\ 5 - 1 = 4 /\ 6 - 1 = 5 /\ 7 - 1 = 6 OBVIOUS
  <2>9. 1 \in 1 .. 7 /\ 2 \in 1 .. 7 /\ 3 \in 1 .. 7 /\ 4 \in 1 .. 7 /\ 5 \in 1 .. 7 /\ 6 \in 1 .. 7 /\ 7 \in 1 .. 7
    OBVIOUS
  <2> QED BY <1>2, <2>1, <2>2, <2>3, <2>4, <2>5, <2>6, <2>7, <2>8, <2>9, Zenon
<1> QED BY <1>1, <1>3 DEF Precedes, a, b

\* The measure of CallsEnd, by job and map.
TurnOf(pc) == IF pc = "chain" THEN 2 ELSE IF pc = "take" THEN 1 ELSE 0
DirtyIn(m) == {c \in DOMAIN m.cache : m.cache[c].dirty}

\* The stages as numbers.
LEMMA Stages ==
  /\ Stage["format"] = 0 /\ Stage["file"] = 1 /\ Stage["take"] = 1 /\ Stage["chain"] = 1
  /\ Stage["reserve"] = 2 /\ Stage["data"] = 3 /\ Stage["install"] = 4 /\ Stage["undo"] = 5
  /\ Stage["release"] = 2 /\ Stage["flush"] = 3 /\ Stage["itab"] = 4 /\ Stage["super"] = 5
BY DEF Stage

\* A step that puts the measure ahead.
LEMMA Ahead ==
  ASSUME NEW pc, NEW ino \in Int, NEW need, NEW k \in Int, NEW i \in Int, NEW fresh, NEW stage, IsList(fresh), GmShape(gm'),
         JobIs(job', job, pc, ino, need, k, i, fresh, stage),
         \/ Stage[job.pc] < Stage[pc]
         \/ Stage[job.pc] = Stage[pc] /\ job.ino < ino
         \/ Stage[job.pc] = Stage[pc] /\ job.ino = ino /\ TurnOf(job.pc) < TurnOf(pc)
         \/ Stage[job.pc] = Stage[pc] /\ job.ino = ino /\ TurnOf(job.pc) = TurnOf(pc) /\ Len(job.fresh) < Len(fresh)
         \/ /\ Stage[job.pc] = Stage[pc] /\ job.ino = ino /\ TurnOf(job.pc) = TurnOf(pc) /\ job.fresh = fresh
            /\ \/ job.k < k
               \/ job.k = k /\ job.i < i
               \/ job.k = k /\ job.i = i /\ -Cardinality(DirtyIn(gm)) < -Cardinality(DirtyIn(gm'))
  PROVE  Shapes' /\ Precedes(Progress, Progress')
<1>1. Progress = <<Stage[job.pc], job.ino, TurnOf(job.pc), Len(job.fresh), job.k, job.i, -Cardinality(DirtyIn(gm))>>
  BY DEF Progress, Turn, TurnOf, DirtyIn
<1>2. Progress' = <<Stage[job'.pc], job'.ino, TurnOf(job'.pc), Len(job'.fresh), job'.k, job'.i,
                    -Cardinality(DirtyIn(gm'))>>
  BY DEF Progress, Turn, TurnOf, DirtyIn, Stage
<1>3. job'.pc = pc /\ job'.ino = ino /\ job'.k = k /\ job'.i = i /\ job'.fresh = fresh BY DEF JobIs
<1>4. Progress' = <<Stage[pc], ino, TurnOf(pc), Len(fresh), k, i, -Cardinality(DirtyIn(gm'))>>
  BY <1>2, <1>3
<1>5. Precedes(<<Stage[job.pc], job.ino, TurnOf(job.pc), Len(job.fresh), job.k, job.i, -Cardinality(DirtyIn(gm))>>,
               <<Stage[pc], ino, TurnOf(pc), Len(fresh), k, i, -Cardinality(DirtyIn(gm'))>>)
  <2> DEFINE a1 == Stage[job.pc] 
             a3 == TurnOf(job.pc)
             a4 == Len(job.fresh)
             a7 == -Cardinality(DirtyIn(gm))
             b1 == Stage[pc]
             b3 == TurnOf(pc)
             b4 == Len(fresh)
             b7 == -Cardinality(DirtyIn(gm'))
  <2>1. \/ a1 < b1
        \/ a1 = b1 /\ job.ino < ino
        \/ a1 = b1 /\ job.ino = ino /\ a3 < b3
        \/ a1 = b1 /\ job.ino = ino /\ a3 = b3 /\ a4 < b4
        \/ a1 = b1 /\ job.ino = ino /\ a3 = b3 /\ a4 = b4 /\ job.k < k
        \/ a1 = b1 /\ job.ino = ino /\ a3 = b3 /\ a4 = b4 /\ job.k = k /\ job.i < i
        \/ a1 = b1 /\ job.ino = ino /\ a3 = b3 /\ a4 = b4 /\ job.k = k /\ job.i = i /\ a7 < b7
    BY Zenon
  <2> HIDE DEF a1, a3, a4, a7, b1, b3, b4, b7
  <2>2. Precedes(<<a1, job.ino, a3, a4, job.k, job.i, a7>>, <<b1, ino, b3, b4, k, i, b7>>) BY <2>1, Lex
  <2> QED BY <2>2 DEF a1, a3, a4, a7, b1, b3, b4, b7
<1>6. JobShape(job') BY JobIsShape
<1> QED BY <1>1, <1>4, <1>5, <1>6 DEF Shapes

\* A set of numbers within bounds is finite.
LEMMA FiniteSub ==
  ASSUME NEW a \in Int, NEW b \in Int, NEW T, T \subseteq a .. b
  PROVE  IsFiniteSet(T) /\ Cardinality(T) \in Nat
<1>1. IsFiniteSet(a .. b) BY FS_Interval
<1>2. T \in SUBSET (a .. b) OBVIOUS
<1>3. IsFiniteSet(T) BY <1>1, <1>2, FS_Subset
<1> QED BY <1>3, FS_CardinalityType

\* A flushed entry is dirty no more.
LEMMA FlushCounts ==
  ASSUME NEW m, GmShape(m), NEW d, NEW f, DirtyIn(m) # {}, NEW w \in flush_one(m, d, f, Min(DirtyIn(m))), w.ok
  PROVE  /\ GmShape(w.m)
         /\ -Cardinality(DirtyIn(m)) < -Cardinality(DirtyIn(w.m))
<1> DEFINE i == Min(DirtyIn(m))
<1>1. PICK S : m.cache \in Seq(S) /\ \A x \in S : EntryShape(x) BY DEF GmShape, CacheShape
<1>2. DirtyIn(m) \subseteq 1 .. Len(m.cache) /\ Len(m.cache) \in Nat /\ DirtyIn(m) \subseteq DOMAIN m.cache
  BY <1>1 DEF DirtyIn
<1>3. i \in DirtyIn(m)
  <2>1. DirtyIn(m) \subseteq Nat BY <1>2
  <2> QED BY <2>1, Least
<1>4. i \in DOMAIN m.cache BY <1>2, <1>3
<1>5. w.m = [m EXCEPT !.written[m.cache[i].g] = TRUE, !.cache[i].dirty = FALSE] BY DEF flush_one
<1> HIDE DEF i
<1>6. w.m.cache = [m.cache EXCEPT ![i] = [m.cache[i] EXCEPT !.dirty = FALSE]] BY <1>5 DEF GmShape
<1>7. EntryShape(m.cache[i]) BY <1>4, SubCache DEF GmShape
<1>8. ~[m.cache[i] EXCEPT !.dirty = FALSE].dirty BY <1>7 DEF EntryShape
<1>9. DirtyIn(w.m) = DirtyIn(m) \ {i}
  <2> DEFINE e == [m.cache[i] EXCEPT !.dirty = FALSE]
  <2> HIDE DEF e
  <2>1. w.m.cache = [m.cache EXCEPT ![i] = e] /\ ~e.dirty BY <1>6, <1>8 DEF e
  <2> QED BY <2>1, <1>4 DEF DirtyIn
<1>a. 1 \in Int /\ Len(m.cache) \in Int BY <1>2
<1>10. IsFiniteSet(DirtyIn(m)) BY <1>2, <1>a, FiniteSub
<1>11. Cardinality(DirtyIn(m)) \in Nat /\ Cardinality(DirtyIn(m) \ {i}) = Cardinality(DirtyIn(m)) - 1
  BY <1>10, <1>3, FS_RemoveElement, FS_CardinalityType
<1>12. GmShape(w.m) BY <1>4, FlushShape DEF i
<1> QED BY <1>9, <1>11, <1>12

\* The steps of a job by name, and what each action can do.
IsWrite(j) == j.op \in {"write", "write_at"}
Want(j) == IF j.op \in {"write", "write_at"} THEN j.need - LenSum(j.fresh) ELSE 1
NextTurn(j) == [j EXCEPT !.k = @ + 1]
NextItem(j) == [j EXCEPT !.i = @ + 1]
Took(j, e) ==
    [j EXCEPT !.k = 0, !.fresh = Append(@, e),
              !.pc = IF LenSum(j.fresh) + e.len < j.need THEN "take"
                     ELSE IF j.op \in {"write", "write_at"} THEN "reserve" ELSE "chain"]
Hinted(v, e) == [v EXCEPT !.hint = e.start + e.len]

\* The outcomes of gmap_take.
LEMMA TakeResults ==
  ASSUME NEW m, NEW d, NEW f, NEW hint, NEW need, NEW k, NEW r \in gmap_take(m, d, f, hint, need, k)
  PROVE  r.res = "next" \/ r.res = "eio" \/ r.res = "found"
<1>1. CASE m.free[SearchGroup(hint, k)] = 0 BY <1>1 DEF gmap_take
<1>2. CASE m.free[SearchGroup(hint, k)] # 0
  <2>1. PICK v : r = TakeFrom(v, SearchFrom(hint, k), SearchGroup(hint, k), need) BY <1>2 DEF gmap_take
  <2> QED BY <2>1 DEF TakeFrom
<1> QED BY <1>1, <1>2

\* take_extent: the list or the groups are used up, or one group was searched.
LEMMA TakeCases ==
  ASSUME take_extent
  PROVE  /\ job.pc = "take" /\ UNCHANGED <<files, defer, ops, formats>>
         /\ \/ /\ (IsWrite(job) /\ Len(job.fresh) = MaxExt) \/ job.k > NGroups
               /\ job' = Failed(job) /\ vol' = BrokenBy(job) /\ UNCHANGED <<disk, stable, gm, faults>>
            \/ /\ ~((IsWrite(job) /\ Len(job.fresh) = MaxExt) \/ job.k > NGroups)
               /\ \E r \in gmap_take(gm, disk, faults, vol.hint, Want(job), job.k) :
                  /\ gm' = r.m /\ SetDisk(r.d) /\ faults' = r.f
                  /\ \/ r.res = "next" /\ job' = NextTurn(job) /\ vol' = vol
                     \/ r.res = "eio" /\ job' = Failed(job) /\ vol' = BrokenBy(job)
                     \/ r.res = "found" /\ job' = Took(job, r.ext) /\ vol' = Hinted(vol, r.ext)
<1> DEFINE over == (IsWrite(job) /\ Len(job.fresh) = MaxExt) \/ job.k > NGroups
<1>1. job.pc = "take" /\ UNCHANGED <<files, defer, ops, formats>> BY Zenon DEF take_extent
<1>2. CASE over BY <1>1, <1>2, Zenon DEF take_extent, IsWrite
<1>3. CASE ~over
  <2>1. PICK r \in gmap_take(gm, disk, faults, vol.hint, Want(job), job.k) :
          /\ gm' = r.m /\ SetDisk(r.d) /\ faults' = r.f
          /\ CASE r.res = "next" -> job' = NextTurn(job) /\ vol' = vol
               [] r.res = "eio" -> job' = Failed(job) /\ vol' = BrokenBy(job)
               [] r.res = "found" -> vol' = Hinted(vol, r.ext) /\ job' = Took(job, r.ext)
    BY <1>3, Zenon DEF take_extent, IsWrite, Want, NextTurn, Took, Hinted
  <2>2. r.res = "next" \/ r.res = "eio" \/ r.res = "found" BY TakeResults
  <2>3. \/ r.res = "next" /\ job' = NextTurn(job) /\ vol' = vol
        \/ r.res = "eio" /\ job' = Failed(job) /\ vol' = BrokenBy(job)
        \/ r.res = "found" /\ job' = Took(job, r.ext) /\ vol' = Hinted(vol, r.ext)
    BY <2>1, <2>2
  <2> QED BY <1>1, <1>3, <2>1, <2>3
<1> QED BY <1>2, <1>3

\* The steps of a write after its blocks are taken.
Staged(j, s) == [j EXCEPT !.stage = s, !.i = 0, !.pc = IF j.need = 0 THEN "install" ELSE "data"]
NextPut(j) == [j EXCEPT !.i = @ + 1, !.pc = IF j.i + 1 = j.need THEN "install" ELSE "data"]
ReserveOk ==
    /\ Len(NewList(job)) <= MaxExt
    /\ job.op = "write" => DeferRoom(Len(DeferredBy(files[job.ino])))
    /\ PoolRoom(Len(NewList(job)))

\* Reserve: the new list is staged, or the write fails.
LEMMA ReserveCases ==
  ASSUME Reserve
  PROVE  /\ job.pc = "reserve" /\ UNCHANGED <<disk, stable, gm, vol, files, defer, faults, ops, formats>>
         /\ \/ ReserveOk /\ job' = Staged(job, NewList(job))
            \/ ~ReserveOk /\ job' = Failed(job)
<1>1. job.pc = "reserve" /\ UNCHANGED <<disk, stable, gm, vol, files, defer, faults, ops, formats>>
  BY Zenon DEF Reserve
<1>2. job' = IF ReserveOk THEN Staged(job, NewList(job)) ELSE Failed(job)
  BY Zenon DEF Reserve, ReserveOk, Staged
<1> QED BY <1>1, <1>2

\* DataPut: the old block cannot be read, or the page was sent to the disk.
LEMMA DataCases ==
  ASSUME DataPut
  PROVE  /\ job.pc = "data" /\ UNCHANGED <<gm, vol, files, defer, ops, formats>>
         /\ \/ /\ job' = Failed(job) /\ UNCHANGED <<disk, stable>>
               /\ \E b : \E r \in blk_got(faults, b) : faults' = r.f
            \/ \E f, page : \E w \in blk_put(disk, f, BlockList(job.fresh)[job.i + 1], DataBlock(page)) :
                 /\ f = faults \/ \E b : \E r \in blk_got(faults, b) : f = r.f
                 /\ SetDisk(w.d) /\ faults' = w.f
                 /\ job' = IF w.ok THEN NextPut(job) ELSE Failed(job)
<1> DEFINE first == IF job.op = "write" THEN 0 ELSE FirstBlock(job)
           l == first + job.i
           b == BlockList(files[job.ino].exts)[l + 1]
           reads == IF Partial(job, l) THEN blk_got(faults, b) ELSE {[ok |-> TRUE, f |-> faults]}
<1>1. job.pc = "data" /\ UNCHANGED <<gm, vol, files, defer, ops, formats>> BY Zenon DEF DataPut
<1>2. PICK r \in reads :
         IF ~r.ok
         THEN job' = Failed(job) /\ faults' = r.f /\ UNCHANGED <<disk, stable>>
         ELSE \E w \in blk_put(disk, r.f, BlockList(job.fresh)[job.i + 1], DataBlock(Page(job, l))) :
              /\ SetDisk(w.d) /\ faults' = w.f
              /\ job' = IF ~w.ok THEN Failed(job) ELSE NextPut(job)
  BY Zenon DEF DataPut, NextPut
<1>3. (\E q \in blk_got(faults, b) : r.f = q.f) \/ (r.ok /\ r.f = faults)
  <2>1. CASE Partial(job, l) BY <2>1
  <2>2. CASE ~Partial(job, l)
    <3>1. r = [ok |-> TRUE, f |-> faults] BY <2>2
    <3> QED BY <3>1
  <2> QED BY <2>1, <2>2
<1> HIDE DEF reads, b, l, first
<1>4. CASE ~r.ok BY <1>1, <1>2, <1>3, <1>4
<1>5. CASE r.ok
  <2>1. PICK w \in blk_put(disk, r.f, BlockList(job.fresh)[job.i + 1], DataBlock(Page(job, l))) :
              /\ SetDisk(w.d) /\ faults' = w.f
              /\ job' = IF ~w.ok THEN Failed(job) ELSE NextPut(job)
    BY <1>2, <1>5
  <2>2. job' = IF w.ok THEN NextPut(job) ELSE Failed(job) BY <2>1
  <2> QED BY <1>1, <1>3, <2>1, <2>2
<1> QED BY <1>4, <1>5

\* release_fresh: everything is given back, or one extent more.
LEMMA UndoCases ==
  ASSUME release_fresh
  PROVE  /\ job.pc = "undo" /\ UNCHANGED <<vol, files, defer, ops, formats>>
         /\ \/ job.i > Len(job.fresh) /\ job' = Idle /\ UNCHANGED <<disk, stable, gm, faults>>
            \/ /\ ~(job.i > Len(job.fresh)) /\ job' = NextItem(job)
               /\ \E r \in gmap_release(gm, disk, faults, job.fresh[job.i]) :
                    /\ r.ok \/ ForgetFaults
                    /\ gm' = r.m /\ SetDisk(r.d) /\ faults' = r.f
BY Zenon DEF release_fresh, NextItem

\* The steps of a commit: the files that still need a chain, and the jobs.
Rest == {i \in Inodes : i >= job.ino /\ files[i].used /\ files[i].dirty}
ToRelease(j) == [j EXCEPT !.pc = "release", !.i = 1]
ToFile(j, i) == [j EXCEPT !.ino = i]
ToTake(j, i, n) == [j EXCEPT !.pc = "take", !.ino = i, !.need = n, !.fresh = <<>>, !.k = 0, !.i = 0]
ChainDone(j) == [j EXCEPT !.pc = "file", !.ino = @ + 1, !.fresh = <<>>]
NoChain(fs, i) == [fs EXCEPT ![i].chain = <<>>]
NewChain(fs, i, c) == [fs EXCEPT ![i].chain = c]
Starts(fresh) == [k \in DOMAIN fresh |-> fresh[k].start]

\* ChainFile: no file is left, the next needs no chain, or it needs one.
LEMMA FileCases ==
  ASSUME ChainFile
  PROVE  /\ job.pc = "file" /\ UNCHANGED <<disk, stable, gm, vol, defer, faults, ops, formats>>
         /\ \/ Rest = {} /\ job' = ToRelease(job) /\ files' = files
            \/ /\ Rest # {} /\ ChainBlocks(Len(files[Min(Rest)].exts)) = 0
               /\ job' = ToFile(job, Min(Rest) + 1) /\ files' = NoChain(files, Min(Rest))
            \/ /\ Rest # {} /\ ChainBlocks(Len(files[Min(Rest)].exts)) # 0
               /\ job' = ToTake(job, Min(Rest), ChainBlocks(Len(files[Min(Rest)].exts))) /\ files' = files
BY Zenon DEF ChainFile, Rest, ToRelease, ToFile, ToTake, NoChain

\* ChainPut: a chain block fails, is one of several, or is the last.
LEMMA ChainCases ==
  ASSUME ChainPut
  PROVE  /\ job.pc = "chain" /\ UNCHANGED <<gm, defer, ops, formats>>
         /\ \E w \in blk_put(disk, faults, Starts(job.fresh)[job.i + 1],
                             ChainBlock(files[job.ino], Starts(job.fresh), job.i)) :
              /\ SetDisk(w.d) /\ faults' = w.f
              /\ \/ ~w.ok /\ job' = Idle /\ vol' = BrokenBy(job) /\ files' = files
                 \/ /\ w.ok /\ job.i + 1 < Len(Starts(job.fresh)) /\ vol' = vol
                    /\ job' = NextItem(job) /\ files' = files
                 \/ /\ w.ok /\ ~(job.i + 1 < Len(Starts(job.fresh))) /\ vol' = vol
                    /\ job' = ChainDone(job) /\ files' = NewChain(files, job.ino, Starts(job.fresh))
BY Zenon DEF ChainPut, Starts, NextItem, ChainDone, NewChain

\* The later steps of a commit.
ToFlush(j) == [j EXCEPT !.pc = "flush"]
ToItab(j) == [j EXCEPT !.pc = "itab", !.i = 0]
NextPage(j) == [j EXCEPT !.i = @ + 1, !.pc = IF j.i + 1 = ITabBlocks THEN "super" ELSE "itab"]
ItabPage(fs, b) == [kind |-> "itab", recs |-> [i \in InodesOf(b) |-> inode_encode(fs[i])]]
Clean(fs) == [i \in Inodes |-> [fs[i] EXCEPT !.dirty = FALSE]]
Committed(v, gen, op) == [v EXCEPT !.gen = gen, !.dirty = FALSE, !.mounted = op # "unmount"]

\* apply_deferred: the list is done, or one extent was released.
LEMMA DeferCases ==
  ASSUME apply_deferred
  PROVE  /\ job.pc = "release" /\ UNCHANGED <<files, ops, formats>>
         /\ \/ /\ job.i > Len(defer) /\ defer' = <<>> /\ job' = ToFlush(job)
               /\ UNCHANGED <<disk, stable, gm, vol, faults>>
            \/ /\ ~(job.i > Len(defer)) /\ defer' = defer
               /\ \E r \in gmap_release(gm, disk, faults, defer[job.i]) :
                    /\ gm' = r.m /\ SetDisk(r.d) /\ faults' = r.f
                    /\ \/ r.ok /\ job' = NextItem(job) /\ vol' = vol
                       \/ ~r.ok /\ job' = Idle /\ vol' = BrokenBy(job)
BY Zenon DEF apply_deferred, NextItem, ToFlush

\* gmap_flush: no entry is dirty, or one was sent to the disk.
LEMMA FlushCases ==
  ASSUME gmap_flush
  PROVE  /\ job.pc = "flush" /\ UNCHANGED <<files, defer, ops, formats>>
         /\ \/ DirtyIn(gm) = {} /\ job' = ToItab(job) /\ UNCHANGED <<disk, stable, gm, vol, faults>>
            \/ /\ DirtyIn(gm) # {}
               /\ \E r \in flush_one(gm, disk, faults, Min(DirtyIn(gm))) :
                    /\ gm' = r.m /\ SetDisk(r.d) /\ faults' = r.f
                    /\ \/ r.ok /\ job' = job /\ vol' = vol
                       \/ ~r.ok /\ job' = Idle /\ vol' = BrokenBy(job)
BY Zenon DEF gmap_flush, DirtyIn, ToItab

\* ItabPut: one page of the table was sent to the disk.
LEMMA ItabCases ==
  ASSUME ItabPut
  PROVE  /\ job.pc = "itab" /\ UNCHANGED <<gm, files, defer, ops, formats>>
         /\ \E w \in blk_put(disk, faults, Area(vol.gen + 1) + job.i, ItabPage(files, job.i)) :
              /\ SetDisk(w.d) /\ faults' = w.f
              /\ \/ w.ok /\ job' = NextPage(job) /\ vol' = vol
                 \/ ~w.ok /\ job' = Idle /\ vol' = BrokenBy(job)
BY Zenon DEF ItabPut, ItabPage, NextPage

\* SuperPut: the commit is done, or the volume is broken.
LEMMA SuperCases ==
  ASSUME SuperPut
  PROVE  /\ job.pc = "super" /\ job' = Idle /\ UNCHANGED <<defer, ops, formats>>
         /\ \E w \in blk_put(disk, faults, (vol.gen + 1) % 2, sb_encode(vol.gen + 1, ExportSlots(gm), gm.free)) :
              /\ SetDisk(w.d) /\ faults' = w.f
              /\ \/ /\ w.ok /\ gm' = gmap_commit(gm) /\ files' = Clean(files)
                    /\ vol' = Committed(vol, vol.gen + 1, job.op)
                 \/ ~w.ok /\ vol' = BrokenBy(job) /\ UNCHANGED <<gm, files>>
BY Zenon DEF SuperPut, Clean, Committed

\* FormatGroup: one group was sent to the disk.
LEMMA GroupCases ==
  ASSUME FormatGroup
  PROVE  /\ job.pc = "format" /\ job.i < NGroups /\ UNCHANGED <<vol, files, defer, ops, formats>>
         /\ \E r \in gmap_format_group(gm, disk, faults, job.i) :
              /\ gm' = r.m /\ SetDisk(r.d) /\ faults' = r.f
              /\ job' = IF r.ok THEN NextItem(job) ELSE Idle
BY Zenon DEF FormatGroup, NextItem

\* The fields after each of these steps.
LEMMA Named ==
  ASSUME NEW j, JobRec(j), NEW p, NEW q, NEW e
  PROVE  /\ JobIs(NextTurn(j), j, j.pc, j.ino, j.need, j.k + 1, j.i, j.fresh, j.stage)
         /\ JobIs(NextItem(j), j, j.pc, j.ino, j.need, j.k, j.i + 1, j.fresh, j.stage)
         /\ JobIs(Took(j, e), j, IF LenSum(j.fresh) + e.len < j.need THEN "take"
                                 ELSE IF j.op \in {"write", "write_at"} THEN "reserve" ELSE "chain",
                  j.ino, j.need, 0, j.i, Append(j.fresh, e), j.stage)
         /\ JobIs(Staged(j, q), j, IF j.need = 0 THEN "install" ELSE "data", j.ino, j.need, j.k, 0, j.fresh, q)
         /\ JobIs(NextPut(j), j, IF j.i + 1 = j.need THEN "install" ELSE "data", j.ino, j.need, j.k, j.i + 1,
                  j.fresh, j.stage)
         /\ JobIs(ToRelease(j), j, "release", j.ino, j.need, j.k, 1, j.fresh, j.stage)
         /\ JobIs(ToFile(j, p), j, j.pc, p, j.need, j.k, j.i, j.fresh, j.stage)
         /\ JobIs(ToTake(j, q, p), j, "take", q, p, 0, 0, <<>>, j.stage)
         /\ JobIs(ChainDone(j), j, "file", j.ino + 1, j.need, j.k, j.i, <<>>, j.stage)
         /\ JobIs(ToFlush(j), j, "flush", j.ino, j.need, j.k, j.i, j.fresh, j.stage)
         /\ JobIs(ToItab(j), j, "itab", j.ino, j.need, j.k, 0, j.fresh, j.stage)
         /\ JobIs(NextPage(j), j, IF j.i + 1 = ITabBlocks THEN "super" ELSE "itab", j.ino, j.need, j.k, j.i + 1,
                  j.fresh, j.stage)
<1>1. \A x : JobIs([j EXCEPT !.i = @ + 1, !.pc = x], j, x, j.ino, j.need, j.k, j.i + 1, j.fresh, j.stage)
  BY JobSteps, Zenon
<1>2. \A x, y : JobIs([j EXCEPT !.stage = y, !.i = 0, !.pc = x], j, x, j.ino, j.need, j.k, 0, j.fresh, y)
  BY JobSteps, Zenon
<1>3. \A x, y : JobIs([j EXCEPT !.k = 0, !.fresh = y, !.pc = x], j, x, j.ino, j.need, 0, j.i, y, j.stage)
  BY JobSteps, Zenon
<1>4. JobIs(Took(j, e), j, IF LenSum(j.fresh) + e.len < j.need THEN "take"
                                 ELSE IF j.op \in {"write", "write_at"} THEN "reserve" ELSE "chain",
                  j.ino, j.need, 0, j.i, Append(j.fresh, e), j.stage)
  BY <1>3, Zenon DEF Took
<1>5. JobIs(Staged(j, q), j, IF j.need = 0 THEN "install" ELSE "data", j.ino, j.need, j.k, 0, j.fresh, q)
  BY <1>2, Zenon DEF Staged
<1>6. JobIs(NextPut(j), j, IF j.i + 1 = j.need THEN "install" ELSE "data", j.ino, j.need, j.k, j.i + 1,
                  j.fresh, j.stage)
  BY <1>1, Zenon DEF NextPut
<1>7. JobIs(NextPage(j), j, IF j.i + 1 = ITabBlocks THEN "super" ELSE "itab", j.ino, j.need, j.k, j.i + 1,
                  j.fresh, j.stage)
  BY <1>1, Zenon DEF NextPage
<1>8. /\ JobIs(NextTurn(j), j, j.pc, j.ino, j.need, j.k + 1, j.i, j.fresh, j.stage)
      /\ JobIs(NextItem(j), j, j.pc, j.ino, j.need, j.k, j.i + 1, j.fresh, j.stage)
      /\ JobIs(ToRelease(j), j, "release", j.ino, j.need, j.k, 1, j.fresh, j.stage)
      /\ JobIs(ToFile(j, p), j, j.pc, p, j.need, j.k, j.i, j.fresh, j.stage)
      /\ JobIs(ChainDone(j), j, "file", j.ino + 1, j.need, j.k, j.i, <<>>, j.stage)
      /\ JobIs(ToFlush(j), j, "flush", j.ino, j.need, j.k, j.i, j.fresh, j.stage)
      /\ JobIs(ToItab(j), j, "itab", j.ino, j.need, j.k, 0, j.fresh, j.stage)
  BY JobSteps, Zenon DEF NextTurn, NextItem, ToRelease, ToFile, ChainDone, ToFlush, ToItab
<1>9. JobIs(ToTake(j, q, p), j, "take", q, p, 0, 0, <<>>, j.stage) BY JobSteps, Zenon DEF ToTake
<1> QED BY <1>4, <1>5, <1>6, <1>7, <1>8, <1>9, Zenon

\* A step that goes to undo, or back to Idle.
LEMMA FailAhead ==
  ASSUME Shapes, job' = Failed(job), GmShape(gm'), job.pc \in {"take", "reserve", "data"}
  PROVE  Shapes' /\ (job' = Idle \/ Precedes(Progress, Progress'))
<1>0. JobShape(job) BY DEF Shapes
<1>1. JobShape(job') BY <1>0, FailedJob
<1>2. CASE job' = Idle BY <1>1, <1>2 DEF Shapes
<1>3. CASE JobIs(job', job, "undo", job.ino, job.need, job.k, 1, job.fresh, job.stage)
  <2>1. Stage[job.pc] < Stage["undo"] BY Stages
  <2> QED BY <1>0, <1>3, <2>1, Ahead DEF JobShape
<1> QED BY <1>0, <1>2, <1>3, FailedJob

\* Every step of a call keeps the shapes, and ends the call or brings it ahead.
LEMMA StepAhead ==
  ASSUME Shapes, JobStep
  PROVE  Shapes' /\ (job' = Idle \/ Precedes(Progress, Progress'))
<1>0. /\ JobShape(job) /\ GmShape(gm) /\ JobRec(job) /\ job.ino \in Int /\ job.k \in Int /\ job.i \in Int
      /\ IsList(job.fresh) /\ 0 \in Int /\ 1 \in Int /\ job.k + 1 \in Int /\ job.i + 1 \in Int /\ job.ino + 1 \in Int
      /\ job.k < job.k + 1 /\ job.i < job.i + 1 /\ job.ino < job.ino + 1
  BY DEF Shapes, JobShape
<1>i. ASSUME job' = Idle, GmShape(gm') PROVE Shapes' BY <1>i, IdleJob DEF Shapes
<1>n. ASSUME job' = NextItem(job), GmShape(gm') PROVE Shapes' /\ Precedes(Progress, Progress')
  <2>1. JobIs(job', job, job.pc, job.ino, job.need, job.k, job.i + 1, job.fresh, job.stage) BY <1>0, <1>n, Named
  <2> QED BY <1>0, <1>n, <2>1, Ahead
<1>s. ASSUME NEW n, n \in [slot : {n.slot}, written : {n.written}, free : {n.free}, cache : {n.cache}], n.cache = gm.cache
      PROVE  GmShape(n)
  BY <1>0, <1>s DEF GmShape
<1>1. CASE take_extent
  <2>1. job.pc = "take" BY <1>1, TakeCases
  <2>2. CASE job' = Failed(job) /\ UNCHANGED gm BY <1>0, <2>1, <2>2, FailAhead
  <2>3. CASE \E r \in gmap_take(gm, disk, faults, vol.hint, Want(job), job.k) :
                  /\ gm' = r.m
                  /\ job' = NextTurn(job) \/ job' = Failed(job) \/ job' = Took(job, r.ext)
    <3>1. PICK r \in gmap_take(gm, disk, faults, vol.hint, Want(job), job.k) :
                  /\ gm' = r.m
                  /\ job' = NextTurn(job) \/ job' = Failed(job) \/ job' = Took(job, r.ext)
      BY <2>3
    <3>2. GmShape(gm') BY <3>1, <1>0, TakeShape
    <3>3. CASE job' = Failed(job) BY <3>2, <2>1, <3>3, FailAhead
    <3>4. CASE job' = NextTurn(job)
      <4>1. JobIs(job', job, job.pc, job.ino, job.need, job.k + 1, job.i, job.fresh, job.stage)
        BY <1>0, <3>4, Named
      <4> QED BY <1>0, <3>2, <4>1, Ahead
    <3>5. CASE job' = Took(job, r.ext)
      <4> DEFINE fr == Append(job.fresh, r.ext)
                 p == IF LenSum(job.fresh) + r.ext.len < job.need THEN "take"
                      ELSE IF job.op \in {"write", "write_at"} THEN "reserve" ELSE "chain"
      <4>1. JobIs(job', job, p, job.ino, job.need, 0, job.i, fr, job.stage) BY <1>0, <3>5, Named
      <4>2. IsList(fr) /\ Len(job.fresh) < Len(fr) BY <1>0, AppendFresh
      <4>3. p \in {"take", "reserve", "chain"} OBVIOUS
      <4> HIDE DEF p, fr
      <4>5. CASE p = "reserve"
        <5>1. Stage[job.pc] < Stage[p] BY <4>5, <2>1, Stages
        <5> QED BY <5>1, <4>1, <3>2, <1>0, <4>2, Ahead
      <4>6. CASE p = "chain"
        <5>1. Stage[job.pc] = Stage[p] /\ TurnOf(job.pc) < TurnOf(p) BY <4>6, <2>1, Stages DEF TurnOf
        <5> QED BY <5>1, <4>1, <3>2, <1>0, <4>2, Ahead
      <4>7. CASE p = "take"
        <5> QED BY <4>7, <2>1, <4>1, <4>2, <3>2, <1>0, Ahead
      <4> QED BY <4>3, <4>5, <4>6, <4>7
    <3> QED BY <3>1, <3>3, <3>4, <3>5
  <2> QED BY <2>2, <2>3, <1>1, TakeCases
<1>2. CASE Reserve
  <2>1. job.pc = "reserve" /\ GmShape(gm') BY <1>0, <1>2, ReserveCases
  <2>2. CASE job' = Failed(job) BY <2>1, <2>2, FailAhead
  <2>3. CASE job' = Staged(job, NewList(job))
    <3> DEFINE p == IF job.need = 0 THEN "install" ELSE "data"
    <3>1. JobIs(job', job, p, job.ino, job.need, job.k, 0, job.fresh, NewList(job)) BY <1>0, <2>3, Named
    <3>2. Stage[job.pc] < Stage[p] BY <2>1, Stages
    <3> HIDE DEF p
    <3> QED BY <2>1, <3>1, <3>2, <1>0, Ahead
  <2> QED BY <2>2, <2>3, <1>2, ReserveCases
<1>3. CASE DataPut
  <2>1. job.pc = "data" /\ GmShape(gm') BY <1>0, <1>3, DataCases
  <2>2. CASE job' = Failed(job) BY <2>1, <2>2, FailAhead
  <2>3. CASE job' = NextPut(job)
    <3> DEFINE p == IF job.i + 1 = job.need THEN "install" ELSE "data"
    <3>1. JobIs(job', job, p, job.ino, job.need, job.k, job.i + 1, job.fresh, job.stage) BY <1>0, <2>3, Named
    <3>2. (p = "install" /\ Stage[job.pc] < Stage[p]) \/ p = job.pc BY <2>1, Stages
    <3> HIDE DEF p
    <3> QED BY <1>0, <2>1, <3>1, <3>2, Ahead
  <2> QED BY <2>2, <2>3, <1>3, DataCases
<1>4. CASE Install BY <1>0, <1>4, <1>i DEF Install
<1>5. CASE release_fresh
  <2>1. CASE job' = Idle /\ UNCHANGED gm BY <1>0, <2>1, <1>i
  <2>2. CASE job' = NextItem(job) /\ \E r \in gmap_release(gm, disk, faults, job.fresh[job.i]) : gm' = r.m
    BY <1>0, <2>2, <1>n, ReleaseShape
  <2> QED BY <2>1, <2>2, <1>5, UndoCases
<1>6. CASE ChainFile
  <2>1. job.pc = "file" /\ GmShape(gm') BY <1>0, <1>6, FileCases
  <2>2. CASE job' = ToRelease(job)
    <3>1. JobIs(job', job, "release", job.ino, job.need, job.k, 1, job.fresh, job.stage) BY <1>0, <2>2, Named
    <3>2. Stage[job.pc] < Stage["release"] BY <2>1, Stages
    <3> QED BY <2>1, <3>1, <3>2, <1>0, Ahead
  <2> DEFINE i == Min(Rest)
  <2>3. Rest # {} => i \in Int /\ i + 1 \in Int /\ job.ino < i + 1 /\ (job.ino < i \/ job.ino = i)
    <3>1. Rest \subseteq Nat BY DEF Rest, Inodes
    <3>2. Rest # {} => i \in Rest BY <3>1, Least
    <3>3. \A x \in Rest : x \in Int /\ x >= job.ino BY <3>1 DEF Rest
    <3>4. \A x \in Int : x >= job.ino => x + 1 \in Int /\ job.ino < x + 1 /\ (job.ino < x \/ job.ino = x) BY <1>0
    <3> QED BY <3>2, <3>3, <3>4
  <2>4. CASE Rest # {} /\ job' = ToFile(job, i + 1)
    <3>1. JobIs(job', job, job.pc, i + 1, job.need, job.k, job.i, job.fresh, job.stage) BY <1>0, <2>4, Named
    <3> HIDE DEF i
    <3> QED BY <2>1, <2>3, <2>4, <3>1, <1>0, Ahead
  <2>5. CASE Rest # {} /\ job' = ToTake(job, i, ChainBlocks(Len(files[i].exts)))
    <3> DEFINE n == ChainBlocks(Len(files[i].exts))
    <3>1. JobIs(job', job, "take", i, n, 0, 0, <<>>, job.stage) BY <1>0, <2>5, Named
    <3> HIDE DEF i, n
    <3>3. Stage[job.pc] = Stage["take"] /\ TurnOf(job.pc) < TurnOf("take") BY <2>1, Stages DEF TurnOf
    <3> QED BY <2>1, <2>3, <2>5, <3>1, <3>3, <1>0, EmptyList, Ahead
  <2> QED BY <2>2, <2>4, <2>5, <1>6, FileCases
<1>7. CASE ChainPut
  <2>1. job.pc = "chain" /\ GmShape(gm') BY <1>0, <1>7, ChainCases
  <2>2. CASE job' = Idle BY <2>1, <2>2, <1>i
  <2>3. CASE job' = NextItem(job) BY <2>1, <2>3, <1>n
  <2>4. CASE job' = ChainDone(job)
    <3>1. JobIs(job', job, "file", job.ino + 1, job.need, job.k, job.i, <<>>, job.stage) BY <1>0, <2>4, Named
    <3>2. Stage[job.pc] = Stage["file"] BY <2>1, Stages
    <3> QED BY <1>0, <2>1, <3>1, <3>2, EmptyList, Ahead
  <2> QED BY <2>2, <2>3, <2>4, <1>7, ChainCases
<1>8. CASE apply_deferred
  <2>1. job.pc = "release" BY <1>8, DeferCases
  <2>2. CASE job' = ToFlush(job) /\ UNCHANGED gm
    <3>1. JobIs(job', job, "flush", job.ino, job.need, job.k, job.i, job.fresh, job.stage) BY <1>0, <2>2, Named
    <3>2. Stage[job.pc] < Stage["flush"] BY <2>1, Stages
    <3> QED BY <1>0, <2>2, <3>1, <3>2, Ahead
  <2>3. CASE (job' = NextItem(job) \/ job' = Idle) /\ \E r \in gmap_release(gm, disk, faults, defer[job.i]) : gm' = r.m
    BY <1>0, <2>3, <1>n, <1>i, ReleaseShape
  <2> QED BY <2>2, <2>3, <1>8, DeferCases
<1>9. CASE gmap_flush
  <2>1. job.pc = "flush" BY <1>9, FlushCases
  <2>2. CASE DirtyIn(gm) = {}
    <3>1. job' = ToItab(job) /\ UNCHANGED gm BY <2>2, <1>9, FlushCases
    <3>2. JobIs(job', job, "itab", job.ino, job.need, job.k, 0, job.fresh, job.stage) BY <1>0, <3>1, Named
    <3>3. Stage[job.pc] < Stage["itab"] BY <2>1, Stages
    <3> QED BY <1>0, <3>1, <3>2, <3>3, Ahead
  <2>3. CASE DirtyIn(gm) # {}
    <3>1. PICK r \in flush_one(gm, disk, faults, Min(DirtyIn(gm))) :
                   gm' = r.m /\ ((r.ok /\ job' = job) \/ (~r.ok /\ job' = Idle))
      BY <2>3, <1>9, FlushCases
    <3>2. CASE r.ok
      <4>1. GmShape(gm') /\ -Cardinality(DirtyIn(gm)) < -Cardinality(DirtyIn(gm'))
        BY <1>0, <2>3, <3>1, <3>2, FlushCounts
      <4>2. job' = job BY <3>1, <3>2
      <4>3. JobIs(job', job, job.pc, job.ino, job.need, job.k, job.i, job.fresh, job.stage)
        BY <4>2, <1>0 DEF JobIs
      <4> QED BY <4>1, <4>2, <4>3, <1>0, Ahead
    <3>3. CASE ~r.ok
      <4>1. gm' = gm BY <3>1, <3>3 DEF flush_one
      <4> QED BY <4>1, <3>1, <3>3, <1>0, <1>i
    <3> QED BY <3>2, <3>3
  <2> QED BY <2>2, <2>3
<1>10. CASE ItabPut
  <2>1. job.pc = "itab" /\ GmShape(gm') BY <1>0, <1>10, ItabCases
  <2>2. CASE job' = Idle BY <2>1, <2>2, <1>i
  <2>3. CASE job' = NextPage(job)
    <3> DEFINE p == IF job.i + 1 = ITabBlocks THEN "super" ELSE "itab"
    <3>1. JobIs(job', job, p, job.ino, job.need, job.k, job.i + 1, job.fresh, job.stage) BY <1>0, <2>3, Named
    <3>2. (p = "super" /\ Stage[job.pc] < Stage[p]) \/ p = job.pc BY <2>1, Stages
    <3> HIDE DEF p
    <3> QED BY <1>0, <2>1, <3>1, <3>2, Ahead
  <2> QED BY <2>2, <2>3, <1>10, ItabCases
<1>11. CASE SuperPut
  <2>1. GmShape(gmap_commit(gm)) 
    <3> DEFINE n == gmap_commit(gm)
    <3>1. n \in [slot : {n.slot}, written : {n.written}, free : {n.free}, cache : {n.cache}] /\ n.cache = gm.cache
      BY <1>0 DEF GmShape, gmap_commit
    <3> HIDE DEF n
    <3> QED BY <3>1, <1>s DEF n
  <2>2. job' = Idle /\ (gm' = gmap_commit(gm) \/ gm' = gm) BY <1>11, SuperCases
  <2> QED BY <2>1, <2>2, <1>0, <1>i
<1>12. CASE FormatGroup
  <2>1. PICK r \in gmap_format_group(gm, disk, faults, job.i) :
          gm' = r.m /\ (job' = NextItem(job) \/ job' = Idle)
    BY <1>12, GroupCases
  <2>2. GmShape(gm')
    <3>1. PICK ok : r.m = Formatted(gm, job.i, ok) BY <2>1 DEF gmap_format_group
    <3> DEFINE n == Formatted(gm, job.i, ok)
    <3>2. n \in [slot : {n.slot}, written : {n.written}, free : {n.free}, cache : {n.cache}] /\ n.cache = gm.cache
      BY <1>0 DEF GmShape, Formatted
    <3> HIDE DEF n
    <3> QED BY <3>1, <3>2, <2>1, <1>s DEF n
  <2> QED BY <2>1, <2>2, <1>i, <1>n
<1>13. CASE FormatTree
  <2>1. job.pc = "format" /\ gm' = gm /\ job' = StartJob("format", "file") BY <1>13 DEF FormatTree
  <2>2. JobIs(job', job', "file", 0, 0, 0, 0, <<>>, <<>>) BY <2>1, CommitFields DEF JobIs
  <2>3. JobShape(job') BY <2>2, JobIsShape, EmptyList, <1>0
  <2>4. Stage[job.pc] < Stage["file"] BY <2>1, Stages
  <2>5. Precedes(Progress, Progress')
    <3>1. Progress[1] = Stage[job.pc] /\ Progress'[1] = Stage["file"] /\ DOMAIN Progress = 1 .. 7
      BY <2>2 DEF Progress, JobIs, Stage
    <3>2. 1 \in 1 .. 7 /\ \A h \in 1 .. (1 - 1) : FALSE OBVIOUS
    <3> HIDE DEF Progress
    <3> QED BY <3>1, <3>2, <2>4 DEF Precedes
  <2> QED BY <2>1, <2>3, <2>5, <1>0 DEF Shapes
<1> QED BY <1>1, <1>2, <1>3, <1>4, <1>5, <1>6, <1>7, <1>8, <1>9, <1>10, <1>11, <1>12, <1>13 DEF JobStep

\* Every step of a running call ends the call or takes it further in the order
\* of Progress: no search, undo or commit loop goes on for ever, whatever the
\* device answers and wherever a fault hits (CallsEnd).
THEOREM CallsAlwaysEnd == Spec => CallsEnd
<1>1. Init => Shapes BY IdleJob, InitGmShape DEF Init, Shapes
<1>2. ASSUME Shapes, [Next]_vars PROVE Shapes' /\ (job # Idle /\ vars' # vars => job' = Idle \/ Precedes(Progress, Progress'))
  <2>1. CASE JobStep BY <1>2, <2>1, StepAhead
  <2>2. CASE Call
    <3>1. job = Idle
      BY <2>2, Zenon DEF Call, exfs_create, exfs_mkdir, Make, exfs_delete, exfs_write, exfs_write_at, exfs_commit,
         UnmountClean, exfs_format, exfs_mount, MountFails
    <3> QED BY <3>1, <2>2, <1>2, StartShape
  <2>3. CASE Crash BY <2>3, IdleJob, InitGmShape DEF Crash, Shapes
  <2>4. CASE vars' = vars BY <2>4, <1>2 DEF vars, Shapes
  <2> QED BY <1>2, <2>1, <2>2, <2>3, <2>4 DEF Next
<1>3. Shapes /\ [Next]_vars => Shapes' BY <1>2
<1>4. Shapes /\ [Next]_vars => [job # Idle => job' = Idle \/ Precedes(Progress, Progress')]_vars
  BY <1>2
<1> QED BY <1>1, <1>3, <1>4, PTL DEF Spec, CallsEnd

-----------------------------------------------------------------------------
(* The invariant.                                                          *)

\* No second format, no write cache, no error in an eviction's map write or an
\* undo's map access (gmap.c:120-123) or in a mount's superblock reads. The code
\* meets all of these, and the properties are then false (README, 4 and 7).
Tame == ~ForgetFaults /\ ~VolatileCache /\ ~SbReadFaults /\ MaxFormats <= 1

\* Extents, files, map entries.
Ext == [start : Nat, len : Nat \ {0}]
FileRec(f) == f \in [used : BOOLEAN, type : {f.type}, size : {f.size}, name : {f.name},
                     exts : Seq(Ext), chain : Seq(Nat), dirty : BOOLEAN]
FileOk(f) ==
    /\ FileRec(f)
    /\ Len(f.exts) <= MaxExt /\ Len(f.chain) <= MaxChain
    /\ ~f.used => /\ f.type = "file" /\ f.size = 0 /\ f.name = <<>>
                  /\ f.exts = <<>> /\ f.chain = <<>>
Entries == [g : Groups, bits : SUBSET Int, dirty : BOOLEAN]

\* A group map with the fields and sizes of a GMap, each group cached once.
MapRec(m) == m \in [slot : {m.slot}, written : {m.written}, free : {m.free}, cache : {m.cache}]
MapTyped(m) ==
    /\ MapRec(m)
    /\ m.slot \in [Groups -> {0, 1}] /\ m.written \in [Groups -> BOOLEAN] /\ m.free \in [Groups -> 0 .. GB]
    /\ m.cache \in Seq(Entries) /\ Len(m.cache) <= CacheSize
    /\ \A i, j \in DOMAIN m.cache : m.cache[i].g = m.cache[j].g => i = j

\* The newest copy of every group is on the volume; a clean entry equals it;
\* the bits of a group hold its reserved blocks, and the free counts are right.
NewestOn(m) == \A g \in Groups : slot_block(g, NewestSlot(m, g)) \in Blocks
CleanIsDisk(m, d) ==
    \A i \in DOMAIN m.cache : ~m.cache[i].dirty =>
      m.cache[i].bits = BitsOf(d[slot_block(m.cache[i].g, NewestSlot(m, m.cache[i].g))])
BitsRight(g, bits, free) ==
    fresh_bits(g) \subseteq bits /\ bits \subseteq GroupBlocks(g) /\ free = Cardinality(GroupBlocks(g) \ bits)
Counted(m, d) == \A g \in Groups : BitsRight(g, GroupBits(m, d, g), m.free[g])
MapGood(m, d) == MapTyped(m) /\ NewestOn(m) /\ CleanIsDisk(m, d) /\ Counted(m, d)

\* Who holds what: every list is well formed, nothing is held twice, and the
\* blocks in use are exactly the reserved ones and those held.
Held == -2 .. (NInodes - 1)
Claims(used, held) ==
    /\ DOMAIN held = Held
    /\ used = Reserved \cup UNION {CoveredBy(held[i]) : i \in Held}
    /\ \A i \in Held : held[i] \in Seq(Ext) /\ Disjoint(held[i]) /\ CoveredBy(held[i]) \cap Reserved = {}
    /\ \A i, j \in Held : i # j => CoveredBy(held[i]) \cap CoveredBy(held[j]) = {}

\* The chain of a file is on disk d.
ChainOn(d, f) ==
    /\ Len(f.chain) = ChainBlocks(Len(f.exts))
    /\ \A k \in 1 .. Len(f.chain) : d[f.chain[k]] = ChainBlock(f, f.chain, k - 1)

\* The phases of a call.
CommitOps == {"commit", "unmount", "format"}
Late == job.pc \in {"release", "flush", "itab", "super"}
ChainDoneFor(i) == ~files[i].dirty \/ (job.op \in CommitOps /\ i < job.ino) \/ Late
Chains == \A i \in Inodes : IF ChainDoneFor(i) THEN ChainOn(disk, files[i]) ELSE files[i].chain = <<>>

\* Where a write is.
WriteOk ==
    LET fl == files[job.ino] IN
    /\ job.ino \in Inodes /\ fl.used
    /\ job.need \in Nat /\ job.k \in Nat /\ job.i \in Nat /\ job.off \in Nat /\ job.len \in Nat
    /\ job.fresh \in Seq(Ext) /\ Len(job.fresh) <= MaxExt
    /\ job.pc \in {"take", "reserve", "data", "install", "undo"}
    /\ job.op = "write_at" => job.len > 0 /\ DeferRoom(Len(fl.exts) + Len(fl.chain) + 1)
    /\ job.pc = "take" => LenSum(job.fresh) < job.need
    /\ job.pc \in {"reserve", "data", "install"} => LenSum(job.fresh) >= job.need
    /\ job.pc \in {"data", "install"} =>
         /\ job.stage = NewList(job) /\ Len(job.stage) <= MaxExt
         /\ job.op = "write" => DeferRoom(Len(DeferredBy(fl)))
    /\ job.pc = "data" => job.i < job.need
    /\ job.pc = "undo" => job.i \in 1 .. (Len(job.fresh) + 1)

\* Where a commit is.
PagesOn(d, gen, n, fs) == \A b \in 0 .. (n - 1) : d[Area(gen) + b] = ItabPage(fs, b)
CommitOk ==
    LET fl == files[job.ino] IN
    /\ vol.dirty /\ vol.gen < MaxGen
    /\ job.ino \in Nat /\ job.k \in Nat /\ job.i \in Nat /\ job.need \in Nat
    /\ job.fresh \in Seq(Ext)
    /\ job.pc \in {"file", "take", "chain", "release", "flush", "itab", "super"}
    /\ job.pc \in {"take", "chain"} =>
         /\ job.ino \in Inodes /\ fl.used /\ fl.dirty
         /\ job.need = ChainBlocks(Len(fl.exts))
         /\ \A x \in DOMAIN job.fresh : job.fresh[x].len = 1
    /\ job.pc = "take" => Len(job.fresh) < job.need /\ job.i = 0
    /\ job.pc = "chain" =>
         /\ Len(job.fresh) = job.need /\ job.i < job.need
         /\ \A x \in 1 .. job.i : disk[job.fresh[x].start] = ChainBlock(fl, Starts(job.fresh), x - 1)
    /\ job.pc \notin {"take", "chain"} => job.fresh = <<>>
    /\ job.pc = "release" => job.i \in 1 .. (Len(defer) + 1)
    /\ job.pc \in {"flush", "itab", "super"} => defer = <<>>
    /\ job.pc \in {"itab", "super"} => DirtyIn(gm) = {}
    /\ job.pc = "itab" => job.i < ITabBlocks /\ PagesOn(disk, vol.gen + 1, job.i, files)
    /\ job.pc = "super" => PagesOn(disk, vol.gen + 1, ITabBlocks, files)

\* A format has written the groups before job.i.
FormatOk ==
    /\ job.op = "format" /\ job.i \in 0 .. NGroups /\ ~Mounted /\ job.fresh = <<>>
    /\ gm.cache = <<>>
    /\ \A g \in Groups : gm.slot[g] = 0 /\ ~gm.written[g]
    /\ \A g \in Groups : g < job.i => /\ disk[slot_block(g, 0)] = MapBlock(fresh_bits(g))
                                      /\ gm.free[g] = GB - Cardinality(fresh_bits(g))

Phase ==
    \/ job = Idle
    \/ job.pc = "format" /\ FormatOk
    \/ Mounted /\ job.op \in {"write", "write_at"} /\ WriteOk
    \/ Mounted /\ job.op \in CommitOps /\ CommitOk

\* No superblock on the disk.
NoSb(d) == \A s \in {0, 1} : d[s].kind # "sb"

\* The disk d holds a volume with the files fs: the newest superblock is at s,
\* and inode tables, chains and maps are those of fs.
OnDiskMap(d, s) == gmap_import(d[s].slot, d[s].free)
InUse(d, s) == UsedBlocks(OnDiskMap(d, s), d)
HoldsAt(d, s, fs) ==
    /\ s \in {0, 1} /\ d[s] = sb_encode(d[s].gen, d[s].slot, d[s].free)
    /\ d[s].gen \in 1 .. MaxGen /\ d[s].gen % 2 = s
    /\ d[1 - s].kind = "sb" => d[1 - s].gen \in Nat /\ d[1 - s].gen < d[s].gen
    /\ fs = [i \in Inodes |-> fs[i]]
    /\ \A i \in Inodes : FileOk(fs[i]) /\ ~fs[i].dirty /\ ChainOn(d, fs[i])
    /\ PagesOn(d, d[s].gen, ITabBlocks, fs)
    /\ MapGood(OnDiskMap(d, s), d)
    /\ Claims(InUse(d, s), Holdings(fs, <<>>, <<>>))

\* The mounted volume continues the one on disk.
Linked(s, fs) ==
    /\ vol.gen = disk[s].gen
    /\ gm.slot = disk[s].slot
    /\ InUse(disk, s) \cap CoveredBy(job.fresh) = {}
    /\ ~Late => InUse(disk, s) \subseteq UsedBlocks(gm, disk)
    /\ ~vol.dirty => files = fs
Durable ==
    \/ NoSb(disk) /\ (Mounted => job.op = "format" /\ vol.gen = 0)
    \/ /\ job.op # "format"
       /\ \E s, fs : HoldsAt(disk, s, fs) /\ (Mounted => Linked(s, fs))

\* Types, and what holds in memory while a volume is mounted.
GmTypes(m) ==
    /\ m.slot \in [Groups -> {0, 1}] /\ m.written \in [Groups -> BOOLEAN]
    /\ m.free \in [Groups -> 0 .. GB] /\ Len(m.cache) <= CacheSize
VolType == [mounted : BOOLEAN, broken : BOOLEAN, dirty : BOOLEAN, gen : 0 .. MaxGen, hint : 0 .. Total]
FilesOk(fs) == fs = [i \in Inodes |-> fs[i]] /\ \A i \in Inodes : FileOk(fs[i])
DeferOk(list) == list \in Seq(Ext) /\ Len(list) <= DeferMax
DiskOk == DOMAIN disk = Blocks /\ stable = disk
Counts == faults \in 0 .. MaxFaults /\ ops \in 0 .. MaxOps /\ formats \in 0 .. MaxFormats
Types ==
    /\ DiskOk /\ GmTypes(gm) /\ vol \in VolType /\ FilesOk(files) /\ DeferOk(defer) /\ Counts
    /\ formats = 0 => NoSb(disk) /\ job = Idle /\ ~Mounted
Memory ==
    Mounted => /\ MapGood(gm, disk)
               /\ Claims(UsedBlocks(gm, disk), Holdings(files, Waiting, Fresh))
               /\ Chains
Core == Types /\ Phase /\ Memory /\ Durable
Inv == Shapes /\ Core /\ view = Views(disk, files, vol)

-----------------------------------------------------------------------------
(* Groups and their map blocks.                                            *)

\* What the assumptions on the geometry say of its constants.
LEMMA Consts ==
  /\ Total \in Nat /\ GB \in Nat /\ GB > 0 /\ DataStart \in Nat /\ DataStart + 2 <= GB /\ DataStart + 2 <= Total
  /\ CacheSize \in Nat /\ CacheSize > 0 /\ MaxFaults \in Nat /\ NGroups \in Nat
BY GmapAssumption DEF NGroups

\* A group starts on the volume.
LEMMA GroupStart ==
  ASSUME NEW g \in Groups
  PROVE  g \in Nat /\ g * GB \in Nat /\ g * GB < Total /\ GB * g = g * GB
<1>1. g \in Nat /\ NGroups \in Nat /\ g < NGroups BY Consts DEF Groups
<1>2. Total + GB - 1 \in Nat BY Consts
<1>3. Total + GB - 1 = GB * NGroups + ((Total + GB - 1) % GB) /\ (Total + GB - 1) % GB \in Nat
  BY <1>2, Consts, DivMod DEF NGroups
<1>4. GB * g + GB <= GB * NGroups BY <1>1, Consts, DivLess
<1>5. g * GB \in Nat /\ GB * g = g * GB /\ GB * NGroups \in Nat BY <1>1, Consts
<1> QED BY <1>1, <1>3, <1>4, <1>5, Consts

\* A block belongs to the group of its number.
LEMMA InGroup ==
  ASSUME NEW b \in Blocks
  PROVE  GroupOf(b) \in Groups /\ b \in GroupBlocks(GroupOf(b))
<1> DEFINE u == b \div GB
           r == (Total + GB - 1) % GB
<1>1. b \in Nat /\ b < Total BY Consts DEF Blocks
<1>2. u \in Nat /\ b % GB \in Nat /\ b % GB < GB /\ b = GB * u + (b % GB) BY <1>1, Consts, DivMod
<1>3. Total + GB - 1 \in Nat BY Consts
<1>4. Total + GB - 1 = GB * NGroups + r /\ r \in Nat /\ r < GB BY <1>3, Consts, DivMod DEF NGroups
<1> HIDE DEF u, r
<1>5. GB * u \in Nat /\ GB * NGroups \in Nat /\ u * GB = GB * u /\ GB * (u + 1) = GB * u + GB BY <1>2, Consts
<1>6. u < NGroups
  <2> SUFFICES ASSUME ~(u < NGroups) PROVE FALSE OBVIOUS
  <2>1. NGroups < u + 1 /\ u + 1 \in Nat BY <1>2, Consts
  <2>2. GB * NGroups + GB <= GB * (u + 1) BY <2>1, Consts, DivLess
  <2> QED BY <2>2, <1>1, <1>2, <1>4, <1>5, Consts
<1>7. u \in Groups BY <1>2, <1>6, Consts DEF Groups
<1>8. b \in GroupBlocks(u) BY <1>1, <1>2, <1>5, Consts DEF GroupBlocks
<1> QED BY <1>7, <1>8 DEF GroupOf, u

\* The groups are apart.
LEMMA OneGroup ==
  ASSUME NEW g \in Groups, NEW b \in GroupBlocks(g)
  PROVE  b \in Nat /\ GroupOf(b) = g
<1>1. g \in Nat /\ g * GB \in Nat /\ GB * g = g * GB BY GroupStart
<1>2. b \in Nat /\ b - g * GB \in Nat /\ b - g * GB < GB BY <1>1, Consts DEF GroupBlocks
<1>3. (GB * g + (b - g * GB)) \div GB = g BY <1>1, <1>2, Consts, DivUnique
<1> QED BY <1>1, <1>2, <1>3 DEF GroupOf

\* The two map blocks of a group are reserved in it, past the fixed areas.
LEMMA SlotFacts ==
  ASSUME NEW g \in Groups, NEW s \in {0, 1}
  PROVE  /\ slot_block(g, s) \in GroupBlocks(g) /\ slot_block(g, s) \in fresh_bits(g)
         /\ slot_block(g, s) \in Nat /\ slot_block(g, s) >= DataStart
         /\ slot_block(g, 0) \in Blocks
<1>1. g \in Nat /\ g * GB \in Nat /\ g * GB < Total BY GroupStart
<1>2. CASE g = 0
  <2>1. g * GB = 0 BY <1>2, Consts
  <2> QED BY <1>2, <2>1, Consts DEF slot_block, GroupBlocks, fresh_bits, Blocks
<1>3. CASE g # 0
  <2>1. g * GB >= GB
    <3>1. GB * 0 + GB <= GB * g BY <1>1, <1>3, Consts, DivLess
    <3>2. GB * 0 = 0 BY Consts
    <3> QED BY <3>1, <3>2, <1>1, GroupStart, Consts
  <2> QED BY <1>1, <1>3, <2>1, Consts DEF slot_block, GroupBlocks, fresh_bits, Blocks
<1> QED BY <1>2, <1>3

\* Two groups, and the two slots of one group, never share a map block.
LEMMA SlotsApart ==
  ASSUME NEW g \in Groups, NEW s \in {0, 1}, NEW h \in Groups, NEW t \in {0, 1}, slot_block(g, s) = slot_block(h, t)
  PROVE  g = h /\ s = t
<1>1. slot_block(g, s) \in GroupBlocks(g) /\ slot_block(h, t) \in GroupBlocks(h) BY SlotFacts
<1>2. g = h BY <1>1, OneGroup
<1>3. g \in Nat /\ g * GB \in Nat BY GroupStart
<1> QED BY <1>2, <1>3, Consts DEF slot_block

\* The fixed areas are reserved too.
LEMMA FixedReserved ==
  /\ \A b \in 0 .. (DataStart - 1) : b \in Reserved /\ b \in Blocks
  /\ \A g \in Groups, s \in {0, 1} : slot_block(g, s) \in Blocks => slot_block(g, s) \in Reserved
  /\ \A g \in Groups : fresh_bits(g) \subseteq GroupBlocks(g)
<1>1. 0 \in Groups
  <2>1. 0 \in Blocks BY Consts DEF Blocks
  <2>2. NGroups > 0
    <3>1. GroupOf(0) \in Groups BY <2>1, InGroup
    <3> QED BY <3>1, Consts DEF Groups
  <2> QED BY <2>2, Consts DEF Groups
<1>2. ASSUME NEW b \in 0 .. (DataStart - 1) PROVE b \in Reserved /\ b \in Blocks
  <2>1. 0 * GB = 0 BY Consts
  <2>2. b \in fresh_bits(0) BY <2>1, Consts DEF fresh_bits, GroupBlocks
  <2>3. b \in Blocks BY Consts DEF Blocks
  <2> QED BY <2>2, <2>3, <1>1 DEF Reserved
<1>3. ASSUME NEW g \in Groups, NEW s \in {0, 1}, slot_block(g, s) \in Blocks PROVE slot_block(g, s) \in Reserved
  BY <1>3, SlotFacts DEF Reserved
<1> QED BY <1>2, <1>3 DEF fresh_bits

-----------------------------------------------------------------------------
(* Disks and map blocks.                                                   *)

\* The disk e is the disk d but for the blocks S.
Changed(d, e, S) == DOMAIN e = Blocks /\ \A b \in Blocks : b \notin S => e[b] = d[b]
\* The disk e is the disk d but for the block a.
ChangedAt(d, e, a) == DOMAIN e = Blocks /\ \A b \in Blocks : b # a => e[b] = d[b]

\* A write changes its block only, and one that fails uses up a fault or is
\* past the end.
LEMMA PutResults ==
  ASSUME NEW d, DOMAIN d = Blocks, NEW f \in 0 .. MaxFaults, NEW b, NEW new, NEW w \in blk_put(d, f, b, new)
  PROVE  /\ ChangedAt(d, w.d, b)
         /\ w.f \in 0 .. MaxFaults /\ w.ok \in BOOLEAN
         /\ w.ok => b \in Blocks /\ w.d[b] = new
         /\ ~w.ok => w.d = d \/ (b \in Blocks /\ w.d[b] \in {d[b], new, Torn})
<1>1. CASE b \notin Blocks
  <2>1. w = [ok |-> FALSE, d |-> d, f |-> f] BY <1>1 DEF blk_put
  <2> QED BY <1>1, <2>1 DEF ChangedAt
<1>2. CASE b \in Blocks
  <2>1. CASE w = [ok |-> TRUE, d |-> [d EXCEPT ![b] = new], f |-> f] BY <1>2, <2>1 DEF ChangedAt
  <2>2. CASE w # [ok |-> TRUE, d |-> [d EXCEPT ![b] = new], f |-> f]
    <3>1. PICK c \in (IF f < MaxFaults THEN {d[b], new, Torn} ELSE {}) :
             w = [ok |-> FALSE, d |-> [d EXCEPT ![b] = c], f |-> f + 1]
      BY <1>2, <2>2 DEF blk_put
    <3>2. f < MaxFaults /\ c \in {d[b], new, Torn} BY <3>1
    <3>3. w.d[b] = c /\ ChangedAt(d, w.d, b) BY <1>2, <3>1 DEF ChangedAt
    <3>4. w.f \in 0 .. MaxFaults BY <3>1, <3>2, Consts
    <3> QED BY <1>2, <3>1, <3>2, <3>3, <3>4
  <2> QED BY <2>1, <2>2
<1> QED BY <1>1, <1>2

\* A block read ends with a fault count in its bound, and says whether it succeeded.
LEMMA GotResults ==
  ASSUME NEW f \in 0 .. MaxFaults, NEW b, NEW r \in blk_got(f, b)
  PROVE  r.f \in 0 .. MaxFaults /\ r.ok \in BOOLEAN
<1>1. \/ r = [ok |-> FALSE, f |-> f]
      \/ r = [ok |-> TRUE, f |-> f]
      \/ f < MaxFaults /\ r = [ok |-> FALSE, f |-> f + 1]
  BY DEF blk_got
<1>2. r.ok = TRUE \/ r.ok = FALSE BY <1>1
<1>3. r.f = f \/ (f < MaxFaults /\ r.f = f + 1) BY <1>1
<1>4. r.f \in 0 .. MaxFaults BY <1>3, Consts
<1> QED BY <1>2, <1>4

\* A map n after a step that sets these fields.
MapIs(n, slot, written, free, cache) ==
    MapRec(n) /\ n.slot = slot /\ n.written = written /\ n.free = free /\ n.cache = cache

\* The map blocks a transaction may write: the pending slots.
Pending(slot) == {slot_block(h, 1 - slot[h]) : h \in Groups}

\* The slots that a typed map names are slots.
LEMMA NewestType ==
  ASSUME NEW m, MapTyped(m), NEW g \in Groups
  PROVE  NewestSlot(m, g) \in {0, 1} /\ m.slot[g] \in {0, 1} /\ 1 - m.slot[g] \in {0, 1} /\ m.written[g] \in BOOLEAN
<1>1. m.slot[g] \in {0, 1} /\ m.written[g] \in BOOLEAN BY DEF MapTyped
<1> QED BY <1>1 DEF NewestSlot

\* An entry of the cache of a typed map is an entry, and names a group.
LEMMA EntryAt ==
  ASSUME NEW m, MapTyped(m), NEW i \in DOMAIN m.cache
  PROVE  /\ m.cache[i] \in Entries /\ m.cache[i].g \in Groups /\ m.cache[i].dirty \in BOOLEAN
         /\ i \in 1 .. Len(m.cache) /\ Len(m.cache) \in Nat
<1>1. m.cache \in Seq(Entries) BY DEF MapTyped
<1>2. i \in 1 .. Len(m.cache) /\ Len(m.cache) \in Nat BY <1>1
<1>3. m.cache[i] \in Entries BY <1>1, <1>2
<1> QED BY <1>2, <1>3 DEF Entries

\* The bits of a group: those of its entry, or those on disk.
LEMMA BitsAt ==
  ASSUME NEW m, MapTyped(m), NEW d, NEW g
  PROVE  /\ \A i \in DOMAIN m.cache : m.cache[i].g = g => GroupBits(m, d, g) = m.cache[i].bits
         /\ (\A i \in DOMAIN m.cache : m.cache[i].g # g) =>
              GroupBits(m, d, g) = BitsOf(d[slot_block(g, NewestSlot(m, g))])
<1>1. ASSUME NEW i \in DOMAIN m.cache, m.cache[i].g = g PROVE GroupBits(m, d, g) = m.cache[i].bits
  <2>1. i \in Cached(m, g) BY <1>1 DEF Cached
  <2>2. \A j \in Cached(m, g) : j = i BY <1>1 DEF Cached, MapTyped
  <2>3. (CHOOSE j \in Cached(m, g) : TRUE) = i BY <2>1, <2>2
  <2> QED BY <2>1, <2>3 DEF GroupBits
<1>2. ASSUME \A i \in DOMAIN m.cache : m.cache[i].g # g
      PROVE  GroupBits(m, d, g) = BitsOf(d[slot_block(g, NewestSlot(m, g))])
  BY <1>2 DEF GroupBits, Cached
<1> QED BY <1>1, <1>2

-----------------------------------------------------------------------------
(* What keeps a map: flushing, loading, evicting.                          *)

CleanEntry(e) == [e EXCEPT !.dirty = FALSE]

\* The map after entry i was flushed.
Flushed(m, i) == [m EXCEPT !.written[m.cache[i].g] = TRUE, !.cache[i].dirty = FALSE]

SetTrue(w, g) == [w EXCEPT ![g] = TRUE]
CleanAt(c, i) == [c EXCEPT ![i] = CleanEntry(c[i])]

\* The map after the flush of entry i, as its fields.
LEMMA FlushedFields ==
  ASSUME NEW m, MapRec(m), NEW i
  PROVE  MapIs(Flushed(m, i), m.slot, SetTrue(m.written, m.cache[i].g), m.free, CleanAt(m.cache, i))
BY DEF Flushed, MapRec, MapIs, CleanEntry, SetTrue, CleanAt

\* Where entry i of the cache goes.
Goes(m, i) == slot_block(m.cache[i].g, 1 - m.slot[m.cache[i].g])

\* A flush changes the one block it goes to; a failed one leaves the map alone
\* (flush_one).
LEMMA FlushOut ==
  ASSUME NEW m, MapRec(m), NEW d, DOMAIN d = Blocks, NEW f \in 0 .. MaxFaults, NEW i, NEW w \in flush_one(m, d, f, i)
  PROVE  /\ ChangedAt(d, w.d, Goes(m, i)) /\ w.f \in 0 .. MaxFaults /\ w.ok \in BOOLEAN
         /\ w.ok => /\ Goes(m, i) \in Blocks /\ w.d[Goes(m, i)] = MapBlock(m.cache[i].bits) /\ w.m = Flushed(m, i)
         /\ ~w.ok => w.m = m
         /\ w \in [ok : {w.ok}, d : {w.d}, f : {w.f}, m : {w.m}]
<1> DEFINE b == Goes(m, i)
           new == MapBlock(m.cache[i].bits)
<1>1. PICK u \in blk_put(d, f, b, new) :
        w = [ok |-> u.ok, d |-> u.d, f |-> u.f, m |-> IF u.ok THEN Flushed(m, i) ELSE m]
  BY Zenon DEF flush_one, Goes, Flushed
<1> HIDE DEF new, b
<1>3. /\ ChangedAt(d, u.d, b) /\ u.f \in 0 .. MaxFaults /\ u.ok \in BOOLEAN
      /\ u.ok => b \in Blocks /\ u.d[b] = new
  BY <1>1, PutResults
<1>4. w.ok = u.ok /\ w.d = u.d /\ w.f = u.f /\ w.m = IF u.ok THEN Flushed(m, i) ELSE m BY <1>1
<1>5. w \in [ok : {w.ok}, d : {w.d}, f : {w.f}, m : {w.m}] BY <1>1
<1> QED BY <1>3, <1>4, <1>5 DEF b, new

\* The map n on the disk e has the groups of the map m on the disk d.
SameGroups(m, d, n, e) ==
    /\ MapGood(n, e)
    /\ n.slot = m.slot /\ n.free = m.free
    /\ \A g \in Groups : GroupBits(n, e, g) = GroupBits(m, d, g)

\* A map with the same slots, free counts and bits is the same map to everyone outside
\* the cache.
LEMMA KeepsGroups ==
  ASSUME NEW m, NEW d, MapGood(m, d), NEW n, NEW e, MapTyped(n), NewestOn(n), CleanIsDisk(n, e),
         n.slot = m.slot, n.free = m.free,
         \A g \in Groups : GroupBits(n, e, g) = GroupBits(m, d, g)
  PROVE  SameGroups(m, d, n, e)
<1>1. Counted(n, e) BY DEF MapGood, Counted
<1> QED BY <1>1 DEF SameGroups, MapGood

\* A clean entry keeps its group and its bits.
LEMMA CleanFields ==
  ASSUME NEW e \in Entries
  PROVE  CleanEntry(e) \in Entries /\ CleanEntry(e).g = e.g /\ CleanEntry(e).bits = e.bits /\ CleanEntry(e).dirty = FALSE
BY DEF Entries, CleanEntry

\* A flush that succeeds keeps every group's bits and writes only a pending slot, one no
\* superblock names.
LEMMA FlushGood ==
  ASSUME NEW m, NEW d, MapGood(m, d), DOMAIN d = Blocks, NEW f \in 0 .. MaxFaults, NEW i \in DOMAIN m.cache,
         NEW w \in flush_one(m, d, f, i), w.ok
  PROVE  /\ SameGroups(m, d, w.m, w.d) /\ Changed(d, w.d, Pending(m.slot))
         /\ w.m.cache = CleanAt(m.cache, i)
<1> DEFINE g == m.cache[i].g
           b == slot_block(g, 1 - m.slot[g])
           n == w.m
           e == w.d
           c == CleanAt(m.cache, i)
<1>0. MapTyped(m) /\ MapRec(m) BY DEF MapGood, MapTyped
<1>a. b = Goes(m, i) BY DEF Goes
<1>1. /\ ChangedAt(d, e, b) /\ b \in Blocks /\ e[b] = MapBlock(m.cache[i].bits) /\ n = Flushed(m, i)
  BY <1>0, <1>a, FlushOut
<1>2. /\ m.cache[i] \in Entries /\ g \in Groups /\ i \in 1 .. Len(m.cache) BY <1>0, EntryAt
<1>3. /\ CleanEntry(m.cache[i]) \in Entries /\ CleanEntry(m.cache[i]).g = g
      /\ CleanEntry(m.cache[i]).bits = m.cache[i].bits /\ CleanEntry(m.cache[i]).dirty = FALSE
  BY <1>2, CleanFields
<1>4. m.cache \in Seq(Entries) BY <1>0 DEF MapTyped
<1>5. /\ c \in Seq(Entries) /\ Len(c) = Len(m.cache) /\ DOMAIN c = DOMAIN m.cache
      /\ \A j \in DOMAIN m.cache : c[j] = IF j = i THEN CleanEntry(m.cache[i]) ELSE m.cache[j]
  BY <1>2, <1>3, <1>4, ExceptSeq DEF CleanAt
<1>6. \A j \in DOMAIN m.cache : c[j].g = m.cache[j].g /\ c[j].bits = m.cache[j].bits BY <1>3, <1>5
<1> HIDE DEF c
<1>7. n.slot = m.slot /\ n.written = SetTrue(m.written, g) /\ n.free = m.free /\ n.cache = c /\ MapRec(n)
  BY <1>0, <1>1, FlushedFields DEF MapIs, c
<1>8. MapTyped(n)
  <2>1. n.written \in [Groups -> BOOLEAN] BY <1>0, <1>2, <1>7 DEF MapTyped, SetTrue
  <2>2. \A x, y \in DOMAIN n.cache : n.cache[x].g = n.cache[y].g => x = y BY <1>0, <1>5, <1>6, <1>7 DEF MapTyped
  <2> QED BY <1>0, <1>5, <1>7, <2>1, <2>2 DEF MapTyped
<1>b. m.written \in [Groups -> BOOLEAN] BY <1>0 DEF MapTyped
<1> HIDE DEF g, b, n, e
<1>9. \A h \in Groups : NewestSlot(n, h) = IF h = g THEN 1 - m.slot[g] ELSE NewestSlot(m, h)
  <2>1. \A h \in Groups : n.written[h] = IF h = g THEN TRUE ELSE m.written[h] BY <1>b, <1>7 DEF SetTrue
  <2> QED BY <2>1, <1>7 DEF NewestSlot
<1> USE DEF g, b, n, e
<1>10. NewestOn(n) BY <1>9, <1>1, <1>2 DEF NewestOn, MapGood
<1>11. \A h \in Groups : h # g => e[slot_block(h, NewestSlot(m, h))] = d[slot_block(h, NewestSlot(m, h))]
  <2> SUFFICES ASSUME NEW h \in Groups, h # g PROVE e[slot_block(h, NewestSlot(m, h))] = d[slot_block(h, NewestSlot(m, h))]
    OBVIOUS
  <2>1. NewestSlot(m, h) \in {0, 1} /\ 1 - m.slot[g] \in {0, 1} BY <1>0, <1>2, NewestType
  <2>2. slot_block(h, NewestSlot(m, h)) # b BY <2>1, <1>2, SlotsApart
  <2>3. slot_block(h, NewestSlot(m, h)) \in Blocks BY DEF MapGood, NewestOn
  <2> QED BY <2>2, <2>3, <1>1 DEF ChangedAt
<1>12. BitsOf(e[b]) = m.cache[i].bits BY <1>1 DEF BitsOf, MapBlock
<1>13. CleanIsDisk(n, e)
  <2> SUFFICES ASSUME NEW j \in DOMAIN n.cache, ~n.cache[j].dirty
               PROVE  n.cache[j].bits = BitsOf(e[slot_block(n.cache[j].g, NewestSlot(n, n.cache[j].g))])
    BY DEF CleanIsDisk
  <2>0. j \in DOMAIN m.cache /\ n.cache[j] = c[j] BY <1>5, <1>7
  <2>1. CASE j = i BY <2>0, <2>1, <1>6, <1>9, <1>12, <1>2
  <2>2. CASE j # i
    <3>1. n.cache[j] = m.cache[j] BY <2>0, <2>2, <1>5
    <3>2. m.cache[j].g # g BY <2>0, <2>2, <1>0 DEF MapTyped
    <3>3. m.cache[j].g \in Groups BY <2>0, <1>0, EntryAt
    <3>4. m.cache[j].bits = BitsOf(d[slot_block(m.cache[j].g, NewestSlot(m, m.cache[j].g))])
      BY <2>0, <3>1 DEF MapGood, CleanIsDisk
    <3> QED BY <3>1, <3>2, <3>3, <3>4, <1>9, <1>11
  <2> QED BY <2>1, <2>2
<1>14. \A h \in Groups : GroupBits(n, e, h) = GroupBits(m, d, h)
  <2> SUFFICES ASSUME NEW h \in Groups PROVE GroupBits(n, e, h) = GroupBits(m, d, h) OBVIOUS
  <2>1. CASE \E j \in DOMAIN m.cache : m.cache[j].g = h
    <3>1. PICK j \in DOMAIN m.cache : m.cache[j].g = h BY <2>1
    <3>2. GroupBits(m, d, h) = m.cache[j].bits BY <3>1, <1>0, BitsAt
    <3>3. j \in DOMAIN n.cache /\ n.cache[j].g = h /\ n.cache[j].bits = m.cache[j].bits BY <3>1, <1>5, <1>6, <1>7
    <3>4. GroupBits(n, e, h) = n.cache[j].bits BY <3>3, <1>8, BitsAt
    <3> QED BY <3>2, <3>3, <3>4
  <2>2. CASE \A j \in DOMAIN m.cache : m.cache[j].g # h
    <3>1. h # g BY <2>2
    <3>2. \A j \in DOMAIN n.cache : n.cache[j].g # h BY <2>2, <1>5, <1>6, <1>7
    <3>3. GroupBits(m, d, h) = BitsOf(d[slot_block(h, NewestSlot(m, h))]) BY <2>2, <1>0, BitsAt
    <3>4. GroupBits(n, e, h) = BitsOf(e[slot_block(h, NewestSlot(n, h))]) BY <3>2, <1>8, BitsAt
    <3> QED BY <3>1, <3>3, <3>4, <1>9, <1>11
  <2> QED BY <2>1, <2>2
<1>15. SameGroups(m, d, n, e) BY <1>7, <1>8, <1>10, <1>13, <1>14, KeepsGroups
<1>16. b \in Pending(m.slot) BY <1>2 DEF Pending
<1>17. Changed(d, e, Pending(m.slot)) BY <1>1, <1>16 DEF Changed, ChangedAt
<1> QED BY <1>15, <1>17, <1>7 DEF c

\* The map m with the cache c.
WithCache(m, c) == [m EXCEPT !.cache = c]

\* The map with another cache, as its fields.
LEMMA CacheFields ==
  ASSUME NEW m, MapRec(m), NEW c
  PROVE  MapIs(WithCache(m, c), m.slot, m.written, m.free, c)
BY DEF WithCache, MapRec, MapIs

\* Other entries of the cache change nothing, as long as those that are gone
\* were clean and those that are new are what the disk holds.
LEMMA Recache ==
  ASSUME NEW m, NEW d, MapGood(m, d), NEW c, c \in Seq(Entries), Len(c) <= CacheSize,
         \A x, y \in DOMAIN c : c[x].g = c[y].g => x = y,
         \A x \in DOMAIN c : \/ \E j \in DOMAIN m.cache : c[x] = m.cache[j]
                             \/ /\ ~c[x].dirty /\ c[x].bits = GroupBits(m, d, c[x].g)
                                /\ c[x].bits = BitsOf(d[slot_block(c[x].g, NewestSlot(m, c[x].g))]),
         \A j \in DOMAIN m.cache : m.cache[j].dirty => \E x \in DOMAIN c : c[x] = m.cache[j]
  PROVE  SameGroups(m, d, WithCache(m, c), d)
<1> DEFINE n == WithCache(m, c)
<1>0. MapTyped(m) /\ MapRec(m) /\ CleanIsDisk(m, d) /\ NewestOn(m) BY DEF MapGood, MapTyped
<1>1. n.slot = m.slot /\ n.written = m.written /\ n.free = m.free /\ n.cache = c /\ MapRec(n)
  BY <1>0, CacheFields DEF MapIs
<1> HIDE DEF n
<1>2. MapTyped(n) BY <1>0, <1>1 DEF MapTyped
<1>3. \A g : NewestSlot(n, g) = NewestSlot(m, g) BY <1>1 DEF NewestSlot
<1>4. NewestOn(n) BY <1>0, <1>3 DEF NewestOn
<1>5. CleanIsDisk(n, d)
  <2> SUFFICES ASSUME NEW x \in DOMAIN c, ~c[x].dirty
               PROVE  c[x].bits = BitsOf(d[slot_block(c[x].g, NewestSlot(m, c[x].g))])
    BY <1>1, <1>3 DEF CleanIsDisk
  <2>1. CASE \E j \in DOMAIN m.cache : c[x] = m.cache[j] BY <2>1, <1>0 DEF CleanIsDisk
  <2> QED BY <2>1
<1>6. \A g \in Groups : GroupBits(n, d, g) = GroupBits(m, d, g)
  <2> SUFFICES ASSUME NEW g \in Groups PROVE GroupBits(n, d, g) = GroupBits(m, d, g) OBVIOUS
  <2>1. CASE \E x \in DOMAIN c : c[x].g = g
    <3>1. PICK x \in DOMAIN c : c[x].g = g BY <2>1
    <3>2. GroupBits(n, d, g) = c[x].bits BY <3>1, <1>1, <1>2, BitsAt
    <3>3. CASE \E j \in DOMAIN m.cache : c[x] = m.cache[j] BY <3>1, <3>2, <3>3, <1>0, BitsAt
    <3> QED BY <3>1, <3>2, <3>3
  <2>2. CASE \A x \in DOMAIN c : c[x].g # g
    <3>1. GroupBits(n, d, g) = BitsOf(d[slot_block(g, NewestSlot(m, g))]) BY <2>2, <1>1, <1>2, <1>3, BitsAt
    <3>2. CASE \E j \in DOMAIN m.cache : m.cache[j].g = g
      <4>1. PICK j \in DOMAIN m.cache : m.cache[j].g = g BY <3>2
      <4>2. ~m.cache[j].dirty BY <2>2, <4>1
      <4> QED BY <3>1, <4>1, <4>2, <1>0, BitsAt DEF CleanIsDisk
    <3>3. CASE \A j \in DOMAIN m.cache : m.cache[j].g # g BY <3>1, <3>3, <1>0, BitsAt
    <3> QED BY <3>2, <3>3
  <2> QED BY <2>1, <2>2
<1> QED BY <1>1, <1>2, <1>4, <1>5, <1>6, KeepsGroups DEF n

\* A sequence without its element i, and one without its first.
LEMMA Removed ==
  ASSUME NEW S, NEW s \in Seq(S), NEW i \in 1 .. Len(s)
  PROVE  /\ RemoveAt(s, i) \in Seq(S) /\ Len(RemoveAt(s, i)) = Len(s) - 1
         /\ \A k \in 1 .. (Len(s) - 1) : RemoveAt(s, i)[k] = IF k < i THEN s[k] ELSE s[k + 1]
<1> DEFINE a == SubSeq(s, 1, i - 1)
           b == SubSeq(s, i + 1, Len(s))
<1>0. Len(s) \in Nat /\ i \in Nat /\ i >= 1 /\ i <= Len(s) OBVIOUS
<1>1. a \in Seq(S) /\ Len(a) = i - 1 /\ \A k \in 1 .. (i - 1) : a[k] = s[k] BY <1>0
<1>2. b \in Seq(S) /\ Len(b) = Len(s) - i /\ \A k \in 1 .. (Len(s) - i) : b[k] = s[k + i] BY <1>0
<1>3. RemoveAt(s, i) = a \o b BY DEF RemoveAt
<1> HIDE DEF a, b
<1>a. a \o b \in Seq(S) /\ Len(a \o b) = Len(a) + Len(b)
  <2>1. a \in Seq(S) /\ b \in Seq(S) BY <1>1, <1>2
  <2> QED BY <2>1, ConcatProperties
<1>4. a \o b \in Seq(S) /\ Len(a \o b) = Len(s) - 1 BY <1>a, <1>0, <1>1, <1>2
<1>5. \A k \in 1 .. (Len(s) - 1) : (a \o b)[k] = IF k < i THEN s[k] ELSE s[k + 1]
  <2> SUFFICES ASSUME NEW k \in 1 .. (Len(s) - 1) PROVE (a \o b)[k] = IF k < i THEN s[k] ELSE s[k + 1] OBVIOUS
  <2>1. k \in 1 .. (Len(a) + Len(b)) BY <1>0, <1>1, <1>2
  <2>2. (a \o b)[k] = IF k <= Len(a) THEN a[k] ELSE b[k - Len(a)] BY <2>1, <1>1, <1>2, ConcatProperties
  <2>3. CASE k < i
    <3>1. k <= Len(a) /\ k \in 1 .. (i - 1) BY <2>3, <1>0, <1>1
    <3> QED BY <3>1, <2>2, <2>3, <1>1
  <2>4. CASE ~(k < i)
    <3>1. ~(k <= Len(a)) /\ k - Len(a) \in 1 .. (Len(s) - i) /\ k - Len(a) + i = k + 1 BY <2>4, <1>0, <1>1
    <3> QED BY <3>1, <2>2, <2>4, <1>2
  <2> QED BY <2>3, <2>4
<1> QED BY <1>3, <1>4, <1>5

\* A hit: the entry moves to the end.
LEMMA RotateGood ==
  ASSUME NEW m, NEW d, MapGood(m, d), NEW i \in DOMAIN m.cache
  PROVE  LET c == Append(RemoveAt(m.cache, i), m.cache[i]) IN
         /\ SameGroups(m, d, WithCache(m, c), d)
         /\ Len(c) = Len(m.cache) /\ c[Len(c)] = m.cache[i]
<1> DEFINE a == RemoveAt(m.cache, i)
           l == Len(m.cache)
           c == Append(a, m.cache[i])
<1>0. /\ m.cache \in Seq(Entries) /\ l <= CacheSize
      /\ \A x, y \in DOMAIN m.cache : m.cache[x].g = m.cache[y].g => x = y
  BY DEF MapGood, MapTyped
<1>1. i \in 1 .. l /\ l \in Nat /\ m.cache[i] \in Entries /\ DOMAIN m.cache = 1 .. l BY <1>0
<1>2. /\ a \in Seq(Entries) /\ Len(a) = l - 1
      /\ \A k \in 1 .. (l - 1) : a[k] = IF k < i THEN m.cache[k] ELSE m.cache[k + 1]
  BY <1>0, <1>1, Removed
<1> HIDE DEF a
<1>3. c \in Seq(Entries) /\ Len(c) = l /\ DOMAIN c = 1 .. l /\ c[l] = m.cache[i] BY <1>1, <1>2
<1>a. \A k \in 1 .. (l - 1) : c[k] = a[k] BY <1>1, <1>2
<1>4. \A k \in 1 .. (l - 1) : c[k] = IF k < i THEN m.cache[k] ELSE m.cache[k + 1] BY <1>2, <1>a
<1> HIDE DEF c
\* Where the entry at k comes from.
<1> DEFINE p == [k \in 1 .. l |-> IF k = l THEN i ELSE IF k < i THEN k ELSE k + 1]
<1>5. \A k \in 1 .. l : p[k] \in 1 .. l /\ c[k] = m.cache[p[k]]
  <2> SUFFICES ASSUME NEW k \in 1 .. l PROVE p[k] \in 1 .. l /\ c[k] = m.cache[p[k]] OBVIOUS
  <2>1. p[k] = IF k = l THEN i ELSE IF k < i THEN k ELSE k + 1 OBVIOUS
  <2>2. CASE k = l BY <2>1, <2>2, <1>1, <1>3
  <2>3. CASE k # l
    <3>1. k \in 1 .. (l - 1) BY <2>3, <1>1
    <3> QED BY <3>1, <2>1, <2>3, <1>1, <1>4
  <2> QED BY <2>2, <2>3
<1>6. \A j, k \in 1 .. l : p[j] = p[k] => j = k
  <2> SUFFICES ASSUME NEW j \in 1 .. l, NEW k \in 1 .. l, p[j] = p[k] PROVE j = k OBVIOUS
  <2>1. p[k] = IF k = l THEN i ELSE IF k < i THEN k ELSE k + 1 OBVIOUS
  <2>2. p[j] = IF j = l THEN i ELSE IF j < i THEN j ELSE j + 1 OBVIOUS
  <2> HIDE DEF p
  <2> QED BY <2>1, <2>2, <1>1
<1>7. \A j \in 1 .. l : \E k \in 1 .. l : p[k] = j
  <2> SUFFICES ASSUME NEW j \in 1 .. l PROVE \E k \in 1 .. l : p[k] = j OBVIOUS
  <2>1. CASE j = i
    <3>1. l \in 1 .. l BY <1>1
    <3>2. p[l] = i BY <3>1
    <3> QED BY <3>1, <3>2, <2>1
  <2>2. CASE j < i
    <3>1. j # l /\ p[j] = j BY <2>2, <1>1
    <3> QED BY <3>1
  <2>3. CASE j > i
    <3>1. j - 1 \in 1 .. l /\ j - 1 # l /\ ~(j - 1 < i) /\ j - 1 + 1 = j BY <2>3, <1>1
    <3>2. p[j - 1] = j BY <3>1
    <3> QED BY <3>1, <3>2
  <2>4. j = i \/ j < i \/ j > i BY <1>1
  <2> HIDE DEF p
  <2> QED BY <2>1, <2>2, <2>3, <2>4
<1> HIDE DEF p
<1>8. \A x, y \in DOMAIN c : c[x].g = c[y].g => x = y BY <1>0, <1>1, <1>3, <1>5, <1>6
<1>9. \A x \in DOMAIN c : \E j \in DOMAIN m.cache : c[x] = m.cache[j] BY <1>1, <1>3, <1>5
<1>10. ASSUME NEW j \in DOMAIN m.cache PROVE \E x \in DOMAIN c : c[x] = m.cache[j]
  <2>1. PICK k \in 1 .. l : p[k] = j BY <1>1, <1>7
  <2>2. k \in DOMAIN c /\ c[k] = m.cache[j] BY <2>1, <1>3, <1>5
  <2> QED BY <2>2
<1>b. Len(c) <= CacheSize BY <1>0, <1>3
<1>11. SameGroups(m, d, WithCache(m, c), d) BY <1>3, <1>b, <1>8, <1>9, <1>10, Recache
<1> QED BY <1>3, <1>11 DEF c, a

\* A clean entry at the front can go.
LEMMA TailGood ==
  ASSUME NEW m, NEW d, MapGood(m, d), m.cache # <<>>, ~m.cache[1].dirty
  PROVE  SameGroups(m, d, WithCache(m, Tail(m.cache)), d) /\ Len(Tail(m.cache)) = Len(m.cache) - 1
<1> DEFINE l == Len(m.cache)
           c == Tail(m.cache)
<1>0. /\ m.cache \in Seq(Entries) /\ l <= CacheSize
      /\ \A x, y \in DOMAIN m.cache : m.cache[x].g = m.cache[y].g => x = y
  BY DEF MapGood, MapTyped
<1>1. /\ l \in Nat /\ DOMAIN m.cache = 1 .. l /\ l > 0 BY <1>0
<1>2. c \in Seq(Entries) /\ Len(c) = l - 1 /\ DOMAIN c = 1 .. (l - 1) BY <1>0, <1>1
<1>3. \A k \in 1 .. (l - 1) : c[k] = m.cache[k + 1] BY <1>0, <1>1, <1>2, HeadTailProperties
<1> HIDE DEF c
<1>4. \A k \in 1 .. (l - 1) : k + 1 \in 1 .. l BY <1>1
<1>5. \A x, y \in DOMAIN c : c[x].g = c[y].g => x = y
  <2> SUFFICES ASSUME NEW x \in DOMAIN c, NEW y \in DOMAIN c, c[x].g = c[y].g PROVE x = y OBVIOUS
  <2>1. x \in 1 .. (l - 1) /\ y \in 1 .. (l - 1) BY <1>2
  <2>2. c[x] = m.cache[x + 1] /\ c[y] = m.cache[y + 1] BY <2>1, <1>3
  <2>3. x + 1 \in DOMAIN m.cache /\ y + 1 \in DOMAIN m.cache BY <2>1, <1>4, <1>1
  <2>4. x + 1 = y + 1 BY <2>2, <2>3, <1>0
  <2> QED BY <2>1, <2>4
<1>6. \A x \in DOMAIN c : \E j \in DOMAIN m.cache : c[x] = m.cache[j] BY <1>1, <1>2, <1>3, <1>4
<1>7. ASSUME NEW j \in DOMAIN m.cache, m.cache[j].dirty PROVE \E x \in DOMAIN c : c[x] = m.cache[j]
  <2>1. j # 1 BY <1>7
  <2>2. j - 1 \in 1 .. (l - 1) /\ j - 1 + 1 = j BY <2>1, <1>1
  <2> QED BY <2>2, <1>2, <1>3
<1>8. Len(c) <= CacheSize BY <1>0, <1>1, <1>2, Consts
<1>9. SameGroups(m, d, WithCache(m, c), d) BY <1>2, <1>8, <1>5, <1>6, <1>7, Recache
<1> QED BY <1>2, <1>9 DEF c

\* The map after a group was read into it.
Bring(m, d, g) == [g |-> g, dirty |-> FALSE, bits |-> BitsOf(d[slot_block(g, NewestSlot(m, g))])]
\* A group brought into the cache from its newest slot changes no group's bits.
LEMMA BringGood ==
  ASSUME NEW m, NEW d, MapGood(m, d), NEW g \in Groups, Cached(m, g) = {}, Len(m.cache) < CacheSize
  PROVE  LET c == Append(m.cache, Bring(m, d, g)) IN
         SameGroups(m, d, WithCache(m, c), d) /\ Len(c) = Len(m.cache) + 1 /\ c[Len(c)].g = g
<1> DEFINE l == Len(m.cache)
           e == Bring(m, d, g)
           c == Append(m.cache, e)
<1>0. /\ m.cache \in Seq(Entries) /\ MapTyped(m) /\ l \in Nat /\ DOMAIN m.cache = 1 .. l
      /\ \A x, y \in DOMAIN m.cache : m.cache[x].g = m.cache[y].g => x = y
  BY DEF MapGood, MapTyped
<1>1. \A j \in DOMAIN m.cache : m.cache[j].g # g BY DEF Cached
<1>2. GroupBits(m, d, g) = BitsOf(d[slot_block(g, NewestSlot(m, g))]) BY <1>0, <1>1, BitsAt
<1>3. e.g = g /\ ~e.dirty /\ e.bits = GroupBits(m, d, g) BY <1>2 DEF Bring
<1>4. e \in Entries
  <2>1. GroupBits(m, d, g) \subseteq Int
    <3>1. GroupBits(m, d, g) \subseteq GroupBlocks(g) BY DEF MapGood, Counted, BitsRight
    <3> QED BY <3>1, GroupStart, Consts DEF GroupBlocks
  <2> QED BY <2>1, <1>2 DEF Bring, Entries
<1>5. c \in Seq(Entries) /\ Len(c) = l + 1 /\ DOMAIN c = 1 .. (l + 1) /\ c[l + 1] = e BY <1>0, <1>4
<1>6. \A k \in 1 .. l : c[k] = m.cache[k] BY <1>0
<1>7. \A k \in 1 .. (l + 1) : k \in 1 .. l \/ k = l + 1 BY <1>0
<1> HIDE DEF c, e
<1>8. \A x, y \in DOMAIN c : c[x].g = c[y].g => x = y BY <1>0, <1>1, <1>3, <1>5, <1>6, <1>7
<1>9. \A x \in DOMAIN c : \/ \E j \in DOMAIN m.cache : c[x] = m.cache[j]
                          \/ /\ ~c[x].dirty /\ c[x].bits = GroupBits(m, d, c[x].g)
                             /\ c[x].bits = BitsOf(d[slot_block(c[x].g, NewestSlot(m, c[x].g))])
  BY <1>0, <1>2, <1>3, <1>5, <1>6, <1>7
<1>10. \A j \in DOMAIN m.cache : \E x \in DOMAIN c : c[x] = m.cache[j]
  <2>1. \A k \in 1 .. l : k \in 1 .. (l + 1) BY <1>0
  <2> QED BY <2>1, <1>0, <1>5, <1>6
<1>11. Len(c) <= CacheSize BY <1>0, <1>5, Consts
<1>12. SameGroups(m, d, WithCache(m, c), d) BY <1>5, <1>11, <1>8, <1>9, <1>10, Recache
<1> QED BY <1>3, <1>5, <1>12 DEF c, e

\* Keeping the groups twice keeps them.
LEMMA SameTwice ==
  ASSUME NEW m, NEW d, NEW n, NEW e, NEW o, NEW u, SameGroups(m, d, n, e), SameGroups(n, e, o, u)
  PROVE  SameGroups(m, d, o, u)
BY DEF SameGroups

\* Reading a group keeps the map, whether or not the device answers (ReadGroup).
LEMMA ReadGood ==
  ASSUME NEW m, NEW d, MapGood(m, d), NEW f \in 0 .. MaxFaults, NEW g \in Groups, Cached(m, g) = {},
         Len(m.cache) < CacheSize, NEW v \in ReadGroup(m, d, f, g)
  PROVE  /\ SameGroups(m, d, v.m, d) /\ v.d = d /\ v.f \in 0 .. MaxFaults /\ v.ok \in BOOLEAN
         /\ v.ok => Len(v.m.cache) > 0 /\ v.m.cache[Len(v.m.cache)].g = g
<1> DEFINE c == Append(m.cache, Bring(m, d, g))
           n == WithCache(m, c)
<1>1. PICK r \in blk_got(f, slot_block(g, NewestSlot(m, g))) :
            v = [ok |-> r.ok, d |-> d, f |-> r.f, m |-> IF r.ok THEN n ELSE m]
  BY Zenon DEF ReadGroup, WithCache, Bring
<1>2. v.ok = r.ok /\ v.d = d /\ v.f = r.f /\ v.m = IF r.ok THEN n ELSE m BY <1>1
<1>3. r.f \in 0 .. MaxFaults /\ r.ok \in BOOLEAN BY <1>1, GotResults
<1>4. SameGroups(m, d, n, d) /\ Len(c) = Len(m.cache) + 1 /\ c[Len(c)].g = g BY BringGood, Zenon
<1>5. n.cache = c BY CacheFields DEF MapGood, MapTyped, MapIs
<1>6. Len(m.cache) \in Nat BY DEF MapGood, MapTyped
<1>7. SameGroups(m, d, m, d) BY DEF SameGroups
<1> HIDE DEF n, c
<1> QED BY <1>2, <1>3, <1>4, <1>5, <1>6, <1>7

\* Making room.
LEMMA EvictGood ==
  ASSUME ~ForgetFaults, NEW m, NEW d, MapGood(m, d), DOMAIN d = Blocks, NEW f \in 0 .. MaxFaults,
         ~(Len(m.cache) < CacheSize), NEW v \in Evict(m, d, f)
  PROVE  /\ SameGroups(m, d, v.m, v.d) /\ Changed(d, v.d, Pending(m.slot)) /\ v.f \in 0 .. MaxFaults
         /\ v.ok /\ Len(v.m.cache) < CacheSize
         /\ \A g : Cached(m, g) = {} => Cached(v.m, g) = {}
<1>0. m.cache \in Seq(Entries) /\ Len(m.cache) <= CacheSize /\ MapRec(m) BY DEF MapGood, MapTyped
<1>1. Len(m.cache) \in Nat /\ 1 \in DOMAIN m.cache /\ m.cache # <<>> /\ Len(m.cache) = CacheSize BY <1>0, Consts
<1>2. CASE ~m.cache[1].dirty
  <2> DEFINE n == WithCache(m, Tail(m.cache))
  <2>1. v = [ok |-> TRUE, m |-> n, d |-> d, f |-> f] BY <1>2, Zenon DEF Evict, WithCache
  <2>2. v.ok /\ v.m = n /\ v.d = d /\ v.f = f BY <2>1
  <2>3. SameGroups(m, d, n, d) /\ Len(Tail(m.cache)) = Len(m.cache) - 1 BY <1>1, <1>2, TailGood
  <2>4. n.cache = Tail(m.cache) BY <1>0, CacheFields DEF MapIs
  <2>5. \A g : Cached(m, g) = {} => Cached(n, g) = {}
    <3>1. \A k \in DOMAIN Tail(m.cache) : Tail(m.cache)[k] = m.cache[k + 1] /\ k + 1 \in DOMAIN m.cache
      <4>1. Tail(m.cache) \in Seq(Entries) /\ DOMAIN Tail(m.cache) = 1 .. (Len(m.cache) - 1)
            /\ DOMAIN m.cache = 1 .. Len(m.cache) BY <1>0, <1>1
      <4> QED BY <4>1, <1>0, <1>1, HeadTailProperties
    <3> QED BY <3>1, <2>4 DEF Cached
  <2>6. Changed(d, d, Pending(m.slot)) BY DEF Changed
  <2> HIDE DEF n
  <2> QED BY <2>2, <2>3, <2>4, <2>5, <2>6, <1>1, Consts
<1>3. CASE m.cache[1].dirty
  <2>1. PICK w \in flush_one(m, d, f, 1) : w.ok /\ v = [w EXCEPT !.m = WithCache(w.m, Tail(w.m.cache))]
    BY <1>3, Zenon DEF Evict, WithCache
  <2>2. w \in [ok : {w.ok}, d : {w.d}, f : {w.f}, m : {w.m}] /\ w.f \in 0 .. MaxFaults BY <1>0, <2>1, FlushOut
  <2> DEFINE n == WithCache(w.m, Tail(w.m.cache))
  <2>3. v.ok /\ v.m = n /\ v.d = w.d /\ v.f = w.f BY <2>1, <2>2
  <2>4. /\ SameGroups(m, d, w.m, w.d) /\ Changed(d, w.d, Pending(m.slot)) /\ w.m.cache = CleanAt(m.cache, 1)
    BY <1>1, <2>1, FlushGood
  <2>5. MapGood(w.m, w.d) BY <2>4 DEF SameGroups
  <2>a. m.cache[1] \in Entries BY <1>0, <1>1
  <2>6. /\ CleanEntry(m.cache[1]) \in Entries /\ CleanEntry(m.cache[1]).g = m.cache[1].g
        /\ CleanEntry(m.cache[1]).dirty = FALSE
    BY <2>a, CleanFields
  <2>7. /\ w.m.cache \in Seq(Entries) /\ Len(w.m.cache) = Len(m.cache) /\ DOMAIN w.m.cache = DOMAIN m.cache
        /\ \A k \in DOMAIN m.cache : w.m.cache[k] = IF k = 1 THEN CleanEntry(m.cache[1]) ELSE m.cache[k]
    BY <2>4, <2>6, <1>0, <1>1, ExceptSeq DEF CleanAt
  <2>8. w.m.cache # <<>> /\ ~w.m.cache[1].dirty BY <2>6, <2>7, <1>1
  <2>9. SameGroups(w.m, w.d, n, w.d) /\ Len(Tail(w.m.cache)) = Len(m.cache) - 1 BY <2>5, <2>7, <2>8, TailGood
  <2>10. n.cache = Tail(w.m.cache) BY <2>5, CacheFields DEF MapIs, MapGood, MapTyped
  <2>11. \A g : Cached(m, g) = {} => Cached(n, g) = {}
    <3>1. \A k \in DOMAIN Tail(w.m.cache) : Tail(w.m.cache)[k] = w.m.cache[k + 1] /\ k + 1 \in DOMAIN m.cache
      <4>1. Tail(w.m.cache) \in Seq(Entries) /\ DOMAIN Tail(w.m.cache) = 1 .. (Len(m.cache) - 1)
            /\ DOMAIN m.cache = 1 .. Len(m.cache) BY <1>0, <1>1, <2>7, <2>8
      <4> QED BY <4>1, <1>0, <1>1, <2>7, <2>8, HeadTailProperties
    <3>2. \A k \in DOMAIN m.cache : w.m.cache[k].g = m.cache[k].g BY <2>6, <2>7
    <3>3. \A k \in DOMAIN n.cache : k + 1 \in DOMAIN m.cache /\ n.cache[k].g = m.cache[k + 1].g BY <3>1, <3>2, <2>10
    <3> HIDE DEF n
    <3> QED BY <3>3 DEF Cached
  <2>12. SameGroups(m, d, n, w.d) BY <2>4, <2>9, SameTwice
  <2> HIDE DEF n
  <2> QED BY <2>2, <2>3, <2>4, <2>9, <2>10, <2>11, <2>12, <1>1, Consts
<1> QED BY <1>2, <1>3

\* load brings the group to the end of the cache and keeps the map.
LEMMA LoadGood ==
  ASSUME ~ForgetFaults, NEW m, NEW d, MapGood(m, d), DOMAIN d = Blocks, NEW f \in 0 .. MaxFaults,
         NEW g \in Groups, NEW v \in load(m, d, f, g)
  PROVE  /\ SameGroups(m, d, v.m, v.d) /\ Changed(d, v.d, Pending(m.slot)) /\ v.f \in 0 .. MaxFaults
         /\ v.ok \in BOOLEAN
         /\ v.ok => Len(v.m.cache) > 0 /\ v.m.cache[Len(v.m.cache)].g = g
<1>0. m.cache \in Seq(Entries) /\ Len(m.cache) \in Nat /\ MapRec(m) BY DEF MapGood, MapTyped
<1>c. Changed(d, d, Pending(m.slot)) BY DEF Changed
<1>1. CASE Cached(m, g) # {}
  <2> DEFINE i == CHOOSE i \in Cached(m, g) : TRUE
  <2>1. i \in DOMAIN m.cache /\ m.cache[i].g = g BY <1>1 DEF Cached
  <2> DEFINE c == Append(RemoveAt(m.cache, i), m.cache[i])
             n == WithCache(m, c)
  <2>2. v = [ok |-> TRUE, d |-> d, f |-> f, m |-> n] BY <1>1, Zenon DEF load, WithCache
  <2>3. v.ok = TRUE /\ v.m = n /\ v.d = d /\ v.f = f BY <2>2
  <2> HIDE DEF i
  <2>4. SameGroups(m, d, n, d) /\ Len(c) = Len(m.cache) /\ c[Len(c)] = m.cache[i] BY <2>1, RotateGood, Zenon
  <2>5. n.cache = c BY <1>0, CacheFields DEF MapIs
  <2>6. Len(m.cache) > 0 BY <1>0, <2>1
  <2> HIDE DEF n, c
  <2> QED BY <2>1, <2>3, <2>4, <2>5, <2>6, <1>c
<1>2. CASE Cached(m, g) = {}
  <2> DEFINE room == IF Len(m.cache) < CacheSize THEN {[ok |-> TRUE, m |-> m, d |-> d, f |-> f]}
                     ELSE Evict(m, d, f)
  <2>1. PICK u \in room : v \in (IF u.ok THEN ReadGroup(u.m, u.d, u.f, g) ELSE {u}) BY <1>2, Zenon DEF load
  <2>2. /\ SameGroups(m, d, u.m, u.d) /\ Changed(d, u.d, Pending(m.slot)) /\ u.f \in 0 .. MaxFaults
        /\ u.ok /\ Len(u.m.cache) < CacheSize /\ Cached(u.m, g) = {}
    <3>1. CASE Len(m.cache) < CacheSize
      <4>1. u = [ok |-> TRUE, m |-> m, d |-> d, f |-> f] BY <3>1
      <4>2. u.ok /\ u.m = m /\ u.d = d /\ u.f = f BY <4>1
      <4> QED BY <4>2, <3>1, <1>2, <1>c DEF SameGroups
    <3>2. CASE ~(Len(m.cache) < CacheSize)
      <4>1. u \in Evict(m, d, f) BY <3>2
      <4> HIDE DEF room
      <4> QED BY <4>1, <3>2, <1>2, EvictGood
    <3> QED BY <3>1, <3>2
  <2>3. v \in ReadGroup(u.m, u.d, u.f, g) BY <2>1, <2>2
  <2> HIDE DEF room
  <2>4. MapGood(u.m, u.d) BY <2>2 DEF SameGroups
  <2>5. /\ SameGroups(u.m, u.d, v.m, u.d) /\ v.d = u.d /\ v.f \in 0 .. MaxFaults /\ v.ok \in BOOLEAN
        /\ v.ok => Len(v.m.cache) > 0 /\ v.m.cache[Len(v.m.cache)].g = g
    BY <2>2, <2>3, <2>4, ReadGood
  <2> QED BY <2>2, <2>5, SameTwice
<1> QED BY <1>1, <1>2

-----------------------------------------------------------------------------
(* What changes a map: taking and releasing blocks.                        *)

\* A bounded set of naturals has a greatest element, and Max finds it.
LEMMA Greatest ==
  ASSUME NEW n \in Nat, NEW T, T \subseteq 0 .. n, T # {}
  PROVE  Max(T) \in T /\ \A y \in T : y <= Max(T)
<1> DEFINE U == {n - y : y \in T}
<1>0. PICK z \in T : TRUE OBVIOUS
<1>a. n - z \in U BY <1>0
<1>b. U \subseteq Nat
  <2> SUFFICES ASSUME NEW y \in T PROVE n - y \in Nat OBVIOUS
  <2>1. y \in 0 .. n OBVIOUS
  <2> QED BY <2>1
<1>1. U \subseteq Nat /\ U # {} BY <1>a, <1>b
<1>2. Min(U) \in U /\ \A y \in U : Min(U) <= y
  <2> HIDE DEF U
  <2> QED BY <1>1, Least
<1>3. PICK x \in T : Min(U) = n - x BY <1>2
<1>4. \A y \in T : n - y \in U OBVIOUS
<1>5. \A y \in T : n - x <= n - y BY <1>2, <1>3, <1>4
<1>6. \A y \in T : y <= x
  <2> SUFFICES ASSUME NEW y \in T PROVE y <= x OBVIOUS
  <2>1. x \in Nat /\ y \in Nat /\ n - x <= n - y BY <1>5
  <2> QED BY <2>1
<1> QED BY <1>6 DEF Max

\* A group has GB blocks.
LEMMA GroupCard ==
  ASSUME NEW g \in Groups
  PROVE  Cardinality(GroupBlocks(g)) = GB
<1> DEFINE p == g * GB
           q == g * GB + GB - 1
<1>1. p \in Int /\ q \in Int /\ ~(p > q) /\ q - p + 1 = GB BY GroupStart, Consts
<1> HIDE DEF p, q
<1>2. Cardinality(p .. q) = IF p > q THEN 0 ELSE q - p + 1 BY <1>1, FS_Interval
<1> QED BY <1>1, <1>2 DEF GroupBlocks, p, q

\* The bitmap of a group without or with some of its blocks.
LEMMA BitsAdd ==
  ASSUME NEW g \in Groups, NEW bits, NEW free, BitsRight(g, bits, free), NEW T, T \subseteq GroupBlocks(g) \ bits
  PROVE  /\ BitsRight(g, bits \cup T, free - Cardinality(T)) /\ Cardinality(T) \in Nat /\ free \in Nat
         /\ free - Cardinality(T) \in 0 .. GB
<1> DEFINE R == GroupBlocks(g) \ bits
<1>1. g * GB \in Int /\ g * GB + GB - 1 \in Int BY GroupStart, Consts
<1>2. IsFiniteSet(R) /\ IsFiniteSet(T) /\ IsFiniteSet(GroupBlocks(g))
  <2>1. R \subseteq GroupBlocks(g) /\ T \subseteq GroupBlocks(g) /\ GroupBlocks(g) \subseteq GroupBlocks(g) OBVIOUS
  <2>2. GroupBlocks(g) = (g * GB) .. (g * GB + GB - 1) BY DEF GroupBlocks
  <2> HIDE DEF R
  <2> QED BY <1>1, <2>1, <2>2, FiniteSub
<1>3. Cardinality(GroupBlocks(g)) = GB BY GroupCard
<1>4. Cardinality(R) <= GB /\ Cardinality(R) \in Nat
  <2>1. R \in SUBSET GroupBlocks(g) OBVIOUS
  <2> HIDE DEF R
  <2> QED BY <2>1, <1>2, <1>3, FS_Subset, FS_CardinalityType
<1>5. Cardinality(R \ T) = Cardinality(R) - Cardinality(T)
  <2>1. R \cap T = T OBVIOUS
  <2> HIDE DEF R
  <2>2. Cardinality(R \ T) = Cardinality(R) - Cardinality(R \cap T) BY <1>2, FS_Difference
  <2> QED BY <2>1, <2>2
<1>6. Cardinality(T) \in Nat /\ Cardinality(T) <= Cardinality(R)
  <2>1. T \in SUBSET R OBVIOUS
  <2> HIDE DEF R
  <2> QED BY <2>1, <1>2, FS_Subset, FS_CardinalityType
<1>7. GroupBlocks(g) \ (bits \cup T) = R \ T OBVIOUS
<1>8. free = Cardinality(R) BY DEF BitsRight
<1>9. fresh_bits(g) \subseteq bits \cup T /\ bits \cup T \subseteq GroupBlocks(g) BY DEF BitsRight
<1>10. free - Cardinality(T) = Cardinality(GroupBlocks(g) \ (bits \cup T)) BY <1>5, <1>7, <1>8
<1> HIDE DEF R
<1> QED BY <1>4, <1>6, <1>8, <1>9, <1>10, Consts DEF BitsRight

\* Clearing bits that were set, outside the fixed ones, adds their number to the free
\* count.
LEMMA BitsDrop ==
  ASSUME NEW g \in Groups, NEW bits, NEW free, BitsRight(g, bits, free), NEW T, T \subseteq bits, T \cap fresh_bits(g) = {}
  PROVE  BitsRight(g, bits \ T, free + Cardinality(T)) /\ free + Cardinality(T) \in 0 .. GB
<1> DEFINE R == GroupBlocks(g) \ bits
           Q == GroupBlocks(g) \ (bits \ T)
<1>1. g * GB \in Int /\ g * GB + GB - 1 \in Int BY GroupStart, Consts
<1>0. T \subseteq GroupBlocks(g) BY DEF BitsRight
<1>2. IsFiniteSet(R) /\ IsFiniteSet(T) /\ IsFiniteSet(Q) /\ IsFiniteSet(GroupBlocks(g))
  <2>1. R \subseteq GroupBlocks(g) /\ Q \subseteq GroupBlocks(g) /\ GroupBlocks(g) \subseteq GroupBlocks(g) OBVIOUS
  <2>2. GroupBlocks(g) = (g * GB) .. (g * GB + GB - 1) BY DEF GroupBlocks
  <2> HIDE DEF R, Q
  <2> QED BY <1>0, <1>1, <2>1, <2>2, FiniteSub
<1>3. Cardinality(GroupBlocks(g)) = GB BY GroupCard
<1>4. Cardinality(Q) <= GB /\ Cardinality(Q) \in Nat
  <2>1. Q \in SUBSET GroupBlocks(g) OBVIOUS
  <2> HIDE DEF Q
  <2> QED BY <2>1, <1>2, <1>3, FS_Subset, FS_CardinalityType
<1>5. Q = R \cup T /\ R \cap T = {} BY <1>0
<1>6. Cardinality(Q) = Cardinality(R) + Cardinality(T) /\ Cardinality(T) \in Nat /\ Cardinality(R) \in Nat
  <2> HIDE DEF Q, R
  <2>1. Cardinality(R \cup T) = Cardinality(R) + Cardinality(T) - Cardinality(R \cap T) BY <1>2, FS_Union
  <2>2. Cardinality(R \cap T) = 0 BY <1>5, FS_EmptySet
  <2>3. Cardinality(R) \in Nat /\ Cardinality(T) \in Nat BY <1>2, FS_CardinalityType
  <2> QED BY <2>1, <2>2, <2>3, <1>5
<1>8. free = Cardinality(R) BY DEF BitsRight
<1>9. fresh_bits(g) \subseteq bits \ T /\ bits \ T \subseteq GroupBlocks(g) BY DEF BitsRight
<1>10. free + Cardinality(T) = Cardinality(Q) BY <1>6, <1>8
<1>11. free + Cardinality(T) \in 0 .. GB
  <2> HIDE DEF Q
  <2> QED BY <1>4, <1>10, Consts
<1> QED BY <1>9, <1>10, <1>11 DEF BitsRight

\* The map after the bitmap of the last entry was replaced.
LastSet(c, bits) == [c EXCEPT ![Len(c)] = [c[Len(c)] EXCEPT !.bits = bits, !.dirty = TRUE]]
FreeSet(fr, g, n) == [fr EXCEPT ![g] = n]

\* The map after a change of its last entry, as its fields.
LEMMA PutFields ==
  ASSUME NEW m, MapRec(m), NEW g, NEW bits, NEW n
  PROVE  MapIs(PutBits(m, g, bits, n), m.slot, m.written, FreeSet(m.free, g, n), LastSet(m.cache, bits))
BY DEF PutBits, MapRec, MapIs, LastSet, FreeSet

\* The map n is m with the bitmap of group g replaced.
Replaced(m, n, d, g, bits) ==
    /\ MapGood(n, d) /\ n.slot = m.slot
    /\ \A h \in Groups : GroupBits(n, d, h) = IF h = g THEN bits ELSE GroupBits(m, d, h)

\* Changing the bits and the count of the group in the last entry changes that group and
\* no other.
LEMMA PutGood ==
  ASSUME NEW m, NEW d, MapGood(m, d), NEW g \in Groups, Len(m.cache) > 0, m.cache[Len(m.cache)].g = g,
         NEW bits, NEW free \in 0 .. GB, BitsRight(g, bits, free)
  PROVE  Replaced(m, PutBits(m, g, bits, free), d, g, bits)
<1> DEFINE n == PutBits(m, g, bits, free)
           l == Len(m.cache)
           e == [m.cache[l] EXCEPT !.bits = bits, !.dirty = TRUE]
           c == LastSet(m.cache, bits)
<1>0. /\ MapTyped(m) /\ MapRec(m) /\ NewestOn(m) /\ CleanIsDisk(m, d) /\ Counted(m, d) BY DEF MapGood, MapTyped
<1>1. /\ m.cache \in Seq(Entries) /\ l \in Nat /\ l <= CacheSize /\ m.free \in [Groups -> 0 .. GB]
      /\ \A x, y \in DOMAIN m.cache : m.cache[x].g = m.cache[y].g => x = y
  BY <1>0 DEF MapTyped
<1>2. n.slot = m.slot /\ n.written = m.written /\ n.free = FreeSet(m.free, g, free) /\ n.cache = c /\ MapRec(n)
  BY <1>0, PutFields DEF MapIs
<1>3. l \in 1 .. l /\ l \in DOMAIN m.cache /\ m.cache[l] \in Entries /\ DOMAIN m.cache = 1 .. l BY <1>1
<1>4. bits \in SUBSET Int
  <2>1. bits \subseteq GroupBlocks(g) BY DEF BitsRight
  <2> QED BY <2>1, GroupStart, Consts DEF GroupBlocks
<1>5. e \in Entries /\ e.g = g /\ e.bits = bits /\ e.dirty BY <1>3, <1>4 DEF Entries
<1> HIDE DEF e
<1>6. /\ c \in Seq(Entries) /\ Len(c) = l /\ DOMAIN c = DOMAIN m.cache
      /\ \A j \in DOMAIN m.cache : c[j] = IF j = l THEN e ELSE m.cache[j]
  BY <1>1, <1>3, <1>5, ExceptSeq DEF LastSet, e
<1>7. n.free \in [Groups -> 0 .. GB] /\ \A h \in Groups : n.free[h] = IF h = g THEN free ELSE m.free[h]
  BY <1>1, <1>2 DEF FreeSet
<1> HIDE DEF n, c
<1>8. \A j \in DOMAIN m.cache : c[j].g = m.cache[j].g BY <1>5, <1>6
<1>9. MapTyped(n)
  <2>1. \A x, y \in DOMAIN n.cache : n.cache[x].g = n.cache[y].g => x = y BY <1>1, <1>2, <1>6, <1>8
  <2>2. n.slot \in [Groups -> {0, 1}] /\ n.written \in [Groups -> BOOLEAN] BY <1>0, <1>2 DEF MapTyped
  <2>3. n.cache \in Seq(Entries) /\ Len(n.cache) <= CacheSize BY <1>1, <1>2, <1>6
  <2> QED BY <1>2, <1>7, <2>1, <2>2, <2>3 DEF MapTyped
<1>10. \A h : NewestSlot(n, h) = NewestSlot(m, h) BY <1>2 DEF NewestSlot
<1>11. NewestOn(n) BY <1>0, <1>10 DEF NewestOn
<1>12. CleanIsDisk(n, d) BY <1>0, <1>2, <1>5, <1>6, <1>10 DEF CleanIsDisk
<1>13. ASSUME NEW h \in Groups PROVE GroupBits(n, d, h) = IF h = g THEN bits ELSE GroupBits(m, d, h)
  <2>1. CASE h = g
    <3>1. l \in DOMAIN n.cache /\ n.cache[l].g = g /\ n.cache[l].bits = bits BY <1>2, <1>3, <1>5, <1>6
    <3> QED BY <3>1, <2>1, <1>9, BitsAt
  <2>2. CASE h # g
    <3>1. CASE \E j \in DOMAIN m.cache : m.cache[j].g = h
      <4>1. PICK j \in DOMAIN m.cache : m.cache[j].g = h BY <3>1
      <4>2. j # l BY <4>1, <2>2
      <4>3. j \in DOMAIN n.cache /\ n.cache[j] = m.cache[j] BY <4>1, <4>2, <1>2, <1>6
      <4> QED BY <4>1, <4>3, <2>2, <1>0, <1>9, BitsAt
    <3>2. CASE \A j \in DOMAIN m.cache : m.cache[j].g # h
      <4>1. \A j \in DOMAIN n.cache : n.cache[j].g # h BY <3>2, <1>2, <1>6, <1>8
      <4> QED BY <3>2, <4>1, <2>2, <1>0, <1>9, <1>10, BitsAt
    <3> QED BY <3>1, <3>2
  <2> QED BY <2>1, <2>2
<1>14. Counted(n, d) BY <1>0, <1>7, <1>13 DEF Counted
<1> QED BY <1>2, <1>9, <1>11, <1>12, <1>13, <1>14 DEF MapGood, Replaced, n

\* The run FirstRun finds lies in the group, on the volume, and is free.
LEMMA FirstRunFacts ==
  ASSUME NEW g \in Groups, NEW bits, NEW from, NEW need \in Nat, need > 0,
         FirstRun(bits, from, g, need).len # 0
  PROVE  LET e == FirstRun(bits, from, g, need) IN
         /\ e \in Ext /\ e.len <= need
         /\ ExtSpan(e) \subseteq (GroupBlocks(g) \cap Blocks) \ bits
<1> DEFINE free == {b \in GroupBlocks(g) : b >= from /\ b < Total /\ b \notin bits}
           i == Min(free)
           run == {n \in 1 .. need : \A b \in i .. (i + n - 1) : b \in free}
           l == Max(run)
<1>0. free \subseteq (GroupBlocks(g) \cap Blocks) \ bits /\ free \subseteq Nat
  <2>1. GroupBlocks(g) \subseteq Nat BY GroupStart, Consts DEF GroupBlocks
  <2> QED BY <2>1, Consts DEF Blocks
<1>1. FirstRun(bits, from, g, need) = IF free = {} THEN [start |-> 0, len |-> 0] ELSE [start |-> i, len |-> l]
  BY Zenon DEF FirstRun
<1> HIDE DEF free
<1>2. free # {} BY <1>1
<1>3. i \in free /\ i \in Nat BY <1>0, <1>2, Least
<1> HIDE DEF i
<1>4. 1 \in run
  <2>1. 1 \in 1 .. need /\ \A b \in i .. (i + 1 - 1) : b = i BY <1>3
  <2> QED BY <2>1, <1>3
<1>5. run \subseteq 0 .. need OBVIOUS
<1>6. l \in run
  <2> HIDE DEF run
  <2> QED BY <1>4, <1>5, Greatest
<1>7. l \in 1 .. need /\ \A b \in i .. (i + l - 1) : b \in free
  <2> HIDE DEF l
  <2> QED BY <1>6
<1> HIDE DEF run, l
<1> DEFINE e == FirstRun(bits, from, g, need)
<1>8. e = [start |-> i, len |-> l] BY <1>1, <1>2
<1>9. e \in Ext BY <1>8, <1>7, <1>3 DEF Ext
<1>10. e.start = i /\ e.len = l BY <1>8
<1> HIDE DEF e
<1>11. ExtSpan(e) \subseteq free BY <1>10, <1>7 DEF ExtSpan
<1>12. e.len <= need BY <1>10, <1>7
<1> QED BY <1>9, <1>11, <1>12, <1>0 DEF e

\* The blocks of a map, group by group.
LEMMA UsedIn ==
  ASSUME NEW m, NEW d, MapGood(m, d)
  PROVE  /\ UsedBlocks(m, d) \subseteq Blocks
         /\ \A g \in Groups : \A b \in GroupBlocks(g) : b \in UsedBlocks(m, d) <=> (b \in Blocks /\ b \in GroupBits(m, d, g))
         /\ Reserved \subseteq UsedBlocks(m, d)
<1>0. \A g \in Groups : GroupBits(m, d, g) \subseteq GroupBlocks(g) /\ fresh_bits(g) \subseteq GroupBits(m, d, g)
  BY DEF MapGood, Counted, BitsRight
<1>1. UsedBlocks(m, d) \subseteq Blocks BY DEF UsedBlocks
<1>2. ASSUME NEW g \in Groups, NEW b \in GroupBlocks(g), b \in UsedBlocks(m, d) PROVE b \in Blocks /\ b \in GroupBits(m, d, g)
  <2>1. PICK h \in Groups : b \in GroupBits(m, d, h) BY <1>2 DEF UsedBlocks
  <2>2. b \in GroupBlocks(h) BY <2>1, <1>0
  <2>3. h = g BY <2>2, OneGroup
  <2> QED BY <2>1, <2>3, <1>1, <1>2
<1>3. ASSUME NEW g \in Groups, NEW b \in GroupBlocks(g), b \in Blocks /\ b \in GroupBits(m, d, g) PROVE b \in UsedBlocks(m, d)
  BY <1>3 DEF UsedBlocks
<1>4. Reserved \subseteq UsedBlocks(m, d) BY <1>0 DEF Reserved, UsedBlocks
<1> QED BY <1>1, <1>2, <1>3, <1>4

\* The same groups are the same blocks.
LEMMA SameUsed ==
  ASSUME NEW m, NEW d, NEW n, NEW e, \A g \in Groups : GroupBits(n, e, g) = GroupBits(m, d, g)
  PROVE  UsedBlocks(n, e) = UsedBlocks(m, d)
BY DEF UsedBlocks

\* The search of gmap_take stays among the groups, wherever the hint points.
LEMMA SearchIn ==
  ASSUME NEW hint \in Nat, NEW k \in Nat
  PROVE  SearchGroup(hint, k) \in Groups
<1> DEFINE g0 == IF GroupOf(hint) >= NGroups THEN 0 ELSE GroupOf(hint)
<1>1. GroupOf(hint) \in Nat BY Consts, DivMod DEF GroupOf
<1>2. g0 \in Nat /\ g0 + k \in Nat BY <1>1
<1>3. NGroups > 0
  <2>1. 0 \in Blocks BY Consts DEF Blocks
  <2>2. GroupOf(0) \in Groups BY <2>1, InGroup
  <2> QED BY <2>2, Consts DEF Groups
<1>4. SearchGroup(hint, k) = (g0 + k) % NGroups BY DEF SearchGroup
<1> HIDE DEF g0
<1>5. (g0 + k) % NGroups \in Nat /\ (g0 + k) % NGroups < NGroups BY <1>2, <1>3, Consts, DivMod
<1> QED BY <1>4, <1>5, Consts DEF Groups

\* An extent covers as many blocks as its length says.
LEMMA SpanCard ==
  ASSUME NEW e \in Ext
  PROVE  Cardinality(ExtSpan(e)) = e.len /\ e.start \in ExtSpan(e) /\ e.start \in Nat /\ e.len \in Nat /\ e.len > 0
         /\ ExtSpan(e) \subseteq Nat
<1> DEFINE p == e.start
           q == e.start + e.len - 1
<1>0. e.start \in Nat /\ e.len \in Nat /\ e.len > 0 BY DEF Ext
<1>1. p \in Int /\ q \in Int /\ ~(p > q) /\ q - p + 1 = e.len /\ p \in p .. q /\ p .. q \subseteq Nat BY <1>0
<1>3. ExtSpan(e) = p .. q BY DEF ExtSpan
<1> HIDE DEF p, q
<1>2. Cardinality(p .. q) = IF p > q THEN 0 ELSE q - p + 1 BY <1>1, FS_Interval
<1>4. Cardinality(p .. q) = e.len BY <1>1, <1>2
<1> QED BY <1>0, <1>1, <1>4, <1>3 DEF p

\* gmap_take: the map stays right; what is found was free and on the volume.
LEMMA TakeGood ==
  ASSUME ~ForgetFaults, NEW m, NEW d, MapGood(m, d), DOMAIN d = Blocks, NEW f \in 0 .. MaxFaults,
         NEW hint \in Nat, NEW need \in Nat, need > 0, NEW k \in Nat, NEW r \in gmap_take(m, d, f, hint, need, k)
  PROVE  /\ MapGood(r.m, r.d) /\ r.m.slot = m.slot
         /\ Changed(d, r.d, Pending(m.slot)) /\ r.f \in 0 .. MaxFaults
         /\ r.res # "found" => UsedBlocks(r.m, r.d) = UsedBlocks(m, d)
         /\ r.res = "found" =>
              /\ r.ext \in Ext /\ r.ext.len <= need /\ ExtSpan(r.ext) \subseteq Blocks
              /\ ExtSpan(r.ext) \cap UsedBlocks(m, d) = {}
              /\ UsedBlocks(r.m, r.d) = UsedBlocks(m, d) \cup ExtSpan(r.ext)
<1> DEFINE g == SearchGroup(hint, k)
           from == SearchFrom(hint, k)
<1>0. g \in Groups BY SearchIn
<1>1. CASE m.free[g] = 0
  <2>1. r = [res |-> "next", ext |-> [start |-> 0, len |-> 0], m |-> m, d |-> d, f |-> f]
    BY <1>1, Zenon DEF gmap_take
  <2>2. r.res = "next" /\ r.m = m /\ r.d = d /\ r.f = f BY <2>1
  <2>3. Changed(d, d, Pending(m.slot)) BY DEF Changed
  <2> QED BY <2>2, <2>3
<1>2. CASE m.free[g] # 0
  <2>1. PICK v \in load(m, d, f, g) : r = TakeFrom(v, from, g, need) BY <1>2, Zenon DEF gmap_take
  <2> HIDE DEF g, from
  <2>2. /\ SameGroups(m, d, v.m, v.d) /\ Changed(d, v.d, Pending(m.slot)) /\ v.f \in 0 .. MaxFaults
        /\ v.ok \in BOOLEAN
        /\ v.ok => Len(v.m.cache) > 0 /\ v.m.cache[Len(v.m.cache)].g = g
    BY <1>0, LoadGood
  <2>3. /\ MapGood(v.m, v.d) /\ v.m.slot = m.slot /\ v.m.free = m.free
        /\ \A h \in Groups : GroupBits(v.m, v.d, h) = GroupBits(m, d, h)
    BY <2>2 DEF SameGroups
  <2>4. UsedBlocks(v.m, v.d) = UsedBlocks(m, d) BY <2>3, SameUsed
  <2> DEFINE bits == LoadedBits(v.m)
             e == FirstRun(bits, from, g, need)
  <2>5. CASE ~v.ok \/ e.len = 0
    <3>1. r.res # "found" /\ r.m = v.m /\ r.d = v.d /\ r.f = v.f BY <2>1, <2>5 DEF TakeFrom
    <3> QED BY <3>1, <2>2, <2>3, <2>4
  <2>6. CASE v.ok /\ e.len # 0
    <3> DEFINE n == PutBits(v.m, g, bits \cup ExtSpan(e), v.m.free[g] - e.len)
    <3>1. r.res = "found" /\ r.m = n /\ r.d = v.d /\ r.f = v.f /\ r.ext = e BY <2>1, <2>6 DEF TakeFrom
    <3>a. bits = GroupBits(v.m, v.d, g)
      <4>1. v.m.cache \in Seq(Entries) /\ MapTyped(v.m) BY <2>3 DEF MapGood, MapTyped
      <4>2. Len(v.m.cache) \in DOMAIN v.m.cache BY <4>1, <2>2, <2>6
      <4> QED BY <4>1, <4>2, <2>2, <2>6, BitsAt DEF LoadedBits
    <3>b. BitsRight(g, bits, v.m.free[g]) BY <3>a, <2>3, <1>0 DEF MapGood, Counted
    <3> HIDE DEF bits
    <3>2. /\ e \in Ext /\ e.len <= need /\ ExtSpan(e) \subseteq (GroupBlocks(g) \cap Blocks) \ bits
      BY <2>6, <1>0, FirstRunFacts, Zenon
    <3> HIDE DEF e
    <3>3. Cardinality(ExtSpan(e)) = e.len BY <3>2, SpanCard
    <3>4. BitsRight(g, bits \cup ExtSpan(e), v.m.free[g] - e.len) /\ v.m.free[g] - e.len \in 0 .. GB
      <4>1. ExtSpan(e) \subseteq GroupBlocks(g) \ bits BY <3>2
      <4> QED BY <4>1, <3>b, <3>3, <1>0, BitsAdd
    <3>5. /\ MapGood(n, v.d) /\ n.slot = v.m.slot
          /\ \A h \in Groups : GroupBits(n, v.d, h) = IF h = g THEN bits \cup ExtSpan(e) ELSE GroupBits(v.m, v.d, h)
      <4> DEFINE nb == bits \cup ExtSpan(e)
                 nf == v.m.free[g] - e.len
      <4>1. BitsRight(g, nb, nf) /\ nf \in 0 .. GB BY <3>4
      <4> HIDE DEF nb, nf
      <4>2. Replaced(v.m, PutBits(v.m, g, nb, nf), v.d, g, nb) BY <4>1, <2>2, <2>3, <2>6, <1>0, PutGood
      <4> QED BY <4>2 DEF nb, nf, Replaced
    <3> HIDE DEF n
    <3>6. ExtSpan(e) \cap UsedBlocks(m, d) = {}
      <4>1. \A b \in ExtSpan(e) : b \in GroupBlocks(g) /\ b \notin GroupBits(v.m, v.d, g) BY <3>2, <3>a
      <4> QED BY <4>1, <1>0, <2>3, <2>4, UsedIn
    <3>7. UsedBlocks(n, v.d) = UsedBlocks(v.m, v.d) \cup ExtSpan(e)
      BY <1>0, <3>a, <3>2, <3>5 DEF UsedBlocks
    <3> QED BY <3>1, <3>2, <3>5, <3>6, <3>7, <2>2, <2>3, <2>4
  <2> QED BY <2>5, <2>6, <2>2
<1> QED BY <1>1, <1>2

\* An extent without reserved blocks lies in one group: every group begins
\* with its map blocks.
LEMMA OneGroupExt ==
  ASSUME NEW e \in Ext, ExtSpan(e) \subseteq Blocks, ExtSpan(e) \cap Reserved = {}
  PROVE  GroupOf(e.start) \in Groups /\ ExtSpan(e) \subseteq GroupBlocks(GroupOf(e.start))
<1> DEFINE s == e.start
           g == GroupOf(s)
           t == (g + 1) * GB
<1>0. s \in ExtSpan(e) /\ s \in Nat /\ s \in Blocks BY SpanCard
<1>1. g \in Groups /\ s \in GroupBlocks(g) BY <1>0, InGroup
<1>2. g \in Nat /\ g * GB \in Nat /\ t = g * GB + GB BY <1>1, GroupStart, Consts
<1> HIDE DEF g, t
<1>3. s >= g * GB /\ s < t BY <1>0, <1>1, <1>2, Consts DEF GroupBlocks
<1> SUFFICES ASSUME NEW b \in ExtSpan(e), b \notin GroupBlocks(g) PROVE FALSE BY <1>1 DEF g
<1>4. b \in Nat /\ b >= s /\ b \in Blocks BY <1>0, SpanCard DEF ExtSpan
<1>5. b >= t
  <2> DEFINE p == g * GB
  <2>1. p \in Nat /\ t = p + GB /\ s >= p /\ b \notin p .. (p + GB - 1) BY <1>2, <1>3 DEF GroupBlocks
  <2> HIDE DEF p
  <2> QED BY <2>1, <1>0, <1>4, Consts
<1>6. t \in ExtSpan(e)
  <2>1. e.len \in Nat BY SpanCard
  <2> QED BY <2>1, <1>0, <1>2, <1>3, <1>4, <1>5, Consts DEF ExtSpan
<1>7. t \in Blocks BY <1>6
<1>8. GroupOf(t) \in Groups /\ t \in GroupBlocks(GroupOf(t)) BY <1>7, InGroup
<1>9. GroupOf(t) = g + 1
  <2>1. t = GB * (g + 1) + 0 BY <1>2, Consts DEF t
  <2>2. (GB * (g + 1) + 0) \div GB = g + 1 BY <1>2, Consts, DivUnique
  <2> QED BY <2>1, <2>2 DEF GroupOf
<1>10. t \in fresh_bits(g + 1)
  <2>1. t = (g + 1) * GB BY DEF t
  <2>2. t - (g + 1) * GB = 0 BY <2>1, <1>2, Consts
  <2>3. g + 1 # 0 BY <1>2
  <2> QED BY <2>2, <2>3, <1>8, <1>9, Consts DEF fresh_bits
<1> QED BY <1>6, <1>7, <1>8, <1>9, <1>10 DEF Reserved

\* gmap_release of blocks in use: they are free, or nothing has changed.
LEMMA ReleaseGood ==
  ASSUME ~ForgetFaults, NEW m, NEW d, MapGood(m, d), DOMAIN d = Blocks, NEW f \in 0 .. MaxFaults,
         NEW e \in Ext, ExtSpan(e) \subseteq UsedBlocks(m, d), ExtSpan(e) \cap Reserved = {},
         NEW r \in gmap_release(m, d, f, e)
  PROVE  /\ MapGood(r.m, r.d) /\ r.m.slot = m.slot
         /\ Changed(d, r.d, Pending(m.slot)) /\ r.f \in 0 .. MaxFaults /\ r.ok \in BOOLEAN
         /\ r.ok => UsedBlocks(r.m, r.d) = UsedBlocks(m, d) \ ExtSpan(e)
<1> DEFINE g == GroupOf(e.start)
<1>0. ExtSpan(e) \subseteq Blocks BY DEF UsedBlocks
<1>1. g \in Groups /\ ExtSpan(e) \subseteq GroupBlocks(g) BY <1>0, OneGroupExt
<1>2. PICK v \in load(m, d, f, g) : r = ReleaseIn(v, e) BY DEF gmap_release
<1>3. /\ SameGroups(m, d, v.m, v.d) /\ Changed(d, v.d, Pending(m.slot)) /\ v.f \in 0 .. MaxFaults
      /\ v.ok \in BOOLEAN
      /\ v.ok => Len(v.m.cache) > 0 /\ v.m.cache[Len(v.m.cache)].g = g
  <2> HIDE DEF g
  <2> QED BY <1>1, LoadGood
<1>4. /\ MapGood(v.m, v.d) /\ v.m.slot = m.slot /\ v.m.free = m.free
      /\ \A h \in Groups : GroupBits(v.m, v.d, h) = GroupBits(m, d, h)
  BY <1>3 DEF SameGroups
<1>5. UsedBlocks(v.m, v.d) = UsedBlocks(m, d) BY <1>4, SameUsed
<1>6. CASE ~v.ok
  <2>1. r = v BY <1>2, <1>6 DEF ReleaseIn
  <2> QED BY <2>1, <1>3, <1>4, <1>6
<1>7. CASE v.ok
  <2> DEFINE bits == LoadedBits(v.m)
             done == {b \in ExtSpan(e) : \A c \in e.start .. b : c \in bits}
  <2>1. bits = GroupBits(v.m, v.d, g)
    <3>1. v.m.cache \in Seq(Entries) /\ MapTyped(v.m) BY <1>4 DEF MapGood, MapTyped
    <3>2. Len(v.m.cache) \in DOMAIN v.m.cache BY <3>1, <1>3, <1>7
    <3> QED BY <3>1, <3>2, <1>3, <1>7, BitsAt DEF LoadedBits
  <2>2. BitsRight(g, bits, v.m.free[g])
    <3> HIDE DEF g
    <3> QED BY <2>1, <1>1, <1>4 DEF MapGood, Counted
  <2>3. ExtSpan(e) \subseteq bits
    <3>1. \A b \in ExtSpan(e) : b \in GroupBlocks(g) /\ b \in UsedBlocks(v.m, v.d) BY <1>1, <1>5
    <3> HIDE DEF g
    <3> QED BY <3>1, <2>1, <1>1, <1>4, UsedIn
  <2>4. done = ExtSpan(e)
    <3>1. e.start \in Nat /\ e.len \in Nat BY SpanCard
    <3>2. \A b \in ExtSpan(e) : \A c \in e.start .. b : c \in ExtSpan(e) BY <3>1 DEF ExtSpan
    <3> QED BY <3>2, <2>3
  <2>5. e.start \in ExtSpan(e) BY SpanCard
  <2> DEFINE nb == bits \ ExtSpan(e)
             nf == v.m.free[g] + Cardinality(ExtSpan(e))
             n == PutBits(v.m, g, nb, nf)
  <2>6. r = [ok |-> done = ExtSpan(e), d |-> v.d, f |-> v.f,
             m |-> IF done = {} THEN v.m ELSE PutBits(v.m, g, bits \ done, v.m.free[g] + Cardinality(done))]
    BY <1>2, <1>7, Zenon DEF ReleaseIn
  <2> HIDE DEF done
  <2>7. r = [ok |-> TRUE, d |-> v.d, f |-> v.f, m |-> n] BY <2>4, <2>5, <2>6
  <2>8. BitsRight(g, nb, nf) /\ nf \in 0 .. GB
    <3>1. ExtSpan(e) \cap fresh_bits(g) = {} BY <1>0, <1>1 DEF Reserved
    <3> HIDE DEF bits, g
    <3> QED BY <3>1, <2>2, <2>3, <1>1, BitsDrop
  <2> HIDE DEF nb, nf, bits, g
  <2>9. /\ MapGood(n, v.d) /\ n.slot = v.m.slot
        /\ \A h \in Groups : GroupBits(n, v.d, h) = IF h = g THEN nb ELSE GroupBits(v.m, v.d, h)
    <3>1. Replaced(v.m, n, v.d, g, nb) BY <2>8, <1>1, <1>3, <1>4, <1>7, PutGood
    <3> QED BY <3>1, Zenon DEF Replaced
  <2>10. r.ok = TRUE /\ r.d = v.d /\ r.f = v.f /\ r.m = n BY <2>7
  <2> HIDE DEF n
  <2>11. UsedBlocks(n, v.d) = UsedBlocks(v.m, v.d) \ ExtSpan(e)
    <3>1. ASSUME NEW b \in Blocks PROVE b \in UsedBlocks(n, v.d) <=> b \in UsedBlocks(v.m, v.d) /\ b \notin ExtSpan(e)
      <4> DEFINE h == GroupOf(b)
      <4>1. h \in Groups /\ b \in GroupBlocks(h) BY InGroup
      <4>2. /\ b \in UsedBlocks(n, v.d) <=> b \in GroupBits(n, v.d, h)
            /\ b \in UsedBlocks(v.m, v.d) <=> b \in GroupBits(v.m, v.d, h)
        <5> HIDE DEF h
        <5> QED BY <4>1, <2>9, <1>4, UsedIn
      <4>3. h # g => b \notin ExtSpan(e) BY <4>1, <1>1, OneGroup
      <4> HIDE DEF h
      <4>4. h = g => GroupBits(n, v.d, h) = GroupBits(v.m, v.d, h) \ ExtSpan(e) BY <2>1, <2>9, <1>1 DEF nb
      <4>5. h # g => GroupBits(n, v.d, h) = GroupBits(v.m, v.d, h) BY <2>9, <4>1
      <4> QED BY <4>2, <4>3, <4>4, <4>5
    <3> QED BY <3>1 DEF UsedBlocks
  <2> QED BY <2>9, <2>10, <2>11, <1>3, <1>4, <1>5
<1> QED BY <1>3, <1>6, <1>7

-----------------------------------------------------------------------------
(* Lists of extents.                                                       *)

\* The empty list covers nothing.
LEMMA EmptyExts == <<>> \in Seq(Ext) /\ Len(<<>>) = 0 /\ CoveredBy(<<>>) = {} /\ Disjoint(<<>>)
<1>1. <<>> \in Seq(Ext) /\ DOMAIN <<>> = {} /\ Len(<<>>) = 0 OBVIOUS
<1> QED BY <1>1 DEF CoveredBy, Disjoint

\* What a list covers.
LEMMA CoverAt ==
  ASSUME NEW s
  PROVE  /\ \A i \in DOMAIN s : ExtSpan(s[i]) \subseteq CoveredBy(s)
         /\ \A b \in CoveredBy(s) : \E i \in DOMAIN s : b \in ExtSpan(s[i])
BY DEF CoveredBy

\* The domain and the elements of a sequence.
LEMMA SeqDom ==
  ASSUME NEW S, NEW s \in Seq(S)
  PROVE  DOMAIN s = 1 .. Len(s) /\ Len(s) \in Nat /\ \A i \in 1 .. Len(s) : s[i] \in S
OBVIOUS

\* What a concatenation covers, and when its extents are disjoint.
LEMMA ConcatList ==
  ASSUME NEW s \in Seq(Ext), NEW t \in Seq(Ext)
  PROVE  /\ s \o t \in Seq(Ext) /\ Len(s \o t) = Len(s) + Len(t)
         /\ CoveredBy(s \o t) = CoveredBy(s) \cup CoveredBy(t)
         /\ (Disjoint(s) /\ Disjoint(t) /\ CoveredBy(s) \cap CoveredBy(t) = {}) => Disjoint(s \o t)
         /\ Disjoint(s \o t) => Disjoint(s) /\ Disjoint(t) /\ CoveredBy(s) \cap CoveredBy(t) = {}
<1> DEFINE c == s \o t
           n == Len(s)
           l == Len(t)
<1>1. n \in Nat /\ l \in Nat /\ DOMAIN s = 1 .. n /\ DOMAIN t = 1 .. l BY SeqDom
<1>2. c \in Seq(Ext) /\ Len(c) = n + l BY ConcatProperties
<1>3. \A i \in 1 .. (n + l) : c[i] = IF i <= n THEN s[i] ELSE t[i - n] BY ConcatProperties
<1>4. DOMAIN c = 1 .. (n + l) BY <1>1, <1>2, SeqDom
<1> HIDE DEF c, n, l
<1>5. \A i \in 1 .. n : i \in DOMAIN c /\ c[i] = s[i] BY <1>1, <1>3, <1>4
<1>6. \A i \in 1 .. l : n + i \in DOMAIN c /\ c[n + i] = t[i]
  <2> SUFFICES ASSUME NEW i \in 1 .. l PROVE n + i \in DOMAIN c /\ c[n + i] = t[i] OBVIOUS
  <2>1. n + i \in 1 .. (n + l) /\ ~(n + i <= n) /\ (n + i) - n = i BY <1>1
  <2> QED BY <2>1, <1>3, <1>4
<1>7. \A i \in DOMAIN c : i \in 1 .. n \/ \E j \in 1 .. l : i = n + j
  <2> SUFFICES ASSUME NEW i \in DOMAIN c, i \notin 1 .. n PROVE \E j \in 1 .. l : i = n + j OBVIOUS
  <2>1. i - n \in 1 .. l /\ i = n + (i - n) BY <1>1, <1>4
  <2> QED BY <2>1
<1>8. CoveredBy(c) = CoveredBy(s) \cup CoveredBy(t)
  <2>1. ASSUME NEW b \in CoveredBy(c) PROVE b \in CoveredBy(s) \cup CoveredBy(t)
    <3>1. PICK i \in DOMAIN c : b \in ExtSpan(c[i]) BY CoverAt
    <3>2. CASE i \in 1 .. n BY <3>1, <3>2, <1>1, <1>5, CoverAt
    <3>3. CASE \E j \in 1 .. l : i = n + j BY <3>1, <3>3, <1>1, <1>6, CoverAt
    <3> QED BY <3>2, <3>3, <1>7
  <2>2. ASSUME NEW b \in CoveredBy(s) PROVE b \in CoveredBy(c)
    <3>1. PICK i \in DOMAIN s : b \in ExtSpan(s[i]) BY CoverAt
    <3> QED BY <3>1, <1>1, <1>5, CoverAt
  <2>3. ASSUME NEW b \in CoveredBy(t) PROVE b \in CoveredBy(c)
    <3>1. PICK i \in DOMAIN t : b \in ExtSpan(t[i]) BY CoverAt
    <3> QED BY <3>1, <1>1, <1>6, CoverAt
  <2> QED BY <2>1, <2>2, <2>3
<1>9. ASSUME Disjoint(s), Disjoint(t), CoveredBy(s) \cap CoveredBy(t) = {} PROVE Disjoint(c)
  <2> SUFFICES ASSUME NEW i \in DOMAIN c, NEW j \in DOMAIN c, i # j PROVE ExtSpan(c[i]) \cap ExtSpan(c[j]) = {}
    BY DEF Disjoint
  <2>1. CASE i \in 1 .. n /\ j \in 1 .. n BY <2>1, <1>1, <1>5, <1>9 DEF Disjoint
  <2>2. CASE i \in 1 .. n /\ \E y \in 1 .. l : j = n + y BY <2>2, <1>1, <1>5, <1>6, <1>9, CoverAt
  <2>3. CASE j \in 1 .. n /\ \E x \in 1 .. l : i = n + x BY <2>3, <1>1, <1>5, <1>6, <1>9, CoverAt
  <2>4. CASE (\E x \in 1 .. l : i = n + x) /\ (\E y \in 1 .. l : j = n + y) BY <2>4, <1>1, <1>6, <1>9 DEF Disjoint
  <2> QED BY <2>1, <2>2, <2>3, <2>4, <1>7
<1>10. ASSUME Disjoint(c) PROVE Disjoint(s) /\ Disjoint(t) /\ CoveredBy(s) \cap CoveredBy(t) = {}
  <2>1. Disjoint(s) BY <1>1, <1>5, <1>10 DEF Disjoint
  <2>2. Disjoint(t)
    <3> SUFFICES ASSUME NEW i \in DOMAIN t, NEW j \in DOMAIN t, i # j PROVE ExtSpan(t[i]) \cap ExtSpan(t[j]) = {}
      BY DEF Disjoint
    <3>1. n + i # n + j BY <1>1
    <3> QED BY <3>1, <1>1, <1>6, <1>10 DEF Disjoint
  <2>3. ASSUME NEW b, b \in CoveredBy(s), b \in CoveredBy(t) PROVE FALSE
    <3>1. PICK i \in DOMAIN s : b \in ExtSpan(s[i]) BY <2>3, CoverAt
    <3>2. PICK j \in DOMAIN t : b \in ExtSpan(t[j]) BY <2>3, CoverAt
    <3>3. i # n + j BY <1>1
    <3> QED BY <3>1, <3>2, <3>3, <1>1, <1>5, <1>6, <1>10 DEF Disjoint
  <2> QED BY <2>1, <2>2, <2>3
<1> QED BY <1>2, <1>8, <1>9, <1>10 DEF c, n, l

-----------------------------------------------------------------------------
(* Loops over lists: when the state before a loop is in S[0] and turn i    *)
(* leads from S[i-1] to S[i], the state after n turns is in S[n].          *)

\* BlockList, extent by extent.
LEMMA LoopBlocks ==
  ASSUME NEW s, NEW S, Len(s) \in Nat, <<>> \in S[0],
         \A i \in 1 .. Len(s) : \A m \in S[i - 1] : (m \o ExtBlocks(s[i])) \in S[i]
  PROVE  BlockList(s) \in S[Len(s)]
<1> DEFINE n == Len(s)
           b == <<>>
           T(m, i) == m \o ExtBlocks(s[i])
           at == CHOOSE f : f = [i \in 0 .. Len(s) |-> IF i = 0 THEN b ELSE T(f[i - 1], i)]
           G == [i \in 1 .. n |-> [m \in UNION {S[k - 1] : k \in 1 .. n} |-> T(m, i)]]
<1>1. BlockList(s) = at[n] BY DEF BlockList
<1>2. \A i \in 1 .. n : \A m \in S[i - 1] : T(m, i) \in S[i] OBVIOUS
<1>3. n \in Nat /\ b \in S[0] OBVIOUS
<1>a. at = CHOOSE f : f = [i \in 0 .. n |-> IF i = 0 THEN b ELSE T(f[i - 1], i)] OBVIOUS
<1> HIDE DEF T, n, b, at
<1>4. \A i \in 1 .. n : \A m \in S[i - 1] : G[i][m] = T(m, i) OBVIOUS
<1>5. PICK h : Runs(h, n, b, G, S)
  <2> HIDE DEF G
  <2> QED BY <1>2, <1>3, <1>4, Iter DEF Closed
<1> HIDE DEF G
<1>6. h = [i \in 0 .. n |-> IF i = 0 THEN b ELSE T(h[i - 1], i)] BY <1>4, <1>5 DEF Runs
<1>7. at = [i \in 0 .. n |-> IF i = 0 THEN b ELSE T(at[i - 1], i)] BY <1>6, <1>a
<1>8. at[0] = b /\ \A i \in 1 .. n : at[i] = T(at[i - 1], i) BY <1>3, <1>7, Turns
<1>9. \A i \in 0 .. n : at[i] \in S[i] BY <1>2, <1>3, <1>8, Ind
<1> QED BY <1>1, <1>3, <1>9, Turns DEF n

\* walk_old, extent by extent.
LEMMA LoopWalk ==
  ASSUME NEW s, NEW lo, NEW hi, NEW S, Len(s) \in Nat, <<>> \in S[0],
         \A i \in 1 .. Len(s) : \A m \in S[i - 1] : (m \o RunOf(s[i], LenTo(s, i - 1), lo, hi)) \in S[i]
  PROVE  walk_old(s, lo, hi) \in S[Len(s)]
<1> DEFINE n == Len(s)
           b == <<>>
           T(m, i) == m \o RunOf(s[i], LenTo(s, i - 1), lo, hi)
           at == CHOOSE f : f = [i \in 0 .. Len(s) |-> IF i = 0 THEN b ELSE T(f[i - 1], i)]
           G == [i \in 1 .. n |-> [m \in UNION {S[k - 1] : k \in 1 .. n} |-> T(m, i)]]
<1>1. walk_old(s, lo, hi) = at[n] BY DEF walk_old
<1>2. \A i \in 1 .. n : \A m \in S[i - 1] : T(m, i) \in S[i] OBVIOUS
<1>3. n \in Nat /\ b \in S[0] OBVIOUS
<1>a. at = CHOOSE f : f = [i \in 0 .. n |-> IF i = 0 THEN b ELSE T(f[i - 1], i)] OBVIOUS
<1> HIDE DEF T, n, b, at
<1>4. \A i \in 1 .. n : \A m \in S[i - 1] : G[i][m] = T(m, i) OBVIOUS
<1>5. PICK h : Runs(h, n, b, G, S)
  <2> HIDE DEF G
  <2> QED BY <1>2, <1>3, <1>4, Iter DEF Closed
<1> HIDE DEF G
<1>6. h = [i \in 0 .. n |-> IF i = 0 THEN b ELSE T(h[i - 1], i)] BY <1>4, <1>5 DEF Runs
<1>7. at = [i \in 0 .. n |-> IF i = 0 THEN b ELSE T(at[i - 1], i)] BY <1>6, <1>a
<1>8. at[0] = b /\ \A i \in 1 .. n : at[i] = T(at[i - 1], i) BY <1>3, <1>7, Turns
<1>9. \A i \in 0 .. n : at[i] \in S[i] BY <1>2, <1>3, <1>8, Ind
<1> QED BY <1>1, <1>3, <1>9, Turns DEF n

\* StageAll, run by run.
LEMMA LoopStage ==
  ASSUME NEW s, NEW S, Len(s) \in Nat, <<>> \in S[0],
         \A i \in 1 .. Len(s) : \A m \in S[i - 1] : (stage_add(m, s[i])) \in S[i]
  PROVE  StageAll(s) \in S[Len(s)]
<1> DEFINE n == Len(s)
           b == <<>>
           T(m, i) == stage_add(m, s[i])
           at == CHOOSE f : f = [i \in 0 .. Len(s) |-> IF i = 0 THEN b ELSE T(f[i - 1], i)]
           G == [i \in 1 .. n |-> [m \in UNION {S[k - 1] : k \in 1 .. n} |-> T(m, i)]]
<1>1. StageAll(s) = at[n] BY DEF StageAll
<1>2. \A i \in 1 .. n : \A m \in S[i - 1] : T(m, i) \in S[i] OBVIOUS
<1>3. n \in Nat /\ b \in S[0] OBVIOUS
<1>a. at = CHOOSE f : f = [i \in 0 .. n |-> IF i = 0 THEN b ELSE T(f[i - 1], i)] OBVIOUS
<1> HIDE DEF T, n, b, at
<1>4. \A i \in 1 .. n : \A m \in S[i - 1] : G[i][m] = T(m, i) OBVIOUS
<1>5. PICK h : Runs(h, n, b, G, S)
  <2> HIDE DEF G
  <2> QED BY <1>2, <1>3, <1>4, Iter DEF Closed
<1> HIDE DEF G
<1>6. h = [i \in 0 .. n |-> IF i = 0 THEN b ELSE T(h[i - 1], i)] BY <1>4, <1>5 DEF Runs
<1>7. at = [i \in 0 .. n |-> IF i = 0 THEN b ELSE T(at[i - 1], i)] BY <1>6, <1>a
<1>8. at[0] = b /\ \A i \in 1 .. n : at[i] = T(at[i - 1], i) BY <1>3, <1>7, Turns
<1>9. \A i \in 0 .. n : at[i] \in S[i] BY <1>2, <1>3, <1>8, Ind
<1> QED BY <1>1, <1>3, <1>9, Turns DEF n

\* The lengths of the prefixes of a list.
LEMMA LenSteps ==
  ASSUME NEW s \in Seq(Ext)
  PROVE  /\ LenTo(s, 0) = 0
         /\ \A i \in 1 .. Len(s) : LenTo(s, i) = LenTo(s, i - 1) + s[i].len
         /\ \A i \in 0 .. Len(s) : LenTo(s, i) \in Nat
<1> DEFINE n == Len(s)
           b == 0
           T(m, i) == m + s[i].len
           S == [i \in 0 .. Len(s) |-> Nat]
           at == CHOOSE f : f = [i \in 0 .. Len(s) |-> IF i = 0 THEN b ELSE T(f[i - 1], i)]
           G == [i \in 1 .. n |-> [m \in UNION {S[k - 1] : k \in 1 .. n} |-> T(m, i)]]
<1>1. \A i : LenTo(s, i) = at[i] BY DEF LenTo
<1>3. n \in Nat /\ b \in S[0] BY SeqDom
<1>2. \A i \in 1 .. n : \A m \in S[i - 1] : T(m, i) \in S[i]
  <2> SUFFICES ASSUME NEW i \in 1 .. n, NEW m \in S[i - 1] PROVE T(m, i) \in S[i] OBVIOUS
  <2>1. s[i] \in Ext BY SeqDom
  <2>2. s[i].len \in Nat BY <2>1 DEF Ext
  <2>3. i - 1 \in 0 .. n /\ i \in 0 .. n BY <1>3
  <2>4. m \in Nat BY <2>3
  <2> QED BY <2>2, <2>3, <2>4
<1>b. \A i \in 0 .. n : S[i] = Nat OBVIOUS
<1>a. at = CHOOSE f : f = [i \in 0 .. n |-> IF i = 0 THEN b ELSE T(f[i - 1], i)] OBVIOUS
<1> HIDE DEF T, n, b, S, at
<1>4. \A i \in 1 .. n : \A m \in S[i - 1] : G[i][m] = T(m, i) OBVIOUS
<1>5. PICK h : Runs(h, n, b, G, S)
  <2> HIDE DEF G
  <2> QED BY <1>2, <1>3, <1>4, Iter DEF Closed
<1> HIDE DEF G
<1>6. h = [i \in 0 .. n |-> IF i = 0 THEN b ELSE T(h[i - 1], i)] BY <1>4, <1>5 DEF Runs
<1>7. at = [i \in 0 .. n |-> IF i = 0 THEN b ELSE T(at[i - 1], i)] BY <1>6, <1>a
<1>8. at[0] = b /\ \A i \in 1 .. n : at[i] = T(at[i - 1], i) BY <1>3, <1>7, Turns
<1>9. \A i \in 0 .. n : at[i] \in S[i] BY <1>2, <1>3, <1>8, Ind
<1> QED BY <1>1, <1>8, <1>9, <1>b DEF n, b, T

\* The length of a prefix is at most the length of the list.
LEMMA LenMono ==
  ASSUME NEW s \in Seq(Ext)
  PROVE  \A i \in 0 .. Len(s) : LenTo(s, i) <= LenSum(s)
<1> DEFINE n == Len(s)
           L == LenTo(s, n)
           T == {i \in 0 .. n : LenTo(s, n - i) > L}
<1>1. n \in Nat BY SeqDom
<1>2. \A i \in 0 .. n : LenTo(s, i) \in Nat BY LenSteps
<1>3. L \in Nat BY <1>1, <1>2
<1>4. T = {}
  <2> SUFFICES ASSUME T # {} PROVE FALSE OBVIOUS
  <2>1. T \subseteq Nat OBVIOUS
  <2>2. PICK x \in T : \A y \in T : x <= y
    <3> HIDE DEF T
    <3> QED BY <2>1, Least
  <2>3. x \in 0 .. n /\ LenTo(s, n - x) > L BY <2>2
  <2>4. x # 0
    <3>1. n - 0 = n BY <1>1
    <3> QED BY <2>3, <3>1, <1>3
  <2>5. x - 1 \in 0 .. n /\ ~(x <= x - 1) /\ n - (x - 1) \in 1 .. n /\ (n - (x - 1)) - 1 = n - x /\ n - x \in 0 .. n
    BY <1>1, <2>3, <2>4
  <2>6. ~(LenTo(s, n - (x - 1)) > L) BY <2>2, <2>5
  <2>7. LenTo(s, n - (x - 1)) = LenTo(s, n - x) + s[n - (x - 1)].len BY <2>5, LenSteps
  <2>8. s[n - (x - 1)].len \in Nat
    <3>1. s[n - (x - 1)] \in Ext BY <2>5, SeqDom
    <3> QED BY <3>1 DEF Ext
  <2>9. LenTo(s, n - x) \in Nat BY <2>5, <1>2
  <2> DEFINE u == LenTo(s, n - x)
             v == LenTo(s, n - (x - 1))
             l == s[n - (x - 1)].len
  <2>10. u > L /\ ~(v > L) /\ v = u + l /\ u \in Nat /\ l \in Nat BY <2>3, <2>6, <2>7, <2>8, <2>9
  <2> HIDE DEF L, T, u, v, l
  <2> QED BY <2>10, <1>3
<1>5. ASSUME NEW i \in 0 .. n PROVE LenTo(s, i) <= L
  <2>1. n - i \in 0 .. n /\ n - (n - i) = i BY <1>1
  <2>2. ~(LenTo(s, n - (n - i)) > L) BY <1>4, <2>1
  <2> QED BY <2>1, <2>2, <1>2, <1>3
<1> QED BY <1>5 DEF LenSum

\* The empty list has length 0.
LEMMA LenEmpty == LenSum(<<>>) = 0
BY EmptyExts, LenSteps DEF LenSum

\* A list of one extent.
LEMMA OneList ==
  ASSUME NEW e \in Ext
  PROVE  <<e>> \in Seq(Ext) /\ Len(<<e>>) = 1 /\ CoveredBy(<<e>>) = ExtSpan(e) /\ Disjoint(<<e>>)
<1>1. <<e>> \in Seq(Ext) /\ Len(<<e>>) = 1 /\ DOMAIN <<e>> = {1} /\ <<e>>[1] = e OBVIOUS
<1> QED BY <1>1 DEF CoveredBy, Disjoint

\* An extent more.
LEMMA AppendList ==
  ASSUME NEW s \in Seq(Ext), NEW e \in Ext
  PROVE  /\ Append(s, e) \in Seq(Ext) /\ Len(Append(s, e)) = Len(s) + 1
         /\ CoveredBy(Append(s, e)) = CoveredBy(s) \cup ExtSpan(e)
         /\ (Disjoint(s) /\ CoveredBy(s) \cap ExtSpan(e) = {}) => Disjoint(Append(s, e))
         /\ LenSum(Append(s, e)) = LenSum(s) + e.len
<1> DEFINE c == Append(s, e)
           n == Len(s)
<1>1. n \in Nat /\ DOMAIN s = 1 .. n BY SeqDom
<1>2. c \in Seq(Ext) /\ Len(c) = n + 1 /\ c[n + 1] = e /\ \A i \in 1 .. n : c[i] = s[i] OBVIOUS
<1> HIDE DEF c
<1>5. \A i \in 1 .. n : i \in 1 .. (n + 1) /\ i # n + 1 BY <1>1
<1>6. n + 1 \in 1 .. (n + 1) BY <1>1
<1> HIDE DEF n
<1>7. CoveredBy(c) = CoveredBy(s) \cup ExtSpan(e) /\ ((Disjoint(s) /\ CoveredBy(s) \cap ExtSpan(e) = {}) => Disjoint(c))
  <2> DEFINE t == <<e>>
  <2>1. t \in Seq(Ext) /\ CoveredBy(t) = ExtSpan(e) /\ Disjoint(t) BY OneList
  <2>2. c = s \o t BY AppendProperties DEF c
  <2> HIDE DEF t
  <2> QED BY <2>1, <2>2, ConcatList
<1>9. LenSum(c) = LenSum(s) + e.len
  <2> DEFINE f == [i \in 0 .. n |-> LenTo(c, i)]
             S == [i \in 0 .. n |-> {LenTo(s, i)}]
  <2>1. LenTo(c, 0) = 0 /\ LenTo(s, 0) = 0 BY <1>2, LenSteps
  <2>2. \A i \in 1 .. (n + 1) : LenTo(c, i) = LenTo(c, i - 1) + c[i].len BY <1>2, LenSteps
  <2>3. \A i \in 1 .. n : LenTo(s, i) = LenTo(s, i - 1) + s[i].len BY LenSteps DEF n
  <2>4. \A i \in 1 .. n : i \in 0 .. n /\ i - 1 \in 0 .. n BY <1>1
  <2>5. \A i \in 1 .. n : f[i - 1] \in S[i - 1] => f[i] \in S[i]
    BY <1>2, <1>5, <2>2, <2>3, <2>4
  <2>6. f[0] \in S[0] /\ 0 \in 0 .. n /\ n \in 0 .. n BY <1>1, <2>1
  <2>7. \A i \in 0 .. n : f[i] \in S[i]
    <3> HIDE DEF f, S
    <3> QED BY <1>1, <2>5, <2>6, Ind
  <2>8. LenTo(c, n) = LenTo(s, n) BY <2>6, <2>7
  <2>9. LenTo(c, n + 1) = LenTo(c, (n + 1) - 1) + e.len BY <2>2, <1>2, <1>6
  <2>10. (n + 1) - 1 = n BY <1>1
  <2> QED BY <2>8, <2>9, <2>10, <1>2 DEF LenSum, n
<1> QED BY <1>2, <1>7, <1>9 DEF c, n

-----------------------------------------------------------------------------
(* Lists cut and walked.                                                   *)

\* The length and the elements of a sub-list.
LEMMA SubList ==
  ASSUME NEW S, NEW s \in Seq(S), NEW k \in 1 .. (Len(s) + 1), NEW n \in Nat, k <= n + 1, n <= Len(s)
  PROVE  /\ SubSeq(s, k, n) \in Seq(S) /\ Len(SubSeq(s, k, n)) = n - k + 1
         /\ \A j \in 1 .. (n - k + 1) : SubSeq(s, k, n)[j] = s[k + j - 1]
<1>1. Len(s) \in Nat /\ \A i \in 1 .. Len(s) : s[i] \in S BY SeqDom
<1>2. k \in Int /\ n \in Int /\ \A i \in k .. n : s[i] \in S BY <1>1
<1>3. /\ SubSeq(s, k, n) \in Seq(S) /\ Len(SubSeq(s, k, n)) = (IF k <= n THEN n - k + 1 ELSE 0)
      /\ \A j \in 1 .. (n - k + 1) : SubSeq(s, k, n)[j] = s[k + j - 1]
  BY <1>2, SubSeqProperties
<1>4. (IF k <= n THEN n - k + 1 ELSE 0) = n - k + 1 BY <1>1
<1> QED BY <1>3, <1>4

\* The rest of a list, from its entry i on.
LEMMA RestList ==
  ASSUME NEW s \in Seq(Ext), NEW i \in 1 .. Len(s)
  PROVE  /\ SubSeq(s, i, Len(s)) \in Seq(Ext) /\ SubSeq(s, i + 1, Len(s)) \in Seq(Ext)
         /\ CoveredBy(SubSeq(s, i, Len(s))) = ExtSpan(s[i]) \cup CoveredBy(SubSeq(s, i + 1, Len(s)))
         /\ Disjoint(SubSeq(s, i, Len(s))) =>
              Disjoint(SubSeq(s, i + 1, Len(s))) /\ ExtSpan(s[i]) \cap CoveredBy(SubSeq(s, i + 1, Len(s))) = {}
<1> DEFINE n == Len(s)
           a == SubSeq(s, i, n)
           c == SubSeq(s, i + 1, n)
           l == n - i
<1>1. n \in Nat /\ DOMAIN s = 1 .. n /\ l \in Nat BY SeqDom
<1>2. a \in Seq(Ext) /\ Len(a) = l + 1 /\ \A j \in 1 .. (l + 1) : a[j] = s[i + j - 1]
  <2>1. a \in Seq(Ext) /\ Len(a) = n - i + 1 /\ \A j \in 1 .. (n - i + 1) : a[j] = s[i + j - 1]
    BY <1>1, SubSeqProperties
  <2> QED BY <1>1, <2>1
<1>3. c \in Seq(Ext) /\ Len(c) = l /\ \A j \in 1 .. l : c[j] = s[i + j]
  <2> DEFINE k == i + 1
  <2>0. k \in 1 .. (n + 1) /\ n - k + 1 = l /\ \A j \in 1 .. l : k + j - 1 = i + j BY <1>1
  <2> HIDE DEF k
  <2>1. /\ SubSeq(s, k, n) \in Seq(Ext) /\ Len(SubSeq(s, k, n)) = n - k + 1
        /\ \A j \in 1 .. (n - k + 1) : SubSeq(s, k, n)[j] = s[k + j - 1]
    BY <1>1, <2>0, SubList
  <2>2. SubSeq(s, k, n) = c BY DEF k
  <2> HIDE DEF c, l, n
  <2> QED BY <2>0, <2>1, <2>2
<1> DEFINE e == <<s[i]>>
<1>4. e \in Seq(Ext) /\ Len(e) = 1 /\ e[1] = s[i] /\ CoveredBy(e) = ExtSpan(s[i]) BY SeqDom, OneList
<1>5. e \o c \in Seq(Ext) /\ Len(e \o c) = 1 + l /\ \A j \in 1 .. (1 + l) : (e \o c)[j] = IF j <= 1 THEN e[j] ELSE c[j - 1]
  <2> HIDE DEF a, c, e, l
  <2>1. e \o c \in Seq(Ext) /\ Len(e \o c) = Len(e) + Len(c)
        /\ \A j \in 1 .. (Len(e) + Len(c)) : (e \o c)[j] = IF j <= Len(e) THEN e[j] ELSE c[j - Len(e)]
    BY <1>3, <1>4, ConcatProperties
  <2> QED BY <1>3, <1>4, <2>1
<1> HIDE DEF a, c, e
<1>6. ASSUME NEW j \in 1 .. (l + 1) PROVE (e \o c)[j] = a[j]
  <2>1. CASE j = 1 BY <2>1, <1>1, <1>2, <1>4, <1>5
  <2>2. CASE j # 1
    <3>1. j - 1 \in 1 .. l /\ ~(j <= 1) /\ i + (j - 1) = i + j - 1 BY <1>1, <2>2
    <3>2. (e \o c)[j] = c[j - 1] BY <3>1, <1>1, <1>5
    <3>3. c[j - 1] = s[i + (j - 1)] BY <3>1, <1>3
    <3> QED BY <3>1, <3>2, <3>3, <1>2
  <2> QED BY <2>1, <2>2
<1>7. a = e \o c
  <2>1. Len(a) = Len(e \o c) BY <1>1, <1>2, <1>5
  <2> QED BY <2>1, <1>2, <1>5, <1>6, SeqEqual
<1>8. CoveredBy(a) = CoveredBy(e) \cup CoveredBy(c) /\ (Disjoint(a) => Disjoint(c) /\ CoveredBy(e) \cap CoveredBy(c) = {})
  BY <1>3, <1>4, <1>7, ConcatList
<1> QED BY <1>2, <1>3, <1>4, <1>8 DEF a, c, n

\* The whole list, and the rest after its end.
LEMMA WholeList ==
  ASSUME NEW S, NEW s \in Seq(S)
  PROVE  SubSeq(s, 1, Len(s)) = s /\ SubSeq(s, Len(s) + 1, Len(s)) = <<>>
<1>1. Len(s) \in Nat BY SeqDom
<1>2. SubSeq(s, 1, Len(s)) = s
  <2>1. SubSeq(s, 1, Len(s)) \in Seq(S) /\ Len(SubSeq(s, 1, Len(s))) = Len(s)
        /\ \A j \in 1 .. Len(s) : SubSeq(s, 1, Len(s))[j] = s[j]
    BY <1>1
  <2> QED BY <2>1, SeqEqual
<1>3. SubSeq(s, Len(s) + 1, Len(s)) = <<>> BY <1>1
<1> QED BY <1>2, <1>3

\* The blocks of a file: as many as its extents have, all of them in these.
LEMMA BlockFacts ==
  ASSUME NEW s \in Seq(Ext)
  PROVE  BlockList(s) \in Seq(CoveredBy(s)) /\ Len(BlockList(s)) = LenSum(s)
<1> DEFINE n == Len(s)
           C == CoveredBy(s)
           S == [i \in 0 .. n |-> {w \in Seq(C) : Len(w) = LenTo(s, i)}]
<1>1. n \in Nat /\ DOMAIN s = 1 .. n BY SeqDom
<1>2. <<>> \in S[0]
  <2>1. <<>> \in Seq(C) /\ Len(<<>>) = LenTo(s, 0) /\ 0 \in 0 .. n BY <1>1, LenSteps
  <2> QED BY <2>1
<1>3. ASSUME NEW i \in 1 .. n, NEW m \in S[i - 1] PROVE m \o ExtBlocks(s[i]) \in S[i]
  <2> DEFINE x == ExtBlocks(s[i])
  <2>1. i \in 0 .. n /\ i - 1 \in 0 .. n BY <1>1
  <2>2. m \in Seq(C) /\ Len(m) = LenTo(s, i - 1) BY <2>1
  <2>3. s[i] \in Ext BY SeqDom
  <2>4. ExtSpan(s[i]) \subseteq C BY <1>1, CoverAt
  <2>5. x \in Seq(C) /\ Len(x) = s[i].len
    <3> DEFINE a == s[i].start
               l == s[i].len
    <3>1. a \in Nat /\ l \in Nat BY <2>3 DEF Ext
    <3>2. x = [j \in 1 .. l |-> a + j - 1] BY DEF ExtBlocks
    <3>3. \A j \in 1 .. l : a + j - 1 \in ExtSpan(s[i])
      <4>1. ExtSpan(s[i]) = a .. (a + l - 1) BY DEF ExtSpan
      <4> HIDE DEF a, l
      <4> QED BY <3>1, <4>1
    <3> HIDE DEF a, l, C, x
    <3>4. x \in [1 .. l -> C] BY <3>2, <3>3, <2>4
    <3>5. x \in Seq(C) /\ Len(x) = l BY <3>1, <3>4
    <3> QED BY <3>5 DEF l
  <2>6. LenTo(s, i) = LenTo(s, i - 1) + s[i].len BY LenSteps
  <2> HIDE DEF x, C
  <2>7. m \o x \in Seq(C) /\ Len(m \o x) = Len(m) + Len(x) BY <2>2, <2>5, ConcatProperties
  <2>8. Len(m \o x) = LenTo(s, i) BY <2>2, <2>5, <2>6, <2>7
  <2> QED BY <2>1, <2>7, <2>8 DEF x
<1>4. BlockList(s) \in S[n]
  <2> HIDE DEF S
  <2> QED BY <1>1, <1>2, <1>3, LoopBlocks
<1>5. n \in 0 .. n BY <1>1
<1> QED BY <1>4, <1>5 DEF LenSum

\* The part of entry k of a list that holds the logical blocks lo .. hi-1, and
\* those parts of its first n entries.
CutOf(e, at, lo, hi) == {b \in ExtSpan(e) : lo <= at + (b - e.start) /\ at + (b - e.start) < hi}
CutTo(s, n, lo, hi) == UNION {CutOf(s[k], LenTo(s, k - 1), lo, hi) : k \in 1 .. n}

\* The part of an extent in a window is at most one extent, and covers the window's
\* blocks of it.
LEMMA RunFacts ==
  ASSUME NEW e \in Ext, NEW at \in Nat, NEW lo \in Nat, NEW hi \in Nat
  PROVE  /\ RunOf(e, at, lo, hi) \in Seq(Ext) /\ Len(RunOf(e, at, lo, hi)) <= 1
         /\ CoveredBy(RunOf(e, at, lo, hi)) = CutOf(e, at, lo, hi) /\ Disjoint(RunOf(e, at, lo, hi))
<1> DEFINE a == IF lo > at THEN lo ELSE at
           z == IF hi < at + e.len THEN hi ELSE at + e.len
           x == e.start
           l == e.len
           r == [start |-> x + (a - at), len |-> z - a]
<1>1. x \in Nat /\ l \in Nat BY DEF Ext
<1>2. RunOf(e, at, lo, hi) = IF a < z THEN <<r>> ELSE <<>> BY DEF RunOf
<1>3. ExtSpan(e) = x .. (x + l - 1) BY DEF ExtSpan
<1>4. a \in Nat /\ z \in Nat /\ a >= at /\ a >= lo /\ (a = lo \/ a = at) /\ z <= hi /\ z <= at + l /\ (z = hi \/ z = at + l)
  <2> HIDE DEF l
  <2> QED BY <1>1 DEF l
<1>5. CutOf(e, at, lo, hi) = {b \in x .. (x + l - 1) : lo <= at + (b - x) /\ at + (b - x) < hi}
  BY <1>3 DEF CutOf
<1> HIDE DEF a, z, x, l
<1>6. CASE a < z
  <2>1. r.start = x + (a - at) /\ r.len = z - a OBVIOUS
  <2>2. x + (a - at) \in Nat /\ z - a \in Nat \ {0} BY <1>1, <1>4, <1>6
  <2>3. r \in Ext BY <2>2 DEF Ext
  <2>4. ExtSpan(r) = (x + (a - at)) .. (x + (a - at) + (z - a) - 1) BY <2>1 DEF ExtSpan
  <2>5. \A b : b \in (x + (a - at)) .. (x + (a - at) + (z - a) - 1) <=> (b \in x .. (x + l - 1) /\ lo <= at + (b - x) /\ at + (b - x) < hi)
    BY <1>1, <1>4, <1>6
  <2>6. ExtSpan(r) = CutOf(e, at, lo, hi) BY <1>5, <2>4, <2>5
  <2>7. RunOf(e, at, lo, hi) = <<r>> BY <1>2, <1>6
  <2> HIDE DEF r
  <2>8. <<r>> \in Seq(Ext) /\ Len(<<r>>) = 1 /\ CoveredBy(<<r>>) = ExtSpan(r) /\ Disjoint(<<r>>) BY <2>3, OneList
  <2> QED BY <2>6, <2>7, <2>8
<1>7. CASE ~(a < z)
  <2>1. \A b \in x .. (x + l - 1) : ~(lo <= at + (b - x) /\ at + (b - x) < hi) BY <1>1, <1>4, <1>7
  <2>2. CutOf(e, at, lo, hi) = {} BY <1>5, <2>1
  <2>3. RunOf(e, at, lo, hi) = <<>> BY <1>2, <1>7
  <2> QED BY <2>2, <2>3, EmptyExts
<1> QED BY <1>6, <1>7

\* One more extent adds its own part in the window to the blocks cut so far.
LEMMA CutStep ==
  ASSUME NEW s, NEW i \in Nat, i > 0, NEW lo, NEW hi
  PROVE  CutTo(s, i, lo, hi) = CutTo(s, i - 1, lo, hi) \cup CutOf(s[i], LenTo(s, i - 1), lo, hi)
<1>1. 1 .. i = (1 .. (i - 1)) \cup {i} OBVIOUS
<1> QED BY <1>1 DEF CutTo

\* walk_old gives the runs of its range, one at most for every extent.
LEMMA WalkFacts ==
  ASSUME NEW s \in Seq(Ext), Disjoint(s), NEW lo \in Nat, NEW hi \in Nat
  PROVE  /\ walk_old(s, lo, hi) \in Seq(Ext) /\ Len(walk_old(s, lo, hi)) <= Len(s)
         /\ CoveredBy(walk_old(s, lo, hi)) = CutTo(s, Len(s), lo, hi) /\ Disjoint(walk_old(s, lo, hi))
<1> DEFINE n == Len(s)
           S == [i \in 0 .. n |-> {w \in Seq(Ext) : Len(w) <= i /\ CoveredBy(w) = CutTo(s, i, lo, hi) /\ Disjoint(w)}]
<1>1. n \in Nat /\ DOMAIN s = 1 .. n BY SeqDom
<1>2. <<>> \in S[0]
  <2>1. 0 \in 0 .. n /\ 1 .. 0 = {} BY <1>1
  <2>2. CutTo(s, 0, lo, hi) = {} BY <2>1 DEF CutTo
  <2>3. <<>> \in Seq(Ext) /\ Len(<<>>) <= 0 /\ CoveredBy(<<>>) = CutTo(s, 0, lo, hi) /\ Disjoint(<<>>)
    <3>1. Len(<<>>) <= 0 OBVIOUS
    <3> QED BY <2>2, <3>1, EmptyExts, Zenon
  <2> DEFINE z == <<>>
  <2>4. z \in Seq(Ext) /\ Len(z) <= 0 /\ CoveredBy(z) = CutTo(s, 0, lo, hi) /\ Disjoint(z) BY <2>3
  <2> HIDE DEF z
  <2>5. z \in S[0] BY <2>1, <2>4
  <2> QED BY <2>5 DEF z
<1>3. ASSUME NEW i \in 1 .. n, NEW m \in S[i - 1] PROVE m \o RunOf(s[i], LenTo(s, i - 1), lo, hi) \in S[i]
  <2> DEFINE at == LenTo(s, i - 1)
             x == RunOf(s[i], at, lo, hi)
             u == i - 1
  <2>1. i \in 0 .. n /\ u \in 0 .. n /\ u \in Nat /\ i = u + 1 /\ i \in Nat /\ i > 0 BY <1>1
  <2>2. m \in Seq(Ext) /\ Len(m) <= u /\ CoveredBy(m) = CutTo(s, u, lo, hi) /\ Disjoint(m) BY <2>1
  <2>3. s[i] \in Ext /\ at \in Nat BY <2>1, SeqDom, LenSteps
  <2> HIDE DEF at
  <2>4. x \in Seq(Ext) /\ Len(x) <= 1 /\ CoveredBy(x) = CutOf(s[i], at, lo, hi) /\ Disjoint(x) BY <2>3, RunFacts
  <2>5. CutTo(s, i, lo, hi) = CutTo(s, u, lo, hi) \cup CutOf(s[i], at, lo, hi) BY <2>1, CutStep DEF at
  <2>6. CoveredBy(m) \cap CoveredBy(x) = {}
    <3> SUFFICES ASSUME NEW b, b \in CoveredBy(m), b \in CoveredBy(x) PROVE FALSE OBVIOUS
    <3>1. b \in ExtSpan(s[i]) BY <2>4 DEF CutOf
    <3>2. PICK k \in 1 .. u : b \in CutOf(s[k], LenTo(s, k - 1), lo, hi) BY <2>2 DEF CutTo
    <3>3. b \in ExtSpan(s[k]) BY <3>2 DEF CutOf
    <3>4. k \in DOMAIN s /\ i \in DOMAIN s /\ k # i BY <1>1, <2>1, <3>2
    <3> QED BY <3>1, <3>3, <3>4 DEF Disjoint
  <2> HIDE DEF x
  <2>7. /\ m \o x \in Seq(Ext) /\ Len(m \o x) = Len(m) + Len(x)
        /\ CoveredBy(m \o x) = CoveredBy(m) \cup CoveredBy(x) /\ Disjoint(m \o x)
    BY <2>2, <2>4, <2>6, ConcatList
  <2>8. Len(m \o x) <= i
    <3>1. Len(m) \in Nat /\ Len(x) \in Nat BY <2>2, <2>4, SeqDom
    <3> QED BY <3>1, <2>1, <2>2, <2>4, <2>7
  <2>9. CoveredBy(m \o x) = CutTo(s, i, lo, hi) BY <2>2, <2>4, <2>5, <2>7
  <2> QED BY <2>1, <2>7, <2>8, <2>9 DEF x, at
<1>4. walk_old(s, lo, hi) \in S[n]
  <2> HIDE DEF S
  <2> QED BY <1>1, <1>2, <1>3, LoopWalk
<1>5. n \in 0 .. n BY <1>1
<1> QED BY <1>4, <1>5

\* The ranges before, in and after a write partition the file's blocks.
LEMMA CutParts ==
  ASSUME NEW s \in Seq(Ext), Disjoint(s), NEW lo \in Nat, NEW mid \in Nat, NEW hi \in Nat, lo <= mid, mid <= hi
  PROVE  /\ CutTo(s, Len(s), lo, hi) = CutTo(s, Len(s), lo, mid) \cup CutTo(s, Len(s), mid, hi)
         /\ CutTo(s, Len(s), lo, mid) \cap CutTo(s, Len(s), mid, hi) = {}
         /\ CutTo(s, Len(s), 0, LenSum(s)) = CoveredBy(s)
         /\ CutTo(s, Len(s), hi, lo) = {}
         /\ CutTo(s, Len(s), lo, hi) \subseteq CoveredBy(s)
<1> DEFINE n == Len(s)
           P(k, b) == LenTo(s, k - 1) + (b - s[k].start)
<1>1. n \in Nat /\ DOMAIN s = 1 .. n BY SeqDom
<1>2. ASSUME NEW k \in 1 .. n, NEW b \in ExtSpan(s[k]) PROVE P(k, b) \in Nat /\ P(k, b) < LenSum(s)
  <2> DEFINE x == s[k].start
             l == s[k].len
             at == LenTo(s, k - 1)
  <2>1. s[k] \in Ext BY SeqDom
  <2>2. x \in Nat /\ l \in Nat BY <2>1 DEF Ext
  <2>3. k - 1 \in 0 .. n /\ k \in 0 .. n BY <1>1
  <2>4. at \in Nat /\ LenTo(s, k) = at + l BY <2>3, LenSteps
  <2>5. LenTo(s, k) <= LenSum(s) /\ LenSum(s) \in Nat
    <3>1. n \in 0 .. n BY <1>1
    <3> QED BY <2>3, <3>1, LenMono, LenSteps DEF LenSum
  <2>6. b \in x .. (x + l - 1) BY DEF ExtSpan
  <2> HIDE DEF x, l, at
  <2>7. at + (b - x) \in Nat /\ at + (b - x) < LenSum(s) BY <2>2, <2>4, <2>5, <2>6
  <2> QED BY <2>7 DEF x, at
<1>3. \A lo_, hi_ : \A b : b \in CutTo(s, n, lo_, hi_) <=> \E k \in 1 .. n : b \in ExtSpan(s[k]) /\ lo_ <= P(k, b) /\ P(k, b) < hi_
  BY DEF CutTo, CutOf
<1>4. \A k, j \in 1 .. n : \A b : b \in ExtSpan(s[k]) /\ b \in ExtSpan(s[j]) => k = j BY <1>1 DEF Disjoint
<1> HIDE DEF P, n
<1>5. \A b : b \in CoveredBy(s) <=> \E k \in 1 .. n : b \in ExtSpan(s[k]) BY <1>1, CoverAt
<1>6. CutTo(s, n, lo, hi) = CutTo(s, n, lo, mid) \cup CutTo(s, n, mid, hi)
  <2>1. ASSUME NEW b \in CutTo(s, n, lo, hi) PROVE b \in CutTo(s, n, lo, mid) \cup CutTo(s, n, mid, hi)
    <3>1. PICK k \in 1 .. n : b \in ExtSpan(s[k]) /\ lo <= P(k, b) /\ P(k, b) < hi BY <1>3
    <3>2. P(k, b) < mid \/ mid <= P(k, b) BY <1>2, <3>1
    <3> QED BY <3>1, <3>2, <1>3
  <2>2. ASSUME NEW b \in CutTo(s, n, lo, mid) PROVE b \in CutTo(s, n, lo, hi)
    <3>1. PICK k \in 1 .. n : b \in ExtSpan(s[k]) /\ lo <= P(k, b) /\ P(k, b) < mid BY <1>3
    <3>2. P(k, b) < hi BY <1>2, <3>1
    <3> QED BY <3>1, <3>2, <1>3
  <2>3. ASSUME NEW b \in CutTo(s, n, mid, hi) PROVE b \in CutTo(s, n, lo, hi)
    <3>1. PICK k \in 1 .. n : b \in ExtSpan(s[k]) /\ mid <= P(k, b) /\ P(k, b) < hi BY <1>3
    <3>2. lo <= P(k, b) BY <1>2, <3>1
    <3> QED BY <3>1, <3>2, <1>3
  <2> QED BY <2>1, <2>2, <2>3
<1>7. ASSUME NEW b, b \in CutTo(s, n, lo, mid), b \in CutTo(s, n, mid, hi) PROVE FALSE
  <2>1. PICK k \in 1 .. n : b \in ExtSpan(s[k]) /\ P(k, b) < mid BY <1>3, <1>7
  <2>2. PICK j \in 1 .. n : b \in ExtSpan(s[j]) /\ mid <= P(j, b) BY <1>3, <1>7
  <2>3. k = j BY <2>1, <2>2, <1>4
  <2> QED BY <2>1, <2>2, <2>3, <1>2
<1>8. CutTo(s, n, 0, LenSum(s)) = CoveredBy(s)
  <2>1. ASSUME NEW b \in CoveredBy(s) PROVE b \in CutTo(s, n, 0, LenSum(s))
    <3>1. PICK k \in 1 .. n : b \in ExtSpan(s[k]) BY <1>5
    <3>2. 0 <= P(k, b) /\ P(k, b) < LenSum(s) BY <3>1, <1>2
    <3> QED BY <3>1, <3>2, <1>3
  <2> QED BY <2>1, <1>3, <1>5
<1>9. ASSUME NEW b \in CutTo(s, n, hi, lo) PROVE FALSE
  <2>1. PICK k \in 1 .. n : b \in ExtSpan(s[k]) /\ hi <= P(k, b) /\ P(k, b) < lo BY <1>3
  <2> QED BY <2>1, <1>2
<1>10. CutTo(s, n, lo, hi) \subseteq CoveredBy(s) BY <1>3, <1>5
<1> QED BY <1>6, <1>7, <1>8, <1>9, <1>10 DEF n

\* An extent grown by n blocks, as its fields (stage_push merging with the last one).
LEMMA Longer ==
  ASSUME NEW e \in Ext, NEW n
  PROVE  [e EXCEPT !.len = @ + n] = [start |-> e.start, len |-> e.len + n]
<1>1. PICK a, l : e = [start |-> a, len |-> l] BY DEF Ext
<1> QED BY <1>1

\* An extent staged is an extent more in the list, merged with the last or not.
LEMMA StageAddFacts ==
  ASSUME NEW w \in Seq(Ext), Disjoint(w), NEW e \in Ext, CoveredBy(w) \cap ExtSpan(e) = {}
  PROVE  /\ stage_add(w, e) \in Seq(Ext) /\ Disjoint(stage_add(w, e))
         /\ CoveredBy(stage_add(w, e)) = CoveredBy(w) \cup ExtSpan(e)
<1> DEFINE n == Len(w)
           o == w[n]
           h == [o EXCEPT !.len = @ + e.len]
           c == [w EXCEPT ![n] = h]
<1>1. n \in Nat /\ DOMAIN w = 1 .. n /\ \A i \in 1 .. n : w[i] \in Ext BY SeqDom
<1>2. CASE ~(w # <<>> /\ Last(w).start + Last(w).len = e.start)
  <2>1. stage_add(w, e) = Append(w, e) BY <1>2 DEF stage_add
  <2> QED BY <2>1, AppendList
<1>3. CASE w # <<>> /\ Last(w).start + Last(w).len = e.start
  <2>1. stage_add(w, e) = c BY <1>3 DEF stage_add
  <2>2. n > 0 /\ n \in 1 .. n
    <3>1. n # 0 BY <1>3, EmptySeq
    <3> QED BY <1>1, <3>1
  <2>3. o \in Ext /\ o.start + o.len = e.start BY <1>1, <1>3, <2>2 DEF Last
  <2> DEFINE a == o.start
             l == o.len
             m == e.len
  <2>4. a \in Nat /\ l \in Nat \ {0} /\ m \in Nat \ {0} /\ e.start = a + l BY <2>3 DEF Ext
  <2>5. h = [start |-> a, len |-> l + m] BY <2>3, Longer
  <2>6. ExtSpan(o) = a .. (a + l - 1) /\ ExtSpan(e) = (a + l) .. (a + l + m - 1) /\ ExtSpan(h) = a .. (a + (l + m) - 1)
    BY <2>4, <2>5 DEF ExtSpan
  <2> HIDE DEF a, l, m
  <2>7. h \in Ext
    <3>1. l + m \in Nat \ {0} BY <2>4
    <3> QED BY <2>4, <2>5, <3>1 DEF Ext
  <2>8. ExtSpan(h) = ExtSpan(o) \cup ExtSpan(e) BY <2>4, <2>6
  <2> HIDE DEF h
  <2>9. c \in [1 .. n -> Ext]
    <3>1. w \in [1 .. n -> Ext] BY <1>1
    <3> QED BY <3>1, <2>7
  <2>10. c \in Seq(Ext) BY <1>1, <2>9
  <2>11. DOMAIN c = 1 .. n /\ \A i \in 1 .. n : c[i] = IF i = n THEN h ELSE w[i] BY <1>1, <2>2
  <2> HIDE DEF c
  <2>12. \A i \in 1 .. n : ExtSpan(c[i]) = IF i = n THEN ExtSpan(w[n]) \cup ExtSpan(e) ELSE ExtSpan(w[i]) BY <2>8, <2>11
  <2>13. \A i \in 1 .. n : ExtSpan(w[i]) \cap ExtSpan(e) = {} BY <1>1, CoverAt
  <2>14. CoveredBy(c) = CoveredBy(w) \cup ExtSpan(e)
    <3>1. ASSUME NEW b \in CoveredBy(c) PROVE b \in CoveredBy(w) \cup ExtSpan(e)
      <4>1. PICK i \in 1 .. n : b \in ExtSpan(c[i]) BY <2>11, CoverAt
      <4>2. b \in ExtSpan(w[i]) \/ b \in ExtSpan(e) BY <4>1, <2>12
      <4> QED BY <4>2, <1>1, CoverAt
    <3>2. ASSUME NEW b \in CoveredBy(w) PROVE b \in CoveredBy(c)
      <4>1. PICK i \in 1 .. n : b \in ExtSpan(w[i]) BY <1>1, CoverAt
      <4>2. b \in ExtSpan(c[i]) BY <4>1, <2>12
      <4> QED BY <4>2, <2>11, CoverAt
    <3>3. ASSUME NEW b \in ExtSpan(e) PROVE b \in CoveredBy(c)
      <4>1. b \in ExtSpan(c[n]) BY <2>2, <2>12
      <4> QED BY <4>1, <2>2, <2>11, CoverAt
    <3> QED BY <3>1, <3>2, <3>3
  <2>15. Disjoint(c)
    <3>1. \A i, j \in 1 .. n : i # j => ExtSpan(w[i]) \cap ExtSpan(w[j]) = {} BY <1>1 DEF Disjoint
    <3>2. \A i, j \in 1 .. n : i # j => ExtSpan(c[i]) \cap ExtSpan(c[j]) = {} BY <2>2, <2>12, <2>13, <3>1
    <3> QED BY <3>2, <2>11 DEF Disjoint
  <2> QED BY <2>1, <2>10, <2>14, <2>15
<1> QED BY <1>2, <1>3

\* Staging merges neighbours and loses no block (stage_push).
LEMMA StageFacts ==
  ASSUME NEW s \in Seq(Ext), Disjoint(s)
  PROVE  StageAll(s) \in Seq(Ext) /\ Disjoint(StageAll(s)) /\ CoveredBy(StageAll(s)) = CoveredBy(s)
<1> DEFINE n == Len(s)
           C(i) == UNION {ExtSpan(s[k]) : k \in 1 .. i}
           S == [i \in 0 .. n |-> {w \in Seq(Ext) : CoveredBy(w) = C(i) /\ Disjoint(w)}]
<1>1. n \in Nat /\ DOMAIN s = 1 .. n BY SeqDom
<1>2. <<>> \in S[0]
  <2>1. 0 \in 0 .. n /\ 1 .. 0 = {} BY <1>1
  <2>2. C(0) = {} BY <2>1
  <2> HIDE DEF C
  <2> DEFINE z == <<>>
  <2>4. z \in Seq(Ext) /\ CoveredBy(z) = C(0) /\ Disjoint(z) BY <2>2, EmptyExts, Zenon
  <2> HIDE DEF z
  <2>5. z \in S[0] BY <2>1, <2>4
  <2> QED BY <2>5 DEF z
<1>3. ASSUME NEW i \in 1 .. n, NEW m \in S[i - 1] PROVE stage_add(m, s[i]) \in S[i]
  <2> DEFINE u == i - 1
             x == stage_add(m, s[i])
  <2>1. i \in 0 .. n /\ u \in 0 .. n /\ u \in Nat /\ i = u + 1 /\ i \in Nat /\ i > 0 BY <1>1
  <2>2. m \in Seq(Ext) /\ CoveredBy(m) = C(u) /\ Disjoint(m) BY <2>1
  <2>3. s[i] \in Ext BY SeqDom
  <2>4. C(i) = C(u) \cup ExtSpan(s[i])
    <3>1. 1 .. i = (1 .. u) \cup {i} BY <2>1
    <3> HIDE DEF u
    <3> QED BY <3>1
  <2>5. C(u) \cap ExtSpan(s[i]) = {}
    <3>1. \A k \in 1 .. u : k \in DOMAIN s /\ k # i BY <1>1, <2>1
    <3>2. i \in DOMAIN s BY <1>1
    <3> HIDE DEF u
    <3> QED BY <3>1, <3>2 DEF Disjoint
  <2> HIDE DEF C
  <2>6. x \in Seq(Ext) /\ Disjoint(x) /\ CoveredBy(x) = CoveredBy(m) \cup ExtSpan(s[i]) BY <2>2, <2>3, <2>5, StageAddFacts
  <2>7. CoveredBy(x) = C(i) BY <2>2, <2>4, <2>6
  <2> HIDE DEF x
  <2> QED BY <2>1, <2>6, <2>7 DEF x
<1>4. StageAll(s) \in S[n]
  <2> HIDE DEF S
  <2> QED BY <1>1, <1>2, <1>3, LoopStage
<1>5. n \in 0 .. n BY <1>1
<1>6. C(n) = CoveredBy(s) BY <1>1 DEF CoveredBy
<1> HIDE DEF C
<1> QED BY <1>4, <1>5, <1>6

\* A part of a file rewritten: its new list and the replaced blocks are the old
\* list and the fresh blocks.
Spliced(s, first, fresh, last) ==
    StageAll(walk_old(s, 0, first) \o fresh \o walk_old(s, last + 1, LenSum(s)))
Cut(s, first, last) == walk_old(s, first, Min({last + 1, LenSum(s)}))
\* Splicing the fresh blocks into a list and cutting out the old ones splits the blocks
\* of both in two.
LEMMA Splice ==
  ASSUME NEW s \in Seq(Ext), Disjoint(s), NEW fresh \in Seq(Ext), Disjoint(fresh), CoveredBy(s) \cap CoveredBy(fresh) = {},
         NEW first \in Nat, NEW last \in Nat, first <= last, first <= LenSum(s)
  PROVE  /\ Spliced(s, first, fresh, last) \in Seq(Ext) /\ Disjoint(Spliced(s, first, fresh, last))
         /\ Cut(s, first, last) \in Seq(Ext) /\ Disjoint(Cut(s, first, last)) /\ Len(Cut(s, first, last)) <= Len(s)
         /\ CoveredBy(Spliced(s, first, fresh, last)) \cap CoveredBy(Cut(s, first, last)) = {}
         /\ CoveredBy(Spliced(s, first, fresh, last)) \cup CoveredBy(Cut(s, first, last)) = CoveredBy(s) \cup CoveredBy(fresh)
         /\ CoveredBy(Cut(s, first, last)) \subseteq CoveredBy(s)
<1> DEFINE N == LenSum(s)
           l1 == last + 1
           h == Min({l1, N})
           A == walk_old(s, 0, first)
           B == walk_old(s, first, h)
           C == walk_old(s, l1, N)
           X(lo, hi) == CutTo(s, Len(s), lo, hi)
<1>1. N \in Nat /\ l1 \in Nat /\ first <= l1
  <2>1. Len(s) \in 0 .. Len(s) BY SeqDom
  <2> QED BY <2>1, LenSteps DEF LenSum
<1>2. h \in Nat /\ h <= N /\ h <= l1 /\ (h = N \/ h = l1)
  <2> DEFINE T == {l1, N}
  <2>1. T \subseteq Nat /\ T # {} BY <1>1
  <2>2. h = Min(T) OBVIOUS
  <2> HIDE DEF T
  <2>3. h \in T /\ \A y \in T : h <= y BY <2>1, <2>2, Least
  <2> HIDE DEF h
  <2> QED BY <2>3, <1>1 DEF T
<1> HIDE DEF h, N, l1
<1>3. A \in Seq(Ext) /\ CoveredBy(A) = X(0, first) /\ Disjoint(A) BY <1>1, WalkFacts
<1>4. B \in Seq(Ext) /\ CoveredBy(B) = X(first, h) /\ Disjoint(B) /\ Len(B) <= Len(s) BY <1>2, WalkFacts
<1>5. C \in Seq(Ext) /\ CoveredBy(C) = X(l1, N) /\ Disjoint(C) BY <1>1, WalkFacts
<1>6. X(0, N) = CoveredBy(s)
  <2>1. 0 <= N BY <1>1
  <2> QED BY <1>1, <2>1, CutParts DEF N
<1>7. X(0, N) = X(0, first) \cup X(first, N) /\ X(0, first) \cap X(first, N) = {}
  <2>1. 0 <= first /\ first <= N BY DEF N
  <2> QED BY <1>1, <2>1, CutParts
<1>8. X(first, N) = X(first, h) \cup X(l1, N) /\ X(first, h) \cap X(l1, N) = {}
  <2>1. CASE l1 <= N
    <3>1. h = l1 BY <1>1, <1>2, <2>1
    <3> QED BY <1>1, <2>1, <3>1, CutParts
  <2>2. CASE ~(l1 <= N)
    <3>1. h = N /\ N <= l1 BY <1>1, <1>2, <2>2
    <3>2. X(l1, N) = {} BY <1>1, <3>1, CutParts
    <3> QED BY <3>1, <3>2
  <2> QED BY <2>1, <2>2
<1> HIDE DEF A, B, C, X
<1> DEFINE U == A \o fresh
           V == U \o C
<1>9. U \in Seq(Ext) /\ CoveredBy(U) = CoveredBy(A) \cup CoveredBy(fresh) /\ Disjoint(U)
  <2>1. CoveredBy(A) \cap CoveredBy(fresh) = {} BY <1>3, <1>6, <1>7
  <2> QED BY <1>3, <2>1, ConcatList
<1> HIDE DEF U
<1>10. V \in Seq(Ext) /\ CoveredBy(V) = CoveredBy(U) \cup CoveredBy(C) /\ Disjoint(V)
  <2>1. CoveredBy(U) \cap CoveredBy(C) = {} BY <1>3, <1>5, <1>6, <1>7, <1>8, <1>9
  <2> QED BY <1>5, <1>9, <2>1, ConcatList
<1> HIDE DEF V
<1>11. StageAll(V) \in Seq(Ext) /\ Disjoint(StageAll(V)) /\ CoveredBy(StageAll(V)) = CoveredBy(V) BY <1>10, StageFacts
<1>12. Spliced(s, first, fresh, last) = StageAll(V) /\ Cut(s, first, last) = B
  BY DEF Spliced, Cut, V, U, A, B, C, N, l1, h
<1>13. CoveredBy(V) \cap CoveredBy(B) = {} BY <1>3, <1>4, <1>5, <1>6, <1>7, <1>8, <1>9, <1>10
<1>14. CoveredBy(V) \cup CoveredBy(B) = CoveredBy(s) \cup CoveredBy(fresh)
  BY <1>3, <1>4, <1>5, <1>6, <1>7, <1>8, <1>9, <1>10
<1>15. CoveredBy(B) \subseteq CoveredBy(s) BY <1>4, <1>6, <1>7, <1>8
<1> QED BY <1>4, <1>11, <1>12, <1>13, <1>14, <1>15

\* The chain of a file as a list of extents.
ChainList(c) == [k \in DOMAIN c |-> OneBlock(c[k])]
\* A chain as a list of extents: one per chain block, and disjoint only when no block
\* repeats.
LEMMA ChainFacts ==
  ASSUME NEW c \in Seq(Nat)
  PROVE  /\ ChainList(c) \in Seq(Ext) /\ Len(ChainList(c)) = Len(c)
         /\ CoveredBy(ChainList(c)) = {c[k] : k \in 1 .. Len(c)}
         /\ Disjoint(ChainList(c)) => \A i, j \in 1 .. Len(c) : c[i] = c[j] => i = j
<1> DEFINE n == Len(c)
           L == ChainList(c)
<1>1. n \in Nat /\ DOMAIN c = 1 .. n /\ \A k \in 1 .. n : c[k] \in Nat BY SeqDom
<1>2. L = [k \in 1 .. n |-> OneBlock(c[k])] BY <1>1 DEF ChainList
<1>3. \A k \in 1 .. n : L[k] \in Ext /\ ExtSpan(L[k]) = {c[k]}
  <2> SUFFICES ASSUME NEW k \in 1 .. n PROVE L[k] \in Ext /\ ExtSpan(L[k]) = {c[k]} OBVIOUS
  <2> DEFINE b == c[k]
  <2>1. b \in Nat BY <1>1
  <2>2. L[k] = [start |-> b, len |-> 1] BY <1>2 DEF OneBlock
  <2> HIDE DEF b, L
  <2>3. b .. (b + 1 - 1) = {b} BY <2>1
  <2>4. L[k] \in Ext BY <2>1, <2>2 DEF Ext
  <2>5. ExtSpan(L[k]) = {b} BY <2>2, <2>3 DEF ExtSpan
  <2> QED BY <2>4, <2>5 DEF b
<1>4. L \in [1 .. n -> Ext] BY <1>2, <1>3
<1>5. L \in Seq(Ext) /\ Len(L) = n /\ DOMAIN L = 1 .. n BY <1>1, <1>4
<1> HIDE DEF L
<1>6. CoveredBy(L) = {c[k] : k \in 1 .. n} BY <1>3, <1>5 DEF CoveredBy
<1>7. ASSUME Disjoint(L), NEW i \in 1 .. n, NEW j \in 1 .. n, c[i] = c[j] PROVE i = j
  <2>1. c[i] \in ExtSpan(L[i]) /\ c[i] \in ExtSpan(L[j]) BY <1>3, <1>7
  <2> QED BY <2>1, <1>5, <1>7 DEF Disjoint
<1> QED BY <1>5, <1>6, <1>7 DEF L

\* Chain blocks taken one by one.
LEMMA StartsFacts ==
  ASSUME NEW s \in Seq(Ext), \A x \in DOMAIN s : s[x].len = 1
  PROVE  Starts(s) \in Seq(Nat) /\ Len(Starts(s)) = Len(s) /\ ChainList(Starts(s)) = s
         /\ \A k \in 1 .. Len(s) : Starts(s)[k] = s[k].start /\ s[k].start \in CoveredBy(s)
<1> DEFINE n == Len(s)
           c == Starts(s)
<1>1. n \in Nat /\ DOMAIN s = 1 .. n /\ \A k \in 1 .. n : s[k] \in Ext BY SeqDom
<1>2. c = [k \in 1 .. n |-> s[k].start] BY <1>1 DEF Starts
<1>3. \A k \in 1 .. n : s[k].start \in Nat /\ s[k].start \in ExtSpan(s[k]) BY <1>1, SpanCard
<1>4. c \in [1 .. n -> Nat] BY <1>2, <1>3
<1>5. c \in Seq(Nat) /\ Len(c) = n /\ DOMAIN c = 1 .. n BY <1>1, <1>4
<1>6. \A k \in 1 .. n : c[k] = s[k].start /\ s[k].start \in CoveredBy(s) BY <1>1, <1>2, <1>3, CoverAt
<1> HIDE DEF c
<1>7. ChainList(c) = s
  <2>1. ChainList(c) \in Seq(Ext) /\ Len(ChainList(c)) = n BY <1>5, ChainFacts
  <2>2. ASSUME NEW k \in 1 .. n PROVE ChainList(c)[k] = s[k]
    <3>1. ChainList(c)[k] = [start |-> c[k], len |-> 1] BY <1>5 DEF ChainList, OneBlock
    <3>2. s[k] \in Ext /\ s[k].len = 1 /\ s[k].start = c[k] BY <1>1, <1>6
    <3> QED BY <3>1, <3>2 DEF Ext
  <2> QED BY <2>1, <2>2, SeqEqual
<1> QED BY <1>5, <1>6, <1>7 DEF c

\* What a file holds: its extents and its chain.
LEMMA DeferredFacts ==
  ASSUME NEW f, f.exts \in Seq(Ext), f.chain \in Seq(Nat)
  PROVE  /\ DeferredBy(f) \in Seq(Ext) /\ Len(DeferredBy(f)) = Len(f.exts) + Len(f.chain)
         /\ DeferredBy(f) = f.exts \o ChainList(f.chain)
         /\ CoveredBy(DeferredBy(f)) = CoveredBy(f.exts) \cup CoveredBy(ChainList(f.chain))
         /\ \A k \in 1 .. Len(f.chain) : f.chain[k] \in CoveredBy(DeferredBy(f))
<1>1. DeferredBy(f) = f.exts \o ChainList(f.chain) BY DEF DeferredBy, ChainList
<1>2. ChainList(f.chain) \in Seq(Ext) /\ Len(ChainList(f.chain)) = Len(f.chain)
      /\ CoveredBy(ChainList(f.chain)) = {f.chain[k] : k \in 1 .. Len(f.chain)} BY ChainFacts
<1> DEFINE s == f.exts
           t == ChainList(f.chain)
<1>3. s \in Seq(Ext) /\ t \in Seq(Ext) BY <1>2
<1> HIDE DEF s, t
<1>4. s \o t \in Seq(Ext) /\ Len(s \o t) = Len(s) + Len(t) /\ CoveredBy(s \o t) = CoveredBy(s) \cup CoveredBy(t)
  BY <1>3, ConcatList
<1> QED BY <1>1, <1>2, <1>4 DEF s, t

\* A file without a chain.
LEMMA NoChainHeld ==
  ASSUME NEW f, f.exts \in Seq(Ext), f.chain = <<>>
  PROVE  DeferredBy(f) = f.exts
<1>1. ChainList(f.chain) = <<>>
  <2>1. f.chain \in Seq(Nat) /\ Len(f.chain) = 0 OBVIOUS
  <2>2. ChainList(f.chain) \in Seq(Ext) /\ Len(ChainList(f.chain)) = 0 BY <2>1, ChainFacts
  <2> HIDE DEF ChainList
  <2> QED BY <2>2, EmptySeq
<1>2. DeferredBy(f) = f.exts \o ChainList(f.chain) BY DEF DeferredBy, ChainList
<1> QED BY <1>1, <1>2, ConcatEmptySeq

-----------------------------------------------------------------------------
(* Who holds what.                                                         *)

\* The holders: every inode, the blocks waiting for a commit (-2) and the running call's
\* fresh ones (-1).
LEMMA HeldIs ==
  /\ Held = Inodes \cup {-2, -1} /\ -2 \notin Inodes /\ -1 \notin Inodes /\ -2 # -1
  /\ Inodes \subseteq Held /\ -2 \in Held /\ -1 \in Held /\ NInodes \in Nat
<1>1. NInodes \in Nat BY ExfsAssumption
<1> QED BY <1>1 DEF Held, Inodes

\* What each holder holds.
LEMMA HoldingsAt ==
  ASSUME NEW fs, NEW w, NEW r
  PROVE  /\ DOMAIN Holdings(fs, w, r) = Held
         /\ Holdings(fs, w, r)[-2] = w /\ Holdings(fs, w, r)[-1] = r
         /\ \A i \in Inodes : Holdings(fs, w, r)[i] = DeferredBy(fs[i])
<1>1. Holdings(fs, w, r) = [i \in Held |-> IF i = -2 THEN w ELSE IF i = -1 THEN r ELSE DeferredBy(fs[i])]
  BY DEF Holdings, Held
<1>2. \A i \in Inodes : i \in Held /\ i # -2 /\ i # -1 BY HeldIs
<1> QED BY <1>1, <1>2, HeldIs

\* Two equal families of lists.
LEMMA SameHoldings ==
  ASSUME NEW fs, NEW gs, NEW w, NEW r, \A i \in Inodes : DeferredBy(fs[i]) = DeferredBy(gs[i])
  PROVE  Holdings(fs, w, r) = Holdings(gs, w, r)
<1>1. \A i \in Held : i # -2 /\ i # -1 => i \in Inodes BY HeldIs
<1>2. \A i \in Held : (IF i = -2 THEN w ELSE IF i = -1 THEN r ELSE DeferredBy(fs[i]))
                    = (IF i = -2 THEN w ELSE IF i = -1 THEN r ELSE DeferredBy(gs[i])) BY <1>1
<1>3. Holdings(fs, w, r) = [i \in Held |-> IF i = -2 THEN w ELSE IF i = -1 THEN r ELSE DeferredBy(fs[i])]
  BY DEF Holdings, Held
<1>4. Holdings(gs, w, r) = [i \in Held |-> IF i = -2 THEN w ELSE IF i = -1 THEN r ELSE DeferredBy(gs[i])]
  BY DEF Holdings, Held
<1> QED BY <1>2, <1>3, <1>4

\* The lists at the places P exchange blocks, give some back and get new ones.
CoverOf(h, P) == UNION {CoveredBy(h[i]) : i \in P}
\* When some holders P share their blocks out anew, give up drop and take add, the claims
\* stay exact.
LEMMA Repartition ==
  ASSUME NEW used, NEW h, Claims(used, h), NEW k, DOMAIN k = Held, NEW P, P \subseteq Held,
         \A i \in Held : i \notin P => k[i] = h[i],
         \A i \in P : k[i] \in Seq(Ext) /\ Disjoint(k[i]),
         \A i, j \in P : i # j => CoveredBy(k[i]) \cap CoveredBy(k[j]) = {},
         NEW add, NEW drop, add \cap used = {}, drop \subseteq CoverOf(h, P),
         CoverOf(k, P) = (CoverOf(h, P) \ drop) \cup add,
         NEW now, now = (used \ drop) \cup add
  PROVE  Claims(now, k)
<1>1. used = Reserved \cup UNION {CoveredBy(h[i]) : i \in Held} BY DEF Claims
<1>2. \A i \in Held : h[i] \in Seq(Ext) /\ Disjoint(h[i]) /\ CoveredBy(h[i]) \cap Reserved = {} BY DEF Claims
<1>3. \A i, j \in Held : i # j => CoveredBy(h[i]) \cap CoveredBy(h[j]) = {} BY DEF Claims
<1> DEFINE R == UNION {CoveredBy(h[i]) : i \in Held \ P}
<1>4. used = Reserved \cup R \cup CoverOf(h, P) BY <1>1 DEF CoverOf
<1>5. UNION {CoveredBy(k[i]) : i \in Held} = R \cup CoverOf(k, P)
  <2>1. R = UNION {CoveredBy(k[i]) : i \in Held \ P} OBVIOUS
  <2> HIDE DEF R
  <2> QED BY <2>1 DEF CoverOf
<1>6. R \cap CoverOf(h, P) = {}
  <2> SUFFICES ASSUME NEW b, b \in R, b \in CoverOf(h, P) PROVE FALSE OBVIOUS
  <2>1. PICK i \in Held \ P : b \in CoveredBy(h[i]) OBVIOUS
  <2>2. PICK j \in P : b \in CoveredBy(h[j]) BY DEF CoverOf
  <2> HIDE DEF R
  <2> QED BY <2>1, <2>2, <1>3
<1>7. Reserved \cap CoverOf(h, P) = {} BY <1>2 DEF CoverOf
<1>8. \A i \in P : CoveredBy(k[i]) \subseteq CoverOf(k, P) BY DEF CoverOf
<1>9. \A i \in Held : i \notin P => CoveredBy(k[i]) \subseteq R OBVIOUS
<1> HIDE DEF R
<1>10. R \subseteq used /\ Reserved \subseteq used BY <1>4
<1>11. now = Reserved \cup UNION {CoveredBy(k[i]) : i \in Held}
  <2> DEFINE X == UNION {CoveredBy(k[i]) : i \in Held}
             A == CoverOf(h, P)
             B == CoverOf(k, P)
  <2>1. X = R \cup B /\ B = (A \ drop) \cup add /\ used = Reserved \cup R \cup A /\ R \cap A = {} /\ Reserved \cap A = {}
        /\ drop \subseteq A BY <1>4, <1>5, <1>6, <1>7
  <2> HIDE DEF X, A, B
  <2> QED BY <2>1 DEF X
<1>12. \A i \in Held : k[i] \in Seq(Ext) /\ Disjoint(k[i]) BY <1>2
<1>13. CoverOf(k, P) \cap Reserved = {} /\ CoverOf(k, P) \cap R = {} BY <1>6, <1>7, <1>10
<1>14. \A i \in Held : CoveredBy(k[i]) \cap Reserved = {} BY <1>2, <1>8, <1>13
<1>15. ASSUME NEW i \in Held, NEW j \in Held, i # j PROVE CoveredBy(k[i]) \cap CoveredBy(k[j]) = {}
  <2>1. CASE i \in P /\ j \in P BY <2>1, <1>15
  <2>2. CASE i \in P /\ j \notin P BY <2>2, <1>8, <1>9, <1>13
  <2>3. CASE i \notin P /\ j \in P BY <2>3, <1>8, <1>9, <1>13
  <2>4. CASE i \notin P /\ j \notin P BY <2>4, <1>3, <1>15
  <2> QED BY <2>1, <2>2, <2>3, <2>4
<1> QED BY <1>11, <1>12, <1>14, <1>15 DEF Claims

\* Exact claims, one holder at a time: what each holds is set in the map, and no two hold
\* the same block.
LEMMA ClaimsAt ==
  ASSUME NEW used, NEW fs, NEW w, NEW r, Claims(used, Holdings(fs, w, r))
  PROVE  /\ Reserved \subseteq used
         /\ w \in Seq(Ext) /\ Disjoint(w) /\ CoveredBy(w) \subseteq used /\ CoveredBy(w) \cap Reserved = {}
         /\ r \in Seq(Ext) /\ Disjoint(r) /\ CoveredBy(r) \subseteq used /\ CoveredBy(r) \cap Reserved = {}
         /\ CoveredBy(w) \cap CoveredBy(r) = {}
         /\ \A i \in Inodes : /\ DeferredBy(fs[i]) \in Seq(Ext) /\ Disjoint(DeferredBy(fs[i]))
                              /\ CoveredBy(DeferredBy(fs[i])) \subseteq used
                              /\ CoveredBy(DeferredBy(fs[i])) \cap Reserved = {}
                              /\ CoveredBy(DeferredBy(fs[i])) \cap CoveredBy(w) = {}
                              /\ CoveredBy(DeferredBy(fs[i])) \cap CoveredBy(r) = {}
         /\ \A i, j \in Inodes : i # j => CoveredBy(DeferredBy(fs[i])) \cap CoveredBy(DeferredBy(fs[j])) = {}
<1> DEFINE h == Holdings(fs, w, r)
<1>1. h[-2] = w /\ h[-1] = r /\ \A i \in Inodes : h[i] = DeferredBy(fs[i]) BY HoldingsAt
<1> HIDE DEF h
<1>2. used = Reserved \cup UNION {CoveredBy(h[i]) : i \in Held} BY DEF Claims, h
<1>3. \A i \in Held : h[i] \in Seq(Ext) /\ Disjoint(h[i]) /\ CoveredBy(h[i]) \cap Reserved = {} BY DEF Claims, h
<1>4. \A i, j \in Held : i # j => CoveredBy(h[i]) \cap CoveredBy(h[j]) = {} BY DEF Claims, h
<1>5. \A i \in Held : CoveredBy(h[i]) \subseteq used BY <1>2
<1>6. Reserved \subseteq used BY <1>2
<1>7. -2 \in Held /\ -1 \in Held /\ -2 # -1 /\ \A i \in Inodes : i \in Held /\ i # -2 /\ i # -1 BY HeldIs
<1>8. w \in Seq(Ext) /\ Disjoint(w) /\ CoveredBy(w) \subseteq used /\ CoveredBy(w) \cap Reserved = {} BY <1>1, <1>3, <1>5, <1>7
<1>9. r \in Seq(Ext) /\ Disjoint(r) /\ CoveredBy(r) \subseteq used /\ CoveredBy(r) \cap Reserved = {} BY <1>1, <1>3, <1>5, <1>7
<1>10. CoveredBy(w) \cap CoveredBy(r) = {} BY <1>1, <1>4, <1>7
<1>11. ASSUME NEW i \in Inodes
       PROVE  /\ DeferredBy(fs[i]) \in Seq(Ext) /\ Disjoint(DeferredBy(fs[i]))
              /\ CoveredBy(DeferredBy(fs[i])) \subseteq used
              /\ CoveredBy(DeferredBy(fs[i])) \cap Reserved = {}
              /\ CoveredBy(DeferredBy(fs[i])) \cap CoveredBy(w) = {}
              /\ CoveredBy(DeferredBy(fs[i])) \cap CoveredBy(r) = {}
  <2>1. h[i] = DeferredBy(fs[i]) /\ i \in Held /\ i # -2 /\ i # -1 BY <1>1, <1>7
  <2>2. h[i] \in Seq(Ext) /\ Disjoint(h[i]) /\ CoveredBy(h[i]) \cap Reserved = {} BY <2>1, <1>3
  <2>3. CoveredBy(h[i]) \cap CoveredBy(h[-2]) = {} /\ CoveredBy(h[i]) \cap CoveredBy(h[-1]) = {} BY <2>1, <1>4, <1>7
  <2>4. CoveredBy(h[i]) \subseteq used BY <2>1, <1>5
  <2> QED BY <2>1, <2>2, <2>3, <2>4, <1>1
<1>12. \A i, j \in Inodes : i # j => CoveredBy(DeferredBy(fs[i])) \cap CoveredBy(DeferredBy(fs[j])) = {} BY <1>1, <1>4, <1>7
<1> QED BY <1>6, <1>8, <1>9, <1>10, <1>11, <1>12

\* One list changes: it gets new blocks, or gives some back.
LEMMA OneMoves ==
  ASSUME NEW used, NEW h, Claims(used, h), NEW k, DOMAIN k = Held, NEW p \in Held,
         \A i \in Held : i # p => k[i] = h[i], k[p] \in Seq(Ext), Disjoint(k[p]),
         NEW add, NEW drop, add \cap used = {}, drop \subseteq CoveredBy(h[p]),
         CoveredBy(k[p]) = (CoveredBy(h[p]) \ drop) \cup add,
         NEW now, now = (used \ drop) \cup add
  PROVE  Claims(now, k)
<1> DEFINE P == {p}
<1>1. P \subseteq Held /\ (\A i \in Held : i \notin P => k[i] = h[i]) /\ (\A i \in P : k[i] \in Seq(Ext) /\ Disjoint(k[i]))
  OBVIOUS
<1>2. \A i, j \in P : i # j => CoveredBy(k[i]) \cap CoveredBy(k[j]) = {} OBVIOUS
<1>3. CoverOf(h, P) = CoveredBy(h[p]) /\ CoverOf(k, P) = CoveredBy(k[p]) BY DEF CoverOf
<1> HIDE DEF P
<1>4. drop \subseteq CoverOf(h, P) /\ CoverOf(k, P) = (CoverOf(h, P) \ drop) \cup add BY <1>3
<1> QED BY <1>1, <1>2, <1>4, Repartition

\* An extent that was free, taken for the running call.
LEMMA TakeClaims ==
  ASSUME NEW used, NEW fs, NEW w, NEW r, Claims(used, Holdings(fs, w, r)), NEW e \in Ext, ExtSpan(e) \cap used = {},
         NEW now, now = used \cup ExtSpan(e)
  PROVE  Claims(now, Holdings(fs, w, Append(r, e)))
<1> DEFINE h == Holdings(fs, w, r)
           t == Append(r, e)
           k == Holdings(fs, w, t)
           p == -1
           add == ExtSpan(e)
           drop == {}
<1>1. r \in Seq(Ext) /\ Disjoint(r) /\ CoveredBy(r) \subseteq used BY ClaimsAt
<1>2. t \in Seq(Ext) /\ Disjoint(t) /\ CoveredBy(t) = CoveredBy(r) \cup ExtSpan(e) BY <1>1, AppendList
<1> HIDE DEF t
<1>3. DOMAIN k = Held /\ h[p] = r /\ k[p] = t /\ p \in Held BY HoldingsAt, HeldIs
<1>4. \A i \in Held : i # p => k[i] = h[i] BY HoldingsAt, HeldIs
<1>5. Claims(used, h) OBVIOUS
<1> HIDE DEF h, k, p
<1>6. add \cap used = {} /\ drop \subseteq CoveredBy(h[p]) /\ CoveredBy(k[p]) = (CoveredBy(h[p]) \ drop) \cup add
      /\ now = (used \ drop) \cup add
  BY <1>2, <1>3
<1> HIDE DEF add, drop
<1>7. Claims(now, k) BY <1>2, <1>3, <1>4, <1>5, <1>6, OneMoves
<1> QED BY <1>7 DEF k, t

\* A block list is given back entry by entry.
Gives(used, s, i, r, t, drop, now) ==
    /\ s \in Seq(Ext) /\ i \in 1 .. Len(s) /\ r = SubSeq(s, i, Len(s)) /\ t = SubSeq(s, i + 1, Len(s))
    /\ drop = ExtSpan(s[i]) /\ now = used \ drop

\* A holder gives back the first extent of the rest of its list.
LEMMA GiveOne ==
  ASSUME NEW used, NEW s, NEW i, NEW r, NEW t, NEW drop, NEW now, Gives(used, s, i, r, t, drop, now),
         NEW h, Claims(used, h), NEW k, DOMAIN k = Held, NEW p \in Held, h[p] = r, k[p] = t,
         \A j \in Held : j # p => k[j] = h[j]
  PROVE  Claims(now, k) /\ drop \subseteq used /\ drop \cap Reserved = {}
<1>0. /\ s \in Seq(Ext) /\ i \in 1 .. Len(s) /\ r = SubSeq(s, i, Len(s)) /\ t = SubSeq(s, i + 1, Len(s))
      /\ drop = ExtSpan(s[i]) /\ now = used \ drop
  BY DEF Gives
<1>1. Disjoint(r) /\ CoveredBy(r) \subseteq used /\ CoveredBy(r) \cap Reserved = {} BY DEF Claims
<1>2. t \in Seq(Ext) /\ Disjoint(t) /\ CoveredBy(r) = drop \cup CoveredBy(t) /\ drop \cap CoveredBy(t) = {} BY <1>0, <1>1, RestList
<1> DEFINE add == {}
<1>3. add \cap used = {} /\ drop \subseteq CoveredBy(h[p]) /\ CoveredBy(k[p]) = (CoveredBy(h[p]) \ drop) \cup add
      /\ now = (used \ drop) \cup add
  BY <1>0, <1>2
<1> HIDE DEF add
<1>4. Claims(now, k) BY <1>2, <1>3, OneMoves
<1> QED BY <1>1, <1>2, <1>4

\* One extent of the running call's blocks is given back.
LEMMA GiveFresh ==
  ASSUME NEW used, NEW s, NEW i, NEW r, NEW t, NEW drop, NEW now, Gives(used, s, i, r, t, drop, now),
         NEW fs, NEW w, Claims(used, Holdings(fs, w, r))
  PROVE  Claims(now, Holdings(fs, w, t)) /\ drop \subseteq used /\ drop \cap Reserved = {}
<1> DEFINE h == Holdings(fs, w, r)
           k == Holdings(fs, w, t)
           p == -1
<1>1. Claims(used, h) /\ DOMAIN k = Held /\ h[p] = r /\ k[p] = t /\ p \in Held BY HoldingsAt, HeldIs
<1>2. \A j \in Held : j # p => k[j] = h[j] BY HoldingsAt, HeldIs
<1> HIDE DEF h, k, p
<1>3. Claims(now, k) /\ drop \subseteq used /\ drop \cap Reserved = {} BY <1>1, <1>2, GiveOne
<1> QED BY <1>3 DEF k

\* The same for one extent of the waiting list.
LEMMA GiveWaiting ==
  ASSUME NEW used, NEW s, NEW i, NEW r, NEW t, NEW drop, NEW now, Gives(used, s, i, r, t, drop, now),
         NEW fs, NEW w, Claims(used, Holdings(fs, r, w))
  PROVE  Claims(now, Holdings(fs, t, w)) /\ drop \subseteq used /\ drop \cap Reserved = {}
<1> DEFINE h == Holdings(fs, r, w)
           k == Holdings(fs, t, w)
           p == -2
<1>1. Claims(used, h) /\ DOMAIN k = Held /\ h[p] = r /\ k[p] = t /\ p \in Held BY HoldingsAt, HeldIs
<1>2. \A j \in Held : j # p => k[j] = h[j] BY HoldingsAt, HeldIs
<1> HIDE DEF h, k, p
<1>3. Claims(now, k) /\ drop \subseteq used /\ drop \cap Reserved = {} BY <1>1, <1>2, GiveOne
<1> QED BY <1>3 DEF k

\* A file takes what was fresh, and hands over the list out.
LEMMA ExchangeClaims ==
  ASSUME NEW used, NEW fs, NEW w, NEW r, Claims(used, Holdings(fs, w, r)), NEW i \in Inodes, NEW gs,
         \A j \in Inodes : j # i => DeferredBy(gs[j]) = DeferredBy(fs[j]),
         NEW out \in Seq(Ext), Disjoint(out), DeferredBy(gs[i]) \in Seq(Ext), Disjoint(DeferredBy(gs[i])),
         CoveredBy(DeferredBy(gs[i])) \cap CoveredBy(out) = {},
         CoveredBy(DeferredBy(gs[i])) \cup CoveredBy(out) = CoveredBy(DeferredBy(fs[i])) \cup CoveredBy(r)
  PROVE  Claims(used, Holdings(gs, w \o out, <<>>))
<1> DEFINE h == Holdings(fs, w, r)
           t == w \o out
           z == <<>>
           k == Holdings(gs, t, z)
           P == {-2, -1, i}
           n == DeferredBy(gs[i])
           o == DeferredBy(fs[i])
           add == {}
           drop == {}
<1>1. /\ w \in Seq(Ext) /\ Disjoint(w) /\ CoveredBy(w) \cap CoveredBy(r) = {}
      /\ CoveredBy(o) \cap CoveredBy(w) = {}
  BY ClaimsAt
<1>2. z \in Seq(Ext) /\ CoveredBy(z) = {} /\ Disjoint(z) BY EmptyExts
<1>3. n \in Seq(Ext) /\ Disjoint(n) /\ CoveredBy(n) \cap CoveredBy(out) = {}
      /\ CoveredBy(n) \cup CoveredBy(out) = CoveredBy(o) \cup CoveredBy(r) OBVIOUS
<1>5. Claims(used, h) OBVIOUS
<1> HIDE DEF z, n, o
<1>4. t \in Seq(Ext) /\ Disjoint(t) /\ CoveredBy(t) = CoveredBy(w) \cup CoveredBy(out)
  <2>1. CoveredBy(w) \cap CoveredBy(out) = {} BY <1>1, <1>3
  <2> QED BY <2>1, <1>1, ConcatList
<1> HIDE DEF t
<1>6. DOMAIN k = Held /\ h[-2] = w /\ h[-1] = r /\ h[i] = o /\ k[-2] = t /\ k[-1] = z /\ k[i] = n BY HoldingsAt DEF n, o
<1>7. ASSUME NEW j \in Held, j \notin P PROVE k[j] = h[j]
  <2>1. j \in Inodes /\ j # i BY <1>7, HeldIs
  <2> QED BY <2>1, HoldingsAt
<1>8. P \subseteq Held BY HeldIs
<1> HIDE DEF h, k
<1>10. CoverOf(h, P) = CoveredBy(w) \cup CoveredBy(r) \cup CoveredBy(o) BY <1>6 DEF CoverOf
<1>11. CoverOf(k, P) = CoveredBy(t) \cup CoveredBy(z) \cup CoveredBy(n) BY <1>6 DEF CoverOf
<1>12. \A j \in P : k[j] \in Seq(Ext) /\ Disjoint(k[j])
  <2>1. \A j \in P : j = -2 \/ j = -1 \/ j = i OBVIOUS
  <2> HIDE DEF P
  <2> QED BY <2>1, <1>2, <1>3, <1>4, <1>6
<1>13. CoveredBy(t) \cap CoveredBy(n) = {}
  BY <1>1, <1>3, <1>4
<1>14. \A a, b \in P : a # b => CoveredBy(k[a]) \cap CoveredBy(k[b]) = {}
  <2>1. \A j \in P : j = -2 \/ j = -1 \/ j = i OBVIOUS
  <2> HIDE DEF P
  <2> QED BY <2>1, <1>2, <1>6, <1>13
<1> HIDE DEF P
<1>15. add \cap used = {} /\ drop \subseteq CoverOf(h, P) /\ CoverOf(k, P) = (CoverOf(h, P) \ drop) \cup add /\ used = (used \ drop) \cup add
  BY <1>2, <1>3, <1>4, <1>10, <1>11
<1> HIDE DEF add, drop
<1>16. Claims(used, k) BY <1>5, <1>6, <1>7, <1>8, <1>12, <1>14, <1>15, Repartition
<1> QED BY <1>16 DEF k, t, z

-----------------------------------------------------------------------------
(* Inode records and chains.                                               *)

\* The end of a walk down a chain, and a turn of it.
Decoded(r, end) ==
    [ok |-> end.ok /\ end.blk = 0 /\ Len(end.exts) <= MaxExt,
     file |-> IF r.used THEN [used |-> TRUE, type |-> r.type, size |-> r.size,
                              name |-> r.name, exts |-> end.exts, chain |-> end.chain,
                              dirty |-> FALSE]
              ELSE NoFile]
ChainStep(d, w) ==
    IF ~w.ok \/ w.blk = 0 THEN w
    ELSE IF w.blk \notin Blocks \/ d[w.blk].kind # "chain" THEN [w EXCEPT !.ok = FALSE]
    ELSE [ok |-> TRUE, blk |-> d[w.blk].next, exts |-> w.exts \o d[w.blk].exts, chain |-> Append(w.chain, w.blk)]
ChainStart(r) == [ok |-> TRUE, blk |-> r.first, exts |-> r.exts, chain |-> <<>>]

\* The walk of inode_decode, chain block by chain block.
LEMMA LoopDecode ==
  ASSUME NEW d, NEW r, NEW S, MaxChain \in Nat, ChainStart(r) \in S[0],
         \A i \in 1 .. MaxChain : \A m \in S[i - 1] : (ChainStep(d, m)) \in S[i]
  PROVE  \E e \in S[MaxChain] : inode_decode(d, r) = Decoded(r, e)
<1> DEFINE n == MaxChain
           b == ChainStart(r)
           T(m, i) == ChainStep(d, m)
           at == CHOOSE f : f = [i \in 0 .. MaxChain |-> IF i = 0 THEN b ELSE T(f[i - 1], i)]
           G == [i \in 1 .. n |-> [m \in UNION {S[k - 1] : k \in 1 .. n} |-> T(m, i)]]
<1>1. inode_decode(d, r) = Decoded(r, at[n]) BY DEF inode_decode, Decoded, ChainStart, ChainStep
<1>2. \A i \in 1 .. n : \A m \in S[i - 1] : T(m, i) \in S[i] OBVIOUS
<1>3. n \in Nat /\ b \in S[0] OBVIOUS
<1>a. at = CHOOSE f : f = [i \in 0 .. n |-> IF i = 0 THEN b ELSE T(f[i - 1], i)] OBVIOUS
<1> HIDE DEF T, n, b, at
<1>4. \A i \in 1 .. n : \A m \in S[i - 1] : G[i][m] = T(m, i) OBVIOUS
<1>5. PICK h : Runs(h, n, b, G, S)
  <2> HIDE DEF G
  <2> QED BY <1>2, <1>3, <1>4, Iter DEF Closed
<1> HIDE DEF G
<1>6. h = [i \in 0 .. n |-> IF i = 0 THEN b ELSE T(h[i - 1], i)] BY <1>4, <1>5 DEF Runs
<1>7. at = [i \in 0 .. n |-> IF i = 0 THEN b ELSE T(at[i - 1], i)] BY <1>6, <1>a
<1>8. at[0] = b /\ \A i \in 1 .. n : at[i] = T(at[i - 1], i) BY <1>3, <1>7, Turns
<1>9. \A i \in 0 .. n : at[i] \in S[i] BY <1>2, <1>3, <1>8, Ind
<1> QED BY <1>1, <1>3, <1>9, Turns DEF n

\* What the assumptions on the volume say of its constants.
LEMMA ExfsConsts ==
  /\ Inl \in Nat /\ IndExt \in Nat /\ IndExt > 0 /\ MaxExt \in Nat /\ MaxChain \in Nat /\ Inl + MaxChain * IndExt >= MaxExt
  /\ NInodes \in Nat /\ NInodes > 0 /\ ITabBlocks \in Nat /\ ITabBlocks > 0 /\ Cells \in Nat /\ Cells > 0
  /\ MaxGen \in Nat /\ MaxGen > 0 /\ DeferMax \in Nat /\ MaxOps \in Nat /\ MaxFormats \in Nat
  /\ DataStart = 2 + 2 * ITabBlocks
<1>1. {NInodes, ITabBlocks, IndExt, Cells, MaxGen} \subseteq Nat \ {0} BY ExfsAssumption
<1>2. {Inl, MaxExt, MaxChain, DeferMax, MaxOps, MaxFormats} \subseteq Nat BY ExfsAssumption
<1>3. NInodes \in Nat \ {0} /\ ITabBlocks \in Nat \ {0} /\ IndExt \in Nat \ {0} /\ Cells \in Nat \ {0} /\ MaxGen \in Nat \ {0}
  BY <1>1
<1>4. Inl \in Nat /\ MaxExt \in Nat /\ MaxChain \in Nat /\ DeferMax \in Nat /\ MaxOps \in Nat /\ MaxFormats \in Nat BY <1>2
<1>5. Inl + MaxChain * IndExt >= MaxExt /\ DataStart = 2 + 2 * ITabBlocks BY ExfsAssumption
<1>6. NInodes > 0 /\ ITabBlocks > 0 /\ IndExt > 0 /\ Cells > 0 /\ MaxGen > 0 BY <1>3
<1> QED BY <1>3, <1>4, <1>5, <1>6

\* The chain blocks of n extents hold just these, and are never too many.
LEMMA ChainCount ==
  ASSUME NEW n \in Nat
  PROVE  /\ ChainBlocks(n) \in Nat /\ Inl \in Nat /\ IndExt \in Nat /\ IndExt > 0
         /\ n <= Inl + IndExt * ChainBlocks(n) /\ IndExt * ChainBlocks(n) \in Nat
         /\ \A k \in Nat : k < ChainBlocks(n) => Inl + IndExt * k < n /\ IndExt * k \in Nat
         /\ n <= MaxExt => ChainBlocks(n) <= MaxChain
         /\ n = 0 => ChainBlocks(n) = 0
<1>0. Inl \in Nat /\ IndExt \in Nat /\ IndExt > 0 /\ MaxExt \in Nat /\ MaxChain \in Nat /\ Inl + MaxChain * IndExt >= MaxExt
  BY ExfsConsts
<1>1. CASE n <= Inl
  <2>1. ChainBlocks(n) = 0 BY <1>1 DEF ChainBlocks
  <2>2. IndExt * 0 = 0 BY <1>0
  <2> QED BY <1>0, <1>1, <2>1, <2>2
<1>2. CASE ~(n <= Inl)
  <2> DEFINE x == n - Inl
             q == ChainBlocks(n)
             r == (x + IndExt - 1) % IndExt
  <2>1. x \in Nat /\ x > 0 /\ x + IndExt - 1 \in Nat BY <1>0, <1>2
  <2>2. q = (x + IndExt - 1) \div IndExt BY <1>2 DEF ChainBlocks
  <2> HIDE DEF q
  <2>3. q \in Nat /\ r \in Nat /\ r < IndExt /\ x + IndExt - 1 = IndExt * q + r BY <1>0, <2>1, <2>2, DivMod
  <2> HIDE DEF r
  <2>4. IndExt * q \in Nat /\ x <= IndExt * q /\ IndExt * q <= x + IndExt - 1
    <3> DEFINE p == IndExt * q
    <3>1. p \in Nat BY <1>0, <2>3
    <3> HIDE DEF p, x
    <3>2. x + IndExt - 1 = p + r BY <2>3 DEF p
    <3>3. p \in Nat /\ x <= p /\ p <= x + IndExt - 1 BY <1>0, <2>1, <2>3, <3>1, <3>2
    <3> QED BY <3>3 DEF p
  <2>5. ASSUME NEW k \in Nat, k < q PROVE IndExt * k < x /\ IndExt * k \in Nat
    <3>1. IndExt * k + IndExt <= IndExt * q BY <1>0, <2>3, <2>5, DivLess
    <3>2. IndExt * k \in Nat BY <1>0
    <3> HIDE DEF x
    <3> QED BY <3>1, <3>2, <2>4, <2>1, <1>0
  <2>6. ASSUME n <= MaxExt, ~(q <= MaxChain) PROVE FALSE
    <3>1. IndExt * MaxChain < x /\ IndExt * MaxChain \in Nat BY <2>3, <2>5, <2>6, <1>0
    <3>2. MaxChain * IndExt = IndExt * MaxChain BY <1>0
    <3> QED BY <3>1, <3>2, <2>6, <1>0
  <2>7. n <= Inl + IndExt * q BY <2>4, <1>0
  <2>8. \A k \in Nat : k < q => Inl + IndExt * k < n /\ IndExt * k \in Nat BY <2>5, <1>0
  <2> QED BY <1>0, <1>2, <2>3, <2>4, <2>6, <2>7, <2>8 DEF q
<1> QED BY <1>1, <1>2

\* Two neighbouring pieces of a list.
LEMMA Pieces ==
  ASSUME NEW S, NEW s \in Seq(S), NEW u \in Nat, NEW v \in Nat, u <= v, v <= Len(s)
  PROVE  SubSeq(s, 1, u) \o SubSeq(s, u + 1, v) = SubSeq(s, 1, v)
<1> DEFINE a == SubSeq(s, 1, u)
           k == u + 1
           c == SubSeq(s, k, v)
           t == SubSeq(s, 1, v)
<1>1. Len(s) \in Nat BY SeqDom
<1>2. a \in Seq(S) /\ Len(a) = u - 1 + 1 /\ \A j \in 1 .. (u - 1 + 1) : a[j] = s[1 + j - 1] BY <1>1, SubList
<1>3. t \in Seq(S) /\ Len(t) = v - 1 + 1 /\ \A j \in 1 .. (v - 1 + 1) : t[j] = s[1 + j - 1] BY <1>1, SubList
<1>4. k \in 1 .. (Len(s) + 1) /\ k <= v + 1 BY <1>1
<1> HIDE DEF k
<1>5. c \in Seq(S) /\ Len(c) = v - k + 1 /\ \A j \in 1 .. (v - k + 1) : c[j] = s[k + j - 1] BY <1>1, <1>4, SubList
<1> HIDE DEF a, c, t
<1>6. a \o c \in Seq(S) /\ Len(a \o c) = Len(a) + Len(c)
      /\ \A i \in 1 .. (Len(a) + Len(c)) : (a \o c)[i] = IF i <= Len(a) THEN a[i] ELSE c[i - Len(a)]
  BY <1>2, <1>5, ConcatProperties
<1>7. Len(a) = u /\ Len(t) = v /\ Len(a) + Len(c) = v BY <1>2, <1>3, <1>5 DEF k
<1>8. ASSUME NEW i \in 1 .. v PROVE (a \o c)[i] = t[i]
  <2>1. t[i] = s[i]
    <3>1. i \in 1 .. (v - 1 + 1) /\ 1 + i - 1 = i OBVIOUS
    <3> QED BY <3>1, <1>3
  <2>2. CASE i <= u
    <3>1. i \in 1 .. (u - 1 + 1) /\ 1 + i - 1 = i BY <2>2
    <3>2. a[i] = s[i] BY <3>1, <1>2
    <3> QED BY <2>1, <2>2, <3>2, <1>6, <1>7
  <2>3. CASE ~(i <= u)
    <3>1. i - u \in 1 .. (v - k + 1) /\ k + (i - u) - 1 = i BY <2>3 DEF k
    <3>2. c[i - u] = s[i] BY <3>1, <1>5
    <3> QED BY <2>1, <2>3, <3>2, <1>6, <1>7
  <2> QED BY <2>2, <2>3
<1>9. a \o c = t BY <1>3, <1>6, <1>7, <1>8, SeqEqual
<1> QED BY <1>9 DEF a, c, t, k

\* And one entry more.
LEMMA PieceAppend ==
  ASSUME NEW S, NEW s \in Seq(S), NEW u \in Nat, u < Len(s)
  PROVE  Append(SubSeq(s, 1, u), s[u + 1]) = SubSeq(s, 1, u + 1)
<1> DEFINE a == SubSeq(s, 1, u)
           k == u + 1
           t == SubSeq(s, 1, k)
<1>1. Len(s) \in Nat BY SeqDom
<1>2. a \in Seq(S) /\ Len(a) = u - 1 + 1 /\ \A j \in 1 .. (u - 1 + 1) : a[j] = s[1 + j - 1] BY <1>1, SubList
<1>3. k \in Nat /\ k <= Len(s) /\ k \in 1 .. Len(s) /\ 1 <= k + 1 BY <1>1
<1>4. s[k] \in S BY <1>3, SeqDom
<1>b. \A j \in 1 .. k : j \in 1 .. (k - 1 + 1) /\ 1 + j - 1 = j /\ (j # k => j \in 1 .. u /\ j \in 1 .. (u - 1 + 1)) BY <1>3
<1>c. k = u + 1 /\ k - 1 + 1 = k /\ u - 1 + 1 = u BY <1>3
<1> HIDE DEF k
<1>5. t \in Seq(S) /\ Len(t) = k - 1 + 1 /\ \A j \in 1 .. (k - 1 + 1) : t[j] = s[1 + j - 1] BY <1>1, <1>3, SubList
<1> HIDE DEF a, t
<1>6. Append(a, s[k]) \in Seq(S) /\ Len(Append(a, s[k])) = k /\ Append(a, s[k])[k] = s[k]
      /\ \A j \in 1 .. u : Append(a, s[k])[j] = a[j]
  <2>1. Len(a) = u BY <1>2, <1>c
  <2> QED BY <1>2, <1>4, <1>c, <2>1
<1>7. ASSUME NEW j \in 1 .. k PROVE Append(a, s[k])[j] = t[j]
  <2>1. t[j] = s[j] BY <1>5, <1>b
  <2>2. CASE j = k BY <2>1, <2>2, <1>6
  <2>3. CASE j # k
    <3>1. a[j] = s[j] BY <2>3, <1>2, <1>b
    <3> QED BY <2>1, <2>3, <3>1, <1>6, <1>b
  <2> QED BY <2>2, <2>3
<1>8. Append(a, s[k]) = t BY <1>5, <1>6, <1>7, <1>c, SeqEqual
<1> QED BY <1>8 DEF a, t, k

\* The smaller of two naturals.
LEMMA MinTwo ==
  ASSUME NEW a \in Nat, NEW b \in Nat
  PROVE  Min({a, b}) = (IF a < b THEN a ELSE b) /\ Min({a, b}) \in Nat
<1> DEFINE T == {a, b}
<1>1. T \subseteq Nat /\ T # {} OBVIOUS
<1>2. Min(T) \in T /\ \A y \in T : Min(T) <= y
  <2> HIDE DEF T
  <2> QED BY <1>1, Least
<1> DEFINE m == Min(T)
<1>3. (m = a \/ m = b) /\ m <= a /\ m <= b BY <1>2
<1> HIDE DEF m
<1>4. m = (IF a < b THEN a ELSE b) /\ m \in Nat BY <1>3
<1> QED BY <1>4 DEF m

\* Where the walk down the chain of f is after n turns.
InChain(m, n) == IF Inl + IndExt * m < n THEN Inl + IndExt * m ELSE n
WalkAt(f, n) ==
    LET m == IF n < Len(f.chain) THEN n ELSE Len(f.chain)
    IN  [ok |-> TRUE, blk |-> IF n < Len(f.chain) THEN f.chain[n + 1] ELSE 0,
         exts |-> SubSeq(f.exts, 1, InChain(m, Len(f.exts))), chain |-> SubSeq(f.chain, 1, m)]
\* The blocks of its chain are on the volume.
ChainIn(f) == \A k \in 1 .. Len(f.chain) : f.chain[k] \in Blocks /\ f.chain[k] # 0

\* The file that a decoded record makes when its chain was read to the end.
LEMMA DecodedFields ==
  ASSUME NEW r, NEW e, e.ok = TRUE, e.blk = 0, Len(e.exts) <= MaxExt
  PROVE  /\ Decoded(r, e).ok
         /\ Decoded(r, e).file = IF r.used THEN [used |-> TRUE, type |-> r.type, size |-> r.size, name |-> r.name,
                                                 exts |-> e.exts, chain |-> e.chain, dirty |-> FALSE] ELSE NoFile
BY DEF Decoded

\* One turn of the walk over an intact chain adds that chain block's extents.
LEMMA ChainTurn ==
  ASSUME NEW d, NEW f, FileOk(f), ChainOn(d, f), ChainIn(f), NEW n \in Nat
  PROVE  ChainStep(d, WalkAt(f, n)) = WalkAt(f, n + 1)
<1> DEFINE C == f.chain
           L == Len(C)
           E == f.exts
           N == Len(E)
           u == Inl + IndExt * n
           q == n + 1
<1>1. C \in Seq(Nat) /\ E \in Seq(Ext) BY DEF FileOk, FileRec
<1>2. L \in Nat /\ N \in Nat /\ L = ChainBlocks(N) BY <1>1, SeqDom DEF ChainOn
<1> HIDE DEF L, N
<1>3. CASE n < L
  <2>1. u \in Nat /\ u < N /\ IndExt * n \in Nat BY <1>2, <1>3, ChainCount
  <2>2. q \in 1 .. L /\ q \in Nat /\ q <= L BY <1>2, <1>3
  <2>3. WalkAt(f, n) = [ok |-> TRUE, blk |-> C[q], exts |-> SubSeq(E, 1, u), chain |-> SubSeq(C, 1, n)]
    BY <1>3, <2>1 DEF WalkAt, InChain, L, N
  <2> DEFINE v == InChain(q, N)
             w == Inl + IndExt * q
  <2>4. w = u + IndExt /\ w \in Nat /\ IndExt * q \in Nat /\ IndExt > 0 /\ (n + 1) * IndExt = IndExt * q /\ n * IndExt = IndExt * n
    BY ExfsConsts, <2>1
  <2>5. v = IF w < N THEN w ELSE N BY DEF InChain
  <2> HIDE DEF w, u
  <2>6. v \in Nat /\ u <= v /\ v <= N BY <1>2, <2>1, <2>4, <2>5, ExfsConsts
  <2>7. d[C[q]] = ChainBlock(f, C, q - 1) BY <2>2 DEF ChainOn, L
  <2>8. q - 1 = n /\ (q - 1) + 1 = q /\ (q - 1) + 2 = q + 1 OBVIOUS
  <2>9. Min({w, N}) = v BY <1>2, <2>4, <2>5, MinTwo
  <2>10. ChainBlock(f, C, n) = [kind |-> "chain", next |-> IF q < L THEN C[q + 1] ELSE 0, exts |-> SubSeq(E, u + 1, v)]
    <3>1. Inl + n * IndExt + 1 = u + 1 /\ Inl + (n + 1) * IndExt = w BY <2>4 DEF u, w
    <3>2. n + 2 = q + 1 OBVIOUS
    <3>3. ChainBlock(f, C, n) = [kind |-> "chain", next |-> IF n + 1 < Len(C) THEN C[n + 2] ELSE 0,
                                  exts |-> SubSeq(f.exts, Inl + n * IndExt + 1, Min({Inl + (n + 1) * IndExt, Len(f.exts)}))]
      BY DEF ChainBlock
    <3> QED BY <3>1, <3>2, <3>3, <2>9 DEF L, N
  <2>11. C[q] \in Blocks /\ C[q] # 0 BY <2>2 DEF ChainIn, L
  <2>12. SubSeq(E, 1, u) \o SubSeq(E, u + 1, v) = SubSeq(E, 1, v) BY <1>1, <2>1, <2>6, Pieces DEF N
  <2>13. Append(SubSeq(C, 1, n), C[n + 1]) = SubSeq(C, 1, n + 1) BY <1>1, <1>3, PieceAppend DEF L
  <2> DEFINE wn == WalkAt(f, n)
             x == d[C[q]]
  <2>14. wn.ok = TRUE /\ wn.blk = C[q] /\ wn.exts = SubSeq(E, 1, u) /\ wn.chain = SubSeq(C, 1, n)
    <3> DEFINE y1 == C[q]
               y2 == SubSeq(E, 1, u)
               y3 == SubSeq(C, 1, n)
    <3>1. wn = [ok |-> TRUE, blk |-> y1, exts |-> y2, chain |-> y3] BY <2>3
    <3> HIDE DEF wn, y1, y2, y3
    <3>2. wn.ok = TRUE /\ wn.blk = y1 /\ wn.exts = y2 /\ wn.chain = y3 BY <3>1
    <3> QED BY <3>2 DEF y1, y2, y3
  <2>15. x.kind = "chain" /\ x.next = (IF q < L THEN C[q + 1] ELSE 0) /\ x.exts = SubSeq(E, u + 1, v) BY <2>7, <2>8, <2>10
  <2> HIDE DEF wn, q, v
  <2>16. ChainStep(d, wn) = [ok |-> TRUE, blk |-> x.next, exts |-> wn.exts \o x.exts, chain |-> Append(wn.chain, C[q])]
    BY <2>11, <2>14, <2>15 DEF ChainStep
  <2>17. WalkAt(f, q) = [ok |-> TRUE, blk |-> IF q < L THEN C[q + 1] ELSE 0, exts |-> SubSeq(E, 1, v), chain |-> SubSeq(C, 1, q)]
    <3>1. (IF q < L THEN q ELSE L) = q BY <2>2, <1>2
    <3> QED BY <3>1 DEF WalkAt, L, N, v
  <2>18. Append(SubSeq(C, 1, n), C[q]) = SubSeq(C, 1, q) BY <2>13 DEF q
  <2> QED BY <2>12, <2>14, <2>15, <2>16, <2>17, <2>18 DEF wn, q
<1>4. CASE ~(n < L)
  <2>1. ~(n + 1 < L) BY <1>2, <1>4
  <2>2. WalkAt(f, n) = WalkAt(f, n + 1) /\ WalkAt(f, n).blk = 0 BY <1>4, <2>1 DEF WalkAt, L
  <2> QED BY <2>2 DEF ChainStep
<1> QED BY <1>3, <1>4

\* Decoding what was encoded, with its chain intact on disk, returns the file
\* (inode_decode of inode_encode).
LEMMA DecodeEncode ==
  ASSUME NEW d, NEW f, FileOk(f), ~f.dirty, ChainOn(d, f), ChainIn(f), NEW r, r = inode_encode(f)
  PROVE  inode_decode(d, r).ok /\ inode_decode(d, r).file = f
<1> DEFINE C == f.chain
           L == Len(C)
           E == f.exts
           N == Len(E)
           S == [i \in 0 .. MaxChain |-> {WalkAt(f, i)}]
<1>1. C \in Seq(Nat) /\ E \in Seq(Ext) /\ N <= MaxExt /\ L <= MaxChain BY DEF FileOk, FileRec
<1>2. L \in Nat /\ N \in Nat /\ L = ChainBlocks(N) BY <1>1, SeqDom DEF ChainOn
<1>3. MaxChain \in Nat /\ Inl \in Nat BY ExfsConsts
<1>4. r = [used |-> f.used, type |-> f.type, size |-> f.size, name |-> f.name,
           first |-> IF C = <<>> THEN 0 ELSE C[1], exts |-> SubSeq(E, 1, Min({Inl, N}))]
  BY DEF inode_encode
<1>5. ChainStart(r) \in S[0]
  <2>1. WalkAt(f, 0) = [ok |-> TRUE, blk |-> IF 0 < L THEN C[1] ELSE 0, exts |-> SubSeq(E, 1, InChain(0, N)), chain |-> <<>>]
    <3>1. (IF 0 < L THEN 0 ELSE L) = 0 BY <1>2
    <3>2. SubSeq(C, 1, 0) = <<>> BY SubSeqEmpty
    <3>3. 0 + 1 = 1 OBVIOUS
    <3> QED BY <3>1, <3>2, <3>3 DEF WalkAt
  <2>2. InChain(0, N) = Min({Inl, N})
    <3>1. Inl + IndExt * 0 = Inl BY ExfsConsts
    <3> HIDE DEF N
    <3> QED BY <3>1, <1>2, <1>3, MinTwo DEF InChain
  <2>3. (0 < L) <=> C # <<>>
    <3>1. L = 0 <=> C = <<>> BY <1>1, EmptySeq
    <3> QED BY <3>1, <1>2
  <2>4. ChainStart(r) = [ok |-> TRUE, blk |-> IF C = <<>> THEN 0 ELSE C[1], exts |-> SubSeq(E, 1, Min({Inl, N})), chain |-> <<>>]
    BY <1>4 DEF ChainStart
  <2>5. ChainStart(r) = WalkAt(f, 0) BY <2>1, <2>2, <2>3, <2>4
  <2>6. 0 \in 0 .. MaxChain BY <1>3
  <2> QED BY <2>5, <2>6
<1>6. ASSUME NEW i \in 1 .. MaxChain, NEW m \in S[i - 1] PROVE ChainStep(d, m) \in S[i]
  <2>1. i - 1 \in Nat /\ (i - 1) + 1 = i /\ i - 1 \in 0 .. MaxChain /\ i \in 0 .. MaxChain BY <1>3
  <2>2. m = WalkAt(f, i - 1) BY <2>1
  <2>3. ChainStep(d, WalkAt(f, i - 1)) = WalkAt(f, (i - 1) + 1) BY <2>1, ChainTurn
  <2> QED BY <2>1, <2>2, <2>3
<1>7. PICK e \in S[MaxChain] : inode_decode(d, r) = Decoded(r, e)
  <2> HIDE DEF S
  <2> QED BY <1>3, <1>5, <1>6, LoopDecode
<1>8. e = WalkAt(f, MaxChain)
  <2>1. MaxChain \in 0 .. MaxChain BY <1>3
  <2> QED BY <2>1
<1>9. e.ok = TRUE /\ e.blk = 0 /\ e.exts = E /\ e.chain = C
  <2>1. ~(MaxChain < L) BY <1>1, <1>2, <1>3
  <2>2. InChain(L, N) = N
    <3>1. N <= Inl + IndExt * L /\ IndExt * L \in Nat BY <1>2, ChainCount
    <3> HIDE DEF N, L
    <3> QED BY <3>1, <1>2, <1>3 DEF InChain
  <2>3. SubSeq(E, 1, N) = E /\ SubSeq(C, 1, L) = C BY <1>1, WholeList
  <2>4. WalkAt(f, MaxChain) = [ok |-> TRUE, blk |-> 0, exts |-> E, chain |-> C] BY <2>1, <2>2, <2>3 DEF WalkAt
  <2> QED BY <2>4, <1>8
<1>10. inode_decode(d, r).ok BY <1>1, <1>7, <1>9, DecodedFields
<1>11. inode_decode(d, r).file = f
  <2>1. inode_decode(d, r).file = IF f.used THEN [used |-> TRUE, type |-> f.type, size |-> f.size, name |-> f.name,
                                                  exts |-> E, chain |-> C, dirty |-> FALSE] ELSE NoFile
    <3>1. r.used = f.used /\ r.type = f.type /\ r.size = f.size /\ r.name = f.name BY <1>4
    <3>2. inode_decode(d, r).file = IF r.used THEN [used |-> TRUE, type |-> r.type, size |-> r.size, name |-> r.name,
                                                 exts |-> e.exts, chain |-> e.chain, dirty |-> FALSE] ELSE NoFile
      BY <1>1, <1>7, <1>9, DecodedFields
    <3> QED BY <3>1, <3>2, <1>9
  <2>2. f = [used |-> f.used, type |-> f.type, size |-> f.size, name |-> f.name, exts |-> E, chain |-> C, dirty |-> FALSE]
    BY DEF FileOk, FileRec
  <2>3. CASE f.used
    <3>1. f.used = TRUE BY <2>3 DEF FileOk, FileRec
    <3> QED BY <2>1, <2>2, <3>1
  <2>4. CASE ~f.used
    <3>1. f.used = FALSE /\ f.type = "file" /\ f.size = 0 /\ f.name = <<>> /\ E = <<>> /\ C = <<>> BY <2>4 DEF FileOk, FileRec
    <3> QED BY <2>1, <2>2, <2>4, <3>1 DEF NoFile
  <2> QED BY <2>3, <2>4
<1> QED BY <1>10, <1>11

-----------------------------------------------------------------------------
(* The volume on disk.                                                     *)

\* The two table areas lie between the superblocks and the map, apart.
LEMMA Areas ==
  ASSUME NEW gen \in Nat
  PROVE  /\ gen % 2 \in {0, 1} /\ (gen + 1) % 2 = 1 - (gen % 2)
         /\ \A b \in 0 .. (ITabBlocks - 1) :
              /\ Area(gen) + b \in 2 .. (DataStart - 1)
              /\ \A c \in 0 .. (ITabBlocks - 1) : Area(gen + 1) + c # Area(gen) + b /\ (Area(gen) + c = Area(gen) + b => c = b)
<1>1. gen % 2 \in {0, 1} /\ (gen + 1) % 2 = 1 - (gen % 2) OBVIOUS
<1>2. ITabBlocks \in Nat /\ DataStart = 2 + 2 * ITabBlocks BY ExfsConsts
<1>3. CASE gen % 2 = 0
  <2>1. Area(gen) = 2 /\ Area(gen + 1) = 2 + ITabBlocks BY <1>1, <1>2, <1>3 DEF Area
  <2> QED BY <1>1, <1>2, <2>1
<1>4. CASE gen % 2 = 1
  <2>1. Area(gen) = 2 + ITabBlocks /\ Area(gen + 1) = 2 BY <1>1, <1>2, <1>4 DEF Area
  <2> QED BY <1>1, <1>2, <2>1
<1> QED BY <1>1, <1>3, <1>4

\* Every inode has its place in the table.
LEMMA PageOf ==
  ASSUME NEW i \in Inodes
  PROVE  i \div (NInodes \div ITabBlocks) \in 0 .. (ITabBlocks - 1)
<1> DEFINE q == NInodes \div ITabBlocks
           u == i \div q
<1>1. NInodes \in Nat /\ NInodes > 0 /\ ITabBlocks \in Nat /\ ITabBlocks > 0 BY ExfsConsts
<1>2. i \in Nat /\ i < NInodes BY <1>1 DEF Inodes
<1>3. NInodes % ITabBlocks = 0 BY ExfsAssumption
<1>4. q \in Nat /\ NInodes = ITabBlocks * q + 0 BY <1>1, <1>3, DivMod
<1> HIDE DEF q
<1>5. q > 0
  <2>1. CASE q = 0
    <3>1. ITabBlocks * 0 = 0 BY <1>1
    <3> QED BY <2>1, <3>1, <1>1, <1>4
  <2> QED BY <2>1, <1>4
<1>6. u \in Nat /\ i % q \in Nat /\ i = q * u + (i % q) BY <1>2, <1>4, <1>5, DivMod
<1> HIDE DEF u
<1>7. u < ITabBlocks
  <2> SUFFICES ASSUME ~(u < ITabBlocks) PROVE FALSE OBVIOUS
  <2>1. ITabBlocks < u + 1 /\ u + 1 \in Nat BY <1>1, <1>6
  <2>2. q * ITabBlocks + q <= q * (u + 1) BY <2>1, <1>1, <1>4, <1>5, DivLess
  <2>3. q * (u + 1) = q * u + q /\ q * ITabBlocks = ITabBlocks * q /\ q * u \in Nat /\ ITabBlocks * q \in Nat BY <1>1, <1>4, <1>6
  <2> QED BY <2>2, <2>3, <1>2, <1>4, <1>6
<1>8. u \in 0 .. (ITabBlocks - 1) BY <1>1, <1>6, <1>7
<1> QED BY <1>8 DEF u, q

\* What is held lies on the volume, past the fixed areas.
LEMMA OnVolumeFile ==
  ASSUME NEW f, f.exts \in Seq(Ext), f.chain \in Seq(Nat),
         CoveredBy(DeferredBy(f)) \subseteq Blocks, CoveredBy(DeferredBy(f)) \cap Reserved = {}
  PROVE  OnVolume(f) /\ ChainIn(f)
<1>1. \A b \in CoveredBy(DeferredBy(f)) : b \in Blocks /\ b \in Nat /\ b >= DataStart /\ b < Total /\ b # 0
  <2> SUFFICES ASSUME NEW b \in CoveredBy(DeferredBy(f)) PROVE b \in Blocks /\ b \in Nat /\ b >= DataStart /\ b < Total /\ b # 0
    OBVIOUS
  <2>1. b \in Blocks /\ b \notin Reserved OBVIOUS
  <2>2. b \in Nat /\ b < Total BY <2>1, Consts DEF Blocks
  <2>3. b \notin 0 .. (DataStart - 1) BY <2>1, FixedReserved
  <2>4. DataStart \in Nat /\ DataStart > 0 BY ExfsConsts
  <2> QED BY <2>1, <2>2, <2>3, <2>4
<1>2. CoveredBy(DeferredBy(f)) = CoveredBy(f.exts) \cup CoveredBy(ChainList(f.chain))
      /\ \A k \in 1 .. Len(f.chain) : f.chain[k] \in CoveredBy(DeferredBy(f)) BY DeferredFacts
<1>3. ASSUME NEW i \in DOMAIN f.exts
      PROVE  f.exts[i].len > 0 /\ f.exts[i].start >= DataStart /\ f.exts[i].start + f.exts[i].len <= Total
  <2> DEFINE e == f.exts[i]
             a == e.start
             l == e.len
  <2>1. e \in Ext BY SeqDom
  <2>2. a \in Nat /\ l \in Nat /\ l > 0 BY <2>1, SpanCard
  <2>3. ExtSpan(e) = a .. (a + l - 1) /\ ExtSpan(e) \subseteq CoveredBy(f.exts) BY CoverAt DEF ExtSpan
  <2> HIDE DEF e, a, l
  <2>4. a \in ExtSpan(e) /\ a + l - 1 \in ExtSpan(e) BY <2>2, <2>3
  <2>5. a >= DataStart /\ a + l - 1 < Total BY <1>1, <1>2, <2>3, <2>4
  <2>6. l > 0 /\ a >= DataStart /\ a + l <= Total BY <2>2, <2>5, Consts
  <2> QED BY <2>6 DEF e, a, l
<1>4. DOMAIN f.chain = 1 .. Len(f.chain) BY SeqDom
<1>5. \A k \in 1 .. Len(f.chain) : f.chain[k] \in Blocks /\ f.chain[k] # 0 /\ f.chain[k] >= DataStart /\ f.chain[k] < Total BY <1>1, <1>2
<1>6. OnVolume(f) BY <1>3, <1>4, <1>5 DEF OnVolume
<1>7. ChainIn(f) BY <1>5 DEF ChainIn
<1> QED BY <1>6, <1>7

\* The lists of a file, and their bounds.
LEMMA FileLists ==
  ASSUME NEW f, FileOk(f)
  PROVE  /\ f.exts \in Seq(Ext) /\ f.chain \in Seq(Nat) /\ f.used \in BOOLEAN /\ f.dirty \in BOOLEAN
         /\ Len(f.exts) \in Nat /\ Len(f.chain) \in Nat /\ Len(f.exts) <= MaxExt /\ Len(f.chain) <= MaxChain
<1>1. f.exts \in Seq(Ext) /\ f.chain \in Seq(Nat) /\ f.used \in BOOLEAN /\ f.dirty \in BOOLEAN BY DEF FileOk, FileRec
<1>2. Len(f.exts) \in Nat /\ Len(f.chain) \in Nat BY <1>1, SeqDom
<1> QED BY <1>1, <1>2 DEF FileOk

\* The files of a volume on disk lie on it.
LEMMA HeldFiles ==
  ASSUME NEW used, NEW fs, NEW w, NEW r, Claims(used, Holdings(fs, w, r)), used \subseteq Blocks, NEW i \in Inodes, FileOk(fs[i])
  PROVE  OnVolume(fs[i]) /\ ChainIn(fs[i])
<1>1. CoveredBy(DeferredBy(fs[i])) \subseteq used /\ CoveredBy(DeferredBy(fs[i])) \cap Reserved = {} BY ClaimsAt
<1>2. fs[i].exts \in Seq(Ext) /\ fs[i].chain \in Seq(Nat) BY FileLists
<1> QED BY <1>1, <1>2, OnVolumeFile

\* The map imported at mount, as its fields.
LEMMA ImportFields ==
  ASSUME NEW slot, NEW free
  PROVE  MapIs(gmap_import(slot, free), slot, [g \in Groups |-> FALSE], free, <<>>)
BY DEF gmap_import, gmap_init, MapIs, MapRec

\* The superblock as encoded, field by field.
LEMMA SbFields ==
  ASSUME NEW x, NEW gen, NEW slot, NEW free, x = sb_encode(gen, slot, free)
  PROVE  x.kind = "sb" /\ x.gen = gen /\ x.itab = Area(gen) /\ x.slot = slot /\ x.free = free
BY DEF sb_encode

\* What mount makes of the superblock at s.
PageAt(d, s, i) == d[d[s].itab + i \div (NInodes \div ITabBlocks)]
DecAt(d, s) == [i \in Inodes |-> inode_decode(d, PageAt(d, s, i).recs[i])]
AdoptAt(d, s) ==
    IF \E i \in Inodes : PageAt(d, s, i).kind # "itab" THEN [found |-> FALSE]
    ELSE IF \E i \in Inodes : ~DecAt(d, s)[i].ok \/ ~OnVolume(DecAt(d, s)[i].file) THEN [found |-> FALSE]
    ELSE [found |-> TRUE, sb |-> d[s], files |-> [i \in Inodes |-> DecAt(d, s)[i].file]]
Valid(d) == {s \in {0, 1} : sb_decode(d[s])}
Best(d) == CHOOSE s \in Valid(d) : \A t \in Valid(d) : d[s].gen >= d[t].gen

\* The mount with both superblocks readable: the best valid one, if there is one.
LEMMA AdoptIs ==
  ASSUME NEW d
  PROVE  Adopt(d, {0, 1}) = IF Valid(d) = {} THEN [found |-> FALSE] ELSE AdoptAt(d, Best(d))
BY DEF Adopt, Valid, Best, AdoptAt, DecAt, PageAt

\* Without a superblock nothing is mounted.
LEMMA AdoptNone ==
  ASSUME NEW d, NoSb(d)
  PROVE  Adopt(d, {0, 1}).found = FALSE
<1>1. Valid(d) = {} BY DEF NoSb, Valid, sb_decode
<1>2. Adopt(d, {0, 1}) = [found |-> FALSE] BY <1>1, AdoptIs
<1> QED BY <1>2

\* A disk that holds the tree fs at superblock s mounts as fs.
LEMMA AdoptHolds ==
  ASSUME NEW d, NEW s, NEW fs, HoldsAt(d, s, fs)
  PROVE  Adopt(d, {0, 1}) = [found |-> TRUE, sb |-> d[s], files |-> [i \in Inodes |-> fs[i]]]
<1>1. s \in {0, 1} /\ d[s] = sb_encode(d[s].gen, d[s].slot, d[s].free) /\ d[s].gen \in Nat BY DEF HoldsAt
<1>2. d[s].kind = "sb" /\ d[s].itab = Area(d[s].gen) BY <1>1, SbFields
<1>3. MapGood(OnDiskMap(d, s), d) BY DEF HoldsAt
<1>4. d[s].slot \in [Groups -> {0, 1}]
  <2>1. OnDiskMap(d, s).slot = d[s].slot BY ImportFields DEF OnDiskMap, MapIs
  <2> QED BY <2>1, <1>3 DEF MapGood, MapTyped
<1>5. s \in Valid(d) BY <1>1, <1>2, <1>4 DEF Valid, sb_decode, fields_ok
<1>6. \A t \in Valid(d) : t = s \/ (t = 1 - s /\ d[t].gen \in Nat /\ d[t].gen < d[s].gen)
  <2> SUFFICES ASSUME NEW t \in Valid(d), t # s PROVE t = 1 - s /\ d[t].gen \in Nat /\ d[t].gen < d[s].gen OBVIOUS
  <2>1. t \in {0, 1} /\ d[t].kind = "sb" BY DEF Valid, sb_decode
  <2>2. t = 1 - s BY <2>1, <1>1
  <2> QED BY <2>1, <2>2 DEF HoldsAt
<1>7. Best(d) = s
  <2>1. \A t \in Valid(d) : d[s].gen >= d[t].gen BY <1>1, <1>6
  <2>2. Best(d) \in Valid(d) /\ \A t \in Valid(d) : d[Best(d)].gen >= d[t].gen
    <3> DEFINE Q(x) == \A t \in Valid(d) : d[x].gen >= d[t].gen
    <3>1. \E x \in Valid(d) : Q(x) BY <1>5, <2>1
    <3>2. Best(d) = CHOOSE x \in Valid(d) : Q(x) BY DEF Best
    <3> QED BY <3>1, <3>2
  <2>3. d[Best(d)].gen >= d[s].gen BY <2>2, <1>5
  <2> QED BY <2>2, <2>3, <1>1, <1>6
<1>8. ASSUME NEW i \in Inodes
      PROVE  PageAt(d, s, i).kind = "itab" /\ DecAt(d, s)[i].ok /\ DecAt(d, s)[i].file = fs[i] /\ OnVolume(fs[i])
  <2> DEFINE b == i \div (NInodes \div ITabBlocks)
  <2>1. b \in 0 .. (ITabBlocks - 1) BY PageOf
  <2>2. PageAt(d, s, i) = ItabPage(fs, b) BY <1>2, <2>1 DEF HoldsAt, PagesOn, PageAt
  <2>3. i \in InodesOf(b) BY DEF InodesOf
  <2>4. PageAt(d, s, i).kind = "itab" /\ PageAt(d, s, i).recs[i] = inode_encode(fs[i]) BY <2>2, <2>3 DEF ItabPage
  <2>5. FileOk(fs[i]) /\ ~fs[i].dirty /\ ChainOn(d, fs[i]) BY DEF HoldsAt
  <2>6. OnVolume(fs[i]) /\ ChainIn(fs[i])
    <3>1. Claims(InUse(d, s), Holdings(fs, <<>>, <<>>)) BY DEF HoldsAt
    <3>2. InUse(d, s) \subseteq Blocks BY <1>3, UsedIn DEF InUse
    <3> QED BY <3>1, <3>2, <2>5, HeldFiles
  <2>7. DecAt(d, s)[i] = inode_decode(d, inode_encode(fs[i])) BY <2>4 DEF DecAt
  <2>8. inode_decode(d, inode_encode(fs[i])).ok /\ inode_decode(d, inode_encode(fs[i])).file = fs[i] BY <2>5, <2>6, DecodeEncode
  <2> QED BY <2>4, <2>6, <2>7, <2>8
<1>9. AdoptAt(d, s) = [found |-> TRUE, sb |-> d[s], files |-> [i \in Inodes |-> DecAt(d, s)[i].file]] BY <1>8 DEF AdoptAt
<1>10. [i \in Inodes |-> DecAt(d, s)[i].file] = [i \in Inodes |-> fs[i]] BY <1>8
<1>11. Adopt(d, {0, 1}) = AdoptAt(d, s) BY <1>5, <1>7, AdoptIs
<1> QED BY <1>9, <1>10, <1>11

\* An imported map reads each group's bits from the slot the superblock names.
LEMMA ImportBits ==
  ASSUME NEW m, NEW slot, NEW free, m = gmap_import(slot, free), NEW d, NEW g \in Groups
  PROVE  NewestSlot(m, g) = slot[g] /\ GroupBits(m, d, g) = BitsOf(d[slot_block(g, slot[g])])
<1>1. m.slot = slot /\ m.written = [h \in Groups |-> FALSE] /\ m.cache = <<>> BY ImportFields DEF MapIs
<1>2. NewestSlot(m, g) = slot[g] BY <1>1 DEF NewestSlot
<1>3. DOMAIN m.cache = {} BY <1>1
<1>4. Cached(m, g) = {} BY <1>3 DEF Cached
<1> QED BY <1>2, <1>4 DEF GroupBits

\* The blocks that a volume on disk does not rest on.
Spare(d, s, fs, b) ==
    /\ b # s
    /\ \A k \in 0 .. (ITabBlocks - 1) : b # Area(d[s].gen) + k
    /\ \A g \in Groups : b # slot_block(g, d[s].slot[g])
    /\ \A i \in Inodes : b \notin CoveredBy(DeferredBy(fs[i]))

\* A disk goes on holding its tree when only spare blocks change, and no superblock
\* appears beside it.
LEMMA HoldsFrame ==
  ASSUME NEW d, NEW s, NEW fs, HoldsAt(d, s, fs), NEW e, DOMAIN e = Blocks,
         \A b \in Blocks : e[b] = d[b] \/ Spare(d, s, fs, b),
         e[1 - s].kind = "sb" => e[1 - s] = d[1 - s]
  PROVE  HoldsAt(e, s, fs) /\ InUse(e, s) = InUse(d, s) /\ e[s] = d[s]
<1>1. s \in {0, 1} /\ d[s].gen \in Nat /\ d[s].gen \in 1 .. MaxGen BY DEF HoldsAt
<1>2. \A b \in 0 .. (DataStart - 1) : b \in Blocks BY FixedReserved
<1>3. e[s] = d[s]
  <2>1. s \in 0 .. (DataStart - 1) BY <1>1, ExfsConsts
  <2> QED BY <2>1, <1>2 DEF Spare
<1> DEFINE m == OnDiskMap(d, s)
           gen == d[s].gen
           slot == d[s].slot
<1>4. OnDiskMap(e, s) = m BY <1>3 DEF OnDiskMap
<1>5. MapGood(m, d) BY DEF HoldsAt
<1>6. MapTyped(m) /\ NewestOn(m) /\ Counted(m, d) BY <1>5 DEF MapGood
<1>7. \A g \in Groups : NewestSlot(m, g) = slot[g] /\ GroupBits(m, d, g) = BitsOf(d[slot_block(g, slot[g])])
      /\ GroupBits(m, e, g) = BitsOf(e[slot_block(g, slot[g])])
  BY ImportBits DEF OnDiskMap
<1>8. \A g \in Groups : e[slot_block(g, slot[g])] = d[slot_block(g, slot[g])]
  <2> SUFFICES ASSUME NEW g \in Groups PROVE e[slot_block(g, slot[g])] = d[slot_block(g, slot[g])] OBVIOUS
  <2>1. slot_block(g, slot[g]) \in Blocks BY <1>6, <1>7 DEF NewestOn
  <2> QED BY <2>1 DEF Spare
<1>9. \A g \in Groups : GroupBits(m, e, g) = GroupBits(m, d, g) BY <1>7, <1>8
<1>10. DOMAIN m.cache = {}
  <2>1. m.cache = <<>> BY ImportFields DEF OnDiskMap, MapIs
  <2> QED BY <2>1
<1> HIDE DEF m
<1>11. MapGood(m, e)
  <2>1. CleanIsDisk(m, e) BY <1>10 DEF CleanIsDisk
  <2>2. Counted(m, e) BY <1>6, <1>9 DEF Counted
  <2> QED BY <2>1, <2>2, <1>6 DEF MapGood
<1>12. InUse(e, s) = InUse(d, s)
  <2>1. UsedBlocks(m, e) = UsedBlocks(m, d) BY <1>9, SameUsed
  <2> QED BY <2>1, <1>4 DEF InUse, m
<1>13. \A k \in 0 .. (ITabBlocks - 1) : e[Area(gen) + k] = d[Area(gen) + k]
  <2> SUFFICES ASSUME NEW k \in 0 .. (ITabBlocks - 1) PROVE e[Area(gen) + k] = d[Area(gen) + k] OBVIOUS
  <2>1. Area(gen) + k \in 2 .. (DataStart - 1) BY <1>1, Areas
  <2>2. Area(gen) + k \in 0 .. (DataStart - 1) BY <2>1, Consts
  <2>3. Area(gen) + k \in Blocks BY <2>2, <1>2
  <2> QED BY <2>3 DEF Spare
<1>14. PagesOn(e, e[s].gen, ITabBlocks, fs) BY <1>3, <1>13 DEF HoldsAt, PagesOn
<1>15. ASSUME NEW i \in Inodes PROVE ChainOn(e, fs[i])
  <2>1. FileOk(fs[i]) /\ ChainOn(d, fs[i]) BY DEF HoldsAt
  <2>2. Claims(InUse(d, s), Holdings(fs, <<>>, <<>>)) BY DEF HoldsAt
  <2>3. CoveredBy(DeferredBy(fs[i])) \subseteq InUse(d, s) BY <2>2, ClaimsAt
  <2>4. InUse(d, s) \subseteq Blocks BY <1>5, UsedIn DEF InUse, m
  <2>5. \A k \in 1 .. Len(fs[i].chain) : fs[i].chain[k] \in CoveredBy(DeferredBy(fs[i])) BY <2>1, FileLists, DeferredFacts
  <2>6. \A k \in 1 .. Len(fs[i].chain) : e[fs[i].chain[k]] = d[fs[i].chain[k]] BY <2>3, <2>4, <2>5 DEF Spare
  <2> QED BY <2>1, <2>6 DEF ChainOn
<1>16. e[1 - s].kind = "sb" => e[1 - s].gen \in Nat /\ e[1 - s].gen < e[s].gen BY <1>3 DEF HoldsAt
<1>17. HoldsAt(e, s, fs)
  <2>1. e[s] = sb_encode(e[s].gen, e[s].slot, e[s].free) /\ e[s].gen \in 1 .. MaxGen /\ e[s].gen % 2 = s BY <1>3 DEF HoldsAt
  <2>2. fs = [i \in Inodes |-> fs[i]] BY DEF HoldsAt
  <2>3. \A i \in Inodes : FileOk(fs[i]) /\ ~fs[i].dirty /\ ChainOn(e, fs[i]) BY <1>15 DEF HoldsAt
  <2>4. MapGood(OnDiskMap(e, s), e) BY <1>4, <1>11
  <2>5. Claims(InUse(e, s), Holdings(fs, <<>>, <<>>)) BY <1>12 DEF HoldsAt
  <2> HIDE DEF gen, slot
  <2> QED BY <1>1, <1>14, <1>16, <2>1, <2>2, <2>3, <2>4, <2>5 DEF HoldsAt
<1> QED BY <1>3, <1>12, <1>17

\* The blocks that a transaction writes are spare: pending map blocks, blocks
\* that are not in use, the other table area.
LEMMA SpareBlocks ==
  ASSUME NEW d, NEW s, NEW fs, HoldsAt(d, s, fs), NEW b \in Blocks,
         \/ b \in Pending(d[s].slot)
         \/ b \notin InUse(d, s)
         \/ \E k \in 0 .. (ITabBlocks - 1) : b = Area(d[s].gen + 1) + k
  PROVE  Spare(d, s, fs, b) /\ b \notin {0, 1}
<1> DEFINE gen == d[s].gen
           slot == d[s].slot
           m == OnDiskMap(d, s)
<1>1. s \in {0, 1} /\ gen \in Nat BY DEF HoldsAt
<1>2. MapGood(m, d) BY DEF HoldsAt
<1>3. m.slot = slot BY ImportFields DEF OnDiskMap, MapIs
<1>4. slot \in [Groups -> {0, 1}] BY <1>2, <1>3 DEF MapGood, MapTyped
<1>5. \A g \in Groups : slot_block(g, slot[g]) \in Blocks
  <2>1. \A g \in Groups : NewestSlot(m, g) = slot[g] BY ImportBits DEF OnDiskMap
  <2> QED BY <2>1, <1>2 DEF MapGood, NewestOn
<1>6. Claims(InUse(d, s), Holdings(fs, <<>>, <<>>)) BY DEF HoldsAt
<1>7. Reserved \subseteq InUse(d, s)
      /\ \A i \in Inodes : CoveredBy(DeferredBy(fs[i])) \subseteq InUse(d, s) /\ CoveredBy(DeferredBy(fs[i])) \cap Reserved = {}
  BY <1>6, ClaimsAt
<1>8. \A x \in 0 .. (DataStart - 1) : x \in Reserved BY FixedReserved
<1>9. \A g \in Groups : slot_block(g, slot[g]) \in Reserved BY <1>4, <1>5, FixedReserved
<1>10. \A k \in 0 .. (ITabBlocks - 1) : Area(gen) + k \in 2 .. (DataStart - 1) BY <1>1, Areas
<1>11. 0 \in 0 .. (DataStart - 1) /\ 1 \in 0 .. (DataStart - 1) /\ DataStart \in Nat /\ DataStart >= 2 BY ExfsConsts
<1>12. \A k \in 0 .. (ITabBlocks - 1) : Area(gen) + k \in Reserved
  <2> SUFFICES ASSUME NEW k \in 0 .. (ITabBlocks - 1) PROVE Area(gen) + k \in Reserved OBVIOUS
  <2>1. Area(gen) + k \in 0 .. (DataStart - 1) BY <1>10, <1>11
  <2> QED BY <2>1, <1>8
<1> HIDE DEF gen, slot, m
<1>13. CASE b \notin InUse(d, s)
  <2>1. b \notin Reserved BY <1>13, <1>7
  <2>2. b \notin {0, 1} BY <2>1, <1>8, <1>11
  <2> QED BY <2>1, <2>2, <1>1, <1>7, <1>9, <1>12, <1>13 DEF Spare, gen, slot
<1>14. CASE b \in Pending(slot)
  <2>1. PICK h \in Groups : b = slot_block(h, 1 - slot[h]) BY <1>14 DEF Pending
  <2>2. slot[h] \in {0, 1} /\ 1 - slot[h] \in {0, 1} /\ 1 - slot[h] # slot[h] BY <1>4
  <2>3. b >= DataStart /\ b \in Nat BY <2>1, <2>2, SlotFacts
  <2>4. b \in Reserved BY <2>1, <2>2, FixedReserved
  <2>5. b \notin {0, 1} /\ \A k \in 0 .. (ITabBlocks - 1) : b # Area(gen) + k BY <2>3, <1>10, <1>11
  <2>6. ASSUME NEW g \in Groups, b = slot_block(g, slot[g]) PROVE FALSE
    <3>1. slot[g] \in {0, 1} BY <1>4
    <3>2. g = h /\ slot[g] = 1 - slot[h] BY <2>1, <2>2, <2>6, <3>1, SlotsApart
    <3> QED BY <3>2, <2>2
  <2>7. \A i \in Inodes : b \notin CoveredBy(DeferredBy(fs[i])) BY <2>4, <1>7
  <2> QED BY <2>5, <2>6, <2>7, <1>1 DEF Spare, gen, slot
<1>15. CASE \E k \in 0 .. (ITabBlocks - 1) : b = Area(gen + 1) + k
  <2>1. PICK k \in 0 .. (ITabBlocks - 1) : b = Area(gen + 1) + k BY <1>15
  <2>2. gen + 1 \in Nat BY <1>1
  <2>3. b \in 2 .. (DataStart - 1) BY <2>1, <2>2, Areas
  <2>4. b \in Reserved
    <3>1. b \in 0 .. (DataStart - 1) BY <2>3, <1>11
    <3> QED BY <3>1, <1>8
  <2>5. \A c \in 0 .. (ITabBlocks - 1) : b # Area(gen) + c BY <1>1, <2>1, Areas
  <2>6. ASSUME NEW g \in Groups, b = slot_block(g, slot[g]) PROVE FALSE
    <3>1. slot_block(g, slot[g]) >= DataStart /\ slot_block(g, slot[g]) \in Nat BY <1>4, SlotFacts
    <3> QED BY <3>1, <2>6, <2>3, <1>11
  <2>7. \A i \in Inodes : b \notin CoveredBy(DeferredBy(fs[i])) BY <2>4, <1>7
  <2>8. b \notin {0, 1} BY <2>3
  <2> QED BY <2>5, <2>6, <2>7, <2>8, <1>1 DEF Spare, gen, slot
<1> QED BY <1>13, <1>14, <1>15 DEF gen, slot

-----------------------------------------------------------------------------
(* What a write outside the map blocks leaves alone.                       *)

\* None of the blocks is a map block.
NoSlots(A) == \A g \in Groups, s \in {0, 1} : slot_block(g, s) \in Blocks => slot_block(g, s) \notin A

\* Blocks outside the reserved ones, and those of the fixed areas, are not.
LEMMA NoSlotsIn ==
  ASSUME NEW A, A \cap Reserved = {} \/ A \subseteq 0 .. (DataStart - 1)
  PROVE  NoSlots(A)
<1> SUFFICES ASSUME NEW g \in Groups, NEW s \in {0, 1}, slot_block(g, s) \in Blocks, slot_block(g, s) \in A
             PROVE  FALSE
  BY DEF NoSlots
<1>1. slot_block(g, s) \in Reserved BY FixedReserved
<1>2. slot_block(g, s) \in Nat /\ slot_block(g, s) >= DataStart /\ DataStart \in Nat BY SlotFacts, Consts
<1> QED BY <1>1, <1>2

\* A map keeps its groups when other blocks are written.
LEMMA MapFrame ==
  ASSUME NEW m, NEW d, MapGood(m, d), NEW e, NEW A, Changed(d, e, A), NoSlots(A)
  PROVE  SameGroups(m, d, m, e) /\ UsedBlocks(m, e) = UsedBlocks(m, d)
<1>1. MapTyped(m) /\ NewestOn(m) /\ CleanIsDisk(m, d) BY DEF MapGood
<1>2. \A g \in Groups : e[slot_block(g, NewestSlot(m, g))] = d[slot_block(g, NewestSlot(m, g))]
  <2> TAKE g \in Groups
  <2>1. NewestSlot(m, g) \in {0, 1} /\ slot_block(g, NewestSlot(m, g)) \in Blocks BY <1>1, NewestType DEF NewestOn
  <2> QED BY <2>1 DEF Changed, NoSlots
<1>3. CleanIsDisk(m, e)
  <2> SUFFICES ASSUME NEW i \in DOMAIN m.cache, ~m.cache[i].dirty
               PROVE  m.cache[i].bits = BitsOf(e[slot_block(m.cache[i].g, NewestSlot(m, m.cache[i].g))])
    BY DEF CleanIsDisk
  <2>1. m.cache[i].g \in Groups BY <1>1, EntryAt
  <2> QED BY <2>1, <1>1, <1>2 DEF CleanIsDisk
<1>4. \A g \in Groups : GroupBits(m, e, g) = GroupBits(m, d, g)
  BY <1>2 DEF GroupBits
<1>5. SameGroups(m, d, m, e) BY <1>1, <1>3, <1>4, KeepsGroups
<1> QED BY <1>4, <1>5, SameUsed

\* The chain of a file is where it was when blocks outside the file are written.
LEMMA ChainFrame ==
  ASSUME NEW f, f.exts \in Seq(Ext), f.chain \in Seq(Nat), CoveredBy(DeferredBy(f)) \subseteq Blocks,
         NEW d, ChainOn(d, f), NEW e, NEW A, Changed(d, e, A), A \cap CoveredBy(DeferredBy(f)) = {}
  PROVE  ChainOn(e, f)
<1>1. \A k \in 1 .. Len(f.chain) : f.chain[k] \in CoveredBy(DeferredBy(f)) BY DeferredFacts
<1>2. \A k \in 1 .. Len(f.chain) : e[f.chain[k]] = d[f.chain[k]] BY <1>1 DEF Changed
<1> QED BY <1>2 DEF ChainOn

-----------------------------------------------------------------------------
(* The commit point.                                                       *)

Cleaned(f) == [f EXCEPT !.dirty = FALSE]

\* A file without its dirty mark is the same file.
LEMMA CleanedFile ==
  ASSUME NEW f, FileOk(f)
  PROVE  /\ FileOk(Cleaned(f)) /\ ~Cleaned(f).dirty
         /\ Cleaned(f).used = f.used /\ Cleaned(f).type = f.type /\ Cleaned(f).size = f.size /\ Cleaned(f).name = f.name
         /\ Cleaned(f).exts = f.exts /\ Cleaned(f).chain = f.chain
<1> DEFINE n == Cleaned(f)
<1>1. FileRec(f) BY DEF FileOk
<1>2. n.used = f.used /\ n.type = f.type /\ n.size = f.size /\ n.name = f.name /\ n.exts = f.exts /\ n.chain = f.chain /\ n.dirty = FALSE
  BY <1>1 DEF Cleaned, FileRec
<1>3. FileRec(n) BY <1>1, <1>2 DEF FileRec, Cleaned
<1> HIDE DEF n
<1>4. FileOk(n) BY <1>2, <1>3 DEF FileOk
<1> QED BY <1>2, <1>4 DEF n

\* What the disk and the map say of a file does not depend on the mark.
LEMMA CleanedSame ==
  ASSUME NEW f, FileOk(f), NEW d
  PROVE  /\ DeferredBy(Cleaned(f)) = DeferredBy(f) /\ inode_encode(Cleaned(f)) = inode_encode(f)
         /\ ChainOn(d, Cleaned(f)) <=> ChainOn(d, f)
<1> DEFINE n == Cleaned(f)
<1>1. n.used = f.used /\ n.type = f.type /\ n.size = f.size /\ n.name = f.name /\ n.exts = f.exts /\ n.chain = f.chain
  BY CleanedFile
<1> HIDE DEF n
<1>2. DeferredBy(n) = DeferredBy(f) /\ inode_encode(n) = inode_encode(f) BY <1>1 DEF DeferredBy, inode_encode
<1>3. \A c, k : ChainBlock(n, c, k) = ChainBlock(f, c, k) BY <1>1 DEF ChainBlock
<1>4. ChainOn(d, n) <=> ChainOn(d, f) BY <1>1, <1>3 DEF ChainOn
<1> QED BY <1>2, <1>4 DEF n

\* Cleaning the dirty flags of a tree changes neither its blocks nor its table pages.
LEMMA CleanAll ==
  ASSUME NEW fs, \A i \in Inodes : FileOk(fs[i]), NEW d
  PROVE  /\ Clean(fs) = [i \in Inodes |-> Clean(fs)[i]]
         /\ \A i \in Inodes : /\ Clean(fs)[i] = Cleaned(fs[i]) /\ FileOk(Clean(fs)[i]) /\ ~Clean(fs)[i].dirty
                              /\ ChainOn(d, Clean(fs)[i]) <=> ChainOn(d, fs[i])
         /\ \A w, r : Holdings(Clean(fs), w, r) = Holdings(fs, w, r)
         /\ \A b : ItabPage(Clean(fs), b) = ItabPage(fs, b)
<1> DEFINE gs == Clean(fs)
<1>1. gs = [i \in Inodes |-> Cleaned(fs[i])] BY DEF Clean, Cleaned
<1>2. gs = [i \in Inodes |-> gs[i]] BY <1>1
<1>3. \A i \in Inodes : gs[i] = Cleaned(fs[i]) BY <1>1
<1> HIDE DEF gs
<1>4. \A i \in Inodes : FileOk(gs[i]) /\ ~gs[i].dirty /\ DeferredBy(gs[i]) = DeferredBy(fs[i])
        /\ inode_encode(gs[i]) = inode_encode(fs[i]) /\ (ChainOn(d, gs[i]) <=> ChainOn(d, fs[i]))
  BY <1>3, CleanedFile, CleanedSame
<1>5. \A w, r : Holdings(gs, w, r) = Holdings(fs, w, r) BY <1>4, SameHoldings
<1>6. ASSUME NEW b PROVE ItabPage(gs, b) = ItabPage(fs, b)
  <2>1. \A i \in InodesOf(b) : inode_encode(gs[i]) = inode_encode(fs[i]) BY <1>4 DEF InodesOf
  <2> QED BY <2>1 DEF ItabPage
<1> QED BY <1>2, <1>3, <1>4, <1>5, <1>6 DEF gs

\* The map after a commit, as its fields: the slots written become the slots in force.
LEMMA CommitMapFields ==
  ASSUME NEW m, MapRec(m)
  PROVE  MapIs(gmap_commit(m), ExportSlots(m), [g \in Groups |-> FALSE], m.free, m.cache)
BY DEF gmap_commit, MapIs, MapRec

\* The map after a commit has the same groups, all of them committed.
LEMMA CommitGood ==
  ASSUME NEW m, NEW d, MapGood(m, d)
  PROVE  /\ MapGood(gmap_commit(m), d) /\ gmap_commit(m).slot = ExportSlots(m) /\ gmap_commit(m).free = m.free
         /\ \A g \in Groups : GroupBits(gmap_commit(m), d, g) = GroupBits(m, d, g)
<1> DEFINE n == gmap_commit(m)
<1>1. MapTyped(m) /\ NewestOn(m) /\ CleanIsDisk(m, d) /\ Counted(m, d) /\ MapRec(m) BY DEF MapGood, MapTyped
<1>2. MapRec(n) /\ n.slot = ExportSlots(m) /\ n.written = [g \in Groups |-> FALSE] /\ n.free = m.free /\ n.cache = m.cache
  BY <1>1, CommitMapFields DEF MapIs
<1> HIDE DEF n
<1>3. \A g \in Groups : NewestSlot(m, g) \in {0, 1} BY <1>1, NewestType
<1>4. n.slot \in [Groups -> {0, 1}] /\ n.written \in [Groups -> BOOLEAN] BY <1>2, <1>3 DEF ExportSlots
<1>5. \A g \in Groups : NewestSlot(n, g) = NewestSlot(m, g)
  <2> TAKE g \in Groups
  <2>1. n.slot[g] = NewestSlot(m, g) /\ n.written[g] = FALSE BY <1>2 DEF ExportSlots
  <2> QED BY <2>1 DEF NewestSlot
<1>6. MapTyped(n) BY <1>1, <1>2, <1>4 DEF MapTyped
<1>7. NewestOn(n) BY <1>1, <1>5 DEF NewestOn
<1>8. CleanIsDisk(n, d)
  <2>1. \A i \in DOMAIN m.cache : m.cache[i].g \in Groups BY <1>1, EntryAt
  <2> QED BY <2>1, <1>1, <1>2, <1>5 DEF CleanIsDisk
<1>9. \A g \in Groups : GroupBits(n, d, g) = GroupBits(m, d, g)
  BY <1>2, <1>5 DEF GroupBits, Cached
<1>10. Counted(n, d) BY <1>1, <1>2, <1>9 DEF Counted
<1> QED BY <1>2, <1>6, <1>7, <1>8, <1>9, <1>10 DEF MapGood, n

\* With nothing dirty in the cache, the map that a mount reads from the
\* exported tables has the same groups.
LEMMA ExportGood ==
  ASSUME NEW m, NEW d, MapGood(m, d), DirtyIn(m) = {}
  PROVE  /\ MapGood(gmap_import(ExportSlots(m), m.free), d)
         /\ \A g \in Groups : GroupBits(gmap_import(ExportSlots(m), m.free), d, g) = GroupBits(m, d, g)
<1> DEFINE n == gmap_import(ExportSlots(m), m.free)
           sl == ExportSlots(m)
           z == <<>>
<1>1. MapTyped(m) /\ NewestOn(m) /\ CleanIsDisk(m, d) /\ Counted(m, d) BY DEF MapGood
<1>2. MapRec(n) /\ n.slot = sl /\ n.written = [g \in Groups |-> FALSE] /\ n.free = m.free /\ n.cache = z
  <2>1. MapIs(n, sl, [g \in Groups |-> FALSE], m.free, z) BY ImportFields, Zenon
  <2> HIDE DEF n, sl, z
  <2> QED BY <2>1 DEF MapIs
<1>3. \A g \in Groups : NewestSlot(m, g) \in {0, 1} BY <1>1, NewestType
<1>4. sl \in [Groups -> {0, 1}] /\ \A g \in Groups : sl[g] = NewestSlot(m, g) BY <1>3 DEF ExportSlots
<1>5. \A g \in Groups : NewestSlot(n, g) = sl[g] /\ GroupBits(n, d, g) = BitsOf(d[slot_block(g, sl[g])])
  BY ImportBits
<1>z. z \in Seq(Entries) /\ Len(z) = 0 /\ DOMAIN z = {} BY DEF z
<1> HIDE DEF n, sl, z
<1>6. \A g \in Groups : GroupBits(n, d, g) = GroupBits(m, d, g)
  <2> TAKE g \in Groups
  <2>1. CASE \E i \in DOMAIN m.cache : m.cache[i].g = g
    <3>1. PICK i \in DOMAIN m.cache : m.cache[i].g = g BY <2>1
    <3>2. ~m.cache[i].dirty BY <1>1, EntryAt DEF DirtyIn
    <3>3. m.cache[i].bits = BitsOf(d[slot_block(g, NewestSlot(m, g))]) BY <3>1, <3>2, <1>1 DEF CleanIsDisk
    <3>4. GroupBits(m, d, g) = m.cache[i].bits BY <3>1, <1>1, BitsAt
    <3> QED BY <3>3, <3>4, <1>4, <1>5
  <2>2. CASE \A i \in DOMAIN m.cache : m.cache[i].g # g BY <2>2, <1>1, <1>4, <1>5, BitsAt
  <2> QED BY <2>1, <2>2
<1>7. MapTyped(n)
  <2>1. n.written \in [Groups -> BOOLEAN] BY <1>2
  <2>2. n.cache \in Seq(Entries) /\ Len(n.cache) <= CacheSize BY <1>2, <1>z, Consts
  <2>3. \A i, j \in DOMAIN n.cache : n.cache[i].g = n.cache[j].g => i = j BY <1>2, <1>z
  <2> QED BY <2>1, <2>2, <2>3, <1>1, <1>2, <1>4 DEF MapTyped
<1>8. NewestOn(n) BY <1>1, <1>4, <1>5 DEF NewestOn
<1>9. CleanIsDisk(n, d) BY <1>2, <1>z DEF CleanIsDisk
<1>10. Counted(n, d) BY <1>1, <1>2, <1>6 DEF Counted
<1> QED BY <1>6, <1>7, <1>8, <1>9, <1>10 DEF MapGood, n, sl

\* All that a superblock of generation gen + 1 refers to is on the disk.
Ready(m, d, gen, fs) ==
    /\ MapGood(m, d) /\ DirtyIn(m) = {} /\ DOMAIN d = Blocks
    /\ gen \in Nat /\ gen < MaxGen
    /\ fs = [i \in Inodes |-> fs[i]]
    /\ \A i \in Inodes : FileOk(fs[i]) /\ ChainOn(d, fs[i])
    /\ PagesOn(d, gen + 1, ITabBlocks, fs)
    /\ Claims(UsedBlocks(m, d), Holdings(fs, <<>>, <<>>))

\* Its write makes the volume with these files the one on disk.
LEMMA CommitPoint ==
  ASSUME NEW m, NEW d, NEW gen, NEW fs, Ready(m, d, gen, fs), NEW s, s = (gen + 1) % 2, NEW e, ChangedAt(d, e, s),
         e[s] = sb_encode(gen + 1, ExportSlots(m), m.free),
         d[1 - s].kind = "sb" => d[1 - s].gen \in Nat /\ d[1 - s].gen < gen + 1
  PROVE  /\ HoldsAt(e, s, Clean(fs)) /\ InUse(e, s) = UsedBlocks(m, d)
         /\ MapGood(gmap_commit(m), e) /\ UsedBlocks(gmap_commit(m), e) = UsedBlocks(m, d)
         /\ gmap_commit(m).slot = e[s].slot /\ e[s].gen = gen + 1
<1> DEFINE n == gmap_commit(m)
           o == gmap_import(ExportSlots(m), m.free)
           gs == Clean(fs)
           A == {s}
           slot == ExportSlots(m)
<1>1. /\ MapGood(m, d) /\ DirtyIn(m) = {} /\ DOMAIN d = Blocks /\ gen \in Nat /\ gen < MaxGen
      /\ \A i \in Inodes : FileOk(fs[i]) /\ ChainOn(d, fs[i])
      /\ PagesOn(d, gen + 1, ITabBlocks, fs)
      /\ Claims(UsedBlocks(m, d), Holdings(fs, <<>>, <<>>))
  BY DEF Ready
<1>2. s \in {0, 1} /\ gen + 1 \in Nat BY <1>1, Areas
<1>3. s \in 0 .. (DataStart - 1) /\ s \in Blocks /\ s \in Reserved
  <2>1. s \in 0 .. (DataStart - 1) BY <1>2, ExfsConsts
  <2> QED BY <2>1, FixedReserved
<1>4. e[s].kind = "sb" /\ e[s].gen = gen + 1 /\ e[s].itab = Area(gen + 1) /\ e[s].slot = slot /\ e[s].free = m.free
  BY SbFields
<1>5. Changed(d, e, A) BY DEF Changed, ChangedAt
<1>6. NoSlots(A) BY <1>3, NoSlotsIn
<1>7. MapGood(n, d) /\ n.slot = slot /\ \A g \in Groups : GroupBits(n, d, g) = GroupBits(m, d, g) BY <1>1, CommitGood
<1>8. MapGood(o, d) /\ \A g \in Groups : GroupBits(o, d, g) = GroupBits(m, d, g) BY <1>1, ExportGood
<1>g. /\ gs = [i \in Inodes |-> gs[i]]
      /\ \A i \in Inodes : FileOk(gs[i]) /\ ~gs[i].dirty /\ (ChainOn(d, gs[i]) <=> ChainOn(d, fs[i]))
                           /\ gs[i] = Cleaned(fs[i])
      /\ \A w, r : Holdings(gs, w, r) = Holdings(fs, w, r)
      /\ \A b : ItabPage(gs, b) = ItabPage(fs, b)
  BY <1>1, CleanAll
<1>o. OnDiskMap(e, s) = o BY <1>4 DEF OnDiskMap
<1> HIDE DEF n, o, gs, A, slot
<1>9. UsedBlocks(n, d) = UsedBlocks(m, d) /\ UsedBlocks(o, d) = UsedBlocks(m, d) BY <1>7, <1>8, SameUsed
<1>10. SameGroups(n, d, n, e) /\ UsedBlocks(n, e) = UsedBlocks(n, d) BY <1>5, <1>6, <1>7, MapFrame
<1>11. SameGroups(o, d, o, e) /\ UsedBlocks(o, e) = UsedBlocks(o, d) BY <1>5, <1>6, <1>8, MapFrame
<1>12. MapGood(n, e) /\ MapGood(o, e) BY <1>10, <1>11 DEF SameGroups
<1>13. InUse(e, s) = UsedBlocks(m, d) BY <1>9, <1>11, <1>o DEF InUse
<1>14. Claims(InUse(e, s), Holdings(gs, <<>>, <<>>)) BY <1>1, <1>13, <1>g
<1>15. PagesOn(e, gen + 1, ITabBlocks, gs)
  <2> SUFFICES ASSUME NEW b \in 0 .. (ITabBlocks - 1) PROVE e[Area(gen + 1) + b] = ItabPage(gs, b) BY DEF PagesOn
  <2>1. Area(gen + 1) + b \in 2 .. (DataStart - 1) BY <1>2, Areas
  <2>2. Area(gen + 1) + b \in 0 .. (DataStart - 1) /\ Area(gen + 1) + b # s BY <2>1, <1>2, Consts
  <2>3. Area(gen + 1) + b \in Blocks BY <2>2, FixedReserved
  <2>4. e[Area(gen + 1) + b] = d[Area(gen + 1) + b] BY <2>2, <2>3 DEF ChangedAt
  <2>5. d[Area(gen + 1) + b] = ItabPage(fs, b) BY <1>1 DEF PagesOn
  <2> QED BY <2>4, <2>5, <1>g
<1>16. ASSUME NEW i \in Inodes PROVE ChainOn(e, gs[i])
  <2>1. FileOk(gs[i]) /\ ChainOn(d, gs[i]) BY <1>1, <1>g
  <2>2. Claims(UsedBlocks(m, d), Holdings(gs, <<>>, <<>>)) BY <1>1, <1>g
  <2>3. CoveredBy(DeferredBy(gs[i])) \subseteq UsedBlocks(m, d) /\ CoveredBy(DeferredBy(gs[i])) \cap Reserved = {} BY <2>2, ClaimsAt
  <2>4. UsedBlocks(m, d) \subseteq Blocks BY <1>1, UsedIn
  <2>5. A \cap CoveredBy(DeferredBy(gs[i])) = {} BY <2>3, <1>3 DEF A
  <2>6. gs[i].exts \in Seq(Ext) /\ gs[i].chain \in Seq(Nat) BY <2>1, FileLists
  <2>7. CoveredBy(DeferredBy(gs[i])) \subseteq Blocks BY <2>3, <2>4
  <2> DEFINE f == gs[i]
  <2> HIDE DEF f
  <2>8. ChainOn(e, f) BY <2>1, <2>5, <2>6, <2>7, <1>5, ChainFrame DEF f
  <2> QED BY <2>8 DEF f
<1>17. e[1 - s].kind = "sb" => e[1 - s].gen \in Nat /\ e[1 - s].gen < e[s].gen
  <2>1. 1 - s \in {0, 1} /\ 1 - s # s BY <1>2
  <2>2. 1 - s \in 0 .. (DataStart - 1) BY <2>1, ExfsConsts
  <2>3. 1 - s \in Blocks BY <2>2, FixedReserved
  <2>4. e[1 - s] = d[1 - s] BY <2>1, <2>3 DEF ChangedAt
  <2> QED BY <2>4, <1>4
<1>18. HoldsAt(e, s, gs)
  <2>1. e[s] = sb_encode(e[s].gen, e[s].slot, e[s].free) BY <1>4 DEF slot
  <2>a. MaxGen \in Nat /\ gen \in Nat /\ gen < MaxGen BY <1>1, ExfsConsts
  <2>b. gen + 1 \in 1 .. MaxGen BY <2>a
  <2>2. e[s].gen \in 1 .. MaxGen /\ e[s].gen % 2 = s BY <2>b, <1>4
  <2>3. MapGood(OnDiskMap(e, s), e) BY <1>12, <1>o
  <2>4. PagesOn(e, e[s].gen, ITabBlocks, gs) BY <1>4, <1>15
  <2>5. \A i \in Inodes : FileOk(gs[i]) /\ ~gs[i].dirty /\ ChainOn(e, gs[i]) BY <1>16, <1>g
  <2> QED BY <2>1, <2>2, <2>3, <2>4, <2>5, <1>2, <1>14, <1>17, <1>g DEF HoldsAt
<1> QED BY <1>4, <1>7, <1>9, <1>10, <1>12, <1>13, <1>18 DEF n, gs, slot

-----------------------------------------------------------------------------
(* A format: its tree and its map.                                         *)

\* The names a format makes, one after the other.
LEMMA LoopFormat ==
  ASSUME NEW S, Len(FormatNames) \in Nat, [i \in Inodes |-> NoFile] \in S[0],
         \A i \in 1 .. Len(FormatNames) : \A m \in S[i - 1] : (make_node(m, FormatNames[i], "dir")) \in S[i]
  PROVE  FormatFiles \in S[Len(FormatNames)]
<1> DEFINE n == Len(FormatNames)
           b == [i \in Inodes |-> NoFile]
           T(m, i) == make_node(m, FormatNames[i], "dir")
           at == CHOOSE f : f = [i \in 0 .. Len(FormatNames) |-> IF i = 0 THEN b ELSE T(f[i - 1], i)]
           G == [i \in 1 .. n |-> [m \in UNION {S[k - 1] : k \in 1 .. n} |-> T(m, i)]]
<1>1. FormatFiles = at[n] BY DEF FormatFiles
<1>2. \A i \in 1 .. n : \A m \in S[i - 1] : T(m, i) \in S[i] OBVIOUS
<1>3. n \in Nat /\ b \in S[0] OBVIOUS
<1>a. at = CHOOSE f : f = [i \in 0 .. n |-> IF i = 0 THEN b ELSE T(f[i - 1], i)] OBVIOUS
<1> HIDE DEF T, n, b, at
<1>4. \A i \in 1 .. n : \A m \in S[i - 1] : G[i][m] = T(m, i) OBVIOUS
<1>5. PICK h : Runs(h, n, b, G, S)
  <2> HIDE DEF G
  <2> QED BY <1>2, <1>3, <1>4, Iter DEF Closed
<1> HIDE DEF G
<1>6. h = [i \in 0 .. n |-> IF i = 0 THEN b ELSE T(h[i - 1], i)] BY <1>4, <1>5 DEF Runs
<1>7. at = [i \in 0 .. n |-> IF i = 0 THEN b ELSE T(at[i - 1], i)] BY <1>6, <1>a
<1>8. at[0] = b /\ \A i \in 1 .. n : at[i] = T(at[i - 1], i) BY <1>3, <1>7, Turns
<1>9. \A i \in 0 .. n : at[i] \in S[i] BY <1>2, <1>3, <1>8, Ind
<1> QED BY <1>1, <1>3, <1>9, Turns DEF n

\* A file that was just made, and the table with it.
Node(n, t) == [NoFile EXCEPT !.used = TRUE, !.type = t, !.name = n, !.dirty = TRUE]
Gone == [NoFile EXCEPT !.dirty = TRUE]

\* The files that are made, deleted and absent: no extents, no chain.
LEMMA NodeFields ==
  ASSUME NEW n, NEW t
  PROVE  /\ FileOk(Node(n, t)) /\ Node(n, t).exts = <<>> /\ Node(n, t).chain = <<>> /\ Node(n, t).dirty /\ Node(n, t).used
         /\ FileOk(NoFile) /\ NoFile.exts = <<>> /\ NoFile.chain = <<>> /\ ~NoFile.dirty /\ ~NoFile.used
         /\ FileOk(Gone) /\ Gone.exts = <<>> /\ Gone.chain = <<>> /\ Gone.dirty /\ ~Gone.used
<1> DEFINE z == <<>>
           a == Node(n, t)
<1>1. z \in Seq(Ext) /\ z \in Seq(Nat) /\ Len(z) = 0 BY DEF z
<1>0. NoFile = [used |-> FALSE, type |-> "file", size |-> 0, name |-> z, exts |-> z, chain |-> z, dirty |-> FALSE]
  BY DEF NoFile
<1> HIDE DEF z
<1>r. FileRec(NoFile) BY <1>0, <1>1 DEF FileRec
<1>5. ~NoFile.used /\ NoFile.exts = z /\ NoFile.chain = z /\ ~NoFile.dirty /\ NoFile.type = "file" /\ NoFile.size = 0 /\ NoFile.name = z
  BY <1>0
<1>4. a.used /\ a.exts = z /\ a.chain = z /\ a.dirty /\ a.size = 0 /\ a.type = t /\ a.name = n BY <1>r, <1>5 DEF FileRec, Node
<1>6. ~Gone.used /\ Gone.exts = z /\ Gone.chain = z /\ Gone.dirty /\ Gone.type = "file" /\ Gone.size = 0 /\ Gone.name = z
  BY <1>r, <1>5 DEF FileRec, Gone
<1>3. FileRec(a) /\ FileRec(Gone) /\ FileRec(NoFile)
  <2>1. FileRec(a) BY <1>r, <1>4, <1>5 DEF FileRec, Node
  <2>2. FileRec(Gone) BY <1>r, <1>5, <1>6 DEF FileRec, Gone
  <2> QED BY <2>1, <2>2, <1>r
<1> HIDE DEF a
<1>7. Len(z) <= MaxExt /\ Len(z) <= MaxChain BY <1>1, ExfsConsts
<1>8. FileOk(a) BY <1>3, <1>4, <1>7 DEF FileOk
<1>9. FileOk(NoFile) BY <1>3, <1>5, <1>7 DEF FileOk, z
<1>10. FileOk(Gone) BY <1>3, <1>6, <1>7 DEF FileOk, z
<1> QED BY <1>4, <1>5, <1>6, <1>8, <1>9, <1>10 DEF a, z

\* A file without extents needs no chain.
LEMMA EmptyChain ==
  ASSUME NEW f, f.exts = <<>>, f.chain = <<>>, NEW d
  PROVE  ChainOn(d, f) /\ DeferredBy(f) = <<>>
<1> DEFINE z == <<>>
<1>1. z \in Seq(Ext) /\ Len(z) = 0 BY DEF z
<1>2. f.exts = z /\ f.chain = z BY DEF z
<1> HIDE DEF z
<1>3. ChainBlocks(0) = 0 BY ChainCount
<1>4. 1 .. Len(f.chain) = {} BY <1>1, <1>2
<1>5. ChainOn(d, f) BY <1>1, <1>2, <1>3, <1>4 DEF ChainOn
<1>6. f.exts \in Seq(Ext) BY <1>1, <1>2
<1> QED BY <1>5, <1>6, NoChainHeld

FreshFiles == {NoFile} \cup {Node(FormatNames[k], "dir") : k \in 1 .. Len(FormatNames)}
FreshTables == [Inodes -> FreshFiles]
\* The tree of a fresh volume holds no blocks.
LEMMA FormatNodes ==
  /\ FormatFiles = [i \in Inodes |-> FormatFiles[i]]
  /\ \A i \in Inodes : FileOk(FormatFiles[i]) /\ FormatFiles[i].exts = <<>> /\ FormatFiles[i].chain = <<>>
<1> DEFINE S == [n \in 0 .. Len(FormatNames) |-> FreshTables]
<1>1. Len(FormatNames) \in Nat BY ExfsAssumption
<1>2. [i \in Inodes |-> NoFile] \in FreshTables BY DEF FreshTables, FreshFiles
<1>3. ASSUME NEW n \in 1 .. Len(FormatNames), NEW fs \in FreshTables PROVE make_node(fs, FormatNames[n], "dir") \in FreshTables
  <2> DEFINE x == Min({i \in Inodes : ~fs[i].used})
             nd == Node(FormatNames[n], "dir")
  <2>1. make_node(fs, FormatNames[n], "dir") = [fs EXCEPT ![x] = nd] BY DEF make_node, Node
  <2>2. nd \in FreshFiles BY DEF FreshFiles
  <2> HIDE DEF x, nd
  <2> QED BY <2>1, <2>2 DEF FreshTables
<1>4. \A i \in 0 .. Len(FormatNames) : S[i] = FreshTables OBVIOUS
<1>5. 0 \in 0 .. Len(FormatNames) /\ Len(FormatNames) \in 0 .. Len(FormatNames)
      /\ \A i \in 1 .. Len(FormatNames) : i \in 0 .. Len(FormatNames) /\ i - 1 \in 0 .. Len(FormatNames)
  BY <1>1
<1> HIDE DEF S
<1>6. [i \in Inodes |-> NoFile] \in S[0] BY <1>2, <1>4, <1>5
<1>7. \A i \in 1 .. Len(FormatNames) : \A m \in S[i - 1] : make_node(m, FormatNames[i], "dir") \in S[i]
  BY <1>3, <1>4, <1>5
<1>8. FormatFiles \in S[Len(FormatNames)] BY <1>1, <1>6, <1>7, LoopFormat
<1>9. FormatFiles \in FreshTables BY <1>8, <1>4, <1>5
<1>10. \A f \in FreshFiles : FileOk(f) /\ f.exts = <<>> /\ f.chain = <<>> BY NodeFields DEF FreshFiles
<1> QED BY <1>9, <1>10 DEF FreshTables

\* The count a format gives a group is right.
LEMMA FreshCount ==
  ASSUME NEW g \in Groups
  PROVE  BitsRight(g, fresh_bits(g), GB - Cardinality(fresh_bits(g))) /\ GB - Cardinality(fresh_bits(g)) \in 0 .. GB
<1> DEFINE G == GroupBlocks(g)
           F == fresh_bits(g)
<1>1. F \subseteq G BY FixedReserved
<1>2. g * GB \in Int /\ g * GB + GB - 1 \in Int BY GroupStart, Consts
<1>3. G \subseteq (g * GB) .. (g * GB + GB - 1) /\ F \subseteq (g * GB) .. (g * GB + GB - 1) BY <1>1 DEF GroupBlocks
<1> HIDE DEF G, F
<1>4. IsFiniteSet(G) /\ IsFiniteSet(F) /\ Cardinality(F) \in Nat BY <1>2, <1>3, FiniteSub
<1>5. Cardinality(G) = GB BY GroupCard DEF G
<1>6. Cardinality(G \ F) = Cardinality(G) - Cardinality(G \cap F) BY <1>4, FS_Difference
<1>7. G \cap F = F BY <1>1
<1>8. Cardinality(F) <= Cardinality(G) BY <1>1, <1>4, FS_Subset
<1>9. GB - Cardinality(F) = Cardinality(G \ F) BY <1>5, <1>6, <1>7
<1>10. GB - Cardinality(F) \in 0 .. GB BY <1>4, <1>5, <1>8, Consts
<1> QED BY <1>1, <1>9, <1>10 DEF BitsRight, G, F

\* A group is formatted.
SlotSet(sl, g, ok) == [sl EXCEPT ![g] = IF ok THEN 0 ELSE @]
\* The map after one group was formatted, as its fields.
LEMMA FormattedFields ==
  ASSUME NEW m, MapRec(m), NEW g, NEW ok
  PROVE  MapIs(Formatted(m, g, ok), SlotSet(m.slot, g, ok), m.written, FreeSet(m.free, g, GB - Cardinality(fresh_bits(g))), m.cache)
BY DEF Formatted, MapRec, MapIs, SlotSet, FreeSet

\* When all groups are, the blocks in use are the reserved ones.
LEMMA FormatGood ==
  ASSUME NEW m, MapRec(m), m.slot \in [Groups -> {0, 1}], m.written \in [Groups -> BOOLEAN], m.free \in [Groups -> 0 .. GB],
         m.cache = <<>>, NEW d,
         \A g \in Groups : /\ m.slot[g] = 0 /\ ~m.written[g]
                           /\ d[slot_block(g, 0)] = MapBlock(fresh_bits(g))
                           /\ m.free[g] = GB - Cardinality(fresh_bits(g))
  PROVE  MapGood(m, d) /\ UsedBlocks(m, d) = Reserved
<1> DEFINE z == <<>>
<1>1. z \in Seq(Entries) /\ Len(z) = 0 /\ DOMAIN z = {} BY DEF z
<1>2. m.cache = z BY DEF z
<1> HIDE DEF z
<1>3. MapTyped(m)
  <2>1. m.cache \in Seq(Entries) /\ Len(m.cache) <= CacheSize BY <1>1, <1>2, Consts
  <2>2. \A i, j \in DOMAIN m.cache : m.cache[i].g = m.cache[j].g => i = j BY <1>1, <1>2
  <2> QED BY <2>1, <2>2 DEF MapTyped
<1>4. \A g \in Groups : NewestSlot(m, g) = 0 BY DEF NewestSlot
<1>5. \A g \in Groups : GroupBits(m, d, g) = fresh_bits(g)
  <2> TAKE g \in Groups
  <2>1. GroupBits(m, d, g) = BitsOf(d[slot_block(g, NewestSlot(m, g))]) BY <1>1, <1>2, <1>3, BitsAt
  <2>2. BitsOf(MapBlock(fresh_bits(g))) = fresh_bits(g) BY DEF BitsOf, MapBlock
  <2> QED BY <2>1, <2>2, <1>4
<1>6. NewestOn(m) BY <1>4, SlotFacts DEF NewestOn
<1>7. CleanIsDisk(m, d) BY <1>1, <1>2 DEF CleanIsDisk
<1>8. Counted(m, d) BY <1>5, FreshCount DEF Counted
<1>9. UsedBlocks(m, d) = Reserved BY <1>5 DEF UsedBlocks, Reserved
<1> QED BY <1>3, <1>6, <1>7, <1>8, <1>9 DEF MapGood

-----------------------------------------------------------------------------
(* The state while a call runs.                                            *)

\* Which call is running, and that a job implies a format was started.
LEMMA Phases ==
  ASSUME Core
  PROVE  /\ job # Idle => formats # 0
         /\ job.pc \notin {"idle", "format"} =>
              Mounted /\ ((IsWrite(job) /\ WriteOk) \/ (job.op \in CommitOps /\ ~IsWrite(job) /\ CommitOk))
         /\ job.pc = "format" => FormatOk /\ job # Idle
<1>1. job # Idle => formats # 0 BY DEF Core, Types
<1>2. Idle.pc = "idle" BY IdleJob
<1>3. Phase BY DEF Core
<1>4. WriteOk => job.pc # "format" /\ job.pc # "idle" BY DEF WriteOk
<1>5. CommitOk => job.pc # "format" /\ job.pc # "idle" BY DEF CommitOk
<1>6. job.op \in CommitOps => ~IsWrite(job) BY DEF CommitOps, IsWrite
<1>7. job.op \in {"write", "write_at"} => IsWrite(job) BY DEF IsWrite
<1> QED BY <1>1, <1>2, <1>3, <1>4, <1>5, <1>6, <1>7 DEF Phase

\* What is known of a mounted volume.
LEMMA Live ==
  ASSUME Core, Mounted
  PROVE  /\ MapGood(gm, disk) /\ Claims(UsedBlocks(gm, disk), Holdings(files, Waiting, Fresh)) /\ Chains
         /\ UsedBlocks(gm, disk) \subseteq Blocks /\ Reserved \subseteq UsedBlocks(gm, disk)
         /\ DOMAIN disk = Blocks /\ stable = disk /\ vol \in VolType /\ faults \in 0 .. MaxFaults
         /\ FilesOk(files) /\ DeferOk(defer) /\ MapTyped(gm)
         /\ \A i \in Inodes : /\ files[i].exts \in Seq(Ext) /\ files[i].chain \in Seq(Nat)
                              /\ CoveredBy(DeferredBy(files[i])) \subseteq Blocks
                              /\ CoveredBy(DeferredBy(files[i])) \cap Reserved = {}
                              /\ CoveredBy(DeferredBy(files[i])) \cap CoveredBy(Fresh) = {}
         /\ CoveredBy(Fresh) \subseteq Blocks /\ CoveredBy(Fresh) \cap Reserved = {}
         /\ Fresh \in Seq(Ext) /\ Waiting \in Seq(Ext) /\ Disjoint(Fresh)
<1>1. MapGood(gm, disk) /\ Claims(UsedBlocks(gm, disk), Holdings(files, Waiting, Fresh)) /\ Chains BY DEF Core, Memory
<1>2. UsedBlocks(gm, disk) \subseteq Blocks /\ Reserved \subseteq UsedBlocks(gm, disk) BY <1>1, UsedIn
<1>3. /\ DOMAIN disk = Blocks /\ stable = disk /\ vol \in VolType /\ faults \in 0 .. MaxFaults
      /\ FilesOk(files) /\ DeferOk(defer)
  BY DEF Core, Types, DiskOk, Counts
<1>4. MapTyped(gm) BY <1>1 DEF MapGood
<1> DEFINE w == Waiting
           r == Fresh
           used == UsedBlocks(gm, disk)
<1> HIDE DEF w, r, used
<1>5. Claims(used, Holdings(files, w, r)) BY <1>1 DEF w, r, used
<1>6. /\ r \in Seq(Ext) /\ w \in Seq(Ext) /\ Disjoint(r) /\ CoveredBy(r) \subseteq used /\ CoveredBy(r) \cap Reserved = {}
      /\ \A i \in Inodes : /\ CoveredBy(DeferredBy(files[i])) \subseteq used /\ CoveredBy(DeferredBy(files[i])) \cap Reserved = {}
                           /\ CoveredBy(DeferredBy(files[i])) \cap CoveredBy(r) = {}
  BY <1>5, ClaimsAt
<1>7. \A i \in Inodes : files[i].exts \in Seq(Ext) /\ files[i].chain \in Seq(Nat) BY <1>3, FileLists DEF FilesOk
<1> QED BY <1>1, <1>2, <1>3, <1>4, <1>6, <1>7 DEF w, r, used

\* What breaks the volume, and what does not.
LEMMA Breaks ==
  ASSUME vol \in VolType
  PROVE  /\ BrokenBy(job) \in VolType
         /\ IsWrite(job) /\ ~vol.broken => BrokenBy(job) = vol
         /\ ~IsWrite(job) => BrokenBy(job).broken
         /\ \A e : e.start + e.len \in 0 .. Total =>
              /\ Hinted(vol, e) \in VolType /\ Hinted(vol, e).mounted = vol.mounted /\ Hinted(vol, e).broken = vol.broken
              /\ Hinted(vol, e).dirty = vol.dirty /\ Hinted(vol, e).gen = vol.gen
<1>1. BrokenBy(job) \in VolType /\ BrokenBy(job).broken = ~IsWrite(job) BY DEF BrokenBy, IsWrite, VolType
<1>2. IsWrite(job) /\ ~vol.broken => BrokenBy(job) = vol
  <2> SUFFICES ASSUME IsWrite(job), ~vol.broken PROVE [vol EXCEPT !.broken = FALSE] = vol BY DEF BrokenBy, IsWrite
  <2>1. vol.broken = FALSE BY DEF VolType
  <2> QED BY <2>1 DEF VolType
<1>3. ASSUME NEW e, e.start + e.len \in 0 .. Total
      PROVE  /\ Hinted(vol, e) \in VolType /\ Hinted(vol, e).mounted = vol.mounted /\ Hinted(vol, e).broken = vol.broken
             /\ Hinted(vol, e).dirty = vol.dirty /\ Hinted(vol, e).gen = vol.gen
  BY <1>3 DEF Hinted, VolType
<1> QED BY <1>1, <1>2, <1>3

\* What a call may write before its superblock.
Writable(b) ==
    /\ b \notin {0, 1}
    /\ \/ b \in Pending(gm.slot)
       \/ b \in CoveredBy(job.fresh)
       \/ \E k \in 0 .. (ITabBlocks - 1) : b = Area(vol.gen + 1) + k

\* A step may change the blocks A: none is in use on disk, and none is in a file's chain.
Safe(A) == \A b \in Blocks : b \in A => Writable(b)
Apart(A) == \A i \in Inodes : A \cap CoveredBy(DeferredBy(files[i])) = {}

\* The map uses the same blocks after the step, in the same slots.
SameMap == MapGood(gm', disk') /\ gm'.slot = gm.slot /\ UsedBlocks(gm', disk') = UsedBlocks(gm, disk)

\* A step of a call that writes only there keeps the volume on disk.
LEMMA DurableStep ==
  ASSUME Durable, Mounted, DOMAIN disk' = Blocks, NEW A, Changed(disk, disk', A), Safe(A),
         job'.op = "format" => job.op = "format",
         Mounted' => /\ job.op = "format" => job'.op = "format"
                     /\ vol'.gen = vol.gen /\ gm'.slot = gm.slot
                     /\ vol'.dirty \/ (vol'.dirty = vol.dirty /\ files' = files)
                     /\ \A b \in CoveredBy(job'.fresh) : b \in CoveredBy(job.fresh) \/ (~Late /\ b \notin UsedBlocks(gm, disk))
                     /\ ~Late' => ~Late /\ \A b \in UsedBlocks(gm, disk) : b \in UsedBlocks(gm', disk') \/ b \in CoveredBy(job.fresh)
  PROVE  Durable'
<1>1. CASE NoSb(disk) /\ job.op = "format" /\ vol.gen = 0
  <2>1. \A s \in {0, 1} : disk'[s] = disk[s]
    <3> TAKE s \in {0, 1}
    <3>1. s \in 0 .. (DataStart - 1) BY ExfsConsts
    <3>2. s \in Blocks BY <3>1, FixedReserved
    <3> QED BY <3>2 DEF Changed, Safe, Writable
  <2>2. NoSb(disk') BY <2>1, <1>1 DEF NoSb
  <2> QED BY <2>2, <1>1 DEF Durable
<1>2. CASE job.op # "format" /\ \E s, fs : HoldsAt(disk, s, fs) /\ Linked(s, fs)
  <2>1. PICK s, fs : HoldsAt(disk, s, fs) /\ Linked(s, fs) BY <1>2
  <2>2. vol.gen = disk[s].gen /\ gm.slot = disk[s].slot /\ InUse(disk, s) \cap CoveredBy(job.fresh) = {}
        /\ (~Late => InUse(disk, s) \subseteq UsedBlocks(gm, disk)) /\ (~vol.dirty => files = fs)
    BY <2>1 DEF Linked
  <2>3. ASSUME NEW b \in Blocks, b \in A PROVE Spare(disk, s, fs, b)
    <3>1. Writable(b) BY <2>3 DEF Safe
    <3> QED BY <3>1, <2>1, <2>2, SpareBlocks DEF Writable
  <2>4. \A b \in Blocks : disk'[b] = disk[b] \/ Spare(disk, s, fs, b) BY <2>3 DEF Changed
  <2>5. s \in {0, 1} /\ 1 - s \in {0, 1} BY <2>1 DEF HoldsAt
  <2>6. disk'[1 - s] = disk[1 - s]
    <3>1. 1 - s \in 0 .. (DataStart - 1) BY <2>5, ExfsConsts
    <3>2. 1 - s \in Blocks BY <3>1, FixedReserved
    <3> QED BY <3>2, <2>5 DEF Changed, Safe, Writable
  <2> DEFINE d == disk
             e == disk'
  <2> HIDE DEF d, e
  <2>7. HoldsAt(e, s, fs) /\ InUse(e, s) = InUse(d, s) /\ e[s] = d[s]
    <3>1. HoldsAt(d, s, fs) /\ DOMAIN e = Blocks /\ (\A b \in Blocks : e[b] = d[b] \/ Spare(d, s, fs, b)) /\ e[1 - s] = d[1 - s]
      BY <2>1, <2>4, <2>6 DEF d, e
    <3> QED BY <3>1, HoldsFrame
  <2>8. HoldsAt(disk', s, fs) /\ InUse(disk', s) = InUse(disk, s) /\ disk'[s] = disk[s] BY <2>7 DEF d, e
  <2>9. ASSUME Mounted' PROVE Linked(s, fs)'
    <3>1. InUse(disk', s) \cap CoveredBy(job'.fresh) = {} BY <2>9, <2>2, <2>8
    <3>2. ~Late' => InUse(disk', s) \subseteq UsedBlocks(gm', disk') BY <2>9, <2>2, <2>8
    <3>3. ~vol'.dirty => files' = fs BY <2>9, <2>2
    <3> QED BY <3>1, <3>2, <3>3, <2>2, <2>8, <2>9 DEF Linked
  <2>10. job'.op # "format" BY <1>2
  <2> QED BY <2>8, <2>9, <2>10 DEF Durable
<1> QED BY <1>1, <1>2 DEF Durable

\* SetDisk on a device without a cache of its own.
LEMMA SetIs ==
  ASSUME Tame, NEW d, SetDisk(d)
  PROVE  disk' = d /\ stable' = disk'
BY DEF Tame, SetDisk

\* A commit that fails breaks the volume: what is on disk stays.
LEMMA CommitFails ==
  ASSUME Tame, Core, Mounted, ~IsWrite(job), job' = Idle, vol' = BrokenBy(job), UNCHANGED <<files, defer, ops, formats>>,
         formats # 0, GmTypes(gm'), DOMAIN disk' = Blocks, stable' = disk', faults' \in 0 .. MaxFaults,
         NEW A, Changed(disk, disk', A), Safe(A)
  PROVE  Core'
<1>1. Types /\ Durable BY DEF Core
<1>2. vol' \in VolType /\ vol'.broken BY <1>1, Breaks DEF Types
<1>3. ~Mounted' BY <1>2 DEF Mounted
<1>4. Types' BY <1>1, <1>2 DEF Types, DiskOk, Counts
<1>5. Phase' BY DEF Phase
<1>6. Memory' BY <1>3 DEF Memory
<1>7. job'.op # "format" BY IdleJob
<1>8. Durable' BY <1>1, <1>3, <1>7, DurableStep
<1> QED BY <1>4, <1>5, <1>6, <1>8 DEF Core

\* The step leaves every file's chain as far written as it was.
SameDone == \A i \in Inodes : ChainDoneFor(i)' <=> ChainDoneFor(i)

\* The chains stay on disk when files and stages stay.
LEMMA ChainsStep ==
  ASSUME Core, Mounted, files' = files, NEW A, Changed(disk, disk', A), Apart(A), SameDone
  PROVE  Chains'
<1> SUFFICES ASSUME NEW i \in Inodes
             PROVE  IF ChainDoneFor(i) THEN ChainOn(disk', files[i]) ELSE files[i].chain = <<>>
  BY DEF Chains, SameDone
<1>1. Chains /\ files[i].exts \in Seq(Ext) /\ files[i].chain \in Seq(Nat) /\ CoveredBy(DeferredBy(files[i])) \subseteq Blocks
  BY Live
<1>2. ChainDoneFor(i) => ChainOn(disk', files[i])
  <2> DEFINE f == files[i]
             d == disk
             e == disk'
  <2> HIDE DEF f, d, e
  <2>1. f.exts \in Seq(Ext) /\ f.chain \in Seq(Nat) /\ CoveredBy(DeferredBy(f)) \subseteq Blocks /\ Changed(d, e, A)
        /\ A \cap CoveredBy(DeferredBy(f)) = {}
    BY <1>1 DEF f, d, e, Apart
  <2>2. ChainOn(d, f) => ChainOn(e, f) BY <2>1, ChainFrame
  <2> QED BY <2>2, <1>1 DEF f, d, e, Chains
<1> QED BY <1>1, <1>2 DEF Chains

\* A step that moves no block between its holders.
LEMMA SameHolders ==
  ASSUME Core, Mounted, files' = files, Waiting' = Waiting, Fresh' = Fresh,
         SameMap, NEW A, Changed(disk, disk', A), Apart(A), SameDone
  PROVE  Memory'
<1>1. Chains' BY ChainsStep
<1>2. Claims(UsedBlocks(gm, disk), Holdings(files, Waiting, Fresh)) BY Live
<1>3. Claims(UsedBlocks(gm', disk'), Holdings(files', Waiting', Fresh')) BY <1>2 DEF SameMap
<1> QED BY <1>1, <1>3 DEF Memory, SameMap

\* A map that is good has the types of a map.
LEMMA GoodTypes ==
  ASSUME NEW m, NEW d, MapGood(m, d)
  PROVE  GmTypes(m)
BY DEF MapGood, MapTyped, GmTypes

-----------------------------------------------------------------------------
(* Writes.                                                                 *)

\* The pending map blocks may be written, and no file holds one.
LEMMA PendingFree ==
  ASSUME Core, Mounted
  PROVE  Safe(Pending(gm.slot)) /\ Apart(Pending(gm.slot))
<1>1. gm.slot \in [Groups -> {0, 1}] BY DEF Core, Types, GmTypes
<1>2. ASSUME NEW b \in Blocks, b \in Pending(gm.slot) PROVE Writable(b) /\ b \in Reserved
  <2>1. PICK h \in Groups : b = slot_block(h, 1 - gm.slot[h]) BY <1>2 DEF Pending
  <2>2. gm.slot[h] \in {0, 1} /\ 1 - gm.slot[h] \in {0, 1} BY <1>1
  <2>3. b \in Nat /\ b >= DataStart BY <2>1, <2>2, SlotFacts
  <2>4. b \in Reserved BY <2>1, <2>2, FixedReserved
  <2>5. b \notin {0, 1} BY <2>3, ExfsConsts
  <2> QED BY <1>2, <2>4, <2>5 DEF Writable
<1>3. \A i \in Inodes : CoveredBy(DeferredBy(files[i])) \subseteq Blocks /\ CoveredBy(DeferredBy(files[i])) \cap Reserved = {} BY Live
<1> QED BY <1>2, <1>3 DEF Safe, Apart

\* The fields of a write's job that every step keeps.
WriteBase(j, fs, df) ==
    /\ j.ino \in Inodes /\ fs[j.ino].used
    /\ j.need \in Nat /\ j.k \in Nat /\ j.i \in Nat /\ j.off \in Nat /\ j.len \in Nat
    /\ j.fresh \in Seq(Ext) /\ Len(j.fresh) <= MaxExt
    /\ j.op = "write_at" => j.len > 0 /\ Len(df) + (Len(fs[j.ino].exts) + Len(fs[j.ino].chain) + 1) <= DeferMax

\* What a running write says of its file and its blocks.
LEMMA WriteOkBase == WriteOk => WriteBase(job, files, defer)
BY DEF WriteOk, WriteBase, DeferRoom

\* While a write runs no chain is in the making.
LEMMA WriteQuiet ==
  ASSUME Core, IsWrite(job), job.pc \notin {"idle", "format"}
  PROVE  /\ Mounted /\ WriteOk /\ job.op \notin CommitOps /\ job.op # "format" /\ ~Late /\ Waiting = defer /\ formats # 0
         /\ \A i \in Inodes : ChainDoneFor(i) <=> ~files[i].dirty
         /\ job.pc # "undo" => Fresh = job.fresh
<1>1. Mounted /\ WriteOk /\ formats # 0
  <2>1. Idle.pc = "idle" BY IdleJob
  <2> QED BY <2>1, Phases
<1>2. job.op \notin CommitOps /\ job.op # "format" BY DEF IsWrite, CommitOps
<1>3. ~Late /\ job.pc # "release" BY <1>1 DEF WriteOk, Late
<1> QED BY <1>1, <1>2, <1>3 DEF Waiting, Fresh, ChainDoneFor

\* A step inside a write that changes neither the files nor the waiting list.
LEMMA QuietNext ==
  ASSUME IsWrite(job'), job'.pc \in {"take", "reserve", "data", "install", "undo"}, UNCHANGED <<files, defer>>
  PROVE  /\ ~Late' /\ Waiting' = defer /\ job'.op # "format"
         /\ \A i \in Inodes : ChainDoneFor(i)' <=> ~files[i].dirty
         /\ job'.pc # "undo" => Fresh' = job'.fresh
<1>1. job'.op \notin CommitOps /\ job'.op # "format" BY DEF IsWrite, CommitOps
<1>2. ~Late' /\ job'.pc # "release" BY DEF Late
<1> QED BY <1>1, <1>2 DEF Waiting, Fresh, ChainDoneFor

\* A step of a write that takes and gives no block.
LEMMA WriteStep ==
  ASSUME Tame, Core, IsWrite(job), job.pc \notin {"idle", "format", "undo"},
         IsWrite(job'), WriteOk', vol' = vol, UNCHANGED <<files, defer, ops, formats>>,
         job'.fresh = job.fresh, job'.pc = "undo" => job'.i = 1,
         SameMap, stable' = disk', faults' \in 0 .. MaxFaults, NEW A, Changed(disk, disk', A), Safe(A), Apart(A)
  PROVE  Core'
<1>1. /\ Mounted /\ WriteOk /\ job.op # "format" /\ ~Late /\ Waiting = defer /\ formats # 0
      /\ \A i \in Inodes : ChainDoneFor(i) <=> ~files[i].dirty
      /\ Fresh = job.fresh
  BY WriteQuiet
<1>2. job'.pc \in {"take", "reserve", "data", "install", "undo"} BY DEF WriteOk
<1>3. /\ ~Late' /\ Waiting' = defer /\ job'.op # "format"
      /\ \A i \in Inodes : ChainDoneFor(i)' <=> ~files[i].dirty
      /\ job'.pc # "undo" => Fresh' = job'.fresh
  BY <1>2, QuietNext
<1>4. Mounted' BY <1>1 DEF Mounted
<1>5. Fresh' = Fresh
  <2>1. job.fresh \in Seq(Ext) BY <1>1 DEF WriteOk
  <2>2. SubSeq(job.fresh, 1, Len(job.fresh)) = job.fresh BY <2>1, WholeList
  <2>3. job'.pc = "undo" => Fresh' = SubSeq(job'.fresh, job'.i, Len(job'.fresh)) BY DEF Fresh
  <2> QED BY <1>1, <1>3, <2>2, <2>3
<1>6. Types /\ Durable BY DEF Core
<1>7. DOMAIN disk' = Blocks BY DEF Changed
<1>8. Types'
  <2>1. GmTypes(gm') BY GoodTypes DEF SameMap
  <2> QED BY <2>1, <1>1, <1>6, <1>7 DEF Types, DiskOk, Counts
<1>9. Phase' BY <1>4 DEF Phase, IsWrite
<1>10. Memory' BY <1>1, <1>3, <1>5, SameHolders DEF SameDone
<1>11. Durable' BY <1>1, <1>3, <1>4, <1>6, <1>7, DurableStep DEF SameMap
<1> QED BY <1>8, <1>9, <1>10, <1>11 DEF Core

\* A write that fails turns to giving its blocks back.
LEMMA FailedWrite ==
  ASSUME JobShape(job), IsWrite(job), WriteOk, job' = Failed(job), UNCHANGED <<files, defer>>
  PROVE  IsWrite(job') /\ WriteOk' /\ job'.fresh = job.fresh /\ job'.pc = "undo" /\ job'.i = 1
<1>1. JobIs(job', job, "undo", job.ino, job.need, job.k, 1, job.fresh, job.stage) BY FailedJob DEF IsWrite
<1>2. job'.op = job.op /\ job'.ino = job.ino /\ job'.pc = "undo" /\ job'.i = 1 /\ job'.fresh = job.fresh
      /\ job'.need = job.need /\ job'.k = job.k /\ job'.off = job.off /\ job'.len = job.len
  BY <1>1 DEF JobIs
<1>3. IsWrite(job') BY <1>2 DEF IsWrite
<1>4. 1 \in 1 .. (Len(job.fresh) + 1) /\ 1 \in Nat
  <2>1. Len(job.fresh) \in Nat BY DEF WriteOk
  <2> QED BY <2>1
<1>5. WriteOk' BY <1>2, <1>4 DEF WriteOk, DeferRoom
<1> QED BY <1>2, <1>3, <1>5

\* Extents of one block.
LEMMA OnesSum ==
  ASSUME NEW s \in Seq(Ext), \A x \in DOMAIN s : s[x].len = 1
  PROVE  LenSum(s) = Len(s) /\ Len(s) \in Nat
<1> DEFINE n == Len(s)
           f == [i \in 0 .. n |-> LenTo(s, i)]
           S == [i \in 0 .. n |-> {i}]
<1>1. n \in Nat /\ DOMAIN s = 1 .. n BY SeqDom
<1>2. LenTo(s, 0) = 0 /\ \A i \in 1 .. n : LenTo(s, i) = LenTo(s, i - 1) + s[i].len BY LenSteps
<1>3. 0 \in 0 .. n /\ n \in 0 .. n /\ \A i \in 1 .. n : i \in 0 .. n /\ i - 1 \in 0 .. n /\ (i - 1) + 1 = i
  <2> HIDE DEF n
  <2> QED BY <1>1
<1>4. f[0] \in S[0] BY <1>2, <1>3
<1>5. \A i \in 1 .. n : f[i - 1] \in S[i - 1] => f[i] \in S[i]
  <2> SUFFICES ASSUME NEW i \in 1 .. n, f[i - 1] \in S[i - 1] PROVE f[i] \in S[i] OBVIOUS
  <2>1. i \in 0 .. n /\ i - 1 \in 0 .. n BY <1>3
  <2>2. LenTo(s, i - 1) = i - 1 BY <2>1
  <2>3. LenTo(s, i) = (i - 1) + 1 BY <2>2, <1>1, <1>2
  <2> QED BY <2>1, <2>3, <1>3
<1>a. \A i \in 0 .. n : f[i] = LenTo(s, i) /\ S[i] = {i} OBVIOUS
<1> HIDE DEF f, S, n
<1>6. \A i \in 0 .. n : f[i] \in S[i] BY <1>1, <1>4, <1>5, Ind
<1>7. LenTo(s, n) = n BY <1>6, <1>a, <1>3
<1> QED BY <1>7, <1>1 DEF LenSum, n

\* The state when a block is looked for.
LEMMA Taking ==
  ASSUME Core, job.pc = "take"
  PROVE  /\ Mounted /\ formats # 0 /\ ~Late /\ Fresh = job.fresh /\ Waiting = defer
         /\ (IsWrite(job) /\ WriteOk) \/ (job.op \in CommitOps /\ ~IsWrite(job) /\ CommitOk)
         /\ job.fresh \in Seq(Ext) /\ LenSum(job.fresh) \in Nat /\ job.need \in Nat /\ LenSum(job.fresh) < job.need
         /\ Want(job) \in Nat /\ Want(job) > 0 /\ job.k \in Nat /\ vol.hint \in Nat
         /\ IsWrite(job) => Want(job) = job.need - LenSum(job.fresh)
<1>1. /\ Mounted /\ formats # 0
      /\ (IsWrite(job) /\ WriteOk) \/ (job.op \in CommitOps /\ ~IsWrite(job) /\ CommitOk)
  <2>1. Idle.pc = "idle" BY IdleJob
  <2> QED BY <2>1, Phases
<1>2. ~Late /\ Fresh = job.fresh /\ Waiting = defer BY DEF Late, Fresh, Waiting
<1>3. job.fresh \in Seq(Ext) /\ job.need \in Nat /\ job.k \in Nat BY <1>1 DEF WriteOk, CommitOk
<1>4. LenSum(job.fresh) \in Nat
  <2>1. Len(job.fresh) \in 0 .. Len(job.fresh) BY <1>3
  <2> QED BY <2>1, <1>3, LenSteps DEF LenSum
<1>5. LenSum(job.fresh) < job.need
  <2>1. CASE IsWrite(job) BY <2>1, <1>1 DEF WriteOk
  <2>2. CASE ~IsWrite(job)
    <3>1. Len(job.fresh) < job.need /\ \A x \in DOMAIN job.fresh : job.fresh[x].len = 1 BY <2>2, <1>1 DEF CommitOk
    <3>2. LenSum(job.fresh) = Len(job.fresh) BY <3>1, <1>3, OnesSum
    <3> QED BY <3>1, <3>2
  <2> QED BY <2>1, <2>2
<1>6. vol.hint \in Nat
  <2>1. vol \in VolType BY DEF Core, Types
  <2> QED BY <2>1, Consts DEF VolType
<1>7. Want(job) = IF IsWrite(job) THEN job.need - LenSum(job.fresh) ELSE 1 BY DEF Want, IsWrite
<1>8. Want(job) \in Nat /\ Want(job) > 0
  <2> DEFINE l == LenSum(job.fresh)
  <2> HIDE DEF l
  <2>1. l \in Nat /\ l < job.need /\ job.need \in Nat BY <1>3, <1>4, <1>5 DEF l
  <2>2. job.need - l \in Nat /\ job.need - l > 0 BY <2>1
  <2> QED BY <2>2, <1>7 DEF l
<1> QED BY <1>1, <1>2, <1>3, <1>4, <1>5, <1>6, <1>7, <1>8

\* What gmap_take does to the volume's map and disk.
LEMMA TakeEffect ==
  ASSUME Tame, Core, job.pc = "take", NEW r \in gmap_take(gm, disk, faults, vol.hint, Want(job), job.k),
         gm' = r.m, SetDisk(r.d), faults' = r.f
  PROVE  /\ MapGood(gm', disk') /\ gm'.slot = gm.slot /\ stable' = disk' /\ faults' \in 0 .. MaxFaults
         /\ Changed(disk, disk', Pending(gm.slot))
         /\ r.res # "found" => UsedBlocks(gm', disk') = UsedBlocks(gm, disk)
         /\ r.res = "found" =>
              /\ r.ext \in Ext /\ r.ext.len <= Want(job) /\ ExtSpan(r.ext) \subseteq Blocks
              /\ ExtSpan(r.ext) \cap UsedBlocks(gm, disk) = {}
              /\ UsedBlocks(gm', disk') = UsedBlocks(gm, disk) \cup ExtSpan(r.ext)
<1> DEFINE m == gm
           d == disk
           f == faults
           h == vol.hint
           n == Want(job)
           k == job.k
<1>1. disk' = r.d /\ stable' = disk' BY SetIs
<1>2. ~ForgetFaults BY DEF Tame
<1>3. Mounted /\ h \in Nat /\ n \in Nat /\ n > 0 /\ k \in Nat BY Taking
<1>4. MapGood(m, d) /\ DOMAIN d = Blocks /\ f \in 0 .. MaxFaults BY <1>3, Live
<1>5. r \in gmap_take(m, d, f, h, n, k) OBVIOUS
<1> HIDE DEF m, d, f, h, n, k
<1>6. /\ MapGood(r.m, r.d) /\ r.m.slot = m.slot
      /\ Changed(d, r.d, Pending(m.slot)) /\ r.f \in 0 .. MaxFaults
      /\ r.res # "found" => UsedBlocks(r.m, r.d) = UsedBlocks(m, d)
      /\ r.res = "found" =>
              /\ r.ext \in Ext /\ r.ext.len <= n /\ ExtSpan(r.ext) \subseteq Blocks
              /\ ExtSpan(r.ext) \cap UsedBlocks(m, d) = {}
              /\ UsedBlocks(r.m, r.d) = UsedBlocks(m, d) \cup ExtSpan(r.ext)
  BY <1>2, <1>3, <1>4, <1>5, TakeGood
<1> QED BY <1>1, <1>6 DEF m, d, n

-----------------------------------------------------------------------------
(* Taking blocks.                                                          *)

\* A step of a commit that moves no block between its holders.
LEMMA CommitStep ==
  ASSUME Tame, Core, Mounted, formats # 0, vol' = vol, UNCHANGED <<ops, formats>>,
         job.op \in CommitOps, job'.op = job.op, CommitOk', files' = files, DeferOk(defer'),
         Waiting' = Waiting, Fresh' = Fresh, job'.fresh = job.fresh, ~Late' => ~Late,
         SameMap, stable' = disk', faults' \in 0 .. MaxFaults, NEW A, Changed(disk, disk', A), Safe(A),
         Chains'
  PROVE  Core'
<1>1. Mounted' BY DEF Mounted
<1>2. Types /\ Durable BY DEF Core
<1>3. DOMAIN disk' = Blocks BY DEF Changed
<1>4. Types'
  <2>1. GmTypes(gm') BY GoodTypes DEF SameMap
  <2> QED BY <2>1, <1>2, <1>3 DEF Types, DiskOk, Counts
<1>5. Phase' BY <1>1 DEF Phase
<1>6. Claims(UsedBlocks(gm, disk), Holdings(files, Waiting, Fresh)) BY Live
<1>7. Claims(UsedBlocks(gm', disk'), Holdings(files', Waiting', Fresh')) BY <1>6 DEF SameMap
<1>8. Memory' BY <1>7 DEF Memory, SameMap
<1>9. Durable' BY <1>1, <1>2, <1>3, DurableStep DEF SameMap
<1> QED BY <1>4, <1>5, <1>8, <1>9 DEF Core

\* The end of an extent of the volume.
LEMMA ExtEnd ==
  ASSUME NEW e \in Ext, ExtSpan(e) \subseteq Blocks
  PROVE  e.start + e.len \in 0 .. Total
<1>1. e.start \in Nat /\ e.len \in Nat /\ e.len > 0 BY SpanCard
<1>2. e.start + e.len - 1 \in ExtSpan(e) BY <1>1 DEF ExtSpan
<1>3. e.start + e.len - 1 \in 0 .. (Total - 1) BY <1>2 DEF Blocks
<1> QED BY <1>1, <1>3, Consts

\* A block or a run was found: what does not depend on the call.
LEMMA FoundStep ==
  ASSUME Tame, Core, job.pc = "take", UNCHANGED <<files, defer, ops, formats>>,
         NEW e, vol' = Hinted(vol, e), Phase', JobShape(job), job' = Took(job, e),
         MapGood(gm', disk'), gm'.slot = gm.slot, stable' = disk', faults' \in 0 .. MaxFaults,
         Changed(disk, disk', Pending(gm.slot)),
         e \in Ext, ExtSpan(e) \subseteq Blocks, ExtSpan(e) \cap UsedBlocks(gm, disk) = {},
         UsedBlocks(gm', disk') = UsedBlocks(gm, disk) \cup ExtSpan(e)
  PROVE  Core'
<1>1. /\ Mounted /\ formats # 0 /\ ~Late /\ Fresh = job.fresh /\ Waiting = defer /\ job.fresh \in Seq(Ext)
  BY Taking
<1>2. /\ job'.op = job.op /\ job'.ino = job.ino /\ job'.fresh = Append(job.fresh, e)
      /\ job'.pc \in {"take", "reserve", "chain"}
  <2>1. JobRec(job) BY DEF JobShape
  <2> DEFINE pc == IF LenSum(job.fresh) + e.len < job.need THEN "take" ELSE IF job.op \in {"write", "write_at"} THEN "reserve" ELSE "chain"
  <2>2. JobIs(job', job, pc, job.ino, job.need, 0, job.i, Append(job.fresh, e), job.stage) BY <2>1, Named
  <2>3. pc \in {"take", "reserve", "chain"} OBVIOUS
  <2> HIDE DEF pc
  <2> QED BY <2>2, <2>3 DEF JobIs
<1>3. e.start + e.len \in 0 .. Total BY ExtEnd
<1>4. /\ vol' \in VolType /\ vol'.mounted = vol.mounted /\ vol'.broken = vol.broken
      /\ vol'.dirty = vol.dirty /\ vol'.gen = vol.gen
  BY <1>1, <1>3, Live, Breaks
<1>5. Mounted' BY <1>1, <1>4 DEF Mounted
<1>6. Types /\ Durable BY DEF Core
<1>7. DOMAIN disk' = Blocks BY DEF Changed
<1>8. Types'
  <2>1. GmTypes(gm') BY GoodTypes
  <2> QED BY <2>1, <1>1, <1>4, <1>6, <1>7 DEF Types, DiskOk, Counts
<1>9. ~Late' /\ Fresh' = Append(Fresh, e) /\ Waiting' = Waiting BY <1>1, <1>2 DEF Late, Fresh, Waiting
<1>10. SameDone BY <1>1, <1>2, <1>9 DEF ChainDoneFor, SameDone
<1>11. Safe(Pending(gm.slot)) /\ Apart(Pending(gm.slot)) BY <1>1, PendingFree
<1>12. Chains' BY <1>1, <1>10, <1>11, ChainsStep
<1>13. Claims(UsedBlocks(gm', disk'), Holdings(files', Waiting', Fresh'))
  <2> DEFINE used == UsedBlocks(gm, disk)
             now == UsedBlocks(gm', disk')
             w == Waiting
             r == Fresh
  <2> HIDE DEF used, now, w, r
  <2>1. Claims(used, Holdings(files, w, r)) BY <1>1, Live DEF used, w, r
  <2>2. ExtSpan(e) \cap used = {} /\ now = used \cup ExtSpan(e) BY DEF used, now
  <2>3. Claims(now, Holdings(files, w, Append(r, e))) BY <2>1, <2>2, TakeClaims
  <2> QED BY <2>3, <1>9 DEF now, w, r
<1>14. Memory' BY <1>12, <1>13 DEF Memory
<1>15. CoveredBy(job'.fresh) = CoveredBy(job.fresh) \cup ExtSpan(e) BY <1>1, <1>2, AppendList
<1>16. Durable' BY <1>1, <1>2, <1>4, <1>5, <1>6, <1>7, <1>9, <1>11, <1>15, DurableStep
<1> QED BY <1>8, <1>14, <1>16 DEF Core

\* A sum below its bound, or exactly at it.
LEMMA NatSum ==
  ASSUME NEW a \in Nat, NEW b \in Nat, NEW n \in Nat, a < n, b <= n - a
  PROVE  a + b <= n /\ (~(a + b < n) => a + b = n /\ a + b >= n)
OBVIOUS

\* Taking one extent for a write keeps the invariant.
LEMMA TakeStep ==
  ASSUME Tame, Shapes, Core, take_extent
  PROVE  Core'
<1>1. job.pc = "take" /\ UNCHANGED <<files, defer, ops, formats>> BY TakeCases
<1>2. JobShape(job) /\ JobRec(job) BY DEF Shapes, JobShape
<1>3. /\ Mounted /\ formats # 0 /\ ~Late /\ Fresh = job.fresh /\ Waiting = defer
      /\ (IsWrite(job) /\ WriteOk) \/ (job.op \in CommitOps /\ ~IsWrite(job) /\ CommitOk)
      /\ job.fresh \in Seq(Ext) /\ LenSum(job.fresh) \in Nat /\ job.need \in Nat /\ LenSum(job.fresh) < job.need
      /\ Want(job) \in Nat /\ Want(job) > 0 /\ job.k \in Nat
      /\ IsWrite(job) => Want(job) = job.need - LenSum(job.fresh)
  BY <1>1, Taking
<1>4. /\ MapGood(gm, disk) /\ DOMAIN disk = Blocks /\ stable = disk /\ vol \in VolType /\ faults \in 0 .. MaxFaults
  BY <1>3, Live
<1>5. Safe(Pending(gm.slot)) /\ Apart(Pending(gm.slot)) BY <1>3, PendingFree
<1>b. ~vol.broken BY <1>3 DEF Mounted
<1>6. ASSUME job' = Failed(job), vol' = BrokenBy(job), SameMap, stable' = disk', faults' \in 0 .. MaxFaults,
             Changed(disk, disk', Pending(gm.slot))
      PROVE  Core'
  <2>1. CASE IsWrite(job)
    <3>1. WriteOk BY <2>1, <1>3
    <3>2. vol' = vol BY <2>1, <1>4, <1>6, <1>b, Breaks
    <3>3. IsWrite(job') /\ WriteOk' /\ job'.fresh = job.fresh /\ job'.pc = "undo" /\ job'.i = 1
      BY <2>1, <3>1, <1>1, <1>2, <1>6, FailedWrite
    <3> QED BY <2>1, <3>2, <3>3, <1>1, <1>5, <1>6, WriteStep
  <2>2. CASE ~IsWrite(job)
    <3>1. job' = Idle BY <2>2, <1>6 DEF Failed, IsWrite
    <3>2. GmTypes(gm') /\ DOMAIN disk' = Blocks BY <1>6, GoodTypes DEF Changed, SameMap
    <3> QED BY <2>2, <3>1, <3>2, <1>1, <1>3, <1>5, <1>6, CommitFails
  <2> QED BY <2>1, <2>2
<1>7. CASE /\ (IsWrite(job) /\ Len(job.fresh) = MaxExt) \/ job.k > NGroups
           /\ job' = Failed(job) /\ vol' = BrokenBy(job) /\ UNCHANGED <<disk, stable, gm, faults>>
  <2>1. Changed(disk, disk', Pending(gm.slot)) BY <1>4, <1>7 DEF Changed
  <2> QED BY <2>1, <1>4, <1>6, <1>7 DEF SameMap
<1>8. ASSUME ~((IsWrite(job) /\ Len(job.fresh) = MaxExt) \/ job.k > NGroups),
             NEW r \in gmap_take(gm, disk, faults, vol.hint, Want(job), job.k), gm' = r.m, SetDisk(r.d), faults' = r.f,
             \/ r.res = "next" /\ job' = NextTurn(job) /\ vol' = vol
             \/ r.res = "eio" /\ job' = Failed(job) /\ vol' = BrokenBy(job)
             \/ r.res = "found" /\ job' = Took(job, r.ext) /\ vol' = Hinted(vol, r.ext)
      PROVE  Core'
  <2>0. /\ MapGood(gm', disk') /\ gm'.slot = gm.slot /\ stable' = disk' /\ faults' \in 0 .. MaxFaults
        /\ Changed(disk, disk', Pending(gm.slot))
        /\ r.res # "found" => SameMap
    BY <1>1, <1>8, TakeEffect DEF SameMap
  <2>1. CASE r.res = "eio" BY <2>0, <2>1, <1>6, <1>8
  <2>2. CASE r.res = "next"
    <3>1. /\ job'.op = job.op /\ job'.pc = job.pc /\ job'.ino = job.ino /\ job'.need = job.need /\ job'.k = job.k + 1
          /\ job'.i = job.i /\ job'.fresh = job.fresh /\ job'.off = job.off /\ job'.len = job.len
      BY <2>2, <1>2, <1>8, Named DEF JobIs
    <3>2. vol' = vol /\ job'.k \in Nat BY <2>2, <3>1, <1>3, <1>8
    <3>4. CASE IsWrite(job)
      <4>1. WriteOk BY <3>4, <1>3
      <4>2. IsWrite(job') BY <3>1, <3>4 DEF IsWrite
      <4>3. WriteOk' BY <4>1, <3>1, <3>2, <1>1 DEF WriteOk, DeferRoom
      <4> QED BY <4>2, <4>3, <3>1, <3>2, <3>4, <2>0, <2>2, <1>1, <1>5, WriteStep
    <3>5. CASE ~IsWrite(job)
      <4>1. CommitOk /\ job.op \in CommitOps BY <3>5, <1>3
      <4>2. CommitOk' BY <4>1, <3>1, <3>2, <1>1 DEF CommitOk
      <4>3. ~Late' /\ Waiting' = Waiting /\ Fresh' = Fresh BY <3>1, <1>1 DEF Late, Waiting, Fresh
      <4>4. SameDone BY <4>3, <3>1, <1>1, <1>3 DEF ChainDoneFor, SameDone
      <4>5. Chains' BY <4>4, <2>0, <1>1, <1>3, <1>5, ChainsStep
      <4>6. DeferOk(defer') BY <1>1, <1>3, Live
      <4> QED BY <4>1, <4>2, <4>3, <4>5, <4>6, <3>1, <3>2, <2>0, <2>2, <1>1, <1>3, <1>5, CommitStep
    <3> QED BY <3>4, <3>5
  <2>3. CASE r.res = "found"
    <3> DEFINE e == r.ext
               l == LenSum(job.fresh)
               pc == IF l + e.len < job.need THEN "take" ELSE IF job.op \in {"write", "write_at"} THEN "reserve" ELSE "chain"
    <3>0. JobIs(job', job, pc, job.ino, job.need, 0, job.i, Append(job.fresh, e), job.stage) BY <2>3, <1>2, <1>8, Named
    <3>a. /\ e \in Ext /\ e.len <= Want(job) /\ ExtSpan(e) \subseteq Blocks
          /\ ExtSpan(e) \cap UsedBlocks(gm, disk) = {}
          /\ UsedBlocks(gm', disk') = UsedBlocks(gm, disk) \cup ExtSpan(e)
      BY <2>3, <1>1, <1>8, TakeEffect
    <3>b. job' = Took(job, e) /\ vol' = Hinted(vol, e) BY <2>3, <1>8
    <3> HIDE DEF e
    <3>1. /\ job'.op = job.op /\ job'.pc = pc /\ job'.ino = job.ino /\ job'.need = job.need /\ job'.k = 0
          /\ job'.i = job.i /\ job'.fresh = Append(job.fresh, e) /\ job'.off = job.off /\ job'.len = job.len
      <4> HIDE DEF pc
      <4> QED BY <3>0 DEF JobIs
    <3>2. /\ job'.fresh \in Seq(Ext) /\ Len(job'.fresh) = Len(job.fresh) + 1 /\ LenSum(job'.fresh) = l + e.len
      BY <3>1, <3>a, <1>3, AppendList
    <3>3. e.len \in Nat /\ e.len > 0 /\ e.start \in Nat BY <3>a, SpanCard
    <3>4. /\ vol' \in VolType /\ vol'.mounted = vol.mounted /\ vol'.broken = vol.broken
          /\ vol'.dirty = vol.dirty /\ vol'.gen = vol.gen
      <4>3. e.start + e.len \in 0 .. Total BY <3>a, ExtEnd
      <4> QED BY <4>3, <3>b, <1>4, Breaks
    <3>5. Mounted' BY <3>4, <1>3 DEF Mounted
    <3>6. l \in Nat /\ l < job.need BY <1>3
    <3>7. CASE IsWrite(job)
      <4>1. WriteOk /\ job.op \in {"write", "write_at"} BY <3>7, <1>3 DEF IsWrite
      <4>2. Len(job'.fresh) <= MaxExt
        <5>1. Len(job.fresh) <= MaxExt /\ Len(job.fresh) # MaxExt /\ Len(job.fresh) \in Nat BY <4>1, <3>7, <1>3, <1>8 DEF WriteOk
        <5> QED BY <5>1, <3>2, ExfsConsts
      <4>3. e.len <= job.need - l BY <3>a, <3>7, <1>3
      <4> HIDE DEF l
      <4>4. l + e.len <= job.need /\ (~(l + e.len < job.need) => l + e.len >= job.need) BY <4>3, <3>3, <3>6, <1>3, NatSum
      <4>5. \/ job'.pc = "take" /\ LenSum(job'.fresh) < job'.need
            \/ job'.pc = "reserve" /\ LenSum(job'.fresh) >= job'.need
        BY <3>1, <3>2, <4>1, <4>4
      <4> HIDE DEF pc
      <4>b. WriteBase(job, files, defer)'
        <5>1. WriteBase(job, files, defer) BY <4>1, WriteOkBase
        <5>2. /\ job'.op = job.op /\ job'.ino = job.ino /\ job'.need = job.need /\ job'.k \in Nat
              /\ job'.i = job.i /\ job'.off = job.off /\ job'.len = job.len /\ job'.fresh \in Seq(Ext)
          BY <3>1, <3>2
        <5> QED BY <5>1, <5>2, <4>2, <1>1 DEF WriteBase
      <4>6. WriteOk' BY <4>b, <4>5 DEF WriteOk, WriteBase, DeferRoom
      <4>7. Phase' BY <4>1, <4>6, <3>1, <3>5 DEF Phase
      <4> QED BY <4>7, <3>a, <3>b, <2>0, <1>1, <1>2, FoundStep
    <3>8. CASE ~IsWrite(job)
      <4>1. CommitOk /\ job.op \in CommitOps /\ job.op \notin {"write", "write_at"} BY <3>8, <1>3 DEF IsWrite
      <4>2. e.len = 1
        <5>1. Want(job) = 1 BY <3>8 DEF Want, IsWrite
        <5> QED BY <5>1, <3>a, <3>3
      <4>3. l = Len(job.fresh) /\ Len(job.fresh) \in Nat
        <5>1. \A x \in DOMAIN job.fresh : job.fresh[x].len = 1 BY <4>1, <1>1 DEF CommitOk
        <5> QED BY <5>1, <1>3, OnesSum
      <4>4. \A x \in DOMAIN job'.fresh : job'.fresh[x].len = 1
        <5>1. \A x \in DOMAIN job.fresh : job.fresh[x].len = 1 BY <4>1, <1>1 DEF CommitOk
        <5> QED BY <5>1, <4>2, <3>1, <1>3
      <4>5. \/ job'.pc = "take" /\ Len(job'.fresh) < job'.need
            \/ job'.pc = "chain" /\ Len(job'.fresh) = job'.need /\ 0 < job'.need
        <5> HIDE DEF l
        <5>1. \/ pc = "take" /\ l + 1 < job.need
              \/ pc = "chain" /\ ~(l + 1 < job.need)
          BY <4>1, <4>2
        <5>2. ~(l + 1 < job.need) => l + 1 = job.need BY <3>6, <1>3
        <5> HIDE DEF pc
        <5> QED BY <5>1, <5>2, <4>3, <3>1, <3>2, <3>6, <1>3
      <4> HIDE DEF l, pc
      <4>6. job.i = 0 BY <4>1, <1>1 DEF CommitOk
      <4>7. CommitOk'
        <5>1. /\ vol'.dirty /\ vol'.gen < MaxGen /\ job'.ino \in Inodes /\ files'[job'.ino].used /\ files'[job'.ino].dirty
              /\ job'.need = ChainBlocks(Len(files'[job'.ino].exts)) /\ job'.ino \in Nat /\ job'.need \in Nat
          BY <4>1, <3>1, <3>4, <1>1 DEF CommitOk
        <5>2. job'.i = 0 /\ job'.k = 0 /\ 1 .. job'.i = {} BY <4>6, <3>1
        <5> QED BY <5>1, <5>2, <4>4, <4>5, <3>2 DEF CommitOk
      <4>8. Phase' BY <4>1, <4>7, <3>1, <3>5 DEF Phase
      <4> QED BY <4>8, <3>a, <3>b, <2>0, <1>1, <1>2, FoundStep
    <3> QED BY <3>7, <3>8
  <2> QED BY <2>1, <2>2, <2>3, <1>8
<1> QED BY <1>7, <1>8, TakeCases

-----------------------------------------------------------------------------
(* The other steps of a write.                                             *)

\* The list a write will install.
LEMMA NewListIs ==
  NewList(job) = IF job.op = "write" THEN job.fresh
                 ELSE Spliced(files[job.ino].exts, FirstBlock(job), job.fresh, LastBlock(job))
BY DEF NewList, Spliced

\* The list that a write will install depends only on its file, its window and its
\* blocks.
LEMMA NewListSame ==
  ASSUME files' = files, job'.op = job.op, job'.ino = job.ino, job'.off = job.off, job'.len = job.len, job'.fresh = job.fresh
  PROVE  NewList(job)' = NewList(job)
BY DEF NewList, FirstBlock, LastBlock

\* Where a step of a write starts from.
LEMMA Writing ==
  ASSUME Shapes, Core, job.pc \in {"reserve", "data", "install", "undo"}
  PROVE  IsWrite(job) /\ Mounted /\ WriteOk /\ JobShape(job) /\ JobRec(job)
<1>1. Mounted /\ ((IsWrite(job) /\ WriteOk) \/ CommitOk) BY Phases
<1> QED BY <1>1 DEF CommitOk, Shapes, JobShape

\* Nothing on disk or in the map changes.
LEMMA Still ==
  ASSUME Core, Mounted, UNCHANGED <<disk, stable, gm>>
  PROVE  SameMap /\ stable' = disk' /\ Changed(disk, disk', {}) /\ Safe({}) /\ Apart({})
<1>1. MapGood(gm, disk) /\ DOMAIN disk = Blocks /\ stable = disk BY Live
<1> QED BY <1>1 DEF Changed, SameMap, Safe, Apart

\* Writing blocks that hold no map keeps the map.
LEMMA MapAway ==
  ASSUME Core, Mounted, gm' = gm, NEW A, Changed(disk, disk', A), NoSlots(A)
  PROVE  SameMap
<1> DEFINE m == gm
           d == disk
           e == disk'
<1>1. MapGood(m, d) /\ Changed(d, e, A) BY Live
<1>2. gm' = m OBVIOUS
<1> HIDE DEF m, d, e
<1>3. SameGroups(m, d, m, e) /\ UsedBlocks(m, e) = UsedBlocks(m, d) BY <1>1, MapFrame
<1> QED BY <1>2, <1>3 DEF m, d, e, SameMap, SameGroups

\* The checks between the allocation and the first data write keep the invariant.
LEMMA ReserveStep ==
  ASSUME Tame, Shapes, Core, Reserve
  PROVE  Core'
<1>1. job.pc = "reserve" /\ UNCHANGED <<disk, stable, gm, vol, files, defer, faults, ops, formats>> BY ReserveCases
<1>2. JobShape(job) /\ JobRec(job) BY <1>1, Writing
<1>3. IsWrite(job) /\ Mounted /\ WriteOk BY <1>1, Writing
<1>4. SameMap /\ stable' = disk' /\ Changed(disk, disk', {}) /\ Safe({}) /\ Apart({}) BY <1>1, <1>3, Still
<1>5. faults' \in 0 .. MaxFaults BY <1>1, <1>3, Live
<1>6. ASSUME IsWrite(job'), WriteOk', job'.fresh = job.fresh, job'.pc = "undo" => job'.i = 1 PROVE Core'
  BY <1>1, <1>3, <1>4, <1>5, <1>6, WriteStep
<1>7. CASE job' = Failed(job)
  <2>1. IsWrite(job') /\ WriteOk' /\ job'.fresh = job.fresh /\ job'.pc = "undo" /\ job'.i = 1
    BY <1>1, <1>2, <1>3, <1>7, FailedWrite
  <2> QED BY <2>1, <1>6
<1>8. CASE ReserveOk /\ job' = Staged(job, NewList(job))
  <2> DEFINE pc == IF job.need = 0 THEN "install" ELSE "data"
             new == NewList(job)
  <2>1. JobIs(job', job, pc, job.ino, job.need, job.k, 0, job.fresh, new) BY <1>2, <1>8, Named
  <2>2. pc = "install" \/ (pc = "data" /\ job.need # 0) OBVIOUS
  <2>a. Len(new) <= MaxExt /\ (job.op = "write" => DeferRoom(Len(DeferredBy(files[job.ino])))) BY <1>8 DEF ReserveOk
  <2> HIDE DEF pc, new
  <2>3. /\ job'.op = job.op /\ job'.pc = pc /\ job'.ino = job.ino /\ job'.need = job.need /\ job'.k = job.k
        /\ job'.i = 0 /\ job'.fresh = job.fresh /\ job'.off = job.off /\ job'.len = job.len /\ job'.stage = new
    BY <2>1 DEF JobIs
  <2>4. IsWrite(job') BY <2>3, <1>3 DEF IsWrite
  <2>5. NewList(job)' = new BY <2>3, <1>1, NewListSame DEF new
  <2>6. WriteBase(job, files, defer)'
    <3>1. WriteBase(job, files, defer) BY <1>3, WriteOkBase
    <3>2. /\ job'.op = job.op /\ job'.ino = job.ino /\ job'.need = job.need /\ job'.k = job.k
          /\ job'.i \in Nat /\ job'.fresh = job.fresh /\ job'.off = job.off /\ job'.len = job.len
      BY <2>3
    <3> QED BY <3>1, <3>2, <1>1 DEF WriteBase
  <2>7. LenSum(job.fresh) >= job.need /\ job.need \in Nat BY <1>1, <1>3 DEF WriteOk
  <2>8. pc = "data" => 0 < job.need BY <2>2, <2>7
  <2>9. job'.op = "write" => DeferRoom(Len(DeferredBy(files[job.ino])))' BY <2>3, <2>a, <1>1 DEF DeferRoom
  <2>10. WriteOk' BY <2>2, <2>3, <2>5, <2>6, <2>7, <2>8, <2>9, <2>a DEF WriteOk, WriteBase, DeferRoom
  <2> QED BY <2>2, <2>3, <2>4, <2>10, <1>6
<1> QED BY <1>7, <1>8, ReserveCases

\* A data block is one of the fresh ones.
LEMMA FreshBlock ==
  ASSUME Core, IsWrite(job), job.pc = "data"
  PROVE  BlockList(job.fresh)[job.i + 1] \in CoveredBy(job.fresh)
<1>1. WriteOk BY WriteQuiet
<1>2. job.fresh \in Seq(Ext) /\ job.i \in Nat /\ job.need \in Nat /\ job.i < job.need /\ LenSum(job.fresh) >= job.need BY <1>1 DEF WriteOk
<1> DEFINE l == BlockList(job.fresh)
           n == LenSum(job.fresh)
           S == CoveredBy(job.fresh)
<1>3. l \in Seq(S) /\ Len(l) = n BY <1>2, BlockFacts
<1>4. n >= job.need BY <1>2
<1> HIDE DEF l, n, S
<1>5. Len(l) \in Nat BY <1>3
<1>6. job.i + 1 \in 1 .. Len(l) BY <1>2, <1>3, <1>4, <1>5
<1>7. l[job.i + 1] \in S BY <1>3, <1>6
<1> QED BY <1>7 DEF l, S

\* A block that the running call took is free on disk: no committed file, superblock or
\* map slot uses it.
LEMMA FreshWritable ==
  ASSUME Core, Mounted, Fresh = job.fresh, NEW b \in CoveredBy(job.fresh)
  PROVE  Writable(b) /\ NoSlots({b}) /\ Apart({b})
<1>1. CoveredBy(job.fresh) \subseteq Blocks /\ CoveredBy(job.fresh) \cap Reserved = {} BY Live
<1>2. \A i \in Inodes : CoveredBy(DeferredBy(files[i])) \cap CoveredBy(job.fresh) = {} BY Live
<1>3. 0 \in Reserved /\ 1 \in Reserved
  <2>1. 0 \in 0 .. (DataStart - 1) /\ 1 \in 0 .. (DataStart - 1) BY ExfsConsts
  <2> QED BY <2>1, FixedReserved
<1>4. {b} \cap Reserved = {} BY <1>1
<1>5. NoSlots({b})
  <2> DEFINE B == {b}
  <2>1. B \cap Reserved = {} BY <1>4
  <2> HIDE DEF B
  <2>2. NoSlots(B) BY <2>1, NoSlotsIn
  <2> QED BY <2>2 DEF B
<1> QED BY <1>1, <1>2, <1>3, <1>5 DEF Writable, Apart

\* Writing one data block keeps the invariant.
LEMMA DataStep ==
  ASSUME Tame, Shapes, Core, DataPut
  PROVE  Core'
<1>1. job.pc = "data" /\ UNCHANGED <<gm, vol, files, defer, ops, formats>> BY DataCases
<1>2. JobShape(job) /\ JobRec(job) BY <1>1, Writing
<1>3. IsWrite(job) /\ Mounted /\ WriteOk BY <1>1, Writing
<1>4. Fresh = job.fresh BY <1>1, <1>3, WriteQuiet
<1>5. faults \in 0 .. MaxFaults /\ DOMAIN disk = Blocks /\ stable = disk /\ MapGood(gm, disk) BY <1>3, Live
<1>6. CASE job' = Failed(job) /\ UNCHANGED <<disk, stable>> /\ \E b : \E r \in blk_got(faults, b) : faults' = r.f
  <2>1. IsWrite(job') /\ WriteOk' /\ job'.fresh = job.fresh /\ job'.pc = "undo" /\ job'.i = 1
    BY <1>1, <1>2, <1>3, <1>6, FailedWrite
  <2>2. faults' \in 0 .. MaxFaults BY <1>5, <1>6, GotResults
  <2>3. SameMap /\ stable' = disk' /\ Changed(disk, disk', {}) /\ Safe({}) /\ Apart({}) BY <1>1, <1>3, <1>6, Still
  <2> QED BY <2>1, <2>2, <2>3, <1>1, <1>3, WriteStep
<1>7. ASSUME NEW f, NEW page, NEW w \in blk_put(disk, f, BlockList(job.fresh)[job.i + 1], DataBlock(page)),
             f = faults \/ \E b : \E r \in blk_got(faults, b) : f = r.f,
             SetDisk(w.d), faults' = w.f, job' = IF w.ok THEN NextPut(job) ELSE Failed(job)
      PROVE  Core'
  <2> DEFINE b == BlockList(job.fresh)[job.i + 1]
             A == {b}
             c == DataBlock(page)
  <2>1. b \in CoveredBy(job.fresh) BY <1>1, <1>3, FreshBlock
  <2>2. w \in blk_put(disk, f, b, c) BY <1>7
  <2> HIDE DEF b, c
  <2>3. Writable(b) /\ NoSlots(A) /\ Apart(A) BY <2>1, <1>3, <1>4, FreshWritable
  <2>4. f \in 0 .. MaxFaults BY <1>5, <1>7, GotResults
  <2>5. ChangedAt(disk, w.d, b) /\ w.f \in 0 .. MaxFaults BY <2>2, <2>4, <1>5, PutResults
  <2>6. disk' = w.d /\ stable' = disk' /\ faults' \in 0 .. MaxFaults BY <2>5, <1>7, SetIs
  <2>7. Changed(disk, disk', A) BY <2>5, <2>6 DEF Changed, ChangedAt
  <2>8. Safe(A) BY <2>3 DEF Safe
  <2> HIDE DEF A
  <2>9. SameMap BY <1>1, <1>3, <2>3, <2>7, MapAway
  <2>10. ASSUME IsWrite(job'), WriteOk', job'.fresh = job.fresh, job'.pc = "undo" => job'.i = 1 PROVE Core'
    BY <2>3, <2>6, <2>7, <2>8, <2>9, <2>10, <1>1, <1>3, WriteStep
  <2>11. CASE job' = Failed(job)
    <3>1. IsWrite(job') /\ WriteOk' /\ job'.fresh = job.fresh /\ job'.pc = "undo" /\ job'.i = 1
      BY <1>1, <1>2, <1>3, <2>11, FailedWrite
    <3> QED BY <3>1, <2>10
  <2>12. CASE job' = NextPut(job)
    <3> DEFINE pc == IF job.i + 1 = job.need THEN "install" ELSE "data"
    <3>1. JobIs(job', job, pc, job.ino, job.need, job.k, job.i + 1, job.fresh, job.stage) BY <1>2, <2>12, Named
    <3>2. pc = "install" \/ (pc = "data" /\ job.i + 1 # job.need) OBVIOUS
    <3> HIDE DEF pc
    <3>3. /\ job'.op = job.op /\ job'.pc = pc /\ job'.ino = job.ino /\ job'.need = job.need /\ job'.k = job.k
          /\ job'.i = job.i + 1 /\ job'.fresh = job.fresh /\ job'.off = job.off /\ job'.len = job.len /\ job'.stage = job.stage
      BY <3>1 DEF JobIs
    <3>4. IsWrite(job') BY <3>3, <1>3 DEF IsWrite
    <3>5. NewList(job)' = NewList(job) BY <3>3, <1>1, NewListSame
    <3>6. /\ job.i \in Nat /\ job.need \in Nat /\ job.i < job.need /\ LenSum(job.fresh) >= job.need
          /\ job.stage = NewList(job) /\ Len(job.stage) <= MaxExt
          /\ (job.op = "write" => DeferRoom(Len(DeferredBy(files[job.ino]))))
      BY <1>1, <1>3 DEF WriteOk
    <3>7. job.i + 1 \in Nat /\ (pc = "data" => job.i + 1 < job.need) BY <3>2, <3>6
    <3>8. WriteBase(job, files, defer)'
      <4>1. WriteBase(job, files, defer) BY <1>3, WriteOkBase
      <4> QED BY <4>1, <3>3, <3>7, <1>1 DEF WriteBase
    <3>9. job'.op = "write" => DeferRoom(Len(DeferredBy(files[job.ino])))' BY <3>3, <3>6, <1>1 DEF DeferRoom
    <3>10. WriteOk' BY <3>2, <3>3, <3>5, <3>6, <3>7, <3>8, <3>9 DEF WriteOk, WriteBase, DeferRoom
    <3> QED BY <3>2, <3>3, <3>4, <3>10, <2>10
  <2> QED BY <2>11, <2>12, <1>7
<1> QED BY <1>6, <1>7, DataCases

\* What gmap_release does to the volume's map and disk.
LEMMA ReleaseEffect ==
  ASSUME Tame, Core, Mounted, NEW e \in Ext, ExtSpan(e) \subseteq UsedBlocks(gm, disk), ExtSpan(e) \cap Reserved = {},
         NEW r \in gmap_release(gm, disk, faults, e), gm' = r.m, SetDisk(r.d), faults' = r.f
  PROVE  /\ MapGood(gm', disk') /\ gm'.slot = gm.slot /\ stable' = disk' /\ faults' \in 0 .. MaxFaults
         /\ Changed(disk, disk', Pending(gm.slot)) /\ r.ok \in BOOLEAN
         /\ r.ok => UsedBlocks(gm', disk') = UsedBlocks(gm, disk) \ ExtSpan(e)
<1> DEFINE m == gm
           d == disk
           f == faults
<1>1. disk' = r.d /\ stable' = disk' BY SetIs
<1>2. ~ForgetFaults BY DEF Tame
<1>3. MapGood(m, d) /\ DOMAIN d = Blocks /\ f \in 0 .. MaxFaults BY Live
<1>4. r \in gmap_release(m, d, f, e) /\ ExtSpan(e) \subseteq UsedBlocks(m, d) OBVIOUS
<1> HIDE DEF m, d, f
<1>5. /\ MapGood(r.m, r.d) /\ r.m.slot = m.slot
      /\ Changed(d, r.d, Pending(m.slot)) /\ r.f \in 0 .. MaxFaults /\ r.ok \in BOOLEAN
      /\ r.ok => UsedBlocks(r.m, r.d) = UsedBlocks(m, d) \ ExtSpan(e)
  BY <1>2, <1>3, <1>4, ReleaseGood
<1> QED BY <1>1, <1>5 DEF m, d

\* Giving back the blocks of a failed write keeps the invariant.
LEMMA UndoStep ==
  ASSUME Tame, Shapes, Core, release_fresh
  PROVE  Core'
<1>1. job.pc = "undo" /\ UNCHANGED <<vol, files, defer, ops, formats>> BY UndoCases
<1>2. JobShape(job) /\ JobRec(job) BY <1>1, Writing
<1>3. IsWrite(job) /\ Mounted /\ WriteOk BY <1>1, Writing
<1>4. /\ job.op \notin CommitOps /\ job.op # "format" /\ ~Late /\ Waiting = defer /\ formats # 0
      /\ \A i \in Inodes : ChainDoneFor(i) <=> ~files[i].dirty
  BY <1>1, <1>3, WriteQuiet
<1>5. Fresh = SubSeq(job.fresh, job.i, Len(job.fresh)) BY <1>1 DEF Fresh
<1>6. job.fresh \in Seq(Ext) /\ Len(job.fresh) \in Nat /\ job.i \in Nat /\ job.i \in 1 .. (Len(job.fresh) + 1) BY <1>1, <1>3 DEF WriteOk
<1>7. Mounted' BY <1>1, <1>3 DEF Mounted
<1>8. Types /\ Durable /\ faults \in 0 .. MaxFaults BY <1>3, Live DEF Core
<1>9. CASE job.i > Len(job.fresh) /\ job' = Idle /\ UNCHANGED <<disk, stable, gm, faults>>
  <2>1. job.i = Len(job.fresh) + 1 BY <1>6, <1>9
  <2>2. Fresh = <<>> BY <2>1, <1>5, <1>6, WholeList
  <2>3. Idle.pc = "idle" /\ Idle.op = "none" /\ Idle.fresh = <<>> BY IdleJob
  <2>4. Fresh' = <<>> /\ Waiting' = defer /\ ~Late' BY <2>3, <1>1, <1>9 DEF Fresh, Waiting, Late
  <2>5. \A i \in Inodes : ChainDoneFor(i)' <=> ~files[i].dirty BY <2>3, <2>4, <1>1, <1>9 DEF ChainDoneFor, CommitOps
  <2>6. SameMap /\ stable' = disk' /\ Changed(disk, disk', {}) /\ Safe({}) /\ Apart({}) BY <1>3, <1>9, Still
  <2>7. Memory' BY <2>2, <2>4, <2>5, <2>6, <1>1, <1>3, <1>4, SameHolders DEF SameDone
  <2>8. DOMAIN disk' = Blocks BY <2>6 DEF Changed
  <2>9. Types'
    <3>1. GmTypes(gm') BY <2>6, GoodTypes DEF SameMap
    <3> QED BY <3>1, <2>6, <2>8, <1>1, <1>4, <1>8, <1>9 DEF Types, DiskOk, Counts
  <2>10. CoveredBy(job'.fresh) = {} BY <2>3, <1>9, EmptyExts
  <2>11. job'.op = "none" BY <2>3, <1>9
  <2>12. Durable' BY <2>4, <2>6, <2>8, <2>10, <2>11, <1>1, <1>3, <1>4, <1>7, <1>8, DurableStep DEF SameMap
  <2>13. Phase' BY <1>9 DEF Phase
  <2> QED BY <2>7, <2>9, <2>12, <2>13 DEF Core
<1>10. ASSUME ~(job.i > Len(job.fresh)), job' = NextItem(job), NEW r \in gmap_release(gm, disk, faults, job.fresh[job.i]),
              r.ok \/ ForgetFaults, gm' = r.m, SetDisk(r.d), faults' = r.f
       PROVE  Core'
  <2> DEFINE s == job.fresh
             i == job.i
             e == s[i]
             used == UsedBlocks(gm, disk)
             A == Pending(gm.slot)
  <2>1. i \in 1 .. Len(s) BY <1>6, <1>10
  <2>2. e \in Ext BY <2>1, <1>6
  <2>3. Claims(used, Holdings(files, defer, SubSeq(s, i, Len(s)))) BY <1>3, <1>4, <1>5, Live
  <2>4. s \in Seq(Ext) BY <1>6
  <2>5. r \in gmap_release(gm, disk, faults, e) BY <1>10
  <2> DEFINE now == used \ ExtSpan(e)
  <2> HIDE DEF s, i, used
  <2> DEFINE u == SubSeq(s, i, Len(s))
             t == SubSeq(s, i + 1, Len(s))
             drop == ExtSpan(s[i])
  <2>a. now = used \ drop /\ Claims(used, Holdings(files, defer, u)) BY <2>3
  <2>c. Gives(used, s, i, u, t, drop, now) BY <2>1, <2>4 DEF Gives
  <2> HIDE DEF now, u, t, drop
  <2>b. Claims(now, Holdings(files, defer, t)) /\ drop \subseteq used /\ drop \cap Reserved = {}
    BY <2>a, <2>c, GiveFresh
  <2>6. ExtSpan(e) \subseteq used /\ ExtSpan(e) \cap Reserved = {} BY <2>b DEF drop
  <2> HIDE DEF e
  <2>7. /\ MapGood(gm', disk') /\ gm'.slot = gm.slot /\ stable' = disk' /\ faults' \in 0 .. MaxFaults
        /\ Changed(disk, disk', A) /\ r.ok \in BOOLEAN
        /\ r.ok => UsedBlocks(gm', disk') = used \ ExtSpan(e)
    BY <2>2, <2>5, <2>6, <1>3, <1>10, ReleaseEffect DEF used
  <2>8. UsedBlocks(gm', disk') = now BY <2>7, <1>10 DEF Tame, now
  <2>9. Safe(A) /\ Apart(A) BY <1>3, PendingFree
  <2> HIDE DEF A
  <2>11. /\ job'.op = job.op /\ job'.pc = "undo" /\ job'.ino = job.ino /\ job'.need = job.need /\ job'.k = job.k
         /\ job'.i = job.i + 1 /\ job'.fresh = job.fresh /\ job'.off = job.off /\ job'.len = job.len
    BY <1>2, <1>10, <1>1, Named DEF JobIs
  <2>12. IsWrite(job') BY <2>11, <1>3 DEF IsWrite
  <2>13. job.i + 1 \in 1 .. (Len(job.fresh) + 1) /\ job.i + 1 \in Nat BY <2>1, <1>6 DEF i, s
  <2>14. WriteOk'
    <3>1. WriteBase(job, files, defer) BY <1>3, WriteOkBase
    <3>2. WriteBase(job, files, defer)' BY <3>1, <2>11, <2>13, <1>1 DEF WriteBase
    <3> QED BY <3>2, <2>11, <2>13 DEF WriteOk, WriteBase, DeferRoom
  <2>15. Phase' BY <2>11, <2>12, <2>14, <1>7 DEF Phase, IsWrite
  <2>16. ~Late' /\ Waiting' = defer /\ \A j \in Inodes : ChainDoneFor(j)' <=> ~files[j].dirty
    BY <2>11, <2>12, <1>1, QuietNext
  <2>17. Chains' BY <2>7, <2>9, <2>16, <1>1, <1>3, <1>4, ChainsStep DEF SameDone
  <2>18. Fresh' = SubSeq(s, i + 1, Len(s)) BY <2>11 DEF Fresh, s, i
  <2>19. Memory' BY <2>b, <2>7, <2>8, <2>16, <2>17, <2>18, <1>1 DEF Memory, t
  <2>20. DOMAIN disk' = Blocks BY <2>7 DEF Changed
  <2>21. Types'
    <3>1. GmTypes(gm') BY <2>7, GoodTypes
    <3> QED BY <3>1, <2>7, <2>20, <1>1, <1>4, <1>8 DEF Types, DiskOk, Counts
  <2>22. ExtSpan(e) \subseteq CoveredBy(job.fresh) BY <2>1, <2>4, SeqDom, CoverAt DEF e, s
  <2>23. \A b \in UsedBlocks(gm, disk) : b \in UsedBlocks(gm', disk') \/ b \in CoveredBy(job.fresh)
    BY <2>8, <2>22 DEF used, now
  <2>24. job'.op # "format" /\ CoveredBy(job'.fresh) = CoveredBy(job.fresh) BY <2>11, <1>4
  <2>25. Durable' BY <2>7, <2>9, <2>16, <2>20, <2>23, <2>24, <1>1, <1>3, <1>4, <1>7, <1>8, DurableStep
  <2> QED BY <2>15, <2>19, <2>21, <2>25 DEF Core
<1> QED BY <1>9, <1>10, UndoCases

-----------------------------------------------------------------------------
(* The steps of a commit.                                                  *)

\* A commit step that goes on, whatever it moves between the holders.
LEMMA CommitMove ==
  ASSUME Tame, Core, Mounted, formats # 0, vol' = vol, UNCHANGED <<ops, formats>>,
         job.op \in CommitOps, job'.op = job.op, CommitOk', FilesOk(files'), DeferOk(defer'),
         CoveredBy(job'.fresh) \subseteq CoveredBy(job.fresh),
         Late' \/ (~Late /\ UsedBlocks(gm', disk') = UsedBlocks(gm, disk)),
         MapGood(gm', disk'), gm'.slot = gm.slot, Claims(UsedBlocks(gm', disk'), Holdings(files', Waiting', Fresh')),
         stable' = disk', faults' \in 0 .. MaxFaults, NEW A, Changed(disk, disk', A), Safe(A),
         Chains'
  PROVE  Core'
<1>1. Mounted' BY DEF Mounted
<1>2. Types /\ Durable BY DEF Core
<1>3. DOMAIN disk' = Blocks BY DEF Changed
<1>4. Types'
  <2>1. GmTypes(gm') BY GoodTypes
  <2> QED BY <2>1, <1>2, <1>3 DEF Types, DiskOk, Counts
<1>5. Phase' BY <1>1 DEF Phase
<1>6. vol'.dirty BY DEF CommitOk
<1>8. Memory' BY DEF Memory
<1>9. Durable' BY <1>1, <1>2, <1>3, <1>6, DurableStep
<1> QED BY <1>4, <1>5, <1>8, <1>9 DEF Core

\* Where a commit step starts from.
LEMMA Committing ==
  ASSUME Shapes, Core, job.pc \in {"file", "chain", "release", "flush", "itab", "super"}
  PROVE  /\ Mounted /\ formats # 0 /\ job.op \in CommitOps /\ ~IsWrite(job) /\ CommitOk /\ JobRec(job) /\ vol.dirty
         /\ Fresh = job.fresh /\ (job.pc # "release" => Waiting = defer) /\ vol.gen \in Nat /\ vol.gen < MaxGen
<1>1. Mounted /\ ((IsWrite(job) /\ WriteOk) \/ (job.op \in CommitOps /\ ~IsWrite(job) /\ CommitOk)) BY Phases
<1>2. job.op \in CommitOps /\ ~IsWrite(job) /\ CommitOk BY <1>1 DEF WriteOk
<1>3. formats # 0
  <2>1. job # Idle BY IdleJob
  <2> QED BY <2>1, Phases
<1>4. vol.gen \in Nat BY <1>1, Live DEF VolType
<1> QED BY <1>1, <1>2, <1>3, <1>4 DEF CommitOk, Fresh, Waiting, Shapes, JobShape

\* Releasing one waiting extent inside a commit keeps the invariant.
LEMMA DeferStep ==
  ASSUME Tame, Shapes, Core, apply_deferred
  PROVE  Core'
<1>1. job.pc = "release" /\ UNCHANGED <<files, ops, formats>> BY DeferCases
<1>2. Mounted /\ formats # 0 /\ job.op \in CommitOps /\ ~IsWrite(job) /\ CommitOk /\ JobRec(job) /\ Fresh = job.fresh
  BY <1>1, Committing
<1>3. /\ vol.dirty /\ vol.gen < MaxGen /\ job.ino \in Nat /\ job.k \in Nat /\ job.i \in Nat /\ job.need \in Nat
      /\ job.fresh = <<>> /\ job.fresh \in Seq(Ext) /\ job.i \in 1 .. (Len(defer) + 1)
  BY <1>1, <1>2 DEF CommitOk
<1>4. Waiting = SubSeq(defer, job.i, Len(defer)) /\ Late BY <1>1 DEF Waiting, Late
<1>5. DeferOk(defer) /\ defer \in Seq(Ext) /\ Len(defer) \in Nat BY <1>2, Live DEF DeferOk
<1>6. faults \in 0 .. MaxFaults /\ FilesOk(files) BY <1>2, Live
<1>7. CASE job.i > Len(defer) /\ defer' = <<>> /\ job' = ToFlush(job) /\ UNCHANGED <<disk, stable, gm, vol, faults>>
  <2>1. job.i = Len(defer) + 1 BY <1>3, <1>5, <1>7
  <2>2. Waiting = <<>> BY <2>1, <1>4, <1>5, WholeList
  <2>4. /\ job'.op = job.op /\ job'.pc = "flush" /\ job'.ino = job.ino /\ job'.need = job.need /\ job'.k = job.k
        /\ job'.i = job.i /\ job'.fresh = job.fresh
    BY <1>2, <1>7, Named DEF JobIs
  <2>5. CommitOk' BY <2>4, <1>3, <1>7 DEF CommitOk
  <2>6. Late' /\ Waiting' = Waiting /\ Fresh' = Fresh BY <2>2, <2>4, <1>1, <1>7 DEF Late, Waiting, Fresh
  <2>7. SameMap /\ stable' = disk' /\ Changed(disk, disk', {}) /\ Safe({}) /\ Apart({}) BY <1>2, <1>7, Still
  <2>8. SameDone BY <2>6, <1>4 DEF ChainDoneFor, SameDone
  <2>9. Chains' BY <2>7, <2>8, <1>1, <1>2, ChainsStep
  <2>10. DeferOk(defer') BY <1>7, EmptyExts, ExfsConsts DEF DeferOk
  <2> QED BY <2>4, <2>5, <2>6, <2>7, <2>9, <2>10, <1>1, <1>2, <1>6, <1>7, CommitStep
<1>8. ASSUME ~(job.i > Len(defer)), defer' = defer, NEW r \in gmap_release(gm, disk, faults, defer[job.i]),
             gm' = r.m, SetDisk(r.d), faults' = r.f,
             (r.ok /\ job' = NextItem(job) /\ vol' = vol) \/ (~r.ok /\ job' = Idle /\ vol' = BrokenBy(job))
      PROVE  Core'
  <2> DEFINE s == defer
             i == job.i
             e == s[i]
             used == UsedBlocks(gm, disk)
             A == Pending(gm.slot)
             now == used \ ExtSpan(e)
             w == Fresh
  <2>1. i \in 1 .. Len(s) BY <1>3, <1>5, <1>8
  <2>2. e \in Ext /\ s \in Seq(Ext) BY <2>1, <1>5
  <2>3. Claims(used, Holdings(files, SubSeq(s, i, Len(s)), w)) BY <1>2, <1>4, Live
  <2>4. r \in gmap_release(gm, disk, faults, e) BY <1>8
  <2> HIDE DEF s, i, used, w
  <2> DEFINE u == SubSeq(s, i, Len(s))
             t == SubSeq(s, i + 1, Len(s))
             drop == ExtSpan(s[i])
  <2>5. now = used \ drop /\ Claims(used, Holdings(files, u, w)) BY <2>3
  <2>6. Gives(used, s, i, u, t, drop, now) BY <2>1, <2>2 DEF Gives
  <2> HIDE DEF now, u, t, drop
  <2>7. Claims(now, Holdings(files, t, w)) /\ drop \subseteq used /\ drop \cap Reserved = {}
    BY <2>5, <2>6, GiveWaiting
  <2>8. ExtSpan(e) \subseteq used /\ ExtSpan(e) \cap Reserved = {} BY <2>7 DEF drop
  <2> HIDE DEF e
  <2>9. /\ MapGood(gm', disk') /\ gm'.slot = gm.slot /\ stable' = disk' /\ faults' \in 0 .. MaxFaults
        /\ Changed(disk, disk', A) /\ r.ok \in BOOLEAN
        /\ r.ok => UsedBlocks(gm', disk') = used \ ExtSpan(e)
    BY <2>2, <2>4, <2>8, <1>2, <1>8, ReleaseEffect DEF used
  <2>10. Safe(A) /\ Apart(A) BY <1>2, PendingFree
  <2> HIDE DEF A
  <2>11. CASE ~r.ok /\ job' = Idle /\ vol' = BrokenBy(job)
    <3>1. GmTypes(gm') /\ DOMAIN disk' = Blocks BY <2>9, GoodTypes DEF Changed
    <3> QED BY <3>1, <2>9, <2>10, <2>11, <1>1, <1>2, <1>8, CommitFails
  <2>12. CASE r.ok /\ job' = NextItem(job) /\ vol' = vol
    <3>2. /\ job'.op = job.op /\ job'.pc = "release" /\ job'.ino = job.ino /\ job'.need = job.need /\ job'.k = job.k
          /\ job'.i = job.i + 1 /\ job'.fresh = job.fresh
      BY <2>12, <1>2, <1>1, Named DEF JobIs
    <3>3. job.i + 1 \in 1 .. (Len(defer) + 1) /\ job.i + 1 \in Nat BY <2>1, <1>5 DEF i, s
    <3>4. CommitOk'
      <4>1. job'.i \in Nat /\ job'.i \in 1 .. (Len(defer') + 1) BY <3>2, <3>3, <1>8
      <4>2. vol'.dirty /\ vol'.gen < MaxGen BY <2>12, <1>3
      <4> QED BY <4>1, <4>2, <3>2, <1>3 DEF CommitOk
    <3>5. Late' /\ Waiting' = t /\ Fresh' = w BY <3>2, <1>1, <1>2, <1>8 DEF Late, Waiting, Fresh, t, s, i, w
    <3>6. SameDone BY <3>5, <1>4 DEF ChainDoneFor, SameDone
    <3>7. Chains' BY <3>6, <2>9, <2>10, <1>1, <1>2, ChainsStep
    <3>8. UsedBlocks(gm', disk') = now BY <2>9, <2>12 DEF now
    <3>9. Claims(UsedBlocks(gm', disk'), Holdings(files', Waiting', Fresh')) BY <3>5, <3>8, <2>7, <1>1
    <3>10. DeferOk(defer') /\ FilesOk(files') BY <1>1, <1>5, <1>6, <1>8
    <3> QED BY <3>2, <3>4, <3>5, <3>7, <3>9, <3>10, <2>9, <2>10, <2>12, <1>1, <1>2, CommitMove
  <2> QED BY <2>11, <2>12, <1>8
<1> QED BY <1>7, <1>8, DeferCases

\* Flushing the map inside a commit keeps the invariant.
LEMMA FlushStep ==
  ASSUME Tame, Shapes, Core, gmap_flush
  PROVE  Core'
<1>1. job.pc = "flush" /\ UNCHANGED <<files, defer, ops, formats>> BY FlushCases
<1>2. Mounted /\ formats # 0 /\ job.op \in CommitOps /\ ~IsWrite(job) /\ CommitOk /\ JobRec(job) /\ Fresh = job.fresh /\ Waiting = defer
  BY <1>1, Committing
<1>3. /\ vol.dirty /\ vol.gen < MaxGen /\ job.ino \in Nat /\ job.k \in Nat /\ job.i \in Nat /\ job.need \in Nat
      /\ job.fresh = <<>> /\ job.fresh \in Seq(Ext) /\ defer = <<>>
  BY <1>1, <1>2 DEF CommitOk
<1>4. Late BY <1>1 DEF Late
<1>5. DeferOk(defer') BY <1>1, <1>2, Live
<1>6. faults \in 0 .. MaxFaults /\ MapGood(gm, disk) /\ MapTyped(gm) /\ MapRec(gm) /\ DOMAIN disk = Blocks BY <1>2, Live DEF MapTyped
<1>7. CASE DirtyIn(gm) = {} /\ job' = ToItab(job) /\ UNCHANGED <<disk, stable, gm, vol, faults>>
  <2>4. /\ job'.op = job.op /\ job'.pc = "itab" /\ job'.ino = job.ino /\ job'.need = job.need /\ job'.k = job.k
        /\ job'.i = 0 /\ job'.fresh = job.fresh
    BY <1>2, <1>7, Named DEF JobIs
  <2>5. CommitOk'
    <3>1. PagesOn(disk, vol.gen + 1, 0, files)' BY DEF PagesOn
    <3>2. job'.i \in Nat /\ job'.i < ITabBlocks BY <2>4, ExfsConsts
    <3> QED BY <3>1, <3>2, <2>4, <1>1, <1>3, <1>7 DEF CommitOk
  <2>6. Late' /\ Waiting' = Waiting /\ Fresh' = Fresh BY <2>4, <1>1, <1>2, <1>7 DEF Late, Waiting, Fresh
  <2>7. SameMap /\ stable' = disk' /\ Changed(disk, disk', {}) /\ Safe({}) /\ Apart({}) BY <1>2, <1>7, Still
  <2>8. SameDone BY <2>6, <1>4 DEF ChainDoneFor, SameDone
  <2>9. Chains' BY <2>7, <2>8, <1>1, <1>2, ChainsStep
  <2> QED BY <2>4, <2>5, <2>6, <2>7, <2>9, <1>1, <1>2, <1>5, <1>6, <1>7, CommitStep
<1>8. ASSUME DirtyIn(gm) # {}, NEW r \in flush_one(gm, disk, faults, Min(DirtyIn(gm))),
             gm' = r.m, SetDisk(r.d), faults' = r.f,
             (r.ok /\ job' = job /\ vol' = vol) \/ (~r.ok /\ job' = Idle /\ vol' = BrokenBy(job))
      PROVE  Core'
  <2> DEFINE m == gm
             d == disk
             f == faults
             x == Min(DirtyIn(gm))
             A == Pending(gm.slot)
  <2>1. x \in DOMAIN m.cache
    <3>1. DirtyIn(gm) \subseteq DOMAIN gm.cache BY DEF DirtyIn
    <3>2. gm.cache \in Seq(Entries) BY <1>6 DEF MapTyped
    <3>3. DirtyIn(gm) \subseteq Nat BY <3>1, <3>2
    <3>4. x \in DirtyIn(gm) BY <3>3, <1>8, Least
    <3> QED BY <3>1, <3>4
  <2>2. r \in flush_one(m, d, f, x) BY <1>8
  <2>3. MapGood(m, d) /\ MapTyped(m) /\ MapRec(m) /\ DOMAIN d = Blocks /\ f \in 0 .. MaxFaults BY <1>6
  <2>4. disk' = r.d /\ stable' = disk' BY <1>8, SetIs
  <2> HIDE DEF m, d, f, x
  <2>5. /\ ChangedAt(d, r.d, Goes(m, x)) /\ r.f \in 0 .. MaxFaults /\ r.ok \in BOOLEAN
        /\ ~r.ok => r.m = m
    BY <2>2, <2>3, FlushOut
  <2>6. Goes(m, x) \in Pending(m.slot)
    <3>1. m.cache[x].g \in Groups BY <2>1, <2>3, EntryAt
    <3> QED BY <3>1 DEF Goes, Pending
  <2>7. Changed(d, r.d, Pending(m.slot)) BY <2>5, <2>6 DEF Changed, ChangedAt
  <2>8. Changed(disk, disk', A) BY <2>4, <2>7 DEF d, m
  <2>10. Safe(A) /\ Apart(A) BY <1>2, PendingFree
  <2> HIDE DEF A
  <2>9. faults' \in 0 .. MaxFaults BY <2>5, <1>8
  <2>11. CASE ~r.ok /\ job' = Idle /\ vol' = BrokenBy(job)
    <3>1. GmTypes(gm') /\ DOMAIN disk' = Blocks
      <4>1. gm' = gm BY <2>5, <2>11, <1>8 DEF m
      <4> QED BY <4>1, <2>8, <1>6, GoodTypes DEF Changed
    <3> QED BY <3>1, <2>4, <2>8, <2>9, <2>10, <2>11, <1>1, <1>2, <1>8, CommitFails
  <2>12. CASE r.ok /\ job' = job /\ vol' = vol
    <3>1. SameGroups(m, d, r.m, r.d) BY <2>1, <2>2, <2>3, <2>12, FlushGood
    <3>2. MapGood(r.m, r.d) /\ r.m.slot = m.slot /\ UsedBlocks(r.m, r.d) = UsedBlocks(m, d) BY <3>1, SameUsed DEF SameGroups
    <3>3. SameMap BY <3>2, <2>4, <1>8 DEF m, d, SameMap
    <3>4. CommitOk' BY <2>12, <1>1, <1>3 DEF CommitOk
    <3>5. Late' /\ Waiting' = Waiting /\ Fresh' = Fresh BY <2>12, <1>1, <1>2 DEF Late, Waiting, Fresh
    <3>6. SameDone BY <3>5, <1>4 DEF ChainDoneFor, SameDone
    <3>7. Chains' BY <3>6, <2>8, <2>10, <1>1, <1>2, ChainsStep
    <3> QED BY <3>3, <3>4, <3>5, <3>7, <2>4, <2>8, <2>9, <2>10, <2>12, <1>1, <1>2, <1>5, CommitStep
  <2> QED BY <2>11, <2>12, <1>8
<1> QED BY <1>7, <1>8, FlushCases

\* Writing one page of the inode table keeps the invariant: it goes to the area not in
\* force.
LEMMA ItabStep ==
  ASSUME Tame, Shapes, Core, ItabPut
  PROVE  Core'
<1>1. job.pc = "itab" /\ UNCHANGED <<gm, files, defer, ops, formats>> BY ItabCases
<1>2. /\ Mounted /\ formats # 0 /\ job.op \in CommitOps /\ ~IsWrite(job) /\ CommitOk /\ JobRec(job) /\ Fresh = job.fresh /\ Waiting = defer
      /\ vol.gen \in Nat
  BY <1>1, Committing
<1>3. /\ vol.dirty /\ vol.gen < MaxGen /\ job.ino \in Nat /\ job.k \in Nat /\ job.i \in Nat /\ job.need \in Nat
      /\ job.fresh = <<>> /\ job.fresh \in Seq(Ext) /\ defer = <<>> /\ DirtyIn(gm) = {}
      /\ job.i < ITabBlocks /\ PagesOn(disk, vol.gen + 1, job.i, files)
  BY <1>1, <1>2 DEF CommitOk
<1>4. Late BY <1>1 DEF Late
<1>5. DeferOk(defer') BY <1>1, <1>2, Live
<1>6. faults \in 0 .. MaxFaults /\ MapGood(gm, disk) /\ DOMAIN disk = Blocks BY <1>2, Live
<1> DEFINE g == vol.gen + 1
           b == Area(g) + job.i
           A == {b}
           page == ItabPage(files, job.i)
<1>7. g \in Nat /\ job.i \in 0 .. (ITabBlocks - 1)
  <2>1. ITabBlocks \in Nat BY ExfsConsts
  <2> QED BY <2>1, <1>2, <1>3
<1>8. /\ \A c \in 0 .. (ITabBlocks - 1) : Area(g) + c \in 2 .. (DataStart - 1)
      /\ \A c \in 0 .. (ITabBlocks - 1) : Area(g) + c = b => c = job.i
  <2> HIDE DEF g
  <2> QED BY <1>7, Areas
<1>9. b \in 2 .. (DataStart - 1) BY <1>7, <1>8
<1>10. b \notin {0, 1} /\ b \in Reserved /\ b \in Blocks /\ A \subseteq 0 .. (DataStart - 1)
  <2>1. DataStart \in Nat BY Consts
  <2> HIDE DEF b
  <2>2. b \in 0 .. (DataStart - 1) /\ b \notin {0, 1} BY <2>1, <1>9
  <2> QED BY <2>2, FixedReserved
<1>11. NoSlots(A)
  <2> HIDE DEF A
  <2> QED BY <1>10, NoSlotsIn
<1>12. Safe(A) BY <1>7, <1>10 DEF Safe, Writable
<1>13. Apart(A) BY <1>2, <1>10, Live DEF Apart
<1>14. ASSUME NEW w \in blk_put(disk, faults, Area(vol.gen + 1) + job.i, ItabPage(files, job.i)), SetDisk(w.d), faults' = w.f,
              (w.ok /\ job' = NextPage(job) /\ vol' = vol) \/ (~w.ok /\ job' = Idle /\ vol' = BrokenBy(job))
       PROVE  Core'
  <2>1. w \in blk_put(disk, faults, b, page) BY <1>14
  <2> HIDE DEF b, page
  <2>2. ChangedAt(disk, w.d, b) /\ w.f \in 0 .. MaxFaults /\ (w.ok => w.d[b] = page) BY <2>1, <1>6, PutResults
  <2>3. disk' = w.d /\ stable' = disk' /\ faults' \in 0 .. MaxFaults BY <2>2, <1>14, SetIs
  <2>4. Changed(disk, disk', A) BY <2>2, <2>3 DEF Changed, ChangedAt
  <2>5. SameMap BY <1>1, <1>2, <1>11, <2>4, MapAway
  <2>6. CASE ~w.ok /\ job' = Idle /\ vol' = BrokenBy(job)
    <3> HIDE DEF A
    <3>1. GmTypes(gm') /\ DOMAIN disk' = Blocks BY <2>4, <2>5, GoodTypes DEF Changed, SameMap
    <3> QED BY <3>1, <2>3, <2>4, <2>6, <1>1, <1>2, <1>12, CommitFails
  <2>7. CASE w.ok /\ job' = NextPage(job) /\ vol' = vol
    <3> DEFINE pc == IF job.i + 1 = ITabBlocks THEN "super" ELSE "itab"
    <3>1. JobIs(job', job, pc, job.ino, job.need, job.k, job.i + 1, job.fresh, job.stage) BY <2>7, <1>2, Named
    <3>2. (pc = "super" /\ job.i + 1 = ITabBlocks) \/ (pc = "itab" /\ job.i + 1 # ITabBlocks) OBVIOUS
    <3> HIDE DEF pc
    <3>3. /\ job'.op = job.op /\ job'.pc = pc /\ job'.ino = job.ino /\ job'.need = job.need /\ job'.k = job.k
          /\ job'.i = job.i + 1 /\ job'.fresh = job.fresh
      BY <3>1 DEF JobIs
    <3>4. PagesOn(disk', g, job.i + 1, files)
      <4>0. 0 .. ((job.i + 1) - 1) = 0 .. job.i BY <1>3
      <4> SUFFICES ASSUME NEW c \in 0 .. job.i PROVE disk'[Area(g) + c] = ItabPage(files, c) BY <4>0 DEF PagesOn
      <4>1. CASE c = job.i BY <4>1, <2>2, <2>3, <2>7 DEF b, page
      <4>2. CASE c # job.i
        <5>0. ITabBlocks \in Nat /\ job.i \in Nat /\ job.i < ITabBlocks BY <1>3, ExfsConsts
        <5>1. c \in 0 .. (job.i - 1) /\ c \in 0 .. (ITabBlocks - 1) BY <4>2, <5>0
        <5>2. Area(g) + c # b BY <5>1, <4>2, <1>8
        <5>3. Area(g) + c \in Blocks
          <6> DEFINE y == Area(g) + c
          <6>1. y \in 2 .. (DataStart - 1) BY <5>1, <1>8
          <6>2. DataStart \in Nat BY Consts
          <6> HIDE DEF y
          <6>3. y \in 0 .. (DataStart - 1) BY <6>1, <6>2
          <6>4. y \in Blocks BY <6>3, FixedReserved
          <6> QED BY <6>4 DEF y
        <5>4. disk'[Area(g) + c] = disk[Area(g) + c] BY <5>2, <5>3, <2>2, <2>3 DEF ChangedAt
        <5>5. disk[Area(g) + c] = ItabPage(files, c) BY <5>1, <1>3 DEF PagesOn
        <5> QED BY <5>4, <5>5
      <4> QED BY <4>1, <4>2
    <3>5. CommitOk'
      <4>1. job.i + 1 \in Nat /\ (job.i + 1 # ITabBlocks => job.i + 1 < ITabBlocks)
        <5>1. ITabBlocks \in Nat BY ExfsConsts
        <5> QED BY <5>1, <1>3
      <4>2. g' = g BY <2>7
      <4>3. job'.pc = "itab" => job'.i < ITabBlocks /\ PagesOn(disk, vol.gen + 1, job.i, files)'
        BY <3>2, <3>3, <3>4, <4>1, <4>2, <1>1
      <4>4. job'.pc = "super" => PagesOn(disk, vol.gen + 1, ITabBlocks, files)'
        BY <3>2, <3>3, <3>4, <4>2, <1>1
      <4>5. job'.i \in Nat /\ job'.pc \in {"itab", "super"} BY <3>2, <3>3, <4>1
      <4> QED BY <4>3, <4>4, <4>5, <3>3, <2>7, <1>1, <1>3 DEF CommitOk
    <3>6. Late' /\ Waiting' = Waiting /\ Fresh' = Fresh BY <3>2, <3>3, <1>1, <1>2 DEF Late, Waiting, Fresh
    <3>7. SameDone BY <3>6, <1>4 DEF ChainDoneFor, SameDone
    <3> HIDE DEF A
    <3>8. Chains' BY <3>7, <2>4, <1>1, <1>2, <1>13, ChainsStep
    <3> QED BY <3>3, <3>5, <3>6, <3>8, <2>3, <2>4, <2>5, <2>7, <1>1, <1>2, <1>5, <1>12, CommitStep
  <2> QED BY <2>6, <2>7, <1>14
<1> QED BY <1>14, ItabCases

\* A file whose chain is empty already.
LEMMA NoChainSame ==
  ASSUME NEW fs, FilesOk(fs), NEW i \in Inodes, fs[i].chain = <<>>
  PROVE  NoChain(fs, i) = fs
<1>1. FileRec(fs[i]) /\ fs = [j \in Inodes |-> fs[j]] BY DEF FilesOk, FileOk
<1>2. [fs[i] EXCEPT !.chain = <<>>] = fs[i] BY <1>1 DEF FileRec
<1> QED BY <1>1, <1>2 DEF NoChain

\* Moving to the next file of a commit keeps the invariant.
LEMMA ChainFileStep ==
  ASSUME Tame, Shapes, Core, ChainFile
  PROVE  Core'
<1>1. job.pc = "file" /\ UNCHANGED <<disk, stable, gm, vol, defer, faults, ops, formats>> BY FileCases
<1>2. /\ Mounted /\ formats # 0 /\ job.op \in CommitOps /\ ~IsWrite(job) /\ CommitOk /\ JobRec(job) /\ Fresh = job.fresh /\ Waiting = defer
  BY <1>1, Committing
<1>3. /\ vol.dirty /\ vol.gen < MaxGen /\ job.ino \in Nat /\ job.k \in Nat /\ job.i \in Nat /\ job.need \in Nat
      /\ job.fresh = <<>> /\ job.fresh \in Seq(Ext)
  BY <1>1, <1>2 DEF CommitOk
<1>4. ~Late BY <1>1 DEF Late
<1>5. DeferOk(defer') /\ DeferOk(defer) /\ FilesOk(files) BY <1>1, <1>2, Live
<1>6. faults' \in 0 .. MaxFaults BY <1>1, <1>2, Live
<1>7. SameMap /\ stable' = disk' /\ Changed(disk, disk', {}) /\ Safe({}) /\ Apart({}) BY <1>1, <1>2, Still
<1>8. \A i \in Inodes : i \in Nat /\ files[i].used \in BOOLEAN /\ files[i].dirty \in BOOLEAN /\ FileOk(files[i])
  <2>1. \A i \in Inodes : FileOk(files[i]) /\ files[i].used \in BOOLEAN /\ files[i].dirty \in BOOLEAN BY <1>5, FileLists DEF FilesOk
  <2>2. NInodes \in Nat BY ExfsConsts
  <2> QED BY <2>1, <2>2 DEF Inodes
<1>9. \A i \in Inodes : IF ~files[i].dirty \/ i < job.ino THEN ChainOn(disk, files[i]) ELSE files[i].chain = <<>>
  <2>1. Chains BY <1>2, Live
  <2> QED BY <2>1, <1>2, <1>4 DEF Chains, ChainDoneFor
<1>10. \A i \in Inodes : files[i].dirty /\ ~(i < job.ino) /\ ~files[i].used => ChainOn(disk, files[i])
  <2> SUFFICES ASSUME NEW i \in Inodes, ~files[i].used PROVE ChainOn(disk, files[i]) OBVIOUS
  <2>1. files[i].exts = <<>> /\ files[i].chain = <<>> BY <1>8 DEF FileOk
  <2> QED BY <2>1, EmptyChain
<1>11. \A i \in Inodes : i \notin Rest /\ files[i].dirty /\ ~(i < job.ino) => ~files[i].used BY <1>3, <1>8 DEF Rest
<1>12. ASSUME job'.op = job.op, job'.fresh = <<>>, CommitOk', files' = files, Chains', job'.pc \in {"file", "take", "release"},
              job'.pc = "release" => job'.i = 1
       PROVE  Core'
  <2>1. Fresh' = Fresh BY <1>12, <1>2, <1>3 DEF Fresh
  <2>2. Waiting' = Waiting
    <3>1. SubSeq(defer, 1, Len(defer)) = defer BY <1>5, WholeList DEF DeferOk
    <3> QED BY <3>1, <1>1, <1>2, <1>12 DEF Waiting
  <2> QED BY <2>1, <2>2, <1>1, <1>2, <1>3, <1>4, <1>5, <1>6, <1>7, <1>12, CommitStep
<1>13. CASE Rest = {} /\ job' = ToRelease(job) /\ files' = files
  <2>2. /\ job'.op = job.op /\ job'.pc = "release" /\ job'.ino = job.ino /\ job'.need = job.need /\ job'.k = job.k
        /\ job'.i = 1 /\ job'.fresh = job.fresh
    BY <1>2, <1>13, Named DEF JobIs
  <2>3. CommitOk'
    <3>1. 1 \in 1 .. (Len(defer') + 1)
      <4>1. Len(defer') \in Nat BY <1>5 DEF DeferOk
      <4> QED BY <4>1
    <3>2. job'.i \in Nat /\ job'.i \in 1 .. (Len(defer') + 1) BY <3>1, <2>2
    <3> QED BY <3>2, <2>2, <1>1, <1>3 DEF CommitOk
  <2>4. Chains'
    <3>1. Late' BY <2>2 DEF Late
    <3>2. \A i \in Inodes : ChainOn(disk, files[i]) BY <1>8, <1>9, <1>10, <1>11, <1>13
    <3> QED BY <3>1, <3>2, <1>1, <1>13 DEF Chains, ChainDoneFor
  <2> QED BY <2>2, <2>3, <2>4, <1>3, <1>12, <1>13
<1> DEFINE i == Min(Rest)
           n == ChainBlocks(Len(files[i].exts))
<1>14. ASSUME Rest # {}
       PROVE  /\ i \in Inodes /\ i \in Nat /\ i >= job.ino /\ files[i].used /\ files[i].dirty /\ files[i].chain = <<>> /\ n \in Nat
              /\ \A j \in Inodes : j < i => ChainOn(disk, files[j])
              /\ \A j \in Inodes : ~(j < i) /\ files[j].dirty => files[j].chain = <<>>
  <2>1. Rest \subseteq Nat BY <1>8 DEF Rest
  <2>2. i \in Rest /\ \A y \in Rest : i <= y BY <2>1, <1>14, Least
  <2> HIDE DEF i
  <2>3. i \in Inodes /\ i \in Nat /\ i >= job.ino /\ files[i].used /\ files[i].dirty BY <2>1, <2>2 DEF Rest
  <2>4. ~(i < job.ino) BY <2>3, <1>3
  <2>5. files[i].chain = <<>> BY <2>3, <2>4, <1>9
  <2>6. n \in Nat
    <3> DEFINE l == Len(files[i].exts)
    <3>1. l \in Nat BY <2>3, <1>8, FileLists
    <3> HIDE DEF l
    <3>2. ChainBlocks(l) \in Nat BY <3>1, ChainCount
    <3> QED BY <3>2 DEF l
  <2>7. ASSUME NEW j \in Inodes, j < i PROVE ChainOn(disk, files[j])
    <3>1. j \notin Rest BY <2>2, <2>3, <2>7, <1>8
    <3> QED BY <3>1, <1>8, <1>9, <1>10, <1>11
  <2>8. ASSUME NEW j \in Inodes, ~(j < i), files[j].dirty PROVE files[j].chain = <<>>
    <3>1. ~(j < job.ino) BY <2>3, <2>8, <1>3, <1>8
    <3> QED BY <3>1, <2>8, <1>9
  <2> QED BY <2>3, <2>5, <2>6, <2>7, <2>8
<1>15. CASE Rest # {} /\ ChainBlocks(Len(files[Min(Rest)].exts)) = 0 /\ job' = ToFile(job, Min(Rest) + 1) /\ files' = NoChain(files, Min(Rest))
  <2>1. JobIs(job', job, job.pc, i + 1, job.need, job.k, job.i, job.fresh, job.stage) BY <1>2, <1>15, Named
  <2>2. n = 0 /\ files' = NoChain(files, i) BY <1>15
  <2> HIDE DEF i, n
  <2>3. /\ job'.op = job.op /\ job'.pc = "file" /\ job'.ino = i + 1 /\ job'.need = job.need /\ job'.k = job.k
        /\ job'.i = job.i /\ job'.fresh = job.fresh
    BY <2>1, <1>1 DEF JobIs
  <2>4. files' = files BY <2>2, <1>5, <1>14, <1>15, NoChainSame
  <2>5. CommitOk'
    <3>1. job'.ino \in Nat BY <2>3, <1>14, <1>15
    <3> QED BY <3>1, <2>3, <1>1, <1>3 DEF CommitOk
  <2>6. ChainOn(disk, files[i])
    <3> DEFINE z == <<>>
    <3>1. files[i].chain = z /\ Len(z) = 0 BY <1>14, <1>15
    <3> HIDE DEF z
    <3>2. 1 .. Len(z) = {} BY <3>1
    <3> QED BY <3>1, <3>2, <2>2 DEF ChainOn, n
  <2>7. Chains'
    <3>1. ~Late' BY <2>3 DEF Late
    <3> SUFFICES ASSUME NEW j \in Inodes PROVE IF ChainDoneFor(j)' THEN ChainOn(disk, files[j]) ELSE files[j].chain = <<>>
      BY <2>4, <1>1 DEF Chains
    <3>2. ChainDoneFor(j)' <=> (~files[j].dirty \/ j < i + 1) BY <3>1, <2>3, <2>4, <1>2 DEF ChainDoneFor
    <3>3. j < i + 1 <=> (j < i \/ j = i) BY <1>8, <1>14, <1>15
    <3> QED BY <3>2, <3>3, <2>6, <1>8, <1>9, <1>14, <1>15
  <2> QED BY <2>3, <2>4, <2>5, <2>7, <1>3, <1>12
<1>16. CASE /\ Rest # {} /\ ChainBlocks(Len(files[Min(Rest)].exts)) # 0
            /\ job' = ToTake(job, Min(Rest), ChainBlocks(Len(files[Min(Rest)].exts))) /\ files' = files
  <2>1. JobIs(job', job, "take", i, n, 0, 0, <<>>, job.stage) BY <1>2, <1>16, Named
  <2>2. n # 0 /\ files' = files BY <1>16
  <2>n. n = ChainBlocks(Len(files[i].exts)) OBVIOUS
  <2> HIDE DEF i, n
  <2>3. /\ job'.op = job.op /\ job'.pc = "take" /\ job'.ino = i /\ job'.need = n /\ job'.k = 0
        /\ job'.i = 0 /\ job'.fresh = <<>>
    BY <2>1 DEF JobIs
  <2>5. CommitOk'
    <3> DEFINE z == <<>>
    <3>1. z \in Seq(Ext) /\ DOMAIN z = {} /\ Len(z) = 0 /\ job'.fresh = z BY <2>3
    <3> HIDE DEF z
    <3>2. Len(z) < n BY <3>1, <2>2, <1>14, <1>16
    <3>3. /\ job'.ino \in Inodes /\ files'[job'.ino].used /\ files'[job'.ino].dirty /\ job'.need = ChainBlocks(Len(files'[job'.ino].exts))
          /\ job'.ino \in Nat /\ job'.need \in Nat /\ job'.k \in Nat /\ job'.i \in Nat
      BY <2>2, <2>3, <2>n, <1>14, <1>16
    <3> QED BY <3>1, <3>2, <3>3, <2>3, <1>1, <1>3 DEF CommitOk
  <2>7. Chains'
    <3>1. ~Late' BY <2>3 DEF Late
    <3> SUFFICES ASSUME NEW j \in Inodes PROVE IF ChainDoneFor(j)' THEN ChainOn(disk, files[j]) ELSE files[j].chain = <<>>
      BY <2>2, <1>1 DEF Chains
    <3>2. ChainDoneFor(j)' <=> (~files[j].dirty \/ j < i) BY <3>1, <2>3, <2>2, <1>2 DEF ChainDoneFor
    <3> QED BY <3>2, <1>8, <1>9, <1>14, <1>16
  <2> QED BY <2>2, <2>3, <2>5, <2>7, <1>12
<1> QED BY <1>13, <1>15, <1>16, FileCases

\* A file gets its chain.
LEMMA NewChainAt ==
  ASSUME NEW fs, FilesOk(fs), NEW i \in Inodes, fs[i].used, NEW c \in Seq(Nat), Len(c) <= MaxChain
  PROVE  /\ FilesOk(NewChain(fs, i, c)) /\ \A j \in Inodes : j # i => NewChain(fs, i, c)[j] = fs[j]
         /\ NewChain(fs, i, c)[i].exts = fs[i].exts /\ NewChain(fs, i, c)[i].chain = c
         /\ NewChain(fs, i, c)[i].dirty = fs[i].dirty /\ NewChain(fs, i, c)[i].used
<1> DEFINE f == fs[i]
           g == [f EXCEPT !.chain = c]
           gs == NewChain(fs, i, c)
<1>1. fs = [j \in Inodes |-> fs[j]] /\ (\A j \in Inodes : FileOk(fs[j])) /\ FileOk(f) /\ FileRec(f) BY DEF FilesOk, FileOk
<1>2. gs = [j \in Inodes |-> IF j = i THEN g ELSE fs[j]] BY <1>1 DEF NewChain
<1>3. FileRec(g) /\ g.exts = f.exts /\ g.chain = c /\ g.dirty = f.dirty /\ g.used = f.used BY <1>1 DEF FileRec
<1>4. FileOk(g)
  <2> HIDE DEF g
  <2> QED BY <1>1, <1>3 DEF FileOk
<1> HIDE DEF g, gs
<1>5. gs[i] = g /\ \A j \in Inodes : j # i => gs[j] = fs[j] BY <1>2
<1>6. gs = [j \in Inodes |-> gs[j]] BY <1>2
<1>7. FilesOk(gs) BY <1>1, <1>4, <1>5, <1>6 DEF FilesOk
<1> QED BY <1>3, <1>5, <1>7 DEF gs

\* The chain blocks of the file a commit works on, as far as they are written.
LEMMA ChainSoFar ==
  ASSUME Shapes, Core, job.pc = "chain", NEW b, b = Starts(job.fresh)[job.i + 1], NEW e, ChangedAt(disk, e, b),
         e[b] = ChainBlock(files[job.ino], Starts(job.fresh), job.i)
  PROVE  \A x \in 1 .. (job.i + 1) : e[job.fresh[x].start] = ChainBlock(files[job.ino], Starts(job.fresh), x - 1)
<1>1. Mounted /\ CommitOk /\ Fresh = job.fresh BY Committing
<1>2. /\ job.fresh \in Seq(Ext) /\ (\A x \in DOMAIN job.fresh : job.fresh[x].len = 1) /\ job.i \in Nat /\ job.need \in Nat
      /\ Len(job.fresh) = job.need /\ job.i < job.need
      /\ \A x \in 1 .. job.i : disk[job.fresh[x].start] = ChainBlock(files[job.ino], Starts(job.fresh), x - 1)
  BY <1>1 DEF CommitOk
<1> DEFINE s == job.fresh
           c == Starts(s)
           n == job.i
<1>3. c \in Seq(Nat) /\ Len(c) = Len(s) /\ ChainList(c) = s /\ \A k \in 1 .. Len(s) : c[k] = s[k].start /\ s[k].start \in CoveredBy(s)
  BY <1>2, StartsFacts
<1>4. Disjoint(s) /\ CoveredBy(s) \subseteq Blocks BY <1>1, Live
<1>5. Len(s) = job.need BY <1>2
<1>6. b = c[n + 1] OBVIOUS
<1> HIDE DEF s, c
<1>7. \A i, j \in 1 .. Len(c) : c[i] = c[j] => i = j BY <1>3, <1>4, ChainFacts
<1> SUFFICES ASSUME NEW x \in 1 .. (n + 1) PROVE e[s[x].start] = ChainBlock(files[job.ino], c, x - 1) BY DEF s, c
<1>8. x \in Nat /\ x \in 1 .. Len(s) /\ n + 1 \in 1 .. Len(s) BY <1>2, <1>5
<1>9. CASE x = n + 1
  <2>1. x - 1 = n BY <1>9, <1>2
  <2> QED BY <2>1, <1>9, <1>6, <1>8, <1>3 DEF c, s
<1>10. CASE x # n + 1
  <2>1. c[x] # b BY <1>10, <1>8, <1>7, <1>3, <1>6
  <2>2. s[x].start = c[x] /\ s[x].start \in Blocks BY <1>8, <1>3, <1>4
  <2>3. e[s[x].start] = disk[s[x].start] BY <2>1, <2>2 DEF ChangedAt
  <2>4. x \in 1 .. n BY <1>10, <1>8, <1>2
  <2> QED BY <2>3, <2>4, <1>2 DEF s, c
<1> QED BY <1>9, <1>10

\* Writing one chain block keeps the invariant.
LEMMA ChainPutStep ==
  ASSUME Tame, Shapes, Core, ChainPut
  PROVE  Core'
<1>1. job.pc = "chain" /\ UNCHANGED <<gm, defer, ops, formats>> BY ChainCases
<1>2. /\ Mounted /\ formats # 0 /\ job.op \in CommitOps /\ ~IsWrite(job) /\ CommitOk /\ JobRec(job) /\ Fresh = job.fresh /\ Waiting = defer
  BY <1>1, Committing
<1>3. /\ vol.dirty /\ vol.gen < MaxGen /\ job.ino \in Nat /\ job.k \in Nat /\ job.i \in Nat /\ job.need \in Nat
      /\ job.fresh \in Seq(Ext) /\ job.ino \in Inodes /\ files[job.ino].used /\ files[job.ino].dirty
      /\ job.need = ChainBlocks(Len(files[job.ino].exts)) /\ (\A x \in DOMAIN job.fresh : job.fresh[x].len = 1)
      /\ Len(job.fresh) = job.need /\ job.i < job.need
  BY <1>1, <1>2 DEF CommitOk
<1>4. ~Late BY <1>1 DEF Late
<1>5. DeferOk(defer') /\ DeferOk(defer) /\ FilesOk(files) BY <1>1, <1>2, Live
<1>6. faults \in 0 .. MaxFaults /\ MapGood(gm, disk) /\ DOMAIN disk = Blocks BY <1>2, Live
<1> DEFINE s == job.fresh
           c == Starts(s)
           b == c[job.i + 1]
           A == {b}
           page == ChainBlock(files[job.ino], c, job.i)
<1>7. c \in Seq(Nat) /\ Len(c) = Len(s) /\ ChainList(c) = s /\ \A k \in 1 .. Len(s) : c[k] = s[k].start /\ s[k].start \in CoveredBy(s)
  BY <1>3, StartsFacts
<1>8. b \in CoveredBy(job.fresh) /\ Len(s) = job.need /\ Len(c) = job.need
  <2>1. job.i + 1 \in 1 .. Len(job.fresh) BY <1>3
  <2> QED BY <2>1, <1>7, <1>3
<1>9. Writable(b) /\ NoSlots(A) /\ Apart(A)
  <2> HIDE DEF b
  <2> QED BY <1>8, <1>2, FreshWritable
<1>10. ASSUME NEW w \in blk_put(disk, faults, Starts(job.fresh)[job.i + 1], ChainBlock(files[job.ino], Starts(job.fresh), job.i)),
              SetDisk(w.d), faults' = w.f,
              \/ ~w.ok /\ job' = Idle /\ vol' = BrokenBy(job) /\ files' = files
              \/ /\ w.ok /\ job.i + 1 < Len(Starts(job.fresh)) /\ vol' = vol
                 /\ job' = NextItem(job) /\ files' = files
              \/ /\ w.ok /\ ~(job.i + 1 < Len(Starts(job.fresh))) /\ vol' = vol
                 /\ job' = ChainDone(job) /\ files' = NewChain(files, job.ino, Starts(job.fresh))
       PROVE  Core'
  <2>1. w \in blk_put(disk, faults, b, page) BY <1>10
  <2>a. b = Starts(job.fresh)[job.i + 1] /\ page = ChainBlock(files[job.ino], Starts(job.fresh), job.i) OBVIOUS
  <2> HIDE DEF b, page
  <2>2. ChangedAt(disk, w.d, b) /\ w.f \in 0 .. MaxFaults /\ (w.ok => w.d[b] = page) BY <2>1, <1>6, PutResults
  <2>3. disk' = w.d /\ stable' = disk' /\ faults' \in 0 .. MaxFaults BY <2>2, <1>10, SetIs
  <2>4. Changed(disk, disk', A) BY <2>2, <2>3 DEF Changed, ChangedAt
  <2>c. Safe(A) BY <1>9 DEF Safe
  <2> HIDE DEF A
  <2>5. SameMap BY <1>1, <1>2, <1>9, <2>4, MapAway
  <2>6. w.ok => \A x \in 1 .. (job.i + 1) : w.d[job.fresh[x].start] = ChainBlock(files[job.ino], Starts(job.fresh), x - 1)
    BY <2>2, <2>a, <1>1, ChainSoFar
  <2>7. CASE ~w.ok /\ job' = Idle /\ vol' = BrokenBy(job) /\ files' = files
    <3>1. GmTypes(gm') /\ DOMAIN disk' = Blocks BY <2>4, <2>5, GoodTypes DEF Changed, SameMap
    <3> QED BY <3>1, <2>3, <2>4, <2>7, <2>c, <1>1, <1>2, CommitFails
  <2>8. CASE w.ok /\ job.i + 1 < Len(Starts(job.fresh)) /\ vol' = vol /\ job' = NextItem(job) /\ files' = files
    <3>2. /\ job'.op = job.op /\ job'.pc = "chain" /\ job'.ino = job.ino /\ job'.need = job.need /\ job'.k = job.k
          /\ job'.i = job.i + 1 /\ job'.fresh = job.fresh
      BY <2>8, <1>2, <1>1, Named DEF JobIs
    <3>3. CommitOk'
      <4>1. job'.i \in Nat /\ job'.i < job'.need BY <3>2, <2>8, <1>3, <1>8
      <4>2. \A x \in 1 .. job'.i : disk'[job'.fresh[x].start] = ChainBlock(files'[job'.ino], Starts(job'.fresh), x - 1)
        BY <3>2, <2>3, <2>6, <2>8
      <4> QED BY <4>1, <4>2, <3>2, <2>8, <1>1, <1>3 DEF CommitOk
    <3>4. ~Late' /\ Waiting' = Waiting /\ Fresh' = Fresh BY <3>2, <1>1, <1>2 DEF Late, Waiting, Fresh
    <3>5. SameDone BY <3>2, <3>4, <2>8, <1>4 DEF ChainDoneFor, SameDone
    <3>6. Chains' BY <3>5, <2>4, <2>8, <1>2, <1>9, ChainsStep
    <3> QED BY <3>2, <3>3, <3>4, <3>6, <2>3, <2>4, <2>5, <2>8, <2>c, <1>1, <1>2, <1>4, <1>5, CommitStep
  <2>9. CASE /\ w.ok /\ ~(job.i + 1 < Len(Starts(job.fresh))) /\ vol' = vol
             /\ job' = ChainDone(job) /\ files' = NewChain(files, job.ino, Starts(job.fresh))
    <3>2. /\ job'.op = job.op /\ job'.pc = "file" /\ job'.ino = job.ino + 1 /\ job'.need = job.need /\ job'.k = job.k
          /\ job'.i = job.i /\ job'.fresh = <<>>
      BY <2>9, <1>2, Named DEF JobIs
    <3>3. job.i + 1 = job.need BY <2>9, <1>3, <1>8
    <3> DEFINE i == job.ino
               f == files[i]
               g == files'[i]
    <3>4. f.exts \in Seq(Ext) /\ Len(f.exts) \in Nat /\ Len(f.exts) <= MaxExt /\ job.need <= MaxChain
      <4>1. f.exts \in Seq(Ext) /\ Len(f.exts) \in Nat /\ Len(f.exts) <= MaxExt BY <1>3, <1>5, FileLists DEF FilesOk
      <4> DEFINE l == Len(f.exts)
      <4>2. l \in Nat /\ l <= MaxExt /\ job.need = ChainBlocks(l) BY <4>1, <1>3
      <4> HIDE DEF l
      <4>3. ChainBlocks(l) <= MaxChain BY <4>2, ChainCount
      <4> QED BY <4>1, <4>2, <4>3
    <3>5. Len(c) <= MaxChain BY <3>4, <1>8
    <3> HIDE DEF c
    <3>6. /\ FilesOk(files') /\ (\A j \in Inodes : j # i => files'[j] = files[j])
          /\ g.exts = f.exts /\ g.chain = c /\ g.dirty /\ g.used
      BY <3>5, <2>9, <1>3, <1>5, <1>7, NewChainAt DEF c
    <3>7. f.chain = <<>>
      <4>1. Chains BY <1>2, Live
      <4>2. ~ChainDoneFor(i) BY <1>3, <1>4 DEF ChainDoneFor
      <4> QED BY <4>1, <4>2, <1>3 DEF Chains
    <3>8. DeferredBy(f) = f.exts BY <3>4, <3>7, NoChainHeld
    <3> HIDE DEF f, g, s
    <3>9. DeferredBy(g) = f.exts \o s
      <4>1. DeferredBy(g) = g.exts \o ChainList(g.chain) BY <3>4, <3>6, <1>7, DeferredFacts
      <4> QED BY <4>1, <3>6, <1>7
    <3>10. /\ s \in Seq(Ext) /\ Disjoint(s) /\ Disjoint(f.exts) /\ CoveredBy(f.exts) \cap CoveredBy(s) = {}
           /\ Claims(UsedBlocks(gm, disk), Holdings(files, defer, s)) /\ defer \in Seq(Ext)
      <4>1. /\ Claims(UsedBlocks(gm, disk), Holdings(files, defer, s)) /\ s \in Seq(Ext) /\ Disjoint(s)
            /\ CoveredBy(DeferredBy(f)) \cap CoveredBy(s) = {}
        BY <1>2, <1>3, Live DEF s, f
      <4> DEFINE used == UsedBlocks(gm, disk)
      <4> HIDE DEF used
      <4>2. Claims(used, Holdings(files, defer, s)) BY <4>1 DEF used
      <4>3. Disjoint(DeferredBy(files[i])) BY <4>2, <1>3, ClaimsAt
      <4> QED BY <4>1, <4>3, <3>8, <1>5 DEF f, DeferOk
    <3>11. Claims(UsedBlocks(gm', disk'), Holdings(files', Waiting', Fresh'))
      <4> DEFINE used == UsedBlocks(gm, disk)
                 gs == files'
                 out == <<>>
      <4>1. \A j \in Inodes : j # i => DeferredBy(gs[j]) = DeferredBy(files[j]) BY <3>6
      <4>2. out \in Seq(Ext) /\ Disjoint(out) /\ CoveredBy(out) = {} BY EmptyExts
      <4>3. /\ f.exts \o s \in Seq(Ext) /\ Disjoint(f.exts \o s)
            /\ CoveredBy(f.exts \o s) = CoveredBy(f.exts) \cup CoveredBy(s)
        BY <3>4, <3>10, ConcatList
      <4>4. defer \o out = defer BY <3>10
      <4>5. DeferredBy(gs[i]) = f.exts \o s BY <3>9 DEF g
      <4>6. DeferredBy(files[i]) = f.exts BY <3>8 DEF f
      <4>7. Claims(used, Holdings(files, defer, s)) BY <3>10
      <4> HIDE DEF used, gs, out, i
      <4>8. /\ DeferredBy(gs[i]) \in Seq(Ext) /\ Disjoint(DeferredBy(gs[i]))
            /\ CoveredBy(DeferredBy(gs[i])) \cap CoveredBy(out) = {}
            /\ CoveredBy(DeferredBy(gs[i])) \cup CoveredBy(out) = CoveredBy(DeferredBy(files[i])) \cup CoveredBy(s)
        BY <4>2, <4>3, <4>5, <4>6
      <4>9. i \in Inodes BY <1>3 DEF i
      <4>10. Claims(used, Holdings(gs, defer \o out, <<>>)) BY <4>1, <4>2, <4>7, <4>8, <4>9, ExchangeClaims
      <4>11. Waiting' = defer /\ Fresh' = <<>> BY <3>2, <1>1 DEF Waiting, Fresh
      <4> QED BY <4>4, <4>10, <4>11, <2>5 DEF used, gs, SameMap
    <3>12. CommitOk'
      <4>1. job'.ino \in Nat /\ job'.fresh \in Seq(Ext) BY <3>2, <1>3
      <4> QED BY <4>1, <3>2, <2>9, <1>3 DEF CommitOk
    <3>13. ~Late' BY <3>2 DEF Late
    <3>14. Chains'
      <4> SUFFICES ASSUME NEW j \in Inodes PROVE IF ChainDoneFor(j)' THEN ChainOn(disk', files'[j]) ELSE files'[j].chain = <<>>
        BY DEF Chains
      <4>1. CASE j = i
        <5>1. \A k \in 1 .. Len(c) : disk'[c[k]] = ChainBlock(g, c, k - 1)
          <6>1. \A k \in 1 .. Len(c) : disk'[c[k]] = ChainBlock(f, c, k - 1) BY <3>3, <2>3, <2>6, <2>9, <1>7, <1>8 DEF c, s, f
          <6>2. \A k : ChainBlock(g, c, k) = ChainBlock(f, c, k) BY <3>6 DEF ChainBlock
          <6> QED BY <6>1, <6>2
        <5>2. Len(c) = ChainBlocks(Len(g.exts)) BY <3>6, <1>3, <1>8 DEF f
        <5>3. ChainOn(disk', g) BY <5>1, <5>2, <3>6 DEF ChainOn
        <5>4. ChainDoneFor(j)' BY <4>1, <3>2, <1>2, <1>3 DEF ChainDoneFor
        <5> QED BY <5>3, <5>4, <4>1 DEF g
      <4>2. CASE j # i
        <5>1. files'[j] = files[j] BY <4>2, <3>6
        <5>2. ChainDoneFor(j)' <=> ChainDoneFor(j)
          <6>1. j \in Nat
            <7>1. NInodes \in Nat BY ExfsConsts
            <7> QED BY <7>1 DEF Inodes
          <6>2. j < job.ino + 1 <=> j < job.ino BY <6>1, <4>2, <1>3
          <6> QED BY <6>2, <5>1, <3>2, <3>13, <1>2, <1>4 DEF ChainDoneFor
        <5>3. Chains /\ files[j].exts \in Seq(Ext) /\ files[j].chain \in Seq(Nat) /\ CoveredBy(DeferredBy(files[j])) \subseteq Blocks
          BY <1>2, Live
        <5>4. CASE ChainDoneFor(j)
          <6> DEFINE h == files[j]
                     d == disk
                     e == disk'
          <6>1. ChainOn(d, h) /\ h.exts \in Seq(Ext) /\ h.chain \in Seq(Nat) /\ CoveredBy(DeferredBy(h)) \subseteq Blocks
            BY <5>3, <5>4 DEF Chains
          <6>2. Changed(d, e, A) /\ A \cap CoveredBy(DeferredBy(h)) = {} BY <2>4, <1>9 DEF Apart
          <6> HIDE DEF h, d, e
          <6>3. ChainOn(e, h) BY <6>1, <6>2, ChainFrame
          <6> QED BY <6>3, <5>1, <5>2, <5>4 DEF h, e
        <5>5. CASE ~ChainDoneFor(j) BY <5>1, <5>2, <5>3, <5>5 DEF Chains
        <5> QED BY <5>4, <5>5
      <4> QED BY <4>1, <4>2
    <3>15. CoveredBy(job'.fresh) \subseteq CoveredBy(job.fresh) BY <3>2, EmptyExts
    <3> QED BY <3>2, <3>6, <3>11, <3>12, <3>13, <3>14, <3>15, <2>3, <2>4, <2>5, <2>9, <2>c, <1>1, <1>2, <1>4, <1>5, CommitMove DEF SameMap
  <2> QED BY <2>7, <2>8, <2>9, <1>10
<1> QED BY <1>10, ChainCases

-----------------------------------------------------------------------------
(* The steps that change a file in memory.                                 *)

Dirtied(v) == [v EXCEPT !.dirty = TRUE]
SetFile(fs, i, f) == [fs EXCEPT ![i] = f]

\* A dirtied volume, as its fields.
LEMMA DirtiedFields ==
  ASSUME vol \in VolType
  PROVE  /\ Dirtied(vol) \in VolType /\ Dirtied(vol).mounted = vol.mounted /\ Dirtied(vol).broken = vol.broken
         /\ Dirtied(vol).dirty /\ Dirtied(vol).gen = vol.gen
BY DEF Dirtied, VolType

\* A tree with one file replaced.
LEMMA SetFileAt ==
  ASSUME NEW fs, FilesOk(fs), NEW i \in Inodes, NEW f, FileOk(f)
  PROVE  FilesOk(SetFile(fs, i, f)) /\ SetFile(fs, i, f)[i] = f /\ \A j \in Inodes : j # i => SetFile(fs, i, f)[j] = fs[j]
<1> DEFINE gs == SetFile(fs, i, f)
<1>1. fs = [j \in Inodes |-> fs[j]] /\ \A j \in Inodes : FileOk(fs[j]) BY DEF FilesOk
<1>2. gs = [j \in Inodes |-> IF j = i THEN f ELSE fs[j]] BY <1>1 DEF SetFile
<1> HIDE DEF gs
<1>3. gs[i] = f /\ (\A j \in Inodes : j # i => gs[j] = fs[j]) /\ gs = [j \in Inodes |-> gs[j]] BY <1>2
<1>4. FilesOk(gs) BY <1>1, <1>3 DEF FilesOk
<1> QED BY <1>3, <1>4 DEF gs

\* A mounted volume has been formatted.
LEMMA MountedFormatted ==
  ASSUME Core, Mounted
  PROVE  formats # 0
BY DEF Core, Types

\* No commit is on the way: the files that are not dirty have their chains on disk.
Settled(d, fs) == \A i \in Inodes : IF ~fs[i].dirty THEN ChainOn(d, fs[i]) ELSE fs[i].chain = <<>>

\* The memory changes, the disk and the map do not.
LEMMA MemoryStep ==
  ASSUME Tame, Core, Mounted, job.op # "format", ~Late, job' = Idle, UNCHANGED <<disk, stable, gm, faults, formats>>,
         ops' \in 0 .. MaxOps, vol' = Dirtied(vol), FilesOk(files'), DeferOk(defer'),
         Claims(UsedBlocks(gm, disk), Holdings(files', defer', <<>>)), Settled(disk, files')
  PROVE  Core'
<1>1. Types /\ Durable /\ vol \in VolType /\ faults \in 0 .. MaxFaults BY Live DEF Core
<1>2. vol' \in VolType /\ vol'.mounted = vol.mounted /\ vol'.broken = vol.broken /\ vol'.dirty /\ vol'.gen = vol.gen
  BY <1>1, DirtiedFields
<1>3. Mounted' BY <1>2 DEF Mounted
<1>4. formats # 0 BY MountedFormatted
<1>5. SameMap /\ stable' = disk' /\ Changed(disk, disk', {}) /\ Safe({}) /\ Apart({}) BY Still
<1>6. DOMAIN disk' = Blocks BY <1>5 DEF Changed
<1>7. Types'
  <2>1. GmTypes(gm') BY <1>5, GoodTypes DEF SameMap
  <2> QED BY <2>1, <1>1, <1>2, <1>4, <1>5, <1>6 DEF Types, DiskOk, Counts
<1>8. job'.pc = "idle" /\ job'.op = "none" /\ job'.fresh = <<>> BY IdleJob
<1>9. ~Late' /\ Waiting' = defer' /\ Fresh' = <<>> BY <1>8 DEF Late, Waiting, Fresh
<1>10. Chains' BY <1>8, <1>9 DEF Chains, ChainDoneFor, CommitOps, Settled
<1>11. Memory' BY <1>5, <1>9, <1>10 DEF Memory, SameMap
<1>12. CoveredBy(job'.fresh) = {} BY <1>8, EmptyExts
<1>13. Durable' BY <1>1, <1>2, <1>3, <1>5, <1>6, <1>8, <1>9, <1>12, DurableStep DEF SameMap
<1>14. Phase' BY DEF Phase
<1> QED BY <1>7, <1>11, <1>13, <1>14 DEF Core

\* The range a write replaces.
LEMMA DivMono ==
  ASSUME NEW a \in Nat, NEW b \in Nat, a <= b, NEW c \in Nat, c > 0
  PROVE  a \div c <= b \div c
<1> DEFINE x == a \div c
           y == b \div c
           u == c * x
           v == c * y
<1>1. x \in Nat /\ y \in Nat /\ a = u + (a % c) /\ b = v + (b % c) /\ a % c \in Nat /\ b % c \in Nat /\ b % c < c BY DivMod
<1>2. u \in Nat /\ v \in Nat BY <1>1
<1>3. y < x => v + c <= u BY <1>1, DivLess
<1> DEFINE p == a % c
           q == b % c
<1>4. a = u + p /\ b = v + q /\ p \in Nat /\ q \in Nat /\ q < c BY <1>1
<1> HIDE DEF x, y, u, v, p, q
<1>5. x <= y BY <1>1, <1>2, <1>3, <1>4
<1> QED BY <1>5 DEF x, y

\* The window of a write lies in the file or starts at its end.
LEMMA WriteRange ==
  ASSUME NEW j, j.off \in Nat, j.len \in Nat, j.len > 0, files[j.ino].exts \in Seq(Ext)
  PROVE  /\ FirstBlock(j) \in Nat /\ LastBlock(j) \in Nat /\ FirstBlock(j) <= LastBlock(j)
         /\ FirstBlock(j) <= LenSum(files[j.ino].exts) /\ LenSum(files[j.ino].exts) \in Nat
<1> DEFINE n == LenSum(files[j.ino].exts)
           x == j.off \div Cells
           y == (j.off + j.len - 1) \div Cells
<1>1. n \in Nat
  <2> DEFINE s == files[j.ino].exts
  <2>1. s \in Seq(Ext) /\ Len(s) \in Nat OBVIOUS
  <2> HIDE DEF s
  <2>2. LenTo(s, Len(s)) \in Nat BY <2>1, LenSteps
  <2> QED BY <2>2 DEF LenSum, s
<1>2. Cells \in Nat /\ Cells > 0 BY ExfsConsts
<1>3. j.off + j.len - 1 \in Nat /\ j.off <= j.off + j.len - 1 OBVIOUS
<1>4. x \in Nat BY <1>2, DivMod
<1>5. y \in Nat /\ x <= y
  <2> DEFINE z == j.off + j.len - 1
  <2>1. z \in Nat /\ j.off <= z BY <1>3
  <2> HIDE DEF z
  <2>2. z \div Cells \in Nat /\ j.off \div Cells <= z \div Cells BY <2>1, <1>2, DivMod, DivMono
  <2> QED BY <2>2 DEF z
<1> HIDE DEF n, x, y
<1>6. Min({x, n}) = (IF x < n THEN x ELSE n) /\ Min({x, n}) \in Nat BY <1>1, <1>4, MinTwo
<1>7. Min({x, n}) \in Nat /\ Min({x, n}) <= y /\ Min({x, n}) <= n BY <1>1, <1>4, <1>5, <1>6
<1> QED BY <1>1, <1>5, <1>7 DEF n, x, y, FirstBlock, LastBlock

\* What the install hands over, and what the file has then.
Replacing(f, exts) == [f EXCEPT !.exts = exts]
Installed(f, exts, size) == [f EXCEPT !.exts = exts, !.chain = <<>>, !.dirty = TRUE, !.size = size]
Outgoing(j) == IF j.op = "write" THEN files[j.ino].exts ELSE Cut(files[j.ino].exts, FirstBlock(j), LastBlock(j))

\* What installing a write changes.
LEMMA InstallCases ==
  ASSUME Install
  PROVE  /\ job.pc = "install" /\ job' = Idle /\ vol' = Dirtied(vol) /\ UNCHANGED <<disk, stable, gm, faults, ops, formats>>
         /\ defer' = defer \o DeferredBy(Replacing(files[job.ino], Outgoing(job)))
         /\ \E size : files' = SetFile(files, job.ino, Installed(files[job.ino], job.stage, size))
<1>1. job.pc = "install" /\ job' = Idle /\ vol' = Dirtied(vol) /\ UNCHANGED <<disk, stable, gm, faults, ops, formats>>
  BY DEF Install, Dirtied
<1>2. defer' = defer \o DeferredBy(Replacing(files[job.ino], Outgoing(job))) BY DEF Install, Replacing, Outgoing, Cut
<1> DEFINE f == files[job.ino]
           half == [f EXCEPT !.exts = job.stage, !.chain = <<>>, !.dirty = TRUE]
           size == IF job.op = "write" THEN job.len ELSE Max({half.size, job.off + job.len})
<1>3. files' = SetFile(files, job.ino, Installed(f, job.stage, size))
  BY DEF Install, SetFile, Installed
<1> HIDE DEF size
<1> QED BY <1>1, <1>2, <1>3

\* The file after a write is installed: its chain is gone and it is dirty.
LEMMA InstalledFields ==
  ASSUME NEW f, FileOk(f), f.used, NEW exts \in Seq(Ext), Len(exts) <= MaxExt, NEW size
  PROVE  /\ FileOk(Installed(f, exts, size)) /\ Installed(f, exts, size).exts = exts /\ Installed(f, exts, size).chain = <<>>
         /\ Installed(f, exts, size).dirty
         /\ Replacing(f, exts).exts = exts /\ Replacing(f, exts).chain = f.chain
<1> DEFINE z == <<>>
           g == [f EXCEPT !.exts = exts, !.chain = z, !.dirty = TRUE, !.size = size]
<1>1. FileRec(f) BY DEF FileOk
<1>2. z \in Seq(Nat) /\ Len(z) = 0 OBVIOUS
<1> HIDE DEF z
<1>3. FileRec(g) /\ g.exts = exts /\ g.chain = z /\ g.dirty /\ g.used = f.used BY <1>1, <1>2 DEF FileRec
<1>4. Replacing(f, exts).exts = exts /\ Replacing(f, exts).chain = f.chain BY <1>1 DEF FileRec, Replacing
<1> HIDE DEF g
<1>5. FileOk(g)
  <2>1. Len(z) <= MaxChain BY <1>2, ExfsConsts
  <2> QED BY <2>1, <1>3 DEF FileOk
<1> QED BY <1>3, <1>4, <1>5 DEF g, z, Installed

\* The lists before and after add up.
Handover(exts, chain, fresh, new, out) ==
    /\ exts \in Seq(Ext) /\ chain \in Seq(Ext) /\ fresh \in Seq(Ext) /\ new \in Seq(Ext) /\ out \in Seq(Ext)
    /\ Disjoint(exts \o chain) /\ CoveredBy(exts \o chain) \cap CoveredBy(fresh) = {}
    /\ Disjoint(new) /\ Disjoint(out) /\ CoveredBy(new) \cap CoveredBy(out) = {}
    /\ CoveredBy(new) \cup CoveredBy(out) = CoveredBy(exts) \cup CoveredBy(fresh)
    /\ CoveredBy(out) \subseteq CoveredBy(exts)
\* The list installed and the blocks it replaces split what the file and the call held.
LEMMA HandoverAdds ==
  ASSUME NEW exts, NEW chain, NEW fresh, NEW new, NEW out, Handover(exts, chain, fresh, new, out)
  PROVE  /\ out \o chain \in Seq(Ext) /\ Disjoint(out \o chain)
         /\ CoveredBy(new) \cap CoveredBy(out \o chain) = {}
         /\ CoveredBy(new) \cup CoveredBy(out \o chain) = CoveredBy(exts \o chain) \cup CoveredBy(fresh)
<1>1. /\ exts \in Seq(Ext) /\ chain \in Seq(Ext) /\ fresh \in Seq(Ext) /\ new \in Seq(Ext) /\ out \in Seq(Ext)
      /\ Disjoint(exts \o chain) /\ CoveredBy(exts \o chain) \cap CoveredBy(fresh) = {}
      /\ Disjoint(new) /\ Disjoint(out) /\ CoveredBy(new) \cap CoveredBy(out) = {}
      /\ CoveredBy(new) \cup CoveredBy(out) = CoveredBy(exts) \cup CoveredBy(fresh)
      /\ CoveredBy(out) \subseteq CoveredBy(exts)
  BY DEF Handover
<1>2. CoveredBy(exts \o chain) = CoveredBy(exts) \cup CoveredBy(chain) /\ Disjoint(chain) /\ CoveredBy(exts) \cap CoveredBy(chain) = {}
  BY <1>1, ConcatList
<1>3. CoveredBy(out) \cap CoveredBy(chain) = {} BY <1>1, <1>2
<1>4. out \o chain \in Seq(Ext) /\ Disjoint(out \o chain) /\ CoveredBy(out \o chain) = CoveredBy(out) \cup CoveredBy(chain)
  BY <1>1, <1>2, <1>3, ConcatList
<1>5. CoveredBy(new) \cap CoveredBy(chain) = {} BY <1>1, <1>2
<1> QED BY <1>1, <1>2, <1>4, <1>5

\* The file's new list, the replaced one and the old ones are such lists.
LEMMA InstallLists ==
  ASSUME Core, job.pc = "install", IsWrite(job)
  PROVE  LET f == files[job.ino] IN
         /\ Handover(f.exts, ChainList(f.chain), job.fresh, job.stage, Outgoing(job))
         /\ Len(Outgoing(job)) <= Len(f.exts) /\ Len(job.stage) <= MaxExt
<1> DEFINE f == files[job.ino]
           exts == f.exts
           fresh == job.fresh
           chain == ChainList(f.chain)
<1>1. Mounted /\ WriteOk /\ Waiting = defer /\ Fresh = job.fresh BY WriteQuiet
<1>2. /\ job.ino \in Inodes /\ job.off \in Nat /\ job.len \in Nat /\ (job.op = "write_at" => job.len > 0)
      /\ job.stage = NewList(job) /\ Len(job.stage) <= MaxExt
  BY <1>1 DEF WriteOk
<1>3. exts \in Seq(Ext) /\ f.chain \in Seq(Nat) /\ chain \in Seq(Ext)
  <2>1. exts \in Seq(Ext) /\ f.chain \in Seq(Nat) BY <1>1, <1>2, Live
  <2> QED BY <2>1, ChainFacts
<1>4. DeferredBy(f) = exts \o chain BY <1>3, DeferredFacts
<1>5. /\ fresh \in Seq(Ext) /\ Disjoint(fresh) /\ Disjoint(exts \o chain) /\ CoveredBy(exts \o chain) \cap CoveredBy(fresh) = {}
  <2> DEFINE used == UsedBlocks(gm, disk)
  <2>1. Claims(used, Holdings(files, defer, fresh)) BY <1>1, Live
  <2> HIDE DEF used, fresh
  <2>2. /\ fresh \in Seq(Ext) /\ Disjoint(fresh) /\ Disjoint(DeferredBy(files[job.ino]))
        /\ CoveredBy(DeferredBy(files[job.ino])) \cap CoveredBy(fresh) = {}
    BY <2>1, <1>2, ClaimsAt
  <2> QED BY <2>2, <1>4
<1>6. Disjoint(exts) /\ CoveredBy(exts) \cap CoveredBy(fresh) = {} BY <1>3, <1>5, ConcatList
<1>7. CASE job.op = "write"
  <2>1. job.stage = fresh /\ Outgoing(job) = exts BY <1>2, <1>7, NewListIs DEF Outgoing
  <2>2. Len(exts) \in Nat BY <1>3
  <2> HIDE DEF f, exts, fresh, chain
  <2>3. Handover(exts, chain, fresh, fresh, exts) BY <1>3, <1>5, <1>6 DEF Handover
  <2> QED BY <2>1, <2>2, <2>3, <1>2 DEF exts, chain, fresh, f
<1>8. CASE job.op # "write"
  <2>1. job.len > 0 BY <1>2, <1>8 DEF IsWrite
  <2> DEFINE first == FirstBlock(job)
             last == LastBlock(job)
             new == Spliced(exts, first, fresh, last)
             out == Cut(exts, first, last)
  <2>2. first \in Nat /\ last \in Nat /\ first <= last /\ first <= LenSum(exts) BY <2>1, <1>2, <1>3, WriteRange
  <2>3. job.stage = new /\ Outgoing(job) = out BY <1>2, <1>8, NewListIs DEF Outgoing
  <2> HIDE DEF f, exts, fresh, chain, first, last
  <2>4. /\ new \in Seq(Ext) /\ Disjoint(new) /\ out \in Seq(Ext) /\ Disjoint(out) /\ Len(out) <= Len(exts)
        /\ CoveredBy(new) \cap CoveredBy(out) = {} /\ CoveredBy(new) \cup CoveredBy(out) = CoveredBy(exts) \cup CoveredBy(fresh)
        /\ CoveredBy(out) \subseteq CoveredBy(exts)
    BY <2>2, <1>3, <1>5, <1>6, Splice
  <2> HIDE DEF new, out
  <2>5. Handover(exts, chain, fresh, new, out) BY <2>4, <1>3, <1>5 DEF Handover
  <2> QED BY <2>3, <2>4, <2>5, <1>2 DEF exts, chain, fresh, f
<1> QED BY <1>7, <1>8

\* Installing a write keeps the invariant: the old blocks wait for the next commit.
LEMMA InstallStep ==
  ASSUME Tame, Shapes, Core, Install
  PROVE  Core'
<1>1. /\ job.pc = "install" /\ job' = Idle /\ vol' = Dirtied(vol) /\ UNCHANGED <<disk, stable, gm, faults, ops, formats>>
      /\ defer' = defer \o DeferredBy(Replacing(files[job.ino], Outgoing(job)))
  BY InstallCases
<1>3. IsWrite(job) /\ Mounted /\ WriteOk BY <1>1, Writing
<1>4. /\ ~Late /\ Waiting = defer /\ Fresh = job.fresh /\ job.op # "format" /\ \A j \in Inodes : ChainDoneFor(j) <=> ~files[j].dirty
  BY <1>1, <1>3, WriteQuiet
<1> DEFINE i == job.ino
           f == files[i]
           exts == f.exts
           chain == ChainList(f.chain)
           fresh == job.fresh
           new == job.stage
           out == Outgoing(job)
<1>5. /\ Handover(exts, chain, fresh, new, out) /\ Len(out) <= Len(exts) /\ Len(new) <= MaxExt
  BY <1>1, <1>3, InstallLists
<1>6. /\ i \in Inodes /\ f.used /\ (job.op = "write_at" => DeferRoom(Len(exts) + Len(f.chain) + 1))
      /\ (job.op = "write" => DeferRoom(Len(DeferredBy(f))))
  BY <1>1, <1>3 DEF WriteOk
<1>7. FilesOk(files) /\ FileOk(f) /\ exts \in Seq(Ext) /\ f.chain \in Seq(Nat) /\ DeferOk(defer) /\ ops \in 0 .. MaxOps
  BY <1>3, <1>6, Live DEF FilesOk, Core, Types, Counts
<1>8. PICK size : files' = SetFile(files, job.ino, Installed(files[job.ino], job.stage, size)) BY InstallCases
<1>9. new \in Seq(Ext) /\ out \in Seq(Ext) BY <1>5 DEF Handover
<1> DEFINE g == Installed(f, new, size)
           rf == Replacing(f, out)
           held == out \o chain
<1>10. FileOk(g) /\ g.exts = new /\ g.chain = <<>> /\ g.dirty BY <1>5, <1>6, <1>7, <1>9, InstalledFields
<1>11. rf.exts = out /\ rf.chain = f.chain BY <1>7 DEF Replacing, FileOk, FileRec
<1>12. files' = SetFile(files, i, g) /\ defer' = defer \o DeferredBy(rf) BY <1>1, <1>8
<1> HIDE DEF exts, chain, fresh, new, out, g, rf
<1>13. FilesOk(files') /\ files'[i] = g /\ \A j \in Inodes : j # i => files'[j] = files[j] BY <1>6, <1>7, <1>10, <1>12, SetFileAt
<1>14. DeferredBy(rf) = held /\ Len(held) = Len(out) + Len(f.chain) BY <1>7, <1>9, <1>11, DeferredFacts DEF chain
<1>15. DeferredBy(g) = new BY <1>9, <1>10, NoChainHeld
<1>16. DeferredBy(f) = exts \o chain BY <1>7, DeferredFacts DEF exts, chain
<1>17. /\ held \in Seq(Ext) /\ Disjoint(held) /\ CoveredBy(new) \cap CoveredBy(held) = {}
       /\ CoveredBy(new) \cup CoveredBy(held) = CoveredBy(exts \o chain) \cup CoveredBy(fresh) /\ Disjoint(new)
  BY <1>5, HandoverAdds DEF Handover
<1> HIDE DEF f, held
<1>18. Claims(UsedBlocks(gm, disk), Holdings(files', defer', <<>>))
  <2> DEFINE used == UsedBlocks(gm, disk)
             gs == files'
  <2>1. Claims(used, Holdings(files, defer, fresh)) BY <1>3, <1>4, Live DEF fresh
  <2>2. \A j \in Inodes : j # i => DeferredBy(gs[j]) = DeferredBy(files[j]) BY <1>13
  <2>3. DeferredBy(gs[i]) = new BY <1>13, <1>15
  <2>4. DeferredBy(files[i]) = exts \o chain BY <1>16 DEF f
  <2>5. i \in Inodes BY <1>6
  <2> HIDE DEF used, gs, i
  <2>6. /\ held \in Seq(Ext) /\ Disjoint(held) /\ DeferredBy(gs[i]) \in Seq(Ext) /\ Disjoint(DeferredBy(gs[i]))
        /\ CoveredBy(DeferredBy(gs[i])) \cap CoveredBy(held) = {}
        /\ CoveredBy(DeferredBy(gs[i])) \cup CoveredBy(held) = CoveredBy(DeferredBy(files[i])) \cup CoveredBy(fresh)
    BY <2>3, <2>4, <1>9, <1>17
  <2>7. Claims(used, Holdings(gs, defer \o held, <<>>)) BY <2>1, <2>2, <2>5, <2>6, ExchangeClaims
  <2> QED BY <2>7, <1>12, <1>14 DEF used, gs
<1>19. DeferOk(defer')
  <2> DEFINE a == Len(defer)
             b == Len(held)
             x == Len(exts)
             y == Len(f.chain)
             o == Len(out)
  <2>1. defer \in Seq(Ext) /\ defer' = defer \o held BY <1>7, <1>12, <1>14 DEF DeferOk
  <2>2. a \in Nat /\ b \in Nat /\ x \in Nat /\ y \in Nat /\ o \in Nat /\ DeferMax \in Nat
    BY <2>1, <1>7, <1>9, <1>17, ExfsConsts DEF exts
  <2>3. b = o + y /\ o <= x BY <1>5, <1>14
  <2>4. a + b <= DeferMax
    <3>1. CASE job.op = "write"
      <4>1. Len(DeferredBy(f)) = x + y BY <1>7, DeferredFacts DEF exts
      <4>2. a + (x + y) <= DeferMax BY <4>1, <3>1, <1>6 DEF DeferRoom
      <4> HIDE DEF a, b, x, y, o
      <4> QED BY <4>2, <2>2, <2>3
    <3>2. CASE job.op = "write_at"
      <4>2. a + (x + y + 1) <= DeferMax BY <3>2, <1>6 DEF DeferRoom
      <4> HIDE DEF a, b, x, y, o
      <4> QED BY <4>2, <2>2, <2>3
    <3> QED BY <3>1, <3>2, <1>3 DEF IsWrite
  <2>5. defer' \in Seq(Ext) /\ Len(defer') = a + b BY <2>1, <1>17, ConcatList
  <2> HIDE DEF a, b
  <2> QED BY <2>4, <2>5 DEF DeferOk
<1>20. Settled(disk, files')
  <2>1. Chains BY <1>3, Live
  <2>2. Settled(disk, files) BY <2>1, <1>4 DEF Chains, Settled
  <2> QED BY <2>2, <1>10, <1>13 DEF Settled
<1>21. ops' \in 0 .. MaxOps BY <1>1, <1>7
<1> QED BY <1>1, <1>3, <1>4, <1>13, <1>18, <1>19, <1>20, <1>21, MemoryStep

-----------------------------------------------------------------------------
(* The superblock.                                                         *)

\* The volume after a commit, as its fields.
LEMMA CommittedFields ==
  ASSUME NEW v \in VolType, NEW gen \in 0 .. MaxGen, NEW op
  PROVE  /\ Committed(v, gen, op) \in VolType /\ Committed(v, gen, op).gen = gen /\ ~Committed(v, gen, op).dirty
         /\ Committed(v, gen, op).broken = v.broken
BY DEF Committed, VolType

\* The other superblock's place is free for the next generation's.
LEMMA OtherSpare ==
  ASSUME NEW d, NEW s, NEW fs, HoldsAt(d, s, fs)
  PROVE  Spare(d, s, fs, 1 - s) /\ 1 - s \in Blocks /\ s \in Blocks /\ d[s].gen \in Nat /\ d[s].gen % 2 = s /\ d[s].kind = "sb"
<1>1. s \in {0, 1} /\ d[s].gen \in 1 .. MaxGen /\ d[s].gen % 2 = s BY DEF HoldsAt
<1>2. DataStart \in Nat /\ DataStart > 1 BY ExfsConsts
<1>3. 0 \in Reserved /\ 1 \in Reserved /\ 0 \in Blocks /\ 1 \in Blocks
  <2>1. 0 \in 0 .. (DataStart - 1) /\ 1 \in 0 .. (DataStart - 1) BY <1>2
  <2> QED BY <2>1, FixedReserved
<1>4. d[s].gen \in Nat /\ 1 - s \in {0, 1} /\ 1 - s # s BY <1>1, ExfsConsts
<1>5. ASSUME NEW k \in 0 .. (ITabBlocks - 1) PROVE 1 - s # Area(d[s].gen) + k
  <2> DEFINE g == d[s].gen
             a == Area(g) + k
  <2>1. g \in Nat BY <1>4
  <2> HIDE DEF g
  <2>2. a \in 2 .. (DataStart - 1) BY <2>1, Areas
  <2> HIDE DEF a
  <2>3. 1 - s # a BY <2>2, <1>2, <1>4
  <2> QED BY <2>3 DEF a, g
<1>6. ASSUME NEW g \in Groups PROVE 1 - s # slot_block(g, d[s].slot[g])
  <2>1. d[s].slot[g] \in {0, 1}
    <3> DEFINE m == OnDiskMap(d, s)
    <3>1. MapTyped(m) BY DEF HoldsAt, MapGood
    <3>2. m.slot = d[s].slot BY ImportFields DEF OnDiskMap, MapIs
    <3> HIDE DEF m
    <3>3. m.slot[g] \in {0, 1} BY <3>1, NewestType
    <3> QED BY <3>2, <3>3
  <2> DEFINE t == d[s].slot[g]
  <2>2. t \in {0, 1} BY <2>1
  <2> HIDE DEF t
  <2>3. slot_block(g, t) \in Nat /\ slot_block(g, t) >= DataStart BY <2>2, SlotFacts
  <2>4. 1 - s # slot_block(g, t) BY <2>3, <1>2, <1>4
  <2> QED BY <2>4 DEF t
<1>7. ASSUME NEW i \in Inodes PROVE 1 - s \notin CoveredBy(DeferredBy(fs[i]))
  <2> DEFINE z == <<>>
             used == InUse(d, s)
  <2>1. Claims(used, Holdings(fs, z, z)) BY DEF HoldsAt
  <2> HIDE DEF z, used
  <2>2. CoveredBy(DeferredBy(fs[i])) \cap Reserved = {} BY <2>1, ClaimsAt
  <2> QED BY <2>2, <1>3, <1>4
<1>8. d[s].kind = "sb"
  <2> DEFINE x == d[s]
             gen == d[s].gen
             slot == d[s].slot
             free == d[s].free
  <2>1. x = sb_encode(gen, slot, free) BY DEF HoldsAt
  <2> HIDE DEF x, gen, slot, free
  <2>2. x.kind = "sb" BY <2>1, SbFields
  <2> QED BY <2>2 DEF x
<1> QED BY <1>1, <1>3, <1>4, <1>5, <1>6, <1>7, <1>8 DEF Spare

\* Before the superblock write everything of the next generation is on disk.
LEMMA SuperReady ==
  ASSUME Shapes, Core, job.pc = "super", NEW s, s = (vol.gen + 1) % 2
  PROVE  /\ Ready(gm, disk, vol.gen, files) /\ s \in {0, 1} /\ s \in Blocks
         /\ disk[1 - s].kind = "sb" => disk[1 - s].gen \in Nat /\ disk[1 - s].gen < vol.gen + 1
         /\ NoSb(disk) \/ \E fs : HoldsAt(disk, 1 - s, fs)
<1>1. /\ Mounted /\ CommitOk /\ Fresh = job.fresh /\ Waiting = defer /\ vol.gen \in Nat /\ vol.gen < MaxGen
  BY Committing
<1>2. /\ job.fresh = <<>> /\ defer = <<>> /\ DirtyIn(gm) = {} /\ PagesOn(disk, vol.gen + 1, ITabBlocks, files)
  BY <1>1 DEF CommitOk
<1>3. /\ MapGood(gm, disk) /\ Claims(UsedBlocks(gm, disk), Holdings(files, Waiting, Fresh)) /\ Chains /\ DOMAIN disk = Blocks /\ FilesOk(files)
  BY <1>1, Live
<1>4. \A i \in Inodes : ChainOn(disk, files[i]) BY <1>3 DEF Chains, ChainDoneFor, Late
<1>5. Ready(gm, disk, vol.gen, files) BY <1>1, <1>2, <1>3, <1>4 DEF Ready, FilesOk
<1>6. s \in {0, 1} /\ vol.gen % 2 = 1 - s /\ vol.gen % 2 \in {0, 1}
  <2> DEFINE g == vol.gen
  <2>1. g \in Nat BY <1>1
  <2> HIDE DEF g
  <2>2. g % 2 \in {0, 1} /\ (g + 1) % 2 = 1 - (g % 2) BY <2>1, Areas
  <2>3. s = 1 - (g % 2) BY <2>2 DEF g
  <2>4. s \in {0, 1} /\ g % 2 = 1 - s BY <2>2, <2>3
  <2> QED BY <2>2, <2>4 DEF g
<1>7. s \in Blocks
  <2>1. 0 \in 0 .. (DataStart - 1) /\ 1 \in 0 .. (DataStart - 1) BY ExfsConsts
  <2> QED BY <2>1, <1>6, FixedReserved
<1>8. Durable BY DEF Core
<1>9. CASE NoSb(disk)
  <2>1. disk[1 - s].kind # "sb" BY <1>6, <1>9 DEF NoSb
  <2> QED BY <2>1, <1>5, <1>6, <1>7, <1>9
<1>10. ASSUME NEW t, NEW fs, HoldsAt(disk, t, fs), Linked(t, fs)
       PROVE  t = 1 - s /\ HoldsAt(disk, 1 - s, fs) /\ disk[1 - s].gen \in Nat /\ disk[1 - s].gen < vol.gen + 1
  <2>1. disk[t].gen % 2 = t /\ vol.gen = disk[t].gen BY <1>10 DEF HoldsAt, Linked
  <2>2. t = 1 - s BY <2>1, <1>6
  <2> QED BY <2>1, <2>2, <1>1, <1>10
<1> QED BY <1>1, <1>5, <1>6, <1>7, <1>8, <1>9, <1>10 DEF Durable

\* A superblock write that fails leaves the old volume or the new one.
LEMMA SuperFails ==
  ASSUME Shapes, Core, job.pc = "super", NEW s, s = (vol.gen + 1) % 2, NEW e, ChangedAt(disk, e, s),
         e[s] \in {disk[s], sb_encode(vol.gen + 1, ExportSlots(gm), gm.free), Torn}
  PROVE  NoSb(e) \/ \E t, fs : HoldsAt(e, t, fs)
<1>1. /\ Ready(gm, disk, vol.gen, files) /\ s \in {0, 1} /\ s \in Blocks
      /\ disk[1 - s].kind = "sb" => disk[1 - s].gen \in Nat /\ disk[1 - s].gen < vol.gen + 1
      /\ NoSb(disk) \/ \E fs : HoldsAt(disk, 1 - s, fs)
  BY SuperReady
<1>2. CASE e[s] = sb_encode(vol.gen + 1, ExportSlots(gm), gm.free)
  <2> DEFINE gen == vol.gen
  <2>1. Ready(gm, disk, gen, files) /\ s = (gen + 1) % 2 /\ e[s] = sb_encode(gen + 1, ExportSlots(gm), gm.free)
        /\ (disk[1 - s].kind = "sb" => disk[1 - s].gen \in Nat /\ disk[1 - s].gen < gen + 1)
    BY <1>1, <1>2
  <2> HIDE DEF gen
  <2>2. HoldsAt(e, s, Clean(files)) BY <2>1, CommitPoint
  <2> QED BY <2>2
<1>3. ASSUME e[s] \in {disk[s], Torn} PROVE NoSb(e) \/ \E t, fs : HoldsAt(e, t, fs)
  <2>1. e[s].kind = "sb" => e[s] = disk[s] BY <1>3 DEF Torn
  <2>2. 1 - s \in {0, 1} /\ 1 - s # s /\ 1 - (1 - s) = s BY <1>1
  <2>3. 0 \in Blocks /\ 1 \in Blocks
    <3>1. 0 \in 0 .. (DataStart - 1) /\ 1 \in 0 .. (DataStart - 1) BY ExfsConsts
    <3> QED BY <3>1, FixedReserved
  <2>4. e[1 - s] = disk[1 - s] /\ DOMAIN e = Blocks /\ \A b \in Blocks : b # s => e[b] = disk[b] BY <2>2, <2>3 DEF ChangedAt
  <2>5. CASE NoSb(disk)
    <3>1. \A t \in {0, 1} : e[t].kind # "sb" BY <2>1, <2>2, <2>4, <2>5, <1>1 DEF NoSb
    <3> QED BY <3>1 DEF NoSb
  <2>6. ASSUME NEW fs, HoldsAt(disk, 1 - s, fs) PROVE HoldsAt(e, 1 - s, fs)
    <3> DEFINE t == 1 - s
    <3>1. HoldsAt(disk, t, fs) /\ 1 - t = s BY <2>6, <2>2
    <3> HIDE DEF t
    <3>2. Spare(disk, t, fs, s) BY <3>1, OtherSpare
    <3>3. \A b \in Blocks : e[b] = disk[b] \/ Spare(disk, t, fs, b) BY <3>2, <2>4
    <3>4. e[1 - t].kind = "sb" => e[1 - t] = disk[1 - t] BY <3>1, <2>1
    <3>5. HoldsAt(e, t, fs) BY <3>1, <3>3, <3>4, <2>4, HoldsFrame
    <3> QED BY <3>5 DEF t
  <2> QED BY <1>1, <2>5, <2>6
<1> QED BY <1>2, <1>3

\* Writing the superblock keeps the invariant: this is where the tree on disk changes.
LEMMA SuperStep ==
  ASSUME Tame, Shapes, Core, SuperPut
  PROVE  Core'
<1>1. job.pc = "super" /\ job' = Idle /\ UNCHANGED <<defer, ops, formats>> BY SuperCases
<1>2. PICK w \in blk_put(disk, faults, (vol.gen + 1) % 2, sb_encode(vol.gen + 1, ExportSlots(gm), gm.free)) :
        /\ SetDisk(w.d) /\ faults' = w.f
        /\ \/ /\ w.ok /\ gm' = gmap_commit(gm) /\ files' = Clean(files)
              /\ vol' = Committed(vol, vol.gen + 1, job.op)
           \/ ~w.ok /\ vol' = BrokenBy(job) /\ UNCHANGED <<gm, files>>
  BY SuperCases
<1>3. /\ Mounted /\ CommitOk /\ ~IsWrite(job) /\ formats # 0 /\ vol.gen \in Nat /\ vol.gen < MaxGen BY <1>1, Committing
<1>4. /\ DOMAIN disk = Blocks /\ vol \in VolType /\ faults \in 0 .. MaxFaults /\ FilesOk(files) /\ DeferOk(defer)
      /\ MapGood(gm, disk)
  BY <1>3, Live
<1>5. defer = <<>> /\ job.fresh = <<>> BY <1>1, <1>3 DEF CommitOk
<1> DEFINE s == (vol.gen + 1) % 2
           sb == sb_encode(vol.gen + 1, ExportSlots(gm), gm.free)
<1>6. /\ ChangedAt(disk, w.d, s) /\ w.f \in 0 .. MaxFaults /\ w.ok \in BOOLEAN
      /\ w.ok => s \in Blocks /\ w.d[s] = sb
      /\ ~w.ok => w.d = disk \/ (s \in Blocks /\ w.d[s] \in {disk[s], sb, Torn})
  <2>1. w \in blk_put(disk, faults, s, sb) BY <1>2
  <2> HIDE DEF s, sb
  <2> QED BY <2>1, <1>4, PutResults
<1>7. disk' = w.d /\ stable' = disk' BY <1>2, SetIs
<1>8. DOMAIN disk' = Blocks /\ faults' \in 0 .. MaxFaults BY <1>6, <1>7, <1>2 DEF ChangedAt
<1>9. job'.op = "none" /\ job'.fresh = <<>> /\ job'.pc = "idle" BY <1>1, IdleJob
<1>10. Phase' BY <1>1 DEF Phase
<1>11. ops' \in 0 .. MaxOps /\ formats' \in 0 .. MaxFormats BY <1>1 DEF Core, Types, Counts
<1>12. DiskOk' /\ Counts' /\ formats' # 0 /\ DeferOk(defer') BY <1>1, <1>3, <1>4, <1>7, <1>8, <1>11 DEF DiskOk, Counts
<1>13. CASE ~w.ok
  <2>1. vol' = BrokenBy(job) /\ gm' = gm /\ files' = files BY <1>2, <1>13
  <2>2. vol' \in VolType /\ vol'.broken BY <2>1, <1>3, <1>4, Breaks
  <2>3. ~Mounted' BY <2>2 DEF Mounted
  <2>4. w.d[s] \in {disk[s], sb, Torn} BY <1>6, <1>13
  <2>5. NoSb(disk') \/ \E t, fs : HoldsAt(disk', t, fs)
    <3> DEFINE e == w.d
    <3>1. ChangedAt(disk, e, s) /\ e[s] \in {disk[s], sb_encode(vol.gen + 1, ExportSlots(gm), gm.free), Torn} BY <1>6, <2>4
    <3>2. s = (vol.gen + 1) % 2 OBVIOUS
    <3> HIDE DEF e, s
    <3>3. NoSb(e) \/ \E t, fs : HoldsAt(e, t, fs) BY <1>1, <3>1, <3>2, SuperFails
    <3> QED BY <3>3, <1>7 DEF e
  <2>6. Durable' BY <2>3, <2>5, <1>9 DEF Durable
  <2>7. Memory' BY <2>3 DEF Memory
  <2>8. GmTypes(gm') /\ FilesOk(files') BY <2>1, <1>4, GoodTypes
  <2>9. Types' BY <2>2, <2>8, <1>12 DEF Types
  <2> QED BY <2>6, <2>7, <2>9, <1>10 DEF Core
<1>14. CASE w.ok
  <2> DEFINE gen == vol.gen
             m == gm
             fs == files
             e == w.d
  <2>1. gm' = gmap_commit(m) /\ files' = Clean(fs) /\ vol' = Committed(vol, gen + 1, job.op) BY <1>2, <1>14
  <2>2. /\ Ready(m, disk, gen, fs) /\ s = (gen + 1) % 2 /\ ChangedAt(disk, e, s)
        /\ e[s] = sb_encode(gen + 1, ExportSlots(m), m.free)
        /\ disk[1 - s].kind = "sb" => disk[1 - s].gen \in Nat /\ disk[1 - s].gen < gen + 1
    BY <1>1, <1>6, <1>14, SuperReady
  <2>3. gen + 1 \in 0 .. MaxGen BY <1>3, ExfsConsts
  <2>e. disk' = e BY <1>7
  <2>f. (\A i \in Inodes : FileOk(fs[i])) /\ vol \in VolType BY <1>4 DEF FilesOk
  <2>h. Claims(UsedBlocks(m, disk), Holdings(fs, <<>>, <<>>)) BY <2>2 DEF Ready
  <2> HIDE DEF gen, m, fs, e, s, sb
  <2>4. /\ HoldsAt(e, s, Clean(fs)) /\ InUse(e, s) = UsedBlocks(m, disk)
        /\ MapGood(gmap_commit(m), e) /\ UsedBlocks(gmap_commit(m), e) = UsedBlocks(m, disk)
        /\ gmap_commit(m).slot = e[s].slot /\ e[s].gen = gen + 1
    BY <2>2, CommitPoint
  <2>5. vol' \in VolType /\ vol'.gen = gen + 1 /\ ~vol'.dirty /\ vol'.broken = vol.broken BY <2>1, <2>3, <2>f, CommittedFields
  <2>6. FilesOk(files') /\ \A i \in Inodes : ~files'[i].dirty
    <3>1. Clean(fs) = [i \in Inodes |-> Clean(fs)[i]] /\ \A i \in Inodes : FileOk(Clean(fs)[i]) /\ ~Clean(fs)[i].dirty
      BY <2>f, CleanAll
    <3> DEFINE h == Clean(fs)
    <3>2. h = [i \in Inodes |-> h[i]] /\ (\A i \in Inodes : FileOk(h[i]) /\ ~h[i].dirty) /\ files' = h BY <3>1, <2>1
    <3> HIDE DEF h
    <3> QED BY <3>2 DEF FilesOk
  <2>7. MapGood(gm', disk') /\ UsedBlocks(gm', disk') = UsedBlocks(m, disk) BY <2>1, <2>4, <2>e
  <2>8. GmTypes(gm') BY <2>7, GoodTypes
  <2>9. Types' BY <2>5, <2>6, <2>8, <1>12 DEF Types
  <2>10. Waiting' = <<>> /\ Fresh' = <<>> BY <1>1, <1>5, <1>9 DEF Waiting, Fresh
  <2>11. Claims(UsedBlocks(gm', disk'), Holdings(files', Waiting', Fresh'))
    <3>1. Holdings(Clean(fs), <<>>, <<>>) = Holdings(fs, <<>>, <<>>) BY <2>f, CleanAll
    <3> QED BY <3>1, <2>1, <2>7, <2>10, <2>h
  <2>12. Chains'
    <3>1. \A i \in Inodes : ChainOn(e, Clean(fs)[i]) BY <2>4 DEF HoldsAt
    <3>2. \A i \in Inodes : ChainOn(disk', files'[i]) /\ ~files'[i].dirty BY <3>1, <2>1, <2>e, <2>6
    <3> QED BY <3>2 DEF Chains, ChainDoneFor
  <2>13. Memory' BY <2>7, <2>11, <2>12 DEF Memory
  <2>14. PICK t, h : t = s /\ h = files' OBVIOUS
  <2>15. HoldsAt(disk', t, h) /\ Linked(t, h)'
    <3>1. HoldsAt(disk', t, h) /\ InUse(disk', t) = UsedBlocks(gm', disk') BY <2>1, <2>4, <2>7, <2>e, <2>14
    <3>2. vol'.gen = disk'[t].gen /\ gm'.slot = disk'[t].slot BY <2>1, <2>4, <2>5, <2>e, <2>14
    <3>3. CoveredBy(job'.fresh) = {} BY <1>9, EmptyExts
    <3>4. files' = h BY <2>14
    <3> QED BY <3>1, <3>2, <3>3, <3>4 DEF Linked
  <2>16. Durable' BY <2>15, <1>9 DEF Durable
  <2> QED BY <2>9, <2>13, <2>16, <1>10 DEF Core
<1> QED BY <1>6, <1>13, <1>14

\* While a format writes the map there is no volume on the disk.
LEMMA Formatting ==
  ASSUME Core, job.pc = "format"
  PROVE  /\ FormatOk /\ ~Mounted /\ formats # 0 /\ NoSb(disk) /\ DOMAIN disk = Blocks /\ stable = disk
         /\ job.op = "format" /\ job.i \in 0 .. NGroups
<1>1. FormatOk /\ job # Idle /\ formats # 0 BY Phases
<1>2. job.op = "format" /\ ~Mounted /\ job.i \in 0 .. NGroups BY <1>1 DEF FormatOk
<1>3. NoSb(disk) BY <1>2 DEF Core, Durable
<1>4. DOMAIN disk = Blocks /\ stable = disk BY DEF Core, Types, DiskOk
<1> QED BY <1>1, <1>2, <1>3, <1>4

\* Formatting one group keeps the invariant.
LEMMA FormatGroupStep ==
  ASSUME Tame, Shapes, Core, FormatGroup
  PROVE  Core'
<1>1. job.pc = "format" /\ job.i < NGroups /\ UNCHANGED <<vol, files, defer, ops, formats>> BY GroupCases
<1>2. PICK r \in gmap_format_group(gm, disk, faults, job.i) :
        /\ gm' = r.m /\ SetDisk(r.d) /\ faults' = r.f
        /\ job' = IF r.ok THEN NextItem(job) ELSE Idle
  BY GroupCases
<1>3. /\ FormatOk /\ ~Mounted /\ formats # 0 /\ NoSb(disk) /\ DOMAIN disk = Blocks /\ stable = disk
      /\ job.op = "format" /\ job.i \in 0 .. NGroups
  BY <1>1, Formatting
<1>4. job.i \in Groups BY <1>1, <1>3, Consts DEF Groups
<1>5. PICK g : g = job.i OBVIOUS
<1>6. g \in Groups /\ 0 \in {0, 1} BY <1>4, <1>5
<1>7. GmTypes(gm) /\ faults \in 0 .. MaxFaults BY DEF Core, Types, Counts
<1>8. MapRec(gm) BY DEF Shapes, GmShape, MapRec
<1>9. PICK w \in blk_put(disk, faults, slot_block(g, 0), MapBlock(fresh_bits(g))) :
        r = [ok |-> w.ok, d |-> w.d, f |-> w.f, m |-> Formatted(gm, g, w.ok)]
  BY <1>2, <1>5 DEF gmap_format_group
<1>10. r.ok = w.ok /\ r.d = w.d /\ r.f = w.f /\ r.m = Formatted(gm, g, w.ok) BY <1>9
<1> DEFINE b == slot_block(g, 0)
           new == MapBlock(fresh_bits(g))
           n == GB - Cardinality(fresh_bits(g))
<1>11. /\ ChangedAt(disk, w.d, b) /\ w.f \in 0 .. MaxFaults /\ w.ok \in BOOLEAN /\ (w.ok => w.d[b] = new)
  <2>1. w \in blk_put(disk, faults, b, new) OBVIOUS
  <2> HIDE DEF b, new
  <2> QED BY <2>1, <1>3, <1>7, PutResults
<1>12. disk' = w.d /\ stable' = disk' BY <1>2, <1>10, SetIs
<1>13. b \in Blocks /\ b \in Nat /\ b >= DataStart BY <1>6, SlotFacts
<1>14. n \in 0 .. GB BY <1>6, FreshCount
<1> HIDE DEF b, n
<1>15. DOMAIN disk' = Blocks /\ (\A c \in Blocks : c # b => disk'[c] = disk[c]) BY <1>11, <1>12 DEF ChangedAt
<1>16. NoSb(disk')
  <2>1. 0 \in 0 .. (DataStart - 1) /\ 1 \in 0 .. (DataStart - 1) BY ExfsConsts
  <2>2. 0 \in Blocks /\ 1 \in Blocks BY <2>1, FixedReserved
  <2>3. 0 # b /\ 1 # b BY <1>13, ExfsConsts
  <2> QED BY <2>2, <2>3, <1>3, <1>15 DEF NoSb
<1>17. MapIs(gm', SlotSet(gm.slot, g, w.ok), gm.written, FreeSet(gm.free, g, n), gm.cache)
  BY <1>2, <1>8, <1>10, FormattedFields DEF n
<1>18. /\ gm.slot \in [Groups -> {0, 1}] /\ gm.written \in [Groups -> BOOLEAN] /\ gm.free \in [Groups -> 0 .. GB]
       /\ gm.cache = <<>> /\ \A h \in Groups : gm.slot[h] = 0 /\ ~gm.written[h]
  BY <1>3, <1>7 DEF GmTypes, FormatOk
<1>19. gm'.slot \in [Groups -> {0, 1}] /\ \A h \in Groups : gm'.slot[h] = 0
  <2>1. gm'.slot = SlotSet(gm.slot, g, w.ok) BY <1>17 DEF MapIs
  <2>2. gm'.slot = [gm.slot EXCEPT ![g] = IF w.ok THEN 0 ELSE gm.slot[g]] BY <2>1 DEF SlotSet
  <2>3. (IF w.ok THEN 0 ELSE gm.slot[g]) = 0 BY <1>6, <1>18
  <2> QED BY <2>2, <2>3, <1>6, <1>18
<1>20. /\ gm'.free \in [Groups -> 0 .. GB] /\ gm'.free[g] = n /\ (\A h \in Groups : h # g => gm'.free[h] = gm.free[h])
       /\ gm'.written = gm.written /\ gm'.cache = <<>>
  BY <1>6, <1>14, <1>17, <1>18 DEF MapIs, FreeSet
<1>21. GmTypes(gm')
  <2>1. Len(<<>>) = 0 /\ CacheSize \in Nat BY Consts, EmptyList
  <2> QED BY <2>1, <1>18, <1>19, <1>20 DEF GmTypes
<1>22. faults' \in 0 .. MaxFaults BY <1>2, <1>10, <1>11
<1>23. Types' BY <1>1, <1>3, <1>12, <1>15, <1>21, <1>22 DEF Core, Types, DiskOk, Counts
<1>24. ~Mounted' BY <1>1, <1>3 DEF Mounted
<1>25. Durable' BY <1>16, <1>24 DEF Durable
<1>26. Memory' BY <1>24 DEF Memory
<1>27. Phase'
  <2>1. CASE ~w.ok
    <3>1. job' = Idle BY <2>1, <1>2, <1>10
    <3> QED BY <3>1 DEF Phase
  <2>2. CASE w.ok
    <3>1. job' = NextItem(job) BY <2>2, <1>2, <1>10
    <3>2. JobRec(job) BY DEF Shapes, JobShape
    <3>3. JobIs(job', job, job.pc, job.ino, job.need, job.k, job.i + 1, job.fresh, job.stage) BY <3>1, <3>2, Named
    <3>4. job'.pc = "format" /\ job'.op = "format" /\ job'.i = g + 1 /\ job'.fresh = <<>>
      BY <3>3, <1>1, <1>3, <1>5 DEF JobIs, FormatOk
    <3>5. job'.i \in 0 .. NGroups
      <4>1. NGroups \in Nat BY Consts
      <4>2. g \in 0 .. (NGroups - 1) BY <1>6 DEF Groups
      <4>3. g + 1 \in 0 .. NGroups BY <4>1, <4>2
      <4> QED BY <4>3, <3>4
    <3>6. ASSUME NEW h \in Groups, h < job'.i PROVE disk'[slot_block(h, 0)] = MapBlock(fresh_bits(h)) /\ gm'.free[h] = GB - Cardinality(fresh_bits(h))
      <4>1. CASE h = g
        <5>1. disk'[b] = new BY <2>2, <1>11, <1>12
        <5> QED BY <4>1, <5>1, <1>20 DEF b, n
      <4>2. CASE h # g
        <5>1. h < g BY <4>2, <3>6, <3>4, <1>6, Consts DEF Groups
        <5>2. disk[slot_block(h, 0)] = MapBlock(fresh_bits(h)) /\ gm.free[h] = GB - Cardinality(fresh_bits(h))
          BY <5>1, <1>3, <1>5 DEF FormatOk
        <5>3. slot_block(h, 0) # b
          <6>1. slot_block(h, 0) = slot_block(g, 0) => h = g BY <1>6, SlotsApart
          <6> QED BY <6>1, <4>2 DEF b
        <5>4. slot_block(h, 0) \in Blocks BY <1>6, SlotFacts
        <5> QED BY <5>2, <5>3, <5>4, <4>2, <1>15, <1>20
      <4> QED BY <4>1, <4>2
    <3>7. FormatOk' BY <3>4, <3>5, <3>6, <1>18, <1>19, <1>20, <1>24 DEF FormatOk
    <3> QED BY <3>4, <3>7 DEF Phase
  <2> QED BY <2>1, <2>2, <1>11
<1> QED BY <1>23, <1>25, <1>26, <1>27 DEF Core

\* A tree without extents holds no block.
LEMMA EmptyClaims ==
  ASSUME NEW fs, \A i \in Inodes : fs[i].exts = <<>> /\ fs[i].chain = <<>>
  PROVE  Claims(Reserved, Holdings(fs, <<>>, <<>>))
<1> DEFINE z == <<>>
           h == Holdings(fs, z, z)
<1>1. z \in Seq(Ext) /\ CoveredBy(z) = {} /\ Disjoint(z) BY EmptyExts
<1>2. \A i \in Inodes : DeferredBy(fs[i]) = z BY EmptyChain
<1> HIDE DEF z
<1>3. DOMAIN h = Held /\ h[-2] = z /\ h[-1] = z /\ \A i \in Inodes : h[i] = z BY <1>2, HoldingsAt
<1> HIDE DEF h
<1>4. Held = Inodes \cup {-2, -1} BY HeldIs
<1>5. \A i \in Held : h[i] = z BY <1>3, <1>4
<1>6. UNION {CoveredBy(h[i]) : i \in Held} = {} BY <1>5, <1>1
<1>7. Claims(Reserved, h) BY <1>1, <1>3, <1>5, <1>6 DEF Claims
<1> QED BY <1>7 DEF h, z

Tree0 == [Off EXCEPT !.mounted = TRUE, !.dirty = TRUE]
\* The volume while it is formatted, and when it is off.
LEMMA TreeVol ==
  /\ Tree0 \in VolType /\ Tree0.mounted /\ ~Tree0.broken /\ Tree0.dirty /\ Tree0.gen = 0
  /\ Off \in VolType /\ ~Off.mounted
<1>1. DataStart \in 0 .. Total /\ 0 \in 0 .. MaxGen BY Consts, ExfsConsts
<1> QED BY <1>1 DEF Tree0, Off, VolType

\* Making the first tree keeps the invariant.
LEMMA FormatTreeStep ==
  ASSUME Tame, Shapes, Core, FormatTree
  PROVE  Core'
<1>1. /\ job.pc = "format" /\ job.i = NGroups /\ files' = FormatFiles /\ defer' = <<>> /\ vol' = Tree0
      /\ job' = StartJob("format", "file") /\ UNCHANGED <<disk, stable, gm, faults, ops, formats>>
  BY DEF FormatTree, Tree0
<1>2. /\ FormatOk /\ ~Mounted /\ formats # 0 /\ NoSb(disk) /\ DOMAIN disk = Blocks /\ stable = disk
  BY <1>1, Formatting
<1>3. vol' \in VolType /\ vol'.mounted /\ ~vol'.broken /\ vol'.dirty /\ vol'.gen = 0 BY <1>1, TreeVol
<1>4. Mounted' BY <1>3 DEF Mounted
<1>5. MapRec(gm) /\ GmTypes(gm) BY DEF Shapes, GmShape, MapRec, Core, Types
<1>6. MapGood(gm, disk) /\ UsedBlocks(gm, disk) = Reserved
  <2>1. \A g \in Groups : g < job.i BY <1>1, Consts DEF Groups
  <2>2. \A g \in Groups : /\ gm.slot[g] = 0 /\ ~gm.written[g] /\ disk[slot_block(g, 0)] = MapBlock(fresh_bits(g))
                          /\ gm.free[g] = GB - Cardinality(fresh_bits(g))
    BY <2>1, <1>2 DEF FormatOk
  <2>3. gm.cache = <<>> BY <1>2 DEF FormatOk
  <2> QED BY <2>2, <2>3, <1>5, FormatGood DEF GmTypes
<1>7. /\ files' = [i \in Inodes |-> files'[i]]
      /\ \A i \in Inodes : FileOk(files'[i]) /\ files'[i].exts = <<>> /\ files'[i].chain = <<>>
  BY <1>1, FormatNodes
<1>8. /\ job'.op = "format" /\ job'.pc = "file" /\ job'.ino = 0 /\ job'.need = 0 /\ job'.k = 0 /\ job'.i = 0 /\ job'.fresh = <<>>
  <2> DEFINE j == StartJob("format", "file")
  <2>1. j.op = "format" /\ j.pc = "file" /\ j.ino = 0 /\ j.need = 0 /\ j.k = 0 /\ j.i = 0 /\ j.fresh = <<>> BY CommitFields
  <2> HIDE DEF j
  <2>2. job' = j BY <1>1 DEF j
  <2> QED BY <2>1, <2>2
<1>9. Waiting' = <<>> /\ Fresh' = <<>> BY <1>1, <1>8 DEF Waiting, Fresh
<1>10. Claims(UsedBlocks(gm', disk'), Holdings(files', Waiting', Fresh'))
  <2> DEFINE h == files'
  <2>1. \A i \in Inodes : h[i].exts = <<>> /\ h[i].chain = <<>> BY <1>7
  <2> HIDE DEF h
  <2>2. Claims(Reserved, Holdings(h, <<>>, <<>>)) BY <2>1, EmptyClaims
  <2> QED BY <2>2, <1>1, <1>6, <1>9 DEF h
<1>11. Chains'
  <2>1. ASSUME NEW i \in Inodes PROVE ChainOn(disk', files'[i])
    <3> DEFINE f == files'[i]
    <3>1. f.exts = <<>> /\ f.chain = <<>> BY <1>7
    <3> HIDE DEF f
    <3>2. ChainOn(disk', f) BY <3>1, EmptyChain
    <3> QED BY <3>2 DEF f
  <2> QED BY <2>1, <1>7 DEF Chains
<1>12. Memory' BY <1>1, <1>6, <1>10, <1>11 DEF Memory
<1>13. Durable' BY <1>1, <1>2, <1>3, <1>8 DEF Durable
<1>14. Types'
  <2>1. FilesOk(files') BY <1>7 DEF FilesOk
  <2>2. DeferOk(<<>>) BY EmptyExts, ExfsConsts DEF DeferOk
  <2> QED BY <2>1, <2>2, <1>1, <1>2, <1>3, <1>5 DEF Core, Types, DiskOk, Counts
<1>15. CommitOk'
  <2>1. <<>> \in Seq(Ext) /\ 0 < MaxGen BY EmptyExts, ExfsConsts
  <2> QED BY <2>1, <1>3, <1>8 DEF CommitOk
<1>16. Phase' BY <1>4, <1>8, <1>15 DEF Phase, CommitOps
<1> QED BY <1>12, <1>13, <1>14, <1>16 DEF Core

\* Between two calls nothing waits but the deferred list.
LEMMA Resting ==
  ASSUME Core, Mounted, job = Idle
  PROVE  /\ job.op = "none" /\ ~Late /\ Waiting = defer /\ Fresh = <<>> /\ formats # 0 /\ FilesOk(files) /\ DeferOk(defer)
         /\ Claims(UsedBlocks(gm, disk), Holdings(files, defer, <<>>)) /\ Settled(disk, files)
<1>1. job.op = "none" /\ job.pc = "idle" /\ job.fresh = <<>> BY IdleJob
<1>2. ~Late /\ Waiting = defer /\ Fresh = <<>> BY <1>1 DEF Late, Waiting, Fresh
<1>3. Claims(UsedBlocks(gm, disk), Holdings(files, Waiting, Fresh)) /\ Chains /\ FilesOk(files) /\ DeferOk(defer) BY Live
<1>4. \A i \in Inodes : ChainDoneFor(i) <=> ~files[i].dirty BY <1>1, <1>2 DEF ChainDoneFor, CommitOps
<1>5. Settled(disk, files) BY <1>3, <1>4 DEF Chains, Settled
<1>6. formats # 0 BY MountedFormatted
<1> QED BY <1>1, <1>2, <1>3, <1>5, <1>6

\* Making a file or a directory keeps the invariant.
LEMMA MakeStep ==
  ASSUME Tame, Core, NEW n, NEW t, Make(n, t)
  PROVE  Core'
<1>1. /\ job = Idle /\ Mounted /\ ops < MaxOps /\ (\E i \in Inodes : ~files[i].used) /\ files' = make_node(files, n, t)
      /\ vol' = Dirtied(vol) /\ ops' = ops + 1 /\ UNCHANGED <<disk, stable, gm, defer, job, faults, formats>>
  BY DEF Make, Dirtied
<1>2. /\ job.op = "none" /\ ~Late /\ FilesOk(files) /\ DeferOk(defer)
      /\ Claims(UsedBlocks(gm, disk), Holdings(files, defer, <<>>)) /\ Settled(disk, files)
  BY <1>1, Resting
<1> DEFINE T == {i \in Inodes : ~files[i].used}
<1>3. T \subseteq Nat /\ T # {} BY <1>1 DEF Inodes
<1>4. Min(T) \in T
  <2> HIDE DEF T
  <2> QED BY <1>3, Least
<1>5. PICK k : k = Min(T) OBVIOUS
<1>6. k \in Inodes /\ ~files[k].used BY <1>4, <1>5
<1>7. files' = SetFile(files, k, Node(n, t)) BY <1>1, <1>5 DEF make_node, SetFile, Node
<1>8. PICK f : f = Node(n, t) OBVIOUS
<1>9. FileOk(f) /\ f.exts = <<>> /\ f.chain = <<>> /\ f.dirty BY <1>8, NodeFields
<1>10. FilesOk(files') /\ files'[k] = f /\ \A j \in Inodes : j # k => files'[j] = files[j] BY <1>2, <1>6, <1>7, <1>8, <1>9, SetFileAt
<1>11. files[k].exts = <<>> /\ files[k].chain = <<>> BY <1>2, <1>6 DEF FilesOk, FileOk
<1>12. \A j \in Inodes : DeferredBy(files'[j]) = DeferredBy(files[j])
  <2>1. DeferredBy(files[k]) = DeferredBy(f) BY <1>9, <1>11 DEF DeferredBy
  <2> QED BY <2>1, <1>10
<1>13. Holdings(files', defer', <<>>) = Holdings(files, defer, <<>>)
  <2> DEFINE fs == files'
             z == <<>>
  <2>1. \A j \in Inodes : DeferredBy(fs[j]) = DeferredBy(files[j]) BY <1>12
  <2> HIDE DEF fs, z
  <2>2. Holdings(fs, defer, z) = Holdings(files, defer, z) BY <2>1, SameHoldings
  <2> QED BY <2>2, <1>1 DEF fs, z
<1>14. Settled(disk, files') BY <1>2, <1>9, <1>10 DEF Settled
<1>15. ops' \in 0 .. MaxOps BY <1>1, ExfsConsts DEF Core, Types, Counts
<1>16. job' = Idle /\ UNCHANGED <<disk, stable, gm, faults, formats>> /\ DeferOk(defer') BY <1>1, <1>2
<1>17. Claims(UsedBlocks(gm, disk), Holdings(files', defer', <<>>)) BY <1>2, <1>13
<1>18. job.op # "format" BY <1>2
<1> QED BY <1>1, <1>2, <1>10, <1>14, <1>15, <1>16, <1>17, <1>18, MemoryStep

\* Deleting a file keeps the invariant: its blocks wait for the next commit.
LEMMA DeleteStep ==
  ASSUME Tame, Core, NEW n, exfs_delete(n)
  PROVE  Core'
<1>1. /\ job = Idle /\ Mounted /\ ops < MaxOps
      /\ vol' = Dirtied(vol) /\ ops' = ops + 1 /\ UNCHANGED <<disk, stable, gm, job, faults, formats>>
  BY DEF exfs_delete, Dirtied
<1>2. PICK k \in find(n) : /\ DeferRoom(Len(DeferredBy(files[k]))) /\ defer' = defer \o DeferredBy(files[k])
                           /\ files' = SetFile(files, k, Gone)
  BY DEF exfs_delete, SetFile, Gone
<1>3. /\ job.op = "none" /\ ~Late /\ FilesOk(files) /\ DeferOk(defer)
      /\ Claims(UsedBlocks(gm, disk), Holdings(files, defer, <<>>)) /\ Settled(disk, files)
  BY <1>1, Resting
<1>4. k \in Inodes BY <1>2 DEF find
<1>5. PICK f : f = Gone OBVIOUS
<1>6. FileOk(f) /\ f.exts = <<>> /\ f.chain = <<>> /\ f.dirty BY <1>5, NodeFields
<1>7. FilesOk(files') /\ files'[k] = f /\ \A j \in Inodes : j # k => files'[j] = files[j] BY <1>2, <1>3, <1>4, <1>5, <1>6, SetFileAt
<1> DEFINE out == DeferredBy(files[k])
           gs == files'
           z == <<>>
           used == UsedBlocks(gm, disk)
<1>8. DeferredBy(gs[k]) = z
  <2>1. DeferredBy(f) = z BY <1>6, EmptyChain
  <2> QED BY <2>1, <1>7
<1>9. z \in Seq(Ext) /\ CoveredBy(z) = {} /\ Disjoint(z) BY EmptyExts
<1>10. Claims(used, Holdings(files, defer, z)) BY <1>3
<1>11. \A j \in Inodes : j # k => DeferredBy(gs[j]) = DeferredBy(files[j]) BY <1>7
<1>12. out \in Seq(Ext) /\ Disjoint(out)
  <2> HIDE DEF z, used
  <2> QED BY <1>4, <1>10, ClaimsAt
<1>13. CoveredBy(DeferredBy(files[k])) = CoveredBy(out) OBVIOUS
<1>14. defer' = defer \o out BY <1>2
<1>15. Claims(used, Holdings(files', defer', <<>>))
  <2> HIDE DEF gs, z, used, out
  <2>1. CoveredBy(DeferredBy(gs[k])) \cap CoveredBy(out) = {} /\ DeferredBy(gs[k]) \in Seq(Ext) /\ Disjoint(DeferredBy(gs[k]))
    BY <1>8, <1>9
  <2>2. CoveredBy(DeferredBy(gs[k])) \cup CoveredBy(out) = CoveredBy(DeferredBy(files[k])) \cup CoveredBy(z)
    BY <1>8, <1>9, <1>13
  <2>3. Claims(used, Holdings(gs, defer \o out, <<>>)) BY <1>4, <1>10, <1>11, <1>12, <2>1, <2>2, ExchangeClaims
  <2> QED BY <2>3, <1>14 DEF gs
<1>16. DeferOk(defer')
  <2>1. defer \in Seq(Ext) BY <1>3 DEF DeferOk
  <2>2. DeferRoom(Len(out)) BY <1>2
  <2> HIDE DEF out
  <2>3. defer \o out \in Seq(Ext) /\ Len(defer \o out) = Len(defer) + Len(out) BY <2>1, <1>12, ConcatList
  <2>4. Len(defer \o out) <= DeferMax BY <2>2, <2>3 DEF DeferRoom
  <2> QED BY <1>14, <2>3, <2>4 DEF DeferOk
<1>17. Settled(disk, files') BY <1>3, <1>6, <1>7 DEF Settled
<1>18. ops' \in 0 .. MaxOps BY <1>1, ExfsConsts DEF Core, Types, Counts
<1>19. job' = Idle /\ UNCHANGED <<disk, stable, gm, faults, formats>> BY <1>1
<1>20. job.op # "format" BY <1>3
<1> QED BY <1>1, <1>3, <1>7, <1>15, <1>16, <1>17, <1>18, <1>19, <1>20, MemoryStep

\* A call that only starts changes nothing but job.
LEMMA StartStep ==
  ASSUME Tame, Core, job = Idle, Mounted, UNCHANGED <<disk, stable, gm, vol, files, defer, faults, formats>>, ops' \in 0 .. MaxOps,
         job'.fresh = <<>>, job'.pc \in {"take", "reserve", "file"}, job'.op # "format",
         job'.op \in CommitOps => job'.ino = 0, Phase'
  PROVE  Core'
<1>1. /\ job.op = "none" /\ ~Late /\ FilesOk(files) /\ DeferOk(defer) /\ formats # 0
      /\ Claims(UsedBlocks(gm, disk), Holdings(files, defer, <<>>)) /\ Settled(disk, files)
  BY Resting
<1>2. ~Late' /\ Waiting' = defer /\ Fresh' = <<>> BY DEF Late, Waiting, Fresh
<1>3. \A i \in Inodes : ChainDoneFor(i)' <=> ~files[i].dirty
  <2>1. ASSUME NEW i \in Inodes PROVE ~(i < 0) BY DEF Inodes
  <2> QED BY <1>2, <2>1 DEF ChainDoneFor
<1>4. Chains' BY <1>1, <1>3 DEF Chains, Settled
<1>5. MapGood(gm, disk) BY Live
<1>6. Memory' BY <1>1, <1>2, <1>4, <1>5 DEF Memory
<1>7. Durable'
  <2> DEFINE A == {}
  <2>1. DOMAIN disk' = Blocks /\ Changed(disk, disk', A) BY Live DEF Changed
  <2>2. Safe(A) BY DEF Safe
  <2>3. CoveredBy(job'.fresh) = {} BY EmptyExts
  <2>4. Durable /\ job.op # "format" /\ job'.op # "format" BY <1>1 DEF Core
  <2>5. UsedBlocks(gm', disk') = UsedBlocks(gm, disk) /\ gm'.slot = gm.slot /\ vol' = vol /\ files' = files OBVIOUS
  <2> HIDE DEF A
  <2> QED BY <2>1, <2>2, <2>3, <2>4, <2>5, <1>1, DurableStep
<1>8. Types'
  <2>1. Types BY DEF Core
  <2> QED BY <2>1, <1>1 DEF Types, DiskOk, Counts
<1> QED BY <1>6, <1>7, <1>8 DEF Core

\* The blocks for some cells: none for none.
LEMMA BlocksForFacts ==
  ASSUME NEW n \in Nat
  PROVE  BlocksFor(n) \in Nat /\ (n = 0 => BlocksFor(n) = 0) /\ (n > 0 => BlocksFor(n) > 0)
<1>1. Cells \in Nat /\ Cells > 0 BY ExfsConsts
<1> DEFINE x == n + Cells - 1
<1>2. x \in Nat /\ x = (n + Cells) - 1 BY <1>1
<1>3. BlocksFor(n) = x \div Cells BY DEF BlocksFor
<1>4. n = 0 => x = Cells - 1 BY <1>1
<1>5. n > 0 => x >= Cells BY <1>1
<1> HIDE DEF x
<1>6. x \div Cells \in Nat /\ x % Cells \in Nat /\ x % Cells < Cells /\ x = Cells * (x \div Cells) + (x % Cells) BY <1>1, <1>2, DivMod
<1> DEFINE q == x \div Cells
<1>7. n = 0 => q = 0
  <2>1. Cells - 1 \in Nat /\ Cells - 1 < Cells /\ Cells * 0 + (Cells - 1) = Cells - 1 BY <1>1
  <2>2. (Cells * 0 + (Cells - 1)) \div Cells = 0 BY <1>1, <2>1, DivUnique
  <2> QED BY <1>4, <2>1, <2>2
<1>8. n > 0 => q > 0
  <2>1. SUFFICES ASSUME n > 0, q = 0 PROVE FALSE BY <1>6
  <2>2. x = Cells * 0 + (x % Cells) BY <1>6, <2>1
  <2> QED BY <2>1, <2>2, <1>1, <1>5, <1>6
<1> QED BY <1>3, <1>6, <1>7, <1>8

\* Starting exfs_write keeps the invariant.
LEMMA WriteStart ==
  ASSUME Tame, Core, NEW n, NEW len \in Nat, NEW v, exfs_write(n, len, v)
  PROVE  Core'
<1>1. job = Idle /\ Mounted /\ ops < MaxOps /\ ops' = ops + 1 /\ UNCHANGED <<disk, stable, gm, vol, files, defer, faults, formats>>
  BY DEF exfs_write
<1>2. PICK i \in find(n) : job' = WriteJob(i, len, v) BY DEF exfs_write
<1>3. i \in Inodes /\ files[i].used BY <1>2 DEF find
<1>4. /\ job'.op = "write" /\ job'.off = 0 /\ job'.len = len /\ job'.pc = (IF len = 0 THEN "reserve" ELSE "take")
      /\ job'.ino = i /\ job'.need = BlocksFor(len) /\ job'.k = 0 /\ job'.i = 0 /\ job'.fresh = <<>>
  <2> DEFINE j == WriteJob(i, len, v)
  <2>1. /\ j.op = "write" /\ j.off = 0 /\ j.len = len /\ j.pc = (IF len = 0 THEN "reserve" ELSE "take")
        /\ j.ino = i /\ j.need = BlocksFor(len) /\ j.k = 0 /\ j.i = 0 /\ j.fresh = <<>>
    BY WriteFields
  <2> HIDE DEF j
  <2>2. job' = j BY <1>2 DEF j
  <2> QED BY <2>1, <2>2
<1>5. BlocksFor(len) \in Nat /\ (len = 0 => BlocksFor(len) = 0) /\ (len > 0 => BlocksFor(len) > 0) BY BlocksForFacts
<1>6. LenSum(<<>>) = 0 /\ <<>> \in Seq(Ext) /\ Len(<<>>) = 0 BY LenEmpty, EmptyExts
<1>7. job'.pc \in {"take", "reserve"} BY <1>4
<1>8. job'.pc = "take" => LenSum(job'.fresh) < job'.need BY <1>4, <1>5, <1>6
<1>9. job'.pc = "reserve" => LenSum(job'.fresh) >= job'.need BY <1>4, <1>5, <1>6
<1>10. WriteOk'
  <2>1. 0 <= MaxExt /\ len \in Nat BY ExfsConsts
  <2>2. job'.fresh \in Seq(Ext) /\ Len(job'.fresh) <= MaxExt BY <2>1, <1>4, <1>6
  <2>3. job'.ino \in Inodes /\ files'[job'.ino].used BY <1>1, <1>3, <1>4
  <2>4. job'.need \in Nat /\ job'.k \in Nat /\ job'.i \in Nat /\ job'.off \in Nat /\ job'.len \in Nat BY <1>4, <1>5
  <2>5. job'.op # "write_at" BY <1>4
  <2> QED BY <2>2, <2>3, <2>4, <2>5, <1>7, <1>8, <1>9 DEF WriteOk
<1>11. Phase' BY <1>1, <1>4, <1>10 DEF Phase, Mounted
<1>12. ops' \in 0 .. MaxOps BY <1>1, ExfsConsts DEF Core, Types, Counts
<1>13. job'.pc \in {"take", "reserve", "file"} /\ job'.op # "format" /\ job'.op \notin CommitOps BY <1>4, <1>7 DEF CommitOps
<1> QED BY <1>1, <1>4, <1>11, <1>12, <1>13, StartStep

\* The job of exfs_write_at, as its fields.
LEMMA AtFields ==
  ASSUME NEW i, NEW o, NEW l, NEW v
  PROVE  AtJob(i, o, l, v).off = o /\ AtJob(i, o, l, v).len = l /\ AtJob(i, o, l, v).ino = i
<1>1. Idle \in [pc : {Idle.pc}, op : {Idle.op}, ino : {Idle.ino}, off : {Idle.off}, len : {Idle.len}, val : {Idle.val},
                need : {Idle.need}, k : {Idle.k}, i : {Idle.i}, fresh : {Idle.fresh}, stage : {Idle.stage}]
  BY IdleJob DEF JobShape, JobRec
<1> HIDE DEF Idle
<1> QED BY <1>1 DEF AtJob

\* Starting exfs_write_at keeps the invariant.
LEMMA WriteAtStart ==
  ASSUME Tame, Core, NEW n, NEW off \in Nat, NEW len \in Nat, NEW v, exfs_write_at(n, off, len, v)
  PROVE  Core'
<1>1. /\ job = Idle /\ Mounted /\ ops < MaxOps /\ ops' = ops + 1 /\ len > 0
      /\ UNCHANGED <<disk, stable, gm, vol, files, defer, faults, formats>>
  BY DEF exfs_write_at
<1>2. PICK i \in find(n) : DeferRoom(Len(files[i].exts) + Len(files[i].chain) + 1) /\ job' = WriteAtJob(i, off, len, v)
  BY DEF exfs_write_at
<1>3. i \in Inodes /\ files[i].used BY <1>2 DEF find
<1>4. PICK a : a = AtJob(i, off, len, v) OBVIOUS
<1>5. a.off = off /\ a.len = len /\ a.ino = i BY <1>4, AtFields
<1>6. /\ job'.op = "write_at" /\ job'.off = off /\ job'.len = len /\ job'.pc = "take"
      /\ job'.ino = i /\ job'.need = LastBlock(a) - FirstBlock(a) + 1 /\ job'.k = 0 /\ job'.i = 0 /\ job'.fresh = <<>>
  <2> DEFINE j == WriteAtJob(i, off, len, v)
  <2>1. /\ j.op = "write_at" /\ j.off = off /\ j.len = len /\ j.pc = "take"
        /\ j.ino = i /\ j.need = LastBlock(AtJob(i, off, len, v)) - FirstBlock(AtJob(i, off, len, v)) + 1
        /\ j.k = 0 /\ j.i = 0 /\ j.fresh = <<>>
    BY WriteAtFields
  <2> HIDE DEF j
  <2>2. job' = j BY <1>2 DEF j
  <2> QED BY <2>1, <2>2, <1>4
<1>7. files[i].exts \in Seq(Ext) BY <1>1, <1>3, Live
<1>8. FirstBlock(a) \in Nat /\ LastBlock(a) \in Nat /\ FirstBlock(a) <= LastBlock(a) BY <1>1, <1>5, <1>7, WriteRange
<1>9. job'.need \in Nat /\ job'.need > 0 BY <1>6, <1>8
<1>10. LenSum(<<>>) = 0 /\ <<>> \in Seq(Ext) /\ Len(<<>>) = 0 BY LenEmpty, EmptyExts
<1>11. WriteOk'
  <2>1. 0 <= MaxExt BY ExfsConsts
  <2>2. job'.fresh \in Seq(Ext) /\ Len(job'.fresh) <= MaxExt /\ LenSum(job'.fresh) < job'.need BY <2>1, <1>6, <1>9, <1>10
  <2>3. job'.ino \in Inodes /\ files'[job'.ino].used BY <1>1, <1>3, <1>6
  <2>4. job'.need \in Nat /\ job'.k \in Nat /\ job'.i \in Nat /\ job'.off \in Nat /\ job'.len \in Nat /\ job'.len > 0
    BY <1>1, <1>6, <1>9
  <2>5. Len(defer') + (Len(files'[job'.ino].exts) + Len(files'[job'.ino].chain) + 1) <= DeferMax
    BY <1>1, <1>2, <1>6 DEF DeferRoom
  <2>6. job'.pc = "take" BY <1>6
  <2> QED BY <2>2, <2>3, <2>4, <2>5, <2>6 DEF WriteOk, DeferRoom
<1>12. Phase' BY <1>1, <1>6, <1>11 DEF Phase, Mounted
<1>13. ops' \in 0 .. MaxOps BY <1>1, ExfsConsts DEF Core, Types, Counts
<1>14. job'.pc \in {"take", "reserve", "file"} /\ job'.op # "format" /\ job'.op \notin CommitOps BY <1>6 DEF CommitOps
<1> QED BY <1>1, <1>6, <1>12, <1>13, <1>14, StartStep

\* Starting a commit keeps the invariant.
LEMMA CommitStart ==
  ASSUME Tame, Core, NEW op \in {"commit", "unmount"}, exfs_commit(op)
  PROVE  Core'
<1>1. /\ job = Idle /\ Mounted /\ vol.dirty /\ vol.gen < MaxGen /\ job' = StartJob(op, "file")
      /\ UNCHANGED <<disk, stable, gm, vol, files, defer, faults, ops, formats>>
  BY DEF exfs_commit
<1>2. /\ job'.op = op /\ job'.pc = "file" /\ job'.ino = 0 /\ job'.need = 0 /\ job'.k = 0 /\ job'.i = 0 /\ job'.fresh = <<>>
  <2> DEFINE j == StartJob(op, "file")
  <2>1. j.op = op /\ j.pc = "file" /\ j.ino = 0 /\ j.need = 0 /\ j.k = 0 /\ j.i = 0 /\ j.fresh = <<>> BY CommitFields
  <2> HIDE DEF j
  <2>2. job' = j BY <1>1 DEF j
  <2> QED BY <2>1, <2>2
<1>3. CommitOk'
  <2>1. <<>> \in Seq(Ext) BY EmptyExts
  <2>2. vol'.dirty /\ vol'.gen < MaxGen BY <1>1
  <2> QED BY <2>1, <2>2, <1>2 DEF CommitOk
<1>4. Phase' BY <1>1, <1>2, <1>3 DEF Phase, CommitOps, Mounted
<1>5. ops' \in 0 .. MaxOps BY <1>1 DEF Core, Types, Counts
<1>6. job'.op # "format" BY <1>2
<1> QED BY <1>1, <1>2, <1>4, <1>5, <1>6, StartStep

\* Nothing in memory, the disk as it was: what a crash, a mount that fails
\* and an unmount leave behind.
LEMMA OffStep ==
  ASSUME Core, job' = Idle, ~Mounted', vol' \in VolType, Changed(disk, disk', {}), stable' = disk', GmTypes(gm'),
         FilesOk(files'), DeferOk(defer'), faults' \in 0 .. MaxFaults, UNCHANGED <<ops, formats>>
  PROVE  Core'
<1>1. DOMAIN disk' = Blocks /\ \A b \in Blocks : disk'[b] = disk[b] BY DEF Changed
<1>2. 0 \in Blocks /\ 1 \in Blocks
  <2>1. 0 \in 0 .. (DataStart - 1) /\ 1 \in 0 .. (DataStart - 1) BY ExfsConsts
  <2> QED BY <2>1, FixedReserved
<1>3. NoSb(disk) => NoSb(disk') BY <1>1, <1>2 DEF NoSb
<1>4. ASSUME NEW s, NEW fs, HoldsAt(disk, s, fs) PROVE HoldsAt(disk', s, fs)
  <2>1. 1 - s \in {0, 1} BY <1>4 DEF HoldsAt
  <2>2. disk'[1 - s] = disk[1 - s] BY <2>1, <1>1, <1>2
  <2> DEFINE e == disk'
  <2>3. DOMAIN e = Blocks /\ (\A b \in Blocks : e[b] = disk[b] \/ Spare(disk, s, fs, b)) /\ (e[1 - s].kind = "sb" => e[1 - s] = disk[1 - s])
    BY <1>1, <2>2
  <2> HIDE DEF e
  <2>4. HoldsAt(e, s, fs) BY <1>4, <2>3, HoldsFrame
  <2> QED BY <2>4 DEF e
<1>5. Types /\ Durable BY DEF Core
<1>6. Types' BY <1>1, <1>3, <1>5 DEF Types, DiskOk, Counts
<1>7. Phase' /\ Memory' BY DEF Phase, Memory
<1>8. job'.op = "none" BY IdleJob
<1>9. Durable' BY <1>3, <1>4, <1>5, <1>8 DEF Durable
<1> QED BY <1>6, <1>7, <1>9 DEF Core

\* Unmounting a clean volume keeps the invariant.
LEMMA UnmountStep ==
  ASSUME Tame, Core, UnmountClean
  PROVE  Core'
<1>1. /\ job = Idle /\ Mounted /\ UNCHANGED <<disk, stable, gm, files, defer, job, faults, ops, formats>>
      /\ vol' = [vol EXCEPT !.mounted = FALSE]
  BY DEF UnmountClean
<1>2. Types BY DEF Core
<1>3. vol' \in VolType /\ ~Mounted' BY <1>1, <1>2 DEF Types, VolType, Mounted
<1>4. /\ Changed(disk, disk', {}) /\ stable' = disk' /\ GmTypes(gm') /\ FilesOk(files') /\ DeferOk(defer')
      /\ faults' \in 0 .. MaxFaults /\ job' = Idle /\ UNCHANGED <<ops, formats>>
  BY <1>1, <1>2 DEF Types, DiskOk, Counts, Changed
<1> QED BY <1>1, <1>3, <1>4, OffStep

\* The map before any volume is loaded.
LEMMA InitMap == GmTypes(gmap_init) /\ gmap_init.cache = <<>> /\ \A g \in Groups : gmap_init.slot[g] = 0 /\ ~gmap_init.written[g]
<1>1. GB \in Nat /\ CacheSize \in Nat /\ Len(<<>>) = 0 BY Consts, EmptyList
<1>2. 0 \in 0 .. GB BY <1>1
<1> QED BY <1>1, <1>2 DEF GmTypes, gmap_init

\* The tree before any volume is loaded.
LEMMA NoFiles ==
  /\ FilesOk([i \in Inodes |-> NoFile]) /\ DeferOk(<<>>)
<1> DEFINE fs == [i \in Inodes |-> NoFile]
<1>1. \A i \in Inodes : FileOk(fs[i]) BY NodeFields
<1>2. fs = [i \in Inodes |-> fs[i]] OBVIOUS
<1>3. FilesOk(fs) BY <1>1, <1>2 DEF FilesOk
<1>4. DeferOk(<<>>) BY EmptyExts, ExfsConsts DEF DeferOk
<1> QED BY <1>3, <1>4

\* Starting the one format keeps the invariant: no superblock is on the disk yet.
LEMMA FormatStart ==
  ASSUME Tame, Core, exfs_format
  PROVE  Core'
<1>1. /\ job = Idle /\ ~Mounted /\ formats < MaxFormats /\ gm' = gmap_init /\ job' = StartJob("format", "format")
      /\ formats' = formats + 1 /\ UNCHANGED <<disk, stable, vol, files, defer, faults, ops>>
  BY DEF exfs_format
<1>2. Types BY DEF Core
<1>3. formats = 0 /\ formats' = 1 /\ formats' \in 0 .. MaxFormats BY <1>1, <1>2, ExfsConsts DEF Tame, Types, Counts
<1>4. NoSb(disk') BY <1>1, <1>2, <1>3 DEF Types
<1>5. /\ job'.op = "format" /\ job'.pc = "format" /\ job'.i = 0 /\ job'.fresh = <<>>
  <2> DEFINE j == StartJob("format", "format")
  <2>1. j.op = "format" /\ j.pc = "format" /\ j.i = 0 /\ j.fresh = <<>> BY CommitFields
  <2> HIDE DEF j
  <2>2. job' = j BY <1>1 DEF j
  <2> QED BY <2>1, <2>2
<1>6. ~Mounted' BY <1>1 DEF Mounted
<1>7. Types' BY <1>1, <1>2, <1>3, InitMap DEF Types, DiskOk, Counts
<1>8. FormatOk'
  <2>1. 0 \in 0 .. NGroups BY Consts
  <2>2. \A g \in Groups : ~(g < 0) BY DEF Groups
  <2>3. gm'.cache = <<>> /\ \A g \in Groups : gm'.slot[g] = 0 /\ ~gm'.written[g] BY <1>1, InitMap
  <2> QED BY <2>1, <2>2, <2>3, <1>5, <1>6 DEF FormatOk
<1>9. Phase' BY <1>5, <1>8 DEF Phase
<1>10. Memory' /\ Durable' BY <1>4, <1>6 DEF Memory, Durable
<1> QED BY <1>7, <1>9, <1>10 DEF Core

\* A failed mount keeps the invariant.
LEMMA MountFailsStep ==
  ASSUME Tame, Core, MountFails
  PROVE  Core'
<1>1. /\ job = Idle /\ gm' = gmap_init /\ files' = [i \in Inodes |-> NoFile] /\ vol' = Off /\ defer' = <<>>
      /\ UNCHANGED <<disk, stable, job, ops, formats>> /\ (faults' = faults \/ (faults < MaxFaults /\ faults' = faults + 1))
  BY DEF MountFails
<1>2. vol' \in VolType /\ ~Mounted' BY <1>1, TreeVol DEF Mounted
<1>3. Changed(disk, disk', {}) /\ stable' = disk' /\ faults' \in 0 .. MaxFaults
  BY <1>1, Consts DEF Core, Types, DiskOk, Counts, Changed
<1>4. GmTypes(gm') /\ FilesOk(files') /\ DeferOk(defer') BY <1>1, InitMap, NoFiles
<1> QED BY <1>1, <1>2, <1>3, <1>4, OffStep

\* A crash keeps the invariant: what the disk holds is what the last commit wrote.
LEMMA CrashStep ==
  ASSUME Tame, Core, Crash
  PROVE  Core'
<1>1. /\ gm' = gmap_init /\ files' = [i \in Inodes |-> NoFile] /\ vol' = Off /\ defer' = <<>> /\ job' = Idle
      /\ UNCHANGED <<faults, ops, formats>> /\ stable' = disk' /\ disk' = [b \in Blocks |-> disk[b]]
  BY DEF Crash, Tame
<1>2. vol' \in VolType /\ ~Mounted' BY <1>1, TreeVol DEF Mounted
<1>3. DOMAIN disk = Blocks /\ faults' \in 0 .. MaxFaults BY <1>1 DEF Core, Types, DiskOk, Counts
<1>4. Changed(disk, disk', {}) BY <1>1 DEF Changed
<1>5. GmTypes(gm') /\ FilesOk(files') /\ DeferOk(defer') BY <1>1, InitMap, NoFiles
<1> QED BY <1>1, <1>2, <1>3, <1>4, <1>5, OffStep

MountedAt(g) == [Off EXCEPT !.mounted = TRUE, !.gen = g]
\* The volume after a mount, as its fields.
LEMMA MountedFields ==
  ASSUME NEW g \in 0 .. MaxGen
  PROVE  /\ MountedAt(g) \in VolType /\ MountedAt(g).mounted /\ ~MountedAt(g).broken /\ ~MountedAt(g).dirty /\ MountedAt(g).gen = g
<1>1. DataStart \in 0 .. Total BY Consts
<1> QED BY <1>1 DEF MountedAt, Off, VolType

\* A mount keeps the invariant: the map, the tree and the claims read back agree.
LEMMA MountStep ==
  ASSUME Tame, Core, NEW U \in Hidden, exfs_mount(U)
  PROVE  Core'
<1>1. U = {} BY DEF Hidden, Tame
<1>2. PICK a : a = Adopt(disk, {0, 1}) OBVIOUS
<1>3. {0, 1} \ U = {0, 1} /\ Cardinality(U) = 0 BY <1>1, FS_EmptySet
<1>4. /\ job = Idle /\ ~Mounted /\ a.found /\ gm' = gmap_import(a.sb.slot, a.sb.free) /\ files' = a.files
      /\ vol' = MountedAt(a.sb.gen) /\ defer' = <<>> /\ faults' = faults + 0 /\ UNCHANGED <<disk, stable, job, ops, formats>>
  BY <1>2, <1>3 DEF exfs_mount, MountedAt
<1>5. ~NoSb(disk) BY <1>2, <1>4, AdoptNone
<1>6. Types /\ Durable BY DEF Core
<1>7. PICK s, fs : HoldsAt(disk, s, fs) BY <1>5, <1>6 DEF Durable
<1>8. a = [found |-> TRUE, sb |-> disk[s], files |-> [i \in Inodes |-> fs[i]]] BY <1>2, <1>7, AdoptHolds
<1>9. fs = [i \in Inodes |-> fs[i]] BY <1>7 DEF HoldsAt
<1>10. a.sb = disk[s] /\ a.files = fs BY <1>8, <1>9
<1>11. /\ MapGood(OnDiskMap(disk, s), disk) /\ Claims(InUse(disk, s), Holdings(fs, <<>>, <<>>)) /\ disk[s].gen \in 1 .. MaxGen
       /\ \A i \in Inodes : FileOk(fs[i]) /\ ~fs[i].dirty /\ ChainOn(disk, fs[i])
  BY <1>7 DEF HoldsAt
<1>12. gm' = OnDiskMap(disk, s) /\ files' = fs BY <1>4, <1>10 DEF OnDiskMap
<1>13. vol' \in VolType /\ vol'.mounted /\ ~vol'.broken /\ ~vol'.dirty /\ vol'.gen = disk[s].gen
  <2>1. disk[s].gen \in 0 .. MaxGen /\ vol' = MountedAt(disk[s].gen) BY <1>4, <1>10, <1>11, ExfsConsts
  <2> QED BY <2>1, MountedFields
<1>14. job'.op = "none" /\ job'.pc = "idle" /\ job'.fresh = <<>> /\ job' = Idle BY <1>4, IdleJob
<1>15. disk' = disk /\ stable' = disk' /\ faults' \in 0 .. MaxFaults /\ formats # 0
  BY <1>4, <1>5, <1>6, Consts DEF Types, DiskOk, Counts
<1>16. MapGood(gm', disk') /\ UsedBlocks(gm', disk') = InUse(disk, s) BY <1>11, <1>12, <1>15 DEF InUse
<1>17. Types'
  <2>1. GmTypes(gm') BY <1>16, GoodTypes
  <2>2. FilesOk(files') /\ DeferOk(defer') BY <1>4, <1>9, <1>11, <1>12, NoFiles DEF FilesOk
  <2> QED BY <2>1, <2>2, <1>4, <1>6, <1>13, <1>15 DEF Types, DiskOk, Counts
<1>18. Waiting' = <<>> /\ Fresh' = <<>> BY <1>4, <1>14 DEF Waiting, Fresh
<1>19. Claims(UsedBlocks(gm', disk'), Holdings(files', Waiting', Fresh')) BY <1>11, <1>12, <1>16, <1>18
<1>20. Chains' BY <1>11, <1>12, <1>15 DEF Chains, ChainDoneFor
<1>21. Memory' BY <1>16, <1>19, <1>20 DEF Memory
<1>22. Linked(s, fs)'
  <2>1. gm'.slot = disk'[s].slot BY <1>12, <1>15, ImportFields DEF OnDiskMap, MapIs
  <2>2. CoveredBy(job'.fresh) = {} BY <1>14, EmptyExts
  <2>3. InUse(disk', s) = UsedBlocks(gm', disk') BY <1>15, <1>16
  <2> QED BY <2>1, <2>2, <2>3, <1>12, <1>13, <1>15 DEF Linked
<1>23. HoldsAt(disk', s, fs) BY <1>7, <1>15
<1>24. Durable' BY <1>14, <1>22, <1>23 DEF Durable
<1>25. Phase' BY <1>14 DEF Phase
<1> QED BY <1>17, <1>21, <1>24, <1>25 DEF Core

-----------------------------------------------------------------------------
(* Every step keeps the invariant.                                         *)

\* The invariant holds at the start.
LEMMA InitInv == Init => Inv
<1> SUFFICES ASSUME Init PROVE Inv OBVIOUS
<1>1. /\ disk = [b \in Blocks |-> Junk] /\ stable = disk /\ gm = gmap_init /\ vol = Off /\ files = [i \in Inodes |-> NoFile]
      /\ defer = <<>> /\ job = Idle /\ faults = 0 /\ ops = 0 /\ formats = 0 /\ view = [ram |-> <<>>, durable |-> {}]
  BY DEF Init
<1>2. NoSb(disk)
  <2>1. 0 \in 0 .. (DataStart - 1) /\ 1 \in 0 .. (DataStart - 1) BY ExfsConsts
  <2>2. 0 \in Blocks /\ 1 \in Blocks BY <2>1, FixedReserved
  <2> QED BY <2>2, <1>1 DEF NoSb, Junk
<1>3. vol \in VolType /\ ~Mounted BY <1>1, TreeVol DEF Mounted
<1>4. faults \in 0 .. MaxFaults /\ ops \in 0 .. MaxOps /\ formats \in 0 .. MaxFormats BY <1>1, Consts, ExfsConsts
<1>5. Types
  <2>1. GmTypes(gm) /\ FilesOk(files) /\ DeferOk(defer) BY <1>1, InitMap, NoFiles
  <2> QED BY <2>1, <1>1, <1>2, <1>3, <1>4 DEF Types, DiskOk, Counts
<1>6. Phase /\ Memory /\ Durable BY <1>1, <1>2, <1>3 DEF Phase, Memory, Durable
<1>7. Shapes BY <1>1, IdleJob, InitGmShape DEF Shapes
<1>8. view = Views(disk, files, vol)
  <2>1. Adopt(disk, {0, 1}).found = FALSE BY <1>2, AdoptNone
  <2>2. DurableTree(disk) = {} BY <2>1 DEF DurableTree
  <2>3. ~(vol.mounted /\ ~vol.broken) BY <1>3 DEF Mounted
  <2> QED BY <1>1, <2>2, <2>3 DEF Views
<1> QED BY <1>5, <1>6, <1>7, <1>8 DEF Inv, Core

\* Every step of a running call keeps the invariant.
LEMMA JobStepCore ==
  ASSUME Tame, Shapes, Core, JobStep
  PROVE  Core'
BY TakeStep, ReserveStep, DataStep, InstallStep, UndoStep, ChainFileStep, ChainPutStep, DeferStep, FlushStep, ItabStep,
   SuperStep, FormatGroupStep, FormatTreeStep DEF JobStep

\* Every call keeps it.
LEMMA CallCore ==
  ASSUME Tame, Shapes, Core, Call
  PROVE  Core'
<1>1. ASSUME NEW n \in Names, exfs_create(n) PROVE Core'
  <2>1. Make(n, "file") BY <1>1 DEF exfs_create
  <2> QED BY <2>1, MakeStep
<1>2. ASSUME NEW n \in Names, exfs_mkdir(n) PROVE Core'
  <2>1. Make(n, "dir") BY <1>2 DEF exfs_mkdir
  <2> QED BY <2>1, MakeStep
<1>3. ASSUME NEW n \in Names, exfs_delete(n) PROVE Core' BY <1>3, DeleteStep
<1>4. ASSUME NEW n \in Names, NEW a \in WriteArgs, exfs_write(n, a[1], a[2]) PROVE Core'
  <2> DEFINE l == a[1]
             v == a[2]
  <2>1. l \in Nat BY ExfsAssumption
  <2>2. exfs_write(n, l, v) BY <1>4
  <2> HIDE DEF l, v
  <2> QED BY <2>1, <2>2, WriteStart
<1>5. ASSUME NEW n \in Names, NEW a \in WriteAtArgs, exfs_write_at(n, a[1], a[2], a[3]) PROVE Core'
  <2> DEFINE o == a[1]
             l == a[2]
             v == a[3]
  <2>1. o \in Nat /\ l \in Nat BY ExfsAssumption
  <2>2. exfs_write_at(n, o, l, v) BY <1>5
  <2> HIDE DEF o, l, v
  <2> QED BY <2>1, <2>2, WriteAtStart
<1>6. ASSUME NEW op \in {"commit", "unmount"}, exfs_commit(op) PROVE Core' BY <1>6, CommitStart
<1>7. ASSUME NEW U \in Hidden, exfs_mount(U) PROVE Core' BY <1>7, MountStep
<1> QED BY <1>1, <1>2, <1>3, <1>4, <1>5, <1>6, <1>7, UnmountStep, FormatStart, MountFailsStep DEF Call

\* So does a step that changes nothing.
LEMMA StutterCore ==
  ASSUME Core, UNCHANGED vars
  PROVE  Core'
<1>1. UNCHANGED <<disk, stable, gm, vol, files, defer, job, faults, ops, formats, view>> BY DEF vars
<1>2. Mounted' <=> Mounted BY <1>1 DEF Mounted
<1>3. Types' BY <1>1, <1>2 DEF Core, Types, DiskOk, Counts
<1>4. Late' <=> Late BY <1>1 DEF Late
<1>5. Waiting' = Waiting /\ Fresh' = Fresh BY <1>1 DEF Waiting, Fresh
<1>6. Chains' <=> Chains BY <1>1, <1>4 DEF Chains, ChainDoneFor
<1>7. Memory' BY <1>1, <1>2, <1>5, <1>6 DEF Core, Memory
<1>8. Durable' BY <1>1, <1>2, <1>4 DEF Core, Durable, Linked
<1>9. NewList(job)' = NewList(job) BY <1>1, NewListSame
<1>10. WriteOk => WriteOk' BY <1>1, <1>9 DEF WriteOk, DeferRoom
<1>11. CommitOk => CommitOk' BY <1>1 DEF CommitOk
<1>12. FormatOk => FormatOk' BY <1>1, <1>2 DEF FormatOk
<1>13. Phase' BY <1>1, <1>2, <1>10, <1>11, <1>12 DEF Core, Phase
<1> QED BY <1>3, <1>7, <1>8, <1>13 DEF Core

\* Every step of the specification keeps the invariant.
LEMMA NextInv ==
  ASSUME Tame, Inv, [Next]_vars
  PROVE  Inv'
<1>1. Shapes /\ Core /\ view = Views(disk, files, vol) BY DEF Inv
<1>2. CASE UNCHANGED vars
  <2>1. Core' BY <1>1, <1>2, StutterCore
  <2>2. Shapes' BY <1>1, <1>2 DEF Shapes, vars
  <2>3. view' = Views(disk', files', vol') BY <1>1, <1>2 DEF vars
  <2> QED BY <2>1, <2>2, <2>3 DEF Inv
<1>3. CASE Next
  <2>1. JobStep \/ Call \/ Crash BY <1>3 DEF Next
  <2>2. Core' BY <1>1, <2>1, JobStepCore, CallCore, CrashStep
  <2>3. Crash => Shapes'
    <3>1. SUFFICES ASSUME Crash PROVE Shapes' OBVIOUS
    <3>2. job' = Idle /\ gm' = gmap_init BY <3>1 DEF Crash
    <3> QED BY <3>2, IdleJob, InitGmShape DEF Shapes
  <2>4. Shapes' BY <1>1, <2>1, <2>3, StepAhead, StartShape
  <2>5. view' = Views(disk', files', vol') BY <1>3 DEF Next
  <2> QED BY <2>2, <2>4, <2>5 DEF Inv
<1> QED BY <1>2, <1>3

-----------------------------------------------------------------------------
(* What the invariant says of the volume.                                  *)

\* A good map whose blocks are the claimed ones passes the check of the tests.
LEMMA FsckHolds ==
  ASSUME NEW m, NEW d, MapGood(m, d), NEW used, used = UsedBlocks(m, d), NEW h, Claims(used, h)
  PROVE  Fsck(used, m.free, h)
<1>1. /\ DOMAIN h = Held /\ used = Reserved \cup UNION {CoveredBy(h[i]) : i \in Held}
      /\ \A i \in Held : Disjoint(h[i]) /\ CoveredBy(h[i]) \cap Reserved = {}
      /\ \A i, j \in Held : i # j => CoveredBy(h[i]) \cap CoveredBy(h[j]) = {}
  BY DEF Claims
<1>2. ASSUME NEW g \in Groups PROVE m.free[g] = Cardinality((GroupBlocks(g) \cap Blocks) \ used)
  <2> DEFINE bits == GroupBits(m, d, g)
             G == GroupBlocks(g)
  <2>1. BitsRight(g, bits, m.free[g]) BY DEF MapGood, Counted
  <2>2. \A b \in G : b \in used <=> (b \in Blocks /\ b \in bits) BY UsedIn
  <2>3. \A b \in G : b \in Nat BY OneGroup
  <2>4. \A b \in G : b \notin fresh_bits(g) => b \in Blocks
    <3>1. Total \in Nat BY Consts
    <3>2. \A b \in G : b >= Total => b \in fresh_bits(g) BY DEF fresh_bits
    <3> HIDE DEF G
    <3> QED BY <3>1, <3>2, <2>3 DEF Blocks
  <2>5. fresh_bits(g) \subseteq bits /\ m.free[g] = Cardinality(G \ bits) BY <2>1 DEF BitsRight
  <2> HIDE DEF bits, G
  <2>6. G \ bits = (G \cap Blocks) \ used BY <2>2, <2>4, <2>5
  <2>7. m.free[g] = Cardinality((G \cap Blocks) \ used) BY <2>5, <2>6
  <2> QED BY <2>7 DEF G
<1> QED BY <1>1, <1>2 DEF Fsck

\* The invariant gives the types.
LEMMA InvTypes == Inv => TypeOK
<1> SUFFICES ASSUME Inv PROVE TypeOK OBVIOUS
<1>1. DiskOk /\ GmTypes(gm) /\ vol \in VolType /\ FilesOk(files) /\ DeferOk(defer) /\ Counts BY DEF Inv, Core, Types
<1>2. DOMAIN files = Inodes BY <1>1 DEF FilesOk
<1>3. \A i \in Inodes : Len(files[i].exts) <= MaxExt /\ Len(files[i].chain) <= MaxChain BY <1>1 DEF FilesOk, FileOk
<1> QED BY <1>1, <1>2, <1>3 DEF TypeOK, DiskOk, GmTypes, VolType, DeferOk, Counts

\* It gives the exact map: the claims are what the bits say.
LEMMA InvMap == Inv => MapExact
<1> SUFFICES ASSUME Inv, Mounted PROVE Fsck(UsedBlocks(gm, disk), gm.free, Holdings(files, Waiting, Fresh)) BY DEF MapExact
<1> DEFINE u == UsedBlocks(gm, disk)
           h == Holdings(files, Waiting, Fresh)
<1>1. MapGood(gm, disk) /\ Claims(u, h) /\ u = UsedBlocks(gm, disk) BY DEF Inv, Core, Memory
<1> HIDE DEF u, h
<1>2. Fsck(u, gm.free, h) BY <1>1, FsckHolds
<1> QED BY <1>2 DEF u, h

\* It gives a whole tree on disk: fsck finds nothing to repair after a crash.
LEMMA InvDurable == Inv => DurableFsck
<1> SUFFICES ASSUME Inv, \E s \in {0, 1} : disk[s].kind = "sb"
             PROVE  /\ OnDisk.found
                    /\ Fsck(UsedBlocks(gmap_import(OnDisk.sb.slot, OnDisk.sb.free), disk), OnDisk.sb.free,
                            Holdings(OnDisk.files, <<>>, <<>>))
  BY DEF DurableFsck
<1>1. ~NoSb(disk) BY DEF NoSb
<1>2. PICK s, fs : HoldsAt(disk, s, fs) BY <1>1 DEF Inv, Core, Durable
<1>3. OnDisk = [found |-> TRUE, sb |-> disk[s], files |-> [i \in Inodes |-> fs[i]]] BY <1>2, AdoptHolds DEF OnDisk
<1>4. fs = [i \in Inodes |-> fs[i]] BY <1>2 DEF HoldsAt
<1>5. OnDisk.found /\ OnDisk.sb = disk[s] /\ OnDisk.files = fs BY <1>3, <1>4
<1>6. PICK m : m = OnDiskMap(disk, s) OBVIOUS
<1>7. m.free = disk[s].free BY <1>6, ImportFields DEF OnDiskMap, MapIs
<1> DEFINE u == UsedBlocks(m, disk)
           h == Holdings(fs, <<>>, <<>>)
<1>8. MapGood(m, disk) /\ Claims(u, h) /\ u = UsedBlocks(m, disk) BY <1>2, <1>6 DEF HoldsAt, InUse
<1> HIDE DEF u, h
<1>9. Fsck(u, m.free, h) BY <1>8, FsckHolds
<1> QED BY <1>5, <1>6, <1>7, <1>9 DEF u, h, OnDiskMap

\* It gives that what a commit reported as saved is what the disk holds.
LEMMA InvSynced == Inv => SyncedIsDurable
<1> SUFFICES ASSUME Inv, job = Idle, Mounted, ~vol.dirty PROVE view.durable = {view.ram} BY DEF SyncedIsDurable
<1>1. job.op = "none" BY IdleJob
<1>2. PICK s, fs : HoldsAt(disk, s, fs) /\ Linked(s, fs) BY <1>1 DEF Inv, Core, Durable
<1>3. Adopt(disk, {0, 1}) = [found |-> TRUE, sb |-> disk[s], files |-> [i \in Inodes |-> fs[i]]] BY <1>2, AdoptHolds
<1>4. fs = [i \in Inodes |-> fs[i]] /\ files = fs BY <1>2 DEF HoldsAt, Linked
<1>5. DurableTree(disk) = {Tree(disk, files)}
  <2> DEFINE a == Adopt(disk, {0, 1})
  <2>1. a.found /\ a.files = files BY <1>3, <1>4
  <2> HIDE DEF a
  <2>2. DurableTree(disk) = IF a.found THEN {Tree(disk, a.files)} ELSE {} BY DEF DurableTree, a
  <2> QED BY <2>1, <2>2
<1>6. view = Views(disk, files, vol) BY DEF Inv
<1>7. view.ram = Tree(disk, files) /\ view.durable = DurableTree(disk)
  <2>1. vol.mounted /\ ~vol.broken BY DEF Mounted
  <2> QED BY <1>6, <2>1 DEF Views
<1> QED BY <1>5, <1>7

\* The invariant holds of every behaviour within Tame.
THEOREM ExfsInvariant == ASSUME Tame PROVE Spec => []Inv
<1>1. Init => Inv BY InitInv
<1>2. Inv /\ [Next]_vars => Inv' BY NextInv
<1> QED BY <1>1, <1>2, PTL DEF Spec

\* Within Tame, the fixed arrays of the volume are never overrun (TypeOK).
THEOREM VolumeTypes == ASSUME Tame PROVE Spec => []TypeOK
BY ExfsInvariant, InvTypes, PTL

\* Within Tame, the map knows exactly the blocks in use at every step of every
\* call (MapExact).
THEOREM MapAlwaysExact == ASSUME Tame PROVE Spec => []MapExact
BY ExfsInvariant, InvMap, PTL

\* Within Tame, a crash at any instant leaves a volume that mounts and passes the
\* check (DurableFsck).
THEOREM DiskAlwaysWhole == ASSUME Tame PROVE Spec => []DurableFsck
BY ExfsInvariant, InvDurable, PTL

\* Within Tame, what was committed is what a mount after a crash finds (SyncedIsDurable).
THEOREM SyncedAlwaysDurable == ASSUME Tame PROVE Spec => []SyncedIsDurable
BY ExfsInvariant, InvSynced, PTL

=============================================================================
