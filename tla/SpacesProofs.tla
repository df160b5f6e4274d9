---------------------------- MODULE SpacesProofs ----------------------------
(***************************************************************************)
(* Proofs about AddressSpaces, for any memory, fan-out of the tables,      *)
(* number of owners, slots and records, images and quotas.                 *)
(*                                                                         *)
(* The invariant Inv says that a placement exists: a function pl from the  *)
(* frames that are page tables to their places (level, table and entry     *)
(* above, root).  It makes the tables of the live spaces a forest, so that *)
(* writing one entry changes what one page shows and nothing else, and     *)
(* frees and allocations cannot meet a table in use.  Over it, frames are  *)
(* parted (Parted), tokens apart (Ledger), every present page covered by   *)
(* one record with rights on its token (Records), map_count the number of  *)
(* records (Pins), and the TLB fresh.                                      *)
(*                                                                         *)
(* A loop of the code is a recursive function in the model; Iter shows     *)
(* that a loop whose turns keep within given sets ends within the last, by *)
(* looking at the least turn that would not.  Each loop then has a lemma   *)
(* for one turn and one for all.  The last part proves that the checks of  *)
(* exb_parse say what the format says.                                     *)
(***************************************************************************)
EXTENDS AddressSpaces, FiniteSetTheorems, WellFoundedInduction, SequenceTheorems, TLAPS

-----------------------------------------------------------------------------
(* Types.                                                                  *)

\* The frames that can hold a table, and the types of a kernel state.
Frames == RamFrames \cup {KernelTable}
Ptes == [phys : Nat, write : BOOLEAN, nx : BOOLEAN]
Entries == [live : BOOLEAN, gen : 1 .. (GenMod - 1), owner : Owners \cup {None},
            rights : SUBSET UserRights, phys : Nat, n : Nat, map_count : Nat]
Recs == [live : BOOLEAN, as_pml4 : Nat, owner : Owners \cup {None}, virt : Nat,
         tok : [slot : Slots, gen : Nat], pages : Nat]
Codes == {"ok", "nomem", "busy", "badtoken", "range", "refused", "notmapped", "failed"}
KState == [bits : SUBSET RamFrames, mem : [Frames -> [0 .. (Fan - 1) -> Ptes]],
           table : [Slots -> Entries], hint : Slots, g_maps : [1 .. NRecs -> Recs],
           tlb : SUBSET [va : Nat, pte : Ptes],
           rc : Codes, tok : [slot : Slots, gen : Nat], at : Nat]
States == {"dead", "empty", "failed", "ready", "ended"}
Spaces == [Owners -> [state : States, pml4 : Nat]]

\* User pages, and the entries of a table that translate them.
UserVa == UserBase .. (UserTop - 1)
UserIdx(level) == IF level = 3 THEN 1 .. (KernelHalf - 1) ELSE 0 .. (Fan - 1)

\* The owners with a space, and their PML4s.
Live(sp) == {o \in Owners : sp[o].state # "dead"}
Roots(sp) == {sp[o].pml4 : o \in Live(sp)}

-----------------------------------------------------------------------------
(* The walk through the tables, level by level, and what it shows.         *)

T2(m, r, va) == m[r][Index(va, 3)].phys
T1(m, r, va) == IF T2(m, r, va) = 0 THEN 0 ELSE m[T2(m, r, va)][Index(va, 2)].phys
T0(m, r, va) == IF T1(m, r, va) = 0 THEN 0 ELSE m[T1(m, r, va)][Index(va, 1)].phys
Tbl(m, r, va, lv) == IF lv = 3 THEN r ELSE IF lv = 2 THEN T2(m, r, va)
                     ELSE IF lv = 1 THEN T1(m, r, va) ELSE T0(m, r, va)
Shown(m, r, va) == IF T0(m, r, va) = 0 THEN Absent ELSE m[T0(m, r, va)][Index(va, 0)]

\* pl says of every table which place it has in which tree; then a table has
\* one parent, and trees of different roots have nothing in common.
Places == [lv : 0 .. 3, from : Nat, idx : Nat, root : Nat]
\* A place: a level, the table and entry above, and the PML4 of the tree.
Placed(lv, from, idx, root) == [lv |-> lv, from |-> from, idx |-> idx, root |-> root]

\* Below: what a user entry points to is placed under that entry.
Down(m, pl) ==
    \A f \in DOMAIN pl : \A i \in UserIdx(pl[f].lv) :
      pl[f].lv # 0 /\ m[f][i] # Absent =>
        /\ m[f][i].phys \in DOMAIN pl
        /\ pl[m[f][i].phys] = Placed(pl[f].lv - 1, f, i, pl[f].root)
\* Above: the entry a table is placed under points to it.
Up(m, pl) ==
    \A f \in DOMAIN pl : pl[f].lv # 3 =>
      /\ pl[f].from \in DOMAIN pl
      /\ pl[pl[f].from].lv = pl[f].lv + 1
      /\ pl[pl[f].from].root = pl[f].root
      /\ pl[f].idx \in UserIdx(pl[f].lv + 1)
      /\ m[pl[f].from][pl[f].idx].phys = f
\* The PML4s are the roots, and each is the root of its own tree.
Tops(pl, roots) ==
    /\ roots \subseteq DOMAIN pl
    /\ \A f \in DOMAIN pl : (pl[f].lv = 3 <=> f \in roots) /\ pl[f].root \in roots
    /\ \A r \in roots : pl[r].root = r
\* pl places every table of the spaces in one tree.
Forest(m, pl, roots) ==
    /\ pl \in [DOMAIN pl -> Places]
    /\ DOMAIN pl \subseteq RamFrames
    /\ Down(m, pl) /\ Up(m, pl) /\ Tops(pl, roots)

-----------------------------------------------------------------------------
(* The ledger and the records.                                             *)

\* Live slots, the frames of one, and the frames of all.
LiveIn(tb) == {s \in Slots : tb[s].live}
FramesIn(tb, s) == Span(tb[s].phys, tb[s].n)
Taken(tb) == UNION {FramesIn(tb, s) : s \in LiveIn(tb)}

\* Live tokens hold frames of RAM, some at least, and share none.
Ledger(tb) ==
    /\ \A s \in LiveIn(tb) : /\ tb[s].n > 0
                             /\ FramesIn(tb, s) \subseteq RamFrames
                             /\ tb[s].owner \in Owners
    /\ \A s, t \in LiveIn(tb) : s # t => FramesIn(tb, s) \cap FramesIn(tb, t) = {}

\* Free frames, frames of tokens and tables part the RAM.
Parted(bts, tb, tables) ==
    /\ bts \cup Taken(tb) \cup tables = RamFrames
    /\ bts \cap Taken(tb) = {} /\ bts \cap tables = {} /\ Taken(tb) \cap tables = {}

\* The entry e shows page d of the token t, within its rights.
PageOk(e, t, d) ==
    /\ e # Absent /\ e.phys = t.phys + d
    /\ e.write => "WRITE" \in t.rights /\ e.nx
    /\ ~e.nx => "EXECUTE" \in t.rights

\* A live record belongs to a live space, stands on a token of its owner, and
\* every page it covers is present.
RecOk(r, tb, m, sp) ==
    /\ r.owner \in Live(sp) /\ r.as_pml4 = sp[r.owner].pml4
    /\ tb[r.tok.slot].live /\ tb[r.tok.slot].gen = r.tok.gen /\ tb[r.tok.slot].owner = r.owner
    /\ "MAP" \in tb[r.tok.slot].rights
    /\ r.pages = tb[r.tok.slot].n /\ r.virt >= UserBase /\ r.virt + r.pages <= UserTop
    /\ \A va \in Span(r.virt, r.pages) :
         PageOk(Shown(m, r.as_pml4, va), tb[r.tok.slot], va - r.virt)

\* The pages a record covers.
RecSpan(r) == Span(r.virt, r.pages)

\* The records: sound one by one, apart in a space, and over every present page.
Records(gm, tb, m, sp) ==
    /\ \A i \in 1 .. NRecs : ~gm[i].live => gm[i] = NoRec
    /\ \A i \in 1 .. NRecs : gm[i].live => RecOk(gm[i], tb, m, sp)
    /\ \A i, j \in 1 .. NRecs :
         gm[i].live /\ gm[j].live /\ i # j /\ gm[i].as_pml4 = gm[j].as_pml4 =>
           RecSpan(gm[i]) \cap RecSpan(gm[j]) = {}
    /\ \A r \in Roots(sp) : \A va \in UserVa : Shown(m, r, va) # Absent =>
         \E i \in 1 .. NRecs : gm[i].live /\ gm[i].as_pml4 = r /\ va \in RecSpan(gm[i])

\* map_count counts the records on a slot.
PinsOf(gm, s) == {i \in 1 .. NRecs : gm[i].live /\ gm[i].tok.slot = s}
Pins(gm, tb) == \A s \in Slots : tb[s].map_count = Cardinality(PinsOf(gm, s))

\* A kernel state whose tables are in their places, with the roots R.
Paged(k, R, pl) ==
    /\ k \in KState
    /\ Forest(k.mem, pl, R)
    /\ Parted(k.bits, k.table, DOMAIN pl)
    /\ Ledger(k.table)

\* A kernel state in which tables, ledger and records agree.
Good(k, sp, pl) ==
    /\ Paged(k, Roots(sp), pl)
    /\ Records(k.g_maps, k.table, k.mem, sp)
    /\ Pins(k.g_maps, k.table)

\* What the TLB holds of the space with the PML4 r is what its tables show.
Fresh(k, r) ==
    \A t \in k.tlb : t.va \in UserVa /\ t.pte # Absent /\ Shown(k.mem, r, t.va) = t.pte

\* No two live spaces have the same PML4.
Unshared(sp) == \A o, p \in Live(sp) : o # p => sp[o].pml4 # sp[p].pml4

\* The kernel state k with the spaces sp, when the owner c runs or none does:
\* a token belongs to a program that was loaded, and the TLB is fresh.
Sound(k, sp, c) ==
    /\ sp \in Spaces /\ Unshared(sp)
    /\ c \in Owners \cup {None} /\ (c # None => sp[c].state = "ready")
    /\ \E pl : Good(k, sp, pl)
    /\ \A s \in LiveIn(k.table) : sp[k.table[s].owner].state \in {"ready", "ended"}
    /\ c = None => k.tlb = {}
    /\ c # None => Fresh(k, sp[c].pml4)

\* The inductive invariant.
Inv == Sound(Kernel, spaces, cur) /\ quota \in [Owners -> [frames : Nat, tokens : Nat]]

-----------------------------------------------------------------------------
(* Least elements, induction and loops.  The theorems of the library on     *)
(* induction take the predicate as a parameter; that every set of naturals  *)
(* has a least element does not.                                            *)

\* A set of naturals that is not empty has a least element, and Min finds it.
LEMMA Least ==
  ASSUME NEW T, T \subseteq Nat, T # {}
  PROVE  Min(T) \in T /\ \A y \in T : Min(T) <= y
<1>1. PICK x \in T : \A y \in T : ~(<<y, x>> \in OpToRel(<, Nat))
  BY NatLessThanWellFounded, WFMin
<1>2. OpToRel(<, Nat) = {ss \in Nat \X Nat : ss[1] < ss[2]} BY DEF OpToRel
<1>3. \A y \in T : ~(y < x) BY <1>1, <1>2
<1>4. \E z \in T : \A y \in T : z <= y BY <1>3
<1> QED BY <1>4 DEF Min

\* Induction over the positions of a loop.
LEMMA Ind ==
  ASSUME NEW n \in Nat, NEW S, NEW f, f[0] \in S[0],
         \A i \in 1 .. n : f[i - 1] \in S[i - 1] => f[i] \in S[i]
  PROVE  \A i \in 0 .. n : f[i] \in S[i]
<1> DEFINE T == {i \in 0 .. n : f[i] \notin S[i]}
<1> SUFFICES ASSUME T # {} PROVE FALSE OBVIOUS
<1>1. T \subseteq Nat OBVIOUS
<1>2. PICK x \in T : \A y \in T : x <= y
  <2> HIDE DEF T
  <2> QED BY <1>1, Least
<1> HIDE DEF T
<1>3. x \in 0 .. n /\ f[x] \notin S[x] BY <1>2 DEF T
<1>4. x # 0 BY <1>3
<1>5. x - 1 \in 0 .. n /\ x \in 1 .. n /\ ~(x <= x - 1) BY <1>3, <1>4
<1>6. x - 1 \notin T BY <1>5, <1>2
<1>7. f[x - 1] \in S[x - 1] BY <1>5, <1>6 DEF T
<1> QED BY <1>7, <1>5, <1>3

\* A loop with the states S[i] after turn i, when its turns are functions.
Closed(n, S, G) == \A i \in 1 .. n : \A s \in S[i - 1] : G[i][s] \in S[i]
\* f is the run of the loop with the turns G from b, within S.
Iterates(f, n, b, G, S) ==
    /\ f[0] = b
    /\ \A i \in 1 .. n : f[i] = G[i][f[i - 1]]
    /\ \A i \in 0 .. n : f[i] \in S[i]

\* A loop whose turns keep within S has a run, and it stays within S.
LEMMA Iter ==
  ASSUME NEW n \in Nat, NEW S, NEW b \in S[0], NEW G, Closed(n, S, G)
  PROVE  \E f : Iterates(f, n, b, G, S)
<1> USE DEF Closed, Iterates
<1> DEFINE Ok(m, f) == Iterates(f, m, b, G, S)
           T == {m \in 0 .. n : ~\E f : Ok(m, f)}
<1>0. SUFFICES ASSUME T # {} PROVE FALSE
  <2>1. n \in 0 .. n OBVIOUS
  <2>2. T = {} => \E f : Ok(n, f) BY <2>1
  <2> QED BY <2>2
<1>1. T \subseteq Nat OBVIOUS
<1>2. PICK x \in T : \A y \in T : x <= y
  <2> HIDE DEF T
  <2> QED BY <1>0, <1>1, Least
<1>3. x \in 0 .. n /\ ~\E f : Ok(x, f) BY <1>2
<1>4. x # 0
  <2> SUFFICES \E f : Ok(0, f) BY <1>3
  <2> DEFINE h == [i \in 0 .. 0 |-> b]
  <2>1. h[0] = b OBVIOUS
  <2>2. Ok(0, h) BY <2>1
  <2> QED BY <2>2
<1>5. x - 1 \in 0 .. n /\ x \in 1 .. n /\ ~(x <= x - 1) BY <1>3, <1>4
<1>6. x - 1 \notin T BY <1>5, <1>2
<1>7. PICK h : Ok(x - 1, h) BY <1>5, <1>6
<1> DEFINE e == [i \in 0 .. x |-> IF i = x THEN G[x][h[x - 1]] ELSE h[i]]
<1>8. \A i \in 0 .. (x - 1) : i \in 0 .. x /\ i # x /\ e[i] = h[i] BY <1>5
<1>9. e[x] = G[x][h[x - 1]] /\ x \in 0 .. x BY <1>5
<1> HIDE DEF e
<1>10. \A i \in 0 .. x : i = x \/ i \in 0 .. (x - 1) BY <1>5
<1>11. \A i \in 1 .. (x - 1) : i \in 0 .. (x - 1) /\ i - 1 \in 0 .. (x - 1) BY <1>5
<1>12. x - 1 \in 0 .. (x - 1) /\ 0 \in 0 .. (x - 1) BY <1>5
<1>13. h[x - 1] \in S[x - 1] BY <1>7, <1>12
<1>14. \A i \in 0 .. x : e[i] \in S[i] BY <1>7, <1>8, <1>9, <1>10, <1>13, <1>5
<1>15. \A i \in 1 .. x : e[i] = G[i][e[i - 1]]
  <2> SUFFICES ASSUME NEW i \in 1 .. x PROVE e[i] = G[i][e[i - 1]] OBVIOUS
  <2>1. CASE i = x
    <3>1. e[x - 1] = h[x - 1] BY <1>8, <1>12
    <3> QED BY <2>1, <3>1, <1>9, <1>4
  <2>2. CASE i # x
    <3>1. i \in 1 .. (x - 1) BY <1>5, <2>2
    <3>2. h[i] = G[i][h[i - 1]] BY <3>1, <1>7
    <3> QED BY <3>1, <3>2, <1>8, <1>11
  <2> QED BY <2>1, <2>2
<1>16. e[0] = b BY <1>8, <1>12, <1>7
<1>17. Ok(x, e) BY <1>15, <1>16, <1>14
<1> QED BY <1>17, <1>3

-----------------------------------------------------------------------------
(* Page numbers and their indices.                                         *)

\* Division with a remainder.
LEMMA DivMod ==
  ASSUME NEW a \in Nat, NEW b \in Nat, b > 0
  PROVE  /\ a \div b \in Nat /\ a % b \in Nat /\ a % b < b
         /\ a = b * (a \div b) + (a % b)
<1>1. a \div b \in Nat OBVIOUS
<1>2. a % b \in Nat /\ a % b < b OBVIOUS
<1>3. a = b * (a \div b) + (a % b) BY SMTT(30)
<1> QED BY <1>1, <1>2, <1>3

\* What is larger by a whole divisor has a larger quotient.
LEMMA DivLess ==
  ASSUME NEW b \in Nat, b > 0, NEW u \in Nat, NEW k \in Nat, u < k
  PROVE  b * u + b <= b * k
<1>1. PICK e \in Nat : k = u + 1 + e
  <2>1. k - u - 1 \in Nat /\ k = u + 1 + (k - u - 1) OBVIOUS
  <2> QED BY <2>1
<1>2. b * k = b * u + b + b * e BY <1>1
<1>3. b * e \in Nat /\ b * u \in Nat BY <1>1
<1> QED BY <1>2, <1>3

\* A quotient and a remainder are the only ones.
LEMMA DivUnique ==
  ASSUME NEW b \in Nat, b > 0, NEW k \in Nat, NEW r \in Nat, r < b
  PROVE  (b * k + r) % b = r /\ (b * k + r) \div b = k
<1> DEFINE a == b * k + r
           u == a \div b
           s == a % b
<1>1. a \in Nat /\ b * k \in Nat BY SMTT(30)
<1>2. u \in Nat /\ s \in Nat /\ s < b /\ a = b * u + s BY <1>1, DivMod
<1>3. b * k + r = b * u + s BY <1>2
<1> HIDE DEF u, s, a
<1>4. b * u \in Nat BY <1>2
<1>5. ~(u < k) BY <1>1, <1>2, <1>3, <1>4, DivLess
<1>6. ~(k < u) BY <1>1, <1>2, <1>3, <1>4, DivLess
<1>7. u = k BY <1>2, <1>5, <1>6
<1>8. s = r BY <1>1, <1>2, <1>3, <1>7
<1> QED BY <1>7, <1>8 DEF u, s, a

\* Dividing twice.
LEMMA DivDiv ==
  ASSUME NEW a \in Nat, NEW b \in Nat, NEW c \in Nat, b > 0, c > 0
  PROVE  a \div (b * c) = (a \div b) \div c
<1> DEFINE q == a \div b
           r == a % b
           p == q \div c
           s == q % c
<1>1. q \in Nat /\ r \in Nat /\ r < b /\ a = b * q + r BY DivMod
<1> HIDE DEF q, r
<1>2. p \in Nat /\ s \in Nat /\ s < c /\ q = c * p + s BY <1>1, DivMod
<1> HIDE DEF p, s
<1>3. a = (b * c) * p + (b * s + r)
  <2>1. b * (c * p + s) = (b * c) * p + b * s BY <1>2
  <2>2. (b * c) * p \in Nat /\ b * s \in Nat BY <1>2
  <2> QED BY <1>1, <1>2, <2>1, <2>2
<1>4. b * s + r \in Nat /\ b * s + r < b * c
  <2>1. b * s + b <= b * c BY <1>2, DivLess
  <2>2. b * s \in Nat /\ b * c \in Nat BY <1>2
  <2> QED BY <2>1, <2>2, <1>1
<1> DEFINE d == b * c
           t == b * s + r
<1>5. d \in Nat /\ d > 0 /\ t \in Nat /\ t < d /\ a = d * p + t
  <2>1. d \in Nat /\ d > 0 BY SMTT(20)
  <2> QED BY <1>3, <1>4, <2>1
<1> HIDE DEF d, t
<1>6. a \div d = p BY <1>5, <1>2, DivUnique
<1> QED BY <1>6 DEF d, p, q

\* The spans of the four levels and the bounds of user space.
LEMMA FanFacts ==
  /\ Fan \in Nat /\ Fan > 1 /\ KernelHalf \in Nat /\ KernelHalf > 1 /\ KernelHalf <= Fan
  /\ Reach(0) = 1 /\ Reach(1) = Fan /\ Reach(2) = Fan * Fan /\ Reach(3) = Fan * Fan * Fan
  /\ Reach(3) \in Nat /\ Reach(3) > 0 /\ UserBase \in Nat /\ UserTop \in Nat
  /\ UserBase > 0
<1>1. Fan \in Nat /\ Fan > 1 /\ KernelHalf \in Nat /\ KernelHalf > 1 /\ KernelHalf <= Fan
  BY SpacesAssumption
<1>2. Reach(0) = 1 /\ Reach(1) = Fan /\ Reach(2) = Fan * Fan /\ Reach(3) = Fan * Fan * Fan
  BY DEF Reach
<1>3. Fan * Fan \in Nat /\ Fan * Fan > 0 BY <1>1, SMTT(20)
<1>4. (Fan * Fan) * Fan \in Nat /\ (Fan * Fan) * Fan > 0 
  <2> DEFINE x == Fan * Fan
  <2> HIDE DEF x
  <2>1. x \in Nat /\ x > 0 BY <1>3 DEF x
  <2>2. x * Fan \in Nat /\ x * Fan > 0 BY <1>1, <2>1, SMTT(20)
  <2> QED BY <2>2 DEF x
<1>5. UserTop \in Nat
  <2> DEFINE x == Reach(3)
  <2>1. x \in Nat BY <1>2, <1>4
  <2> HIDE DEF x
  <2>2. KernelHalf * x \in Nat BY <1>1, <2>1
  <2> QED BY <2>2 DEF x, UserTop
<1> QED BY <1>1, <1>2, <1>4, <1>5 DEF UserBase

\* Quotient and remainder by the fan-out.
LEMMA DivFan ==
  ASSUME NEW a \in Nat
  PROVE  /\ a \div Fan \in Nat /\ a % Fan \in 0 .. (Fan - 1)
         /\ a = Fan * (a \div Fan) + (a % Fan)
<1>1. Fan \in Nat /\ Fan > 0 BY FanFacts
<1>2. a \div Fan \in Nat /\ a % Fan \in Nat /\ a % Fan < Fan BY <1>1, DivMod
<1>3. a = Fan * (a \div Fan) + (a % Fan) BY <1>1, DivMod
<1>4. a % Fan \in 0 .. (Fan - 1) BY <1>1, <1>2
<1> QED BY <1>2, <1>3, <1>4

\* The digits of a page number.
LEMMA IndexOf ==
  ASSUME NEW va \in UserVa
  PROVE  /\ va \in Nat
         /\ \E q1, q2, q3 \in Nat :
              /\ va = Fan * q1 + Index(va, 0)
              /\ q1 = Fan * q2 + Index(va, 1)
              /\ q2 = Fan * q3 + Index(va, 2)
              /\ q3 = Index(va, 3)
         /\ \A lv \in 0 .. 3 : Index(va, lv) \in UserIdx(lv)
<1>1. va \in Nat /\ va >= UserBase /\ va < UserTop BY FanFacts DEF UserVa
<1> DEFINE q1 == va \div Fan
           q2 == q1 \div Fan
           q3 == q2 \div Fan
<1>2. q1 \in Nat /\ va = Fan * q1 + (va % Fan) /\ va % Fan \in 0 .. (Fan - 1) BY <1>1, DivFan
<1>3. q2 \in Nat /\ q1 = Fan * q2 + (q1 % Fan) /\ q1 % Fan \in 0 .. (Fan - 1)
  <2> HIDE DEF q1
  <2> QED BY <1>2, DivFan
<1>4. q3 \in Nat /\ q2 = Fan * q3 + (q2 % Fan) /\ q2 % Fan \in 0 .. (Fan - 1)
  <2> HIDE DEF q2
  <2> QED BY <1>3, DivFan
<1>5. Index(va, 0) = va % Fan BY <1>1, FanFacts DEF Index
<1>6. Index(va, 1) = q1 % Fan BY FanFacts DEF Index
<1>7. Index(va, 2) = q2 % Fan
  <2>1. va \div (Fan * Fan) = q2 BY <1>1, FanFacts, DivDiv
  <2> HIDE DEF q2
  <2> QED BY <2>1, FanFacts DEF Index
<1>8. va \div Reach(3) = q3
  <2> DEFINE x == Fan * Fan
  <2>1. x \in Nat /\ x > 0 BY FanFacts, SMTT(20)
  <2>2. va \div x = q2 BY <1>1, FanFacts, DivDiv
  <2>3. Reach(3) = x * Fan BY FanFacts
  <2> HIDE DEF x, q2
  <2>4. va \div (x * Fan) = (va \div x) \div Fan BY <1>1, <2>1, FanFacts, DivDiv
  <2> QED BY <2>2, <2>3, <2>4
<1> HIDE DEF q1, q2, q3
<1>9. q3 \in 1 .. (KernelHalf - 1)
  <2> DEFINE b == Reach(3)
             r == va % b
  <2>1. b \in Nat /\ b > 0 BY FanFacts
  <2> HIDE DEF b
  <2>2. r \in Nat /\ r < b /\ va = b * q3 + r BY <2>1, <1>1, <1>8, DivMod DEF b
  <2> HIDE DEF r
  <2>3. UserBase = b /\ UserTop = KernelHalf * b BY DEF UserBase, UserTop, b
  <2>4. q3 # 0 BY <2>1, <2>2, <2>3, <1>1
  <2>5. ~(KernelHalf <= q3)
    <3> SUFFICES ASSUME KernelHalf <= q3 PROVE FALSE OBVIOUS
    <3>1. q3 + 1 \in Nat /\ KernelHalf < q3 + 1 BY <1>4, FanFacts
    <3>2. b * KernelHalf + b <= b * (q3 + 1) BY <3>1, <2>1, FanFacts, DivLess
    <3>3. b * (q3 + 1) = b * q3 + b BY <2>1, <1>4
    <3>4. b * KernelHalf = KernelHalf * b BY <2>1, FanFacts
    <3>5. b * q3 \in Nat /\ b * KernelHalf \in Nat BY <2>1, <1>4, FanFacts
    <3> QED BY <3>2, <3>3, <3>4, <3>5, <2>1, <2>2, <2>3, <1>1
  <2> QED BY <2>4, <2>5, <1>4, FanFacts
<1>10. Index(va, 3) = q3
  <2>1. q3 % Fan = q3 BY <1>9, FanFacts
  <2> QED BY <2>1, <1>8 DEF Index
<1>11. \A lv \in 0 .. 3 : Index(va, lv) \in UserIdx(lv)
  <2> SUFFICES ASSUME NEW lv \in 0 .. 3 PROVE Index(va, lv) \in UserIdx(lv) OBVIOUS
  <2>1. CASE lv = 0 BY <2>1, <1>2, <1>5 DEF UserIdx
  <2>2. CASE lv = 1 BY <2>2, <1>3, <1>6 DEF UserIdx
  <2>3. CASE lv = 2 BY <2>3, <1>4, <1>7 DEF UserIdx
  <2>4. CASE lv = 3 BY <2>4, <1>9, <1>10 DEF UserIdx
  <2> QED BY <2>1, <2>2, <2>3, <2>4
<1>12. va = Fan * q1 + Index(va, 0) /\ q1 = Fan * q2 + Index(va, 1)
         /\ q2 = Fan * q3 + Index(va, 2) /\ q3 = Index(va, 3)
  <2>1. va = Fan * q1 + Index(va, 0) BY <1>2, <1>5
  <2>2. q1 = Fan * q2 + Index(va, 1) BY <1>3, <1>6
  <2>3. q2 = Fan * q3 + Index(va, 2) BY <1>4, <1>7
  <2> QED BY <2>1, <2>2, <2>3, <1>10
<1> QED BY <1>1, <1>2, <1>3, <1>4, <1>11, <1>12

\* A page is known by its four indices.
LEMMA Digits ==
  ASSUME NEW va \in UserVa, NEW vb \in UserVa,
         \A lv \in 0 .. 3 : Index(va, lv) = Index(vb, lv)
  PROVE  va = vb
<1>1. Index(va, 0) = Index(vb, 0) /\ Index(va, 1) = Index(vb, 1)
        /\ Index(va, 2) = Index(vb, 2) /\ Index(va, 3) = Index(vb, 3)
  OBVIOUS
<1>2. PICK a1, a2, a3 \in Nat : /\ va = Fan * a1 + Index(va, 0) /\ a1 = Fan * a2 + Index(va, 1)
                                /\ a2 = Fan * a3 + Index(va, 2) /\ a3 = Index(va, 3)
  BY IndexOf
<1>3. PICK b1, b2, b3 \in Nat : /\ vb = Fan * b1 + Index(vb, 0) /\ b1 = Fan * b2 + Index(vb, 1)
                                /\ b2 = Fan * b3 + Index(vb, 2) /\ b3 = Index(vb, 3)
  BY IndexOf
<1>4. a3 = b3 BY <1>1, <1>2, <1>3
<1>5. a2 = b2 BY <1>1, <1>2, <1>3, <1>4
<1>6. a1 = b1 BY <1>1, <1>2, <1>3, <1>5
<1> QED BY <1>1, <1>2, <1>3, <1>6

-----------------------------------------------------------------------------
(* The tables form a forest.                                               *)

\* An entry that is present names a table of the level below, in its place.
LEMMA Enter ==
  ASSUME NEW m, NEW pl, NEW R, Forest(m, pl, R), NEW f \in DOMAIN pl, pl[f].lv # 0,
         NEW i \in UserIdx(pl[f].lv)
  PROVE  /\ m[f][i].phys # 0 <=> m[f][i] # Absent
         /\ m[f][i] # Absent => /\ m[f][i].phys \in DOMAIN pl
                                /\ pl[m[f][i].phys] = Placed(pl[f].lv - 1, f, i, pl[f].root)
<1>1. m[f][i] # Absent => /\ m[f][i].phys \in DOMAIN pl
                          /\ pl[m[f][i].phys] = Placed(pl[f].lv - 1, f, i, pl[f].root)
  BY DEF Forest, Down
<1>2. \A g \in DOMAIN pl : g # 0 BY SpacesAssumption DEF Forest
<1>3. Absent.phys = 0 BY DEF Absent
<1> QED BY <1>1, <1>2, <1>3

\* The walk of a user page meets tables in their places.
LEMMA Walk ==
  ASSUME NEW m, NEW pl, NEW R, Forest(m, pl, R), NEW r \in R, NEW va \in UserVa
  PROVE  /\ r \in DOMAIN pl /\ r # 0 /\ pl[r].lv = 3 /\ pl[r].root = r
         /\ T2(m, r, va) # 0 => /\ T2(m, r, va) \in DOMAIN pl
                                /\ pl[T2(m, r, va)] = Placed(2, r, Index(va, 3), r)
         /\ T1(m, r, va) # 0 => /\ T2(m, r, va) # 0 /\ T1(m, r, va) \in DOMAIN pl
                                /\ pl[T1(m, r, va)] = Placed(1, T2(m, r, va), Index(va, 2), r)
         /\ T0(m, r, va) # 0 => /\ T1(m, r, va) # 0 /\ T0(m, r, va) \in DOMAIN pl
                                /\ pl[T0(m, r, va)] = Placed(0, T1(m, r, va), Index(va, 1), r)
<1>1. r \in DOMAIN pl /\ r # 0 /\ pl[r].lv = 3 /\ pl[r].root = r
  BY SpacesAssumption DEF Forest, Tops
<1>2. Index(va, 3) \in UserIdx(3) /\ Index(va, 2) \in UserIdx(2) /\ Index(va, 1) \in UserIdx(1)
  BY IndexOf
<1>3. T2(m, r, va) # 0 => /\ T2(m, r, va) \in DOMAIN pl
                          /\ pl[T2(m, r, va)] = Placed(2, r, Index(va, 3), r)
  BY <1>1, <1>2, Enter DEF T2
<1>4. T1(m, r, va) # 0 => /\ T2(m, r, va) # 0 /\ T1(m, r, va) \in DOMAIN pl
                          /\ pl[T1(m, r, va)] = Placed(1, T2(m, r, va), Index(va, 2), r)
  <2> SUFFICES ASSUME T1(m, r, va) # 0
               PROVE  /\ T2(m, r, va) # 0 /\ T1(m, r, va) \in DOMAIN pl
                      /\ pl[T1(m, r, va)] = Placed(1, T2(m, r, va), Index(va, 2), r)
    OBVIOUS
  <2>1. T2(m, r, va) # 0 /\ T1(m, r, va) = m[T2(m, r, va)][Index(va, 2)].phys BY DEF T1
  <2>2. T2(m, r, va) \in DOMAIN pl /\ pl[T2(m, r, va)].lv = 2 /\ pl[T2(m, r, va)].root = r
    BY <2>1, <1>3 DEF Placed
  <2> QED BY <2>1, <2>2, <1>2, Enter
<1>5. T0(m, r, va) # 0 => /\ T1(m, r, va) # 0 /\ T0(m, r, va) \in DOMAIN pl
                          /\ pl[T0(m, r, va)] = Placed(0, T1(m, r, va), Index(va, 1), r)
  <2> SUFFICES ASSUME T0(m, r, va) # 0
               PROVE  /\ T1(m, r, va) # 0 /\ T0(m, r, va) \in DOMAIN pl
                      /\ pl[T0(m, r, va)] = Placed(0, T1(m, r, va), Index(va, 1), r)
    OBVIOUS
  <2>1. T1(m, r, va) # 0 /\ T0(m, r, va) = m[T1(m, r, va)][Index(va, 1)].phys BY DEF T0
  <2>2. T1(m, r, va) \in DOMAIN pl /\ pl[T1(m, r, va)].lv = 1 /\ pl[T1(m, r, va)].root = r
    BY <2>1, <1>4 DEF Placed
  <2> QED BY <2>1, <2>2, <1>2, Enter
<1> QED BY <1>1, <1>3, <1>4, <1>5

\* A walk finds, at each level, a table placed at that level.
LEMMA Levels ==
  ASSUME NEW m, NEW pl, NEW R, Forest(m, pl, R), NEW r \in R, NEW va \in UserVa
  PROVE  /\ r \in DOMAIN pl /\ pl[r].lv = 3
         /\ T2(m, r, va) # 0 => T2(m, r, va) \in DOMAIN pl /\ pl[T2(m, r, va)].lv = 2
         /\ T1(m, r, va) # 0 => T1(m, r, va) \in DOMAIN pl /\ pl[T1(m, r, va)].lv = 1
         /\ T0(m, r, va) # 0 => T0(m, r, va) \in DOMAIN pl /\ pl[T0(m, r, va)].lv = 0
<1>1. \A a, b, c, d : Placed(a, b, c, d).lv = a BY DEF Placed
<1> QED BY <1>1, Walk

\* What the tables of a forest hold is all that the walks depend on.
Copied(m, m2, pl) == \A f \in DOMAIN pl : m2[f] = m[f]
\* Every user page shows what it showed.
Same(m, m2, R) == \A r \in R : \A va \in UserVa : Shown(m2, r, va) = Shown(m, r, va)

\* Memory that agrees on the placed tables shows the same pages.
LEMMA SameTables ==
  ASSUME NEW m, NEW m2, NEW pl, NEW R, Forest(m, pl, R), Copied(m, m2, pl)
  PROVE  Forest(m2, pl, R) /\ Same(m, m2, R)
<1> USE DEF Copied
<1>1. Forest(m2, pl, R) BY DEF Forest, Down, Up
<1>2. SUFFICES ASSUME NEW r \in R, NEW va \in UserVa PROVE Shown(m2, r, va) = Shown(m, r, va)
  BY <1>1 DEF Same
<1>3. T2(m2, r, va) = T2(m, r, va) BY Walk DEF T2
<1>4. T1(m2, r, va) = T1(m, r, va) BY <1>3, Walk DEF T1
<1>5. T0(m2, r, va) = T0(m, r, va) BY <1>4, Walk DEF T0
<1> QED BY <1>5, Walk DEF Shown

\* A place in the forest belongs to one page.
LEMMA OnePlace ==
  ASSUME NEW m, NEW pl, NEW R, Forest(m, pl, R), NEW r \in R, NEW va \in UserVa,
         NEW q \in R, NEW vb \in UserVa, T0(m, r, va) # 0, T0(m, q, vb) = T0(m, r, va),
         Index(va, 0) = Index(vb, 0)
  PROVE  q = r /\ vb = va
<1>1. T1(m, r, va) # 0 /\ pl[T0(m, r, va)] = Placed(0, T1(m, r, va), Index(va, 1), r)
        /\ T2(m, r, va) # 0 /\ pl[T1(m, r, va)] = Placed(1, T2(m, r, va), Index(va, 2), r)
        /\ pl[T2(m, r, va)] = Placed(2, r, Index(va, 3), r)
  BY Walk
<1>2. T1(m, q, vb) # 0 /\ pl[T0(m, q, vb)] = Placed(0, T1(m, q, vb), Index(vb, 1), q)
        /\ T2(m, q, vb) # 0 /\ pl[T1(m, q, vb)] = Placed(1, T2(m, q, vb), Index(vb, 2), q)
        /\ pl[T2(m, q, vb)] = Placed(2, q, Index(vb, 3), q)
  BY Walk
<1>3. \A a, b, c, d, e, f, g, h : Placed(a, b, c, d) = Placed(e, f, g, h) => b = f /\ c = g /\ d = h
  BY DEF Placed
<1>4. T1(m, r, va) = T1(m, q, vb) /\ Index(va, 1) = Index(vb, 1) /\ r = q BY <1>1, <1>2, <1>3
<1>5. T2(m, r, va) = T2(m, q, vb) /\ Index(va, 2) = Index(vb, 2) BY <1>1, <1>2, <1>3, <1>4
<1>6. Index(va, 3) = Index(vb, 3) BY <1>1, <1>2, <1>3, <1>5
<1>7. \A lv \in 0 .. 3 : lv = 0 \/ lv = 1 \/ lv = 2 \/ lv = 3 OBVIOUS
<1>8. \A lv \in 0 .. 3 : Index(va, lv) = Index(vb, lv) BY <1>4, <1>5, <1>6, <1>7
<1> QED BY <1>4, <1>8, Digits

\* Page va of the tree r shows e in m2, and everything else is as in m.
Put(m, m2, R, r, va, e) ==
    \A q \in R : \A vb \in UserVa :
      Shown(m2, q, vb) = IF q = r /\ vb = va THEN e ELSE Shown(m, q, vb)

\* The entry of page va, in a table that is there, is overwritten.
Written(R, m, m2, pl, r, va, e) ==
    /\ m \in [Frames -> [0 .. (Fan - 1) -> Ptes]] /\ Forest(m, pl, R)
    /\ r \in R /\ va \in UserVa /\ T0(m, r, va) # 0 /\ e \in Ptes
    /\ m2 = [m EXCEPT ![T0(m, r, va)][Index(va, 0)] = e]

\* Writing an entry of a lowest table changes what one page shows.
LEMMA WriteLeaf ==
  ASSUME NEW R, NEW m, NEW m2, NEW pl, NEW r, NEW va, NEW e, Written(R, m, m2, pl, r, va, e)
  PROVE  /\ m2 \in [Frames -> [0 .. (Fan - 1) -> Ptes]]
         /\ Forest(m2, pl, R)
         /\ Put(m, m2, R, r, va, e)
<1> DEFINE t == T0(m, r, va)
<1> /\ m \in [Frames -> [0 .. (Fan - 1) -> Ptes]] /\ Forest(m, pl, R)
    /\ r \in R /\ va \in UserVa /\ t # 0 /\ e \in Ptes
  BY DEF Written
<1>1. t \in DOMAIN pl /\ pl[t].lv = 0 /\ t \in Frames
  <2>1. t \in DOMAIN pl /\ pl[t].lv = 0 BY Levels
  <2> QED BY <2>1 DEF Forest, Frames
<1>w. m2 = [m EXCEPT ![t][Index(va, 0)] = e] BY DEF Written
<1>4. t = T0(m, r, va) OBVIOUS
<1> HIDE DEF t
<1>2. \A f : f # t => m2[f] = m[f] BY <1>w
<1>3. \A j \in 0 .. (Fan - 1) : m2[t][j] = IF j = Index(va, 0) THEN e ELSE m[t][j] BY <1>1, <1>w
<1>x. m2 \in [Frames -> [0 .. (Fan - 1) -> Ptes]] BY <1>1, <1>w
<1>5. Down(m2, pl) BY <1>1, <1>2 DEF Forest, Down
<1>6. Up(m2, pl)
  <2> SUFFICES ASSUME NEW f \in DOMAIN pl, pl[f].lv # 3 PROVE m2[pl[f].from] = m[pl[f].from]
    BY DEF Forest, Up
  <2>1. pl[pl[f].from].lv = pl[f].lv + 1 /\ pl[f].lv \in 0 .. 3 BY DEF Forest, Up, Places
  <2> QED BY <2>1, <1>1, <1>2
<1>7. Forest(m2, pl, R) BY <1>5, <1>6 DEF Forest
<1>8. SUFFICES ASSUME NEW q \in R, NEW vb \in UserVa
               PROVE  Shown(m2, q, vb) = IF q = r /\ vb = va THEN e ELSE Shown(m, q, vb)
  BY <1>7, <1>x DEF Put
<1>0. /\ q # t
      /\ T2(m, q, vb) # 0 => T2(m, q, vb) # t
      /\ T1(m, q, vb) # 0 => T1(m, q, vb) # t
  BY <1>1, Levels
<1>9. T2(m2, q, vb) = T2(m, q, vb) BY <1>0, <1>2 DEF T2
<1>10. T1(m2, q, vb) = T1(m, q, vb) BY <1>0, <1>2, <1>9 DEF T1
<1>11. T0(m2, q, vb) = T0(m, q, vb) BY <1>0, <1>2, <1>10 DEF T0
<1>12. Index(vb, 0) \in 0 .. (Fan - 1) BY IndexOf DEF UserIdx
<1>13. CASE T0(m, q, vb) = t /\ Index(vb, 0) = Index(va, 0)
  <2>1. q = r /\ vb = va BY <1>13, <1>4, OnePlace
  <2> QED BY <2>1, <1>3, <1>4, <1>11, <1>12 DEF Shown
<1>14. CASE T0(m, q, vb) = t /\ Index(vb, 0) # Index(va, 0)
  BY <1>14, <1>3, <1>4, <1>11, <1>12 DEF Shown
<1>15. CASE T0(m, q, vb) # t
  BY <1>15, <1>2, <1>4, <1>11 DEF Shown
<1> QED BY <1>13, <1>14, <1>15

\* The frame f becomes the empty table that entry i of t names.
Added(R, m, m2, pl, pl2, t, i, f, e) ==
    /\ m \in [Frames -> [0 .. (Fan - 1) -> Ptes]] /\ Forest(m, pl, R)
    /\ t \in DOMAIN pl /\ pl[t].lv # 0 /\ i \in UserIdx(pl[t].lv) /\ m[t][i] = Absent
    /\ f \in RamFrames /\ f \notin DOMAIN pl /\ e \in Ptes /\ e.phys = f
    /\ m2 = [[m EXCEPT ![f] = EmptyTable] EXCEPT ![t][i] = e]
    /\ pl2 = [g \in DOMAIN pl \cup {f} |->
                IF g = f THEN Placed(pl[t].lv - 1, t, i, pl[t].root) ELSE pl[g]]

\* A larger forest that shows the same.
Grown(R, m, m2, pl, pl2, f) ==
    /\ m2 \in [Frames -> [0 .. (Fan - 1) -> Ptes]]
    /\ DOMAIN pl2 = DOMAIN pl \cup {f}
    /\ Forest(m2, pl2, R)
    /\ \A q \in R : \A vb \in UserVa :
         /\ Shown(m2, q, vb) = Shown(m, q, vb)
         /\ \A lv \in 0 .. 3 : Tbl(m, q, vb, lv) # 0 => Tbl(m2, q, vb, lv) = Tbl(m, q, vb, lv)

\* A table that is added at an absent entry changes what no page shows.
LEMMA AddTable ==
  ASSUME NEW R, NEW m, NEW m2, NEW pl, NEW pl2, NEW t, NEW i, NEW f, NEW e,
         Added(R, m, m2, pl, pl2, t, i, f, e)
  PROVE  Grown(R, m, m2, pl, pl2, f)
<1> DEFINE m1 == [m EXCEPT ![f] = EmptyTable]
<1> /\ m \in [Frames -> [0 .. (Fan - 1) -> Ptes]] /\ Forest(m, pl, R)
    /\ t \in DOMAIN pl /\ pl[t].lv # 0 /\ i \in UserIdx(pl[t].lv) /\ m[t][i] = Absent
    /\ f \in RamFrames /\ f \notin DOMAIN pl /\ e \in Ptes /\ e.phys = f
  BY DEF Added
<1>1. pl[t] \in Places /\ t \in RamFrames /\ t # f /\ f # 0 /\ f \in Frames /\ t \in Frames
  BY SpacesAssumption DEF Forest, Frames
<1>2. i \in 0 .. (Fan - 1) BY FanFacts DEF UserIdx
<1>3. EmptyTable \in [0 .. (Fan - 1) -> Ptes] BY DEF EmptyTable, Absent, Ptes
<1>4. m1 \in [Frames -> [0 .. (Fan - 1) -> Ptes]] BY <1>3
<1>5. m2 \in [Frames -> [0 .. (Fan - 1) -> Ptes]]
  <2>1. m2 = [m1 EXCEPT ![t][i] = e] BY DEF Added
  <2> HIDE DEF m1
  <2> QED BY <2>1, <1>4, <1>1, <1>2
<1>6. /\ \A g \in Frames : g # f /\ g # t => m2[g] = m[g]
      /\ m2[f] = EmptyTable
      /\ m2[t] = [m[t] EXCEPT ![i] = e]
  BY <1>1 DEF Added
<1>7. /\ m2[t][i] = e
      /\ \A j \in 0 .. (Fan - 1) : j # i => m2[t][j] = m[t][j]
      /\ \A j \in 0 .. (Fan - 1) : m2[f][j] = Absent
  <2>1. m[t] \in [0 .. (Fan - 1) -> Ptes] BY <1>1
  <2>2. \A j \in 0 .. (Fan - 1) : m2[f][j] = Absent BY <1>6 DEF EmptyTable
  <2> QED BY <1>6, <1>2, <2>1, <2>2
<1>8. /\ DOMAIN pl2 = DOMAIN pl \cup {f}
      /\ pl2[f] = Placed(pl[t].lv - 1, t, i, pl[t].root)
      /\ \A g \in DOMAIN pl : g # f /\ pl2[g] = pl[g]
  BY DEF Added
<1>9. pl2 \in [DOMAIN pl2 -> Places]
  <2>1. Placed(pl[t].lv - 1, t, i, pl[t].root) \in Places
    BY <1>1, <1>2, SpacesAssumption, FanFacts DEF Placed, Places
  <2> QED BY <2>1 DEF Forest, Added
<1> HIDE DEF m1
<1>10. \A g \in DOMAIN pl : g \in Frames BY DEF Forest, Frames
<1>11. Down(m2, pl2)
  <2> SUFFICES ASSUME NEW g \in DOMAIN pl2, NEW j \in UserIdx(pl2[g].lv),
                      pl2[g].lv # 0, m2[g][j] # Absent
               PROVE  /\ m2[g][j].phys \in DOMAIN pl2
                      /\ pl2[m2[g][j].phys] = Placed(pl2[g].lv - 1, g, j, pl2[g].root)
    BY DEF Down
  <2>1. j \in 0 .. (Fan - 1) BY FanFacts DEF UserIdx
  <2>2. g # f BY <2>1, <1>7
  <2>3. g \in DOMAIN pl /\ pl2[g] = pl[g] BY <2>2, <1>8
  <2>4. CASE g = t /\ j = i BY <2>4, <2>3, <1>7, <1>8
  <2>5. CASE ~(g = t /\ j = i)
    <3>1. m2[g][j] = m[g][j] BY <2>5, <2>1, <2>2, <2>3, <1>6, <1>7, <1>10
    <3>2. m[g][j].phys \in DOMAIN pl /\ pl[m[g][j].phys] = Placed(pl[g].lv - 1, g, j, pl[g].root)
      BY <3>1, <2>3, Enter
    <3> QED BY <3>1, <3>2, <2>3, <1>8
  <2> QED BY <2>4, <2>5
<1>12. Up(m2, pl2)
  <2> SUFFICES ASSUME NEW g \in DOMAIN pl2, pl2[g].lv # 3
               PROVE  /\ pl2[g].from \in DOMAIN pl2
                      /\ pl2[pl2[g].from].lv = pl2[g].lv + 1
                      /\ pl2[pl2[g].from].root = pl2[g].root
                      /\ pl2[g].idx \in UserIdx(pl2[g].lv + 1)
                      /\ m2[pl2[g].from][pl2[g].idx].phys = g
    BY DEF Up
  <2>1. CASE g = f
    <3>1. /\ pl2[f].lv = pl[t].lv - 1 /\ pl2[f].from = t /\ pl2[f].idx = i
          /\ pl2[f].root = pl[t].root
      BY <1>8 DEF Placed
    <3>2. pl2[f].lv + 1 = pl[t].lv BY <3>1, <1>1 DEF Places
    <3> QED BY <2>1, <3>1, <3>2, <1>7, <1>8
  <2>2. CASE g # f
    <3>1. g \in DOMAIN pl /\ pl2[g] = pl[g] /\ g # 0 BY <2>2, <1>8, SpacesAssumption DEF Forest
    <3>2. /\ pl[g].from \in DOMAIN pl
          /\ pl[pl[g].from].lv = pl[g].lv + 1
          /\ pl[pl[g].from].root = pl[g].root
          /\ pl[g].idx \in UserIdx(pl[g].lv + 1)
          /\ m[pl[g].from][pl[g].idx].phys = g
      BY <3>1 DEF Forest, Up
    <3>3. ~(pl[g].from = t /\ pl[g].idx = i) BY <3>1, <3>2 DEF Absent
    <3>4. pl[g].from # f BY <3>2
    <3>5. m2[pl[g].from][pl[g].idx] = m[pl[g].from][pl[g].idx]
      <4>1. pl[g].idx \in 0 .. (Fan - 1) BY <3>2, FanFacts DEF UserIdx
      <4> QED BY <4>1, <3>2, <3>3, <3>4, <1>6, <1>7, <1>10
    <3> QED BY <3>1, <3>2, <3>5, <1>8
  <2> QED BY <2>1, <2>2
<1>13. Tops(pl2, R)
  <2>1. R \subseteq DOMAIN pl /\ f \notin R BY DEF Forest, Tops
  <2>2. pl2[f].lv # 3 /\ pl2[f].root \in R BY <1>1, <1>8 DEF Placed, Places, Forest, Tops
  <2> QED BY <2>1, <2>2, <1>8 DEF Forest, Tops
<1>14. Forest(m2, pl2, R) BY <1>8, <1>9, <1>11, <1>12, <1>13 DEF Forest
<1>15. SUFFICES ASSUME NEW q \in R, NEW vb \in UserVa
                PROVE  /\ Shown(m2, q, vb) = Shown(m, q, vb)
                       /\ \A lv \in 0 .. 3 : Tbl(m, q, vb, lv) # 0 =>
                            Tbl(m2, q, vb, lv) = Tbl(m, q, vb, lv)
  BY <1>5, <1>8, <1>14 DEF Grown
<1>16. /\ Index(vb, 3) \in 0 .. (Fan - 1) /\ Index(vb, 2) \in 0 .. (Fan - 1)
       /\ Index(vb, 1) \in 0 .. (Fan - 1) /\ Index(vb, 0) \in 0 .. (Fan - 1)
  <2>1. /\ Index(vb, 3) \in UserIdx(3) /\ Index(vb, 2) \in UserIdx(2)
        /\ Index(vb, 1) \in UserIdx(1) /\ Index(vb, 0) \in UserIdx(0)
    BY IndexOf
  <2>2. \A lv \in 0 .. 3 : UserIdx(lv) \subseteq 0 .. (Fan - 1) BY FanFacts DEF UserIdx
  <2> QED BY <2>1, <2>2
<1>17. \A g \in DOMAIN pl : \A j \in 0 .. (Fan - 1) :
         m2[g][j] = m[g][j] \/ (g = t /\ m[g][j].phys = 0 /\ m2[g][j].phys = f)
  <2> SUFFICES ASSUME NEW g \in DOMAIN pl, NEW j \in 0 .. (Fan - 1)
               PROVE  m2[g][j] = m[g][j] \/ (g = t /\ m[g][j].phys = 0 /\ m2[g][j].phys = f)
    OBVIOUS
  <2>1. CASE g = t /\ j = i BY <2>1, <1>7 DEF Absent
  <2>2. CASE g = t /\ j # i BY <2>2, <1>7
  <2>3. CASE g # t BY <2>3, <1>6, <1>10
  <2> QED BY <2>1, <2>2, <2>3
<1>18. Absent.phys = 0 BY DEF Absent
<1>19. T2(m2, q, vb) = T2(m, q, vb) \/ (T2(m, q, vb) = 0 /\ T2(m2, q, vb) = f)
  BY <1>16, <1>17, Walk DEF T2
<1>20. T1(m2, q, vb) = T1(m, q, vb) \/ (T1(m, q, vb) = 0 /\ T1(m2, q, vb) = f)
  BY <1>16, <1>17, <1>18, <1>19, <1>7, Walk DEF T1
<1>21. T0(m2, q, vb) = T0(m, q, vb) \/ (T0(m, q, vb) = 0 /\ T0(m2, q, vb) = f)
  BY <1>16, <1>17, <1>18, <1>20, <1>7, Walk DEF T0
<1>22. Shown(m2, q, vb) = Shown(m, q, vb)
  <2>1. CASE T0(m, q, vb) = 0 /\ T0(m2, q, vb) = f BY <2>1, <1>16, <1>7, <1>1 DEF Shown
  <2>2. CASE T0(m2, q, vb) = T0(m, q, vb) /\ T0(m, q, vb) = 0 BY <2>2 DEF Shown
  <2>3. CASE T0(m2, q, vb) = T0(m, q, vb) /\ T0(m, q, vb) # 0
    <3>1. T0(m, q, vb) \in DOMAIN pl /\ T0(m, q, vb) # t BY <2>3, Levels
    <3> QED BY <3>1, <2>3, <1>16, <1>17 DEF Shown
  <2> QED BY <1>21, <2>1, <2>2, <2>3
<1>23. \A lv \in 0 .. 3 : Tbl(m, q, vb, lv) # 0 => Tbl(m2, q, vb, lv) = Tbl(m, q, vb, lv)
  BY <1>19, <1>20, <1>21 DEF Tbl
<1> QED BY <1>22, <1>23

-----------------------------------------------------------------------------
(* map_page and unmap_pages.                                               *)

\* The state m on the way down to the page table of va, at level lv.
OnTheWay(k, R, r, va, m, lv) ==
    /\ \E pl : Paged(m, R, pl)
    /\ m.table = k.table /\ m.hint = k.hint /\ m.g_maps = k.g_maps /\ m.tlb = k.tlb
    /\ Same(k.mem, m.mem, R)
    /\ m.at # 0 => m.at = Tbl(m.mem, r, va, lv)

\* One level down a walk.
LEMMA NextTbl ==
  ASSUME NEW m, NEW r, NEW va, NEW lv \in 1 .. 3, Tbl(m, r, va, lv) # 0
  PROVE  Tbl(m, r, va, lv - 1) = m[Tbl(m, r, va, lv)][Index(va, lv)].phys
<1>1. CASE lv = 3 BY <1>1 DEF Tbl, T2
<1>2. CASE lv = 2 BY <1>2 DEF Tbl, T1
<1>3. CASE lv = 1 BY <1>3 DEF Tbl, T0
<1> QED BY <1>1, <1>2, <1>3

\* Levels, for a level given by its number.
LEMMA TblPlace ==
  ASSUME NEW m, NEW pl, NEW R, Forest(m, pl, R), NEW r \in R, NEW va \in UserVa,
         NEW lv \in 0 .. 3, Tbl(m, r, va, lv) # 0
  PROVE  Tbl(m, r, va, lv) \in DOMAIN pl /\ pl[Tbl(m, r, va, lv)].lv = lv
  BY Levels DEF Tbl

\* A frame that is taken for a table.
LEMMA NextLevel ==
  ASSUME NEW k, NEW R, NEW r \in R, NEW va \in UserVa, NEW m, NEW lv \in 1 .. 3,
         OnTheWay(k, R, r, va, m, lv), m.at # 0
  PROVE  OnTheWay(k, R, r, va, next_level(m, Index(va, lv)), lv - 1)
<1> DEFINE t == m.at
           i == Index(va, lv)
           e == m.mem[t][i]
           n == next_level(m, i)
<1>1. PICK pl : Paged(m, R, pl) BY DEF OnTheWay
<1>2. t = Tbl(m.mem, r, va, lv) /\ t \in DOMAIN pl /\ pl[t].lv = lv
  BY <1>1, TblPlace DEF OnTheWay, Paged
<1>3. i \in UserIdx(lv) BY IndexOf
<1>4. m \in KState /\ m.mem \in [Frames -> [0 .. (Fan - 1) -> Ptes]] /\ m.bits \subseteq RamFrames
  BY <1>1 DEF Paged, KState
<1>5. CASE e # Absent
  <2>1. n = [m EXCEPT !.at = e.phys] BY <1>5 DEF next_level
  <2>2. e.phys = Tbl(m.mem, r, va, lv - 1) BY <1>2, NextTbl
  <2>3. e.phys \in DOMAIN pl /\ e.phys \in Nat
    BY <1>1, <1>2, <1>3, <1>5, Enter, SpacesAssumption DEF Paged, Forest
  <2>4. n \in KState BY <2>1, <2>3, <1>4 DEF KState
  <2>5. /\ n.mem = m.mem /\ n.bits = m.bits /\ n.table = m.table /\ n.hint = m.hint
        /\ n.g_maps = m.g_maps /\ n.tlb = m.tlb /\ n.at = e.phys
    BY <2>1, <1>4 DEF KState
  <2>6. Paged(n, R, pl) BY <2>4, <2>5, <1>1 DEF Paged
  <2> HIDE DEF n, e, i, t
  <2> QED BY <2>2, <2>5, <2>6 DEF OnTheWay, n, i
<1>6. CASE e = Absent /\ m.bits = {}
  <2> DEFINE a == alloc_zero_table(m)
  <2>0. a = [m EXCEPT !.at = 0] BY <1>6 DEF alloc_zero_table
  <2>a. a.at = 0 BY <2>0, <1>4 DEF KState
  <2> HIDE DEF a
  <2>b. n = a BY <1>6, <2>a DEF next_level, a
  <2>1. n = [m EXCEPT !.at = 0] BY <2>0, <2>b
  <2>2. n \in KState BY <2>1, <1>4 DEF KState
  <2>3. /\ n.mem = m.mem /\ n.bits = m.bits /\ n.table = m.table /\ n.hint = m.hint
        /\ n.g_maps = m.g_maps /\ n.tlb = m.tlb /\ n.at = 0
    BY <2>1, <1>4 DEF KState
  <2>4. Paged(n, R, pl) BY <2>2, <2>3, <1>1 DEF Paged
  <2> HIDE DEF n, e, i, t
  <2> QED BY <2>3, <2>4 DEF OnTheWay, n, i
<1>7. CASE e = Absent /\ m.bits # {}
  <2> DEFINE f == Min(m.bits)
             p == [phys |-> f, write |-> TRUE, nx |-> FALSE]
             m2 == [[m.mem EXCEPT ![f] = EmptyTable] EXCEPT ![t][i] = p]
             pl2 == [g \in DOMAIN pl \cup {f} |->
                       IF g = f THEN Placed(pl[t].lv - 1, t, i, pl[t].root) ELSE pl[g]]
  <2>1. f \in m.bits /\ f \in RamFrames /\ f \in Nat /\ f # 0
    <3>1. m.bits \subseteq Nat BY <1>4, SpacesAssumption
    <3>2. f \in m.bits BY <3>1, <1>7, Least
    <3> QED BY <3>2, <1>4, SpacesAssumption
  <2>2. f \notin DOMAIN pl BY <2>1, <1>1 DEF Paged, Parted
  <2>3. p \in Ptes /\ p.phys = f BY <2>1 DEF Ptes
  <2> HIDE DEF f
  <2>4. /\ m2 \in [Frames -> [0 .. (Fan - 1) -> Ptes]]
        /\ DOMAIN pl2 = DOMAIN pl \cup {f}
        /\ Forest(m2, pl2, R)
        /\ \A q \in R : \A vb \in UserVa :
              /\ Shown(m2, q, vb) = Shown(m.mem, q, vb)
              /\ \A j \in 0 .. 3 : Tbl(m.mem, q, vb, j) # 0 => Tbl(m2, q, vb, j) = Tbl(m.mem, q, vb, j)
    <3>1. Forest(m.mem, pl, R) BY <1>1 DEF Paged
    <3>2. m.mem[t][i] = Absent BY <1>7
    <3>3. pl[t].lv # 0 /\ i \in UserIdx(pl[t].lv) BY <1>2, <1>3
    <3> HIDE DEF p, t, i, m2, pl2
    <3>4. Added(R, m.mem, m2, pl, pl2, t, i, f, p)
      BY <3>1, <3>2, <3>3, <1>2, <1>4, <2>1, <2>2, <2>3 DEF m2, pl2, Added
    <3>5. Grown(R, m.mem, m2, pl, pl2, f) BY <3>4, AddTable
    <3> QED BY <3>5 DEF Grown
  <2> DEFINE a == alloc_zero_table(m)
  <2>a. a = [m EXCEPT !.bits = @ \ {f}, !.mem[f] = EmptyTable, !.at = f]
    BY <1>7 DEF alloc_zero_table, f
  <2>b. a.at = f BY <2>a, <1>4 DEF KState
  <2> HIDE DEF a
  <2>c. n = [a EXCEPT !.mem[t][i] = p] BY <1>7, <2>b, <2>1 DEF next_level, a
  <2>5. n = [[m EXCEPT !.bits = @ \ {f}, !.mem[f] = EmptyTable, !.at = f]
                   EXCEPT !.mem[t][i] = p]
    BY <2>a, <2>c
  <2>6. /\ n.mem = m2 /\ n.bits = m.bits \ {f} /\ n.table = m.table /\ n.hint = m.hint
        /\ n.g_maps = m.g_maps /\ n.tlb = m.tlb /\ n.at = f
    BY <2>5, <1>4 DEF KState
  <2>7. n \in KState
    <3>1. n = [m EXCEPT !.bits = m.bits \ {f}, !.mem = m2, !.at = f] BY <2>5, <1>4 DEF KState
    <3> HIDE DEF m2, n
    <3> QED BY <3>1, <2>4, <2>1, <1>4 DEF KState
  <2>8. m2[t][i] = p
    <3>1. t \in Frames /\ i \in 0 .. (Fan - 1)
      BY <1>1, <1>2, <1>3, FanFacts DEF Paged, Forest, Frames, UserIdx
    <3>2. EmptyTable \in [0 .. (Fan - 1) -> Ptes] BY DEF EmptyTable, Absent, Ptes
    <3>3. [m.mem EXCEPT ![f] = EmptyTable] \in [Frames -> [0 .. (Fan - 1) -> Ptes]] BY <3>2, <1>4
    <3> QED BY <3>1, <3>3
  <2> HIDE DEF m2, pl2, n, t, i
  <2>9. Parted(n.bits, n.table, DOMAIN pl2)
    BY <2>4, <2>6, <2>1, <2>2, <1>1 DEF Paged, Parted
  <2>10. Paged(n, R, pl2) BY <2>4, <2>6, <2>7, <2>9, <1>1 DEF Paged
  <2>11. Same(k.mem, n.mem, R) BY <2>4, <2>6 DEF OnTheWay, Same
  <2>12. Tbl(n.mem, r, va, lv) = t BY <1>2, <2>4, <2>6 DEF t
  <2>13. n.at = Tbl(n.mem, r, va, lv - 1)
    <3>1. t # 0 BY DEF t
    <3>2. Tbl(n.mem, r, va, lv - 1) = n.mem[t][Index(va, lv)].phys BY <2>12, <3>1, NextTbl
    <3> QED BY <3>2, <2>8, <2>6, <2>3 DEF i
  <2> QED BY <2>6, <2>10, <2>11, <2>13 DEF OnTheWay, n, i
<1> QED BY <1>5, <1>6, <1>7

\* One level of map_page: it finds the table below, makes it, or runs out of frames.
LEMMA EnterLevel ==
  ASSUME NEW k, NEW R, NEW r \in R, NEW va \in UserVa, NEW m, NEW lv \in 1 .. 3,
         OnTheWay(k, R, r, va, m, lv)
  PROVE  OnTheWay(k, R, r, va, IF m.at = 0 THEN m ELSE next_level(m, Index(va, lv)), lv - 1)
<1>1. CASE m.at = 0
  <2>1. OnTheWay(k, R, r, va, m, lv - 1) BY <1>1 DEF OnTheWay
  <2> QED BY <1>1, <2>1
<1>2. CASE m.at # 0
  <2>1. OnTheWay(k, R, r, va, next_level(m, Index(va, lv)), lv - 1) BY <1>2, NextLevel
  <2> QED BY <1>2, <2>1
<1> QED BY <1>1, <1>2

\* What map_page leaves: the page shows e, or nothing has changed.
Mapped(k, p, R, r, va, e) ==
    /\ \E pl : Paged(p, R, pl)
    /\ p.table = k.table /\ p.hint = k.hint /\ p.g_maps = k.g_maps /\ p.tlb = k.tlb
    /\ p.rc = "ok" =>
         /\ Shown(k.mem, r, va) = Absent
         /\ Put(k.mem, p.mem, R, r, va, e)
    /\ p.rc # "ok" => Same(k.mem, p.mem, R)

\* map_page shows the one page, or shows nothing new and reports why.
LEMMA PageStep ==
  ASSUME NEW k, NEW R, NEW pl, Paged(k, R, pl), NEW r \in R, NEW va \in UserVa, NEW e \in Ptes
  PROVE  Mapped(k, map_page(k, r, va, e), R, r, va, e)
<1> DEFINE E(m, lv) == IF m.at = 0 THEN m ELSE next_level(m, Index(va, lv))
           k3 == [k EXCEPT !.at = r]
           k2 == E(k3, 3)
           k1 == E(k2, 2)
           d == E(k1, 1)
           p == map_page(k, r, va, e)
<1>1. p = IF d.at = 0 THEN [d EXCEPT !.rc = "nomem"]
          ELSE IF d.mem[d.at][Index(va, 0)] # Absent THEN [d EXCEPT !.rc = "busy"]
          ELSE [d EXCEPT !.mem[d.at][Index(va, 0)] = e, !.rc = "ok"]
  BY DEF map_page
<1>2. OnTheWay(k, R, r, va, k3, 3)
  <2>1. r \in Nat BY SpacesAssumption DEF Paged, Forest, Tops
  <2>2. k3 \in KState BY <2>1 DEF Paged, KState
  <2>3. /\ k3.mem = k.mem /\ k3.bits = k.bits /\ k3.table = k.table /\ k3.hint = k.hint
        /\ k3.g_maps = k.g_maps /\ k3.tlb = k.tlb /\ k3.at = r
    BY DEF Paged, KState
  <2> HIDE DEF k3
  <2>4. Paged(k3, R, pl) BY <2>2, <2>3 DEF Paged
  <2>5. k3.at = Tbl(k3.mem, r, va, 3) BY <2>3 DEF Tbl
  <2> QED BY <2>3, <2>4, <2>5 DEF OnTheWay, Same
<1> HIDE DEF k3
<1>3. OnTheWay(k, R, r, va, k2, 2)
  <2>1. OnTheWay(k, R, r, va, E(k3, 3), 3 - 1) BY <1>2, EnterLevel
  <2> QED BY <2>1
<1> HIDE DEF k2
<1>4. OnTheWay(k, R, r, va, k1, 1)
  <2>1. OnTheWay(k, R, r, va, E(k2, 2), 2 - 1) BY <1>3, EnterLevel
  <2> QED BY <2>1
<1> HIDE DEF k1
<1>5. OnTheWay(k, R, r, va, d, 0)
  <2>1. OnTheWay(k, R, r, va, E(k1, 1), 1 - 1) BY <1>4, EnterLevel
  <2> QED BY <2>1
<1> HIDE DEF d, p
<1>6. PICK pd : Paged(d, R, pd) BY <1>5 DEF OnTheWay
<1>7. d \in KState /\ d.mem \in [Frames -> [0 .. (Fan - 1) -> Ptes]] /\ Forest(d.mem, pd, R)
  BY <1>6 DEF Paged, KState
<1>8. CASE d.at = 0
  <2>1. p = [d EXCEPT !.rc = "nomem"] BY <1>1, <1>8
  <2>2. p \in KState BY <2>1, <1>7 DEF KState, Codes
  <2>3. /\ p.mem = d.mem /\ p.bits = d.bits /\ p.table = d.table /\ p.hint = d.hint
        /\ p.g_maps = d.g_maps /\ p.tlb = d.tlb /\ p.rc = "nomem"
    BY <2>1, <1>7 DEF KState
  <2>4. Paged(p, R, pd) BY <2>2, <2>3, <1>6 DEF Paged
  <2>5. Mapped(k, p, R, r, va, e) BY <2>3, <2>4, <1>5 DEF Mapped, OnTheWay
  <2> QED BY <2>5 DEF p
<1>9. CASE d.at # 0 /\ d.mem[d.at][Index(va, 0)] # Absent
  <2>1. p = [d EXCEPT !.rc = "busy"] BY <1>1, <1>9
  <2>2. p \in KState BY <2>1, <1>7 DEF KState, Codes
  <2>3. /\ p.mem = d.mem /\ p.bits = d.bits /\ p.table = d.table /\ p.hint = d.hint
        /\ p.g_maps = d.g_maps /\ p.tlb = d.tlb /\ p.rc = "busy"
    BY <2>1, <1>7 DEF KState
  <2>4. Paged(p, R, pd) BY <2>2, <2>3, <1>6 DEF Paged
  <2>5. Mapped(k, p, R, r, va, e) BY <2>3, <2>4, <1>5 DEF Mapped, OnTheWay
  <2> QED BY <2>5 DEF p
<1>10. CASE d.at # 0 /\ d.mem[d.at][Index(va, 0)] = Absent
  <2> DEFINE m2 == [d.mem EXCEPT ![d.at][Index(va, 0)] = e]
  <2>1. p = [d EXCEPT !.mem[d.at][Index(va, 0)] = e, !.rc = "ok"] BY <1>1, <1>10
  <2>2. d.at = T0(d.mem, r, va) BY <1>10, <1>5 DEF OnTheWay, Tbl
  <2>3. /\ m2 \in [Frames -> [0 .. (Fan - 1) -> Ptes]] /\ Forest(m2, pd, R)
        /\ Put(d.mem, m2, R, r, va, e)
    <3>1. Written(R, d.mem, m2, pd, r, va, e) BY <2>2, <1>7, <1>10 DEF Written
    <3> QED BY <3>1, WriteLeaf
  <2>5. /\ p.mem = m2 /\ p.bits = d.bits /\ p.table = d.table /\ p.hint = d.hint
        /\ p.g_maps = d.g_maps /\ p.tlb = d.tlb /\ p.rc = "ok"
    BY <2>1, <1>7 DEF KState
  <2>6. p \in KState
    <3>1. p = [d EXCEPT !.mem = m2, !.rc = "ok"] BY <2>1, <1>7 DEF KState
    <3> HIDE DEF m2
    <3> QED BY <3>1, <2>3, <1>7 DEF KState, Codes
  <2> HIDE DEF m2
  <2>7. Paged(p, R, pd) BY <2>3, <2>5, <2>6, <1>6 DEF Paged
  <2>8. Shown(d.mem, r, va) = Absent BY <2>2, <1>10 DEF Shown
  <2>9. Same(k.mem, d.mem, R) BY <1>5 DEF OnTheWay
  <2>10. Mapped(k, p, R, r, va, e) BY <2>3, <2>5, <2>7, <2>8, <2>9, <1>5 DEF Mapped, OnTheWay, Same, Put
  <2> QED BY <2>10 DEF p
<1> QED BY <1>8, <1>9, <1>10

\* States that differ in what a call returns.
Alike(k, p) ==
    /\ p \in KState
    /\ p.bits = k.bits /\ p.mem = k.mem /\ p.table = k.table /\ p.hint = k.hint
    /\ p.g_maps = k.g_maps /\ p.tlb = k.tlb

\* Setting the return code changes nothing else.
LEMMA SetRc ==
  ASSUME NEW k \in KState, NEW c \in Codes
  PROVE  Alike(k, [k EXCEPT !.rc = c]) /\ [k EXCEPT !.rc = c].rc = c
<1>1. [k EXCEPT !.rc = c] \in KState BY DEF KState
<1> QED BY <1>1 DEF KState, Alike

\* States alike but for what they return are placed alike.
LEMMA AlikePaged ==
  ASSUME NEW k, NEW p, Alike(k, p), NEW R, NEW pl, Paged(k, R, pl)
  PROVE  Paged(p, R, pl)
  BY DEF Alike, Paged

\* walk_pte ends at the table T0.
LEMMA WalkPte ==
  ASSUME NEW k, NEW r, r # 0, NEW va
  PROVE  walk_pte(k, r, va) = T0(k.mem, r, va)
<1>1. T2(k.mem, r, va) = k.mem[r][Index(va, 3)].phys BY DEF T2
<1>2. walk_pte(k, r, va) =
        LET En(t, level) == IF t = 0 THEN 0 ELSE k.mem[t][Index(va, level)].phys
        IN  En(En(T2(k.mem, r, va), 2), 1)
  BY <1>1 DEF walk_pte
<1>3. walk_pte(k, r, va) =
        LET En(t, level) == IF t = 0 THEN 0 ELSE k.mem[t][Index(va, level)].phys
        IN  En(T1(k.mem, r, va), 1)
  BY <1>2 DEF T1
<1> QED BY <1>3 DEF T0

\* What unmapping leaves: the pages W of the tree r show nothing and the TLB
\* has forgotten those that showed something.
Unmapped(k, p, R, pl, r, W) ==
    /\ Paged(p, R, pl)
    /\ p.bits = k.bits /\ p.table = k.table /\ p.hint = k.hint /\ p.g_maps = k.g_maps
    /\ p.rc = k.rc /\ p.tok = k.tok /\ p.at = k.at
    /\ \A q \in R : \A vb \in UserVa :
         Shown(p.mem, q, vb) = IF q = r /\ vb \in W THEN Absent ELSE Shown(k.mem, q, vb)
    /\ p.tlb = {t \in k.tlb : ~(t.va \in W /\ Shown(k.mem, r, t.va) # Absent)}

\* One turn of unmap_pages takes the one page away, from the TLB too.
LEMMA UnmapStep ==
  ASSUME NEW k, NEW R, NEW pl, Paged(k, R, pl), NEW r \in R, NEW va \in UserVa
  PROVE  Unmapped(k, UnmapPage(k, r, va), R, pl, r, {va})
<1> DEFINE p == UnmapPage(k, r, va)
           t == T0(k.mem, r, va)
<1>1. r # 0 /\ Forest(k.mem, pl, R) BY Walk DEF Paged
<1>2. walk_pte(k, r, va) = t BY <1>1, WalkPte
<1>3. k \in KState /\ k.mem \in [Frames -> [0 .. (Fan - 1) -> Ptes]] BY DEF Paged, KState
<1>4. CASE t = 0 \/ k.mem[t][Index(va, 0)] = Absent
  <2>1. p = k BY <1>4, <1>2 DEF UnmapPage
  <2>2. Shown(k.mem, r, va) = Absent BY <1>4 DEF Shown
  <2> HIDE DEF p, t
  <2>3. Unmapped(k, p, R, pl, r, {va}) BY <2>1, <2>2 DEF Unmapped
  <2> QED BY <2>3 DEF p
<1>5. CASE t # 0 /\ k.mem[t][Index(va, 0)] # Absent
  <2> DEFINE m2 == [k.mem EXCEPT ![t][Index(va, 0)] = Absent]
             tl == {x \in k.tlb : x.va # va}
  <2>1. p = [k EXCEPT !.mem[t][Index(va, 0)] = Absent, !.tlb = {x \in @ : x.va # va}]
    BY <1>5, <1>2 DEF UnmapPage
  <2>2. p = [k EXCEPT !.mem = m2, !.tlb = tl] BY <2>1, <1>3 DEF KState
  <2>3. /\ m2 \in [Frames -> [0 .. (Fan - 1) -> Ptes]] /\ Forest(m2, pl, R)
        /\ Put(k.mem, m2, R, r, va, Absent)
    <3>1. Absent \in Ptes BY DEF Absent, Ptes
    <3>2. Written(R, k.mem, m2, pl, r, va, Absent) BY <3>1, <1>1, <1>3, <1>5 DEF Written
    <3> QED BY <3>2, WriteLeaf
  <2>4. Shown(k.mem, r, va) # Absent BY <1>5 DEF Shown
  <2>a. tl \subseteq k.tlb OBVIOUS
  <2> HIDE DEF m2, t, tl, p
  <2>5. p \in KState BY <2>2, <2>3, <2>a, <1>3 DEF KState
  <2>6. /\ p.mem = m2 /\ p.bits = k.bits /\ p.table = k.table /\ p.hint = k.hint
        /\ p.g_maps = k.g_maps /\ p.tlb = tl /\ p.rc = k.rc /\ p.tok = k.tok /\ p.at = k.at
    BY <2>2, <1>3 DEF KState
  <2>7. Paged(p, R, pl) BY <2>3, <2>5, <2>6 DEF Paged
  <2>8. p.tlb = {x \in k.tlb : ~(x.va \in {va} /\ Shown(k.mem, r, x.va) # Absent)}
    BY <2>4, <2>6 DEF tl
  <2>9. Unmapped(k, p, R, pl, r, {va}) BY <2>3, <2>6, <2>7, <2>8 DEF Unmapped, Put
  <2> QED BY <2>9 DEF p
<1> QED BY <1>4, <1>5

\* Unmapping the pages W and then one more.
LEMMA UnmapMore ==
  ASSUME NEW k, NEW p, NEW p2, NEW R, NEW pl, NEW r \in R, NEW W, NEW va \in UserVa, va \notin W,
         k.tlb \subseteq [va : Nat, pte : Ptes],
         Unmapped(k, p, R, pl, r, W), Unmapped(p, p2, R, pl, r, {va})
  PROVE  Unmapped(k, p2, R, pl, r, W \cup {va})
<1>1. \A q \in R : \A vb \in UserVa :
        Shown(p2.mem, q, vb) = IF q = r /\ vb \in W \cup {va} THEN Absent ELSE Shown(k.mem, q, vb)
  BY DEF Unmapped
<1>2. p2.tlb = {t \in k.tlb : ~(t.va \in W \cup {va} /\ Shown(k.mem, r, t.va) # Absent)}
  <2>1. Shown(p.mem, r, va) = Shown(k.mem, r, va) BY DEF Unmapped
  <2>2. p2.tlb = {t \in p.tlb : ~(t.va = va /\ Shown(k.mem, r, t.va) # Absent)}
    BY <2>1 DEF Unmapped
  <2>3. p.tlb = {t \in k.tlb : ~(t.va \in W /\ Shown(k.mem, r, t.va) # Absent)} BY DEF Unmapped
  <2> QED BY <2>2, <2>3
<1> QED BY <1>1, <1>2 DEF Unmapped

-----------------------------------------------------------------------------
(* The loops of the kernel: when the state before the loop is in S[0] and   *)
(* turn i leads from S[i-1] to S[i], the state after n turns is in S[n].    *)

\* unmap_pages, page by page.
LEMMA LoopUnmap ==
  ASSUME NEW k, NEW r, NEW va, NEW cnt, cnt \in Nat, NEW S, k \in S[0],
         \A i \in 1 .. cnt : \A m \in S[i - 1] : (UnmapPage(m, r, va + i - 1)) \in S[i]
  PROVE  unmap_pages(k, r, va, cnt) \in S[cnt]
<1> DEFINE n == cnt
           b == k
           T(m, i) == UnmapPage(m, r, va + i - 1)
           at == CHOOSE f : f = [i \in 0 .. cnt |-> IF i = 0 THEN b ELSE T(f[i - 1], i)]
           U == UNION {S[i] : i \in 0 .. n}
           G == [i \in 1 .. n |-> [m \in U |-> T(m, i)]]
<1>1. unmap_pages(k, r, va, cnt) = at[n] BY DEF unmap_pages
<1>2. \A i \in 1 .. n : \A m \in S[i - 1] : T(m, i) \in S[i] OBVIOUS
<1>3. n \in Nat /\ b \in S[0] OBVIOUS
<1>a. at = CHOOSE f : f = [i \in 0 .. n |-> IF i = 0 THEN b ELSE T(f[i - 1], i)] OBVIOUS
<1> HIDE DEF T, n, b, at
<1>4. \A i \in 1 .. n : i - 1 \in 0 .. n /\ \A m \in S[i - 1] : m \in U
  <2> SUFFICES ASSUME NEW i \in 1 .. n PROVE i - 1 \in 0 .. n OBVIOUS
  <2> QED BY <1>3
<1>5. \A i \in 1 .. n : \A m \in S[i - 1] : G[i][m] = T(m, i) BY <1>4
<1>6. PICK g : Iterates(g, n, b, G, S)
  <2> HIDE DEF G, U
  <2>1. Closed(n, S, G) BY <1>2, <1>5 DEF Closed
  <2> QED BY <2>1, <1>3, Iter
<1> HIDE DEF G, U
<1> DEFINE h == [i \in 0 .. n |-> g[i]]
<1>7. \A i \in 0 .. n : i # 0 => i \in 1 .. n /\ i - 1 \in 0 .. n /\ g[i - 1] \in S[i - 1]
  <2> SUFFICES ASSUME NEW i \in 0 .. n, i # 0 PROVE i \in 1 .. n /\ i - 1 \in 0 .. n
    BY <1>6 DEF Iterates
  <2> QED BY <1>3
<1>8. \A i \in 0 .. n : g[i] = IF i = 0 THEN b ELSE T(h[i - 1], i)
  BY <1>5, <1>6, <1>7 DEF Iterates
<1>9. h = [i \in 0 .. n |-> IF i = 0 THEN b ELSE T(h[i - 1], i)] BY <1>8
<1> HIDE DEF h
<1>10. at = [i \in 0 .. n |-> IF i = 0 THEN b ELSE T(at[i - 1], i)] BY <1>9, <1>a
<1>11. at[0] \in S[0] /\ \A i \in 1 .. n : at[i] = T(at[i - 1], i)
  <2>1. 0 \in 0 .. n /\ \A i \in 1 .. n : i \in 0 .. n /\ i # 0 BY <1>3
  <2>2. at[0] = b BY <1>10, <2>1
  <2>3. \A i \in 1 .. n : at[i] = T(at[i - 1], i) BY <1>10, <2>1
  <2> QED BY <2>2, <2>3, <1>3
<1>12. \A i \in 1 .. n : at[i - 1] \in S[i - 1] => at[i] \in S[i] BY <1>11, <1>2
<1>13. \A i \in 0 .. n : at[i] \in S[i] BY <1>3, <1>11, <1>12, Ind
<1>14. n \in 0 .. n BY <1>3
<1> QED BY <1>1, <1>13, <1>14 DEF n

\* DropRecords, record by record.
LEMMA LoopDrop ==
  ASSUME NEW k, NEW D, NRecs \in Nat, NEW S, k \in S[0],
         \A i \in 1 .. NRecs : \A m \in S[i - 1] : (IF i \in D THEN drop_record(m, i) ELSE m) \in S[i]
  PROVE  DropRecords(k, D) \in S[NRecs]
<1> DEFINE n == NRecs
           b == k
           T(m, i) == IF i \in D THEN drop_record(m, i) ELSE m
           at == CHOOSE f : f = [i \in 0 .. NRecs |-> IF i = 0 THEN b ELSE T(f[i - 1], i)]
           U == UNION {S[i] : i \in 0 .. n}
           G == [i \in 1 .. n |-> [m \in U |-> T(m, i)]]
<1>1. DropRecords(k, D) = at[n] BY DEF DropRecords
<1>2. \A i \in 1 .. n : \A m \in S[i - 1] : T(m, i) \in S[i] OBVIOUS
<1>3. n \in Nat /\ b \in S[0] OBVIOUS
<1>a. at = CHOOSE f : f = [i \in 0 .. n |-> IF i = 0 THEN b ELSE T(f[i - 1], i)] OBVIOUS
<1> HIDE DEF T, n, b, at
<1>4. \A i \in 1 .. n : i - 1 \in 0 .. n /\ \A m \in S[i - 1] : m \in U
  <2> SUFFICES ASSUME NEW i \in 1 .. n PROVE i - 1 \in 0 .. n OBVIOUS
  <2> QED BY <1>3
<1>5. \A i \in 1 .. n : \A m \in S[i - 1] : G[i][m] = T(m, i) BY <1>4
<1>6. PICK g : Iterates(g, n, b, G, S)
  <2> HIDE DEF G, U
  <2>1. Closed(n, S, G) BY <1>2, <1>5 DEF Closed
  <2> QED BY <2>1, <1>3, Iter
<1> HIDE DEF G, U
<1> DEFINE h == [i \in 0 .. n |-> g[i]]
<1>7. \A i \in 0 .. n : i # 0 => i \in 1 .. n /\ i - 1 \in 0 .. n /\ g[i - 1] \in S[i - 1]
  <2> SUFFICES ASSUME NEW i \in 0 .. n, i # 0 PROVE i \in 1 .. n /\ i - 1 \in 0 .. n
    BY <1>6 DEF Iterates
  <2> QED BY <1>3
<1>8. \A i \in 0 .. n : g[i] = IF i = 0 THEN b ELSE T(h[i - 1], i)
  BY <1>5, <1>6, <1>7 DEF Iterates
<1>9. h = [i \in 0 .. n |-> IF i = 0 THEN b ELSE T(h[i - 1], i)] BY <1>8
<1> HIDE DEF h
<1>10. at = [i \in 0 .. n |-> IF i = 0 THEN b ELSE T(at[i - 1], i)] BY <1>9, <1>a
<1>11. at[0] \in S[0] /\ \A i \in 1 .. n : at[i] = T(at[i - 1], i)
  <2>1. 0 \in 0 .. n /\ \A i \in 1 .. n : i \in 0 .. n /\ i # 0 BY <1>3
  <2>2. at[0] = b BY <1>10, <2>1
  <2>3. \A i \in 1 .. n : at[i] = T(at[i - 1], i) BY <1>10, <2>1
  <2> QED BY <2>2, <2>3, <1>3
<1>12. \A i \in 1 .. n : at[i - 1] \in S[i - 1] => at[i] \in S[i] BY <1>11, <1>2
<1>13. \A i \in 0 .. n : at[i] \in S[i] BY <1>3, <1>11, <1>12, Ind
<1>14. n \in 0 .. n BY <1>3
<1> QED BY <1>1, <1>13, <1>14 DEF n

\* The page loop of xas_map.
LEMMA LoopMap ==
  ASSUME NEW k, NEW cnt, NEW r, NEW va, NEW tok, NEW perms, cnt \in Nat, NEW S, [k EXCEPT !.rc = "ok"] \in S[0],
         \A i \in 1 .. cnt : \A m \in S[i - 1] : (MapTurn(m, i, r, va, tok, perms)) \in S[i]
  PROVE  MapLoop(k, cnt, r, va, tok, perms) \in S[cnt]
<1> DEFINE n == cnt
           b == [k EXCEPT !.rc = "ok"]
           T(m, i) == MapTurn(m, i, r, va, tok, perms)
           at == CHOOSE f : f = [i \in 0 .. cnt |-> IF i = 0 THEN b ELSE T(f[i - 1], i)]
           U == UNION {S[i] : i \in 0 .. n}
           G == [i \in 1 .. n |-> [m \in U |-> T(m, i)]]
<1>1. MapLoop(k, cnt, r, va, tok, perms) = at[n] BY DEF MapLoop
<1>2. \A i \in 1 .. n : \A m \in S[i - 1] : T(m, i) \in S[i] OBVIOUS
<1>3. n \in Nat /\ b \in S[0] OBVIOUS
<1>a. at = CHOOSE f : f = [i \in 0 .. n |-> IF i = 0 THEN b ELSE T(f[i - 1], i)] OBVIOUS
<1> HIDE DEF T, n, b, at
<1>4. \A i \in 1 .. n : i - 1 \in 0 .. n /\ \A m \in S[i - 1] : m \in U
  <2> SUFFICES ASSUME NEW i \in 1 .. n PROVE i - 1 \in 0 .. n OBVIOUS
  <2> QED BY <1>3
<1>5. \A i \in 1 .. n : \A m \in S[i - 1] : G[i][m] = T(m, i) BY <1>4
<1>6. PICK g : Iterates(g, n, b, G, S)
  <2> HIDE DEF G, U
  <2>1. Closed(n, S, G) BY <1>2, <1>5 DEF Closed
  <2> QED BY <2>1, <1>3, Iter
<1> HIDE DEF G, U
<1> DEFINE h == [i \in 0 .. n |-> g[i]]
<1>7. \A i \in 0 .. n : i # 0 => i \in 1 .. n /\ i - 1 \in 0 .. n /\ g[i - 1] \in S[i - 1]
  <2> SUFFICES ASSUME NEW i \in 0 .. n, i # 0 PROVE i \in 1 .. n /\ i - 1 \in 0 .. n
    BY <1>6 DEF Iterates
  <2> QED BY <1>3
<1>8. \A i \in 0 .. n : g[i] = IF i = 0 THEN b ELSE T(h[i - 1], i)
  BY <1>5, <1>6, <1>7 DEF Iterates
<1>9. h = [i \in 0 .. n |-> IF i = 0 THEN b ELSE T(h[i - 1], i)] BY <1>8
<1> HIDE DEF h
<1>10. at = [i \in 0 .. n |-> IF i = 0 THEN b ELSE T(at[i - 1], i)] BY <1>9, <1>a
<1>11. at[0] \in S[0] /\ \A i \in 1 .. n : at[i] = T(at[i - 1], i)
  <2>1. 0 \in 0 .. n /\ \A i \in 1 .. n : i \in 0 .. n /\ i # 0 BY <1>3
  <2>2. at[0] = b BY <1>10, <2>1
  <2>3. \A i \in 1 .. n : at[i] = T(at[i - 1], i) BY <1>10, <2>1
  <2> QED BY <2>2, <2>3, <1>3
<1>12. \A i \in 1 .. n : at[i - 1] \in S[i - 1] => at[i] \in S[i] BY <1>11, <1>2
<1>13. \A i \in 0 .. n : at[i] \in S[i] BY <1>3, <1>11, <1>12, Ind
<1>14. n \in 0 .. n BY <1>3
<1> QED BY <1>1, <1>13, <1>14 DEF n

\* The first loop of rollback.
LEMMA LoopUnmapAll ==
  ASSUME NEW k, NEW r, NEW vas, Len(vas) \in Nat, NEW S, k \in S[0],
         \A i \in 1 .. Len(vas) : \A m \in S[i - 1] : (xas_unmap(m, r, vas[Len(vas) + 1 - i])) \in S[i]
  PROVE  UnmapAll(k, r, vas) \in S[Len(vas)]
<1> DEFINE n == Len(vas)
           b == k
           T(m, i) == xas_unmap(m, r, vas[Len(vas) + 1 - i])
           at == CHOOSE f : f = [i \in 0 .. Len(vas) |-> IF i = 0 THEN b ELSE T(f[i - 1], i)]
           U == UNION {S[i] : i \in 0 .. n}
           G == [i \in 1 .. n |-> [m \in U |-> T(m, i)]]
<1>1. UnmapAll(k, r, vas) = at[n] BY DEF UnmapAll
<1>2. \A i \in 1 .. n : \A m \in S[i - 1] : T(m, i) \in S[i] OBVIOUS
<1>3. n \in Nat /\ b \in S[0] OBVIOUS
<1>a. at = CHOOSE f : f = [i \in 0 .. n |-> IF i = 0 THEN b ELSE T(f[i - 1], i)] OBVIOUS
<1> HIDE DEF T, n, b, at
<1>4. \A i \in 1 .. n : i - 1 \in 0 .. n /\ \A m \in S[i - 1] : m \in U
  <2> SUFFICES ASSUME NEW i \in 1 .. n PROVE i - 1 \in 0 .. n OBVIOUS
  <2> QED BY <1>3
<1>5. \A i \in 1 .. n : \A m \in S[i - 1] : G[i][m] = T(m, i) BY <1>4
<1>6. PICK g : Iterates(g, n, b, G, S)
  <2> HIDE DEF G, U
  <2>1. Closed(n, S, G) BY <1>2, <1>5 DEF Closed
  <2> QED BY <2>1, <1>3, Iter
<1> HIDE DEF G, U
<1> DEFINE h == [i \in 0 .. n |-> g[i]]
<1>7. \A i \in 0 .. n : i # 0 => i \in 1 .. n /\ i - 1 \in 0 .. n /\ g[i - 1] \in S[i - 1]
  <2> SUFFICES ASSUME NEW i \in 0 .. n, i # 0 PROVE i \in 1 .. n /\ i - 1 \in 0 .. n
    BY <1>6 DEF Iterates
  <2> QED BY <1>3
<1>8. \A i \in 0 .. n : g[i] = IF i = 0 THEN b ELSE T(h[i - 1], i)
  BY <1>5, <1>6, <1>7 DEF Iterates
<1>9. h = [i \in 0 .. n |-> IF i = 0 THEN b ELSE T(h[i - 1], i)] BY <1>8
<1> HIDE DEF h
<1>10. at = [i \in 0 .. n |-> IF i = 0 THEN b ELSE T(at[i - 1], i)] BY <1>9, <1>a
<1>11. at[0] \in S[0] /\ \A i \in 1 .. n : at[i] = T(at[i - 1], i)
  <2>1. 0 \in 0 .. n /\ \A i \in 1 .. n : i \in 0 .. n /\ i # 0 BY <1>3
  <2>2. at[0] = b BY <1>10, <2>1
  <2>3. \A i \in 1 .. n : at[i] = T(at[i - 1], i) BY <1>10, <2>1
  <2> QED BY <2>2, <2>3, <1>3
<1>12. \A i \in 1 .. n : at[i - 1] \in S[i - 1] => at[i] \in S[i] BY <1>11, <1>2
<1>13. \A i \in 0 .. n : at[i] \in S[i] BY <1>3, <1>11, <1>12, Ind
<1>14. n \in 0 .. n BY <1>3
<1> QED BY <1>1, <1>13, <1>14 DEF n

\* The second loop of rollback.
LEMMA LoopReleaseAll ==
  ASSUME NEW k, NEW toks, Len(toks) \in Nat, NEW S, k \in S[0],
         \A i \in 1 .. Len(toks) : \A m \in S[i - 1] : (xtok_reclaim(m, toks[Len(toks) + 1 - i])) \in S[i]
  PROVE  ReleaseAll(k, toks) \in S[Len(toks)]
<1> DEFINE n == Len(toks)
           b == k
           T(m, i) == xtok_reclaim(m, toks[Len(toks) + 1 - i])
           at == CHOOSE f : f = [i \in 0 .. Len(toks) |-> IF i = 0 THEN b ELSE T(f[i - 1], i)]
           U == UNION {S[i] : i \in 0 .. n}
           G == [i \in 1 .. n |-> [m \in U |-> T(m, i)]]
<1>1. ReleaseAll(k, toks) = at[n] BY DEF ReleaseAll
<1>2. \A i \in 1 .. n : \A m \in S[i - 1] : T(m, i) \in S[i] OBVIOUS
<1>3. n \in Nat /\ b \in S[0] OBVIOUS
<1>a. at = CHOOSE f : f = [i \in 0 .. n |-> IF i = 0 THEN b ELSE T(f[i - 1], i)] OBVIOUS
<1> HIDE DEF T, n, b, at
<1>4. \A i \in 1 .. n : i - 1 \in 0 .. n /\ \A m \in S[i - 1] : m \in U
  <2> SUFFICES ASSUME NEW i \in 1 .. n PROVE i - 1 \in 0 .. n OBVIOUS
  <2> QED BY <1>3
<1>5. \A i \in 1 .. n : \A m \in S[i - 1] : G[i][m] = T(m, i) BY <1>4
<1>6. PICK g : Iterates(g, n, b, G, S)
  <2> HIDE DEF G, U
  <2>1. Closed(n, S, G) BY <1>2, <1>5 DEF Closed
  <2> QED BY <2>1, <1>3, Iter
<1> HIDE DEF G, U
<1> DEFINE h == [i \in 0 .. n |-> g[i]]
<1>7. \A i \in 0 .. n : i # 0 => i \in 1 .. n /\ i - 1 \in 0 .. n /\ g[i - 1] \in S[i - 1]
  <2> SUFFICES ASSUME NEW i \in 0 .. n, i # 0 PROVE i \in 1 .. n /\ i - 1 \in 0 .. n
    BY <1>6 DEF Iterates
  <2> QED BY <1>3
<1>8. \A i \in 0 .. n : g[i] = IF i = 0 THEN b ELSE T(h[i - 1], i)
  BY <1>5, <1>6, <1>7 DEF Iterates
<1>9. h = [i \in 0 .. n |-> IF i = 0 THEN b ELSE T(h[i - 1], i)] BY <1>8
<1> HIDE DEF h
<1>10. at = [i \in 0 .. n |-> IF i = 0 THEN b ELSE T(at[i - 1], i)] BY <1>9, <1>a
<1>11. at[0] \in S[0] /\ \A i \in 1 .. n : at[i] = T(at[i - 1], i)
  <2>1. 0 \in 0 .. n /\ \A i \in 1 .. n : i \in 0 .. n /\ i # 0 BY <1>3
  <2>2. at[0] = b BY <1>10, <2>1
  <2>3. \A i \in 1 .. n : at[i] = T(at[i - 1], i) BY <1>10, <2>1
  <2> QED BY <2>2, <2>3, <1>3
<1>12. \A i \in 1 .. n : at[i - 1] \in S[i - 1] => at[i] \in S[i] BY <1>11, <1>2
<1>13. \A i \in 0 .. n : at[i] \in S[i] BY <1>3, <1>11, <1>12, Ind
<1>14. n \in 0 .. n BY <1>3
<1> QED BY <1>1, <1>13, <1>14 DEF n

\* The outer loop of xproc_reap.
LEMMA LoopReapTokens ==
  ASSUME NEW k, NEW o, NSlots \in Nat, NEW S, k \in S[0],
         \A i \in 1 .. NSlots : \A m \in S[i - 1] : (ReapBatch(m, o)) \in S[i]
  PROVE  ReapTokens(k, o) \in S[NSlots]
<1> DEFINE n == NSlots
           b == k
           T(m, i) == ReapBatch(m, o)
           at == CHOOSE f : f = [i \in 0 .. NSlots |-> IF i = 0 THEN b ELSE T(f[i - 1], i)]
           U == UNION {S[i] : i \in 0 .. n}
           G == [i \in 1 .. n |-> [m \in U |-> T(m, i)]]
<1>1. ReapTokens(k, o) = at[n] BY DEF ReapTokens
<1>2. \A i \in 1 .. n : \A m \in S[i - 1] : T(m, i) \in S[i] OBVIOUS
<1>3. n \in Nat /\ b \in S[0] OBVIOUS
<1>a. at = CHOOSE f : f = [i \in 0 .. n |-> IF i = 0 THEN b ELSE T(f[i - 1], i)] OBVIOUS
<1> HIDE DEF T, n, b, at
<1>4. \A i \in 1 .. n : i - 1 \in 0 .. n /\ \A m \in S[i - 1] : m \in U
  <2> SUFFICES ASSUME NEW i \in 1 .. n PROVE i - 1 \in 0 .. n OBVIOUS
  <2> QED BY <1>3
<1>5. \A i \in 1 .. n : \A m \in S[i - 1] : G[i][m] = T(m, i) BY <1>4
<1>6. PICK g : Iterates(g, n, b, G, S)
  <2> HIDE DEF G, U
  <2>1. Closed(n, S, G) BY <1>2, <1>5 DEF Closed
  <2> QED BY <2>1, <1>3, Iter
<1> HIDE DEF G, U
<1> DEFINE h == [i \in 0 .. n |-> g[i]]
<1>7. \A i \in 0 .. n : i # 0 => i \in 1 .. n /\ i - 1 \in 0 .. n /\ g[i - 1] \in S[i - 1]
  <2> SUFFICES ASSUME NEW i \in 0 .. n, i # 0 PROVE i \in 1 .. n /\ i - 1 \in 0 .. n
    BY <1>6 DEF Iterates
  <2> QED BY <1>3
<1>8. \A i \in 0 .. n : g[i] = IF i = 0 THEN b ELSE T(h[i - 1], i)
  BY <1>5, <1>6, <1>7 DEF Iterates
<1>9. h = [i \in 0 .. n |-> IF i = 0 THEN b ELSE T(h[i - 1], i)] BY <1>8
<1> HIDE DEF h
<1>10. at = [i \in 0 .. n |-> IF i = 0 THEN b ELSE T(at[i - 1], i)] BY <1>9, <1>a
<1>11. at[0] \in S[0] /\ \A i \in 1 .. n : at[i] = T(at[i - 1], i)
  <2>1. 0 \in 0 .. n /\ \A i \in 1 .. n : i \in 0 .. n /\ i # 0 BY <1>3
  <2>2. at[0] = b BY <1>10, <2>1
  <2>3. \A i \in 1 .. n : at[i] = T(at[i - 1], i) BY <1>10, <2>1
  <2> QED BY <2>2, <2>3, <1>3
<1>12. \A i \in 1 .. n : at[i - 1] \in S[i - 1] => at[i] \in S[i] BY <1>11, <1>2
<1>13. \A i \in 0 .. n : at[i] \in S[i] BY <1>3, <1>11, <1>12, Ind
<1>14. n \in 0 .. n BY <1>3
<1> QED BY <1>1, <1>13, <1>14 DEF n

-----------------------------------------------------------------------------
(* Pins.                                                                   *)

\* Tables that differ in the pins only.
SameTokens(tb, tb2) ==
    \A s \in Slots : /\ tb2[s].live = tb[s].live /\ tb2[s].gen = tb[s].gen
                     /\ tb2[s].owner = tb[s].owner /\ tb2[s].rights = tb[s].rights
                     /\ tb2[s].phys = tb[s].phys /\ tb2[s].n = tb[s].n

\* Changing map_counts leaves tokens and frames as they were.
LEMMA PinsOnly ==
  ASSUME NEW tb, NEW tb2, SameTokens(tb, tb2)
  PROVE  /\ LiveIn(tb2) = LiveIn(tb) /\ \A s \in Slots : FramesIn(tb2, s) = FramesIn(tb, s)
         /\ Taken(tb2) = Taken(tb)
         /\ Ledger(tb) => Ledger(tb2)
<1>1. LiveIn(tb2) = LiveIn(tb) BY DEF SameTokens, LiveIn
<1>2. \A s \in Slots : FramesIn(tb2, s) = FramesIn(tb, s) BY DEF SameTokens, FramesIn
<1>3. LiveIn(tb) \subseteq Slots BY DEF LiveIn
<1>4. Taken(tb2) = Taken(tb) BY <1>1, <1>2, <1>3 DEF Taken
<1>5. Ledger(tb) => Ledger(tb2) BY <1>1, <1>2, <1>3 DEF Ledger, SameTokens
<1> QED BY <1>1, <1>2, <1>4, <1>5

\* A pin more or less is no matter for the page tables.
LEMMA PinPaged ==
  ASSUME NEW k, NEW R, NEW pl, Paged(k, R, pl), NEW p \in KState,
         p.bits = k.bits, p.mem = k.mem, SameTokens(k.table, p.table)
  PROVE  Paged(p, R, pl)
<1>1. Taken(p.table) = Taken(k.table) /\ Ledger(p.table) BY PinsOnly DEF Paged
<1> QED BY <1>1 DEF Paged, Parted

\* The table after xtok_map_release.
Unpin(tb, tok) ==
    IF tb[tok.slot].live /\ tb[tok.slot].gen = tok.gen /\ tb[tok.slot].map_count > 0
    THEN [tb EXCEPT ![tok.slot].map_count = @ - 1] ELSE tb

\* It is a table, with the same tokens.
LEMMA UnpinTable ==
  ASSUME NEW tb \in [Slots -> Entries], NEW tok \in [slot : Slots, gen : Nat]
  PROVE  Unpin(tb, tok) \in [Slots -> Entries] /\ SameTokens(tb, Unpin(tb, tok))
<1>1. tok.slot \in Slots OBVIOUS
<1>2. CASE tb[tok.slot].live /\ tb[tok.slot].gen = tok.gen /\ tb[tok.slot].map_count > 0
  <2> DEFINE e == [tb[tok.slot] EXCEPT !.map_count = @ - 1]
  <2>1. Unpin(tb, tok) = [tb EXCEPT ![tok.slot] = e] BY <1>2, <1>1 DEF Unpin
  <2>2. e \in Entries BY <1>1, <1>2 DEF Entries
  <2>3. /\ e.live = tb[tok.slot].live /\ e.gen = tb[tok.slot].gen /\ e.owner = tb[tok.slot].owner
        /\ e.rights = tb[tok.slot].rights /\ e.phys = tb[tok.slot].phys /\ e.n = tb[tok.slot].n
    BY <1>1 DEF Entries
  <2> HIDE DEF e
  <2> QED BY <2>1, <2>2, <2>3, <1>1 DEF SameTokens
<1>3. CASE ~(tb[tok.slot].live /\ tb[tok.slot].gen = tok.gen /\ tb[tok.slot].map_count > 0)
  BY <1>3 DEF Unpin, SameTokens
<1> QED BY <1>2, <1>3

\* xtok_map_release lowers one map_count and does no more.
LEMMA MapRelease ==
  ASSUME NEW k, NEW R, NEW pl, Paged(k, R, pl), NEW tok \in [slot : Slots, gen : Nat]
  PROVE  LET p == xtok_map_release(k, tok) IN
         /\ Paged(p, R, pl)
         /\ p.bits = k.bits /\ p.mem = k.mem /\ p.hint = k.hint /\ p.g_maps = k.g_maps
         /\ p.tlb = k.tlb /\ p.rc = k.rc /\ p.table = Unpin(k.table, tok)
<1> DEFINE p == xtok_map_release(k, tok)
           tb == Unpin(k.table, tok)
<1>1. k \in KState /\ k.table \in [Slots -> Entries] BY DEF Paged, KState
<1>2. tb \in [Slots -> Entries] /\ SameTokens(k.table, tb) BY <1>1, UnpinTable
<1>3. p = [k EXCEPT !.table = tb]
  <2>1. CASE LookupLive(k, tok) /\ k.table[tok.slot].map_count > 0
    <3>1. p = [k EXCEPT !.table[tok.slot].map_count = @ - 1] BY <2>1 DEF xtok_map_release
    <3>2. tb = [k.table EXCEPT ![tok.slot].map_count = @ - 1] BY <2>1 DEF Unpin, LookupLive
    <3> HIDE DEF tb, p
    <3> QED BY <3>1, <3>2, <1>1 DEF KState
  <2>2. CASE ~(LookupLive(k, tok) /\ k.table[tok.slot].map_count > 0)
    <3>1. p = k BY <2>2 DEF xtok_map_release
    <3>2. tb = k.table BY <2>2 DEF Unpin, LookupLive
    <3> HIDE DEF tb, p
    <3> QED BY <3>1, <3>2, <1>1 DEF KState
  <2> QED BY <2>1, <2>2
<1> HIDE DEF tb
<1>4. p \in KState BY <1>1, <1>2, <1>3 DEF KState
<1>5. /\ p.bits = k.bits /\ p.mem = k.mem /\ p.hint = k.hint /\ p.g_maps = k.g_maps
      /\ p.tlb = k.tlb /\ p.rc = k.rc /\ p.table = tb
  BY <1>1, <1>3 DEF KState
<1> HIDE DEF p
<1>6. Paged(p, R, pl) BY <1>2, <1>4, <1>5, PinPaged
<1> QED BY <1>5, <1>6 DEF p, tb

-----------------------------------------------------------------------------
(* Runs of pages.                                                          *)

\* unmap_pages takes away the pages of its range and no others.
LEMMA UnmapPages ==
  ASSUME NEW k, NEW R, NEW pl, Paged(k, R, pl), NEW r \in R, NEW va \in Nat, NEW n \in Nat,
         Span(va, n) \subseteq UserVa
  PROVE  Unmapped(k, unmap_pages(k, r, va, n), R, pl, r, Span(va, n))
<1> DEFINE S == [i \in 0 .. n |-> {m \in KState : Unmapped(k, m, R, pl, r, Span(va, i))}]
<1>1. k \in S[0]
  <2>1. Span(va, 0) = {} BY DEF Span
  <2>2. Unmapped(k, k, R, pl, r, {}) BY DEF Unmapped
  <2>3. k \in KState BY DEF Paged
  <2> QED BY <2>1, <2>2, <2>3
<1>2. \A i \in 1 .. n : \A m \in S[i - 1] : UnmapPage(m, r, va + i - 1) \in S[i]
  <2> SUFFICES ASSUME NEW i \in 1 .. n, NEW m \in S[i - 1]
               PROVE  UnmapPage(m, r, va + i - 1) \in S[i]
    OBVIOUS
  <2> DEFINE p == UnmapPage(m, r, va + i - 1)
             w == va + i - 1
  <2>0. i - 1 \in 0 .. n /\ i \in 0 .. n OBVIOUS
  <2>1. Unmapped(k, m, R, pl, r, Span(va, i - 1)) BY <2>0
  <2>2. w \in Span(va, n) /\ w \notin Span(va, i - 1) /\ Span(va, i) = Span(va, i - 1) \cup {w}
    BY DEF Span
  <2>3. Paged(m, R, pl) BY <2>1 DEF Unmapped
  <2> HIDE DEF w, S
  <2>4. Unmapped(m, p, R, pl, r, {w}) BY <2>2, <2>3, UnmapStep DEF w
  <2> HIDE DEF p
  <2>5. k.tlb \subseteq [va : Nat, pte : Ptes] BY DEF Paged, KState
  <2>6. w \in UserVa BY <2>2
  <2>7. Unmapped(k, p, R, pl, r, Span(va, i - 1) \cup {w}) BY <2>1, <2>2, <2>4, <2>5, <2>6, UnmapMore
  <2>8. p \in KState BY <2>4 DEF Unmapped, Paged
  <2> QED BY <2>0, <2>2, <2>7, <2>8 DEF S, p
<1>3. unmap_pages(k, r, va, n) \in S[n]
  <2> HIDE DEF S
  <2> QED BY <1>1, <1>2, LoopUnmap
<1> QED BY <1>3

\* The pages va, va+1, ... of the tree r show the frames f, f+1, ...
Laid(m, m2, R, r, va, n, f, perms) ==
    \A q \in R : \A vb \in UserVa :
      Shown(m2, q, vb) = IF q = r /\ vb \in Span(va, n) THEN Leaf(f + (vb - va), perms)
                         ELSE Shown(m, q, vb)

\* After i turns of the page loop: i pages are mapped, or all is undone.
Turned(k, m, R, r, va, i, tok, perms) ==
    /\ \E pl : Paged(m, R, pl)
    /\ m.hint = k.hint /\ m.g_maps = k.g_maps /\ m.tlb \subseteq k.tlb
    /\ m.rc = "ok" =>
         /\ m.table = k.table
         /\ \A v \in Span(va, i) : Shown(k.mem, r, v) = Absent
         /\ Laid(k.mem, m.mem, R, r, va, i, k.table[tok.slot].phys, perms)
    /\ m.rc # "ok" => m.table = Unpin(k.table, tok) /\ Same(k.mem, m.mem, R)

\* A leaf entry and its frame.
LEMMA LeafType ==
  ASSUME NEW f \in Nat, NEW perms
  PROVE  Leaf(f, perms) \in Ptes /\ Leaf(f, perms).phys = f
  BY DEF Leaf, Ptes

\* One more turn of the page loop: one more page, or the rollback of all.
LEMMA MapOne ==
  ASSUME NEW k, NEW R, NEW r \in R, NEW va \in Nat, NEW n \in Nat, Span(va, n) \subseteq UserVa,
         k \in KState, NEW tok \in [slot : Slots, gen : Nat], NEW perms,
         NEW i \in 1 .. n, NEW m, Turned(k, m, R, r, va, i - 1, tok, perms)
  PROVE  Turned(k, MapTurn(m, i, r, va, tok, perms), R, r, va, i, tok, perms)
<1> DEFINE w == va + i - 1
           f == k.table[tok.slot].phys
           e == Leaf(m.table[tok.slot].phys + i - 1, perms)
           p == map_page(m, r, w, e)
           t == MapTurn(m, i, r, va, tok, perms)
<1>1. t = IF m.rc # "ok" THEN m ELSE IF p.rc = "ok" THEN p ELSE RollBack(p, r, va, i - 1, tok)
  BY DEF MapTurn
<1>2. /\ w \in UserVa /\ w \in Nat /\ w \notin Span(va, i - 1) /\ w - va = i - 1
      /\ Span(va, i) = Span(va, i - 1) \cup {w} /\ Span(va, i - 1) \subseteq UserVa
  BY DEF Span
<1>3. PICK pm : Paged(m, R, pm) BY DEF Turned
<1>4. k.table \in [Slots -> Entries] /\ f \in Nat /\ tok.slot \in Slots BY DEF KState, Entries
<1> HIDE DEF w, f, e, p, t
<1>5. CASE m.rc # "ok"
  <2>1. Turned(k, m, R, r, va, i, tok, perms) BY <1>5 DEF Turned
  <2> QED BY <1>1, <1>5, <2>1 DEF t
<1>6. CASE m.rc = "ok"
  <2>1. /\ m.table = k.table /\ \A v \in Span(va, i - 1) : Shown(k.mem, r, v) = Absent
        /\ Laid(k.mem, m.mem, R, r, va, i - 1, f, perms)
    BY <1>6 DEF Turned, f
  <2>2. e = Leaf(f + (w - va), perms) /\ e \in Ptes
    <3>1. e = Leaf(f + i - 1, perms) BY <2>1 DEF e, f
    <3>2. f + i - 1 = f + (w - va) /\ f + i - 1 \in Nat BY <1>2, <1>4
    <3> QED BY <3>1, <3>2, LeafType
  <2>3. Mapped(m, p, R, r, w, e) BY <1>2, <1>3, <2>2, PageStep DEF p
  <2>4. CASE p.rc = "ok"
    <3>1. t = p BY <1>1, <1>6, <2>4
    <3>2. Shown(m.mem, r, w) = Absent /\ Put(m.mem, p.mem, R, r, w, e) BY <2>3, <2>4 DEF Mapped
    <3>3. Shown(k.mem, r, w) = Absent BY <3>2, <2>1, <1>2 DEF Laid
    <3>4. Laid(k.mem, p.mem, R, r, va, i, f, perms) BY <3>2, <2>1, <2>2, <1>2 DEF Laid, Put
    <3>5. \A v \in Span(va, i) : Shown(k.mem, r, v) = Absent BY <3>3, <2>1, <1>2
    <3>6. /\ \E pl : Paged(p, R, pl)
          /\ p.table = m.table /\ p.hint = m.hint /\ p.g_maps = m.g_maps /\ p.tlb = m.tlb
      BY <2>3 DEF Mapped
    <3>7. Turned(k, p, R, r, va, i, tok, perms) BY <3>4, <3>5, <3>6, <2>1, <2>4 DEF Turned, f
    <3> QED BY <3>1, <3>7 DEF t
  <2>5. CASE p.rc # "ok"
    <3> DEFINE u == unmap_pages(p, r, va, i - 1)
               x == xtok_map_release(u, tok)
    <3>1. t = [x EXCEPT !.rc = p.rc] BY <1>1, <1>6, <2>5 DEF RollBack
    <3>2. PICK pp : Paged(p, R, pp) BY <2>3 DEF Mapped
    <3>3. /\ p.table = m.table /\ p.hint = m.hint /\ p.g_maps = m.g_maps /\ p.tlb = m.tlb
          /\ Same(m.mem, p.mem, R)
      BY <2>3, <2>5 DEF Mapped
    <3>4. Unmapped(p, u, R, pp, r, Span(va, i - 1)) BY <3>2, <1>2, UnmapPages
    <3> HIDE DEF u
    <3>5. Paged(u, R, pp) BY <3>4 DEF Unmapped
    <3>6. /\ Paged(x, R, pp) /\ x.mem = u.mem /\ x.hint = u.hint /\ x.g_maps = u.g_maps
          /\ x.tlb = u.tlb /\ x.table = Unpin(u.table, tok)
      BY <3>5, MapRelease
    <3> HIDE DEF x
    <3>7. p.rc \in Codes /\ x \in KState BY <3>2, <3>6 DEF Paged, KState
    <3>8. Alike(x, t) /\ t.rc = p.rc BY <3>1, <3>7, SetRc
    <3>9. Paged(t, R, pp) BY <3>6, <3>8, AlikePaged
    <3>10. u.tlb \subseteq p.tlb BY <3>4 DEF Unmapped
    <3>11. Same(k.mem, u.mem, R)
      <4> SUFFICES ASSUME NEW q \in R, NEW vb \in UserVa
                   PROVE  Shown(u.mem, q, vb) = Shown(k.mem, q, vb)
        BY DEF Same
      <4>1. CASE q = r /\ vb \in Span(va, i - 1) BY <4>1, <3>4, <2>1 DEF Unmapped
      <4>2. CASE ~(q = r /\ vb \in Span(va, i - 1))
        <5>1. Shown(u.mem, q, vb) = Shown(p.mem, q, vb) BY <4>2, <3>4 DEF Unmapped
        <5>2. Shown(p.mem, q, vb) = Shown(m.mem, q, vb) BY <3>3 DEF Same
        <5>3. Shown(m.mem, q, vb) = Shown(k.mem, q, vb) BY <4>2, <2>1 DEF Laid
        <5> QED BY <5>1, <5>2, <5>3
      <4> QED BY <4>1, <4>2
    <3>12. /\ t.hint = k.hint /\ t.g_maps = k.g_maps /\ t.tlb \subseteq k.tlb
           /\ t.table = Unpin(k.table, tok) /\ t.mem = u.mem
      BY <3>3, <3>4, <3>6, <3>8, <3>10, <2>1 DEF Alike, Unmapped, Turned
    <3>13. Turned(k, t, R, r, va, i, tok, perms) BY <3>8, <3>9, <3>11, <3>12, <2>5 DEF Turned
    <3> QED BY <3>13 DEF t
  <2> QED BY <2>4, <2>5
<1> QED BY <1>5, <1>6

\* The page loop maps all the pages or undoes all it did.
LEMMA MapAll ==
  ASSUME NEW k, NEW R, NEW pl, Paged(k, R, pl), NEW r \in R, NEW va \in Nat, NEW n \in Nat,
         Span(va, n) \subseteq UserVa, NEW tok \in [slot : Slots, gen : Nat], NEW perms
  PROVE  Turned(k, MapLoop(k, n, r, va, tok, perms), R, r, va, n, tok, perms)
<1> DEFINE k0 == [k EXCEPT !.rc = "ok"]
           S == [i \in 0 .. n |-> {m \in KState : Turned(k, m, R, r, va, i, tok, perms)}]
<1>1. k \in KState BY DEF Paged
<1>2. Alike(k, k0) /\ k0.rc = "ok" BY <1>1, SetRc DEF Codes
<1> HIDE DEF k0
<1>3. k0 \in S[0]
  <2>1. Paged(k0, R, pl) BY <1>2, AlikePaged
  <2>2. Span(va, 0) = {} BY DEF Span
  <2>3. Laid(k.mem, k0.mem, R, r, va, 0, k.table[tok.slot].phys, perms)
    BY <1>2, <2>2 DEF Laid, Alike
  <2>4. Turned(k, k0, R, r, va, 0, tok, perms) BY <1>2, <2>1, <2>2, <2>3 DEF Turned, Alike
  <2> QED BY <2>4, <1>2 DEF Alike
<1>4. \A i \in 1 .. n : \A m \in S[i - 1] : MapTurn(m, i, r, va, tok, perms) \in S[i]
  <2> SUFFICES ASSUME NEW i \in 1 .. n, NEW m \in S[i - 1]
               PROVE  MapTurn(m, i, r, va, tok, perms) \in S[i]
    OBVIOUS
  <2>1. i - 1 \in 0 .. n /\ i \in 0 .. n OBVIOUS
  <2>2. Turned(k, m, R, r, va, i - 1, tok, perms) BY <2>1
  <2> HIDE DEF S
  <2>3. Turned(k, MapTurn(m, i, r, va, tok, perms), R, r, va, i, tok, perms) BY <2>2, <1>1, MapOne
  <2>4. MapTurn(m, i, r, va, tok, perms) \in KState BY <2>3 DEF Turned, Paged
  <2> QED BY <2>1, <2>3, <2>4 DEF S
<1>5. MapLoop(k, n, r, va, tok, perms) \in S[n]
  <2> HIDE DEF S
  <2> QED BY <1>3, <1>4, LoopMap DEF k0
<1> QED BY <1>5

-----------------------------------------------------------------------------
(* Records that are dropped.                                               *)

\* The record covers the page v of the tree r.
Covers(rec, r, v) == rec.as_pml4 = r /\ v \in RecSpan(rec)

\* The records D are gone, with their pages and pins, and nothing else.
Dropped(k, p, sp, pl, D) ==
    /\ Good(p, sp, pl)
    /\ p.bits = k.bits /\ p.hint = k.hint
    /\ p.g_maps = [j \in 1 .. NRecs |-> IF j \in D THEN NoRec ELSE k.g_maps[j]]
    /\ SameTokens(k.table, p.table)
    /\ \A r \in Roots(sp) : \A v \in UserVa :
         (\A j \in D : ~Covers(k.g_maps[j], r, v)) => Shown(p.mem, r, v) = Shown(k.mem, r, v)
    /\ p.tlb \subseteq k.tlb
    /\ \A r \in Roots(sp) : Fresh(k, r) => Fresh(p, r)

\* The records on a slot can be counted.
LEMMA PinsFinite ==
  ASSUME NEW gm, NEW s
  PROVE  IsFiniteSet(PinsOf(gm, s)) /\ Cardinality(PinsOf(gm, s)) \in Nat
<1>1. NRecs \in Nat BY SpacesAssumption
<1>2. IsFiniteSet(1 .. NRecs) BY <1>1, FS_Interval
<1>3. PinsOf(gm, s) \subseteq 1 .. NRecs BY DEF PinsOf
<1> QED BY <1>2, <1>3, FS_Subset, FS_CardinalityType

\* What a live record tells of its token and its pages.
LEMMA RecFacts ==
  ASSUME NEW k, NEW sp, NEW pl, Good(k, sp, pl), NEW i \in 1 .. NRecs, k.g_maps[i].live
  PROVE  LET c == k.g_maps[i] IN
         /\ c \in Recs /\ RecOk(c, k.table, k.mem, sp)
         /\ c.as_pml4 \in Roots(sp) /\ c.owner \in Live(sp) /\ c.as_pml4 = sp[c.owner].pml4
         /\ c.tok \in [slot : Slots, gen : Nat] /\ c.tok.slot \in Slots
         /\ k.table[c.tok.slot].live /\ k.table[c.tok.slot].gen = c.tok.gen
         /\ k.table[c.tok.slot].owner = c.owner
         /\ c.virt \in Nat /\ c.pages \in Nat /\ c.pages > 0
         /\ c.virt \in RecSpan(c) /\ RecSpan(c) \subseteq UserVa
         /\ k.table[c.tok.slot].map_count > 0
<1> DEFINE c == k.g_maps[i]
<1>1. c \in Recs BY DEF Good, Paged, KState
<1>2. RecOk(c, k.table, k.mem, sp) BY DEF Good, Records
<1> HIDE DEF c
<1>3. /\ c.tok \in [slot : Slots, gen : Nat] /\ c.tok.slot \in Slots /\ c.virt \in Nat /\ c.pages \in Nat
  BY <1>1 DEF Recs
<1>4. /\ c.owner \in Live(sp) /\ c.as_pml4 = sp[c.owner].pml4
      /\ k.table[c.tok.slot].live /\ k.table[c.tok.slot].gen = c.tok.gen
      /\ k.table[c.tok.slot].owner = c.owner
      /\ c.pages = k.table[c.tok.slot].n /\ c.virt >= UserBase /\ c.virt + c.pages <= UserTop
  BY <1>2 DEF RecOk
<1>5. c.as_pml4 \in Roots(sp) BY <1>4 DEF Roots
<1>6. c.pages > 0 BY <1>3, <1>4 DEF Good, Paged, Ledger, LiveIn
<1>7. c.virt \in RecSpan(c) /\ RecSpan(c) \subseteq UserVa
  BY <1>3, <1>4, <1>6, FanFacts DEF RecSpan, Span, UserVa
<1>8. k.table[c.tok.slot].map_count > 0
  <2> DEFINE P == PinsOf(k.g_maps, c.tok.slot)
  <2>1. i \in P BY DEF PinsOf, c
  <2> HIDE DEF P
  <2>2. k.table[c.tok.slot].map_count = Cardinality(P) BY <1>3 DEF Good, Pins, P
  <2>3. IsFiniteSet(P) /\ Cardinality(P) \in Nat BY PinsFinite DEF P
  <2>4. Cardinality(P) # 0 BY <2>1, <2>3, FS_EmptySet
  <2> QED BY <2>2, <2>3, <2>4
<1> QED BY <1>1, <1>2, <1>3, <1>4, <1>5, <1>6, <1>7, <1>8 DEF c

\* A record stays right when its token and its pages do.
LEMMA RecKept ==
  ASSUME NEW d, NEW tb, NEW m, NEW sp, NEW tb2, NEW m2, NEW sp2,
         RecOk(d, tb, m, sp), d.tok.slot \in Slots,
         tb2[d.tok.slot].live, tb2[d.tok.slot].gen = tb[d.tok.slot].gen,
         tb2[d.tok.slot].owner = tb[d.tok.slot].owner,
         tb2[d.tok.slot].rights = tb[d.tok.slot].rights,
         tb2[d.tok.slot].phys = tb[d.tok.slot].phys, tb2[d.tok.slot].n = tb[d.tok.slot].n,
         d.owner \in Live(sp2), sp2[d.owner].pml4 = sp[d.owner].pml4,
         \A v \in RecSpan(d) : Shown(m2, d.as_pml4, v) = Shown(m, d.as_pml4, v)
  PROVE  RecOk(d, tb2, m2, sp2)
<1>1. \A v \in Span(d.virt, d.pages) : PageOk(Shown(m2, d.as_pml4, v), tb2[d.tok.slot], v - d.virt)
  <2> SUFFICES ASSUME NEW v \in Span(d.virt, d.pages)
               PROVE  PageOk(Shown(m2, d.as_pml4, v), tb2[d.tok.slot], v - d.virt)
    OBVIOUS
  <2>1. PageOk(Shown(m, d.as_pml4, v), tb[d.tok.slot], v - d.virt) BY DEF RecOk
  <2>2. Shown(m2, d.as_pml4, v) = Shown(m, d.as_pml4, v) BY DEF RecSpan
  <2> QED BY <2>1, <2>2 DEF PageOk
<1> QED BY <1>1 DEF RecOk

\* drop_record takes one record, its pages and its pin away.
LEMMA DropOne ==
  ASSUME NEW k, NEW sp, NEW pl, Good(k, sp, pl), NEW i \in 1 .. NRecs, k.g_maps[i].live
  PROVE  Dropped(k, drop_record(k, i), sp, pl, {i})
<1> DEFINE c == k.g_maps[i]
           W == RecSpan(c)
           u == unmap_pages(k, c.as_pml4, c.virt, c.pages)
           x == xtok_map_release(u, c.tok)
           p == drop_record(k, i)
           gm == [j \in 1 .. NRecs |-> IF j \in {i} THEN NoRec ELSE k.g_maps[j]]
           R == Roots(sp)
<1>1. p = [x EXCEPT !.g_maps[i] = NoRec] BY DEF drop_record
<1>2. /\ c \in Recs /\ RecOk(c, k.table, k.mem, sp)
      /\ c.as_pml4 \in R
      /\ c.tok \in [slot : Slots, gen : Nat] /\ c.tok.slot \in Slots
      /\ k.table[c.tok.slot].live /\ k.table[c.tok.slot].gen = c.tok.gen
      /\ c.virt \in Nat /\ c.pages \in Nat /\ c.virt \in W /\ W \subseteq UserVa
      /\ k.table[c.tok.slot].map_count > 0
  BY RecFacts
<1>3. Paged(k, R, pl) /\ Records(k.g_maps, k.table, k.mem, sp) /\ Pins(k.g_maps, k.table)
  BY DEF Good
<1>c. c = k.g_maps[i] OBVIOUS
<1> HIDE DEF c, R
<1>4. Unmapped(k, u, R, pl, c.as_pml4, W)
  BY <1>2, <1>3, UnmapPages DEF RecSpan
<1> HIDE DEF u
<1>5. /\ Paged(x, R, pl) /\ x.bits = u.bits /\ x.mem = u.mem /\ x.hint = u.hint
      /\ x.g_maps = u.g_maps /\ x.tlb = u.tlb /\ x.table = Unpin(u.table, c.tok)
  BY <1>2, <1>4, MapRelease DEF Unmapped
<1> HIDE DEF x, p
<1>6. k.g_maps \in [1 .. NRecs -> Recs] /\ k.table \in [Slots -> Entries] /\ x \in KState
  BY <1>3, <1>5 DEF Paged, KState
<1>7. NoRec \in Recs
  BY SpacesAssumption, FanFacts DEF NoRec, Recs, None, Slots
<1>8. gm \in [1 .. NRecs -> Recs] BY <1>6, <1>7
<1>9. x.g_maps = k.g_maps /\ x.table = Unpin(k.table, c.tok) BY <1>4, <1>5 DEF Unmapped
<1>10. p = [x EXCEPT !.g_maps = gm]
  <2>1. [k.g_maps EXCEPT ![i] = NoRec] = gm BY <1>6
  <2>2. p = [x EXCEPT !.g_maps = [k.g_maps EXCEPT ![i] = NoRec]] BY <1>1, <1>6, <1>9 DEF KState
  <2> QED BY <2>1, <2>2
<1>11. \A j \in 1 .. NRecs : gm[j] = IF j = i THEN NoRec ELSE k.g_maps[j] OBVIOUS
<1> HIDE DEF gm
<1>12. p \in KState BY <1>6, <1>8, <1>10 DEF KState
<1>13. /\ p.bits = k.bits /\ p.mem = u.mem /\ p.hint = k.hint /\ p.g_maps = gm
       /\ p.tlb = u.tlb /\ p.table = Unpin(k.table, c.tok) /\ p.bits = x.bits /\ p.mem = x.mem
       /\ p.table = x.table
  BY <1>4, <1>5, <1>6, <1>9, <1>10 DEF KState, Unmapped
<1>14. Paged(p, R, pl) BY <1>5, <1>12, <1>13 DEF Paged
<1>15. SameTokens(k.table, p.table) BY <1>2, <1>6, <1>13, UnpinTable
<1>16. \A q \in R : \A v \in UserVa :
         Shown(p.mem, q, v) = IF q = c.as_pml4 /\ v \in W THEN Absent ELSE Shown(k.mem, q, v)
  BY <1>4, <1>13 DEF Unmapped
<1>17. Records(p.g_maps, p.table, p.mem, sp)
  <2>1. \A j \in 1 .. NRecs : ~gm[j].live => gm[j] = NoRec
    BY <1>3, <1>11 DEF Records
  <2>2. NoRec.live = FALSE BY DEF NoRec
  <2>3. \A j \in 1 .. NRecs : gm[j].live => j # i /\ gm[j] = k.g_maps[j] /\ k.g_maps[j].live
    BY <1>11, <2>2
  <2>4. ASSUME NEW j \in 1 .. NRecs, gm[j].live PROVE RecOk(gm[j], p.table, p.mem, sp)
    <3> DEFINE d == k.g_maps[j]
    <3>1. d = gm[j] /\ j # i /\ d.live BY <2>3, <2>4
    <3>2. /\ RecOk(d, k.table, k.mem, sp) /\ d.as_pml4 \in R /\ d.tok.slot \in Slots
          /\ RecSpan(d) \subseteq UserVa
      BY <3>1, RecFacts DEF R
    <3>3. d.as_pml4 = c.as_pml4 => RecSpan(d) \cap W = {} BY <1>3, <3>1 DEF Records, c
    <3> HIDE DEF d
    <3>4. \A v \in RecSpan(d) : Shown(p.mem, d.as_pml4, v) = Shown(k.mem, d.as_pml4, v)
      BY <3>2, <3>3, <1>16
    <3>5. d.owner \in Live(sp) BY <3>2 DEF RecOk
    <3>6. k.table[d.tok.slot].live BY <3>2 DEF RecOk
    <3>7. RecOk(d, p.table, p.mem, sp)
      BY <3>2, <3>4, <3>5, <3>6, <1>15, RecKept DEF SameTokens
    <3> QED BY <3>1, <3>7
  <2>5. \A j, l \in 1 .. NRecs :
          gm[j].live /\ gm[l].live /\ j # l /\ gm[j].as_pml4 = gm[l].as_pml4 =>
            RecSpan(gm[j]) \cap RecSpan(gm[l]) = {}
    BY <2>3, <1>3 DEF Records
  <2>6. ASSUME NEW r \in R, NEW v \in UserVa, Shown(p.mem, r, v) # Absent
        PROVE  \E j \in 1 .. NRecs : gm[j].live /\ gm[j].as_pml4 = r /\ v \in RecSpan(gm[j])
    <3>1. ~(r = c.as_pml4 /\ v \in W) /\ Shown(k.mem, r, v) # Absent BY <2>6, <1>16
    <3>2. PICK j \in 1 .. NRecs : /\ k.g_maps[j].live /\ k.g_maps[j].as_pml4 = r
                                  /\ v \in RecSpan(k.g_maps[j])
      BY <3>1, <1>3 DEF Records, R
    <3>3. j # i BY <3>1, <3>2, <1>c
    <3> QED BY <3>2, <3>3, <1>11
  <2> QED BY <2>1, <2>4, <2>5, <2>6, <1>13 DEF Records, R
<1>18. Pins(p.g_maps, p.table)
  <2> SUFFICES ASSUME NEW s \in Slots
               PROVE  p.table[s].map_count = Cardinality(PinsOf(gm, s))
    BY <1>13 DEF Pins
  <2>1. p.table = [k.table EXCEPT ![c.tok.slot].map_count = @ - 1] BY <1>2, <1>13 DEF Unpin
  <2>2. k.table[s].map_count = Cardinality(PinsOf(k.g_maps, s)) BY <1>3 DEF Pins
  <2>3. NoRec.live = FALSE BY DEF NoRec
  <2>4. CASE s = c.tok.slot
    <3>1. PinsOf(gm, s) = PinsOf(k.g_maps, s) \ {i} BY <1>11, <2>3 DEF PinsOf
    <3>2. i \in PinsOf(k.g_maps, s) BY <2>4, <1>c DEF PinsOf
    <3>3. Cardinality(PinsOf(gm, s)) = Cardinality(PinsOf(k.g_maps, s)) - 1
      <4> DEFINE P == PinsOf(k.g_maps, s)
      <4>1. IsFiniteSet(P) BY PinsFinite
      <4> HIDE DEF P
      <4>2. Cardinality(P \ {i}) = Cardinality(P) - 1 BY <4>1, <3>2, FS_RemoveElement DEF P
      <4> QED BY <4>2, <3>1 DEF P
    <3>4. p.table[s].map_count = k.table[s].map_count - 1 BY <2>1, <2>4, <1>6 DEF Entries
    <3> QED BY <2>2, <3>3, <3>4
  <2>5. CASE s # c.tok.slot
    <3>1. PinsOf(gm, s) = PinsOf(k.g_maps, s) BY <1>11, <2>3, <2>5, <1>c DEF PinsOf
    <3>2. p.table[s] = k.table[s] BY <2>1, <2>5, <1>6
    <3> QED BY <2>2, <3>1, <3>2
  <2> QED BY <2>4, <2>5
<1>19. Good(p, sp, pl) BY <1>14, <1>17, <1>18 DEF Good, R
<1>20. p.tlb \subseteq k.tlb BY <1>4, <1>13 DEF Unmapped
<1>21. ASSUME NEW r \in R, Fresh(k, r) PROVE Fresh(p, r)
  <2> SUFFICES ASSUME NEW t \in p.tlb
               PROVE  t.va \in UserVa /\ t.pte # Absent /\ Shown(p.mem, r, t.va) = t.pte
    BY DEF Fresh
  <2>1. t \in k.tlb /\ ~(t.va \in W /\ Shown(k.mem, c.as_pml4, t.va) # Absent)
    BY <1>4, <1>13 DEF Unmapped
  <2>2. t.va \in UserVa /\ t.pte # Absent /\ Shown(k.mem, r, t.va) = t.pte BY <1>21, <2>1 DEF Fresh
  <2>3. ~(r = c.as_pml4 /\ t.va \in W) BY <2>1, <2>2
  <2> QED BY <2>2, <2>3, <1>16
<1>22. \A r \in R : \A v \in UserVa :
         (\A j \in {i} : ~Covers(k.g_maps[j], r, v)) => Shown(p.mem, r, v) = Shown(k.mem, r, v)
  BY <1>16, <1>c DEF Covers
<1>23. p.g_maps = [j \in 1 .. NRecs |-> IF j \in {i} THEN NoRec ELSE k.g_maps[j]]
  BY <1>13 DEF gm
<1>24. Dropped(k, p, sp, pl, {i})
  BY <1>13, <1>15, <1>19, <1>20, <1>21, <1>22, <1>23 DEF Dropped, R
<1> QED BY <1>24 DEF p

\* Dropping no record changes nothing.
LEMMA DroppedNone ==
  ASSUME NEW k, NEW sp, NEW pl, Good(k, sp, pl)
  PROVE  Dropped(k, k, sp, pl, {})
<1>1. k.g_maps = [j \in 1 .. NRecs |-> IF j \in {} THEN NoRec ELSE k.g_maps[j]]
  <2>1. k.g_maps \in [1 .. NRecs -> Recs] BY DEF Good, Paged, KState
  <2> QED BY <2>1
<1> QED BY <1>1 DEF Dropped, SameTokens

\* Dropping one record more.
LEMMA DroppedMore ==
  ASSUME NEW k, NEW m, NEW p, NEW sp, NEW pl, NEW D, NEW i \in 1 .. NRecs, i \notin D,
         D \subseteq 1 .. NRecs, Dropped(k, m, sp, pl, D), Dropped(m, p, sp, pl, {i})
  PROVE  Dropped(k, p, sp, pl, D \cup {i})
<1>1. /\ p.bits = k.bits /\ p.hint = k.hint /\ Good(p, sp, pl) /\ p.tlb \subseteq k.tlb
      /\ \A r \in Roots(sp) : Fresh(k, r) => Fresh(p, r)
  BY DEF Dropped
<1>2. m.g_maps = [j \in 1 .. NRecs |-> IF j \in D THEN NoRec ELSE k.g_maps[j]] BY DEF Dropped
<1>3. p.g_maps = [j \in 1 .. NRecs |-> IF j \in {i} THEN NoRec ELSE m.g_maps[j]] BY DEF Dropped
<1>4. p.g_maps = [j \in 1 .. NRecs |-> IF j \in D \cup {i} THEN NoRec ELSE k.g_maps[j]]
  BY <1>2, <1>3
<1>5. SameTokens(k.table, p.table)
  <2>1. SameTokens(k.table, m.table) /\ SameTokens(m.table, p.table) BY DEF Dropped
  <2> QED BY <2>1 DEF SameTokens
<1>6. ASSUME NEW r \in Roots(sp), NEW v \in UserVa, \A j \in D \cup {i} : ~Covers(k.g_maps[j], r, v)
      PROVE  Shown(p.mem, r, v) = Shown(k.mem, r, v)
  <2>1. Shown(m.mem, r, v) = Shown(k.mem, r, v) BY <1>6 DEF Dropped
  <2>2. m.g_maps[i] = k.g_maps[i] BY <1>2
  <2>3. \A j \in {i} : ~Covers(m.g_maps[j], r, v) BY <1>6, <2>2
  <2>4. Shown(p.mem, r, v) = Shown(m.mem, r, v) BY <2>3 DEF Dropped
  <2> QED BY <2>1, <2>4
<1> QED BY <1>1, <1>4, <1>5, <1>6 DEF Dropped

\* DropRecords takes exactly the records D away.
LEMMA DropMany ==
  ASSUME NEW k, NEW sp, NEW pl, Good(k, sp, pl), NEW D, D \subseteq 1 .. NRecs,
         \A j \in D : k.g_maps[j].live
  PROVE  Dropped(k, DropRecords(k, D), sp, pl, D)
<1> DEFINE S == [i \in 0 .. NRecs |-> {m \in KState : Dropped(k, m, sp, pl, D \cap (1 .. i))}]
<1>0. NRecs \in Nat BY SpacesAssumption
<1>1. k \in S[0]
  <2>1. D \cap (1 .. 0) = {} /\ 0 \in 0 .. NRecs BY <1>0
  <2>2. k \in KState BY DEF Good, Paged
  <2> QED BY <2>1, <2>2, DroppedNone
<1>2. \A i \in 1 .. NRecs : \A m \in S[i - 1] : (IF i \in D THEN drop_record(m, i) ELSE m) \in S[i]
  <2> SUFFICES ASSUME NEW i \in 1 .. NRecs, NEW m \in S[i - 1]
               PROVE  (IF i \in D THEN drop_record(m, i) ELSE m) \in S[i]
    OBVIOUS
  <2>1. i - 1 \in 0 .. NRecs /\ i \in 0 .. NRecs BY <1>0
  <2>2. Dropped(k, m, sp, pl, D \cap (1 .. (i - 1))) /\ m \in KState BY <2>1
  <2> HIDE DEF S
  <2>3. CASE i \in D
    <3> DEFINE E == D \cap (1 .. (i - 1))
    <3>1. i \notin E /\ E \subseteq 1 .. NRecs /\ D \cap (1 .. i) = E \cup {i} BY <2>3, <1>0
    <3> HIDE DEF E
    <3>2. m.g_maps[i] = k.g_maps[i] /\ Good(m, sp, pl) BY <2>2, <3>1 DEF Dropped, E
    <3>3. m.g_maps[i].live BY <2>3, <3>2
    <3>4. Dropped(m, drop_record(m, i), sp, pl, {i}) BY <3>2, <3>3, DropOne
    <3>5. Dropped(k, drop_record(m, i), sp, pl, E \cup {i}) BY <2>2, <3>1, <3>4, DroppedMore DEF E
    <3>6. drop_record(m, i) \in KState BY <3>5 DEF Dropped, Good, Paged
    <3> QED BY <2>1, <2>3, <3>1, <3>5, <3>6 DEF S
  <2>4. CASE i \notin D
    <3>1. D \cap (1 .. i) = D \cap (1 .. (i - 1)) BY <2>4, <1>0
    <3> QED BY <2>1, <2>2, <2>4, <3>1 DEF S
  <2> QED BY <2>3, <2>4
<1>3. DropRecords(k, D) \in S[NRecs]
  <2> HIDE DEF S
  <2> QED BY <1>0, <1>1, <1>2, LoopDrop
<1>4. D \cap (1 .. NRecs) = D /\ NRecs \in 0 .. NRecs BY <1>0
<1> QED BY <1>3, <1>4

\* What a call leaves of a good state: Good depends on nothing it returns.
LEMMA AlikeGood ==
  ASSUME NEW k, NEW p, Alike(k, p), NEW sp, NEW pl, Good(k, sp, pl)
  PROVE  Good(p, sp, pl)
  BY AlikePaged DEF Alike, Good

\* xas_unmap drops one record, that starts at the page, or none.
LEMMA Unmap ==
  ASSUME NEW k, NEW sp, NEW pl, Good(k, sp, pl), NEW r, NEW va
  PROVE  \E D \in SUBSET {i \in 1 .. NRecs : /\ k.g_maps[i].live /\ k.g_maps[i].as_pml4 = r
                                             /\ k.g_maps[i].virt = va} :
           /\ Dropped(k, xas_unmap(k, r, va), sp, pl, D)
           /\ D = {} => \A i \in 1 .. NRecs :
                ~(k.g_maps[i].live /\ k.g_maps[i].as_pml4 = r /\ k.g_maps[i].virt = va)
<1> DEFINE at == {i \in 1 .. NRecs : /\ k.g_maps[i].live /\ k.g_maps[i].as_pml4 = r
                                     /\ k.g_maps[i].virt = va}
           p == xas_unmap(k, r, va)
<1>1. p = IF at = {} THEN [k EXCEPT !.rc = "notmapped"] ELSE drop_record(k, Min(at))
  BY DEF xas_unmap
<1>2. CASE at = {}
  <2>1. k \in KState BY DEF Good, Paged
  <2>2. Alike(k, p) BY <1>1, <1>2, <2>1, SetRc DEF Codes
  <2> HIDE DEF p
  <2>3. Good(p, sp, pl) BY <2>2, AlikeGood
  <2>4. Dropped(k, p, sp, pl, {}) BY <2>2, <2>3, DroppedNone DEF Dropped, Alike, Fresh
  <2> QED BY <1>2, <2>4 DEF p
<1>3. CASE at # {}
  <2>1. at \subseteq Nat OBVIOUS
  <2> HIDE DEF at
  <2>2. Min(at) \in at BY <2>1, <1>3, Least
  <2>3. Min(at) \in 1 .. NRecs /\ k.g_maps[Min(at)].live BY <2>2 DEF at
  <2>4. Dropped(k, p, sp, pl, {Min(at)}) BY <1>1, <1>3, <2>3, DropOne
  <2>5. {Min(at)} \in SUBSET at /\ {Min(at)} # {} BY <2>2
  <2> QED BY <2>4, <2>5 DEF at, p
<1> QED BY <1>2, <1>3

\* xas_revoke_token takes away the records of its token.
LEMMA Revoke ==
  ASSUME NEW k, NEW sp, NEW pl, Good(k, sp, pl), NEW tok
  PROVE  Dropped(k, xas_revoke_token(k, tok), sp, pl,
                 {i \in 1 .. NRecs : k.g_maps[i].live /\ k.g_maps[i].tok = tok})
<1> DEFINE D == {i \in 1 .. NRecs : k.g_maps[i].live /\ k.g_maps[i].tok = tok}
<1>1. D \subseteq 1 .. NRecs /\ \A j \in D : k.g_maps[j].live OBVIOUS
<1>2. xas_revoke_token(k, tok) = DropRecords(k, D) BY DEF xas_revoke_token
<1> HIDE DEF D
<1>3. Dropped(k, DropRecords(k, D), sp, pl, D) BY <1>1, DropMany
<1> QED BY <1>2, <1>3 DEF D

-----------------------------------------------------------------------------
(* xas_map.                                                                *)

\* A state with the same ledger and records whose pages show the same.
LEMMA SameGood ==
  ASSUME NEW k, NEW p, NEW sp, NEW pl, NEW pl2, Good(k, sp, pl), Paged(p, Roots(sp), pl2),
         p.g_maps = k.g_maps, p.table = k.table, Same(k.mem, p.mem, Roots(sp))
  PROVE  Good(p, sp, pl2)
<1>1. ASSUME NEW i \in 1 .. NRecs, k.g_maps[i].live
      PROVE  RecOk(k.g_maps[i], k.table, p.mem, sp)
  <2> DEFINE c == k.g_maps[i]
  <2>1. /\ RecOk(c, k.table, k.mem, sp) /\ c.as_pml4 \in Roots(sp) /\ c.owner \in Live(sp)
        /\ c.tok.slot \in Slots /\ k.table[c.tok.slot].live /\ RecSpan(c) \subseteq UserVa
    BY <1>1, RecFacts
  <2> HIDE DEF c
  <2>2. \A v \in RecSpan(c) : Shown(p.mem, c.as_pml4, v) = Shown(k.mem, c.as_pml4, v)
    BY <2>1 DEF Same
  <2>3. RecOk(c, k.table, p.mem, sp) BY <2>1, <2>2, RecKept
  <2> QED BY <2>3 DEF c
<1>2. Records(k.g_maps, k.table, p.mem, sp) BY <1>1 DEF Good, Records, Same
<1> QED BY <1>2 DEF Good

\* The record c, for pages that show the frames of its token, enters the table.
Recorded(k, p, sp, i, c, perms) ==
    /\ i \in 1 .. NRecs /\ ~k.g_maps[i].live /\ p.g_maps = [k.g_maps EXCEPT ![i] = c]
    /\ p.table = [k.table EXCEPT ![c.tok.slot].map_count = @ + 1]
    /\ \A v \in RecSpan(c) : Shown(k.mem, c.as_pml4, v) = Absent
    /\ Laid(k.mem, p.mem, Roots(sp), c.as_pml4, c.virt, c.pages, k.table[c.tok.slot].phys, perms)
    /\ c \in Recs /\ c.live /\ c.owner \in Live(sp) /\ c.as_pml4 = sp[c.owner].pml4
    /\ k.table[c.tok.slot].live /\ k.table[c.tok.slot].gen = c.tok.gen
    /\ k.table[c.tok.slot].owner = c.owner
    /\ Need(perms) \subseteq k.table[c.tok.slot].rights /\ ~({"W", "X"} \subseteq perms)
    /\ c.pages = k.table[c.tok.slot].n /\ c.virt >= UserBase /\ c.virt + c.pages <= UserTop

\* A record over freshly mapped pages of a pinned token keeps the state good.
LEMMA AddRecord ==
  ASSUME NEW k, NEW p, NEW sp, NEW pl, NEW pl2, NEW i, NEW c, NEW perms,
         Good(k, sp, pl), Paged(p, Roots(sp), pl2), Recorded(k, p, sp, i, c, perms)
  PROVE  Good(p, sp, pl2)
<1> DEFINE R == Roots(sp)
           W == RecSpan(c)
           T == k.table[c.tok.slot]
<1>1. /\ i \in 1 .. NRecs /\ ~k.g_maps[i].live /\ p.g_maps = [k.g_maps EXCEPT ![i] = c]
      /\ \A v \in W : Shown(k.mem, c.as_pml4, v) = Absent
      /\ c \in Recs /\ c.live /\ c.owner \in Live(sp) /\ c.as_pml4 = sp[c.owner].pml4
      /\ T.live /\ T.gen = c.tok.gen /\ T.owner = c.owner
      /\ c.pages = T.n /\ c.virt >= UserBase /\ c.virt + c.pages <= UserTop
  BY DEF Recorded
<1>2. /\ c.tok \in [slot : Slots, gen : Nat] /\ c.tok.slot \in Slots /\ c.virt \in Nat
      /\ c.pages \in Nat /\ c.as_pml4 \in Nat
  BY <1>1 DEF Recs
<1>3. c.as_pml4 \in R BY <1>1 DEF Roots
<1>4. /\ k.g_maps \in [1 .. NRecs -> Recs] /\ k.table \in [Slots -> Entries]
      /\ Records(k.g_maps, k.table, k.mem, sp) /\ Pins(k.g_maps, k.table) /\ Ledger(k.table)
  BY DEF Good, Paged, KState
<1>5. W \subseteq UserVa BY <1>1, <1>2, FanFacts DEF RecSpan, Span, UserVa
<1>6. \A j \in 1 .. NRecs : p.g_maps[j] = IF j = i THEN c ELSE k.g_maps[j] BY <1>1, <1>4
<1>7. p.table = [k.table EXCEPT ![c.tok.slot].map_count = @ + 1] BY DEF Recorded
<1>8. SameTokens(k.table, p.table) /\ p.table[c.tok.slot].map_count = T.map_count + 1
        /\ \A s \in Slots : s # c.tok.slot => p.table[s] = k.table[s]
  <2>1. \A s \in Slots : p.table[s] = IF s = c.tok.slot THEN [k.table[s] EXCEPT !.map_count = @ + 1]
                                      ELSE k.table[s]
    BY <1>2, <1>4, <1>7
  <2>2. \A s \in Slots : k.table[s] \in Entries BY <1>4
  <2>3. \A e \in Entries : LET d == [e EXCEPT !.map_count = @ + 1] IN
          /\ d.live = e.live /\ d.gen = e.gen /\ d.owner = e.owner /\ d.rights = e.rights
          /\ d.phys = e.phys /\ d.n = e.n /\ d.map_count = e.map_count + 1
    BY DEF Entries
  <2>4. /\ p.table[c.tok.slot].map_count = T.map_count + 1
        /\ \A s \in Slots : s # c.tok.slot => p.table[s] = k.table[s]
    BY <1>2, <2>1, <2>2, <2>3
  <2>5. SameTokens(k.table, p.table)
    <3> SUFFICES ASSUME NEW s \in Slots
                 PROVE  /\ p.table[s].live = k.table[s].live /\ p.table[s].gen = k.table[s].gen
                        /\ p.table[s].owner = k.table[s].owner /\ p.table[s].rights = k.table[s].rights
                        /\ p.table[s].phys = k.table[s].phys /\ p.table[s].n = k.table[s].n
      BY DEF SameTokens
    <3>1. CASE s = c.tok.slot
      <4>1. p.table[s] = [k.table[s] EXCEPT !.map_count = @ + 1] BY <2>1, <3>1
      <4> QED BY <4>1, <2>2, <2>3
    <3>2. CASE s # c.tok.slot BY <2>1, <3>2
    <3> QED BY <3>1, <3>2
  <2> QED BY <2>4, <2>5
<1>9. \A q \in R : \A v \in UserVa :
        Shown(p.mem, q, v) = IF q = c.as_pml4 /\ v \in W THEN Leaf(T.phys + (v - c.virt), perms)
                             ELSE Shown(k.mem, q, v)
  BY DEF Recorded, Laid, RecSpan
<1> HIDE DEF R
<1>10. RecOk(c, p.table, p.mem, sp)
  <2> DEFINE U == p.table[c.tok.slot]
  <2>1. /\ U.live = T.live /\ U.gen = T.gen /\ U.owner = T.owner /\ U.rights = T.rights
        /\ U.phys = T.phys /\ U.n = T.n
    BY <1>2, <1>8 DEF SameTokens
  <2>2. Need(perms) \subseteq T.rights /\ ~({"W", "X"} \subseteq perms) BY DEF Recorded
  <2>3. "MAP" \in T.rights BY <2>2 DEF Need
  <2>4. ("W" \in perms => "WRITE" \in T.rights) /\ ("X" \in perms => "EXECUTE" \in T.rights)
    BY <2>2 DEF Need
  <2>5. T.phys \in Nat /\ T.n \in Nat /\ Span(T.phys, T.n) \subseteq RamFrames
    BY <1>1, <1>2, <1>4 DEF Ledger, LiveIn, FramesIn, Entries
  <2> HIDE DEF U, T
  <2>6. ASSUME NEW v \in Span(c.virt, c.pages)
        PROVE  PageOk(Shown(p.mem, c.as_pml4, v), U, v - c.virt)
    <3> DEFINE f == T.phys + (v - c.virt)
               e == Leaf(f, perms)
    <3>1. Shown(p.mem, c.as_pml4, v) = e BY <1>3, <1>5, <1>9, <2>6 DEF RecSpan
    <3>2. f \in Span(T.phys, T.n) BY <1>1, <1>2, <2>5, <2>6 DEF Span, T
    <3>3. f # 0 BY <3>2, <2>5, SpacesAssumption
    <3> HIDE DEF f
    <3>4. e.phys = f /\ (e.write <=> "W" \in perms) /\ (e.nx <=> "X" \notin perms) BY DEF Leaf
    <3>5. e # Absent BY <3>3, <3>4 DEF Absent
    <3> HIDE DEF e
    <3>6. e.write => "WRITE" \in U.rights /\ e.nx BY <3>4, <2>1, <2>2, <2>4
    <3>7. ~e.nx => "EXECUTE" \in U.rights BY <3>4, <2>1, <2>4
    <3> QED BY <3>1, <3>4, <3>5, <3>6, <3>7, <2>1 DEF PageOk, f
  <2> QED BY <1>1, <2>1, <2>3, <2>6 DEF RecOk, U, T
<1>11. ASSUME NEW j \in 1 .. NRecs, k.g_maps[j].live
       PROVE  /\ RecOk(k.g_maps[j], p.table, p.mem, sp)
              /\ k.g_maps[j].as_pml4 = c.as_pml4 => RecSpan(k.g_maps[j]) \cap W = {}
  <2> DEFINE d == k.g_maps[j]
  <2>1. /\ RecOk(d, k.table, k.mem, sp) /\ d.as_pml4 \in R /\ d.owner \in Live(sp)
        /\ d.tok.slot \in Slots /\ k.table[d.tok.slot].live /\ RecSpan(d) \subseteq UserVa
    BY <1>11, RecFacts DEF R
  <2> HIDE DEF d
  <2>2. \A v \in RecSpan(d) : Shown(k.mem, d.as_pml4, v) # Absent
    BY <2>1 DEF RecOk, PageOk, RecSpan
  <2>3. d.as_pml4 = c.as_pml4 => RecSpan(d) \cap W = {} BY <1>1, <2>2
  <2>4. \A v \in RecSpan(d) : Shown(p.mem, d.as_pml4, v) = Shown(k.mem, d.as_pml4, v)
    BY <2>1, <2>3, <1>9
  <2>5. RecOk(d, p.table, p.mem, sp) BY <2>1, <2>4, <1>8, RecKept DEF SameTokens
  <2> QED BY <2>3, <2>5 DEF d
<1>12. Records(p.g_maps, p.table, p.mem, sp)
  <2>1. \A j \in 1 .. NRecs : ~p.g_maps[j].live => p.g_maps[j] = NoRec
    BY <1>1, <1>4, <1>6 DEF Records
  <2>2. \A j \in 1 .. NRecs : p.g_maps[j].live => RecOk(p.g_maps[j], p.table, p.mem, sp)
    BY <1>6, <1>10, <1>11
  <2>3. \A j, l \in 1 .. NRecs :
          p.g_maps[j].live /\ p.g_maps[l].live /\ j # l /\ p.g_maps[j].as_pml4 = p.g_maps[l].as_pml4 =>
            RecSpan(p.g_maps[j]) \cap RecSpan(p.g_maps[l]) = {}
    <3> SUFFICES ASSUME NEW j \in 1 .. NRecs, NEW l \in 1 .. NRecs, p.g_maps[j].live, j # l,
                        p.g_maps[l].live, p.g_maps[j].as_pml4 = p.g_maps[l].as_pml4
                 PROVE  RecSpan(p.g_maps[j]) \cap RecSpan(p.g_maps[l]) = {}
      OBVIOUS
    <3>1. CASE j = i BY <3>1, <1>6, <1>11
    <3>2. CASE l = i BY <3>2, <1>6, <1>11
    <3>3. CASE j # i /\ l # i BY <3>3, <1>4, <1>6 DEF Records
    <3> QED BY <3>1, <3>2, <3>3
  <2>4. ASSUME NEW r \in R, NEW v \in UserVa, Shown(p.mem, r, v) # Absent
        PROVE  \E j \in 1 .. NRecs : p.g_maps[j].live /\ p.g_maps[j].as_pml4 = r
                                     /\ v \in RecSpan(p.g_maps[j])
    <3>1. CASE r = c.as_pml4 /\ v \in W BY <3>1, <1>1, <1>6
    <3>2. CASE ~(r = c.as_pml4 /\ v \in W)
      <4>1. Shown(k.mem, r, v) # Absent BY <2>4, <3>2, <1>9
      <4>2. PICK j \in 1 .. NRecs : /\ k.g_maps[j].live /\ k.g_maps[j].as_pml4 = r
                                    /\ v \in RecSpan(k.g_maps[j])
        BY <4>1, <1>4 DEF Records, R
      <4>3. j # i BY <4>2, <1>1
      <4> QED BY <4>2, <4>3, <1>6
    <3> QED BY <3>1, <3>2
  <2> QED BY <2>1, <2>2, <2>3, <2>4 DEF Records, R
<1>13. Pins(p.g_maps, p.table)
  <2> SUFFICES ASSUME NEW s \in Slots
               PROVE  p.table[s].map_count = Cardinality(PinsOf(p.g_maps, s))
    BY DEF Pins
  <2>1. k.table[s].map_count = Cardinality(PinsOf(k.g_maps, s)) BY <1>4 DEF Pins
  <2>2. CASE s = c.tok.slot
    <3> DEFINE P == PinsOf(k.g_maps, s)
    <3>1. PinsOf(p.g_maps, s) = P \cup {i} BY <2>2, <1>1, <1>6 DEF PinsOf
    <3>2. i \notin P BY <1>1 DEF PinsOf
    <3>3. IsFiniteSet(P) BY PinsFinite
    <3> HIDE DEF P
    <3>4. Cardinality(P \cup {i}) = Cardinality(P) + 1 BY <3>2, <3>3, FS_AddElement
    <3> QED BY <2>1, <2>2, <3>1, <3>4, <1>8 DEF P
  <2>3. CASE s # c.tok.slot
    <3>1. PinsOf(p.g_maps, s) = PinsOf(k.g_maps, s) BY <2>3, <1>1, <1>6 DEF PinsOf
    <3> QED BY <2>1, <2>3, <3>1, <1>8
  <2> QED BY <2>2, <2>3
<1> QED BY <1>12, <1>13 DEF Good

\* What xas_map leaves: one record more, for the pages at virt, or nothing.
MapDone(k, p, sp, o, virt, tok) ==
    /\ \E pl : Good(p, sp, pl)
    /\ p.hint = k.hint /\ p.tlb \subseteq k.tlb
    /\ \A q \in Roots(sp) : Fresh(k, q) => Fresh(p, q)
    /\ SameTokens(k.table, p.table)
    /\ p.rc # "ok" => p.g_maps = k.g_maps /\ p.table = k.table /\ Same(k.mem, p.mem, Roots(sp))
    /\ p.rc = "ok" =>
         \E i \in 1 .. NRecs :
           /\ ~k.g_maps[i].live
           /\ \A j \in 1 .. NRecs : j # i => p.g_maps[j] = k.g_maps[j]
           /\ p.g_maps[i].live /\ p.g_maps[i].as_pml4 = sp[o].pml4 /\ p.g_maps[i].owner = o
           /\ p.g_maps[i].virt = virt /\ p.g_maps[i].tok = tok
           /\ \A q \in Roots(sp) : \A v \in UserVa :
                ~Covers(p.g_maps[i], q, v) => Shown(p.mem, q, v) = Shown(k.mem, q, v)

\* A call that failed, with all it did undone.
LEMMA NothingMapped ==
  ASSUME NEW k, NEW p, NEW sp, NEW pl, NEW pl2, NEW o, NEW virt, NEW tok,
         Good(k, sp, pl), Paged(p, Roots(sp), pl2),
         p.g_maps = k.g_maps, p.table = k.table, Same(k.mem, p.mem, Roots(sp)),
         p.hint = k.hint, p.tlb \subseteq k.tlb, p.rc # "ok"
  PROVE  MapDone(k, p, sp, o, virt, tok)
<1>1. Good(p, sp, pl2) BY SameGood
<1>2. \A q \in Roots(sp) : Fresh(k, q) => Fresh(p, q) BY DEF Fresh, Same
<1>3. SameTokens(k.table, p.table) BY DEF SameTokens
<1> QED BY <1>1, <1>2, <1>3 DEF MapDone

\* Undoing the pin.
LEMMA PinUnpin ==
  ASSUME NEW tb \in [Slots -> Entries], NEW tok \in [slot : Slots, gen : Nat],
         tb[tok.slot].live, tb[tok.slot].gen = tok.gen
  PROVE  LET tb2 == [tb EXCEPT ![tok.slot].map_count = @ + 1] IN
         /\ tb2 \in [Slots -> Entries] /\ SameTokens(tb, tb2) /\ Unpin(tb2, tok) = tb
<1> DEFINE s == tok.slot
           tb2 == [tb EXCEPT ![s].map_count = @ + 1]
<1>1. s \in Slots /\ tb[s] \in Entries OBVIOUS
<1>2. tb2 = [tb EXCEPT ![s] = [tb[s] EXCEPT !.map_count = tb[s].map_count + 1]] OBVIOUS
<1>3. tb[s].map_count \in Nat BY <1>1 DEF Entries
<1>4. tb2 \in [Slots -> Entries] BY <1>1, <1>2, <1>3 DEF Entries
<1>5. SameTokens(tb, tb2) BY <1>1, <1>2 DEF SameTokens, Entries
<1>6. tb2[s].live /\ tb2[s].gen = tok.gen /\ tb2[s].map_count = tb[s].map_count + 1
  BY <1>1, <1>2 DEF Entries
<1>7. Unpin(tb2, tok) = [tb2 EXCEPT ![s].map_count = @ - 1] BY <1>3, <1>6 DEF Unpin
<1>8. [tb2 EXCEPT ![s].map_count = @ - 1] = tb
  <2>1. [tb2[s] EXCEPT !.map_count = tb2[s].map_count - 1] = tb[s]
    <3> DEFINE e == tb[s]
               g == tb2[s]
    <3>1. g = [e EXCEPT !.map_count = e.map_count + 1] BY <1>1, <1>2
    <3>2. e \in Entries BY <1>1
    <3> HIDE DEF e, g
    <3>3. g.map_count = e.map_count + 1 /\ e.map_count \in Nat BY <3>1, <3>2 DEF Entries
    <3>4. g.map_count - 1 = e.map_count BY <3>3
    <3>5. [g EXCEPT !.map_count = e.map_count] = e BY <3>1, <3>2 DEF Entries
    <3> QED BY <3>4, <3>5 DEF e, g
  <2> QED BY <2>1, <1>1, <1>2, <1>4
<1> QED BY <1>4, <1>5, <1>7, <1>8

\* xas_map, on a token that may be of any slot and generation.
LEMMA XasMap ==
  ASSUME NEW k, NEW sp, NEW pl, Good(k, sp, pl), NEW o \in Live(sp), NEW virt \in Nat,
         NEW tok \in [slot : Slots, gen : Nat], NEW perms
  PROVE  MapDone(k, xas_map(k, sp[o].pml4, o, virt, tok, perms), sp, o, virt, tok)
<1> DEFINE R == Roots(sp)
           r == sp[o].pml4
           p == xas_map(k, r, o, virt, tok, perms)
           k1 == [k EXCEPT !.table[tok.slot].map_count = @ + 1]
           refused == \/ perms = {} \/ {"W", "X"} \subseteq perms
                      \/ virt < UserBase \/ virt >= UserTop
                      \/ Cardinality({i \in 1 .. NRecs : k.g_maps[i].live /\ k.g_maps[i].owner = o}) >= OwnerRecs
                      \/ ~MapAllowed(k, tok, o, Need(perms))
<1>1. p = IF refused THEN [k EXCEPT !.rc = "refused"] ELSE MapPages(k1, r, o, virt, tok, perms)
  BY DEF xas_map
<1>2. k \in KState /\ Paged(k, R, pl) BY DEF Good, Paged
<1>3. Same(k.mem, k.mem, R) BY DEF Same
<1>4. CASE refused
  <2>1. Alike(k, p) /\ p.rc = "refused" BY <1>1, <1>2, <1>4, SetRc DEF Codes
  <2> HIDE DEF p, refused
  <2>2. Paged(p, R, pl) BY <1>2, <2>1, AlikePaged
  <2>3. MapDone(k, p, sp, o, virt, tok)
    BY <1>3, <2>1, <2>2, NothingMapped DEF Alike
  <2> QED BY <2>3 DEF p
<1>5. CASE ~refused
  <2>1. /\ ~({"W", "X"} \subseteq perms) /\ virt >= UserBase /\ virt < UserTop
        /\ MapAllowed(k, tok, o, Need(perms))
    BY <1>5, FanFacts
  <2>2. p = MapPages(k1, r, o, virt, tok, perms) BY <1>1, <1>5
  <2> HIDE DEF refused, p
  <2> DEFINE s == tok.slot
             tb1 == [k.table EXCEPT ![s].map_count = @ + 1]
             T == k.table[s]
  <2>3. /\ s \in Slots /\ T.live /\ T.gen = tok.gen /\ T.owner = o
        /\ Need(perms) \subseteq T.rights
    BY <2>1 DEF MapAllowed, LookupLive
  <2>4. k.table \in [Slots -> Entries] BY <1>2 DEF KState
  <2>5. tb1 \in [Slots -> Entries] /\ SameTokens(k.table, tb1) /\ Unpin(tb1, tok) = k.table
    BY <2>3, <2>4, PinUnpin
  <2>6. k1 = [k EXCEPT !.table = tb1] OBVIOUS
  <2> HIDE DEF k1, tb1
  <2>7. /\ k1 \in KState /\ k1.table = tb1 /\ k1.bits = k.bits /\ k1.mem = k.mem
        /\ k1.hint = k.hint /\ k1.g_maps = k.g_maps /\ k1.tlb = k.tlb
    BY <1>2, <2>5, <2>6 DEF KState
  <2>8. Paged(k1, R, pl) BY <1>2, <2>5, <2>7, PinPaged
  <2> DEFINE n == k1.table[s].n
             free == {i \in 1 .. NRecs : ~k1.g_maps[i].live}
             l == MapLoop(k1, n, r, virt, tok, perms)
             x == xtok_map_release(k1, tok)
             c == [live |-> TRUE, as_pml4 |-> r, owner |-> o, virt |-> virt, tok |-> tok, pages |-> n]
  <2>9. p = IF n = 0 \/ n > UserTop - virt THEN [x EXCEPT !.rc = "range"]
            ELSE IF free = {} THEN [x EXCEPT !.rc = "nomem"]
            ELSE IF l.rc # "ok" THEN l
            ELSE [l EXCEPT !.g_maps[Min(free)] = c]
    BY <2>2 DEF MapPages
  <2>10. n = T.n /\ n \in Nat /\ T.phys \in Nat
    BY <2>3, <2>4, <2>5, <2>7 DEF SameTokens, Entries
  <2>11. /\ Paged(x, R, pl) /\ x.mem = k.mem /\ x.hint = k.hint /\ x.g_maps = k.g_maps
         /\ x.tlb = k.tlb /\ x.table = k.table
    <3>1. /\ Paged(x, R, pl) /\ x.mem = k1.mem /\ x.hint = k1.hint /\ x.g_maps = k1.g_maps
          /\ x.tlb = k1.tlb /\ x.table = Unpin(k1.table, tok)
      BY <2>8, MapRelease
    <3> QED BY <3>1, <2>5, <2>7
  <2>12. ASSUME NEW code \in Codes, code # "ok", p = [x EXCEPT !.rc = code]
         PROVE  MapDone(k, p, sp, o, virt, tok)
    <3> HIDE DEF x
    <3>1. x \in KState BY <2>11 DEF Paged
    <3>2. Alike(x, p) /\ p.rc = code BY <3>1, <2>12, SetRc
    <3>3. Paged(p, R, pl) BY <2>11, <3>2, AlikePaged
    <3> QED BY <1>3, <2>11, <2>12, <3>2, <3>3, NothingMapped DEF Alike
  <2>13. CASE n = 0 \/ n > UserTop - virt
    <3>1. p = [x EXCEPT !.rc = "range"] BY <2>9, <2>13
    <3>2. MapDone(k, p, sp, o, virt, tok) BY <2>12, <3>1 DEF Codes
    <3> QED BY <3>2 DEF p
  <2>14. CASE ~(n = 0 \/ n > UserTop - virt) /\ free = {}
    <3>1. p = [x EXCEPT !.rc = "nomem"] BY <2>9, <2>14
    <3>2. MapDone(k, p, sp, o, virt, tok) BY <2>12, <3>1 DEF Codes
    <3> QED BY <3>2 DEF p
  <2>15. CASE ~(n = 0 \/ n > UserTop - virt) /\ free # {}
    <3>1. virt + n <= UserTop /\ n > 0 BY <2>10, <2>15, FanFacts
    <3>2. Span(virt, n) \subseteq UserVa BY <2>1, <2>10, <3>1, FanFacts DEF Span, UserVa
    <3>3. r \in R BY DEF Roots
    <3> HIDE DEF x, n, r, R
    <3>4. Turned(k1, l, R, r, virt, n, tok, perms) BY <2>8, <2>10, <3>2, <3>3, MapAll
    <3>5. PICK pl2 : Paged(l, R, pl2) BY <3>4 DEF Turned
    <3>6. l.hint = k.hint /\ l.g_maps = k.g_maps /\ l.tlb \subseteq k.tlb /\ l \in KState
      BY <3>4, <3>5, <2>7 DEF Turned, Paged
    <3> HIDE DEF l
    <3>7. CASE l.rc # "ok"
      <4>1. p = l BY <2>9, <2>15, <3>7
      <4>2. l.table = k.table /\ Same(k.mem, l.mem, R) BY <3>4, <3>7, <2>5, <2>7 DEF Turned
      <4>3. MapDone(k, p, sp, o, virt, tok)
        BY <3>5, <3>6, <3>7, <4>1, <4>2, NothingMapped DEF R
      <4> QED BY <4>3 DEF p, r
    <3>8. CASE l.rc = "ok"
      <4> DEFINE i == Min(free)
      <4>1. i \in free
        <5>1. free \subseteq Nat OBVIOUS
        <5> QED BY <5>1, <2>15, Least
      <4>2. i \in 1 .. NRecs /\ ~k.g_maps[i].live BY <4>1, <2>7
      <4>3. p = [l EXCEPT !.g_maps[i] = c] BY <2>9, <2>15, <3>8
      <4> HIDE DEF i, free
      <4>4. c \in Recs
        <5>1. r \in Nat
          <6>1. r \in RamFrames BY <1>2, <3>3 DEF Paged, Forest, Tops
          <6> QED BY <6>1, SpacesAssumption
        <5>2. o \in Owners BY DEF Live
        <5> QED BY <5>1, <5>2, <2>10 DEF Recs
      <4>5. c.live /\ c.as_pml4 = r /\ c.owner = o /\ c.virt = virt /\ c.tok = tok /\ c.pages = n
        OBVIOUS
      <4> HIDE DEF c
      <4> DEFINE gm == [k.g_maps EXCEPT ![i] = c]
      <4>6. gm \in [1 .. NRecs -> Recs] /\ gm[i] = c /\ \A j \in 1 .. NRecs : j # i => gm[j] = k.g_maps[j]
        BY <4>2, <4>4, <1>2 DEF KState
      <4>7. p = [l EXCEPT !.g_maps = gm] BY <4>3, <3>6
      <4> HIDE DEF gm
      <4>8. /\ p \in KState /\ p.g_maps = gm /\ p.bits = l.bits /\ p.mem = l.mem /\ p.table = l.table
            /\ p.hint = k.hint /\ p.tlb \subseteq k.tlb /\ p.rc = "ok"
        BY <4>6, <4>7, <3>6, <3>8 DEF KState
      <4>9. Paged(p, R, pl2) BY <3>5, <4>8 DEF Paged
      <4>10. /\ p.table = tb1
             /\ \A v \in Span(virt, n) : Shown(k.mem, r, v) = Absent
             /\ Laid(k.mem, p.mem, R, r, virt, n, T.phys, perms)
        <5>1. /\ l.table = k1.table
              /\ \A v \in Span(virt, n) : Shown(k1.mem, r, v) = Absent
              /\ Laid(k1.mem, l.mem, R, r, virt, n, k1.table[tok.slot].phys, perms)
          BY <3>4, <3>8 DEF Turned
        <5>2. k1.table[tok.slot].phys = T.phys BY <2>3, <2>5, <2>7 DEF SameTokens
        <5> QED BY <5>1, <5>2, <2>7, <4>8
      <4>11. Recorded(k, p, sp, i, c, perms)
        <5>1. c.pages = k.table[c.tok.slot].n BY <4>5, <2>10
        <5>2. \A v \in RecSpan(c) : Shown(k.mem, c.as_pml4, v) = Absent
          BY <4>5, <4>10 DEF RecSpan
        <5>3. Laid(k.mem, p.mem, Roots(sp), c.as_pml4, c.virt, c.pages, k.table[c.tok.slot].phys, perms)
          BY <4>5, <4>10 DEF R
        <5>4. p.table = [k.table EXCEPT ![c.tok.slot].map_count = @ + 1] BY <4>5, <4>10 DEF tb1
        <5>5. c.owner \in Live(sp) /\ c.as_pml4 = sp[c.owner].pml4 BY <4>5 DEF r
        <5>6. c.virt >= UserBase /\ c.virt + c.pages <= UserTop BY <4>5, <2>1, <3>1
        <5>7. p.g_maps = [k.g_maps EXCEPT ![i] = c] BY <4>8 DEF gm
        <5> QED BY <5>1, <5>2, <5>3, <5>4, <5>5, <5>6, <5>7, <4>2, <4>4, <4>5, <2>1, <2>3 DEF Recorded
      <4>12. Good(p, sp, pl2) BY <4>9, <4>11, AddRecord DEF R
      <4>13. \A q \in R : \A v \in UserVa :
               Shown(p.mem, q, v) = IF q = r /\ v \in Span(virt, n) THEN Leaf(T.phys + (v - virt), perms)
                                    ELSE Shown(k.mem, q, v)
        BY <4>10 DEF Laid
      <4>14. \A q \in R : Fresh(k, q) => Fresh(p, q)
        <5> SUFFICES ASSUME NEW q \in R, Fresh(k, q), NEW t \in p.tlb
                     PROVE  t.va \in UserVa /\ t.pte # Absent /\ Shown(p.mem, q, t.va) = t.pte
          BY DEF Fresh
        <5>1. t.va \in UserVa /\ t.pte # Absent /\ Shown(k.mem, q, t.va) = t.pte BY <4>8 DEF Fresh
        <5>2. ~(q = r /\ t.va \in Span(virt, n)) BY <5>1, <4>10
        <5> QED BY <5>1, <5>2, <4>13
      <4>15. \A q \in R : \A v \in UserVa :
               ~Covers(p.g_maps[i], q, v) => Shown(p.mem, q, v) = Shown(k.mem, q, v)
        BY <4>5, <4>6, <4>8, <4>13 DEF Covers, RecSpan
      <4>16. SameTokens(k.table, p.table) BY <4>10, <2>5
      <4>17. MapDone(k, p, sp, o, virt, tok)
        BY <4>2, <4>5, <4>6, <4>8, <4>12, <4>14, <4>15, <4>16 DEF MapDone, R, r
      <4> QED BY <4>17 DEF p, r
    <3> QED BY <3>7, <3>8
  <2> QED BY <2>13, <2>14, <2>15
<1> QED BY <1>4, <1>5

-----------------------------------------------------------------------------
(* The ledger.                                                             *)

\* Tables that agree but for the slot s.
ElseSame(tb, tb2, s) == \A t \in Slots : t # s => tb2[t] = tb[t]

\* Good again, when every record keeps its token and its pages.
LEMMA KeepGood ==
  ASSUME NEW k, NEW p, NEW sp, NEW pl, NEW pl2, NEW s \in Slots, Good(k, sp, pl),
         Paged(p, Roots(sp), pl2), p.g_maps = k.g_maps, ElseSame(k.table, p.table, s),
         PinsOf(k.g_maps, s) = {}, p.table[s].map_count = 0,
         Same(k.mem, p.mem, Roots(sp))
  PROVE  Good(p, sp, pl2)
<1>1. ASSUME NEW i \in 1 .. NRecs, k.g_maps[i].live
      PROVE  RecOk(k.g_maps[i], p.table, p.mem, sp)
  <2> DEFINE c == k.g_maps[i]
  <2>1. /\ RecOk(c, k.table, k.mem, sp) /\ c.as_pml4 \in Roots(sp) /\ c.owner \in Live(sp)
        /\ c.tok.slot \in Slots /\ k.table[c.tok.slot].live /\ RecSpan(c) \subseteq UserVa
    BY <1>1, RecFacts
  <2>2. c.tok.slot # s BY <1>1 DEF PinsOf
  <2> HIDE DEF c
  <2>3. \A v \in RecSpan(c) : Shown(p.mem, c.as_pml4, v) = Shown(k.mem, c.as_pml4, v)
    BY <2>1 DEF Same
  <2>4. p.table[c.tok.slot] = k.table[c.tok.slot] BY <2>1, <2>2 DEF ElseSame
  <2>5. RecOk(c, p.table, p.mem, sp) BY <2>1, <2>3, <2>4, RecKept
  <2> QED BY <2>5 DEF c
<1>2. Records(k.g_maps, p.table, p.mem, sp) BY <1>1 DEF Good, Records, Same
<1>3. Pins(k.g_maps, p.table)
  <2> SUFFICES ASSUME NEW t \in Slots PROVE p.table[t].map_count = Cardinality(PinsOf(k.g_maps, t))
    BY DEF Pins
  <2>1. CASE t = s BY <2>1, FS_EmptySet
  <2>2. CASE t # s BY <2>2 DEF Good, Pins, ElseSame
  <2> QED BY <2>1, <2>2
<1> QED BY <1>2, <1>3 DEF Good

\* No record is on a slot that is free, and a free slot has no pin.
LEMMA FreeSlot ==
  ASSUME NEW k, NEW sp, NEW pl, Good(k, sp, pl), NEW s \in Slots, ~k.table[s].live
  PROVE  PinsOf(k.g_maps, s) = {} /\ k.table[s].map_count = 0
<1>1. PinsOf(k.g_maps, s) = {} BY DEF PinsOf, Good, Records, RecOk
<1> QED BY <1>1, FS_EmptySet DEF Good, Pins

\* The slot claim_slot finds.
LEMMA ClaimFree ==
  ASSUME NEW k \in KState, Claimable(k) # {}
  PROVE  ClaimSlot(k) \in Slots /\ ~k.table[ClaimSlot(k)].live
<1> DEFINE C == Claimable(k)
           i == Min(C)
<1>1. C \subseteq Nat BY DEF Claimable, Slots
<1>2. i \in C
  <2> HIDE DEF C
  <2> QED BY <1>1, Least DEF C
<1>3. i \in Slots /\ ~k.table[(k.hint + i) % NSlots].live BY <1>2 DEF Claimable
<1> HIDE DEF i
<1>4. k.hint \in Nat /\ i \in Nat /\ NSlots \in Nat /\ NSlots > 0
  BY <1>3, SpacesAssumption DEF KState, Slots
<1>5. (k.hint + i) % NSlots \in 0 .. (NSlots - 1) BY <1>4
<1> QED BY <1>3, <1>5 DEF ClaimSlot, Slots, i

\* What xtok_alloc_ram leaves: a token more, or nothing.
Allotted(k, p, sp, pl, o, n) ==
    /\ Good(p, sp, pl)
    /\ p.g_maps = k.g_maps /\ p.tlb = k.tlb /\ Same(k.mem, p.mem, Roots(sp))
    /\ p.rc \in {"ok", "nomem"}
    /\ p.rc # "ok" => p.table = k.table
    /\ p.rc = "ok" =>
         LET s == p.tok.slot IN
         /\ s \in Slots /\ ~k.table[s].live /\ ElseSame(k.table, p.table, s)
         /\ p.table[s].live /\ p.table[s].owner = o /\ p.table[s].n = n
         /\ p.table[s].gen = p.tok.gen /\ p.tok.gen \in Nat

\* The frames of a token come from the free ones.
LEMMA TokenAdded ==
  ASSUME NEW bts, NEW tb, NEW tables, Parted(bts, tb, tables), Ledger(tb), NEW s \in Slots,
         ~tb[s].live, NEW tb2, ElseSame(tb, tb2, s), tb2[s].live, tb2[s].n > 0,
         tb2[s].owner \in Owners, FramesIn(tb2, s) \subseteq bts
  PROVE  Parted(bts \ FramesIn(tb2, s), tb2, tables) /\ Ledger(tb2)
<1> DEFINE F == FramesIn(tb2, s)
<1>1. LiveIn(tb2) = LiveIn(tb) \cup {s} BY DEF LiveIn, ElseSame
<1>2. s \notin LiveIn(tb) BY DEF LiveIn
<1>3. \A t \in LiveIn(tb) : t \in Slots /\ t # s /\ FramesIn(tb2, t) = FramesIn(tb, t) /\ tb2[t] = tb[t]
  BY <1>2 DEF LiveIn, ElseSame, FramesIn
<1>4. F = FramesIn(tb2, s) OBVIOUS
<1> HIDE DEF F
<1>5. Taken(tb2) = Taken(tb) \cup F
  <2>1. \A x : x \in Taken(tb2) <=> \E t \in LiveIn(tb2) : x \in FramesIn(tb2, t) BY DEF Taken
  <2>2. \A x : x \in Taken(tb) <=> \E t \in LiveIn(tb) : x \in FramesIn(tb, t) BY DEF Taken
  <2>3. \A x : x \in Taken(tb2) <=> x \in Taken(tb) \/ x \in F BY <2>1, <2>2, <1>1, <1>3, <1>4
  <2> QED BY <2>3
<1>6. Parted(bts \ F, tb2, tables) BY <1>4, <1>5 DEF Parted
<1>7. \A t \in LiveIn(tb) : FramesIn(tb, t) \subseteq Taken(tb) BY DEF Taken
<1>8. \A t \in LiveIn(tb) : FramesIn(tb, t) \cap F = {} BY <1>7, <1>4 DEF Parted
<1>9. bts \subseteq RamFrames BY DEF Parted
<1>10. Ledger(tb2)
  <2>1. \A t \in LiveIn(tb2) : tb2[t].n > 0 /\ FramesIn(tb2, t) \subseteq RamFrames /\ tb2[t].owner \in Owners
    BY <1>1, <1>3, <1>4, <1>9 DEF Ledger
  <2>2. \A t, u \in LiveIn(tb2) : t # u => FramesIn(tb2, t) \cap FramesIn(tb2, u) = {}
    BY <1>1, <1>3, <1>4, <1>8 DEF Ledger
  <2> QED BY <2>1, <2>2 DEF Ledger
<1> QED BY <1>4, <1>6, <1>10

\* xtok_alloc_ram: a full table and a lack of frames change nothing; otherwise
\* the cleared frames are neither tables nor in a token.
LEMMA AllocRam ==
  ASSUME NEW k, NEW sp, NEW pl, Good(k, sp, pl), NEW o \in Owners, NEW n \in Nat, n > 0,
         NEW rights \in SUBSET UserRights
  PROVE  Allotted(k, xtok_alloc_ram(k, o, n, rights), sp, pl, o, n)
<1> DEFINE R == Roots(sp)
           F == Fits(k, n)
           f == Min(F)
           W == Span(f, n)
           s == ClaimSlot(k)
           m2 == [g \in DOMAIN k.mem |-> IF g \in W THEN EmptyTable ELSE k.mem[g]]
           z == [k EXCEPT !.mem = m2]
           e == [k.table[s] EXCEPT !.live = TRUE, !.owner = o, !.rights = rights, !.phys = f, !.n = n]
           tk == [slot |-> s, gen |-> k.table[s].gen]
           p == xtok_alloc_ram(k, o, n, rights)
<1>1. k \in KState /\ Paged(k, R, pl) BY DEF Good, Paged
<1>a. Same(k.mem, k.mem, R) BY DEF Same
<1>2. p = IF F = {} THEN [k EXCEPT !.rc = "nomem"]
          ELSE IF Claimable(k) = {} THEN [z EXCEPT !.rc = "nomem"]
          ELSE [z EXCEPT !.bits = @ \ W, !.table[s] = e, !.hint = (s + 1) % NSlots,
                         !.rc = "ok", !.tok = tk]
  BY DEF xtok_alloc_ram
<1> HIDE DEF p
<1>3. CASE F = {}
  <2>1. Alike(k, p) /\ p.rc = "nomem" BY <1>1, <1>2, <1>3, SetRc DEF Codes
  <2>2. Good(p, sp, pl) BY <2>1, AlikeGood
  <2>3. Allotted(k, p, sp, pl, o, n) BY <1>a, <2>1, <2>2 DEF Allotted, Alike
  <2> QED BY <2>3 DEF p
<1>4. CASE F # {}
  <2>1. k.bits \subseteq RamFrames /\ RamFrames \subseteq Nat BY <1>1, SpacesAssumption DEF KState
  <2>2. f \in k.bits /\ W \subseteq k.bits /\ f \in Nat
    <3>1. F \subseteq Nat BY <2>1 DEF Fits
    <3>2. f \in F
      <4> HIDE DEF F
      <4> QED BY <3>1, <1>4, Least DEF F
    <3> QED BY <3>2, <2>1 DEF Fits
  <2>3. W \cap DOMAIN pl = {} BY <2>2, <1>1 DEF Paged, Parted
  <2> HIDE DEF W, f, F
  <2>4. m2 \in [Frames -> [0 .. (Fan - 1) -> Ptes]]
    <3>1. EmptyTable \in [0 .. (Fan - 1) -> Ptes] BY DEF EmptyTable, Absent, Ptes
    <3>2. k.mem \in [Frames -> [0 .. (Fan - 1) -> Ptes]] BY <1>1 DEF KState
    <3> QED BY <3>1, <3>2
  <2>5. \A g \in DOMAIN pl : m2[g] = k.mem[g]
    <3>1. DOMAIN pl \subseteq Frames BY <1>1 DEF Paged, Forest, Frames
    <3>2. DOMAIN k.mem = Frames BY <1>1 DEF KState
    <3> QED BY <3>1, <3>2, <2>3
  <2> HIDE DEF m2
  <2>6. Forest(m2, pl, R) /\ Same(k.mem, m2, R)
    <3>1. Forest(k.mem, pl, R) BY <1>1 DEF Paged
    <3>2. Copied(k.mem, m2, pl) BY <2>5 DEF Copied
    <3> HIDE DEF R
    <3> QED BY <3>1, <3>2, SameTables
  <2>7. CASE Claimable(k) = {}
    <3>1. p = [z EXCEPT !.rc = "nomem"] BY <1>2, <1>4, <2>7
    <3>2. /\ p \in KState /\ p.mem = m2 /\ p.bits = k.bits /\ p.table = k.table /\ p.g_maps = k.g_maps
          /\ p.tlb = k.tlb /\ p.rc = "nomem"
      BY <1>1, <2>4, <3>1 DEF KState, Codes
    <3>3. Paged(p, R, pl) BY <1>1, <2>6, <3>2 DEF Paged
    <3>4. Good(p, sp, pl) BY <2>6, <3>2, <3>3, SameGood
    <3>5. Allotted(k, p, sp, pl, o, n) BY <2>6, <3>2, <3>4 DEF Allotted
    <3> QED BY <3>5 DEF p
  <2>8. CASE Claimable(k) # {}
    <3>1. s \in Slots /\ ~k.table[s].live BY <1>1, <2>8, ClaimFree
    <3> HIDE DEF s
    <3>2. k.table \in [Slots -> Entries] /\ k.table[s] \in Entries BY <1>1, <3>1 DEF KState
    <3>3. /\ e \in Entries /\ e.live /\ e.owner = o /\ e.n = n /\ e.phys = f
          /\ e.gen = k.table[s].gen /\ e.map_count = k.table[s].map_count
      BY <2>2, <3>2 DEF Entries
    <3> HIDE DEF e
    <3> DEFINE tb == [k.table EXCEPT ![s] = e]
               h == (s + 1) % NSlots
               b2 == k.bits \ W
    <3>4. tb \in [Slots -> Entries] /\ tb[s] = e /\ ElseSame(k.table, tb, s)
      BY <3>1, <3>2, <3>3 DEF ElseSame
    <3>5. h \in Slots
      <4>1. s \in Nat /\ NSlots \in Nat /\ NSlots > 0 BY <3>1, SpacesAssumption DEF Slots
      <4> HIDE DEF s
      <4>2. (s + 1) % NSlots \in 0 .. (NSlots - 1) BY <4>1
      <4> QED BY <4>2 DEF Slots
    <3>6. tk \in [slot : Slots, gen : Nat] /\ tk.slot = s /\ tk.gen = e.gen /\ tk.gen \in Nat
      BY <3>1, <3>2, <3>3, SpacesAssumption DEF Entries
    <3>7. p = [z EXCEPT !.bits = k.bits \ W, !.table = tb, !.hint = h, !.rc = "ok", !.tok = tk]
      BY <1>2, <1>4, <2>8
    <3> HIDE DEF tb, h, tk
    <3>8. b2 \in SUBSET RamFrames BY <2>1
    <3>9. p = [z EXCEPT !.bits = b2, !.table = tb, !.hint = h, !.rc = "ok", !.tok = tk] BY <3>7
    <3> HIDE DEF b2
    <3>10. /\ p \in KState /\ p.mem = m2 /\ p.bits = b2 /\ p.table = tb
           /\ p.g_maps = k.g_maps /\ p.tlb = k.tlb /\ p.rc = "ok" /\ p.tok = tk
      BY <1>1, <2>4, <3>4, <3>5, <3>6, <3>8, <3>9 DEF KState, Codes
    <3>11. FramesIn(tb, s) = W BY <3>3, <3>4 DEF FramesIn, W
    <3>12. Parted(b2, tb, DOMAIN pl) /\ Ledger(tb)
      <4>1. Parted(k.bits, k.table, DOMAIN pl) /\ Ledger(k.table) BY <1>1 DEF Paged
      <4>2. tb[s].live /\ tb[s].n > 0 /\ tb[s].owner \in Owners BY <3>3, <3>4
      <4> QED BY <4>1, <4>2, <3>1, <3>4, <3>11, <2>2, TokenAdded DEF b2
    <3>13. Paged(p, R, pl) BY <2>6, <3>10, <3>12 DEF Paged
    <3>14. PinsOf(k.g_maps, s) = {} /\ k.table[s].map_count = 0 BY <3>1, FreeSlot
    <3>15. p.table[s].map_count = 0 BY <3>3, <3>4, <3>10, <3>14
    <3>16. Good(p, sp, pl) BY <2>6, <3>1, <3>4, <3>10, <3>13, <3>14, <3>15, KeepGood
    <3>17. Allotted(k, p, sp, pl, o, n)
      BY <2>6, <3>1, <3>3, <3>4, <3>6, <3>10, <3>16 DEF Allotted
    <3> QED BY <3>17 DEF p
  <2> QED BY <2>7, <2>8
<1> QED BY <1>3, <1>4

\* The frames of a token go back to the free ones.
LEMMA TokenRemoved ==
  ASSUME NEW bts, NEW tb, NEW tables, Parted(bts, tb, tables), Ledger(tb), NEW s \in Slots,
         tb[s].live, NEW tb2, ElseSame(tb, tb2, s), ~tb2[s].live
  PROVE  Parted(bts \cup FramesIn(tb, s), tb2, tables) /\ Ledger(tb2)
<1> DEFINE F == FramesIn(tb, s)
<1>1. LiveIn(tb2) = LiveIn(tb) \ {s} /\ s \in LiveIn(tb) BY DEF LiveIn, ElseSame
<1>2. \A t \in LiveIn(tb2) : t \in Slots /\ t # s /\ FramesIn(tb2, t) = FramesIn(tb, t) /\ tb2[t] = tb[t]
  BY <1>1 DEF LiveIn, ElseSame, FramesIn
<1>3. F = FramesIn(tb, s) OBVIOUS
<1> HIDE DEF F
<1>4. \A t \in LiveIn(tb2) : FramesIn(tb, t) \cap F = {} BY <1>1, <1>2, <1>3 DEF Ledger
<1>5. Taken(tb) = Taken(tb2) \cup F /\ Taken(tb2) \cap F = {}
  <2>1. \A x : x \in Taken(tb2) <=> \E t \in LiveIn(tb2) : x \in FramesIn(tb2, t) BY DEF Taken
  <2>2. \A x : x \in Taken(tb) <=> \E t \in LiveIn(tb) : x \in FramesIn(tb, t) BY DEF Taken
  <2>3. \A x : x \in Taken(tb) <=> x \in Taken(tb2) \/ x \in F BY <2>1, <2>2, <1>1, <1>2, <1>3
  <2>4. \A x : ~(x \in Taken(tb2) /\ x \in F) BY <2>1, <1>2, <1>4
  <2> QED BY <2>3, <2>4
<1>6. Parted(bts \cup F, tb2, tables) BY <1>5 DEF Parted
<1>7. Ledger(tb2) BY <1>1, <1>2 DEF Ledger
<1> QED BY <1>3, <1>6, <1>7

\* What xtok_reclaim leaves: a token less, or nothing.
Reclaimed(k, p, sp, pl, tok) ==
    /\ Good(p, sp, pl)
    /\ p.g_maps = k.g_maps /\ p.mem = k.mem /\ p.tlb = k.tlb /\ p.hint = k.hint
    /\ LookupLive(k, tok) /\ k.table[tok.slot].map_count = 0 =>
         /\ ~p.table[tok.slot].live /\ ElseSame(k.table, p.table, tok.slot)
         /\ p.bits = k.bits \cup FramesIn(k.table, tok.slot)
    /\ ~(LookupLive(k, tok) /\ k.table[tok.slot].map_count = 0) =>
         p.table = k.table /\ p.bits = k.bits

\* A call that fails before it does anything.
LEMMA NotReclaimed ==
  ASSUME NEW k, NEW sp, NEW pl, Good(k, sp, pl), NEW tok, NEW code \in Codes,
         ~(LookupLive(k, tok) /\ k.table[tok.slot].map_count = 0)
  PROVE  Reclaimed(k, [k EXCEPT !.rc = code], sp, pl, tok)
<1>1. k \in KState BY DEF Good, Paged
<1> DEFINE p == [k EXCEPT !.rc = code]
<1>2. Alike(k, p) BY <1>1, SetRc
<1> HIDE DEF p
<1>3. Good(p, sp, pl) BY <1>2, AlikeGood
<1>4. Reclaimed(k, p, sp, pl, tok) BY <1>2, <1>3 DEF Reclaimed, Alike
<1> QED BY <1>4 DEF p

\* xtok_reclaim: only a token no record maps goes away.
LEMMA Reclaim ==
  ASSUME NEW k, NEW sp, NEW pl, Good(k, sp, pl), NEW tok \in [slot : Slots, gen : Nat]
  PROVE  Reclaimed(k, xtok_reclaim(k, tok), sp, pl, tok)
<1> DEFINE s == tok.slot
           e == k.table[s]
           g == IF e.gen + 1 = GenMod THEN 1 ELSE e.gen + 1
           F == Span(e.phys, e.n)
           b2 == k.bits \cup F
           tb == [k.table EXCEPT ![s] = FreeEntry(g)]
           p == xtok_reclaim(k, tok)
<1>1. k \in KState /\ Paged(k, Roots(sp), pl) BY DEF Good, Paged
<1>2. s \in Slots /\ k.table \in [Slots -> Entries] /\ e \in Entries BY <1>1 DEF KState
<1>3. p = IF ~LookupLive(k, tok) \/ e.map_count # 0 THEN [k EXCEPT !.rc = "busy"]
          ELSE [k EXCEPT !.table = tb, !.bits = b2, !.rc = "ok"]
  BY DEF xtok_reclaim
<1>4. CASE ~(LookupLive(k, tok) /\ e.map_count = 0)
  <2>1. p = [k EXCEPT !.rc = "busy"] BY <1>3, <1>4
  <2>2. "busy" \in Codes BY DEF Codes
  <2>3. Reclaimed(k, [k EXCEPT !.rc = "busy"], sp, pl, tok) BY <2>2, <1>4, NotReclaimed
  <2> QED BY <2>1, <2>3
<1>5. CASE LookupLive(k, tok) /\ e.map_count = 0
  <2>1. p = [k EXCEPT !.table = tb, !.bits = b2, !.rc = "ok"] BY <1>3, <1>5
  <2> HIDE DEF p
  <2>2. g \in 1 .. (GenMod - 1)
    <3> DEFINE x == e.gen
    <3>1. x \in 1 .. (GenMod - 1) BY <1>2 DEF Entries
    <3>2. GenMod \in Nat /\ GenMod > 1 BY SpacesAssumption
    <3>3. g = IF x + 1 = GenMod THEN 1 ELSE x + 1 OBVIOUS
    <3> HIDE DEF x, g
    <3> QED BY <3>1, <3>2, <3>3
  <2> HIDE DEF g
  <2>3. FreeEntry(g) \in Entries /\ ~FreeEntry(g).live /\ FreeEntry(g).map_count = 0
    BY <2>2 DEF FreeEntry, Entries
  <2>4. tb \in [Slots -> Entries] /\ tb[s] = FreeEntry(g) /\ ElseSame(k.table, tb, s)
    BY <1>2, <2>3 DEF ElseSame
  <2>5. e.live BY <1>5 DEF LookupLive
  <2>6. F = FramesIn(k.table, s) BY DEF FramesIn
  <2>7. b2 \in SUBSET RamFrames
    BY <1>1, <1>2, <2>5, <2>6 DEF KState, Paged, Ledger, LiveIn
  <2> HIDE DEF tb, b2
  <2>8. /\ p \in KState /\ p.table = tb /\ p.bits = b2 /\ p.g_maps = k.g_maps /\ p.mem = k.mem
        /\ p.tlb = k.tlb /\ p.hint = k.hint
    BY <1>1, <2>1, <2>4, <2>7 DEF KState, Codes
  <2>9. ~tb[s].live /\ tb[s].map_count = 0 BY <2>3, <2>4
  <2>10. Parted(b2, tb, DOMAIN pl) /\ Ledger(tb)
    <3>1. Parted(k.bits, k.table, DOMAIN pl) /\ Ledger(k.table) BY <1>1 DEF Paged
    <3> HIDE DEF e
    <3> QED BY <3>1, <1>2, <2>4, <2>5, <2>6, <2>9, TokenRemoved DEF b2, e
  <2>11. Paged(p, Roots(sp), pl) BY <1>1, <2>8, <2>10 DEF Paged
  <2>12. PinsOf(k.g_maps, s) = {}
    <3> DEFINE P == PinsOf(k.g_maps, s)
    <3>1. Cardinality(P) = 0 BY <1>2, <1>5 DEF Good, Pins
    <3>2. IsFiniteSet(P) BY PinsFinite
    <3> HIDE DEF P
    <3>3. P = {} BY <3>1, <3>2, FS_EmptySet
    <3> QED BY <3>3 DEF P
  <2>13. Same(k.mem, p.mem, Roots(sp)) BY <2>8 DEF Same
  <2>14. Good(p, sp, pl) BY <1>2, <2>4, <2>8, <2>9, <2>11, <2>12, <2>13, KeepGood
  <2>15. Reclaimed(k, p, sp, pl, tok) BY <1>5, <2>4, <2>6, <2>8, <2>9, <2>14 DEF Reclaimed, b2
  <2> QED BY <2>15 DEF p
<1> QED BY <1>4, <1>5

\* xtok_release_owned: the owner's own token, or nothing.
LEMMA ReleaseOwned ==
  ASSUME NEW k, NEW sp, NEW pl, Good(k, sp, pl), NEW tok \in [slot : Slots, gen : Nat], NEW o
  PROVE  LET p == xtok_release_owned(k, tok, o) IN
         /\ Good(p, sp, pl)
         /\ p.g_maps = k.g_maps /\ p.mem = k.mem /\ p.tlb = k.tlb
         /\ p.table = k.table \/ (~p.table[tok.slot].live /\ ElseSame(k.table, p.table, tok.slot))
<1> DEFINE p == xtok_release_owned(k, tok, o)
<1>1. p = xtok_reclaim(k, tok) \/ p = [k EXCEPT !.rc = "badtoken"] BY DEF xtok_release_owned
<1> HIDE DEF p
<1>2. CASE p = xtok_reclaim(k, tok)
  <2>1. Reclaimed(k, p, sp, pl, tok) BY <1>2, Reclaim
  <2> QED BY <2>1 DEF Reclaimed, p
<1>3. CASE p = [k EXCEPT !.rc = "badtoken"]
  <2>1. k \in KState BY DEF Good, Paged
  <2>2. Alike(k, p) BY <1>3, <2>1, SetRc DEF Codes
  <2>3. Good(p, sp, pl) BY <2>2, AlikeGood
  <2> QED BY <2>2, <2>3 DEF Alike, p
<1> QED BY <1>1, <1>2, <1>3

-----------------------------------------------------------------------------
(* A tree and its end.                                                     *)

\* The tables placed in the tree r.
TreeIn(pl, r) == {f \in DOMAIN pl : pl[f].root = r}

\* The frames xas_destroy walks through are those placed under the root.
LEMMA TreeFrames ==
  ASSUME NEW k \in KState, NEW pl, NEW R, Forest(k.mem, pl, R), NEW r \in R
  PROVE  Tree(k, r) = TreeIn(pl, r)
<1> DEFINE m == k.mem
           pdpts == UserEntries(k, r)
           pds == UNION {Below(k, f) : f \in pdpts}
           pts == UNION {Below(k, f) : f \in pds}
           At(f, lv) == f \in DOMAIN pl /\ pl[f].lv = lv /\ pl[f].root = r
<1>1. Tree(k, r) = {r} \cup pdpts \cup pds \cup pts BY DEF Tree
<1>2. pl \in [DOMAIN pl -> Places] /\ DOMAIN pl \subseteq RamFrames /\ RamFrames \subseteq Frames
        /\ r \in DOMAIN pl /\ At(r, 3) /\ \A f : At(f, 3) => f = r
  BY DEF Forest, Tops, Frames
<1>3. \A f \in DOMAIN pl : f \in Nat /\ f # 0 /\ DOMAIN m[f] = 0 .. (Fan - 1)
  BY <1>2, SpacesAssumption DEF KState, Frames
<1>4. ASSUME NEW f, NEW lv \in 1 .. 3, At(f, lv), NEW i \in UserIdx(lv), m[f][i] # Absent
      PROVE  At(m[f][i].phys, lv - 1)
  <2>1. f \in DOMAIN pl /\ pl[f].lv = lv /\ pl[f].root = r /\ lv # 0 BY <1>4
  <2>2. i \in UserIdx(pl[f].lv) /\ pl[f].lv # 0 BY <2>1
  <2>3. m[f][i].phys \in DOMAIN pl /\ pl[m[f][i].phys] = Placed(lv - 1, f, i, r)
    BY <1>4, <2>1, <2>2, Enter
  <2> QED BY <2>3 DEF Placed
<1>5. ASSUME NEW f, NEW lv \in 0 .. 2, At(f, lv)
      PROVE  \E g : At(g, lv + 1) /\ \E i \in UserIdx(lv + 1) : m[g][i] # Absent /\ m[g][i].phys = f
  <2> DEFINE g == pl[f].from
             i == pl[f].idx
  <2>1. pl[f].lv # 3 BY <1>5
  <2>2. At(g, lv + 1) /\ i \in UserIdx(lv + 1) /\ m[g][i].phys = f BY <1>5, <2>1 DEF Forest, Up
  <2>3. m[g][i] # Absent BY <1>3, <1>5, <2>2 DEF Absent
  <2> QED BY <2>2, <2>3
<1>6. \A f : f \in pdpts <=> \E i \in UserIdx(3) : m[r][i] # Absent /\ m[r][i].phys = f
  BY DEF UserEntries, UserIdx
<1>7. \A f \in DOMAIN pl : \A g : g \in Below(k, f) <=> \E i \in 0 .. (Fan - 1) : m[f][i] # Absent /\ m[f][i].phys = g
  BY <1>3 DEF Below
<1>8. UserIdx(2) = 0 .. (Fan - 1) /\ UserIdx(1) = 0 .. (Fan - 1) BY DEF UserIdx
<1> HIDE DEF At
<1>9. \A f : f \in pdpts <=> At(f, 2)
  <2> HIDE DEF pdpts
  <2> SUFFICES ASSUME NEW f PROVE f \in pdpts <=> At(f, 2) OBVIOUS
  <2>1. f \in pdpts => At(f, 2) BY <1>2, <1>4, <1>6
  <2>2. ASSUME At(f, 2) PROVE f \in pdpts
    <3>1. PICK g : At(g, 3) /\ \E i \in UserIdx(3) : m[g][i] # Absent /\ m[g][i].phys = f BY <2>2, <1>5
    <3>2. g = r BY <3>1, <1>2
    <3> QED BY <3>1, <3>2, <1>6
  <2> QED BY <2>1, <2>2
<1>10. \A f : f \in pds <=> At(f, 1)
  <2>1. \A f : f \in pds <=> \E h \in pdpts : f \in Below(k, h) OBVIOUS
  <2> HIDE DEF pds, pdpts
  <2> SUFFICES ASSUME NEW f PROVE f \in pds <=> At(f, 1) OBVIOUS
  <2>2. \A h : At(h, 2) => h \in DOMAIN pl BY DEF At
  <2>3. ASSUME f \in pds PROVE At(f, 1)
    <3>1. PICK g : At(g, 2) /\ f \in Below(k, g) BY <2>1, <2>3, <1>9
    <3>2. g \in DOMAIN pl BY <3>1, <2>2
    <3>3. PICK i \in 0 .. (Fan - 1) : m[g][i] # Absent /\ m[g][i].phys = f BY <3>1, <3>2, <1>7
    <3>4. At(m[g][i].phys, 2 - 1)
      <4>1. i \in UserIdx(2) /\ 2 \in 1 .. 3 BY DEF UserIdx
      <4> QED BY <4>1, <3>1, <3>3, <1>4
    <3> QED BY <3>3, <3>4
  <2>4. ASSUME At(f, 1) PROVE f \in pds
    <3>1. PICK g : At(g, 2) /\ \E i \in UserIdx(2) : m[g][i] # Absent /\ m[g][i].phys = f BY <2>4, <1>5
    <3>2. f \in Below(k, g) BY <3>1, <2>2, <1>7, <1>8
    <3> QED BY <3>1, <3>2, <2>1, <1>9
  <2> QED BY <2>3, <2>4
<1>11. \A f : f \in pts <=> At(f, 0)
  <2>1. \A f : f \in pts <=> \E h \in pds : f \in Below(k, h) OBVIOUS
  <2> HIDE DEF pts, pds
  <2> SUFFICES ASSUME NEW f PROVE f \in pts <=> At(f, 0) OBVIOUS
  <2>2. \A h : At(h, 1) => h \in DOMAIN pl BY DEF At
  <2>3. ASSUME f \in pts PROVE At(f, 0)
    <3>1. PICK g : At(g, 1) /\ f \in Below(k, g) BY <2>1, <2>3, <1>10
    <3>2. g \in DOMAIN pl BY <3>1, <2>2
    <3>3. PICK i \in 0 .. (Fan - 1) : m[g][i] # Absent /\ m[g][i].phys = f BY <3>1, <3>2, <1>7
    <3>4. At(m[g][i].phys, 1 - 1)
      <4>1. i \in UserIdx(1) /\ 1 \in 1 .. 3 BY DEF UserIdx
      <4> QED BY <4>1, <3>1, <3>3, <1>4
    <3> QED BY <3>3, <3>4
  <2>4. ASSUME At(f, 0) PROVE f \in pts
    <3>1. PICK g : At(g, 1) /\ \E i \in UserIdx(1) : m[g][i] # Absent /\ m[g][i].phys = f BY <2>4, <1>5
    <3>2. f \in Below(k, g) BY <3>1, <2>2, <1>7, <1>8
    <3> QED BY <3>1, <3>2, <2>1, <1>10
  <2> QED BY <2>3, <2>4
<1> HIDE DEF pdpts, pds, pts
<1>12. \A f : f \in TreeIn(pl, r) <=> At(f, 0) \/ At(f, 1) \/ At(f, 2) \/ At(f, 3)
  BY <1>2 DEF TreeIn, At, Places
<1>13. \A f : f \in Tree(k, r) <=> f \in TreeIn(pl, r) BY <1>1, <1>2, <1>9, <1>10, <1>11, <1>12
<1> QED BY <1>13

\* The forest without one tree.
Cut(pl, r) == [f \in DOMAIN pl \ TreeIn(pl, r) |-> pl[f]]

\* Without the tree r the others stand as before.
LEMMA CutForest ==
  ASSUME NEW m, NEW pl, NEW R, Forest(m, pl, R), NEW r \in R
  PROVE  Forest(m, Cut(pl, r), R \ {r})
<1> DEFINE q == Cut(pl, r)
           D == DOMAIN pl \ TreeIn(pl, r)
<1>1. DOMAIN q = D /\ \A f \in D : q[f] = pl[f] BY DEF Cut
<1>2. \A f \in D : f \in DOMAIN pl /\ pl[f].root # r BY DEF TreeIn
<1>3. \A f \in DOMAIN pl : pl[f].root # r => f \in D BY DEF TreeIn
<1>a. q = [f \in D |-> pl[f]] BY DEF Cut
<1> HIDE DEF D, q
<1>4. q \in [DOMAIN q -> Places] BY <1>a, <1>1, <1>2 DEF Forest
<1>5. DOMAIN q \subseteq RamFrames BY <1>1, <1>2 DEF Forest
<1>6. Down(m, q)
  <2> SUFFICES ASSUME NEW f \in D, NEW i \in UserIdx(pl[f].lv), pl[f].lv # 0, m[f][i] # Absent
               PROVE  /\ m[f][i].phys \in D
                      /\ q[m[f][i].phys] = Placed(pl[f].lv - 1, f, i, pl[f].root)
    BY <1>1 DEF Down
  <2>1. f \in DOMAIN pl /\ pl[f].root # r BY <1>2
  <2>2. m[f][i].phys \in DOMAIN pl /\ pl[m[f][i].phys] = Placed(pl[f].lv - 1, f, i, pl[f].root)
    BY <2>1, Enter
  <2>3. pl[m[f][i].phys].root # r BY <2>1, <2>2 DEF Placed
  <2> QED BY <2>2, <2>3, <1>1, <1>3
<1>7. Up(m, q)
  <2> SUFFICES ASSUME NEW f \in D, pl[f].lv # 3
               PROVE  /\ pl[f].from \in D
                      /\ q[pl[f].from].lv = pl[f].lv + 1 /\ q[pl[f].from].root = pl[f].root
                      /\ pl[f].idx \in UserIdx(pl[f].lv + 1)
                      /\ m[pl[f].from][pl[f].idx].phys = f
    BY <1>1 DEF Up
  <2>1. f \in DOMAIN pl /\ pl[f].root # r BY <1>2
  <2>2. /\ pl[f].from \in DOMAIN pl
        /\ pl[pl[f].from].lv = pl[f].lv + 1 /\ pl[pl[f].from].root = pl[f].root
        /\ pl[f].idx \in UserIdx(pl[f].lv + 1)
        /\ m[pl[f].from][pl[f].idx].phys = f
    BY <2>1 DEF Forest, Up
  <2>3. pl[f].from \in D BY <2>1, <2>2, <1>3
  <2> QED BY <2>2, <2>3, <1>1
<1>8. Tops(q, R \ {r})
  <2>1. \A x \in R \ {r} : x \in D /\ pl[x].root = x BY <1>3 DEF Forest, Tops
  <2>2. \A f \in D : (pl[f].lv = 3 <=> f \in R) /\ pl[f].root \in R \ {r} BY <1>2 DEF Forest, Tops
  <2>3. r \notin D BY <1>2 DEF Forest, Tops
  <2> QED BY <1>1, <2>1, <2>2, <2>3 DEF Tops
<1>9. Forest(m, q, R \ {r}) BY <1>4, <1>5, <1>6, <1>7, <1>8 DEF Forest
<1> QED BY <1>9 DEF q

\* When a space is gone, the others are as before.
LEMMA SpaceGone ==
  ASSUME NEW sp \in Spaces, Unshared(sp), NEW o \in Live(sp)
  PROVE  LET sp2 == [sp EXCEPT ![o] = NoSpace] IN
         /\ sp2 \in Spaces /\ Live(sp2) = Live(sp) \ {o} /\ \A q \in Live(sp2) : sp2[q] = sp[q]
         /\ Roots(sp2) = Roots(sp) \ {sp[o].pml4} /\ sp[o].pml4 \in Roots(sp)
         /\ Unshared(sp2)
<1> DEFINE sp2 == [sp EXCEPT ![o] = NoSpace]
<1>1. o \in Owners BY DEF Live
<1>2. sp2 \in Spaces BY <1>1 DEF Spaces, NoSpace, States
<1>3. \A q \in Owners : sp2[q] = IF q = o THEN NoSpace ELSE sp[q] BY DEF Spaces
<1>4. NoSpace.state = "dead" BY DEF NoSpace
<1> HIDE DEF sp2
<1>5. Live(sp2) = Live(sp) \ {o} BY <1>3, <1>4 DEF Live
<1>6. \A q \in Live(sp2) : sp2[q] = sp[q] BY <1>3, <1>5 DEF Live
<1>7. Roots(sp2) = Roots(sp) \ {sp[o].pml4}
  <2>1. \A x : x \in Roots(sp2) <=> \E q \in Live(sp) \ {o} : x = sp[q].pml4 BY <1>5, <1>6 DEF Roots
  <2>2. \A x : x \in Roots(sp) <=> \E q \in Live(sp) : x = sp[q].pml4 BY DEF Roots
  <2>3. \A x : x \in Roots(sp2) <=> x \in Roots(sp) /\ x # sp[o].pml4 BY <2>1, <2>2 DEF Unshared
  <2> QED BY <2>3
<1>8. sp[o].pml4 \in Roots(sp) BY DEF Roots
<1>9. Unshared(sp2) BY <1>5, <1>6 DEF Unshared
<1> QED BY <1>2, <1>5, <1>6, <1>7, <1>8, <1>9 DEF sp2

\* What xas_destroy leaves.
Destroyed(k, p, sp, o, pl) ==
    LET r == sp[o].pml4
        sp2 == [sp EXCEPT ![o] = NoSpace] IN
    /\ Good(p, sp2, Cut(pl, r))
    /\ p.bits = k.bits \cup TreeIn(pl, r)
    /\ p.g_maps = [j \in 1 .. NRecs |-> IF k.g_maps[j].live /\ k.g_maps[j].as_pml4 = r THEN NoRec
                                        ELSE k.g_maps[j]]
    /\ SameTokens(k.table, p.table)
    /\ p.tlb \subseteq k.tlb

\* xas_destroy gives back the tables of one space and drops its records.
LEMMA Destroy ==
  ASSUME NEW k, NEW sp \in Spaces, NEW pl, Good(k, sp, pl), Unshared(sp), NEW o \in Live(sp)
  PROVE  Destroyed(k, xas_destroy(k, sp[o].pml4), sp, o, pl)
<1> DEFINE r == sp[o].pml4
           R == Roots(sp)
           sp2 == [sp EXCEPT ![o] = NoSpace]
           D == RecordsOf(k, r)
           d == DropRecords(k, D)
           b2 == d.bits \cup Tree(d, r)
           p == xas_destroy(k, r)
           pl2 == Cut(pl, r)
           X == TreeIn(pl, r)
<1>1. p = [d EXCEPT !.bits = b2] BY DEF xas_destroy
<1>2. D \subseteq 1 .. NRecs /\ \A j \in D : k.g_maps[j].live BY DEF RecordsOf
<1>d. \A j \in 1 .. NRecs : j \in D <=> k.g_maps[j].live /\ k.g_maps[j].as_pml4 = r BY DEF RecordsOf
<1>3. /\ sp2 \in Spaces /\ Live(sp2) = Live(sp) \ {o} /\ \A q \in Live(sp2) : sp2[q] = sp[q]
      /\ Roots(sp2) = R \ {r} /\ r \in R
  BY SpaceGone
<1> HIDE DEF D, p, r, sp2, R
<1>4. Dropped(k, d, sp, pl, D) BY <1>2, DropMany
<1> HIDE DEF d
<1>5. Good(d, sp, pl) /\ d.bits = k.bits BY <1>4 DEF Dropped
<1>6. d \in KState /\ Forest(d.mem, pl, R) /\ Parted(d.bits, d.table, DOMAIN pl) /\ Ledger(d.table)
  BY <1>5 DEF Good, Paged, R
<1>7. Tree(d, r) = X BY <1>3, <1>6, TreeFrames
<1>8. X \subseteq DOMAIN pl /\ DOMAIN pl2 = DOMAIN pl \ X BY DEF TreeIn, Cut
<1>9. Forest(d.mem, pl2, R \ {r}) BY <1>3, <1>6, CutForest
<1> HIDE DEF pl2, X
<1>10. b2 \in SUBSET RamFrames BY <1>6, <1>7, <1>8 DEF Forest, KState
<1>11. Parted(b2, d.table, DOMAIN pl2) BY <1>6, <1>7, <1>8 DEF Parted
<1>12. b2 = k.bits \cup X BY <1>5, <1>7
<1> HIDE DEF b2
<1>13. /\ p \in KState /\ p.bits = b2 /\ p.mem = d.mem /\ p.table = d.table /\ p.g_maps = d.g_maps
       /\ p.tlb = d.tlb
  BY <1>1, <1>6, <1>10 DEF KState
<1>14. Paged(p, Roots(sp2), pl2) BY <1>3, <1>6, <1>9, <1>11, <1>13 DEF Paged
<1>15. d.g_maps = [j \in 1 .. NRecs |-> IF j \in D THEN NoRec ELSE k.g_maps[j]] BY <1>4 DEF Dropped
<1>16. \A j \in 1 .. NRecs : d.g_maps[j].live => d.g_maps[j].as_pml4 # r
  <2>1. NoRec.live = FALSE BY DEF NoRec
  <2> QED BY <2>1, <1>15, <1>d
<1>17. ASSUME NEW j \in 1 .. NRecs, d.g_maps[j].live
       PROVE  RecOk(d.g_maps[j], d.table, d.mem, sp2)
  <2> DEFINE c == d.g_maps[j]
  <2>1. /\ RecOk(c, d.table, d.mem, sp) /\ c.owner \in Live(sp) /\ c.as_pml4 = sp[c.owner].pml4
        /\ c.tok.slot \in Slots /\ d.table[c.tok.slot].live
    BY <1>5, <1>17, RecFacts
  <2>2. c.owner # o BY <2>1, <1>16, <1>17 DEF r
  <2> HIDE DEF c
  <2>3. c.owner \in Live(sp2) /\ sp2[c.owner].pml4 = sp[c.owner].pml4 BY <2>1, <2>2, <1>3
  <2>4. RecOk(c, d.table, d.mem, sp2) BY <2>1, <2>3, RecKept
  <2> QED BY <2>4 DEF c
<1>18. Records(d.g_maps, d.table, d.mem, sp2)
  <2>1. Records(d.g_maps, d.table, d.mem, sp) BY <1>5 DEF Good
  <2>2. Roots(sp2) \subseteq Roots(sp) BY <1>3 DEF R
  <2> QED BY <2>1, <2>2, <1>17 DEF Records
<1>19. Pins(d.g_maps, d.table) BY <1>5 DEF Good
<1>20. Good(p, sp2, pl2) BY <1>13, <1>14, <1>18, <1>19 DEF Good
<1>21. p.g_maps = [j \in 1 .. NRecs |-> IF k.g_maps[j].live /\ k.g_maps[j].as_pml4 = r THEN NoRec
                                        ELSE k.g_maps[j]]
  BY <1>13, <1>15, <1>d
<1>22. SameTokens(k.table, p.table) /\ p.tlb \subseteq k.tlb BY <1>4, <1>13 DEF Dropped
<1>23. p.bits = k.bits \cup X BY <1>12, <1>13
<1> QED BY <1>20, <1>21, <1>22, <1>23 DEF Destroyed, p, r, sp2, pl2, X

\* The forest with one more root, whose user half is empty.
Rooted(pl, f) == [g \in DOMAIN pl \cup {f} |-> IF g = f THEN Placed(3, 0, 0, f) ELSE pl[g]]

\* A cleared frame is the root of a new tree that shows nothing.
LEMMA NewRoot ==
  ASSUME NEW m, NEW m2, NEW pl, NEW R, Forest(m, pl, R), Copied(m, m2, pl),
         NEW f \in RamFrames, f \notin DOMAIN pl, \A i \in UserIdx(3) : m2[f][i] = Absent
  PROVE  /\ Forest(m2, Rooted(pl, f), R \cup {f})
         /\ \A va \in UserVa : Shown(m2, f, va) = Absent
<1> DEFINE q == Rooted(pl, f)
           D == DOMAIN pl \cup {f}
<1>1. DOMAIN q = D /\ q[f] = Placed(3, 0, 0, f) /\ \A g \in DOMAIN pl : g # f /\ q[g] = pl[g]
  BY DEF Rooted
<1>2. Forest(m2, pl, R) BY SameTables
<1>3. f \in Nat BY SpacesAssumption
<1>4. Placed(3, 0, 0, f) \in Places BY <1>3 DEF Places, Placed
<1>a. q = [g \in D |-> IF g = f THEN Placed(3, 0, 0, f) ELSE pl[g]] BY DEF Rooted
<1> HIDE DEF q
<1>5. q \in [DOMAIN q -> Places] BY <1>a, <1>1, <1>2, <1>4 DEF Forest
<1>6. DOMAIN q \subseteq RamFrames BY <1>1, <1>2 DEF Forest
<1>7. Down(m2, q)
  <2> SUFFICES ASSUME NEW g \in D, NEW i \in UserIdx(q[g].lv), q[g].lv # 0, m2[g][i] # Absent
               PROVE  /\ m2[g][i].phys \in D
                      /\ q[m2[g][i].phys] = Placed(q[g].lv - 1, g, i, q[g].root)
    BY <1>1 DEF Down
  <2>1. g # f BY <1>1 DEF Placed
  <2>2. g \in DOMAIN pl /\ q[g] = pl[g] BY <2>1, <1>1
  <2>3. m2[g][i].phys \in DOMAIN pl /\ pl[m2[g][i].phys] = Placed(pl[g].lv - 1, g, i, pl[g].root)
    BY <2>2, <1>2, Enter
  <2> QED BY <2>2, <2>3, <1>1
<1>8. Up(m2, q)
  <2> SUFFICES ASSUME NEW g \in D, q[g].lv # 3
               PROVE  /\ q[g].from \in D
                      /\ q[q[g].from].lv = q[g].lv + 1 /\ q[q[g].from].root = q[g].root
                      /\ q[g].idx \in UserIdx(q[g].lv + 1)
                      /\ m2[q[g].from][q[g].idx].phys = g
    BY <1>1 DEF Up
  <2>1. g # f BY <1>1 DEF Placed
  <2>2. g \in DOMAIN pl /\ q[g] = pl[g] BY <2>1, <1>1
  <2>3. /\ pl[g].from \in DOMAIN pl
        /\ pl[pl[g].from].lv = pl[g].lv + 1 /\ pl[pl[g].from].root = pl[g].root
        /\ pl[g].idx \in UserIdx(pl[g].lv + 1)
        /\ m2[pl[g].from][pl[g].idx].phys = g
    BY <2>2, <1>2 DEF Forest, Up
  <2> QED BY <2>2, <2>3, <1>1
<1>9. Tops(q, R \cup {f})
  <2>1. q[f].lv = 3 /\ q[f].root = f BY <1>1 DEF Placed
  <2>2. R \subseteq DOMAIN pl BY <1>2 DEF Forest, Tops
  <2>3. \A g \in DOMAIN pl : (q[g].lv = 3 <=> g \in R \cup {f}) /\ q[g].root \in R
    BY <1>1, <1>2 DEF Forest, Tops
  <2>4. \A r \in R : q[r].root = r BY <1>1, <1>2, <2>2 DEF Forest, Tops
  <2> QED BY <1>1, <2>1, <2>2, <2>3, <2>4 DEF Tops
<1>10. Forest(m2, q, R \cup {f}) BY <1>5, <1>6, <1>7, <1>8, <1>9 DEF Forest
<1>11. ASSUME NEW va \in UserVa PROVE Shown(m2, f, va) = Absent
  <2>1. Index(va, 3) \in UserIdx(3) BY IndexOf
  <2>2. T2(m2, f, va) = 0 BY <2>1 DEF T2, Absent
  <2> QED BY <2>2 DEF Shown, T0, T1
<1> QED BY <1>10, <1>11 DEF q

\* The owner o gets a space with the root f.
Renewed(sp, sp2, o, f) ==
    /\ sp2 \in Spaces /\ Live(sp2) = Live(sp) \cup {o} /\ o \notin Live(sp)
    /\ \A q \in Owners : q # o => sp2[q] = sp[q]
    /\ sp2[o] = [state |-> "empty", pml4 |-> f]
    /\ Roots(sp2) = Roots(sp) \cup {f}
    /\ Unshared(sp2)

\* The spaces after xas_create.
LEMMA SpaceMade ==
  ASSUME NEW sp \in Spaces, Unshared(sp), NEW o \in Owners, sp[o].state = "dead", NEW f \in Nat,
         f \notin Roots(sp), NEW sp2, sp2 = [sp EXCEPT ![o] = [state |-> "empty", pml4 |-> f]]
  PROVE  Renewed(sp, sp2, o, f)
<1> DEFINE e == [state |-> "empty", pml4 |-> f]
<1>1. sp2 = [sp EXCEPT ![o] = e] OBVIOUS
<1>2. sp2 \in Spaces BY <1>1 DEF Spaces, States
<1>3. sp2[o] = e /\ \A q \in Owners : q # o => sp2[q] = sp[q] BY <1>1 DEF Spaces
<1>4. e.state # "dead" /\ e.pml4 = f OBVIOUS
<1> HIDE DEF e
<1>5. Live(sp2) = Live(sp) \cup {o} /\ o \notin Live(sp) BY <1>3, <1>4 DEF Live
<1>6. \A q \in Live(sp) : q # o /\ sp2[q] = sp[q] BY <1>3, <1>5 DEF Live
<1>7. Roots(sp2) = Roots(sp) \cup {f}
  <2>1. \A x : x \in Roots(sp2) <=> \E q \in Live(sp) \cup {o} : x = sp2[q].pml4 BY <1>5 DEF Roots
  <2>2. \A x : x \in Roots(sp) <=> \E q \in Live(sp) : x = sp[q].pml4 BY DEF Roots
  <2>3. \A x : x \in Roots(sp2) => x \in Roots(sp) \/ x = f BY <2>1, <2>2, <1>3, <1>4, <1>6
  <2>4. ASSUME NEW x \in Roots(sp) PROVE x \in Roots(sp2)
    <3>1. PICK q \in Live(sp) : x = sp[q].pml4 BY <2>2
    <3>2. q \in Live(sp) \cup {o} /\ x = sp2[q].pml4 BY <3>1, <1>6
    <3> QED BY <3>2, <2>1
  <2>5. f \in Roots(sp2) BY <2>1, <1>3, <1>4
  <2> QED BY <2>3, <2>4, <2>5
<1>8. \A q \in Live(sp) : sp[q].pml4 # f BY DEF Roots
<1>9. Unshared(sp2) BY <1>3, <1>4, <1>5, <1>6, <1>8 DEF Unshared
<1> QED BY <1>2, <1>3, <1>5, <1>7, <1>9 DEF e, Renewed

\* The kernel state after xas_create, and what it keeps.
NewState(k) ==
    LET a == alloc_zero_table(k)
    IN  [a EXCEPT !.mem[a.at][0] = [phys |-> KernelTable, write |-> TRUE, nx |-> FALSE]]
Created(k, p, sp, sp2, f) ==
    /\ \E pl : Good(p, sp2, pl)
    /\ p.table = k.table /\ p.g_maps = k.g_maps /\ p.tlb = k.tlb
    /\ f \in RamFrames /\ f \notin Roots(sp)

\* xas_create: a new root, and nothing else.
LEMMA Create ==
  ASSUME NEW k, NEW sp \in Spaces, NEW pl, Good(k, sp, pl), Unshared(sp), NEW o \in Owners,
         sp[o].state = "dead", NEW f, f = alloc_zero_table(k).at, f # 0,
         NEW sp2, sp2 = [sp EXCEPT ![o] = [state |-> "empty", pml4 |-> f]]
  PROVE  Created(k, NewState(k), sp, sp2, f)
<1> DEFINE a == alloc_zero_table(k)
           e == [phys |-> KernelTable, write |-> TRUE, nx |-> FALSE]
           p == [a EXCEPT !.mem[a.at][0] = e]
           R == Roots(sp)
           pl2 == Rooted(pl, f)
           b2 == k.bits \ {f}
           m2 == [k.mem EXCEPT ![f] = [EmptyTable EXCEPT ![0] = e]]
<1>1. k \in KState /\ Paged(k, R, pl) BY DEF Good, Paged
<1>2. k.bits # {} /\ f = Min(k.bits) /\ a = [k EXCEPT !.bits = b2, !.mem[f] = EmptyTable, !.at = f]
  <2>1. k.bits = {} => a.at = 0 BY <1>1 DEF alloc_zero_table, KState
  <2> DEFINE g == Min(k.bits)
  <2>2. a = [k EXCEPT !.bits = k.bits \ {g}, !.mem[g] = EmptyTable, !.at = g]
    BY <2>1 DEF alloc_zero_table
  <2> HIDE DEF g
  <2>3. a.at = g BY <1>1, <2>2 DEF KState
  <2>4. f = g BY <2>3
  <2> QED BY <2>1, <2>2, <2>4 DEF g
<1>3. k.bits \subseteq RamFrames /\ RamFrames \subseteq Nat BY <1>1, SpacesAssumption DEF KState
<1>4. f \in k.bits
  <2>1. k.bits \subseteq Nat BY <1>3
  <2> QED BY <2>1, <1>2, Least
<1>5. f \in RamFrames /\ f \in Nat /\ f \in Frames BY <1>3, <1>4 DEF Frames
<1>6. a.at = f /\ a.mem = [k.mem EXCEPT ![f] = EmptyTable] BY <1>1, <1>2 DEF KState
<1>7. 0 \in 0 .. (Fan - 1) BY FanFacts
<1>8. e \in Ptes /\ EmptyTable \in [0 .. (Fan - 1) -> Ptes]
  BY SpacesAssumption DEF Ptes, EmptyTable, Absent
<1>9. k.mem \in [Frames -> [0 .. (Fan - 1) -> Ptes]] BY <1>1 DEF KState
<1>10. [a.mem EXCEPT ![f][0] = e] = m2 BY <1>5, <1>6, <1>8, <1>9
<1>11. m2 \in [Frames -> [0 .. (Fan - 1) -> Ptes]]
  <2>1. [EmptyTable EXCEPT ![0] = e] \in [0 .. (Fan - 1) -> Ptes] BY <1>7, <1>8
  <2> QED BY <2>1, <1>9
<1>12. \A i \in UserIdx(3) : m2[f][i] = Absent
  <2>1. m2[f] = [EmptyTable EXCEPT ![0] = e] BY <1>5, <1>9
  <2>2. \A i \in UserIdx(3) : i # 0 /\ i \in 0 .. (Fan - 1) BY FanFacts DEF UserIdx
  <2>3. \A i \in 0 .. (Fan - 1) : EmptyTable[i] = Absent BY DEF EmptyTable
  <2> QED BY <2>1, <2>2, <2>3, <1>8
<1>13. f \notin DOMAIN pl BY <1>1, <1>4 DEF Paged, Parted
<1>14. Copied(k.mem, m2, pl)
  <2>1. DOMAIN pl \subseteq Frames BY <1>1 DEF Paged, Forest, Frames
  <2> QED BY <2>1, <1>9, <1>13 DEF Copied
<1>15. p = [k EXCEPT !.bits = b2, !.mem = m2, !.at = f]
  <2>1. p = [a EXCEPT !.mem = [a.mem EXCEPT ![f][0] = e]] BY <1>6
  <2>2. p = [a EXCEPT !.mem = m2] BY <2>1, <1>10
  <2> HIDE DEF m2
  <2> QED BY <2>2, <1>2, <1>1 DEF KState
<1> HIDE DEF a, m2, p
<1>16. b2 \in SUBSET RamFrames /\ DOMAIN pl2 = DOMAIN pl \cup {f} BY <1>3 DEF Rooted
<1>17. Parted(b2, k.table, DOMAIN pl2) BY <1>1, <1>4, <1>16 DEF Paged, Parted
<1> HIDE DEF b2
<1>18. /\ p \in KState /\ p.bits = b2 /\ p.mem = m2 /\ p.table = k.table /\ p.g_maps = k.g_maps
       /\ p.tlb = k.tlb
  BY <1>1, <1>5, <1>11, <1>15, <1>16 DEF KState
<1>19. Forest(k.mem, pl, R) BY <1>1 DEF Paged
<1>20. Same(k.mem, m2, R) BY <1>14, <1>19, SameTables
<1>21. Forest(m2, pl2, R \cup {f}) /\ \A va \in UserVa : Shown(m2, f, va) = Absent
  BY <1>5, <1>12, <1>13, <1>14, <1>19, NewRoot
<1>22. f \notin R BY <1>13, <1>19 DEF Forest, Tops
<1> DEFINE sq == sp2
<1> HIDE DEF sq
<1>23. /\ sq \in Spaces /\ Live(sq) = Live(sp) \cup {o} /\ o \notin Live(sp)
       /\ \A q \in Owners : q # o => sq[q] = sp[q]
       /\ Roots(sq) = R \cup {f}
  <2>1. Renewed(sp, sp2, o, f) BY <1>5, <1>22, SpaceMade
  <2> QED BY <2>1 DEF Renewed, sq
<1> HIDE DEF pl2, R
<1>24. Paged(p, Roots(sq), pl2) BY <1>1, <1>17, <1>18, <1>21, <1>23 DEF Paged
<1>25. ASSUME NEW j \in 1 .. NRecs, k.g_maps[j].live
       PROVE  RecOk(k.g_maps[j], k.table, m2, sq)
  <2> DEFINE c == k.g_maps[j]
  <2>1. /\ RecOk(c, k.table, k.mem, sp) /\ c.owner \in Live(sp) /\ c.as_pml4 \in R
        /\ c.tok.slot \in Slots /\ k.table[c.tok.slot].live /\ RecSpan(c) \subseteq UserVa
    BY <1>25, RecFacts DEF R
  <2> HIDE DEF c
  <2>2. c.owner \in Live(sq) /\ sq[c.owner].pml4 = sp[c.owner].pml4 BY <2>1, <1>23 DEF Live
  <2>3. \A v \in RecSpan(c) : Shown(m2, c.as_pml4, v) = Shown(k.mem, c.as_pml4, v)
    BY <2>1, <1>20 DEF Same
  <2>4. RecOk(c, k.table, m2, sq) BY <2>1, <2>2, <2>3, RecKept
  <2> QED BY <2>4 DEF c
<1>26. Records(k.g_maps, k.table, m2, sq)
  <2>1. Records(k.g_maps, k.table, k.mem, sp) BY DEF Good
  <2>2. \A r \in Roots(sq) : \A va \in UserVa : Shown(m2, r, va) # Absent =>
          r \in R /\ Shown(k.mem, r, va) # Absent
    BY <1>20, <1>21, <1>23 DEF Same
  <2> QED BY <2>1, <2>2, <1>25 DEF Records, R
<1>27. Good(p, sq, pl2) BY <1>18, <1>24, <1>26 DEF Good
<1>28. p = NewState(k) BY DEF NewState, a, p
<1> QED BY <1>5, <1>18, <1>22, <1>27, <1>28 DEF Created, R, sq

-----------------------------------------------------------------------------
(* The loader's transaction.                                               *)

\* Token values.
Toks == [slot : Slots, gen : Nat]

\* Before a load the owner has a space and no token.
Vacant(k0, sp, o) ==
    /\ \E pl : Good(k0, sp, pl)
    /\ Unshared(sp) /\ o \in Live(sp)
    /\ \A s \in LiveIn(k0.table) : k0.table[s].owner # o

\* The token in slot s is the same, but for its pins.
KeptTok(tb0, tb, s) ==
    /\ tb[s].live = tb0[s].live /\ tb[s].gen = tb0[s].gen /\ tb[s].owner = tb0[s].owner
    /\ tb[s].rights = tb0[s].rights /\ tb[s].phys = tb0[s].phys /\ tb[s].n = tb0[s].n

\* What the loader has added to k0: tokens in TS, mappings that start in VS.
Held(k0, k, sp, o, TS, VS) ==
    /\ \E pl : Good(k, sp, pl)
    /\ k.tlb \subseteq k0.tlb
    /\ \A s \in LiveIn(k0.table) : KeptTok(k0.table, k.table, s)
    /\ \A s \in LiveIn(k.table) : s \notin LiveIn(k0.table) =>
         k.table[s].owner = o /\ \E tok \in TS : tok.slot = s /\ tok.gen = k.table[s].gen
    /\ \A tok \in TS : tok \in Toks /\ tok.slot \notin LiveIn(k0.table)
    /\ \A i \in 1 .. NRecs : k0.g_maps[i].live => k.g_maps[i] = k0.g_maps[i]
    /\ \A i \in 1 .. NRecs : k.g_maps[i].live /\ ~k0.g_maps[i].live =>
         k.g_maps[i].as_pml4 = sp[o].pml4 /\ k.g_maps[i].virt \in VS
    /\ \A q \in Roots(sp) : q # sp[o].pml4 =>
         \A v \in UserVa : Shown(k.mem, q, v) = Shown(k0.mem, q, v)

\* Nothing is left of it.
Undone(k0, k, sp) ==
    /\ \E pl : Good(k, sp, pl)
    /\ k.tlb \subseteq k0.tlb
    /\ LiveIn(k.table) = LiveIn(k0.table) /\ \A s \in LiveIn(k0.table) : k.table[s] = k0.table[s]
    /\ k.g_maps = k0.g_maps
    /\ Same(k0.mem, k.mem, Roots(sp))

\* No record is of the space that is to be loaded.
LEMMA VacantRecs ==
  ASSUME NEW k0, NEW sp, NEW o, Vacant(k0, sp, o), NEW i \in 1 .. NRecs, k0.g_maps[i].live
  PROVE  k0.g_maps[i].as_pml4 # sp[o].pml4 /\ k0.g_maps[i].tok.slot \in LiveIn(k0.table)
<1>1. PICK pl : Good(k0, sp, pl) BY DEF Vacant
<1> DEFINE c == k0.g_maps[i]
<1>2. /\ c.owner \in Live(sp) /\ c.as_pml4 = sp[c.owner].pml4 /\ c.tok.slot \in Slots
      /\ k0.table[c.tok.slot].live /\ k0.table[c.tok.slot].owner = c.owner
  BY <1>1, RecFacts
<1>3. c.tok.slot \in LiveIn(k0.table) BY <1>2 DEF LiveIn
<1>4. c.owner # o BY <1>2, <1>3 DEF Vacant
<1> QED BY <1>2, <1>3, <1>4 DEF Vacant, Unshared

\* Before its first piece a load holds nothing.
LEMMA HeldStart ==
  ASSUME NEW k0, NEW k, NEW sp, NEW o, Vacant(k0, sp, o), Alike(k0, k)
  PROVE  Held(k0, k, sp, o, {}, {})
<1>1. PICK pl : Good(k0, sp, pl) BY DEF Vacant
<1>2. Good(k, sp, pl) BY <1>1, AlikeGood
<1> QED BY <1>2 DEF Held, Alike, KeptTok

\* What a load holds does not depend on what the last call returned.
LEMMA HeldAlike ==
  ASSUME NEW k0, NEW k, NEW k2, NEW sp, NEW o, NEW TS, NEW VS, Held(k0, k, sp, o, TS, VS),
         Alike(k, k2)
  PROVE  Held(k0, k2, sp, o, TS, VS)
<1>1. PICK pl : Good(k, sp, pl) BY DEF Held
<1>2. Good(k2, sp, pl) BY <1>1, AlikeGood
<1> QED BY <1>2 DEF Held, Alike

\* An allocation adds its token to what the load holds, or adds nothing.
LEMMA HeldAlloc ==
  ASSUME NEW k0, NEW k, NEW a, NEW sp, NEW pl, NEW o, NEW n, NEW TS, NEW VS,
         Held(k0, k, sp, o, TS, VS), Allotted(k, a, sp, pl, o, n)
  PROVE  /\ a.rc # "ok" => Held(k0, a, sp, o, TS, VS)
         /\ a.rc = "ok" => Held(k0, a, sp, o, TS \cup {a.tok}, VS)
<1>1. Good(a, sp, pl) /\ a.g_maps = k.g_maps /\ a.tlb = k.tlb /\ Same(k.mem, a.mem, Roots(sp))
  BY DEF Allotted
<1>2. \A q \in Roots(sp) : q # sp[o].pml4 =>
        \A v \in UserVa : Shown(a.mem, q, v) = Shown(k0.mem, q, v)
  BY <1>1 DEF Held, Same
<1>3. CASE a.rc # "ok"
  <2>1. a.table = k.table BY <1>3 DEF Allotted
  <2> QED BY <1>1, <1>2, <1>3, <2>1 DEF Held
<1>4. CASE a.rc = "ok"
  <2> DEFINE s == a.tok.slot
  <2>1. /\ s \in Slots /\ ~k.table[s].live /\ ElseSame(k.table, a.table, s)
        /\ a.table[s].live /\ a.table[s].owner = o
        /\ a.table[s].gen = a.tok.gen /\ a.tok.gen \in Nat
    BY <1>4 DEF Allotted
  <2>2. a.tok \in Toks BY <1>1 DEF Good, Paged, KState, Toks
  <2>3. s \notin LiveIn(k0.table) BY <2>1 DEF Held, KeptTok, LiveIn
  <2>4. \A t \in LiveIn(k0.table) : a.table[t] = k.table[t] BY <2>1, <2>3 DEF ElseSame, LiveIn
  <2>5. \A t \in LiveIn(k0.table) : KeptTok(k0.table, a.table, t) BY <2>4 DEF Held, KeptTok
  <2>6. \A t \in LiveIn(a.table) : t \notin LiveIn(k0.table) =>
          a.table[t].owner = o /\ \E tok \in TS \cup {a.tok} : tok.slot = t /\ tok.gen = a.table[t].gen
    <3> SUFFICES ASSUME NEW t \in LiveIn(a.table), t \notin LiveIn(k0.table)
                 PROVE  a.table[t].owner = o /\ \E tok \in TS \cup {a.tok} : tok.slot = t /\ tok.gen = a.table[t].gen
      OBVIOUS
    <3>1. CASE t = s BY <3>1, <2>1
    <3>2. CASE t # s
      <4>1. a.table[t] = k.table[t] /\ t \in LiveIn(k.table) BY <3>2, <2>1 DEF ElseSame, LiveIn
      <4> QED BY <4>1 DEF Held
    <3> QED BY <3>1, <3>2
  <2>7. \A tok \in TS \cup {a.tok} : tok \in Toks /\ tok.slot \notin LiveIn(k0.table)
    BY <2>2, <2>3 DEF Held
  <2> QED BY <1>1, <1>2, <1>4, <2>5, <2>6, <2>7 DEF Held
<1> QED BY <1>3, <1>4

\* A mapping adds its page to what the load holds, or adds nothing.
LEMMA HeldMap ==
  ASSUME NEW k0, NEW k, NEW m, NEW sp, NEW o, NEW va, NEW tok, NEW TS, NEW VS,
         Held(k0, k, sp, o, TS, VS), MapDone(k, m, sp, o, va, tok)
  PROVE  /\ m.rc # "ok" => Held(k0, m, sp, o, TS, VS)
         /\ m.rc = "ok" => Held(k0, m, sp, o, TS, VS \cup {va})
<1>1. PICK pl : Good(m, sp, pl) BY DEF MapDone
<1>2. SameTokens(k.table, m.table) /\ m.tlb \subseteq k0.tlb BY DEF MapDone, Held
<1>3. \A t \in LiveIn(k0.table) : KeptTok(k0.table, m.table, t)
  BY <1>2 DEF Held, KeptTok, SameTokens, LiveIn
<1>4. \A t \in LiveIn(m.table) : t \notin LiveIn(k0.table) =>
        m.table[t].owner = o /\ \E x \in TS : x.slot = t /\ x.gen = m.table[t].gen
  BY <1>2 DEF Held, SameTokens, LiveIn
<1>5. CASE m.rc # "ok"
  <2>1. m.g_maps = k.g_maps /\ Same(k.mem, m.mem, Roots(sp)) BY <1>5 DEF MapDone
  <2>2. \A q \in Roots(sp) : q # sp[o].pml4 =>
          \A v \in UserVa : Shown(m.mem, q, v) = Shown(k0.mem, q, v)
    BY <2>1 DEF Held, Same
  <2> QED BY <1>1, <1>2, <1>3, <1>4, <1>5, <2>1, <2>2 DEF Held
<1>6. CASE m.rc = "ok"
  <2>1. PICK i \in 1 .. NRecs :
           /\ ~k.g_maps[i].live
           /\ \A j \in 1 .. NRecs : j # i => m.g_maps[j] = k.g_maps[j]
           /\ m.g_maps[i].live /\ m.g_maps[i].as_pml4 = sp[o].pml4
           /\ m.g_maps[i].virt = va
           /\ \A q \in Roots(sp) : \A v \in UserVa :
                ~Covers(m.g_maps[i], q, v) => Shown(m.mem, q, v) = Shown(k.mem, q, v)
    BY <1>6 DEF MapDone
  <2>2. ~k0.g_maps[i].live BY <2>1 DEF Held
  <2>3. \A j \in 1 .. NRecs : k0.g_maps[j].live => m.g_maps[j] = k0.g_maps[j]
    BY <2>1, <2>2 DEF Held
  <2>4. \A j \in 1 .. NRecs : m.g_maps[j].live /\ ~k0.g_maps[j].live =>
          m.g_maps[j].as_pml4 = sp[o].pml4 /\ m.g_maps[j].virt \in VS \cup {va}
    BY <2>1 DEF Held
  <2>5. \A q \in Roots(sp) : q # sp[o].pml4 =>
          \A v \in UserVa : Shown(m.mem, q, v) = Shown(k0.mem, q, v)
    BY <2>1 DEF Held, Covers
  <2> QED BY <1>1, <1>2, <1>3, <1>4, <1>6, <2>3, <2>4, <2>5 DEF Held
<1> QED BY <1>5, <1>6

\* rollback unmaps what starts at va.
LEMMA HeldUnmap ==
  ASSUME NEW k0, NEW k, NEW sp, NEW o, NEW va, NEW TS, NEW VS,
         Vacant(k0, sp, o), Held(k0, k, sp, o, TS, VS)
  PROVE  Held(k0, xas_unmap(k, sp[o].pml4, va), sp, o, TS, VS \ {va})
<1> DEFINE r == sp[o].pml4
           p == xas_unmap(k, r, va)
           at == {i \in 1 .. NRecs : /\ k.g_maps[i].live /\ k.g_maps[i].as_pml4 = r
                                     /\ k.g_maps[i].virt = va}
<1>1. PICK pl : Good(k, sp, pl) BY DEF Held
<1>2. PICK D \in SUBSET at : /\ Dropped(k, p, sp, pl, D)
                             /\ D = {} => \A i \in 1 .. NRecs :
                                  ~(k.g_maps[i].live /\ k.g_maps[i].as_pml4 = r /\ k.g_maps[i].virt = va)
  BY <1>1, Unmap
<1> HIDE DEF p, r
<1>3. at \subseteq D
  <2> SUFFICES ASSUME NEW i \in at PROVE i \in D OBVIOUS
  <2>1. PICK j \in D : TRUE BY <1>2
  <2>2. j \in at BY <2>1
  <2>3. i \in 1 .. NRecs /\ k.g_maps[i].live /\ k.g_maps[i].as_pml4 = r /\ k.g_maps[i].virt = va
    OBVIOUS
  <2>4. j \in 1 .. NRecs /\ k.g_maps[j].live /\ k.g_maps[j].as_pml4 = r /\ k.g_maps[j].virt = va
    BY <2>2
  <2>5. va \in RecSpan(k.g_maps[i]) /\ va \in RecSpan(k.g_maps[j]) BY <2>3, <2>4, <1>1, RecFacts
  <2>6. i = j BY <2>3, <2>4, <2>5, <1>1 DEF Good, Records
  <2> QED BY <2>1, <2>6
<1>4. D = at BY <1>2, <1>3
<1>5. \A i \in D : ~k0.g_maps[i].live
  <2> SUFFICES ASSUME NEW i \in D, k0.g_maps[i].live PROVE FALSE OBVIOUS
  <2>1. i \in 1 .. NRecs /\ k.g_maps[i].as_pml4 = r BY <1>4
  <2>2. k.g_maps[i] = k0.g_maps[i] BY <2>1 DEF Held
  <2> QED BY <2>1, <2>2, VacantRecs DEF r
<1>6. p.g_maps = [j \in 1 .. NRecs |-> IF j \in D THEN NoRec ELSE k.g_maps[j]] BY <1>2 DEF Dropped
<1>7. NoRec.live = FALSE BY DEF NoRec
<1>8. \A j \in 1 .. NRecs : k0.g_maps[j].live => p.g_maps[j] = k0.g_maps[j]
  BY <1>5, <1>6 DEF Held
<1>9. \A j \in 1 .. NRecs : p.g_maps[j].live /\ ~k0.g_maps[j].live =>
        p.g_maps[j].as_pml4 = sp[o].pml4 /\ p.g_maps[j].virt \in VS \ {va}
  <2> SUFFICES ASSUME NEW j \in 1 .. NRecs, p.g_maps[j].live, ~k0.g_maps[j].live
               PROVE  p.g_maps[j].as_pml4 = r /\ p.g_maps[j].virt \in VS \ {va}
    BY DEF r
  <2>1. j \notin D /\ p.g_maps[j] = k.g_maps[j] BY <1>6, <1>7
  <2>2. k.g_maps[j].as_pml4 = r /\ k.g_maps[j].virt \in VS BY <2>1 DEF Held, r
  <2>3. k.g_maps[j].virt # va BY <2>1, <2>2, <1>4
  <2> QED BY <2>1, <2>2, <2>3
<1>10. \A q \in Roots(sp) : q # sp[o].pml4 =>
         \A v \in UserVa : Shown(p.mem, q, v) = Shown(k0.mem, q, v)
  <2> SUFFICES ASSUME NEW q \in Roots(sp), q # r, NEW v \in UserVa
               PROVE  Shown(p.mem, q, v) = Shown(k0.mem, q, v)
    BY DEF r
  <2>1. \A j \in D : ~Covers(k.g_maps[j], q, v) BY <1>4 DEF Covers
  <2>2. Shown(p.mem, q, v) = Shown(k.mem, q, v) BY <2>1, <1>2 DEF Dropped
  <2>3. Shown(k.mem, q, v) = Shown(k0.mem, q, v) BY DEF Held, r
  <2> QED BY <2>2, <2>3
<1>11. Good(p, sp, pl) /\ SameTokens(k.table, p.table) /\ p.tlb \subseteq k0.tlb
  BY <1>2 DEF Dropped, Held
<1>12. \A t \in LiveIn(k0.table) : KeptTok(k0.table, p.table, t)
  BY <1>11 DEF Held, KeptTok, SameTokens, LiveIn
<1>13. \A t \in LiveIn(p.table) : t \notin LiveIn(k0.table) =>
         p.table[t].owner = o /\ \E x \in TS : x.slot = t /\ x.gen = p.table[t].gen
  BY <1>11 DEF Held, SameTokens, LiveIn
<1>14. \A tok \in TS : tok \in Toks /\ tok.slot \notin LiveIn(k0.table) BY DEF Held
<1>15. Held(k0, p, sp, o, TS, VS \ {va})
  BY <1>8, <1>9, <1>10, <1>11, <1>12, <1>13, <1>14 DEF Held
<1> QED BY <1>15 DEF p, r

\* Once nothing more is mapped, the records are those of before.
LEMMA HeldRecs ==
  ASSUME NEW k0, NEW k, NEW sp, NEW o, NEW TS, Vacant(k0, sp, o), Held(k0, k, sp, o, TS, {})
  PROVE  k.g_maps = k0.g_maps
<1>1. PICK pl : Good(k, sp, pl) BY DEF Held
<1>2. PICK pl0 : Good(k0, sp, pl0) BY DEF Vacant
<1>3. k.g_maps \in [1 .. NRecs -> Recs] /\ k0.g_maps \in [1 .. NRecs -> Recs]
  BY <1>1, <1>2 DEF Good, Paged, KState
<1>4. ASSUME NEW i \in 1 .. NRecs PROVE k.g_maps[i] = k0.g_maps[i]
  <2>1. CASE k0.g_maps[i].live BY <2>1 DEF Held
  <2>2. CASE ~k0.g_maps[i].live
    <3>1. ~k.g_maps[i].live BY <2>2 DEF Held
    <3> QED BY <2>2, <3>1, <1>1, <1>2 DEF Good, Records
  <2> QED BY <2>1, <2>2
<1> DEFINE a == k.g_maps
           b == k0.g_maps
<1>5. \A i \in 1 .. NRecs : a[i] = b[i] BY <1>4
<1>6. a \in [1 .. NRecs -> Recs] /\ b \in [1 .. NRecs -> Recs] BY <1>3
<1> HIDE DEF a, b
<1>7. a = [i \in 1 .. NRecs |-> a[i]] /\ b = [i \in 1 .. NRecs |-> b[i]] BY <1>6
<1>8. [i \in 1 .. NRecs |-> a[i]] = [i \in 1 .. NRecs |-> b[i]] BY <1>5
<1>9. a = b BY <1>7, <1>8
<1> QED BY <1>9 DEF a, b

\* rollback releases a token that nothing maps any more.
LEMMA HeldRelease ==
  ASSUME NEW k0, NEW k, NEW sp, NEW o, NEW TS, NEW tok \in TS,
         Vacant(k0, sp, o), Held(k0, k, sp, o, TS, {})
  PROVE  Held(k0, xtok_reclaim(k, tok), sp, o, TS \ {tok}, {})
<1> DEFINE p == xtok_reclaim(k, tok)
           s == tok.slot
<1>1. PICK pl : Good(k, sp, pl) BY DEF Held
<1>2. tok \in Toks /\ s \in Slots /\ s \notin LiveIn(k0.table) BY DEF Held, Toks
<1>3. Reclaimed(k, p, sp, pl, tok) BY <1>1, <1>2, Reclaim DEF Toks
<1> HIDE DEF p
<1>4. k.g_maps = k0.g_maps BY HeldRecs
<1>5. PinsOf(k.g_maps, s) = {}
  <2> SUFFICES ASSUME NEW i \in 1 .. NRecs, k.g_maps[i].live, k.g_maps[i].tok.slot = s PROVE FALSE
    BY DEF PinsOf
  <2> QED BY <1>2, <1>4, VacantRecs
<1>6. k.table[s].map_count = 0 BY <1>1, <1>2, <1>5, FS_EmptySet DEF Good, Pins
<1>7. /\ Good(p, sp, pl) /\ p.g_maps = k.g_maps /\ p.mem = k.mem /\ p.tlb = k.tlb
      /\ \A t \in Slots : t # s => p.table[t] = k.table[t]
  BY <1>3 DEF Reclaimed, ElseSame
<1>8. \A t \in LiveIn(k0.table) : KeptTok(k0.table, p.table, t)
  <2>1. \A t \in LiveIn(k0.table) : t # s /\ t \in Slots BY <1>2 DEF LiveIn
  <2> QED BY <2>1, <1>7 DEF Held, KeptTok
<1>9. \A t \in LiveIn(p.table) : t \notin LiveIn(k0.table) =>
         p.table[t].owner = o /\ \E x \in TS \ {tok} : x.slot = t /\ x.gen = p.table[t].gen
  <2> SUFFICES ASSUME NEW t \in LiveIn(p.table), t \notin LiveIn(k0.table)
               PROVE  p.table[t].owner = o /\ \E x \in TS \ {tok} : x.slot = t /\ x.gen = p.table[t].gen
    OBVIOUS
  <2>1. t \in Slots /\ p.table[t].live BY DEF LiveIn
  <2>2. CASE t = s
    <3>1. ~LookupLive(k, tok) /\ p.table = k.table BY <2>1, <2>2, <1>3, <1>6 DEF Reclaimed
    <3>2. t \in LiveIn(k.table) BY <2>1, <3>1 DEF LiveIn
    <3>3. PICK x \in TS : x.slot = t /\ x.gen = k.table[t].gen BY <3>2 DEF Held
    <3>4. x # tok BY <3>1, <3>2, <3>3 DEF LookupLive, LiveIn
    <3>5. k.table[t].owner = o BY <3>2 DEF Held
    <3> QED BY <3>1, <3>3, <3>4, <3>5
  <2>3. CASE t # s
    <3>1. p.table[t] = k.table[t] /\ t \in LiveIn(k.table) BY <2>1, <2>3, <1>7 DEF LiveIn
    <3>2. PICK x \in TS : x.slot = t /\ x.gen = k.table[t].gen BY <3>1 DEF Held
    <3>3. k.table[t].owner = o BY <3>1 DEF Held
    <3> QED BY <2>3, <3>1, <3>2, <3>3
  <2> QED BY <2>2, <2>3
<1>10. \A x \in TS \ {tok} : x \in Toks /\ x.slot \notin LiveIn(k0.table) BY DEF Held
<1>11. Held(k0, p, sp, o, TS \ {tok}, {}) BY <1>7, <1>8, <1>9, <1>10 DEF Held
<1> QED BY <1>11 DEF p

\* A transaction that holds nothing is undone.
LEMMA HeldNothing ==
  ASSUME NEW k0, NEW k, NEW sp, NEW o, Vacant(k0, sp, o), Held(k0, k, sp, o, {}, {})
  PROVE  Undone(k0, k, sp)
<1>1. PICK pl : Good(k, sp, pl) BY DEF Held
<1>2. PICK pl0 : Good(k0, sp, pl0) BY DEF Vacant
<1>3. k.g_maps = k0.g_maps BY HeldRecs
<1>4. LiveIn(k.table) = LiveIn(k0.table) BY DEF Held, KeptTok, LiveIn
<1>5. ASSUME NEW s \in LiveIn(k0.table) PROVE k.table[s] = k0.table[s]
  <2>1. s \in Slots BY DEF LiveIn
  <2>2. k.table[s].map_count = k0.table[s].map_count BY <1>1, <1>2, <1>3, <2>1 DEF Good, Pins
  <2>3. KeptTok(k0.table, k.table, s) BY DEF Held
  <2>4. k.table[s] \in Entries /\ k0.table[s] \in Entries BY <1>1, <1>2, <2>1 DEF Good, Paged, KState
  <2> QED BY <2>2, <2>3, <2>4 DEF KeptTok, Entries
<1>6. Same(k0.mem, k.mem, Roots(sp))
  <2> SUFFICES ASSUME NEW q \in Roots(sp), NEW v \in UserVa
               PROVE  Shown(k.mem, q, v) = Shown(k0.mem, q, v)
    BY DEF Same
  <2>1. CASE q # sp[o].pml4 BY <2>1 DEF Held
  <2>2. CASE q = sp[o].pml4
    <3>1. \A i \in 1 .. NRecs : ~(k0.g_maps[i].live /\ k0.g_maps[i].as_pml4 = q) BY <2>2, VacantRecs
    <3>2. Shown(k.mem, q, v) = Absent BY <3>1, <1>1, <1>3 DEF Good, Records
    <3>3. Shown(k0.mem, q, v) = Absent BY <3>1, <1>2 DEF Good, Records
    <3> QED BY <3>2, <3>3
  <2> QED BY <2>1, <2>2
<1> QED BY <1>1, <1>3, <1>4, <1>5, <1>6 DEF Undone, Held

\* rollback undoes the whole transaction, however far it came.
LEMMA Rollback ==
  ASSUME NEW k0, NEW k, NEW sp, NEW o, NEW toks \in Seq(Toks), NEW vas \in Seq(Nat),
         Vacant(k0, sp, o),
         Held(k0, k, sp, o, {toks[j] : j \in 1 .. Len(toks)}, {vas[j] : j \in 1 .. Len(vas)})
  PROVE  LET p == rollback(k, sp[o].pml4, toks, vas) IN Undone(k0, p, sp) /\ p.rc = "failed" /\ p \in KState
<1> DEFINE r == sp[o].pml4
           T(i) == {toks[j] : j \in 1 .. i}
           V(i) == {vas[j] : j \in 1 .. i}
           N == Len(vas)
           M == Len(toks)
           SU == [i \in 0 .. N |-> {m \in KState : Held(k0, m, sp, o, T(M), V(N - i))}]
           SR == [i \in 0 .. M |-> {m \in KState : Held(k0, m, sp, o, T(M - i), {})}]
           u == UnmapAll(k, r, vas)
           z == ReleaseAll(u, toks)
           p == rollback(k, r, toks, vas)
<1>0. N \in Nat /\ M \in Nat BY LenProperties
<1>1. \A m, TS, VS : Held(k0, m, sp, o, TS, VS) => m \in KState BY DEF Held, Good, Paged
<1>2. V(N) = {vas[j] : j \in 1 .. N} /\ T(M) = {toks[j] : j \in 1 .. M} OBVIOUS
<1>v. V(0) = {} /\ T(0) = {} OBVIOUS
<1>t. \A i \in 1 .. M : toks[i] \in T(i) OBVIOUS
<1>s. /\ \A i \in 1 .. N : V(i) \ {vas[i]} \subseteq V(i - 1)
      /\ \A i \in 1 .. M : T(i) \ {toks[i]} \subseteq T(i - 1) /\ T(i - 1) \subseteq T(i)
  <2>1. \A i \in 1 .. N : \A j \in 1 .. i : j = i \/ j \in 1 .. (i - 1) BY <1>0
  <2>2. \A i \in 1 .. M : \A j \in 1 .. i : j = i \/ j \in 1 .. (i - 1) BY <1>0
  <2>3. \A i \in 1 .. M : \A j \in 1 .. (i - 1) : j \in 1 .. i BY <1>0
  <2>4. \A i \in 1 .. N : V(i) \ {vas[i]} \subseteq V(i - 1) BY <2>1
  <2>5. \A i \in 1 .. M : T(i) \ {toks[i]} \subseteq T(i - 1) BY <2>2
  <2>6. \A i \in 1 .. M : T(i - 1) \subseteq T(i) BY <2>3
  <2> QED BY <2>4, <2>5, <2>6
<1>w. \A m, TS, VS, VS2 : Held(k0, m, sp, o, TS, VS) /\ VS \subseteq VS2 => Held(k0, m, sp, o, TS, VS2)
  BY DEF Held
<1> HIDE DEF T, V
<1>x. \A m, TS, TS2, VS : /\ Held(k0, m, sp, o, TS, VS) /\ TS \subseteq TS2
                          /\ \A tok \in TS2 : tok \in Toks /\ tok.slot \notin LiveIn(k0.table)
                          => Held(k0, m, sp, o, TS2, VS)
  BY DEF Held
<1>y. \A tok \in T(M) : tok \in Toks /\ tok.slot \notin LiveIn(k0.table) BY <1>2 DEF Held
<1>z. \A i \in 0 .. M : T(i) \subseteq T(M)
  <2>1. \A i \in 0 .. M : \A j \in 1 .. i : j \in 1 .. M BY <1>0
  <2> QED BY <2>1 DEF T
<1>3. u \in SU[N]
  <2>1. k \in SU[0]
    <3>1. N - 0 = N /\ 0 \in 0 .. N BY <1>0
    <3>2. Held(k0, k, sp, o, T(M), V(N)) /\ k \in KState BY <1>1, <1>2
    <3> QED BY <3>1, <3>2
  <2>2. \A i \in 1 .. N : \A m \in SU[i - 1] : xas_unmap(m, r, vas[N + 1 - i]) \in SU[i]
    <3> SUFFICES ASSUME NEW i \in 1 .. N, NEW m \in SU[i - 1]
                 PROVE  xas_unmap(m, r, vas[N + 1 - i]) \in SU[i]
      OBVIOUS
    <3>1. i \in 0 .. N /\ i - 1 \in 0 .. N /\ N - (i - 1) = N + 1 - i /\ N + 1 - i \in 1 .. N
            /\ N + 1 - i - 1 = N - i
      BY <1>0
    <3> DEFINE l == N + 1 - i
               x == xas_unmap(m, r, vas[l])
    <3>2. Held(k0, m, sp, o, T(M), V(l)) BY <3>1
    <3>3. Held(k0, x, sp, o, T(M), V(l) \ {vas[l]}) BY <3>2, HeldUnmap
    <3>l. l \in 1 .. N /\ l - 1 = N - i BY <3>1
    <3> HIDE DEF x, l
    <3>4. V(l) \ {vas[l]} \subseteq V(N - i)
      <4>1. V(l) \ {vas[l]} \subseteq V(l - 1) BY <3>l, <1>s
      <4> QED BY <4>1, <3>l
    <3>5. Held(k0, x, sp, o, T(M), V(N - i)) /\ x \in KState BY <3>3, <3>4, <1>w, <1>1
    <3> QED BY <3>5, <3>1 DEF x, l
  <2> HIDE DEF SU
  <2> QED BY <1>0, <2>1, <2>2, LoopUnmapAll
<1>4. Held(k0, u, sp, o, T(M), {}) /\ u \in KState
  <2>1. N - N = 0 /\ N \in 0 .. N BY <1>0
  <2>2. Held(k0, u, sp, o, T(M), V(N - N)) /\ u \in KState BY <1>3, <2>1
  <2> QED BY <2>1, <2>2, <1>v
<1> HIDE DEF u
<1>5. z \in SR[M]
  <2>1. u \in SR[0]
    <3>1. M - 0 = M /\ 0 \in 0 .. M BY <1>0
    <3> QED BY <3>1, <1>4
  <2>2. \A i \in 1 .. M : \A m \in SR[i - 1] : xtok_reclaim(m, toks[M + 1 - i]) \in SR[i]
    <3> SUFFICES ASSUME NEW i \in 1 .. M, NEW m \in SR[i - 1]
                 PROVE  xtok_reclaim(m, toks[M + 1 - i]) \in SR[i]
      OBVIOUS
    <3>1. i \in 0 .. M /\ i - 1 \in 0 .. M /\ M - (i - 1) = M + 1 - i /\ M + 1 - i \in 1 .. M
            /\ M + 1 - i - 1 = M - i /\ M - i \in 0 .. M
      BY <1>0
    <3> DEFINE l == M + 1 - i
               x == xtok_reclaim(m, toks[l])
    <3>2. Held(k0, m, sp, o, T(l), {}) BY <3>1
    <3>3. toks[l] \in T(l) BY <3>1, <1>t
    <3>4. Held(k0, x, sp, o, T(l) \ {toks[l]}, {}) BY <3>2, <3>3, HeldRelease
    <3>l. l \in 1 .. M /\ l - 1 = M - i BY <3>1
    <3> HIDE DEF x, l
    <3>5. T(l) \ {toks[l]} \subseteq T(M - i) /\ T(M - i) \subseteq T(M)
      <4>1. T(l) \ {toks[l]} \subseteq T(l - 1) BY <3>l, <1>s
      <4>2. T(M - i) \subseteq T(M) BY <3>1, <1>z
      <4> QED BY <4>1, <4>2, <3>l
    <3>6. Held(k0, x, sp, o, T(M - i), {}) BY <3>4, <3>5, <1>x, <1>y
    <3>7. x \in KState BY <3>6, <1>1
    <3> QED BY <3>6, <3>7, <3>1 DEF x, l
  <2> HIDE DEF SR
  <2> QED BY <1>0, <2>1, <2>2, LoopReleaseAll
<1>6. Held(k0, z, sp, o, {}, {}) /\ z \in KState
  <2>1. M - M = 0 /\ M \in 0 .. M BY <1>0
  <2>2. Held(k0, z, sp, o, T(M - M), {}) /\ z \in KState BY <1>5, <2>1
  <2> QED BY <2>1, <2>2, <1>v
<1>7. p = [z EXCEPT !.rc = "failed"] BY DEF rollback, u
<1> HIDE DEF z, p
<1>8. Alike(z, p) /\ p.rc = "failed" BY <1>6, <1>7, SetRc DEF Codes
<1>9. Held(k0, p, sp, o, {}, {}) BY <1>6, <1>8, HeldAlike
<1>10. Undone(k0, p, sp) BY <1>9, HeldNothing
<1> QED BY <1>8, <1>10 DEF p, Alike

-----------------------------------------------------------------------------
(* Sums.                                                                   *)

\* f[i] is the sum of the first i of the numbers c.
Sums(f, c, n) ==
    /\ f[0] = 0 /\ \A i \in 0 .. n : f[i] \in Nat
    /\ \A i \in 1 .. n : f[i] = f[i - 1] + c[i]

\* What the slot s counts in the frames of the owner o.
Counted(tb, o, s) == IF tb[s].live /\ tb[s].owner = o THEN tb[s].n ELSE 0

\* xtok_owner_usage adds up the slots.
LEMMA FramesLoop ==
  ASSUME NEW k, NEW o, NSlots \in Nat, \A i \in 1 .. NSlots : (IF i - 1 \in OwnedSlots(k, o) THEN k.table[i - 1].n ELSE 0) \in Nat
  PROVE  \E f : Sums(f, [i \in 1 .. NSlots |-> (IF i - 1 \in OwnedSlots(k, o) THEN k.table[i - 1].n ELSE 0)], NSlots) /\ FramesOf(k, o) = f[NSlots]
<1> DEFINE n == NSlots
           T(m, i) == m + (IF i - 1 \in OwnedSlots(k, o) THEN k.table[i - 1].n ELSE 0)
           at == CHOOSE f : f = [i \in 0 .. NSlots |-> IF i = 0 THEN 0 ELSE T(f[i - 1], i)]
           S == [i \in 0 .. n |-> Nat]
           G == [i \in 1 .. n |-> [m \in Nat |-> T(m, i)]]
           c == [i \in 1 .. NSlots |-> (IF i - 1 \in OwnedSlots(k, o) THEN k.table[i - 1].n ELSE 0)]
<1>1. FramesOf(k, o) = at[n] BY DEF FramesOf
<1>2. \A i \in 1 .. n : \A m \in Nat : T(m, i) \in Nat /\ T(m, i) = m + c[i] OBVIOUS
<1>3. n \in Nat OBVIOUS
<1>a. at = CHOOSE f : f = [i \in 0 .. n |-> IF i = 0 THEN 0 ELSE T(f[i - 1], i)] OBVIOUS
<1> HIDE DEF T, n, at, c
<1>4. \A i \in 0 .. n : \A x : x \in S[i] <=> x \in Nat OBVIOUS
<1>5. \A i \in 1 .. n : \A m \in Nat : G[i][m] = T(m, i) OBVIOUS
<1>6. \A i \in 1 .. n : i \in 0 .. n /\ i - 1 \in 0 .. n BY <1>3
<1>7. PICK g : Iterates(g, n, 0, G, S)
  <2>1. Closed(n, S, G)
    <3> HIDE DEF G, S
    <3> SUFFICES ASSUME NEW i \in 1 .. n, NEW s \in S[i - 1] PROVE G[i][s] \in S[i] BY DEF Closed
    <3>1. s \in Nat BY <1>4, <1>6
    <3>2. G[i][s] \in Nat BY <3>1, <1>2, <1>5
    <3> QED BY <3>2, <1>4, <1>6
  <2>2. 0 \in S[0] BY <1>3
  <2> HIDE DEF G, S
  <2> QED BY <2>1, <2>2, <1>3, Iter
<1> HIDE DEF G, S
<1> DEFINE h == [i \in 0 .. n |-> g[i]]
<1>8. \A i \in 0 .. n : i # 0 => i \in 1 .. n BY <1>3
<1>9. \A i \in 0 .. n : g[i] \in Nat BY <1>4, <1>7 DEF Iterates
<1>10. \A i \in 0 .. n : g[i] = IF i = 0 THEN 0 ELSE T(h[i - 1], i)
  BY <1>5, <1>6, <1>7, <1>8, <1>9 DEF Iterates
<1>11. h = [i \in 0 .. n |-> IF i = 0 THEN 0 ELSE T(h[i - 1], i)] BY <1>10
<1> HIDE DEF h
<1>12. at = [i \in 0 .. n |-> IF i = 0 THEN 0 ELSE T(at[i - 1], i)] BY <1>11, <1>a
<1>13. at[0] = 0 /\ \A i \in 1 .. n : at[i] = T(at[i - 1], i)
  <2>1. 0 \in 0 .. n /\ \A i \in 1 .. n : i \in 0 .. n /\ i # 0 BY <1>3
  <2>2. at[0] = 0 BY <1>12, <2>1
  <2>3. \A i \in 1 .. n : at[i] = T(at[i - 1], i) BY <1>12, <2>1
  <2> QED BY <2>2, <2>3
<1>14. \A i \in 0 .. n : at[i] \in Nat
  <2> DEFINE Z == [i \in 0 .. n |-> Nat]
  <2>1. \A i \in 0 .. n : \A x : x \in Z[i] <=> x \in Nat OBVIOUS
  <2>2. at[0] \in Z[0] BY <1>3, <1>13
  <2> HIDE DEF Z
  <2>3. \A i \in 1 .. n : at[i - 1] \in Z[i - 1] => at[i] \in Z[i] BY <2>1, <1>2, <1>6, <1>13
  <2>4. \A i \in 0 .. n : at[i] \in Z[i] BY <1>3, <2>2, <2>3, Ind
  <2> QED BY <2>1, <2>4
<1>15. \A i \in 1 .. n : at[i] = at[i - 1] + c[i] BY <1>2, <1>6, <1>13, <1>14
<1>16. Sums(at, c, n) BY <1>13, <1>14, <1>15 DEF Sums
<1> QED BY <1>1, <1>16 DEF n, c

\* The pages of the pieces of an image.
LEMMA PagesLoop ==
  ASSUME NEW pieces, Len(pieces) \in Nat, \A i \in 1 .. Len(pieces) : pieces[i].pages \in Nat
  PROVE  \E f : Sums(f, [i \in 1 .. Len(pieces) |-> pieces[i].pages], Len(pieces)) /\ PagesOf(pieces) = f[Len(pieces)]
<1> DEFINE n == Len(pieces)
           T(m, i) == m + pieces[i].pages
           at == CHOOSE f : f = [i \in 0 .. Len(pieces) |-> IF i = 0 THEN 0 ELSE T(f[i - 1], i)]
           S == [i \in 0 .. n |-> Nat]
           G == [i \in 1 .. n |-> [m \in Nat |-> T(m, i)]]
           c == [i \in 1 .. Len(pieces) |-> pieces[i].pages]
<1>1. PagesOf(pieces) = at[n] BY DEF PagesOf
<1>2. \A i \in 1 .. n : \A m \in Nat : T(m, i) \in Nat /\ T(m, i) = m + c[i] OBVIOUS
<1>3. n \in Nat OBVIOUS
<1>a. at = CHOOSE f : f = [i \in 0 .. n |-> IF i = 0 THEN 0 ELSE T(f[i - 1], i)] OBVIOUS
<1> HIDE DEF T, n, at, c
<1>4. \A i \in 0 .. n : \A x : x \in S[i] <=> x \in Nat OBVIOUS
<1>5. \A i \in 1 .. n : \A m \in Nat : G[i][m] = T(m, i) OBVIOUS
<1>6. \A i \in 1 .. n : i \in 0 .. n /\ i - 1 \in 0 .. n BY <1>3
<1>7. PICK g : Iterates(g, n, 0, G, S)
  <2>1. Closed(n, S, G)
    <3> HIDE DEF G, S
    <3> SUFFICES ASSUME NEW i \in 1 .. n, NEW s \in S[i - 1] PROVE G[i][s] \in S[i] BY DEF Closed
    <3>1. s \in Nat BY <1>4, <1>6
    <3>2. G[i][s] \in Nat BY <3>1, <1>2, <1>5
    <3> QED BY <3>2, <1>4, <1>6
  <2>2. 0 \in S[0] BY <1>3
  <2> HIDE DEF G, S
  <2> QED BY <2>1, <2>2, <1>3, Iter
<1> HIDE DEF G, S
<1> DEFINE h == [i \in 0 .. n |-> g[i]]
<1>8. \A i \in 0 .. n : i # 0 => i \in 1 .. n BY <1>3
<1>9. \A i \in 0 .. n : g[i] \in Nat BY <1>4, <1>7 DEF Iterates
<1>10. \A i \in 0 .. n : g[i] = IF i = 0 THEN 0 ELSE T(h[i - 1], i)
  BY <1>5, <1>6, <1>7, <1>8, <1>9 DEF Iterates
<1>11. h = [i \in 0 .. n |-> IF i = 0 THEN 0 ELSE T(h[i - 1], i)] BY <1>10
<1> HIDE DEF h
<1>12. at = [i \in 0 .. n |-> IF i = 0 THEN 0 ELSE T(at[i - 1], i)] BY <1>11, <1>a
<1>13. at[0] = 0 /\ \A i \in 1 .. n : at[i] = T(at[i - 1], i)
  <2>1. 0 \in 0 .. n /\ \A i \in 1 .. n : i \in 0 .. n /\ i # 0 BY <1>3
  <2>2. at[0] = 0 BY <1>12, <2>1
  <2>3. \A i \in 1 .. n : at[i] = T(at[i - 1], i) BY <1>12, <2>1
  <2> QED BY <2>2, <2>3
<1>14. \A i \in 0 .. n : at[i] \in Nat
  <2> DEFINE Z == [i \in 0 .. n |-> Nat]
  <2>1. \A i \in 0 .. n : \A x : x \in Z[i] <=> x \in Nat OBVIOUS
  <2>2. at[0] \in Z[0] BY <1>3, <1>13
  <2> HIDE DEF Z
  <2>3. \A i \in 1 .. n : at[i - 1] \in Z[i - 1] => at[i] \in Z[i] BY <2>1, <1>2, <1>6, <1>13
  <2>4. \A i \in 0 .. n : at[i] \in Z[i] BY <1>3, <2>2, <2>3, Ind
  <2> QED BY <2>1, <2>4
<1>15. \A i \in 1 .. n : at[i] = at[i - 1] + c[i] BY <1>2, <1>6, <1>13, <1>14
<1>16. Sums(at, c, n) BY <1>13, <1>14, <1>15 DEF Sums
<1> QED BY <1>1, <1>16 DEF n, c

\* The pages of the first segments of a file.
LEMMA TotalLoop ==
  ASSUME NEW x, NEW N, N \in Nat, \A i \in 1 .. N : Pages(x.segs[i]) \in Nat
  PROVE  \E f : Sums(f, [i \in 1 .. N |-> Pages(x.segs[i])], N) /\ TotalPages(x, N) = f[N]
<1> DEFINE n == N
           T(m, i) == m + Pages(x.segs[i])
           at == CHOOSE f : f = [i \in 0 .. N |-> IF i = 0 THEN 0 ELSE T(f[i - 1], i)]
           S == [i \in 0 .. n |-> Nat]
           G == [i \in 1 .. n |-> [m \in Nat |-> T(m, i)]]
           c == [i \in 1 .. N |-> Pages(x.segs[i])]
<1>1. TotalPages(x, N) = at[n] BY DEF TotalPages
<1>2. \A i \in 1 .. n : \A m \in Nat : T(m, i) \in Nat /\ T(m, i) = m + c[i] OBVIOUS
<1>3. n \in Nat OBVIOUS
<1>a. at = CHOOSE f : f = [i \in 0 .. n |-> IF i = 0 THEN 0 ELSE T(f[i - 1], i)] OBVIOUS
<1> HIDE DEF T, n, at, c
<1>4. \A i \in 0 .. n : \A w : w \in S[i] <=> w \in Nat OBVIOUS
<1>5. \A i \in 1 .. n : \A m \in Nat : G[i][m] = T(m, i) OBVIOUS
<1>6. \A i \in 1 .. n : i \in 0 .. n /\ i - 1 \in 0 .. n BY <1>3
<1>7. PICK g : Iterates(g, n, 0, G, S)
  <2>1. Closed(n, S, G)
    <3> HIDE DEF G, S
    <3> SUFFICES ASSUME NEW i \in 1 .. n, NEW s \in S[i - 1] PROVE G[i][s] \in S[i] BY DEF Closed
    <3>1. s \in Nat BY <1>4, <1>6
    <3>2. G[i][s] \in Nat BY <3>1, <1>2, <1>5
    <3> QED BY <3>2, <1>4, <1>6
  <2>2. 0 \in S[0] BY <1>3
  <2> HIDE DEF G, S
  <2> QED BY <2>1, <2>2, <1>3, Iter
<1> HIDE DEF G, S
<1> DEFINE h == [i \in 0 .. n |-> g[i]]
<1>8. \A i \in 0 .. n : i # 0 => i \in 1 .. n BY <1>3
<1>9. \A i \in 0 .. n : g[i] \in Nat BY <1>4, <1>7 DEF Iterates
<1>10. \A i \in 0 .. n : g[i] = IF i = 0 THEN 0 ELSE T(h[i - 1], i)
  BY <1>5, <1>6, <1>7, <1>8, <1>9 DEF Iterates
<1>11. h = [i \in 0 .. n |-> IF i = 0 THEN 0 ELSE T(h[i - 1], i)] BY <1>10
<1> HIDE DEF h
<1>12. at = [i \in 0 .. n |-> IF i = 0 THEN 0 ELSE T(at[i - 1], i)] BY <1>11, <1>a
<1>13. at[0] = 0 /\ \A i \in 1 .. n : at[i] = T(at[i - 1], i)
  <2>1. 0 \in 0 .. n /\ \A i \in 1 .. n : i \in 0 .. n /\ i # 0 BY <1>3
  <2>2. at[0] = 0 BY <1>12, <2>1
  <2>3. \A i \in 1 .. n : at[i] = T(at[i - 1], i) BY <1>12, <2>1
  <2> QED BY <2>2, <2>3
<1>14. \A i \in 0 .. n : at[i] \in Nat
  <2> DEFINE Z == [i \in 0 .. n |-> Nat]
  <2>1. \A i \in 0 .. n : \A w : w \in Z[i] <=> w \in Nat OBVIOUS
  <2>2. at[0] \in Z[0] BY <1>3, <1>13
  <2> HIDE DEF Z
  <2>3. \A i \in 1 .. n : at[i - 1] \in Z[i - 1] => at[i] \in Z[i] BY <2>1, <1>2, <1>6, <1>13
  <2>4. \A i \in 0 .. n : at[i] \in Z[i] BY <1>3, <2>2, <2>3, Ind
  <2> QED BY <2>1, <2>4
<1>15. \A i \in 1 .. n : at[i] = at[i - 1] + c[i] BY <1>2, <1>6, <1>13, <1>14
<1>16. Sums(at, c, n) BY <1>13, <1>14, <1>15 DEF Sums
<1> QED BY <1>1, <1>16 DEF n, c

\* Two sums whose terms compare, but for one that may be larger by a.
LEMMA SumsLeq ==
  ASSUME NEW n \in Nat, NEW f, NEW g, NEW c, NEW d, Sums(f, c, n), Sums(g, d, n),
         \A i \in 1 .. n : c[i] \in Nat /\ d[i] \in Nat,
         NEW u \in Nat, NEW a \in Nat, \A i \in 1 .. n : c[i] <= d[i] + (IF i = u THEN a ELSE 0)
  PROVE  f[n] <= g[n] + a
<1> DEFINE e(i) == IF u <= i THEN a ELSE 0
           S == [i \in 0 .. n |-> {x \in Nat : x <= g[i] + e(i)}]
<1>1. \A i \in 0 .. n : f[i] \in Nat /\ g[i] \in Nat BY DEF Sums
<1>2. f[0] = 0 /\ g[0] = 0 /\ \A i \in 1 .. n : f[i] = f[i - 1] + c[i] /\ g[i] = g[i - 1] + d[i]
  BY DEF Sums
<1>3. \A i \in 0 .. n : e(i) \in Nat OBVIOUS
<1>4. f[0] \in S[0]
  <2>1. 0 \in 0 .. n /\ e(0) \in Nat BY <1>3
  <2>2. 0 <= g[0] + e(0) BY <2>1, <1>2
  <2> QED BY <2>1, <2>2, <1>2
<1>5. \A i \in 1 .. n : f[i - 1] \in S[i - 1] => f[i] \in S[i]
  <2> SUFFICES ASSUME NEW i \in 1 .. n, f[i - 1] <= g[i - 1] + e(i - 1)
               PROVE  f[i] <= g[i] + e(i)
    <3>1. \A i \in 1 .. n : i \in 0 .. n /\ i - 1 \in 0 .. n OBVIOUS
    <3> QED BY <3>1, <1>1
  <2>1. i \in 0 .. n /\ i - 1 \in 0 .. n OBVIOUS
  <2>2. f[i - 1] \in Nat /\ g[i - 1] \in Nat /\ c[i] \in Nat /\ d[i] \in Nat BY <2>1, <1>1
  <2>3. f[i] = f[i - 1] + c[i] /\ g[i] = g[i - 1] + d[i] BY <1>2
  <2>4. c[i] <= d[i] + (IF i = u THEN a ELSE 0) OBVIOUS
  <2>5. CASE u < i
    <3>1. e(i) = a /\ e(i - 1) = a /\ i # u BY <2>5
    <3> QED BY <3>1, <2>2, <2>3, <2>4
  <2>6. CASE u = i
    <3>1. e(i) = a /\ e(i - 1) = 0 BY <2>6
    <3> QED BY <3>1, <2>2, <2>3, <2>4, <2>6
  <2>7. CASE u > i
    <3>1. e(i) = 0 /\ e(i - 1) = 0 /\ i # u BY <2>7
    <3> QED BY <3>1, <2>2, <2>3, <2>4
  <2> QED BY <2>5, <2>6, <2>7
<1>6. \A i \in 0 .. n : f[i] \in S[i]
  <2> HIDE DEF S
  <2> QED BY <1>4, <1>5, Ind
<1>7. f[n] <= g[n] + e(n) BY <1>6
<1> QED BY <1>1, <1>3, <1>7

\* xtok_owner_usage adds up the frames slot by slot.
LEMMA FramesSum ==
  ASSUME NEW k \in KState, NEW o
  PROVE  \E f : /\ Sums(f, [i \in 1 .. NSlots |-> Counted(k.table, o, i - 1)], NSlots)
                /\ FramesOf(k, o) = f[NSlots]
<1> DEFINE c(i) == IF i - 1 \in OwnedSlots(k, o) THEN k.table[i - 1].n ELSE 0
<1>0. NSlots \in Nat BY SpacesAssumption
<1>1. \A i \in 1 .. NSlots : i - 1 \in Slots BY <1>0 DEF Slots
<1>2. \A i \in 1 .. NSlots : k.table[i - 1] \in Entries BY <1>1 DEF KState
<1>3. \A i \in 1 .. NSlots : c(i) = Counted(k.table, o, i - 1)
  BY <1>1 DEF Counted, OwnedSlots
<1>4. \A i \in 1 .. NSlots : c(i) \in Nat BY <1>2 DEF Entries
<1>5. \E f : Sums(f, [i \in 1 .. NSlots |-> c(i)], NSlots) /\ FramesOf(k, o) = f[NSlots]
  BY <1>0, <1>4, FramesLoop
<1>6. [i \in 1 .. NSlots |-> c(i)] = [i \in 1 .. NSlots |-> Counted(k.table, o, i - 1)] BY <1>3
<1> HIDE DEF c
<1> QED BY <1>5, <1>6

\* A step that gives one slot at most a frames more.
LEMMA FramesLeq ==
  ASSUME NEW k \in KState, NEW p \in KState, NEW o, NEW u \in Slots, NEW a \in Nat,
         \A s \in Slots : Counted(p.table, o, s) <= Counted(k.table, o, s) + (IF s = u THEN a ELSE 0)
  PROVE  FramesOf(p, o) <= FramesOf(k, o) + a
<1> DEFINE c == [i \in 1 .. NSlots |-> Counted(p.table, o, i - 1)]
           d == [i \in 1 .. NSlots |-> Counted(k.table, o, i - 1)]
<1>0. NSlots \in Nat BY SpacesAssumption
<1>1. PICK f : Sums(f, c, NSlots) /\ FramesOf(p, o) = f[NSlots] BY FramesSum
<1>2. PICK g : Sums(g, d, NSlots) /\ FramesOf(k, o) = g[NSlots] BY FramesSum
<1>3. \A s \in Slots : Counted(p.table, o, s) \in Nat /\ Counted(k.table, o, s) \in Nat
  BY DEF Counted, KState, Entries
<1>4. \A i \in 1 .. NSlots : i - 1 \in Slots /\ (i = u + 1 <=> i - 1 = u) BY <1>0 DEF Slots
<1>5. \A i \in 1 .. NSlots : c[i] \in Nat /\ d[i] \in Nat BY <1>3, <1>4
<1>6. \A i \in 1 .. NSlots : c[i] <= d[i] + (IF i = u + 1 THEN a ELSE 0) BY <1>4
<1>7. u + 1 \in Nat BY DEF Slots
<1> HIDE DEF c, d
<1>8. f[NSlots] <= g[NSlots] + a BY <1>0, <1>1, <1>2, <1>5, <1>6, <1>7, SumsLeq
<1> QED BY <1>1, <1>2, <1>8

\* Usage is a natural number.
LEMMA FramesNat ==
  ASSUME NEW k \in KState, NEW o
  PROVE  FramesOf(k, o) \in Nat /\ TokensOf(k, o) \in Nat /\ IsFiniteSet(OwnedSlots(k, o))
<1>0. NSlots \in Nat /\ NSlots \in 0 .. NSlots /\ 0 \in Nat /\ NSlots - 1 \in Int BY SpacesAssumption
<1>1. FramesOf(k, o) \in Nat BY <1>0, FramesSum DEF Sums
<1>2. IsFiniteSet(0 .. (NSlots - 1)) BY <1>0, FS_Interval
<1>3. IsFiniteSet(OwnedSlots(k, o)) BY <1>2, FS_Subset DEF OwnedSlots, Slots
<1> QED BY <1>1, <1>3, FS_CardinalityType DEF TokensOf

\* The same frames and tokens, or fewer.
LEMMA UsageLeq ==
  ASSUME NEW k \in KState, NEW p \in KState, NEW o,
         \A s \in Slots : p.table[s].live /\ p.table[s].owner = o =>
           k.table[s].live /\ k.table[s].owner = o /\ k.table[s].n = p.table[s].n
  PROVE  FramesOf(p, o) <= FramesOf(k, o) /\ TokensOf(p, o) <= TokensOf(k, o)
<1>0. 0 \in Slots BY SpacesAssumption DEF Slots
<1>1. \A s \in Slots : Counted(p.table, o, s) \in Nat /\ Counted(k.table, o, s) \in Nat
  BY DEF Counted, KState, Entries
<1>2. \A s \in Slots : Counted(p.table, o, s) <= Counted(k.table, o, s)
  BY <1>1 DEF Counted
<1>3. \A s \in Slots : Counted(p.table, o, s) <= Counted(k.table, o, s) + (IF s = 0 THEN 0 ELSE 0)
  BY <1>1, <1>2
<1>4. FramesOf(p, o) <= FramesOf(k, o) + 0 BY <1>0, <1>3, FramesLeq
<1>5. FramesOf(p, o) \in Nat /\ FramesOf(k, o) \in Nat BY FramesNat
<1>6. OwnedSlots(p, o) \subseteq OwnedSlots(k, o) BY DEF OwnedSlots
<1>7. TokensOf(p, o) <= TokensOf(k, o) BY <1>6, FramesNat, FS_Subset DEF TokensOf
<1> QED BY <1>4, <1>5, <1>7

\* The loader, piece by piece.
LEMMA LoopLoad ==
  ASSUME NEW k, NEW o, NEW r, NEW pieces, Len(pieces) \in Nat, NEW S, [k |-> [k EXCEPT !.rc = "ok"], toks |-> <<>>, vas |-> <<>>] \in S[0],
         \A i \in 1 .. Len(pieces) : \A m \in S[i - 1] : (LoadPiece(m, o, r, pieces[i])) \in S[i]
  PROVE  \E t \in S[Len(pieces)] : LoadAll(k, o, r, pieces) = t.k
<1> DEFINE n == Len(pieces)
           b == [k |-> [k EXCEPT !.rc = "ok"], toks |-> <<>>, vas |-> <<>>]
           T(m, i) == LoadPiece(m, o, r, pieces[i])
           at == CHOOSE f : f = [i \in 0 .. Len(pieces) |-> IF i = 0 THEN b ELSE T(f[i - 1], i)]
           U == UNION {S[i] : i \in 0 .. n}
           G == [i \in 1 .. n |-> [m \in U |-> T(m, i)]]
<1>1. LoadAll(k, o, r, pieces) = at[n].k BY DEF LoadAll
<1>2. \A i \in 1 .. n : \A m \in S[i - 1] : T(m, i) \in S[i] OBVIOUS
<1>3. n \in Nat /\ b \in S[0] OBVIOUS
<1>a. at = CHOOSE f : f = [i \in 0 .. n |-> IF i = 0 THEN b ELSE T(f[i - 1], i)] OBVIOUS
<1> HIDE DEF T, n, b, at
<1>4. \A i \in 1 .. n : i - 1 \in 0 .. n /\ \A m \in S[i - 1] : m \in U
  <2> SUFFICES ASSUME NEW i \in 1 .. n PROVE i - 1 \in 0 .. n OBVIOUS
  <2> QED BY <1>3
<1>5. \A i \in 1 .. n : \A m \in S[i - 1] : G[i][m] = T(m, i) BY <1>4
<1>6. PICK g : Iterates(g, n, b, G, S)
  <2> HIDE DEF G, U
  <2>1. Closed(n, S, G) BY <1>2, <1>5 DEF Closed
  <2> QED BY <2>1, <1>3, Iter
<1> HIDE DEF G, U
<1> DEFINE h == [i \in 0 .. n |-> g[i]]
<1>7. \A i \in 0 .. n : i # 0 => i \in 1 .. n /\ i - 1 \in 0 .. n /\ g[i - 1] \in S[i - 1]
  <2> SUFFICES ASSUME NEW i \in 0 .. n, i # 0 PROVE i \in 1 .. n /\ i - 1 \in 0 .. n
    BY <1>6 DEF Iterates
  <2> QED BY <1>3
<1>8. \A i \in 0 .. n : g[i] = IF i = 0 THEN b ELSE T(h[i - 1], i)
  BY <1>5, <1>6, <1>7 DEF Iterates
<1>9. h = [i \in 0 .. n |-> IF i = 0 THEN b ELSE T(h[i - 1], i)] BY <1>8
<1> HIDE DEF h
<1>10. at = [i \in 0 .. n |-> IF i = 0 THEN b ELSE T(at[i - 1], i)] BY <1>9, <1>a
<1>11. at[0] \in S[0] /\ \A i \in 1 .. n : at[i] = T(at[i - 1], i)
  <2>1. 0 \in 0 .. n /\ \A i \in 1 .. n : i \in 0 .. n /\ i # 0 BY <1>3
  <2>2. at[0] = b BY <1>10, <2>1
  <2>3. \A i \in 1 .. n : at[i] = T(at[i - 1], i) BY <1>10, <2>1
  <2> QED BY <2>2, <2>3, <1>3
<1>12. \A i \in 1 .. n : at[i - 1] \in S[i - 1] => at[i] \in S[i] BY <1>11, <1>2
<1>13. \A i \in 0 .. n : at[i] \in S[i] BY <1>3, <1>11, <1>12, Ind
<1>14. n \in 0 .. n BY <1>3
<1> QED BY <1>1, <1>13, <1>14 DEF n

\* Tables that differ in the pins give every owner the same.
LEMMA SameUsage ==
  ASSUME NEW k \in KState, NEW p \in KState, SameTokens(k.table, p.table), NEW o
  PROVE  FramesOf(p, o) <= FramesOf(k, o) /\ TokensOf(p, o) <= TokensOf(k, o)
<1>1. \A s \in Slots : p.table[s].live /\ p.table[s].owner = o =>
           k.table[s].live /\ k.table[s].owner = o /\ k.table[s].n = p.table[s].n
  BY DEF SameTokens
<1> QED BY <1>1, UsageLeq

\* A token of n frames counts for its owner and nobody else.
LEMMA AllotUsage ==
  ASSUME NEW k \in KState, NEW a, NEW sp, NEW pl, NEW o, NEW n \in Nat, Allotted(k, a, sp, pl, o, n)
  PROVE  /\ FramesOf(a, o) <= FramesOf(k, o) + n /\ TokensOf(a, o) <= TokensOf(k, o) + 1
         /\ \A x \in Owners : x # o => /\ FramesOf(a, x) <= FramesOf(k, x)
                                       /\ TokensOf(a, x) <= TokensOf(k, x)
<1>1. a \in KState BY DEF Allotted, Good, Paged
<1>2. CASE a.rc # "ok"
  <2>1. a.table = k.table BY <1>2 DEF Allotted
  <2>2. SameTokens(k.table, a.table) BY <2>1 DEF SameTokens
  <2>3. \A x : FramesOf(a, x) <= FramesOf(k, x) /\ TokensOf(a, x) <= TokensOf(k, x)
    BY <1>1, <2>2, SameUsage
  <2>4. FramesOf(a, o) \in Nat /\ TokensOf(a, o) \in Nat /\ FramesOf(k, o) \in Nat /\ TokensOf(k, o) \in Nat
    BY <1>1, FramesNat
  <2> QED BY <2>3, <2>4
<1>3. CASE a.rc = "ok"
  <2> DEFINE u == a.tok.slot
  <2>1. /\ u \in Slots /\ ~k.table[u].live /\ ElseSame(k.table, a.table, u)
        /\ a.table[u].owner = o /\ a.table[u].n = n
    BY <1>3 DEF Allotted
  <2> HIDE DEF u
  <2>2. \A s \in Slots : Counted(a.table, o, s) \in Nat /\ Counted(k.table, o, s) \in Nat
    BY <1>1 DEF Counted, KState, Entries
  <2>3. \A s \in Slots : Counted(a.table, o, s) <= Counted(k.table, o, s) + (IF s = u THEN n ELSE 0)
    <3> SUFFICES ASSUME NEW s \in Slots
                 PROVE  Counted(a.table, o, s) <= Counted(k.table, o, s) + (IF s = u THEN n ELSE 0)
      OBVIOUS
    <3>1. CASE s = u
      <4>1. Counted(a.table, o, s) \in {0, n} /\ Counted(k.table, o, s) = 0 BY <3>1, <2>1 DEF Counted
      <4> QED BY <3>1, <4>1
    <3>2. CASE s # u
      <4>1. Counted(a.table, o, s) = Counted(k.table, o, s) BY <3>2, <2>1 DEF Counted, ElseSame
      <4> QED BY <3>2, <4>1, <2>2
    <3> QED BY <3>1, <3>2
  <2>4. FramesOf(a, o) <= FramesOf(k, o) + n BY <1>1, <2>1, <2>3, FramesLeq
  <2>5. OwnedSlots(a, o) \subseteq OwnedSlots(k, o) \cup {u} BY <2>1 DEF OwnedSlots, ElseSame
  <2>6. TokensOf(a, o) <= TokensOf(k, o) + 1
    <3> DEFINE X == OwnedSlots(k, o)
               Y == OwnedSlots(a, o)
    <3>1. IsFiniteSet(X) BY FramesNat
    <3>2. Y \subseteq X \cup {u} BY <2>5
    <3> HIDE DEF X, Y
    <3>3. IsFiniteSet(X \cup {u}) /\ Cardinality(X \cup {u}) <= Cardinality(X) + 1
      <4>1. Cardinality(X) \in Nat BY <3>1, FS_CardinalityType
      <4>2. IsFiniteSet(X \cup {u}) BY <3>1, FS_AddElement
      <4>3. Cardinality(X \cup {u}) = IF u \in X THEN Cardinality(X) ELSE Cardinality(X) + 1
        BY <3>1, FS_AddElement, Zenon
      <4> QED BY <4>1, <4>2, <4>3
    <3>4. Cardinality(Y) <= Cardinality(X \cup {u}) BY <3>2, <3>3, FS_Subset
    <3>5. Cardinality(Y) \in Nat /\ Cardinality(X) \in Nat /\ Cardinality(X \cup {u}) \in Nat
      BY <3>1, <3>2, <3>3, FS_Subset, FS_CardinalityType
    <3>6. Cardinality(Y) <= Cardinality(X) + 1 BY <3>3, <3>4, <3>5
    <3> QED BY <3>6 DEF X, Y, TokensOf
  <2>7. ASSUME NEW x \in Owners, x # o
        PROVE  FramesOf(a, x) <= FramesOf(k, x) /\ TokensOf(a, x) <= TokensOf(k, x)
    <3>1. \A s \in Slots : a.table[s].live /\ a.table[s].owner = x =>
            k.table[s].live /\ k.table[s].owner = x /\ k.table[s].n = a.table[s].n
      BY <2>1, <2>7 DEF ElseSame
    <3> QED BY <1>1, <3>1, UsageLeq
  <2> QED BY <2>4, <2>6, <2>7
<1> QED BY <1>2, <1>3

-----------------------------------------------------------------------------
(* The loader's loop: i pieces are in, or everything is undone.            *)

\* The members of a sequence.
Ran(s) == {s[j] : j \in 1 .. Len(s)}

\* After i pieces: all are held, within f[i] frames and i tokens, or all is undone.
Loading(k0, t, sp, o, i, f) ==
    /\ t \in [k : KState, toks : Seq(Toks), vas : Seq(Nat)]
    /\ t.k.rc = "failed" => Undone(k0, t.k, sp)
    /\ t.k.rc # "failed" => /\ t.k.rc = "ok"
                            /\ Held(k0, t.k, sp, o, Ran(t.toks), Ran(t.vas))
                            /\ FramesOf(t.k, o) <= FramesOf(k0, o) + f[i]
                            /\ TokensOf(t.k, o) <= TokensOf(k0, o) + i

\* Appending adds one element.
LEMMA AppendRan ==
  ASSUME NEW S, NEW s \in Seq(S), NEW x \in S
  PROVE  Append(s, x) \in Seq(S) /\ Ran(Append(s, x)) = Ran(s) \cup {x}
<1> DEFINE a == Append(s, x)
           n == Len(s)
<1>1. n \in Nat /\ a \in Seq(S) /\ Len(a) = n + 1 /\ a[n + 1] = x /\ \A j \in 1 .. n : a[j] = s[j]
  OBVIOUS
<1> HIDE DEF a, n
<1>2. 1 .. (n + 1) = (1 .. n) \cup {n + 1} BY <1>1
<1>3. {a[j] : j \in 1 .. (n + 1)} = {s[j] : j \in 1 .. n} \cup {x} BY <1>1, <1>2
<1> QED BY <1>1, <1>3 DEF Ran, a, n

\* One turn of the loader.
LEMMA LoadTurn ==
  ASSUME NEW k0 \in KState, NEW t, NEW sp, NEW o \in Owners, NEW i \in Nat, i > 0,
         NEW pc, pc.va \in Nat, pc.pages \in Nat, pc.pages > 0,
         NEW f, f[i - 1] \in Nat, f[i] = f[i - 1] + pc.pages,
         Vacant(k0, sp, o), Loading(k0, t, sp, o, i - 1, f)
  PROVE  Loading(k0, LoadPiece(t, o, sp[o].pml4, pc), sp, o, i, f)
<1> DEFINE root == sp[o].pml4
           n == pc.pages
           a == xtok_alloc_ram(t.k, o, n, SegRights(pc.perms))
           toks == Append(t.toks, a.tok)
           m == xas_map(a, root, o, pc.va, a.tok, pc.perms)
           g == LoadPiece(t, o, root, pc)
<1>0. t \in [k : KState, toks : Seq(Toks), vas : Seq(Nat)] /\ n \in Nat /\ n > 0 /\ pc.va \in Nat
  BY DEF Loading
<1>1. CASE t.k.rc = "failed"
  <2>1. g = t BY <1>1 DEF LoadPiece, LoadMapped
  <2> QED BY <1>0, <1>1, <2>1 DEF Loading
<1>2. CASE t.k.rc # "failed"
  <2>1. /\ t.k \in KState /\ t.toks \in Seq(Toks) /\ t.vas \in Seq(Nat)
        /\ t = [k |-> t.k, toks |-> t.toks, vas |-> t.vas] /\ o \in Live(sp)
    BY <1>0 DEF Vacant
  <2>2. /\ Held(k0, t.k, sp, o, Ran(t.toks), Ran(t.vas))
        /\ FramesOf(t.k, o) <= FramesOf(k0, o) + f[i - 1]
        /\ TokensOf(t.k, o) <= TokensOf(k0, o) + (i - 1)
    BY <1>2 DEF Loading
  <2>3. PICK pl : Good(t.k, sp, pl) BY <2>2 DEF Held
  <2>4. SegRights(pc.perms) \in SUBSET UserRights BY DEF SegRights, Need, UserRights
  <2>5. Allotted(t.k, a, sp, pl, o, n) BY <1>0, <2>3, <2>4, AllocRam
  <2>6. g = IF a.rc = "nomem" THEN [t EXCEPT !.k = rollback(a, root, t.toks, t.vas)]
            ELSE IF m.rc # "ok" THEN [t EXCEPT !.k = rollback(m, root, toks, t.vas)]
            ELSE [k |-> m, toks |-> toks, vas |-> Append(t.vas, pc.va)]
    BY <1>2 DEF LoadPiece, LoadMapped
  <2>7. /\ a.rc # "ok" => Held(k0, a, sp, o, Ran(t.toks), Ran(t.vas))
        /\ a.rc = "ok" => Held(k0, a, sp, o, Ran(t.toks) \cup {a.tok}, Ran(t.vas))
    <3> HIDE DEF a
    <3> QED BY <2>2, <2>5, HeldAlloc
  <2>8. a.rc \in {"ok", "nomem"} /\ a \in KState /\ Good(a, sp, pl) BY <2>5 DEF Allotted, Good, Paged
  <2>9. ASSUME NEW q \in KState, q.rc = "failed", Undone(k0, q, sp) PROVE Loading(k0, [t EXCEPT !.k = q], sp, o, i, f)
    <3>1. [t EXCEPT !.k = q].k = q BY <2>1
    <3>2. [t EXCEPT !.k = q] \in [k : KState, toks : Seq(Toks), vas : Seq(Nat)] BY <1>0, <2>9
    <3> QED BY <3>1, <3>2, <2>9 DEF Loading
  <2> HIDE DEF a
  <2>10. CASE a.rc = "nomem"
    <3> DEFINE q == rollback(a, root, t.toks, t.vas)
    <3>1. Held(k0, a, sp, o, {t.toks[j] : j \in 1 .. Len(t.toks)}, {t.vas[j] : j \in 1 .. Len(t.vas)})
      BY <2>7, <2>10 DEF Ran
    <3>2. Undone(k0, q, sp) /\ q.rc = "failed" /\ q \in KState BY <2>1, <3>1, Rollback
    <3>3. g = [t EXCEPT !.k = q] BY <2>6, <2>10
    <3> HIDE DEF q, g
    <3>4. Loading(k0, g, sp, o, i, f) BY <3>2, <3>3, <2>9
    <3> QED BY <3>4 DEF g
  <2>11. CASE a.rc # "nomem"
    <3>1. a.rc = "ok" BY <2>8, <2>11
    <3>2. a.tok \in [slot : Slots, gen : Nat] BY <2>8 DEF KState
    <3>3. MapDone(a, m, sp, o, pc.va, a.tok) BY <1>0, <2>1, <2>8, <3>2, XasMap
    <3>5. toks \in Seq(Toks) /\ Ran(toks) = Ran(t.toks) \cup {a.tok}
      <4>1. a.tok \in Toks BY <3>2 DEF Toks
      <4> QED BY <2>1, <4>1, AppendRan
    <3>6. Held(k0, a, sp, o, Ran(toks), Ran(t.vas)) BY <2>7, <3>1, <3>5
    <3> HIDE DEF m, toks
    <3>4. m \in KState /\ SameTokens(a.table, m.table) BY <3>3 DEF MapDone, Good, Paged
    <3>7. /\ m.rc # "ok" => Held(k0, m, sp, o, Ran(toks), Ran(t.vas))
          /\ m.rc = "ok" => Held(k0, m, sp, o, Ran(toks), Ran(t.vas) \cup {pc.va})
      BY <3>3, <3>6, HeldMap
    <3>8. CASE m.rc # "ok"
      <4> DEFINE q == rollback(m, root, toks, t.vas)
      <4>1. Held(k0, m, sp, o, {toks[j] : j \in 1 .. Len(toks)}, {t.vas[j] : j \in 1 .. Len(t.vas)})
        BY <3>7, <3>8 DEF Ran
      <4>2. Undone(k0, q, sp) /\ q.rc = "failed" /\ q \in KState BY <2>1, <3>5, <4>1, Rollback
      <4>3. g = [t EXCEPT !.k = q] BY <2>6, <2>11, <3>8
      <4> HIDE DEF q, g
      <4>4. Loading(k0, g, sp, o, i, f) BY <4>2, <4>3, <2>9
      <4> QED BY <4>4 DEF g
    <3>9. CASE m.rc = "ok"
      <4> DEFINE vas == Append(t.vas, pc.va)
      <4>1. vas \in Seq(Nat) /\ Ran(vas) = Ran(t.vas) \cup {pc.va} BY <1>0, <2>1, AppendRan
      <4>2. g = [k |-> m, toks |-> toks, vas |-> vas] BY <2>6, <2>11, <3>9
      <4>3. Held(k0, m, sp, o, Ran(toks), Ran(vas)) BY <3>7, <3>9, <4>1
      <4>4. FramesOf(m, o) <= FramesOf(a, o) /\ TokensOf(m, o) <= TokensOf(a, o)
        BY <2>8, <3>4, SameUsage
      <4>5. FramesOf(a, o) <= FramesOf(t.k, o) + n /\ TokensOf(a, o) <= TokensOf(t.k, o) + 1
        BY <1>0, <2>1, <2>5, AllotUsage
      <4>6. /\ FramesOf(m, o) \in Nat /\ FramesOf(a, o) \in Nat /\ FramesOf(t.k, o) \in Nat
            /\ FramesOf(k0, o) \in Nat /\ TokensOf(m, o) \in Nat /\ TokensOf(a, o) \in Nat
            /\ TokensOf(t.k, o) \in Nat /\ TokensOf(k0, o) \in Nat
        BY <2>1, <2>8, <3>4, FramesNat
      <4>7. FramesOf(m, o) <= FramesOf(k0, o) + f[i]
        <5>1. f[i] = f[i - 1] + n OBVIOUS
        <5> DEFINE x == FramesOf(m, o)
                   y == FramesOf(t.k, o)
                   z == FramesOf(k0, o)
                   c == f[i - 1]
        <5>2. x \in Nat /\ y \in Nat /\ z \in Nat /\ c \in Nat /\ n \in Nat /\ y <= z + c
          BY <1>0, <2>2, <4>6
        <5>3. x <= y + n
          <6> HIDE DEF n
          <6> QED BY <1>0, <4>4, <4>5, <4>6
        <5> HIDE DEF n, x, y, z, c
        <5>4. x <= z + (c + n) BY <5>2, <5>3
        <5> QED BY <5>1, <5>4 DEF x, z, c
      <4>8. TokensOf(m, o) <= TokensOf(k0, o) + i BY <2>2, <4>4, <4>5, <4>6
      <4> HIDE DEF vas, g
      <4>9. g.k = m /\ g.toks = toks /\ g.vas = vas BY <4>2
      <4>10. g \in [k : KState, toks : Seq(Toks), vas : Seq(Nat)] BY <4>2, <4>1, <3>4, <3>5
      <4> QED BY <4>3, <4>7, <4>8, <4>9, <4>10, <3>9 DEF Loading, g
    <3> QED BY <3>8, <3>9
  <2> QED BY <2>10, <2>11
<1> QED BY <1>1, <1>2

-----------------------------------------------------------------------------
(* The parser: a file is accepted exactly when no check fails.             *)

\* A list of checks, and that none of them fails.
Coded(checks) ==
    DOMAIN checks \subseteq Nat /\ \A i \in DOMAIN checks : checks[i][1] => checks[i][2] # "ok"
Passes(checks) == \A i \in DOMAIN checks : ~checks[i][1]

\* A list of checks gives "ok" when none of them fails.
LEMMA VerdictOk ==
  ASSUME NEW checks, Coded(checks)
  PROVE  Verdict(checks) = "ok" <=> Passes(checks)
<1>0. DOMAIN checks \subseteq Nat /\ \A i \in DOMAIN checks : checks[i][1] => checks[i][2] # "ok"
  BY DEF Coded
<1> DEFINE failed == {i \in DOMAIN checks : checks[i][1]}
<1>1. Verdict(checks) = IF failed = {} THEN "ok" ELSE checks[Min(failed)][2] BY DEF Verdict
<1>2. failed # {} => Min(failed) \in failed
  <2>1. failed \subseteq Nat BY <1>0
  <2> HIDE DEF failed
  <2> QED BY <2>1, Least
<1>3. failed # {} => checks[Min(failed)][2] # "ok" BY <1>0, <1>2
<1>4. failed = {} <=> Passes(checks) BY DEF Passes
<1> HIDE DEF failed
<1> QED BY <1>1, <1>3, <1>4

\* Several lists give "ok" when each does.
LEMMA FirstErrorOk ==
  ASSUME NEW codes, DOMAIN codes \subseteq Nat
  PROVE  FirstError(codes) = "ok" <=> \A i \in DOMAIN codes : codes[i] = "ok"
<1> DEFINE bad == {i \in DOMAIN codes : codes[i] # "ok"}
<1>1. FirstError(codes) = IF bad = {} THEN "ok" ELSE codes[Min(bad)] BY DEF FirstError
<1>2. bad # {} => Min(bad) \in bad
  <2>1. bad \subseteq Nat OBVIOUS
  <2> HIDE DEF bad
  <2> QED BY <2>1, Least
<1>3. bad # {} => codes[Min(bad)] # "ok" BY <1>2
<1>4. bad = {} <=> \A i \in DOMAIN codes : codes[i] = "ok" OBVIOUS
<1> HIDE DEF bad
<1> QED BY <1>1, <1>3, <1>4

\* The checks of the header and the tables, as one condition.
TablesOk(x) ==
    LET n == Len(x.segs)  c == Len(x.caps) IN
    /\ ~(x.size < EXB_HEADER_SIZE \/ x.size > EXB_MAX_FILE)
    /\ x.head = "ok"
    /\ ~(n < 1 \/ n > EXB_MAX_SEGS)
    /\ ~(x.seg_off < EXB_HEADER_SIZE \/ SegEnd(x) > x.size)
    /\ ~(c > EXB_MAX_CAPS)
    /\ ~(c = 0 /\ x.cap_off # 0)
    /\ ~(c > 0 /\ (x.cap_off < EXB_HEADER_SIZE \/ CapEnd(x) > x.size))
    /\ ~(c > 0 /\ overlap(x.seg_off, SegEnd(x), x.cap_off, CapEnd(x)))

\* The checks of the header and the tables.
LEMMA TablesVerdict ==
  ASSUME NEW x
  PROVE  Verdict(TableChecks(x)) = "ok" <=> TablesOk(x)
<1> DEFINE T == TableChecks(x)
<1>1. DOMAIN T = 1 .. 8 BY DEF TableChecks
<1>2. (T[1][1] <=> (x.size < EXB_HEADER_SIZE \/ x.size > EXB_MAX_FILE)) /\ T[1][2] = "size"
  BY DEF TableChecks
<1>3. (T[2][1] <=> (x.head # "ok")) /\ T[2][2] = x.head
  BY DEF TableChecks
<1>4. (T[3][1] <=> (Len(x.segs) < 1 \/ Len(x.segs) > EXB_MAX_SEGS)) /\ T[3][2] = "segtab"
  BY DEF TableChecks
<1>5. (T[4][1] <=> (x.seg_off < EXB_HEADER_SIZE \/ SegEnd(x) > x.size)) /\ T[4][2] = "segtab"
  BY DEF TableChecks
<1>6. (T[5][1] <=> (Len(x.caps) > EXB_MAX_CAPS)) /\ T[5][2] = "cap"
  BY DEF TableChecks
<1>7. (T[6][1] <=> (Len(x.caps) = 0 /\ x.cap_off # 0)) /\ T[6][2] = "cap"
  BY DEF TableChecks
<1>8. (T[7][1] <=> (Len(x.caps) > 0 /\ (x.cap_off < EXB_HEADER_SIZE \/ CapEnd(x) > x.size))) /\ T[7][2] = "cap"
  BY DEF TableChecks
<1>9. (T[8][1] <=> (Len(x.caps) > 0 /\ overlap(x.seg_off, SegEnd(x), x.cap_off, CapEnd(x)))) /\ T[8][2] = "overlap"
  BY DEF TableChecks
<1> HIDE DEF T
<1>10. \A i \in DOMAIN T : i = 1 \/ i = 2 \/ i = 3 \/ i = 4 \/ i = 5 \/ i = 6 \/ i = 7 \/ i = 8 BY <1>1
<1>11. \A i \in DOMAIN T : T[i][1] => T[i][2] # "ok" BY <1>10, <1>2, <1>3, <1>4, <1>5, <1>6, <1>7, <1>8, <1>9
<1>12. Verdict(T) = "ok" <=> Passes(T)
  <2>1. Coded(T) BY <1>1, <1>11 DEF Coded
  <2> QED BY <2>1, VerdictOk
<1>13. Passes(T) <=> (~T[1][1] /\ ~T[2][1] /\ ~T[3][1] /\ ~T[4][1] /\ ~T[5][1] /\ ~T[6][1] /\ ~T[7][1] /\ ~T[8][1])
  BY <1>1, <1>10 DEF Passes
<1>14. (~T[1][1] /\ ~T[2][1] /\ ~T[3][1] /\ ~T[4][1] /\ ~T[5][1] /\ ~T[6][1] /\ ~T[7][1] /\ ~T[8][1]) <=> TablesOk(x)
  BY <1>2, <1>3, <1>4, <1>5, <1>6, <1>7, <1>8, <1>9 DEF TablesOk
<1> QED BY <1>12, <1>13, <1>14 DEF T

\* Segment i shares pages or bytes with one before it.
SegMet(x, i) ==
    \E j \in 1 .. (i - 1) :
      LET s == x.segs[i]  t == x.segs[j] IN
      \/ overlap(s.vaddr, VEnd(s), t.vaddr, VEnd(t))
      \/ s.fsz > 0 /\ t.fsz > 0 /\ overlap(s.foff, FEnd(s), t.foff, FEnd(t))
\* The checks of segment i and of capability i, as conditions.
SegOk(x, i) ==
    /\ ~(x.segs[i].resv # 0 \/ ~(x.segs[i].flags \subseteq {"R", "W", "X"}) \/ "R" \notin x.segs[i].flags)
    /\ ~({"W", "X"} \subseteq x.segs[i].flags)
    /\ ~(x.segs[i].vaddr % EXB_PAGE # 0 \/ x.segs[i].vaddr < EXB_VA_MIN \/ x.segs[i].vaddr >= EXB_VA_LIMIT)
    /\ ~(x.segs[i].mem = 0 \/ x.segs[i].mem > EXB_MAX_IMAGE_PAGES * EXB_PAGE)
    /\ ~(VEnd(x.segs[i]) > EXB_VA_LIMIT \/ x.segs[i].fsz > x.segs[i].mem)
    /\ ~(x.segs[i].fsz = 0 /\ x.segs[i].foff # 0)
    /\ ~(x.segs[i].fsz > 0 /\ (x.segs[i].foff < EXB_HEADER_SIZE \/ FEnd(x.segs[i]) > x.size))
    /\ ~(x.segs[i].fsz > 0 /\ overlap(x.segs[i].foff, FEnd(x.segs[i]), x.seg_off, SegEnd(x)))
    /\ ~(x.segs[i].fsz > 0 /\ x.caps # <<>> /\ overlap(x.segs[i].foff, FEnd(x.segs[i]), x.cap_off, CapEnd(x)))
    /\ ~(TotalPages(x, i) > EXB_MAX_IMAGE_PAGES)
    /\ ~(SegMet(x, i))
CapOk(x, i) ==
    /\ ~(x.caps[i].resv # 0 \/ x.caps[i].kind = "zero")
    /\ ~(x.caps[i].kind \in KnownCaps /\ \E j \in 1 .. (i - 1) : x.caps[j].kind = x.caps[i].kind)
    /\ ~(~CapValueOk(x.caps[i]))

\* The checks of a segment.
LEMMA SegVerdict ==
  ASSUME NEW x, NEW i
  PROVE  Verdict(SegChecks(x, i)) = "ok" <=> SegOk(x, i)
<1> DEFINE T == SegChecks(x, i)
<1>1. DOMAIN T = 1 .. 11 BY DEF SegChecks
<1>2. (T[1][1] <=> (x.segs[i].resv # 0 \/ ~(x.segs[i].flags \subseteq {"R", "W", "X"}) \/ "R" \notin x.segs[i].flags)) /\ T[1][2] = "seg"
  BY DEF SegChecks
<1>3. (T[2][1] <=> ({"W", "X"} \subseteq x.segs[i].flags)) /\ T[2][2] = "wx"
  BY DEF SegChecks
<1>4. (T[3][1] <=> (x.segs[i].vaddr % EXB_PAGE # 0 \/ x.segs[i].vaddr < EXB_VA_MIN \/ x.segs[i].vaddr >= EXB_VA_LIMIT)) /\ T[3][2] = "seg"
  BY DEF SegChecks
<1>5. (T[4][1] <=> (x.segs[i].mem = 0 \/ x.segs[i].mem > EXB_MAX_IMAGE_PAGES * EXB_PAGE)) /\ T[4][2] = "seg"
  BY DEF SegChecks
<1>6. (T[5][1] <=> (VEnd(x.segs[i]) > EXB_VA_LIMIT \/ x.segs[i].fsz > x.segs[i].mem)) /\ T[5][2] = "seg"
  BY DEF SegChecks
<1>7. (T[6][1] <=> (x.segs[i].fsz = 0 /\ x.segs[i].foff # 0)) /\ T[6][2] = "seg"
  BY DEF SegChecks
<1>8. (T[7][1] <=> (x.segs[i].fsz > 0 /\ (x.segs[i].foff < EXB_HEADER_SIZE \/ FEnd(x.segs[i]) > x.size))) /\ T[7][2] = "seg"
  BY DEF SegChecks
<1>9. (T[8][1] <=> (x.segs[i].fsz > 0 /\ overlap(x.segs[i].foff, FEnd(x.segs[i]), x.seg_off, SegEnd(x)))) /\ T[8][2] = "overlap"
  BY DEF SegChecks
<1>10. (T[9][1] <=> (x.segs[i].fsz > 0 /\ x.caps # <<>> /\ overlap(x.segs[i].foff, FEnd(x.segs[i]), x.cap_off, CapEnd(x)))) /\ T[9][2] = "overlap"
  BY DEF SegChecks
<1>11. (T[10][1] <=> (TotalPages(x, i) > EXB_MAX_IMAGE_PAGES)) /\ T[10][2] = "limit"
  BY DEF SegChecks
<1>12. (T[11][1] <=> (SegMet(x, i))) /\ T[11][2] = "overlap"
  BY DEF SegChecks, SegMet
<1> HIDE DEF T
<1>13. \A j \in DOMAIN T : j = 1 \/ j = 2 \/ j = 3 \/ j = 4 \/ j = 5 \/ j = 6 \/ j = 7 \/ j = 8 \/ j = 9 \/ j = 10 \/ j = 11 BY <1>1
<1>14. \A j \in DOMAIN T : T[j][1] => T[j][2] # "ok" BY <1>13, <1>2, <1>3, <1>4, <1>5, <1>6, <1>7, <1>8, <1>9, <1>10, <1>11, <1>12
<1>15. Verdict(T) = "ok" <=> Passes(T)
  <2>1. Coded(T) BY <1>1, <1>14 DEF Coded
  <2> QED BY <2>1, VerdictOk
<1>16. Passes(T) <=> (~T[1][1] /\ ~T[2][1] /\ ~T[3][1] /\ ~T[4][1] /\ ~T[5][1] /\ ~T[6][1] /\ ~T[7][1] /\ ~T[8][1] /\ ~T[9][1] /\ ~T[10][1] /\ ~T[11][1])
  BY <1>1, <1>13 DEF Passes
<1>17. (~T[1][1] /\ ~T[2][1] /\ ~T[3][1] /\ ~T[4][1] /\ ~T[5][1] /\ ~T[6][1] /\ ~T[7][1] /\ ~T[8][1] /\ ~T[9][1] /\ ~T[10][1] /\ ~T[11][1]) <=> SegOk(x, i)
  BY <1>2, <1>3, <1>4, <1>5, <1>6, <1>7, <1>8, <1>9, <1>10, <1>11, <1>12 DEF SegOk
<1> QED BY <1>15, <1>16, <1>17 DEF T

\* The checks of a capability.
LEMMA CapVerdict ==
  ASSUME NEW x, NEW i
  PROVE  Verdict(CapChecks(x, i)) = "ok" <=> CapOk(x, i)
<1> DEFINE T == CapChecks(x, i)
<1>1. DOMAIN T = 1 .. 3 BY DEF CapChecks
<1>2. (T[1][1] <=> (x.caps[i].resv # 0 \/ x.caps[i].kind = "zero")) /\ T[1][2] = "cap"
  BY DEF CapChecks
<1>3. (T[2][1] <=> (x.caps[i].kind \in KnownCaps /\ \E j \in 1 .. (i - 1) : x.caps[j].kind = x.caps[i].kind)) /\ T[2][2] = "cap"
  BY DEF CapChecks
<1>4. (T[3][1] <=> (~CapValueOk(x.caps[i]))) /\ T[3][2] = "cap"
  BY DEF CapChecks
<1> HIDE DEF T
<1>5. \A j \in DOMAIN T : j = 1 \/ j = 2 \/ j = 3 BY <1>1
<1>6. \A j \in DOMAIN T : T[j][1] => T[j][2] # "ok" BY <1>5, <1>2, <1>3, <1>4
<1>7. Verdict(T) = "ok" <=> Passes(T)
  <2>1. Coded(T) BY <1>1, <1>6 DEF Coded
  <2> QED BY <2>1, VerdictOk
<1>8. Passes(T) <=> (~T[1][1] /\ ~T[2][1] /\ ~T[3][1])
  BY <1>1, <1>5 DEF Passes
<1>9. (~T[1][1] /\ ~T[2][1] /\ ~T[3][1]) <=> CapOk(x, i)
  BY <1>2, <1>3, <1>4 DEF CapOk
<1> QED BY <1>7, <1>8, <1>9 DEF T


\* The entry point lies in the file part of an executable segment.
EntryOk(x) == \E i \in DOMAIN x.segs : EntryIn(x.entry, x.segs[i])

\* The check of the entry point.
LEMMA EntryVerdict ==
  ASSUME NEW x
  PROVE  Verdict(EntryCheck(x)) = "ok" <=> EntryOk(x)
<1> DEFINE T == EntryCheck(x)
<1>1. DOMAIN T = 1 .. 1 BY DEF EntryCheck
<1>2. (T[1][1] <=> (\A i \in DOMAIN x.segs : ~EntryIn(x.entry, x.segs[i]))) /\ T[1][2] = "entry"
  BY DEF EntryCheck
<1> HIDE DEF T
<1>3. \A i \in DOMAIN T : i = 1 BY <1>1
<1>4. \A i \in DOMAIN T : T[i][1] => T[i][2] # "ok" BY <1>3, <1>2
<1>5. Verdict(T) = "ok" <=> Passes(T)
  <2>1. Coded(T) BY <1>1, <1>4 DEF Coded
  <2> QED BY <2>1, VerdictOk
<1>6. Passes(T) <=> (~T[1][1])
  BY <1>1, <1>3 DEF Passes
<1>7. (~T[1][1]) <=> EntryOk(x)
  BY <1>2 DEF EntryOk
<1> QED BY <1>5, <1>6, <1>7 DEF T

\* The types of a file's fields.
LEMMA FileTypes ==
  ASSUME NEW x \in Files
  PROVE  /\ x.size \in Nat /\ x.entry \in Nat /\ x.seg_off \in Nat /\ x.cap_off \in Nat
         /\ Len(x.segs) \in Nat /\ DOMAIN x.segs = 1 .. Len(x.segs)
         /\ Len(x.caps) \in Nat /\ DOMAIN x.caps = 1 .. Len(x.caps)
         /\ (x.caps = <<>> <=> Len(x.caps) = 0)
         /\ \A i \in DOMAIN x.segs :
              /\ x.segs[i].vaddr \in Nat /\ x.segs[i].mem \in Nat /\ x.segs[i].foff \in Nat
              /\ x.segs[i].fsz \in Nat /\ x.segs[i].resv \in Nat
         /\ \A i \in DOMAIN x.caps :
              x.caps[i].value \in Nat /\ x.caps[i].resv \in Nat /\ x.caps[i].optional \in BOOLEAN
<1> DEFINE SE == [vaddr : Nat, mem : Nat, foff : Nat, fsz : Nat, flags : SUBSET STRING, resv : Nat]
           CA == [kind : STRING, optional : BOOLEAN, resv : Nat, value : Nat]
<1>1. x.size \in Nat /\ x.entry \in Nat /\ x.seg_off \in Nat /\ x.cap_off \in Nat BY DEF Files
<1>2. x.segs \in Seq(SE) /\ x.caps \in Seq(CA) BY DEF Files
<1> DEFINE ss == x.segs
           cc == x.caps
<1> HIDE DEF ss, cc, SE, CA
<1>3. ss \in Seq(SE) /\ cc \in Seq(CA) BY <1>2 DEF ss, cc
<1>4. Len(ss) \in Nat /\ DOMAIN ss = 1 .. Len(ss) /\ \A i \in DOMAIN ss : ss[i] \in SE BY <1>3
<1>5. Len(cc) \in Nat /\ DOMAIN cc = 1 .. Len(cc) /\ \A i \in DOMAIN cc : cc[i] \in CA BY <1>3
<1>6. cc = <<>> <=> Len(cc) = 0 BY <1>3, EmptySeq
<1>7. \A s \in SE : s.vaddr \in Nat /\ s.mem \in Nat /\ s.foff \in Nat /\ s.fsz \in Nat /\ s.resv \in Nat
  BY DEF SE
<1>8. \A c \in CA : c.value \in Nat /\ c.resv \in Nat /\ c.optional \in BOOLEAN BY DEF CA
<1> QED BY <1>1, <1>4, <1>5, <1>6, <1>7, <1>8 DEF ss, cc

\* parse_impl accepts a file that passes every check, and no other.
LEMMA ParseOk ==
  ASSUME NEW x \in Files
  PROVE  parse_impl(x) = "ok" <=> /\ TablesOk(x) /\ EntryOk(x)
                                  /\ \A i \in DOMAIN x.segs : SegOk(x, i)
                                  /\ \A i \in DOMAIN x.caps : CapOk(x, i)
<1> DEFINE a == Verdict(TableChecks(x))
           S == [i \in DOMAIN x.segs |-> Verdict(SegChecks(x, i))]
           b == FirstError(S)
           c == Verdict(EntryCheck(x))
           C == [i \in DOMAIN x.caps |-> Verdict(CapChecks(x, i))]
           d == FirstError(C)
           L == <<a, b, c, d>>
<1>1. DOMAIN S \subseteq Nat /\ DOMAIN C \subseteq Nat
  <2>1. DOMAIN S = DOMAIN x.segs /\ DOMAIN C = DOMAIN x.caps OBVIOUS
  <2>2. DOMAIN x.segs \subseteq Nat /\ DOMAIN x.caps \subseteq Nat BY FileTypes
  <2> QED BY <2>1, <2>2
<1>2. (b = "ok") <=> \A i \in DOMAIN x.segs : SegOk(x, i)
  <2>1. (b = "ok") <=> \A i \in DOMAIN S : S[i] = "ok"
    <3> HIDE DEF S
    <3> QED BY <1>1, FirstErrorOk
  <2>2. \A i \in DOMAIN x.segs : S[i] = "ok" <=> SegOk(x, i) BY SegVerdict
  <2> QED BY <2>1, <2>2
<1>3. (d = "ok") <=> \A i \in DOMAIN x.caps : CapOk(x, i)
  <2>1. (d = "ok") <=> \A i \in DOMAIN C : C[i] = "ok"
    <3> HIDE DEF C
    <3> QED BY <1>1, FirstErrorOk
  <2>2. \A i \in DOMAIN x.caps : C[i] = "ok" <=> CapOk(x, i) BY CapVerdict
  <2> QED BY <2>1, <2>2
<1>4. (a = "ok" <=> TablesOk(x)) /\ (c = "ok" <=> EntryOk(x)) BY TablesVerdict, EntryVerdict
<1>5. parse_impl(x) = FirstError(L) BY DEF parse_impl
<1> HIDE DEF a, b, c, d
<1>6. DOMAIN L = 1 .. 4 /\ L[1] = a /\ L[2] = b /\ L[3] = c /\ L[4] = d OBVIOUS
<1> HIDE DEF L
<1>7. FirstError(L) = "ok" <=> \A i \in DOMAIN L : L[i] = "ok"
  <2>1. DOMAIN L \subseteq Nat BY <1>6
  <2> QED BY <2>1, FirstErrorOk
<1>8. (\A i \in DOMAIN L : L[i] = "ok") <=> (a = "ok" /\ b = "ok" /\ c = "ok" /\ d = "ok") BY <1>6
<1> QED BY <1>2, <1>3, <1>4, <1>5, <1>7, <1>8

\* A set of naturals that is bounded has a greatest element, and Max finds it.
LEMMA Greatest ==
  ASSUME NEW n \in Nat, NEW T, T \subseteq 0 .. n, T # {}
  PROVE  Max(T) \in T
<1> DEFINE U == {u \in Nat : \A y \in T : y <= u}
<1>1. U \subseteq Nat /\ n \in U OBVIOUS
<1> HIDE DEF U
<1>2. Min(U) \in U /\ \A y \in U : Min(U) <= y BY <1>1, Least
<1> DEFINE m == Min(U)
<1> HIDE DEF m
<1>3. m \in U /\ \A y \in U : m <= y BY <1>2 DEF m
<1>4. m \in Nat /\ \A y \in T : y <= m BY <1>3 DEF U
<1>5. m \in T
  <2> SUFFICES ASSUME m \notin T PROVE FALSE OBVIOUS
  <2>1. PICK y \in T : TRUE OBVIOUS
  <2>2. y \in Nat /\ y <= m /\ y # m BY <1>4
  <2>3. m - 1 \in Nat BY <1>4, <2>2
  <2>4. \A z \in T : z \in Nat /\ z <= m /\ z # m BY <1>4
  <2>5. \A z \in T : z <= m - 1 BY <1>4, <2>4
  <2>6. m - 1 \in U BY <2>3, <2>5 DEF U
  <2>7. m <= m - 1 BY <1>3, <2>6
  <2> QED BY <1>4, <2>7
<1>6. \E z \in T : \A y \in T : z >= y BY <1>4, <1>5
<1> QED BY <1>6 DEF Max

\* Rounding up.
LEMMA Ceil ==
  ASSUME NEW m \in Nat, m > 0, NEW b \in Nat, b > 0, NEW q, q = (m + b - 1) \div b
  PROVE  q \in Nat /\ q > 0 /\ b * q \in Nat /\ b * q >= m /\ b * q < m + b
<1> DEFINE a == m + b - 1
           r == a % b
<1>1. a \in Nat OBVIOUS
<1>2. q \in Nat /\ r \in Nat /\ r < b /\ a = b * q + r BY <1>1, DivMod
<1>3. b * q \in Nat BY <1>2
<1> HIDE DEF r
<1>4. b * q >= m /\ b * q < m + b BY <1>2, <1>3
<1>5. q # 0
  <2> SUFFICES ASSUME q = 0 PROVE FALSE OBVIOUS
  <2>1. b * q = 0 OBVIOUS
  <2> QED BY <2>1, <1>4
<1> QED BY <1>2, <1>3, <1>4, <1>5

\* A quotient and a bound on it.
LEMMA DivGe ==
  ASSUME NEW a \in Nat, NEW b \in Nat, b > 0, NEW p \in Nat
  PROVE  p <= a \div b <=> b * p <= a
<1> DEFINE q == a \div b
           r == a % b
<1>1. q \in Nat /\ r \in Nat /\ r < b /\ a = b * q + r BY DivMod
<1>2. b * q \in Nat /\ b * p \in Nat BY <1>1
<1> HIDE DEF q, r
<1>3. CASE p <= q
  <2>1. p = q \/ p < q BY <1>1, <1>3
  <2>2. b * p <= b * q BY <1>1, <1>2, <2>1, DivLess
  <2> QED BY <1>1, <1>2, <1>3, <2>2 DEF q
<1>4. CASE ~(p <= q)
  <2>1. q < p BY <1>1, <1>4
  <2>2. b * q + b <= b * p BY <1>1, <2>1, DivLess
  <2> QED BY <1>1, <1>2, <1>4, <2>2 DEF q
<1> QED BY <1>3, <1>4

\* A segment that starts at a page covers a row of pages, those of its memory.
LEMMA SegSpan ==
  ASSUME NEW s, s.vaddr \in Nat, s.mem \in Nat, s.mem > 0, s.vaddr % EXB_PAGE = 0,
         NEW v, v = s.vaddr \div EXB_PAGE
  PROVE  /\ v \in Nat /\ s.vaddr = EXB_PAGE * v
         /\ Pages(s) \in Nat /\ Pages(s) > 0 /\ VEnd(s) = EXB_PAGE * (v + Pages(s))
         /\ SegPages(s) = Span(v, Pages(s))
<1> DEFINE b == EXB_PAGE
           q == Pages(s)
           m == s.mem
           va == s.vaddr
<1>1. b \in Nat /\ b > 0 BY ExbAssumption
<1>2. v \in Nat /\ va = b * v BY <1>1, DivMod
<1>3. q = (m + b - 1) \div b BY DEF Pages
<1> HIDE DEF q
<1>4. q \in Nat /\ q > 0 /\ b * q \in Nat /\ b * q >= m /\ b * q < m + b BY <1>1, <1>3, Ceil
<1>5. b * (v + q) = b * v + b * q /\ q * b = b * q BY <1>1, <1>2, <1>4, SMTT(20)
<1>6. VEnd(s) = b * (v + q) BY <1>2, <1>4, <1>5 DEF VEnd, q
<1>7. SegPages(s) = {a \div b : a \in va .. (va + m - 1)} BY DEF SegPages, Units
<1> HIDE DEF b, m, va
<1>8. m \in Nat /\ va \in Nat BY DEF m, va
<1>9. ASSUME NEW a \in va .. (va + m - 1) PROVE a \div b \in Span(v, q)
  <2>1. a \in Nat /\ b * v <= a /\ a < b * v + m BY <1>2, <1>8
  <2>2. v <= a \div b BY <1>1, <1>2, <2>1, DivGe
  <2>3. ~(b * (v + q) <= a) BY <1>2, <1>4, <1>5, <1>8, <2>1
  <2>4. v + q \in Nat BY <1>2, <1>4
  <2>5. ~(v + q <= a \div b) BY <1>1, <2>1, <2>3, <2>4, DivGe
  <2>6. a \div b \in Nat BY <1>1, <2>1, DivMod
  <2> QED BY <1>2, <1>4, <2>2, <2>5, <2>6 DEF Span
<1>10. ASSUME NEW p \in Span(v, q) PROVE \E a \in va .. (va + m - 1) : p = a \div b
  <2>1. p \in Nat /\ v <= p /\ p < v + q BY <1>2, <1>4 DEF Span
  <2>2. b * p \in Nat /\ b * v \in Nat BY <1>1, <1>2, <2>1
  <2>3. b * v <= b * p
    <3>1. v = p \/ v < p BY <1>2, <2>1
    <3> QED BY <1>1, <1>2, <2>1, <2>2, <3>1, DivLess
  <2>4. b * p + b <= b * (v + q) BY <1>1, <1>2, <1>4, <2>1, DivLess
  <2>5. b * p < b * v + m BY <1>1, <1>4, <1>5, <1>8, <2>2, <2>4
  <2>6. b * p \in va .. (va + m - 1) BY <1>2, <1>8, <2>2, <2>3, <2>5
  <2>7. (b * p + 0) \div b = p BY <1>1, <2>1, DivUnique
  <2>8. (b * p) \div b = p BY <2>2, <2>7
  <2> QED BY <2>6, <2>8
<1>11. SegPages(s) = Span(v, q) BY <1>7, <1>9, <1>10
<1> QED BY <1>2, <1>4, <1>6, <1>11 DEF q, b, va

\* What parse_impl lets pass.
Accepted(x) ==
    /\ x \in Files /\ TablesOk(x) /\ EntryOk(x)
    /\ \A i \in DOMAIN x.segs : SegOk(x, i)
    /\ \A i \in DOMAIN x.caps : CapOk(x, i)

\* The stack an accepted file asks for, or gets by default.
LEMMA StackPages ==
  ASSUME NEW x, Accepted(x), NEW st, st = CapValue(x, "stack", EXB_DEFAULT_STACK_PAGES * EXB_PAGE) \div EXB_PAGE
  PROVE  st \in 1 .. EXB_MAX_STACK_PAGES
<1> DEFINE asked == {i \in DOMAIN x.caps : x.caps[i].kind = "stack"}
           d == EXB_DEFAULT_STACK_PAGES
           b == EXB_PAGE
           c == CapValue(x, "stack", d * b)
<1>1. /\ b \in Nat /\ b > 0 /\ d \in 1 .. EXB_MAX_STACK_PAGES /\ EXB_MAX_STACK_PAGES \in Nat
      /\ x \in Files
  BY ExbAssumption DEF Accepted
<1>2. CASE asked = {}
  <2>1. c = d * b BY <1>2 DEF CapValue
  <2>2. d * b = b * d + 0 /\ d \in Nat BY <1>1, SMTT(20)
  <2>3. (b * d + 0) \div b = d
    <3> HIDE DEF b, d
    <3> QED BY <1>1, <2>2, DivUnique
  <2>4. st = d BY <2>1, <2>2, <2>3
  <2> QED BY <1>1, <2>4
<1>3. CASE asked # {}
  <2> DEFINE i == Max(asked)
             v == x.caps[i].value
             n == Len(x.caps)
  <2>1. n \in Nat /\ asked \subseteq 0 .. n BY <1>1, FileTypes
  <2>2. i \in asked
    <3> HIDE DEF asked, n
    <3> QED BY <2>1, <1>3, Greatest
  <2>3. c = v BY <1>3 DEF CapValue
  <2>4. i \in DOMAIN x.caps /\ x.caps[i].kind = "stack" BY <2>2
  <2>5. v \in Nat BY <1>1, <2>4, FileTypes
  <2>6. CapValueOk(x.caps[i]) BY <2>4 DEF Accepted, CapOk
  <2>7. v % b = 0 /\ v >= b /\ v <= EXB_MAX_STACK_PAGES * b BY <2>4, <2>6 DEF CapValueOk
  <2> DEFINE q == v \div b
             M == EXB_MAX_STACK_PAGES
  <2> HIDE DEF v, i, b, d
  <2>8. q \in Nat /\ v = b * q BY <1>1, <2>5, <2>7, DivMod
  <2>9. M * b = b * M /\ b * 1 = b /\ b * M \in Nat BY <1>1, SMTT(20)
  <2>10. 1 <= q BY <1>1, <2>5, <2>7, <2>9, DivGe
  <2>11. q <= M
    <3> SUFFICES ASSUME ~(q <= M) PROVE FALSE OBVIOUS
    <3>1. M < q BY <1>1, <2>8
    <3>2. b * M + b <= b * q BY <1>1, <2>8, <3>1, DivLess
    <3> QED BY <1>1, <2>5, <2>7, <2>8, <2>9, <3>2
  <2>12. st = q BY <2>3 DEF b, d
  <2> QED BY <1>1, <2>8, <2>10, <2>11, <2>12
<1> QED BY <1>2, <1>3

\* The pieces of an accepted image: its n segments and the stack.
PiecesAre(x, P, n) ==
    /\ n \in Nat /\ Len(P) = n + 1 /\ DOMAIN P = 1 .. (n + 1)
    /\ \A i \in 1 .. n : P[i].va = x.segs[i].vaddr \div EXB_PAGE /\ P[i].pages = Pages(x.segs[i])
    /\ \E st \in 1 .. EXB_MAX_STACK_PAGES : P[n + 1].va = UserTop - 1 - st /\ P[n + 1].pages = st

\* What the loader loads: the segments and the stack below the guard page.
LEMMA PiecesOf ==
  ASSUME NEW x, Accepted(x), NEW P, P = Pieces(InfoOf(x)), NEW n, n = Len(x.segs)
  PROVE  PiecesAre(x, P, n)
<1> DEFINE st == CapValue(x, "stack", EXB_DEFAULT_STACK_PAGES * EXB_PAGE) \div EXB_PAGE
           ss == [i \in DOMAIN x.segs |-> [va |-> x.segs[i].vaddr \div EXB_PAGE,
                                           pages |-> Pages(x.segs[i]), perms |-> x.segs[i].flags]]
           sp == [va |-> UserTop - 1 - st, pages |-> st, perms |-> {"R", "W"}]
<1>1. st \in 1 .. EXB_MAX_STACK_PAGES BY StackPages
<1>2. n \in Nat /\ DOMAIN x.segs = 1 .. n BY FileTypes DEF Accepted
<1> HIDE DEF st
<1>3. \A i \in 1 .. n : ss[i].va = x.segs[i].vaddr \div EXB_PAGE /\ ss[i].pages = Pages(x.segs[i])
  BY <1>2
<1>4. P = Append(ss, sp)
  <2>1. InfoOf(x) = [entry |-> x.entry, segs |-> ss, stack |-> st] BY DEF InfoOf, st
  <2> HIDE DEF ss
  <2>2. InfoOf(x).segs = ss /\ InfoOf(x).stack = st BY <2>1
  <2> DEFINE info == InfoOf(x)
  <2> HIDE DEF info
  <2>3. Pieces(info) = Append(info.segs, [va |-> UserTop - 1 - info.stack, pages |-> info.stack, perms |-> {"R", "W"}])
    BY DEF Pieces
  <2> QED BY <2>2, <2>3 DEF info
<1>5. sp.va = UserTop - 1 - st /\ sp.pages = st OBVIOUS
<1> DEFINE S == {ss[i] : i \in 1 .. n} \cup {sp}
<1>6. ss \in [1 .. n -> S] BY <1>2
<1> HIDE DEF ss, sp
<1>7. ss \in Seq(S) /\ Len(ss) = n /\ sp \in S
  <2>1. ss \in Seq(S) BY <1>2, <1>6
  <2>2. Len(ss) = n BY <1>2, <1>6, <2>1
  <2> QED BY <2>1, <2>2
<1> HIDE DEF S
<1>8. Len(P) = n + 1 /\ DOMAIN P = 1 .. (n + 1) /\ P[n + 1] = sp /\ \A i \in 1 .. n : P[i] = ss[i]
  BY <1>2, <1>4, <1>7
<1> QED BY <1>1, <1>2, <1>3, <1>5, <1>8 DEF PiecesAre

\* Pieces a load can ask for.
PiecesOk(P) ==
    /\ Len(P) \in Nat
    /\ \A i \in 1 .. Len(P) : P[i].va \in Nat /\ P[i].pages \in Nat /\ P[i].pages > 0

\* The page where no image may reach, and the room for the stack above it.
LEMMA StackRoom ==
  /\ EXB_VA_LIMIT \div EXB_PAGE \in Nat /\ EXB_VA_LIMIT = EXB_PAGE * (EXB_VA_LIMIT \div EXB_PAGE)
  /\ EXB_VA_LIMIT \div EXB_PAGE <= UserTop - 1 - EXB_MAX_STACK_PAGES /\ EXB_MAX_STACK_PAGES \in Nat
  /\ EXB_PAGE \in Nat /\ EXB_PAGE > 0 /\ EXB_VA_LIMIT \in Nat
<1>1. EXB_PAGE \in Nat /\ EXB_PAGE > 0 /\ EXB_VA_LIMIT \in Nat /\ EXB_VA_LIMIT % EXB_PAGE = 0
  BY ExbAssumption
<1>2. EXB_VA_LIMIT \div EXB_PAGE \in Nat /\ EXB_VA_LIMIT = EXB_PAGE * (EXB_VA_LIMIT \div EXB_PAGE)
  BY <1>1, DivMod
<1> QED BY <1>1, <1>2, ExbAssumption, SpacesAssumption

\* An accepted file has pieces the loader can handle.
LEMMA GoodPieces ==
  ASSUME NEW x, Accepted(x)
  PROVE  PiecesOk(Pieces(InfoOf(x)))
<1> DEFINE P == Pieces(InfoOf(x))
           n == Len(x.segs)
<1>0. P = Pieces(InfoOf(x)) /\ n = Len(x.segs) OBVIOUS
<1> HIDE DEF P, n
<1>1. /\ n \in Nat /\ Len(P) = n + 1
      /\ \A i \in 1 .. n : P[i].va = x.segs[i].vaddr \div EXB_PAGE /\ P[i].pages = Pages(x.segs[i])
      /\ \E st \in 1 .. EXB_MAX_STACK_PAGES : P[n + 1].va = UserTop - 1 - st /\ P[n + 1].pages = st
  <2>1. PiecesAre(x, P, n) BY <1>0, PiecesOf
  <2> QED BY <2>1 DEF PiecesAre
<1>2. ASSUME NEW i \in 1 .. n PROVE P[i].va \in Nat /\ P[i].pages \in Nat /\ P[i].pages > 0
  <2> DEFINE s == x.segs[i]
  <2>1. i \in DOMAIN x.segs /\ s.vaddr \in Nat /\ s.mem \in Nat BY <1>0, FileTypes DEF Accepted
  <2>2. SegOk(x, i) BY <2>1 DEF Accepted
  <2>3. s.vaddr % EXB_PAGE = 0 /\ s.mem > 0 BY <2>1, <2>2 DEF SegOk
  <2> HIDE DEF s
  <2>4. s.vaddr \div EXB_PAGE \in Nat /\ Pages(s) \in Nat /\ Pages(s) > 0 BY <2>1, <2>3, SegSpan
  <2> QED BY <1>1, <2>4 DEF s
<1>3. P[n + 1].va \in Nat /\ P[n + 1].pages \in Nat /\ P[n + 1].pages > 0
  <2>1. PICK st \in 1 .. EXB_MAX_STACK_PAGES : P[n + 1].va = UserTop - 1 - st /\ P[n + 1].pages = st
    BY <1>1
  <2>2. UserTop \in Nat BY FanFacts
  <2>3. UserTop - 1 - st \in Nat BY <2>2, StackRoom
  <2> QED BY <2>1, <2>3, StackRoom
<1>4. \A i \in 1 .. (n + 1) : i \in 1 .. n \/ i = n + 1 BY <1>1
<1>5. \A i \in 1 .. Len(P) : P[i].va \in Nat /\ P[i].pages \in Nat /\ P[i].pages > 0
  BY <1>1, <1>2, <1>3, <1>4
<1>6. PiecesOk(P) BY <1>1, <1>5 DEF PiecesOk
<1> QED BY <1>6 DEF P

\* All of the pieces are in, with the frames and tokens they need, or everything is undone.
LEMMA LoadPieces ==
  ASSUME NEW k0 \in KState, NEW sp, NEW o \in Owners, Vacant(k0, sp, o), NEW P, PiecesOk(P),
         NEW p, p = LoadAll(k0, o, sp[o].pml4, P)
  PROVE  /\ p \in KState /\ p.rc \in {"ok", "failed"}
         /\ p.rc = "failed" => Undone(k0, p, sp)
         /\ p.rc = "ok" => /\ \E TS, VS : Held(k0, p, sp, o, TS, VS)
                           /\ FramesOf(p, o) <= FramesOf(k0, o) + PagesOf(P)
                           /\ TokensOf(p, o) <= TokensOf(k0, o) + Len(P)
         /\ PagesOf(P) \in Nat
<1> DEFINE n == Len(P)
           c == [i \in 1 .. n |-> P[i].pages]
           t0 == [k |-> [k0 EXCEPT !.rc = "ok"], toks |-> <<>>, vas |-> <<>>]
<1>1. n \in Nat /\ \A i \in 1 .. n : P[i].va \in Nat /\ P[i].pages \in Nat /\ P[i].pages > 0
  BY DEF PiecesOk
<1>2. PICK f : Sums(f, c, n) /\ PagesOf(P) = f[n] BY <1>1, PagesLoop
<1>3. f[0] = 0 /\ \A i \in 1 .. n : f[i - 1] \in Nat /\ f[i] = f[i - 1] + P[i].pages
  <2>1. \A i \in 1 .. n : i - 1 \in 0 .. n /\ c[i] = P[i].pages BY <1>1
  <2> QED BY <1>2, <2>1 DEF Sums
<1> DEFINE S == [i \in 0 .. n |-> {t \in [k : KState, toks : Seq(Toks), vas : Seq(Nat)] : Loading(k0, t, sp, o, i, f)}]
<1>4. t0 \in S[0]
  <2>1. Alike(k0, [k0 EXCEPT !.rc = "ok"]) /\ [k0 EXCEPT !.rc = "ok"].rc = "ok"
    BY SetRc DEF Codes
  <2> DEFINE k == [k0 EXCEPT !.rc = "ok"]
  <2>2. k \in KState BY DEF KState, Codes
  <2>3. k.table = k0.table BY DEF KState
  <2>4. Held(k0, k, sp, o, {}, {}) BY <2>1, HeldStart
  <2>5. t0.k = k /\ Ran(t0.toks) = {} /\ Ran(t0.vas) = {} BY DEF Ran
  <2> HIDE DEF k
  <2>6. t0 \in [k : KState, toks : Seq(Toks), vas : Seq(Nat)] BY <2>2, <2>5
  <2>7. SameTokens(k0.table, k.table) BY <2>3 DEF SameTokens
  <2>8. FramesOf(k, o) <= FramesOf(k0, o) /\ TokensOf(k, o) <= TokensOf(k0, o) BY <2>2, <2>7, SameUsage
  <2>9. FramesOf(k0, o) \in Nat /\ TokensOf(k0, o) \in Nat BY FramesNat
  <2>10. FramesOf(k, o) <= FramesOf(k0, o) + f[0] /\ TokensOf(k, o) <= TokensOf(k0, o) + 0
    BY <1>3, <2>8, <2>9
  <2> HIDE DEF t0
  <2>11. k.rc = "ok" BY <2>1 DEF k
  <2>12. Loading(k0, t0, sp, o, 0, f) BY <2>4, <2>5, <2>6, <2>10, <2>11 DEF Loading
  <2> QED BY <1>1, <2>6, <2>12
<1>5. \A i \in 1 .. n : \A t \in S[i - 1] : LoadPiece(t, o, sp[o].pml4, P[i]) \in S[i]
  <2> SUFFICES ASSUME NEW i \in 1 .. n, NEW t \in S[i - 1] PROVE LoadPiece(t, o, sp[o].pml4, P[i]) \in S[i]
    OBVIOUS
  <2>1. i \in Nat /\ i > 0 /\ i - 1 \in 0 .. n /\ i \in 0 .. n BY <1>1
  <2>2. Loading(k0, t, sp, o, i - 1, f) BY <2>1
  <2> HIDE DEF S, c
  <2>3. f[i - 1] \in Nat /\ f[i] = f[i - 1] + P[i].pages /\ P[i].va \in Nat /\ P[i].pages \in Nat /\ P[i].pages > 0
    BY <1>1, <1>3
  <2> DEFINE g == LoadPiece(t, o, sp[o].pml4, P[i])
  <2>4. Loading(k0, g, sp, o, i, f) BY <2>1, <2>2, <2>3, LoadTurn
  <2>5. g \in [k : KState, toks : Seq(Toks), vas : Seq(Nat)] BY <2>4 DEF Loading
  <2> HIDE DEF g
  <2>6. g \in S[i] BY <2>1, <2>4, <2>5 DEF S
  <2> QED BY <2>6 DEF g
<1> HIDE DEF S, t0
<1>6. PICK t \in S[n] : p = t.k BY <1>1, <1>4, <1>5, LoopLoad DEF t0
<1>7. Loading(k0, t, sp, o, n, f) /\ t \in [k : KState, toks : Seq(Toks), vas : Seq(Nat)] BY <1>1, <1>6 DEF S
<1>8. f[n] \in Nat BY <1>1, <1>2 DEF Sums
<1> QED BY <1>2, <1>6, <1>7, <1>8 DEF Loading

\* A load is complete within the quota q, or undone.
LoadedBy(k0, p, sp, o, q) ==
    /\ p \in KState /\ p.rc \in {"ok", "failed"}
    /\ p.rc = "failed" => Undone(k0, p, sp)
    /\ p.rc = "ok" => /\ \E TS, VS : Held(k0, p, sp, o, TS, VS)
                      /\ FramesOf(p, o) <= q.frames
                      /\ TokensOf(p, o) <= q.tokens

\* A load that fails leaves nothing; one that succeeds stays within the quota.
LEMMA Load ==
  ASSUME NEW k0 \in KState, NEW sp, NEW o \in Owners, Vacant(k0, sp, o), NEW img \in Files,
         NEW p, p = LoadImage(k0, o, sp[o].pml4, img), quota[o] \in [frames : Nat, tokens : Nat]
  PROVE  LoadedBy(k0, p, sp, o, quota[o])
<1> DEFINE r == exb_parse(img)
           P == Pieces(r.info)
           root == sp[o].pml4
<1>1. p = IF r.rc # "ok" \/ ~xlb_quota_ok(k0, o, PagesOf(P), Len(P)) THEN [k0 EXCEPT !.rc = "failed"]
          ELSE LoadAll(k0, o, root, P)
  BY DEF LoadImage
<1>2. r.rc = parse_impl(img) /\ (r.rc = "ok" => r.info = InfoOf(img)) BY DEF exb_parse
<1> HIDE DEF r
<1>3. CASE r.rc # "ok" \/ ~xlb_quota_ok(k0, o, PagesOf(P), Len(P))
  <2>1. p = [k0 EXCEPT !.rc = "failed"] BY <1>1, <1>3
  <2>2. p \in KState /\ p.rc = "failed" BY <2>1 DEF KState, Codes
  <2>3. "failed" \in Codes BY DEF Codes
  <2>4. Alike(k0, p) BY <2>1, <2>3, SetRc
  <2>5. Held(k0, p, sp, o, {}, {}) BY <2>4, HeldStart
  <2>6. Undone(k0, p, sp) BY <2>5, HeldNothing
  <2> QED BY <2>2, <2>6 DEF LoadedBy
<1>4. CASE r.rc = "ok" /\ xlb_quota_ok(k0, o, PagesOf(P), Len(P))
  <2>1. p = LoadAll(k0, o, root, P) BY <1>1, <1>4
  <2>2. Accepted(img) BY <1>2, <1>4, ParseOk DEF Accepted
  <2>3. PiecesOk(P) BY <1>2, <1>4, <2>2, GoodPieces
  <2> HIDE DEF P
  <2>4. /\ p \in KState /\ p.rc \in {"ok", "failed"}
        /\ p.rc = "failed" => Undone(k0, p, sp)
        /\ p.rc = "ok" => /\ \E TS, VS : Held(k0, p, sp, o, TS, VS)
                          /\ FramesOf(p, o) <= FramesOf(k0, o) + PagesOf(P)
                          /\ TokensOf(p, o) <= TokensOf(k0, o) + Len(P)
        /\ PagesOf(P) \in Nat
    BY <2>1, <2>3, LoadPieces
  <2>5. Len(P) \in Nat BY <2>3 DEF PiecesOk
  <2>6. /\ FramesOf(p, o) \in Nat /\ TokensOf(p, o) \in Nat
        /\ FramesOf(k0, o) \in Nat /\ TokensOf(k0, o) \in Nat
    BY <2>4, FramesNat
  <2>7. /\ PagesOf(P) <= quota[o].frames - FramesOf(k0, o)
        /\ Len(P) <= quota[o].tokens - TokensOf(k0, o)
    BY <1>4 DEF xlb_quota_ok, quota_of
  <2>8. quota[o].frames \in Nat /\ quota[o].tokens \in Nat OBVIOUS
  <2>9. p.rc = "ok" => FramesOf(p, o) <= quota[o].frames BY <2>4, <2>6, <2>7, <2>8
  <2>10. p.rc = "ok" => TokensOf(p, o) <= quota[o].tokens BY <2>4, <2>5, <2>6, <2>7, <2>8
  <2> QED BY <2>4, <2>9, <2>10 DEF LoadedBy
<1> QED BY <1>3, <1>4

-----------------------------------------------------------------------------
(* Reaping: k has lost tokens and records of o, and nothing else.          *)

\* The token in a slot.
TokAt(k, s) == [slot |-> s, gen |-> k.table[s].gen]

\* The list of one turn of xproc_reap, slot by slot.
LEMMA LoopReapBatch ==
  ASSUME NEW k, NEW o, NSlots \in Nat, NEW S, k \in S[0],
         \A i \in 1 .. NSlots : \A m \in S[i - 1] : (IF TokAt(k, i - 1) \in xtok_owner_tokens(k, o) THEN xtok_reclaim(xas_revoke_token(m, TokAt(k, i - 1)), TokAt(k, i - 1)) ELSE m) \in S[i]
  PROVE  ReapBatch(k, o) \in S[NSlots]
<1> DEFINE n == NSlots
           b == k
           T(m, i) == IF TokAt(k, i - 1) \in xtok_owner_tokens(k, o) THEN xtok_reclaim(xas_revoke_token(m, TokAt(k, i - 1)), TokAt(k, i - 1)) ELSE m
           at == CHOOSE f : f = [i \in 0 .. NSlots |-> IF i = 0 THEN b ELSE T(f[i - 1], i)]
           U == UNION {S[i] : i \in 0 .. n}
           G == [i \in 1 .. n |-> [m \in U |-> T(m, i)]]
<1>1. ReapBatch(k, o) = at[n] BY DEF ReapBatch, TokAt
<1>2. \A i \in 1 .. n : \A m \in S[i - 1] : T(m, i) \in S[i] OBVIOUS
<1>3. n \in Nat /\ b \in S[0] OBVIOUS
<1>a. at = CHOOSE f : f = [i \in 0 .. n |-> IF i = 0 THEN b ELSE T(f[i - 1], i)] OBVIOUS
<1> HIDE DEF T, n, b, at
<1>4. \A i \in 1 .. n : i - 1 \in 0 .. n /\ \A m \in S[i - 1] : m \in U
  <2> SUFFICES ASSUME NEW i \in 1 .. n PROVE i - 1 \in 0 .. n OBVIOUS
  <2> QED BY <1>3
<1>5. \A i \in 1 .. n : \A m \in S[i - 1] : G[i][m] = T(m, i) BY <1>4
<1>6. PICK g : Iterates(g, n, b, G, S)
  <2> HIDE DEF G, U
  <2>1. Closed(n, S, G) BY <1>2, <1>5 DEF Closed
  <2> QED BY <2>1, <1>3, Iter
<1> HIDE DEF G, U
<1> DEFINE h == [i \in 0 .. n |-> g[i]]
<1>7. \A i \in 0 .. n : i # 0 => i \in 1 .. n /\ i - 1 \in 0 .. n /\ g[i - 1] \in S[i - 1]
  <2> SUFFICES ASSUME NEW i \in 0 .. n, i # 0 PROVE i \in 1 .. n /\ i - 1 \in 0 .. n
    BY <1>6 DEF Iterates
  <2> QED BY <1>3
<1>8. \A i \in 0 .. n : g[i] = IF i = 0 THEN b ELSE T(h[i - 1], i)
  BY <1>5, <1>6, <1>7 DEF Iterates
<1>9. h = [i \in 0 .. n |-> IF i = 0 THEN b ELSE T(h[i - 1], i)] BY <1>8
<1> HIDE DEF h
<1>10. at = [i \in 0 .. n |-> IF i = 0 THEN b ELSE T(at[i - 1], i)] BY <1>9, <1>a
<1>11. at[0] \in S[0] /\ \A i \in 1 .. n : at[i] = T(at[i - 1], i)
  <2>1. 0 \in 0 .. n /\ \A i \in 1 .. n : i \in 0 .. n /\ i # 0 BY <1>3
  <2>2. at[0] = b BY <1>10, <2>1
  <2>3. \A i \in 1 .. n : at[i] = T(at[i - 1], i) BY <1>10, <2>1
  <2> QED BY <2>2, <2>3, <1>3
<1>12. \A i \in 1 .. n : at[i - 1] \in S[i - 1] => at[i] \in S[i] BY <1>11, <1>2
<1>13. \A i \in 0 .. n : at[i] \in S[i] BY <1>3, <1>11, <1>12, Ind
<1>14. n \in 0 .. n BY <1>3
<1> QED BY <1>1, <1>13, <1>14 DEF n

\* Part of the way through a reap: only tokens and records of o are gone.
Shrunk(k0, k, sp, pl, o) ==
    /\ Good(k, sp, pl)
    /\ k.tlb \subseteq k0.tlb
    /\ \A j \in 1 .. NRecs : \/ k.g_maps[j] = k0.g_maps[j]
                             \/ k0.g_maps[j].owner = o /\ k.g_maps[j] = NoRec
    /\ \A s \in Slots : \/ KeptTok(k0.table, k.table, s)
                        \/ s \in OwnedSlots(k0, o) /\ ~k.table[s].live

\* Nothing is lost when nothing happens.
LEMMA ShrunkNone ==
  ASSUME NEW k, NEW sp, NEW pl, NEW o, Good(k, sp, pl)
  PROVE  Shrunk(k, k, sp, pl, o)
BY DEF Shrunk, KeptTok

\* Losses add up.
LEMMA ShrunkMore ==
  ASSUME NEW k0, NEW k, NEW m, NEW sp, NEW pl, NEW o, o \in Owners,
         Shrunk(k0, k, sp, pl, o), Shrunk(k, m, sp, pl, o)
  PROVE  Shrunk(k0, m, sp, pl, o)
<1>1. Good(m, sp, pl) /\ m.tlb \subseteq k0.tlb BY DEF Shrunk
<1>2. ASSUME NEW j \in 1 .. NRecs
      PROVE  m.g_maps[j] = k0.g_maps[j] \/ (k0.g_maps[j].owner = o /\ m.g_maps[j] = NoRec)
  <2>1. k.g_maps[j] = k0.g_maps[j] \/ (k0.g_maps[j].owner = o /\ k.g_maps[j] = NoRec) BY DEF Shrunk
  <2>2. m.g_maps[j] = k.g_maps[j] \/ (k.g_maps[j].owner = o /\ m.g_maps[j] = NoRec) BY DEF Shrunk
  <2>3. NoRec.owner # o BY SpacesAssumption DEF NoRec, None
  <2> QED BY <2>1, <2>2, <2>3
<1>3. ASSUME NEW s \in Slots
      PROVE  KeptTok(k0.table, m.table, s) \/ (s \in OwnedSlots(k0, o) /\ ~m.table[s].live)
  <2>1. KeptTok(k0.table, k.table, s) \/ (s \in OwnedSlots(k0, o) /\ ~k.table[s].live) BY DEF Shrunk
  <2>2. KeptTok(k.table, m.table, s) \/ (s \in OwnedSlots(k, o) /\ ~m.table[s].live) BY DEF Shrunk
  <2> QED BY <2>1, <2>2 DEF KeptTok, OwnedSlots
<1> QED BY <1>1, <1>2, <1>3 DEF Shrunk

\* One token: its records go, and then the token itself.
LEMMA ReapOne ==
  ASSUME NEW k, NEW sp, NEW pl, NEW o, Good(k, sp, pl), NEW tok \in [slot : Slots, gen : Nat],
         k.table[tok.slot].live => k.table[tok.slot].owner = o,
         NEW m, m = xtok_reclaim(xas_revoke_token(k, tok), tok)
  PROVE  Shrunk(k, m, sp, pl, o) /\ (LookupLive(k, tok) => ~m.table[tok.slot].live)
<1> DEFINE D == {i \in 1 .. NRecs : k.g_maps[i].live /\ k.g_maps[i].tok = tok}
           v == xas_revoke_token(k, tok)
           s == tok.slot
<1>1. Dropped(k, v, sp, pl, D) BY Revoke
<1> HIDE DEF D, v
<1>2. /\ Good(v, sp, pl) /\ v.tlb \subseteq k.tlb /\ SameTokens(k.table, v.table)
      /\ v.g_maps = [j \in 1 .. NRecs |-> IF j \in D THEN NoRec ELSE k.g_maps[j]]
  BY <1>1 DEF Dropped
<1>3. Reclaimed(v, m, sp, pl, tok)
  <2>1. m = xtok_reclaim(v, tok) BY DEF v
  <2> QED BY <1>2, <2>1, Reclaim
<1>4. Good(m, sp, pl) /\ m.g_maps = v.g_maps /\ m.tlb = v.tlb BY <1>3 DEF Reclaimed
<1>5. \A j \in D : k.g_maps[j].owner = o
  <2> SUFFICES ASSUME NEW j \in D PROVE k.g_maps[j].owner = o OBVIOUS
  <2>1. j \in 1 .. NRecs /\ k.g_maps[j].live /\ k.g_maps[j].tok = tok BY DEF D
  <2>2. k.table[s].live /\ k.table[s].owner = k.g_maps[j].owner BY <2>1, RecFacts
  <2> QED BY <2>2
<1>6. \A j \in 1 .. NRecs : m.g_maps[j] = k.g_maps[j] \/ (k.g_maps[j].owner = o /\ m.g_maps[j] = NoRec)
  BY <1>2, <1>4, <1>5
<1>7. LookupLive(v, tok) <=> LookupLive(k, tok) BY <1>2 DEF LookupLive, SameTokens
<1>8. ASSUME LookupLive(k, tok) PROVE v.table[s].map_count = 0
  <2>1. PinsOf(v.g_maps, s) = {}
    <3> SUFFICES ASSUME NEW j \in 1 .. NRecs, v.g_maps[j].live, v.g_maps[j].tok.slot = s PROVE FALSE
      BY DEF PinsOf
    <3>1. v.g_maps[j] = k.g_maps[j] /\ j \notin D BY <1>2 DEF NoRec
    <3>2. k.g_maps[j].live /\ k.g_maps[j].tok.slot = s BY <3>1
    <3>3. k.g_maps[j].tok \in [slot : Slots, gen : Nat] /\ k.table[s].gen = k.g_maps[j].tok.gen
      BY <3>2, RecFacts
    <3>4. k.g_maps[j].tok.gen = tok.gen BY <1>8, <3>3 DEF LookupLive
    <3>5. k.g_maps[j].tok = tok BY <3>2, <3>3, <3>4
    <3> QED BY <3>1, <3>2, <3>5 DEF D
  <2>2. v.table[s].map_count = Cardinality(PinsOf(v.g_maps, s)) BY <1>2 DEF Good, Pins
  <2> QED BY <2>1, <2>2, FS_EmptySet
<1>9. LookupLive(k, tok) => ~m.table[s].live BY <1>3, <1>7, <1>8 DEF Reclaimed
<1>10. ASSUME NEW t \in Slots
       PROVE  KeptTok(k.table, m.table, t) \/ (t \in OwnedSlots(k, o) /\ ~m.table[t].live)
  <2>1. KeptTok(k.table, v.table, t) BY <1>2 DEF SameTokens, KeptTok
  <2>2. CASE LookupLive(k, tok)
    <3>1. ElseSame(v.table, m.table, s) BY <1>3, <1>7, <1>8, <2>2 DEF Reclaimed
    <3>2. CASE t = s
      <4>1. s \in OwnedSlots(k, o) BY <2>2 DEF LookupLive, OwnedSlots
      <4> QED BY <3>2, <4>1, <1>9, <2>2
    <3>3. CASE t # s
      <4>1. m.table[t] = v.table[t] BY <3>1, <3>3 DEF ElseSame
      <4> QED BY <2>1, <4>1 DEF KeptTok
    <3> QED BY <3>2, <3>3
  <2>3. CASE ~LookupLive(k, tok)
    <3>1. m.table = v.table BY <1>3, <1>7, <2>3 DEF Reclaimed
    <3> QED BY <2>1, <3>1
  <2> QED BY <2>2, <2>3
<1> QED BY <1>2, <1>4, <1>6, <1>9, <1>10 DEF Shrunk

\* A batch reclaims every token it listed.
LEMMA ReapSome ==
  ASSUME NEW k, NEW sp, NEW pl, NEW o \in Owners, Good(k, sp, pl), NEW m, m = ReapBatch(k, o)
  PROVE  /\ Shrunk(k, m, sp, pl, o)
         /\ \A s \in Slots : TokAt(k, s) \in xtok_owner_tokens(k, o) => ~m.table[s].live
<1> DEFINE listed == xtok_owner_tokens(k, o)
           Done(q, i) == /\ q \in KState /\ Shrunk(k, q, sp, pl, o)
                         /\ \A s \in Slots : s < i /\ TokAt(k, s) \in listed => ~q.table[s].live
           S == [i \in 0 .. NSlots |-> {q \in KState : Done(q, i)}]
<1>0. NSlots \in Nat /\ Slots \subseteq Nat /\ k \in KState BY SpacesAssumption DEF Slots, Good, Paged
<1>1. k \in S[0]
  <2>1. \A s \in Slots : ~(s < 0) BY <1>0
  <2>2. Shrunk(k, k, sp, pl, o) BY ShrunkNone
  <2>3. Done(k, 0) BY <1>0, <2>1, <2>2
  <2> QED BY <1>0, <2>3
<1>2. ASSUME NEW i \in 1 .. NSlots, NEW q \in S[i - 1]
      PROVE  (IF TokAt(k, i - 1) \in xtok_owner_tokens(k, o)
              THEN xtok_reclaim(xas_revoke_token(q, TokAt(k, i - 1)), TokAt(k, i - 1)) ELSE q) \in S[i]
  <2>1. i - 1 \in 0 .. NSlots /\ i \in 0 .. NSlots /\ i - 1 \in Slots /\ i \in Nat BY <1>0 DEF Slots
  <2>2. Done(q, i - 1) BY <2>1
  <2> DEFINE u == i - 1
             tok == TokAt(k, u)
             p == IF tok \in listed THEN xtok_reclaim(xas_revoke_token(q, tok), tok) ELSE q
  <2>3. \A s \in Slots : s < i <=> s < u \/ s = u BY <1>0, <2>1
  <2>4. SUFFICES Done(p, i) BY <2>1
  <2>5. CASE tok \notin listed
    <3>1. p = q BY <2>5
    <3> HIDE DEF p
    <3> QED BY <2>2, <2>3, <2>5, <3>1
  <2>6. CASE tok \in listed
    <3>1. p = xtok_reclaim(xas_revoke_token(q, tok), tok) BY <2>6
    <3>2. PICK t \in OwnedSlots(k, o) : tok = [slot |-> t, gen |-> k.table[t].gen]
      BY <2>6 DEF xtok_owner_tokens
    <3>3. t = u /\ tok.slot = u /\ tok.gen = k.table[u].gen
      <4>1. tok.slot = u /\ tok.gen = k.table[u].gen BY DEF TokAt
      <4> QED BY <3>2, <4>1
    <3>4. u \in OwnedSlots(k, o) /\ u \in Slots /\ k.table[u].live /\ k.table[u].owner = o
      BY <3>2, <3>3 DEF OwnedSlots
    <3>5. k.table[u].gen \in Nat BY <1>0, <3>4 DEF KState, Entries
    <3>6. tok \in [slot : Slots, gen : Nat] BY <3>4, <3>5 DEF TokAt
    <3>a. Done(q, u) BY <2>2
    <3> HIDE DEF p, tok, u
    <3>7. KeptTok(k.table, q.table, u) \/ ~q.table[u].live BY <2>2, <3>4 DEF Shrunk
    <3>8. q.table[tok.slot].live => q.table[tok.slot].owner = o /\ LookupLive(q, tok)
      BY <3>3, <3>4, <3>7 DEF KeptTok, LookupLive
    <3>9. Good(q, sp, pl) BY <2>2 DEF Shrunk
    <3>10. Shrunk(q, p, sp, pl, o) /\ (LookupLive(q, tok) => ~p.table[tok.slot].live)
      BY <3>1, <3>6, <3>8, <3>9, ReapOne
    <3>11. Shrunk(k, p, sp, pl, o) BY <2>2, <3>10, ShrunkMore
    <3>12. \A s \in Slots : ~q.table[s].live => ~p.table[s].live
      BY <3>10 DEF Shrunk, KeptTok
    <3>13. ~p.table[u].live BY <3>3, <3>4, <3>8, <3>10, <3>12
    <3>14. p \in KState BY <3>11 DEF Shrunk, Good, Paged
    <3> QED BY <3>a, <2>3, <3>11, <3>12, <3>13, <3>14
  <2> QED BY <2>5, <2>6
<1> HIDE DEF S
<1>3. m \in S[NSlots] BY <1>0, <1>1, <1>2, LoopReapBatch
<1>4. Done(m, NSlots) BY <1>0, <1>3 DEF S
<1>5. \A s \in Slots : s < NSlots BY <1>0 DEF Slots
<1> QED BY <1>4, <1>5

\* The lowest token of an owner is always on the list.
LEMMA LowestListed ==
  ASSUME NEW k, NEW o, NEW s \in OwnedSlots(k, o), \A r \in OwnedSlots(k, o) : s <= r
  PROVE  TokAt(k, s) \in xtok_owner_tokens(k, o)
<1> DEFINE B == {r \in OwnedSlots(k, o) : r < s}
<1>1. OwnedSlots(k, o) \subseteq Nat BY SpacesAssumption DEF OwnedSlots, Slots
<1>2. B = {} BY <1>1
<1>3. Cardinality(B) = 0 BY <1>2, FS_EmptySet
<1>4. Cardinality(B) < ListMax BY <1>3, SpacesAssumption
<1> QED BY <1>4 DEF TokAt, xtok_owner_tokens

\* No token of the owner is left.
LEMMA ReapAll ==
  ASSUME NEW k, NEW sp, NEW pl, NEW o \in Owners, Good(k, sp, pl), NEW m, m = ReapTokens(k, o)
  PROVE  Shrunk(k, m, sp, pl, o) /\ OwnedSlots(m, o) = {}
<1> DEFINE Left(q, i) == /\ q \in KState /\ Shrunk(k, q, sp, pl, o)
                         /\ \A s \in OwnedSlots(q, o) : i <= s
           S == [i \in 0 .. NSlots |-> {q \in KState : Left(q, i)}]
<1>0. NSlots \in Nat /\ Slots \subseteq Nat /\ k \in KState BY SpacesAssumption DEF Slots, Good, Paged
<1>1. k \in S[0]
  <2>0. \A s \in OwnedSlots(k, o) : s \in Nat BY <1>0 DEF OwnedSlots
  <2>1. \A s \in OwnedSlots(k, o) : 0 <= s BY <2>0
  <2>2. Shrunk(k, k, sp, pl, o) BY ShrunkNone
  <2> QED BY <1>0, <2>1, <2>2
<1>2. ASSUME NEW i \in 1 .. NSlots, NEW q \in S[i - 1] PROVE ReapBatch(q, o) \in S[i]
  <2>1. i - 1 \in 0 .. NSlots /\ i \in 0 .. NSlots /\ i \in Nat BY <1>0
  <2>2. Left(q, i - 1) BY <2>1
  <2> DEFINE p == ReapBatch(q, o)
  <2>3. Good(q, sp, pl) BY <2>2 DEF Shrunk
  <2>4. /\ Shrunk(q, p, sp, pl, o)
        /\ \A s \in Slots : TokAt(q, s) \in xtok_owner_tokens(q, o) => ~p.table[s].live
    BY <2>3, ReapSome
  <2> HIDE DEF p
  <2>5. Shrunk(k, p, sp, pl, o) BY <2>2, <2>4, ShrunkMore
  <2>6. ASSUME NEW s \in OwnedSlots(p, o) PROVE i <= s
    <3>1. s \in OwnedSlots(q, o) /\ s \in Nat /\ p.table[s].live
      <4>1. s \in Slots /\ p.table[s].live /\ p.table[s].owner = o BY DEF OwnedSlots
      <4>2. KeptTok(q.table, p.table, s) BY <2>4, <4>1 DEF Shrunk
      <4> QED BY <1>0, <4>1, <4>2 DEF KeptTok, OwnedSlots
    <3> DEFINE O == OwnedSlots(q, o)
    <3>2. O \subseteq Nat /\ O # {} BY <1>0, <3>1 DEF OwnedSlots
    <3> HIDE DEF O
    <3>3. PICK t \in O : \A r \in O : t <= r BY <3>2, Least
    <3>4. TokAt(q, t) \in xtok_owner_tokens(q, o) BY <3>3, LowestListed DEF O
    <3>5. t \in Slots BY DEF O, OwnedSlots
    <3>6. ~p.table[t].live BY <2>4, <3>4, <3>5
    <3>7. t # s /\ t <= s /\ i - 1 <= t /\ t \in Nat BY <1>0, <2>2, <3>1, <3>3, <3>5, <3>6 DEF O
    <3> QED BY <2>1, <3>1, <3>7
  <2>7. p \in KState BY <2>5 DEF Shrunk, Good, Paged
  <2>8. p \in S[i] BY <2>1, <2>5, <2>6, <2>7
  <2> QED BY <2>8 DEF p
<1> HIDE DEF S
<1>3. m \in S[NSlots] BY <1>0, <1>1, <1>2, LoopReapTokens
<1>4. Left(m, NSlots) BY <1>0, <1>3 DEF S
<1>5. \A s \in OwnedSlots(m, o) : s \in Nat /\ s < NSlots BY <1>0 DEF Slots, OwnedSlots
<1>6. OwnedSlots(m, o) = {} BY <1>0, <1>4, <1>5
<1> QED BY <1>4, <1>6

\* The frames of the tokens of o.
OwnedFrames(k, o) == UNION {FramesIn(k.table, s) : s \in OwnedSlots(k, o)}

\* The end of a space: nothing of o is left, and nothing else is touched.
Freed(k0, p, sp, o, pl) ==
    /\ Good(p, [sp EXCEPT ![o] = NoSpace], Cut(pl, sp[o].pml4))
    /\ \A s \in Slots : p.table[s].live => KeptTok(k0.table, p.table, s) /\ p.table[s].owner # o
    /\ \A j \in 1 .. NRecs : p.g_maps[j] = IF k0.g_maps[j].owner = o THEN NoRec ELSE k0.g_maps[j]
    /\ p.bits = k0.bits \cup TreeIn(pl, sp[o].pml4) \cup OwnedFrames(k0, o)
    /\ p.tlb \subseteq k0.tlb

\* The frames of the tokens that went are free.
LEMMA ShrunkBits ==
  ASSUME NEW k0, NEW k, NEW sp, NEW pl, NEW o, Good(k0, sp, pl), Shrunk(k0, k, sp, pl, o),
         OwnedSlots(k, o) = {}
  PROVE  k.bits = k0.bits \cup OwnedFrames(k0, o)
<1>1. /\ Parted(k0.bits, k0.table, DOMAIN pl) /\ Ledger(k0.table)
      /\ Parted(k.bits, k.table, DOMAIN pl)
  BY DEF Good, Paged, Shrunk
<1>2. \A s \in Slots : KeptTok(k0.table, k.table, s) \/ (s \in OwnedSlots(k0, o) /\ ~k.table[s].live)
  BY DEF Shrunk
<1>3. ASSUME NEW s \in LiveIn(k.table)
      PROVE  s \in LiveIn(k0.table) /\ FramesIn(k.table, s) = FramesIn(k0.table, s) /\ s \notin OwnedSlots(k0, o)
  <2>1. s \in Slots /\ k.table[s].live BY DEF LiveIn
  <2>2. KeptTok(k0.table, k.table, s) BY <1>2, <2>1
  <2>3. k.table[s].owner # o BY <2>1 DEF OwnedSlots
  <2> QED BY <2>1, <2>2, <2>3 DEF KeptTok, LiveIn, FramesIn, OwnedSlots
<1>4. ASSUME NEW s \in LiveIn(k0.table), s \notin OwnedSlots(k0, o)
      PROVE  s \in LiveIn(k.table) /\ FramesIn(k.table, s) = FramesIn(k0.table, s)
  BY <1>2, <1>4 DEF KeptTok, LiveIn, FramesIn
<1>5. OwnedSlots(k0, o) \subseteq LiveIn(k0.table) BY DEF OwnedSlots, LiveIn
<1>6. ASSUME NEW f \in k.bits PROVE f \in k0.bits \cup OwnedFrames(k0, o)
  <2>1. f \in RamFrames /\ f \notin DOMAIN pl /\ f \notin Taken(k.table) BY <1>1 DEF Parted
  <2>2. f \in k0.bits \/ f \in Taken(k0.table) BY <1>1, <2>1 DEF Parted
  <2>3. CASE f \in Taken(k0.table)
    <3>1. PICK s \in LiveIn(k0.table) : f \in FramesIn(k0.table, s) BY <2>3 DEF Taken
    <3>2. s \in OwnedSlots(k0, o) BY <1>4, <2>1, <3>1 DEF Taken
    <3> QED BY <3>1, <3>2 DEF OwnedFrames
  <2> QED BY <2>2, <2>3
<1>7. ASSUME NEW f \in k0.bits \cup OwnedFrames(k0, o) PROVE f \in k.bits
  <2>1. f \in RamFrames /\ f \notin DOMAIN pl
    <3>1. OwnedFrames(k0, o) \subseteq Taken(k0.table) BY <1>5 DEF OwnedFrames, Taken
    <3> QED BY <1>1, <3>1 DEF Parted
  <2>2. f \notin Taken(k.table)
    <3> SUFFICES ASSUME NEW t \in LiveIn(k.table), f \in FramesIn(k.table, t) PROVE FALSE BY DEF Taken
    <3>1. t \in LiveIn(k0.table) /\ f \in FramesIn(k0.table, t) /\ t \notin OwnedSlots(k0, o) BY <1>3
    <3>2. f \notin k0.bits BY <1>1, <3>1 DEF Parted, Taken
    <3>3. PICK s \in OwnedSlots(k0, o) : f \in FramesIn(k0.table, s) BY <3>2 DEF OwnedFrames
    <3>4. s # t /\ s \in LiveIn(k0.table) BY <1>5, <3>1
    <3> QED BY <1>1, <3>1, <3>3, <3>4 DEF Ledger
  <2> QED BY <1>1, <2>1, <2>2 DEF Parted
<1> QED BY <1>6, <1>7

\* A space goes once its owner has no token left: everything the two had is free.
LEMMA Gone ==
  ASSUME NEW k0, NEW sp \in Spaces, NEW pl, NEW o \in Live(sp), Good(k0, sp, pl), Unshared(sp),
         NEW k, Shrunk(k0, k, sp, pl, o), OwnedSlots(k, o) = {},
         NEW p, p = xas_destroy(k, sp[o].pml4)
  PROVE  Freed(k0, p, sp, o, pl)
<1> DEFINE r == sp[o].pml4
<1>1. Good(k, sp, pl) /\ o \in Owners BY DEF Shrunk, Live
<1>2. Destroyed(k, p, sp, o, pl) BY <1>1, Destroy
<1>3. /\ Good(p, [sp EXCEPT ![o] = NoSpace], Cut(pl, r))
      /\ p.bits = k.bits \cup TreeIn(pl, r) /\ SameTokens(k.table, p.table) /\ p.tlb \subseteq k.tlb
      /\ p.g_maps = [j \in 1 .. NRecs |-> IF k.g_maps[j].live /\ k.g_maps[j].as_pml4 = r THEN NoRec
                                          ELSE k.g_maps[j]]
  BY <1>2 DEF Destroyed
<1>4. \A j \in 1 .. NRecs : k.g_maps[j].live => k.g_maps[j].owner # o /\ k.g_maps[j].as_pml4 # r
  <2> SUFFICES ASSUME NEW j \in 1 .. NRecs, k.g_maps[j].live
               PROVE  k.g_maps[j].owner # o /\ k.g_maps[j].as_pml4 # r
    OBVIOUS
  <2> DEFINE c == k.g_maps[j]
  <2>1. /\ c.owner \in Live(sp) /\ c.as_pml4 = sp[c.owner].pml4 /\ c.tok.slot \in Slots
        /\ k.table[c.tok.slot].live /\ k.table[c.tok.slot].owner = c.owner
    BY <1>1, RecFacts
  <2>2. c.owner # o BY <2>1 DEF OwnedSlots
  <2> QED BY <2>1, <2>2 DEF Unshared
<1>5. \A j \in 1 .. NRecs : p.g_maps[j] = k.g_maps[j] BY <1>3, <1>4
<1>6. ASSUME NEW j \in 1 .. NRecs
      PROVE  p.g_maps[j] = IF k0.g_maps[j].owner = o THEN NoRec ELSE k0.g_maps[j]
  <2>1. k.g_maps[j] = k0.g_maps[j] \/ (k0.g_maps[j].owner = o /\ k.g_maps[j] = NoRec) BY DEF Shrunk
  <2>2. ~k0.g_maps[j].live => k0.g_maps[j] = NoRec BY DEF Good, Records
  <2>3. NoRec.owner # o BY <1>1, SpacesAssumption DEF NoRec, None
  <2>4. k0.g_maps[j].owner = o => k0.g_maps[j].live BY <2>2, <2>3
  <2>5. k0.g_maps[j].owner = o => k.g_maps[j] # k0.g_maps[j] BY <1>4, <2>4
  <2> QED BY <1>5, <2>1, <2>5
<1>7. ASSUME NEW s \in Slots, p.table[s].live
      PROVE  KeptTok(k0.table, p.table, s) /\ p.table[s].owner # o
  <2>1. KeptTok(k.table, p.table, s) BY <1>3 DEF SameTokens, KeptTok
  <2>2. k.table[s].live BY <1>7, <2>1 DEF KeptTok
  <2>3. KeptTok(k0.table, k.table, s) BY <2>2 DEF Shrunk
  <2>4. k.table[s].owner # o BY <2>2 DEF OwnedSlots
  <2> QED BY <2>1, <2>3, <2>4 DEF KeptTok
<1>8. k.bits = k0.bits \cup OwnedFrames(k0, o) BY ShrunkBits
<1>9. p.tlb \subseteq k0.tlb BY <1>3 DEF Shrunk
<1> QED BY <1>3, <1>6, <1>7, <1>8, <1>9 DEF Freed

-----------------------------------------------------------------------------
(* The calls of the kernel keep its state sound.                           *)

\* What a call returns does not matter.
LEMMA SoundAlike ==
  ASSUME NEW k, NEW p, NEW sp, NEW c, Sound(k, sp, c), Alike(k, p)
  PROVE  Sound(p, sp, c)
<1>1. PICK pl : Good(k, sp, pl) BY DEF Sound
<1>2. Good(p, sp, pl) BY <1>1, AlikeGood
<1>3. p.table = k.table /\ p.tlb = k.tlb /\ p.mem = k.mem BY DEF Alike
<1> QED BY <1>2, <1>3 DEF Sound, Fresh

\* The owner that runs has a space.
LEMMA Running ==
  ASSUME NEW k, NEW sp, NEW o \in Owners, Sound(k, sp, o)
  PROVE  /\ o # None /\ sp[o].state = "ready" /\ o \in Live(sp) /\ sp[o].pml4 \in Roots(sp)
         /\ Fresh(k, sp[o].pml4)
<1>1. o # None BY SpacesAssumption DEF None
<1>2. sp[o].state = "ready" /\ Fresh(k, sp[o].pml4) BY <1>1 DEF Sound
<1>3. o \in Live(sp) BY <1>2 DEF Live
<1> QED BY <1>1, <1>2, <1>3 DEF Roots

\* A call of the program that runs: the spaces stay, and so do the owners of tokens.
LEMMA SoundCall ==
  ASSUME NEW k, NEW sp, NEW o \in Owners, Sound(k, sp, o), NEW p, NEW pl, Good(p, sp, pl),
         Fresh(p, sp[o].pml4),
         \A s \in Slots : p.table[s].live => p.table[s].owner = o \/ KeptTok(k.table, p.table, s)
  PROVE  Sound(p, sp, o)
<1>1. o # None /\ sp[o].state = "ready" BY Running
<1>2. ASSUME NEW s \in LiveIn(p.table) PROVE sp[p.table[s].owner].state \in {"ready", "ended"}
  <2>1. s \in Slots /\ p.table[s].live BY DEF LiveIn
  <2>2. CASE p.table[s].owner = o BY <1>1, <2>2
  <2>3. CASE KeptTok(k.table, p.table, s)
    <3>1. s \in LiveIn(k.table) /\ p.table[s].owner = k.table[s].owner BY <2>1, <2>3 DEF KeptTok, LiveIn
    <3>2. sp[k.table[s].owner].state \in {"ready", "ended"} BY <3>1 DEF Sound
    <3> QED BY <3>1, <3>2
  <2> QED BY <2>1, <2>2, <2>3
<1>3. sp \in Spaces /\ Unshared(sp) BY DEF Sound
<1> QED BY <1>1, <1>2, <1>3 DEF Sound

\* A running program allocates.
LEMMA SoundAlloc ==
  ASSUME NEW k, NEW sp, NEW o \in Owners, Sound(k, sp, o), NEW n \in Nat, n > 0,
         NEW rights \in SUBSET UserRights, NEW p, p = xtok_alloc_ram(k, o, n, rights)
  PROVE  Sound(p, sp, o)
<1>1. PICK pl : Good(k, sp, pl) BY DEF Sound
<1>2. Allotted(k, p, sp, pl, o, n) BY <1>1, AllocRam
<1>3. Good(p, sp, pl) /\ p.tlb = k.tlb /\ Same(k.mem, p.mem, Roots(sp)) BY <1>2 DEF Allotted
<1>4. Fresh(p, sp[o].pml4) BY <1>3, Running DEF Fresh, Same
<1>5. ASSUME NEW s \in Slots, p.table[s].live
      PROVE  p.table[s].owner = o \/ KeptTok(k.table, p.table, s)
  <2>1. CASE p.rc = "ok"
    <3>1. p.table[p.tok.slot].owner = o /\ ElseSame(k.table, p.table, p.tok.slot) BY <1>2, <2>1 DEF Allotted
    <3> QED BY <3>1 DEF ElseSame, KeptTok
  <2>2. CASE p.rc # "ok"
    <3>1. p.table = k.table BY <1>2, <2>2 DEF Allotted
    <3> QED BY <3>1 DEF KeptTok
  <2> QED BY <2>1, <2>2
<1> QED BY <1>3, <1>4, <1>5, SoundCall

\* A running program maps.
LEMMA SoundMap ==
  ASSUME NEW k, NEW sp, NEW o \in Owners, Sound(k, sp, o), NEW va \in Nat,
         NEW tok \in [slot : Slots, gen : Nat], NEW perms,
         NEW p, p = xas_map(k, sp[o].pml4, o, va, tok, perms)
  PROVE  Sound(p, sp, o) /\ SameTokens(k.table, p.table)
<1>1. PICK pl : Good(k, sp, pl) BY DEF Sound
<1>2. o \in Live(sp) /\ sp[o].pml4 \in Roots(sp) /\ Fresh(k, sp[o].pml4) BY Running
<1>3. MapDone(k, p, sp, o, va, tok) BY <1>1, <1>2, XasMap
<1>4. PICK pl2 : Good(p, sp, pl2) BY <1>3 DEF MapDone
<1>5. Fresh(p, sp[o].pml4) /\ SameTokens(k.table, p.table) BY <1>2, <1>3 DEF MapDone
<1>6. \A s \in Slots : KeptTok(k.table, p.table, s) BY <1>5 DEF SameTokens, KeptTok
<1> QED BY <1>4, <1>5, <1>6, SoundCall

\* A running program unmaps.
LEMMA SoundUnmap ==
  ASSUME NEW k, NEW sp, NEW o \in Owners, Sound(k, sp, o), NEW va,
         NEW p, p = xas_unmap(k, sp[o].pml4, va)
  PROVE  Sound(p, sp, o) /\ SameTokens(k.table, p.table)
<1>1. PICK pl : Good(k, sp, pl) BY DEF Sound
<1>2. sp[o].pml4 \in Roots(sp) /\ Fresh(k, sp[o].pml4) BY Running
<1>3. PICK D : Dropped(k, p, sp, pl, D) BY <1>1, Unmap
<1>4. Good(p, sp, pl) /\ SameTokens(k.table, p.table) /\ Fresh(p, sp[o].pml4) BY <1>2, <1>3 DEF Dropped
<1>5. \A s \in Slots : KeptTok(k.table, p.table, s) BY <1>4 DEF SameTokens, KeptTok
<1> QED BY <1>4, <1>5, SoundCall

\* A running program frees a token.
LEMMA SoundFree ==
  ASSUME NEW k, NEW sp, NEW o \in Owners, Sound(k, sp, o), NEW tok \in [slot : Slots, gen : Nat],
         NEW p, p = xtok_release_owned(k, tok, o)
  PROVE  Sound(p, sp, o) /\ \A s \in Slots : p.table[s].live => KeptTok(k.table, p.table, s)
<1>1. PICK pl : Good(k, sp, pl) BY DEF Sound
<1>2. /\ Good(p, sp, pl) /\ p.mem = k.mem /\ p.tlb = k.tlb
      /\ p.table = k.table \/ (~p.table[tok.slot].live /\ ElseSame(k.table, p.table, tok.slot))
  BY <1>1, ReleaseOwned
<1>3. Fresh(p, sp[o].pml4) BY <1>2, Running DEF Fresh
<1>4. \A s \in Slots : p.table[s].live => KeptTok(k.table, p.table, s)
  BY <1>2 DEF ElseSame, KeptTok
<1> QED BY <1>2, <1>3, <1>4, SoundCall

\* What the tables show is an entry.
LEMMA ShownType ==
  ASSUME NEW k, NEW sp, NEW pl, Good(k, sp, pl), NEW r \in Roots(sp), NEW va \in UserVa
  PROVE  Shown(k.mem, r, va) \in Ptes /\ r # 0
<1>1. Forest(k.mem, pl, Roots(sp)) /\ k.mem \in [Frames -> [0 .. (Fan - 1) -> Ptes]]
      /\ DOMAIN pl \subseteq RamFrames
  BY DEF Good, Paged, Forest, KState
<1>2. r # 0 /\ (T0(k.mem, r, va) # 0 => T0(k.mem, r, va) \in DOMAIN pl) BY <1>1, Walk
<1>3. T0(k.mem, r, va) # 0 => T0(k.mem, r, va) \in Frames BY <1>1, <1>2 DEF Frames
<1>4. Index(va, 0) \in 0 .. (Fan - 1) BY IndexOf DEF UserIdx
<1>5. Absent \in Ptes BY DEF Absent, Ptes
<1>6. T0(k.mem, r, va) # 0 => k.mem[T0(k.mem, r, va)][Index(va, 0)] \in Ptes BY <1>1, <1>3, <1>4
<1> QED BY <1>2, <1>5, <1>6 DEF Shown

\* States that differ in the TLB, too.
LEMMA OtherTlb ==
  ASSUME NEW k, NEW sp, NEW pl, Good(k, sp, pl), NEW p \in KState, p.bits = k.bits, p.mem = k.mem,
         p.table = k.table, p.g_maps = k.g_maps
  PROVE  Good(p, sp, pl)
  BY DEF Good, Paged

\* The CPU keeps a translation it found in the tables.
LEMMA SoundTouch ==
  ASSUME NEW k, NEW sp, NEW o \in Owners, Sound(k, sp, o), NEW va \in UserVa,
         Shown(k.mem, sp[o].pml4, va) # Absent,
         NEW p \in KState, p.bits = k.bits, p.mem = k.mem, p.table = k.table, p.g_maps = k.g_maps,
         p.tlb = k.tlb \cup {[va |-> va, pte |-> Shown(k.mem, sp[o].pml4, va)]}
  PROVE  Sound(p, sp, o)
<1>1. PICK pl : Good(k, sp, pl) BY DEF Sound
<1>2. Good(p, sp, pl) BY <1>1, OtherTlb
<1>3. Fresh(k, sp[o].pml4) BY Running
<1>4. Fresh(p, sp[o].pml4) BY <1>3 DEF Fresh
<1>5. \A s \in Slots : KeptTok(k.table, p.table, s) BY DEF KeptTok
<1> QED BY <1>2, <1>4, <1>5, SoundCall

\* Loading CR3 empties the TLB.
LEMMA SoundRun ==
  ASSUME NEW k, NEW sp, NEW o \in Owners, Sound(k, sp, None), sp[o].state = "ready",
         NEW p \in KState, p.bits = k.bits, p.mem = k.mem, p.table = k.table, p.g_maps = k.g_maps,
         p.tlb = {}
  PROVE  Sound(p, sp, o)
<1>1. PICK pl : Good(k, sp, pl) BY DEF Sound
<1>2. Good(p, sp, pl) BY <1>1, OtherTlb
<1>3. Fresh(p, sp[o].pml4) BY DEF Fresh
<1>4. sp \in Spaces /\ Unshared(sp) BY DEF Sound
<1>5. \A s \in LiveIn(p.table) : sp[p.table[s].owner].state \in {"ready", "ended"} BY DEF Sound
<1>6. o # None BY SpacesAssumption DEF None
<1> QED BY <1>2, <1>3, <1>4, <1>5, <1>6 DEF Sound

\* The spaces after only the state of o changed.
Restated(sp, sp2, o, st) ==
    /\ sp2 \in Spaces /\ Unshared(sp2) /\ Live(sp2) = Live(sp) /\ Roots(sp2) = Roots(sp)
    /\ sp2[o].state = st /\ \A q \in Owners : sp2[q].pml4 = sp[q].pml4
    /\ \A q \in Owners : q # o => sp2[q] = sp[q]

\* A live space changes its state and stays live.
LEMMA StateOnly ==
  ASSUME NEW sp \in Spaces, Unshared(sp), NEW o \in Live(sp), NEW st \in States, st # "dead",
         NEW sp2, sp2 = [sp EXCEPT ![o].state = st]
  PROVE  Restated(sp, sp2, o, st)
<1>1. o \in Owners /\ sp[o].state # "dead" BY DEF Live
<1>2. /\ sp2 \in Spaces /\ sp2[o].state = st /\ \A q \in Owners : sp2[q].pml4 = sp[q].pml4
      /\ \A q \in Owners : q # o => sp2[q] = sp[q]
  BY <1>1 DEF Spaces
<1>3. Live(sp2) = Live(sp) BY <1>1, <1>2 DEF Live
<1>4. Live(sp) \subseteq Owners BY DEF Live
<1>5. Roots(sp2) = Roots(sp) BY <1>2, <1>3, <1>4 DEF Roots
<1>6. Unshared(sp2) BY <1>2, <1>3, <1>4 DEF Unshared
<1> QED BY <1>2, <1>3, <1>5, <1>6 DEF Restated

\* Tables and records do not depend on the states of the spaces.
LEMMA RestatedGood ==
  ASSUME NEW k, NEW sp, NEW sp2, NEW o, NEW st, NEW pl, Good(k, sp, pl), Restated(sp, sp2, o, st)
  PROVE  Good(k, sp2, pl)
<1>1. /\ Live(sp2) = Live(sp) /\ Roots(sp2) = Roots(sp) /\ \A q \in Owners : sp2[q].pml4 = sp[q].pml4
  BY DEF Restated
<1>2. Live(sp) \subseteq Owners BY DEF Live
<1>3. \A c : RecOk(c, k.table, k.mem, sp) => RecOk(c, k.table, k.mem, sp2)
  BY <1>1, <1>2 DEF RecOk
<1>4. Records(k.g_maps, k.table, k.mem, sp) BY DEF Good
<1>5. Records(k.g_maps, k.table, k.mem, sp2) BY <1>1, <1>3, <1>4 DEF Records
<1> QED BY <1>1, <1>5 DEF Good

\* The program leaves the CPU, to be resumed or not.
LEMMA SoundLeave ==
  ASSUME NEW k, NEW sp, NEW o \in Owners, Sound(k, sp, o), NEW st \in {"ready", "ended"},
         NEW sp2, sp2 = [sp EXCEPT ![o].state = st],
         NEW p \in KState, p.bits = k.bits, p.mem = k.mem, p.table = k.table, p.g_maps = k.g_maps,
         p.tlb = {}
  PROVE  Sound(p, sp2, None)
<1>1. PICK pl : Good(k, sp, pl) BY DEF Sound
<1>2. sp \in Spaces /\ Unshared(sp) BY DEF Sound
<1>3. o \in Live(sp) BY Running
<1>4. st \in States /\ st # "dead" BY DEF States
<1>5. Restated(sp, sp2, o, st) BY <1>2, <1>3, <1>4, StateOnly
<1>6. Good(p, sp, pl) BY <1>1, OtherTlb
<1>7. Good(p, sp2, pl) BY <1>5, <1>6, RestatedGood
<1>8. ASSUME NEW s \in LiveIn(p.table) PROVE sp2[p.table[s].owner].state \in {"ready", "ended"}
  <2>1. sp[p.table[s].owner].state \in {"ready", "ended"} BY DEF Sound
  <2>2. p.table[s].owner \in Owners BY <1>6 DEF Good, Paged, Ledger
  <2> QED BY <1>5, <2>1, <2>2 DEF Restated
<1>9. sp2 \in Spaces /\ Unshared(sp2) BY <1>5 DEF Restated
<1> QED BY <1>7, <1>8, <1>9 DEF Sound

\* The spaces after xas_create.
Anew(sp, o, f) == [sp EXCEPT ![o] = [state |-> "empty", pml4 |-> f]]

\* A new space shows nothing, and the ledger does not change.
LEMMA SoundCreate ==
  ASSUME NEW k, NEW sp, NEW o \in Owners, Sound(k, sp, None), sp[o].state = "dead",
         NEW f, f = alloc_zero_table(k).at, f # 0,
         NEW p, p = NewState(k), NEW sp2, sp2 = Anew(sp, o, f)
  PROVE  Sound(p, sp2, None) /\ p.table = k.table
<1>1. PICK pl : Good(k, sp, pl) BY DEF Sound
<1>2. sp \in Spaces /\ Unshared(sp) /\ k.tlb = {} BY DEF Sound
<1>0. sp2 = [sp EXCEPT ![o] = [state |-> "empty", pml4 |-> f]] BY DEF Anew
<1>3. /\ \E pl2 : Good(p, sp2, pl2)
      /\ p.table = k.table /\ p.g_maps = k.g_maps /\ p.tlb = k.tlb
      /\ f \in RamFrames /\ f \notin Roots(sp)
  <2>1. Created(k, NewState(k), sp, sp2, f) BY <1>0, <1>1, <1>2, Create
  <2> QED BY <2>1 DEF Created
<1>4. f \in Nat BY <1>3, SpacesAssumption
<1>5. Renewed(sp, sp2, o, f) BY <1>0, <1>2, <1>3, <1>4, SpaceMade
<1>6. sp2 \in Spaces /\ Unshared(sp2) /\ \A q \in Owners : q # o => sp2[q] = sp[q] BY <1>5 DEF Renewed
<1>7. ASSUME NEW s \in LiveIn(p.table) PROVE sp2[p.table[s].owner].state \in {"ready", "ended"}
  <2>1. s \in LiveIn(k.table) BY <1>3 DEF LiveIn
  <2>2. sp[k.table[s].owner].state \in {"ready", "ended"} BY <2>1 DEF Sound
  <2>3. k.table[s].owner \in Owners BY <1>1, <2>1 DEF Good, Paged, Ledger
  <2>4. k.table[s].owner # o BY <2>2
  <2> QED BY <1>3, <1>6, <2>2, <2>3, <2>4
<1> QED BY <1>2, <1>3, <1>6, <1>7 DEF Sound

\* A space that awaits its image has an owner without tokens.
LEMMA EmptySpace ==
  ASSUME NEW k, NEW sp, NEW o \in Owners, Sound(k, sp, None), sp[o].state \in {"empty", "failed"}
  PROVE  /\ o \in Live(sp) /\ k \in KState /\ Vacant(k, sp, o)
         /\ \A s \in LiveIn(k.table) : k.table[s].owner \in Owners /\ k.table[s].owner # o
<1>1. PICK pl : Good(k, sp, pl) BY DEF Sound
<1>2. o \in Live(sp) BY DEF Live
<1>3. \A s \in LiveIn(k.table) : sp[k.table[s].owner].state \in {"ready", "ended"} BY DEF Sound
<1>4. \A s \in LiveIn(k.table) : k.table[s].owner # o BY <1>3
<1>5. \A s \in LiveIn(k.table) : k.table[s].owner \in Owners BY <1>1 DEF Good, Paged, Ledger
<1>6. Unshared(sp) BY DEF Sound
<1>7. k \in KState BY <1>1 DEF Good, Paged
<1> QED BY <1>1, <1>2, <1>4, <1>5, <1>6, <1>7 DEF Vacant

\* A load, complete or undone, leaves the kernel sound.
LEMMA SoundLoad ==
  ASSUME NEW k, NEW sp, NEW o \in Owners, Sound(k, sp, None), sp[o].state = "empty",
         NEW p, NEW q, LoadedBy(k, p, sp, o, q),
         NEW sp2, sp2 = [sp EXCEPT ![o].state = IF p.rc = "ok" THEN "ready" ELSE "failed"]
  PROVE  Sound(p, sp2, None)
<1> DEFINE st == IF p.rc = "ok" THEN "ready" ELSE "failed"
<1>1. o \in Live(sp) /\ \A s \in LiveIn(k.table) : k.table[s].owner \in Owners /\ k.table[s].owner # o
  BY EmptySpace
<1>2. sp \in Spaces /\ Unshared(sp) /\ k.tlb = {} BY DEF Sound
<1>3. st \in States /\ st # "dead" BY DEF States
<1>4. sp2 = [sp EXCEPT ![o].state = st] OBVIOUS
<1>5. p.rc = "ok" <=> st = "ready" OBVIOUS
<1>6. p.rc \in {"ok", "failed"} BY DEF LoadedBy
<1> HIDE DEF st
<1>7. Restated(sp, sp2, o, st) BY <1>1, <1>2, <1>3, <1>4, StateOnly
<1>8. ASSUME NEW s \in LiveIn(k.table) PROVE sp2[k.table[s].owner].state \in {"ready", "ended"}
  <2>1. sp[k.table[s].owner].state \in {"ready", "ended"} BY DEF Sound
  <2> QED BY <1>1, <1>7, <2>1 DEF Restated
<1>9. CASE p.rc = "ok"
  <2>1. PICK TS, VS : Held(k, p, sp, o, TS, VS) BY <1>9 DEF LoadedBy
  <2>2. PICK pl : Good(p, sp, pl) BY <2>1 DEF Held
  <2>3. Good(p, sp2, pl) BY <1>7, <2>2, RestatedGood
  <2>4. p.tlb = {} BY <1>2, <2>1 DEF Held
  <2>5. ASSUME NEW s \in LiveIn(p.table) PROVE sp2[p.table[s].owner].state \in {"ready", "ended"}
    <3>1. CASE s \in LiveIn(k.table)
      <4>1. KeptTok(k.table, p.table, s) BY <2>1, <3>1 DEF Held
      <4> QED BY <1>8, <3>1, <4>1 DEF KeptTok
    <3>2. CASE s \notin LiveIn(k.table)
      <4>1. p.table[s].owner = o BY <2>1, <3>2 DEF Held
      <4>2. sp2[o].state = "ready" BY <1>5, <1>7, <1>9 DEF Restated
      <4> QED BY <4>1, <4>2
    <3> QED BY <3>1, <3>2
  <2>6. sp2 \in Spaces /\ Unshared(sp2) BY <1>7 DEF Restated
  <2> QED BY <2>3, <2>4, <2>5, <2>6 DEF Sound
<1>10. CASE p.rc = "failed"
  <2>1. Undone(k, p, sp) BY <1>10 DEF LoadedBy
  <2>2. PICK pl : Good(p, sp, pl) BY <2>1 DEF Undone
  <2>3. Good(p, sp2, pl) BY <1>7, <2>2, RestatedGood
  <2>4. p.tlb = {} BY <1>2, <2>1 DEF Undone
  <2>5. ASSUME NEW s \in LiveIn(p.table) PROVE sp2[p.table[s].owner].state \in {"ready", "ended"}
    <3>1. s \in LiveIn(k.table) /\ p.table[s] = k.table[s] BY <2>1 DEF Undone
    <3> QED BY <1>8, <3>1
  <2>6. sp2 \in Spaces /\ Unshared(sp2) BY <1>7 DEF Restated
  <2> QED BY <2>3, <2>4, <2>5, <2>6 DEF Sound
<1> QED BY <1>6, <1>9, <1>10

\* The end of a space leaves the kernel sound.
LEMMA SoundGone ==
  ASSUME NEW k, NEW sp, NEW o \in Live(sp), Sound(k, sp, None), NEW pl, NEW p, Freed(k, p, sp, o, pl),
         Good(k, sp, pl), NEW sp2, sp2 = [sp EXCEPT ![o] = NoSpace]
  PROVE  Sound(p, sp2, None)
<1>1. sp \in Spaces /\ Unshared(sp) /\ k.tlb = {} BY DEF Sound
<1>2. sp2 \in Spaces /\ Unshared(sp2) BY <1>1, SpaceGone
<1>3. Good(p, sp2, Cut(pl, sp[o].pml4)) /\ p.tlb = {} BY <1>1 DEF Freed
<1>4. ASSUME NEW s \in LiveIn(p.table) PROVE sp2[p.table[s].owner].state \in {"ready", "ended"}
  <2>1. s \in Slots /\ p.table[s].live BY DEF LiveIn
  <2>2. KeptTok(k.table, p.table, s) /\ p.table[s].owner # o BY <2>1 DEF Freed
  <2>3. s \in LiveIn(k.table) /\ k.table[s].owner = p.table[s].owner BY <2>1, <2>2 DEF KeptTok, LiveIn
  <2>4. sp[k.table[s].owner].state \in {"ready", "ended"} BY <2>3 DEF Sound
  <2>5. k.table[s].owner \in Owners BY <2>3 DEF Good, Paged, Ledger
  <2>6. sp2[p.table[s].owner] = sp[p.table[s].owner] BY <1>1, <2>2, <2>3, <2>5 DEF Spaces
  <2> QED BY <2>3, <2>4, <2>6
<1> QED BY <1>2, <1>3, <1>4 DEF Sound

-----------------------------------------------------------------------------
(* The invariant holds initially and every step keeps it.                  *)

\* The variables are the kernel state.
LEMMA KernelIs ==
  /\ Kernel.bits = bits /\ Kernel.mem = mem /\ Kernel.table = table /\ Kernel.hint = hint
  /\ Kernel.g_maps = g_maps /\ Kernel.tlb = tlb
  /\ Kernel'.bits = bits' /\ Kernel'.mem = mem' /\ Kernel'.table = table' /\ Kernel'.hint = hint'
  /\ Kernel'.g_maps = g_maps' /\ Kernel'.tlb = tlb'
BY DEF Kernel

\* After a call the variables are what the call left.
LEMMA NextKernel ==
  ASSUME NEW p \in KState, Becomes(p)
  PROVE  Alike(p, Kernel')
<1>1. NoRec.tok \in [slot : Slots, gen : Nat] /\ "ok" \in Codes
  BY SpacesAssumption DEF NoRec, Slots, Codes
<1>2. /\ p.bits = bits' /\ p.mem = mem' /\ p.table = table' /\ p.hint = hint'
      /\ p.g_maps = g_maps' /\ p.tlb = tlb'
  BY DEF Becomes
<1>3. Kernel' \in KState
  <2>1. /\ p.bits \in SUBSET RamFrames /\ p.mem \in [Frames -> [0 .. (Fan - 1) -> Ptes]]
        /\ p.table \in [Slots -> Entries] /\ p.hint \in Slots /\ p.g_maps \in [1 .. NRecs -> Recs]
        /\ p.tlb \in SUBSET [va : Nat, pte : Ptes]
    BY DEF KState
  <2> QED BY <1>1, <1>2, <2>1 DEF Kernel, KState
<1> QED BY <1>2, <1>3, KernelIs DEF Alike

\* Everything is free at boot.
LEMMA InitInv == Init => Inv
<1> SUFFICES ASSUME Init PROVE Inv OBVIOUS
<1> USE DEF Init
<1>1. Kernel \in KState
  <2>1. NoRec.tok \in [slot : Slots, gen : Nat] /\ "ok" \in Codes /\ 0 \in Slots
    BY SpacesAssumption DEF NoRec, Slots, Codes
  <2>2. EmptyTable \in [0 .. (Fan - 1) -> Ptes] BY DEF EmptyTable, Absent, Ptes
  <2>3. mem \in [Frames -> [0 .. (Fan - 1) -> Ptes]] BY <2>2 DEF Frames
  <2>4. FreeEntry(1) \in Entries
    <3>1. 1 \in 1 .. (GenMod - 1) BY SpacesAssumption
    <3> QED BY <3>1 DEF FreeEntry, Entries
  <2>5. table \in [Slots -> Entries] BY <2>4
  <2>6. NoRec \in Recs BY <2>1 DEF NoRec, Recs
  <2>7. g_maps \in [1 .. NRecs -> Recs] BY <2>6
  <2>8. bits \in SUBSET RamFrames /\ hint \in Slots /\ tlb \in SUBSET [va : Nat, pte : Ptes] BY <2>1
  <2> HIDE DEF Init
  <2> QED BY <2>1, <2>3, <2>5, <2>7, <2>8 DEF Kernel, KState
<1>2. spaces \in Spaces BY DEF NoSpace, Spaces, States
<1>3. Live(spaces) = {} BY DEF Live, NoSpace
<1>4. Roots(spaces) = {} BY <1>3 DEF Roots
<1>5. \A s \in Slots : ~table[s].live /\ table[s].map_count = 0 BY DEF FreeEntry
<1>6. \A i \in 1 .. NRecs : ~g_maps[i].live /\ g_maps[i] = NoRec BY DEF NoRec
<1>7. bits = RamFrames /\ tlb = {} /\ cur = None OBVIOUS
<1>8. quota \in [Owners -> [frames : Nat, tokens : Nat]] BY SpacesAssumption
<1> HIDE DEF Init
<1> DEFINE pl == [f \in {} |-> Placed(0, 0, 0, 0)]
<1>9. DOMAIN pl = {} /\ pl \in [DOMAIN pl -> Places] OBVIOUS
<1> HIDE DEF pl
<1>10. Forest(mem, pl, {}) BY <1>9 DEF Forest, Down, Up, Tops
<1>11. LiveIn(table) = {} BY <1>5 DEF LiveIn
<1>12. Taken(table) = {} /\ Ledger(table) BY <1>11 DEF Taken, Ledger
<1>13. Parted(bits, table, DOMAIN pl) BY <1>7, <1>9, <1>12 DEF Parted
<1>14. Records(g_maps, table, mem, spaces) BY <1>4, <1>6 DEF Records
<1>15. Pins(g_maps, table)
  <2>1. \A s \in Slots : PinsOf(g_maps, s) = {} BY <1>6 DEF PinsOf
  <2> QED BY <1>5, <2>1, FS_EmptySet DEF Pins
<1>16. Paged(Kernel, Roots(spaces), pl) BY <1>1, <1>4, <1>10, <1>12, <1>13, KernelIs DEF Paged
<1>17. Good(Kernel, spaces, pl) BY <1>14, <1>15, <1>16, KernelIs DEF Good
<1>18. Unshared(spaces) BY <1>3 DEF Unshared
<1>19. Sound(Kernel, spaces, cur) BY <1>2, <1>7, <1>11, <1>17, <1>18, KernelIs DEF Sound
<1> QED BY <1>8, <1>19 DEF Inv

\* The owners whose usage grew are within their quotas.
Within(k, p, q) ==
    \A o \in Owners :
      /\ FramesOf(p, o) > FramesOf(k, o) => FramesOf(p, o) <= q[o].frames
      /\ TokensOf(p, o) > TokensOf(k, o) => TokensOf(p, o) <= q[o].tokens

\* Nobody's usage grew.
LEMMA WithinLess ==
  ASSUME NEW k \in KState, NEW p \in KState, NEW q,
         \A s \in Slots : p.table[s].live => KeptTok(k.table, p.table, s)
  PROVE  Within(k, p, q)
<1> SUFFICES ASSUME NEW o \in Owners
             PROVE  /\ ~(FramesOf(p, o) > FramesOf(k, o)) /\ ~(TokensOf(p, o) > TokensOf(k, o))
  BY DEF Within
<1>1. \A s \in Slots : p.table[s].live /\ p.table[s].owner = o =>
        k.table[s].live /\ k.table[s].owner = o /\ k.table[s].n = p.table[s].n
  BY DEF KeptTok
<1>2. FramesOf(p, o) <= FramesOf(k, o) /\ TokensOf(p, o) <= TokensOf(k, o) BY <1>1, UsageLeq
<1>3. FramesOf(p, o) \in Nat /\ FramesOf(k, o) \in Nat /\ TokensOf(p, o) \in Nat /\ TokensOf(k, o) \in Nat
  BY FramesNat
<1> QED BY <1>2, <1>3

\* Only one owner's usage grew.
LEMMA WithinOne ==
  ASSUME NEW k \in KState, NEW p \in KState, NEW q, NEW o \in Owners,
         \A x \in Owners : x # o => FramesOf(p, x) <= FramesOf(k, x) /\ TokensOf(p, x) <= TokensOf(k, x),
         FramesOf(p, o) <= q[o].frames, TokensOf(p, o) <= q[o].tokens
  PROVE  Within(k, p, q)
<1> SUFFICES ASSUME NEW x \in Owners
             PROVE  /\ FramesOf(p, x) > FramesOf(k, x) => FramesOf(p, x) <= q[x].frames
                    /\ TokensOf(p, x) > TokensOf(k, x) => TokensOf(p, x) <= q[x].tokens
  BY DEF Within
<1>1. CASE x = o BY <1>1
<1>2. CASE x # o
  <2>1. FramesOf(p, x) <= FramesOf(k, x) /\ TokensOf(p, x) <= TokensOf(k, x) BY <1>2
  <2>2. FramesOf(p, x) \in Nat /\ FramesOf(k, x) \in Nat /\ TokensOf(p, x) \in Nat /\ TokensOf(k, x) \in Nat
    BY FramesNat
  <2> QED BY <2>1, <2>2
<1> QED BY <1>1, <1>2

\* What a call returns does not matter.
LEMMA WithinAlike ==
  ASSUME NEW k \in KState, NEW p \in KState, NEW p2, NEW q, Within(k, p, q), Alike(p, p2),
         q \in [Owners -> [frames : Nat, tokens : Nat]]
  PROVE  Within(k, p2, q)
<1> SUFFICES ASSUME NEW o \in Owners
             PROVE  /\ FramesOf(p2, o) > FramesOf(k, o) => FramesOf(p2, o) <= q[o].frames
                    /\ TokensOf(p2, o) > TokensOf(k, o) => TokensOf(p2, o) <= q[o].tokens
  BY DEF Within
<1>1. p2 \in KState /\ SameTokens(p.table, p2.table) BY DEF Alike, SameTokens
<1>2. FramesOf(p2, o) <= FramesOf(p, o) /\ TokensOf(p2, o) <= TokensOf(p, o) BY <1>1, SameUsage
<1>3. /\ FramesOf(p, o) > FramesOf(k, o) => FramesOf(p, o) <= q[o].frames
      /\ TokensOf(p, o) > TokensOf(k, o) => TokensOf(p, o) <= q[o].tokens
  BY DEF Within
<1>4. q[o].frames \in Nat /\ q[o].tokens \in Nat OBVIOUS
<1>5. /\ FramesOf(p2, o) \in Nat /\ TokensOf(p2, o) \in Nat
      /\ FramesOf(p, o) \in Nat /\ FramesOf(k, o) \in Nat /\ TokensOf(p, o) \in Nat /\ TokensOf(k, o) \in Nat
  BY <1>1, FramesNat
<1>6. FramesOf(p2, o) > FramesOf(k, o) => FramesOf(p2, o) <= q[o].frames BY <1>2, <1>3, <1>4, <1>5
<1>7. TokensOf(p2, o) > TokensOf(k, o) => TokensOf(p2, o) <= q[o].tokens BY <1>2, <1>3, <1>4, <1>5
<1> QED BY <1>6, <1>7

\* What every step does.
Step == Inv' /\ Within(Kernel, Kernel', quota)

\* A step that is a call: from the state it leaves to the variables.
LEMMA Called ==
  ASSUME NEW p, NEW sp, NEW c, Inv, Becomes(p), Sound(p, sp, c), spaces' = sp, cur' = c, quota' = quota,
         Within(Kernel, p, quota)
  PROVE  Step
<1>1. p \in KState /\ Kernel \in KState BY DEF Sound, Good, Paged, Inv
<1>2. Alike(p, Kernel') BY <1>1, NextKernel
<1>3. Sound(Kernel', sp, c) BY <1>2, SoundAlike
<1>4. quota \in [Owners -> [frames : Nat, tokens : Nat]] BY DEF Inv
<1>5. Within(Kernel, Kernel', quota) BY <1>1, <1>2, <1>4, WithinAlike
<1>6. Inv' BY <1>3, <1>4 DEF Inv
<1> QED BY <1>5, <1>6 DEF Step

\* A call that moves no token from one owner to another, and adds none.
LEMMA CalledLess ==
  ASSUME NEW p, NEW sp, NEW c, Inv, Becomes(p), Sound(p, sp, c), spaces' = sp, cur' = c, quota' = quota,
         \A s \in Slots : p.table[s].live => KeptTok(Kernel.table, p.table, s)
  PROVE  Step
<1>1. p \in KState /\ Kernel \in KState BY DEF Sound, Good, Paged, Inv
<1>2. Within(Kernel, p, quota) BY <1>1, WithinLess
<1> QED BY <1>2, Called

\* xas_create keeps the invariant and the quotas.
LEMMA StepCreate ==
  ASSUME Inv, NEW o \in Owners, xas_create(o)
  PROVE  Step
<1> DEFINE f == alloc_zero_table(Kernel).at
           p == NewState(Kernel)
           sp == Anew(spaces, o, f)
<1>1. /\ cur = None /\ spaces[o].state = "dead" /\ f # 0 /\ Becomes(p) /\ spaces' = sp
      /\ cur' = None /\ quota' = quota
  BY DEF xas_create, NewState, Anew
<1>2. Sound(Kernel, spaces, None) BY <1>1 DEF Inv
<1>3. Sound(p, sp, None) /\ p.table = Kernel.table BY <1>1, <1>2, SoundCreate
<1> HIDE DEF p, sp
<1>7. \A s \in Slots : p.table[s].live => KeptTok(Kernel.table, p.table, s) BY <1>3 DEF KeptTok
<1> QED BY <1>1, <1>3, <1>7, CalledLess

\* What loading an image does.
Loads(o) ==
    \E p : /\ p \in KState /\ Becomes(p) /\ spaces \in Spaces /\ spaces[o].state = "empty"
           /\ spaces' = [spaces EXCEPT ![o].state = IF p.rc = "ok" THEN "ready" ELSE "failed"]
           /\ p.rc \in {"ok", "failed"}
           /\ p.rc = "failed" => Undone(Kernel, p, spaces)

\* xload_exb keeps them, within the quota; a failed load changes nothing.
LEMMA StepLoad ==
  ASSUME Inv, NEW o \in Owners, NEW img \in Images, xload_exb(o, img)
  PROVE  Step /\ Loads(o)
<1> DEFINE p == LoadImage(Kernel, o, spaces[o].pml4, img)
           sp == [spaces EXCEPT ![o].state = IF p.rc = "ok" THEN "ready" ELSE "failed"]
<1>1. /\ cur = None /\ spaces[o].state = "empty" /\ Becomes(p) /\ spaces' = sp
      /\ cur' = None /\ quota' = quota
  BY DEF xload_exb, Root
<1>2. Sound(Kernel, spaces, None) /\ quota \in [Owners -> [frames : Nat, tokens : Nat]] BY <1>1 DEF Inv
<1>3. Kernel \in KState /\ Vacant(Kernel, spaces, o)
      /\ \A s \in LiveIn(Kernel.table) : Kernel.table[s].owner # o
  BY <1>1, <1>2, EmptySpace
<1>4. img \in Files BY SpacesAssumption
<1>5. quota[o] \in [frames : Nat, tokens : Nat] BY <1>2
<1>6. LoadedBy(Kernel, p, spaces, o, quota[o]) BY <1>3, <1>4, <1>5, Load
<1> HIDE DEF p
<1>7. Sound(p, sp, None) BY <1>1, <1>2, <1>6, SoundLoad
<1> HIDE DEF sp
<1>8. p \in KState /\ p.rc \in {"ok", "failed"} BY <1>6 DEF LoadedBy
<1>9. Within(Kernel, p, quota)
  <2>1. CASE p.rc = "failed"
    <3>1. Undone(Kernel, p, spaces) BY <1>6, <2>1 DEF LoadedBy
    <3>2. \A s \in Slots : p.table[s].live => KeptTok(Kernel.table, p.table, s)
      <4>1. LiveIn(p.table) = LiveIn(Kernel.table)
            /\ \A s \in LiveIn(Kernel.table) : p.table[s] = Kernel.table[s]
        BY <3>1 DEF Undone
      <4> QED BY <4>1 DEF LiveIn, KeptTok
    <3> QED BY <1>3, <1>8, <3>2, WithinLess
  <2>2. CASE p.rc = "ok"
    <3>1. PICK TS, VS : Held(Kernel, p, spaces, o, TS, VS) BY <1>6, <2>2 DEF LoadedBy
    <3>2. FramesOf(p, o) <= quota[o].frames /\ TokensOf(p, o) <= quota[o].tokens BY <1>6, <2>2 DEF LoadedBy
    <3>3. ASSUME NEW x \in Owners, x # o
          PROVE  FramesOf(p, x) <= FramesOf(Kernel, x) /\ TokensOf(p, x) <= TokensOf(Kernel, x)
      <4>1. ASSUME NEW s \in Slots, p.table[s].live, p.table[s].owner = x
            PROVE  Kernel.table[s].live /\ Kernel.table[s].owner = x /\ Kernel.table[s].n = p.table[s].n
        <5>1. s \in LiveIn(p.table) BY <4>1 DEF LiveIn
        <5>2. s \in LiveIn(Kernel.table) BY <3>1, <3>3, <4>1, <5>1 DEF Held
        <5>3. KeptTok(Kernel.table, p.table, s) BY <3>1, <5>2 DEF Held
        <5> QED BY <4>1, <5>3 DEF KeptTok
      <4> QED BY <1>3, <1>8, <4>1, UsageLeq
    <3> QED BY <1>3, <1>8, <3>2, <3>3, WithinOne
  <2> QED BY <1>8, <2>1, <2>2
<1>10. Step BY <1>1, <1>7, <1>9, Called
<1>11. spaces \in Spaces BY <1>2 DEF Sound
<1>12. spaces' = [spaces EXCEPT ![o].state = IF p.rc = "ok" THEN "ready" ELSE "failed"] BY <1>1 DEF sp
<1>13. Loads(o) BY <1>1, <1>6, <1>8, <1>11, <1>12 DEF Loads, LoadedBy
<1> QED BY <1>10, <1>13

\* A space goes away.
LEMMA StepGone ==
  ASSUME Inv, NEW o \in Owners, cur = None, NEW pl, Good(Kernel, spaces, pl), o \in Live(spaces),
         NEW k, Shrunk(Kernel, k, spaces, pl, o), OwnedSlots(k, o) = {},
         Becomes(xas_destroy(k, spaces[o].pml4)), spaces' = [spaces EXCEPT ![o] = NoSpace],
         quota' = quota, cur' = None
  PROVE  Step /\ Freed(Kernel, xas_destroy(k, spaces[o].pml4), spaces, o, pl)
<1> DEFINE p == xas_destroy(k, spaces[o].pml4)
           sp == [spaces EXCEPT ![o] = NoSpace]
<1>1. Sound(Kernel, spaces, None) BY DEF Inv
<1>2. spaces \in Spaces /\ Unshared(spaces) BY <1>1 DEF Sound
<1>3. Freed(Kernel, p, spaces, o, pl) BY <1>2, Gone
<1> HIDE DEF p
<1>4. Sound(p, sp, None) BY <1>1, <1>3, SoundGone
<1>5. \A s \in Slots : p.table[s].live => KeptTok(Kernel.table, p.table, s) BY <1>3 DEF Freed
<1>6. spaces' = sp OBVIOUS
<1>7. Becomes(p) BY DEF p
<1> HIDE DEF sp
<1>8. Step BY <1>4, <1>5, <1>6, <1>7, CalledLess
<1> QED BY <1>3, <1>8 DEF p

\* What an action that ends a space does.
Ends(o) ==
    \E pl, p : /\ Good(Kernel, spaces, pl) /\ Becomes(p) /\ Freed(Kernel, p, spaces, o, pl)
               /\ p \in KState /\ spaces \in Spaces /\ o \in Live(spaces)
               /\ spaces' = [spaces EXCEPT ![o] = NoSpace]

\* Destroying a space whose load failed.
LEMMA StepDiscard ==
  ASSUME Inv, NEW o \in Owners, Discard(o)
  PROVE  Step /\ Ends(o)
<1>1. /\ cur = None /\ spaces[o].state = "failed" /\ Becomes(xas_destroy(Kernel, spaces[o].pml4))
      /\ spaces' = [spaces EXCEPT ![o] = NoSpace] /\ cur' = None /\ quota' = quota
  BY DEF Discard, Root
<1>2. Sound(Kernel, spaces, None) BY <1>1 DEF Inv
<1>3. o \in Live(spaces) /\ \A s \in LiveIn(Kernel.table) : Kernel.table[s].owner # o
  BY <1>1, <1>2, EmptySpace
<1>4. PICK pl : Good(Kernel, spaces, pl) BY <1>2 DEF Sound
<1>5. Shrunk(Kernel, Kernel, spaces, pl, o) BY <1>4, ShrunkNone
<1>6. OwnedSlots(Kernel, o) = {} BY <1>3 DEF OwnedSlots, LiveIn
<1>7. Step /\ Freed(Kernel, xas_destroy(Kernel, spaces[o].pml4), spaces, o, pl)
  BY <1>1, <1>3, <1>4, <1>5, <1>6, StepGone
<1>8. xas_destroy(Kernel, spaces[o].pml4) \in KState BY <1>7 DEF Freed, Good, Paged
<1>9. spaces \in Spaces BY <1>2 DEF Sound
<1> QED BY <1>1, <1>3, <1>4, <1>7, <1>8, <1>9 DEF Ends

\* xproc_reap.
LEMMA StepReap ==
  ASSUME Inv, NEW o \in Owners, xproc_reap(o)
  PROVE  Step /\ Ends(o)
<1> DEFINE k == ReapTokens(Kernel, o)
<1>1. /\ cur = None /\ spaces[o].state \in {"ready", "ended"} /\ Becomes(xas_destroy(k, spaces[o].pml4))
      /\ spaces' = [spaces EXCEPT ![o] = NoSpace] /\ cur' = None /\ quota' = quota
  BY DEF xproc_reap, Root
<1>2. Sound(Kernel, spaces, None) BY <1>1 DEF Inv
<1>3. o \in Live(spaces) BY <1>1 DEF Live
<1>4. PICK pl : Good(Kernel, spaces, pl) BY <1>2 DEF Sound
<1>5. Shrunk(Kernel, k, spaces, pl, o) /\ OwnedSlots(k, o) = {} BY <1>4, ReapAll
<1> HIDE DEF k
<1>7. Step /\ Freed(Kernel, xas_destroy(k, spaces[o].pml4), spaces, o, pl)
  BY <1>1, <1>3, <1>4, <1>5, StepGone
<1>8. xas_destroy(k, spaces[o].pml4) \in KState BY <1>7 DEF Freed, Good, Paged
<1>9. spaces \in Spaces BY <1>2 DEF Sound
<1> QED BY <1>1, <1>3, <1>4, <1>7, <1>8, <1>9 DEF Ends

\* The kernel state does not change.
LEMMA SameKernel ==
  ASSUME Inv, UNCHANGED <<bits, mem, table, hint, g_maps, tlb>>
  PROVE  Kernel' = Kernel /\ Within(Kernel, Kernel', quota)
<1>1. Kernel' = Kernel BY DEF Kernel
<1>2. Kernel \in KState BY DEF Inv, Sound, Good, Paged
<1>3. \A s \in Slots : Kernel.table[s].live => KeptTok(Kernel.table, Kernel.table, s) BY DEF KeptTok
<1>4. Within(Kernel, Kernel, quota) BY <1>2, <1>3, WithinLess
<1> QED BY <1>1, <1>4

\* xproc_set_quota.
LEMMA StepQuota ==
  ASSUME Inv, NEW o \in Owners, NEW q \in Quotas, xproc_set_quota(o, q)
  PROVE  Step
<1>1. Kernel' = Kernel /\ Within(Kernel, Kernel', quota) BY SameKernel DEF xproc_set_quota
<1>2. spaces' = spaces /\ cur' = cur /\ quota' = [quota EXCEPT ![o] = q] BY DEF xproc_set_quota
<1>3. q \in [frames : Nat, tokens : Nat] BY SpacesAssumption
<1>4. Sound(Kernel, spaces, cur) /\ quota \in [Owners -> [frames : Nat, tokens : Nat]] BY DEF Inv
<1>5. quota' \in [Owners -> [frames : Nat, tokens : Nat]] BY <1>2, <1>3, <1>4
<1>6. Sound(Kernel', spaces', cur') BY <1>1, <1>2, <1>4
<1>7. Inv' BY <1>5, <1>6 DEF Inv
<1> QED BY <1>1, <1>7 DEF Step

\* A step that changes at most what the TLB holds.
LEMMA TlbOnly ==
  ASSUME Inv, UNCHANGED <<bits, mem, table, hint, g_maps>>, tlb' \subseteq [va : Nat, pte : Ptes]
  PROVE  /\ Kernel' \in KState /\ Kernel'.bits = Kernel.bits /\ Kernel'.mem = Kernel.mem
         /\ Kernel'.table = Kernel.table /\ Kernel'.g_maps = Kernel.g_maps /\ Kernel'.tlb = tlb'
         /\ Within(Kernel, Kernel', quota)
<1>1. /\ Kernel'.bits = Kernel.bits /\ Kernel'.mem = Kernel.mem
      /\ Kernel'.table = Kernel.table /\ Kernel'.g_maps = Kernel.g_maps /\ Kernel'.tlb = tlb'
  BY KernelIs
<1>2. Kernel \in KState BY DEF Inv, Sound, Good, Paged
<1>3. /\ bits \in SUBSET RamFrames /\ mem \in [Frames -> [0 .. (Fan - 1) -> Ptes]]
      /\ table \in [Slots -> Entries] /\ hint \in Slots /\ g_maps \in [1 .. NRecs -> Recs]
  BY <1>2, KernelIs DEF KState
<1>4. NoRec.tok \in [slot : Slots, gen : Nat] /\ "ok" \in Codes
  BY SpacesAssumption DEF NoRec, Slots, Codes
<1>5. Kernel' \in KState BY <1>3, <1>4 DEF Kernel, KState
<1> DEFINE p == Kernel'
<1>6. \A s \in Slots : p.table[s].live => KeptTok(Kernel.table, p.table, s) BY <1>1 DEF KeptTok
<1>7. Within(Kernel, p, quota) BY <1>2, <1>5, <1>6, WithinLess
<1> QED BY <1>1, <1>5, <1>7

\* xproc_run_ctx: loading CR3 leaves an empty TLB.
LEMMA StepRun ==
  ASSUME Inv, NEW o \in Owners, xproc_run_ctx(o)
  PROVE  Step
<1>1. /\ cur = None /\ spaces[o].state = "ready" /\ cur' = o /\ tlb' = {}
      /\ UNCHANGED <<bits, mem, table, hint, g_maps>> /\ spaces' = spaces /\ quota' = quota
  BY DEF xproc_run_ctx
<1>2. Sound(Kernel, spaces, None) /\ quota \in [Owners -> [frames : Nat, tokens : Nat]] BY <1>1 DEF Inv
<1>3. /\ Kernel' \in KState /\ Kernel'.bits = Kernel.bits /\ Kernel'.mem = Kernel.mem
      /\ Kernel'.table = Kernel.table /\ Kernel'.g_maps = Kernel.g_maps /\ Kernel'.tlb = tlb'
      /\ Within(Kernel, Kernel', quota)
  BY <1>1, TlbOnly
<1> DEFINE p == Kernel'
<1>4. p.tlb = {} BY <1>1, <1>3
<1>5. Sound(p, spaces, o) BY <1>1, <1>2, <1>3, <1>4, SoundRun
<1>6. Inv' BY <1>1, <1>2, <1>5 DEF Inv
<1> QED BY <1>3, <1>6 DEF Step

\* Leaving a program: the same.
LEMMA StepLeave ==
  ASSUME Inv, NEW o \in Owners, NEW ended \in BOOLEAN, Leave(o, ended)
  PROVE  Step /\ Live(spaces') = Live(spaces)
<1> DEFINE st == IF ended THEN "ended" ELSE "ready"
           sp == [spaces EXCEPT ![o].state = st]
<1>1. /\ cur = o /\ cur' = None /\ tlb' = {}
      /\ spaces' = [spaces EXCEPT ![o].state = IF ended THEN "ended" ELSE @]
      /\ UNCHANGED <<bits, mem, table, hint, g_maps>> /\ quota' = quota
  BY DEF Leave
<1>2. Sound(Kernel, spaces, o) /\ quota \in [Owners -> [frames : Nat, tokens : Nat]] BY <1>1 DEF Inv
<1>3. spaces[o].state = "ready" /\ o \in Live(spaces) BY <1>2, Running
<1>4. spaces' = sp BY <1>1, <1>3
<1>5. st \in {"ready", "ended"} OBVIOUS
<1>6. sp = [spaces EXCEPT ![o].state = st] OBVIOUS
<1>7. /\ Kernel' \in KState /\ Kernel'.bits = Kernel.bits /\ Kernel'.mem = Kernel.mem
      /\ Kernel'.table = Kernel.table /\ Kernel'.g_maps = Kernel.g_maps /\ Kernel'.tlb = tlb'
      /\ Within(Kernel, Kernel', quota)
  BY <1>1, TlbOnly
<1> DEFINE p == Kernel'
<1>8. p.tlb = {} BY <1>1, <1>7
<1> HIDE DEF st, sp
<1>9. Sound(p, sp, None) BY <1>2, <1>5, <1>6, <1>7, <1>8, SoundLeave
<1>10. Inv' BY <1>1, <1>2, <1>4, <1>9 DEF Inv
<1>11. spaces \in Spaces /\ Unshared(spaces) BY <1>2 DEF Sound
<1>12. st \in States /\ st # "dead" BY <1>5 DEF States
<1>13. Restated(spaces, sp, o, st) BY <1>3, <1>6, <1>11, <1>12, StateOnly
<1>14. Live(spaces') = Live(spaces) BY <1>4, <1>13 DEF Restated
<1> QED BY <1>7, <1>10, <1>14 DEF Step

\* sys_alloc, within the quota.
LEMMA StepAlloc ==
  ASSUME Inv, NEW o \in Owners, NEW n \in Sizes, NEW rights \in RightSets, sys_alloc(o, n, rights)
  PROVE  Step
<1> DEFINE p == xtok_alloc_ram(Kernel, o, n, rights)
<1>1. /\ cur = o /\ n > 0 /\ WithinQuota(Kernel, o, n) /\ Becomes(p)
      /\ spaces' = spaces /\ quota' = quota /\ cur' = o
  BY DEF sys_alloc
<1>2. Sound(Kernel, spaces, o) /\ quota \in [Owners -> [frames : Nat, tokens : Nat]] BY <1>1 DEF Inv
<1>3. n \in Nat /\ rights \in SUBSET UserRights BY SpacesAssumption
<1>4. Sound(p, spaces, o) BY <1>1, <1>2, <1>3, SoundAlloc
<1>5. PICK pl : Good(Kernel, spaces, pl) BY <1>2 DEF Sound
<1>6. Kernel \in KState BY <1>5 DEF Good, Paged
<1>7. Allotted(Kernel, p, spaces, pl, o, n) BY <1>1, <1>3, <1>5, AllocRam
<1>8. p \in KState BY <1>4 DEF Sound, Good, Paged
<1> HIDE DEF p
<1>9. FramesOf(p, o) <= FramesOf(Kernel, o) + n /\ TokensOf(p, o) <= TokensOf(Kernel, o) + 1
  BY <1>3, <1>6, <1>7, AllotUsage
<1>10. ASSUME NEW x \in Owners, x # o
       PROVE  FramesOf(p, x) <= FramesOf(Kernel, x) /\ TokensOf(p, x) <= TokensOf(Kernel, x)
  <2>1. ASSUME NEW s \in Slots, p.table[s].live, p.table[s].owner = x
        PROVE  Kernel.table[s].live /\ Kernel.table[s].owner = x /\ Kernel.table[s].n = p.table[s].n
    BY <1>7, <1>10, <2>1 DEF Allotted, ElseSame
  <2> QED BY <1>6, <1>8, <2>1, UsageLeq
<1>11. FramesOf(p, o) <= quota[o].frames /\ TokensOf(p, o) <= quota[o].tokens
  <2>1. /\ TokensOf(Kernel, o) < quota[o].tokens /\ FramesOf(Kernel, o) <= quota[o].frames - n
    BY <1>1 DEF WithinQuota, quota_of
  <2>2. quota[o].frames \in Nat /\ quota[o].tokens \in Nat BY <1>2
  <2>3. /\ FramesOf(p, o) \in Nat /\ TokensOf(p, o) \in Nat
        /\ FramesOf(Kernel, o) \in Nat /\ TokensOf(Kernel, o) \in Nat
    BY <1>6, <1>8, FramesNat
  <2>4. FramesOf(p, o) <= quota[o].frames BY <1>3, <1>9, <2>1, <2>2, <2>3
  <2>5. TokensOf(p, o) <= quota[o].tokens BY <1>9, <2>1, <2>2, <2>3
  <2> QED BY <2>4, <2>5
<1>12. Within(Kernel, p, quota) BY <1>6, <1>8, <1>10, <1>11, WithinOne
<1> QED BY <1>1, <1>4, <1>12, Called

\* sys_map.
LEMMA StepMap ==
  ASSUME Inv, NEW o \in Owners, NEW va \in Vas, NEW tok \in Tokens, NEW perms, sys_map(o, va, tok, perms)
  PROVE  Step
<1> DEFINE p == xas_map(Kernel, spaces[o].pml4, o, va, tok, perms)
<1>1. cur = o /\ Becomes(p) /\ spaces' = spaces /\ quota' = quota /\ cur' = o BY DEF sys_map, Root
<1>2. Sound(Kernel, spaces, o) BY <1>1 DEF Inv
<1>3. va \in Nat /\ tok \in [slot : Slots, gen : Nat] BY SpacesAssumption DEF Tokens
<1>4. Sound(p, spaces, o) /\ SameTokens(Kernel.table, p.table) BY <1>2, <1>3, SoundMap
<1> HIDE DEF p
<1>5. \A s \in Slots : p.table[s].live => KeptTok(Kernel.table, p.table, s)
  BY <1>4 DEF SameTokens, KeptTok
<1> QED BY <1>1, <1>4, <1>5, CalledLess

\* sys_unmap.
LEMMA StepUnmap ==
  ASSUME Inv, NEW o \in Owners, NEW va, sys_unmap(o, va)
  PROVE  Step
<1> DEFINE p == xas_unmap(Kernel, spaces[o].pml4, va)
<1>1. cur = o /\ Becomes(p) /\ spaces' = spaces /\ quota' = quota /\ cur' = o BY DEF sys_unmap, Root
<1>2. Sound(Kernel, spaces, o) BY <1>1 DEF Inv
<1>4. Sound(p, spaces, o) /\ SameTokens(Kernel.table, p.table) BY <1>2, SoundUnmap
<1> HIDE DEF p
<1>5. \A s \in Slots : p.table[s].live => KeptTok(Kernel.table, p.table, s)
  BY <1>4 DEF SameTokens, KeptTok
<1> QED BY <1>1, <1>4, <1>5, CalledLess

\* sys_free.
LEMMA StepFree ==
  ASSUME Inv, NEW o \in Owners, NEW tok \in Tokens, sys_free(o, tok)
  PROVE  Step
<1> DEFINE p == xtok_release_owned(Kernel, tok, o)
<1>1. cur = o /\ Becomes(p) /\ spaces' = spaces /\ quota' = quota /\ cur' = o BY DEF sys_free
<1>2. Sound(Kernel, spaces, o) BY <1>1 DEF Inv
<1>3. tok \in [slot : Slots, gen : Nat] BY SpacesAssumption DEF Tokens
<1>4. Sound(p, spaces, o) /\ \A s \in Slots : p.table[s].live => KeptTok(Kernel.table, p.table, s)
  BY <1>2, <1>3, SoundFree
<1> HIDE DEF p
<1> QED BY <1>1, <1>4, CalledLess

\* The tables translate a page to what they show of it.
LEMMA Translated ==
  ASSUME NEW r, r # 0, NEW va
  PROVE  Translation(r, va) = Shown(mem, r, va)
<1>1. walk_pte(Kernel, r, va) = T0(Kernel.mem, r, va) BY WalkPte
<1>2. walk_pte(Kernel, r, va) = T0(mem, r, va) BY <1>1, KernelIs
<1> QED BY <1>2 DEF Translation, Shown

\* The CPU keeps a translation that the tables show.
LEMMA StepTouch ==
  ASSUME Inv, NEW o \in Owners, NEW va \in Vas, Touch(o, va)
  PROVE  Step
<1> DEFINE r == spaces[o].pml4
           e == Shown(mem, r, va)
<1>1. /\ cur = o /\ va >= UserBase /\ va < UserTop /\ Translation(r, va) # Absent
      /\ tlb' = tlb \cup {[va |-> va, pte |-> Translation(r, va)]}
      /\ UNCHANGED <<bits, mem, table, hint, g_maps>> /\ spaces' = spaces /\ quota' = quota /\ cur' = o
  BY DEF Touch, Root
<1>2. Sound(Kernel, spaces, o) /\ quota \in [Owners -> [frames : Nat, tokens : Nat]] BY <1>1 DEF Inv
<1>3. PICK pl : Good(Kernel, spaces, pl) BY <1>2 DEF Sound
<1>4. va \in Nat BY SpacesAssumption
<1>5. va \in UserVa /\ va \in Nat
  <2>1. Fan \in Nat /\ KernelHalf \in Nat BY SpacesAssumption
  <2>2. UserBase \in Nat /\ UserTop \in Nat BY FanFacts, <2>1 DEF UserBase, UserTop, Reach
  <2> QED BY <1>1, <1>4, <2>2 DEF UserVa
<1>6. r \in Roots(spaces) BY <1>2, Running
<1>7. e \in Ptes /\ r # 0 BY <1>3, <1>5, <1>6, ShownType, KernelIs
<1>8. Translation(r, va) = e BY <1>7, Translated
<1>9. tlb \subseteq [va : Nat, pte : Ptes] BY <1>3, KernelIs DEF Good, Paged, KState
<1> HIDE DEF e, r
<1>10. tlb' \subseteq [va : Nat, pte : Ptes] BY <1>1, <1>5, <1>7, <1>8, <1>9
<1>11. /\ Kernel' \in KState /\ Kernel'.bits = Kernel.bits /\ Kernel'.mem = Kernel.mem
       /\ Kernel'.table = Kernel.table /\ Kernel'.g_maps = Kernel.g_maps /\ Kernel'.tlb = tlb'
       /\ Within(Kernel, Kernel', quota)
  BY <1>1, <1>10, TlbOnly
<1> DEFINE p == Kernel'
<1>12. p.tlb = Kernel.tlb \cup {[va |-> va, pte |-> Shown(Kernel.mem, spaces[o].pml4, va)]}
  BY <1>1, <1>8, <1>11, KernelIs DEF e, r
<1>13. Shown(Kernel.mem, spaces[o].pml4, va) # Absent BY <1>1, <1>8, KernelIs DEF e, r
<1>14. Sound(p, spaces, o) BY <1>2, <1>5, <1>11, <1>12, <1>13, SoundTouch
<1>15. Inv' BY <1>1, <1>2, <1>14 DEF Inv
<1> QED BY <1>11, <1>15 DEF Step

\* No space goes away and no load fails.
Quiet == \A q \in Owners : /\ q \in Live(spaces) => spaces'[q].state # "dead"
                           /\ spaces[q].state = "empty" => spaces'[q].state # "failed"

\* What becomes of the spaces in a step.
Moves == Quiet \/ \E o \in Owners : Ends(o) \/ Loads(o)

\* A step that changes no space ends none and fails no load.
LEMMA QuietSame ==
  ASSUME spaces' = spaces
  PROVE  Moves
BY DEF Moves, Quiet, Live

\* Every step of the kernel, and what it does when a space ends or fails.
LEMMA NextKernelStep ==
  ASSUME Inv, NEW o \in Owners, KernelStep(o)
  PROVE  Step /\ Moves
<1>1. CASE xas_create(o)
  <2>1. Step BY <1>1, StepCreate
  <2>2. spaces \in Spaces BY DEF Inv, Sound
  <2>3. /\ spaces[o].state = "dead"
        /\ \E f : spaces' = [spaces EXCEPT ![o] = [state |-> "empty", pml4 |-> f]]
    BY <1>1 DEF xas_create
  <2>4. Quiet BY <2>2, <2>3 DEF Quiet, Live, Spaces
  <2> QED BY <2>1, <2>4 DEF Moves
<1>2. ASSUME NEW img \in Images, xload_exb(o, img) PROVE Step /\ Moves
  BY <1>2, StepLoad DEF Moves
<1>3. CASE Discard(o) BY <1>3, StepDiscard DEF Moves
<1>4. ASSUME NEW q \in Quotas, xproc_set_quota(o, q) PROVE Step /\ Moves
  <2>1. spaces' = spaces BY <1>4 DEF xproc_set_quota
  <2> QED BY <1>4, <2>1, StepQuota, QuietSame
<1>5. CASE xproc_run_ctx(o)
  <2>1. spaces' = spaces BY <1>5 DEF xproc_run_ctx
  <2> QED BY <1>5, <2>1, StepRun, QuietSame
<1>6. CASE xproc_reap(o) BY <1>6, StepReap DEF Moves
<1> QED BY <1>1, <1>2, <1>3, <1>4, <1>5, <1>6 DEF KernelStep

\* Every step of a program; none ends or fails a space.
LEMMA NextProgramStep ==
  ASSUME Inv, NEW o \in Owners, ProgramStep(o)
  PROVE  Step /\ Moves
<1>1. ASSUME NEW n \in Sizes, NEW r \in RightSets, sys_alloc(o, n, r) PROVE Step /\ Moves
  <2>1. spaces' = spaces BY <1>1 DEF sys_alloc
  <2> QED BY <1>1, <2>1, StepAlloc, QuietSame
<1>2. ASSUME NEW va \in Vas, NEW tok \in Tokens, NEW p \in PermSets, sys_map(o, va, tok, p)
      PROVE  Step /\ Moves
  <2>1. spaces' = spaces BY <1>2 DEF sys_map
  <2> QED BY <1>2, <2>1, StepMap, QuietSame
<1>3. ASSUME NEW va \in Vas, sys_unmap(o, va) PROVE Step /\ Moves
  <2>1. spaces' = spaces BY <1>3 DEF sys_unmap
  <2> QED BY <1>3, <2>1, StepUnmap, QuietSame
<1>4. ASSUME NEW tok \in Tokens, sys_free(o, tok) PROVE Step /\ Moves
  <2>1. spaces' = spaces BY <1>4 DEF sys_free
  <2> QED BY <1>4, <2>1, StepFree, QuietSame
<1>5. ASSUME NEW va \in Vas, Touch(o, va) PROVE Step /\ Moves
  <2>1. spaces' = spaces BY <1>5 DEF Touch
  <2> QED BY <1>5, <2>1, StepTouch, QuietSame
<1>6. ASSUME NEW ended \in BOOLEAN, Leave(o, ended) PROVE Step /\ Moves
  <2>1. Step /\ Live(spaces') = Live(spaces) BY <1>6, StepLeave
  <2>2. cur = o /\ spaces' = [spaces EXCEPT ![o].state = IF ended THEN "ended" ELSE @] BY <1>6 DEF Leave
  <2>3. spaces \in Spaces /\ Sound(Kernel, spaces, o) BY <2>2 DEF Inv, Sound
  <2>4. spaces[o].state = "ready" BY <2>3, Running
  <2>5. Quiet BY <2>1, <2>2, <2>3, <2>4 DEF Quiet, Live, Spaces
  <2> QED BY <2>1, <2>5 DEF Moves
<1> QED BY <1>1, <1>2, <1>3, <1>4, <1>5, <1>6 DEF ProgramStep

\* Every step keeps the invariant, stays within the quotas and treats the
\* spaces as Moves says.
LEMMA NextInv == Inv /\ [Next]_vars => Step /\ Moves
<1> SUFFICES ASSUME Inv, [Next]_vars PROVE Step /\ Moves OBVIOUS
<1>1. CASE Next
  <2>1. PICK o \in Owners : KernelStep(o) \/ ProgramStep(o) BY <1>1 DEF Next
  <2> QED BY <2>1, NextKernelStep, NextProgramStep
<1>2. CASE UNCHANGED vars
  <2>1. UNCHANGED <<bits, mem, table, hint, g_maps, tlb>> /\ spaces' = spaces /\ cur' = cur /\ quota' = quota
    BY <1>2 DEF vars
  <2>2. Kernel' = Kernel /\ Within(Kernel, Kernel', quota) BY <2>1, SameKernel
  <2>3. Inv' BY <2>1, <2>2 DEF Inv
  <2> QED BY <2>1, <2>2, <2>3, QuietSame DEF Step
<1> QED BY <1>1, <1>2

\* The tables, the ledger, the mapping records and the TLB agree in every state.
THEOREM InvHolds == Spec => []Inv
<1>1. Inv /\ [Next]_vars => Inv' BY NextInv DEF Step
<1> QED BY InitInv, <1>1, PTL DEF Spec

\* QuotaHeld, for every set of programs, quotas and images: no step takes an
\* owner over a quota, by sys_alloc's comparisons or by the loader's.
THEOREM QuotaHeldAlways == Spec => QuotaHeld
<1>1. Inv /\ [Next]_vars => Within(Kernel, Kernel', quota) BY NextInv DEF Step
<1>2. Within(Kernel, Kernel', quota) =>
        \A o \in Owners :
          LET more == Kernel' IN
          /\ FramesOf(more, o) > FramesOf(Kernel, o) => FramesOf(more, o) <= quota[o].frames
          /\ TokensOf(more, o) > TokensOf(Kernel, o) => TokensOf(more, o) <= quota[o].tokens
  BY DEF Within
<1> QED BY <1>1, <1>2, InvHolds, PTL DEF Spec, QuotaHeld

\* FramesAccounted follows from the places of the tables: the trees of the live
\* spaces are the placed tables, a table has one root, and roots are not shared.
LEMMA InvFrames == Inv => FramesAccounted
<1> SUFFICES ASSUME Inv PROVE FramesAccounted OBVIOUS
<1>1. PICK pl : Good(Kernel, spaces, pl) BY DEF Inv, Sound
<1>2. Unshared(spaces) BY DEF Inv, Sound
<1> DEFINE tokens == UNION {TokenFrames(s) : s \in LiveSlots}
           tables == UNION {Tree(Kernel, Root(o)) : o \in LiveSpaces}
<1>3. /\ Kernel \in KState /\ Forest(Kernel.mem, pl, Roots(spaces)) /\ Parted(bits, table, DOMAIN pl)
      /\ Ledger(table)
  BY <1>1, KernelIs DEF Good, Paged
<1>4. LiveSpaces = Live(spaces) /\ LiveSlots = LiveIn(table) BY DEF LiveSpaces, Live, LiveSlots, LiveIn
<1>5. \A s : TokenFrames(s) = FramesIn(table, s) BY DEF TokenFrames, FramesIn
<1>6. tokens = Taken(table) BY <1>4, <1>5 DEF Taken
<1>7. \A o \in LiveSpaces : Root(o) \in Roots(spaces) BY <1>4 DEF Roots, Root
<1>8. \A o \in LiveSpaces : Tree(Kernel, Root(o)) = TreeIn(pl, Root(o)) BY <1>3, <1>7, TreeFrames
<1>9. \A f \in DOMAIN pl : pl[f].root \in Roots(spaces) BY <1>3 DEF Forest, Tops
<1>10. tables = DOMAIN pl
  <2>1. ASSUME NEW f \in DOMAIN pl PROVE f \in tables
    <3>1. PICK o \in LiveSpaces : pl[f].root = Root(o) BY <1>4, <1>9 DEF Roots, Root
    <3>2. f \in TreeIn(pl, Root(o)) BY <3>1 DEF TreeIn
    <3> QED BY <1>8, <3>2
  <2>2. ASSUME NEW f \in tables PROVE f \in DOMAIN pl BY <1>8 DEF TreeIn
  <2> QED BY <2>1, <2>2
<1>11. \A s, t \in LiveSlots : s # t => TokenFrames(s) \cap TokenFrames(t) = {}
  BY <1>3, <1>4, <1>5 DEF Ledger
<1>12. ASSUME NEW o \in LiveSpaces, NEW p \in LiveSpaces, o # p
       PROVE  Tree(Kernel, Root(o)) \cap Tree(Kernel, Root(p)) = {}
  <2>1. Root(o) # Root(p) BY <1>2, <1>4, <1>12 DEF Unshared, Root
  <2> QED BY <1>8, <2>1 DEF TreeIn
<1> HIDE DEF tokens, tables
<1>13. /\ bits \cup tokens \cup tables = RamFrames
       /\ bits \cap tokens = {} /\ bits \cap tables = {} /\ tokens \cap tables = {}
  BY <1>3, <1>6, <1>10 DEF Parted
<1> QED BY <1>11, <1>12, <1>13 DEF FramesAccounted, tokens, tables

\* FramesAccounted in every state: no frame is lost, and none has two uses, for
\* every amount of RAM and number of owners, whatever loads, maps and reaps fail.
THEOREM FramesAccountedAlways == Spec => []FramesAccounted
BY InvHolds, InvFrames, PTL

\* A live space's PML4 is a root, and not frame 0.
LEMMA LiveRoot ==
  ASSUME Inv, NEW o \in LiveSpaces
  PROVE  Root(o) \in Roots(spaces) /\ Root(o) # 0 /\ o \in Live(spaces)
<1>1. PICK pl : Good(Kernel, spaces, pl) BY DEF Inv, Sound
<1>2. o \in Live(spaces) /\ Root(o) \in Roots(spaces) BY DEF LiveSpaces, Live, Roots, Root
<1>3. Roots(spaces) \subseteq RamFrames BY <1>1 DEF Good, Paged, Forest, Tops
<1>4. 0 \notin RamFrames BY SpacesAssumption
<1> QED BY <1>2, <1>3, <1>4

\* The invariant contains the agreement of tables, records and ledger.
LEMMA InvRecords == Inv => TablesMatchRecords
<1> SUFFICES ASSUME Inv PROVE TablesMatchRecords OBVIOUS
<1>1. PICK pl : Good(Kernel, spaces, pl) BY DEF Inv, Sound
<1>2. Unshared(spaces) BY DEF Inv, Sound
<1>3. /\ Records(g_maps, table, mem, spaces) /\ Pins(g_maps, table) /\ g_maps \in [1 .. NRecs -> Recs]
  BY <1>1, KernelIs DEF Good, Paged, KState
<1>4. LiveRecs = {i \in 1 .. NRecs : g_maps[i].live} BY <1>3 DEF LiveRecs
<1>5. ASSUME NEW i \in LiveRecs PROVE i \in 1 .. NRecs /\ g_maps[i].live /\ RecOk(g_maps[i], table, mem, spaces)
  BY <1>3, <1>4 DEF Records
<1>6. ASSUME NEW o \in LiveSpaces, NEW va \in UserBase .. (UserTop - 1),
             NEW e, e = Translation(Root(o), va),
             NEW over, over = {i \in LiveRecs : /\ g_maps[i].as_pml4 = Root(o)
                                                /\ va \in Span(g_maps[i].virt, g_maps[i].pages)}
      PROVE  /\ Cardinality(over) = (IF e = Absent THEN 0 ELSE 1)
             /\ \A i \in over :
                  LET t == table[g_maps[i].tok.slot] IN
                  /\ e.phys = t.phys + (va - g_maps[i].virt)
                  /\ t.owner = o
                  /\ "MAP" \in t.rights
                  /\ e.write => "WRITE" \in t.rights /\ e.nx
                  /\ ~e.nx => "EXECUTE" \in t.rights
  <2>1. Root(o) \in Roots(spaces) /\ Root(o) # 0 /\ o \in Live(spaces) BY LiveRoot
  <2>2. e = Shown(mem, Root(o), va) BY <1>6, <2>1, Translated
  <2>3. va \in UserVa BY DEF UserVa
  <2>4. ASSUME NEW i \in over
        PROVE  /\ i \in 1 .. NRecs /\ g_maps[i].live /\ g_maps[i].as_pml4 = Root(o)
               /\ va \in RecSpan(g_maps[i]) /\ RecOk(g_maps[i], table, mem, spaces)
    BY <1>5, <1>6 DEF RecSpan
  <2>5. ASSUME NEW i \in over
        PROVE  PageOk(e, table[g_maps[i].tok.slot], va - g_maps[i].virt)
    BY <2>2, <2>4 DEF RecOk, RecSpan
  <2>6. ASSUME NEW i \in over
        PROVE  table[g_maps[i].tok.slot].owner = o /\ "MAP" \in table[g_maps[i].tok.slot].rights
    <3> DEFINE c == g_maps[i]
    <3>1. /\ c.owner \in Live(spaces) /\ c.as_pml4 = spaces[c.owner].pml4 /\ c.as_pml4 = spaces[o].pml4
          /\ table[c.tok.slot].owner = c.owner /\ "MAP" \in table[c.tok.slot].rights
      BY <2>4 DEF RecOk, Root
    <3>2. c.owner = o BY <1>2, <2>1, <3>1 DEF Unshared
    <3> QED BY <3>1, <3>2
  <2>7. CASE e = Absent
    <3>1. over = {} BY <2>5, <2>7 DEF PageOk
    <3> QED BY <2>7, <3>1, FS_EmptySet
  <2>8. CASE e # Absent
    <3>1. PICK i \in 1 .. NRecs : g_maps[i].live /\ g_maps[i].as_pml4 = Root(o) /\ va \in RecSpan(g_maps[i])
      BY <1>3, <2>1, <2>2, <2>3, <2>8 DEF Records
    <3>2. i \in over BY <1>4, <1>6, <3>1 DEF RecSpan
    <3>3. \A j \in over : j = i
      <4> SUFFICES ASSUME NEW j \in over, j # i PROVE FALSE OBVIOUS
      <4>1. RecSpan(g_maps[i]) \cap RecSpan(g_maps[j]) = {} BY <1>3, <2>4, <3>1 DEF Records
      <4> QED BY <2>4, <3>1, <4>1
    <3>4. over = {i} BY <3>2, <3>3
    <3>5. Cardinality(over) = 1 BY <3>4, FS_Singleton
    <3> QED BY <2>5, <2>6, <2>8, <3>5 DEF PageOk
  <2> QED BY <2>7, <2>8
<1>7. \A i \in LiveRecs : LookupLive(Kernel, g_maps[i].tok)
  BY <1>5, KernelIs DEF RecOk, LookupLive
<1>8. ASSUME NEW s \in Slots
      PROVE  table[s].map_count = Cardinality({i \in LiveRecs : g_maps[i].tok.slot = s})
  <2>1. {i \in LiveRecs : g_maps[i].tok.slot = s} = PinsOf(g_maps, s) BY <1>4 DEF PinsOf
  <2> QED BY <1>3, <2>1 DEF Pins
<1> QED BY <1>6, <1>7, <1>8 DEF TablesMatchRecords

\* TablesMatchRecords in every state: what a program can reach is what the
\* records say it mapped, with the rights of a live token of its own.
THEOREM TablesMatchRecordsAlways == Spec => []TablesMatchRecords
BY InvHolds, InvRecords, PTL

\* The invariant contains the freshness of the TLB.
LEMMA InvFresh == Inv => NoStaleTranslation
<1> SUFFICES ASSUME Inv PROVE NoStaleTranslation OBVIOUS
<1>1. cur \in Owners \cup {None} /\ (cur = None => tlb = {}) BY KernelIs DEF Inv, Sound
<1>2. ASSUME NEW t \in tlb PROVE Translation(Root(cur), t.va) = t.pte
  <2>1. cur \in Owners /\ cur # None BY <1>1
  <2>2. Sound(Kernel, spaces, cur) BY DEF Inv
  <2>3. cur \in Live(spaces) /\ Fresh(Kernel, spaces[cur].pml4) BY <2>1, <2>2, Running
  <2>4. Root(cur) # 0
    <3>1. cur \in LiveSpaces BY <2>3 DEF Live, LiveSpaces
    <3> QED BY <3>1, LiveRoot
  <2>5. Shown(mem, Root(cur), t.va) = t.pte BY <2>3, KernelIs DEF Fresh, Root
  <2> QED BY <2>4, <2>5, Translated
<1> QED BY <1>1, <1>2 DEF NoStaleTranslation

\* NoStaleTranslation in every state: what the TLB holds is what the tables of
\* the running program show now.
THEOREM NoStaleTranslationAlways == Spec => []NoStaleTranslation
BY InvHolds, InvFresh, PTL

\* What a step that ends the space of o leaves.
LEMMA ReapStep ==
  ASSUME Inv, Moves, NEW o \in Owners, o \in LiveSpaces, spaces'[o].state = "dead"
  PROVE  /\ \A s \in Slots : table'[s].live => table'[s].owner # o
         /\ \A i \in DOMAIN g_maps : g_maps'[i] = (IF g_maps[i].owner = o THEN NoRec ELSE g_maps[i])
         /\ bits' = bits \cup Tree(Kernel, Root(o))
                         \cup UNION {TokenFrames(s) : s \in OwnedSlots(Kernel, o)}
<1>1. o \in Live(spaces) /\ spaces[o].state # "dead" BY DEF LiveSpaces, Live
<1>2. ~Quiet BY <1>1 DEF Quiet
<1>3. ~\E q \in Owners : Loads(q)
  <2> SUFFICES ASSUME NEW q \in Owners, Loads(q) PROVE FALSE OBVIOUS
  <2>1. \E rc : spaces' = [spaces EXCEPT ![q].state = IF rc = "ok" THEN "ready" ELSE "failed"] /\ spaces \in Spaces
    BY DEF Loads
  <2> QED BY <1>1, <2>1 DEF Spaces
<1>4. PICK q \in Owners : Ends(q) BY <1>2, <1>3 DEF Moves
<1>5. spaces' = [spaces EXCEPT ![q] = NoSpace] /\ spaces \in Spaces BY <1>4 DEF Ends
<1>6. q = o BY <1>1, <1>5 DEF Spaces
<1>7. PICK pl, p : /\ Good(Kernel, spaces, pl) /\ Becomes(p) /\ Freed(Kernel, p, spaces, o, pl)
  BY <1>4, <1>6 DEF Ends
<1>8. bits' = p.bits /\ table' = p.table /\ g_maps' = p.g_maps BY <1>7 DEF Becomes
<1>9. /\ \A s \in Slots : p.table[s].live => p.table[s].owner # o
      /\ \A j \in 1 .. NRecs : p.g_maps[j] = IF Kernel.g_maps[j].owner = o THEN NoRec ELSE Kernel.g_maps[j]
      /\ p.bits = Kernel.bits \cup TreeIn(pl, spaces[o].pml4) \cup OwnedFrames(Kernel, o)
  BY <1>7 DEF Freed
<1>10. DOMAIN g_maps = 1 .. NRecs BY <1>7, KernelIs DEF Good, Paged, KState
<1>11. Tree(Kernel, Root(o)) = TreeIn(pl, spaces[o].pml4)
  <2>1. Kernel \in KState /\ Forest(Kernel.mem, pl, Roots(spaces)) BY <1>7 DEF Good, Paged
  <2>2. Root(o) \in Roots(spaces) BY <1>1 DEF Roots, Root
  <2> QED BY <2>1, <2>2, TreeFrames DEF Root
<1>12. UNION {TokenFrames(s) : s \in OwnedSlots(Kernel, o)} = OwnedFrames(Kernel, o)
  <2>1. \A s : TokenFrames(s) = FramesIn(Kernel.table, s) BY KernelIs DEF TokenFrames, FramesIn
  <2> QED BY <2>1 DEF OwnedFrames
<1>13. Kernel.g_maps = g_maps /\ Kernel.bits = bits BY KernelIs
<1>14. \A s \in Slots : table'[s].live => table'[s].owner # o BY <1>8, <1>9
<1>15. \A i \in DOMAIN g_maps : g_maps'[i] = (IF g_maps[i].owner = o THEN NoRec ELSE g_maps[i])
  BY <1>8, <1>9, <1>10, <1>13
<1>16. bits' = bits \cup Tree(Kernel, Root(o)) \cup UNION {TokenFrames(s) : s \in OwnedSlots(Kernel, o)}
  BY <1>8, <1>9, <1>11, <1>12, <1>13
<1> QED BY <1>14, <1>15, <1>16

\* ReapLeavesNothing: whatever a program had mapped or pinned when it was
\* reaped, or a failed load had built, is free again, and nothing else is.
THEOREM ReapLeavesNothingAlways == Spec => ReapLeavesNothing
<1>1. Inv /\ [Next]_vars =>
        \A o \in Owners : o \in LiveSpaces /\ spaces'[o].state = "dead" =>
          /\ \A s \in Slots : table'[s].live => table'[s].owner # o
          /\ \A i \in DOMAIN g_maps : g_maps'[i] = (IF g_maps[i].owner = o THEN NoRec ELSE g_maps[i])
          /\ bits' = bits \cup Tree(Kernel, Root(o))
                          \cup UNION {TokenFrames(s) : s \in OwnedSlots(Kernel, o)}
  BY NextInv, ReapStep
<1> QED BY <1>1, InvHolds, PTL DEF Spec, ReapLeavesNothing

\* What the tables translate a page to after a step.
LEMMA TranslatedNext ==
  ASSUME NEW o, Root(o)' # 0, NEW va
  PROVE  Translation(Root(o), va)' = Shown(mem', Root(o)', va)
<1> DEFINE k == Kernel'
           r == Root(o)'
<1>1. k.mem = mem' BY KernelIs
<1>2. Translation(Root(o), va)' = IF walk_pte(k, r, va) = 0 THEN Absent ELSE mem'[walk_pte(k, r, va)][Index(va, 0)]
  BY DEF Translation
<1> HIDE DEF k, r
<1>3. r # 0 BY DEF r
<1>4. walk_pte(k, r, va) = T0(k.mem, r, va) BY <1>3, WalkPte
<1> QED BY <1>1, <1>2, <1>4 DEF Shown, r

\* What a step in which a load fails leaves.
LEMMA FailedStep ==
  ASSUME Inv, Moves, NEW o \in Owners, spaces[o].state = "empty", spaces'[o].state = "failed"
  PROVE  /\ LiveSlots' = LiveSlots
         /\ \A s \in LiveSlots : table'[s] = table[s]
         /\ g_maps' = g_maps
         /\ \A p \in LiveSpaces : \A va \in UserBase .. (UserTop - 1) :
              Translation(Root(p), va)' = Translation(Root(p), va)
<1>1. ~Quiet BY DEF Quiet
<1>2. ~\E q \in Owners : Ends(q)
  <2> SUFFICES ASSUME NEW q \in Owners, Ends(q) PROVE FALSE OBVIOUS
  <2>1. spaces' = [spaces EXCEPT ![q] = NoSpace] /\ spaces \in Spaces BY DEF Ends
  <2> QED BY <2>1 DEF Spaces, NoSpace
<1>3. PICK q \in Owners : Loads(q) BY <1>1, <1>2 DEF Moves
<1>4. PICK k : /\ k \in KState /\ Becomes(k) /\ spaces \in Spaces
               /\ spaces' = [spaces EXCEPT ![q].state = IF k.rc = "ok" THEN "ready" ELSE "failed"]
               /\ k.rc \in {"ok", "failed"}
               /\ k.rc = "failed" => Undone(Kernel, k, spaces)
  BY <1>3 DEF Loads
<1>5. q = o /\ k.rc # "ok" BY <1>4 DEF Spaces
<1>6. Undone(Kernel, k, spaces) BY <1>4, <1>5
<1>7. mem' = k.mem /\ table' = k.table /\ g_maps' = k.g_maps BY <1>4 DEF Becomes
<1>8. /\ LiveIn(k.table) = LiveIn(table) /\ \A s \in LiveIn(table) : k.table[s] = table[s]
      /\ k.g_maps = g_maps /\ Same(mem, k.mem, Roots(spaces))
  BY <1>6, KernelIs DEF Undone
<1>9. LiveSlots = LiveIn(table) /\ LiveSlots' = LiveIn(k.table) BY <1>7 DEF LiveSlots, LiveIn
<1>10. ASSUME NEW p \in LiveSpaces, NEW va \in UserBase .. (UserTop - 1)
       PROVE  Translation(Root(p), va)' = Translation(Root(p), va)
  <2>1. Root(p) \in Roots(spaces) /\ Root(p) # 0 /\ p \in Owners BY LiveRoot DEF Live
  <2>2. Root(p)' = Root(p) BY <1>4, <2>1 DEF Root, Spaces
  <2>3. Translation(Root(p), va)' = Shown(mem', Root(p)', va) BY <2>1, <2>2, TranslatedNext
  <2>4. Translation(Root(p), va) = Shown(mem, Root(p), va) BY <2>1, Translated
  <2>5. va \in UserVa BY DEF UserVa
  <2>6. Shown(k.mem, Root(p), va) = Shown(mem, Root(p), va) BY <1>8, <2>1, <2>5 DEF Same
  <2> QED BY <1>7, <2>2, <2>3, <2>4, <2>6
<1> QED BY <1>7, <1>8, <1>9, <1>10

\* FailedLoadLeavesNothing: wherever a load fails, its two rollback loops give
\* back every token, mapping and pin, and no program sees a difference.
THEOREM FailedLoadLeavesNothingAlways == Spec => FailedLoadLeavesNothing
<1>1. Inv /\ [Next]_vars =>
        \A o \in Owners : spaces[o].state = "empty" /\ spaces'[o].state = "failed" =>
          /\ LiveSlots' = LiveSlots
          /\ \A s \in LiveSlots : table'[s] = table[s]
          /\ g_maps' = g_maps
          /\ \A p \in LiveSpaces : \A va \in UserBase .. (UserTop - 1) :
               Translation(Root(p), va)' = Translation(Root(p), va)
  BY NextInv, FailedStep
<1> QED BY <1>1, InvHolds, PTL DEF Spec, FailedLoadLeavesNothing

-----------------------------------------------------------------------------
(* The parser's checks and the format.                                     *)

\* The bounds the parser compares, as sets of bytes or pages: one set in another.
Inside(a, b, h, z) == Units(a, b) \subseteq Units(h, z)

\* Containment of ranges, by their bounds.
LEMMA UnitsIn ==
  ASSUME NEW a \in Nat, NEW b \in Nat, a < b, NEW h \in Nat, NEW z \in Nat
  PROVE  Inside(a, b, h, z) <=> h <= a /\ b <= z
<1>1. ASSUME Units(a, b) \subseteq Units(h, z) PROVE h <= a /\ b <= z
  <2>1. a \in Units(a, b) /\ b - 1 \in Units(a, b) BY DEF Units
  <2>2. a \in Units(h, z) /\ b - 1 \in Units(h, z) BY <1>1, <2>1
  <2> QED BY <2>2 DEF Units
<1>2. ASSUME h <= a, b <= z PROVE Units(a, b) \subseteq Units(h, z) BY <1>2 DEF Units
<1> QED BY <1>1, <1>2 DEF Inside

\* Disjointness of ranges, by their bounds.
LEMMA UnitsApart ==
  ASSUME NEW a0 \in Nat, NEW a1 \in Nat, a0 < a1, NEW b0 \in Nat, NEW b1 \in Nat, b0 < b1
  PROVE  Units(a0, a1) \cap Units(b0, b1) = {} <=> ~overlap(a0, a1, b0, b1)
<1>1. ASSUME overlap(a0, a1, b0, b1) PROVE Units(a0, a1) \cap Units(b0, b1) # {}
  <2>1. a0 < b1 /\ b0 < a1 BY <1>1 DEF overlap
  <2>2. CASE a0 <= b0
    <3>1. b0 \in Units(a0, a1) /\ b0 \in Units(b0, b1) BY <2>1, <2>2 DEF Units
    <3> QED BY <3>1
  <2>3. CASE b0 < a0
    <3>1. a0 \in Units(a0, a1) /\ a0 \in Units(b0, b1) BY <2>1, <2>3 DEF Units
    <3> QED BY <3>1
  <2> QED BY <2>2, <2>3
<1>2. ASSUME NEW u \in Units(a0, a1), u \in Units(b0, b1) PROVE overlap(a0, a1, b0, b1)
  <2>1. u \in Int /\ a0 <= u /\ u <= a1 - 1 /\ b0 <= u /\ u <= b1 - 1 BY <1>2 DEF Units
  <2> QED BY <2>1 DEF overlap
<1> QED BY <1>1, <1>2

\* An empty range.
LEMMA UnitsNone ==
  ASSUME NEW a \in Nat
  PROVE  Units(a, a) = {}
BY DEF Units

\* Comparisons of multiples.
LEMMA MulLess ==
  ASSUME NEW b \in Nat, b > 0, NEW u \in Nat, NEW k \in Nat
  PROVE  b * u \in Nat /\ b * k \in Nat /\ (u < k <=> b * u < b * k) /\ (u <= k <=> b * u <= b * k)
<1>1. b * u \in Nat /\ b * k \in Nat BY SMTT(20)
<1>2. u < k => b * u + b <= b * k BY DivLess
<1>3. k < u => b * k + b <= b * u BY DivLess
<1>4. u = k => b * u = b * k OBVIOUS
<1> DEFINE U == b * u
           K == b * k
<1>5. U \in Nat /\ K \in Nat /\ (u < k => U + b <= K) /\ (k < u => K + b <= U) /\ (u = k => U = K)
  BY <1>1, <1>2, <1>3, <1>4
<1> HIDE DEF U, K
<1>6. (u < k <=> U < K) /\ (u <= k <=> U <= K) BY <1>5
<1> QED BY <1>1, <1>6 DEF U, K

\* The checks of one segment by itself.
SegLocal(s) ==
    /\ s.resv = 0 /\ s.flags \subseteq {"R", "W", "X"} /\ "R" \in s.flags /\ ~({"W", "X"} \subseteq s.flags)
    /\ s.vaddr % EXB_PAGE = 0 /\ s.vaddr >= EXB_VA_MIN /\ s.vaddr < EXB_VA_LIMIT
    /\ s.mem > 0 /\ VEnd(s) <= EXB_VA_LIMIT /\ s.fsz <= s.mem
    /\ s.fsz = 0 => s.foff = 0
\* The types of a segment entry.
SegType(s) ==
    /\ s.vaddr \in Nat /\ s.mem \in Nat /\ s.foff \in Nat /\ s.fsz \in Nat /\ s.resv \in Nat

\* Readable, known flags and not both W and X: the three sets the format allows.
LEMMA FlagSets ==
  ASSUME NEW F
  PROVE  (F \subseteq {"R", "W", "X"} /\ "R" \in F /\ ~({"W", "X"} \subseteq F))
           <=> F \in {{"R"}, {"R", "W"}, {"R", "X"}}
<1>1. ASSUME F \subseteq {"R", "W", "X"}, "R" \in F, ~({"W", "X"} \subseteq F)
      PROVE  F \in {{"R"}, {"R", "W"}, {"R", "X"}}
  <2>1. CASE "W" \in F
    <3>1. "X" \notin F BY <1>1, <2>1
    <3>2. F = {"R", "W"} BY <1>1, <2>1, <3>1
    <3> QED BY <3>2
  <2>2. CASE "W" \notin F /\ "X" \in F
    <3>2. F = {"R", "X"} BY <1>1, <2>2
    <3> QED BY <3>2
  <2>3. CASE "W" \notin F /\ "X" \notin F
    <3>2. F = {"R"} BY <1>1, <2>3
    <3> QED BY <3>2
  <2> QED BY <2>1, <2>2, <2>3
<1>2. ASSUME F \in {{"R"}, {"R", "W"}, {"R", "X"}}
      PROVE  F \subseteq {"R", "W", "X"} /\ "R" \in F /\ ~({"W", "X"} \subseteq F)
  BY <1>2
<1> QED BY <1>1, <1>2

\* The pages of user space an image may use.
LEMMA ImageRange ==
  /\ EXB_PAGE \in Nat /\ EXB_PAGE > 0 /\ EXB_VA_MIN \in Nat /\ EXB_VA_LIMIT \in Nat
  /\ EXB_VA_MIN \div EXB_PAGE \in Nat /\ EXB_VA_MIN = EXB_PAGE * (EXB_VA_MIN \div EXB_PAGE)
  /\ EXB_VA_LIMIT \div EXB_PAGE \in Nat /\ EXB_VA_LIMIT = EXB_PAGE * (EXB_VA_LIMIT \div EXB_PAGE)
<1>1. /\ EXB_PAGE \in Nat /\ EXB_PAGE > 0 /\ EXB_VA_MIN \in Nat /\ EXB_VA_LIMIT \in Nat
      /\ EXB_VA_MIN % EXB_PAGE = 0 /\ EXB_VA_LIMIT % EXB_PAGE = 0
  BY ExbAssumption
<1>2. EXB_VA_MIN \div EXB_PAGE \in Nat /\ EXB_VA_MIN = EXB_PAGE * (EXB_VA_MIN \div EXB_PAGE)
  BY <1>1, DivMod
<1>3. EXB_VA_LIMIT \div EXB_PAGE \in Nat /\ EXB_VA_LIMIT = EXB_PAGE * (EXB_VA_LIMIT \div EXB_PAGE)
  BY <1>1, DivMod
<1> QED BY <1>1, <1>2, <1>3

\* A segment that passes them is a segment of the format, and the reverse.
LEMMA LocalValid ==
  ASSUME NEW s, SegType(s)
  PROVE  SegLocal(s) <=> ValidSeg(s)
<1> DEFINE b == EXB_PAGE
           lo == EXB_VA_MIN \div EXB_PAGE
           hi == EXB_VA_LIMIT \div EXB_PAGE
           v == s.vaddr \div EXB_PAGE
           q == Pages(s)
<1>1. /\ b \in Nat /\ b > 0 /\ EXB_VA_MIN \in Nat /\ EXB_VA_LIMIT \in Nat
      /\ lo \in Nat /\ EXB_VA_MIN = b * lo /\ hi \in Nat /\ EXB_VA_LIMIT = b * hi
  BY ImageRange
<1>2. s.vaddr \in Nat /\ s.mem \in Nat /\ s.foff \in Nat /\ s.fsz \in Nat BY DEF SegType
<1>3. ASSUME s.vaddr % EXB_PAGE = 0, s.mem > 0
      PROVE  /\ s.vaddr >= EXB_VA_MIN /\ s.vaddr < EXB_VA_LIMIT /\ VEnd(s) <= EXB_VA_LIMIT
               <=> SegPages(s) \subseteq Units(lo, hi)
             /\ SegPages(s) # {}
  <2>1. /\ v \in Nat /\ s.vaddr = b * v /\ q \in Nat /\ q > 0 /\ VEnd(s) = b * (v + q)
        /\ SegPages(s) = Span(v, q)
    BY <1>2, <1>3, SegSpan
  <2> HIDE DEF b, lo, hi, v, q
  <2>2. Span(v, q) = Units(v, v + q) BY <2>1 DEF Span, Units
  <2>3. v + q \in Nat /\ v < v + q BY <2>1
  <2>4. (lo <= v <=> b * lo <= b * v) BY <1>1, <2>1, MulLess
  <2>5. (v < hi <=> b * v < b * hi) BY <1>1, <2>1, MulLess
  <2>6. (v + q <= hi <=> b * (v + q) <= b * hi) BY <1>1, <2>3, MulLess
  <2>7. Inside(v, v + q, lo, hi) <=> lo <= v /\ v + q <= hi BY <1>1, <2>1, <2>3, UnitsIn
  <2>8. v + q <= hi => v < hi BY <1>1, <2>1
  <2>9. v \in Units(v, v + q) BY <2>1, <2>3 DEF Units
  <2>10. s.vaddr >= EXB_VA_MIN <=> lo <= v BY <1>1, <1>2, <2>1, <2>4
  <2>11. s.vaddr < EXB_VA_LIMIT <=> v < hi BY <1>1, <1>2, <2>1, <2>5
  <2>12. VEnd(s) <= EXB_VA_LIMIT <=> v + q <= hi BY <1>1, <2>1, <2>6
  <2> QED BY <2>1, <2>2, <2>7, <2>8, <2>9, <2>10, <2>11, <2>12 DEF Inside
<1>4. s.mem = 0 => SegPages(s) = {}
  <2> SUFFICES ASSUME s.mem = 0 PROVE SegPages(s) = {} OBVIOUS
  <2>1. Units(s.vaddr, s.vaddr + s.mem) = {} BY <1>2 DEF Units
  <2> QED BY <2>1 DEF SegPages
<1>5. s.mem > 0 <=> s.mem # 0 BY <1>2
<1> HIDE DEF b, v, q
<1>6. (s.flags \subseteq {"R", "W", "X"} /\ "R" \in s.flags /\ ~({"W", "X"} \subseteq s.flags))
           <=> s.flags \in {{"R"}, {"R", "W"}, {"R", "X"}}
  BY FlagSets
<1>7. SegLocal(s) => ValidSeg(s) BY <1>3, <1>6 DEF SegLocal, ValidSeg, lo, hi
<1>8. ValidSeg(s) => SegLocal(s) BY <1>3, <1>4, <1>5, <1>6 DEF SegLocal, ValidSeg, lo, hi
<1> QED BY <1>7, <1>8

\* Two segments have pages in common exactly when their bounds overlap.
LEMMA PagesApart ==
  ASSUME NEW s, SegType(s), SegLocal(s), NEW t, SegType(t), SegLocal(t)
  PROVE  SegPages(s) \cap SegPages(t) = {} <=> ~overlap(s.vaddr, VEnd(s), t.vaddr, VEnd(t))
<1> DEFINE b == EXB_PAGE
           v == s.vaddr \div EXB_PAGE
           q == Pages(s)
           w == t.vaddr \div EXB_PAGE
           r == Pages(t)
<1>0. b \in Nat /\ b > 0 BY ImageRange
<1>1. /\ v \in Nat /\ s.vaddr = b * v /\ q \in Nat /\ q > 0 /\ VEnd(s) = b * (v + q)
      /\ SegPages(s) = Span(v, q)
  BY SegSpan DEF SegType, SegLocal
<1>2. /\ w \in Nat /\ t.vaddr = b * w /\ r \in Nat /\ r > 0 /\ VEnd(t) = b * (w + r)
      /\ SegPages(t) = Span(w, r)
  BY SegSpan DEF SegType, SegLocal
<1> HIDE DEF b, v, q, w, r
<1>3. v + q \in Nat /\ v < v + q /\ w + r \in Nat /\ w < w + r BY <1>1, <1>2
<1>4. Span(v, q) = Units(v, v + q) /\ Span(w, r) = Units(w, w + r) BY <1>1, <1>2 DEF Span, Units
<1>5. Units(v, v + q) \cap Units(w, w + r) = {} <=> ~overlap(v, v + q, w, w + r)
  BY <1>1, <1>2, <1>3, UnitsApart
<1>6. v < w + r <=> b * v < b * (w + r) BY <1>0, <1>1, <1>3, MulLess
<1>7. w < v + q <=> b * w < b * (v + q) BY <1>0, <1>2, <1>3, MulLess
<1>8. overlap(v, v + q, w, w + r) <=> overlap(s.vaddr, VEnd(s), t.vaddr, VEnd(t))
  BY <1>1, <1>2, <1>6, <1>7 DEF overlap
<1> QED BY <1>1, <1>2, <1>4, <1>5, <1>8

\* The pages of a segment are finitely many, and cover its memory.
LEMMA PagesCount ==
  ASSUME NEW s, SegType(s), SegLocal(s)
  PROVE  /\ Pages(s) \in Nat /\ IsFiniteSet(SegPages(s)) /\ Cardinality(SegPages(s)) = Pages(s)
         /\ \A m \in Nat : Pages(s) <= m => s.mem <= m * EXB_PAGE
<1> DEFINE b == EXB_PAGE
           v == s.vaddr \div EXB_PAGE
           q == Pages(s)
<1>0. b \in Nat /\ b > 0 BY ImageRange
<1>1. /\ v \in Nat /\ q \in Nat /\ q > 0 /\ SegPages(s) = Span(v, q)
  BY SegSpan DEF SegType, SegLocal
<1>2. q = (s.mem + b - 1) \div b BY DEF Pages
<1>3. s.mem \in Nat /\ s.mem > 0 BY DEF SegType, SegLocal
<1> HIDE DEF b, v, q
<1>4. b * q \in Nat /\ b * q >= s.mem BY <1>0, <1>2, <1>3, Ceil
<1>5. Span(v, q) = v .. (v + q - 1) /\ v \in Int /\ v + q - 1 \in Int /\ ~(v > v + q - 1)
      /\ (v + q - 1) - v + 1 = q
  BY <1>1 DEF Span
<1>6. IsFiniteSet(Span(v, q)) /\ Cardinality(Span(v, q)) = q BY <1>5, FS_Interval
<1>7. ASSUME NEW m \in Nat, q <= m PROVE s.mem <= m * b
  <2>1. b * q <= b * m /\ b * m \in Nat BY <1>0, <1>1, <1>7, MulLess
  <2>2. m * b = b * m BY <1>0, SMTT(20)
  <2>3. s.mem <= b * m BY <1>3, <1>4, <2>1
  <2> QED BY <2>2, <2>3
<1> QED BY <1>1, <1>6, <1>7 DEF q, b

\* The segments of a file up to n, each in order by itself and no two on one page.
LaidOut(x, n) ==
    /\ n \in Nat
    /\ \A i \in 1 .. n : SegType(x.segs[i]) /\ SegLocal(x.segs[i])
    /\ \A i, j \in 1 .. n : i # j => SegPages(x.segs[i]) \cap SegPages(x.segs[j]) = {}
\* The pages of the first n segments.
Cover(x, n) == UNION {SegPages(x.segs[i]) : i \in 1 .. n}

\* Then the running total of the parser counts their pages.
LEMMA TotalCounts ==
  ASSUME NEW x, NEW n, LaidOut(x, n)
  PROVE  IsFiniteSet(Cover(x, n)) /\ Cardinality(Cover(x, n)) = TotalPages(x, n)
<1>1. n \in Nat /\ \A i \in 1 .. n : Pages(x.segs[i]) \in Nat BY PagesCount DEF LaidOut
<1> DEFINE c == [i \in 1 .. n |-> Pages(x.segs[i])]
<1>2. PICK f : Sums(f, c, n) /\ TotalPages(x, n) = f[n] BY <1>1, TotalLoop
<1>3. f[0] = 0 /\ \A i \in 1 .. n : f[i] = f[i - 1] + Pages(x.segs[i]) BY <1>2 DEF Sums
<1> DEFINE S == [i \in 0 .. n |-> {m \in Nat : IsFiniteSet(Cover(x, i)) /\ Cardinality(Cover(x, i)) = m}]
<1>4. f[0] \in S[0]
  <2>1. Cover(x, 0) = {} BY DEF Cover
  <2>2. IsFiniteSet(Cover(x, 0)) /\ Cardinality(Cover(x, 0)) = 0 BY <2>1, FS_EmptySet
  <2> QED BY <1>1, <1>3, <2>2
<1>5. ASSUME NEW i \in 1 .. n, f[i - 1] \in S[i - 1] PROVE f[i] \in S[i]
  <2>1. i - 1 \in 0 .. n /\ i \in 0 .. n /\ i \in Nat BY <1>1
  <2>2. /\ f[i - 1] \in Nat /\ IsFiniteSet(Cover(x, i - 1)) /\ Cardinality(Cover(x, i - 1)) = f[i - 1]
    BY <1>5, <2>1
  <2> DEFINE A == Cover(x, i - 1)
             B == SegPages(x.segs[i])
  <2>3. /\ Pages(x.segs[i]) \in Nat /\ IsFiniteSet(B) /\ Cardinality(B) = Pages(x.segs[i])
    BY PagesCount DEF LaidOut
  <2>4. Cover(x, i) = A \cup B
    <3>1. \A j : j \in 1 .. i <=> j \in 1 .. (i - 1) \/ j = i BY <2>1
    <3> QED BY <3>1 DEF Cover
  <2>5. A \cap B = {}
    <3> SUFFICES ASSUME NEW g \in A, g \in B PROVE FALSE OBVIOUS
    <3>1. PICK j \in 1 .. (i - 1) : g \in SegPages(x.segs[j]) BY DEF Cover
    <3>2. j \in 1 .. n /\ j # i BY <1>1, <2>1
    <3> QED BY <3>1, <3>2 DEF LaidOut
  <2> HIDE DEF A, B
  <2>6. IsFiniteSet(A) /\ IsFiniteSet(B) /\ Cardinality(A) = f[i - 1] BY <2>2, <2>3 DEF A
  <2>7. IsFiniteSet(A \cup B) /\ Cardinality(A \cup B) = Cardinality(A) + Cardinality(B) - Cardinality(A \cap B)
    BY <2>6, FS_Union
  <2>8. Cardinality(A \cap B) = 0 BY <2>5, FS_EmptySet
  <2>9. Cardinality(A \cup B) = f[i] /\ f[i] \in Nat BY <1>3, <2>2, <2>3, <2>6, <2>7, <2>8
  <2> QED BY <2>1, <2>4, <2>7, <2>9
<1> HIDE DEF S
<1>6. \A i \in 0 .. n : f[i] \in S[i] BY <1>1, <1>4, <1>5, Ind
<1>7. n \in 0 .. n BY <1>1
<1>8. f[n] \in S[n] BY <1>6, <1>7
<1> QED BY <1>2, <1>7, <1>8 DEF S

\* At most one element.
LEMMA AtMostOne ==
  ASSUME NEW T, IsFiniteSet(T)
  PROVE  Cardinality(T) <= 1 <=> \A a, b \in T : a = b
<1>1. ASSUME \A a, b \in T : a = b PROVE Cardinality(T) <= 1
  <2>1. CASE T = {} BY <2>1, FS_EmptySet
  <2>2. CASE T # {}
    <3>1. PICK a : a \in T BY <2>2
    <3>2. T = {a} BY <1>1, <3>1
    <3> QED BY <3>2, FS_Singleton
  <2> QED BY <2>1, <2>2
<1>2. ASSUME Cardinality(T) <= 1, NEW a \in T, NEW b \in T, a # b PROVE FALSE
  <2>1. IsFiniteSet({a}) /\ Cardinality({a}) = 1 BY FS_Singleton
  <2> DEFINE A == {a}
  <2>0. IsFiniteSet(A) /\ Cardinality(A) = 1 /\ b \notin A BY <1>2, <2>1
  <2>2. IsFiniteSet({a} \cup {b}) /\ Cardinality({a} \cup {b}) = 2
    <3> HIDE DEF A
    <3>1. IsFiniteSet(A \cup {b}) /\ Cardinality(A \cup {b}) = Cardinality(A) + 1 BY <2>0, FS_AddElement
    <3>2. Cardinality(A \cup {b}) = 2 BY <2>0, <3>1
    <3> QED BY <3>1, <3>2 DEF A
  <2>3. {a} \cup {b} \subseteq T BY <1>2
  <2>4. Cardinality({a} \cup {b}) <= Cardinality(T) BY <2>3, FS_Subset
  <2>5. Cardinality(T) \in Nat BY FS_CardinalityType
  <2> QED BY <1>2, <2>2, <2>4, <2>5
<1> QED BY <1>1, <1>2

\* The checks of the capabilities, entry by entry and over the table.
LEMMA CapsValid ==
  ASSUME NEW x \in Files
  PROVE  (\A i \in DOMAIN x.caps : CapOk(x, i)) <=>
         /\ \A i \in DOMAIN x.caps : x.caps[i].resv = 0 /\ x.caps[i].kind # "zero" /\ CapValueOk(x.caps[i])
         /\ \A k \in KnownCaps : Cardinality({i \in DOMAIN x.caps : x.caps[i].kind = k}) <= 1
<1> DEFINE c == Len(x.caps)
           Of(k) == {i \in DOMAIN x.caps : x.caps[i].kind = k}
<1>1. c \in Nat /\ DOMAIN x.caps = 1 .. c BY FileTypes
<1>2. \A k : IsFiniteSet(Of(k))
  <2>0. 1 \in Int /\ c \in Int BY <1>1
  <2>1. IsFiniteSet(1 .. c)
    <3> HIDE DEF c
    <3> QED BY <2>0, FS_Interval
  <2>2. IsFiniteSet(DOMAIN x.caps) BY <1>1, <2>1
  <2> QED BY <2>2, FS_Subset
<1>3. \A k : Cardinality(Of(k)) <= 1 <=> \A a, b \in Of(k) : a = b BY <1>2, AtMostOne
<1>4. (\A k \in KnownCaps : \A a, b \in Of(k) : a = b) <=>
      \A i \in DOMAIN x.caps : ~(x.caps[i].kind \in KnownCaps /\ \E j \in 1 .. (i - 1) : x.caps[j].kind = x.caps[i].kind)
  <2>1. ASSUME \A k \in KnownCaps : \A a, b \in Of(k) : a = b,
               NEW i \in DOMAIN x.caps, x.caps[i].kind \in KnownCaps,
               NEW j \in 1 .. (i - 1), x.caps[j].kind = x.caps[i].kind
        PROVE  FALSE
    <3>1. j \in DOMAIN x.caps /\ j # i BY <1>1, <2>1
    <3> QED BY <2>1, <3>1
  <2>2. ASSUME \A i \in DOMAIN x.caps : ~(x.caps[i].kind \in KnownCaps
                                          /\ \E j \in 1 .. (i - 1) : x.caps[j].kind = x.caps[i].kind),
               NEW k \in KnownCaps, NEW a \in Of(k), NEW b \in Of(k), a # b
        PROVE  FALSE
    <3>1. a \in 1 .. c /\ b \in 1 .. c /\ x.caps[a].kind = k /\ x.caps[b].kind = k BY <1>1
    <3>2. CASE a < b
      <4>1. a \in 1 .. (b - 1) BY <1>1, <3>1, <3>2
      <4> QED BY <1>1, <2>2, <3>1, <4>1
    <3>3. CASE b < a
      <4>1. b \in 1 .. (a - 1) BY <1>1, <3>1, <3>3
      <4> QED BY <1>1, <2>2, <3>1, <4>1
    <3> QED BY <1>1, <2>2, <3>1, <3>2, <3>3
  <2> QED BY <2>1, <2>2
<1>5. (\A k \in KnownCaps : Cardinality(Of(k)) <= 1) <=>
      \A i \in DOMAIN x.caps : ~(x.caps[i].kind \in KnownCaps /\ \E j \in 1 .. (i - 1) : x.caps[j].kind = x.caps[i].kind)
  BY <1>3, <1>4
<1> QED BY <1>5 DEF CapOk

\* The bytes a segment, the segment table and the capability table claim.
SegUnits(x, i) == Units(x.segs[i].foff, FEnd(x.segs[i]))
SegTab(x) == Units(x.seg_off, SegEnd(x))
CapTab(x) == Units(x.cap_off, CapEnd(x))

\* What a file claims, pair by pair.
ClaimsMet(x, n) ==
    /\ SegTab(x) \subseteq FileBytes(x) /\ CapTab(x) \subseteq FileBytes(x)
    /\ \A i \in 1 .. n : SegUnits(x, i) \subseteq FileBytes(x)
    /\ SegTab(x) \cap CapTab(x) = {}
    /\ \A i \in 1 .. n : SegUnits(x, i) \cap SegTab(x) = {} /\ SegUnits(x, i) \cap CapTab(x) = {}
    /\ \A i, j \in 1 .. n : i # j => SegUnits(x, i) \cap SegUnits(x, j) = {}

\* The claims of a file, one by one.
LEMMA ClaimsAre ==
  ASSUME NEW x \in Files, NEW n, n = Len(x.segs)
  PROVE  /\ DOMAIN Claims(x) = 1 .. (n + 2)
         /\ Claims(x)[1] = SegTab(x) /\ Claims(x)[2] = CapTab(x)
         /\ \A i \in 1 .. n : Claims(x)[i + 2] = SegUnits(x, i)
<1>1. n \in Nat /\ DOMAIN x.segs = 1 .. n BY FileTypes
<1> DEFINE tabs == <<SegTab(x), CapTab(x)>>
           us == [i \in DOMAIN x.segs |-> Units(x.segs[i].foff, FEnd(x.segs[i]))]
           T == {SegTab(x), CapTab(x)} \cup {us[i] : i \in 1 .. n}
<1>2. Claims(x) = tabs \o us BY DEF Claims, SegTab, CapTab
<1>3. tabs \in Seq(T) /\ Len(tabs) = 2 /\ tabs[1] = SegTab(x) /\ tabs[2] = CapTab(x) OBVIOUS
<1>4. us \in [1 .. n -> T] /\ \A i \in 1 .. n : us[i] = SegUnits(x, i) BY <1>1 DEF SegUnits
<1> HIDE DEF tabs, us, T
<1>5. us \in Seq(T) BY <1>1, <1>4
<1>6. Len(us) = n BY <1>1, <1>4, <1>5
<1> DEFINE C == tabs \o us
<1>7. C \in Seq(T) /\ Len(C) = 2 + n
      /\ \A i \in 1 .. (2 + n) : C[i] = IF i <= 2 THEN tabs[i] ELSE us[i - 2]
  <2>1. /\ C \in Seq(T) /\ Len(C) = Len(tabs) + Len(us)
        /\ \A i \in 1 .. (Len(tabs) + Len(us)) : C[i] = IF i <= Len(tabs) THEN tabs[i] ELSE us[i - Len(tabs)]
    BY <1>3, <1>5, ConcatProperties
  <2> HIDE DEF C
  <2> QED BY <1>1, <1>3, <1>6, <2>1
<1> HIDE DEF C
<1>8. DOMAIN C = 1 .. (n + 2) BY <1>1, <1>7
<1>9. C[1] = SegTab(x) /\ C[2] = CapTab(x)
  <2>1. 1 \in 1 .. (2 + n) /\ 2 \in 1 .. (2 + n) BY <1>1
  <2>2. C[1] = tabs[1] BY <1>7, <2>1
  <2>3. C[2] = tabs[2] BY <1>7, <2>1
  <2> QED BY <1>3, <2>2, <2>3
<1>10. ASSUME NEW i \in 1 .. n PROVE C[i + 2] = SegUnits(x, i)
  <2>1. i + 2 \in 1 .. (2 + n) /\ ~(i + 2 <= 2) /\ (i + 2) - 2 = i BY <1>1
  <2>2. C[i + 2] = us[(i + 2) - 2] BY <1>7, <2>1
  <2> QED BY <1>4, <2>1, <2>2
<1> QED BY <1>2, <1>8, <1>9, <1>10 DEF C

\* The claims lie in the file and apart: pair by pair.
LEMMA ClaimsPairs ==
  ASSUME NEW x \in Files, NEW n, n = Len(x.segs)
  PROVE  ((\A i \in DOMAIN Claims(x) : Claims(x)[i] \subseteq FileBytes(x)) /\ Apart(Claims(x)))
           <=> ClaimsMet(x, n)
<1>1. n \in Nat BY FileTypes
<1> DEFINE C == Claims(x)
<1>2. /\ DOMAIN C = 1 .. (n + 2) /\ C[1] = SegTab(x) /\ C[2] = CapTab(x)
      /\ \A i \in 1 .. n : C[i + 2] = SegUnits(x, i)
  BY ClaimsAre
<1> HIDE DEF C
<1>3. \A i \in 1 .. n : i + 2 \in DOMAIN C /\ i + 2 # 1 /\ i + 2 # 2 BY <1>1, <1>2
<1>4. 1 \in DOMAIN C /\ 2 \in DOMAIN C BY <1>1, <1>2
<1>5. \A i \in DOMAIN C : i = 1 \/ i = 2 \/ \E j \in 1 .. n : i = j + 2
  <2> SUFFICES ASSUME NEW i \in DOMAIN C, i # 1, i # 2 PROVE \E j \in 1 .. n : i = j + 2 OBVIOUS
  <2>1. i - 2 \in 1 .. n /\ i = (i - 2) + 2 BY <1>1, <1>2
  <2> QED BY <2>1
<1>6. \A i, j \in 1 .. n : i # j => i + 2 # j + 2 BY <1>1
<1>7. ASSUME \A i \in DOMAIN C : C[i] \subseteq FileBytes(x), Apart(C) PROVE ClaimsMet(x, n)
  <2>1. SegTab(x) \subseteq FileBytes(x) /\ CapTab(x) \subseteq FileBytes(x) BY <1>2, <1>4, <1>7
  <2>2. \A i \in 1 .. n : SegUnits(x, i) \subseteq FileBytes(x) BY <1>2, <1>3, <1>7
  <2>3. SegTab(x) \cap CapTab(x) = {}
    <3>1. C[1] \cap C[2] = {} BY <1>4, <1>7 DEF Apart
    <3> QED BY <1>2, <3>1
  <2>4. ASSUME NEW i \in 1 .. n PROVE SegUnits(x, i) \cap SegTab(x) = {} /\ SegUnits(x, i) \cap CapTab(x) = {}
    <3>1. C[i + 2] \cap C[1] = {} BY <1>3, <1>4, <1>7 DEF Apart
    <3>2. C[i + 2] \cap C[2] = {} BY <1>3, <1>4, <1>7 DEF Apart
    <3> QED BY <1>2, <3>1, <3>2
  <2>5. ASSUME NEW i \in 1 .. n, NEW j \in 1 .. n, i # j PROVE SegUnits(x, i) \cap SegUnits(x, j) = {}
    <3>1. C[i + 2] \cap C[j + 2] = {} BY <1>3, <1>6, <1>7, <2>5 DEF Apart
    <3> QED BY <1>2, <3>1
  <2> QED BY <2>1, <2>2, <2>3, <2>4, <2>5 DEF ClaimsMet
<1>8. ASSUME ClaimsMet(x, n) PROVE (\A i \in DOMAIN C : C[i] \subseteq FileBytes(x)) /\ Apart(C)
  <2> USE <1>8 DEF ClaimsMet
  <2>1. ASSUME NEW i \in DOMAIN C PROVE C[i] \subseteq FileBytes(x)
    <3>1. CASE i = 1 BY <1>2, <3>1
    <3>2. CASE i = 2 BY <1>2, <3>2
    <3>3. CASE \E j \in 1 .. n : i = j + 2 BY <1>2, <3>3
    <3> QED BY <1>5, <3>1, <3>2, <3>3
  <2>2. ASSUME NEW i \in DOMAIN C, NEW j \in DOMAIN C, i # j PROVE C[i] \cap C[j] = {}
    <3>1. CASE i = 1
      <4>1. CASE j = 2 BY <1>2, <3>1, <4>1
      <4>2. CASE \E u \in 1 .. n : j = u + 2
        <5>1. PICK u \in 1 .. n : j = u + 2 BY <4>2
        <5>2. C[j] = SegUnits(x, u) BY <1>2, <5>1
        <5> QED BY <1>2, <3>1, <5>2
      <4> QED BY <1>5, <2>2, <3>1, <4>1, <4>2
    <3>2. CASE i = 2
      <4>1. CASE j = 1 BY <1>2, <3>2, <4>1
      <4>2. CASE \E u \in 1 .. n : j = u + 2
        <5>1. PICK u \in 1 .. n : j = u + 2 BY <4>2
        <5>2. C[j] = SegUnits(x, u) BY <1>2, <5>1
        <5> QED BY <1>2, <3>2, <5>2
      <4> QED BY <1>5, <2>2, <3>2, <4>1, <4>2
    <3>3. CASE \E u \in 1 .. n : i = u + 2
      <4>0. PICK u \in 1 .. n : i = u + 2 BY <3>3
      <4>00. C[i] = SegUnits(x, u) BY <1>2, <4>0
      <4>1. CASE j = 1 BY <1>2, <4>00, <4>1
      <4>2. CASE j = 2 BY <1>2, <4>00, <4>2
      <4>3. CASE \E w \in 1 .. n : j = w + 2
        <5>1. PICK w \in 1 .. n : j = w + 2 BY <4>3
        <5>2. C[j] = SegUnits(x, w) /\ u # w BY <1>2, <2>2, <4>0, <5>1
        <5> QED BY <4>00, <5>2
      <4> QED BY <1>5, <4>1, <4>2, <4>3
    <3> QED BY <1>5, <3>1, <3>2, <3>3
  <2> QED BY <2>1, <2>2 DEF Apart
<1> QED BY <1>7, <1>8 DEF C

\* The parser's comparisons of file offsets.
RangesOk(x, n, c) ==
    /\ x.seg_off >= EXB_HEADER_SIZE /\ SegEnd(x) <= x.size
    /\ c > 0 => x.cap_off >= EXB_HEADER_SIZE /\ CapEnd(x) <= x.size
    /\ c > 0 => ~overlap(x.seg_off, SegEnd(x), x.cap_off, CapEnd(x))
    /\ \A i \in 1 .. n : LET s == x.segs[i] IN s.fsz > 0 =>
         /\ s.foff >= EXB_HEADER_SIZE /\ FEnd(s) <= x.size
         /\ ~overlap(s.foff, FEnd(s), x.seg_off, SegEnd(x))
         /\ c > 0 => ~overlap(s.foff, FEnd(s), x.cap_off, CapEnd(x))
    /\ \A i \in 1 .. n : \A j \in 1 .. (i - 1) : LET s == x.segs[i]  t == x.segs[j] IN
         s.fsz > 0 /\ t.fsz > 0 => ~overlap(s.foff, FEnd(s), t.foff, FEnd(t))

\* A table is where its entries are.
LEMMA TableEnds ==
  ASSUME NEW x \in Files, NEW n, n = Len(x.segs), NEW c, c = Len(x.caps)
  PROVE  /\ SegEnd(x) \in Nat /\ (n > 0 => x.seg_off < SegEnd(x))
         /\ CapEnd(x) \in Nat /\ (c > 0 => x.cap_off < CapEnd(x)) /\ (c = 0 => CapTab(x) = {})
<1>1. n \in Nat /\ c \in Nat /\ x.seg_off \in Nat /\ x.cap_off \in Nat BY FileTypes
<1> DEFINE a == EXB_SEG_SIZE
           b == EXB_CAP_SIZE
<1>2. a \in Nat /\ a > 0 /\ b \in Nat /\ b > 0 /\ 0 \in Nat BY ExbAssumption
<1> HIDE DEF a, b
<1>3. n * a = a * n /\ c * b = b * c /\ a * 0 = 0 /\ b * 0 = 0 BY <1>1, <1>2, SMTT(20)
<1>4. a * n \in Nat /\ (0 < n <=> a * 0 < a * n) BY <1>1, <1>2, MulLess
<1>5. b * c \in Nat /\ (0 < c <=> b * 0 < b * c) BY <1>1, <1>2, MulLess
<1>6. SegEnd(x) = x.seg_off + a * n BY <1>3 DEF SegEnd, a
<1>7. CapEnd(x) = x.cap_off + b * c BY <1>3 DEF CapEnd, b
<1>8. SegEnd(x) \in Nat /\ (n > 0 => x.seg_off < SegEnd(x)) BY <1>1, <1>3, <1>4, <1>6
<1>9. CapEnd(x) \in Nat /\ (c > 0 => x.cap_off < CapEnd(x)) BY <1>1, <1>3, <1>5, <1>7
<1>10. c = 0 => CapTab(x) = {}
  <2> SUFFICES ASSUME c = 0 PROVE CapTab(x) = {} OBVIOUS
  <2>1. CapEnd(x) = x.cap_off BY <1>1, <1>3, <1>7
  <2> QED BY <1>1, <2>1, UnitsNone DEF CapTab
<1> QED BY <1>8, <1>9, <1>10

\* The comparisons of parse_impl say just that.
LEMMA RangesClaims ==
  ASSUME NEW x \in Files, NEW n, n = Len(x.segs), n > 0, NEW c, c = Len(x.caps)
  PROVE  RangesOk(x, n, c) <=> ClaimsMet(x, n)
<1>1. /\ n \in Nat /\ c \in Nat /\ DOMAIN x.segs = 1 .. n
      /\ x.seg_off \in Nat /\ x.cap_off \in Nat /\ x.size \in Nat
  BY FileTypes
<1>2. EXB_HEADER_SIZE \in Nat BY ExbAssumption
<1>3. /\ SegEnd(x) \in Nat /\ x.seg_off < SegEnd(x)
      /\ CapEnd(x) \in Nat /\ (c > 0 => x.cap_off < CapEnd(x)) /\ (c = 0 => CapTab(x) = {})
  BY TableEnds
<1> DEFINE s(i) == x.segs[i]
<1>4. ASSUME NEW i \in 1 .. n
      PROVE  /\ s(i).foff \in Nat /\ s(i).fsz \in Nat /\ FEnd(s(i)) \in Nat
             /\ (s(i).fsz > 0 => s(i).foff < FEnd(s(i))) /\ (s(i).fsz = 0 => SegUnits(x, i) = {})
  <2>1. s(i).foff \in Nat /\ s(i).fsz \in Nat BY <1>1, FileTypes
  <2>2. FEnd(s(i)) = s(i).foff + s(i).fsz BY DEF FEnd
  <2> DEFINE g == s(i).foff
             z == s(i).fsz
             e == FEnd(s(i))
  <2>3. SegUnits(x, i) = Units(g, e) BY DEF SegUnits
  <2> HIDE DEF g, z, e, s
  <2>4. g \in Nat /\ z \in Nat /\ e = g + z BY <2>1, <2>2 DEF g, z, e
  <2>5. e \in Nat /\ (z > 0 => g < e) /\ (z = 0 => e = g) BY <2>4
  <2>6. z = 0 => SegUnits(x, i) = {} BY <2>3, <2>4, <2>5, UnitsNone
  <2> QED BY <2>4, <2>5, <2>6 DEF g, z, e
<1>5. SegTab(x) \subseteq FileBytes(x) <=> x.seg_off >= EXB_HEADER_SIZE /\ SegEnd(x) <= x.size
  <2>1. Inside(x.seg_off, SegEnd(x), EXB_HEADER_SIZE, x.size) <=>
          EXB_HEADER_SIZE <= x.seg_off /\ SegEnd(x) <= x.size
    BY <1>1, <1>2, <1>3, UnitsIn
  <2> QED BY <1>1, <1>2, <2>1 DEF SegTab, FileBytes, Inside
<1>6. CapTab(x) \subseteq FileBytes(x) <=> (c > 0 => x.cap_off >= EXB_HEADER_SIZE /\ CapEnd(x) <= x.size)
  <2>1. CASE c = 0 BY <1>3, <2>1
  <2>2. CASE c > 0
    <3>1. Inside(x.cap_off, CapEnd(x), EXB_HEADER_SIZE, x.size) <=>
            EXB_HEADER_SIZE <= x.cap_off /\ CapEnd(x) <= x.size
      BY <1>1, <1>2, <1>3, <2>2, UnitsIn
    <3> QED BY <1>1, <1>2, <2>2, <3>1 DEF CapTab, FileBytes, Inside
  <2> QED BY <1>1, <2>1, <2>2
<1>7. SegTab(x) \cap CapTab(x) = {} <=> (c > 0 => ~overlap(x.seg_off, SegEnd(x), x.cap_off, CapEnd(x)))
  <2>1. CASE c = 0 BY <1>3, <2>1
  <2>2. CASE c > 0 BY <1>1, <1>3, <2>2, UnitsApart DEF CapTab, SegTab
  <2> QED BY <1>1, <2>1, <2>2
<1>8. ASSUME NEW i \in 1 .. n
      PROVE  /\ SegUnits(x, i) \subseteq FileBytes(x) <=>
                  (s(i).fsz > 0 => s(i).foff >= EXB_HEADER_SIZE /\ FEnd(s(i)) <= x.size)
             /\ SegUnits(x, i) \cap SegTab(x) = {} <=>
                  (s(i).fsz > 0 => ~overlap(s(i).foff, FEnd(s(i)), x.seg_off, SegEnd(x)))
             /\ SegUnits(x, i) \cap CapTab(x) = {} <=>
                  (s(i).fsz > 0 /\ c > 0 => ~overlap(s(i).foff, FEnd(s(i)), x.cap_off, CapEnd(x)))
  <2> DEFINE g == s(i).foff
             z == s(i).fsz
             e == FEnd(s(i))
  <2>1. /\ g \in Nat /\ z \in Nat /\ e \in Nat /\ (z > 0 => g < e) /\ (z = 0 => SegUnits(x, i) = {})
    BY <1>4
  <2>2. SegUnits(x, i) = Units(g, e) BY DEF SegUnits
  <2> HIDE DEF g, z, e, s
  <2>3. Units(g, e) \subseteq FileBytes(x) <=> (z > 0 => g >= EXB_HEADER_SIZE /\ e <= x.size)
    <3>1. CASE z = 0 BY <2>1, <2>2, <3>1
    <3>2. CASE z > 0
      <4>1. Inside(g, e, EXB_HEADER_SIZE, x.size) <=> EXB_HEADER_SIZE <= g /\ e <= x.size
        BY <1>1, <1>2, <2>1, <3>2, UnitsIn
      <4> QED BY <1>1, <1>2, <2>1, <3>2, <4>1 DEF FileBytes, Inside
    <3> QED BY <2>1, <3>1, <3>2
  <2>4. Units(g, e) \cap SegTab(x) = {} <=> (z > 0 => ~overlap(g, e, x.seg_off, SegEnd(x)))
    <3>1. CASE z = 0 BY <2>1, <2>2, <3>1
    <3>2. CASE z > 0 BY <1>1, <1>3, <2>1, <3>2, UnitsApart DEF SegTab
    <3> QED BY <2>1, <3>1, <3>2
  <2>5. Units(g, e) \cap CapTab(x) = {} <=> (z > 0 /\ c > 0 => ~overlap(g, e, x.cap_off, CapEnd(x)))
    <3>1. CASE z = 0 BY <2>1, <2>2, <3>1
    <3>2. CASE c = 0 BY <1>3, <3>2
    <3>3. CASE z > 0 /\ c > 0 BY <1>1, <1>3, <2>1, <3>3, UnitsApart DEF CapTab
    <3> QED BY <1>1, <2>1, <3>1, <3>2, <3>3
  <2> QED BY <2>2, <2>3, <2>4, <2>5 DEF g, z, e
<1>9. ASSUME NEW i \in 1 .. n, NEW j \in 1 .. n
      PROVE  SegUnits(x, i) \cap SegUnits(x, j) = {} <=>
               (s(i).fsz > 0 /\ s(j).fsz > 0 => ~overlap(s(i).foff, FEnd(s(i)), s(j).foff, FEnd(s(j))))
  <2> DEFINE g == s(i).foff
             z == s(i).fsz
             e == FEnd(s(i))
             gg == s(j).foff
             zz == s(j).fsz
             ee == FEnd(s(j))
  <2>1. /\ g \in Nat /\ z \in Nat /\ e \in Nat /\ (z > 0 => g < e) /\ (z = 0 => SegUnits(x, i) = {})
    BY <1>4
  <2>2. /\ gg \in Nat /\ zz \in Nat /\ ee \in Nat /\ (zz > 0 => gg < ee) /\ (zz = 0 => SegUnits(x, j) = {})
    BY <1>4
  <2>3. SegUnits(x, i) = Units(g, e) /\ SegUnits(x, j) = Units(gg, ee) BY DEF SegUnits
  <2> HIDE DEF g, z, e, gg, zz, ee, s
  <2>4. Units(g, e) \cap Units(gg, ee) = {} <=> (z > 0 /\ zz > 0 => ~overlap(g, e, gg, ee))
    <3>1. CASE z = 0 BY <2>1, <2>3, <3>1
    <3>2. CASE zz = 0 BY <2>2, <2>3, <3>2
    <3>3. CASE z > 0 /\ zz > 0 BY <2>1, <2>2, <3>3, UnitsApart
    <3> QED BY <2>1, <2>2, <3>1, <3>2, <3>3
  <2> QED BY <2>3, <2>4 DEF g, z, e, gg, zz, ee
<1>10. (\A i, j \in 1 .. n : i # j => SegUnits(x, i) \cap SegUnits(x, j) = {}) <=>
       (\A i \in 1 .. n : \A j \in 1 .. (i - 1) : SegUnits(x, i) \cap SegUnits(x, j) = {})
  <2> DEFINE U(i) == SegUnits(x, i)
  <2> HIDE DEF U
  <2>1. (\A i, j \in 1 .. n : i # j => U(i) \cap U(j) = {}) <=>
        (\A i \in 1 .. n : \A j \in 1 .. (i - 1) : U(i) \cap U(j) = {})
    <3>1. \A i \in 1 .. n : \A j \in 1 .. (i - 1) : j \in 1 .. n /\ i # j BY <1>1
    <3>2. \A i, j \in 1 .. n : i # j => j \in 1 .. (i - 1) \/ i \in 1 .. (j - 1) BY <1>1
    <3>3. \A i, j : U(i) \cap U(j) = U(j) \cap U(i) OBVIOUS
    <3> QED BY <3>1, <3>2, <3>3
  <2> QED BY <2>1 DEF U
<1>11. \A i \in 1 .. n : \A j \in 1 .. (i - 1) : j \in 1 .. n BY <1>1
<1>12. (\A i, j \in 1 .. n : i # j => SegUnits(x, i) \cap SegUnits(x, j) = {}) <=>
       (\A i \in 1 .. n : \A j \in 1 .. (i - 1) :
          s(i).fsz > 0 /\ s(j).fsz > 0 => ~overlap(s(i).foff, FEnd(s(i)), s(j).foff, FEnd(s(j))))
  BY <1>9, <1>10, <1>11
<1>13. (\A i \in 1 .. n : /\ SegUnits(x, i) \subseteq FileBytes(x)
                          /\ SegUnits(x, i) \cap SegTab(x) = {} /\ SegUnits(x, i) \cap CapTab(x) = {}) <=>
       (\A i \in 1 .. n : s(i).fsz > 0 =>
          /\ s(i).foff >= EXB_HEADER_SIZE /\ FEnd(s(i)) <= x.size
          /\ ~overlap(s(i).foff, FEnd(s(i)), x.seg_off, SegEnd(x))
          /\ c > 0 => ~overlap(s(i).foff, FEnd(s(i)), x.cap_off, CapEnd(x)))
  BY <1>8
<1> QED BY <1>5, <1>6, <1>7, <1>12, <1>13 DEF RangesOk, ClaimsMet

\* The end of a segment is a number.
LEMMA VEndNat ==
  ASSUME NEW s, SegType(s)
  PROVE  VEnd(s) \in Nat
<1> DEFINE b == EXB_PAGE
           q == Pages(s)
<1>1. b \in Nat /\ b > 0 /\ s.mem \in Nat /\ s.vaddr \in Nat BY ImageRange DEF SegType
<1>2. s.mem + b - 1 \in Nat BY <1>1
<1>3. (s.mem + b - 1) \div b \in Nat
  <2> HIDE DEF b
  <2> DEFINE a == s.mem + b - 1
  <2> HIDE DEF a
  <2>1. a \in Nat BY <1>2 DEF a
  <2>2. a \div b \in Nat BY <1>1, <2>1, DivMod
  <2> QED BY <2>2 DEF a
<1>4. q \in Nat BY <1>3 DEF Pages
<1> HIDE DEF q
<1>5. q * b \in Nat BY <1>1, <1>4, SMTT(20)
<1>6. VEnd(s) = s.vaddr + q * b BY DEF VEnd, q
<1> HIDE DEF b
<1> QED BY <1>1, <1>5, <1>6

\* The header and the sizes of the tables.
Heads(x, n, c) ==
    /\ x.size \in EXB_HEADER_SIZE .. EXB_MAX_FILE /\ x.head = "ok"
    /\ n \in 1 .. EXB_MAX_SEGS /\ c <= EXB_MAX_CAPS /\ (c = 0 => x.cap_off = 0)
\* The bounds of the segments' pages, pair by pair.
PagePairs(x, n) ==
    \A i \in 1 .. n : \A j \in 1 .. (i - 1) :
      ~overlap(x.segs[i].vaddr, VEnd(x.segs[i]), x.segs[j].vaddr, VEnd(x.segs[j]))
\* The size checks of the first n segments.
Bounded(x, n) ==
    \A i \in 1 .. n : /\ x.segs[i].mem <= EXB_MAX_IMAGE_PAGES * EXB_PAGE
                      /\ ~(TotalPages(x, i) > EXB_MAX_IMAGE_PAGES)

\* A file with n segments and c capabilities.
FileOf(x, n, c) ==
    /\ n = Len(x.segs) /\ c = Len(x.caps)
    /\ n \in Nat /\ c \in Nat /\ DOMAIN x.segs = 1 .. n /\ (x.caps = <<>> <=> c = 0)
    /\ x.seg_off \in Nat /\ x.cap_off \in Nat /\ x.size \in Nat
    /\ SegEnd(x) \in Nat /\ CapEnd(x) \in Nat
    /\ \A i \in 1 .. n : SegType(x.segs[i])

\* A file of the type, by its fields.
LEMMA FileIs ==
  ASSUME NEW x \in Files, NEW n, n = Len(x.segs), NEW c, c = Len(x.caps)
  PROVE  FileOf(x, n, c)
<1>1. /\ n \in Nat /\ c \in Nat /\ DOMAIN x.segs = 1 .. n /\ (x.caps = <<>> <=> c = 0)
      /\ x.seg_off \in Nat /\ x.cap_off \in Nat /\ x.size \in Nat
      /\ \A i \in 1 .. n : SegType(x.segs[i])
  BY FileTypes DEF SegType
<1>2. SegEnd(x) \in Nat /\ CapEnd(x) \in Nat BY TableEnds
<1> QED BY <1>1, <1>2 DEF FileOf

\* The same checks by what they are about.
LEMMA SegParts ==
  ASSUME NEW x, NEW n, NEW c, FileOf(x, n, c)
  PROVE  (TablesOk(x) /\ \A i \in DOMAIN x.segs : SegOk(x, i)) <=>
         /\ Heads(x, n, c) /\ RangesOk(x, n, c) /\ PagePairs(x, n) /\ Bounded(x, n)
         /\ \A i \in 1 .. n : SegLocal(x.segs[i])
<1>1. /\ n \in Nat /\ c \in Nat /\ DOMAIN x.segs = 1 .. n /\ (x.caps = <<>> <=> c = 0)
      /\ x.seg_off \in Nat /\ x.cap_off \in Nat /\ x.size \in Nat
      /\ \A i \in 1 .. n : SegType(x.segs[i])
  BY DEF FileOf
<1>2. /\ EXB_HEADER_SIZE \in Nat /\ EXB_MAX_FILE \in Nat /\ EXB_MAX_SEGS \in Nat /\ EXB_MAX_CAPS \in Nat
      /\ EXB_VA_MIN \in Nat /\ EXB_VA_LIMIT \in Nat /\ EXB_PAGE \in Nat /\ EXB_MAX_IMAGE_PAGES \in Nat
  BY ExbAssumption
<1>3. SegEnd(x) \in Nat /\ CapEnd(x) \in Nat BY DEF FileOf
<1> DEFINE H == /\ ~(x.size < EXB_HEADER_SIZE \/ x.size > EXB_MAX_FILE) /\ x.head = "ok"
                /\ ~(n < 1 \/ n > EXB_MAX_SEGS) /\ ~(c > EXB_MAX_CAPS) /\ ~(c = 0 /\ x.cap_off # 0)
           R == /\ ~(x.seg_off < EXB_HEADER_SIZE \/ SegEnd(x) > x.size)
                /\ ~(c > 0 /\ (x.cap_off < EXB_HEADER_SIZE \/ CapEnd(x) > x.size))
                /\ ~(c > 0 /\ overlap(x.seg_off, SegEnd(x), x.cap_off, CapEnd(x)))
           R2 == /\ x.seg_off >= EXB_HEADER_SIZE /\ SegEnd(x) <= x.size
                 /\ c > 0 => x.cap_off >= EXB_HEADER_SIZE /\ CapEnd(x) <= x.size
                 /\ c > 0 => ~overlap(x.seg_off, SegEnd(x), x.cap_off, CapEnd(x))
           F(i) == LET s == x.segs[i] IN s.fsz > 0 =>
                     /\ s.foff >= EXB_HEADER_SIZE /\ FEnd(s) <= x.size
                     /\ ~overlap(s.foff, FEnd(s), x.seg_off, SegEnd(x))
                     /\ c > 0 => ~overlap(s.foff, FEnd(s), x.cap_off, CapEnd(x))
           M(i, j) == LET s == x.segs[i]  t == x.segs[j] IN
                        s.fsz > 0 /\ t.fsz > 0 => ~overlap(s.foff, FEnd(s), t.foff, FEnd(t))
           V(i, j) == ~overlap(x.segs[i].vaddr, VEnd(x.segs[i]), x.segs[j].vaddr, VEnd(x.segs[j]))
           B(i) == /\ x.segs[i].mem <= EXB_MAX_IMAGE_PAGES * EXB_PAGE
                   /\ ~(TotalPages(x, i) > EXB_MAX_IMAGE_PAGES)
<1>4. TablesOk(x) <=> H /\ R BY DEF TablesOk, FileOf
<1>5. H <=> Heads(x, n, c)
  <2>1. x.size \in EXB_HEADER_SIZE .. EXB_MAX_FILE <=> ~(x.size < EXB_HEADER_SIZE \/ x.size > EXB_MAX_FILE)
    BY <1>1, <1>2
  <2>2. n \in 1 .. EXB_MAX_SEGS <=> ~(n < 1 \/ n > EXB_MAX_SEGS) BY <1>1, <1>2
  <2>3. c <= EXB_MAX_CAPS <=> ~(c > EXB_MAX_CAPS) BY <1>1, <1>2
  <2> QED BY <2>1, <2>2, <2>3, Zenon DEF Heads
<1>6. R <=> R2
  <2>1. x.seg_off >= EXB_HEADER_SIZE <=> ~(x.seg_off < EXB_HEADER_SIZE) BY <1>1, <1>2
  <2>2. SegEnd(x) <= x.size <=> ~(SegEnd(x) > x.size) BY <1>1, <1>3
  <2>3. x.cap_off >= EXB_HEADER_SIZE <=> ~(x.cap_off < EXB_HEADER_SIZE) BY <1>1, <1>2
  <2>4. CapEnd(x) <= x.size <=> ~(CapEnd(x) > x.size) BY <1>1, <1>3
  <2> QED BY <2>1, <2>2, <2>3, <2>4, Zenon
<1>7. RangesOk(x, n, c) <=> /\ R2 /\ \A i \in 1 .. n : F(i) /\ \A j \in 1 .. (i - 1) : M(i, j)
  BY DEF RangesOk
<1>8. ASSUME NEW i \in 1 .. n
      PROVE  SegOk(x, i) <=> /\ SegLocal(x.segs[i]) /\ F(i) /\ B(i)
                             /\ \A j \in 1 .. (i - 1) : V(i, j) /\ M(i, j)
  <2> DEFINE s == x.segs[i]
             W == EXB_MAX_IMAGE_PAGES * EXB_PAGE
             Met == \A j \in 1 .. (i - 1) : V(i, j) /\ M(i, j)
  <2>1. /\ s.vaddr \in Nat /\ s.mem \in Nat /\ s.foff \in Nat /\ s.fsz \in Nat /\ s.resv \in Nat
    BY <1>1 DEF SegType
  <2>2. VEnd(s) \in Nat BY <1>1, VEndNat
  <2>3. FEnd(s) \in Nat BY <2>1 DEF FEnd
  <2>4. W \in Nat BY <1>2, SMTT(20)
  <2>5. ~SegMet(x, i) <=> Met BY DEF SegMet
  <2> HIDE DEF Met
  <2>6. F(i) <=> /\ ~(s.fsz > 0 /\ (s.foff < EXB_HEADER_SIZE \/ FEnd(s) > x.size))
                 /\ ~(s.fsz > 0 /\ overlap(s.foff, FEnd(s), x.seg_off, SegEnd(x)))
                 /\ ~(s.fsz > 0 /\ x.caps # <<>> /\ overlap(s.foff, FEnd(s), x.cap_off, CapEnd(x)))
    <3>1. x.caps # <<>> <=> c > 0 BY <1>1
    <3>2. s.foff >= EXB_HEADER_SIZE <=> ~(s.foff < EXB_HEADER_SIZE) BY <1>2, <2>1
    <3>3. FEnd(s) <= x.size <=> ~(FEnd(s) > x.size) BY <1>1, <2>3
    <3> QED BY <3>1, <3>2, <3>3, Zenon
  <2>7. B(i) <=> ~(s.mem > W) /\ ~(TotalPages(x, i) > EXB_MAX_IMAGE_PAGES)
    <3>1. s.mem <= W <=> ~(s.mem > W) BY <2>1, <2>4
    <3> QED BY <3>1
  <2>8. SegLocal(s) <=>
        /\ ~(s.resv # 0 \/ ~(s.flags \subseteq {"R", "W", "X"}) \/ "R" \notin s.flags)
        /\ ~({"W", "X"} \subseteq s.flags)
        /\ ~(s.vaddr % EXB_PAGE # 0 \/ s.vaddr < EXB_VA_MIN \/ s.vaddr >= EXB_VA_LIMIT)
        /\ ~(s.mem = 0) /\ ~(VEnd(s) > EXB_VA_LIMIT \/ s.fsz > s.mem) /\ ~(s.fsz = 0 /\ s.foff # 0)
    <3> HIDE DEF s
    <3>1. s.mem > 0 <=> s.mem # 0 BY <2>1
    <3>2. (s.vaddr >= EXB_VA_MIN <=> ~(s.vaddr < EXB_VA_MIN))
          /\ (s.vaddr < EXB_VA_LIMIT <=> ~(s.vaddr >= EXB_VA_LIMIT))
      BY <1>2, <2>1
    <3>3. VEnd(s) <= EXB_VA_LIMIT <=> ~(VEnd(s) > EXB_VA_LIMIT) BY <1>2, <2>2
    <3>4. s.fsz <= s.mem <=> ~(s.fsz > s.mem) BY <2>1
    <3> QED BY <3>1, <3>2, <3>3, <3>4, Zenon DEF SegLocal
  <2>9. SegOk(x, i) <=>
        /\ ~(s.resv # 0 \/ ~(s.flags \subseteq {"R", "W", "X"}) \/ "R" \notin s.flags)
        /\ ~({"W", "X"} \subseteq s.flags)
        /\ ~(s.vaddr % EXB_PAGE # 0 \/ s.vaddr < EXB_VA_MIN \/ s.vaddr >= EXB_VA_LIMIT)
        /\ ~(s.mem = 0 \/ s.mem > W) /\ ~(VEnd(s) > EXB_VA_LIMIT \/ s.fsz > s.mem)
        /\ ~(s.fsz = 0 /\ s.foff # 0)
        /\ ~(s.fsz > 0 /\ (s.foff < EXB_HEADER_SIZE \/ FEnd(s) > x.size))
        /\ ~(s.fsz > 0 /\ overlap(s.foff, FEnd(s), x.seg_off, SegEnd(x)))
        /\ ~(s.fsz > 0 /\ x.caps # <<>> /\ overlap(s.foff, FEnd(s), x.cap_off, CapEnd(x)))
        /\ ~(TotalPages(x, i) > EXB_MAX_IMAGE_PAGES)
        /\ ~SegMet(x, i)
    BY Zenon DEF SegOk
  <2> HIDE DEF F, B, s, W
  <2>10. SegOk(x, i) <=> SegLocal(s) /\ F(i) /\ B(i) /\ Met BY <2>5, <2>6, <2>7, <2>8, <2>9, Zenon
  <2> QED BY <2>10 DEF Met, s
<1>9. PagePairs(x, n) <=> \A i \in 1 .. n : \A j \in 1 .. (i - 1) : V(i, j) BY DEF PagePairs
<1>10. Bounded(x, n) <=> \A i \in 1 .. n : B(i) BY DEF Bounded
<1> HIDE DEF H, R, R2, F, M, V, B
<1> QED BY <1>1, <1>4, <1>5, <1>6, <1>7, <1>8, <1>9, <1>10

\* The pages of the segments, pair by pair.
LEMMA PairsPages ==
  ASSUME NEW x, NEW n \in Nat, \A i \in 1 .. n : SegType(x.segs[i]) /\ SegLocal(x.segs[i])
  PROVE  PagePairs(x, n) <=> \A i, j \in 1 .. n : i # j => SegPages(x.segs[i]) \cap SegPages(x.segs[j]) = {}
<1> DEFINE V(i, j) == ~overlap(x.segs[i].vaddr, VEnd(x.segs[i]), x.segs[j].vaddr, VEnd(x.segs[j]))
           U(i) == SegPages(x.segs[i])
<1>1. \A i, j \in 1 .. n : U(i) \cap U(j) = {} <=> V(i, j) BY PagesApart
<1>2. PagePairs(x, n) <=> \A i \in 1 .. n : \A j \in 1 .. (i - 1) : V(i, j) BY DEF PagePairs
<1> HIDE DEF U, V
<1>3. \A i \in 1 .. n : \A j \in 1 .. (i - 1) : j \in 1 .. n /\ i # j OBVIOUS
<1>4. \A i, j \in 1 .. n : i # j => j \in 1 .. (i - 1) \/ i \in 1 .. (j - 1) OBVIOUS
<1>5. \A i, j : U(i) \cap U(j) = U(j) \cap U(i) OBVIOUS
<1>6. PagePairs(x, n) <=> \A i, j \in 1 .. n : i # j => U(i) \cap U(j) = {}
  BY <1>1, <1>2, <1>3, <1>4, <1>5
<1> QED BY <1>6 DEF U

\* The parser's bounds on pages, for segments that are apart.
LEMMA BoundedPages ==
  ASSUME NEW x, NEW n, LaidOut(x, n), n > 0
  PROVE  Bounded(x, n) <=> Cardinality(Cover(x, n)) <= EXB_MAX_IMAGE_PAGES
<1> DEFINE m == EXB_MAX_IMAGE_PAGES
<1>1. m \in Nat /\ n \in Nat BY ExbAssumption DEF LaidOut
<1>2. ASSUME NEW i \in 1 .. n
      PROVE  /\ IsFiniteSet(Cover(x, i)) /\ Cardinality(Cover(x, i)) = TotalPages(x, i)
             /\ Cover(x, i) \subseteq Cover(x, n) /\ SegPages(x.segs[i]) \subseteq Cover(x, n)
  <2>1. i \in Nat /\ \A j \in 1 .. i : j \in 1 .. n BY <1>1
  <2>2. LaidOut(x, i) BY <2>1 DEF LaidOut
  <2> QED BY <2>1, <2>2, TotalCounts DEF Cover
<1>3. n \in 1 .. n BY <1>1
<1>4. IsFiniteSet(Cover(x, n)) /\ Cardinality(Cover(x, n)) = TotalPages(x, n) BY TotalCounts
<1>5. Cardinality(Cover(x, n)) \in Nat BY <1>4, FS_CardinalityType
<1>6. ASSUME Bounded(x, n) PROVE Cardinality(Cover(x, n)) <= m
  <2>1. ~(TotalPages(x, n) > m) BY <1>3, <1>6 DEF Bounded
  <2> QED BY <1>1, <1>4, <1>5, <2>1
<1>7. ASSUME Cardinality(Cover(x, n)) <= m PROVE Bounded(x, n)
  <2> SUFFICES ASSUME NEW i \in 1 .. n
               PROVE  x.segs[i].mem <= EXB_MAX_IMAGE_PAGES * EXB_PAGE /\ ~(TotalPages(x, i) > EXB_MAX_IMAGE_PAGES)
    BY DEF Bounded
  <2>1. Cardinality(Cover(x, i)) <= Cardinality(Cover(x, n)) /\ Cardinality(Cover(x, i)) \in Nat
    BY <1>2, <1>4, FS_Subset, FS_CardinalityType
  <2>2. ~(TotalPages(x, i) > m) BY <1>1, <1>2, <1>5, <1>7, <2>1
  <2>3. SegType(x.segs[i]) /\ SegLocal(x.segs[i]) BY DEF LaidOut
  <2>4. /\ Pages(x.segs[i]) \in Nat /\ IsFiniteSet(SegPages(x.segs[i]))
        /\ Cardinality(SegPages(x.segs[i])) = Pages(x.segs[i])
        /\ \A w \in Nat : Pages(x.segs[i]) <= w => x.segs[i].mem <= w * EXB_PAGE
    BY <2>3, PagesCount
  <2>5. Cardinality(SegPages(x.segs[i])) <= Cardinality(Cover(x, n)) BY <1>2, <1>4, FS_Subset
  <2>6. Pages(x.segs[i]) <= m BY <1>1, <1>5, <1>7, <2>4, <2>5
  <2> QED BY <1>1, <2>2, <2>4, <2>6
<1> QED BY <1>6, <1>7

\* The entry point, as an offset and as a byte of a segment.
LEMMA EntryValid ==
  ASSUME NEW x \in Files
  PROVE  EntryOk(x) <=> \E i \in DOMAIN x.segs :
           "X" \in x.segs[i].flags /\ x.entry \in Units(x.segs[i].vaddr, x.segs[i].vaddr + x.segs[i].fsz)
<1> DEFINE e == x.entry
<1>1. e \in Nat /\ \A i \in DOMAIN x.segs : x.segs[i].vaddr \in Nat /\ x.segs[i].fsz \in Nat BY FileTypes
<1>2. ASSUME NEW i \in DOMAIN x.segs
      PROVE  EntryIn(e, x.segs[i]) <=>
               "X" \in x.segs[i].flags /\ e \in Units(x.segs[i].vaddr, x.segs[i].vaddr + x.segs[i].fsz)
  <2> DEFINE a == x.segs[i].vaddr
             z == x.segs[i].fsz
  <2>1. a \in Nat /\ z \in Nat /\ e \in Nat BY <1>1
  <2> HIDE DEF a, z, e
  <2>2. e \in Units(a, a + z) <=> e >= a /\ e - a < z BY <2>1 DEF Units
  <2>3. EntryIn(e, x.segs[i]) <=> "X" \in x.segs[i].flags /\ e >= a /\ e - a < z BY DEF EntryIn, a, z
  <2> QED BY <2>2, <2>3 DEF a, z
<1> QED BY <1>2 DEF EntryOk

\* exb_parse accepts a file exactly when it is an image of the format.
LEMMA ParserValid ==
  ASSUME NEW x \in Files
  PROVE  Accepted(x) <=> ValidImage(x)
<1> DEFINE n == Len(x.segs)
           c == Len(x.caps)
           K == \A i \in DOMAIN x.caps : CapOk(x, i)
           K2 == /\ \A i \in DOMAIN x.caps : x.caps[i].resv = 0 /\ x.caps[i].kind # "zero" /\ CapValueOk(x.caps[i])
                 /\ \A k \in KnownCaps : Cardinality({i \in DOMAIN x.caps : x.caps[i].kind = k}) <= 1
           E2 == \E i \in DOMAIN x.segs :
                   "X" \in x.segs[i].flags /\ x.entry \in Units(x.segs[i].vaddr, x.segs[i].vaddr + x.segs[i].fsz)
           L == \A i \in 1 .. n : SegLocal(x.segs[i])
           C == (\A i \in DOMAIN Claims(x) : Claims(x)[i] \subseteq FileBytes(x)) /\ Apart(Claims(x))
           A == \A i, j \in 1 .. n : i # j => SegPages(x.segs[i]) \cap SegPages(x.segs[j]) = {}
           N == Cardinality(Cover(x, n)) <= EXB_MAX_IMAGE_PAGES
<1>1. FileOf(x, n, c) BY FileIs
<1>2. n \in Nat /\ DOMAIN x.segs = 1 .. n /\ (x.caps = <<>> <=> c = 0) BY <1>1 DEF FileOf
<1>3. Accepted(x) <=> (TablesOk(x) /\ \A i \in DOMAIN x.segs : SegOk(x, i)) /\ EntryOk(x) /\ K
  BY DEF Accepted
<1>4. K <=> K2 BY CapsValid
<1>5. EntryOk(x) <=> E2 BY EntryValid
<1>6. (TablesOk(x) /\ \A i \in DOMAIN x.segs : SegOk(x, i)) <=>
        Heads(x, n, c) /\ RangesOk(x, n, c) /\ PagePairs(x, n) /\ Bounded(x, n) /\ L
  <2> HIDE DEF n, c
  <2> QED BY <1>1, SegParts
<1>7. n > 0 => (RangesOk(x, n, c) <=> C)
  <2>1. n > 0 => (RangesOk(x, n, c) <=> ClaimsMet(x, n)) BY RangesClaims
  <2>2. C <=> ClaimsMet(x, n) BY ClaimsPairs
  <2> HIDE DEF n, c, C
  <2> QED BY <2>1, <2>2
<1>8. L => (PagePairs(x, n) <=> A)
  <2>1. \A i \in 1 .. n : SegType(x.segs[i]) BY <1>1 DEF FileOf
  <2> HIDE DEF n
  <2> QED BY <1>2, <2>1, PairsPages
<1>9. L /\ A /\ n > 0 => (Bounded(x, n) <=> N)
  <2>1. \A i \in 1 .. n : SegType(x.segs[i]) BY <1>1 DEF FileOf
  <2> HIDE DEF n
  <2>2. L /\ A => LaidOut(x, n) BY <1>2, <2>1 DEF LaidOut
  <2> HIDE DEF L, A
  <2> QED BY <2>2, BoundedPages
<1>10. L <=> \A i \in DOMAIN x.segs : ValidSeg(x.segs[i])
  <2>1. \A i \in 1 .. n : SegType(x.segs[i]) BY <1>1 DEF FileOf
  <2> HIDE DEF n
  <2>2. \A i \in 1 .. n : SegLocal(x.segs[i]) <=> ValidSeg(x.segs[i]) BY <2>1, LocalValid
  <2> QED BY <1>2, <2>2
<1>11. A <=> Apart([i \in DOMAIN x.segs |-> SegPages(x.segs[i])]) BY <1>2 DEF Apart
<1>12. Cover(x, n) = UNION {SegPages(x.segs[i]) : i \in DOMAIN x.segs} BY <1>2 DEF Cover
<1>13. Heads(x, n, c) => n > 0
  <2> HIDE DEF n, c
  <2>1. EXB_MAX_SEGS \in Nat BY ExbAssumption
  <2> QED BY <2>1 DEF Heads
<1>14. ValidCaps(x) <=> K2 /\ (c = 0 => x.cap_off = 0)
  <2>1. ValidCaps(x) <=> K2 /\ (x.caps = <<>> => x.cap_off = 0) BY Zenon DEF ValidCaps
  <2> HIDE DEF c, K2
  <2> QED BY <1>2, <2>1
<1>15. ValidImage(x) <=>
        /\ x.size \in EXB_HEADER_SIZE .. EXB_MAX_FILE /\ x.head = "ok"
        /\ n \in 1 .. EXB_MAX_SEGS /\ c <= EXB_MAX_CAPS
        /\ (\A i \in DOMAIN x.segs : ValidSeg(x.segs[i])) /\ C
        /\ Apart([i \in DOMAIN x.segs |-> SegPages(x.segs[i])])
        /\ N /\ E2 /\ ValidCaps(x)
  BY <1>12, Zenon DEF ValidImage
<1> HIDE DEF K, K2, E2, C, N, n, c, L, A
<1>16. ValidImage(x) <=> Heads(x, n, c) /\ L /\ C /\ A /\ N /\ E2 /\ K2
  BY <1>10, <1>11, <1>14, <1>15, Zenon DEF Heads
<1>17. Accepted(x) <=> Heads(x, n, c) /\ RangesOk(x, n, c) /\ PagePairs(x, n) /\ Bounded(x, n) /\ L /\ E2 /\ K2
  BY <1>3, <1>4, <1>5, <1>6, Zenon
<1> QED BY <1>7, <1>8, <1>9, <1>13, <1>16, <1>17

\* An accepted file can be loaded: its pieces lie in user space, apart.
LEMMA AcceptedLoads ==
  ASSUME NEW x, Accepted(x)
  PROVE  Loadable(InfoOf(x))
<1> DEFINE P == Pieces(InfoOf(x))
           n == Len(x.segs)
           c == Len(x.caps)
           lo == EXB_VA_MIN \div EXB_PAGE
           hi == EXB_VA_LIMIT \div EXB_PAGE
           at == [i \in DOMAIN P |-> Span(P[i].va, P[i].pages)]
<1>1. x \in Files /\ FileOf(x, n, c) BY FileIs DEF Accepted
<1>2. n \in Nat /\ DOMAIN x.segs = 1 .. n /\ \A i \in 1 .. n : SegType(x.segs[i]) BY <1>1 DEF FileOf
<1>3. PiecesAre(x, P, n) BY PiecesOf
<1>4. Heads(x, n, c) /\ PagePairs(x, n) /\ \A i \in 1 .. n : SegLocal(x.segs[i])
  <2>1. TablesOk(x) /\ \A i \in DOMAIN x.segs : SegOk(x, i) BY DEF Accepted
  <2> HIDE DEF n, c
  <2> QED BY <1>1, <2>1, SegParts
<1>5. n >= 1 /\ n <= EXB_MAX_SEGS /\ EXB_MAX_SEGS \in Nat
  <2> HIDE DEF n, c
  <2>1. EXB_MAX_SEGS \in Nat /\ n \in 1 .. EXB_MAX_SEGS BY <1>4, ExbAssumption DEF Heads
  <2> QED BY <1>2, <2>1
<1> HIDE DEF n, c, P
<1>6. \A i, j \in 1 .. n : i # j => SegPages(x.segs[i]) \cap SegPages(x.segs[j]) = {}
  BY <1>2, <1>4, PairsPages
<1>7. \A i \in 1 .. n : ValidSeg(x.segs[i]) BY <1>2, <1>4, LocalValid
<1>8. \A i \in 1 .. n : SegPages(x.segs[i]) # {} /\ SegPages(x.segs[i]) \subseteq Units(lo, hi)
  BY <1>7 DEF ValidSeg
<1>9. /\ n + 1 \in Nat /\ Len(P) = n + 1 /\ DOMAIN P = 1 .. (n + 1)
      /\ \A i \in 1 .. n : P[i].va = x.segs[i].vaddr \div EXB_PAGE /\ P[i].pages = Pages(x.segs[i])
  BY <1>2, <1>3 DEF PiecesAre
<1>10. PICK st \in 1 .. EXB_MAX_STACK_PAGES : P[n + 1].va = UserTop - 1 - st /\ P[n + 1].pages = st
  BY <1>3 DEF PiecesAre
<1>11. ASSUME NEW i \in 1 .. n PROVE at[i] = SegPages(x.segs[i])
  <2>1. SegPages(x.segs[i]) = Span(x.segs[i].vaddr \div EXB_PAGE, Pages(x.segs[i]))
    BY <1>2, <1>4, SegSpan DEF SegType, SegLocal
  <2>2. i \in DOMAIN P BY <1>2, <1>9
  <2> QED BY <1>9, <2>1, <2>2
<1>12. at[n + 1] = Span(UserTop - 1 - st, st)
  <2>1. n + 1 \in DOMAIN P BY <1>2, <1>9
  <2> QED BY <1>10, <2>1
<1>13. DOMAIN at = 1 .. (n + 1) BY <1>9
<1> HIDE DEF at
<1>14. /\ lo \in Nat /\ hi \in Nat /\ hi <= UserTop - 1 - EXB_MAX_STACK_PAGES /\ EXB_MAX_STACK_PAGES \in Nat
       /\ UserTop \in Nat /\ UserBase \in Nat /\ EXB_PAGE \in Nat /\ EXB_PAGE > 0
  BY ImageRange, StackRoom, FanFacts
<1>15. lo = UserBase
  <2>1. EXB_VA_MIN = EXB_PAGE * lo BY ImageRange
  <2>2. EXB_VA_MIN = UserBase * EXB_PAGE BY SpacesAssumption
  <2> DEFINE b == EXB_PAGE
             u == UserBase
  <2> HIDE DEF b, u, lo
  <2>3. b \in Nat /\ b > 0 /\ u \in Nat /\ lo \in Nat /\ b * lo = u * b BY <1>14, <2>1, <2>2 DEF b, u
  <2>4. u * b = b * u BY <2>3, SMTT(20)
  <2>5. (u < lo <=> b * u < b * lo) /\ b * u \in Nat BY <2>3, MulLess
  <2>6. (lo < u <=> b * lo < b * u) BY <2>3, MulLess
  <2>7. ~(b * u < b * lo) /\ ~(b * lo < b * u) BY <2>3, <2>4, <2>5
  <2>8. lo = u BY <2>3, <2>5, <2>6, <2>7
  <2> QED BY <2>8 DEF u
<1> HIDE DEF lo, hi
<1>16. UserBase <= hi
  <2>1. 1 \in 1 .. n BY <1>2, <1>5
  <2>2. PICK p : p \in SegPages(x.segs[1]) BY <1>8, <2>1
  <2>3. p \in Units(lo, hi) BY <1>8, <2>1, <2>2
  <2> QED BY <1>14, <1>15, <2>3 DEF Units
<1>17. st \in Nat /\ st >= 1 /\ st <= EXB_MAX_STACK_PAGES BY <1>14
<1> DEFINE a == UserTop - 1 - st
<1>18. a \in Int /\ hi <= a /\ UserBase <= a /\ a + st - 1 = UserTop - 2 BY <1>14, <1>16, <1>17
<1> HIDE DEF a
<1>19. at[n + 1] = a .. (UserTop - 2)
  <2>1. at[n + 1] = Span(a, st) BY <1>12 DEF a
  <2> QED BY <1>18, <2>1 DEF Span
<1>20. at[n + 1] # {} /\ at[n + 1] \subseteq UserBase .. (UserTop - 2)
  <2>1. a \in a .. (UserTop - 2) BY <1>14, <1>17, <1>18
  <2>2. \A p \in a .. (UserTop - 2) : p \in UserBase .. (UserTop - 2) BY <1>14, <1>18
  <2> QED BY <1>19, <2>1, <2>2
<1>21. ASSUME NEW i \in 1 .. n
       PROVE  /\ at[i] # {} /\ at[i] \subseteq UserBase .. (UserTop - 2)
              /\ at[i] \cap at[n + 1] = {}
  <2>1. at[i] # {} /\ at[i] \subseteq Units(lo, hi) BY <1>8, <1>11
  <2>2. \A p \in Units(lo, hi) : p \in UserBase .. (UserTop - 2) /\ p \notin a .. (UserTop - 2)
    BY <1>14, <1>15, <1>17, <1>18 DEF Units
  <2> QED BY <1>19, <2>1, <2>2
<1>22. \A i \in DOMAIN at : i \in 1 .. n \/ i = n + 1 BY <1>2, <1>13
<1>23. \A i \in DOMAIN at : at[i] # {} /\ at[i] \subseteq UserBase .. (UserTop - 2) BY <1>20, <1>21, <1>22
<1>24. Apart(at)
  <2> SUFFICES ASSUME NEW i \in DOMAIN at, NEW j \in DOMAIN at, i # j PROVE at[i] \cap at[j] = {} BY DEF Apart
  <2>1. CASE i \in 1 .. n /\ j \in 1 .. n BY <1>6, <1>11, <2>1
  <2>2. CASE i \in 1 .. n /\ j = n + 1 BY <1>21, <2>2
  <2>3. CASE j \in 1 .. n /\ i = n + 1 BY <1>21, <2>3
  <2> QED BY <1>22, <2>1, <2>2, <2>3
<1>25. Len(at) <= EXB_MAX_SEGS + 1
  <2>1. Len(at) = n + 1
    <3>1. at \in [1 .. (n + 1) -> {at[i] : i \in 1 .. (n + 1)}] BY <1>13 DEF at
    <3> DEFINE T == {at[i] : i \in 1 .. (n + 1)}
    <3> HIDE DEF T
    <3>2. at \in [1 .. (n + 1) -> T] BY <3>1 DEF T
    <3>3. at \in Seq(T) BY <1>9, <3>2
    <3> QED BY <1>9, <3>2, <3>3
  <2> QED BY <1>2, <1>5, <2>1
<1> QED BY <1>23, <1>24, <1>25 DEF Loadable, at, P

\* ParserExact, for every set of files: the parser's comparisons of offsets and
\* addresses accept the images of the format and no other file, and whatever
\* they accept the loader can place.
THEOREM ParserExactAlways == Spec => []ParserExact
<1>1. ParserExact
  <2> SUFFICES ASSUME NEW x \in RawImages
               PROVE  LET p == exb_parse(x) IN
                      /\ (p.rc = "ok") = ValidImage(x)
                      /\ p.rc = "ok" => Loadable(p.info)
    BY DEF ParserExact, Misjudged
  <2> DEFINE p == exb_parse(x)
  <2>1. x \in Files BY SpacesAssumption
  <2>2. p.rc = parse_impl(x) /\ (p.rc = "ok" => p.info = InfoOf(x)) BY DEF exb_parse
  <2> HIDE DEF p
  <2>3. p.rc = "ok" <=> Accepted(x) BY <2>1, <2>2, ParseOk DEF Accepted
  <2>4. Accepted(x) <=> ValidImage(x) BY <2>1, ParserValid
  <2>5. p.rc = "ok" => Loadable(p.info) BY <2>2, <2>3, AcceptedLoads
  <2>6. (p.rc = "ok") = ValidImage(x)
    <3>1. ValidImage(x) \in BOOLEAN BY DEF ValidImage
    <3> QED BY <2>3, <2>4, <3>1
  <2> QED BY <2>5, <2>6 DEF p
<1> QED BY <1>1, PTL

=============================================================================
