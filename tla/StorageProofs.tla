--------------------------- MODULE StorageProofs ---------------------------
(***************************************************************************)
(* The disk, for any machine, any queue depth, any sizes of namespace and  *)
(* bounce page, and any number of scans, requests and attempts to open it: *)
(* the scan leaves no trace (ScanInv), the rings stay in step (Base and    *)
(* RingsOK) and what BLK_OK says of the data is so (and DataOK); then the  *)
(* table of the scan, which is exact when it is finished (TableInv), and   *)
(* the registers of the controller that is opened (RegsInv).               *)
(***************************************************************************)
EXTENDS Storage, SequenceTheorems, WellFoundedInduction, FiniteSetTheorems, TLAPS

-----------------------------------------------------------------------------
(* BAR registers.                                                          *)

\* Division with a remainder.
LEMMA DivMod ==
  ASSUME NEW a \in Nat, NEW b \in Nat, b > 0
  PROVE  /\ a \div b \in Nat /\ a % b \in Nat /\ a % b < b
         /\ a = b * (a \div b) + (a % b)
<1>1. a \div b \in Nat OBVIOUS
<1>2. a % b \in Nat /\ a % b < b OBVIOUS
<1>3. a = b * (a \div b) + (a % b) BY SMTT(30)
<1> QED BY <1>1, <1>2, <1>3

\* A register that holds what can be written to it: a multiple of the grain
\* with the flags is kept when it is written again.
LEMMA WrittenAgain ==
  ASSUME NEW R \in Nat, NEW G \in Nat, NEW F \in Nat, NEW v \in Nat,
         F < G, R % G = 0, R > 0
  PROVE  LET x == (v - (v % G)) % R
         IN  (((x + F) - ((x + F) % G)) % R) + F = x + F
<1> DEFINE y == v - (v % G)
           x == y % R
<1>1. G > 0 OBVIOUS
<1>2. R = G * (R \div G) /\ R \div G \in Nat BY <1>1, DivMod
<1>3. y = G * (v \div G) /\ v \div G \in Nat BY <1>1, DivMod
<1>4. y \in Nat BY <1>3
<1> HIDE DEF y
<1>5. x \in Nat /\ x < R /\ y = R * (y \div R) + x /\ y \div R \in Nat BY <1>4, DivMod
<1> HIDE DEF x
<1> DEFINE k == (v \div G) - (R \div G) * (y \div R)
<1>6. k \in Int BY <1>2, <1>3, <1>5
<1>7. x = G * k
  <2> DEFINE r == R \div G
             u == v \div G
             w == y \div R
  <2>2. r \in Nat /\ u \in Nat /\ w \in Nat /\ R = G * r /\ y = G * u /\ y = R * w + x
    BY <1>2, <1>3, <1>5
  <2> HIDE DEF r, u, w
  <2>3. x = G * u - (G * r) * w BY <2>2, <1>5
  <2>4. (G * r) * w = G * (r * w) BY <2>2
  <2>5. G * u - G * (r * w) = G * (u - r * w) BY <2>2
  <2> QED BY <2>3, <2>4, <2>5 DEF r, u, w
<1> HIDE DEF k
<1>8. (x + F) % G = F
  <2>1. k \in Nat BY <1>1, <1>5, <1>6, <1>7
  <2> QED BY <1>1, <1>7, <2>1
<1>9. x % R = x BY <1>5
<1>10. (x + F) - F = x BY <1>5
<1>11. (((x + F) - ((x + F) % G)) % R) + F = x + F BY <1>8, <1>9, <1>10
<1> QED BY <1>11 DEF x, y

\* Writing back what the firmware left changes nothing.
LEMMA WriteBack ==
  ASSUME NEW b, IsBar(b)
  PROVE  Holds(b, Firmware(b)) = Firmware(b)
<1> DEFINE v == IF b.kind = "high" THEN b.base \div RegMod ELSE b.base % RegMod
<1>1. v \in Nat /\ Flags(b) \in Nat /\ Grain(b) \in Nat /\ RegMod \in Nat /\ RegMod > 0
  BY PciAssumption DEF IsBar, Flags
<1>2. Flags(b) < Grain(b) /\ RegMod % Grain(b) = 0 BY DEF IsBar
<1>3. Firmware(b) = ((v - (v % Grain(b))) % RegMod) + Flags(b) BY DEF Firmware, Holds
<1>4. Holds(b, Firmware(b)) =
        ((Firmware(b) - (Firmware(b) % Grain(b))) % RegMod) + Flags(b)
  BY DEF Holds
<1> DEFINE G == Grain(b)
           F == Flags(b)
           x == (v - (v % G)) % RegMod
<1> HIDE DEF v, G, F
<1>5. (((x + F) - ((x + F) % G)) % RegMod) + F = x + F
  BY <1>1, <1>2, WrittenAgain DEF G, F
<1> QED BY <1>3, <1>4, <1>5 DEF G, F

-----------------------------------------------------------------------------
(* The scan.                                                               *)

Functions == DOMAIN hw.fns
Scannable == {f \in Functions : Turn(f) \in Nat}
Bars(f) == DOMAIN hw.fns[f].bars

IsConf(c) == c = [cmd |-> c.cmd, status |-> c.status, reg |-> c.reg]

\* Configuration space has the machine's functions and registers, and no
\* status bit was lost.
ConfOK ==
    /\ hw \in Machines
    /\ conf = [f \in Functions |-> conf[f]]
    /\ \A f \in Functions :
         /\ IsConf(conf[f])
         /\ conf[f].reg = [i \in Bars(f) |-> conf[f].reg[i]]
         /\ conf[f].status = hw.fns[f].status

Frames == [todo : SUBSET Scannable, slot : Nat]
Sizing == {"ones_lo", "back_lo", "ones_hi", "back_hi", "restore"}

\* The calls of scan_bus: each has a function in hand except the innermost
\* one between two functions.
StackOK ==
    scan.pc \notin {"off", "done"} =>
        /\ scan.stack \in Seq(Frames) /\ scan.stack # <<>>
        /\ \A j \in 1 .. Len(scan.stack) :
             j < Len(scan.stack) \/ scan.pc # "function" => scan.stack[j].todo # {}

\* The BAR whose register may hold ones.
Disturbed(f, i) ==
    /\ scan.pc \in {"back_lo", "back_hi"} /\ f = At
    /\ i = IF scan.pc = "back_lo" THEN scan.i ELSE scan.i + 1

\* The others hold what the firmware put there.
RegistersOK ==
    \A f \in Functions : \A i \in Bars(f) :
        conf[f].reg[i] = Firmware(hw.fns[f].bars[i]) \/ Disturbed(f, i)

\* What the scan remembers while it sizes a BAR, to put back.
SizingOK ==
    scan.pc \in Sizing =>
        /\ scan = [pc |-> scan.pc, stack |-> scan.stack, i |-> scan.i, cmd |-> scan.cmd,
                   status |-> scan.status, irq |-> scan.irq, raw_lo |-> scan.raw_lo,
                   raw_hi |-> scan.raw_hi, m_lo |-> scan.m_lo, m_hi |-> scan.m_hi]
        /\ scan.i \in Nat \ {0} /\ scan.i <= BarCount(Device)
        /\ scan.raw_lo = Firmware(Device.bars[scan.i])
        /\ Is64(scan.raw_lo) => /\ scan.i + 1 <= BarCount(Device)
                                /\ scan.raw_hi = Firmware(Device.bars[scan.i + 1])
        /\ scan.pc \in {"ones_hi", "back_hi"} => Is64(scan.raw_lo)
        /\ ~irq /\ "mem" \notin conf[At].cmd
        /\ scan.irq = hw.irq /\ Device.cmd \subseteq scan.cmd
        /\ \A f \in Functions \ {At} : hw.fns[f].cmd \subseteq conf[f].cmd

\* Otherwise there is nothing to put back.
QuietOK ==
    scan.pc \notin Sizing =>
        /\ scan.pc \in {"off", "done", "function", "bar"}
        /\ scan.pc = "function" => scan = [pc |-> "function", stack |-> scan.stack]
        /\ scan.pc = "bar" => /\ scan = [pc |-> "bar", stack |-> scan.stack, i |-> scan.i]
                              /\ scan.i \in Nat \ {0}
        /\ irq = hw.irq
        /\ \A f \in Functions : hw.fns[f].cmd \subseteq conf[f].cmd

\* The inductive invariant of the scan.
ScanInv == ConfOK /\ StackOK /\ RegistersOK /\ SizingOK /\ QuietOK

\* It says what the property asks.
LEMMA ScanInvImplies == ScanInv => ScanInvisible
<1> SUFFICES ASSUME ScanInv PROVE ScanInvisible OBVIOUS
<1> USE DEF ScanInv
<1>1. DOMAIN conf = Functions /\ \A f \in Functions : DOMAIN conf[f].reg = Bars(f)
  BY DEF ConfOK
<1>2. \A f \in Functions : \A i \in Bars(f) :
        conf[f].reg[i] # Firmware(hw.fns[f].bars[i]) => "mem" \notin conf[f].cmd /\ ~irq
  BY DEF RegistersOK, SizingOK, Disturbed, Sizing
<1>3. \A f \in Functions : conf[f].status = hw.fns[f].status BY DEF ConfOK
<1>4. scan.pc \in {"off", "done"} =>
         irq = hw.irq /\ \A f \in Functions : hw.fns[f].cmd \subseteq conf[f].cmd
  BY DEF QuietOK, Sizing
<1>5. scan.pc \in {"off", "done"} =>
        \A f \in Functions : \A i \in Bars(f) : conf[f].reg[i] = Firmware(hw.fns[f].bars[i])
  BY DEF RegistersOK, Disturbed
<1> QED BY <1>1, <1>2, <1>3, <1>4, <1>5 DEF ScanInvisible

\* A set of functions has a first one in the order of the loops.
LEMMA NextOfIn ==
  ASSUME NEW todo, todo # {}, \A f \in todo : Turn(f) \in Nat
  PROVE  NextOf(todo) \in todo
<1> DEFINE T == {Turn(f) : f \in todo}
<1>1. T \subseteq Nat /\ T # {} OBVIOUS
<1>2. PICK x \in T : \A y \in T : ~(<<y, x>> \in OpToRel(<, Nat))
  BY <1>1, NatLessThanWellFounded, WFMin
<1>a. OpToRel(<, Nat) = {ss \in Nat \X Nat : ss[1] < ss[2]} BY DEF OpToRel
<1>b. \A y \in T : ~(y < x) BY <1>1, <1>2, <1>a
<1>3. \A y \in T : x <= y BY <1>1, <1>b
<1>4. \E f \in todo : \A g \in todo : Turn(f) <= Turn(g) BY <1>3
<1> QED BY <1>4 DEF NextOf

\* What scan_bus meets on a bus.
LEMMA FunctionsOnBus ==
  ASSUME NEW bus
  PROVE  FunctionsOn(bus) \in SUBSET Scannable
<1> SUFFICES ASSUME NEW f \in FunctionsOn(bus) PROVE f \in Scannable OBVIOUS
<1>1. f \in Functions /\ f \in {bus} \X (0 .. (Devs - 1)) \X (0 .. (Fns - 1))
  BY DEF FunctionsOn, Functions
<1>2. f[2] \in 0 .. (Devs - 1) /\ f[3] \in 0 .. (Fns - 1) BY <1>1
<1>3. f[2] \in Nat /\ f[3] \in Nat BY <1>2
<1>4. f[2] * Fns \in Nat BY <1>3, PciAssumption
<1> QED BY <1>1, <1>3, <1>4 DEF Turn, Scannable

\* The innermost call of scan_bus and the function it has in hand.
LEMMA TopFrame ==
  ASSUME StackOK, scan.pc \notin {"off", "done"}
  PROVE  /\ scan.stack \in Seq(Frames) /\ Len(scan.stack) \in Nat \ {0}
         /\ Top = scan.stack[Len(scan.stack)] /\ Top \in Frames
         /\ scan.pc # "function" => Top.todo # {}
         /\ Top.todo # {} => At \in Functions /\ At \in Top.todo
<1>1. scan.stack \in Seq(Frames) /\ Len(scan.stack) \in Nat \ {0} BY DEF StackOK, Frames
<1>2. Top = scan.stack[Len(scan.stack)] /\ Top \in Frames BY <1>1 DEF Top, Last
<1>3. scan.pc # "function" => Top.todo # {} BY <1>1, <1>2 DEF StackOK
<1>4. Top.todo # {} => At \in Top.todo BY <1>2, NextOfIn DEF At, Frames, Scannable
<1>5. Top.todo \subseteq Functions BY <1>2 DEF Frames, Scannable
<1> QED BY <1>1, <1>2, <1>3, <1>4, <1>5

\* The fields of an entry of configuration space after a write to a BAR.
LEMMA RegFields ==
  ASSUME NEW c, IsConf(c), NEW x
  PROVE  /\ IsConf([c EXCEPT !.reg = x])
         /\ [c EXCEPT !.reg = x].cmd = c.cmd /\ [c EXCEPT !.reg = x].status = c.status
         /\ [c EXCEPT !.reg = x].reg = x
  BY DEF IsConf

\* And after a write to the command register that carries no status bit.
LEMMA CmdFields ==
  ASSUME NEW c, IsConf(c), NEW x, NEW s
  PROVE  /\ IsConf(CmdWritten(c, CommandOnly(x, s)))
         /\ CmdWritten(c, CommandOnly(x, s)).cmd = x
         /\ CmdWritten(c, CommandOnly(x, s)).status = c.status
         /\ CmdWritten(c, CommandOnly(x, s)).reg = c.reg
<1> DEFINE d == [c EXCEPT !.cmd = x]
           e == [d EXCEPT !.status = c.status]
<1>1. IsConf(d) /\ d.cmd = x /\ d.reg = c.reg BY DEF IsConf
<1>2. c.status \ {} = c.status OBVIOUS
<1>3. CmdWritten(c, CommandOnly(x, s)) = [c EXCEPT !.cmd = x, !.status = c.status \ {}]
  BY DEF CmdWritten, CommandOnly
<1>4. CmdWritten(c, CommandOnly(x, s)) = e
  BY <1>2, <1>3
<1> HIDE DEF d
<1>5. IsConf(e) /\ e.cmd = d.cmd /\ e.status = c.status /\ e.reg = d.reg BY <1>1 DEF IsConf
<1> QED BY <1>1, <1>4, <1>5

RegisterWrite(at, n, v) ==
    conf' = [conf EXCEPT ![at] = [conf[at] EXCEPT !.reg = [conf[at].reg EXCEPT ![n] = v]]]

\* A write to a BAR register.
LEMMA WriteOne ==
  ASSUME ConfOK, hw' = hw, NEW at \in Functions, NEW n \in Bars(at), NEW v,
         RegisterWrite(at, n, v)
  PROVE  /\ ConfOK'
         /\ \A f \in Functions :
              /\ conf'[f].cmd = conf[f].cmd
              /\ \A i \in Bars(f) :
                   conf'[f].reg[i] = IF f = at /\ i = n THEN v ELSE conf[f].reg[i]
<1> USE DEF ConfOK
<1> DEFINE c == [conf[at] EXCEPT !.reg = [conf[at].reg EXCEPT ![n] = v]]
<1>1. conf' = [conf EXCEPT ![at] = c] BY DEF RegisterWrite
<1>2. /\ IsConf(c) /\ c.cmd = conf[at].cmd /\ c.status = conf[at].status
      /\ c.reg = [conf[at].reg EXCEPT ![n] = v]
  <2>1. IsConf(conf[at]) OBVIOUS
  <2> QED BY <2>1, RegFields
<1>3. [conf[at].reg EXCEPT ![n] = v] = [i \in Bars(at) |-> IF i = n THEN v ELSE conf[at].reg[i]]
  OBVIOUS
<1>4. conf' = [f \in Functions |-> IF f = at THEN c ELSE conf[f]] BY <1>1
<1> HIDE DEF c
<1>5. Functions' = Functions /\ \A f : Bars(f)' = Bars(f) BY DEF Functions, Bars
<1>6. /\ c.cmd = conf[at].cmd /\ c.status = conf[at].status
      /\ c.reg = [i \in Bars(at) |-> IF i = n THEN v ELSE conf[at].reg[i]]
      /\ IsConf(c)
      /\ c.reg = [i \in Bars(at) |-> c.reg[i]]
  BY <1>2, <1>3
<1>7. \A f \in Functions : conf'[f] = IF f = at THEN c ELSE conf[f] BY <1>4
<1>8. conf' = [f \in Functions |-> conf'[f]] BY <1>4
<1>9. ASSUME NEW f \in Functions
      PROVE  /\ IsConf(conf'[f]) /\ conf'[f].status = hw.fns[f].status
             /\ conf'[f].reg = [i \in Bars(f) |-> conf'[f].reg[i]]
             /\ conf'[f].cmd = conf[f].cmd
             /\ \A i \in Bars(f) :
                  conf'[f].reg[i] = IF f = at /\ i = n THEN v ELSE conf[f].reg[i]
  <2>1. CASE f = at
    <3>1. conf'[f] = c BY <1>7, <2>1
    <3>2. \A i \in Bars(at) : c.reg[i] = IF i = n THEN v ELSE conf[at].reg[i] BY <1>6
    <3>3. IsConf(conf'[f]) /\ conf'[f].status = hw.fns[f].status /\ conf'[f].cmd = conf[f].cmd
      BY <1>6, <2>1, <3>1
    <3>4. conf'[f].reg = [i \in Bars(f) |-> conf'[f].reg[i]]
      BY <1>6, <2>1, <3>1
    <3>5. \A i \in Bars(f) : conf'[f].reg[i] = IF f = at /\ i = n THEN v ELSE conf[f].reg[i]
      BY <2>1, <3>1, <3>2
    <3> QED BY <3>3, <3>4, <3>5
  <2>2. CASE f # at
    <3>1. conf'[f] = conf[f] BY <1>7, <2>2
    <3> QED BY <2>2, <3>1
  <2> QED BY <2>1, <2>2
<1>10. ConfOK' BY <1>5, <1>8, <1>9
<1> QED BY <1>9, <1>10

\* A write to a command register that carries no status bit.
LEMMA CommandOne ==
  ASSUME ConfOK, hw' = hw, NEW at \in Functions, NEW w, NEW s,
         conf' = [conf EXCEPT ![at] = CmdWritten(@, CommandOnly(w, s))]
  PROVE  /\ ConfOK'
         /\ \A f \in Functions :
              /\ conf'[f].cmd = IF f = at THEN w ELSE conf[f].cmd
              /\ conf'[f].reg = conf[f].reg
<1> USE DEF ConfOK
<1> DEFINE c == CmdWritten(conf[at], CommandOnly(w, s))
<1>2. /\ c.cmd = w /\ c.status = conf[at].status /\ c.reg = conf[at].reg
      /\ IsConf(c)
  <2>1. IsConf(conf[at]) OBVIOUS
  <2> QED BY <2>1, CmdFields
<1>3. conf' = [f \in Functions |-> IF f = at THEN c ELSE conf[f]] OBVIOUS
<1> HIDE DEF c
<1>4. Functions' = Functions /\ \A f : Bars(f)' = Bars(f) BY DEF Functions, Bars
<1>5. \A f \in Functions : conf'[f] = IF f = at THEN c ELSE conf[f] BY <1>3
<1>6. conf' = [f \in Functions |-> conf'[f]] BY <1>3
<1>a. \A f \in Functions :
        /\ IsConf(conf'[f]) /\ conf'[f].status = hw.fns[f].status
        /\ conf'[f].reg = [i \in Bars(f) |-> conf'[f].reg[i]]
  BY <1>2, <1>5
<1>7. ConfOK' BY <1>4, <1>6, <1>a
<1>8. ASSUME NEW f \in Functions
      PROVE  conf'[f].cmd = (IF f = at THEN w ELSE conf[f].cmd) /\ conf'[f].reg = conf[f].reg
  BY <1>2, <1>5
<1> QED BY <1>7, <1>8

\* What the assumption on the machines gives.
LEMMA MachineFacts ==
  ASSUME ConfOK, NEW f \in Functions
  PROVE  /\ hw.irq \in BOOLEAN
         /\ BarCount(hw.fns[f]) \in Nat
         /\ \A i \in Nat \ {0} : i <= BarCount(hw.fns[f]) => i \in Bars(f)
         /\ \A i \in Bars(f) : IsBar(hw.fns[f].bars[i])
<1>1. IsFunction(hw.fns[f]) /\ hw.irq \in BOOLEAN BY PciAssumption DEF ConfOK, Functions
<1>2. BarCount(hw.fns[f]) \in Nat BY <1>1, PciAssumption DEF BarCount, IsFunction
<1> QED BY <1>1, <1>2 DEF IsFunction, Bars

\* Every register is the firmware's.
Restored == \A f \in Functions : \A i \in Bars(f) : conf[f].reg[i] = Firmware(hw.fns[f].bars[i])

\* A step of the scan that writes nothing.
LEMMA QuietScan ==
  ASSUME ScanInv, UNCHANGED <<hw, conf, irq>>, scan.pc \notin Sizing, scan'.pc \notin Sizing,
         StackOK', scan'.pc \in {"off", "done", "function", "bar"},
         scan'.pc = "function" => scan' = [pc |-> "function", stack |-> scan'.stack],
         scan'.pc = "bar" => /\ scan' = [pc |-> "bar", stack |-> scan'.stack, i |-> scan'.i]
                             /\ scan'.i \in Nat \ {0}
  PROVE  ScanInv'
<1> USE DEF ScanInv
<1>1. Functions' = Functions /\ \A f : Bars(f)' = Bars(f) BY DEF Functions, Bars
<1>2. ConfOK' BY <1>1 DEF ConfOK
<1>3. Restored BY DEF RegistersOK, Disturbed, Sizing, Restored
<1>4. RegistersOK' BY <1>1, <1>3 DEF RegistersOK, Restored
<1>5. SizingOK' BY DEF SizingOK
<1>6. QuietOK' BY <1>1 DEF QuietOK
<1> QED BY <1>2, <1>4, <1>5, <1>6

\* The scan begins.
LEMMA PciScanInv ==
  ASSUME ScanInv, pci_scan
  PROVE  ScanInv'
<1>1. Functions' = Functions /\ Scannable' = Scannable
  BY DEF pci_scan, Functions, Scannable
<1>2. scan' = [pc |-> "function", stack |-> <<[todo |-> FunctionsOn(0), slot |-> 0]>>]
  BY DEF pci_scan
<1>3. [todo |-> FunctionsOn(0), slot |-> 0] \in Frames BY FunctionsOnBus DEF Frames
<1>4. scan'.stack \in Seq(Frames) /\ Len(scan'.stack) = 1 BY <1>2, <1>3
<1>5. StackOK' BY <1>1, <1>2, <1>4 DEF StackOK, Frames
<1> QED BY <1>2, <1>5, QuietScan DEF pci_scan, Sizing

\* The scan is over, or its result is taken.
LEMMA ScanOffInv ==
  ASSUME ScanInv, UNCHANGED <<hw, conf, irq>>, scan.pc = "done", scan' = [pc |-> "off"]
  PROVE  ScanInv'
<1>1. StackOK' BY DEF StackOK
<1> QED BY <1>1, QuietScan DEF Sizing

\* The table is full: the next function is passed over.
LEMMA OverflowInv ==
  ASSUME ScanInv, ScanOverflow
  PROVE  ScanInv'
<1> USE DEF ScanInv, ScanOverflow
<1>1. Scannable' = Scannable BY DEF Functions, Scannable
<1> DEFINE n == Len(scan.stack)
<1>2. /\ scan.stack \in Seq(Frames) /\ n \in Nat \ {0}
      /\ Top = scan.stack[n] /\ Top \in Frames
      /\ scan = [pc |-> "function", stack |-> scan.stack]
  BY TopFrame DEF QuietOK, Sizing
<1>3. [scan.stack[n] EXCEPT !.todo = scan.stack[n].todo \ {At}] \in Frames
  BY <1>2 DEF Frames
<1> DEFINE new == [scan.stack EXCEPT ![n] = [scan.stack[n] EXCEPT !.todo = scan.stack[n].todo \ {At}]]
<1>4. scan' = [scan EXCEPT !.stack = new] OBVIOUS
<1>5. scan' = [pc |-> "function", stack |-> new] BY <1>2, <1>4
<1>6. /\ new \in Seq(Frames) /\ Len(new) = n
      /\ \A j \in 1 .. n : j # n => new[j] = scan.stack[j]
  BY <1>2, <1>3
<1> HIDE DEF new
<1>a. \A j \in 1 .. n : j < n => new[j].todo # {} BY <1>2, <1>6 DEF StackOK
<1>b. scan'.stack = new /\ scan'.pc = "function" BY <1>5
<1>7. StackOK' BY <1>1, <1>2, <1>6, <1>a, <1>b DEF StackOK, Frames
<1> QED BY <1>5, <1>7, QuietScan DEF Sizing

\* A function is entered in the table; behind a bridge, a bus is next.
LEMMA ScanFunctionInv ==
  ASSUME ScanInv, scan_function
  PROVE  ScanInv'
<1> USE DEF ScanInv
<1>1. /\ scan.pc = "function" /\ Top.todo # {} /\ UNCHANGED <<hw, conf, irq>>
      /\ Scannable' = Scannable
  BY DEF scan_function, Functions, Scannable
<1> DEFINE n == Len(scan.stack)
           slot == Len(g_devs) + 1
           here == [scan.stack EXCEPT ![n].slot = slot]
           enters == IsBridge(Device) /\ UnseenBus(Device.secondary)
           inner == [todo |-> FunctionsOn(Device.secondary), slot |-> 0]
<1>2. /\ scan.stack \in Seq(Frames) /\ n \in Nat \ {0}
      /\ Top = scan.stack[n] /\ Top \in Frames
      /\ scan = [pc |-> "function", stack |-> scan.stack]
  BY <1>1, TopFrame DEF QuietOK, Sizing
<1>3. [scan.stack[n] EXCEPT !.slot = slot] \in Frames
      /\ [scan.stack[n] EXCEPT !.slot = slot].todo = scan.stack[n].todo
  <2>1. slot \in Nat BY DEF scan_function
  <2> QED BY <1>2, <2>1 DEF Frames
<1>4. here = [scan.stack EXCEPT ![n] = [scan.stack[n] EXCEPT !.slot = slot]] OBVIOUS
<1>5. here \in Seq(Frames) /\ Len(here) = n /\ \A j \in 1 .. n : here[j].todo # {}
  <2>1. here \in Seq(Frames) /\ Len(here) = n BY <1>2, <1>3, <1>4
  <2>2. \A j \in 1 .. n : here[j].todo = scan.stack[j].todo BY <1>2, <1>3, <1>4
  <2>3. \A j \in 1 .. n : scan.stack[j].todo # {} BY <1>1, <1>2 DEF StackOK
  <2> QED BY <2>1, <2>2, <2>3
<1>6. scan' = IF enters THEN [scan EXCEPT !.stack = Append(here, inner)]
                        ELSE [pc |-> "bar", stack |-> here, i |-> 1]
  BY DEF scan_function
<1> HIDE DEF here, enters, inner
<1>7. CASE enters
  <2> DEFINE new == Append(here, inner)
  <2>0. scan' = [scan EXCEPT !.stack = new] BY <1>6, <1>7
  <2>a. scan = [pc |-> "function", stack |-> scan.stack] BY <1>2
  <2> HIDE DEF new
  <2>b. scan' = [pc |-> "function", stack |-> new] BY ONLY <2>0, <2>a
  <2>1. scan' = [pc |-> "function", stack |-> Append(here, inner)] BY <2>b DEF new
  <2>2. inner \in Frames BY FunctionsOnBus DEF Frames, inner
  <2>3. /\ Append(here, inner) \in Seq(Frames) /\ Len(Append(here, inner)) = n + 1
        /\ \A j \in 1 .. n : Append(here, inner)[j] = here[j]
    BY <1>2, <1>5, <2>2
  <2>4. scan'.stack = Append(here, inner) /\ scan'.pc = "function" BY <2>1
  <2>c. \A j \in 1 .. (n + 1) : j < n + 1 => new[j].todo # {} BY <1>2, <1>5, <2>3 DEF new
  <2>d. new \in Seq(Frames) /\ Len(new) = n + 1 /\ scan'.stack = new
    BY <2>3, <2>4 DEF new
  <2>5. StackOK' BY <1>1, <1>2, <2>4, <2>c, <2>d DEF StackOK, Frames
  <2> QED BY <1>1, <2>1, <2>4, <2>5, QuietScan DEF Sizing
<1>8. CASE ~enters
  <2>1. scan' = [pc |-> "bar", stack |-> here, i |-> 1] BY <1>6, <1>8
  <2>a. scan'.stack = here /\ scan'.pc = "bar" /\ here # <<>> BY <1>2, <1>5, <2>1
  <2>2. StackOK' BY <1>1, <1>5, <2>a DEF StackOK, Frames
  <2> QED BY <1>1, <2>1, <2>2, QuietScan DEF Sizing
<1> QED BY <1>7, <1>8

\* scan_bus returns.
LEMMA BusDoneInv ==
  ASSUME ScanInv, BusDone
  PROVE  ScanInv'
<1> USE DEF ScanInv
<1> DEFINE n == Len(scan.stack) - 1
           callers == Front(scan.stack)
<1>1. scan.pc = "function" /\ UNCHANGED <<hw, conf, irq>> /\ Scannable' = Scannable
  BY DEF BusDone, Functions, Scannable
<1>2. scan.stack \in Seq(Frames) /\ Len(scan.stack) \in Nat \ {0} BY <1>1, TopFrame
<1>3. n \in Nat /\ callers = SubSeq(scan.stack, 1, n) /\ n < Len(scan.stack)
  BY <1>2 DEF Front
<1>4. \A j \in 1 .. n : scan.stack[j] \in Frames /\ scan.stack[j].todo # {}
  <2>1. \A j \in 1 .. n : j \in 1 .. Len(scan.stack) /\ j < Len(scan.stack) BY <1>2
  <2>2. \A j \in 1 .. Len(scan.stack) : j < Len(scan.stack) => scan.stack[j].todo # {}
    BY <1>1 DEF StackOK
  <2>3. \A j \in 1 .. Len(scan.stack) : scan.stack[j] \in Frames BY <1>2
  <2> QED BY <2>1, <2>2, <2>3
<1> HIDE DEF n, callers
<1>5. callers \in Seq(Frames) BY <1>3, <1>4, SubSeqProperties
<1>6. Len(callers) = n /\ \A j \in 1 .. n : callers[j] = scan.stack[j] BY <1>2, <1>3
<1>7. scan' = IF callers = <<>> THEN [pc |-> "done"] ELSE [pc |-> "bar", stack |-> callers, i |-> 1]
  BY DEF BusDone, callers
<1>8. CASE callers = <<>>
  <2>1. StackOK' BY <1>7, <1>8 DEF StackOK
  <2> QED BY <1>1, <1>7, <1>8, <2>1, QuietScan DEF Sizing
<1>9. CASE callers # <<>>
  <2>1. scan' = [pc |-> "bar", stack |-> callers, i |-> 1] BY <1>7, <1>9
  <2>2. \A j \in 1 .. Len(callers) : callers[j].todo # {} BY <1>4, <1>6
  <2>3. scan'.stack = callers /\ scan'.pc = "bar" BY <2>1
  <2>4. StackOK' BY <1>1, <1>5, <1>9, <2>2, <2>3 DEF StackOK, Frames
  <2> QED BY <1>1, <2>1, <2>4, QuietScan DEF Sizing
<1> QED BY <1>8, <1>9

\* The BARs of a function are done, or one is passed over.
LEMMA BarsDoneInv ==
  ASSUME ScanInv, BarsDone \/ SkipBar
  PROVE  ScanInv'
<1> USE DEF ScanInv
<1>1. scan.pc = "bar" /\ UNCHANGED <<hw, conf, irq>> /\ Scannable' = Scannable
  BY DEF BarsDone, SkipBar, Functions, Scannable
<1> DEFINE n == Len(scan.stack)
<1>2. /\ scan.stack \in Seq(Frames) /\ n \in Nat \ {0}
      /\ Top = scan.stack[n] /\ Top \in Frames
      /\ scan = [pc |-> "bar", stack |-> scan.stack, i |-> scan.i] /\ scan.i \in Nat \ {0}
  BY <1>1, TopFrame DEF QuietOK, Sizing
<1>3. CASE BarsDone
  <2> DEFINE f == [todo |-> Top.todo \ {At}, slot |-> 0]
             new == [scan.stack EXCEPT ![n] = f]
  <2>1. scan' = [pc |-> "function", stack |-> new] BY <1>3 DEF BarsDone
  <2>2. f \in Frames BY <1>2 DEF Frames
  <2> HIDE DEF f
  <2>3. /\ new \in Seq(Frames) /\ Len(new) = n
        /\ \A j \in 1 .. n : j # n => new[j] = scan.stack[j]
    BY <1>2, <2>2
  <2> HIDE DEF new
  <2>4. \A j \in 1 .. n : j < n => new[j].todo # {} BY <1>1, <1>2, <2>3 DEF StackOK
  <2>5. scan'.stack = new /\ scan'.pc = "function" BY <2>1
  <2>6. StackOK' BY <1>1, <1>2, <2>3, <2>4, <2>5 DEF StackOK, Frames
  <2> QED BY <1>1, <2>1, <2>6, QuietScan DEF Sizing
<1>4. CASE SkipBar
  <2>1. scan' = [scan EXCEPT !.i = scan.i + 1] BY <1>4 DEF SkipBar
  <2>2. scan' = [pc |-> "bar", stack |-> scan.stack, i |-> scan.i + 1] BY <1>2, <2>1
  <2>3. StackOK' BY <1>1, <1>2, <2>2 DEF StackOK, Frames
  <2> QED BY <1>1, <1>2, <2>2, <2>3, QuietScan DEF Sizing
<1> QED BY <1>3, <1>4

\* The fields of the scan while it sizes a BAR.
SizingAt(pc, m_lo, m_hi) ==
    [pc |-> pc, stack |-> scan.stack, i |-> scan.i, cmd |-> scan.cmd,
     status |-> scan.status, irq |-> scan.irq, raw_lo |-> scan.raw_lo,
     raw_hi |-> scan.raw_hi, m_lo |-> m_lo, m_hi |-> m_hi]

\* A write to a register of the BAR that is sized: of ones, or of what it held.
LEMMA SizingWrite ==
  ASSUME ScanInv, hw' = hw, irq' = irq, scan.pc \in Sizing,
         NEW n \in Bars(At), NEW v, Write(n, v),
         NEW pc \in Sizing, NEW m_lo, NEW m_hi, scan' = SizingAt(pc, m_lo, m_hi),
         pc \in {"ones_hi", "back_hi"} => Is64(scan.raw_lo),
         scan.pc = "back_lo" \/ pc = "back_lo" => n = scan.i,
         scan.pc = "back_hi" \/ pc = "back_hi" => n = scan.i + 1,
         pc \notin {"back_lo", "back_hi"} => Holds(Device.bars[n], v) = Firmware(Device.bars[n])
  PROVE  ScanInv'
<1> USE DEF ScanInv
<1>1. Functions' = Functions /\ Scannable' = Scannable /\ \A f : Bars(f)' = Bars(f)
  BY DEF Functions, Scannable, Bars
<1>2. /\ scan'.pc = pc /\ scan'.stack = scan.stack /\ scan'.i = scan.i /\ scan'.cmd = scan.cmd
      /\ scan'.status = scan.status /\ scan'.irq = scan.irq /\ scan'.raw_lo = scan.raw_lo
      /\ scan'.raw_hi = scan.raw_hi /\ scan'.m_lo = m_lo /\ scan'.m_hi = m_hi
  BY DEF SizingAt
<1>3. scan' = [pc |-> scan'.pc, stack |-> scan'.stack, i |-> scan'.i, cmd |-> scan'.cmd,
               status |-> scan'.status, irq |-> scan'.irq, raw_lo |-> scan'.raw_lo,
               raw_hi |-> scan'.raw_hi, m_lo |-> scan'.m_lo, m_hi |-> scan'.m_hi]
  BY <1>2 DEF SizingAt
<1>4. At' = At /\ Device' = Device /\ At \in Functions
  BY <1>2, TopFrame DEF At, Top, Device, Sizing
<1>5. /\ ConfOK'
      /\ \A f \in Functions :
           /\ conf'[f].cmd = conf[f].cmd
           /\ \A i \in Bars(f) :
                conf'[f].reg[i] = IF f = At /\ i = n THEN Holds(Device.bars[n], v)
                                                     ELSE conf[f].reg[i]
  <2>1. PICK at : at = At OBVIOUS
  <2>2. PICK w : w = Holds(Device.bars[n], v) OBVIOUS
  <2>3. /\ at \in Functions /\ n \in Bars(at)
        /\ RegisterWrite(at, n, w)
    BY <1>4, <2>1, <2>2 DEF Write, RegisterWrite
  <2>4. ConfOK /\ hw' = hw OBVIOUS
  <2>5. /\ ConfOK'
        /\ \A f \in Functions :
           /\ conf'[f].cmd = conf[f].cmd
           /\ \A i \in Bars(f) : conf'[f].reg[i] = IF f = at /\ i = n THEN w ELSE conf[f].reg[i]
    BY ONLY <2>3, <2>4, WriteOne
  <2> QED BY <2>1, <2>2, <2>5
<1>6. StackOK' BY <1>1, <1>2 DEF StackOK, Frames, Sizing
<1>7. RegistersOK'
  <2>1. SUFFICES ASSUME NEW f \in Functions, NEW i \in Bars(f)
                 PROVE  conf'[f].reg[i] = Firmware(hw.fns[f].bars[i]) \/ Disturbed(f, i)'
    BY <1>1 DEF RegistersOK
  <2>2. CASE f = At /\ i = n
    BY <1>2, <1>4, <1>5, <2>2 DEF Disturbed, Sizing, Device
  <2>3. CASE ~(f = At /\ i = n)
    <3>1. conf'[f].reg[i] = conf[f].reg[i] BY <1>5, <2>3
    <3>2. ~Disturbed(f, i) BY <2>3 DEF Disturbed
    <3> QED BY <3>1, <3>2 DEF RegistersOK
  <2> QED BY <2>2, <2>3
<1>8. SizingOK'
  <2>1. "mem" \notin conf'[At].cmd /\ \A f \in Functions \ {At} : hw.fns[f].cmd \subseteq conf'[f].cmd
    BY <1>4, <1>5 DEF SizingOK
  <2>2. /\ scan.i \in Nat \ {0} /\ scan.i <= BarCount(Device)
        /\ scan.raw_lo = Firmware(Device.bars[scan.i])
        /\ Is64(scan.raw_lo) => /\ scan.i + 1 <= BarCount(Device)
                                /\ scan.raw_hi = Firmware(Device.bars[scan.i + 1])
        /\ ~irq /\ scan.irq = hw.irq /\ Device.cmd \subseteq scan.cmd
    BY DEF SizingOK
  <2> QED BY <1>1, <1>2, <1>3, <1>4, <2>1, <2>2 DEF SizingOK
<1>9. QuietOK' BY <1>2 DEF QuietOK
<1> QED BY <1>5, <1>6, <1>7, <1>8, <1>9

\* The registers that are sized exist.
LEMMA SizedBars ==
  ASSUME ScanInv, scan.pc \in Sizing
  PROVE  /\ At \in Functions
         /\ scan.i \in Bars(At) /\ IsBar(Device.bars[scan.i])
         /\ Is64(scan.raw_lo) => scan.i + 1 \in Bars(At) /\ IsBar(Device.bars[scan.i + 1])
<1> USE DEF ScanInv
<1>1. At \in Functions BY TopFrame DEF Sizing
<1>2. /\ scan.i \in Nat \ {0} /\ scan.i <= BarCount(Device)
      /\ Is64(scan.raw_lo) => scan.i + 1 <= BarCount(Device)
  BY DEF SizingOK
<1>3. /\ \A i \in Nat \ {0} : i <= BarCount(Device) => i \in Bars(At)
      /\ \A i \in Bars(At) : IsBar(Device.bars[i])
  BY <1>1, MachineFacts DEF Device
<1>4. scan.i + 1 \in Nat \ {0} BY <1>2
<1> QED BY <1>1, <1>2, <1>3, <1>4

\* The four writes that size a BAR.
LEMMA SizingInv ==
  ASSUME ScanInv, OnesLo \/ BackLo \/ OnesHi \/ BackHi
  PROVE  ScanInv'
<1>0. scan.pc \in Sizing BY DEF OnesLo, BackLo, OnesHi, BackHi, Sizing
<1>1. scan = SizingAt(scan.pc, scan.m_lo, scan.m_hi) /\ hw' = hw /\ irq' = irq
  BY <1>0 DEF ScanInv, SizingOK, SizingAt, OnesLo, BackLo, OnesHi, BackHi
<1>2. /\ At \in Functions
      /\ scan.i \in Bars(At) /\ IsBar(Device.bars[scan.i])
      /\ Is64(scan.raw_lo) => scan.i + 1 \in Bars(At) /\ IsBar(Device.bars[scan.i + 1])
  BY <1>0, SizedBars
<1>3. /\ scan.raw_lo = Firmware(Device.bars[scan.i])
      /\ Is64(scan.raw_lo) => scan.raw_hi = Firmware(Device.bars[scan.i + 1])
      /\ scan.pc \in {"ones_hi", "back_hi"} => Is64(scan.raw_lo)
  BY <1>0 DEF ScanInv, SizingOK
<1>4. CASE OnesLo
  <2> DEFINE m == Holds(Device.bars[scan.i], AllOnes)
  <2>1. scan' = [[scan EXCEPT !.pc = "back_lo"] EXCEPT !.m_lo = m] /\ Write(scan.i, AllOnes)
        /\ scan.pc = "ones_lo"
    BY <1>4 DEF OnesLo
  <2> HIDE DEF m
  <2>2. scan' = SizingAt("back_lo", m, scan.m_hi) BY <1>1, <2>1 DEF SizingAt
  <2> QED BY <1>0, <1>1, <1>2, <2>1, <2>2, SizingWrite DEF Sizing
<1>5. CASE BackLo
  <2> DEFINE pc == IF Is64(scan.raw_lo) THEN "ones_hi" ELSE "restore"
  <2>1. scan' = [scan EXCEPT !.pc = pc] /\ Write(scan.i, scan.raw_lo) /\ scan.pc = "back_lo"
    BY <1>5 DEF BackLo
  <2>2. pc \in Sizing /\ pc # "back_lo" /\ pc # "back_hi" /\ (pc = "ones_hi" => Is64(scan.raw_lo))
    BY DEF Sizing
  <2> HIDE DEF pc
  <2>3. scan' = SizingAt(pc, scan.m_lo, scan.m_hi) BY <1>1, <2>1 DEF SizingAt
  <2>4. Holds(Device.bars[scan.i], scan.raw_lo) = Firmware(Device.bars[scan.i])
    BY <1>2, <1>3, WriteBack
  <2> QED BY <1>0, <1>1, <1>2, <2>1, <2>2, <2>3, <2>4, SizingWrite
<1>6. CASE OnesHi
  <2> DEFINE m == Holds(Device.bars[scan.i + 1], AllOnes)
  <2>1. scan' = [[scan EXCEPT !.pc = "back_hi"] EXCEPT !.m_hi = m] /\ Write(scan.i + 1, AllOnes)
        /\ scan.pc = "ones_hi"
    BY <1>6 DEF OnesHi
  <2> HIDE DEF m
  <2>2. scan' = SizingAt("back_hi", scan.m_lo, m) BY <1>1, <2>1 DEF SizingAt
  <2> QED BY <1>0, <1>1, <1>2, <1>3, <2>1, <2>2, SizingWrite DEF Sizing
<1>7. CASE BackHi
  <2>1. scan' = [scan EXCEPT !.pc = "restore"] /\ Write(scan.i + 1, scan.raw_hi)
        /\ scan.pc = "back_hi"
    BY <1>7 DEF BackHi
  <2>3. scan' = SizingAt("restore", scan.m_lo, scan.m_hi) BY <1>1, <2>1 DEF SizingAt
  <2>4. Holds(Device.bars[scan.i + 1], scan.raw_hi) = Firmware(Device.bars[scan.i + 1])
    BY <1>2, <1>3, <2>1, WriteBack
  <2> QED BY <1>0, <1>1, <1>2, <1>3, <2>1, <2>3, <2>4, SizingWrite DEF Sizing
<1> QED BY <1>4, <1>5, <1>6, <1>7

\* Interrupts and memory decoding go off: what is remembered is what was there.
LEMMA DecodeOffInv ==
  ASSUME ScanInv, DecodeOff
  PROVE  ScanInv'
<1> USE DEF ScanInv
<1> DEFINE at == At
           c == conf[at]
           lo == Reg(scan.i)
           hi == IF Is64(lo) THEN Reg(scan.i + 1) ELSE 0
<1>1. /\ scan.pc = "bar" /\ scan.i <= BarCount(Device) /\ ~Passed(scan.i)
      /\ hw' = hw /\ irq' = FALSE
      /\ conf' = [conf EXCEPT ![at] = CmdWritten(@, CommandOnly(c.cmd \ {"mem"}, c.status))]
      /\ scan' = [pc |-> "ones_lo", stack |-> scan.stack, i |-> scan.i, cmd |-> c.cmd,
                  status |-> c.status, irq |-> irq, raw_lo |-> lo, raw_hi |-> hi,
                  m_lo |-> 0, m_hi |-> 0]
  BY DEF DecodeOff
<1>2. Functions' = Functions /\ Scannable' = Scannable /\ \A f : Bars(f)' = Bars(f)
  BY <1>1 DEF Functions, Scannable, Bars
<1>3. at \in Functions BY <1>1, TopFrame
<1>4. /\ scan.i \in Nat \ {0} /\ irq = hw.irq
      /\ \A f \in Functions : hw.fns[f].cmd \subseteq conf[f].cmd
  BY <1>1 DEF QuietOK, Sizing
<1>5. Restored BY <1>1 DEF RegistersOK, Disturbed, Restored
<1>6. /\ BarCount(Device) \in Nat
      /\ \A i \in Nat \ {0} : i <= BarCount(Device) => i \in Bars(at)
  BY <1>3, MachineFacts DEF Device
<1>7. lo = Firmware(Device.bars[scan.i])
  BY <1>1, <1>3, <1>4, <1>5, <1>6 DEF Reg, Device, Restored
<1>8. Is64(lo) => scan.i + 1 <= BarCount(Device) /\ hi = Firmware(Device.bars[scan.i + 1])
  <2> SUFFICES ASSUME Is64(lo)
               PROVE  scan.i + 1 <= BarCount(Device) /\ hi = Firmware(Device.bars[scan.i + 1])
    OBVIOUS
  <2>1. scan.i # BarCount(Device) BY <1>1 DEF Passed
  <2>2. scan.i + 1 <= BarCount(Device) /\ scan.i + 1 \in Nat \ {0} BY <1>1, <1>4, <1>6, <2>1
  <2>3. scan.i + 1 \in Bars(at) BY <1>6, <2>2
  <2>4. hi = conf[at].reg[scan.i + 1] BY DEF Reg
  <2> QED BY <1>3, <1>5, <2>2, <2>3, <2>4 DEF Device, Restored
<1> DEFINE w == c.cmd \ {"mem"}
<1>9. /\ ConfOK'
      /\ \A f \in Functions : /\ conf'[f].cmd = IF f = at THEN w ELSE conf[f].cmd
                              /\ conf'[f].reg = conf[f].reg
  <2>1. ConfOK /\ hw' = hw BY <1>1
  <2>2. conf' = [conf EXCEPT ![at] = CmdWritten(@, CommandOnly(w, c.status))] BY <1>1
  <2> HIDE DEF at, c, w
  <2> QED BY ONLY <1>3, <2>1, <2>2, CommandOne
<1>10. at' = at /\ Device' = Device BY <1>1 DEF At, Top, Device
<1> HIDE DEF lo, hi
<1>11. /\ scan'.pc = "ones_lo" /\ scan'.stack = scan.stack /\ scan'.i = scan.i
       /\ scan'.cmd = c.cmd /\ scan'.irq = irq /\ scan'.raw_lo = lo /\ scan'.raw_hi = hi
  BY <1>1
<1>12. scan' = [pc |-> scan'.pc, stack |-> scan'.stack, i |-> scan'.i, cmd |-> scan'.cmd,
                status |-> scan'.status, irq |-> scan'.irq, raw_lo |-> scan'.raw_lo,
                raw_hi |-> scan'.raw_hi, m_lo |-> scan'.m_lo, m_hi |-> scan'.m_hi]
  BY <1>1
<1>13. StackOK' BY <1>1, <1>2, <1>11 DEF StackOK, Frames
<1>14. RegistersOK' BY <1>1, <1>2, <1>5, <1>9 DEF RegistersOK, Restored
<1>15. SizingOK'
  <2>1. "mem" \notin conf'[at].cmd BY <1>3, <1>9
  <2>2. \A f \in Functions \ {at} : hw.fns[f].cmd \subseteq conf'[f].cmd BY <1>4, <1>9
  <2>3. Device.cmd \subseteq c.cmd BY <1>3, <1>4 DEF Device
  <2> HIDE DEF at, c
  <2>4. at = At /\ at' = At' BY DEF at
  <2> QED BY <1>1, <1>2, <1>4, <1>7, <1>8, <1>10, <1>11, <1>12, <2>1, <2>2, <2>3, <2>4 DEF SizingOK
<1>16. QuietOK' BY <1>11 DEF QuietOK, Sizing
<1> QED BY <1>9, <1>13, <1>14, <1>15, <1>16

\* Everything is put back.
LEMMA RestoreInv ==
  ASSUME ScanInv, Restore
  PROVE  ScanInv'
<1> USE DEF ScanInv
<1> DEFINE at == At
           b == pci_decode_bar(scan.raw_lo, scan.raw_hi, scan.m_lo, scan.m_hi)
           step == IF b.r = 1 THEN 2 ELSE 1
<1>1. /\ scan.pc = "restore" /\ hw' = hw /\ irq' = scan.irq
      /\ conf' = [conf EXCEPT ![at] = CmdWritten(@, CommandOnly(scan.cmd, scan.status))]
      /\ scan' = [pc |-> "bar", stack |-> scan.stack, i |-> scan.i + step]
  BY DEF Restore
<1>2. step \in {1, 2} OBVIOUS
<1> HIDE DEF b, step
<1>3. Functions' = Functions /\ Scannable' = Scannable /\ \A f : Bars(f)' = Bars(f)
  BY <1>1 DEF Functions, Scannable, Bars
<1>4. at \in Functions BY <1>1, TopFrame
<1>5. /\ scan.i \in Nat \ {0} /\ scan.irq = hw.irq /\ Device.cmd \subseteq scan.cmd
      /\ \A f \in Functions \ {at} : hw.fns[f].cmd \subseteq conf[f].cmd
  BY <1>1 DEF SizingOK, Sizing
<1>6. Restored BY <1>1 DEF RegistersOK, Disturbed, Restored
<1>7. /\ ConfOK'
      /\ \A f \in Functions : /\ conf'[f].cmd = IF f = at THEN scan.cmd ELSE conf[f].cmd
                              /\ conf'[f].reg = conf[f].reg
  <2>1. ConfOK /\ hw' = hw BY <1>1
  <2> HIDE DEF at
  <2> QED BY ONLY <1>1, <1>4, <2>1, CommandOne
<1>8. /\ scan'.pc = "bar" /\ scan'.stack = scan.stack /\ scan'.i = scan.i + step BY <1>1
<1>9. StackOK' BY <1>1, <1>3, <1>8 DEF StackOK, Frames
<1>10. RegistersOK' BY <1>1, <1>3, <1>6, <1>7 DEF RegistersOK, Restored
<1>11. SizingOK' BY <1>8 DEF SizingOK, Sizing
<1>12. QuietOK'
  <2>1. \A f \in Functions : hw.fns[f].cmd \subseteq conf'[f].cmd
    BY <1>5, <1>7 DEF Device
  <2>2. scan' = [pc |-> "bar", stack |-> scan'.stack, i |-> scan'.i] BY <1>1, <1>8
  <2>3. scan'.i \in Nat \ {0} BY <1>2, <1>5, <1>8
  <2> QED BY <1>1, <1>3, <1>5, <1>8, <2>1, <2>2, <2>3 DEF QuietOK
<1> QED BY <1>7, <1>9, <1>10, <1>11, <1>12

\* The driver enables the function whose registers it maps: a command
\* register gains bits.
LEMMA NvmeInitInv ==
  ASSUME ScanInv, nvme_init
  PROVE  ScanInv'
<1> USE DEF ScanInv
<1>0. PICK n \in DOMAIN g_devs : pci_enable(g_devs[n]) BY DEF nvme_init
<1> DEFINE at == g_devs[n].fn
           w == conf[at].cmd \cup {"mem", "master"}
<1>1. /\ scan.pc = "done" /\ scan' = [pc |-> "off"] /\ UNCHANGED <<hw, irq>>
      /\ conf' = [conf EXCEPT ![at] = CmdWritten(conf[at], CommandOnly(w, conf[at].status))]
  BY <1>0 DEF nvme_init, pci_enable
<1> HIDE DEF at
<1>2. Functions' = Functions /\ Scannable' = Scannable /\ \A f : Bars(f)' = Bars(f)
  BY <1>1 DEF Functions, Scannable, Bars
<1>3. Restored BY <1>1 DEF RegistersOK, Disturbed, Restored
<1>4. irq = hw.irq /\ \A f \in Functions : hw.fns[f].cmd \subseteq conf[f].cmd
  BY <1>1 DEF QuietOK, Sizing
<1>5. /\ ConfOK'
      /\ \A f \in Functions : /\ hw.fns[f].cmd \subseteq conf'[f].cmd
                              /\ conf'[f].reg = conf[f].reg
  <2>1. ConfOK /\ hw' = hw BY <1>1
  <2>2. CASE at \in Functions
    <3> HIDE DEF w
    <3>1. /\ ConfOK'
          /\ \A f \in Functions : /\ conf'[f].cmd = IF f = at THEN w ELSE conf[f].cmd
                                  /\ conf'[f].reg = conf[f].reg
      BY ONLY <1>1, <2>1, <2>2, CommandOne
    <3> QED BY <1>4, <2>2, <3>1 DEF w
  <2>3. CASE at \notin Functions
    <3>1. DOMAIN conf = Functions BY DEF ConfOK
    <3>2. conf' = conf BY <1>1, <2>3, <3>1 DEF ConfOK
    <3> QED BY <1>2, <1>4, <2>1, <3>2 DEF ConfOK
  <2> QED BY <2>2, <2>3
<1>6. StackOK' /\ SizingOK' BY <1>1 DEF StackOK, SizingOK, Sizing
<1>7. RegistersOK' BY <1>1, <1>2, <1>3, <1>5 DEF RegistersOK, Restored
<1>8. QuietOK' BY <1>1, <1>2, <1>4, <1>5 DEF QuietOK
<1> QED BY <1>5, <1>6, <1>7, <1>8

\* The machine as the firmware left it.
LEMMA ScanInit == Init => ScanInv
<1> SUFFICES ASSUME Init PROVE ScanInv OBVIOUS
<1>1. scan.pc = "off" /\ hw \in Machines /\ irq = hw.irq BY DEF Init, PciInit
<1>2. \A f \in Functions :
        conf[f] = [cmd |-> hw.fns[f].cmd, status |-> hw.fns[f].status,
                   reg |-> [i \in Bars(f) |-> Firmware(hw.fns[f].bars[i])]]
  BY DEF Init, PciInit, Functions, Bars
<1>3. ASSUME NEW f \in Functions
      PROVE  /\ conf[f].cmd = hw.fns[f].cmd /\ conf[f].status = hw.fns[f].status
             /\ conf[f].reg = [i \in Bars(f) |-> Firmware(hw.fns[f].bars[i])]
             /\ IsConf(conf[f])
  <2> DEFINE r == [i \in Bars(f) |-> Firmware(hw.fns[f].bars[i])]
  <2>1. conf[f] = [cmd |-> hw.fns[f].cmd, status |-> hw.fns[f].status, reg |-> r] BY <1>2
  <2> HIDE DEF r
  <2>2. conf[f].cmd = hw.fns[f].cmd /\ conf[f].status = hw.fns[f].status /\ conf[f].reg = r
    BY ONLY <2>1
  <2>3. IsConf(conf[f]) BY ONLY <2>1, <2>2 DEF IsConf
  <2> QED BY <2>2, <2>3 DEF r
<1>4. conf = [f \in Functions |-> conf[f]] BY DEF Init, PciInit, Functions
<1>6. ConfOK
  <2>1. ASSUME NEW f \in Functions PROVE conf[f].reg = [i \in Bars(f) |-> conf[f].reg[i]] BY <1>3
  <2> QED BY <1>1, <1>3, <1>4, <2>1 DEF ConfOK
<1>7. RegistersOK
  <2> SUFFICES ASSUME NEW f \in Functions, NEW i \in Bars(f)
               PROVE  conf[f].reg[i] = Firmware(hw.fns[f].bars[i])
    BY DEF RegistersOK
  <2> QED BY <1>3
<1>8. StackOK /\ SizingOK BY <1>1 DEF StackOK, SizingOK, Sizing
<1>9. QuietOK BY <1>1, <1>3 DEF QuietOK
<1> QED BY <1>6, <1>7, <1>8, <1>9 DEF ScanInv

\* Every step.
LEMMA ScanNext == ScanInv /\ [Next]_vars => ScanInv'
<1> SUFFICES ASSUME ScanInv, [Next]_vars PROVE ScanInv' OBVIOUS
<1>1. CASE UNCHANGED <<hw, conf, irq, scan>>
  BY <1>1 DEF ScanInv, ConfOK, StackOK, Frames, RegistersOK, SizingOK, QuietOK, Disturbed, IsConf,
              Functions, Scannable, Bars, At, Top, Device, BarCount
<1>2. CASE Scanning
  BY <1>2, OverflowInv, ScanFunctionInv, BusDoneInv, BarsDoneInv, DecodeOffInv, SizingInv,
     RestoreInv
     DEF Scanning, ScanStep
<1>3. CASE storage_open \/ cmd_pci_main
  BY <1>3, PciScanInv DEF storage_open, cmd_pci_main
<1>4. CASE ScanIsAll BY <1>4, ScanOffInv DEF ScanIsAll
<1>5. CASE nvme_init BY <1>5, NvmeInitInv
<1>6. CASE Boot \/ Client \/ Mapping \/ MapFailed \/ Mapped \/ QueueAlloc \/ Driving \/ Controller
  BY <1>1, <1>6 DEF Boot, Client, Mapping, MapFailed, Mapped, QueueAlloc, Driving, Controller, pciVars
<1>7. CASE UNCHANGED vars BY <1>1, <1>7 DEF vars, pciVars
<1> QED BY <1>2, <1>3, <1>4, <1>5, <1>6, <1>7 DEF Next, KernelStep

\* Sizing the BARs is invisible: on any machine, while a BAR register holds
\* something else than the firmware's address its device decodes no memory and
\* no interrupt is taken, no status bit is ever lost, and between scans the
\* interrupt flag and every command bit are back (read_bars, pci_enable).
THEOREM ScanLeavesNoTrace == Spec => []ScanInvisible
<1>1. Spec => []ScanInv BY ScanInit, ScanNext, PTL DEF Spec
<1>2. ScanInv => ScanInvisible BY ScanInvImplies
<1> QED BY <1>1, <1>2, PTL
-----------------------------------------------------------------------------
(* The driver and the controller.                                          *)

IoOps == {"read", "write", "flush"}
AdminOps == {"identify", "create_cq", "create_sq", "serial"}
Values == Data \cup {"namespace", Serial}

\* A command in a submission ring.
Commands == {c \in [op : {"none"} \cup AdminOps \cup IoOps, lba : Nat, nlb : 0 .. SecPerXfer] :
                c.op \in {"read", "write"} => c.lba + c.nlb <= SectorCount}

\* The driver's side of a queue, the controller's side, the controller, a call.
QSides == [tail : Entries, head : Entries, phase : {0, 1}]
CSides == [live : BOOLEAN, fetch : Entries, sqdb : Entries, post : Entries, cqdb : Entries,
           phase : {0, 1}, busy : BOOLEAN, ok : BOOLEAN]
Controllers == [en : BOOLEAN, rdy : BOOLEAN, queue : [Queues -> CSides]]
Calls == [pc : {"idle", "disabling", "enabling", "copy", "submit", "wait", "status", "return"},
          op : {"none", "wait_rdy"} \cup AdminOps \cup IoOps,
          lba : Nat, count : Nat, done : Nat, rc : {"ok", "eio", "timeout"}]

Counters == [requests : Nat, errors : Nat, timeouts : Nat, lost : Nat]

NvmeTypeOK ==
    /\ q \in [Queues -> QSides]
    /\ sq \in [Queues -> [Entries -> Commands]]
    /\ cq \in [Queues -> [Entries -> [phase : {0, 1}, ok : BOOLEAN]]]
    /\ ctl \in Controllers
    /\ drv \in Calls
    /\ dma \in [1 .. SecPerXfer -> Values] /\ disk \in [Lbas -> Values] /\ buf \in Seq(Values)
    /\ want \in [Lbas -> SUBSET Values]
    /\ store \in [open : BOOLEAN, test : BOOLEAN]
    /\ used \in Counters

\* What the CPU is at.
StageOK ==
    /\ stage # "none" => drv.pc = "idle"
    /\ stage \in {"open", "map"} => ~store.open
    /\ map.pc # "none" => stage = "map"
    /\ scan.pc # "off" => stage \in {"open", "list"}

\* The driver's call.
CallOK ==
    /\ drv.pc = "idle" => drv = Idle
    /\ drv.pc \in {"disabling", "enabling"} => drv.op = "wait_rdy"
    /\ drv.pc = "copy" => drv.op = "write"
    /\ drv.pc \in {"submit", "wait", "status"} => drv.op \in AdminOps \cup IoOps
    /\ drv.pc = "return" => drv.op \in IoOps
    /\ drv.pc \notin {"status", "return"} => drv.rc = "ok"
    /\ drv.rc = "timeout" => drv.op \in BringUp \/ used.lost > 0
    /\ drv.op \in IoOps <=> drv.pc # "idle" /\ store.open
    /\ drv.op \notin IoOps => drv.lba = 0 /\ drv.count = 0
    /\ drv.op \notin {"read", "write"} => drv.done = 0
    /\ drv.op \in {"read", "write"} =>
         /\ drv.lba + drv.count <= SectorCount
         /\ IF drv.pc = "return" THEN drv.rc = "ok" => drv.done = drv.count ELSE drv.done < drv.count
         /\ drv.done <= drv.count
    /\ drv.op = "write" => Len(buf) = drv.count
    /\ drv.op = "read" => Len(buf) = drv.done

\* The controller runs when the driver counts on it.
UpOK ==
    /\ drv.pc \in {"submit", "wait", "status"} \/ store.open => ctl.en /\ ctl.rdy
    /\ drv.pc = "enabling" => ctl.en
    /\ ~ctl.rdy => ctl.queue["io"] = NoQueue

\* The entries of this turn of the completion ring have its phase.
RingTurn(k) ==
    \A e \in Entries : cq[k][e].phase = IF e < ctl.queue[k].post THEN ctl.queue[k].phase
                                        ELSE 1 - ctl.queue[k].phase

\* A command is on its way: sent, executed, or answered.
InFlight(k) == drv.pc = "wait" /\ QueueOf(drv.op) = k

Answering(k) == ctl.queue[k].post = q[k].head /\ ctl.queue[k].phase = q[k].phase
Sent(k) ==
    /\ NextEntry(ctl.queue[k].fetch) = q[k].tail /\ ~ctl.queue[k].busy /\ Answering(k)
    /\ sq[k][ctl.queue[k].fetch] = [op |-> drv.op, lba |-> Lba, nlb |-> Nlb]
Executed(k) == ctl.queue[k].fetch = q[k].tail /\ ctl.queue[k].busy /\ Answering(k)
Posted(k) ==
    /\ ctl.queue[k].fetch = q[k].tail /\ ~ctl.queue[k].busy
    /\ ctl.queue[k].post = NextEntry(q[k].head)
    /\ ctl.queue[k].phase = NextPhase(ctl.queue[k].post, q[k].phase)
    /\ cq[k][q[k].head] = [phase |-> q[k].phase, ok |-> ctl.queue[k].ok]
Level(k) == ctl.queue[k].fetch = q[k].tail /\ ~ctl.queue[k].busy /\ Answering(k)

\* The doorbells are true, and both sides agree on where the command is.
RingOK(k) ==
    /\ ctl.queue[k].sqdb = q[k].tail /\ ctl.queue[k].cqdb = q[k].head
    /\ RingTurn(k)
    /\ IF InFlight(k) THEN Sent(k) \/ Executed(k) \/ Posted(k) ELSE Level(k)

\* The disk is being opened, on rings made for this attempt; or it is open and
\* no command was given up on.
Building ==
    /\ drv.pc \in {"enabling", "submit", "wait", "status"}
    /\ ~(drv.pc = "status" /\ drv.rc = "timeout")
Trusted == used.lost = 0 /\ (store.open \/ Building)

\* The command under way was executed and did not fail.
Succeeded ==
    \/ drv.pc = "status" /\ drv.rc = "ok"
    \/ /\ drv.pc = "wait"
       /\ LET k == QueueOf(drv.op) IN ctl.queue[k].fetch = q[k].tail /\ ctl.queue[k].ok

RingsOK ==
    Trusted =>
        /\ \A k \in Queues : RingOK(k)
        /\ ctl.queue["admin"].live
        /\ store.open \/ drv.op = "serial" \/ (drv.op = "create_sq" /\ Succeeded) => ctl.queue["io"].live

\* The sectors of the write under way, and what it puts there.
Region == {l \in Lbas : drv.op = "write" /\ drv.lba <= l /\ l < drv.lba + drv.count}
Wrote(l) == buf[l - drv.lba + 1]
Unexecuted ==
    \/ drv.pc = "submit"
    \/ drv.pc = "wait" /\ LET k == QueueOf(drv.op) IN ctl.queue[k].fetch # q[k].tail

\* No command for the medium is in the admin queue, or anywhere before the
\* disk is open.
OpsOK ==
    /\ \A e \in Entries : sq["admin"][e].op \notin IoOps
    /\ ~store.open => \A e \in Entries : sq["io"][e].op = "none"

\* The sectors hold what a client may expect or what the write under way puts
\* there, and that for certain where a transfer of it is done; the bounce page
\* has the data of a transfer not yet executed.
WriteOK ==
    used.lost = 0 =>
        /\ \A l \in Lbas \ Region : disk[l] \in want[l]
        /\ \A l \in Region : disk[l] \in want[l] \/ disk[l] = Wrote(l)
        /\ \A l \in Region : l < Lba \/ (Succeeded /\ l < Lba + Nlb) => disk[l] = Wrote(l)
        /\ drv.op = "write" /\ Unexecuted => \A i \in 1 .. Nlb : dma[i] = buf[drv.done + i]

\* What was read so far, and what the bounce page has of a transfer that
\* succeeded, is what the sectors hold.
ReadOK ==
    used.lost = 0 =>
        /\ drv.op = "read" => \A i \in 1 .. drv.done : buf[i] = disk[drv.lba + i - 1]
        /\ drv.op = "read" /\ Succeeded => \A i \in 1 .. Nlb : dma[i] = disk[Lba + i - 1]

DataOK == OpsOK /\ WriteOK /\ ReadOK

Base == NvmeTypeOK /\ CallOK /\ StageOK /\ UpOK

\* The transfer under way stays within the request and the bounce page.
LEMMA TransferFits ==
  ASSUME NvmeTypeOK, CallOK
  PROVE  /\ Nlb \in 0 .. SecPerXfer /\ Lba \in Nat /\ Nlb \in Nat
         /\ drv.op \in {"read", "write"} => /\ Lba + Nlb <= SectorCount
                                            /\ drv.done + Nlb <= drv.count
         /\ drv.op \in {"read", "write"} /\ drv.pc # "return" => Nlb > 0
<1>1. /\ drv.lba \in Nat /\ drv.count \in Nat /\ drv.done \in Nat
      /\ SecPerXfer \in Nat \ {0} /\ SectorCount \in Nat
  BY NvmeAssumption DEF NvmeTypeOK, Calls
<1>2. /\ drv.done <= drv.count
      /\ drv.op \in {"read", "write"} => /\ drv.lba + drv.count <= SectorCount
                                         /\ drv.pc # "return" => drv.done < drv.count
  <2>1. CASE drv.op \in {"read", "write"} BY <2>1 DEF CallOK
  <2>2. CASE drv.op \notin {"read", "write"} BY <1>1, <2>2 DEF CallOK
  <2> QED BY <2>1, <2>2
<1> QED BY <1>1, <1>2 DEF Nlb, Lba

\* Entries and phases.
LEMMA EntryFacts ==
  /\ 0 \in Entries
  /\ \A e \in Entries : NextEntry(e) \in Entries /\ NextEntry(e) # e
  /\ \A h, p : p \in {0, 1} => NextPhase(h, p) \in {0, 1}
<1>1. QD \in Nat /\ QD > 1 BY NvmeAssumption
<1>2. ASSUME NEW e \in Entries PROVE NextEntry(e) \in Entries /\ NextEntry(e) # e
  <2>1. e \in Nat /\ e < QD BY <1>1 DEF Entries
  <2>2. CASE e + 1 = QD BY <1>1, <2>1, <2>2 DEF NextEntry, Entries
  <2>3. CASE e + 1 < QD
    <3>1. (e + 1) % QD = e + 1 BY <1>1, <2>1, <2>3
    <3> QED BY <1>1, <2>1, <2>3, <3>1 DEF NextEntry, Entries
  <2> QED BY <1>1, <2>1, <2>2, <2>3
<1> QED BY <1>1, <1>2 DEF Entries, NextPhase

\* The fields of the records after the updates the steps make.
LEMMA TailFields ==
  ASSUME NEW r \in QSides, NEW e \in Entries
  PROVE  LET s == [r EXCEPT !.tail = e] IN
         s \in QSides /\ s.tail = e /\ s.head = r.head /\ s.phase = r.phase
  BY DEF QSides

HeadSide(r, e, p) == [r EXCEPT !.head = e, !.phase = p]

\* A queue whose completion was taken.
LEMMA HeadFields ==
  ASSUME NEW r \in QSides, NEW e \in Entries, NEW p \in {0, 1}
  PROVE  LET s == HeadSide(r, e, p) IN
         s \in QSides /\ s.tail = r.tail /\ s.head = e /\ s.phase = p
<1> DEFINE a == [r EXCEPT !.head = e]
           s == [a EXCEPT !.phase = p]
<1>0. s = HeadSide(r, e, p) BY DEF HeadSide
<1>1. a \in QSides /\ a.tail = r.tail /\ a.head = e BY DEF QSides
<1> HIDE DEF a
<1>2. s \in QSides /\ s.tail = a.tail /\ s.head = a.head /\ s.phase = p BY <1>1 DEF QSides
<1> HIDE DEF s
<1> QED BY <1>0, <1>1, <1>2

\* The submission doorbell.
LEMMA SqdbFields ==
  ASSUME NEW r \in CSides, NEW e \in Entries
  PROVE  LET s == [r EXCEPT !.sqdb = e] IN
         /\ s \in CSides /\ s.sqdb = e
         /\ s.live = r.live /\ s.fetch = r.fetch /\ s.post = r.post /\ s.cqdb = r.cqdb
         /\ s.phase = r.phase /\ s.busy = r.busy /\ s.ok = r.ok
  BY DEF CSides

\* The completion doorbell.
LEMMA CqdbFields ==
  ASSUME NEW r \in CSides, NEW e \in Entries
  PROVE  LET s == [r EXCEPT !.cqdb = e] IN
         /\ s \in CSides /\ s.cqdb = e
         /\ s.live = r.live /\ s.fetch = r.fetch /\ s.post = r.post /\ s.sqdb = r.sqdb
         /\ s.phase = r.phase /\ s.busy = r.busy /\ s.ok = r.ok
  BY DEF CSides

\* The counters of the bounds.
LEMMA CounterFields ==
  ASSUME NEW u \in Counters
  PROVE  /\ [u EXCEPT !.requests = u.requests + 1] \in Counters
         /\ [u EXCEPT !.requests = u.requests + 1].lost = u.lost
         /\ [u EXCEPT !.errors = u.errors + 1] \in Counters
         /\ [u EXCEPT !.errors = u.errors + 1].lost = u.lost
         /\ [u EXCEPT !.timeouts = u.timeouts + 1] \in Counters
         /\ [u EXCEPT !.timeouts = u.timeouts + 1].lost = u.lost
         /\ \A l \in Nat : /\ [u EXCEPT !.timeouts = u.timeouts + 1, !.lost = l] \in Counters
                          /\ [u EXCEPT !.timeouts = u.timeouts + 1, !.lost = l].lost = l
<1> DEFINE v == [u EXCEPT !.timeouts = u.timeouts + 1]
<1>1. /\ [u EXCEPT !.requests = u.requests + 1] \in Counters
      /\ [u EXCEPT !.requests = u.requests + 1].lost = u.lost
      /\ [u EXCEPT !.errors = u.errors + 1] \in Counters
      /\ [u EXCEPT !.errors = u.errors + 1].lost = u.lost
      /\ v \in Counters /\ v.lost = u.lost
  BY DEF Counters
<1>2. ASSUME NEW l \in Nat
      PROVE  /\ [u EXCEPT !.timeouts = u.timeouts + 1, !.lost = l] \in Counters
             /\ [u EXCEPT !.timeouts = u.timeouts + 1, !.lost = l].lost = l
  <2>1. [u EXCEPT !.timeouts = u.timeouts + 1, !.lost = l] = [v EXCEPT !.lost = l] OBVIOUS
  <2> HIDE DEF v
  <2>2. [v EXCEPT !.lost = l] \in Counters /\ [v EXCEPT !.lost = l].lost = l
    BY <1>1 DEF Counters
  <2> QED BY <2>1, <2>2
<1> QED BY <1>1, <1>2

\* The controller after one of its queues changed.
LEMMA CtlFields ==
  ASSUME NEW c \in Controllers, NEW k \in Queues, NEW r \in CSides
  PROVE  LET d == [c EXCEPT !.queue = [c.queue EXCEPT ![k] = r]] IN
         /\ d \in Controllers /\ d.en = c.en /\ d.rdy = c.rdy
         /\ \A j \in Queues : d.queue[j] = IF j = k THEN r ELSE c.queue[j]
  BY DEF Controllers

\* The admin commands in their order.
LEMMA AfterFacts ==
  LET after == [identify |-> "create_cq", create_cq |-> "create_sq", create_sq |-> "serial"] IN
  /\ DOMAIN after = {"identify", "create_cq", "create_sq"}
  /\ after["identify"] = "create_cq" /\ after["create_cq"] = "create_sq"
  /\ after["create_sq"] = "serial"
  OBVIOUS

\* Types.
LEMMA TypeDriver ==
  ASSUME Base, DriverStep
  PROVE  NvmeTypeOK'
<1> USE DEF Base
<1>0. /\ QueueOf(drv.op) \in Queues /\ Nlb \in 0 .. SecPerXfer /\ Lba \in Nat /\ Nlb \in Nat
  BY TransferFits DEF QueueOf, Queues
<1>a. \A x \in {"submit", "wait", "status", "return"}, y \in {"ok", "eio", "timeout"} :
        [drv EXCEPT !.pc = x] \in Calls /\ [drv EXCEPT !.pc = x, !.rc = y] \in Calls
  BY DEF NvmeTypeOK, Calls
<1>b. Idle \in Calls BY DEF Idle, Calls
<1>1. CASE Submit
  <2> DEFINE k == QueueOf(drv.op)
             c == [op |-> drv.op, lba |-> Lba, nlb |-> Nlb]
             e == NextEntry(q[k].tail)
             r == [q[k] EXCEPT !.tail = e]
             s == [ctl.queue[k] EXCEPT !.sqdb = e]
  <2>1. c \in Commands BY <1>0, <1>1, TransferFits DEF Submit, CallOK, Commands
  <2>2. e \in Entries /\ q[k].tail \in Entries /\ k \in Queues
    BY <1>0, EntryFacts DEF NvmeTypeOK, QSides
  <2>3. q[k] \in QSides /\ ctl.queue[k] \in CSides BY <2>2 DEF NvmeTypeOK, Controllers
  <2> HIDE DEF c, k, e
  <2>4. /\ sq' = [sq EXCEPT ![k][q[k].tail] = c] /\ q' = [q EXCEPT ![k] = r]
        /\ ctl' = [ctl EXCEPT !.queue = [ctl.queue EXCEPT ![k] = s]] /\ drv' = [drv EXCEPT !.pc = "wait"]
        /\ UNCHANGED <<cq, dma, disk, buf, store, used, want>>
    BY <1>1 DEF Submit, c, k, e
  <2>5. sq' \in [Queues -> [Entries -> Commands]] BY <2>1, <2>2, <2>4 DEF NvmeTypeOK
  <2>6. r \in QSides /\ s \in CSides BY <2>2, <2>3, TailFields, SqdbFields
  <2> HIDE DEF r, s
  <2>7. q' \in [Queues -> QSides] /\ ctl' \in Controllers
    BY <2>2, <2>4, <2>6, CtlFields DEF NvmeTypeOK
  <2> QED BY <1>a, <2>4, <2>5, <2>7 DEF NvmeTypeOK
<1>2. CASE PollHit
  <2> DEFINE k == QueueOf(drv.op)
             h == NextEntry(q[k].head)
             p == NextPhase(h, q[k].phase)
             st == nvme_cqe_status(cq[k][q[k].head])
             r == HeadSide(q[k], h, p)
             s == [ctl.queue[k] EXCEPT !.cqdb = h]
  <2>1. h \in Entries /\ p \in {0, 1} /\ k \in Queues
    BY <1>0, EntryFacts DEF NvmeTypeOK, QSides
  <2>2. st \in {"ok", "eio"} BY DEF nvme_cqe_status
  <2>3. q[k] \in QSides /\ ctl.queue[k] \in CSides BY <2>1 DEF NvmeTypeOK, Controllers
  <2>4. /\ q' = [q EXCEPT ![k] = r] /\ ctl' = [ctl EXCEPT !.queue = [ctl.queue EXCEPT ![k] = s]]
        /\ drv' = [drv EXCEPT !.pc = "status", !.rc = st]
        /\ UNCHANGED <<sq, cq, dma, disk, buf, store, used, want>>
    BY <1>2 DEF PollHit, HeadSide
  <2> HIDE DEF k, h, p, st
  <2>5. r \in QSides /\ s \in CSides BY <2>1, <2>3, HeadFields, CqdbFields
  <2> HIDE DEF r, s
  <2>6. q' \in [Queues -> QSides] /\ ctl' \in Controllers
    BY <2>1, <2>4, <2>5, CtlFields DEF NvmeTypeOK
  <2> QED BY <1>a, <2>2, <2>4, <2>6 DEF NvmeTypeOK
<1>3. CASE PollTimeout
  <2> DEFINE l == IF drv.op \in BringUp THEN used.lost ELSE used.lost + 1
  <2>0. l \in Nat /\ used' = [used EXCEPT !.timeouts = used.timeouts + 1, !.lost = l]
    BY <1>3 DEF PollTimeout, NvmeTypeOK, Counters
  <2> HIDE DEF l
  <2>1. used' \in Counters BY <2>0, CounterFields DEF NvmeTypeOK
  <2>2. drv' \in Calls BY <1>3, <1>a DEF PollTimeout
  <2> QED BY <1>3, <2>1, <2>2 DEF PollTimeout, NvmeTypeOK
<1>4. CASE copy_in
  <2>1. \A i \in 1 .. Nlb : buf[drv.done + i] \in Values
    <3>1. Len(buf) = drv.count /\ drv.op = "write" BY <1>4 DEF copy_in, CallOK
    <3>2. drv.done + Nlb <= drv.count /\ drv.done \in Nat /\ buf \in Seq(Values) /\ drv.count \in Nat
      BY <3>1, TransferFits DEF NvmeTypeOK, Calls
    <3>3. \A i \in 1 .. Nlb : drv.done + i \in 1 .. Len(buf) BY <1>0, <3>1, <3>2
    <3> QED BY <3>2, <3>3
  <2>2. dma' \in [1 .. SecPerXfer -> Values] BY <1>0, <1>4, <2>1 DEF copy_in, NvmeTypeOK
  <2> QED BY <1>4, <1>a, <2>2 DEF copy_in, NvmeTypeOK
<1>5. CASE NextTransfer
  <2>1. SubSeq(dma, 1, Nlb) \in Seq(Values)
    <3>1. dma \in [1 .. SecPerXfer -> Values] /\ SecPerXfer \in Nat BY NvmeAssumption DEF NvmeTypeOK
    <3>2. dma \in Seq(Values) /\ Len(dma) = SecPerXfer BY <3>1
    <3> QED BY <1>0, <3>1, <3>2
  <2>2. buf' \in Seq(Values) BY <1>5, <2>1 DEF NextTransfer, NvmeTypeOK
  <2>3. drv.done + Nlb \in Nat BY <1>0 DEF NvmeTypeOK, Calls
  <2>4. drv' \in Calls BY <1>5, <2>3 DEF NextTransfer, NvmeTypeOK, Calls
  <2> QED BY <1>5, <2>2, <2>4 DEF NextTransfer, NvmeTypeOK
<1>6. CASE EndRequest BY <1>6, <1>a DEF EndRequest, NvmeTypeOK
<1>7. CASE Return
  <2> DEFINE written == {l \in Lbas : drv.op = "write" /\ drv.lba <= l /\ l < drv.lba + drv.count}
  <2>1. \A l \in written : buf[l - drv.lba + 1] \in Values
    <3> SUFFICES ASSUME NEW l \in written PROVE buf[l - drv.lba + 1] \in Values OBVIOUS
    <3>1. l \in Int /\ drv.lba \in Nat /\ drv.count \in Nat /\ buf \in Seq(Values)
      BY NvmeAssumption DEF NvmeTypeOK, Calls, Lbas
    <3>2. Len(buf) = drv.count BY DEF CallOK
    <3>3. l - drv.lba + 1 \in 1 .. Len(buf) BY <3>1, <3>2
    <3> QED BY <3>1, <3>3
  <2>2. want' \in [Lbas -> SUBSET Values] BY <1>7, <2>1 DEF Return, NvmeTypeOK
  <2>3. drv' = Idle /\ buf' = <<>> /\ UNCHANGED <<q, sq, cq, dma, ctl, disk, store, used>>
    BY <1>7 DEF Return
  <2> QED BY <1>b, <2>2, <2>3 DEF NvmeTypeOK
<1>8. CASE Ready
  <2>1. drv' \in Calls BY <1>8 DEF Ready, NvmeTypeOK, Calls, AdminOps
  <2> QED BY <1>8, <2>1 DEF Ready, NvmeTypeOK
<1>9. CASE OpenFails
  <2>1. used' \in Counters BY <1>9, CounterFields DEF OpenFails, NvmeTypeOK
  <2> QED BY <1>9, <1>b, <2>1 DEF OpenFails, NvmeTypeOK
<1>10. CASE AdminNext
  <2>1. PICK op \in AdminOps : drv' = [drv EXCEPT !.pc = "submit", !.op = op]
    BY <1>10, AfterFacts DEF AdminNext, AdminOps
  <2>2. drv' \in Calls BY <2>1 DEF NvmeTypeOK, Calls
  <2> QED BY <1>10, <2>2 DEF AdminNext, NvmeTypeOK
<1>11. CASE Opened
  <2>1. store' \in [open : BOOLEAN, test : BOOLEAN] BY <1>11 DEF Opened
  <2> QED BY <1>11, <1>b, <2>1 DEF Opened, NvmeTypeOK
<1> QED
  BY <1>1, <1>2, <1>3, <1>4, <1>5, <1>6, <1>7, <1>8, <1>9, <1>10, <1>11 DEF DriverStep

\* A new request is well typed.
LEMMA TypeRequest ==
  ASSUME Base, NEW r \in Requests, Request(r[1], r[2], r[3], r[4])
  PROVE  NvmeTypeOK'
<1> USE DEF Base
<1>1. r[1] \in IoOps /\ r[2] \in Nat /\ r[3] \in Nat /\ r[4] \in Values
  BY NvmeAssumption DEF IoOps, Values
<1>2. buf' \in Seq(Values)
  <2>1. [i \in 1 .. r[3] |-> r[4]] \in Seq(Values) BY <1>1
  <2>2. <<>> \in Seq(Values) OBVIOUS
  <2> QED BY <2>1, <2>2 DEF Request
<1> DEFINE pc == IF r[1] = "write" THEN "copy" ELSE "submit"
<1>3. drv' = [pc |-> pc, op |-> r[1], lba |-> r[2], count |-> r[3], done |-> 0, rc |-> "ok"]
  BY DEF Request, Idle
<1>4. drv' \in Calls BY <1>1, <1>3 DEF Calls
<1>5. used' \in Counters BY CounterFields DEF Request, NvmeTypeOK
<1> QED BY <1>2, <1>4, <1>5 DEF Request, NvmeTypeOK

\* Zeroed queues, rings and pages are well typed.
LEMMA FreshFacts ==
  /\ NewQueue \in QSides /\ NoQueue \in CSides
  /\ NoCqe \in [phase : {0, 1}, ok : BOOLEAN] /\ NoCmd \in Commands
  /\ EmptyRing \in [Entries -> [phase : {0, 1}, ok : BOOLEAN]]
  /\ ZeroPage \in [1 .. SecPerXfer -> Values] /\ Idle \in Calls
<1>1. 0 \in Entries /\ SecPerXfer \in Nat /\ SectorCount \in Nat BY EntryFacts, NvmeAssumption
<1>2. NewQueue \in QSides BY <1>1 DEF NewQueue, QSides
<1>3. NoQueue \in CSides BY <1>1 DEF NoQueue, CSides
<1>4. NoCqe \in [phase : {0, 1}, ok : BOOLEAN] BY DEF NoCqe
<1>5. NoCmd \in Commands BY <1>1 DEF NoCmd, Commands
<1>6. EmptyRing \in [Entries -> [phase : {0, 1}, ok : BOOLEAN]] BY <1>4 DEF EmptyRing
<1>7. ZeroPage \in [1 .. SecPerXfer -> Values] BY NvmeAssumption DEF ZeroPage, Values
<1>8. Idle \in Calls BY DEF Idle, Calls
<1> QED BY <1>2, <1>3, <1>4, <1>5, <1>6, <1>7, <1>8

\* And so is the start.
LEMMA TypeInit == NvmeInit => NvmeTypeOK
<1> SUFFICES ASSUME NvmeInit PROVE NvmeTypeOK OBVIOUS
<1> USE DEF NvmeInit
<1>1. q \in [Queues -> QSides] /\ cq \in [Queues -> [Entries -> [phase : {0, 1}, ok : BOOLEAN]]]
  BY FreshFacts
<1>2. sq \in [Queues -> [Entries -> Commands]] BY FreshFacts
<1>3. ctl \in Controllers BY FreshFacts DEF Controllers
<1>4. disk \in [Lbas -> Values] /\ want \in [Lbas -> SUBSET Values]
  BY NvmeAssumption DEF Values
<1>5. buf \in Seq(Values) /\ store \in [open : BOOLEAN, test : BOOLEAN] OBVIOUS
<1>6. used \in Counters BY DEF Counters
<1> QED BY <1>1, <1>2, <1>3, <1>4, <1>5, <1>6, FreshFacts DEF NvmeTypeOK

\* The controller after nvme_init cleared CC.EN.
LEMMA TypeDisable ==
  ASSUME Base, Disable, UNCHANGED <<q, sq, cq, dma, disk, buf, store, used, want>>
  PROVE  NvmeTypeOK'
<1> USE DEF Base
<1>1. ctl' \in Controllers BY DEF Disable, NvmeTypeOK, Controllers
<1>2. drv' \in Calls BY DEF Disable, Calls, Idle
<1> QED BY <1>1, <1>2 DEF NvmeTypeOK

\* The admin queue as its registers set it up.
LEMMA LiveFields ==
  LET r == [NoQueue EXCEPT !.live = TRUE] IN
  /\ r \in CSides /\ r.live /\ r.fetch = 0 /\ r.sqdb = 0 /\ r.post = 0 /\ r.cqdb = 0
  /\ r.phase = 1 /\ ~r.busy /\ r.ok
<1> DEFINE r == [NoQueue EXCEPT !.live = TRUE]
<1>1. NoQueue \in CSides BY FreshFacts
<1>2. /\ NoQueue.fetch = 0 /\ NoQueue.sqdb = 0 /\ NoQueue.post = 0 /\ NoQueue.cqdb = 0
      /\ NoQueue.phase = 1 /\ ~NoQueue.busy /\ NoQueue.ok
  BY DEF NoQueue
<1>3. r \in CSides /\ r.live BY <1>1 DEF CSides
<1>4. /\ r.fetch = NoQueue.fetch /\ r.sqdb = NoQueue.sqdb /\ r.post = NoQueue.post
      /\ r.cqdb = NoQueue.cqdb /\ r.phase = NoQueue.phase /\ r.busy = NoQueue.busy
      /\ r.ok = NoQueue.ok
  BY <1>1 DEF CSides
<1> QED BY <1>2, <1>3, <1>4

\* And with new queues.
LEMMA QueuesUpFields ==
  ASSUME Base, QueuesUp
  PROVE  /\ ctl' \in Controllers /\ ctl'.en /\ ctl'.rdy = ctl.rdy
         /\ ctl'.queue["admin"] = [NoQueue EXCEPT !.live = TRUE]
         /\ ctl'.queue["io"] = ctl.queue["io"]
<1> DEFINE r == [NoQueue EXCEPT !.live = TRUE]
           c == [ctl EXCEPT !.en = TRUE]
<1>1. ctl' = [c EXCEPT !.queue = [c.queue EXCEPT !["admin"] = r]]
  BY DEF QueuesUp, Base, NvmeTypeOK, Controllers
<1>2. c \in Controllers /\ c.en /\ c.rdy = ctl.rdy /\ c.queue = ctl.queue
  BY DEF Base, NvmeTypeOK, Controllers
<1>3. r \in CSides BY LiveFields
<1> HIDE DEF r, c
<1>4. /\ ctl' \in Controllers /\ ctl'.en = c.en /\ ctl'.rdy = c.rdy
      /\ \A j \in Queues : ctl'.queue[j] = IF j = "admin" THEN r ELSE c.queue[j]
  BY <1>1, <1>2, <1>3, CtlFields DEF Queues
<1> QED BY <1>2, <1>4 DEF r, Queues

\* New queues are well typed.
LEMMA TypeQueuesUp ==
  ASSUME Base, QueuesUp
  PROVE  NvmeTypeOK'
<1>1. /\ q' = [k \in Queues |-> NewQueue] /\ sq' = [k \in Queues |-> [e \in Entries |-> NoCmd]]
      /\ cq' = [k \in Queues |-> EmptyRing] /\ dma' = ZeroPage
      /\ drv' = [drv EXCEPT !.pc = "enabling"] /\ UNCHANGED <<disk, buf, store, used, want>>
  BY DEF QueuesUp
<1>2. q' \in [Queues -> QSides] /\ cq' \in [Queues -> [Entries -> [phase : {0, 1}, ok : BOOLEAN]]]
  BY <1>1, FreshFacts
<1>3. sq' \in [Queues -> [Entries -> Commands]] BY <1>1, FreshFacts
<1>4. ctl' \in Controllers BY QueuesUpFields
<1>5. drv' \in Calls BY <1>1 DEF Base, NvmeTypeOK, Calls
<1>6. dma' \in [1 .. SecPerXfer -> Values] BY <1>1, FreshFacts
<1> QED BY <1>1, <1>2, <1>3, <1>4, <1>5, <1>6 DEF Base, NvmeTypeOK

\* The controller becomes ready, or stops and forgets its queues.
LEMMA ReadyFields ==
  ASSUME Base, CtlReady
  PROVE  /\ ctl' \in Controllers /\ ctl'.en = ctl.en /\ ctl'.rdy = ctl.en
         /\ ctl.en => ctl'.queue = ctl.queue
         /\ ~ctl.en => ctl'.queue = [k \in Queues |-> NoQueue]
<1> DEFINE x == IF ctl.en THEN ctl.queue ELSE [k \in Queues |-> NoQueue]
           c == [ctl EXCEPT !.rdy = ctl.en]
<1>1. ctl' = [c EXCEPT !.queue = x] BY DEF CtlReady, Base, NvmeTypeOK, Controllers
<1>2. c \in Controllers /\ c.en = ctl.en /\ c.rdy = ctl.en
  BY DEF Base, NvmeTypeOK, Controllers
<1>3. x \in [Queues -> CSides] BY FreshFacts DEF Base, NvmeTypeOK, Controllers
<1> HIDE DEF c, x
<1>4. ctl' \in Controllers /\ ctl'.en = c.en /\ ctl'.rdy = c.rdy /\ ctl'.queue = x
  BY <1>1, <1>2, <1>3 DEF Controllers
<1> QED BY <1>2, <1>4 DEF x

\* A queue after a command of it was executed, or its completion posted.
ServedSide(r, ok, e) == [r EXCEPT !.busy = TRUE, !.ok = ok, !.fetch = e]
PostedSide(r, e, p) == [r EXCEPT !.busy = FALSE, !.post = e, !.phase = p]

\* The fields after a command was executed.
LEMMA ServedFields ==
  ASSUME NEW r \in CSides, NEW ok \in BOOLEAN, NEW e \in Entries
  PROVE  LET s == ServedSide(r, ok, e) IN
         /\ s \in CSides /\ s.busy /\ s.ok = ok /\ s.fetch = e
         /\ s.live = r.live /\ s.sqdb = r.sqdb /\ s.post = r.post /\ s.cqdb = r.cqdb
         /\ s.phase = r.phase
<1> DEFINE a == [r EXCEPT !.busy = TRUE]
           b == [a EXCEPT !.ok = ok]
           s == [b EXCEPT !.fetch = e]
<1>0. s = ServedSide(r, ok, e) BY DEF ServedSide
<1>1. /\ a \in CSides /\ a.busy /\ a.live = r.live /\ a.sqdb = r.sqdb /\ a.post = r.post
      /\ a.cqdb = r.cqdb /\ a.phase = r.phase
  BY DEF CSides
<1> HIDE DEF a
<1>2. /\ b \in CSides /\ b.ok = ok /\ b.busy = a.busy /\ b.live = a.live /\ b.sqdb = a.sqdb
      /\ b.post = a.post /\ b.cqdb = a.cqdb /\ b.phase = a.phase
  BY <1>1 DEF CSides
<1> HIDE DEF b
<1>3. /\ s \in CSides /\ s.fetch = e /\ s.ok = b.ok /\ s.busy = b.busy /\ s.live = b.live
      /\ s.sqdb = b.sqdb /\ s.post = b.post /\ s.cqdb = b.cqdb /\ s.phase = b.phase
  BY <1>2 DEF CSides
<1> HIDE DEF s
<1> QED BY <1>0, <1>1, <1>2, <1>3

\* And after its completion was posted.
LEMMA PostedFields ==
  ASSUME NEW r \in CSides, NEW e \in Entries, NEW p \in {0, 1}
  PROVE  LET s == PostedSide(r, e, p) IN
         /\ s \in CSides /\ ~s.busy /\ s.post = e /\ s.phase = p
         /\ s.live = r.live /\ s.sqdb = r.sqdb /\ s.fetch = r.fetch /\ s.cqdb = r.cqdb
         /\ s.ok = r.ok
<1> DEFINE a == [r EXCEPT !.busy = FALSE]
           b == [a EXCEPT !.post = e]
           s == [b EXCEPT !.phase = p]
<1>0. s = PostedSide(r, e, p) BY DEF PostedSide
<1>1. /\ a \in CSides /\ ~a.busy /\ a.live = r.live /\ a.sqdb = r.sqdb /\ a.fetch = r.fetch
      /\ a.cqdb = r.cqdb /\ a.ok = r.ok
  BY DEF CSides
<1> HIDE DEF a
<1>2. /\ b \in CSides /\ b.post = e /\ b.busy = a.busy /\ b.live = a.live /\ b.sqdb = a.sqdb
      /\ b.fetch = a.fetch /\ b.cqdb = a.cqdb /\ b.ok = a.ok
  BY <1>1 DEF CSides
<1> HIDE DEF b
<1>3. /\ s \in CSides /\ s.phase = p /\ s.post = b.post /\ s.busy = b.busy /\ s.live = b.live
      /\ s.sqdb = b.sqdb /\ s.fetch = b.fetch /\ s.cqdb = b.cqdb /\ s.ok = b.ok
  BY <1>2 DEF CSides
<1> HIDE DEF s
<1> QED BY <1>0, <1>1, <1>2, <1>3

\* And after the queue was created.
LEMMA LiveField ==
  ASSUME NEW r \in CSides, NEW v \in BOOLEAN
  PROVE  LET s == [r EXCEPT !.live = v] IN
         /\ s \in CSides /\ s.live = v
         /\ s.fetch = r.fetch /\ s.sqdb = r.sqdb /\ s.post = r.post /\ s.cqdb = r.cqdb
         /\ s.phase = r.phase /\ s.busy = r.busy /\ s.ok = r.ok
  BY DEF CSides

\* The controller after it executed a command.
LEMMA ExecFields ==
  ASSUME Base, NEW k \in Queues, NEW ok \in BOOLEAN, NEW n, CtlExec(k, ok, n)
  PROVE  /\ ctl' \in Controllers /\ ctl'.en = ctl.en /\ ctl'.rdy = ctl.rdy
         /\ ctl'.queue[k].busy /\ ctl'.queue[k].ok = ok
         /\ ctl'.queue[k].fetch = NextEntry(ctl.queue[k].fetch)
         /\ ctl'.queue[k].live = ctl.queue[k].live
         /\ \A j \in Queues : /\ ctl'.queue[j].sqdb = ctl.queue[j].sqdb
                              /\ ctl'.queue[j].post = ctl.queue[j].post
                              /\ ctl'.queue[j].cqdb = ctl.queue[j].cqdb
                              /\ ctl'.queue[j].phase = ctl.queue[j].phase
         /\ \A j \in Queues \ {k} :
              /\ ctl'.queue[j].busy = ctl.queue[j].busy
              /\ ctl'.queue[j].ok = ctl.queue[j].ok
              /\ ctl'.queue[j].fetch = ctl.queue[j].fetch
              /\ ctl'.queue[j].live =
                   (ctl.queue[j].live \/ (sq[k][ctl.queue[k].fetch].op = "create_sq" /\ ok))
<1> DEFINE r == ctl.queue[k]
           e == NextEntry(r.fetch)
           s == ServedSide(r, ok, e)
           v(j) == ctl.queue[j].live \/ (sq[k][r.fetch].op = "create_sq" /\ ok)
           t(j) == [ctl.queue[j] EXCEPT !.live = v(j)]
           x == [j \in Queues |-> IF j = k THEN s ELSE t(j)]
<1>1. ctl' = [ctl EXCEPT !.queue = x] BY DEF CtlExec, NextEntry, ServedSide
<1>2. \A j \in Queues : ctl.queue[j] \in CSides /\ ctl.queue[j].live \in BOOLEAN
  BY DEF Base, NvmeTypeOK, Controllers, CSides
<1>3. e \in Entries BY <1>2, EntryFacts DEF CSides
<1>4. /\ s \in CSides /\ s.busy /\ s.ok = ok /\ s.fetch = e
      /\ s.live = r.live /\ s.sqdb = r.sqdb /\ s.post = r.post /\ s.cqdb = r.cqdb
      /\ s.phase = r.phase
  <2>1. r \in CSides BY <1>2
  <2> HIDE DEF r, e
  <2> QED BY <1>3, <2>1, ServedFields
<1>5. ASSUME NEW j \in Queues
      PROVE  /\ t(j) \in CSides /\ t(j).live = v(j)
             /\ t(j).fetch = ctl.queue[j].fetch /\ t(j).sqdb = ctl.queue[j].sqdb
             /\ t(j).post = ctl.queue[j].post /\ t(j).cqdb = ctl.queue[j].cqdb
             /\ t(j).phase = ctl.queue[j].phase /\ t(j).busy = ctl.queue[j].busy
             /\ t(j).ok = ctl.queue[j].ok
  <2> DEFINE w == v(j)
             u == ctl.queue[j]
  <2>1. w \in BOOLEAN /\ u \in CSides BY <1>2
  <2> HIDE DEF w, u
  <2>2. LET a == [u EXCEPT !.live = w] IN
         /\ a \in CSides /\ a.live = w
         /\ a.fetch = u.fetch /\ a.sqdb = u.sqdb /\ a.post = u.post /\ a.cqdb = u.cqdb
         /\ a.phase = u.phase /\ a.busy = u.busy /\ a.ok = u.ok
    BY <2>1, LiveField
  <2> QED BY <2>2 DEF w, u
<1> HIDE DEF s, t
<1>6. x \in [Queues -> CSides] /\ \A j \in Queues : x[j] = IF j = k THEN s ELSE t(j)
  BY <1>4, <1>5
<1> HIDE DEF x
<1>7. ctl' \in Controllers /\ ctl'.en = ctl.en /\ ctl'.rdy = ctl.rdy /\ ctl'.queue = x
  BY <1>1, <1>6 DEF Base, NvmeTypeOK, Controllers
<1>8. /\ ctl'.queue[k] = s /\ \A j \in Queues \ {k} : ctl'.queue[j] = t(j) BY <1>6, <1>7
<1> QED BY <1>4, <1>5, <1>7, <1>8

\* And after it posted a completion.
LEMMA PostFields ==
  ASSUME Base, NEW k \in Queues, CtlPost(k)
  PROVE  LET c == ctl.queue[k]
             d == ctl'.queue[k] IN
         /\ ctl' \in Controllers /\ ctl'.en = ctl.en /\ ctl'.rdy = ctl.rdy
         /\ \A j \in Queues \ {k} : ctl'.queue[j] = ctl.queue[j]
         /\ ~d.busy /\ d.post = NextEntry(c.post)
         /\ d.phase = (IF d.post = 0 THEN 1 - c.phase ELSE c.phase)
         /\ d.live = c.live /\ d.sqdb = c.sqdb /\ d.fetch = c.fetch /\ d.cqdb = c.cqdb
         /\ d.ok = c.ok
<1> DEFINE c == ctl.queue[k]
           e == NextEntry(c.post)
           p == IF e = 0 THEN 1 - c.phase ELSE c.phase
           s == PostedSide(c, e, p)
<1>1. ctl' = [ctl EXCEPT !.queue = [ctl.queue EXCEPT ![k] = s]] BY DEF CtlPost, NextEntry, PostedSide
<1>2. c \in CSides /\ ctl \in Controllers BY DEF Base, NvmeTypeOK, Controllers
<1>3. e \in Entries BY <1>2, EntryFacts DEF CSides
<1>4. p \in {0, 1}
  <2>1. c.phase \in {0, 1} BY <1>2 DEF CSides
  <2> QED BY <2>1
<1> HIDE DEF c, e, p
<1>5. /\ s \in CSides /\ ~s.busy /\ s.post = e /\ s.phase = p
      /\ s.live = c.live /\ s.sqdb = c.sqdb /\ s.fetch = c.fetch /\ s.cqdb = c.cqdb
      /\ s.ok = c.ok
  BY <1>2, <1>3, <1>4, PostedFields
<1> HIDE DEF s
<1>6. /\ ctl' \in Controllers /\ ctl'.en = ctl.en /\ ctl'.rdy = ctl.rdy
      /\ \A j \in Queues : ctl'.queue[j] = IF j = k THEN s ELSE ctl.queue[j]
  BY <1>1, <1>2, <1>5, CtlFields
<1>7. ctl'.queue[k] = s BY <1>6
<1> QED BY <1>5, <1>6, <1>7 DEF c, e, p

\* A step of the controller keeps the types and gives up on no command.
LEMMA TypeController ==
  ASSUME Base, ControllerStep
  PROVE  NvmeTypeOK' /\ used'.lost = used.lost
<1>1. CASE CtlReady
  <2>1. ctl' \in Controllers BY <1>1, ReadyFields
  <2> QED BY <1>1, <2>1 DEF CtlReady, Base, NvmeTypeOK
<1>2. ASSUME NEW k \in Queues, NEW ok \in BOOLEAN, NEW n \in 0 .. SecPerXfer, CtlExec(k, ok, n)
      PROVE  NvmeTypeOK' /\ used'.lost = used.lost
  <2> DEFINE cmd == sq[k][ctl.queue[k].fetch]
             m == IF ok THEN cmd.nlb ELSE n
             part == cmd.lba .. (cmd.lba + m - 1)
  <2>1. ctl.queue[k].fetch \in Entries BY DEF Base, NvmeTypeOK, Controllers, CSides
  <2>2. /\ cmd \in Commands /\ cmd.lba \in Nat /\ cmd.nlb \in 0 .. SecPerXfer
        /\ cmd.op \in {"read", "write"} => cmd.lba + cmd.nlb <= SectorCount
    BY <2>1 DEF Base, NvmeTypeOK, Commands
  <2>3. SecPerXfer \in Nat /\ SectorCount \in Nat BY NvmeAssumption
  <2>4. m \in 0 .. SecPerXfer /\ m <= cmd.nlb
    <3>1. ~ok => n <= cmd.nlb BY <1>2 DEF CtlExec
    <3> HIDE DEF cmd
    <3> QED BY <1>2, <2>2, <2>3, <3>1
  <2>5. /\ disk' = [l \in Lbas |-> IF cmd.op = "write" /\ l \in part THEN dma[l - cmd.lba + 1]
                                   ELSE disk[l]]
        /\ dma' = CASE cmd.op = "read" -> [i \in 1 .. SecPerXfer |->
                                         IF cmd.lba + i - 1 \in part
                                         THEN disk[cmd.lba + i - 1] ELSE dma[i]]
                [] cmd.op = "identify" /\ ok -> [i \in 1 .. SecPerXfer |-> "namespace"]
                [] cmd.op = "serial" /\ ok -> [i \in 1 .. SecPerXfer |-> Serial]
                [] OTHER -> dma
        /\ UNCHANGED <<q, sq, cq, drv, buf, store, want>>
        /\ used' = IF ok THEN used ELSE [used EXCEPT !.errors = used.errors + 1]
    BY <1>2 DEF CtlExec
  <2> HIDE DEF cmd, m
  <2>6. \A l \in Lbas : l \in part => l - cmd.lba + 1 \in 1 .. SecPerXfer
    BY <2>2, <2>3, <2>4 DEF Lbas
  <2>7. disk' \in [Lbas -> Values] BY <2>5, <2>6 DEF Base, NvmeTypeOK
  <2>8. dma' \in [1 .. SecPerXfer -> Values]
    <3>1. cmd.op = "read" => \A i \in 1 .. SecPerXfer : cmd.lba + i - 1 \in part => cmd.lba + i - 1 \in Lbas
      BY <2>2, <2>3, <2>4 DEF Lbas
    <3>2. CASE cmd.op = "read" BY <2>5, <3>1, <3>2 DEF Base, NvmeTypeOK
    <3>3. CASE cmd.op # "read" BY <2>5, <3>3 DEF Base, NvmeTypeOK, Values
    <3> QED BY <3>2, <3>3
  <2>9. used' \in Counters /\ used'.lost = used.lost
    BY <2>5, CounterFields DEF Base, NvmeTypeOK
  <2>10. ctl' \in Controllers BY <1>2, ExecFields
  <2> QED BY <2>5, <2>7, <2>8, <2>9, <2>10 DEF Base, NvmeTypeOK
<1>3. ASSUME NEW k \in Queues, CtlPost(k)
      PROVE  NvmeTypeOK' /\ used'.lost = used.lost
  <2> DEFINE c == ctl.queue[k]
             e == [phase |-> c.phase, ok |-> c.ok]
  <2>1. c \in CSides BY DEF Base, NvmeTypeOK, Controllers
  <2>2. c.post \in Entries /\ e \in [phase : {0, 1}, ok : BOOLEAN] BY <2>1 DEF CSides
  <2>3. cq' = [cq EXCEPT ![k][c.post] = e] /\ UNCHANGED <<q, sq, dma, disk, drv, buf, store, used, want>>
    BY <1>3 DEF CtlPost
  <2> HIDE DEF c, e
  <2>4. cq' \in [Queues -> [Entries -> [phase : {0, 1}, ok : BOOLEAN]]]
    BY <2>2, <2>3 DEF Base, NvmeTypeOK
  <2>5. ctl' \in Controllers BY <1>3, PostFields
  <2> QED BY <2>3, <2>4, <2>5 DEF Base, NvmeTypeOK
<1> QED BY <1>1, <1>2, <1>3 DEF ControllerStep

\* It leaves the call alone.
LEMMA CallController ==
  ASSUME Base, ControllerStep
  PROVE  CallOK' /\ UNCHANGED <<q, sq, drv, buf, store, want>>
<1>1. UNCHANGED <<q, sq, drv, buf, store, want>>
  <2>1. CASE CtlReady BY <2>1 DEF CtlReady
  <2>2. ASSUME NEW k \in Queues, NEW ok \in BOOLEAN, NEW n \in 0 .. SecPerXfer, CtlExec(k, ok, n)
        PROVE  UNCHANGED <<q, sq, drv, buf, store, want>>
    BY <2>2 DEF CtlExec
  <2>3. ASSUME NEW k \in Queues, CtlPost(k)
        PROVE  UNCHANGED <<q, sq, drv, buf, store, want>>
    BY <2>3 DEF CtlPost
  <2> QED BY <2>1, <2>2, <2>3 DEF ControllerStep
<1>2. used'.lost = used.lost BY TypeController
<1> QED BY <1>1, <1>2 DEF Base, CallOK

\* The call after a step of the driver.
LEMMA CallDriver ==
  ASSUME Base, DriverStep
  PROVE  CallOK'
<1> USE DEF Base
<1>0. drv \in Calls /\ used \in Counters /\ store.open \in BOOLEAN BY DEF NvmeTypeOK
<1>a. \A x : LET d == [drv EXCEPT !.pc = x] IN
        /\ d.pc = x /\ d.op = drv.op /\ d.lba = drv.lba /\ d.count = drv.count
        /\ d.done = drv.done /\ d.rc = drv.rc
  BY <1>0 DEF Calls
<1>1. CASE Submit \/ copy_in \/ EndRequest
  <2>1. PICK x \in {"wait", "submit", "return"} :
          /\ drv' = [drv EXCEPT !.pc = x] /\ UNCHANGED <<buf, store, used>>
          /\ x = "wait" => drv.pc = "submit"
          /\ x = "submit" => drv.pc = "copy"
          /\ x = "return" => drv.op \in IoOps /\ (drv.op = "flush" \/ drv.rc # "ok") /\ drv.pc = "status"
    BY <1>1 DEF Submit, copy_in, EndRequest, QueueOf, IoOps
  <2>2. /\ drv'.pc = x /\ drv'.op = drv.op /\ drv'.lba = drv.lba /\ drv'.count = drv.count
        /\ drv'.done = drv.done /\ drv'.rc = drv.rc
    BY <1>a, <2>1
  <2> QED BY <1>0, <2>1, <2>2 DEF CallOK, IoOps
<1>2. CASE PollHit
  <2>1. PICK y \in {"ok", "eio"} : drv' = [drv EXCEPT !.pc = "status", !.rc = y]
    BY <1>2 DEF PollHit, nvme_cqe_status
  <2>2. /\ drv'.pc = "status" /\ drv'.op = drv.op /\ drv'.lba = drv.lba /\ drv'.count = drv.count
        /\ drv'.done = drv.done /\ drv'.rc = y
    BY <1>0, <2>1 DEF Calls
  <2>3. drv.pc = "wait" /\ UNCHANGED <<buf, store, used>> BY <1>2 DEF PollHit
  <2> QED BY <1>0, <2>1, <2>2, <2>3 DEF CallOK, IoOps
<1>3. CASE PollTimeout
  <2>1. drv' = [drv EXCEPT !.pc = "status", !.rc = "timeout"] BY <1>3 DEF PollTimeout
  <2>2. /\ drv'.pc = "status" /\ drv'.op = drv.op /\ drv'.lba = drv.lba /\ drv'.count = drv.count
        /\ drv'.done = drv.done /\ drv'.rc = "timeout"
    BY <1>0, <2>1 DEF Calls
  <2>3. drv.pc = "wait" /\ UNCHANGED <<buf, store>> BY <1>3 DEF PollTimeout
  <2>4. drv.op \in BringUp \/ used'.lost > 0
    <3> DEFINE l == IF drv.op \in BringUp THEN used.lost ELSE used.lost + 1
    <3>1. used' = [used EXCEPT !.timeouts = used.timeouts + 1, !.lost = l] BY <1>3 DEF PollTimeout
    <3>2. l \in Nat /\ (drv.op \in BringUp \/ l > 0) BY <1>0 DEF Counters
    <3> HIDE DEF l
    <3>3. used'.lost = l BY <1>0, <3>1, <3>2, CounterFields
    <3> QED BY <3>2, <3>3
  <2> QED BY <1>0, <2>2, <2>3, <2>4 DEF CallOK, IoOps
<1>4. CASE NextTransfer
  <2> DEFINE d == drv.done + Nlb
             x == IF d = drv.count THEN "return" ELSE IF drv.op = "write" THEN "copy" ELSE "submit"
  <2>1. /\ drv' = [drv EXCEPT !.done = d, !.pc = x]
        /\ drv.pc = "status" /\ drv.op \in {"read", "write"} /\ drv.rc = "ok"
        /\ UNCHANGED <<store, used>>
        /\ buf' = IF drv.op = "read" THEN buf \o SubSeq(dma, 1, Nlb) ELSE buf
    BY <1>4 DEF NextTransfer
  <2>2. d \in Nat /\ d <= drv.count /\ Nlb \in 0 .. SecPerXfer /\ drv.count \in Nat
    BY <1>0, <2>1, TransferFits DEF Calls
  <2> HIDE DEF d
  <2>3. /\ x = "return" => d = drv.count
        /\ x # "return" => x \in {"copy", "submit"} /\ d < drv.count
        /\ x = "copy" => drv.op = "write"
    <3>1. d # drv.count => d < drv.count BY <2>2
    <3> QED BY <3>1
  <2> HIDE DEF x
  <2>4. /\ drv'.pc = x /\ drv'.op = drv.op /\ drv'.lba = drv.lba /\ drv'.count = drv.count
        /\ drv'.done = d /\ drv'.rc = drv.rc
    BY <1>0, <2>1 DEF Calls
  <2>5. drv.op = "read" => Len(buf') = d
    <3>1. dma \in [1 .. SecPerXfer -> Values] /\ SecPerXfer \in Nat /\ buf \in Seq(Values)
      BY NvmeAssumption DEF NvmeTypeOK
    <3>2. dma \in Seq(Values) /\ Len(dma) = SecPerXfer BY <3>1
    <3>3. SubSeq(dma, 1, Nlb) \in Seq(Values) /\ Len(SubSeq(dma, 1, Nlb)) = Nlb BY <2>2, <3>1, <3>2
    <3>4. drv.op = "read" => Len(buf) = drv.done BY DEF CallOK
    <3> QED BY <2>1, <3>1, <3>3, <3>4 DEF d
  <2> QED BY <1>0, <2>1, <2>2, <2>3, <2>4, <2>5 DEF CallOK, IoOps, AdminOps
<1>5. CASE Return \/ OpenFails \/ Opened
  <2>1. drv' = Idle BY <1>5 DEF Return, OpenFails, Opened
  <2> QED BY <2>1 DEF CallOK, Idle, IoOps
<1>6. CASE Ready \/ AdminNext
  <2>1. PICK op \in AdminOps : drv' = [drv EXCEPT !.pc = "submit", !.op = op]
    BY <1>6, AfterFacts DEF Ready, AdminNext, AdminOps
  <2>2. /\ drv'.pc = "submit" /\ drv'.op = op /\ drv'.lba = drv.lba /\ drv'.count = drv.count
        /\ drv'.done = drv.done /\ drv'.rc = drv.rc
    BY <1>0, <2>1 DEF Calls
  <2>3. /\ drv.op \notin IoOps /\ drv.pc # "idle" /\ drv.rc = "ok" /\ UNCHANGED <<buf, store, used>>
        /\ drv.op \notin {"read", "write"}
    BY <1>6, AfterFacts DEF Ready, AdminNext, CallOK, IoOps
  <2>4. op \notin IoOps /\ op \notin {"read", "write"} BY <2>1 DEF AdminOps, IoOps
  <2> QED BY <1>0, <2>1, <2>2, <2>3, <2>4 DEF CallOK
<1> QED BY <1>1, <1>2, <1>3, <1>4, <1>5, <1>6 DEF DriverStep

\* A request begins a call.
LEMMA CallRequest ==
  ASSUME Base, NEW r \in Requests, Request(r[1], r[2], r[3], r[4])
  PROVE  CallOK' /\ UpOK' /\ drv.pc = "idle"
<1> USE DEF Base
<1>1. r[1] \in IoOps /\ r[2] \in Nat /\ r[3] \in Nat /\ SectorCount \in Nat
  BY NvmeAssumption DEF IoOps
<1> DEFINE pc == IF r[1] = "write" THEN "copy" ELSE "submit"
<1>2. drv' = [pc |-> pc, op |-> r[1], lba |-> r[2], count |-> r[3], done |-> 0, rc |-> "ok"]
  BY DEF Request, Idle
<1>3. pc \in {"copy", "submit"} /\ (pc = "copy" => r[1] = "write") OBVIOUS
<1> HIDE DEF pc
<1>4. /\ drv'.pc = pc /\ drv'.op = r[1] /\ drv'.lba = r[2] /\ drv'.count = r[3]
      /\ drv'.done = 0 /\ drv'.rc = "ok"
  BY <1>2
<1>5. r[1] # "flush" => r[2] + r[3] <= SectorCount /\ r[3] > 0
  BY <1>1 DEF Request, InRange
<1>6. buf' = (IF r[1] = "write" THEN [i \in 1 .. r[3] |-> r[4]] ELSE <<>>)
      /\ store.open /\ store' = store /\ ctl' = ctl /\ drv.pc = "idle"
  BY DEF Request
<1>7. r[1] = "write" => Len(buf') = r[3] BY <1>1, <1>6
<1>8. r[1] = "read" => Len(buf') = 0 BY <1>6
<1>9. CallOK' BY <1>1, <1>3, <1>4, <1>5, <1>6, <1>7, <1>8 DEF CallOK, IoOps
<1>10. UpOK' BY <1>3, <1>4, <1>6 DEF UpOK
<1> QED BY <1>6, <1>9, <1>10

\* Both sides of the queues after a command was sent.
LEMMA SubmitFields ==
  ASSUME Base, Submit
  PROVE  LET k == QueueOf(drv.op)
             e == NextEntry(q[k].tail) IN
         /\ k \in Queues /\ q[k].tail \in Entries
         /\ \A j \in Queues : /\ ctl'.queue[j].sqdb = IF j = k THEN e ELSE ctl.queue[j].sqdb
                              /\ ctl'.queue[j].live = ctl.queue[j].live
                              /\ ctl'.queue[j].fetch = ctl.queue[j].fetch
                              /\ ctl'.queue[j].post = ctl.queue[j].post
                              /\ ctl'.queue[j].cqdb = ctl.queue[j].cqdb
                              /\ ctl'.queue[j].phase = ctl.queue[j].phase
                              /\ ctl'.queue[j].busy = ctl.queue[j].busy
                              /\ ctl'.queue[j].ok = ctl.queue[j].ok
         /\ \A j \in Queues : /\ q'[j].tail = IF j = k THEN e ELSE q[j].tail
                              /\ q'[j].head = q[j].head /\ q'[j].phase = q[j].phase
         /\ ctl'.en = ctl.en /\ ctl'.rdy = ctl.rdy
<1> DEFINE k == QueueOf(drv.op)
           e == NextEntry(q[k].tail)
           r == [q[k] EXCEPT !.tail = e]
           s == [ctl.queue[k] EXCEPT !.sqdb = e]
<1>1. k \in Queues BY DEF QueueOf, Queues
<1>2. /\ q \in [Queues -> QSides] /\ ctl \in Controllers
      /\ q[k] \in QSides /\ ctl.queue[k] \in CSides
  BY <1>1 DEF Base, NvmeTypeOK, Controllers
<1>3. q[k].tail \in Entries /\ e \in Entries BY <1>2, EntryFacts DEF QSides
<1>4. q' = [q EXCEPT ![k] = r] /\ ctl' = [ctl EXCEPT !.queue = [ctl.queue EXCEPT ![k] = s]]
  BY DEF Submit
<1> HIDE DEF k, e
<1>5. r \in QSides /\ r.tail = e /\ r.head = q[k].head /\ r.phase = q[k].phase
  BY <1>2, <1>3, TailFields
<1>6. /\ s \in CSides /\ s.sqdb = e
      /\ s.live = ctl.queue[k].live /\ s.fetch = ctl.queue[k].fetch /\ s.post = ctl.queue[k].post
      /\ s.cqdb = ctl.queue[k].cqdb /\ s.phase = ctl.queue[k].phase /\ s.busy = ctl.queue[k].busy
      /\ s.ok = ctl.queue[k].ok
  BY <1>2, <1>3, SqdbFields
<1> HIDE DEF r, s
<1>7. /\ ctl'.en = ctl.en /\ ctl'.rdy = ctl.rdy
      /\ \A j \in Queues : ctl'.queue[j] = IF j = k THEN s ELSE ctl.queue[j]
  BY <1>1, <1>2, <1>4, <1>6, CtlFields
<1>8. \A j \in Queues : q'[j] = IF j = k THEN r ELSE q[j] BY <1>1, <1>2, <1>4
<1>9. \A j \in Queues : /\ q'[j].tail = IF j = k THEN e ELSE q[j].tail
                        /\ q'[j].head = q[j].head /\ q'[j].phase = q[j].phase
  BY <1>5, <1>8
<1>10. \A j \in Queues : /\ ctl'.queue[j].sqdb = IF j = k THEN e ELSE ctl.queue[j].sqdb
                         /\ ctl'.queue[j].live = ctl.queue[j].live
                         /\ ctl'.queue[j].fetch = ctl.queue[j].fetch
                         /\ ctl'.queue[j].post = ctl.queue[j].post
                         /\ ctl'.queue[j].cqdb = ctl.queue[j].cqdb
                         /\ ctl'.queue[j].phase = ctl.queue[j].phase
                         /\ ctl'.queue[j].busy = ctl.queue[j].busy
                         /\ ctl'.queue[j].ok = ctl.queue[j].ok
  BY <1>6, <1>7
<1> QED BY <1>1, <1>3, <1>7, <1>9, <1>10 DEF k, e

\* And after a completion was taken.
LEMMA HitFields ==
  ASSUME Base, PollHit
  PROVE  LET k == QueueOf(drv.op)
             h == NextEntry(q[k].head) IN
         /\ k \in Queues /\ q[k].head \in Entries
         /\ \A j \in Queues : /\ ctl'.queue[j].cqdb = IF j = k THEN h ELSE ctl.queue[j].cqdb
                              /\ ctl'.queue[j].live = ctl.queue[j].live
                              /\ ctl'.queue[j].fetch = ctl.queue[j].fetch
                              /\ ctl'.queue[j].post = ctl.queue[j].post
                              /\ ctl'.queue[j].sqdb = ctl.queue[j].sqdb
                              /\ ctl'.queue[j].phase = ctl.queue[j].phase
                              /\ ctl'.queue[j].busy = ctl.queue[j].busy
                              /\ ctl'.queue[j].ok = ctl.queue[j].ok
         /\ \A j \in Queues : /\ q'[j].head = IF j = k THEN h ELSE q[j].head
                              /\ q'[j].tail = q[j].tail
                              /\ q'[j].phase = IF j = k THEN NextPhase(h, q[k].phase) ELSE q[j].phase
         /\ ctl'.en = ctl.en /\ ctl'.rdy = ctl.rdy
<1> DEFINE k == QueueOf(drv.op)
           h == NextEntry(q[k].head)
           p == NextPhase(h, q[k].phase)
           r == HeadSide(q[k], h, p)
           s == [ctl.queue[k] EXCEPT !.cqdb = h]
<1>1. k \in Queues BY DEF QueueOf, Queues
<1>2. /\ q \in [Queues -> QSides] /\ ctl \in Controllers
      /\ q[k] \in QSides /\ ctl.queue[k] \in CSides
  BY <1>1 DEF Base, NvmeTypeOK, Controllers
<1>3. q[k].head \in Entries /\ h \in Entries /\ p \in {0, 1} BY <1>2, EntryFacts DEF QSides
<1>4. q' = [q EXCEPT ![k] = r] /\ ctl' = [ctl EXCEPT !.queue = [ctl.queue EXCEPT ![k] = s]]
  BY DEF PollHit, HeadSide
<1> HIDE DEF k, h, p
<1>5. r \in QSides /\ r.tail = q[k].tail /\ r.head = h /\ r.phase = p
  BY <1>2, <1>3, HeadFields
<1>6. /\ s \in CSides /\ s.cqdb = h
      /\ s.live = ctl.queue[k].live /\ s.fetch = ctl.queue[k].fetch /\ s.post = ctl.queue[k].post
      /\ s.sqdb = ctl.queue[k].sqdb /\ s.phase = ctl.queue[k].phase /\ s.busy = ctl.queue[k].busy
      /\ s.ok = ctl.queue[k].ok
  BY <1>2, <1>3, CqdbFields
<1> HIDE DEF r, s
<1>7. /\ ctl'.en = ctl.en /\ ctl'.rdy = ctl.rdy
      /\ \A j \in Queues : ctl'.queue[j] = IF j = k THEN s ELSE ctl.queue[j]
  BY <1>1, <1>2, <1>4, <1>6, CtlFields
<1>8. \A j \in Queues : q'[j] = IF j = k THEN r ELSE q[j] BY <1>1, <1>2, <1>4
<1>9. \A j \in Queues : /\ q'[j].head = IF j = k THEN h ELSE q[j].head
                        /\ q'[j].tail = q[j].tail
                        /\ q'[j].phase = IF j = k THEN p ELSE q[j].phase
  BY <1>5, <1>8
<1>10. \A j \in Queues : /\ ctl'.queue[j].cqdb = IF j = k THEN h ELSE ctl.queue[j].cqdb
                         /\ ctl'.queue[j].live = ctl.queue[j].live
                         /\ ctl'.queue[j].fetch = ctl.queue[j].fetch
                         /\ ctl'.queue[j].post = ctl.queue[j].post
                         /\ ctl'.queue[j].sqdb = ctl.queue[j].sqdb
                         /\ ctl'.queue[j].phase = ctl.queue[j].phase
                         /\ ctl'.queue[j].busy = ctl.queue[j].busy
                         /\ ctl'.queue[j].ok = ctl.queue[j].ok
  BY <1>6, <1>7
<1> QED BY <1>1, <1>3, <1>7, <1>9, <1>10 DEF k, h, p

\* The controller runs when the driver counts on it.
LEMMA UpDriver ==
  ASSUME Base, DriverStep
  PROVE  UpOK'
<1> USE DEF Base
<1>1. CASE Submit
  <2>1. ctl'.en = ctl.en /\ ctl'.rdy = ctl.rdy /\ drv.pc = "submit" /\ store' = store
    BY <1>1, SubmitFields DEF Submit
  <2>2. drv'.pc = "wait" BY <1>1 DEF Submit, NvmeTypeOK, Calls
  <2> QED BY <2>1, <2>2 DEF UpOK
<1>2. CASE PollHit
  <2>1. ctl'.en = ctl.en /\ ctl'.rdy = ctl.rdy /\ drv.pc = "wait" /\ store' = store
    BY <1>2, HitFields DEF PollHit
  <2>2. drv'.pc = "status" BY <1>2 DEF PollHit, NvmeTypeOK, Calls
  <2> QED BY <2>1, <2>2 DEF UpOK
<1>3. CASE PollTimeout \/ copy_in \/ NextTransfer \/ EndRequest \/ AdminNext
  <2>1. ctl' = ctl /\ store' = store /\ drv.pc \in {"wait", "copy", "status"}
        /\ (drv.pc = "copy" => store.open)
    BY <1>3 DEF PollTimeout, copy_in, NextTransfer, EndRequest, AdminNext, CallOK, IoOps
  <2>2. drv'.pc # "enabling"
    BY <1>3 DEF PollTimeout, copy_in, NextTransfer, EndRequest, AdminNext, NvmeTypeOK, Calls
  <2> QED BY <2>1, <2>2 DEF UpOK
<1>4. CASE Return \/ OpenFails
  <2>1. ctl' = ctl /\ store' = store /\ drv'.pc = "idle"
    BY <1>4 DEF Return, OpenFails, Idle
  <2> QED BY <2>1 DEF UpOK
<1>5. CASE Ready
  <2>1. ctl' = ctl /\ store' = store /\ drv.pc = "enabling" /\ ctl.rdy BY <1>5 DEF Ready
  <2>2. drv'.pc = "submit" BY <1>5 DEF Ready, NvmeTypeOK, Calls
  <2> QED BY <2>1, <2>2 DEF UpOK
<1>6. CASE Opened
  <2>1. ctl' = ctl /\ drv.pc = "status" /\ drv'.pc = "idle" BY <1>6 DEF Opened, Idle
  <2> QED BY <2>1 DEF UpOK
<1> QED BY <1>1, <1>2, <1>3, <1>4, <1>5, <1>6 DEF DriverStep

\* The controller stays up for as long as it is enabled.
LEMMA UpController ==
  ASSUME Base, ControllerStep
  PROVE  UpOK'
<1> USE DEF Base
<1>0. UNCHANGED <<drv, store>> BY CallController
<1>1. CASE CtlReady
  <2>1. /\ ctl'.en = ctl.en /\ ctl'.rdy = ctl.en
        /\ ~ctl.en => ctl'.queue = [k \in Queues |-> NoQueue]
    BY <1>1, ReadyFields
  <2>2. ~ctl.en => ctl'.queue["io"] = NoQueue BY <2>1 DEF Queues
  <2> QED BY <1>0, <2>1, <2>2 DEF UpOK
<1>2. ASSUME NEW k \in Queues, NEW ok \in BOOLEAN, NEW n \in 0 .. SecPerXfer, CtlExec(k, ok, n)
      PROVE  UpOK'
  <2>1. ctl'.en = ctl.en /\ ctl'.rdy = ctl.rdy /\ ctl.rdy BY <1>2, ExecFields DEF CtlExec
  <2> QED BY <1>0, <2>1 DEF UpOK
<1>3. ASSUME NEW k \in Queues, CtlPost(k) PROVE UpOK'
  <2>1. ctl'.en = ctl.en /\ ctl'.rdy = ctl.rdy /\ ctl.rdy BY <1>3, PostFields DEF CtlPost
  <2> QED BY <1>0, <2>1 DEF UpOK
<1> QED BY <1>1, <1>2, <1>3 DEF ControllerStep

\* nvme_init takes over an idle driver and a closed store.
LEMMA DisableFields ==
  ASSUME Base, Disable
  PROVE  /\ ctl'.rdy = ctl.rdy /\ ctl'.queue = ctl.queue /\ ~ctl'.en
         /\ drv'.pc = "disabling" /\ drv'.op = "wait_rdy" /\ drv'.lba = 0 /\ drv'.count = 0
         /\ drv'.done = 0 /\ drv'.rc = "ok"
<1>1. ctl'.rdy = ctl.rdy /\ ctl'.queue = ctl.queue /\ ~ctl'.en
  BY DEF Disable, Base, NvmeTypeOK, Controllers
<1>2. drv' = [Idle EXCEPT !.pc = "disabling", !.op = "wait_rdy"] BY DEF Disable
<1> QED BY <1>1, <1>2 DEF Idle

\* The registers are mapped and the controller disabled.
LEMMA BaseMapped ==
  ASSUME Base, Mapped
  PROVE  Base' /\ ~store.open /\ ~store'.open
<1> USE DEF Base
<1>1. /\ Disable /\ UNCHANGED <<q, sq, cq, dma, disk, buf, store, used, want, scan>>
      /\ map.pc = "loop" /\ map' = NoMap /\ stage' = "none"
  BY DEF Mapped, MapDone, pciVars
<1>2. stage = "map" /\ ~store.open /\ drv.pc = "idle" /\ scan.pc = "off" BY <1>1 DEF StageOK
<1>3. NvmeTypeOK' BY <1>1, TypeDisable
<1>4. CallOK' BY <1>1, <1>2, DisableFields DEF CallOK, IoOps
<1>5. UpOK' BY <1>1, <1>2, DisableFields DEF UpOK
<1>6. StageOK' BY <1>1, <1>2 DEF StageOK, NoMap
<1> QED BY <1>1, <1>2, <1>3, <1>4, <1>5, <1>6

\* New queues, or no frames for them.
LEMMA BaseQueueAlloc ==
  ASSUME Base, QueueAlloc
  PROVE  Base' /\ ~store.open /\ ~store'.open /\ drv.pc = "disabling"
<1> USE DEF Base
<1>1. UNCHANGED <<stage, map, scan>> BY DEF QueueAlloc, pciVars
<1>2. drv.pc = "disabling" /\ store' = store BY DEF QueueAlloc, QueuesUp, NoFrames
<1>3. stage = "none" /\ ~store.open BY <1>2 DEF StageOK, CallOK, IoOps
<1>4. StageOK' BY <1>1, <1>2, <1>3 DEF StageOK
<1>5. CASE QueuesUp
  <2>1. NvmeTypeOK' BY <1>5, TypeQueuesUp
  <2>2. /\ drv'.pc = "enabling" /\ drv'.op = drv.op /\ drv'.lba = drv.lba /\ drv'.count = drv.count
        /\ drv'.done = drv.done /\ drv'.rc = drv.rc /\ UNCHANGED <<buf, used>>
    BY <1>5 DEF QueuesUp, NvmeTypeOK, Calls
  <2>3. CallOK' BY <1>2, <1>3, <2>2 DEF CallOK, IoOps
  <2>4. UpOK' BY <1>2, <1>3, <1>5, <2>2, QueuesUpFields DEF UpOK, QueuesUp
  <2> QED BY <1>2, <1>3, <1>4, <2>1, <2>3, <2>4
<1>6. CASE NoFrames
  <2>1. drv' = Idle /\ UNCHANGED <<q, sq, cq, dma, ctl, disk, buf, store, used, want>>
    BY <1>6 DEF NoFrames
  <2>2. NvmeTypeOK' BY <2>1, FreshFacts DEF NvmeTypeOK
  <2>3. CallOK' BY <2>1 DEF CallOK, Idle, IoOps
  <2>4. UpOK' BY <2>1 DEF UpOK, Idle
  <2> QED BY <1>2, <1>3, <1>4, <2>2, <2>3, <2>4
<1> QED BY <1>5, <1>6 DEF QueueAlloc

\* A step of the rest of the kernel.
LEMMA BaseKernel ==
  ASSUME Base, UNCHANGED nvmeVars,
         \/ Boot \/ storage_open \/ cmd_pci_main \/ Scanning \/ ScanIsAll \/ nvme_init
         \/ Mapping \/ MapFailed \/ UNCHANGED vars
  PROVE  Base'
<1> USE DEF Base
<1>1. NvmeTypeOK' /\ CallOK' /\ UpOK' BY DEF nvmeVars, NvmeTypeOK, CallOK, UpOK
<1>2. UNCHANGED <<drv, store>> BY DEF nvmeVars
<1>3. StageOK'
  <2>1. CASE Boot BY <1>2, <2>1 DEF Boot, xpt_init_identity, pciVars, StageOK
  <2>2. CASE storage_open BY <1>2, <2>2 DEF storage_open, Idling, StageOK
  <2>3. CASE cmd_pci_main BY <1>2, <2>3 DEF cmd_pci_main, Idling, kmapVars, StageOK
  <2>4. CASE Scanning
    <3>1. scan.pc # "off" /\ UNCHANGED <<stage, map>>
      BY <2>4 DEF Scanning, ScanStep, ScanOverflow, scan_function, BusDone, BarsDone, SkipBar,
                  DecodeOff, OnesLo, BackLo, OnesHi, BackHi, Restore, kmapVars
    <3> QED BY <1>2, <3>1 DEF StageOK
  <2>5. CASE ScanIsAll BY <1>2, <2>5 DEF ScanIsAll, kmapVars, StageOK
  <2>6. CASE nvme_init
    <3>1. stage = "open" /\ stage' = "map" /\ scan'.pc = "off" BY <2>6 DEF nvme_init, Found
    <3> QED BY <1>2, <3>1 DEF StageOK
  <2>7. CASE Mapping
    <3>1. map.pc = "loop" /\ UNCHANGED <<stage, scan>> BY <2>7 DEF Mapping, MapTurn, pciVars
    <3> QED BY <1>2, <3>1 DEF StageOK
  <2>8. CASE MapFailed
    <3>1. map.pc = "fail" /\ map'.pc = "none" /\ stage' = "none" /\ scan' = scan
      BY <2>8 DEF MapFailed, NoMap, pciVars
    <3> QED BY <1>2, <3>1 DEF StageOK
  <2>9. CASE UNCHANGED vars BY <1>2, <2>9 DEF vars, pciVars, kmapVars, StageOK
  <2> QED BY <2>1, <2>2, <2>3, <2>4, <2>5, <2>6, <2>7, <2>8, <2>9
<1> QED BY <1>1, <1>3

\* The start.
LEMMA BaseInit == Init => Base
<1> SUFFICES ASSUME Init PROVE Base OBVIOUS
<1>1. NvmeTypeOK BY TypeInit DEF Init
<1>2. CallOK BY DEF Init, NvmeInit, CallOK, Idle, IoOps
<1>3. StageOK BY DEF Init, NvmeInit, PciInit, KmapInit, NoMap, StageOK, Idle
<1>4. UpOK BY DEF Init, NvmeInit, UpOK, Idle, Queues
<1> QED BY <1>1, <1>2, <1>3, <1>4 DEF Base

\* Every step.
LEMMA BaseNext ==
  ASSUME Base, [Next]_vars
  PROVE  Base'
<1>1. CASE \/ Boot \/ storage_open \/ cmd_pci_main \/ Scanning \/ ScanIsAll \/ nvme_init
           \/ Mapping \/ MapFailed \/ UNCHANGED vars
  <2>1. UNCHANGED nvmeVars
    BY <1>1 DEF Boot, storage_open, cmd_pci_main, Scanning, ScanIsAll, nvme_init, Mapping,
                MapFailed, vars
  <2> QED BY <1>1, <2>1, BaseKernel
<1>2. CASE Mapped BY <1>2, BaseMapped
<1>3. CASE QueueAlloc BY <1>3, BaseQueueAlloc
<1>4. CASE Client
  <2>1. PICK r \in Requests : Request(r[1], r[2], r[3], r[4]) BY <1>4 DEF Client
  <2>2. stage = "none" /\ UNCHANGED <<stage, map, scan>> BY <1>4 DEF Client, Idling, pciVars, kmapVars
  <2>3. store' = store BY <2>1 DEF Request
  <2>4. StageOK' BY <2>2, <2>3 DEF Base, StageOK
  <2> QED BY <2>1, <2>4, TypeRequest, CallRequest DEF Base
<1>5. CASE Driving
  <2>1. DriverStep /\ UNCHANGED <<stage, map, scan>> BY <1>5 DEF Driving, pciVars, kmapVars
  <2>2. drv.pc # "idle"
    BY <2>1 DEF DriverStep, Submit, PollHit, PollTimeout, copy_in, NextTransfer, EndRequest, Return,
                Ready, OpenFails, AdminNext, Opened
  <2>3. stage = "none" BY <2>2 DEF Base, StageOK
  <2>4. StageOK' BY <2>1, <2>3 DEF Base, StageOK
  <2> QED BY <2>1, <2>4, TypeDriver, CallDriver, UpDriver DEF Base
<1>6. CASE Controller
  <2>1. ControllerStep /\ UNCHANGED <<stage, map, scan>> BY <1>6 DEF Controller, pciVars, kmapVars
  <2>2. UNCHANGED <<drv, store>> BY <2>1, CallController
  <2>3. StageOK' BY <2>1, <2>2 DEF Base, StageOK
  <2> QED BY <2>1, <2>3, TypeController, CallController, UpController DEF Base
<1> QED BY <1>1, <1>2, <1>3, <1>4, <1>5, <1>6 DEF Next, KernelStep

\* A completion ring after the controller posted an entry.
TurnOf(ring, post, ph) == \A e \in Entries : ring[e].phase = IF e < post THEN ph ELSE 1 - ph
OneMore(ring, new, post, ph) ==
    new[post].phase = ph /\ \A e \in Entries : e # post => new[e] = ring[e]

\* It has the phase of its turn up to the new entry.
LEMMA PostTurns ==
  ASSUME NEW ring, NEW new, NEW post \in Entries, NEW ph \in {0, 1},
         TurnOf(ring, post, ph), OneMore(ring, new, post, ph)
  PROVE  TurnOf(new, NextEntry(post), IF NextEntry(post) = 0 THEN 1 - ph ELSE ph)
<1> USE DEF TurnOf, OneMore
<1>1. QD \in Nat /\ QD > 1 BY NvmeAssumption
<1>2. \A e \in Entries : e \in Nat /\ e < QD BY <1>1 DEF Entries
<1>3. CASE post + 1 = QD
  <2>1. NextEntry(post) = 0 BY <1>1, <1>3 DEF NextEntry
  <2>2. \A e \in Entries : e # post => e < post BY <1>1, <1>2, <1>3
  <2>3. 1 - (1 - ph) = ph OBVIOUS
  <2>4. \A e \in Entries : ~(e < 0) BY <1>2
  <2> QED BY <2>1, <2>2, <2>3, <2>4
<1>4. CASE post + 1 # QD
  <2>1. NextEntry(post) = post + 1
    <3>1. post \in Nat /\ post + 1 < QD BY <1>1, <1>2, <1>4
    <3> QED BY <1>1, <3>1 DEF NextEntry
  <2>2. post + 1 # 0 BY <1>2
  <2>3. \A e \in Entries : e # post => (e < post <=> e < post + 1) BY <1>2
  <2>4. post < post + 1 BY <1>2
  <2> QED BY <2>1, <2>2, <2>3, <2>4
<1> QED BY <1>3, <1>4

\* Nothing in flight before and after, and the rings as they were.
LEMMA RingsQuiet ==
  ASSUME RingsOK, UNCHANGED <<q, cq, ctl>>, drv.pc # "wait", drv'.pc # "wait", Trusted' => Trusted,
         Trusted' /\ (store'.open \/ drv'.op = "serial" \/ (drv'.op = "create_sq" /\ Succeeded'))
           => ctl.queue["io"].live
  PROVE  RingsOK'
<1> SUFFICES ASSUME Trusted' PROVE /\ \A k \in Queues : RingOK(k)'
                                   /\ ctl'.queue["admin"].live
                                   /\ store'.open \/ drv'.op = "serial" \/ (drv'.op = "create_sq" /\ Succeeded')
                                        => ctl'.queue["io"].live
  BY DEF RingsOK
<1>1. Trusted OBVIOUS
<1>2. \A k \in Queues : RingOK(k) BY <1>1 DEF RingsOK
<1>3. ASSUME NEW k \in Queues PROVE RingOK(k)'
  <2>1. RingOK(k) /\ ~InFlight(k) /\ ~InFlight(k)' BY <1>2 DEF InFlight
  <2> QED BY <2>1 DEF RingOK, RingTurn, Level, Answering
<1>4. ctl'.queue["admin"].live BY <1>1 DEF RingsOK
<1> QED BY <1>3, <1>4

\* A step of the driver keeps the rings in step.
LEMMA RingsDriver ==
  ASSUME Base, Base', RingsOK, DriverStep
  PROVE  RingsOK'
<1>0. drv \in Calls BY DEF Base, NvmeTypeOK
<1>1. CASE Submit
  <2>0. PICK k \in Queues : k = QueueOf(drv.op) BY DEF QueueOf, Queues
  <2> DEFINE e == NextEntry(q[k].tail)
  <2> SUFFICES ASSUME Trusted' PROVE /\ \A j \in Queues : RingOK(j)'
                                     /\ ctl'.queue["admin"].live
                                     /\ store'.open \/ drv'.op = "serial" \/ (drv'.op = "create_sq" /\ Succeeded')
                                          => ctl'.queue["io"].live
    BY DEF RingsOK
  <2>1. /\ drv.pc = "submit" /\ UNCHANGED <<cq, store, used>> /\ drv' = [drv EXCEPT !.pc = "wait"]
        /\ sq' = [sq EXCEPT ![k][q[k].tail] = [op |-> drv.op, lba |-> Lba, nlb |-> Nlb]]
    BY <1>1, <2>0 DEF Submit
  <2>2. /\ drv'.pc = "wait" /\ drv'.op = drv.op /\ drv'.lba = drv.lba /\ drv'.count = drv.count
        /\ drv'.done = drv.done
    BY <1>0, <2>1 DEF Calls
  <2>3. Trusted BY <2>1, <2>2 DEF Trusted, Building
  <2>4. \A j \in Queues : RingOK(j) /\ Level(j)
    BY <2>1, <2>3 DEF RingsOK, RingOK, InFlight
  <2>5. Lba' = Lba /\ Nlb' = Nlb BY <2>2 DEF Lba, Nlb
  <2>6. /\ k \in Queues /\ q[k].tail \in Entries
        /\ \A j \in Queues : /\ ctl'.queue[j].sqdb = IF j = k THEN e ELSE ctl.queue[j].sqdb
                             /\ ctl'.queue[j].live = ctl.queue[j].live
                             /\ ctl'.queue[j].fetch = ctl.queue[j].fetch
                             /\ ctl'.queue[j].post = ctl.queue[j].post
                             /\ ctl'.queue[j].cqdb = ctl.queue[j].cqdb
                             /\ ctl'.queue[j].phase = ctl.queue[j].phase
                             /\ ctl'.queue[j].busy = ctl.queue[j].busy
                             /\ ctl'.queue[j].ok = ctl.queue[j].ok
        /\ \A j \in Queues : /\ q'[j].tail = IF j = k THEN e ELSE q[j].tail
                             /\ q'[j].head = q[j].head /\ q'[j].phase = q[j].phase
    BY <1>1, <2>0, SubmitFields
  <2>7. sq'[k][q[k].tail] = [op |-> drv.op, lba |-> Lba, nlb |-> Nlb]
    BY <2>1, <2>6 DEF Base, NvmeTypeOK
  <2>8. \A j \in Queues : InFlight(j)' <=> j = k BY <2>0, <2>2 DEF InFlight
  <2>9. e # q[k].tail BY <2>6, EntryFacts
  <2> HIDE DEF e
  <2>10. ASSUME NEW j \in Queues, j # k PROVE RingOK(j)'
    BY <2>1, <2>4, <2>6, <2>8, <2>10 DEF RingOK, RingTurn, Level, Answering
  <2>11. RingOK(k)'
    <3>1. RingTurn(k)' BY <2>1, <2>4, <2>6 DEF RingOK, RingTurn
    <3>2. ctl.queue[k].fetch = q[k].tail /\ e = NextEntry(q[k].tail) BY <2>4, <2>6 DEF Level, e
    <3>3. Sent(k)'
      BY <2>2, <2>4, <2>5, <2>6, <2>7, <3>2 DEF Sent, Level, Answering
    <3>4. ctl'.queue[k].sqdb = q'[k].tail /\ ctl'.queue[k].cqdb = q'[k].head
      BY <2>4, <2>6 DEF RingOK
    <3> QED BY <2>6, <2>8, <3>1, <3>3, <3>4 DEF RingOK
  <2>12. ~Succeeded'
    <3>1. ctl'.queue[k].fetch # q'[k].tail BY <2>4, <2>6, <2>9 DEF Level
    <3>2. k = QueueOf(drv'.op) BY <2>0, <2>2
    <3> QED BY <2>2, <3>1, <3>2 DEF Succeeded
  <2>13. ctl'.queue["admin"].live /\ (store.open \/ drv.op = "serial" => ctl'.queue["io"].live)
    BY <2>3, <2>6 DEF RingsOK, Queues
  <2> QED BY <2>1, <2>2, <2>10, <2>11, <2>12, <2>13
<1>2. CASE PollHit
  <2>0. PICK k \in Queues : k = QueueOf(drv.op) BY DEF QueueOf, Queues
  <2> DEFINE h == NextEntry(q[k].head)
             c == cq[k][q[k].head]
  <2> SUFFICES ASSUME Trusted' PROVE /\ \A j \in Queues : RingOK(j)'
                                     /\ ctl'.queue["admin"].live
                                     /\ store'.open \/ drv'.op = "serial" \/ (drv'.op = "create_sq" /\ Succeeded')
                                          => ctl'.queue["io"].live
    BY DEF RingsOK
  <2>1. /\ drv.pc = "wait" /\ UNCHANGED <<sq, cq, store, used>>
        /\ drv' = [drv EXCEPT !.pc = "status", !.rc = nvme_cqe_status(c)]
        /\ c.phase = q[k].phase
    BY <1>2, <2>0 DEF PollHit, nvme_cqe_is_new
  <2>2. drv'.pc = "status" /\ drv'.op = drv.op /\ drv'.rc = nvme_cqe_status(c)
    BY <1>0, <2>1 DEF Calls
  <2>3. Trusted BY <2>1, <2>2 DEF Trusted, Building
  <2>4. \A j \in Queues : RingOK(j) BY <2>3 DEF RingsOK
  <2>6. /\ k \in Queues /\ q[k].head \in Entries
        /\ \A j \in Queues : /\ ctl'.queue[j].cqdb = IF j = k THEN h ELSE ctl.queue[j].cqdb
                             /\ ctl'.queue[j].live = ctl.queue[j].live
                             /\ ctl'.queue[j].fetch = ctl.queue[j].fetch
                             /\ ctl'.queue[j].post = ctl.queue[j].post
                             /\ ctl'.queue[j].sqdb = ctl.queue[j].sqdb
                             /\ ctl'.queue[j].phase = ctl.queue[j].phase
                             /\ ctl'.queue[j].busy = ctl.queue[j].busy
                             /\ ctl'.queue[j].ok = ctl.queue[j].ok
        /\ \A j \in Queues : /\ q'[j].head = IF j = k THEN h ELSE q[j].head
                             /\ q'[j].tail = q[j].tail
                             /\ q'[j].phase = IF j = k THEN NextPhase(h, q[k].phase) ELSE q[j].phase
    BY <1>2, <2>0, HitFields
  <2>7. \A j \in Queues : ~InFlight(j)' /\ (InFlight(j) <=> j = k) BY <2>0, <2>1, <2>2 DEF InFlight
  <2>8. q[k].phase \in {0, 1} BY <2>6 DEF Base, NvmeTypeOK, QSides
  <2>9. Posted(k)
    <3>1. Sent(k) \/ Executed(k) \/ Posted(k) BY <2>4, <2>6, <2>7 DEF RingOK
    <3>2. SUFFICES ASSUME Answering(k) PROVE FALSE BY <3>1 DEF Sent, Executed
    <3>3. c.phase = 1 - q[k].phase
      <4>1. RingTurn(k) BY <2>4, <2>6 DEF RingOK
      <4>2. ~(q[k].head < q[k].head)
        BY <2>6, NvmeAssumption DEF Entries
      <4> QED BY <2>6, <3>2, <4>1, <4>2 DEF RingTurn, Answering
    <3> QED BY <2>1, <2>8, <3>3
  <2>10. ASSUME NEW j \in Queues, j # k PROVE RingOK(j)'
    BY <2>1, <2>4, <2>6, <2>7, <2>10 DEF RingOK, RingTurn, Level, Answering
  <2>11. RingOK(k)'
    <3>1. RingTurn(k)' BY <2>1, <2>4, <2>6 DEF RingOK, RingTurn
    <3>3. Level(k)'
      BY <2>6, <2>9 DEF Posted, Level, Answering
    <3>4. ctl'.queue[k].sqdb = q'[k].tail /\ ctl'.queue[k].cqdb = q'[k].head
      BY <2>4, <2>6 DEF RingOK
    <3> QED BY <2>6, <2>7, <3>1, <3>3, <3>4 DEF RingOK
  <2>12. Succeeded' => Succeeded
    <3>1. SUFFICES ASSUME drv'.rc = "ok" PROVE Succeeded BY <2>2 DEF Succeeded
    <3>2. c.ok BY <2>2, <3>1 DEF nvme_cqe_status
    <3>3. ctl.queue[k].ok /\ ctl.queue[k].fetch = q[k].tail BY <2>9, <3>2 DEF Posted
    <3> QED BY <2>0, <2>1, <3>3 DEF Succeeded
  <2>13. ctl'.queue["admin"].live
         /\ (store.open \/ drv.op = "serial" \/ (drv.op = "create_sq" /\ Succeeded) => ctl'.queue["io"].live)
    BY <2>3, <2>6 DEF RingsOK, Queues
  <2> QED BY <2>1, <2>2, <2>10, <2>11, <2>12, <2>13
<1>3. CASE PollTimeout
  <2>1. drv'.pc = "status" /\ drv'.rc = "timeout" /\ drv'.op = drv.op /\ store' = store
    BY <1>0, <1>3 DEF PollTimeout, Calls
  <2>2. drv'.op \in BringUp \/ used'.lost > 0 BY <2>1 DEF Base, CallOK
  <2>3. CASE used'.lost > 0 BY <2>3 DEF RingsOK, Trusted
  <2>4. CASE drv'.op \in BringUp
    <3>1. ~store'.open BY <2>1, <2>4 DEF Base, CallOK, BringUp, IoOps
    <3> QED BY <2>1, <3>1 DEF RingsOK, Trusted, Building
  <2> QED BY <2>2, <2>3, <2>4
<1>4. CASE copy_in \/ NextTransfer \/ EndRequest \/ Return
  <2>1. /\ drv.pc \in {"copy", "status", "return"} /\ drv.op \in IoOps
        /\ UNCHANGED <<q, cq, ctl, store, used>>
    BY <1>4 DEF copy_in, NextTransfer, EndRequest, Return, QueueOf, IoOps, Base, CallOK
  <2>2. store.open BY <2>1 DEF Base, CallOK
  <2>3. drv'.pc # "wait"
    <3>1. CASE NextTransfer
      <4>1. PICK x \in {"return", "copy", "submit"} : drv' = [drv EXCEPT !.done = drv.done + Nlb, !.pc = x]
        BY <3>1 DEF NextTransfer
      <4> QED BY <1>0, <4>1 DEF Calls
    <3>2. CASE copy_in \/ EndRequest \/ Return
      BY <1>0, <3>2 DEF copy_in, EndRequest, Return, Calls, Idle
    <3> QED BY <1>4, <3>1, <3>2
  <2>4. Trusted' => Trusted BY <2>1, <2>2 DEF Trusted
  <2>5. Trusted => ctl.queue["io"].live BY <2>2 DEF RingsOK
  <2> QED BY <2>1, <2>3, <2>4, <2>5, RingsQuiet
<1>5. CASE Ready
  <2>1. drv.pc = "enabling" /\ UNCHANGED <<q, cq, ctl, store, used>> BY <1>5 DEF Ready
  <2>2. drv'.pc = "submit" /\ drv'.op = "identify" BY <1>0, <1>5 DEF Ready, Calls
  <2>3. Trusted' => Trusted BY <2>1, <2>2 DEF Trusted, Building
  <2>4. Trusted => (store.open => ctl.queue["io"].live) BY DEF RingsOK
  <2> QED BY <2>1, <2>2, <2>3, <2>4, RingsQuiet
<1>6. CASE OpenFails
  <2>1. drv'.pc = "idle" /\ store' = store BY <1>6 DEF OpenFails, Idle
  <2>2. drv.op \notin IoOps /\ drv.pc # "idle" BY <1>6 DEF OpenFails, IoOps, Base, CallOK
  <2>3. ~store.open BY <2>2 DEF Base, CallOK
  <2> QED BY <2>1, <2>3 DEF RingsOK, Trusted, Building
<1>7. CASE AdminNext
  <2> DEFINE after == [identify |-> "create_cq", create_cq |-> "create_sq", create_sq |-> "serial"]
  <2>1. /\ drv.pc = "status" /\ drv.rc = "ok" /\ UNCHANGED <<q, cq, ctl, store, used>>
        /\ drv.op \in {"identify", "create_cq", "create_sq"}
        /\ drv' = [drv EXCEPT !.pc = "submit", !.op = after[drv.op]]
    BY <1>7, AfterFacts DEF AdminNext
  <2>2. drv'.pc = "submit" /\ drv'.op = after[drv.op] BY <1>0, <2>1 DEF Calls
  <2>3. drv'.op = "serial" => drv.op = "create_sq" BY <2>1, <2>2, AfterFacts
  <2>4. Trusted' => Trusted BY <2>1, <2>2 DEF Trusted, Building
  <2>5. Succeeded /\ ~Succeeded' BY <2>1, <2>2 DEF Succeeded
  <2>6. Trusted => (store.open \/ drv.op = "create_sq" => ctl.queue["io"].live)
    BY <2>5 DEF RingsOK
  <2> QED BY <2>1, <2>2, <2>3, <2>4, <2>5, <2>6, RingsQuiet
<1>8. CASE Opened
  <2>1. /\ drv.pc = "status" /\ drv.op = "serial" /\ drv'.pc = "idle" /\ drv'.op = "none"
        /\ UNCHANGED <<q, cq, ctl, used>>
    BY <1>8 DEF Opened, Idle
  <2>2. used.lost = 0 => drv.rc # "timeout" BY <2>1 DEF Base, CallOK, BringUp
  <2>3. Trusted' => Trusted BY <2>1, <2>2 DEF Trusted, Building
  <2>4. Trusted => ctl.queue["io"].live BY <2>1 DEF RingsOK
  <2> QED BY <2>1, <2>3, <2>4, RingsQuiet
<1> QED BY <1>1, <1>2, <1>3, <1>4, <1>5, <1>6, <1>7, <1>8 DEF DriverStep

\* While the rings count, the controller is enabled.
LEMMA TrustedEnabled ==
  ASSUME Base, Trusted
  PROVE  ctl.en
  BY DEF Base, UpOK, Trusted, Building

\* The controller executes the one command that was sent.
LEMMA ExecIsSent ==
  ASSUME Base, RingsOK, Trusted, NEW k \in Queues, NEW ok \in BOOLEAN, NEW n, CtlExec(k, ok, n)
  PROVE  /\ drv.pc = "wait" /\ QueueOf(drv.op) = k /\ Sent(k)
         /\ sq[k][ctl.queue[k].fetch] = [op |-> drv.op, lba |-> Lba, nlb |-> Nlb]
         /\ sq[k][ctl.queue[k].fetch].op = drv.op
<1>1. RingOK(k) BY DEF RingsOK
<1>2. ctl.queue[k].fetch # ctl.queue[k].sqdb BY DEF CtlExec
<1>3. InFlight(k) /\ Sent(k) BY <1>1, <1>2 DEF RingOK, Level, Executed, Posted
<1>4. sq[k][ctl.queue[k].fetch] = [op |-> drv.op, lba |-> Lba, nlb |-> Nlb] BY <1>3 DEF Sent
<1> QED BY <1>3, <1>4 DEF InFlight

\* And so does a step of the controller.
LEMMA RingsController ==
  ASSUME Base, RingsOK, ControllerStep
  PROVE  RingsOK'
<1> SUFFICES ASSUME Trusted' PROVE /\ \A j \in Queues : RingOK(j)'
                                   /\ ctl'.queue["admin"].live
                                   /\ store'.open \/ drv'.op = "serial" \/ (drv'.op = "create_sq" /\ Succeeded')
                                        => ctl'.queue["io"].live
  BY DEF RingsOK
<1>1. UNCHANGED <<q, sq, drv, store>> /\ used'.lost = used.lost BY CallController, TypeController
<1>2. Trusted BY <1>1 DEF Trusted, Building
<1>3. /\ \A j \in Queues : RingOK(j)
      /\ ctl.queue["admin"].live
      /\ store.open \/ drv.op = "serial" \/ (drv.op = "create_sq" /\ Succeeded) => ctl.queue["io"].live
  BY <1>2 DEF RingsOK
<1>4. \A j \in Queues : InFlight(j)' <=> InFlight(j) BY <1>1 DEF InFlight
<1>5. Lba' = Lba /\ Nlb' = Nlb BY <1>1 DEF Lba, Nlb
<1>6. CASE CtlReady
  <2>1. ctl'.queue = ctl.queue /\ cq' = cq BY <1>2, <1>6, ReadyFields, TrustedEnabled DEF CtlReady
  <2>2. \A j \in Queues : RingOK(j)'
    BY <1>1, <1>3, <1>4, <1>5, <2>1
    DEF RingOK, RingTurn, Level, Answering, Sent, Executed, Posted
  <2>3. Succeeded' => Succeeded BY <1>1, <2>1 DEF Succeeded
  <2> QED BY <1>1, <1>3, <2>1, <2>2, <2>3
<1>7. ASSUME NEW k \in Queues, NEW ok \in BOOLEAN, NEW n \in 0 .. SecPerXfer, CtlExec(k, ok, n)
      PROVE  /\ \A j \in Queues : RingOK(j)'
             /\ ctl'.queue["admin"].live
             /\ store'.open \/ drv'.op = "serial" \/ (drv'.op = "create_sq" /\ Succeeded')
                  => ctl'.queue["io"].live
  <2>1. /\ drv.pc = "wait" /\ QueueOf(drv.op) = k /\ Sent(k)
        /\ sq[k][ctl.queue[k].fetch].op = drv.op
    BY <1>2, <1>7, ExecIsSent
  <2>2. cq' = cq BY <1>7 DEF CtlExec
  <2>3. /\ ctl'.queue[k].busy /\ ctl'.queue[k].ok = ok
        /\ ctl'.queue[k].fetch = NextEntry(ctl.queue[k].fetch)
        /\ ctl'.queue[k].live = ctl.queue[k].live
        /\ \A j \in Queues : /\ ctl'.queue[j].sqdb = ctl.queue[j].sqdb
                              /\ ctl'.queue[j].post = ctl.queue[j].post
                              /\ ctl'.queue[j].cqdb = ctl.queue[j].cqdb
                              /\ ctl'.queue[j].phase = ctl.queue[j].phase
        /\ \A j \in Queues \ {k} :
              /\ ctl'.queue[j].busy = ctl.queue[j].busy
              /\ ctl'.queue[j].ok = ctl.queue[j].ok
              /\ ctl'.queue[j].fetch = ctl.queue[j].fetch
              /\ ctl'.queue[j].live = (ctl.queue[j].live \/ (drv.op = "create_sq" /\ ok))
    BY <1>7, <2>1, ExecFields
  <2>4. ASSUME NEW j \in Queues PROVE RingOK(j)'
    <3>1. RingTurn(j)' /\ ctl'.queue[j].sqdb = q'[j].tail /\ ctl'.queue[j].cqdb = q'[j].head
      BY <1>1, <1>3, <2>2, <2>3 DEF RingOK, RingTurn
    <3>2. CASE j = k
      <4>1. Executed(k)' BY <1>1, <2>1, <2>3 DEF Executed, Sent, Answering
      <4>2. InFlight(k)' BY <1>4, <2>1 DEF InFlight
      <4> QED BY <3>1, <3>2, <4>1, <4>2 DEF RingOK
    <3>3. CASE j # k
      <4>1. ~InFlight(j) BY <2>1, <3>3 DEF InFlight
      <4>2. Level(j)' BY <1>1, <1>3, <2>3, <3>3, <4>1 DEF RingOK, Level, Answering
      <4> QED BY <1>4, <3>1, <4>1, <4>2 DEF RingOK
    <3> QED BY <3>2, <3>3
  <2>5. "admin" \in Queues /\ "io" \in Queues BY DEF Queues
  <2>6. ctl'.queue["admin"].live BY <1>3, <2>3, <2>5
  <2>7. ctl.queue["io"].live => ctl'.queue["io"].live BY <2>3, <2>5
  <2>8. drv.op = "create_sq" /\ Succeeded' => ctl'.queue["io"].live
    <3> SUFFICES ASSUME drv.op = "create_sq", Succeeded' PROVE ctl'.queue["io"].live OBVIOUS
    <3>1. k = "admin" BY <2>1 DEF QueueOf
    <3>2. ok BY <1>1, <2>1, <2>3 DEF Succeeded
    <3> QED BY <2>3, <2>5, <3>1, <3>2
  <2> QED BY <1>1, <1>3, <2>4, <2>6, <2>7, <2>8
<1>8. ASSUME NEW k \in Queues, CtlPost(k)
      PROVE  /\ \A j \in Queues : RingOK(j)'
             /\ ctl'.queue["admin"].live
             /\ store'.open \/ drv'.op = "serial" \/ (drv'.op = "create_sq" /\ Succeeded')
                  => ctl'.queue["io"].live
  <2> DEFINE c == ctl.queue[k]
             d == ctl'.queue[k]
  <2>1. /\ \A j \in Queues \ {k} : ctl'.queue[j] = ctl.queue[j]
        /\ ~d.busy /\ d.post = NextEntry(c.post)
        /\ d.phase = (IF d.post = 0 THEN 1 - c.phase ELSE c.phase)
        /\ d.live = c.live /\ d.sqdb = c.sqdb /\ d.fetch = c.fetch /\ d.cqdb = c.cqdb
        /\ d.ok = c.ok
    BY <1>8, PostFields
  <2>2. c.busy /\ cq' = [cq EXCEPT ![k][c.post] = [phase |-> c.phase, ok |-> c.ok]]
    BY <1>8 DEF CtlPost
  <2>3. InFlight(k) /\ Executed(k) BY <1>3, <2>2 DEF RingOK, Sent, Posted, Level
  <2>4. c \in CSides BY DEF Base, NvmeTypeOK, Controllers
  <2>5. c.post \in Entries /\ c.phase \in {0, 1} BY <2>4 DEF CSides
  <2>6. /\ cq'[k][c.post] = [phase |-> c.phase, ok |-> c.ok]
        /\ cq'[k][c.post].phase = c.phase
        /\ \A e \in Entries : e # c.post => cq'[k][e] = cq[k][e]
        /\ \A j \in Queues : j # k => cq'[j] = cq[j]
    BY <2>2, <2>5 DEF Base, NvmeTypeOK
  <2>7. RingTurn(k)'
    <3> DEFINE post == c.post
               ph == c.phase
               ring == cq[k]
               new == cq'[k]
    <3>1. TurnOf(ring, post, ph) BY <1>3 DEF RingOK, RingTurn, TurnOf
    <3>2. post \in Entries /\ ph \in {0, 1} /\ OneMore(ring, new, post, ph)
      BY <2>5, <2>6 DEF OneMore
    <3>3. d.post = NextEntry(post) /\ d.phase = IF NextEntry(post) = 0 THEN 1 - ph ELSE ph BY <2>1
    <3> HIDE DEF post, ph, ring, new
    <3>4. TurnOf(new, NextEntry(post), IF NextEntry(post) = 0 THEN 1 - ph ELSE ph)
      BY <3>1, <3>2, PostTurns
    <3> QED BY <3>3, <3>4 DEF RingTurn, TurnOf, new
  <2>8. Posted(k)'
    <3>1. c.post = q[k].head /\ c.phase = q[k].phase /\ c.fetch = q[k].tail BY <2>3 DEF Executed, Answering
    <3>2. d.phase = NextPhase(d.post, q[k].phase) BY <2>1, <3>1 DEF NextPhase
    <3> QED BY <1>1, <2>1, <2>6, <3>1, <3>2 DEF Posted
  <2>9. ASSUME NEW j \in Queues PROVE RingOK(j)'
    <3>1. CASE j = k BY <1>1, <1>3, <1>4, <2>1, <2>3, <2>7, <2>8, <3>1 DEF RingOK
    <3>2. CASE j # k
      <4>1. ~InFlight(j) BY <2>3, <3>2 DEF InFlight
      <4>2. ctl'.queue[j] = ctl.queue[j] /\ cq'[j] = cq[j] BY <2>1, <2>6, <3>2
      <4> QED BY <1>1, <1>3, <1>4, <4>1, <4>2 DEF RingOK, RingTurn, Level, Answering
    <3> QED BY <3>1, <3>2
  <2>10. \A j \in Queues : /\ ctl'.queue[j].live = ctl.queue[j].live
                           /\ ctl'.queue[j].fetch = ctl.queue[j].fetch
                           /\ ctl'.queue[j].ok = ctl.queue[j].ok
    BY <2>1
  <2>11. "admin" \in Queues /\ "io" \in Queues /\ QueueOf(drv.op) \in Queues BY DEF Queues, QueueOf
  <2>12. Succeeded' => Succeeded BY <1>1, <2>10, <2>11 DEF Succeeded
  <2> QED BY <1>1, <1>3, <2>9, <2>10, <2>11, <2>12
<1> QED BY <1>6, <1>7, <1>8 DEF ControllerStep

\* New queues.
LEMMA RingsQueueAlloc ==
  ASSUME Base, QueueAlloc
  PROVE  RingsOK'
<1>1. ~store'.open /\ drv.pc = "disabling" BY BaseQueueAlloc
<1>2. CASE NoFrames
  <2>1. drv'.pc = "idle" BY <1>2 DEF NoFrames, Idle
  <2> QED BY <1>1, <2>1 DEF RingsOK, Trusted, Building
<1>3. CASE QueuesUp
  <2>1. /\ drv'.pc = "enabling" /\ drv'.op = "wait_rdy"
    BY <1>1, <1>3 DEF QueuesUp, Base, NvmeTypeOK, Calls, CallOK
  <2>2. /\ q' = [k \in Queues |-> NewQueue] /\ cq' = [k \in Queues |-> EmptyRing] /\ ~ctl.rdy
    BY <1>3 DEF QueuesUp
  <2>3. ctl'.queue["admin"] = [NoQueue EXCEPT !.live = TRUE] /\ ctl'.queue["io"] = NoQueue
    BY <1>3, <2>2, QueuesUpFields DEF Base, UpOK
  <2>4. \A k \in Queues : /\ ctl'.queue[k].fetch = 0 /\ ctl'.queue[k].sqdb = 0
                          /\ ctl'.queue[k].post = 0 /\ ctl'.queue[k].cqdb = 0
                          /\ ctl'.queue[k].phase = 1 /\ ~ctl'.queue[k].busy
    BY <2>3, LiveFields DEF Queues, NoQueue
  <2>5. \A k \in Queues : q'[k].tail = 0 /\ q'[k].head = 0 /\ q'[k].phase = 1
    BY <2>2 DEF NewQueue
  <2>6. \A k \in Queues : \A e \in Entries : cq'[k][e].phase = 0 /\ ~(e < 0)
    BY <2>2, NvmeAssumption DEF EmptyRing, NoCqe, Entries
  <2>7. \A k \in Queues : RingOK(k)'
    BY <2>1, <2>4, <2>5, <2>6 DEF RingOK, RingTurn, InFlight, Level, Answering
  <2>8. ctl'.queue["admin"].live BY <2>3, LiveFields
  <2> QED BY <1>1, <2>1, <2>7, <2>8 DEF RingsOK
<1> QED BY <1>2, <1>3 DEF QueueAlloc

\* At the start nothing is asked of the rings.
LEMMA RingsInit == Init => RingsOK
  BY DEF Init, NvmeInit, RingsOK, Trusted, Building, Idle

\* Every step.
LEMMA RingsNext ==
  ASSUME Base, RingsOK, [Next]_vars
  PROVE  RingsOK'
<1>0. Base' BY BaseNext
<1>1. CASE UNCHANGED nvmeVars
  BY <1>1 DEF nvmeVars, RingsOK, Trusted, Building, Succeeded, RingOK, RingTurn, Level, Answering,
              Sent, Executed, Posted, InFlight, Lba, Nlb
<1>2. CASE Mapped
  <2>1. ~store'.open /\ Disable BY <1>2, BaseMapped DEF Mapped
  <2>2. drv'.pc = "disabling" BY <2>1, DisableFields
  <2> QED BY <2>1, <2>2 DEF RingsOK, Trusted, Building
<1>3. CASE QueueAlloc BY <1>3, RingsQueueAlloc
<1>4. CASE Client
  <2>1. PICK r \in Requests : Request(r[1], r[2], r[3], r[4]) BY <1>4 DEF Client
  <2>2. drv.pc = "idle" /\ UNCHANGED <<q, cq, ctl, store>> /\ store.open BY <2>1 DEF Request
  <2>3. drv'.pc # "wait" BY <2>1 DEF Request, Idle
  <2>4. used'.lost = used.lost BY <2>1, CounterFields DEF Request, Base, NvmeTypeOK
  <2>5. Trusted' => Trusted BY <2>2, <2>4 DEF Trusted
  <2>6. Trusted => ctl.queue["io"].live BY <2>2 DEF RingsOK
  <2> QED BY <2>2, <2>3, <2>5, <2>6, RingsQuiet
<1>5. CASE Driving BY <1>0, <1>5, RingsDriver DEF Driving
<1>6. CASE Controller BY <1>6, RingsController DEF Controller
<1>7. CASE \/ Boot \/ storage_open \/ cmd_pci_main \/ Scanning \/ ScanIsAll \/ nvme_init
           \/ Mapping \/ MapFailed \/ UNCHANGED vars
  BY <1>1, <1>7 DEF Boot, storage_open, cmd_pci_main, Scanning, ScanIsAll, nvme_init, Mapping,
                    MapFailed, vars
<1> QED BY <1>2, <1>3, <1>4, <1>5, <1>6, <1>7 DEF Next, KernelStep

\* What the invariant says when nothing is in flight.
LEMMA RingsImply ==
  ASSUME Base, RingsOK
  PROVE  RingsInStep
<1> SUFFICES ASSUME NEW k \in Queues, store.open, used.lost = 0, drv.pc # "wait"
             PROVE  /\ ctl.queue[k].live /\ ~ctl.queue[k].busy
                    /\ ctl.queue[k].fetch = q[k].tail
                    /\ ctl.queue[k].post = q[k].head /\ ctl.queue[k].phase = q[k].phase
                    /\ ~nvme_cqe_is_new(cq[k][q[k].head], q[k].phase)
  BY DEF RingsInStep
<1>1. Trusted BY DEF Trusted
<1>2. RingOK(k) /\ Level(k) BY <1>1 DEF RingsOK, RingOK, InFlight
<1>3. ctl.queue[k].live BY <1>1 DEF RingsOK, Queues
<1>4. q[k] \in QSides BY DEF Base, NvmeTypeOK
<1>5. q[k].head \in Entries /\ q[k].phase \in {0, 1} BY <1>4 DEF QSides
<1>6. ~(q[k].head < q[k].head) BY <1>5, NvmeAssumption DEF Entries
<1>7. cq[k][q[k].head].phase = 1 - q[k].phase
  BY <1>2, <1>5, <1>6 DEF RingOK, RingTurn, Level, Answering
<1>8. ~nvme_cqe_is_new(cq[k][q[k].head], q[k].phase) BY <1>5, <1>7 DEF nvme_cqe_is_new
<1> QED BY <1>2, <1>3, <1>8 DEF Level, Answering

\* For any queue depth the completion the driver takes is that of the command
\* it sent: with the disk open and no command given up on, both sides of both
\* rings are at the same entry with the same phase whenever nothing is in
\* flight, through every wrap and after failed attempts to open (queue_exec).
THEOREM RingsStayInStep == Spec => []RingsInStep
<1>1. Init => Base /\ RingsOK BY BaseInit, RingsInit
<1>2. Base /\ RingsOK /\ [Next]_vars => Base' /\ RingsOK' BY BaseNext, RingsNext
<1>3. Base /\ RingsOK => RingsInStep BY RingsImply
<1> QED BY <1>1, <1>2, <1>3, PTL DEF Spec

-----------------------------------------------------------------------------
(* The data.                                                               *)

\* Commands for the medium stay in the io queue of an open disk.
LEMMA OpsNext ==
  ASSUME Base, OpsOK, [Next]_vars
  PROVE  OpsOK'
<1> USE DEF Base
<1>1. CASE sq' = sq /\ (store.open => store'.open) BY <1>1 DEF OpsOK
<1>2. CASE UNCHANGED <<sq, store>> BY <1>1, <1>2
<1>3. CASE \/ Boot \/ storage_open \/ cmd_pci_main \/ Scanning \/ ScanIsAll \/ nvme_init
           \/ Mapping \/ MapFailed \/ Mapped \/ UNCHANGED vars
  BY <1>2, <1>3 DEF Boot, storage_open, cmd_pci_main, Scanning, ScanIsAll, nvme_init, Mapping,
                    MapFailed, Mapped, vars, nvmeVars
<1>4. CASE QueueAlloc
  <2>1. CASE QueuesUp
    <3>1. sq' = [k \in Queues |-> [e \in Entries |-> NoCmd]] BY <2>1 DEF QueuesUp
    <3>2. \A k \in Queues : \A e \in Entries : sq'[k][e].op = "none" BY <3>1 DEF NoCmd
    <3> QED BY <3>2 DEF OpsOK, Queues, IoOps
  <2>2. CASE NoFrames BY <1>2, <2>2 DEF NoFrames
  <2> QED BY <1>4, <2>1, <2>2 DEF QueueAlloc
<1>5. CASE Client
  <2>1. PICK r \in Requests : Request(r[1], r[2], r[3], r[4]) BY <1>5 DEF Client
  <2> QED BY <1>2, <2>1 DEF Request
<1>6. CASE Controller BY <1>2, <1>6, CallController DEF Controller
<1>7. CASE Driving
  <2>1. CASE Submit
    <3>1. PICK k \in Queues : k = QueueOf(drv.op) BY DEF QueueOf, Queues
    <3>2. /\ sq' = [sq EXCEPT ![k][q[k].tail] = [op |-> drv.op, lba |-> Lba, nlb |-> Nlb]]
          /\ store' = store /\ drv.pc = "submit"
      BY <2>1, <3>1 DEF Submit
    <3>3. sq \in [Queues -> [Entries -> Commands]] /\ q[k].tail \in Entries
      BY <2>1, <3>1, SubmitFields DEF NvmeTypeOK
    <3>4. \A j \in Queues : \A e \in Entries :
            sq'[j][e].op = IF j = k /\ e = q[k].tail THEN drv.op ELSE sq[j][e].op
      BY <3>2, <3>3
    <3>5. k = "admin" => drv.op \notin IoOps BY <3>1 DEF QueueOf, IoOps
    <3>6. ~store.open => k = "admin" BY <3>1, <3>2 DEF QueueOf, CallOK, IoOps
    <3> QED BY <3>2, <3>4, <3>5, <3>6 DEF OpsOK, Queues
  <2>2. CASE Opened
    <3>1. sq' = sq /\ store'.open BY <2>2 DEF Opened
    <3> QED BY <1>1, <3>1
  <2>3. CASE ~Submit /\ ~Opened
    BY <1>2, <1>7, <2>3 DEF Driving, DriverStep, PollHit, PollTimeout, copy_in, NextTransfer,
                            EndRequest, Return, Ready, OpenFails, AdminNext
  <2> QED BY <2>1, <2>2, <2>3
<1> QED BY <1>3, <1>4, <1>5, <1>6, <1>7 DEF Next, KernelStep

\* A step that moves no data and stays in its transfer.
LEMMA DataQuiet ==
  ASSUME WriteOK, ReadOK, UNCHANGED <<disk, want, buf, dma>>,
         used'.lost = 0 => used.lost = 0,
         drv'.op = drv.op, drv'.lba = drv.lba, drv'.count = drv.count, drv'.done = drv.done,
         used.lost = 0 /\ drv.op \in {"read", "write"} /\ Succeeded' => Succeeded,
         used.lost = 0 /\ drv.op \in {"read", "write"} /\ Unexecuted' => Unexecuted
  PROVE  WriteOK' /\ ReadOK'
<1>1. Region' = Region /\ Lba' = Lba /\ Nlb' = Nlb BY DEF Region, Lba, Nlb
<1>2. \A l : Wrote(l)' = Wrote(l) BY DEF Wrote
<1>3. \A l \in Region : drv.op = "write" BY DEF Region
<1>4. WriteOK' BY <1>1, <1>2, <1>3 DEF WriteOK
<1>5. ReadOK' BY <1>1 DEF ReadOK
<1> QED BY <1>4, <1>5

\* No transfer before or after.
LEMMA DataNone ==
  ASSUME WriteOK, UNCHANGED <<disk, want>>, used'.lost = 0 => used.lost = 0,
         drv.op # "write", drv'.op \notin {"read", "write"}
  PROVE  WriteOK' /\ ReadOK'
<1>1. Region = {} /\ Region' = {} BY DEF Region
<1> QED BY <1>1 DEF WriteOK, ReadOK

\* A success is one the controller reported.
LEMMA HitSucceeded ==
  ASSUME Base, RingsOK, PollHit, used.lost = 0, Succeeded'
  PROVE  Succeeded
<1>1. PICK k \in Queues : k = QueueOf(drv.op) BY DEF QueueOf, Queues
<1> DEFINE c == cq[k][q[k].head]
<1>2. /\ drv.pc = "wait" /\ c.phase = q[k].phase
      /\ drv' = [drv EXCEPT !.pc = "status", !.rc = nvme_cqe_status(c)]
  BY <1>1 DEF PollHit, nvme_cqe_is_new
<1>3. drv'.pc = "status" /\ drv'.rc = nvme_cqe_status(c) BY <1>2 DEF Base, NvmeTypeOK, Calls
<1>4. c.ok BY <1>3 DEF Succeeded, nvme_cqe_status
<1>5. RingOK(k) /\ InFlight(k) BY <1>1, <1>2 DEF RingsOK, Trusted, Building, InFlight
<1>6. q[k].head \in Entries /\ q[k].phase \in {0, 1} BY DEF Base, NvmeTypeOK, QSides
<1>7. Posted(k)
  <2>1. Sent(k) \/ Executed(k) \/ Posted(k) BY <1>5 DEF RingOK
  <2>2. SUFFICES ASSUME Answering(k) PROVE FALSE BY <2>1 DEF Sent, Executed
  <2>3. ~(q[k].head < q[k].head) BY <1>6, NvmeAssumption DEF Entries
  <2>4. c.phase = 1 - q[k].phase BY <1>5, <1>6, <2>2, <2>3 DEF RingOK, RingTurn, Answering
  <2> QED BY <1>2, <1>6, <2>4
<1>8. ctl.queue[k].ok /\ ctl.queue[k].fetch = q[k].tail BY <1>4, <1>7 DEF Posted
<1> QED BY <1>1, <1>2, <1>8 DEF Succeeded

\* The fields of the call after a step that only moves it on.
LEMMA PcFields ==
  ASSUME drv \in Calls, NEW x, drv' = [drv EXCEPT !.pc = x]
  PROVE  /\ drv'.pc = x /\ drv'.op = drv.op /\ drv'.lba = drv.lba /\ drv'.count = drv.count
         /\ drv'.done = drv.done /\ drv'.rc = drv.rc
  BY DEF Calls

\* A command is sent: it has not succeeded yet.
LEMMA DataSubmit ==
  ASSUME Base, RingsOK, WriteOK, ReadOK, Submit
  PROVE  WriteOK' /\ ReadOK'
<1>1. /\ drv.pc = "submit" /\ drv' = [drv EXCEPT !.pc = "wait"] /\ drv \in Calls
      /\ UNCHANGED <<dma, disk, buf, store, used, want>>
  BY DEF Submit, Base, NvmeTypeOK
<1>2. /\ drv'.pc = "wait" /\ drv'.op = drv.op /\ drv'.lba = drv.lba /\ drv'.count = drv.count
      /\ drv'.done = drv.done
  BY <1>1, PcFields
<1>3. used.lost = 0 /\ Succeeded' => Succeeded
  <2> SUFFICES ASSUME used.lost = 0 PROVE ~Succeeded' OBVIOUS
  <2>1. PICK k \in Queues : k = QueueOf(drv.op) BY DEF QueueOf, Queues
  <2>2. RingOK(k) /\ ~InFlight(k) BY <1>1 DEF RingsOK, Trusted, Building, InFlight
  <2>3. ctl.queue[k].fetch = q[k].tail BY <2>2 DEF RingOK, Level
  <2>4. /\ q[k].tail \in Entries /\ q'[k].tail = NextEntry(q[k].tail)
        /\ ctl'.queue[k].fetch = ctl.queue[k].fetch
    BY <2>1, SubmitFields
  <2>5. ctl'.queue[k].fetch # q'[k].tail BY <2>3, <2>4, EntryFacts
  <2> QED BY <1>2, <2>1, <2>5 DEF Succeeded
<1>4. Unexecuted BY <1>1 DEF Unexecuted
<1> QED BY <1>1, <1>2, <1>3, <1>4, DataQuiet

\* Its completion is taken.
LEMMA DataHit ==
  ASSUME Base, RingsOK, WriteOK, ReadOK, PollHit
  PROVE  WriteOK' /\ ReadOK'
<1>1. PICK y : drv' = [drv EXCEPT !.pc = "status", !.rc = y]
  BY DEF PollHit
<1>2. /\ drv'.pc = "status" /\ drv'.op = drv.op /\ drv'.lba = drv.lba /\ drv'.count = drv.count
      /\ drv'.done = drv.done
  BY <1>1 DEF Base, NvmeTypeOK, Calls
<1>3. UNCHANGED <<dma, disk, buf, store, used, want>> BY DEF PollHit
<1>4. used.lost = 0 /\ Succeeded' => Succeeded BY HitSucceeded
<1>5. ~Unexecuted' BY <1>2 DEF Unexecuted
<1> QED BY <1>2, <1>3, <1>4, <1>5, DataQuiet

\* It is given up on: from then on nothing is said of the data, unless it
\* was a command of nvme_init.
LEMMA DataTimeout ==
  ASSUME Base, WriteOK, ReadOK, PollTimeout
  PROVE  WriteOK' /\ ReadOK'
<1> DEFINE l == IF drv.op \in BringUp THEN used.lost ELSE used.lost + 1
<1>1. used' = [used EXCEPT !.timeouts = used.timeouts + 1, !.lost = l] BY DEF PollTimeout
<1>2. used \in Counters BY DEF Base, NvmeTypeOK
<1>3. /\ l \in Nat /\ (drv.op \in BringUp => l = used.lost) /\ (drv.op \notin BringUp => l > 0)
  BY <1>2 DEF Counters
<1> HIDE DEF l
<1>4. used'.lost = l BY <1>1, <1>2, <1>3, CounterFields
<1>5. CASE drv.op \notin BringUp
  <2>1. used'.lost # 0 BY <1>3, <1>4, <1>5
  <2> QED BY <2>1 DEF WriteOK, ReadOK
<1>6. CASE drv.op \in BringUp
  <2>1. drv'.op = drv.op BY DEF PollTimeout, Base, NvmeTypeOK, Calls
  <2>2. drv.op \notin {"read", "write"} BY <1>6 DEF BringUp
  <2>3. UNCHANGED <<disk, want>> BY DEF PollTimeout
  <2> QED BY <1>3, <1>4, <1>6, <2>1, <2>2, <2>3, DataNone
<1> QED BY <1>5, <1>6

\* The bounce page is filled.
LEMMA DataCopy ==
  ASSUME Base, WriteOK, ReadOK, copy_in
  PROVE  WriteOK' /\ ReadOK'
<1>1. /\ drv.pc = "copy" /\ drv' = [drv EXCEPT !.pc = "submit"] /\ drv \in Calls
      /\ UNCHANGED <<disk, buf, used, want>>
      /\ dma' = [i \in 1 .. SecPerXfer |-> IF i <= Nlb THEN buf[drv.done + i] ELSE dma[i]]
  BY DEF copy_in, Base, NvmeTypeOK
<1>2. /\ drv'.pc = "submit" /\ drv'.op = drv.op /\ drv'.lba = drv.lba /\ drv'.count = drv.count
      /\ drv'.done = drv.done
  BY <1>1, PcFields
<1>3. drv.op = "write" BY <1>1 DEF Base, CallOK
<1>4. Region' = Region /\ Lba' = Lba /\ Nlb' = Nlb /\ \A l : Wrote(l)' = Wrote(l)
  BY <1>1, <1>2 DEF Region, Lba, Nlb, Wrote
<1>5. ~Succeeded' BY <1>2 DEF Succeeded
<1>6. \A i \in 1 .. Nlb : dma'[i] = buf[drv.done + i]
  <2>1. Nlb \in 0 .. SecPerXfer /\ SecPerXfer \in Nat BY TransferFits, NvmeAssumption DEF Base
  <2>2. \A i \in 1 .. Nlb : i \in 1 .. SecPerXfer /\ i <= Nlb BY <2>1
  <2> QED BY <1>1, <2>2
<1>7. WriteOK' BY <1>1, <1>2, <1>4, <1>5, <1>6 DEF WriteOK
<1>8. ReadOK' BY <1>2, <1>3 DEF ReadOK
<1> QED BY <1>7, <1>8

\* A transfer has ended and the next one, or the return, comes.
LEMMA DataNextTransfer ==
  ASSUME Base, WriteOK, ReadOK, NextTransfer
  PROVE  WriteOK' /\ ReadOK'
<1> DEFINE d == drv.done + Nlb
           x == IF d = drv.count THEN "return" ELSE IF drv.op = "write" THEN "copy" ELSE "submit"
<1>1. /\ drv' = [drv EXCEPT !.done = d, !.pc = x] /\ drv \in Calls
      /\ drv.pc = "status" /\ drv.op \in {"read", "write"} /\ drv.rc = "ok"
      /\ UNCHANGED <<dma, disk, used, want>>
      /\ buf' = IF drv.op = "read" THEN buf \o SubSeq(dma, 1, Nlb) ELSE buf
  BY DEF NextTransfer, Base, NvmeTypeOK
<1>2. /\ d \in Nat /\ Nlb \in 0 .. SecPerXfer /\ SecPerXfer \in Nat /\ drv.lba \in Nat
      /\ drv.done \in Nat
  BY <1>1, TransferFits, NvmeAssumption DEF Base, Calls
<1>3. x \in {"return", "copy", "submit"} /\ (drv.op = "write" => x # "submit") OBVIOUS
<1> HIDE DEF x
<1>4. /\ drv'.pc = x /\ drv'.op = drv.op /\ drv'.lba = drv.lba /\ drv'.count = drv.count
      /\ drv'.done = d
  BY <1>1 DEF Calls
<1>5. ~Succeeded' /\ (drv.op = "write" => ~Unexecuted')
  BY <1>3, <1>4 DEF Succeeded, Unexecuted
<1>6. Succeeded BY <1>1 DEF Succeeded
<1>7. Lba' = Lba + Nlb BY <1>2, <1>4 DEF Lba
<1>8. WriteOK'
  <2> SUFFICES ASSUME used'.lost = 0
               PROVE  /\ \A l \in Lbas \ Region' : disk'[l] \in want'[l]
                      /\ \A l \in Region' : disk'[l] \in want'[l] \/ disk'[l] = Wrote(l)'
                      /\ \A l \in Region' : l < Lba' \/ (Succeeded' /\ l < Lba' + Nlb')
                           => disk'[l] = Wrote(l)'
    BY <1>4, <1>5 DEF WriteOK
  <2>1. Region' = Region BY <1>4 DEF Region
  <2>2. \A l \in Region : Wrote(l)' = Wrote(l)
    <3>1. Region # {} => buf' = buf BY <1>1 DEF Region
    <3> QED BY <1>4, <3>1 DEF Wrote
  <2>3. \A l \in Region : l < Lba + Nlb => disk[l] = Wrote(l) BY <1>1, <1>6 DEF WriteOK
  <2> QED BY <1>1, <1>5, <1>7, <2>1, <2>2, <2>3 DEF WriteOK
<1>9. ReadOK'
  <2> SUFFICES ASSUME used'.lost = 0, drv.op = "read"
               PROVE  \A i \in 1 .. d : buf'[i] = disk[drv.lba + i - 1]
    BY <1>1, <1>4, <1>5 DEF ReadOK
  <2>1. /\ \A i \in 1 .. drv.done : buf[i] = disk[drv.lba + i - 1]
        /\ \A i \in 1 .. Nlb : dma[i] = disk[Lba + i - 1]
    BY <1>1, <1>6 DEF ReadOK
  <2>2. /\ dma \in [1 .. SecPerXfer -> Values] /\ buf \in Seq(Values) /\ Len(buf) = drv.done
    BY DEF Base, NvmeTypeOK, CallOK
  <2> DEFINE part == SubSeq(dma, 1, Nlb)
  <2>3. dma \in Seq(Values) /\ Len(dma) = SecPerXfer BY <1>2, <2>2
  <2>4. part \in Seq(Values) /\ Len(part) = Nlb /\ \A i \in 1 .. Nlb : part[i] = dma[i]
    BY <1>2, <2>3
  <2>5. buf' = buf \o part BY <1>1
  <2> HIDE DEF part
  <2>6. TAKE i \in 1 .. d
  <2>7. CASE i <= drv.done
    <3>1. i \in 1 .. drv.done BY <1>2, <2>7
    <3>2. buf'[i] = buf[i] BY <1>2, <2>2, <2>4, <2>5, <3>1
    <3> QED BY <2>1, <3>1, <3>2
  <2>8. CASE ~(i <= drv.done)
    <3>1. PICK j \in 1 .. Nlb : j = i - drv.done BY <1>2, <2>8
    <3>2. i = Len(buf) + j BY <1>2, <2>2, <3>1
    <3>3. (buf \o part)[Len(buf) + j] = part[j] BY <2>2, <2>4
    <3>4. buf'[i] = disk[Lba + j - 1] BY <2>1, <2>4, <2>5, <3>2, <3>3
    <3>5. Lba + j - 1 = drv.lba + i - 1 BY <1>2, <3>1 DEF Lba
    <3> QED BY <3>4, <3>5
  <2> QED BY <2>7, <2>8
<1> QED BY <1>8, <1>9

\* The request ends.
LEMMA DataReturn ==
  ASSUME Base, WriteOK, ReadOK, Return
  PROVE  WriteOK' /\ ReadOK'
<1>1. /\ drv.pc = "return" /\ drv' = Idle /\ UNCHANGED <<disk, used>>
      /\ want' = [l \in Lbas |-> IF l \notin Region THEN want[l]
                                 ELSE {Wrote(l)} \cup (IF drv.rc = "ok" THEN {} ELSE want[l])]
  BY DEF Return, Region, Wrote
<1>2. Region' = {} /\ drv'.op = "none" BY <1>1 DEF Region, Idle
<1>3. drv.lba \in Nat /\ drv.count \in Nat /\ drv.done \in Nat /\ \A l \in Lbas : l \in Int
  BY NvmeAssumption DEF Base, NvmeTypeOK, Calls, Lbas
<1>4. ASSUME used.lost = 0, NEW l \in Lbas PROVE disk[l] \in want'[l]
  <2>1. CASE l \notin Region BY <1>1, <1>4, <2>1 DEF WriteOK
  <2>2. CASE l \in Region
    <3>1. CASE drv.rc = "ok"
      <4>1. drv.op = "write" /\ l < drv.lba + drv.count BY <2>2 DEF Region
      <4>2. drv.done = drv.count BY <1>1, <3>1, <4>1 DEF Base, CallOK
      <4>3. l < Lba BY <4>1, <4>2 DEF Lba
      <4>4. disk[l] = Wrote(l) BY <1>4, <2>2, <4>3 DEF WriteOK
      <4> QED BY <1>1, <2>2, <4>4
    <3>2. CASE drv.rc # "ok"
      <4>1. disk[l] \in want[l] \/ disk[l] = Wrote(l) BY <1>4, <2>2 DEF WriteOK
      <4> QED BY <1>1, <2>2, <3>2, <4>1
    <3> QED BY <3>1, <3>2
  <2> QED BY <2>1, <2>2
<1> QED BY <1>1, <1>2, <1>4 DEF WriteOK, ReadOK

\* Every step of the driver.
LEMMA DataDriver ==
  ASSUME Base, RingsOK, WriteOK, ReadOK, DriverStep
  PROVE  WriteOK' /\ ReadOK'
<1>1. CASE EndRequest
  <2>1. /\ drv' = [drv EXCEPT !.pc = "return"] /\ drv \in Calls
        /\ UNCHANGED <<dma, disk, buf, used, want>>
    BY <1>1 DEF EndRequest, Base, NvmeTypeOK
  <2>2. /\ drv'.pc = "return" /\ drv'.op = drv.op /\ drv'.lba = drv.lba /\ drv'.count = drv.count
        /\ drv'.done = drv.done
    BY <2>1, PcFields
  <2>3. ~Succeeded' /\ ~Unexecuted' BY <2>2 DEF Succeeded, Unexecuted
  <2> QED BY <2>1, <2>2, <2>3, DataQuiet
<1>2. CASE Ready \/ AdminNext
  <2>1. PICK op \in AdminOps : drv' = [drv EXCEPT !.pc = "submit", !.op = op]
    BY <1>2, AfterFacts DEF Ready, AdminNext, AdminOps
  <2>2. drv'.op = op BY <2>1 DEF Base, NvmeTypeOK, Calls
  <2>3. drv'.op \notin {"read", "write"} BY <2>1, <2>2 DEF AdminOps
  <2>4. drv.op # "write" BY <1>2, AfterFacts DEF Ready, AdminNext, Base, CallOK
  <2>5. UNCHANGED <<disk, want, used>> BY <1>2 DEF Ready, AdminNext
  <2> QED BY <2>3, <2>4, <2>5, DataNone
<1>3. CASE OpenFails \/ Opened
  <2>1. drv'.op = "none" BY <1>3 DEF OpenFails, Opened, Idle
  <2>2. drv.op # "write" BY <1>3 DEF OpenFails, Opened, Base, CallOK
  <2>3. UNCHANGED <<disk, want>> BY <1>3 DEF OpenFails, Opened
  <2>4. used'.lost = used.lost
    <3>1. used \in Counters BY DEF Base, NvmeTypeOK
    <3>2. used' = used \/ used' = [used EXCEPT !.timeouts = @ + 1] BY <1>3 DEF OpenFails, Opened
    <3> QED BY <3>1, <3>2 DEF Counters
  <2> QED BY <2>1, <2>2, <2>3, <2>4, DataNone
<1> QED
  BY <1>1, <1>2, <1>3, DataSubmit, DataHit, DataTimeout, DataCopy, DataNextTransfer, DataReturn
  DEF DriverStep

\* The controller executes a command of the write under way.
LEMMA DataExecWrite ==
  ASSUME Base, RingsOK, WriteOK, ReadOK, Trusted,
         NEW k \in Queues, NEW ok \in BOOLEAN, NEW n \in 0 .. SecPerXfer, CtlExec(k, ok, n),
         drv.op = "write"
  PROVE  WriteOK' /\ ReadOK'
<1> DEFINE m == IF ok THEN Nlb ELSE n
           part == Lba .. (Lba + m - 1)
<1>1. /\ drv.pc = "wait" /\ QueueOf(drv.op) = k /\ Sent(k)
      /\ sq[k][ctl.queue[k].fetch] = [op |-> drv.op, lba |-> Lba, nlb |-> Nlb]
  BY ExecIsSent
<1>2. UNCHANGED <<q, sq, drv, buf, store, want>> /\ used'.lost = used.lost
  <2>1. ControllerStep BY DEF ControllerStep
  <2> QED BY <2>1, CallController, TypeController
<1>3. /\ ctl'.queue[k].ok = ok /\ ctl'.queue[k].fetch = NextEntry(ctl.queue[k].fetch)
      /\ ctl.queue[k].fetch \in Entries
  BY ExecFields DEF Base, NvmeTypeOK, Controllers, CSides
<1>4. ctl.queue[k].fetch # q[k].tail /\ ctl'.queue[k].fetch = q'[k].tail
  BY <1>1, <1>2, <1>3, EntryFacts DEF Sent
<1>5. Unexecuted /\ ~Unexecuted' /\ (Succeeded' => ok)
  BY <1>1, <1>2, <1>3, <1>4 DEF Unexecuted, Succeeded
<1>6. /\ Nlb \in Nat /\ Lba \in Nat /\ drv.lba \in Nat /\ drv.done \in Nat /\ drv.count \in Nat
      /\ drv.done + Nlb <= drv.count /\ \A l \in Lbas : l \in Int
  BY TransferFits, NvmeAssumption DEF Base, NvmeTypeOK, Calls, Lbas
<1>7. m \in Nat /\ m <= Nlb /\ (ok => m = Nlb)
  <2>1. ~ok => n <= Nlb BY <1>1 DEF CtlExec
  <2> QED BY <1>6, <2>1
<1>8. /\ disk' = [l \in Lbas |-> IF l \in part THEN dma[l - Lba + 1] ELSE disk[l]]
  BY <1>1 DEF CtlExec
<1> HIDE DEF m
<1>9. \A l \in Lbas : l \in part => l \in Region /\ dma[l - Lba + 1] = Wrote(l)
  <2> SUFFICES ASSUME NEW l \in Lbas, l \in part
               PROVE  l \in Region /\ dma[l - Lba + 1] = Wrote(l)
    OBVIOUS
  <2>1. l \in Int /\ Lba <= l /\ l < Lba + Nlb BY <1>6, <1>7
  <2>2. PICK i \in 1 .. Nlb : i = l - Lba + 1 BY <1>6, <2>1
  <2>3. dma[i] = buf[drv.done + i] BY <1>5 DEF WriteOK, Trusted
  <2>4. drv.done + i = l - drv.lba + 1 BY <1>6, <2>1, <2>2 DEF Lba
  <2>5. drv.lba <= l /\ l < drv.lba + drv.count BY <1>6, <2>1 DEF Lba
  <2> QED BY <2>2, <2>3, <2>4, <2>5 DEF Wrote, Region
<1>10. Region' = Region /\ Lba' = Lba /\ Nlb' = Nlb /\ \A l : Wrote(l)' = Wrote(l)
  BY <1>2 DEF Region, Lba, Nlb, Wrote
<1>11. \A l \in Lbas : disk'[l] = IF l \in part THEN Wrote(l) ELSE disk[l] BY <1>8, <1>9
<1>12. \A l \in Lbas : l < Lba => l \notin part BY <1>6, <1>7
<1>13. \A l \in Lbas : ok /\ ~(l < Lba) /\ l < Lba + Nlb => l \in part BY <1>6, <1>7
<1> HIDE DEF part
<1>14. Region \subseteq Lbas BY DEF Region
<1>15. used.lost = 0 BY DEF Trusted
<1>16. \A l \in Region : l < Lba \/ (Succeeded' /\ l < Lba + Nlb) => disk'[l] = Wrote(l)
  BY <1>5, <1>11, <1>12, <1>13, <1>14, <1>15 DEF WriteOK
<1>17. /\ \A l \in Lbas \ Region : disk'[l] \in want[l]
       /\ \A l \in Region : disk'[l] \in want[l] \/ disk'[l] = Wrote(l)
  BY <1>9, <1>11, <1>14, <1>15 DEF WriteOK
<1>18. WriteOK' BY <1>2, <1>5, <1>10, <1>16, <1>17 DEF WriteOK
<1>19. ReadOK' BY <1>2 DEF ReadOK
<1> QED BY <1>18, <1>19

\* Or of the read under way.
LEMMA DataExecRead ==
  ASSUME Base, RingsOK, WriteOK, ReadOK, Trusted,
         NEW k \in Queues, NEW ok \in BOOLEAN, NEW n \in 0 .. SecPerXfer, CtlExec(k, ok, n),
         drv.op = "read"
  PROVE  WriteOK' /\ ReadOK'
<1>1. /\ drv.pc = "wait" /\ QueueOf(drv.op) = k
      /\ sq[k][ctl.queue[k].fetch] = [op |-> drv.op, lba |-> Lba, nlb |-> Nlb]
  BY ExecIsSent
<1>2. UNCHANGED <<q, sq, drv, buf, store, want>> /\ used'.lost = used.lost
  <2>1. ControllerStep BY DEF ControllerStep
  <2> QED BY <2>1, CallController, TypeController
<1>3. ctl'.queue[k].ok = ok BY ExecFields
<1>4. Succeeded' => ok BY <1>1, <1>2, <1>3 DEF Succeeded
<1>5. disk' = disk
  <2>1. disk' = [l \in Lbas |-> disk[l]] BY <1>1 DEF CtlExec
  <2> QED BY <2>1 DEF Base, NvmeTypeOK
<1>6. /\ Nlb \in 0 .. SecPerXfer /\ Lba \in Nat /\ SecPerXfer \in Nat
  BY TransferFits, NvmeAssumption DEF Base
<1>7. ok => \A i \in 1 .. Nlb : dma'[i] = disk[Lba + i - 1]
  <2> SUFFICES ASSUME ok, NEW i \in 1 .. Nlb PROVE dma'[i] = disk[Lba + i - 1] OBVIOUS
  <2>1. dma' = [j \in 1 .. SecPerXfer |-> IF Lba + j - 1 \in Lba .. (Lba + Nlb - 1)
                                         THEN disk[Lba + j - 1] ELSE dma[j]]
    BY <1>1 DEF CtlExec
  <2>2. i \in 1 .. SecPerXfer /\ Lba + i - 1 \in Lba .. (Lba + Nlb - 1) BY <1>6
  <2> QED BY <2>1, <2>2
<1>8. Region = {} /\ Region' = {} /\ Lba' = Lba /\ Nlb' = Nlb BY <1>2 DEF Region, Lba, Nlb
<1>9. WriteOK' BY <1>2, <1>5, <1>8 DEF WriteOK
<1>10. ReadOK' BY <1>2, <1>4, <1>5, <1>7, <1>8 DEF ReadOK
<1> QED BY <1>9, <1>10

\* Every step of the controller.
LEMMA DataController ==
  ASSUME Base, RingsOK, OpsOK, WriteOK, ReadOK, ControllerStep
  PROVE  WriteOK' /\ ReadOK'
<1>1. UNCHANGED <<q, sq, drv, buf, store, want>> /\ used'.lost = used.lost
  BY CallController, TypeController
<1>2. CASE used.lost # 0 BY <1>1, <1>2 DEF WriteOK, ReadOK
<1>3. used.lost = 0 /\ drv.op \in IoOps => Trusted BY DEF Trusted, Base, CallOK
<1>4. QueueOf(drv.op) \in Queues BY DEF QueueOf, Queues
<1>5. CASE CtlReady
  <2>1. UNCHANGED <<dma, disk>> BY <1>5 DEF CtlReady
  <2>2. Trusted => ctl'.queue = ctl.queue BY <1>5, ReadyFields, TrustedEnabled
  <2>3. used.lost = 0 /\ drv.op \in {"read", "write"} => ctl'.queue = ctl.queue
    BY <1>3, <2>2 DEF IoOps
  <2>4. used.lost = 0 /\ drv.op \in {"read", "write"} =>
          (Succeeded' <=> Succeeded) /\ (Unexecuted' <=> Unexecuted)
    BY <1>1, <2>3 DEF Succeeded, Unexecuted
  <2> QED BY <1>1, <2>1, <2>4, DataQuiet
<1>6. ASSUME NEW k \in Queues, CtlPost(k) PROVE WriteOK' /\ ReadOK'
  <2>1. UNCHANGED <<dma, disk>> BY <1>6 DEF CtlPost
  <2>2. /\ ctl'.queue[QueueOf(drv.op)].fetch = ctl.queue[QueueOf(drv.op)].fetch
        /\ ctl'.queue[QueueOf(drv.op)].ok = ctl.queue[QueueOf(drv.op)].ok
    BY <1>4, <1>6, PostFields
  <2>3. (Succeeded' <=> Succeeded) /\ (Unexecuted' <=> Unexecuted)
    BY <1>1, <2>2 DEF Succeeded, Unexecuted
  <2> QED BY <1>1, <2>1, <2>3, DataQuiet
<1>7. ASSUME NEW k \in Queues, NEW ok \in BOOLEAN, NEW n \in 0 .. SecPerXfer, CtlExec(k, ok, n),
             used.lost = 0
      PROVE  WriteOK' /\ ReadOK'
  <2>1. CASE drv.op = "write" BY <1>3, <1>7, <2>1, DataExecWrite DEF IoOps
  <2>2. CASE drv.op = "read" BY <1>3, <1>7, <2>2, DataExecRead DEF IoOps
  <2>3. CASE drv.op \notin {"read", "write"}
    <3>1. sq[k][ctl.queue[k].fetch].op # "write"
      <4>1. CASE Trusted
        <5>1. sq[k][ctl.queue[k].fetch].op = drv.op BY <1>7, <4>1, ExecIsSent
        <5> QED BY <2>3, <5>1
      <4>2. CASE ~Trusted
        <5>1. ~store.open BY <1>7, <4>2 DEF Trusted
        <5>2. ctl.queue[k].fetch \in Entries BY DEF Base, NvmeTypeOK, Controllers, CSides
        <5> QED BY <5>1, <5>2 DEF OpsOK, Queues, IoOps
      <4> QED BY <4>1, <4>2
    <3>2. disk' = [l \in Lbas |-> disk[l]] BY <1>7, <3>1 DEF CtlExec
    <3>3. disk' = disk BY <3>2 DEF Base, NvmeTypeOK
    <3> QED BY <1>1, <2>3, <3>3, DataNone
  <2> QED BY <2>1, <2>2, <2>3
<1> QED BY <1>2, <1>5, <1>6, <1>7 DEF ControllerStep

\* A request begins.
LEMMA DataRequest ==
  ASSUME Base, WriteOK, NEW r \in Requests, Request(r[1], r[2], r[3], r[4])
  PROVE  WriteOK' /\ ReadOK'
<1>1. r[1] \in IoOps /\ r[2] \in Nat BY NvmeAssumption DEF IoOps
<1> DEFINE pc == IF r[1] = "write" THEN "copy" ELSE "submit"
<1>2. drv' = [pc |-> pc, op |-> r[1], lba |-> r[2], count |-> r[3], done |-> 0, rc |-> "ok"]
  BY DEF Request, Idle
<1>3. pc \in {"copy", "submit"} /\ (r[1] = "write" => pc = "copy") OBVIOUS
<1> HIDE DEF pc
<1>4. /\ drv'.pc = pc /\ drv'.op = r[1] /\ drv'.lba = r[2] /\ drv'.done = 0 BY <1>2
<1>5. UNCHANGED <<disk, want>> /\ drv = Idle BY DEF Request, Base, CallOK
<1>6. used'.lost = used.lost BY CounterFields DEF Request, Base, NvmeTypeOK
<1>7. Region = {} BY <1>5 DEF Region, Idle
<1>8. ~Succeeded' /\ (drv'.op = "write" => ~Unexecuted') BY <1>3, <1>4 DEF Succeeded, Unexecuted
<1>9. Region' \subseteq Lbas /\ \A l \in Region' : ~(l < Lba')
  <2>1. Lba' = r[2] BY <1>1, <1>4 DEF Lba
  <2>2. \A l \in Region' : l \in Lbas /\ r[2] <= l BY <1>4 DEF Region
  <2>3. \A l \in Lbas : l \in Int BY NvmeAssumption DEF Lbas
  <2> QED BY <1>1, <2>1, <2>2, <2>3
<1>10. WriteOK' BY <1>5, <1>6, <1>7, <1>8, <1>9 DEF WriteOK
<1>11. ReadOK' BY <1>4, <1>8 DEF ReadOK
<1> QED BY <1>10, <1>11

\* The medium is as the clients expect it.
LEMMA DataInit == Init => DataOK
<1> SUFFICES ASSUME Init PROVE DataOK OBVIOUS
<1>1. /\ drv = Idle /\ disk = [l \in Lbas |-> "zero"] /\ want = [l \in Lbas |-> {"zero"}]
      /\ sq = [k \in Queues |-> [e \in Entries |-> NoCmd]]
  BY DEF Init, NvmeInit
<1>2. OpsOK BY <1>1 DEF OpsOK, NoCmd, Queues, IoOps
<1>3. Region = {} /\ drv.op = "none" BY <1>1 DEF Region, Idle
<1>4. WriteOK BY <1>1, <1>3 DEF WriteOK
<1>5. ReadOK BY <1>3 DEF ReadOK
<1> QED BY <1>2, <1>4, <1>5 DEF DataOK

\* Every step.
LEMMA DataNext ==
  ASSUME Base, RingsOK, DataOK, [Next]_vars
  PROVE  DataOK'
<1> USE DEF DataOK
<1>0. OpsOK' BY OpsNext
<1>1. CASE UNCHANGED nvmeVars
  BY <1>0, <1>1 DEF nvmeVars, WriteOK, ReadOK, Region, Wrote, Lba, Nlb, Succeeded, Unexecuted
<1>2. CASE Mapped
  <2>1. Disable /\ UNCHANGED <<disk, want, used>> BY <1>2 DEF Mapped
  <2>2. drv'.op = "wait_rdy" /\ drv.op = "none" BY <2>1, DisableFields DEF Disable, Base, CallOK, Idle
  <2> QED BY <1>0, <2>1, <2>2, DataNone
<1>3. CASE QueueAlloc
  <2>1. UNCHANGED <<disk, want, used>> BY <1>3 DEF QueueAlloc, QueuesUp, NoFrames
  <2>2. drv.pc = "disabling" /\ drv.op = "wait_rdy" BY <1>3, BaseQueueAlloc DEF Base, CallOK
  <2>3. drv'.op \in {"none", "wait_rdy"}
    BY <1>3, <2>2 DEF QueueAlloc, QueuesUp, NoFrames, Idle, Base, NvmeTypeOK, Calls
  <2> QED BY <1>0, <2>1, <2>2, <2>3, DataNone
<1>4. CASE Client
  <2>1. PICK r \in Requests : Request(r[1], r[2], r[3], r[4]) BY <1>4 DEF Client
  <2> QED BY <1>0, <2>1, DataRequest
<1>5. CASE Driving BY <1>0, <1>5, DataDriver DEF Driving
<1>6. CASE Controller BY <1>0, <1>6, DataController DEF Controller
<1>7. CASE \/ Boot \/ storage_open \/ cmd_pci_main \/ Scanning \/ ScanIsAll \/ nvme_init
           \/ Mapping \/ MapFailed \/ UNCHANGED vars
  BY <1>1, <1>7 DEF Boot, storage_open, cmd_pci_main, Scanning, ScanIsAll, nvme_init, Mapping,
                    MapFailed, vars
<1> QED BY <1>2, <1>3, <1>4, <1>5, <1>6, <1>7 DEF Next, KernelStep

\* What the invariant says when a request returns.
LEMMA DataImply ==
  ASSUME Base, DataOK
  PROVE  TransfersExact
<1> USE DEF DataOK
<1>1. drv.lba \in Nat /\ drv.count \in Nat /\ drv.done \in Nat /\ SectorCount \in Nat
      /\ \A l \in Lbas : l \in Int
  BY NvmeAssumption DEF Base, NvmeTypeOK, Calls, Lbas
<1>2. ASSUME used.lost = 0 PROVE AcknowledgedWritesAreOnDisk
  <2> SUFFICES ASSUME drv.pc = "return", drv.op = "write", drv.rc = "ok", NEW l \in Lbas
               PROVE  IF drv.lba <= l /\ l < drv.lba + drv.count
                      THEN disk[l] = buf[l - drv.lba + 1] ELSE disk[l] \in want[l]
    BY DEF AcknowledgedWritesAreOnDisk
  <2>1. drv.done = drv.count BY DEF Base, CallOK
  <2>2. l \in Region <=> drv.lba <= l /\ l < drv.lba + drv.count BY DEF Region
  <2>3. CASE l \in Region
    <3>1. l < Lba BY <2>1, <2>2, <2>3 DEF Lba
    <3> QED BY <1>2, <2>2, <2>3, <3>1 DEF WriteOK, Wrote
  <2>4. CASE l \notin Region BY <1>2, <2>2, <2>4 DEF WriteOK
  <2> QED BY <2>3, <2>4
<1>3. ASSUME used.lost = 0 PROVE ReadsReturnTheDisk
  <2> SUFFICES ASSUME drv.pc = "return", drv.op = "read", drv.rc = "ok"
               PROVE  /\ Len(buf) = drv.count
                      /\ \A i \in 1 .. drv.count : buf[i] \in want[drv.lba + i - 1]
    BY DEF ReadsReturnTheDisk
  <2>1. drv.done = drv.count /\ Len(buf) = drv.done /\ drv.lba + drv.count <= SectorCount
    BY DEF Base, CallOK
  <2>2. \A l \in Lbas : disk[l] \in want[l] BY <1>3 DEF WriteOK, Region
  <2>3. \A i \in 1 .. drv.count : drv.lba + i - 1 \in Lbas BY <1>1, <2>1 DEF Lbas
  <2>4. \A i \in 1 .. drv.count : buf[i] = disk[drv.lba + i - 1] BY <1>3, <2>1 DEF ReadOK
  <2> QED BY <2>1, <2>2, <2>3, <2>4
<1> QED BY <1>2, <1>3 DEF TransfersExact

\* For any size of namespace, bounce page and queue: while no command was given
\* up on, BLK_OK of a write means that its sectors hold its data and no other
\* sector changed, and BLK_OK of a read that it has what was last written,
\* over all the transfers of a request (op_read, op_write).
THEOREM TransfersStayExact == Spec => []TransfersExact
<1>1. Init => Base /\ RingsOK /\ DataOK BY BaseInit, RingsInit, DataInit
<1>2. Base /\ RingsOK /\ DataOK /\ [Next]_vars => Base' /\ RingsOK' /\ DataOK'
  BY BaseNext, RingsNext, DataNext
<1>3. Base /\ DataOK => TransfersExact BY DataImply
<1> QED BY <1>1, <1>2, <1>3, PTL DEF Spec

-----------------------------------------------------------------------------
(* The walk over the buses.                                                *)

Buses == {0} \cup {hw.fns[f].secondary : f \in Functions}
Listed == {g_devs[n].fn : n \in 1 .. Len(g_devs)}
OnSeenBus(f) == f[1] \in g_bus_seen /\ f \in FunctionsOn(f[1])

Walking == scan.pc \notin {"off", "done"}
Depth == 1 .. Len(scan.stack)

\* The functions a call of scan_bus has still to hand to scan_function.
Waits(frame) == IF frame.slot = 0 THEN frame.todo ELSE frame.todo \ {NextOf(frame.todo)}
Waiting(j) == Waits(scan.stack[j])

Rows == [fn : Functions, class : {hw.fns[f].class : f \in Functions},
         ht : {hw.fns[f].ht : f \in Functions},
         bar : [1 .. EndpointBars -> Nat], bar_size : [1 .. EndpointBars -> Nat]]

\* The buses seen are reachable, and so is what the table has.
BusesOK ==
    /\ 0 \in g_bus_seen /\ g_bus_seen \subseteq Buses
    /\ \A c \in SUBSET Buses : Closed(c) => g_bus_seen \subseteq c
    /\ \A f \in Listed : /\ OnSeenBus(f)
                         /\ IsBridge(hw.fns[f]) => hw.fns[f].secondary \in g_bus_seen

\* No function is listed twice, and one was left out only if the table is full.
ListOK ==
    /\ g_devs \in Seq(Rows) /\ Len(g_devs) <= PCI_MAX_DEVICES
    /\ g_overflow \in BOOLEAN
    /\ \A n, m \in 1 .. Len(g_devs) : n # m => g_devs[n].fn # g_devs[m].fn
    /\ g_overflow => Len(g_devs) = PCI_MAX_DEVICES /\ \E f \in Functions : OnSeenBus(f) /\ f \notin Listed

\* The function a call has in hand has its entry, the ones it has not met yet
\* have none, and belong to it alone.
WaitOK ==
    Walking =>
        /\ \A j \in Depth : scan.stack[j].slot = 0 <=> (j = Len(scan.stack) /\ scan.pc = "function")
        /\ \A j \in Depth : scan.stack[j].slot # 0 =>
             /\ scan.stack[j].slot <= Len(g_devs)
             /\ g_devs[scan.stack[j].slot].fn = NextOf(scan.stack[j].todo)
        /\ \A j, k \in Depth : j < k /\ scan.stack[k].slot # 0 => scan.stack[j].slot < scan.stack[k].slot
        /\ \A j \in Depth : \A f \in Waiting(j) : OnSeenBus(f) /\ f \notin Listed
        /\ \A j, k \in Depth : j # k => Waiting(j) \cap Waiting(k) = {}

\* Nothing on a bus that was seen is forgotten.
CoverOK ==
    ~g_overflow => \A f \in Functions :
        OnSeenBus(f) => f \in Listed \/ (Walking /\ \E j \in Depth : f \in Waiting(j))

\* The BARs of an entry are final unless its function is in hand, of the one
\* at hand those before scan.i.
Sized(n, i) ==
    Walking => \A j \in Depth : scan.stack[j].slot = n => j = Len(scan.stack) /\ i < scan.i

Told(d, h, i, final) ==
    IF i \in MemoryBars(h) /\ final THEN d.bar[i] = h.bars[i].base /\ d.bar_size[i] = h.bars[i].size
    ELSE d.bar[i] = 0 /\ d.bar_size[i] = 0

BarsOK ==
    \A n \in 1 .. Len(g_devs) : \A i \in 1 .. EndpointBars :
        Told(g_devs[n], hw.fns[g_devs[n].fn], i, Sized(n, i))

\* The scan looks at no high half by itself, and has read what ones leave.
HalfOK ==
    scan.pc \in {"bar"} \cup Sizing =>
        /\ scan.i <= BarCount(Device) => Device.bars[scan.i].kind # "high"
        /\ scan.pc \in {"back_lo", "ones_hi", "back_hi", "restore"} =>
             scan.m_lo = Holds(Device.bars[scan.i], AllOnes)
        /\ scan.pc \in {"back_hi", "restore"} /\ Is64(scan.raw_lo) =>
             scan.m_hi = Holds(Device.bars[scan.i + 1], AllOnes)

TableInv == scan.pc # "off" => BusesOK /\ ListOK /\ WaitOK /\ CoverOK /\ BarsOK /\ HalfOK

-----------------------------------------------------------------------------
(* The registers of the controller.                                        *)

\* The command bits of a function, as they are or will be again.
Command(f) == IF scan.pc \in Sizing /\ f = At THEN scan.cmd ELSE conf[f].cmd
Enabled(f) == f \in Functions /\ {"mem", "master"} \subseteq Command(f)

\* The pages of the window from a page on are those of an address.
Shows(first, phys, n) ==
    \A k \in 0 .. (n - 1) : first + k \in DOMAIN window /\ window[first + k] = (phys \div Frame) + k

\* xpt_map_uncached is at work on BAR 0, which is not changed by a scan.
MapOK ==
    /\ g_mmio_next \in Nat /\ regs = [fn |-> regs.fn, va |-> regs.va]
    /\ map.pc \in {"none", "fail", "loop"}
    /\ map.pc = "loop" =>
         LET b == hw.fns[regs.fn].bars[1] IN
         /\ Enabled(regs.fn) /\ 1 \in MemoryBars(hw.fns[regs.fn])
         /\ map = [pc |-> "loop", phys |-> b.base, pages |-> PagesOf(b.base, b.size), i |-> map.i]
         /\ map.i \in Nat /\ map.i <= map.pages
         /\ Shows(g_mmio_next, b.base, map.i)

\* An open disk, or one being brought up, has its registers.
InUse == drv.pc # "idle" \/ store.open
RegsOK ==
    InUse =>
        LET b == hw.fns[regs.fn].bars[1] IN
        /\ Enabled(regs.fn) /\ 1 \in MemoryBars(hw.fns[regs.fn])
        /\ \E first \in Nat : /\ regs.va = first * Frame + (b.base % Frame)
                              /\ Shows(first, b.base, PagesOf(b.base, b.size))

IdentOK == ident = NoIdentity \/ ident = [at |-> IdentityMap(hw.phys_end, hw.fb), cr3 |-> TRUE]

RegsInv == MapOK /\ RegsOK /\ IdentOK
-----------------------------------------------------------------------------
(* What sizing tells of a BAR.                                             *)

\* A quotient and a remainder are the only ones.
LEMMA DivUnique ==
  ASSUME NEW b \in Nat, b > 0, NEW k \in Nat, NEW r \in Nat, r < b
  PROVE  (b * k + r) % b = r /\ (b * k + r) \div b = k
<1> DEFINE a == b * k + r
           u == a \div b
           s == a % b
<1>1. a \in Nat BY SMTT(30)
<1> HIDE DEF a
<1>2. u \in Nat /\ s \in Nat /\ s < b /\ a = b * u + s BY <1>1, DivMod
<1> HIDE DEF u, s
<1>3. b * k + r = b * u + s BY <1>2 DEF a
<1>4. u = k
  <2>1. ~(u < k)
    <3> SUFFICES ASSUME u < k PROVE FALSE OBVIOUS
    <3>1. PICK e \in Nat : k = u + 1 + e
      <4>1. k - u - 1 \in Nat /\ k = u + 1 + (k - u - 1) BY <1>2
      <4> QED BY <4>1
    <3>2. b * k = b * u + b + b * e BY <1>2, <3>1
    <3>3. b * e \in Nat /\ b * u \in Nat BY <1>2, <3>1
    <3> QED BY <1>2, <1>3, <3>2, <3>3
  <2>2. ~(k < u)
    <3> SUFFICES ASSUME k < u PROVE FALSE OBVIOUS
    <3>1. PICK e \in Nat : u = k + 1 + e
      <4>1. u - k - 1 \in Nat /\ u = k + 1 + (u - k - 1) BY <1>2
      <4> QED BY <4>1
    <3>2. b * u = b * k + b + b * e BY <1>2, <3>1
    <3>3. b * e \in Nat /\ b * k \in Nat BY <1>2, <3>1
    <3> QED BY <1>2, <1>3, <3>2, <3>3
  <2> QED BY <1>2, <2>1, <2>2
<1>5. s = r
  <2>1. b * k \in Nat OBVIOUS
  <2> QED BY <1>2, <1>3, <1>4, <2>1
<1> QED BY <1>4, <1>5 DEF u, s, a

\* A number that another divides is a multiple of it.
LEMMA Multiple ==
  ASSUME NEW a \in Nat, NEW b \in Nat, b > 0, a % b = 0
  PROVE  a \div b \in Nat /\ a = b * (a \div b)
  BY DivMod

\* Divisibility carries over.
LEMMA DivTrans ==
  ASSUME NEW a \in Nat, NEW b \in Nat, NEW c \in Nat, b > 0, c > 0, a % b = 0, b % c = 0
  PROVE  a % c = 0
<1>1. PICK k \in Nat : a = b * k BY Multiple
<1>2. PICK m \in Nat : b = c * m BY Multiple
<1>3. m * k \in Nat /\ a = c * (m * k) + 0
  <2>1. m * k \in Nat /\ (c * m) * k = c * (m * k) OBVIOUS
  <2> QED BY <1>1, <1>2, <2>1
<1> QED
  <2> DEFINE x == m * k
  <2>1. x \in Nat /\ a = c * x + 0 BY <1>3
  <2> HIDE DEF x
  <2>2. (c * x + 0) % c = 0 BY <2>1, DivUnique
  <2> QED BY <2>1, <2>2

\* And to a remainder.
LEMMA DivRest ==
  ASSUME NEW a \in Nat, NEW R \in Nat, NEW c \in Nat, R > 0, c > 0, a % c = 0, R % c = 0
  PROVE  (a % R) % c = 0
<1>1. PICK k \in Nat : a = c * k BY Multiple
<1>2. PICK r \in Nat : R = c * r BY Multiple
<1> DEFINE u == a \div R
           s == a % R
<1>3. u \in Nat /\ s \in Nat /\ a = R * u + s BY DivMod
<1> HIDE DEF u, s
<1>4. s = c * (k - r * u)
  <2>1. (c * r) * u = c * (r * u) /\ c * k - c * (r * u) = c * (k - r * u) BY <1>3
  <2>2. c * k = (c * r) * u + s BY <1>1, <1>2, <1>3
  <2> QED BY <1>3, <2>1, <2>2
<1> DEFINE x == k - r * u
<1>5. x \in Int /\ s = c * x BY <1>3, <1>4
<1> HIDE DEF x
<1>6. x \in Nat BY <1>3, <1>5, SMTT(30)
<1>7. (c * x + 0) % c = 0 BY <1>6, DivUnique
<1> QED BY <1>5, <1>6, <1>7 DEF s

\* What a register keeps of all ones.
LEMMA OnesLeft ==
  ASSUME NEW R \in Nat, NEW G \in Nat, R > 0, G > 0, R % G = 0
  PROVE  /\ ((R - 1) - ((R - 1) % G)) % R = R - G
         /\ R - G \in Nat /\ (R - G) % G = 0
<1>1. PICK r \in Nat : R = G * r BY Multiple
<1>2. r > 0 BY <1>1, SMTT(30)
<1> DEFINE e == r - 1
<1>3. e \in Nat /\ R = G * e + G
  <2>1. e \in Nat /\ r = e + 1 BY <1>2
  <2> HIDE DEF e
  <2>2. G * (e + 1) = G * e + G BY <2>1
  <2> QED BY <1>1, <2>1, <2>2
<1> HIDE DEF e
<1>4. G * e \in Nat BY <1>3
<1>5. R - 1 = G * e + (G - 1) /\ G - 1 \in Nat /\ G - 1 < G BY <1>3, <1>4
<1> DEFINE x == G - 1
<1>6. x \in Nat /\ x < G /\ R - 1 = G * e + x BY <1>5
<1> HIDE DEF x
<1>7. (R - 1) % G = x BY <1>3, <1>6, DivUnique
<1>8. (R - 1) - x = R - G BY <1>3, <1>4, <1>6
<1>9. R - G \in Nat /\ R - G < R /\ R - G = G * e + 0 BY <1>3, <1>4
<1>10. (G * e + 0) % G = 0 BY <1>3, DivUnique
<1> QED BY <1>7, <1>8, <1>9, <1>10

\* The low bits of a register: none are set in an address, the type in bit 2.
LEMMA LowBits ==
  ASSUME NEW x \in Nat, x % 16 = 0
  PROVE  /\ x % 2 = 0 /\ ~Is64(x) /\ Address(x) = x
         /\ (x + 4) % 2 = 0 /\ Is64(x + 4) /\ Address(x + 4) = x
<1>1. PICK k \in Nat : x = 16 * k BY Multiple
<1> QED BY <1>1 DEF Is64, Address

\* What the register of a memory BAR, or of its lower half, reads.
LEMMA LowHalf ==
  ASSUME NEW b, IsBar(b), b.kind \in {"m32", "m64"}
  PROVE  /\ Firmware(b) = (b.base % RegMod) + Flags(b)
         /\ b.base % RegMod \in Nat /\ (b.base % RegMod) % 16 = 0
         /\ Holds(b, AllOnes) = (RegMod - Grain(b)) + Flags(b)
         /\ RegMod - Grain(b) \in Nat /\ (RegMod - Grain(b)) % 16 = 0
<1>1. /\ RegMod \in Nat /\ RegMod > 16 /\ RegMod % 16 = 0 BY PciAssumption
<1>2. /\ b.base \in Nat /\ b.size \in Nat /\ b.size > 0 /\ b.size % 16 = 0 /\ b.base % b.size = 0
      /\ b.size >= RegMod => b.size % RegMod = 0
      /\ Grain(b) \in Nat /\ RegMod % Grain(b) = 0
  BY DEF IsBar
<1>3. Grain(b) = IF b.size < RegMod THEN b.size ELSE RegMod BY DEF Grain
<1> DEFINE v == b.base % RegMod
           G == Grain(b)
<1>4. G > 0 /\ G % 16 = 0 /\ G \in Nat BY <1>1, <1>2, <1>3
<1>5. v \in Nat /\ v < RegMod BY <1>1, <1>2, DivMod
<1>a. RegMod > 0 /\ 16 \in Nat /\ 16 > 0 BY <1>1
<1>6. b.base % G = 0
  <2>1. b.size % G = 0 BY <1>1, <1>2, <1>3
  <2> HIDE DEF G
  <2> QED BY <1>2, <1>4, <2>1, DivTrans
<1>b. RegMod % G = 0 BY <1>2
<1> HIDE DEF G
<1>7. v % G = 0 BY <1>1, <1>2, <1>4, <1>6, <1>a, <1>b, DivRest
<1> HIDE DEF v
<1>8. v % 16 = 0 BY <1>4, <1>5, <1>7, <1>a, DivTrans
<1>9. Firmware(b) = ((v - (v % G)) % RegMod) + Flags(b) BY DEF Firmware, Holds, v, G
<1>10. (v - (v % G)) % RegMod = v BY <1>1, <1>5, <1>7
<1>11. Holds(b, AllOnes) = (((RegMod - 1) - ((RegMod - 1) % G)) % RegMod) + Flags(b)
  BY DEF Holds, AllOnes, G
<1>12. /\ ((RegMod - 1) - ((RegMod - 1) % G)) % RegMod = RegMod - G
       /\ RegMod - G \in Nat /\ (RegMod - G) % G = 0
  BY <1>1, <1>2, <1>4, OnesLeft DEF G
<1>13. (RegMod - G) % 16 = 0
  <2> DEFINE x == RegMod - G
  <2>1. x \in Nat /\ x % G = 0 BY <1>12
  <2> HIDE DEF x
  <2>2. x % 16 = 0 BY <1>4, <1>a, <2>1, DivTrans
  <2> QED BY <2>2 DEF x
<1> QED BY <1>5, <1>8, <1>9, <1>10, <1>11, <1>12, <1>13 DEF v, G

\* The upper half of a 64-bit BAR.
LEMMA HighHalf ==
  ASSUME NEW b, IsBar(b), b.kind = "high"
  PROVE  /\ Firmware(b) = b.base \div RegMod
         /\ Holds(b, AllOnes) = RegMod - Grain(b)
         /\ b.base \div RegMod \in Nat /\ Grain(b) \in Nat /\ Grain(b) <= RegMod /\ Grain(b) > 0
         /\ b.size >= RegMod => b.size = RegMod * Grain(b)
<1>1. /\ RegMod \in Nat /\ RegMod > 16 BY PciAssumption
<1>2. /\ b.base \in Nat /\ b.size \in Nat /\ b.size > 0 /\ b.base % b.size = 0
      /\ b.size >= RegMod => b.size % RegMod = 0
      /\ Grain(b) \in Nat /\ RegMod % Grain(b) = 0
      /\ b.base < RegMod * RegMod
  BY DEF IsBar
<1>3. Grain(b) = (IF b.size < RegMod THEN 1 ELSE b.size \div RegMod) /\ Flags(b) = 0
  BY DEF Grain, Flags
<1> DEFINE v == b.base \div RegMod
           G == Grain(b)
<1>4. G > 0 /\ G \in Nat BY <1>2, <1>3 DEF IsBar
<1>5. v \in Nat /\ b.base = RegMod * v + (b.base % RegMod) /\ b.base % RegMod \in Nat
  BY <1>1, <1>2, DivMod
<1>6. Firmware(b) = ((v - (v % G)) % RegMod) + 0 BY <1>3 DEF Firmware, Holds
<1>7. Holds(b, AllOnes) = (((RegMod - 1) - ((RegMod - 1) % G)) % RegMod) + 0
  BY <1>3 DEF Holds, AllOnes
<1>8. b.size >= RegMod => b.size = RegMod * G BY <1>1, <1>2, <1>3, Multiple
<1> HIDE DEF v, G
<1>9. v < RegMod
  <2> SUFFICES ASSUME v >= RegMod PROVE FALSE BY <1>1, <1>5
  <2>1. RegMod * v >= RegMod * RegMod BY <1>1, <1>5, SMTT(30)
  <2> QED BY <1>1, <1>2, <1>5, <2>1
<1>10. v % G = 0
  <2>1. CASE b.size < RegMod
    <3>1. G = 1 BY <1>3, <2>1 DEF G
    <3> QED BY <1>5, <3>1
  <2>2. CASE b.size >= RegMod
    <3>1. PICK k \in Nat : b.base = b.size * k BY <1>2, Multiple
    <3>2. b.base = RegMod * (G * k) + 0
      <4>1. (RegMod * G) * k = RegMod * (G * k) BY <1>1, <1>4
      <4>2. RegMod * (G * k) \in Nat BY <1>1, <1>4
      <4> QED BY <1>8, <2>2, <3>1, <4>1, <4>2
    <3> DEFINE m == G * k
    <3>3. m \in Nat /\ b.base = RegMod * m + 0 BY <1>4, <3>2
    <3> HIDE DEF m
    <3>4. (RegMod * m + 0) \div RegMod = m BY <1>1, <3>3, DivUnique
    <3>5. v = m BY <3>3, <3>4 DEF v
    <3>6. (G * k + 0) % G = 0 BY <1>4, DivUnique
    <3>7. G * k + 0 = G * k BY <1>4
    <3> QED BY <3>5, <3>6, <3>7 DEF m
  <2> QED BY <1>1, <1>2, <2>1, <2>2
<1>11. (v - (v % G)) % RegMod = v BY <1>1, <1>5, <1>9, <1>10
<1>12. ((RegMod - 1) - ((RegMod - 1) % G)) % RegMod = RegMod - G /\ RegMod - G \in Nat
  BY <1>1, <1>2, <1>4, OnesLeft DEF G
<1>13. G <= RegMod BY <1>1, <1>4, <1>12
<1> QED BY <1>4, <1>5, <1>6, <1>7, <1>8, <1>11, <1>12, <1>13 DEF v, G

\* The type of a BAR, as its register tells it.
LEMMA KindTold ==
  ASSUME NEW b, IsBar(b), b.kind # "high"
  PROVE  /\ Firmware(b) % 2 = 1 <=> b.kind = "io"
         /\ b.kind # "io" => (Is64(Firmware(b)) <=> b.kind = "m64")
<1>1. RegMod \in Nat /\ RegMod > 16 /\ RegMod % 16 = 0 BY PciAssumption
<1>2. b.base \in Nat /\ b.size \in Nat BY DEF IsBar
<1>3. CASE b.kind = "none"
  <2> DEFINE v == b.base % RegMod
  <2>1. Firmware(b) = ((v - (v % RegMod)) % RegMod) + 0 BY <1>3 DEF Firmware, Holds, Grain, Flags
  <2>2. v \in Nat /\ v < RegMod BY <1>1, <1>2, DivMod
  <2> HIDE DEF v
  <2>3. v % RegMod = v BY <1>1, <2>2
  <2>4. Firmware(b) = 0 BY <1>1, <2>1, <2>2, <2>3
  <2> QED BY <1>3, <2>4, LowBits
<1>4. CASE b.kind = "io"
  <2> DEFINE v == b.base % RegMod
             G == Grain(b)
             y == v - (v % G)
  <2>1. Firmware(b) = (y % RegMod) + 1 BY <1>4 DEF Firmware, Holds, Flags
  <2>2. G \in Nat /\ 1 < G /\ b.size % 4 = 0 BY <1>4 DEF IsBar, Flags
  <2>3. G % 2 = 0
    <3>1. G = IF b.size < RegMod THEN b.size ELSE RegMod BY <1>4 DEF Grain
    <3>2. b.size % 2 = 0 BY <1>2, <2>2, DivTrans
    <3> QED BY <1>1, <3>1, <3>2
  <2>4. v \in Nat BY <1>1, <1>2
  <2> HIDE DEF v, G
  <2>5. PICK k \in Nat : y = G * k /\ y \in Nat
    <3>1. v \div G \in Nat /\ v % G \in Nat /\ v = G * (v \div G) + (v % G) BY <2>2, <2>4, DivMod
    <3>2. G * (v \div G) \in Nat BY <2>2, <3>1
    <3>3. y = G * (v \div G) BY <2>2, <2>4, <3>1, <3>2
    <3> QED BY <3>1, <3>2, <3>3
  <2> HIDE DEF y
  <2>6. y % G = 0
    <3>1. (G * k + 0) % G = 0 BY <2>2, DivUnique
    <3>2. G * k + 0 = G * k BY <2>2
    <3> QED BY <2>5, <3>1, <3>2
  <2>a. 2 \in Nat /\ 2 > 0 /\ G > 0 /\ RegMod > 0 BY <1>1, <2>2
  <2>7. y % 2 = 0 BY <2>2, <2>3, <2>5, <2>6, <2>a, DivTrans
  <2>8. RegMod % 2 = 0 BY <1>1
  <2>9. (y % RegMod) % 2 = 0 BY <1>1, <2>5, <2>7, <2>8, <2>a, DivRest
  <2>b. y % RegMod \in Nat BY <1>1, <2>5
  <2> QED BY <1>4, <2>1, <2>9, <2>b
<1>5. CASE b.kind \in {"m32", "m64"}
  <2> DEFINE x == b.base % RegMod
  <2>1. Firmware(b) = x + Flags(b) /\ x \in Nat /\ x % 16 = 0 BY <1>5, LowHalf
  <2>2. Flags(b) = IF b.kind = "m64" THEN 4 ELSE 0 BY <1>5 DEF Flags
  <2> HIDE DEF x
  <2>3. CASE b.kind = "m64" BY <2>1, <2>2, <2>3, LowBits
  <2>4. CASE b.kind = "m32" BY <2>1, <2>2, <2>4, LowBits
  <2> QED BY <1>5, <2>3, <2>4
<1> QED BY <1>3, <1>4, <1>5 DEF IsBar

\* pci_decode_bar finds base and size of a 32-bit BAR.
LEMMA Decoded32 ==
  ASSUME NEW b, IsBar(b), b.kind = "m32", NEW hi, NEW m_hi
  PROVE  pci_decode_bar(Firmware(b), hi, Holds(b, AllOnes), m_hi)
           = [r |-> 0, base |-> b.base, size |-> b.size]
<1>1. RegMod \in Nat /\ RegMod > 16 BY PciAssumption
<1>2. b.base \in Nat /\ b.size \in Nat /\ b.base < RegMod /\ b.size < RegMod BY DEF IsBar
<1>3. Grain(b) = b.size /\ Flags(b) = 0 BY <1>2 DEF Grain, Flags
<1>4. b.base % RegMod = b.base BY <1>1, <1>2
<1>5. /\ Firmware(b) = b.base /\ b.base % 16 = 0
      /\ Holds(b, AllOnes) = RegMod - b.size /\ RegMod - b.size \in Nat /\ (RegMod - b.size) % 16 = 0
  <2>1. /\ Firmware(b) = (b.base % RegMod) + Flags(b) /\ (b.base % RegMod) % 16 = 0
        /\ Holds(b, AllOnes) = (RegMod - Grain(b)) + Flags(b)
        /\ RegMod - Grain(b) \in Nat /\ (RegMod - Grain(b)) % 16 = 0
    BY LowHalf
  <2>2. b.base + 0 = b.base /\ (RegMod - b.size) + 0 = RegMod - b.size BY <1>1, <1>2
  <2> QED BY <1>3, <1>4, <2>1, <2>2
<1> DEFINE m == RegMod - b.size
<1>6. m \in Nat /\ m # 0 /\ Address(m) = m /\ RegMod - m = b.size BY <1>1, <1>2, <1>5, LowBits
<1> HIDE DEF m
<1>7. b.base % 2 = 0 /\ ~Is64(b.base) /\ Address(b.base) = b.base BY <1>2, <1>5, LowBits
<1>8. Holds(b, AllOnes) = m BY <1>5 DEF m
<1>9. 0 + Address(m) = m /\ 0 + Address(b.base) = b.base BY <1>2, <1>6, <1>7
<1>10. b.base % 2 # 1 BY <1>7
<1>11. pci_decode_bar(b.base, hi, m, m_hi) = [r |-> 0, base |-> b.base, size |-> b.size]
  BY <1>6, <1>7, <1>9, <1>10 DEF pci_decode_bar
<1> QED BY <1>5, <1>8, <1>11

\* And of a 64-bit one, whether its size shows in the lower or the upper half.
LEMMA Decoded64 ==
  ASSUME NEW b, IsBar(b), b.kind = "m64", NEW h, IsBar(h), h.kind = "high",
         h.base = b.base, h.size = b.size
  PROVE  pci_decode_bar(Firmware(b), Firmware(h), Holds(b, AllOnes), Holds(h, AllOnes))
           = [r |-> 1, base |-> b.base, size |-> b.size]
<1>1. RegMod \in Nat /\ RegMod > 16 BY PciAssumption
<1>2. b.base \in Nat /\ b.size \in Nat /\ b.size < RegMod * RegMod /\ b.size > 0 BY DEF IsBar
<1>3. Grain(b) = (IF b.size < RegMod THEN b.size ELSE RegMod) /\ Flags(b) = 4 BY DEF Grain, Flags
<1> DEFINE x == b.base % RegMod
           y == b.base \div RegMod
           lo == RegMod - Grain(b)
           G == Grain(h)
<1>4. /\ Firmware(b) = x + 4 /\ x \in Nat /\ x % 16 = 0
      /\ Holds(b, AllOnes) = lo + 4 /\ lo \in Nat /\ lo % 16 = 0
  BY <1>3, LowHalf
<1>5. /\ Firmware(h) = y /\ y \in Nat /\ Holds(h, AllOnes) = RegMod - G
      /\ G \in Nat /\ G > 0 /\ G <= RegMod
      /\ b.size >= RegMod => b.size = RegMod * G
  BY HighHalf
<1>6. b.base = RegMod * y + x BY <1>1, <1>2, DivMod
<1>7. b.size < RegMod => G = 1 BY DEF Grain
<1> HIDE DEF x, y, G
<1>8. (RegMod - G) * RegMod + lo = RegMod * RegMod - b.size
  <2>1. (RegMod - G) * RegMod = RegMod * RegMod - RegMod * G BY <1>1, <1>5
  <2>2. CASE b.size < RegMod
    <3>1. RegMod * G = RegMod BY <1>1, <1>7, <2>2
    <3>2. lo = RegMod - b.size BY <1>3, <2>2
    <3>3. RegMod * RegMod \in Nat BY <1>1
    <3> QED BY <1>1, <1>2, <2>1, <3>1, <3>2, <3>3
  <2>3. CASE b.size >= RegMod
    <3>1. lo = 0 BY <1>1, <1>2, <1>3, <2>3
    <3>2. RegMod * RegMod \in Nat BY <1>1
    <3> QED BY <1>2, <1>5, <2>1, <2>3, <3>1, <3>2
  <2> QED BY <1>1, <1>2, <2>2, <2>3
<1> HIDE DEF lo
<1>9. /\ (x + 4) % 2 = 0 /\ Is64(x + 4) /\ Address(x + 4) = x /\ Address(lo + 4) = lo
  BY <1>4, LowBits
<1> DEFINE mask == RegMod * RegMod - b.size
<1>10. RegMod * RegMod \in Nat BY <1>1
<1>11. mask # 0 /\ RegMod * RegMod - mask = b.size BY <1>2, <1>10
<1>12. (RegMod - G) * RegMod + Address(lo + 4) = mask BY <1>8, <1>9
<1> HIDE DEF mask
<1>13. y * RegMod + x = b.base
  <2>1. y * RegMod = RegMod * y BY <1>1, <1>5
  <2> QED BY <1>6, <2>1
<1>14. (x + 4) % 2 # 1 BY <1>9
<1>15. pci_decode_bar(x + 4, y, lo + 4, RegMod - G)
         = [r |-> 1, base |-> b.base, size |-> b.size]
  BY <1>9, <1>11, <1>12, <1>13, <1>14 DEF pci_decode_bar
<1> QED BY <1>4, <1>5, <1>15

\* An unused register is told as one.
LEMMA DecodedNone ==
  ASSUME NEW b, IsBar(b), b.kind = "none", NEW hi, NEW m_hi
  PROVE  pci_decode_bar(Firmware(b), hi, Holds(b, AllOnes), m_hi).r = -1
<1>1. RegMod \in Nat /\ RegMod > 16 BY PciAssumption
<1>2. Grain(b) = RegMod /\ Flags(b) = 0 BY DEF Grain, Flags
<1>3. RegMod % RegMod = 0 BY <1>1
<1>4. ((RegMod - 1) - ((RegMod - 1) % RegMod)) % RegMod = RegMod - RegMod BY <1>1, <1>3, OnesLeft
<1>5. Holds(b, AllOnes) = 0 BY <1>1, <1>2, <1>4 DEF Holds, AllOnes
<1>6. ~Is64(Firmware(b)) BY KindTold
<1>7. Address(0) = 0 BY DEF Address
<1>8. 0 + Address(0) = 0 BY <1>7
<1> QED BY <1>5, <1>6, <1>8 DEF pci_decode_bar

-----------------------------------------------------------------------------
(* The table is kept.                                                      *)

\* What scan_bus meets on a bus is on that bus.
LEMMA OnBus ==
  ASSUME NEW bus, NEW f \in FunctionsOn(bus)
  PROVE  f[1] = bus /\ f \in Functions /\ f \in Scannable
<1>1. f \in {bus} \X (0 .. (Devs - 1)) \X (0 .. (Fns - 1)) BY DEF FunctionsOn
<1>2. f[1] = bus BY <1>1
<1>3. f \in Functions BY DEF FunctionsOn, Functions
<1>4. f \in Scannable BY FunctionsOnBus
<1> QED BY <1>2, <1>3, <1>4

\* A step that leaves the table alone.
LEMMA SameTable ==
  ASSUME UNCHANGED <<hw, g_devs, g_overflow, g_bus_seen>>
  PROVE  /\ BusesOK' = BusesOK /\ ListOK' = ListOK /\ Listed' = Listed
         /\ Functions' = Functions /\ \A f : OnSeenBus(f)' = OnSeenBus(f)
<1>1. Functions' = Functions /\ Buses' = Buses /\ Listed' = Listed
  BY DEF Functions, Buses, Listed
<1>2. \A bus : FunctionsOn(bus)' = FunctionsOn(bus) BY DEF FunctionsOn
<1>3. \A f : OnSeenBus(f)' = OnSeenBus(f) BY <1>2 DEF OnSeenBus
<1>4. \A c : Closed(c)' = Closed(c) BY <1>2 DEF Closed, IsBridge
<1>5. BusesOK' = BusesOK BY <1>1, <1>3, <1>4 DEF BusesOK, IsBridge
<1>6. ListOK' = ListOK BY <1>1, <1>3 DEF ListOK, Rows
<1> QED BY <1>1, <1>3, <1>5, <1>6

\* The places of a walk.
LEMMA WalkFacts ==
  ASSUME ScanInv, TableInv, Walking
  PROVE  /\ BusesOK /\ ListOK /\ WaitOK /\ CoverOK /\ BarsOK /\ HalfOK
         /\ scan.stack \in Seq(Frames) /\ Len(scan.stack) \in Nat \ {0}
         /\ Len(scan.stack) \in Depth
         /\ Top = scan.stack[Len(scan.stack)] /\ Top \in Frames
         /\ Len(g_devs) \in Nat
         /\ \A j \in Depth : scan.stack[j] \in Frames /\ scan.stack[j].slot \in Nat
<1>1. BusesOK /\ ListOK /\ WaitOK /\ CoverOK /\ BarsOK /\ HalfOK BY DEF TableInv, Walking
<1>2. /\ scan.stack \in Seq(Frames) /\ Len(scan.stack) \in Nat \ {0}
      /\ Top = scan.stack[Len(scan.stack)] /\ Top \in Frames
  BY TopFrame DEF ScanInv, Walking
<1>3. Len(scan.stack) \in Depth BY <1>2 DEF Depth
<1>4. Len(g_devs) \in Nat BY <1>1 DEF ListOK
<1>5. \A j \in Depth : scan.stack[j] \in Frames BY <1>2 DEF Depth
<1>6. \A j \in Depth : scan.stack[j].slot \in Nat BY <1>5 DEF Frames
<1> QED BY <1>1, <1>2, <1>3, <1>4, <1>5, <1>6

\* A step within read_bars that does not end a register.
LEMMA SameBars ==
  ASSUME ScanInv, TableInv, UNCHANGED <<hw, g_devs, g_overflow, g_bus_seen>>,
         scan.pc \in {"bar"} \cup Sizing, scan'.pc \in {"bar"} \cup Sizing,
         scan'.stack = scan.stack
  PROVE  /\ BusesOK' /\ ListOK' /\ WaitOK' /\ CoverOK' /\ At' = At /\ Device' = Device
         /\ (\A i \in MemoryBars(Device) : i < scan'.i <=> i < scan.i) => BarsOK'
<1>1. Walking /\ Walking' /\ scan.pc # "function" /\ scan'.pc # "function" BY DEF Walking, Sizing
<1>2. BusesOK /\ ListOK /\ WaitOK /\ CoverOK /\ BarsOK BY <1>1, WalkFacts
<1>3. /\ BusesOK' /\ ListOK' /\ Listed' = Listed /\ Functions' = Functions
      /\ \A f : OnSeenBus(f)' = OnSeenBus(f)
  BY <1>2, SameTable
<1>4. Depth' = Depth /\ \A j : Waiting(j)' = Waiting(j) BY DEF Depth, Waiting, Waits
<1>5. WaitOK' BY <1>1, <1>2, <1>3, <1>4 DEF WaitOK
<1>6. CoverOK' BY <1>1, <1>2, <1>3, <1>4 DEF CoverOK
<1>7. At' = At /\ Device' = Device BY DEF At, Device, Top
<1>8. ASSUME \A i \in MemoryBars(Device) : i < scan'.i <=> i < scan.i PROVE BarsOK'
  <2> SUFFICES ASSUME NEW n \in 1 .. Len(g_devs), NEW i \in 1 .. EndpointBars
               PROVE  i \in MemoryBars(hw.fns[g_devs[n].fn]) => Sized(n, i)' = Sized(n, i)
    BY <1>2 DEF BarsOK, Told
  <2> SUFFICES ASSUME i \in MemoryBars(hw.fns[g_devs[n].fn]) PROVE Sized(n, i)' = Sized(n, i)
    OBVIOUS
  <2> DEFINE d == Len(scan.stack)
  <2>1. ASSUME scan.stack[d].slot = n PROVE i < scan'.i <=> i < scan.i
    <3>1. d \in Depth /\ Top = scan.stack[d] BY <1>1, WalkFacts
    <3>2. n # 0 BY <1>1, WalkFacts
    <3>3. g_devs[n].fn = At BY <1>1, <1>2, <2>1, <3>1, <3>2 DEF WaitOK, At
    <3> QED BY <1>8, <3>3 DEF Device
  <2>2. \A j \in Depth : j = d => (scan.stack[j].slot = n => (i < scan'.i <=> i < scan.i)) BY <2>1
  <2> QED BY <1>1, <1>4, <2>2 DEF Sized
<1> QED BY <1>3, <1>5, <1>6, <1>7, <1>8

\* The function whose registers are read.
LEMMA AtHand ==
  ASSUME ScanInv, scan.pc \in {"bar"} \cup Sizing
  PROVE  /\ At \in Functions /\ At \in Top.todo /\ IsFunction(Device) /\ BarCount(Device) \in Nat
         /\ scan.i \in Nat \ {0}
         /\ \A i \in Nat \ {0} : i <= BarCount(Device) => i \in Bars(At) /\ i \in DOMAIN Device.bars
         /\ scan.pc \notin {"back_lo", "back_hi"} =>
              \A i \in Bars(At) : Reg(i) = Firmware(Device.bars[i])
<1> USE DEF ScanInv
<1>1. At \in Functions /\ At \in Top.todo BY TopFrame DEF Sizing
<1>2. IsFunction(Device) BY <1>1, PciAssumption DEF ConfOK, Functions, Device
<1>3. /\ BarCount(Device) \in Nat
      /\ \A i \in Nat \ {0} : i <= BarCount(Device) => i \in Bars(At)
  BY <1>1, MachineFacts DEF Device
<1>4. scan.i \in Nat \ {0} BY DEF SizingOK, QuietOK, Sizing
<1>5. scan.pc \notin {"back_lo", "back_hi"} =>
        \A i \in Bars(At) : Reg(i) = Firmware(Device.bars[i])
  BY <1>1 DEF RegistersOK, Disturbed, Reg, Device
<1>6. Bars(At) = DOMAIN Device.bars BY DEF Bars, Device
<1> QED BY <1>1, <1>2, <1>3, <1>4, <1>5, <1>6

\* The register after one that is no 64-bit BAR is no high half.
LEMMA AfterNarrow ==
  ASSUME NEW d, IsFunction(d), NEW i \in DOMAIN d.bars, i + 1 \in DOMAIN d.bars,
         d.bars[i].kind # "m64", i \in Nat \ {0}
  PROVE  d.bars[i + 1].kind # "high"
<1>1. (i + 1) - 1 = i OBVIOUS
<1>2. d.bars[i + 1].kind = "high" => d.bars[(i + 1) - 1].kind = "m64" BY DEF IsFunction
<1> QED BY <1>1, <1>2

\* An I/O BAR, or a 64-bit one without a high half, is passed over.
LEMMA SkipTable ==
  ASSUME ScanInv, TableInv, SkipBar
  PROVE  TableInv'
<1> DEFINE i == scan.i
<1>1. /\ scan.pc = "bar" /\ i <= BarCount(Device) /\ Passed(i)
      /\ UNCHANGED <<hw, g_devs, g_overflow, g_bus_seen>>
  BY DEF SkipBar
<1>2. scan'.pc = "bar" /\ scan'.stack = scan.stack /\ scan'.i = i + 1
  <2>1. scan = [pc |-> "bar", stack |-> scan.stack, i |-> scan.i]
    BY <1>1 DEF ScanInv, QuietOK, Sizing
  <2>2. scan' = [scan EXCEPT !.i = scan.i + 1] BY DEF SkipBar
  <2> QED BY <1>1, <2>1, <2>2
<1>3. /\ At \in Functions /\ IsFunction(Device) /\ BarCount(Device) \in Nat /\ i \in Nat \ {0}
      /\ \A k \in Nat \ {0} : k <= BarCount(Device) => k \in Bars(At) /\ k \in DOMAIN Device.bars
      /\ \A k \in Bars(At) : Reg(k) = Firmware(Device.bars[k])
  BY <1>1, AtHand
<1> DEFINE b == Device.bars[i]
<1>4. i \in DOMAIN Device.bars /\ Reg(i) = Firmware(b) BY <1>1, <1>3
<1>5. IsBar(b) BY <1>3, <1>4 DEF IsFunction
<1>6. b.kind # "high"
  <2>1. HalfOK BY <1>1, WalkFacts DEF Walking
  <2> QED BY <1>1, <2>1 DEF HalfOK
<1>7. b.kind = "io" \/ (b.kind = "m64" /\ i = BarCount(Device))
  BY <1>1, <1>4, <1>5, <1>6, KindTold DEF Passed
<1>8. \A k \in MemoryBars(Device) : k < scan'.i <=> k < scan.i
  <2> SUFFICES ASSUME NEW k \in MemoryBars(Device) PROVE k # i /\ k \in Nat
    BY <1>2, <1>3
  <2>1. k \in DOMAIN Device.bars BY DEF MemoryBars
  <2>2. k \in Nat BY <1>3, <2>1 DEF IsFunction
  <2>3. ~(k < k) BY <2>2
  <2> QED BY <1>3, <1>7, <2>2, <2>3 DEF MemoryBars
<1>9. /\ BusesOK' /\ ListOK' /\ WaitOK' /\ CoverOK' /\ BarsOK' /\ Device' = Device
  BY <1>1, <1>2, <1>8, SameBars
<1>10. HalfOK'
  <2> SUFFICES ASSUME i + 1 <= BarCount(Device) PROVE Device.bars[i + 1].kind # "high"
    BY <1>1, <1>2, <1>9 DEF HalfOK, BarCount
  <2>1. i + 1 \in DOMAIN Device.bars /\ b.kind # "m64" BY <1>3, <1>7
  <2> QED BY <1>3, <1>4, <2>1, AfterNarrow
<1> QED BY <1>9, <1>10 DEF TableInv

\* Sizing starts.
LEMMA DecodeOffTable ==
  ASSUME ScanInv, TableInv, DecodeOff
  PROVE  TableInv'
<1>1. /\ scan.pc = "bar" /\ UNCHANGED <<hw, g_devs, g_overflow, g_bus_seen>>
      /\ scan'.pc = "ones_lo" /\ scan'.stack = scan.stack /\ scan'.i = scan.i
  BY DEF DecodeOff
<1>2. /\ BusesOK' /\ ListOK' /\ WaitOK' /\ CoverOK' /\ BarsOK' /\ Device' = Device
  BY <1>1, SameBars DEF Sizing
<1>3. HalfOK BY <1>1, WalkFacts DEF Walking
<1>4. HalfOK' BY <1>1, <1>2, <1>3 DEF HalfOK, BarCount
<1> QED BY <1>2, <1>4 DEF TableInv

\* The four writes, and what is read back.
LEMMA SizingTable ==
  ASSUME ScanInv, TableInv, OnesLo \/ BackLo \/ OnesHi \/ BackHi
  PROVE  TableInv'
<1>0. scan.pc \in Sizing /\ UNCHANGED <<hw, g_devs, g_overflow, g_bus_seen>>
  BY DEF OnesLo, BackLo, OnesHi, BackHi, Sizing
<1>1. scan = SizingAt(scan.pc, scan.m_lo, scan.m_hi)
  BY <1>0 DEF ScanInv, SizingOK, SizingAt
<1>2. HalfOK BY <1>0, WalkFacts DEF Walking, Sizing
<1> DEFINE lo == Holds(Device.bars[scan.i], AllOnes)
           hi == Holds(Device.bars[scan.i + 1], AllOnes)
<1>3. \E pc, m_lo, m_hi :
        /\ pc \in Sizing /\ scan' = SizingAt(pc, m_lo, m_hi)
        /\ pc \in {"back_lo", "ones_hi", "back_hi", "restore"} => m_lo = lo
        /\ pc \in {"back_hi", "restore"} /\ Is64(scan.raw_lo) => m_hi = hi
  <2>1. CASE OnesLo
    <3>1. scan' = [[scan EXCEPT !.pc = "back_lo"] EXCEPT !.m_lo = lo] BY <2>1 DEF OnesLo
    <3> HIDE DEF lo
    <3>2. scan' = SizingAt("back_lo", lo, scan.m_hi) BY <1>1, <3>1 DEF SizingAt
    <3> QED BY <3>2 DEF Sizing
  <2>2. CASE BackLo
    <3> DEFINE pc == IF Is64(scan.raw_lo) THEN "ones_hi" ELSE "restore"
    <3>1. scan' = [scan EXCEPT !.pc = pc] /\ scan.pc = "back_lo" BY <2>2 DEF BackLo
    <3>2. pc \in Sizing /\ ~(pc \in {"back_hi", "restore"} /\ Is64(scan.raw_lo)) BY DEF Sizing
    <3> HIDE DEF pc
    <3>3. scan' = SizingAt(pc, scan.m_lo, scan.m_hi) BY <1>1, <3>1 DEF SizingAt
    <3>4. scan.m_lo = lo BY <1>0, <1>2, <3>1 DEF HalfOK
    <3> QED BY <3>2, <3>3, <3>4
  <2>3. CASE OnesHi
    <3>1. scan' = [[scan EXCEPT !.pc = "back_hi"] EXCEPT !.m_hi = hi] /\ scan.pc = "ones_hi"
      BY <2>3 DEF OnesHi
    <3> HIDE DEF hi
    <3>2. scan' = SizingAt("back_hi", scan.m_lo, hi) BY <1>1, <3>1 DEF SizingAt
    <3>3. scan.m_lo = lo BY <1>0, <1>2, <3>1 DEF HalfOK
    <3> QED BY <3>2, <3>3 DEF Sizing
  <2>4. CASE BackHi
    <3>1. scan' = [scan EXCEPT !.pc = "restore"] /\ scan.pc = "back_hi" BY <2>4 DEF BackHi
    <3>2. scan' = SizingAt("restore", scan.m_lo, scan.m_hi) BY <1>1, <3>1 DEF SizingAt
    <3>3. scan.m_lo = lo /\ (Is64(scan.raw_lo) => scan.m_hi = hi) BY <1>0, <1>2, <3>1 DEF HalfOK
    <3> QED BY <3>2, <3>3 DEF Sizing
  <2> QED BY <2>1, <2>2, <2>3, <2>4
<1>4. PICK pc, m_lo, m_hi :
        /\ pc \in Sizing /\ scan' = SizingAt(pc, m_lo, m_hi)
        /\ pc \in {"back_lo", "ones_hi", "back_hi", "restore"} => m_lo = lo
        /\ pc \in {"back_hi", "restore"} /\ Is64(scan.raw_lo) => m_hi = hi
  BY <1>3
<1>5. /\ scan'.pc = pc /\ scan'.stack = scan.stack /\ scan'.i = scan.i
      /\ scan'.raw_lo = scan.raw_lo /\ scan'.m_lo = m_lo /\ scan'.m_hi = m_hi
  BY <1>4 DEF SizingAt
<1>6. /\ BusesOK' /\ ListOK' /\ WaitOK' /\ CoverOK' /\ BarsOK' /\ Device' = Device
  BY <1>0, <1>4, <1>5, SameBars
<1>7. HalfOK' BY <1>0, <1>2, <1>4, <1>5, <1>6 DEF HalfOK, BarCount
<1> QED BY <1>6, <1>7 DEF TableInv

\* What the scan makes of the registers it has sized.
LEMMA RestoreDecodes ==
  ASSUME ScanInv, TableInv, scan.pc = "restore"
  PROVE  LET b == pci_decode_bar(scan.raw_lo, scan.raw_hi, scan.m_lo, scan.m_hi)
             i == scan.i
             e == Device.bars[i]
         IN  /\ i \in DOMAIN Device.bars /\ i <= BarCount(Device) /\ IsBar(e)
             /\ e.kind \in {"none", "io", "m32", "m64"}
             /\ i \in MemoryBars(Device) <=> e.kind \in {"m32", "m64"}
             /\ IF e.kind \in {"none", "io"} THEN b.r = -1
                ELSE b = [r |-> IF e.kind = "m64" THEN 1 ELSE 0, base |-> e.base, size |-> e.size]
<1> DEFINE i == scan.i
           e == Device.bars[i]
           h == Device.bars[i + 1]
<1>1. scan.pc \in Sizing BY DEF Sizing
<1>2. /\ i <= BarCount(Device) /\ scan.raw_lo = Firmware(e)
      /\ Is64(scan.raw_lo) => i + 1 <= BarCount(Device) /\ scan.raw_hi = Firmware(h)
  BY <1>1 DEF ScanInv, SizingOK
<1>3. /\ e.kind # "high" /\ scan.m_lo = Holds(e, AllOnes)
      /\ Is64(scan.raw_lo) => scan.m_hi = Holds(h, AllOnes)
  <2>1. HalfOK BY WalkFacts DEF Walking
  <2> QED BY <1>1, <1>2, <2>1 DEF HalfOK
<1>4. /\ IsFunction(Device) /\ BarCount(Device) \in Nat /\ i \in Nat \ {0}
      /\ \A k \in Nat \ {0} : k <= BarCount(Device) => k \in DOMAIN Device.bars
  BY <1>1, AtHand
<1>5. i \in DOMAIN Device.bars /\ IsBar(e) BY <1>2, <1>4 DEF IsFunction
<1>6. Firmware(e) % 2 = 1 <=> e.kind = "io" BY <1>3, <1>5, KindTold
<1>7. e.kind # "io" => (Is64(Firmware(e)) <=> e.kind = "m64") BY <1>3, <1>5, KindTold
<1>8. CASE e.kind = "none"
  BY <1>2, <1>3, <1>5, <1>8, DecodedNone DEF MemoryBars
<1>9. CASE e.kind = "m32"
  <2>1. pci_decode_bar(scan.raw_lo, scan.raw_hi, scan.m_lo, scan.m_hi)
          = [r |-> 0, base |-> e.base, size |-> e.size]
    BY <1>2, <1>3, <1>5, <1>9, Decoded32
  <2>2. i \in MemoryBars(Device) BY <1>2, <1>5, <1>9 DEF MemoryBars
  <2> QED BY <1>2, <1>5, <1>9, <2>1, <2>2
<1>10. CASE e.kind = "m64"
  <2>1. Is64(scan.raw_lo) BY <1>2, <1>7, <1>10
  <2>2. i + 1 \in DOMAIN Device.bars /\ i < BarCount(Device) BY <1>2, <1>4, <2>1
  <2>3. (i + 1) - 1 = i /\ i + 1 > 1 BY <1>4
  <2>4. h.kind = "high" <=> (i + 1 > 1 /\ Device.bars[(i + 1) - 1].kind = "m64")
    BY <1>4, <2>2 DEF IsFunction
  <2>5. h.kind = "high" BY <1>10, <2>3, <2>4
  <2>6. IsBar(h) /\ h.base = e.base /\ h.size = e.size BY <1>4, <2>2, <2>3, <2>5 DEF IsFunction
  <2>7. pci_decode_bar(scan.raw_lo, scan.raw_hi, scan.m_lo, scan.m_hi)
          = [r |-> 1, base |-> e.base, size |-> e.size]
    BY <1>2, <1>3, <1>5, <1>10, <2>1, <2>5, <2>6, Decoded64
  <2>8. i \in MemoryBars(Device) BY <1>2, <1>5, <1>10, <2>2 DEF MemoryBars
  <2> QED BY <1>2, <1>5, <1>10, <2>7, <2>8
<1>11. CASE e.kind = "io"
  <2>1. scan.raw_lo % 2 = 1 BY <1>2, <1>6, <1>11
  <2>2. pci_decode_bar(scan.raw_lo, scan.raw_hi, scan.m_lo, scan.m_hi)
          = [r |-> -1, base |-> 0, size |-> 0]
    BY <2>1 DEF pci_decode_bar
  <2> QED BY <1>2, <1>5, <1>11, <2>2 DEF MemoryBars
<1> QED BY <1>3, <1>5, <1>8, <1>9, <1>10, <1>11 DEF IsBar

\* The result goes to the entry of the function at hand.
LEMMA RestoreTable ==
  ASSUME ScanInv, TableInv, Restore
  PROVE  TableInv'
<1> DEFINE b == pci_decode_bar(scan.raw_lo, scan.raw_hi, scan.m_lo, scan.m_hi)
           i == scan.i
           e == Device.bars[i]
           s == Top.slot
           step == IF b.r = 1 THEN 2 ELSE 1
<1>1. /\ scan.pc = "restore" /\ UNCHANGED <<hw, g_overflow, g_bus_seen>>
      /\ scan'.pc = "bar" /\ scan'.stack = scan.stack /\ scan'.i = i + step
      /\ g_devs' = IF b.r < 0 THEN g_devs
                   ELSE [g_devs EXCEPT ![s] = [[g_devs[s] EXCEPT !.bar = [g_devs[s].bar EXCEPT ![i] = b.base]]
                                                 EXCEPT !.bar_size = [g_devs[s].bar_size EXCEPT ![i] = b.size]]]
  BY DEF Restore
<1>2. /\ i \in DOMAIN Device.bars /\ i <= BarCount(Device) /\ IsBar(e)
      /\ e.kind \in {"none", "io", "m32", "m64"}
      /\ i \in MemoryBars(Device) <=> e.kind \in {"m32", "m64"}
      /\ e.kind \in {"none", "io"} => b.r = -1
      /\ e.kind \in {"m32", "m64"} =>
           b.r = (IF e.kind = "m64" THEN 1 ELSE 0) /\ b.base = e.base /\ b.size = e.size
  BY <1>1, RestoreDecodes
<1> HIDE DEF b
<1>3. /\ At \in Functions /\ IsFunction(Device) /\ BarCount(Device) \in Nat /\ i \in Nat \ {0}
      /\ \A k \in Nat \ {0} : k <= BarCount(Device) => k \in DOMAIN Device.bars
  BY <1>1, AtHand DEF Sizing
<1>4. Walking /\ Walking' /\ scan.pc \in Sizing BY <1>1 DEF Walking, Sizing
<1>5. /\ BusesOK /\ ListOK /\ WaitOK /\ CoverOK /\ BarsOK
      /\ Len(scan.stack) \in Depth /\ Top = scan.stack[Len(scan.stack)] /\ Len(g_devs) \in Nat
      /\ s \in Nat
  BY <1>4, WalkFacts
<1>6. s \in 1 .. Len(g_devs) /\ g_devs[s].fn = At
  BY <1>1, <1>4, <1>5 DEF WaitOK, At
<1>7. step \in {1, 2} OBVIOUS
<1>a. \A k \in MemoryBars(Device) : k \in Nat /\ k \in DOMAIN Device.bars /\ Device.bars[k].kind \in {"m32", "m64"}
  BY <1>3 DEF MemoryBars, IsFunction
<1>b. e.kind = "m64" => i + 1 \notin MemoryBars(Device)
  <2> SUFFICES ASSUME e.kind = "m64", i + 1 \in MemoryBars(Device) PROVE FALSE OBVIOUS
  <2>1. i + 1 \in DOMAIN Device.bars /\ Device.bars[i + 1].kind # "high" BY <1>a
  <2>2. (i + 1) - 1 = i /\ i + 1 > 1 BY <1>3
  <2>3. Device.bars[i + 1].kind = "high" <=> (i + 1 > 1 /\ Device.bars[(i + 1) - 1].kind = "m64")
    BY <1>3, <2>1 DEF IsFunction
  <2> QED BY <2>1, <2>2, <2>3
\* The registers that are final now: scan.i, if it is a memory BAR.
<1>c. \A k \in MemoryBars(Device) : k < i + step <=> k < i \/ k = i
  <2> SUFFICES ASSUME NEW k \in MemoryBars(Device) PROVE k < i + step <=> k < i \/ k = i OBVIOUS
  <2>1. CASE e.kind = "m64"
    <3>1. step = 2 /\ k # i + 1 BY <1>2, <1>b, <2>1
    <3> QED BY <1>3, <1>a, <3>1
  <2>2. CASE e.kind # "m64"
    <3>1. step = 1 BY <1>2, <2>2
    <3> QED BY <1>3, <1>a, <3>1
  <2> QED BY <2>1, <2>2
<1>d. HalfOK'
  <2>1. Device' = Device BY <1>1 DEF Device, At, Top
  <2> SUFFICES ASSUME i + step <= BarCount(Device) PROVE Device.bars[i + step].kind # "high"
    BY <1>1, <1>4, <2>1 DEF HalfOK, BarCount, Sizing
  <2>2. CASE e.kind = "m64"
    <3>1. step = 2 /\ i + 1 \in DOMAIN Device.bars /\ (i + 1) + 1 = i + step
          /\ i + step \in DOMAIN Device.bars /\ i + 1 \in Nat \ {0}
      BY <1>2, <1>3, <2>2
    <3>2. (i + 1) - 1 = i /\ i + 1 > 1 BY <1>3
    <3>3. Device.bars[i + 1].kind = "high" <=> (i + 1 > 1 /\ Device.bars[(i + 1) - 1].kind = "m64")
      BY <1>3, <3>1 DEF IsFunction
    <3>4. Device.bars[i + 1].kind # "m64" BY <2>2, <3>2, <3>3
    <3>5. Device.bars[(i + 1) + 1].kind # "high" BY <1>3, <3>1, <3>4, AfterNarrow
    <3> QED BY <3>1, <3>5
  <2>3. CASE e.kind # "m64"
    <3>1. step = 1 /\ i + 1 \in DOMAIN Device.bars BY <1>2, <1>3, <2>3
    <3> QED BY <1>2, <1>3, <2>3, <3>1, AfterNarrow
  <2> QED BY <2>2, <2>3
<1>8. CASE e.kind \in {"none", "io"}
  <2>1. g_devs' = g_devs BY <1>1, <1>2, <1>8
  <2>2. \A k \in MemoryBars(Device) : k < scan'.i <=> k < scan.i
    BY <1>1, <1>2, <1>8, <1>c
  <2>3. BusesOK' /\ ListOK' /\ WaitOK' /\ CoverOK' /\ BarsOK'
    BY <1>1, <1>4, <2>1, <2>2, SameBars
  <2> QED BY <1>d, <2>3 DEF TableInv
<1>9. CASE e.kind \in {"m32", "m64"}
  <2> DEFINE old == g_devs[s]
             mid == [old EXCEPT !.bar = [old.bar EXCEPT ![i] = e.base]]
             new == [mid EXCEPT !.bar_size = [old.bar_size EXCEPT ![i] = e.size]]
  <2>1. g_devs' = [g_devs EXCEPT ![s] = new]
    <3>1. b.r >= 0 /\ b.base = e.base /\ b.size = e.size BY <1>2, <1>9
    <3>2. ~(b.r < 0) BY <1>2, <1>9
    <3> QED BY <1>1, <3>1, <3>2
  <2>2. old \in Rows BY <1>5, <1>6 DEF ListOK
  <2>3. e.base \in Nat /\ e.size \in Nat BY <1>2 DEF IsBar
  <2>4. /\ new.fn = old.fn /\ new \in Rows
        /\ \A k \in 1 .. EndpointBars :
             /\ new.bar[k] = (IF k = i THEN e.base ELSE old.bar[k])
             /\ new.bar_size[k] = (IF k = i THEN e.size ELSE old.bar_size[k])
    <3>1. mid \in Rows /\ mid.fn = old.fn /\ mid.bar = [old.bar EXCEPT ![i] = e.base]
          /\ mid.bar_size = old.bar_size
      BY <2>2, <2>3 DEF Rows
    <3> HIDE DEF mid
    <3>2. new \in Rows /\ new.fn = mid.fn /\ new.bar = mid.bar
          /\ new.bar_size = [old.bar_size EXCEPT ![i] = e.size]
      BY <2>2, <2>3, <3>1 DEF Rows
    <3>3. old.bar \in [1 .. EndpointBars -> Nat] /\ old.bar_size \in [1 .. EndpointBars -> Nat]
      BY <2>2 DEF Rows
    <3> HIDE DEF new
    <3> QED BY <3>1, <3>2, <3>3
  <2> HIDE DEF new
  <2>5. /\ Len(g_devs') = Len(g_devs) /\ g_devs' \in Seq(Rows)
        /\ \A n \in 1 .. Len(g_devs) : g_devs'[n] = IF n = s THEN new ELSE g_devs[n]
    BY <1>5, <1>6, <2>1, <2>4 DEF ListOK
  <2>6. \A n \in 1 .. Len(g_devs) : g_devs'[n].fn = g_devs[n].fn BY <2>4, <2>5
  <2>7. Listed' = Listed BY <2>5, <2>6 DEF Listed
  <2>8. /\ Functions' = Functions /\ Rows' = Rows /\ Buses' = Buses
        /\ \A f : OnSeenBus(f)' = OnSeenBus(f) /\ \A c : Closed(c)' = Closed(c)
    BY <1>1 DEF Functions, Rows, Buses, OnSeenBus, FunctionsOn, Closed, IsBridge
  <2>9. BusesOK' BY <1>1, <1>5, <2>7, <2>8 DEF BusesOK, IsBridge
  <2>10. ListOK' BY <1>1, <1>5, <2>5, <2>6, <2>7, <2>8 DEF ListOK
  <2>11. Depth' = Depth /\ \A j : Waiting(j)' = Waiting(j) BY <1>1 DEF Depth, Waiting, Waits
  <2>12. CoverOK' BY <1>1, <1>4, <1>5, <2>7, <2>8, <2>11 DEF CoverOK
  <2>13. WaitOK'
    <3>1. \A j \in Depth : scan.stack[j].slot # 0 =>
            /\ scan.stack[j].slot \in 1 .. Len(g_devs)
            /\ g_devs[scan.stack[j].slot].fn = NextOf(scan.stack[j].todo)
      <4>1. \A j \in Depth : scan.stack[j].slot \in Nat BY <1>4, WalkFacts
      <4> QED BY <1>4, <1>5, <4>1 DEF WaitOK
    <3>2. \A j \in Depth : scan.stack[j].slot # 0 =>
            /\ scan.stack[j].slot <= Len(g_devs')
            /\ g_devs'[scan.stack[j].slot].fn = NextOf(scan.stack[j].todo)
      BY <1>5, <2>5, <2>6, <3>1
    <3> QED BY <1>1, <1>4, <1>5, <2>7, <2>8, <2>11, <3>2 DEF WaitOK
  <2>14. BarsOK'
    <3> SUFFICES ASSUME NEW n \in 1 .. Len(g_devs), NEW k \in 1 .. EndpointBars
                 PROVE  Told(g_devs'[n], hw.fns[g_devs[n].fn], k, Sized(n, k)')
      BY <1>1, <2>5, <2>6 DEF BarsOK
    <3> DEFINE h == hw.fns[g_devs[n].fn]
    <3>1. Told(g_devs[n], h, k, Sized(n, k)) BY <1>5 DEF BarsOK
    <3>2. CASE n # s
      <4>1. \A j \in Depth : scan.stack[j].slot = n => j # Len(scan.stack) BY <1>5, <3>2
      <4>2. Sized(n, k)' = Sized(n, k) BY <1>1, <1>4, <2>11, <4>1 DEF Sized
      <4>3. g_devs'[n] = g_devs[n] BY <2>5, <3>2
      <4> QED BY <3>1, <4>2, <4>3 DEF Told
    <3>3. CASE n = s
      <4>1. h = Device BY <1>6, <3>3 DEF Device
      <4>2. \A j \in Depth : scan.stack[j].slot = s => j = Len(scan.stack)
        <5> SUFFICES ASSUME NEW j \in Depth, scan.stack[j].slot = s, j # Len(scan.stack) PROVE FALSE
          OBVIOUS
        <5>1. j < Len(scan.stack) /\ scan.stack[Len(scan.stack)].slot = s /\ s # 0
          BY <1>5, <1>6 DEF Depth
        <5>2. scan.stack[j].slot < scan.stack[Len(scan.stack)].slot BY <1>4, <1>5, <5>1 DEF WaitOK
        <5> QED BY <1>5, <5>1, <5>2
      <4>3. Sized(n, k) <=> k < i BY <1>4, <1>5, <3>3, <4>2 DEF Sized
      <4>4. Sized(n, k)' <=> k < i + step BY <1>1, <1>4, <1>5, <2>11, <3>3, <4>2 DEF Sized
      <4>5. g_devs'[n].bar[k] = (IF k = i THEN e.base ELSE g_devs[n].bar[k])
            /\ g_devs'[n].bar_size[k] = (IF k = i THEN e.size ELSE g_devs[n].bar_size[k])
        BY <2>4, <2>5, <3>3
      <4>6. k \in MemoryBars(h) => (k < i + step <=> k < i \/ k = i) BY <1>c, <4>1
      <4>7. CASE k = i
        <5>1. k \in MemoryBars(h) BY <1>2, <1>9, <4>1, <4>7
        <5>2. h.bars[k].base = e.base /\ h.bars[k].size = e.size BY <4>1, <4>7
        <5>3. Sized(n, k)' BY <4>4, <4>6, <4>7, <5>1
        <5> QED BY <4>5, <4>7, <5>1, <5>2, <5>3 DEF Told
      <4>8. CASE k # i
        <5>1. g_devs'[n].bar[k] = g_devs[n].bar[k] /\ g_devs'[n].bar_size[k] = g_devs[n].bar_size[k]
          BY <4>5, <4>8
        <5>2. k \in MemoryBars(h) => (Sized(n, k)' <=> Sized(n, k)) BY <4>3, <4>4, <4>6, <4>8
        <5> QED BY <3>1, <5>1, <5>2 DEF Told
      <4> QED BY <4>7, <4>8
    <3> QED BY <3>2, <3>3
  <2> QED BY <1>d, <2>9, <2>10, <2>12, <2>13, <2>14 DEF TableInv
<1> QED BY <1>2, <1>8, <1>9

\* The function scan_bus hands over next has no entry yet.
LEMMA NextFunction ==
  ASSUME ScanInv, TableInv, scan.pc = "function", Top.todo # {}
  PROVE  /\ Top.slot = 0 /\ At \in Functions /\ At \in Waiting(Len(scan.stack))
         /\ OnSeenBus(At) /\ At \notin Listed
         /\ Waiting(Len(scan.stack)) = Top.todo
<1> DEFINE d == Len(scan.stack)
<1>1. Walking BY DEF Walking
<1>2. WaitOK /\ d \in Depth /\ Top = scan.stack[d] BY <1>1, WalkFacts
<1>3. Top.slot = 0 BY <1>1, <1>2 DEF WaitOK
<1>4. Waiting(d) = Top.todo BY <1>2, <1>3 DEF Waiting, Waits
<1>5. At \in Functions /\ At \in Top.todo BY <1>1, TopFrame DEF ScanInv, Walking
<1>6. OnSeenBus(At) /\ At \notin Listed BY <1>1, <1>2, <1>4, <1>5 DEF WaitOK
<1> QED BY <1>3, <1>4, <1>5, <1>6

\* The table is full: what is left out is recorded.
LEMMA OverflowTable ==
  ASSUME ScanInv, TableInv, ScanOverflow
  PROVE  TableInv'
<1> DEFINE d == Len(scan.stack)
           frame == [scan.stack[d] EXCEPT !.todo = scan.stack[d].todo \ {At}]
           new == [scan.stack EXCEPT ![d] = frame]
<1>1. /\ scan.pc = "function" /\ Top.todo # {} /\ Len(g_devs) >= PCI_MAX_DEVICES
      /\ g_overflow' = TRUE /\ UNCHANGED <<hw, g_devs, g_bus_seen>>
      /\ scan' = [scan EXCEPT !.stack = new]
  BY DEF ScanOverflow
<1>2. Walking BY <1>1 DEF Walking
<1>3. /\ BusesOK /\ ListOK /\ WaitOK /\ BarsOK
      /\ scan.stack \in Seq(Frames) /\ d \in Nat \ {0} /\ d \in Depth
      /\ Top = scan.stack[d] /\ Top \in Frames /\ Len(g_devs) \in Nat
  BY <1>2, WalkFacts
<1>4. Top.slot = 0 /\ At \in Functions /\ OnSeenBus(At) /\ At \notin Listed /\ Waiting(d) = Top.todo
  BY <1>1, NextFunction
<1>5. frame.slot = 0 /\ frame.todo = Top.todo \ {At} BY <1>3, <1>4 DEF Frames
<1>6. scan'.pc = "function" /\ scan'.stack = new
  <2>1. scan = [pc |-> "function", stack |-> scan.stack] BY <1>1 DEF ScanInv, QuietOK, Sizing
  <2> HIDE DEF new
  <2> QED BY <1>1, <2>1
<1> HIDE DEF frame
<1>7. Len(new) = d /\ \A j \in 1 .. d : new[j] = IF j = d THEN frame ELSE scan.stack[j]
  BY <1>3
<1> HIDE DEF new
<1>8. Depth' = Depth /\ Walking' BY <1>3, <1>6, <1>7 DEF Depth, Walking
<1>9. \A j \in Depth : scan'.stack[j] = IF j = d THEN frame ELSE scan.stack[j]
  BY <1>6, <1>7 DEF Depth
<1>10. \A j \in Depth : Waiting(j)' = IF j = d THEN Waiting(d) \ {At} ELSE Waiting(j)
  BY <1>4, <1>5, <1>9 DEF Waiting, Waits
<1>11. /\ Listed' = Listed /\ Functions' = Functions /\ Buses' = Buses /\ Rows' = Rows
       /\ \A f : OnSeenBus(f)' = OnSeenBus(f) /\ \A c : Closed(c)' = Closed(c)
  BY <1>1 DEF Functions, Rows, Buses, OnSeenBus, FunctionsOn, Closed, IsBridge, Listed
<1>12. BusesOK' BY <1>1, <1>3, <1>11 DEF BusesOK, IsBridge
<1>13. ListOK'
  <2>1. Len(g_devs) = PCI_MAX_DEVICES BY <1>1, <1>3, PciAssumption DEF ListOK
  <2> QED BY <1>1, <1>3, <1>4, <1>11, <2>1 DEF ListOK
<1>14. \A j \in Depth : scan'.stack[j].slot = scan.stack[j].slot BY <1>3, <1>4, <1>5, <1>9
<1>15. WaitOK'
  <2>1. \A j \in Depth : scan'.stack[j].slot = 0 <=> (j = Len(scan'.stack) /\ scan'.pc = "function")
    BY <1>1, <1>2, <1>3, <1>6, <1>7, <1>14 DEF WaitOK
  <2>2. ASSUME NEW j \in Depth, scan'.stack[j].slot # 0
        PROVE  /\ scan'.stack[j].slot <= Len(g_devs')
               /\ g_devs'[scan'.stack[j].slot].fn = NextOf(scan'.stack[j].todo)
    <3>1. j # d BY <1>5, <1>9, <2>2
    <3> QED BY <1>1, <1>2, <1>3, <1>9, <2>2, <3>1 DEF WaitOK
  <2>3. \A j, k \in Depth : j < k /\ scan'.stack[k].slot # 0 => scan'.stack[j].slot < scan'.stack[k].slot
    BY <1>2, <1>3, <1>14 DEF WaitOK
  <2>4. \A j \in Depth : Waiting(j)' \subseteq Waiting(j) BY <1>10
  <2>5. \A j \in Depth : \A f \in Waiting(j)' : OnSeenBus(f)' /\ f \notin Listed'
    BY <1>2, <1>3, <1>11, <2>4 DEF WaitOK
  <2>6. \A j, k \in Depth : j # k => Waiting(j)' \cap Waiting(k)' = {}
    BY <1>2, <1>3, <2>4 DEF WaitOK
  <2> QED BY <1>8, <2>1, <2>2, <2>3, <2>5, <2>6 DEF WaitOK
<1>16. CoverOK' BY <1>1 DEF CoverOK
<1>17. BarsOK'
  <2>1. ASSUME NEW n \in 1 .. Len(g_devs), NEW i PROVE Sized(n, i)' <=> Sized(n, i)
    <3>1. \A j \in Depth : scan.stack[j].slot = n => j # d BY <1>3, <1>4
    <3> QED BY <1>2, <1>6, <1>7, <1>8, <1>14, <3>1 DEF Sized
  <2> QED BY <1>1, <1>3, <2>1 DEF BarsOK, Told
<1>18. HalfOK' BY <1>6 DEF HalfOK, Sizing
<1> QED BY <1>12, <1>13, <1>15, <1>16, <1>17, <1>18 DEF TableInv

\* The registers of a function are done: its entry is final.
LEMMA BarsDoneTable ==
  ASSUME ScanInv, TableInv, BarsDone
  PROVE  TableInv'
<1> DEFINE d == Len(scan.stack)
           frame == [todo |-> Top.todo \ {At}, slot |-> 0]
           new == [scan.stack EXCEPT ![d] = frame]
<1>1. /\ scan.pc = "bar" /\ scan.i > BarCount(Device)
      /\ UNCHANGED <<hw, g_devs, g_overflow, g_bus_seen>>
      /\ scan'.pc = "function" /\ scan'.stack = new
  BY DEF BarsDone
<1>2. Walking BY <1>1 DEF Walking
<1>3. /\ BusesOK /\ ListOK /\ WaitOK /\ CoverOK /\ BarsOK
      /\ scan.stack \in Seq(Frames) /\ d \in Nat \ {0} /\ d \in Depth
      /\ Top = scan.stack[d] /\ Top \in Frames /\ Len(g_devs) \in Nat
      /\ \A j \in Depth : scan.stack[j].slot \in Nat
  BY <1>2, WalkFacts
<1>4. /\ At \in Functions /\ IsFunction(Device) /\ BarCount(Device) \in Nat /\ scan.i \in Nat
  BY <1>1, AtHand
<1>5. Top.slot # 0 /\ g_devs[Top.slot].fn = At BY <1>1, <1>2, <1>3 DEF WaitOK, At
<1>6. frame.slot = 0 /\ frame.todo = Top.todo \ {At} OBVIOUS
<1> HIDE DEF frame
<1>7. Len(new) = d /\ \A j \in 1 .. d : new[j] = IF j = d THEN frame ELSE scan.stack[j]
  BY <1>3
<1> HIDE DEF new
<1>8. Depth' = Depth /\ Walking' BY <1>1, <1>3, <1>7 DEF Depth, Walking
<1>9. \A j \in Depth : scan'.stack[j] = IF j = d THEN frame ELSE scan.stack[j]
  BY <1>1, <1>7 DEF Depth
<1>10. \A j \in Depth : Waiting(j)' = Waiting(j)
  <2>1. Waiting(d) = Top.todo \ {At} BY <1>3, <1>5 DEF Waiting, Waits, At
  <2> QED BY <1>6, <1>9, <2>1 DEF Waiting, Waits
<1>11. /\ BusesOK' /\ ListOK' /\ Listed' = Listed /\ Functions' = Functions
       /\ \A f : OnSeenBus(f)' = OnSeenBus(f)
  BY <1>1, <1>3, SameTable
<1>12. WaitOK'
  <2>1. \A j \in Depth : scan'.stack[j].slot = 0 <=> j = d
    BY <1>1, <1>2, <1>3, <1>6, <1>9 DEF WaitOK
  <2>2. ASSUME NEW j \in Depth, scan'.stack[j].slot # 0
        PROVE  /\ scan'.stack[j].slot <= Len(g_devs')
               /\ g_devs'[scan'.stack[j].slot].fn = NextOf(scan'.stack[j].todo)
    <3>1. j # d BY <2>1, <2>2
    <3> QED BY <1>1, <1>2, <1>3, <1>9, <2>2, <3>1 DEF WaitOK
  <2>3. ASSUME NEW j \in Depth, NEW k \in Depth, j < k, scan'.stack[k].slot # 0
        PROVE  scan'.stack[j].slot < scan'.stack[k].slot
    <3>1. k # d BY <2>1, <2>3
    <3>2. j # d BY <1>3, <2>3, <3>1 DEF Depth
    <3> QED BY <1>2, <1>3, <1>9, <2>3, <3>1, <3>2 DEF WaitOK
  <2>4. \A j \in Depth : \A f \in Waiting(j)' : OnSeenBus(f)' /\ f \notin Listed'
    BY <1>2, <1>3, <1>10, <1>11 DEF WaitOK
  <2>5. \A j, k \in Depth : j # k => Waiting(j)' \cap Waiting(k)' = {}
    BY <1>2, <1>3, <1>10 DEF WaitOK
  <2>6. Len(scan'.stack) = d BY <1>1, <1>7
  <2> QED BY <1>1, <1>8, <2>1, <2>2, <2>3, <2>4, <2>5, <2>6 DEF WaitOK
<1>13. CoverOK' BY <1>1, <1>2, <1>3, <1>8, <1>10, <1>11 DEF CoverOK
<1>14. BarsOK'
  <2>1. ASSUME NEW n \in 1 .. Len(g_devs), NEW i \in MemoryBars(hw.fns[g_devs[n].fn])
        PROVE  Sized(n, i)' <=> Sized(n, i)
    <3>1. CASE n = Top.slot
      <4>1. hw.fns[g_devs[n].fn] = Device BY <1>5, <3>1 DEF Device
      <4>2. i \in Nat /\ i < scan.i BY <1>1, <1>4, <4>1 DEF MemoryBars, IsFunction
      <4>3. \A j \in Depth : scan.stack[j].slot = n => j = d
        <5> SUFFICES ASSUME NEW j \in Depth, scan.stack[j].slot = n, j # d PROVE FALSE OBVIOUS
        <5>1. j < d /\ scan.stack[d].slot # 0 BY <1>3, <1>5 DEF Depth
        <5>2. scan.stack[j].slot < scan.stack[d].slot BY <1>2, <1>3, <5>1 DEF WaitOK
        <5> QED BY <1>3, <3>1, <5>2
      <4>4. Sized(n, i) BY <4>2, <4>3 DEF Sized
      <4>5. \A j \in Depth : scan'.stack[j].slot # n BY <1>6, <1>9, <4>3
      <4>6. Sized(n, i)' BY <1>8, <4>5 DEF Sized
      <4> QED BY <4>4, <4>6
    <3>2. CASE n # Top.slot
      <4>1. \A j \in Depth : scan.stack[j].slot = n => j # d BY <1>3, <3>2
      <4>2. \A j \in Depth : scan'.stack[j].slot = n => j # d BY <1>6, <1>9
      <4>3. \A j \in Depth : scan'.stack[j].slot = n <=> scan.stack[j].slot = n
        BY <1>9, <4>1, <4>2
      <4> QED BY <1>1, <1>2, <1>7, <1>8, <4>1, <4>2, <4>3 DEF Sized
    <3> QED BY <3>1, <3>2
  <2> QED BY <1>1, <1>3, <2>1 DEF BarsOK, Told
<1>15. HalfOK' BY <1>1 DEF HalfOK, Sizing
<1> QED BY <1>11, <1>12, <1>13, <1>14, <1>15 DEF TableInv

\* The first register of a header is no high half.
LEMMA FirstBar ==
  ASSUME NEW d, IsFunction(d), 1 <= BarCount(d)
  PROVE  d.bars[1].kind # "high"
<1>1. BarCount(d) \in Nat BY PciAssumption DEF BarCount, IsFunction
<1>2. 1 \in DOMAIN d.bars BY <1>1 DEF IsFunction
<1>3. ~(1 > 1) OBVIOUS
<1>4. d.bars[1].kind = "high" => 1 > 1 BY <1>2 DEF IsFunction
<1> QED BY <1>3, <1>4

\* scan_bus returns to the bridge, or the scan is done.
LEMMA BusDoneTable ==
  ASSUME ScanInv, TableInv, BusDone
  PROVE  TableInv'
<1> DEFINE d == Len(scan.stack)
           callers == Front(scan.stack)
           e == d - 1
<1>1. /\ scan.pc = "function" /\ Top.todo = {}
      /\ UNCHANGED <<hw, conf, irq, g_devs, g_overflow, g_bus_seen>>
      /\ scan' = IF callers = <<>> THEN [pc |-> "done"] ELSE [pc |-> "bar", stack |-> callers, i |-> 1]
  BY DEF BusDone
<1>2. Walking BY <1>1 DEF Walking
<1>3. /\ BusesOK /\ ListOK /\ WaitOK /\ CoverOK /\ BarsOK
      /\ scan.stack \in Seq(Frames) /\ d \in Nat \ {0} /\ d \in Depth
      /\ Top = scan.stack[d] /\ Top \in Frames /\ Len(g_devs) \in Nat
      /\ \A j \in Depth : scan.stack[j].slot \in Nat
  BY <1>2, WalkFacts
<1>4. Top.slot = 0 /\ Waiting(d) = {}
  <2>1. Top.slot = 0 BY <1>1, <1>2, <1>3 DEF WaitOK
  <2> QED BY <1>1, <1>3, <2>1 DEF Waiting, Waits
<1>5. e \in Nat /\ callers = SubSeq(scan.stack, 1, e) /\ e < d BY <1>3 DEF Front
<1>6. Len(callers) = e /\ \A j \in 1 .. e : callers[j] = scan.stack[j] BY <1>3, <1>5
<1>a. callers \in Seq(Frames)
  <2>1. \A j \in 1 .. e : scan.stack[j] \in Frames BY <1>3, <1>5
  <2> QED BY <1>5, <2>1, SubSeqProperties
<1> HIDE DEF callers
<1>7. /\ BusesOK' /\ ListOK' /\ Listed' = Listed /\ Functions' = Functions
      /\ \A f : OnSeenBus(f)' = OnSeenBus(f)
  BY <1>1, <1>3, SameTable
<1>8. CASE callers = <<>>
  <2>1. scan'.pc = "done" /\ ~Walking' BY <1>1, <1>8 DEF Walking
  <2>a. Len(callers) = 0 BY <1>8
  <2>2. e = 0 /\ d = 1 BY <1>3, <1>6, <2>a
  <2>3. Depth = {1} BY <2>2 DEF Depth
  <2>4. WaitOK' BY <2>1 DEF WaitOK
  <2>5. CoverOK' BY <1>1, <1>3, <1>4, <1>7, <2>2, <2>3 DEF CoverOK
  <2>6. BarsOK'
    <3>1. ASSUME NEW n \in 1 .. Len(g_devs), NEW i PROVE Sized(n, i) /\ Sized(n, i)'
      <4>1. \A j \in Depth : scan.stack[j].slot # n BY <1>3, <1>4, <2>2, <2>3
      <4> QED BY <2>1, <4>1 DEF Sized
    <3> QED BY <1>1, <1>3, <3>1 DEF BarsOK, Told
  <2>7. HalfOK' BY <2>1 DEF HalfOK, Sizing
  <2> QED BY <1>7, <2>4, <2>5, <2>6, <2>7 DEF TableInv
<1>9. CASE callers # <<>>
  <2>1. scan'.pc = "bar" /\ scan'.stack = callers /\ scan'.i = 1 /\ Walking'
    BY <1>1, <1>9 DEF Walking
  <2>a. Len(callers) # 0 BY <1>9, <1>a
  <2>2. e \in Nat \ {0} BY <1>5, <1>6, <2>a
  <2>3. Depth' = 1 .. e /\ Depth = 1 .. d /\ Len(scan'.stack) = e BY <1>6, <2>1 DEF Depth
  <2>4. \A j \in 1 .. e : /\ j \in Depth /\ j # d /\ scan'.stack[j] = scan.stack[j]
                          /\ Waiting(j)' = Waiting(j)
    <3>1. \A j \in 1 .. e : j \in Depth /\ j # d BY <1>3, <1>5, <2>3
    <3>2. \A j \in 1 .. e : scan'.stack[j] = scan.stack[j] BY <1>6, <2>1
    <3>3. \A j \in 1 .. e : Waiting(j)' = Waiting(j) BY <3>2 DEF Waiting, Waits
    <3> QED BY <3>1, <3>2, <3>3
  <2>5. \A j \in Depth : j = d \/ j \in 1 .. e BY <1>3, <2>3
  <2>6. WaitOK'
    <3>1. \A j \in 1 .. e : scan'.stack[j].slot # 0 BY <1>2, <1>3, <2>4 DEF WaitOK
    <3>2. \A j \in 1 .. e :
            /\ scan'.stack[j].slot <= Len(g_devs')
            /\ g_devs'[scan'.stack[j].slot].fn = NextOf(scan'.stack[j].todo)
      BY <1>1, <1>2, <1>3, <2>4, <3>1 DEF WaitOK
    <3>3. \A j, k \in 1 .. e : j < k => scan'.stack[j].slot < scan'.stack[k].slot
      BY <1>2, <1>3, <2>4, <3>1 DEF WaitOK
    <3>4. \A j \in 1 .. e : \A f \in Waiting(j)' : OnSeenBus(f)' /\ f \notin Listed'
      BY <1>2, <1>3, <1>7, <2>4 DEF WaitOK
    <3>5. \A j, k \in 1 .. e : j # k => Waiting(j)' \cap Waiting(k)' = {}
      BY <1>2, <1>3, <2>4 DEF WaitOK
    <3> QED BY <2>1, <2>3, <3>1, <3>2, <3>3, <3>4, <3>5 DEF WaitOK
  <2>7. CoverOK'
    <3> SUFFICES ASSUME ~g_overflow, NEW f \in Functions, OnSeenBus(f), f \notin Listed
                 PROVE  \E j \in 1 .. e : f \in Waiting(j)'
      BY <1>1, <1>7, <2>1, <2>3 DEF CoverOK
    <3>1. PICK j \in Depth : f \in Waiting(j) BY <1>3 DEF CoverOK
    <3>2. j # d BY <1>4, <3>1
    <3>3. j \in 1 .. e BY <2>5, <3>2
    <3> QED BY <2>4, <3>1, <3>3
  <2>8. BarsOK'
    <3>1. ASSUME NEW n \in 1 .. Len(g_devs), NEW i \in 1 .. EndpointBars
          PROVE  Sized(n, i)' <=> Sized(n, i)
      <4>1. ~(i < 1) OBVIOUS
      <4>2. scan.stack[d].slot # n BY <1>3, <1>4
      <4>3. Sized(n, i)' <=> \A j \in 1 .. e : scan'.stack[j].slot # n
        BY <2>1, <2>3, <4>1 DEF Sized
      <4>4. Sized(n, i) <=> \A j \in 1 .. e : scan.stack[j].slot # n
        BY <1>2, <2>4, <2>5, <4>2 DEF Sized
      <4> QED BY <2>4, <4>3, <4>4
    <3> QED BY <1>1, <1>3, <3>1 DEF BarsOK, Told
  <2>9. HalfOK'
    <3>1. callers \in Seq(Frames) /\ Last(callers) = scan.stack[e]
      <4>1. e \in 1 .. e
        <5> HIDE DEF e
        <5> QED BY <2>2
      <4> QED BY <1>6, <1>a, <4>1 DEF Last
    <3>2. At' = NextOf(scan.stack[e].todo) BY <2>1, <3>1 DEF At, Top
    <3>3. At' \in Functions
      <4>1. e \in Depth /\ e < d /\ scan.stack[e] \in Frames
        <5>1. e \in 1 .. e
          <6> HIDE DEF e
          <6> QED BY <2>2
        <5>2. e \in Depth BY <2>4, <5>1
        <5> QED BY <1>2, <1>5, <5>2, WalkFacts
      <4>2. scan.stack[e].todo # {} BY <1>2, <4>1 DEF ScanInv, StackOK, Walking, Depth
      <4>3. NextOf(scan.stack[e].todo) \in scan.stack[e].todo
        BY <4>1, <4>2, NextOfIn DEF Frames, Scannable
      <4> QED BY <3>2, <4>1, <4>3 DEF Frames, Scannable
    <3>4. IsFunction(Device')
      BY <1>1, <3>3, PciAssumption DEF ScanInv, ConfOK, Functions, Device
    <3>5. 1 <= BarCount(Device') => Device'.bars[1].kind # "high" BY <3>4, FirstBar
    <3> QED BY <2>1, <3>5 DEF HalfOK, Sizing, BarCount
  <2> QED BY <1>7, <2>6, <2>7, <2>8, <2>9 DEF TableInv
<1> QED BY <1>8, <1>9

\* The scan begins with bus 0.
LEMMA PciScanTable ==
  ASSUME ScanInv, pci_scan
  PROVE  TableInv'
<1>1. /\ hw' = hw /\ g_devs' = <<>> /\ g_overflow' = FALSE /\ g_bus_seen' = {0}
      /\ scan' = [pc |-> "function", stack |-> <<[todo |-> FunctionsOn(0), slot |-> 0]>>]
  BY DEF pci_scan
<1> DEFINE frame == [todo |-> FunctionsOn(0), slot |-> 0]
<1>2. scan'.pc = "function" /\ scan'.stack = <<frame>> BY <1>1
<1>3. frame.todo = FunctionsOn(0) /\ frame.slot = 0 OBVIOUS
<1> HIDE DEF frame
<1>4. Len(scan'.stack) = 1 /\ scan'.stack[1] = frame /\ Depth' = {1} /\ Walking'
  BY <1>2 DEF Depth, Walking
<1>5. Waiting(1)' = FunctionsOn(0) BY <1>3, <1>4 DEF Waiting, Waits
<1>6. Listed' = {} /\ Len(g_devs') = 0 BY <1>1 DEF Listed
<1>7. /\ Functions' = Functions /\ Buses' = Buses /\ Rows' = Rows
      /\ \A bus : FunctionsOn(bus)' = FunctionsOn(bus)
  BY <1>1 DEF Functions, Rows, Buses, FunctionsOn
<1>8. \A f : OnSeenBus(f)' <=> f \in FunctionsOn(0)
  <2>1. ASSUME NEW f PROVE OnSeenBus(f)' <=> f \in FunctionsOn(0)
    <3>1. OnSeenBus(f)' <=> f[1] = 0 /\ f \in FunctionsOn(f[1]) BY <1>1, <1>7 DEF OnSeenBus
    <3>2. f \in FunctionsOn(0) => f[1] = 0 BY OnBus
    <3> QED BY <3>1, <3>2
  <2> QED BY <2>1
<1>9. BusesOK' BY <1>1, <1>6 DEF BusesOK, Closed, Buses
<1>10. ListOK'
  <2>1. g_devs' \in Seq(Rows') BY <1>1
  <2>2. 0 <= PCI_MAX_DEVICES BY PciAssumption
  <2>3. \A n, m \in 1 .. Len(g_devs') : n = m BY <1>6
  <2> QED BY <1>1, <1>6, <2>1, <2>2, <2>3 DEF ListOK
<1>11. WaitOK' BY <1>2, <1>3, <1>4, <1>5, <1>6, <1>8 DEF WaitOK
<1>12. CoverOK' BY <1>4, <1>5, <1>8 DEF CoverOK
<1>13. BarsOK' BY <1>6 DEF BarsOK
<1>14. HalfOK' BY <1>2 DEF HalfOK, Sizing
<1> QED BY <1>9, <1>10, <1>11, <1>12, <1>13, <1>14 DEF TableInv

\* A function gets its entry; behind a bridge a bus not seen before is next.
LEMMA ScanFunctionTable ==
  ASSUME ScanInv, TableInv, scan_function
  PROVE  TableInv'
<1> DEFINE d == Len(scan.stack)
           slot == Len(g_devs) + 1
           frame == [scan.stack[d] EXCEPT !.slot = slot]
           here == [scan.stack EXCEPT ![d] = frame]
           sec == Device.secondary
           enters == IsBridge(Device) /\ UnseenBus(sec)
           inner == [todo |-> FunctionsOn(sec), slot |-> 0]
           zeros == [i \in 1 .. EndpointBars |-> 0]
           row == [fn |-> At, class |-> Device.class, ht |-> Device.ht, bar |-> zeros, bar_size |-> zeros]
<1>1. /\ scan.pc = "function" /\ Top.todo # {} /\ Len(g_devs) < PCI_MAX_DEVICES
      /\ UNCHANGED <<hw, conf, irq, g_overflow>>
      /\ g_devs' = Append(g_devs, row)
      /\ g_bus_seen' = IF enters THEN g_bus_seen \cup {sec} ELSE g_bus_seen
      /\ scan' = IF enters THEN [scan EXCEPT !.stack = Append(here, inner)]
                 ELSE [pc |-> "bar", stack |-> here, i |-> 1]
  BY DEF scan_function
<1>2. Walking BY <1>1 DEF Walking
<1>3. /\ BusesOK /\ ListOK /\ WaitOK /\ CoverOK /\ BarsOK
      /\ scan.stack \in Seq(Frames) /\ d \in Nat \ {0} /\ d \in Depth
      /\ Top = scan.stack[d] /\ Top \in Frames /\ Len(g_devs) \in Nat
      /\ \A j \in Depth : scan.stack[j].slot \in Nat
  BY <1>2, WalkFacts
<1>4. /\ Top.slot = 0 /\ At \in Functions /\ OnSeenBus(At) /\ At \notin Listed
      /\ Waiting(d) = Top.todo
  BY <1>1, NextFunction
<1>5. IsFunction(Device) BY <1>4, PciAssumption DEF ScanInv, ConfOK, Functions, Device
<1>6. frame \in Frames /\ frame.slot = slot /\ frame.todo = Top.todo
  <2>1. slot \in Nat BY <1>3
  <2> QED BY <1>3, <2>1 DEF Frames
<1>7. row \in Rows /\ row.fn = At /\ row.bar = zeros /\ row.bar_size = zeros
  <2>1. zeros \in [1 .. EndpointBars -> Nat] OBVIOUS
  <2>2. Device.class \in {hw.fns[f].class : f \in Functions} /\ Device.ht \in {hw.fns[f].ht : f \in Functions}
    BY <1>4 DEF Device
  <2> HIDE DEF zeros
  <2> QED BY <1>4, <2>1, <2>2 DEF Rows
<1>8. inner.todo = FunctionsOn(sec) /\ inner.slot = 0 OBVIOUS
<1>a. inner \in Frames BY FunctionsOnBus DEF Frames
<1>b. \A i \in 1 .. EndpointBars : row.bar[i] = 0 /\ row.bar_size[i] = 0 BY <1>7
<1> HIDE DEF frame, row, inner
<1>9. /\ g_devs' \in Seq(Rows) /\ Len(g_devs') = slot
      /\ \A n \in 1 .. Len(g_devs) : g_devs'[n] = g_devs[n]
      /\ g_devs'[slot] = row
  BY <1>1, <1>3, <1>7 DEF ListOK
<1>10. Listed' = Listed \cup {At}
  <2>1. 1 .. slot = (1 .. Len(g_devs)) \cup {slot} BY <1>3
  <2>2. Listed' = {g_devs'[n].fn : n \in 1 .. slot} BY <1>9 DEF Listed
  <2> HIDE DEF slot
  <2>3. Listed' = {g_devs'[n].fn : n \in 1 .. Len(g_devs)} \cup {g_devs'[slot].fn} BY <2>1, <2>2
  <2>4. {g_devs'[n].fn : n \in 1 .. Len(g_devs)} = Listed BY <1>9 DEF Listed
  <2> QED BY <1>7, <1>9, <2>3, <2>4
<1>11. /\ Functions' = Functions /\ Buses' = Buses /\ Rows' = Rows
       /\ \A bus : FunctionsOn(bus)' = FunctionsOn(bus) /\ \A c : Closed(c)' = Closed(c)
  BY <1>1 DEF Functions, Rows, Buses, FunctionsOn, Closed, IsBridge
<1>12. \A f : OnSeenBus(f) => OnSeenBus(f)' BY <1>1, <1>11 DEF OnSeenBus
<1>13. \A f : OnSeenBus(f)' => OnSeenBus(f) \/ (enters /\ f \in FunctionsOn(sec))
  <2> HIDE DEF enters, sec
  <2> QED BY <1>1, <1>11 DEF OnSeenBus
<1>14. enters => \A f \in FunctionsOn(sec) : f[1] = sec /\ ~OnSeenBus(f) /\ OnSeenBus(f)'
  <2> SUFFICES ASSUME enters, NEW f \in FunctionsOn(sec)
               PROVE  f[1] = sec /\ ~OnSeenBus(f) /\ OnSeenBus(f)'
    OBVIOUS
  <2>1. f[1] = sec BY OnBus
  <2>2. sec \notin g_bus_seen /\ sec \in g_bus_seen' BY <1>1 DEF UnseenBus
  <2> QED BY <1>11, <2>1, <2>2 DEF OnSeenBus
<1>15. BusesOK'
  <2>1. sec \in Buses BY <1>4 DEF Buses, Device
  <2>2. 0 \in g_bus_seen' /\ g_bus_seen' \subseteq Buses' BY <1>1, <1>3, <1>11, <2>1 DEF BusesOK
  <2>3. ASSUME NEW c \in SUBSET Buses, Closed(c) PROVE g_bus_seen' \subseteq c
    <3>1. g_bus_seen \subseteq c BY <1>3, <2>3 DEF BusesOK
    <3>2. IsBridge(Device) => sec \in c
      <4>1. At[1] \in c /\ At \in FunctionsOn(At[1]) BY <1>4, <3>1 DEF OnSeenBus
      <4> QED BY <2>3, <4>1 DEF Closed, Device
    <3> QED BY <1>1, <3>1, <3>2
  <2>4. ASSUME NEW f \in Listed'
        PROVE  OnSeenBus(f)' /\ (IsBridge(hw.fns[f]) => hw.fns[f].secondary \in g_bus_seen')
    <3>1. CASE f = At
      BY <1>1, <1>4, <1>12, <3>1 DEF Device, UnseenBus
    <3>2. CASE f # At
      <4>1. f \in Listed BY <1>10, <2>4, <3>2
      <4> QED BY <1>1, <1>3, <1>12, <4>1 DEF BusesOK
    <3> QED BY <3>1, <3>2
  <2> HIDE DEF enters, sec
  <2> QED BY <1>1, <1>11, <2>2, <2>3, <2>4 DEF BusesOK, IsBridge
<1>16. ListOK'
  <2>1. ASSUME NEW n \in 1 .. slot, NEW m \in 1 .. slot, n # m PROVE g_devs'[n].fn # g_devs'[m].fn
    <3>1. \A k \in 1 .. slot : k = slot \/ k \in 1 .. Len(g_devs) BY <1>3
    <3>2. \A k \in 1 .. Len(g_devs) : g_devs'[k].fn = g_devs[k].fn /\ g_devs[k].fn \in Listed
      BY <1>9 DEF Listed
    <3>3. g_devs'[slot].fn = At BY <1>7, <1>9
    <3> HIDE DEF slot
    <3>4. CASE n = slot BY <1>4, <2>1, <3>1, <3>2, <3>3, <3>4
    <3>5. CASE m = slot BY <1>4, <2>1, <3>1, <3>2, <3>3, <3>5
    <3>6. CASE n # slot /\ m # slot
      <4>1. n \in 1 .. Len(g_devs) /\ m \in 1 .. Len(g_devs) BY <3>1, <3>6
      <4> QED BY <1>3, <2>1, <3>2, <4>1 DEF ListOK
    <3> QED BY <3>4, <3>5, <3>6
  <2>2. slot <= PCI_MAX_DEVICES BY <1>1, <1>3, PciAssumption
  <2>3. ~g_overflow BY <1>1, <1>3, PciAssumption DEF ListOK
  <2>4. g_overflow' = FALSE BY <1>1, <1>3, <2>3 DEF ListOK
  <2> HIDE DEF slot
  <2> QED BY <1>9, <1>11, <2>1, <2>2, <2>4 DEF ListOK
<1>17. /\ here \in Seq(Frames) /\ Len(here) = d
       /\ \A j \in Depth : here[j] = IF j = d THEN frame ELSE scan.stack[j]
  BY <1>3, <1>6 DEF Depth
<1> HIDE DEF here
<1>18. /\ Waits(frame) = Waiting(d) \ {At} /\ Waits(inner) = FunctionsOn(sec)
       /\ NextOf(frame.todo) = At
  <2>1. frame.slot # 0 BY <1>3, <1>6
  <2> QED BY <1>3, <1>4, <1>6, <1>8, <2>1 DEF Waits, At
<1>19. /\ \A j \in Depth : Waits(here[j]) = IF j = d THEN Waiting(d) \ {At} ELSE Waiting(j)
       /\ \A j \in Depth : here[j].slot = IF j = d THEN slot ELSE scan.stack[j].slot
  BY <1>6, <1>17, <1>18 DEF Waiting
<1>20. \A j \in Depth : Waits(here[j]) \subseteq Waiting(j) BY <1>19
\* The calls under way before, which all have a function in hand now.
<1>21. /\ \A j \in Depth : /\ here[j].slot # 0 /\ here[j].slot <= slot /\ here[j].slot \in Nat
                           /\ g_devs'[here[j].slot].fn = NextOf(here[j].todo)
       /\ \A j, k \in Depth : j < k => here[j].slot < here[k].slot
       /\ \A j \in Depth : \A f \in Waits(here[j]) :
            OnSeenBus(f) /\ OnSeenBus(f)' /\ f \notin Listed'
       /\ \A j, k \in Depth : j # k => Waits(here[j]) \cap Waits(here[k]) = {}
  <2>1. ASSUME NEW j \in Depth, j # d
        PROVE  /\ scan.stack[j].slot \in 1 .. Len(g_devs)
               /\ g_devs[scan.stack[j].slot].fn = NextOf(scan.stack[j].todo)
    BY <1>2, <1>3, <2>1 DEF WaitOK
  <2>2. ASSUME NEW j \in Depth
        PROVE  /\ here[j].slot # 0 /\ here[j].slot <= slot /\ here[j].slot \in Nat
               /\ g_devs'[here[j].slot].fn = NextOf(here[j].todo)
    <3>1. CASE j = d
      <4>1. here[j] = frame /\ here[j].slot = slot BY <1>17, <1>19, <3>1
      <4>2. g_devs'[slot].fn = At BY <1>7, <1>9
      <4> QED BY <1>3, <1>18, <4>1, <4>2
    <3>2. CASE j # d
      <4>1. here[j] = scan.stack[j] BY <1>17, <3>2
      <4>2. g_devs'[scan.stack[j].slot] = g_devs[scan.stack[j].slot] BY <1>9, <2>1, <3>2
      <4> QED BY <1>3, <2>1, <3>2, <4>1, <4>2
    <3> QED BY <3>1, <3>2
  <2>3. ASSUME NEW j \in Depth, NEW k \in Depth, j < k PROVE here[j].slot < here[k].slot
    <3>1. j # d BY <1>3, <2>3 DEF Depth
    <3>2. here[j].slot = scan.stack[j].slot BY <1>19, <3>1
    <3>3. CASE k = d
      <4>1. here[k].slot = slot BY <1>19, <3>3
      <4> QED BY <1>3, <2>1, <3>1, <3>2, <4>1
    <3>4. CASE k # d
      <4>1. here[k].slot = scan.stack[k].slot /\ scan.stack[k].slot # 0 BY <1>3, <1>19, <2>1, <3>4
      <4> QED BY <1>2, <1>3, <2>3, <3>2, <4>1 DEF WaitOK
    <3> QED BY <3>3, <3>4
  <2>4. ASSUME NEW j \in Depth, NEW f \in Waits(here[j])
        PROVE  OnSeenBus(f) /\ OnSeenBus(f)' /\ f \notin Listed'
    <3>1. f \in Waiting(j) BY <1>20, <2>4
    <3>2. OnSeenBus(f) /\ f \notin Listed BY <1>2, <1>3, <3>1 DEF WaitOK
    <3>3. f # At
      <4>1. CASE j = d BY <1>19, <2>4, <4>1
      <4>2. CASE j # d
        <5>1. Waiting(j) \cap Waiting(d) = {} BY <1>2, <1>3, <4>2 DEF WaitOK
        <5>2. At \in Waiting(d) BY <1>1, NextFunction
        <5> QED BY <3>1, <5>1, <5>2
      <4> QED BY <4>1, <4>2
    <3> QED BY <1>10, <1>12, <3>2, <3>3
  <2>5. \A j, k \in Depth : j # k => Waits(here[j]) \cap Waits(here[k]) = {}
    BY <1>2, <1>3, <1>20 DEF WaitOK
  <2> QED BY <2>2, <2>3, <2>4, <2>5
<1>22. CASE ~enters
  <2>1. scan'.pc = "bar" /\ scan'.stack = here /\ scan'.i = 1 /\ Walking'
    BY <1>1, <1>22 DEF Walking
  <2>2. Depth' = Depth /\ Len(scan'.stack) = d BY <1>17, <2>1 DEF Depth
  <2>3. \A j : Waiting(j)' = Waits(here[j]) BY <2>1 DEF Waiting, Waits
  <2> HIDE DEF slot
  <2>4. WaitOK' BY <1>9, <1>21, <2>1, <2>2, <2>3 DEF WaitOK
  <2>5. CoverOK'
    <3> SUFFICES ASSUME ~g_overflow, NEW f \in Functions, OnSeenBus(f)', f \notin Listed'
                 PROVE  \E j \in Depth : f \in Waits(here[j])
      BY <1>1, <1>11, <2>1, <2>2, <2>3 DEF CoverOK
    <3>1. OnSeenBus(f) /\ f # At /\ f \notin Listed BY <1>10, <1>13, <1>22
    <3>2. PICK j \in Depth : f \in Waiting(j) BY <1>3, <3>1 DEF CoverOK
    <3> QED BY <1>19, <3>1, <3>2
  <2>6. BarsOK'
    <3>1. ASSUME NEW n \in 1 .. Len(g_devs'), NEW i \in 1 .. EndpointBars
          PROVE  Told(g_devs'[n], hw'.fns[g_devs'[n].fn], i, Sized(n, i)')
      <4>1. ~(i < 1) OBVIOUS
      <4>2. Sized(n, i)' <=> \A j \in Depth : here[j].slot # n BY <2>1, <2>2, <4>1 DEF Sized
      <4>3. CASE n = slot
        <5>1. here[d].slot = n BY <1>3, <1>19, <4>3
        <5>2. ~Sized(n, i)' BY <1>3, <4>2, <5>1
        <5> QED BY <1>9, <1>b, <4>3, <5>2 DEF Told
      <4>4. CASE n # slot
        <5>1. n \in 1 .. Len(g_devs) BY <1>3, <1>9, <4>4 DEF slot
        <5>2. Told(g_devs[n], hw.fns[g_devs[n].fn], i, Sized(n, i)) BY <1>3, <5>1 DEF BarsOK
        <5>3. Sized(n, i)' <=> Sized(n, i)
          <6>1. scan.stack[d].slot # n /\ here[d].slot # n BY <1>3, <1>4, <1>19, <4>4, <5>1
          <6>2. Sized(n, i) <=> \A j \in Depth : scan.stack[j].slot # n BY <1>2, <6>1 DEF Sized
          <6>3. \A j \in Depth : here[j].slot = n <=> scan.stack[j].slot = n BY <1>19, <6>1
          <6> QED BY <4>2, <6>2, <6>3
        <5> QED BY <1>1, <1>9, <5>1, <5>2, <5>3 DEF Told
      <4> QED BY <4>3, <4>4
    <3> QED BY <3>1 DEF BarsOK
  <2>7. HalfOK'
    <3>1. Last(here) = frame BY <1>3, <1>17 DEF Last
    <3>2. Device' = Device BY <1>1, <1>18, <2>1, <3>1 DEF Device, At, Top
    <3>3. 1 <= BarCount(Device) => Device.bars[1].kind # "high" BY <1>5, FirstBar
    <3> QED BY <2>1, <3>2, <3>3 DEF HalfOK, Sizing, BarCount
  <2> QED BY <1>15, <1>16, <2>4, <2>5, <2>6, <2>7 DEF TableInv
<1>23. CASE enters
  <2> DEFINE new == Append(here, inner)
  <2>1. scan'.pc = "function" /\ scan'.stack = new /\ Walking'
    <3>1. scan = [pc |-> "function", stack |-> scan.stack] BY <1>1 DEF ScanInv, QuietOK, Sizing
    <3>2. scan' = [scan EXCEPT !.stack = new] BY <1>1, <1>23
    <3> HIDE DEF new
    <3> QED BY <3>1, <3>2 DEF Walking
  <2>2. /\ Len(new) = d + 1 /\ new[d + 1] = inner
        /\ \A j \in Depth : new[j] = here[j]
    BY <1>3, <1>17, <1>a DEF Depth
  <2> HIDE DEF new
  <2>3. Depth' = 1 .. (d + 1) /\ Len(scan'.stack) = d + 1 BY <2>1, <2>2 DEF Depth
  <2>4. /\ \A j \in 1 .. (d + 1) : j = d + 1 \/ j \in Depth
        /\ \A j \in Depth : j \in 1 .. (d + 1) /\ j # d + 1 /\ j < d + 1
        /\ d + 1 \in 1 .. (d + 1)
    BY <1>3 DEF Depth
  <2>a. \A j : Waiting(j)' = Waits(scan'.stack[j]) BY DEF Waiting, Waits
  <2> HIDE DEF slot, d, sec, enters
  <2>5. /\ \A j \in Depth : Waiting(j)' = Waits(here[j]) /\ scan'.stack[j] = here[j]
        /\ \A j : j = d + 1 => Waiting(j)' = FunctionsOn(sec) /\ scan'.stack[j] = inner
    BY <1>18, <2>1, <2>2, <2>a
  <2>6. WaitOK'
    <3>1. \A j \in 1 .. (d + 1) : scan'.stack[j].slot = 0 <=> j = d + 1
      BY <1>8, <1>21, <2>4, <2>5
    <3>2. \A j \in 1 .. (d + 1) : scan'.stack[j].slot # 0 =>
            /\ scan'.stack[j].slot <= slot
            /\ g_devs'[scan'.stack[j].slot].fn = NextOf(scan'.stack[j].todo)
      BY <1>21, <2>4, <2>5, <3>1
    <3>3. \A j, k \in 1 .. (d + 1) : j < k /\ scan'.stack[k].slot # 0 =>
            scan'.stack[j].slot < scan'.stack[k].slot
      <4> SUFFICES ASSUME NEW j \in 1 .. (d + 1), NEW k \in 1 .. (d + 1), j < k, scan'.stack[k].slot # 0
                   PROVE  scan'.stack[j].slot < scan'.stack[k].slot
        OBVIOUS
      <4>1. k # d + 1 BY <3>1
      <4>2. k \in Depth BY <2>4, <4>1
      <4>3. j # d + 1 BY <1>3, <2>4, <4>2
      <4>4. j \in Depth BY <2>4, <4>3
      <4> QED BY <1>21, <2>5, <4>2, <4>4
    <3>4. \A j \in 1 .. (d + 1) : \A f \in Waiting(j)' : OnSeenBus(f)' /\ f \notin Listed'
      <4>1. \A j \in Depth : \A f \in Waiting(j)' : OnSeenBus(f)' /\ f \notin Listed' BY <1>21, <2>5
      <4>2. \A f \in FunctionsOn(sec) : OnSeenBus(f)' /\ f \notin Listed'
        <5>1. \A f \in Listed' : OnSeenBus(f) BY <1>3, <1>4, <1>10 DEF BusesOK
        <5> QED BY <1>14, <1>23, <5>1
      <4> QED BY <2>4, <2>5, <4>1, <4>2
    <3>5. ASSUME NEW j \in 1 .. (d + 1), NEW k \in 1 .. (d + 1), j # k
          PROVE  Waiting(j)' \cap Waiting(k)' = {}
      <4>1. \A m \in Depth : Waiting(m)' \cap FunctionsOn(sec) = {}
        BY <1>14, <1>21, <1>23, <2>5
      <4>2. CASE j = d + 1
        <5>1. k \in Depth BY <2>4, <3>5, <4>2
        <5> QED BY <2>5, <4>1, <4>2, <5>1
      <4>3. CASE k = d + 1
        <5>1. j \in Depth BY <2>4, <3>5, <4>3
        <5> QED BY <2>5, <4>1, <4>3, <5>1
      <4>4. CASE j # d + 1 /\ k # d + 1
        <5>1. j \in Depth /\ k \in Depth BY <2>4, <4>4
        <5> QED BY <1>21, <2>5, <3>5, <5>1
      <4> QED BY <4>2, <4>3, <4>4
    <3> QED BY <1>9, <2>1, <2>3, <3>1, <3>2, <3>3, <3>4, <3>5 DEF WaitOK
  <2>7. CoverOK'
    <3> SUFFICES ASSUME ~g_overflow, NEW f \in Functions, OnSeenBus(f)', f \notin Listed'
                 PROVE  \E j \in 1 .. (d + 1) : f \in Waiting(j)'
      BY <1>1, <1>11, <2>1, <2>3 DEF CoverOK
    <3>1. CASE f \in FunctionsOn(sec)
      <4>1. \A j : j = d + 1 => f \in Waiting(j)' BY <2>5, <3>1
      <4> QED BY <2>4, <4>1
    <3>2. CASE f \notin FunctionsOn(sec)
      <4>1. OnSeenBus(f) /\ f # At /\ f \notin Listed BY <1>10, <1>13, <3>2
      <4>2. PICK j \in Depth : f \in Waiting(j) BY <1>3, <4>1 DEF CoverOK
      <4>3. f \in Waits(here[j]) BY <1>19, <4>1, <4>2
      <4> QED BY <2>4, <2>5, <4>2, <4>3
    <3> QED BY <3>1, <3>2
  <2>8. BarsOK'
    <3>1. ASSUME NEW n \in 1 .. Len(g_devs'), NEW i \in 1 .. EndpointBars
          PROVE  Told(g_devs'[n], hw'.fns[g_devs'[n].fn], i, Sized(n, i)')
      <4>1. n # 0 BY <1>9
      <4>2. Sized(n, i)' <=> \A j \in Depth : here[j].slot # n
        <5>1. scan'.stack[d + 1].slot # n BY <1>8, <2>5, <4>1
        <5>2. Sized(n, i)' <=> \A j \in 1 .. (d + 1) : scan'.stack[j].slot # n
          BY <2>1, <2>3, <5>1 DEF Sized
        <5> QED BY <2>4, <2>5, <5>1, <5>2
      <4>3. CASE n = slot
        <5>1. here[d].slot = n BY <1>3, <1>19, <4>3
        <5>2. ~Sized(n, i)' BY <1>3, <4>2, <5>1
        <5> QED BY <1>9, <1>b, <4>3, <5>2 DEF Told
      <4>4. CASE n # slot
        <5>1. n \in 1 .. Len(g_devs) BY <1>3, <1>9, <4>4 DEF slot
        <5>2. Told(g_devs[n], hw.fns[g_devs[n].fn], i, Sized(n, i)) BY <1>3, <5>1 DEF BarsOK
        <5>3. Sized(n, i)' <=> Sized(n, i)
          <6>1. scan.stack[d].slot # n /\ here[d].slot # n BY <1>3, <1>4, <1>19, <4>1, <4>4
          <6>2. Sized(n, i) <=> \A j \in Depth : scan.stack[j].slot # n BY <1>2, <6>1 DEF Sized, d
          <6>3. \A j \in Depth : here[j].slot = n <=> scan.stack[j].slot = n BY <1>19, <6>1
          <6> QED BY <4>2, <6>2, <6>3
        <5> QED BY <1>1, <1>9, <5>1, <5>2, <5>3 DEF Told
      <4> QED BY <4>3, <4>4
    <3> QED BY <3>1 DEF BarsOK
  <2>9. HalfOK' BY <2>1 DEF HalfOK, Sizing
  <2> QED BY <1>15, <1>16, <2>6, <2>7, <2>8, <2>9 DEF TableInv
<1> QED BY <1>22, <1>23

\* Every step.
LEMMA TableNext ==
  ASSUME ScanInv, TableInv, [Next]_vars
  PROVE  TableInv'
<1>1. CASE UNCHANGED pciVars
  <2>1. /\ UNCHANGED <<hw, scan, g_devs, g_overflow, g_bus_seen>> BY <1>1 DEF pciVars
  <2>2. BusesOK' = BusesOK /\ ListOK' = ListOK BY <2>1, SameTable
  <2>3. /\ WaitOK' = WaitOK /\ CoverOK' = CoverOK
    BY <2>1 DEF WaitOK, CoverOK, Walking, Depth, Waiting, Waits, Listed, OnSeenBus, Functions, FunctionsOn
  <2>4. /\ BarsOK' = BarsOK /\ HalfOK' = HalfOK
    BY <2>1 DEF BarsOK, HalfOK, Walking, Depth, Told, Sized, Device, At, Top
  <2> QED BY <2>1, <2>2, <2>3, <2>4 DEF TableInv
<1>2. CASE Scanning
  BY <1>2, OverflowTable, ScanFunctionTable, BusDoneTable, BarsDoneTable, SkipTable, DecodeOffTable,
     SizingTable, RestoreTable
     DEF Scanning, ScanStep
<1>3. CASE storage_open \/ cmd_pci_main
  BY <1>3, PciScanTable DEF storage_open, cmd_pci_main
<1>4. CASE ScanIsAll \/ nvme_init
  <2>1. scan'.pc = "off" BY <1>4 DEF ScanIsAll, nvme_init
  <2> QED BY <2>1 DEF TableInv
<1>5. CASE Boot \/ Client \/ Mapping \/ MapFailed \/ Mapped \/ QueueAlloc \/ Driving \/ Controller
  BY <1>1, <1>5 DEF Boot, Client, Mapping, MapFailed, Mapped, QueueAlloc, Driving, Controller
<1>6. CASE UNCHANGED vars BY <1>1, <1>6 DEF vars
<1> QED BY <1>2, <1>3, <1>4, <1>5, <1>6 DEF Next, KernelStep

\* The functions listed are as many as the entries.
LEMMA ListedCount ==
  ASSUME ListOK
  PROVE  IsFiniteSet(Listed) /\ Cardinality(Listed) = Len(g_devs)
<1> DEFINE S == 1 .. Len(g_devs)
           f == [n \in S |-> g_devs[n].fn]
<1>1. Len(g_devs) \in Nat BY DEF ListOK
<1>2. IsFiniteSet(S) /\ Cardinality(S) = Len(g_devs)
  <2>1. ASSUME NEW k \in Nat PROVE IsFiniteSet(1 .. k) /\ Cardinality(1 .. k) = k
    <3>1. 1 \in Int /\ k \in Int BY <2>1
    <3>2. IsFiniteSet(1 .. k) /\ Cardinality(1 .. k) = IF 1 > k THEN 0 ELSE k - 1 + 1
      BY <3>1, FS_Interval, Zenon
    <3> QED BY <2>1, <3>2
  <2> QED BY <1>1, <2>1
<1>a. \A n, m \in S : n # m => g_devs[n].fn # g_devs[m].fn BY DEF ListOK
<1> HIDE DEF S
<1>3. Listed = {g_devs[n].fn : n \in S} BY DEF Listed, S
<1>4. f \in Surjection(S, Listed) BY <1>3 DEF Surjection
<1>5. f \in Injection(S, Listed)
  <2>1. f \in [S -> Listed] BY <1>3
  <2>2. \A n, m \in S : f[n] = f[m] => n = m BY <1>a
  <2> HIDE DEF f
  <2> QED BY <2>1, <2>2 DEF Injection, IsInjective
<1> HIDE DEF f
<1> QED BY <1>2, <1>4, <1>5, FS_Surjection

\* The functions that can be reached are those of the buses every closed set
\* has.
LEMMA ReachableMeans ==
  ASSUME NEW f
  PROVE  f \in Reachable <=>
           \E b \in Buses : f \in FunctionsOn(b) /\ \A c \in SUBSET Buses : Closed(c) => b \in c
  BY DEF Reachable, Buses, Functions

\* What was met can be reached.
LEMMA SeenReachable ==
  ASSUME BusesOK, NEW f, OnSeenBus(f)
  PROVE  f \in Reachable
<1>1. f[1] \in Buses /\ f \in FunctionsOn(f[1]) /\ \A c \in SUBSET Buses : Closed(c) => f[1] \in c
  BY DEF BusesOK, OnSeenBus
<1> QED BY <1>1, ReachableMeans

\* And everything that can be reached is in a finished table that is not full.
LEMMA AllListed ==
  ASSUME BusesOK, CoverOK, ~Walking, ~g_overflow
  PROVE  Reachable = Listed
<1>1. ASSUME NEW f \in Functions, OnSeenBus(f) PROVE f \in Listed BY <1>1 DEF CoverOK
<1>2. ASSUME NEW b \in g_bus_seen, NEW f \in FunctionsOn(b) PROVE f \in Listed
  <2>1. f[1] = b /\ f \in Functions BY <1>2, OnBus
  <2> QED BY <1>1, <1>2, <2>1 DEF OnSeenBus
<1>3. Closed(g_bus_seen) BY <1>2 DEF BusesOK, Closed
<1>4. ASSUME NEW f \in Reachable PROVE f \in Listed
  <2>1. PICK b \in Buses : f \in FunctionsOn(b) /\ \A c \in SUBSET Buses : Closed(c) => b \in c
    BY <1>4, ReachableMeans
  <2>2. b \in g_bus_seen BY <1>3, <2>1 DEF BusesOK
  <2> QED BY <1>2, <2>1, <2>2
<1>5. ASSUME NEW f \in Listed PROVE f \in Reachable
  BY <1>5, SeenReachable DEF BusesOK
<1> QED BY <1>4, <1>5

\* A machine has finitely many functions.
LEMMA ReachableFinite ==
  ASSUME ScanInv
  PROVE  IsFiniteSet(Reachable) /\ Cardinality(Reachable) \in Nat
<1>1. IsFiniteSet(Functions) BY PciAssumption DEF ScanInv, ConfOK, Functions
<1>2. Reachable \in SUBSET Functions BY ReachableMeans, OnBus
<1> QED BY <1>1, <1>2, FS_Subset, FS_CardinalityType

\* The table of a finished scan.
LEMMA TableImplies ==
  ASSUME ScanInv, TableInv
  PROVE  ScanExact
<1> SUFFICES ASSUME scan.pc = "done"
             PROVE  /\ g_overflow = (Cardinality(Reachable) > PCI_MAX_DEVICES)
                    /\ Len(g_devs) = (IF g_overflow THEN PCI_MAX_DEVICES ELSE Cardinality(Reachable))
                    /\ \A n, m \in DOMAIN g_devs : n # m => g_devs[n].fn # g_devs[m].fn
                    /\ \A n \in DOMAIN g_devs :
                         LET d == g_devs[n]  h == hw.fns[d.fn] IN
                         /\ d.fn \in Reachable
                         /\ \A i \in 1 .. EndpointBars :
                              <<d.bar[i], d.bar_size[i]>> = IF i \in MemoryBars(h)
                                                            THEN <<h.bars[i].base, h.bars[i].size>>
                                                            ELSE <<0, 0>>
  BY DEF ScanExact
<1>1. BusesOK /\ ListOK /\ CoverOK /\ BarsOK /\ ~Walking BY DEF TableInv, Walking
<1>2. IsFiniteSet(Listed) /\ Cardinality(Listed) = Len(g_devs) BY <1>1, ListedCount
<1>3. IsFiniteSet(Reachable) /\ Cardinality(Reachable) \in Nat BY ReachableFinite
<1>4. /\ g_overflow \in BOOLEAN /\ Len(g_devs) \in Nat /\ Len(g_devs) <= PCI_MAX_DEVICES
      /\ PCI_MAX_DEVICES \in Nat /\ DOMAIN g_devs = 1 .. Len(g_devs)
  BY <1>1, PciAssumption DEF ListOK
<1>5. ASSUME g_overflow PROVE Cardinality(Reachable) > PCI_MAX_DEVICES
  <2>1. PICK f \in Functions : OnSeenBus(f) /\ f \notin Listed BY <1>1, <1>5 DEF ListOK
  <2>2. Listed \cup {f} \in SUBSET Reachable
    BY <1>1, <2>1, SeenReachable DEF BusesOK
  <2>3. Cardinality(Listed \cup {f}) = Len(g_devs) + 1 BY <1>2, <2>1, FS_AddElement
  <2>4. Cardinality(Listed \cup {f}) <= Cardinality(Reachable) BY <1>3, <2>2, FS_Subset
  <2>5. Len(g_devs) = PCI_MAX_DEVICES BY <1>1, <1>5 DEF ListOK
  <2> QED BY <1>3, <1>4, <1>5, <2>3, <2>4, <2>5
<1>6. ASSUME ~g_overflow PROVE Len(g_devs) = Cardinality(Reachable)
  <2>1. Reachable = Listed BY <1>1, <1>6, AllListed
  <2> QED BY <1>2, <1>4, <1>6, <2>1
<1>7. /\ g_overflow = (Cardinality(Reachable) > PCI_MAX_DEVICES)
      /\ Len(g_devs) = (IF g_overflow THEN PCI_MAX_DEVICES ELSE Cardinality(Reachable))
  <2>1. CASE g_overflow
    <3>1. Len(g_devs) = PCI_MAX_DEVICES BY <1>1, <2>1 DEF ListOK
    <3>2. Cardinality(Reachable) > PCI_MAX_DEVICES BY <1>5, <2>1
    <3> QED BY <1>4, <2>1, <3>1, <3>2
  <2>2. CASE ~g_overflow
    <3>1. Len(g_devs) = Cardinality(Reachable) BY <1>6, <2>2
    <3>2. ~(Cardinality(Reachable) > PCI_MAX_DEVICES) BY <1>3, <1>4, <3>1
    <3> QED BY <1>4, <2>2, <3>1, <3>2
  <2> QED BY <2>1, <2>2
<1>8. ASSUME NEW n \in DOMAIN g_devs PROVE g_devs[n].fn \in Reachable
  <2>1. g_devs[n].fn \in Listed BY <1>4 DEF Listed
  <2> QED BY <1>1, <2>1, SeenReachable DEF BusesOK
<1>9. ASSUME NEW n \in DOMAIN g_devs, NEW i \in 1 .. EndpointBars
      PROVE  LET d == g_devs[n]  h == hw.fns[d.fn] IN
             <<d.bar[i], d.bar_size[i]>> = IF i \in MemoryBars(h)
                                           THEN <<h.bars[i].base, h.bars[i].size>> ELSE <<0, 0>>
  <2>1. Sized(n, i) BY <1>1 DEF Sized
  <2>2. Told(g_devs[n], hw.fns[g_devs[n].fn], i, Sized(n, i)) BY <1>1, <1>4 DEF BarsOK
  <2> QED BY <2>1, <2>2 DEF Told
<1>10. \A n, m \in DOMAIN g_devs : n # m => g_devs[n].fn # g_devs[m].fn
  <2>1. \A n, m \in 1 .. Len(g_devs) : n # m => g_devs[n].fn # g_devs[m].fn BY <1>1 DEF ListOK
  <2> QED BY <1>4, <2>1
<1> QED BY <1>7, <1>8, <1>9, <1>10

\* A finished scan has listed every function that can be reached over bridges,
\* once each, with the bases and sizes of its memory BARs, on any machine: also
\* where bridges form a loop, lead back to bus 0 or are not configured, and
\* where there are more functions than entries, which is told (pci_scan,
\* scan_bus, scan_function, read_bars, pci_decode_bar).
THEOREM ScanStaysExact == Spec => []ScanExact
<1>1. Init => ScanInv /\ TableInv
  <2>1. Init => scan.pc = "off" BY DEF Init, PciInit
  <2> QED BY <2>1, ScanInit DEF TableInv
<1>2. ScanInv /\ TableInv /\ [Next]_vars => (ScanInv /\ TableInv)' BY ScanNext, TableNext
<1>3. ScanInv /\ TableInv => ScanExact BY TableImplies
<1> QED BY <1>1, <1>2, <1>3, PTL DEF Spec
-----------------------------------------------------------------------------
(* Pages.                                                                  *)

\* Quotients keep the order.
LEMMA DivLeast ==
  ASSUME NEW a \in Nat, NEW b \in Nat, b > 0, NEW g \in Nat, b * g <= a
  PROVE  g <= a \div b
<1> DEFINE u == a \div b
           s == a % b
<1>1. u \in Nat /\ s \in Nat /\ s < b /\ a = b * u + s BY DivMod
<1> HIDE DEF u, s
<1>2. ~(u < g)
  <2> SUFFICES ASSUME u < g PROVE FALSE OBVIOUS
  <2>1. PICK e \in Nat : g = u + 1 + e
    <3>1. g - u - 1 \in Nat /\ g = u + 1 + (g - u - 1) BY <1>1
    <3> QED BY <3>1
  <2>2. b * g = b * u + b + b * e BY <1>1, <2>1
  <2>3. b * e \in Nat /\ b * u \in Nat BY <1>1, <2>1
  <2> QED BY <1>1, <2>2, <2>3
<1> QED BY <1>1, <1>2 DEF u

LEMMA DivMost ==
  ASSUME NEW a \in Nat, NEW b \in Nat, b > 0, NEW g \in Nat, a < b * g
  PROVE  a \div b < g
<1> DEFINE u == a \div b
           s == a % b
<1>1. u \in Nat /\ s \in Nat /\ a = b * u + s BY DivMod
<1> HIDE DEF u, s
<1>2. ~(g <= u)
  <2> SUFFICES ASSUME g <= u PROVE FALSE OBVIOUS
  <2>1. PICK e \in Nat : u = g + e
    <3>1. u - g \in Nat /\ u = g + (u - g) BY <1>1
    <3> QED BY <3>1
  <2>2. b * u = b * g + b * e BY <1>1, <2>1
  <2>3. b * e \in Nat /\ b * g \in Nat BY <2>1
  <2> QED BY <1>1, <2>2, <2>3
<1> QED BY <1>1, <1>2 DEF u

LEMMA DivOrder ==
  ASSUME NEW a \in Nat, NEW c \in Nat, NEW b \in Nat, b > 0, a <= c
  PROVE  a \div b <= c \div b
<1> DEFINE u == a \div b
<1>1. u \in Nat /\ b * u <= a
  <2>1. u \in Nat /\ a % b \in Nat /\ a = b * u + (a % b) BY DivMod
  <2>2. b * u \in Nat BY <2>1
  <2> QED BY <2>1, <2>2
<1> HIDE DEF u
<1>2. b * u \in Nat BY <1>1
<1>3. b * u <= c BY <1>1, <1>2
<1>4. u <= c \div b BY <1>1, <1>3, DivLeast
<1> QED BY <1>4 DEF u

\* One page on.
LEMMA DivNext ==
  ASSUME NEW a \in Nat, NEW b \in Nat, b > 0
  PROVE  (a + b) \div b = (a \div b) + 1
<1> DEFINE u == a \div b
           s == a % b
<1>1. u \in Nat /\ s \in Nat /\ s < b /\ a = b * u + s BY DivMod
<1> HIDE DEF u, s
<1>2. a + b = b * (u + 1) + s /\ u + 1 \in Nat BY <1>1
<1> DEFINE w == u + 1
<1>3. a + b = b * w + s /\ w \in Nat BY <1>2
<1> HIDE DEF w
<1>4. (b * w + s) \div b = w BY <1>1, <1>3, DivUnique
<1> QED BY <1>3, <1>4 DEF w, u

\* The page after the last one of a range that ends at v.
LEMMA AlignUp ==
  ASSUME NEW v \in Nat, NEW a \in Nat, a > 0
  PROVE  /\ align_up(v, a) \div a = (v + a - 1) \div a
         /\ align_up(v, a) \div a \in Nat /\ align_up(v, a) \in Nat
         /\ align_up(v, a) = a * (align_up(v, a) \div a)
         /\ v > 0 => align_up(v, a) \div a = ((v - 1) \div a) + 1
<1> DEFINE w == v + a - 1
           c == w \div a
<1>1. w \in Nat /\ c \in Nat /\ c = (v + a - 1) \div a
  <2>1. w \in Nat OBVIOUS
  <2> HIDE DEF w
  <2>2. c \in Nat BY <2>1
  <2> QED BY <2>1, <2>2 DEF w
<1>2. align_up(v, a) = c * a BY DEF align_up
<1>5. v > 0 => c = ((v - 1) \div a) + 1
  <2> SUFFICES ASSUME v > 0 PROVE c = ((v - 1) \div a) + 1 OBVIOUS
  <2> DEFINE z == v - 1
  <2>1. z \in Nat /\ w = z + a OBVIOUS
  <2> HIDE DEF z, w
  <2>2. (z + a) \div a = (z \div a) + 1 BY <2>1, DivNext
  <2> QED BY <2>1, <2>2 DEF z
<1> HIDE DEF c
<1>3. align_up(v, a) = a * c + 0 BY <1>1, <1>2
<1>4. (a * c + 0) \div a = c BY <1>1, DivUnique
<1>6. align_up(v, a) \div a = c BY <1>3, <1>4
<1>7. align_up(v, a) \in Nat
  <2>1. c * a \in Nat BY <1>1
  <2> QED BY <1>2, <2>1
<1>8. align_up(v, a) = a * c BY <1>1, <1>3
<1> QED BY <1>1, <1>5, <1>6, <1>7, <1>8
-----------------------------------------------------------------------------
(* The identity map.                                                       *)

HugeRange(start, end) == (start \div Huge) .. ((align_up(end, Huge) \div Huge) - 1)

LEMMA MapHuge ==
  ASSUME NEW old, NEW start, NEW end, NEW caching
  PROVE  LET new == map_huge(old, start, end, caching) IN
         /\ DOMAIN new = DOMAIN old \cup HugeRange(start, end)
         /\ \A h \in DOMAIN old : new[h] = old[h]
         /\ \A h \in HugeRange(start, end) : h \notin DOMAIN old => new[h] = caching
  BY DEF map_huge, Keep, HugeRange

\* What is cached is RAM: it was mapped neither as device range nor as screen.
LEMMA CachedPage ==
  ASSUME NEW end, NEW fb, NEW h \in DOMAIN IdentityMap(end, fb), IdentityMap(end, fb)[h] = "wb"
  PROVE  /\ h \notin HugeRange(XPT_MMIO_BASE, FOUR_GIB)
         /\ fb.size # 0 => h \notin HugeRange(fb.base, fb.base + fb.size)
         /\ \/ h \in HugeRange(0, IF end < XPT_MMIO_BASE THEN end ELSE XPT_MMIO_BASE)
            \/ end > FOUR_GIB /\ h \in HugeRange(FOUR_GIB, end)
<1> DEFINE top == IF end < XPT_MMIO_BASE THEN end ELSE XPT_MMIO_BASE
           device == map_huge(<<>>, XPT_MMIO_BASE, FOUR_GIB, "uc")
           screen == IF fb.size = 0 THEN device ELSE map_huge(device, fb.base, fb.base + fb.size, "uc")
           low == map_huge(screen, 0, top, "wb")
           all == IF end > FOUR_GIB THEN map_huge(low, FOUR_GIB, end, "wb") ELSE low
<1>1. IdentityMap(end, fb) = all BY DEF IdentityMap
<1>2. /\ DOMAIN device = HugeRange(XPT_MMIO_BASE, FOUR_GIB)
      /\ \A x \in DOMAIN device : device[x] = "uc"
  <2>1. DOMAIN <<>> = {} OBVIOUS
  <2>2. /\ DOMAIN device = DOMAIN <<>> \cup HugeRange(XPT_MMIO_BASE, FOUR_GIB)
        /\ \A x \in HugeRange(XPT_MMIO_BASE, FOUR_GIB) : x \notin DOMAIN <<>> => device[x] = "uc"
    BY MapHuge
  <2> HIDE DEF device
  <2> QED BY <2>1, <2>2
<1> HIDE DEF device
<1>3. /\ DOMAIN screen = DOMAIN device \cup
           (IF fb.size = 0 THEN {} ELSE HugeRange(fb.base, fb.base + fb.size))
      /\ \A x \in DOMAIN screen : screen[x] = "uc"
  <2>1. CASE fb.size = 0 BY <1>2, <2>1
  <2>2. CASE fb.size # 0
    <3> DEFINE new == map_huge(device, fb.base, fb.base + fb.size, "uc")
    <3>1. /\ DOMAIN new = DOMAIN device \cup HugeRange(fb.base, fb.base + fb.size)
          /\ \A x \in DOMAIN device : new[x] = device[x]
          /\ \A x \in HugeRange(fb.base, fb.base + fb.size) : x \notin DOMAIN device => new[x] = "uc"
      BY MapHuge
    <3>2. screen = new BY <2>2
    <3> HIDE DEF new
    <3> QED BY <1>2, <2>2, <3>1, <3>2
  <2> QED BY <2>1, <2>2
<1> HIDE DEF screen
<1>4. /\ DOMAIN low = DOMAIN screen \cup HugeRange(0, top)
      /\ \A x \in DOMAIN screen : low[x] = "uc"
  <2>1. /\ DOMAIN low = DOMAIN screen \cup HugeRange(0, top)
        /\ \A x \in DOMAIN screen : low[x] = screen[x]
        /\ \A x \in HugeRange(0, top) : x \notin DOMAIN screen => low[x] = "wb"
    <3> HIDE DEF top
    <3> QED BY MapHuge
  <2> HIDE DEF low
  <2> QED BY <1>3, <2>1
<1> HIDE DEF low
<1>5. /\ DOMAIN low \subseteq DOMAIN all /\ \A x \in DOMAIN low : all[x] = low[x]
      /\ \A x \in DOMAIN all : x \in DOMAIN low \/ (end > FOUR_GIB /\ x \in HugeRange(FOUR_GIB, end))
  <2> DEFINE new == map_huge(low, FOUR_GIB, end, "wb")
  <2>1. /\ DOMAIN new = DOMAIN low \cup HugeRange(FOUR_GIB, end)
        /\ \A x \in DOMAIN low : new[x] = low[x]
        /\ \A x \in HugeRange(FOUR_GIB, end) : x \notin DOMAIN low => new[x] = "wb"
    BY MapHuge
  <2>2. all = IF end > FOUR_GIB THEN new ELSE low OBVIOUS
  <2> HIDE DEF new, all
  <2> QED BY <2>1, <2>2
<1> HIDE DEF all
<1>6. h \notin DOMAIN screen
  <2> SUFFICES ASSUME h \in DOMAIN screen PROVE FALSE OBVIOUS
  <2>1. all[h] = "uc" BY <1>4, <1>5
  <2> QED BY <1>1, <2>1
<1> HIDE DEF top
<1>7. h \in HugeRange(0, top) \/ (end > FOUR_GIB /\ h \in HugeRange(FOUR_GIB, end))
  BY <1>1, <1>4, <1>5, <1>6
<1> QED BY <1>2, <1>3, <1>6, <1>7 DEF top

\* The huge pages of something that has a size.
LEMMA LastPage ==
  ASSUME NEW base \in Nat, NEW size \in Nat, size # 0
  PROVE  HugePagesOf(base, size) = HugeRange(base, base + size)
<1>1. Huge \in Nat /\ Huge > 0 BY KmapAssumption
<1>2. base + size \in Nat /\ base + size > 0 /\ (base + size) - 1 \in Nat OBVIOUS
<1>3. ((base + size) - 1) \div Huge \in Nat BY <1>1, <1>2, DivMod
<1>4. align_up(base + size, Huge) \div Huge = (((base + size) - 1) \div Huge) + 1
  BY <1>1, <1>2, AlignUp
<1> QED BY <1>3, <1>4 DEF HugePagesOf, HugeRange

\* A range for devices, and one behind RAM, is not cached.
LEMMA NotCached ==
  ASSUME NEW end \in Nat, NEW fb, NEW base \in Nat, NEW size \in Nat, size # 0,
         \/ XPT_MMIO_BASE <= base /\ base + size <= FOUR_GIB
         \/ align_up(end, Huge) <= base,
         NEW h \in HugePagesOf(base, size), h \in DOMAIN IdentityMap(end, fb)
  PROVE  IdentityMap(end, fb)[h] # "wb"
<1> SUFFICES ASSUME IdentityMap(end, fb)[h] = "wb" PROVE FALSE OBVIOUS
<1>1. /\ Huge \in Nat /\ Huge > 0 /\ XPT_MMIO_BASE \in Nat /\ FOUR_GIB \in Nat
      /\ FOUR_GIB % Huge = 0 /\ XPT_MMIO_BASE < FOUR_GIB
  BY KmapAssumption
<1>2. /\ h \notin HugeRange(XPT_MMIO_BASE, FOUR_GIB)
      /\ \/ h \in HugeRange(0, IF end < XPT_MMIO_BASE THEN end ELSE XPT_MMIO_BASE)
         \/ end > FOUR_GIB /\ h \in HugeRange(FOUR_GIB, end)
  BY CachedPage
<1> DEFINE last == (base + size) - 1
           first == base \div Huge
           past == align_up(end, Huge) \div Huge
<1>3. last \in Nat /\ first \in Nat /\ last \div Huge \in Nat /\ base <= last
  <2>1. last \in Nat /\ base <= last OBVIOUS
  <2> HIDE DEF last
  <2> QED BY <1>1, <2>1, DivMod
<1>4. h \in first .. (last \div Huge) BY DEF HugePagesOf
<1>5. h \in Nat /\ first <= h /\ h <= last \div Huge BY <1>3, <1>4
<1>6. CASE XPT_MMIO_BASE <= base /\ base + size <= FOUR_GIB
  <2> DEFINE lo == XPT_MMIO_BASE \div Huge
             g == FOUR_GIB \div Huge
  <2>1. g \in Nat /\ FOUR_GIB = Huge * g BY <1>1, Multiple
  <2>2. lo \in Nat BY <1>1, DivMod
  <2>3. lo <= first BY <1>1, <1>6, DivOrder
  <2>4. last < FOUR_GIB BY <1>1, <1>6
  <2> HIDE DEF last, g
  <2>5. last \div Huge < g BY <1>1, <1>3, <2>1, <2>4, DivMost
  <2>6. align_up(FOUR_GIB, Huge) \div Huge >= g
    <3>1. FOUR_GIB > 0 /\ FOUR_GIB - 1 \in Nat BY <1>1
    <3>2. align_up(FOUR_GIB, Huge) \div Huge = (FOUR_GIB + Huge - 1) \div Huge BY <1>1, AlignUp
    <3>3. FOUR_GIB + Huge - 1 \in Nat /\ Huge * g <= FOUR_GIB + Huge - 1 BY <1>1, <2>1
    <3> DEFINE w == FOUR_GIB + Huge - 1
    <3>4. w \in Nat /\ Huge * g <= w BY <3>3
    <3> HIDE DEF w
    <3>5. g <= w \div Huge BY <1>1, <2>1, <3>4, DivLeast
    <3>6. w \div Huge \in Nat BY <1>1, <3>4, DivMod
    <3> QED BY <2>1, <3>2, <3>5, <3>6 DEF w
  <2>7. align_up(FOUR_GIB, Huge) \div Huge \in Nat BY <1>1, AlignUp
  <2> DEFINE up == align_up(FOUR_GIB, Huge) \div Huge
  <2>8. HugeRange(XPT_MMIO_BASE, FOUR_GIB) = lo .. (up - 1) BY DEF HugeRange
  <2>9. up \in Nat /\ g <= up BY <2>1, <2>6, <2>7
  <2> HIDE DEF up, lo, first
  <2>10. h \in lo .. (up - 1) BY <1>3, <1>5, <2>1, <2>2, <2>3, <2>5, <2>9
  <2> QED BY <1>2, <2>8, <2>10
<1>7. CASE align_up(end, Huge) <= base
  <2>1. past \in Nat /\ align_up(end, Huge) = Huge * past BY <1>1, AlignUp
  <2> HIDE DEF past
  <2>2. past <= first BY <1>1, <1>7, <2>1, DivLeast
  <2>3. \A x \in Nat : x <= end => HugeRange(0, x) \subseteq 0 .. (past - 1)
    <3> SUFFICES ASSUME NEW x \in Nat, x <= end PROVE HugeRange(0, x) \subseteq 0 .. (past - 1) OBVIOUS
    <3> DEFINE u == x + Huge - 1
               v == end + Huge - 1
    <3>1. u \in Nat /\ v \in Nat /\ u <= v BY <1>1
    <3>2. align_up(x, Huge) \div Huge = u \div Huge /\ past = v \div Huge BY <1>1, AlignUp DEF past
    <3> HIDE DEF u, v
    <3>3. u \div Huge <= v \div Huge /\ u \div Huge \in Nat BY <1>1, <3>1, DivOrder, DivMod
    <3>4. 0 \div Huge = 0
      <4>1. (Huge * 0 + 0) \div Huge = 0 BY <1>1, DivUnique
      <4> QED BY <1>1, <4>1
    <3>5. HugeRange(0, x) = 0 .. ((u \div Huge) - 1) BY <3>2, <3>4 DEF HugeRange
    <3> QED BY <2>1, <3>2, <3>3, <3>5
  <2>4. HugeRange(FOUR_GIB, end) \subseteq {x \in Int : x <= past - 1}
    <3>1. FOUR_GIB \div Huge \in Nat BY <1>1, DivMod
    <3>2. HugeRange(FOUR_GIB, end) = (FOUR_GIB \div Huge) .. (past - 1) BY DEF HugeRange, past
    <3> QED BY <2>1, <3>1, <3>2
  <2>5. h <= past - 1
    <3> DEFINE top == IF end < XPT_MMIO_BASE THEN end ELSE XPT_MMIO_BASE
    <3>1. top \in Nat /\ top <= end BY <1>1
    <3> HIDE DEF top
    <3>2. CASE h \in HugeRange(0, top)
      <4>1. h \in 0 .. (past - 1) BY <2>3, <3>1, <3>2
      <4> QED BY <2>1, <4>1
    <3>3. CASE h \in HugeRange(FOUR_GIB, end) BY <2>4, <3>3
    <3> QED BY <1>2, <3>2, <3>3 DEF top
  <2> HIDE DEF first
  <2> QED BY <1>3, <1>5, <2>1, <2>2, <2>5
<1> QED BY <1>6, <1>7
-----------------------------------------------------------------------------
(* The window.                                                             *)

\* A page of the window is a page of the BAR.
LEMMA PageOfBar ==
  ASSUME NEW base \in Nat, NEW size \in Nat, NEW o \in Nat, o < size, NEW first \in Nat,
         Shows(first, base, PagesOf(base, size))
  PROVE  Reaches((first * Frame + (base % Frame)) + o, base + o)
<1>1. Frame \in Nat /\ Frame > 0 BY KmapAssumption
<1> DEFINE p == base \div Frame
           r == base % Frame
           t == r + o
           u == t \div Frame
           s == t % Frame
           va == (first * Frame + r) + o
<1>2. p \in Nat /\ r \in Nat /\ base = Frame * p + r BY <1>1, DivMod
<1> HIDE DEF p, r
<1>3. t \in Nat BY <1>2
<1> HIDE DEF t
<1>4. u \in Nat /\ s \in Nat /\ s < Frame /\ t = Frame * u + s BY <1>1, <1>3, DivMod
<1> HIDE DEF u, s
<1>5. first + u \in Nat /\ p + u \in Nat /\ Frame * first \in Nat /\ Frame * u \in Nat /\ Frame * p \in Nat
  BY <1>1, <1>2, <1>4
<1>6. va = Frame * (first + u) + s
  <2>1. Frame * (first + u) = first * Frame + Frame * u BY <1>1, <1>4
  <2>2. va = first * Frame + t BY <1>1, <1>2 DEF t
  <2> QED BY <1>1, <1>4, <1>5, <2>1, <2>2
<1>7. base + o = Frame * (p + u) + s
  <2>1. Frame * (p + u) = Frame * p + Frame * u BY <1>1, <1>2, <1>4
  <2>2. base + o = Frame * p + t BY <1>2, <1>5 DEF t
  <2> QED BY <1>4, <1>5, <2>1, <2>2
<1>8. va \div Frame = first + u /\ va % Frame = s
  <2> DEFINE k == first + u
  <2>1. k \in Nat /\ va = Frame * k + s BY <1>5, <1>6
  <2> HIDE DEF k, va
  <2>2. (Frame * k + s) % Frame = s /\ (Frame * k + s) \div Frame = k BY <1>1, <1>4, <2>1, DivUnique
  <2> QED BY <2>1, <2>2 DEF k
<1>9. u \in 0 .. (PagesOf(base, size) - 1)
  <2> DEFINE e == base + size
             c == align_up(e, Frame) \div Frame
             k == p + u
             z == e + Frame - 1
  <2>1. e \in Nat /\ e > 0 /\ base + o < e OBVIOUS
  <2>2. c = z \div Frame /\ c \in Nat BY <1>1, <2>1, AlignUp
  <2>3. PagesOf(base, size) = c - p BY DEF PagesOf, p
  <2>4. z \in Nat /\ (base + o) + Frame <= z BY <1>1, <2>1
  <2>5. Frame * (k + 1) <= z /\ k + 1 \in Nat
    <3>a. k \in Nat BY <1>5
    <3>1. Frame * (k + 1) = Frame * k + Frame /\ k + 1 \in Nat
      <4> HIDE DEF k
      <4> QED BY <1>1, <3>a
    <3>2. Frame * k \in Nat BY <1>1, <3>a
    <3>3. base + o = Frame * k + s BY <1>7
    <3> HIDE DEF z, k
    <3> QED BY <1>1, <1>4, <2>4, <3>1, <3>2, <3>3
  <2> DEFINE n == k + 1
  <2>6. Frame * n <= z /\ n \in Nat BY <2>5
  <2> HIDE DEF n, z
  <2>7. n <= z \div Frame BY <1>1, <2>4, <2>6, DivLeast
  <2> HIDE DEF c
  <2>8. p + u + 1 <= c BY <2>2, <2>7 DEF n
  <2> QED BY <1>2, <1>4, <2>2, <2>3, <2>8
<1>10. first + u \in DOMAIN window /\ window[first + u] = p + u BY <1>9 DEF Shows, p
<1>11. window[va \div Frame] * Frame + (va % Frame) = base + o
  <2>1. (p + u) * Frame = Frame * (p + u) BY <1>1, <1>5
  <2> HIDE DEF va
  <2> QED BY <1>7, <1>8, <1>10, <2>1
<1>12. Reaches(va, base + o) BY <1>8, <1>10, <1>11 DEF Reaches
<1> QED BY <1>12 DEF r

\* What a memory BAR is.
LEMMA MemoryBarFacts ==
  ASSUME ScanInv, NEW f \in Functions, NEW i \in MemoryBars(hw.fns[f])
  PROVE  LET b == hw.fns[f].bars[i] IN b.base \in Nat /\ b.size \in Nat /\ b.size # 0
<1>1. IsFunction(hw.fns[f]) BY PciAssumption DEF ScanInv, ConfOK, Functions
<1>2. /\ i \in DOMAIN hw.fns[f].bars /\ hw.fns[f].bars[i].kind \in {"m32", "m64"} BY DEF MemoryBars
<1>3. IsBar(hw.fns[f].bars[i]) BY <1>1, <1>2 DEF IsFunction
<1> QED BY <1>2, <1>3 DEF IsBar

\* The invariant is enough.
LEMMA RegsImply ==
  ASSUME ScanInv, StageOK, RegsInv
  PROVE  RegistersAreTheBar
<1>1. ASSUME drv.pc # "idle"
      PROVE  LET b == hw.fns[regs.fn].bars[1] IN
             /\ {"mem", "master"} \subseteq conf[regs.fn].cmd
             /\ \A o \in {16 * k : k \in 0 .. ((b.size \div 16) - 1)} : Reaches(regs.va + o, b.base + o)
  <2> DEFINE b == hw.fns[regs.fn].bars[1]
  <2>1. scan.pc = "off" BY <1>1 DEF StageOK
  <2>2. RegsOK /\ InUse BY <1>1 DEF RegsInv, InUse
  <2>3. Enabled(regs.fn) /\ 1 \in MemoryBars(hw.fns[regs.fn]) BY <2>2 DEF RegsOK
  <2>4. {"mem", "master"} \subseteq conf[regs.fn].cmd BY <2>1, <2>3 DEF Enabled, Command, Sizing
  <2>5. b.base \in Nat /\ b.size \in Nat BY <2>3, MemoryBarFacts DEF Enabled
  <2>6. PICK first \in Nat : /\ regs.va = first * Frame + (b.base % Frame)
                             /\ Shows(first, b.base, PagesOf(b.base, b.size))
    BY <2>2 DEF RegsOK
  <2> HIDE DEF b
  <2>7. ASSUME NEW k \in 0 .. ((b.size \div 16) - 1) PROVE Reaches(regs.va + 16 * k, b.base + 16 * k)
    <3> DEFINE o == 16 * k
    <3>1. b.size \div 16 \in Nat /\ b.size % 16 \in Nat /\ b.size = 16 * (b.size \div 16) + (b.size % 16)
      BY <2>5, DivMod
    <3>2. o \in Nat /\ o < b.size BY <2>5, <3>1
    <3> HIDE DEF o
    <3>3. Reaches((first * Frame + (b.base % Frame)) + o, b.base + o) BY <2>5, <2>6, <3>2, PageOfBar
    <3> QED BY <2>6, <3>3 DEF o
  <2> QED BY <2>4, <2>7 DEF b
<1> QED BY <1>1 DEF RegistersAreTheBar

\* What of the identity map is cacheable, once it is built.
LEMMA IdentImply ==
  ASSUME ScanInv, RegsInv
  PROVE  CacheableOnlyInRam
<1>2. hw \in Machines BY DEF ScanInv, ConfOK
<1>3. hw.phys_end \in Nat /\ hw.fb.base \in Nat /\ hw.fb.size \in Nat BY <1>2, StorageAssumption
<1>4. CASE ident = NoIdentity
  <2>1. DOMAIN ident.at = {} BY <1>4 DEF NoIdentity
  <2>2. \A r : ~Cached(r) BY <2>1 DEF Cached
  <2> QED BY <2>2 DEF CacheableOnlyInRam
<1>5. CASE ident # NoIdentity
  <2>1. ident.at = IdentityMap(hw.phys_end, hw.fb) BY <1>5 DEF RegsInv, IdentOK
  <2>2. ASSUME NEW f \in DOMAIN hw.fns, NEW b \in Placed(hw.fns[f]), ClearOfRam(b)
        PROVE  ~Cached(b)
    <3>1. PICK i \in MemoryBars(hw.fns[f]) : b = hw.fns[f].bars[i] BY DEF Placed
    <3>2. b.base \in Nat /\ b.size \in Nat /\ b.size # 0 BY <3>1, MemoryBarFacts DEF Functions
    <3>3. ASSUME NEW h \in HugePagesOf(b.base, b.size), h \in DOMAIN ident.at PROVE ident.at[h] # "wb"
      BY <1>3, <2>1, <2>2, <3>2, <3>3, NotCached DEF ClearOfRam
    <3> QED BY <3>3 DEF Cached
  <2>3. ASSUME hw.fb.size # 0 PROVE ~Cached(hw.fb)
    <3>1. HugePagesOf(hw.fb.base, hw.fb.size) = HugeRange(hw.fb.base, hw.fb.base + hw.fb.size)
      BY <1>3, <2>3, LastPage
    <3>2. ASSUME NEW h \in HugePagesOf(hw.fb.base, hw.fb.size), h \in DOMAIN ident.at
          PROVE  ident.at[h] # "wb"
      BY <2>1, <2>3, <3>1, <3>2, CachedPage
    <3> QED BY <3>2 DEF Cached
  <2> QED BY <2>2, <2>3 DEF CacheableOnlyInRam
<1> QED BY <1>4, <1>5

\* Sizing a BAR puts the command bits back that it turned off.
LEMMA CommandKept ==
  ASSUME ScanInv, ScanStep
  PROVE  hw' = hw /\ \A f \in Functions : Command(f)' = Command(f)
<1>1. CASE ScanOverflow \/ scan_function \/ BusDone \/ BarsDone \/ SkipBar
  <2>1. /\ hw' = hw /\ conf' = conf /\ scan.pc \in {"function", "bar"}
    BY <1>1 DEF ScanOverflow, scan_function, BusDone, BarsDone, SkipBar
  <2>2. scan'.pc \notin Sizing
    <3>1. scan.pc = "function" => scan = [pc |-> "function", stack |-> scan.stack]
      BY <2>1 DEF ScanInv, QuietOK, Sizing
    <3>2. scan.pc = "bar" => scan = [pc |-> "bar", stack |-> scan.stack, i |-> scan.i]
      BY <2>1 DEF ScanInv, QuietOK, Sizing
    <3>3. CASE ScanOverflow
      <4>1. scan.pc = "function" BY <3>3 DEF ScanOverflow
      <4>2. \E x : scan' = [scan EXCEPT !.stack = x] BY <3>3 DEF ScanOverflow
      <4>3. PICK x : scan' = [scan EXCEPT !.stack = x] BY <4>2
      <4> QED BY <3>1, <4>1, <4>3 DEF Sizing
    <3>4. CASE scan_function
      <4>1. scan.pc = "function" BY <3>4 DEF scan_function
      <4>2. scan'.pc = "bar" \/ \E x : scan' = [scan EXCEPT !.stack = x] BY <3>4 DEF scan_function
      <4>3. scan'.pc = "bar" \/ scan'.pc = "function" BY <3>1, <4>1, <4>2
      <4> QED BY <4>3 DEF Sizing
    <3>5. CASE BusDone BY <3>5 DEF BusDone, Sizing
    <3>6. CASE BarsDone BY <3>6 DEF BarsDone, Sizing
    <3>7. CASE SkipBar
      <4>1. scan.pc = "bar" /\ scan' = [scan EXCEPT !.i = scan.i + 1] BY <3>7 DEF SkipBar
      <4> QED BY <3>2, <4>1 DEF Sizing
    <3> QED BY <1>1, <3>3, <3>4, <3>5, <3>6, <3>7
  <2> QED BY <2>1, <2>2 DEF Command, Sizing
<1>2. CASE DecodeOff
  <2> DEFINE at == At
             c == conf[at]
             w == c.cmd \ {"mem"}
  <2>1. /\ scan.pc = "bar" /\ hw' = hw
        /\ conf' = [conf EXCEPT ![at] = CmdWritten(@, CommandOnly(w, c.status))]
        /\ scan'.pc = "ones_lo" /\ scan'.stack = scan.stack /\ scan'.cmd = c.cmd
    BY <1>2 DEF DecodeOff
  <2>2. at \in Functions /\ ConfOK BY <2>1, TopFrame DEF ScanInv
  <2>3. \A f \in Functions : conf'[f].cmd = IF f = at THEN w ELSE conf[f].cmd
    <3> HIDE DEF at, c, w
    <3> QED BY ONLY <2>1, <2>2, CommandOne
  <2>4. At' = at BY <2>1 DEF At, Top
  <2> QED BY <2>1, <2>2, <2>3, <2>4 DEF Command, Sizing
<1>3. CASE OnesLo \/ BackLo \/ OnesHi \/ BackHi
  <2>0. scan.pc \in Sizing BY <1>3 DEF OnesLo, BackLo, OnesHi, BackHi, Sizing
  <2>1. scan = SizingAt(scan.pc, scan.m_lo, scan.m_hi) /\ hw' = hw
    BY <1>3, <2>0 DEF ScanInv, SizingOK, SizingAt, OnesLo, BackLo, OnesHi, BackHi
  <2>2. /\ At \in Functions /\ scan.i \in Bars(At) /\ ConfOK
        /\ Is64(scan.raw_lo) => scan.i + 1 \in Bars(At)
        /\ scan.pc \in {"ones_hi", "back_hi"} => Is64(scan.raw_lo)
    BY <2>0, SizedBars DEF ScanInv, SizingOK
  <2>3. \E pc, m_lo, m_hi : pc \in Sizing /\ scan' = SizingAt(pc, m_lo, m_hi)
    <3>1. CASE OnesLo
      <4> DEFINE m == Holds(Device.bars[scan.i], AllOnes)
      <4>1. scan' = [[scan EXCEPT !.pc = "back_lo"] EXCEPT !.m_lo = m] BY <3>1 DEF OnesLo
      <4> HIDE DEF m
      <4>2. scan' = SizingAt("back_lo", m, scan.m_hi) BY <2>1, <4>1 DEF SizingAt
      <4> QED BY <4>2 DEF Sizing
    <3>2. CASE BackLo
      <4> DEFINE pc == IF Is64(scan.raw_lo) THEN "ones_hi" ELSE "restore"
      <4>1. scan' = [scan EXCEPT !.pc = pc] BY <3>2 DEF BackLo
      <4>2. pc \in Sizing BY DEF Sizing
      <4> HIDE DEF pc
      <4>3. scan' = SizingAt(pc, scan.m_lo, scan.m_hi) BY <2>1, <4>1 DEF SizingAt
      <4> QED BY <4>2, <4>3
    <3>3. CASE OnesHi
      <4> DEFINE m == Holds(Device.bars[scan.i + 1], AllOnes)
      <4>1. scan' = [[scan EXCEPT !.pc = "back_hi"] EXCEPT !.m_hi = m] BY <3>3 DEF OnesHi
      <4> HIDE DEF m
      <4>2. scan' = SizingAt("back_hi", scan.m_lo, m) BY <2>1, <4>1 DEF SizingAt
      <4> QED BY <4>2 DEF Sizing
    <3>4. CASE BackHi
      <4>1. scan' = [scan EXCEPT !.pc = "restore"] BY <3>4 DEF BackHi
      <4>2. scan' = SizingAt("restore", scan.m_lo, scan.m_hi) BY <2>1, <4>1 DEF SizingAt
      <4> QED BY <4>2 DEF Sizing
    <3> QED BY <1>3, <3>1, <3>2, <3>3, <3>4
  <2>4. scan'.pc \in Sizing /\ scan'.stack = scan.stack /\ scan'.cmd = scan.cmd
    BY <2>3 DEF SizingAt
  <2>5. \E n \in Bars(At) : \E v : RegisterWrite(At, n, v)
    BY <1>3, <2>2 DEF OnesLo, BackLo, OnesHi, BackHi, Write, RegisterWrite
  <2>6. PICK n \in Bars(At) : \E v : RegisterWrite(At, n, v) BY <2>5
  <2>7. PICK v : RegisterWrite(At, n, v) BY <2>6
  <2>8. \A f \in Functions : conf'[f].cmd = conf[f].cmd BY <2>1, <2>2, <2>7, WriteOne
  <2>9. At' = At BY <2>4 DEF At, Top
  <2> QED BY <2>0, <2>1, <2>4, <2>8, <2>9 DEF Command
<1>4. CASE Restore
  <2> DEFINE at == At
  <2>1. /\ scan.pc = "restore" /\ hw' = hw
        /\ conf' = [conf EXCEPT ![at] = CmdWritten(@, CommandOnly(scan.cmd, scan.status))]
        /\ scan'.pc = "bar"
    BY <1>4 DEF Restore
  <2>2. at \in Functions /\ ConfOK BY <2>1, TopFrame DEF ScanInv
  <2>3. \A f \in Functions : conf'[f].cmd = IF f = at THEN scan.cmd ELSE conf[f].cmd
    <3> HIDE DEF at
    <3> QED BY ONLY <2>1, <2>2, CommandOne
  <2> QED BY <2>1, <2>2, <2>3 DEF Command, Sizing
<1> QED BY <1>1, <1>2, <1>3, <1>4 DEF ScanStep

\* A step that maps nothing and keeps the command bits.
LEMMA RegsKept ==
  ASSUME RegsInv, hw' = hw, UNCHANGED <<window, g_mmio_next, map, regs>>,
         \A f \in Functions : Command(f)' = Command(f), InUse' => InUse
  PROVE  MapOK' /\ RegsOK'
<1>1. \A f : Enabled(f) => Enabled(f)' BY DEF Enabled, Functions
<1>2. \A f : MemoryBars(hw.fns[f])' = MemoryBars(hw.fns[f]) BY DEF MemoryBars, BarCount
<1>3. \A first, phys, n : Shows(first, phys, n)' = Shows(first, phys, n) BY DEF Shows
<1>4. MapOK' BY <1>1, <1>2, <1>3 DEF RegsInv, MapOK
<1>5. RegsOK' BY <1>1, <1>2, <1>3 DEF RegsInv, RegsOK
<1> QED BY <1>4, <1>5

\* Another page of the window shows the next page of the BAR.
LEMMA MapTurnRegs ==
  ASSUME ScanInv, Base, RegsInv, Mapping
  PROVE  RegsInv'
<1> DEFINE f == regs.fn
           b == hw.fns[f].bars[1]
           page == g_mmio_next + map.i
           x == (map.phys \div Frame) + map.i
<1>1. /\ map.pc = "loop" /\ map.i < map.pages
      /\ UNCHANGED <<hw, conf, scan, drv, store, ident, g_mmio_next, regs>>
      /\ \/ map' = [NoMap EXCEPT !.pc = "fail"] /\ window' = window
         \/ /\ page \notin DOMAIN window
            /\ window' = Keep(window, [p \in {page} |-> x])
            /\ map' = [map EXCEPT !.i = map.i + 1]
  BY DEF Mapping, MapTurn, pciVars, nvmeVars
<1>2. ~InUse /\ ~InUse' BY <1>1 DEF Base, StageOK, InUse
<1>3. RegsOK' /\ IdentOK' BY <1>1, <1>2 DEF RegsInv, RegsOK, IdentOK
<1>4. CASE map' = [NoMap EXCEPT !.pc = "fail"]
  <2>1. map'.pc = "fail" BY <1>4 DEF NoMap
  <2>2. MapOK' BY <1>1, <2>1 DEF RegsInv, MapOK
  <2> QED BY <1>3, <2>2 DEF RegsInv
<1>5. CASE /\ page \notin DOMAIN window
           /\ window' = Keep(window, [p \in {page} |-> x])
           /\ map' = [map EXCEPT !.i = map.i + 1]
  <2>1. /\ g_mmio_next \in Nat /\ map.i \in Nat /\ Enabled(f) /\ 1 \in MemoryBars(hw.fns[f])
        /\ map = [pc |-> "loop", phys |-> b.base, pages |-> PagesOf(b.base, b.size), i |-> map.i]
        /\ Shows(g_mmio_next, b.base, map.i)
    BY <1>1 DEF RegsInv, MapOK
  <2>2. map' = [pc |-> "loop", phys |-> b.base, pages |-> PagesOf(b.base, b.size), i |-> map.i + 1]
    <3> HIDE DEF b
    <3> QED BY <1>5, <2>1
  <2>3. x = (b.base \div Frame) + map.i
    <3> HIDE DEF b
    <3> QED BY <2>1
  <2> HIDE DEF page, x
  <2>4. /\ page \in DOMAIN window' /\ window'[page] = x
        /\ \A p \in DOMAIN window : p \in DOMAIN window' /\ window'[p] = window[p]
    BY <1>5 DEF Keep
  <2>5. ASSUME NEW k \in 0 .. map.i
        PROVE  g_mmio_next + k \in DOMAIN window' /\ window'[g_mmio_next + k] = (b.base \div Frame) + k
    <3>1. CASE k = map.i BY <2>3, <2>4, <3>1 DEF page
    <3>2. CASE k # map.i
      <4>1. k \in 0 .. (map.i - 1) BY <2>1, <3>2
      <4> QED BY <2>1, <2>4, <4>1 DEF Shows
    <3> QED BY <3>1, <3>2
  <2>6. /\ map'.pc = "loop" /\ map'.i = map.i + 1 /\ map'.pages = map.pages
        /\ map' = [pc |-> "loop", phys |-> b.base, pages |-> PagesOf(b.base, b.size), i |-> map'.i]
    <3> HIDE DEF b
    <3> QED BY <2>1, <2>2
  <2>7. map'.i \in Nat /\ map'.i <= map'.pages /\ map'.i - 1 = map.i
    <3>1. map.pages \in Int
      <4>1. Frame \in Nat /\ Frame > 0 BY KmapAssumption
      <4>2. b.base \in Nat /\ b.size \in Nat BY <2>1, MemoryBarFacts DEF Enabled
      <4> DEFINE e == b.base + b.size
      <4>3. e \in Nat BY <4>2
      <4>6. b.base \div Frame \in Nat
        <5> HIDE DEF b
        <5> QED BY <4>1, <4>2, DivMod
      <4> HIDE DEF e
      <4>4. align_up(e, Frame) \div Frame \in Nat BY <4>1, <4>3, AlignUp
      <4>5. PagesOf(b.base, b.size) \in Int BY <4>4, <4>6 DEF PagesOf, e
      <4> HIDE DEF b
      <4> QED BY <2>1, <4>5
    <3> QED BY <1>1, <2>1, <2>6, <3>1
  <2>8. b' = b /\ f' = f BY <1>1
  <2>9. Enabled(f)' /\ (1 \in MemoryBars(hw.fns[f]))'
    BY <1>1, <2>1 DEF Enabled, Functions, Command, At, Top, MemoryBars, BarCount
  <2>10. Shows(g_mmio_next, b.base, map.i)'
    <3> HIDE DEF b
    <3> QED BY <1>1, <2>5, <2>7, <2>8 DEF Shows
  <2>11. MapOK'
    <3>1. g_mmio_next' \in Nat /\ regs' = [fn |-> regs'.fn, va |-> regs'.va] BY <1>1, <2>1 DEF RegsInv, MapOK
    <3>2. map' = [pc |-> "loop", phys |-> b'.base, pages |-> PagesOf(b.base, b.size)', i |-> map'.i]
      BY <2>6, <2>8 DEF PagesOf, align_up
    <3> QED BY <2>6, <2>7, <2>9, <2>10, <3>1, <3>2 DEF MapOK
  <2> QED BY <1>3, <2>11 DEF RegsInv
<1> QED BY <1>1, <1>4, <1>5

\* The function found has a memory BAR 0, which is what the table says, and is
\* enabled before its registers are mapped.
LEMMA NvmeInitRegs ==
  ASSUME ScanInv, Base, TableInv, RegsInv, nvme_init
  PROVE  RegsInv'
<1>1. PICK n \in DOMAIN g_devs :
        /\ Found(n) /\ pci_enable(g_devs[n])
        /\ xpt_map_uncached(g_devs[n].bar[1], g_devs[n].bar_size[1])
        /\ regs' = [regs EXCEPT !.fn = g_devs[n].fn]
  BY DEF nvme_init
<1> DEFINE d == g_devs[n]
           f == d.fn
           b == hw.fns[f].bars[1]
           w == conf[f].cmd \cup {"mem", "master"}
<1>2. /\ scan.pc = "done" /\ scan'.pc = "off" /\ stage = "open"
      /\ UNCHANGED <<hw, drv, store, ident, window, g_mmio_next>>
  BY <1>1 DEF nvme_init, Found, nvmeVars
<1>3. ~InUse /\ ~InUse' BY <1>2 DEF Base, StageOK, InUse
<1>4. RegsOK' /\ IdentOK' BY <1>2, <1>3 DEF RegsInv, RegsOK, IdentOK
<1>5. ListOK /\ BarsOK /\ ~Walking BY <1>2 DEF TableInv, Walking
<1>6. n \in 1 .. Len(g_devs) /\ f \in Functions /\ 1 \in 1 .. EndpointBars
  <2>1. n \in 1 .. Len(g_devs) /\ g_devs[n] \in Rows BY <1>5 DEF ListOK
  <2>2. f \in Functions BY <2>1 DEF Rows
  <2>3. 1 \in 1 .. EndpointBars BY PciAssumption
  <2> QED BY <2>1, <2>2, <2>3
<1>7. Told(d, hw.fns[f], 1, Sized(n, 1)) /\ Sized(n, 1) BY <1>5, <1>6 DEF BarsOK, Sized
<1>8. 1 \in MemoryBars(hw.fns[f]) /\ d.bar[1] = b.base /\ d.bar_size[1] = b.size
  BY <1>1, <1>7 DEF Told, Found
<1>9. regs'.fn = f /\ regs' = [fn |-> regs'.fn, va |-> regs'.va] BY <1>1 DEF RegsInv, MapOK
<1>10. conf'[f].cmd = w
  <2>1. conf' = [conf EXCEPT ![f] = CmdWritten(@, CommandOnly(w, conf[f].status))]
    BY <1>1 DEF pci_enable
  <2>2. ConfOK /\ hw' = hw BY <1>2 DEF ScanInv
  <2>3. f \in Functions BY <1>6
  <2> HIDE DEF w, f
  <2>4. /\ ConfOK'
        /\ \A g \in Functions : /\ conf'[g].cmd = IF g = f THEN w ELSE conf[g].cmd
                                /\ conf'[g].reg = conf[g].reg
    BY ONLY <2>1, <2>2, <2>3, CommandOne
  <2> QED BY <2>3, <2>4
<1>11. Enabled(regs.fn)'
  <2>1. Command(regs.fn)' = conf'[f].cmd BY <1>2, <1>9 DEF Command, Sizing
  <2>2. regs'.fn \in Functions' BY <1>2, <1>6, <1>9 DEF Functions
  <2> QED BY <1>10, <2>1, <2>2 DEF Enabled
<1>12. hw'.fns[regs'.fn] = hw.fns[f] BY <1>2, <1>9
<1> DEFINE m == PagesOf(b.base, b.size)
<1>13. \/ map' = [NoMap EXCEPT !.pc = "fail"]
       \/ map' = [pc |-> "loop", phys |-> b.base, pages |-> m, i |-> 0] /\ ~(m > XPT_MMIO_MAX_PAGES)
  BY <1>1, <1>8 DEF xpt_map_uncached
<1>14. g_mmio_next' \in Nat BY <1>2 DEF RegsInv, MapOK
<1>15. CASE map' = [NoMap EXCEPT !.pc = "fail"]
  <2>1. map'.pc = "fail" BY <1>15 DEF NoMap
  <2>2. MapOK' BY <1>9, <1>14, <2>1 DEF MapOK
  <2> QED BY <1>4, <2>2 DEF RegsInv
<1>16. CASE map' = [pc |-> "loop", phys |-> b.base, pages |-> m, i |-> 0]
  <2>1. b.base \in Nat /\ b.size \in Nat BY <1>6, <1>8, MemoryBarFacts
  <2>2. m \in Nat
    <3>1. Frame \in Nat /\ Frame > 0 BY KmapAssumption
    <3> DEFINE e == b.base + b.size
               z == e + Frame - 1
               p == b.base
    <3>2. e \in Nat /\ z \in Nat /\ p \in Nat /\ p <= z BY <2>1, <3>1
    <3>3. align_up(e, Frame) \div Frame = z \div Frame
      <4>1. e \in Nat BY <3>2
      <4> HIDE DEF e
      <4> QED BY <3>1, <4>1, AlignUp
    <3>4. m = (z \div Frame) - (p \div Frame) BY <3>3 DEF PagesOf
    <3> HIDE DEF z, p, m
    <3>5. p \div Frame <= z \div Frame /\ p \div Frame \in Nat /\ z \div Frame \in Nat
      BY <3>1, <3>2, DivOrder, DivMod
    <3> QED BY <3>4, <3>5
  <2>3. /\ map'.pc = "loop" /\ map'.i = 0 /\ map'.pages = m
        /\ map' = [pc |-> "loop", phys |-> b.base, pages |-> m, i |-> map'.i]
    <3> HIDE DEF m, b
    <3> QED BY <1>16
  <2>4. m = (PagesOf(hw.fns[regs.fn].bars[1].base, hw.fns[regs.fn].bars[1].size))'
    BY <1>12 DEF PagesOf, align_up
  <2>5. (1 \in MemoryBars(hw.fns[regs.fn]))' BY <1>8, <1>12 DEF MemoryBars, BarCount
  <2>6. Shows(g_mmio_next, hw.fns[regs.fn].bars[1].base, map.i)' BY <2>3 DEF Shows
  <2>7. hw'.fns[regs'.fn].bars[1] = b BY <1>12
  <2> HIDE DEF m, b
  <2>8. /\ map'.i \in Nat /\ map'.i <= map'.pages
        /\ map' = [pc |-> "loop", phys |-> hw'.fns[regs'.fn].bars[1].base,
                   pages |-> (PagesOf(hw.fns[regs.fn].bars[1].base, hw.fns[regs.fn].bars[1].size))',
                   i |-> map'.i]
    BY <2>2, <2>3, <2>4, <2>7
  <2>9. MapOK' BY <1>9, <1>11, <1>14, <2>3, <2>5, <2>6, <2>8 DEF MapOK
  <2> QED BY <1>4, <2>9 DEF RegsInv
<1> QED BY <1>13, <1>15, <1>16

\* The driver takes over what was mapped.
LEMMA MappedRegs ==
  ASSUME Base, RegsInv, Mapped
  PROVE  RegsInv'
<1> DEFINE b == hw.fns[regs.fn].bars[1]
<1>1. PICK va : MapDone(va) /\ regs' = [regs EXCEPT !.va = va] BY DEF Mapped
<1>2. /\ map.pc = "loop" /\ map.i = map.pages /\ va = g_mmio_next * Frame + (map.phys % Frame)
      /\ g_mmio_next' = g_mmio_next + map.pages /\ map' = NoMap
      /\ UNCHANGED <<ident, window, hw, conf, scan>>
  BY <1>1 DEF MapDone, Mapped, pciVars
<1>3. /\ g_mmio_next \in Nat /\ regs = [fn |-> regs.fn, va |-> regs.va]
      /\ Enabled(regs.fn) /\ 1 \in MemoryBars(hw.fns[regs.fn])
      /\ map = [pc |-> "loop", phys |-> b.base, pages |-> PagesOf(b.base, b.size), i |-> map.i]
      /\ map.i \in Nat /\ Shows(g_mmio_next, b.base, map.i)
  BY <1>2 DEF RegsInv, MapOK
<1>4. regs'.fn = regs.fn /\ regs'.va = va /\ regs' = [fn |-> regs'.fn, va |-> regs'.va]
  BY <1>1, <1>3
<1>5. map.phys = b.base /\ map.pages = PagesOf(b.base, b.size)
  <2> HIDE DEF b
  <2> QED BY <1>3
<1>6. MapOK'
  <2>1. map'.pc = "none" BY <1>2 DEF NoMap
  <2>2. g_mmio_next' \in Nat BY <1>2, <1>3
  <2> QED BY <1>4, <2>1, <2>2 DEF MapOK
<1>7. RegsOK'
  <2>1. b' = b BY <1>2, <1>4
  <2>2. Enabled(regs.fn)' /\ (1 \in MemoryBars(hw.fns[regs.fn]))'
    BY <1>2, <1>3, <1>4 DEF Enabled, Functions, Command, At, Top, MemoryBars, BarCount
  <2>3. PagesOf(b.base, b.size)' = PagesOf(b.base, b.size) BY <2>1 DEF PagesOf, align_up
  <2>4. \A first : Shows(first, b.base, PagesOf(b.base, b.size))' =
                   Shows(first, b.base, PagesOf(b.base, b.size))
    BY <1>2, <2>1, <2>3 DEF Shows
  <2>5. Shows(g_mmio_next, b.base, PagesOf(b.base, b.size))
    <3> HIDE DEF b
    <3> QED BY <1>2, <1>3, <1>5
  <2>6. \A first : first = g_mmio_next =>
          /\ first \in Nat /\ regs'.va = first * Frame + (b'.base % Frame)
          /\ Shows(first, b.base, PagesOf(b.base, b.size))'
    <3> HIDE DEF b
    <3> QED BY <1>2, <1>3, <1>4, <1>5, <2>1, <2>4, <2>5
  <2> QED BY <2>2, <2>6 DEF RegsOK
<1>8. IdentOK' BY <1>2 DEF RegsInv, IdentOK
<1> QED BY <1>6, <1>7, <1>8 DEF RegsInv

\* Every step.
LEMMA RegsNext ==
  ASSUME ScanInv, Base, TableInv, RegsInv, [Next]_vars
  PROVE  RegsInv'
<1>1. ASSUME UNCHANGED <<hw, conf, scan, window, g_mmio_next, map, regs>>, InUse' => InUse
      PROVE  MapOK' /\ RegsOK'
  <2>1. \A f \in Functions : Command(f)' = Command(f) BY <1>1 DEF Command, At, Top
  <2> QED BY <1>1, <2>1, RegsKept
<1>2. ASSUME UNCHANGED <<hw, ident>> PROVE IdentOK' BY <1>2 DEF RegsInv, IdentOK
<1>3. ASSUME UNCHANGED <<drv, store>> PROVE InUse' => InUse BY <1>3 DEF InUse
<1>4. CASE Boot
  <2>1. /\ UNCHANGED <<hw, conf, scan, window, g_mmio_next, map, regs, drv, store>>
        /\ ident' = [at |-> IdentityMap(hw.phys_end, hw.fb), cr3 |-> TRUE]
    BY <1>4 DEF Boot, xpt_init_identity, pciVars, nvmeVars
  <2>2. IdentityMap(hw.phys_end, hw.fb)' = IdentityMap(hw.phys_end, hw.fb)
    BY <2>1
  <2>3. IdentOK' BY <2>1, <2>2 DEF IdentOK
  <2> QED BY <1>1, <1>3, <2>1, <2>3 DEF RegsInv
<1>5. CASE storage_open \/ cmd_pci_main
  <2>1. /\ UNCHANGED <<hw, conf, ident, window, g_mmio_next, map, regs, drv, store>>
        /\ scan.pc = "off" /\ scan'.pc = "function"
    BY <1>5 DEF storage_open, cmd_pci_main, pci_scan, nvmeVars, kmapVars
  <2>2. \A f \in Functions : Command(f)' = Command(f) BY <2>1 DEF Command, Sizing
  <2> QED BY <1>2, <1>3, <2>1, <2>2, RegsKept DEF RegsInv
<1>6. CASE Scanning
  <2>1. ScanStep /\ UNCHANGED <<ident, window, g_mmio_next, map, regs, drv, store>>
    BY <1>6 DEF Scanning, nvmeVars, kmapVars
  <2>2. hw' = hw /\ \A f \in Functions : Command(f)' = Command(f) BY <2>1, CommandKept
  <2> QED BY <1>2, <1>3, <2>1, <2>2, RegsKept DEF RegsInv
<1>7. CASE ScanIsAll
  <2>1. /\ UNCHANGED <<hw, conf, ident, window, g_mmio_next, map, regs, drv, store>>
        /\ scan.pc = "done" /\ scan'.pc = "off"
    BY <1>7 DEF ScanIsAll, nvmeVars, kmapVars
  <2>2. \A f \in Functions : Command(f)' = Command(f) BY <2>1 DEF Command, Sizing
  <2> QED BY <1>2, <1>3, <2>1, <2>2, RegsKept DEF RegsInv
<1>8. CASE nvme_init BY <1>8, NvmeInitRegs
<1>9. CASE Mapping BY <1>9, MapTurnRegs
<1>10. CASE MapFailed
  <2>1. /\ UNCHANGED <<hw, conf, scan, ident, window, g_mmio_next, regs, drv, store>>
        /\ map.pc = "fail" /\ map'.pc = "none"
    BY <1>10 DEF MapFailed, NoMap, pciVars, nvmeVars
  <2>2. ~InUse' BY <2>1 DEF Base, StageOK, InUse
  <2>3. MapOK' BY <2>1 DEF RegsInv, MapOK
  <2>4. RegsOK' BY <2>2 DEF RegsOK
  <2> QED BY <1>2, <2>1, <2>3, <2>4 DEF RegsInv
<1>11. CASE Mapped BY <1>11, MappedRegs
<1>12. CASE QueueAlloc
  <2>1. UNCHANGED <<hw, conf, scan, ident, window, g_mmio_next, map, regs>> /\ InUse
    BY <1>12, BaseQueueAlloc DEF QueueAlloc, pciVars, InUse
  <2> QED BY <1>1, <1>2, <2>1 DEF RegsInv
<1>13. CASE Client
  <2>1. UNCHANGED <<hw, conf, scan, ident, window, g_mmio_next, map, regs>>
    BY <1>13 DEF Client, pciVars, kmapVars
  <2>2. InUse BY <1>13 DEF Client, Request, InUse
  <2> QED BY <1>1, <1>2, <2>1, <2>2 DEF RegsInv
<1>14. CASE Driving
  <2>1. UNCHANGED <<hw, conf, scan, ident, window, g_mmio_next, map, regs>> /\ DriverStep
    BY <1>14 DEF Driving, pciVars, kmapVars
  <2>2. drv.pc # "idle"
    BY <2>1 DEF DriverStep, Submit, PollHit, PollTimeout, copy_in, NextTransfer, EndRequest, Return,
                Ready, OpenFails, AdminNext, Opened
  <2>3. InUse BY <2>2 DEF InUse
  <2> QED BY <1>1, <1>2, <2>1, <2>3 DEF RegsInv
<1>15. CASE Controller
  <2>1. UNCHANGED <<hw, conf, scan, ident, window, g_mmio_next, map, regs>> /\ ControllerStep
    BY <1>15 DEF Controller, pciVars, kmapVars
  <2>2. UNCHANGED <<drv, store>> BY <2>1, CallController DEF Base
  <2> QED BY <1>1, <1>2, <1>3, <2>1, <2>2 DEF RegsInv
<1>16. CASE UNCHANGED vars
  <2>1. UNCHANGED <<hw, conf, scan, ident, window, g_mmio_next, map, regs, drv, store>>
    BY <1>16 DEF vars, nvmeVars, pciVars, kmapVars
  <2> QED BY <1>1, <1>2, <1>3, <2>1 DEF RegsInv
<1> QED BY <1>4, <1>5, <1>6, <1>7, <1>8, <1>9, <1>10, <1>11, <1>12, <1>13, <1>14, <1>15, <1>16
        DEF Next, KernelStep

\* Nothing is mapped or in use at first.
LEMMA RegsInit == Init => RegsInv
<1> SUFFICES ASSUME Init PROVE RegsInv OBVIOUS
<1>1. /\ map.pc = "none" /\ g_mmio_next = 0 /\ ident = NoIdentity /\ regs = [fn |-> <<>>, va |-> 0]
  BY DEF Init, KmapInit, NoMap
<1>2. ~InUse BY DEF Init, NvmeInit, InUse, Idle
<1>3. regs = [fn |-> regs.fn, va |-> regs.va] BY <1>1
<1> QED BY <1>1, <1>2, <1>3 DEF RegsInv, MapOK, RegsOK, IdentOK

\* The registers are followed correctly on any machine.
LEMMA RegsHold == Spec => [](ScanInv /\ Base /\ RegsInv)
<1> DEFINE Inv == ScanInv /\ Base /\ TableInv /\ RegsInv
<1>1. Init => Inv
  <2>1. Init => scan.pc = "off" BY DEF Init, PciInit
  <2> QED BY <2>1, ScanInit, BaseInit, RegsInit DEF TableInv
<1>2. Inv /\ [Next]_vars => Inv' BY ScanNext, BaseNext, TableNext, RegsNext
<1> QED BY <1>1, <1>2, PTL DEF Spec

\* The driver's registers are the controller's and stay so, on any machine and
\* after any history of scans and failed attempts to open the disk: the window
\* shows the whole of BAR 0, the function decodes it and masters the bus
\* (nvme_init, pci_enable, xpt_map_uncached).
THEOREM RegistersStayTheBar == Spec => []RegistersAreTheBar
<1>1. ScanInv /\ Base /\ RegsInv => RegistersAreTheBar BY RegsImply DEF Base
<1> QED BY <1>1, RegsHold, PTL

\* Wherever firmware puts BARs and framebuffer and however much RAM there is:
\* the identity map makes no register cacheable in the range for devices or
\* behind RAM, and the framebuffer nowhere (xpt_init_identity, map_huge).
THEOREM CacheableStaysInRam == Spec => []CacheableOnlyInRam
<1>1. ScanInv /\ RegsInv => CacheableOnlyInRam BY IdentImply
<1> QED BY <1>1, RegsHold, PTL
=============================================================================
