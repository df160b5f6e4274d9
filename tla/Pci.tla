-------------------------------- MODULE Pci --------------------------------
(***************************************************************************)
(* PCI enumeration (drivers/pci/pci.c): pci_scan walks the buses through   *)
(* the bridges and sizes every memory BAR by writing all ones to it.       *)
(*                                                                         *)
(* hw is the machine: what sits at which <<bus, dev, fn>> and how the      *)
(* firmware left it.  conf is the part of configuration space that can be  *)
(* written.  A step of the scan is one configuration write; reads have no  *)
(* effect and belong to the step that uses them.  A BAR register holds a   *)
(* number below RegMod, whose low four bits are its flags; the device lets *)
(* the rest of it take only multiples of the BAR's size.                   *)
(***************************************************************************)
EXTENDS Integers, FiniteSets, SequencesExt

CONSTANTS
    RegMod,             \* 2^32
    Devs, Fns,          \* devices of a bus (32) and functions of a device (8)
    PCI_MAX_DEVICES,
    EndpointBars,       \* BAR registers of a header of type 0 (6 in hardware)
    BridgeBars,         \* and of type 1 (2)
    Machines            \* the machines to consider, [fns, irq, ...]

-----------------------------------------------------------------------------
(* The devices (external).  A BAR is [kind, base, size]; a 64-bit one is   *)
(* followed by its high half, [kind |-> "high"] with the same base and     *)
(* size.                                                                   *)

Flags(b) == CASE b.kind = "io" -> 1 [] b.kind = "m64" -> 4 [] OTHER -> 0
Grain(b) == CASE b.kind = "none" -> RegMod
             [] b.kind = "high" -> IF b.size < RegMod THEN 1 ELSE b.size \div RegMod
             [] OTHER -> IF b.size < RegMod THEN b.size ELSE RegMod

BarCount(d) == CASE d.ht = 0 -> EndpointBars [] d.ht = 1 -> BridgeBars [] OTHER -> 0

\* A register's flags are below the size of its BAR, which divides what the
\* register counts to.  A memory BAR has a size in sixteens that its registers
\* can tell, and lies at a multiple of it that they can hold.
IsBar(b) ==
    /\ b.kind \in {"none", "io", "m32", "m64", "high"}
    /\ b.base \in Nat /\ b.size \in Nat
    /\ Grain(b) \in Nat /\ Flags(b) < Grain(b) /\ RegMod % Grain(b) = 0
    /\ b.kind = "io" => b.size % 4 = 0
    /\ b.kind \in {"m32", "m64", "high"} =>
         /\ b.size > 0 /\ b.size % 16 = 0 /\ b.base % b.size = 0
         /\ b.size < (IF b.kind = "m32" THEN RegMod ELSE RegMod * RegMod)
         /\ b.base < (IF b.kind = "m32" THEN RegMod ELSE RegMod * RegMod)
         /\ b.size >= RegMod => b.size % RegMod = 0

\* A header has registers for the BARs of its type, and where a 64-bit BAR
\* does not have the last of them the next one is its high half.
IsFunction(d) ==
    /\ d.ht \in {0, 1, 2}
    /\ d.secondary \in Nat
    /\ d.status \subseteq {"abort", "parity"}
    /\ BarCount(d) <= Len(d.bars)
    /\ DOMAIN d.bars = 1 .. Len(d.bars)
    /\ \A i \in DOMAIN d.bars :
         /\ IsBar(d.bars[i])
         /\ d.bars[i].kind = "high" <=> (i > 1 /\ d.bars[i - 1].kind = "m64")
         /\ d.bars[i].kind = "high" => /\ d.bars[i].base = d.bars[i - 1].base
                                       /\ d.bars[i].size = d.bars[i - 1].size

ASSUME PciAssumption ==
    /\ RegMod \in Nat /\ RegMod % 16 = 0 /\ RegMod > 16
    /\ PCI_MAX_DEVICES \in Nat \ {0} /\ Devs \in Nat /\ Fns \in Nat
    /\ EndpointBars \in Nat \ {0} /\ BridgeBars \in Nat
    /\ \A m \in Machines : /\ m.irq \in BOOLEAN
                          /\ IsFiniteSet(DOMAIN m.fns)
                          /\ \A f \in DOMAIN m.fns : IsFunction(m.fns[f])

-----------------------------------------------------------------------------
VARIABLES
    hw,             \* the machine
    conf,           \* by function: cmd (command bits), status, reg (the BARs)
    irq,            \* RFLAGS.IF
    scan,           \* the scan under way
    g_devs, g_overflow, g_bus_seen

pciVars == <<hw, conf, irq, scan, g_devs, g_overflow, g_bus_seen>>

\* What the register reads after v was written to it.
Holds(b, v) == ((v - (v % Grain(b))) % RegMod) + Flags(b)
Firmware(b) == Holds(b, IF b.kind = "high" THEN b.base \div RegMod ELSE b.base % RegMod)
AllOnes == RegMod - 1

\* A command write: the status bits it carries are cleared.
CmdWritten(c, w) == [c EXCEPT !.cmd = w.cmd, !.status = @ \ w.status]

PciInit ==
    /\ hw \in Machines
    /\ conf = [f \in DOMAIN hw.fns |->
                 [cmd |-> hw.fns[f].cmd, status |-> hw.fns[f].status,
                  reg |-> [i \in DOMAIN hw.fns[f].bars |-> Firmware(hw.fns[f].bars[i])]]]
    /\ irq = hw.irq
    /\ scan = [pc |-> "off"]
    /\ g_devs = <<>> /\ g_overflow = FALSE /\ g_bus_seen = {}

-----------------------------------------------------------------------------
Is64(raw) == (raw \div 2) % 4 = 2
Address(x) == x - (x % 16)

\* Mutant: the size of a 64-bit BAR is taken from its low half.
DecodeLowHalf(raw_lo, raw_hi, m_lo, m_hi) ==
    LET mask == Address(m_lo) IN
    IF raw_lo % 2 = 1 \/ mask = 0 THEN [r |-> -1, base |-> 0, size |-> 0]
    ELSE [r |-> IF Is64(raw_lo) THEN 1 ELSE 0, base |-> raw_hi * RegMod + Address(raw_lo),
          size |-> RegMod - mask]

\* r is -1 for an I/O or unused BAR, 0 for 32 bits, 1 for 64.
pci_decode_bar(raw_lo, raw_hi, m_lo, m_hi) ==
    LET wide == Is64(raw_lo)
        mask == (IF wide THEN m_hi * RegMod ELSE 0) + Address(m_lo)
        top == IF wide THEN RegMod * RegMod ELSE RegMod IN
    IF raw_lo % 2 = 1 \/ mask = 0 THEN [r |-> -1, base |-> 0, size |-> 0]
    ELSE [r |-> IF wide THEN 1 ELSE 0,
          base |-> (IF wide THEN raw_hi * RegMod ELSE 0) + Address(raw_lo),
          size |-> top - mask]

\* The functions scan_bus hands to scan_function that answer: function 0 of
\* every device, the others of a multi-function device.
FunctionsOn(bus) ==
    {f \in {bus} \X (0 .. (Devs - 1)) \X (0 .. (Fns - 1)) :
        LET zero == <<bus, f[2], 0>> IN
        {f, zero} \subseteq DOMAIN hw.fns /\ (f[3] = 0 \/ hw.fns[zero].multi)}

\* The order of its two loops.
Turn(f) == f[2] * Fns + f[3]
NextOf(todo) == CHOOSE f \in todo : \A g \in todo : Turn(f) <= Turn(g)

IsBridge(d) == d.ht = 1 /\ d.class = "bridge"

\* The calls of scan_bus under way, innermost last: the functions each has
\* left, and the entry of the one it is at.
Top == Last(scan.stack)
At == NextOf(Top.todo)
Device == hw.fns[At]

pci_scan ==
    /\ scan.pc = "off"
    /\ g_devs' = <<>>
    /\ g_overflow' = FALSE
    /\ g_bus_seen' = {0}
    /\ scan' = [pc |-> "function", stack |-> <<[todo |-> FunctionsOn(0), slot |-> 0]>>]
    /\ UNCHANGED <<hw, conf, irq>>

\* The table is full.
ScanOverflow ==
    /\ scan.pc = "function" /\ Top.todo # {}
    /\ Len(g_devs) >= PCI_MAX_DEVICES
    /\ g_overflow' = TRUE
    /\ scan' = [scan EXCEPT !.stack[Len(scan.stack)].todo = @ \ {At}]
    /\ UNCHANGED <<hw, conf, irq, g_devs, g_bus_seen>>

UnseenBus(bus) == bus \notin g_bus_seen

\* scan_function up to its last two lines: the entry, and then the bus
\* behind a bridge, once.
scan_function ==
    LET slot == Len(g_devs) + 1
        here == [scan.stack EXCEPT ![Len(scan.stack)].slot = slot]
        enters == IsBridge(Device) /\ UnseenBus(Device.secondary) IN
    /\ scan.pc = "function" /\ Top.todo # {}
    /\ Len(g_devs) < PCI_MAX_DEVICES
    /\ g_devs' = Append(g_devs, [fn |-> At, class |-> Device.class, ht |-> Device.ht,
                                 bar |-> [i \in 1 .. EndpointBars |-> 0],
                                 bar_size |-> [i \in 1 .. EndpointBars |-> 0]])
    /\ g_bus_seen' = IF enters THEN g_bus_seen \cup {Device.secondary} ELSE g_bus_seen
    /\ scan' = IF enters
               THEN [scan EXCEPT !.stack = Append(here, [todo |-> FunctionsOn(Device.secondary),
                                                         slot |-> 0])]
               ELSE [pc |-> "bar", stack |-> here, i |-> 1]
    /\ UNCHANGED <<hw, conf, irq, g_overflow>>

\* scan_bus returns: to pci_scan, which is done, or to the bridge, whose own BARs
\* are next.
BusDone ==
    LET callers == Front(scan.stack) IN
    /\ scan.pc = "function" /\ Top.todo = {}
    /\ scan' = IF callers = <<>> THEN [pc |-> "done"] ELSE [pc |-> "bar", stack |-> callers, i |-> 1]
    /\ UNCHANGED <<hw, conf, irq, g_devs, g_overflow, g_bus_seen>>

-----------------------------------------------------------------------------
(* read_bars for the function at the top, register scan.i.                 *)

Reg(i) == conf[At].reg[i]
Write(i, v) == conf' = [conf EXCEPT ![At].reg[i] = Holds(Device.bars[i], v)]

\* An I/O BAR, or a 64-bit one without a register for its high half.
Passed(i) == Reg(i) % 2 = 1 \/ (Is64(Reg(i)) /\ i = BarCount(Device))

BarsDone ==
    /\ scan.pc = "bar" /\ scan.i > BarCount(Device)
    /\ scan' = [pc |-> "function",
                stack |-> [scan.stack EXCEPT ![Len(scan.stack)] = [todo |-> Top.todo \ {At}, slot |-> 0]]]
    /\ UNCHANGED <<hw, conf, irq, g_devs, g_overflow, g_bus_seen>>

SkipBar ==
    /\ scan.pc = "bar" /\ scan.i <= BarCount(Device) /\ Passed(scan.i)
    /\ scan' = [scan EXCEPT !.i = @ + 1]
    /\ UNCHANGED <<hw, conf, irq, g_devs, g_overflow, g_bus_seen>>

\* Mutant: the status that was read is written back.
WithStatus(cmd, status) == [cmd |-> cmd, status |-> status]

\* The low half of the register: status bits are write-one-to-clear.
CommandOnly(cmd, status) == [cmd |-> cmd, status |-> {}]

\* irq_save, and memory decoding off.
DecodeOff ==
    LET c == conf[At] IN
    /\ scan.pc = "bar" /\ scan.i <= BarCount(Device) /\ ~Passed(scan.i)
    /\ irq' = FALSE
    /\ conf' = [conf EXCEPT ![At] = CmdWritten(@, CommandOnly(c.cmd \ {"mem"}, c.status))]
    /\ scan' = [pc |-> "ones_lo", stack |-> scan.stack, i |-> scan.i, cmd |-> c.cmd,
                status |-> c.status, irq |-> irq, raw_lo |-> Reg(scan.i),
                raw_hi |-> IF Is64(Reg(scan.i)) THEN Reg(scan.i + 1) ELSE 0, m_lo |-> 0, m_hi |-> 0]
    /\ UNCHANGED <<hw, g_devs, g_overflow, g_bus_seen>>

OnesLo ==
    /\ scan.pc = "ones_lo"
    /\ Write(scan.i, AllOnes)
    /\ scan' = [scan EXCEPT !.pc = "back_lo", !.m_lo = Holds(Device.bars[scan.i], AllOnes)]
    /\ UNCHANGED <<hw, irq, g_devs, g_overflow, g_bus_seen>>

BackLo ==
    /\ scan.pc = "back_lo"
    /\ Write(scan.i, scan.raw_lo)
    /\ scan' = [scan EXCEPT !.pc = IF Is64(scan.raw_lo) THEN "ones_hi" ELSE "restore"]
    /\ UNCHANGED <<hw, irq, g_devs, g_overflow, g_bus_seen>>

OnesHi ==
    /\ scan.pc = "ones_hi"
    /\ Write(scan.i + 1, AllOnes)
    /\ scan' = [scan EXCEPT !.pc = "back_hi", !.m_hi = Holds(Device.bars[scan.i + 1], AllOnes)]
    /\ UNCHANGED <<hw, irq, g_devs, g_overflow, g_bus_seen>>

BackHi ==
    /\ scan.pc = "back_hi"
    /\ Write(scan.i + 1, scan.raw_hi)
    /\ scan' = [scan EXCEPT !.pc = "restore"]
    /\ UNCHANGED <<hw, irq, g_devs, g_overflow, g_bus_seen>>

\* The command register and the interrupt flag as they were, and the result
\* in the table; the high half of a 64-bit BAR is not looked at again.
Restore ==
    LET b == pci_decode_bar(scan.raw_lo, scan.raw_hi, scan.m_lo, scan.m_hi) IN
    /\ scan.pc = "restore"
    /\ conf' = [conf EXCEPT ![At] = CmdWritten(@, CommandOnly(scan.cmd, scan.status))]
    /\ irq' = scan.irq
    /\ g_devs' = IF b.r < 0 THEN g_devs
                 ELSE [g_devs EXCEPT ![Top.slot].bar[scan.i] = b.base,
                                     ![Top.slot].bar_size[scan.i] = b.size]
    /\ scan' = [pc |-> "bar", stack |-> scan.stack,
                i |-> scan.i + (IF b.r = 1 THEN 2 ELSE 1)]
    /\ UNCHANGED <<hw, g_overflow, g_bus_seen>>

ScanStep ==
    \/ ScanOverflow \/ scan_function \/ BusDone
    \/ BarsDone \/ SkipBar \/ DecodeOff \/ OnesLo \/ BackLo \/ OnesHi \/ BackHi \/ Restore

\* The place of the first device of a class in the table, if there is one.
pci_find(class) == {n \in DOMAIN g_devs : /\ g_devs[n].class = class
                                          /\ \A m \in 1 .. (n - 1) : g_devs[m].class # class}

\* Memory decoding and bus mastering on; a status of zeros is written.
pci_enable(d) ==
    conf' = [conf EXCEPT ![d.fn] = CmdWritten(@, CommandOnly(@.cmd \cup {"mem", "master"}, @.status))]

-----------------------------------------------------------------------------
\* "Sizing a BAR briefly disables memory decoding and turns interrupts off, so
\* no other code can reach the device while its address register holds all
\* ones": while a BAR does not hold the firmware's address, its function does
\* not decode memory and interrupts are off.  Between scans no trace is left:
\* every BAR, the interrupt flag and the status bits are as the firmware left
\* them, and a command register has lost no bit.
ScanInvisible ==
    LET moved == {f \in DOMAIN conf : \E i \in DOMAIN conf[f].reg :
                    conf[f].reg[i] # Firmware(hw.fns[f].bars[i])} IN
    /\ \A f \in moved : "mem" \notin conf[f].cmd /\ ~irq
    /\ \A f \in DOMAIN conf : conf[f].status = hw.fns[f].status
    /\ scan.pc \in {"off", "done"} =>
         /\ moved = {} /\ irq = hw.irq
         /\ \A f \in DOMAIN conf : hw.fns[f].cmd \subseteq conf[f].cmd

\* Bus 0 is in a closed set of buses, and so is every bus a bridge leads to
\* that scan_bus can meet on one of them; the reachable ones are in all.
Closed(buses) ==
    /\ 0 \in buses
    /\ \A b \in buses : \A f \in FunctionsOn(b) :
         IsBridge(hw.fns[f]) => hw.fns[f].secondary \in buses
Reachable ==
    LET buses == {0} \cup {hw.fns[f].secondary : f \in DOMAIN hw.fns}
        closed == {c \in SUBSET buses : Closed(c)} IN
    UNION {FunctionsOn(b) : b \in {a \in buses : \A c \in closed : a \in c}}

\* The memory BARs a header of this type has room for.
MemoryBars(d) == {i \in DOMAIN d.bars : /\ d.bars[i].kind \in {"m32", "m64"}
                                        /\ i <= BarCount(d)
                                        /\ d.bars[i].kind = "m64" => i < BarCount(d)}

\* A finished scan has, once each, every function that can be reached over
\* the bridges, also when bridges form a loop or are not configured yet, with
\* the base and the size of each of its memory BARs; when the table is too
\* small it is full and the overflow is recorded.
ScanExact ==
    scan.pc = "done" =>
        /\ g_overflow = (Cardinality(Reachable) > PCI_MAX_DEVICES)
        /\ Len(g_devs) = (IF g_overflow THEN PCI_MAX_DEVICES ELSE Cardinality(Reachable))
        /\ \A n, m \in DOMAIN g_devs : n # m => g_devs[n].fn # g_devs[m].fn
        /\ \A n \in DOMAIN g_devs :
             LET d == g_devs[n]  h == hw.fns[d.fn] IN
             /\ d.fn \in Reachable
             /\ \A i \in 1 .. EndpointBars :
                  <<d.bar[i], d.bar_size[i]>> = IF i \in MemoryBars(h)
                                                THEN <<h.bars[i].base, h.bars[i].size>> ELSE <<0, 0>>
=============================================================================
