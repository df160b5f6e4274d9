------------------------------ MODULE Storage ------------------------------
(***************************************************************************)
(* storage.c over its parts: storage_open scans the PCI buses (Pci), maps  *)
(* the registers of the first NVMe controller (Kmap) and brings it up      *)
(* (Nvme); the command "pci" scans on its own.  One CPU runs               *)
(* all of it; the controller works on its own.                             *)
(***************************************************************************)
EXTENDS Nvme, Pci, Kmap

CONSTANTS
    FrameCounts,    \* how many frames the rest of the kernel may leave free
    QueueFrames,    \* frames nvme_init takes: two queue pairs and the bounce page
    MaxScans        \* bound: how often the buses are scanned

ASSUME StorageAssumption ==
    \A m \in Machines : m.phys_end \in Nat /\ m.fb.base \in Nat /\ m.fb.size \in Nat

VARIABLES
    stage,          \* what the CPU is at: "open" or "list" (scanning), "map", or "none"
    regs,           \* g_nvme.regs, and the function it belongs to
    scans

vars == <<nvmeVars, pciVars, kmapVars, stage, regs, scans>>

Init ==
    /\ NvmeInit /\ PciInit /\ KmapInit
    /\ stage = "none" /\ scans = 0
    /\ regs = [fn |-> <<>>, va |-> 0]

Boot ==
    /\ xpt_init_identity(hw.phys_end, hw.fb)
    /\ UNCHANGED <<nvmeVars, pciVars, stage, regs, scans>>

Idling == ident.cr3 /\ stage = "none" /\ drv.pc = "idle"

\* storage_open: after a failure it may be called again, with other amounts
\* of memory free.
storage_open ==
    /\ Idling /\ ~store.open
    /\ scans < MaxScans
    /\ scans' = scans + 1
    /\ frames' \in FrameCounts
    /\ pci_scan
    /\ stage' = "open"
    /\ UNCHANGED <<nvmeVars, ident, window, tables, g_mmio_next, map, regs>>

\* The command pci, before the disk is opened or after.  Bound: not after the
\* first request, which has nothing in common with a scan.
cmd_pci_main ==
    /\ Idling
    /\ scans < MaxScans /\ used.requests = 0
    /\ scans' = scans + 1
    /\ pci_scan
    /\ stage' = "list"
    /\ UNCHANGED <<nvmeVars, kmapVars, regs>>

Scanning ==
    /\ ScanStep
    /\ UNCHANGED <<nvmeVars, kmapVars, stage, regs, scans>>

\* The controller that is opened: the first one, if it has a memory BAR 0.
Found(n) == stage = "open" /\ n \in pci_find("nvme") /\ g_devs[n].bar[1] # 0 /\ g_devs[n].bar_size[1] # 0

\* STORAGE_ENODEV or BLK_E_ARG; or the command pci has its list.
ScanIsAll ==
    /\ scan.pc = "done" /\ \A n \in DOMAIN g_devs : ~Found(n)
    /\ scan' = [pc |-> "off"]
    /\ stage' = "none"
    /\ UNCHANGED <<nvmeVars, kmapVars, hw, conf, irq, g_devs, g_overflow, g_bus_seen, regs, scans>>

\* nvme_init up to the mapping: the function is enabled whether or not its
\* registers can then be mapped.
nvme_init ==
    /\ scan.pc = "done"
    /\ scan' = [pc |-> "off"]
    /\ \E n \in DOMAIN g_devs :
         LET d == g_devs[n] IN
         /\ Found(n)
         /\ pci_enable(d)
         /\ xpt_map_uncached(d.bar[1], d.bar_size[1])
         /\ regs' = [regs EXCEPT !.fn = d.fn]
    /\ stage' = "map"
    /\ UNCHANGED <<nvmeVars, hw, irq, g_devs, g_overflow, g_bus_seen,
                   ident, window, tables, g_mmio_next, frames, scans>>

Mapping ==
    /\ MapTurn
    /\ UNCHANGED <<nvmeVars, pciVars, stage, regs, scans>>

\* BLK_E_IO.
MapFailed ==
    /\ map.pc = "fail"
    /\ map' = NoMap
    /\ stage' = "none"
    /\ UNCHANGED <<nvmeVars, pciVars, ident, window, tables, g_mmio_next, frames, regs, scans>>

\* The registers are mapped: g_nvme.regs, and the controller is disabled.
Mapped ==
    /\ \E va \in 0 .. (WindowPages * Frame) : MapDone(va) /\ regs' = [regs EXCEPT !.va = va]
    /\ Disable
    /\ stage' = "none"
    /\ UNCHANGED <<q, sq, cq, dma, disk, buf, store, used, want, pciVars, scans>>

\* The frames of an attempt that fails later are not given back.
QueueAlloc ==
    /\ \/ QueuesUp /\ frames >= QueueFrames /\ frames' = frames - QueueFrames
       \/ NoFrames /\ frames < QueueFrames /\ frames' = 0
    /\ UNCHANGED <<pciVars, ident, window, tables, g_mmio_next, map, stage, regs, scans>>

Client ==
    /\ Idling
    /\ \E r \in Requests : Request(r[1], r[2], r[3], r[4])
    /\ UNCHANGED <<pciVars, kmapVars, stage, regs, scans>>

Driving ==
    /\ DriverStep
    /\ UNCHANGED <<pciVars, kmapVars, stage, regs, scans>>

\* A machine's controller may be dead.
Controller ==
    /\ ~hw.dead
    /\ ControllerStep
    /\ UNCHANGED <<pciVars, kmapVars, stage, regs, scans>>

KernelStep ==
    Scanning \/ ScanIsAll \/ nvme_init \/ Mapping \/ MapFailed \/ Mapped \/ QueueAlloc \/ Driving

Next == Boot \/ storage_open \/ cmd_pci_main \/ Client \/ KernelStep \/ Controller

Spec == Init /\ [][Next]_vars

\* The kernel runs until the call returns.  Nothing is asked of the controller.
FairSpec == Spec /\ WF_vars(KernelStep)

-----------------------------------------------------------------------------
\* While the driver runs, its registers are the controller's: the window shows
\* the whole of BAR 0 at its offset, whatever earlier attempts left in the
\* window and wherever they failed, and the function decodes its addresses
\* and may master the bus, also after other scans.
RegistersAreTheBar ==
    drv.pc # "idle" =>
        LET b == hw.fns[regs.fn].bars[1] IN
        /\ {"mem", "master"} \subseteq conf[regs.fn].cmd
        /\ \A o \in {16 * k : k \in 0 .. ((b.size \div 16) - 1)} : Reaches(regs.va + o, b.base + o)

HugePagesOf(base, size) == (base \div Huge) .. ((base + size - 1) \div Huge)

\* The identity map reaches a range through a write-back page.
Cached(r) == \E h \in HugePagesOf(r.base, r.size) : h \in DOMAIN ident.at /\ ident.at[h] = "wb"

\* The BARs of a function that firmware gave an address.
Placed(d) == {d.bars[i] : i \in {k \in MemoryBars(d) : d.bars[k].base # 0}}

\* In the range for devices, or behind RAM and the huge page in which it ends.
ClearOfRam(b) ==
    \/ XPT_MMIO_BASE <= b.base /\ b.base + b.size <= FOUR_GIB
    \/ align_up(hw.phys_end, Huge) <= b.base

\* What "first mapping wins" does achieve: the range for devices is "always
\* mapped uncached, whatever the amount of RAM", the framebuffer wherever it
\* lies in RAM, and registers behind RAM get no alias.
CacheableOnlyInRam ==
    /\ \A f \in DOMAIN hw.fns : \A b \in Placed(hw.fns[f]) : ClearOfRam(b) => ~Cached(b)
    /\ hw.fb.size # 0 => ~Cached(hw.fb)

\* xpt_init_identity's comment: "a device register or the framebuffer is never
\* reached through a cacheable alias, even when it sits inside the range of
\* installed RAM".
NoCacheableAlias ==
    /\ \A f \in DOMAIN hw.fns : \A b \in Placed(hw.fns[f]) : ~Cached(b)
    /\ hw.fb.size # 0 => ~Cached(hw.fb)

\* "Every wait is bounded: a dead controller returns BLK_E_TIMEOUT": every
\* request, every open and every scan returns, also when the controller stops
\* answering at any point with commands of earlier requests still in its
\* rings, and when bridges lead back to buses already scanned.
RequestsReturn == (drv.pc # "idle" \/ stage # "none") ~> Idling
=============================================================================
