# XASMOS in TLA+

A verification project for XASMOS, an exokernel for amd64 (`src/README.md`).
It models the parts that decide who owns what, namely frames, tokens,
address spaces, runs, device registers, disk blocks, volumes and queue slots,
and checks or proves that ownership survives concurrency, failure, preemption
and crashes. Properties
hold unless "Findings" says otherwise.

## 1. The system

| Component (source) | State | Operations | Hard behaviour |
|---|---|---|---|
| Frame allocator (`xeret/mem/physical.c`) | bitmap, two counters, one lock | boot from the memory map, allocate frames or a huge page, free | callers on several CPUs; counters that must follow the bitmap |
| Token ledger (`xeret/mem/token_ledger.c`) | table of slots (generation, owner, rights, frames, pins), live count, search hint, one lock | allocate, release, reclaim, acquire and release a mapping | its lock is never held with the allocator's, so a call is several atomic steps; stale token values |
| Address spaces, kernel mappings (`xeret/mem/paging.c`) | page tables in memory, mapping records, the TLB, the MMIO window | create, map, unmap, revoke, destroy; identity map, register window | failure half way through a mapping; stale translations; shared kernel tables |
| Resource syscalls (`xeret/sys.c`) | quotas | alloc, map, unmap, free, reap | quota check and use are separate calls |
| ExB parser (`core/exb/exb.c`) | none | decide whether a file is an image | some thirty checks, each a boundary |
| ExB loader (`core/exb/load.c`, `xeret/load_amd64.c`) | none of its own | load an image into a space | rollback at each failing call |
| Runs (`xeret/proc.c`, `xeret/lapic.c`) | run globals, contexts, quantum, LAPIC timer | init a context, run it, yield, exit, fault, tick | a tick between any two steps; a tick left over from an earlier run |
| EXFS group map (`core/exfs/gmap.c`) | per group: slot, written, free; an LRU cache | take, release, flush, commit, import, export | eviction inside a transaction; I/O errors |
| EXFS (`core/exfs/exfs.c`, `sb.c`) | inodes, extent pool, deferred extents, generation | create, mkdir, delete, write, write_at, commit, mount, format | a crash between any two writes; copy-on-write; full tables |
| Block layer (`core/blk`) | none | range check, driver call | driver errors |
| PCI (`drivers/pci/pci.c`) | device table, buses seen | scan, find, enable | BARs that hold all ones while they are sized; bridges that loop |
| NVMe (`drivers/storage/nvme/nvme.c`, `storage.c`) | two queue pairs, bounce page | bring-up, read, write, flush | a controller that answers late, with an error or never |
| XQUEUE (`syslib/core/xqueue.c`) | ring, head, tail | submit, poll | lock-free producer and consumer |
| Bootstrap, device registry, shell, coreutils (`init/exit`, `core/dev`, `apps/xsh`) | registry, accounts, working directory, the one volume | boot, directives | what outlives a volume that is swapped or fails; nested directives |
| Console, boot loader, IDT/GDT, libc | see section 8 | | |

Interaction. The ledger calls the allocator outside its own lock.
`paging.c` pins tokens through the ledger's map gate and takes page-table
frames from the allocator directly. The syscalls and the loader use both and
are driven by `run`, which creates a space, loads, runs in slices and reaps.
What the loader loads, `exb_parse` accepted. `proc.c` switches CR3 and is interrupted by the LAPIC timer. EXFS calls the
group map, both call the block layer, and the block layer calls NVMe or the
RAM disk. `storage_open` scans PCI, has `paging.c` map the controller's
registers and brings the controller up. The shell's directives call all of
them, one at a time. There is one CPU today; allocator and ledger are written for several.

## 2. The modules

| Module | Models | Role |
|---|---|---|
| `Physical` | `physical.c` | state and operators, one step per lock section |
| `TokenLedger` | `token_ledger.c` over `Physical` | composition; CPUs interleave between the lock sections |
| `TokenLedgerProofs` | | proofs about `TokenLedger` |
| `Exb` | `exb.c` | the parser as operators, and the format it should accept |
| `AddressSpaces` | user half of `paging.c`, `sys.c`, `Exb`, `load.c`, `load_amd64.c`, `run.c`'s order of calls | composition on one CPU |
| `SpacesProofs` | | proofs about `AddressSpaces` and `Exb` |
| `Preempt` | `proc.c`, `lapic.c` | runs, contexts and timer |
| `PreemptProofs` | | proofs about `Preempt` |
| `Gmap` | `gmap.c`, `blk.c` | operators; every function that does I/O is the set of its outcomes |
| `Exfs` | `exfs.c`, `sb.c` over `Gmap` | calls as sequences of device accesses, with `Crash` |
| `ExfsProofs` | | proofs about `Exfs` |
| `ExfsAbs` | the promise of `exfs.h` | abstract transactional store; `Exfs` implements it |
| `ExtentPool` | the extent pool of `exfs.c` | the array, its bitmap and its compaction, one turn of each loop per step |
| `ExtentPoolProofs` | | proofs about `ExtentPool` |
| `Pci` | `pci.c` | the scan, one configuration write per step, against external devices |
| `Kmap` | kernel half of `paging.c` | identity map and register window |
| `Nvme` | `nvme.c`, `blk.c` | driver against a concurrent external controller |
| `Storage` | `storage.c`, and the start of `nvme_init`, over `Pci`, `Kmap`, `Nvme` | composition on one CPU, with the controller beside it |
| `StorageProofs` | | proofs about `Storage`: the scan and its table, the mapped registers, the rings, the transfers |
| `Shell` | `shell.c`, the fs coreutils, `dev.c`, `stage_volumes.c`, `path.c` | the session over EXFS seen from outside |
| `ShellProofs` | | proofs about `Shell` |
| `Xqueue` | `xqueue.c` | one step per access to shared memory |
| `Fifo` | the promise of an XQUEUE | abstract bounded queue; `Xqueue` implements it |
| `XqueueProofs` | | proofs about `Xqueue`, the refinement of `Fifo` among them |
| `MC*` | | values of the constants for TLC |

Names are the source's names where TLA+ allows. A definition whose comment
begins with "Mutant:" is a deliberately wrong variant of the definition that
follows; no specification uses it, and it serves to show that a property
would notice that bug.

### How state and actions correspond to the code

**Physical, TokenLedger.** `bits` is the set of free frames (the code sets a
bit for a free frame). A call of CPU c is the record `op[c]`: `TakeFrames` is
the lock section of `phys_alloc_frames`, `zero_frames` runs without a lock,
`seal_ram_locked` and `SealTableFull` are the ledger's lock section,
`FreeFrames` is the allocator's again; a release retires the entry
(`release_impl`) and frees in a later step. `maps` stands for the records of
`paging.c`, each holding a pin. `content` says whose bytes a frame holds and
`UserWrite` is a program writing through a mapping. `issued` is history:
which generations each slot gave out. Arithmetic on generations is modulo
`GenMod` and skips 0. Calls that return an error without changing anything
are not steps.

**AddressSpaces.** Kernel code runs with interrupts off on one CPU, so a
syscall or kernel call is one step, computed as a function from a kernel state
to the state after the call: `xas_map` walks four levels of tables in `mem`,
allocating as it goes, and undoes what it did where the code does. Frames keep
their bytes when freed, and so a forgotten clear or a freed table in use
would be visible. `tlb` caches translations; `invlpg` and CR3 loads remove
them. The ledger appears by its sequential behaviour. `xload_exb` begins with
`exb_parse` on one of `Images`, whole files some of which are malformed.

**Exb.** A file is a record of what its bytes say. `Checks` is the list of all
checks in the order of `parse_impl`, each with its error code, and
`exb_parse` returns the first that fails. `ValidImage` states the format again
from the other end, over sets of bytes and pages a file lays claim to:
`ParserExact` compares the two over `RawImages`, files at and around every
boundary, together with what the loader relies on.

**Preempt.** `xproc_run_ctx` is split where the timer can get in: `RunCall`,
`RunStop`, `RunWindow` (sti; nop; nop; cli), `RunArm`, `xproc_enter_asm`, then
the program, then `RunReturn`. `lapic` holds whether the timer counts, whether
its tick is pending and whether one is in service. Both counting and pending
ticks carry "fresh" or "stale", history telling whether this run armed them.
Registers are abstracted to a position, rax and flags; `alone` is the history
of what each program has by its own doing. A program that exited or faulted is
not run again without `xctx_init`, which is how `run.c` and the harnesses use it.

**Gmap, Exfs.** A disk block is a record told apart by its kind; superblocks
go through `sb_encode`, `sb_decode` and `fields_ok`, and a torn or foreign
block decodes to nothing. Each call that does I/O is a `job` with one step per
block written or group loaded; `Crash` may come between any two. A failing
write leaves the old block, the new one or a torn one. With `VolatileCache`,
`stable` is what a crash cannot take away. `view` is history: the trees that
memory and disk stand for, which the refinement mapping to `ExfsAbs` uses.

**ExtentPool.** The array, the bitmap and the file slices, from the zeroed and
unmounted `V` on. `pool_reserve` runs on behalf of a write or of a mount, and a
turn of a loop is a step: `slice_cap_for` doubles the capacity, `PackSlice`,
`CopyEntry` and `SlicePacked` are the loops of `pool_compact`, `MountInode` and
`MountSlice` those of the mount. `call` is the call under way with its `roff`
and `rcap`, `pack` the locals of `pool_compact`. `want` is history: the list
each file should have. After a commit a mount finds the files there are; another
device holds what some other kernel wrote, possibly more than this pool can
take. `Exfs` abstracts the pool to "a reservation succeeds exactly when the
capacities leave room"; that this is what the code does is
`RefusedOnlyWhenFull`.

**Pci.** `hw` is a machine: which functions answer, and their BARs. A register
keeps of a written value what a BAR of its size can keep. The recursion
`scan_bus`/`scan_function` is `scan.stack`, and every configuration write is a
step of its own, because it is the moments between them that matter.

**Kmap.** Addresses are in small units. `IdentityMap` composes the calls of
`map_huge` in the code's order, where the first mapping wins; `MapTurn` is one
turn of the loop of `xpt_map_uncached`, which may find no frame for a table.

**Nvme, Storage.** The driver writes an entry, rings the doorbell and polls;
`CtlExec` and `CtlPost` are the controller executing a command and posting its
completion at moments of its own. The driver's spin limit is the step
`PollTimeout`. The controller is external and constrained only by the ring
protocol. `Storage` runs the scan, the mapping, the bring-up and the requests
on one CPU; an open may fail at any of them and be tried again, with another
number of frames free, and the directive `pci` scans before an open or after it (up to
the first request, which shares no state with a scan).

**Shell.** `V` is the volume of `exfs.c` as its callers see it; `V.home` is
history, the device that `V.files` describe. `exfs_commit` is the set of its
outcomes: committed, refused before anything changed, or failed with the
volume broken and the table or even the superblock written. A device is its
two superblocks, each with the tree it stands for. A nested `sprusr` pushes
its caller's account on `saved`. Directives that are refused change nothing
and are no step.

**Xqueue.** Submit and poll in their machine-level order: read an index,
compare with the other side's, copy word by word, publish. The fences of the
code keep the publication behind the copy. Nothing in the repository calls the
ring yet; one producer and one consumer are assumed, as its comments say.

## 3. The runs

| Run | Instance | What it shows |
|---|---|---|
| `ledger` | 2 CPUs, 2 owners, 5 frames (3 usable), 2 slots, 3 generations, 2 mappings, one pin per token | `NoDoubleUse`, `NoLeak`, `CountersExact`, `NoForeignBytes`, `MappingsPinTheirToken`, `StaleTokensStayDead`, `TokensAreImmutable` through every interleaving of the lock sections |
| `exfs` | 15 blocks in 2 groups, a cache of one group, 2 inodes, a directory and a file in it; crashes anywhere, and one device error at any access but those set aside below | `MapExact`, `DurableFsck`, `SyncedIsDurable`, the refinement `TransactionalStore`, and `CallsEnd` |
| `extent_pool` | 3 files, 6 pool entries, lists of 0 to 3, one foreign device that exceeds the pool | `ListsIntact`, `SlicesExact`, `RefusedOnlyWhenFull` |
| `xqueue` | ring of 4, commands of 2 words, 5 commands | refinement `QueueIsFifo`, `AcceptedIsCaptured` |
| `storage` | 5 machines (a bridge loop with a dead controller, wide BARs, a full table, an unassigned BAR, too much RAM), 2 scans, 1, 2 or 9 frames free; rings of 2, 3 sectors, 2 per transfer, 2 requests | `ScanExact`, `ScanInvisible`, `RegistersAreTheBar`, `RingsInStep`, `TransfersExact`, `RequestsReturn` |
| `address_spaces` | 2 owners, 14 frames, tables of 2 entries, 3 images, 3 calls per program; some 5000 files for the parser | `ParserExact`, `FramesAccounted`, `TablesMatchRecords`, `NoStaleTranslation`, `QuotaHeld`, `ReapLeavesNothing`, `FailedLoadLeavesNothing` |
| `preempt` | 2 programs with loops of 2 instructions, a log of 1 | `RunIsolated`, `ContextsIntact`, `PreemptedByOwnTick`, `RunsEnd` |
| `shell` | 3 inodes, 2 nodes made or removed, 2 built-in programs, lines nested twice, a disk that is blank or holds 2 generations | `OneShotReturns`, `CwdStands`, `ServiceExact`, `NothingDropped` |
| `reformat`, `evict_fault`, `nvme_late`, `ram_bar` | as above, with one more thing that may go wrong | findings 1, 2, 4 and 5 |

### Bounds and why they are enough

- `ledger`: two CPUs give every interleaving of two calls; two slots and three
  generations make slots recycle and generations wrap past 0; the memory map
  has overlapping descriptors, the reserved low frame and the framebuffer; the
  table fills before the frames do. The proofs of section 5 lift all of it to
  any size.
- `exfs`: two groups (the second one partial) and a cache of one make
  eviction and reload happen inside a transaction. `Inl = 1` and `IndExt = 1`
  make a file of two extents need a chain block. Writes end inside a block and
  begin past the end, so partial pages and gaps occur. `MaxGen` uses both
  superblocks and both table areas, one of them twice, and `MaxOps` bounds the
  operations. The inode table, the deferred list and the pool fill.
  The device error may hit any access except in the two situations set aside
  on purpose: where the code then drops a map change, the eviction write above
  all (`ForgetFaults`, on in `evict_fault`), and the superblock reads of a
  mount (`SbReadFaults`, see the hazards).
- `extent_pool`: three slices in six entries fragment in every way that needs
  compaction. A list of three needs a capacity of four, so a slice has unused
  entries, and moves over itself when it is packed by less than its length. The
  two lists of the foreign device need eight entries, so its mount is given up
  after the first and the next format or mount starts from the leftovers. The
  proofs lift the bounds.
- `xqueue`: five commands pass the end of a ring of four, which is full at three.
- `storage`: a ring of two wraps on every second command, so the phase flips
  within a request; the three-sector request needs two transfers.
  `MaxTimeouts` is above the number of waits a behaviour contains. Registers
  have nine bits, so that BARs wider than a register occur; a BAR of four
  pages needs two page tables, and with one or two frames its mapping fails at
  the first or in the middle. Two scans let an open follow a failed one, and
  `pci` follow an open. Framebuffers lie inside and outside of RAM, BARs in the
  device window, behind RAM and, on one machine, in a hole of it.
- `address_spaces`: a table of two entries per level has every case of a
  present and an absent entry at each level; 14 frames let both owners exist
  and let the last allocation of a load or a mapping fail. The files of the
  parser vary one part at a time around each limit, and pairs and triples of
  segments in position and length.
- `preempt`: two programs interleave their contexts; the timer expires at any
  step, so ticks are left over.
- `shell`: two devices, three nodes and two changes reach a removed working
  directory, a full inode table, a volume swapped under the session, a broken
  one, and every outcome of a failing mount, format and commit; two levels of
  `sprusr` make a nested one return to a nested one. A disk with a table torn
  by a failed format is not mounted (that is finding 1).

`CHECK_DEADLOCK FALSE` is given for `Exfs`, `Storage` and `Xqueue` only: there
the bounds on operations, scans, requests or commands end a behaviour (and a
kernel without an identity map stops).

### Fairness

- `Exfs` needs none: `CallsEnd` says that every step of a call brings it
  forward in a bounded order, so a call that is run ends. Most loops of the code
  are counted; the ones that take blocks (`while (got < need)`) are not. It holds whether or
  not the machine stops.
- `Storage`: weak fairness of the kernel's steps, since one CPU runs a call to
  its end; none of the controller, which may be dead.
- `Xqueue`: weak fairness of each side's steps: neither call waits for the
  other, and the consumer is assumed to poll for ever.
- `Preempt`: weak fairness of the kernel's steps, of the timer's count and of
  taking a pending tick once interrupts are on. The program promises nothing.

## 4. Findings

The code and what its comments, headers or tests say disagree in five places.
Four have a run in `PROJECT.json`, and `MCExfs` with `ExfsVolatile.cfg` shows
finding 3. Each stops at the shortest trace TLC finds.

1. **Format over a used volume may be undone** (`reformat`).
   `exfs_format` wipes group maps and the table area, leaves the old
   superblocks in place and restarts at generation 1. An old superblock with a
   higher generation in the slot the format does not write stays the newest:
   the next mount, after a completed format as after one cut short, brings
   back the old tree over wiped maps. `exfs.h` says "Format destroys the device
   content" and never leaves a half-valid volume.
2. **A failed eviction loses map changes** (`evict_fault`). `load` in `gmap.c`
   drops the victim although it could not be written; the call reports an
   error, the volume stays usable and the next commit makes a map durable that
   disagrees with the tree. `exfs.h`: "A failed call changes nothing."
3. **No barrier before the superblock** (`ExfsVolatile.cfg`). Nothing in EXFS calls
   `blk_flush`; on a device with a write cache a superblock can be durable
   before what it points to. The code's comment at that place says "durable".
4. **A late completion answers the wrong command** (`nvme_late`). `queue_exec`
   matches completions by position and phase only. After a timeout the
   abandoned command's completion is taken for the next write's, which returns
   `BLK_OK` before the device executed it. `blk.h` says the opposite.
   `TransfersExact` in run `storage` shows the promise holds until then.
5. **Registers in a hole of RAM have a cacheable alias** (`ram_bar`).
   `xpt_init_identity` maps everything below `XPT_MMIO_BASE` up to the end of
   RAM write-back, holes included. Where RAM ends above 4 GiB and firmware put a
   controller's BAR into the hole below the device window, its registers are in
   a write-back huge page, beside the uncached pages `xpt_map_uncached` makes.
   The same holds of a BAR in the huge page in which RAM ends. The comment there
   says "never reached through a cacheable alias, even when it sits inside the
   range of installed RAM". `CacheableOnlyInRam` is what does hold.

Two more divergences are between comments and code, with no run: `paging.h`
says the uncached part of the identity map begins at 0xFEC00000, the code
begins it at 0xC0000000; and `shell.c` says a one-shot `sprusr` keeps the
working directory, which `sprusr locate x` changes.

## 5. What is proved

All proofs are checked by TLAPS, for every value of the constants that meets
the named assumptions of the modules:

- `PhysicalAssumption`, `LedgerAssumption`, `NobodyAssumption`: counts are
  naturals, there are at least two generations, the set of mapping records is
  finite, "nobody" is no owner;
- `ExbAssumption`, `SpacesAssumption`: the limits of the format are naturals and
  its unit, entries and header not empty, the loadable range lies on page
  boundaries; RAM is finite and does not hold the kernel's own table; user
  space is at least one entry of a PML4 and at most all but the first; tables
  of slots and lists of tokens are not empty; programs ask for `XSYS_USER_RIGHTS`
  at most, which `sys_alloc` checks; and, from `exb.h` and `paging.h`, images
  start at the base of user space and end below the largest stack with its
  guard page. Of the files the parser reads nothing is assumed but the types of
  their fields;
- `PreemptAssumption`: loops are not empty, programs are not called "kernel"
  or "none";
- `XqueueAssumption`: a ring of at least two slots, commands of at least one
  word;
- `ShellAssumption`: operands and built-in programs are names, what a format
  writes is a tree that fits the inode table and has `bin`, earlier disks hold
  volumes;
- `PoolAssumption`: at least one inode, a positive minimal capacity, lists and
  devices made of extents, no list at an unused inode. The pool may have any
  size, and the capacities need not divide it;
- `GmapAssumption`, `ExfsAssumption`: a device, and a group, hold the fixed blocks
  and two map slots, as `geometry` requires of a device (it asks for more); the
  cache has room for a group; the inode table divides into its blocks, and inline and
  chained extents together hold a file's longest list, as the constants of
  `exfs.h` do; what a format makes fits the inode table;
- `PciAssumption`, `NvmeAssumption`: a configuration register is wider than
  the type bits of a BAR, a header of type 0 has a BAR; a machine has finitely
  many functions, whose BARs have sizes and addresses as PCI prescribes (a
  memory BAR counts sixteens, lies at a multiple of its size, and a wide one is
  followed by its upper half); a ring has at least two entries, a transfer at
  least one sector, requests are well typed. Nothing is assumed of the number
  of buses, BARs, sectors, requests, scans or timeouts, nor of what bridges
  lead to;
- `KmapAssumption`, `StorageAssumption`: pages divide huge pages, and these the
  three limits of the address space; the end of RAM and the framebuffer are
  naturals. Nothing is assumed of where firmware puts a BAR.

**The ledger** (`TokenLedgerProofs`): `TypeCorrect`,
`CountersAlwaysExact`, `NeverDoubleUse`, `NeverLeak`, `StaleTokensAlwaysDead`,
`MappingsAlwaysPin`, `NeverForeignBytes`, `TokensNeverChange`. The argument is
a tower of inductive invariants, each proved step by step over the actions:

1. `Typed`: the types, and the exact counters. They go together because that
   a counter does not underflow when frames are taken follows from its being
   the cardinality of `bits`, and the number of live entries bounds `g_live`.
2. `Custody`: `Typed`, and the free frames, the frames of live tokens and the
   frames carried by calls in progress partition the memory. Neither
   `NoDoubleUse` nor `NoLeak` is inductive alone, as a call in the middle of
   an allocation or a release owns frames that no token names.
3. `Pinned`: `Custody`, and every mapping record agrees with its entry, whose
   pin count is the number of its records. That a release cannot retire a
   mapped token follows from counting the records.
4. `Isolated`: `Pinned`, and frames carried between clearing and sealing are
   zero, which makes "the bytes of a live token are its owner's or zero"
   inductive.
5. `History`: `Typed`, and the generations a slot gave out count down from its
   current one in the circle 1 .. GenMod-1 (`Back`). That they differ is not
   inductive: it is their position in the circle that the next one, past the
   wrap or not, has to be compared with.

**Address spaces** (`SpacesProofs`), for any memory, fan-out, number of owners,
slots, records and pages. `InvHolds` is the inductive invariant; from it follow
`FramesAccountedAlways`, `TablesMatchRecordsAlways`, `NoStaleTranslationAlways`,
and with what each action does `QuotaHeldAlways`, `ReapLeavesNothingAlways` and
`FailedLoadLeavesNothingAlways`.

1. None of the properties is inductive, because a tree of tables is only what a
   walk through memory finds. `Inv` says there is a placement: a function from
   the frames that are tables to their level, the table and entry above them
   and the root of their tree, such that every user entry leads to the table
   placed under it and every table is reached from its place (`Forest`). Then a
   table has one parent, trees of different spaces share nothing, and a write
   into one entry changes what one page shows (`Put`, `Same`). Table frames,
   free frames and the frames of live tokens part the RAM (`Parted`), so a
   frame given out or given back is never a table in use.
2. Over it, records and ledger agree: a live record stands on a live token of
   its owner, all its pages show that token's frames within its rights, records
   of a space are apart, every present page has one (`Records`), and
   `map_count` counts them (`Pins`).
3. The loops (pages of `xas_map` and its rollback, `unmap_pages`, dropping
   records, the pieces of a load and their rollback, the lists of a reap, the
   sums of `xtok_owner_usage`) are recursive functions. `Iter` shows by the
   least counterexample that a loop whose turns keep within given sets ends
   within the last; per loop there is a lemma for one turn and one for all. What
   a load holds half way (`Held`) is stated relative to the state before it, so
   that the rollback of any prefix is seen to restore it (`Undone`); what a reap
   has taken half way (`Shrunk`) likewise. That the loop of `xproc_reap` takes
   everything follows from the number of tokens that are left.
4. `Fresh`: what the TLB holds is what the tables of the running space show.
   Only `UnmapPage` takes a page away, and drops it from the TLB as well.

`ParserExactAlways` proves that the comparisons of `parse_impl`, in its order
and with its early returns, accept a file of any size exactly when it is an
image of the format, stated over the bytes and pages it claims; and that what
it accepts can be loaded. Ranges are compared by their bounds (`UnitsApart`,
`UnitsIn`), the claims of a file pair by pair (`ClaimsPairs`), and the number of
pages is a sum of apart sets (`Cover`).

**Runs** (`PreemptProofs`): `RunsTyped`, `RunsIsolated`,
`ContextsAlwaysIntact`, `OnlyOwnTickPreempts`. The inductive invariant is
`TypeOK /\ RunIsolated /\ TickOwned /\ RunReady`. `TickOwned` relates the
timer to the place in `xproc_run_ctx`: once the timer was stopped and the
window passed, nothing stale counts or is pending, so what arrives in ring 3
was armed by this run. `RunReady` says the flags that will be loaded have IF
exactly when a quantum is set. `ContextsIntact` is then inductive relative to
these.

**XQUEUE** (`XqueueProofs`): `TypeCorrect`, and `ChannelImplementsFifo`, the
refinement of `Fifo` for a ring of any size. The invariant says that each side
works at its own index, that the producer's slot is outside the ring's content
and the consumer's inside it for as long as either copies (the other side may
move meanwhile), and that the words copied so far are the command's. Publishing
a slot is then `Fifo`'s append, advancing `head` its removal, and every other
step a stutter. That the refinement steps are right rests on `Content`, the
queue as the ring has it, read from `head` for `Pending` places modulo the ring.

**The session** (`ShellProofs`): `SessionReturns` (`OneShotReturns` for lines
nested to any depth, by `Nesting`: the bottom of `saved` is the account of the
prompt, and a return never finds the stack empty), `VolumeIsExact`
(`ServiceExact`), `NoSilentLoss` (`NothingDropped`) and `CwdNeverDangles`
(`CwdStands`). The last three share `Inv`: a mounted volume is a tree on a device of
the system, broken only where the device can fail (`VolumeOK`); the superblocks
of every device stand in the slots of their parity (`DisksOK`); a commit under
way is on a volume in service, and nothing is mounted before the boot
(`SessionOK`). `ServiceExact` is not inductive without them: that a commit
writes beside the superblock in force, and that a mount adopts the one it says,
follows from the parity of the slots.

**The extent pool** (`ExtentPoolProofs`): `ListsStayIntact` (`ListsIntact`),
`SlicesStayExact` (`SlicesExact`), `NeverRefusedByGaps` (`RefusedOnlyWhenFull`),
for any number of files and any lists. None is inductive alone: in the middle of
a compaction a list lies in two places and the bitmap marks only what was
packed. `Inv` says what holds there. The slices packed so far fill the entries
before the cursor (`PackOK`), and the ones left lie behind it in the order they
are taken. Of the slice at hand, the first `k` entries are at the cursor and the
others still where they were (`CopyOK`): as the target is never behind the
source, a copy from the front overwrites only entries already copied, and never
one of a slice still to come. Between the compactions slices are apart
(`PlacesOK`), hold what they should (`ContentOK`), and are what the bitmap marks
together with the slice just reserved (`MarksOK`). At the second search the
packed slices are the entries before the cursor, so a run is free exactly when
the rest of the pool is long enough, which with the cardinality of an interval
gives the third theorem.

**EXFS** (`ExfsProofs`), for any volume, any number of inodes, groups and cached
groups, any lists and any number of device faults.

1. `CallsAlwaysEnd` (`CallsEnd`), the faults of `ForgetFaults` and
   `VolatileCache` included. `Shapes` is the inductive invariant: the running
   call and the map keep their fields, the places in a call are numbers, and the
   cache is a list of entries, through a load that hits, evicts, flushes or
   fails. Over it each action is taken apart into its outcomes (the `...Cases`
   lemmas), and every outcome is shown to end the call or to bring `Progress`
   forward. The last component is the hard one: a flush ends because the number
   of dirty entries falls (`FlushCounts`), and taking chain blocks, which makes
   entries dirty, comes at an earlier stage.
2. `VolumeTypes` (`TypeOK`), `MapAlwaysExact` (`MapExact`), `DiskAlwaysWhole`
   (`DurableFsck`) and `SyncedAlwaysDurable` (`SyncedIsDurable`), under `Tame`.
   `Tame` excludes five things the code does meet: a second format (finding 1);
   an error in the map write of an eviction, where `load` drops the change
   (finding 2), and in the map access of an undo, whose error is ignored; a device
   with a write cache (finding 3); an unreadable superblock at mount (section 7).
   There the properties are false, and the theorems say nothing. Errors of every
   other access (data, chains, table, superblock, flushes, and reads other than
   those) and a crash between any two accesses are in. It is the setting of run
   `exfs`, with sizes left open.

The four come from one invariant, `Inv`, since none is inductive alone: that the
free counts stay in their bounds needs the exact map, the exact map after a mount
needs a whole tree on disk, and what a commit writes there is the map and the
tree in memory. Its parts:

- `MapGood`: every group's newest copy is on the volume, a clean cache entry
  equals it, and the free count of a group is right, whichever groups are cached.
  Loading, evicting and flushing leave the bits that the map stands for alone
  (`SameGroups`); taking and releasing change those of one group (`Replaced`).
- `Claims`: the blocks in use are the reserved ones and those held by exactly one
  of the files, the list waiting for a commit and the running call. Each step
  moves blocks between holders (`Repartition`). The hard one is a write at an
  offset, where the list installed and the blocks it replaces must split what the
  file and the call held (`Splice`, over the loops of `walk_old` and
  `stage_push`).
- `Chains`: the chain of a clean file, and of a file that the running commit has
  passed, is on disk and decodes to its extents (`DecodeEncode`, over the loop of
  `inode_decode`).
- `Phase`: what a write has taken and staged, and what a commit has released,
  flushed and written, at each of its steps.
- `Durable`: no superblock, or one valid newest superblock whose table, chains and
  map are those of some tree (`HoldsAt`), of which the volume in memory is the
  continuation (`Linked`). A step before the superblock writes only blocks that
  this tree does not use (`Writable`, `DurableStep`): a free block taken by the
  call, the other table area, or the slot of a group's map not in force. That
  needs the blocks a transaction gives up to stay marked until the commit, which
  is what `defer` is for. The superblock write itself is `CommitPoint`: before it
  the old tree is on disk, and what the commit has written by then is the new
  one. A torn superblock decodes to nothing and leaves the old tree in force
  (`SuperFails`).

The loops of the code are recursive functions in the model. Their results are
proved by induction in the form of a least counterexample (`Least`, `Ind`, and one
`Loop...` lemma for each fold of the model, whose turns lead from one set of
states to the next), which needs no operator as a parameter.

**Storage** (`StorageProofs`), over the composition of scan, register mapping,
driver and controller:

1. `ScanLeavesNoTrace` (`ScanInvisible`). `ScanInv` relates the place inside
   `read_bars` to the machine: what the scan has saved is what firmware left;
   only the registers of the BAR being sized can differ from that, and only
   with memory decoding and interrupts off (`RegistersOK`, `SizingOK`); the
   bus stack names functions that answer (`StackOK`). Lemmas of modular
   arithmetic show that writing a saved register back restores it, for the
   lower and for the upper half of a wide BAR.
2. `RingsStayInStep` (`RingsInStep`). `Base` types driver and controller and
   relates the place in `storage_open` to which queues exist. `RingsOK` adds,
   until a command times out: head, tail, phase and the controller's positions
   agree in each ring (`RingOK`), at most one command is outstanding, and the
   entries before the controller's position carry this turn's phase, the ones
   from there on the other (`RingTurn`). The last part is what makes a
   completion ring of any size safe to reuse. A late completion breaks the
   agreement (finding 4), hence the condition.
3. `TransfersStayExact` (`TransfersExact`). `DataOK` adds what the sectors and
   the bounce page hold at each place of a transfer: parts already
   acknowledged are on the disk, parts read are what the disk holds, and a
   command whose completion says success was executed on this transfer's
   sectors. It needs `RingsOK`, since only there a completion that is seen is
   known to be that of the command that was sent.
4. `ScanStaysExact` (`ScanExact`). `TableInv` holds at every
   step of a scan. The buses seen are in every closed set of buses
   (`BusesOK`), so nothing is listed that cannot be reached; a function of a
   bus that was seen is listed, or some call of `scan_bus` on the stack still
   waits for it, or the table has overflowed (`CoverOK`). When the stack is
   empty the buses seen are therefore a closed set themselves, hence the least
   one. That no function is listed twice needs that the calls under way wait
   for different functions, none of them listed (`WaitOK`). The BARs of an
   entry are final unless its function is in hand (`BarsOK`): the scan of a
   bridge's bus comes between the bridge's entry and its own BARs, so several
   entries may be unfinished, one per call. `HalfOK` says what was read back,
   and lemmas on quotients and remainders (`LowHalf`, `HighHalf`, `Decoded32`,
   `Decoded64`) that `pci_decode_bar` makes base and size of it, for any width
   of register and any size, also one that only the upper half tells.
5. `RegistersStayTheBar` (`RegistersAreTheBar`). `RegsInv`
   follows BAR 0 from the table through `nvme_init` into the window: the pages
   mapped so far are consecutive and those of the BAR (`MapOK`), and the
   command bits of the function are set, or remembered by a scan that has them
   off (`Command`): without that case the invariant is not inductive, because a
   later `pci` command sizes the BARs of the open disk as well.
6. `CacheableStaysInRam` (`CacheableOnlyInRam`): `CachedPage` says what the
   order in which the identity map is built (device window, screen, RAM) leaves
   cacheable; the rest is arithmetic on huge pages. `NoCacheableAlias` does not
   follow: it is false (finding 5).

## 6. What is only model-checked

- Liveness (`AcceptedIsCaptured`, `RequestsReturn`, `RunsEnd`): fairness and
  ENABLED are beyond the prover.
- The refinement of `ExfsAbs` (`TransactionalStore`). `Inv` has its safety part,
  which tree is on disk at every step; what is missing is that the bytes read
  back through the tree are the ones the write put there, cell by cell, which
  needs the concatenation of the blocks of a list (`FlattenSeq`) reasoned about
  by induction over sequences of any length.
- The volume with a second format, a write cache, dropped map changes or
  unreadable superblocks: findings 1 to 3 and section 7 say what happens there.

## 7. Hazards without a property

Three hazards of `PROJECT.json` carry only a note, besides the write cache of
finding 3. At mount, an unreadable newest superblock is skipped and an older
generation adopted, whose map slots may have been rewritten since
(`SbReadFaults` lets the model do it). The reuse of loader memory at boot depends on where the firmware placed the kernel image. A failed
open keeps its queue frames, and retries drain the allocator: the model loses
them too, and no text of the repository promises them back.

Two more are covered within limits. A working directory kept over the unmount of
its volume may name nothing on the next one; operands are looked up at each use,
and `CwdStands` is about one volume in service. After a mapping of the register
window failed half way, every later open fails at the entry that is still
present: the run checks that such opens return and never leave wrong registers
behind, not that the disk can still be opened.

## 8. What is not modelled

Descriptor tables and interrupt stubs (layout; what a gate does is in
`Preempt`), console, keyboard and serial (polled I/O), the boot loader (firmware
services; what it hands over are constants), string, memory and formatting
helpers (pure, unit-tested), word splitting and messages of the shell, the byte
layouts and checksums of superblocks and images, the bytes the loader copies,
the protection bits of the CPU, and the encoding of NVMe registers. `nvme test`
overwrites a sector of the test disk on purpose; in `Storage` it is a client
like any other, and what it does to a volume on that disk is not followed.
Errors when a device's geometry is read, and a failing superblock read, are left
out of `Shell`.

## 9. Plan

Done: ledger and allocator with proofs, EXFS and its abstraction, extent pool,
ExB parser, address spaces, kernel mappings, PCI, NVMe and the storage facade,
XQUEUE, preemption with proofs, the session and the bootstrap. What is left to
model is listed in section 8 with its reasons.

Proved: the ledger's invariants and its action property, the address spaces and
the parser, the runs, the XQUEUE refinement, the session, the extent pool, EXFS
with its map and its commit, and every safety property of the storage run
(section 5).

Left to prove: the refinement of `ExfsAbs` (section 6).
