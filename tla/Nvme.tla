-------------------------------- MODULE Nvme --------------------------------
(***************************************************************************)
(* The polled NVMe driver (drivers/storage/nvme/nvme.c) and the range      *)
(* checks in front of it (core/blk/blk.c), against a controller that works *)
(* at its own pace.  Storage composes it with the module that opens it.    *)
(*                                                                         *)
(* The driver has one request at a time, one bounce page and two queue     *)
(* pairs, admin and io.  drv is the request and where it is.  The          *)
(* controller is external: it fetches a command between its head and the   *)
(* doorbell, executes it on the bounce page and the medium, and posts a    *)
(* completion in a step of its own.  Command identifiers are written by    *)
(* the driver and read by nobody, so they are left out.                    *)
(***************************************************************************)
EXTENDS Integers, Sequences, FiniteSets

CONSTANTS
    QD,             \* entries per queue
    SectorCount,    \* nsze of the namespace
    SecPerXfer,     \* sectors in a bounce page
    Data,           \* what a sector can hold, "zero" among it
    Serial,         \* what the controller reports
    Requests,       \* the <<op, lba, count, value>> the clients ask for
    TimeoutOps,     \* the waits that may run out of spins
    MaxRequests, MaxErrors, MaxTimeouts   \* bounds on a behaviour

ASSUME NvmeAssumption ==
    /\ QD \in Nat /\ QD > 1
    /\ SectorCount \in Nat \ {0} /\ SecPerXfer \in Nat \ {0}
    /\ "zero" \in Data /\ "xasmos" \notin Data
    /\ \A r \in Requests : /\ r[1] \in {"read", "write", "flush"}
                           /\ r[2] \in Nat /\ r[3] \in Nat /\ r[4] \in Data

Queues == {"admin", "io"}
Entries == 0 .. (QD - 1)
Lbas == 0 .. (SectorCount - 1)
ZeroPage == [i \in 1 .. SecPerXfer |-> "zero"]

VARIABLES
    q,          \* the driver's Queue records: tail, head, phase
    sq, cq,     \* submission and completion rings, in memory
    dma,        \* the bounce page
    ctl,        \* the controller: per queue, and CC.EN and CSTS.RDY
    disk,
    drv,        \* the driver's call
    buf,        \* the caller's buffer
    store,      \* storage.c: g_open, g_test
    used,       \* requests, errors and timeouts so far; lost: the
                \* commands given up on after the disk was opened or just before
    want        \* history: per sector, what a client may expect to read

nvmeVars == <<q, sq, cq, dma, ctl, disk, drv, buf, store, used, want>>

NoCmd == [op |-> "none", lba |-> 0, nlb |-> 0]
NoCqe == [phase |-> 0, ok |-> TRUE]             \* a zeroed frame
EmptyRing == [e \in Entries |-> NoCqe]
NewQueue == [tail |-> 0, head |-> 0, phase |-> 1]
NoQueue == [live |-> FALSE, fetch |-> 0, sqdb |-> 0, post |-> 0, cqdb |-> 0, phase |-> 1,
            busy |-> FALSE, ok |-> TRUE]
Idle == [pc |-> "idle", op |-> "none", lba |-> 0, count |-> 0, done |-> 0, rc |-> "ok"]

NvmeInit ==
    /\ q = [k \in Queues |-> NewQueue]
    /\ sq = [k \in Queues |-> [e \in Entries |-> NoCmd]]
    /\ cq = [k \in Queues |-> EmptyRing]
    /\ dma = ZeroPage
    /\ ctl = [en |-> FALSE, rdy |-> FALSE, queue |-> [k \in Queues |-> NoQueue]]
    /\ disk = [l \in Lbas |-> "zero"]
    /\ drv = Idle
    /\ buf = <<>>
    /\ store = [open |-> FALSE, test |-> FALSE]
    /\ used = [requests |-> 0, errors |-> 0, timeouts |-> 0, lost |-> 0]
    /\ want = [l \in Lbas |-> {"zero"}]

\* The waits of nvme_init, which are followed by a reset when they fail.
BringUp == {"wait_rdy", "identify", "create_cq", "create_sq"}

QueueOf(op) == IF op \in {"read", "write", "flush"} THEN "io" ELSE "admin"

\* The sectors of the transfer under way: op_read and op_write go through
\* the bounce page.
Nlb == LET left == drv.count - drv.done IN IF left < SecPerXfer THEN left ELSE SecPerXfer

\* Mutant: every transfer of a request starts at its first sector.
SameLba == drv.lba

\* lba += nlb after every transfer.
Lba == drv.lba + drv.done

-----------------------------------------------------------------------------
(* queue_exec: put the command at the tail, ring the doorbell, poll the    *)
(* completion ring at the head for an entry of the expected phase.         *)

NextEntry(e) == (e + 1) % QD

\* Mutant: the expected phase never changes.
PhaseKept(h, p) == p
NextPhase(h, p) == IF h = 0 THEN 1 - p ELSE p

Submit ==
    LET k == QueueOf(drv.op)
        t == NextEntry(q[k].tail) IN
    /\ drv.pc = "submit"
    /\ sq' = [sq EXCEPT ![k][q[k].tail] = [op |-> drv.op, lba |-> Lba, nlb |-> Nlb]]
    /\ q' = [q EXCEPT ![k].tail = t]
    /\ ctl' = [ctl EXCEPT !.queue[k].sqdb = t]
    /\ drv' = [drv EXCEPT !.pc = "wait"]
    /\ UNCHANGED <<cq, dma, disk, buf, store, used, want>>

nvme_cqe_is_new(e, phase) == e.phase = phase

\* What the callers make of nvme_cqe_status.
nvme_cqe_status(e) == IF e.ok THEN "ok" ELSE "eio"

\* The head moves on and its doorbell is rung; the status is judged next.
PollHit ==
    LET k == QueueOf(drv.op)
        e == cq[k][q[k].head]
        h == NextEntry(q[k].head) IN
    /\ drv.pc = "wait"
    /\ nvme_cqe_is_new(e, q[k].phase)
    /\ q' = [q EXCEPT ![k].head = h, ![k].phase = NextPhase(h, @)]
    /\ ctl' = [ctl EXCEPT !.queue[k].cqdb = h]
    /\ drv' = [drv EXCEPT !.pc = "status", !.rc = nvme_cqe_status(e)]
    /\ UNCHANGED <<sq, cq, dma, disk, buf, store, used, want>>

\* Mutant: wait_rdy waits for as long as it takes.
OnlyPollsBounded(op) == op # "wait_rdy" /\ op \in TimeoutOps /\ used.timeouts < MaxTimeouts

\* SPIN_LIMIT reads and no answer.
SpinLimit(op) == op \in TimeoutOps /\ used.timeouts < MaxTimeouts

PollTimeout ==
    /\ drv.pc = "wait"
    /\ SpinLimit(drv.op)
    /\ used' = [used EXCEPT !.timeouts = @ + 1,
                            !.lost = IF drv.op \in BringUp THEN @ ELSE @ + 1]
    /\ drv' = [drv EXCEPT !.pc = "status", !.rc = "timeout"]
    /\ UNCHANGED <<q, sq, cq, dma, ctl, disk, buf, store, want>>

-----------------------------------------------------------------------------
(* blk_read, blk_write and blk_flush over op_read, op_write and op_flush.  *)

\* check: a request past the end is refused before the driver sees it.
InRange(lba, count) == lba <= SectorCount /\ count > 0 /\ count <= SectorCount - lba

Request(op, lba, count, v) ==
    /\ drv.pc = "idle" /\ store.open
    /\ used.requests < MaxRequests
    /\ op # "flush" => InRange(lba, count)
    /\ used' = [used EXCEPT !.requests = @ + 1]
    /\ buf' = IF op = "write" THEN [i \in 1 .. count |-> v] ELSE <<>>
    /\ drv' = [Idle EXCEPT !.pc = IF op = "write" THEN "copy" ELSE "submit",
                           !.op = op, !.lba = lba, !.count = count]
    /\ UNCHANGED <<q, sq, cq, dma, ctl, disk, store, want>>

copy_in ==
    /\ drv.pc = "copy"
    /\ dma' = [i \in 1 .. SecPerXfer |-> IF i <= Nlb THEN buf[drv.done + i] ELSE dma[i]]
    /\ drv' = [drv EXCEPT !.pc = "submit"]
    /\ UNCHANGED <<q, sq, cq, ctl, disk, buf, store, used, want>>

\* One turn of the loop has ended: copy_out for a read, then the next
\* transfer, or the return to the caller.
NextTransfer ==
    /\ drv.pc = "status" /\ drv.op \in {"read", "write"}
    /\ drv.rc = "ok"
    /\ buf' = IF drv.op = "read" THEN buf \o SubSeq(dma, 1, Nlb) ELSE buf
    /\ drv' = [drv EXCEPT !.done = @ + Nlb,
                          !.pc = IF drv.done + Nlb = drv.count THEN "return"
                                 ELSE IF drv.op = "write" THEN "copy" ELSE "submit"]
    /\ UNCHANGED <<q, sq, cq, dma, ctl, disk, store, used, want>>

\* A flush, or an error of any request.
EndRequest ==
    /\ drv.pc = "status" /\ QueueOf(drv.op) = "io"
    /\ drv.op = "flush" \/ drv.rc # "ok"
    /\ drv' = [drv EXCEPT !.pc = "return"]
    /\ UNCHANGED <<q, sq, cq, dma, ctl, disk, buf, store, used, want>>

\* The caller has its answer.  After an error it "must not assume the data
\* reached the disk", nor that it did not.
Return ==
    LET written == {l \in Lbas : drv.op = "write" /\ drv.lba <= l /\ l < drv.lba + drv.count} IN
    /\ drv.pc = "return"
    /\ want' = [l \in Lbas |-> IF l \notin written THEN want[l]
                               ELSE {buf[l - drv.lba + 1]}
                                      \cup (IF drv.rc = "ok" THEN {} ELSE want[l])]
    /\ drv' = Idle
    /\ buf' = <<>>
    /\ UNCHANGED <<q, sq, cq, dma, ctl, disk, store, used>>

-----------------------------------------------------------------------------
(* storage_open: nvme_init and then the serial number.  A failed open may  *)
(* be retried; it starts by disabling the controller again.                *)

\* nvme_init once the registers are mapped: CC.EN is cleared first.
Disable ==
    /\ drv.pc = "idle"
    /\ ctl' = [ctl EXCEPT !.en = FALSE]
    /\ drv' = [Idle EXCEPT !.pc = "disabling", !.op = "wait_rdy"]

\* wait_rdy(0) ends: fresh zeroed frames for both queue pairs and the bounce
\* page, the admin queue's registers, and CC.EN again.
QueuesUp ==
    /\ drv.pc = "disabling" /\ ~ctl.rdy
    /\ q' = [k \in Queues |-> NewQueue]
    /\ sq' = [k \in Queues |-> [e \in Entries |-> NoCmd]]
    /\ cq' = [k \in Queues |-> EmptyRing]
    /\ dma' = ZeroPage
    /\ ctl' = [ctl EXCEPT !.en = TRUE, !.queue["admin"] = [NoQueue EXCEPT !.live = TRUE]]
    /\ drv' = [drv EXCEPT !.pc = "enabling"]
    /\ UNCHANGED <<disk, buf, store, used, want>>

\* wait_rdy(1) ends: the first admin command.
Ready ==
    /\ drv.pc = "enabling" /\ ctl.rdy
    /\ drv' = [drv EXCEPT !.pc = "submit", !.op = "identify"]
    /\ UNCHANGED <<q, sq, cq, dma, ctl, disk, buf, store, used, want>>

\* The allocator has no frame for a queue or for the bounce page.
NoFrames ==
    /\ drv.pc = "disabling" /\ ~ctl.rdy
    /\ drv' = Idle
    /\ UNCHANGED <<q, sq, cq, dma, ctl, disk, buf, store, used, want>>

\* wait_rdy runs out or an admin command fails.  Half-built queues are rebuilt by the next open.
OpenFails ==
    /\ \/ /\ drv.pc \in {"disabling", "enabling"} /\ SpinLimit(drv.op)
          /\ used' = [used EXCEPT !.timeouts = @ + 1]
       \/ /\ drv.pc = "status" /\ drv.op \in {"identify", "create_cq", "create_sq"}
          /\ drv.rc # "ok" /\ used' = used
    /\ drv' = Idle
    /\ UNCHANGED <<q, sq, cq, dma, ctl, disk, buf, store, want>>

\* identify_namespace, create_io_queues and nvme_controller_serial follow
\* each other; the last one's failure only means "not the test disk".
AdminNext ==
    LET after == [identify |-> "create_cq", create_cq |-> "create_sq", create_sq |-> "serial"] IN
    /\ drv.pc = "status" /\ drv.op \in DOMAIN after /\ drv.rc = "ok"
    /\ drv' = [drv EXCEPT !.pc = "submit", !.op = after[drv.op]]
    /\ UNCHANGED <<q, sq, cq, dma, ctl, disk, buf, store, used, want>>

Opened ==
    /\ drv.pc = "status" /\ drv.op = "serial"
    /\ store' = [open |-> TRUE, test |-> drv.rc = "ok" /\ dma[1] = "xasmos"]
    /\ drv' = Idle
    /\ UNCHANGED <<q, sq, cq, dma, ctl, disk, buf, used, want>>

-----------------------------------------------------------------------------
(* The controller (external).                                              *)

CtlReady ==
    /\ ctl.rdy # ctl.en
    /\ ctl' = [ctl EXCEPT !.rdy = ctl.en,
                  !.queue = IF ctl.en THEN @ ELSE [k \in Queues |-> NoQueue]]
    /\ UNCHANGED <<q, sq, cq, dma, disk, drv, buf, store, used, want>>

\* Executes one fetched command of queue k, the first n sectors of it when
\* it fails.
CtlExec(k, ok, n) ==
    LET c == ctl.queue[k]
        cmd == sq[k][c.fetch]
        part == cmd.lba .. (cmd.lba + (IF ok THEN cmd.nlb ELSE n) - 1)
        served == [c EXCEPT !.busy = TRUE, !.ok = ok, !.fetch = (c.fetch + 1) % QD] IN
    /\ ctl.rdy /\ c.live /\ ~c.busy /\ c.fetch # c.sqdb
    /\ ok => n = 0
    /\ ~ok => n <= cmd.nlb /\ used.errors < MaxErrors
    /\ used' = IF ok THEN used ELSE [used EXCEPT !.errors = @ + 1]
    /\ disk' = [l \in Lbas |-> IF cmd.op = "write" /\ l \in part THEN dma[l - cmd.lba + 1]
                               ELSE disk[l]]
    /\ dma' = CASE cmd.op = "read" -> [i \in 1 .. SecPerXfer |->
                                         IF cmd.lba + i - 1 \in part
                                         THEN disk[cmd.lba + i - 1] ELSE dma[i]]
                [] cmd.op = "identify" /\ ok -> [i \in 1 .. SecPerXfer |-> "namespace"]
                [] cmd.op = "serial" /\ ok -> [i \in 1 .. SecPerXfer |-> Serial]
                [] OTHER -> dma
    /\ ctl' = [ctl EXCEPT !.queue = [j \in Queues |->
                  IF j = k THEN served
                  ELSE [ctl.queue[j] EXCEPT !.live = @ \/ (cmd.op = "create_sq" /\ ok)]]]
    /\ UNCHANGED <<q, sq, cq, drv, buf, store, want>>

\* Posts the completion, unless the completion ring is full.
CtlPost(k) ==
    LET c == ctl.queue[k]
        p == (c.post + 1) % QD IN
    /\ ctl.rdy /\ c.busy /\ p # c.cqdb
    /\ cq' = [cq EXCEPT ![k][c.post] = [phase |-> c.phase, ok |-> c.ok]]
    /\ ctl' = [ctl EXCEPT !.queue[k] = [c EXCEPT !.busy = FALSE, !.post = p,
                                                !.phase = IF p = 0 THEN 1 - @ ELSE @]]
    /\ UNCHANGED <<q, sq, dma, disk, drv, buf, store, used, want>>

-----------------------------------------------------------------------------
DriverStep ==
    \/ Submit \/ PollHit \/ PollTimeout \/ copy_in \/ NextTransfer \/ EndRequest \/ Return
    \/ Ready \/ OpenFails \/ AdminNext \/ Opened

ControllerStep ==
    \/ CtlReady
    \/ \E k \in Queues : \/ \E ok \in BOOLEAN, n \in 0 .. SecPerXfer : CtlExec(k, ok, n)
                         \/ CtlPost(k)

-----------------------------------------------------------------------------
\* "A write returns BLK_OK only after the device has acknowledged it"
\* (blk.h): the sectors of a write that returns BLK_OK hold its data, and no
\* other sector has changed.
AcknowledgedWritesAreOnDisk ==
    (drv.pc = "return" /\ drv.op = "write" /\ drv.rc = "ok") =>
        \A l \in Lbas : IF drv.lba <= l /\ l < drv.lba + drv.count
                        THEN disk[l] = buf[l - drv.lba + 1]
                        ELSE disk[l] \in want[l]

\* A read that returns BLK_OK gives, sector for sector and over all its
\* transfers, what was last written.
ReadsReturnTheDisk ==
    (drv.pc = "return" /\ drv.op = "read" /\ drv.rc = "ok") =>
        /\ Len(buf) = drv.count
        /\ \A i \in 1 .. drv.count : buf[i] \in want[drv.lba + i - 1]

\* As long as no command was given up on while the disk was open, BLK_OK means
\* that the sectors of a write hold its data and no other sector has changed,
\* and that a read has what was last written, over all the transfers of a
\* request (op_read, op_write).  Errors the controller reports, and timeouts
\* that made an earlier open fail, do no harm.
TransfersExact == used.lost = 0 => AcknowledgedWritesAreOnDisk /\ ReadsReturnTheDisk

\* The completion the driver takes is that of the command it sent: once the
\* disk is open, whenever no command is in flight both sides are at the same
\* entry of both rings with the same idea of the phase, through every wrap
\* and after failed attempts to open.
RingsInStep ==
    \A k \in Queues :
        (store.open /\ used.lost = 0 /\ drv.pc # "wait") =>
            /\ ctl.queue[k].live /\ ~ctl.queue[k].busy
            /\ ctl.queue[k].fetch = q[k].tail
            /\ ctl.queue[k].post = q[k].head /\ ctl.queue[k].phase = q[k].phase
            /\ ~nvme_cqe_is_new(cq[k][q[k].head], q[k].phase)
=============================================================================
