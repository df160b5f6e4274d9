------------------------------- MODULE Xqueue -------------------------------
(***************************************************************************)
(* The XQUEUE channel (syslib/core/xqueue.c): a lockless ring shared by    *)
(* one producer (the application) and one consumer (hardware, the kernel   *)
(* or a coprocessor) that run at the same time.                            *)
(*                                                                         *)
(* A command is several machine words, copied one after the other, so that *)
(* the other side can look at a slot while it is half written.  Each read  *)
(* of an index, each word copied and each store of an index is a step; the *)
(* fences keep the index store behind the copy.                            *)
(***************************************************************************)
EXTENDS Integers, Sequences

CONSTANTS
    RingSize,       \* XQUEUE_RING_SIZE
    Words,          \* words of an XQueueCommand
    Values,         \* what a word can hold
    Commands,       \* the commands the application submits
    MaxSent         \* bound on the commands submitted in a behaviour

ASSUME XqueueAssumption ==
    /\ RingSize \in Nat /\ RingSize > 1
    /\ Words \in Nat \ {0}
    /\ Commands \subseteq [1 .. Words -> Values]
    /\ MaxSent \in Nat

Index == 0 .. (RingSize - 1)
Memory == [1 .. Words -> Values]        \* what a slot of the ring can hold

VARIABLES
    commands,       \* channel->commands
    head,           \* channel->head
    tail,           \* channel->tail
    producer,       \* xqueue_submit_command: pc, its argument, current_tail, words copied
    consumer,       \* xqueue_poll_completion: pc, *out_cmd, current_head, words copied
    sent, got       \* history: the commands accepted and the commands captured

vars == <<commands, head, tail, producer, consumer, sent, got>>

\* (i + 1) & (XQUEUE_RING_SIZE - 1), for a size that is a power of 2.
Inc(i) == (i + 1) % RingSize

InitProducer(cmd) == [pc |-> "idle", cmd |-> cmd, at |-> 0, w |-> 0]

Init ==
    /\ head = 0 /\ tail = 0
    /\ commands \in [Index -> Memory]       \* whatever the memory held
    /\ \E cmd \in Memory : /\ producer = InitProducer(cmd)
                           /\ consumer = InitProducer(cmd)
    /\ sent = <<>> /\ got = <<>>

-----------------------------------------------------------------------------
(* xqueue_submit_command                                                   *)

\* The call, with its read of tail.
SubmitCall(cmd) ==
    /\ producer.pc = "idle"
    /\ Len(sent) < MaxSent
    /\ producer' = [pc |-> "check", cmd |-> cmd, at |-> tail, w |-> 0]
    /\ UNCHANGED <<commands, head, tail, consumer, sent, got>>

\* The full check, with its read of head; a full ring returns -1.
SubmitCheck ==
    /\ producer.pc = "check"
    /\ producer' = [producer EXCEPT !.pc = IF Inc(producer.at) = head THEN "idle" ELSE "copy"]
    /\ UNCHANGED <<commands, head, tail, consumer, sent, got>>

SubmitCopy ==
    /\ producer.pc = "copy"
    /\ producer.w < Words
    /\ commands' = [commands EXCEPT ![producer.at][producer.w + 1] =
                                        producer.cmd[producer.w + 1]]
    /\ producer' = [producer EXCEPT !.w = @ + 1]
    /\ UNCHANGED <<head, tail, consumer, sent, got>>

\* Mutant: without the fence the index is stored before the last word.
PublishEarly ==
    /\ producer.pc = "copy"
    /\ producer.w \in {Words - 1, Words}
    /\ tail' = Inc(producer.at)
    /\ sent' = Append(sent, producer.cmd)
    /\ producer' = [producer EXCEPT !.pc = "idle"]
    /\ UNCHANGED <<commands, head, consumer, got>>

\* After the fence.
SubmitPublish ==
    /\ producer.pc = "copy"
    /\ producer.w = Words
    /\ tail' = Inc(producer.at)
    /\ sent' = Append(sent, producer.cmd)
    /\ producer' = [producer EXCEPT !.pc = "idle"]
    /\ UNCHANGED <<commands, head, consumer, got>>

-----------------------------------------------------------------------------
(* xqueue_poll_completion                                                  *)

\* Mutant: a ring with one command counts as empty.
PollKeepsOne ==
    /\ consumer.pc = "idle"
    /\ head # tail /\ Inc(head) # tail
    /\ consumer' = [consumer EXCEPT !.pc = "copy", !.at = head, !.w = 0]
    /\ UNCHANGED <<commands, head, tail, producer, sent, got>>

\* The empty check reads head and tail.  head is the consumer's own, so its
\* second read finds the same value.
PollCall ==
    /\ consumer.pc = "idle"
    /\ head # tail
    /\ consumer' = [consumer EXCEPT !.pc = "copy", !.at = head, !.w = 0]
    /\ UNCHANGED <<commands, head, tail, producer, sent, got>>

PollCopy ==
    /\ consumer.pc = "copy"
    /\ consumer.w < Words
    /\ consumer' = [consumer EXCEPT !.cmd[consumer.w + 1] =
                                       commands[consumer.at][consumer.w + 1],
                                    !.w = @ + 1]
    /\ UNCHANGED <<commands, head, tail, producer, sent, got>>

\* After the fence.
PollAdvance ==
    /\ consumer.pc = "copy"
    /\ consumer.w = Words
    /\ head' = Inc(consumer.at)
    /\ got' = Append(got, consumer.cmd)
    /\ consumer' = [consumer EXCEPT !.pc = "idle"]
    /\ UNCHANGED <<commands, tail, producer, sent>>

-----------------------------------------------------------------------------
ProducerStep == SubmitCheck \/ SubmitCopy \/ SubmitPublish
ConsumerStep == PollCall \/ PollCopy \/ PollAdvance

Next == (\E cmd \in Commands : SubmitCall(cmd)) \/ ProducerStep \/ ConsumerStep

Spec == Init /\ [][Next]_vars

\* Neither call waits for the other side; the consumer keeps polling.
FairSpec == Spec /\ WF_vars(ProducerStep) /\ WF_vars(ConsumerStep)

-----------------------------------------------------------------------------
Call == [pc : {"idle", "check", "copy"}, cmd : Memory, at : Index, w : 0 .. Words]

\* Indices stay inside the ring and every slot always holds some command's
\* words.
TypeOK ==
    /\ commands \in [Index -> Memory]
    /\ head \in Index /\ tail \in Index
    /\ producer \in Call /\ consumer \in Call
    /\ sent \in Seq(Memory) /\ got \in Seq(Memory)

\* The commands between head and tail, and where the k-th of them lies.
Pending == IF tail >= head THEN tail - head ELSE tail - head + RingSize
Place(k) == IF head + k < RingSize THEN head + k ELSE head + k - RingSize

\* The bounded queue, with what lies between head and tail as its content.
Channel == INSTANCE Fifo WITH
    Capacity <- RingSize - 1,
    queue <- [k \in 1 .. Pending |-> commands[Place(k - 1)]]

\* The channel is a first-in first-out queue of RingSize - 1 commands: none
\* is lost, repeated, reordered or seen half written, however the two sides
\* interleave; and the empty and the full ring are told apart.
QueueIsFifo == Channel!Spec

\* An accepted command is captured.
AcceptedIsCaptured ==
    \A n \in 1 .. MaxSent : (Len(sent) >= n) ~> (Len(got) >= n)
=============================================================================
