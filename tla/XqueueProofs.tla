---------------------------- MODULE XqueueProofs ----------------------------
(***************************************************************************)
(* For a ring of any size, commands of any number of words and any number  *)
(* of commands submitted: the XQUEUE channel is a bounded first-in         *)
(* first-out queue.                                                        *)
(***************************************************************************)
EXTENDS Xqueue, SequenceTheorems, TLAPS

-----------------------------------------------------------------------------
(* The index arithmetic.                                                   *)

\* The next index, without the mask: the ring wraps after its last slot.
LEMMA IncValue ==
  ASSUME NEW i \in Index
  PROVE  Inc(i) = IF i = RingSize - 1 THEN 0 ELSE i + 1
<1> USE XqueueAssumption DEF Index, Inc
<1>1. CASE i = RingSize - 1
  BY <1>1
<1>2. CASE i # RingSize - 1
  BY <1>2
<1> QED BY <1>1, <1>2

\* Indices stay in the ring, and two indices do not meet by one step each.
LEMMA IncIndex ==
  /\ \A i \in Index : Inc(i) \in Index /\ Inc(i) # i
  /\ \A i, j \in Index : Inc(i) = Inc(j) => i = j
  BY IncValue, XqueueAssumption DEF Index

-----------------------------------------------------------------------------
(* The inductive invariant.                                                *)

\* The producer works on the slot at tail, which stays outside the ring's
\* content; what it has copied so far is its command's.
ProducerInv ==
    /\ producer.pc # "idle" => producer.at = tail /\ producer.cmd \in Commands
    /\ producer.pc = "check" => producer.w = 0
    /\ producer.pc = "copy" =>
         /\ Inc(tail) # head
         /\ \A i \in 1 .. producer.w : commands[tail][i] = producer.cmd[i]

\* The consumer works on the slot at head, which stays in the ring's content;
\* what it has copied so far is the slot's.
ConsumerInv ==
    /\ consumer.pc # "check"
    /\ consumer.pc = "copy" =>
         /\ consumer.at = head
         /\ head # tail
         /\ \A i \in 1 .. consumer.w : consumer.cmd[i] = commands[head][i]

\* The inductive invariant.
Inv == TypeOK /\ ProducerInv /\ ConsumerInv

\* The initial states satisfy the invariant.
LEMMA InitInv == Init => Inv
  BY XqueueAssumption
  DEF Init, Inv, TypeOK, ProducerInv, ConsumerInv, InitProducer, Call, Index, Memory

\* The call and the full check of the producer.
LEMMA SubmitBeginsInv ==
  ASSUME Inv, NEW cmd \in Commands, SubmitCall(cmd) \/ SubmitCheck
  PROVE  Inv'
<1> USE XqueueAssumption DEF Inv, TypeOK, ProducerInv, ConsumerInv, Call
<1>1. CASE SubmitCall(cmd)
  BY <1>1 DEF SubmitCall, Memory
<1>2. CASE SubmitCheck
  <2>1. /\ producer' \in Call /\ producer'.at = producer.at /\ producer'.cmd = producer.cmd
        /\ producer'.w = producer.w
        /\ producer'.pc = IF Inc(producer.at) = head THEN "idle" ELSE "copy"
    BY <1>2 DEF SubmitCheck
  <2>2. TypeOK' /\ ConsumerInv' BY <1>2, <2>1 DEF SubmitCheck
  <2>3. ProducerInv' BY <1>2, <2>1 DEF SubmitCheck
  <2> QED BY <2>2, <2>3
<1> QED BY <1>1, <1>2

\* A word copied into the ring.
LEMMA SubmitCopyInv ==
  ASSUME Inv, SubmitCopy
  PROVE  Inv'
<1> USE DEF Inv, SubmitCopy
<1> DEFINE t == producer.at
           n == producer.w + 1
<1>1. t = tail /\ t \in Index /\ n \in 1 .. Words /\ producer.cmd \in Memory /\ producer.w \in Nat
  BY XqueueAssumption DEF TypeOK, ProducerInv, Call
<1>2. commands' = [commands EXCEPT ![t] = [commands[t] EXCEPT ![n] = producer.cmd[n]]]
  OBVIOUS
<1>3. commands[t] \in Memory /\ producer.cmd[n] \in Values BY <1>1 DEF TypeOK, Memory
<1>4. commands' \in [Index -> Memory] BY <1>1, <1>2, <1>3 DEF TypeOK, Memory
<1>5. commands'[t] = [commands[t] EXCEPT ![n] = producer.cmd[n]]
  BY <1>1, <1>2 DEF TypeOK
<1>6. \A j \in Index : j # t => commands'[j] = commands[j]
  BY <1>2 DEF TypeOK
<1>7. producer' \in Call /\ producer'.w = n /\ producer'.pc = "copy" /\ producer'.at = t
      /\ producer'.cmd = producer.cmd
  BY <1>1 DEF TypeOK, Call
<1>8. TypeOK' BY <1>4, <1>7 DEF TypeOK
<1>9. ProducerInv'
  <2>1. \A i \in 1 .. n : commands'[t][i] = producer.cmd[i]
    <3> TAKE i \in 1 .. n
    <3>1. i \in 1 .. Words /\ (i = n \/ i \in 1 .. producer.w)
      BY <1>1, XqueueAssumption
    <3>2. commands'[t][i] = IF i = n THEN producer.cmd[n] ELSE commands[t][i]
      BY <1>3, <1>5, <3>1 DEF Memory
    <3> QED BY <1>1, <3>1, <3>2 DEF ProducerInv
  <2> QED BY <1>1, <1>7, <2>1 DEF ProducerInv
<1>10. ConsumerInv'
  BY <1>1, <1>6 DEF ConsumerInv, TypeOK
<1> QED BY <1>8, <1>9, <1>10

\* The store of tail.
LEMMA SubmitPublishInv ==
  ASSUME Inv, SubmitPublish
  PROVE  Inv'
<1> USE DEF Inv, SubmitPublish
<1>1. producer.at = tail /\ tail \in Index /\ head \in Index /\ Inc(tail) # head
  BY DEF TypeOK, ProducerInv
<1>a. producer' \in Call BY DEF TypeOK, Call
<1>b. sent' \in Seq(Memory) BY DEF TypeOK, Call
<1>2. TypeOK'
  BY <1>1, <1>a, <1>b, IncIndex DEF TypeOK
<1>3. ProducerInv'
  BY DEF TypeOK, ProducerInv, Call
<1>4. ConsumerInv'
  BY <1>1 DEF ConsumerInv
<1> QED BY <1>2, <1>3, <1>4

\* The empty check of the consumer.
LEMMA PollCallInv ==
  ASSUME Inv, PollCall
  PROVE  Inv'
<1> USE DEF Inv, PollCall
<1>1. /\ consumer' \in Call /\ consumer'.at = head /\ consumer'.w = 0 /\ consumer'.pc = "copy"
  <2>1. consumer' = [pc |-> "copy", cmd |-> consumer.cmd, at |-> head, w |-> 0]
    BY DEF TypeOK, Call
  <2>2. 0 \in 0 .. Words BY XqueueAssumption
  <2> QED BY <2>1, <2>2 DEF TypeOK, Call
<1>2. TypeOK' BY <1>1 DEF TypeOK
<1>3. ProducerInv' BY DEF ProducerInv
<1>4. ConsumerInv' BY <1>1 DEF ConsumerInv
<1> QED BY <1>2, <1>3, <1>4

\* A word copied out of the ring.
LEMMA PollCopyInv ==
  ASSUME Inv, PollCopy
  PROVE  Inv'
<1> USE DEF Inv, PollCopy
<1> DEFINE n == consumer.w + 1
<1>1. consumer.at = head /\ head \in Index /\ n \in 1 .. Words /\ consumer.w \in Nat
  BY XqueueAssumption DEF TypeOK, ConsumerInv, Call
<1>2. consumer.cmd \in Memory /\ commands[head] \in Memory BY <1>1 DEF TypeOK, Call
<1>3. commands[head][n] \in Values BY <1>1, <1>2 DEF Memory
<1>4. [consumer.cmd EXCEPT ![n] = commands[head][n]] \in Memory BY <1>2, <1>3 DEF Memory
<1>a. consumer' = [consumer EXCEPT !.cmd = [consumer.cmd EXCEPT ![n] = commands[head][n]], !.w = n]
  BY <1>1
<1>5. /\ consumer' \in Call
      /\ consumer'.cmd = [consumer.cmd EXCEPT ![n] = commands[head][n]]
      /\ consumer'.w = n /\ consumer'.pc = "copy" /\ consumer'.at = head
  <2>1. consumer' = [pc |-> "copy", cmd |-> [consumer.cmd EXCEPT ![n] = commands[head][n]],
                     at |-> head, w |-> n]
    BY <1>1, <1>a DEF TypeOK, Call
  <2>2. n \in 0 .. Words BY <1>1, XqueueAssumption
  <2> QED BY <1>1, <1>4, <2>1, <2>2 DEF TypeOK, Call
<1>6. TypeOK' BY <1>5 DEF TypeOK
<1>7. ConsumerInv'
  <2>1. \A i \in 1 .. n : consumer'.cmd[i] = commands[head][i]
    <3> TAKE i \in 1 .. n
    <3>1. i \in 1 .. Words /\ (i = n \/ i \in 1 .. consumer.w)
      BY <1>1, XqueueAssumption
    <3>a. consumer'.cmd = [consumer.cmd EXCEPT ![n] = commands[head][n]] BY <1>5
    <3>2. consumer'.cmd[i] = IF i = n THEN commands[head][n] ELSE consumer.cmd[i]
      BY <1>2, <3>a, <3>1 DEF Memory
    <3> QED BY <1>1, <3>1, <3>2 DEF ConsumerInv
  <2> QED BY <1>1, <1>5, <2>1 DEF ConsumerInv
<1>8. ProducerInv' BY DEF ProducerInv
<1> QED BY <1>6, <1>7, <1>8

\* The store of head: the ring was not full for the producer, and has one
\* command less.
LEMMA PollAdvanceInv ==
  ASSUME Inv, PollAdvance
  PROVE  Inv'
<1> USE DEF Inv, PollAdvance
<1>1. consumer.at = head /\ tail \in Index /\ head \in Index /\ head # tail
  BY DEF TypeOK, ConsumerInv
<1>2. TypeOK'
  BY <1>1, IncIndex DEF TypeOK, Call
<1>3. Inc(tail) # Inc(head) BY <1>1, IncIndex
<1>4. ProducerInv'
  BY <1>1, <1>3 DEF ProducerInv
<1>5. ConsumerInv'
  BY DEF TypeOK, ConsumerInv, Call
<1> QED BY <1>2, <1>4, <1>5

\* Every step keeps the invariant.
LEMMA NextInv == Inv /\ [Next]_vars => Inv'
<1> SUFFICES ASSUME Inv, [Next]_vars PROVE Inv' OBVIOUS
<1>1. CASE UNCHANGED vars
  BY <1>1 DEF vars, Inv, TypeOK, ProducerInv, ConsumerInv
<1>2. CASE \E cmd \in Commands : SubmitCall(cmd)
  BY <1>2, SubmitBeginsInv
<1>3. CASE SubmitCheck
  <2>1. producer.cmd \in Commands BY <1>3 DEF SubmitCheck, Inv, ProducerInv
  <2> QED BY <1>3, <2>1, SubmitBeginsInv
<1> QED
  BY <1>1, <1>2, <1>3, SubmitCopyInv, SubmitPublishInv, PollCallInv, PollCopyInv, PollAdvanceInv
  DEF Next, ProducerStep, ConsumerStep

\* The invariant holds throughout.
LEMMA AlwaysInv == Spec => []Inv
  BY InitInv, NextInv, PTL DEF Spec

\* For a ring of any size, the indices stay in the ring and every slot holds
\* a command's words.
THEOREM TypeCorrect == Spec => []TypeOK
  BY AlwaysInv, PTL DEF Inv

-----------------------------------------------------------------------------
(* The refinement.                                                         *)

\* What the channel holds, as the refinement mapping has it.
Content == [k \in 1 .. Pending |-> commands[Place(k - 1)]]

\* Two commands with the same words are the same.
LEMMA SameWords ==
  ASSUME NEW a \in Memory, NEW b \in Memory, \A i \in 1 .. Words : a[i] = b[i]
  PROVE  a = b
<1>1. a = [i \in 1 .. Words |-> a[i]] BY DEF Memory
<1>2. b = [i \in 1 .. Words |-> b[i]] BY DEF Memory
<1>3. [i \in 1 .. Words |-> a[i]] = [i \in 1 .. Words |-> b[i]] OBVIOUS
<1> QED BY <1>1, <1>2, <1>3

\* The rest of a sequence, as a function.
LEMMA TailValue ==
  ASSUME NEW s \in Seq(Memory), NEW n \in Nat, Len(s) = n, n > 0
  PROVE  Tail(s) = [k \in 1 .. (n - 1) |-> s[k + 1]]
<1> DEFINE t == [k \in 1 .. (n - 1) |-> s[k + 1]]
<1>1. t \in Seq(Memory) /\ Len(t) = n - 1 OBVIOUS
<1>2. /\ Tail(s) \in Seq(Memory) /\ Len(Tail(s)) = n - 1
      /\ \A k \in 1 .. (n - 1) : Tail(s)[k] = s[k + 1]
  OBVIOUS
<1> QED BY <1>1, <1>2, SeqEqual

\* The content is a sequence of Pending commands, which lie in the ring and
\* outside the slot at tail.
LEMMA ContentSeq ==
  ASSUME TypeOK
  PROVE  /\ Pending \in Nat /\ Pending < RingSize
         /\ Content \in Seq(Memory) /\ Len(Content) = Pending
         /\ \A k \in 0 .. Pending : Place(k) \in Index
         /\ \A k \in 0 .. (Pending - 1) : Place(k) # tail
         /\ Place(Pending) = tail
<1>1. head \in Index /\ tail \in Index BY DEF TypeOK
<1>2. Pending \in Nat /\ Pending < RingSize
  BY <1>1, XqueueAssumption DEF Pending, Index
<1>3. \A k \in 0 .. Pending : Place(k) \in Index
  BY <1>1, <1>2, XqueueAssumption DEF Pending, Place, Index
<1>4. \A k \in 0 .. (Pending - 1) : Place(k) # tail
  BY <1>1, <1>2, XqueueAssumption DEF Pending, Place, Index
<1>5. Place(Pending) = tail
  BY <1>1, <1>2, XqueueAssumption DEF Pending, Place, Index
<1>6. \A k \in 1 .. Pending : commands[Place(k - 1)] \in Memory
  <2> TAKE k \in 1 .. Pending
  <2>1. k - 1 \in 0 .. Pending BY <1>2
  <2> QED BY <2>1, <1>3 DEF TypeOK
<1>7. Content \in [1 .. Pending -> Memory] BY <1>6 DEF Content
<1>8. Content \in Seq(Memory) /\ Len(Content) = Pending BY <1>2, <1>7
<1> QED BY <1>2, <1>3, <1>4, <1>5, <1>8

\* A word copied at tail does not touch the content.
LEMMA CopyKeepsContent ==
  ASSUME Inv, SubmitCopy
  PROVE  Content' = Content
<1>1. producer.at = tail BY DEF Inv, ProducerInv, SubmitCopy
<1>2. \A j \in Index : j # tail => commands'[j] = commands[j]
  BY <1>1 DEF SubmitCopy, Inv, TypeOK
<1>3. Pending' = Pending /\ \A k : Place(k)' = Place(k) BY DEF SubmitCopy, Pending, Place
<1>4. \A k \in 1 .. Pending : commands'[Place(k - 1)] = commands[Place(k - 1)]
  <2> TAKE k \in 1 .. Pending
  <2>1. k - 1 \in 0 .. (Pending - 1) /\ k - 1 \in 0 .. Pending BY ContentSeq DEF Inv
  <2>2. Place(k - 1) \in Index /\ Place(k - 1) # tail BY <2>1, ContentSeq DEF Inv
  <2> QED BY <1>2, <2>2
<1> QED BY <1>3, <1>4 DEF Content

\* The store of tail appends the producer's command.
LEMMA PublishAppends ==
  ASSUME Inv, SubmitPublish
  PROVE  /\ Len(Content) < RingSize - 1
         /\ Content' = Append(Content, producer.cmd)
<1> USE DEF Inv
<1>1. /\ producer.at = tail /\ producer.cmd \in Commands /\ Inc(tail) # head
      /\ \A i \in 1 .. Words : commands[tail][i] = producer.cmd[i]
  BY DEF SubmitPublish, ProducerInv
<1>2. head \in Index /\ tail \in Index BY DEF TypeOK
<1>3. Pending + 1 < RingSize /\ Pending' = Pending + 1
  <2>1. tail' = Inc(tail) /\ head' = head BY <1>1 DEF SubmitPublish
  <2>2. Inc(tail) = IF tail = RingSize - 1 THEN 0 ELSE tail + 1 BY <1>2, IncValue
  <2> QED BY <1>1, <1>2, <2>1, <2>2, XqueueAssumption DEF Pending, Index
<1>4. \A k : Place(k)' = Place(k) BY DEF SubmitPublish, Place
<1>5. commands[tail] = producer.cmd
  <2>1. commands[tail] \in Memory /\ producer.cmd \in Memory BY <1>2 DEF TypeOK, Call
  <2> QED BY <1>1, <2>1, SameWords
<1>6. Content' = [k \in 1 .. (Pending + 1) |-> commands[Place(k - 1)]]
  BY <1>3, <1>4 DEF Content, SubmitPublish
<1>7. /\ Content \in Seq(Memory) /\ Len(Content) = Pending /\ Pending \in Nat
      /\ Place(Pending) = tail
  BY ContentSeq
<1>8. Append(Content, producer.cmd)
        = [k \in 1 .. (Pending + 1) |-> IF k = Pending + 1 THEN producer.cmd ELSE Content[k]]
  BY <1>7
<1>9. \A k \in 1 .. (Pending + 1) :
        commands[Place(k - 1)] = IF k = Pending + 1 THEN producer.cmd ELSE Content[k]
  <2> TAKE k \in 1 .. (Pending + 1)
  <2>1. CASE k = Pending + 1
    <3>1. k - 1 = Pending BY <2>1, <1>7
    <3> QED BY <2>1, <3>1, <1>5, <1>7
  <2>2. CASE k # Pending + 1
    <3>1. k \in 1 .. Pending BY <2>2, <1>7
    <3> QED BY <2>2, <3>1 DEF Content
  <2> QED BY <2>1, <2>2
<1> QED BY <1>3, <1>6, <1>7, <1>8, <1>9, XqueueAssumption

\* The store of head takes the first command, the one the consumer holds.
LEMMA AdvanceTakes ==
  ASSUME Inv, PollAdvance
  PROVE  /\ Content # <<>>
         /\ Content' = Tail(Content)
         /\ consumer.cmd = Head(Content)
<1> USE DEF Inv
<1>1. /\ consumer.at = head /\ head # tail
      /\ \A i \in 1 .. Words : consumer.cmd[i] = commands[head][i]
  BY DEF PollAdvance, ConsumerInv
<1>2. head \in Index /\ tail \in Index BY DEF TypeOK
<1>3. consumer.cmd = commands[head]
  <2>1. commands[head] \in Memory /\ consumer.cmd \in Memory BY <1>2 DEF TypeOK, Call
  <2> QED BY <1>1, <2>1, SameWords
<1>4. Pending > 0 /\ Pending' = Pending - 1
  BY <1>1, <1>2, IncValue, XqueueAssumption DEF PollAdvance, Pending, Index
<1>5. head' = Inc(head) BY <1>1 DEF PollAdvance
<1>6. \A k \in 0 .. (Pending - 2) : Place(k)' = Place(k + 1)
  <2> TAKE k \in 0 .. (Pending - 2)
  <2>1. Inc(head) = IF head = RingSize - 1 THEN 0 ELSE head + 1 BY <1>2, IncValue
  <2>2. k \in Nat /\ k + 1 < RingSize BY ContentSeq, XqueueAssumption
  <2>3. Place(k)' = IF Inc(head) + k < RingSize THEN Inc(head) + k ELSE Inc(head) + k - RingSize
    BY <1>5 DEF Place
  <2> QED BY <1>2, <2>1, <2>2, <2>3, XqueueAssumption DEF Place, Index
<1>7. Content \in Seq(Memory) /\ Len(Content) = Pending /\ Pending \in Nat
  BY ContentSeq
<1>8. Place(0) = head BY <1>2, XqueueAssumption DEF Place, Index
<1>9. Head(Content) = commands[head]
  BY <1>4, <1>7, <1>8 DEF Content
<1>10. Tail(Content) = [k \in 1 .. (Pending - 1) |-> Content[k + 1]]
  BY <1>4, <1>7, TailValue
<1>11. \A k \in 1 .. (Pending - 1) : commands[Place(k - 1)'] = Content[k + 1]
  <2> TAKE k \in 1 .. (Pending - 1)
  <2>1. k - 1 \in 0 .. (Pending - 2) /\ k + 1 \in 1 .. Pending /\ (k - 1) + 1 = (k + 1) - 1
    BY <1>7
  <2>2. Place(k - 1)' = Place((k + 1) - 1) BY <2>1, <1>6
  <2> QED BY <2>1, <2>2 DEF Content
<1>12. Content' = [k \in 1 .. (Pending - 1) |-> commands[Place(k - 1)']]
  BY <1>4 DEF Content, PollAdvance
<1> QED BY <1>3, <1>4, <1>7, <1>9, <1>10, <1>11, <1>12

\* A step of the ring is a step of the queue, or leaves it alone.
LEMMA StepSimulates ==
  ASSUME Inv, [Next]_vars
  PROVE  [Channel!Next]_(Channel!vars)
<1> USE DEF Channel!Next, Channel!vars, Channel!Submit, Channel!Take
<1>1. CASE SubmitCopy
  BY <1>1, CopyKeepsContent DEF Content, SubmitCopy
<1>2. CASE SubmitPublish
  <2>1. producer.cmd \in Commands BY <1>2 DEF Inv, ProducerInv, SubmitPublish
  <2>2. Channel!Submit(producer.cmd)
    BY <1>2, PublishAppends DEF Content, SubmitPublish
  <2> QED BY <2>1, <2>2
<1>3. CASE PollAdvance
  BY <1>3, AdvanceTakes DEF Content, PollAdvance
<1>4. CASE UNCHANGED <<commands, head, tail, sent, got>>
  BY <1>4 DEF Pending, Place
<1> QED
  BY <1>1, <1>2, <1>3, <1>4
  DEF Next, vars, ProducerStep, ConsumerStep, SubmitCall, SubmitCheck, PollCall, PollCopy

\* For a ring of any size, commands of any number of words and any number of
\* them: the channel is a first-in first-out queue of RingSize - 1 commands,
\* however the two sides interleave.
THEOREM ChannelImplementsFifo == Spec => QueueIsFifo
<1>1. Init => Channel!Init
  BY DEF Init, Channel!Init, Pending
<1> QED
  BY <1>1, AlwaysInv, StepSimulates, PTL DEF Spec, QueueIsFifo, Channel!Spec
=============================================================================
