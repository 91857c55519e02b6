------------------------- MODULE BoundedQueueProofs -------------------------
(***************************************************************************)
(* Proofs about BoundedQueue, for any number of producers, consumers and   *)
(* closers and any positive capacity: type correctness, FIFO delivery      *)
(* without loss, nullopt only at the end, and no lost wakeup.              *)
(***************************************************************************)
EXTENDS BoundedQueue, FiniteSetTheorems, SequenceTheorems, TLAPS

USE ZenonT(30)

(* What the operations on the queue value return, for a queue within its   *)
(* capacity: the only facts about QueueOps the invariants need.            *)
LEMMA PushFacts ==
  ASSUME NEW q \in QueueOf(Values, {Capacity}), NEW v \in Values,
         PushReturns(q), ~q.shutdown
  PROVE  /\ Push(q, v) \in QueueOf(Values, {Capacity})
         /\ Push(q, v).items = Append(q.items, v)
         /\ Push(q, v).shutdown = FALSE
         /\ Len(Push(q, v).items) = Len(q.items) + 1
         /\ Len(q.items) < Capacity
<1>1. q.items \in Seq(Values) /\ q.capacity = Capacity /\ q.shutdown \in BOOLEAN
  BY DEF QueueOf
<1>2. Push(q, v) = [q EXCEPT !.items = Append(q.items, v)]
  BY DEF Push
<1>3. Append(q.items, v) \in Seq(Values) /\ Len(Append(q.items, v)) = Len(q.items) + 1
  BY SMTT(60), <1>1, AppendProperties
<1>. QED  BY <1>1, <1>2, <1>3 DEF QueueOf, PushReturns

(* pop() of a queue with items removes the oldest one and nothing else.    *)
LEMMA PopFacts ==
  ASSUME NEW q \in QueueOf(Values, {Capacity}), q.items # <<>>
  PROVE  /\ Pop(q) \in QueueOf(Values, {Capacity})
         /\ Pop(q).items = Tail(q.items)
         /\ Pop(q).shutdown = q.shutdown
         /\ Len(Pop(q).items) = Len(q.items) - 1
         /\ Oldest(q) \in Values
<1>1. q.items \in Seq(Values)
  BY DEF QueueOf
<1>2. Pop(q) = [q EXCEPT !.items = Tail(q.items)]
  BY DEF Pop
<1>3. /\ Tail(q.items) \in Seq(Values) /\ Head(q.items) \in Values
      /\ Len(Tail(q.items)) = Len(q.items) - 1
  BY <1>1, HeadTailProperties
<1>. QED  BY <1>1, <1>2, <1>3 DEF QueueOf, Oldest

(* shutdown() sets the flag and leaves the items alone.                    *)
LEMMA ShutdownFacts ==
  ASSUME NEW q \in QueueOf(Values, {Capacity})
  PROVE  /\ Shutdown(q) \in QueueOf(Values, {Capacity})
         /\ Shutdown(q).items = q.items
         /\ Shutdown(q).shutdown = TRUE
BY DEF QueueOf, Shutdown

----------------------------------------------------------------------------
(* Type correctness *)

(* A queue just constructed, with no thread inside a call, is well typed.  *)
LEMMA TypeInit == Init => TypeOK
<1>. SUFFICES ASSUME Init PROVE TypeOK
  OBVIOUS
<1>1. queue \in QueueOf(Values, {Capacity}) /\ Len(queue.items) = 0
  BY EmptySeq DEF Init, NewQueue, QueueOf
<1>2. <<>> \in Seq(Values)
  BY EmptySeq
<1>. QED
  BY SMTT(60), <1>1, <1>2, QueueAssumption
  DEF Init, TypeOK, ProducerPc, ConsumerPc, CloserPc, Threads

(* Every step of push(), pop() and shutdown() keeps the types.             *)
LEMMA TypeStep == TypeOK /\ [Next]_vars => TypeOK'
<1>. SUFFICES ASSUME TypeOK, [Next]_vars PROVE TypeOK'
  OBVIOUS
<1>. USE QueueAssumption DEF TypeOK, Threads, ProducerPc, ConsumerPc, CloserPc, Goto
<1>1. ASSUME NEW p \in Producers, PushCall(p) PROVE TypeOK'
  BY <1>1 DEF PushCall
<1>2. ASSUME NEW p \in Producers, PushBlock(p) PROVE TypeOK'
  BY <1>2 DEF PushBlock, AwakeInPush
<1>3. ASSUME NEW p \in Producers, PushReject(p) PROVE TypeOK'
  BY <1>3 DEF PushReject, AwakeInPush
<1>4. ASSUME NEW p \in Producers, NEW v \in Values, PushItem(p, v) PROVE TypeOK'
  <2>1. /\ queue' \in QueueOf(Values, {Capacity})
        /\ Len(queue'.items) <= Capacity
    <3>1. Len(queue.items) \in Nat
      BY LenProperties DEF QueueOf
    <3>2. /\ Push(queue, v) \in QueueOf(Values, {Capacity})
          /\ Len(Push(queue, v).items) = Len(queue.items) + 1
          /\ Len(queue.items) < Capacity
      BY <1>4, PushFacts DEF PushItem
    <3>. QED  BY SMTT(60), <1>4, <3>1, <3>2 DEF PushItem
  <2>2. accepted' \in Seq(Values) /\ delivered' \in Seq(Values)
    BY <1>4, AppendProperties DEF PushItem
  <2>. QED  BY <1>4, <2>1, <2>2 DEF PushItem, AwakeInPush
<1>5. ASSUME NEW p \in Producers, PushNotify(p) PROVE TypeOK'
  BY <1>5 DEF PushNotify, NotifyOne
<1>6. ASSUME NEW c \in Consumers, PopCall(c) PROVE TypeOK'
  BY <1>6 DEF PopCall
<1>7. ASSUME NEW c \in Consumers, PopBlock(c) PROVE TypeOK'
  BY <1>7 DEF PopBlock, AwakeInPop
<1>8. ASSUME NEW c \in Consumers, PopEnd(c) PROVE TypeOK'
  BY <1>8 DEF PopEnd, AwakeInPop
<1>9. ASSUME NEW c \in Consumers, PopItem(c) PROVE TypeOK'
  <2>1. /\ queue' \in QueueOf(Values, {Capacity})
        /\ Len(queue'.items) <= Capacity
    <3>1. Len(queue.items) \in Nat
      BY LenProperties DEF QueueOf
    <3>2. /\ Pop(queue) \in QueueOf(Values, {Capacity})
          /\ Len(Pop(queue).items) = Len(queue.items) - 1
      BY <1>9, PopFacts DEF PopItem
    <3>. QED  BY SMTT(60), <1>9, <3>1, <3>2 DEF PopItem
  <2>2. accepted' \in Seq(Values) /\ delivered' \in Seq(Values)
    BY <1>9, AppendProperties, PopFacts DEF PopItem
  <2>. QED  BY <1>9, <2>1, <2>2 DEF PopItem, AwakeInPop
<1>10. ASSUME NEW c \in Consumers, PopNotify(c) PROVE TypeOK'
  BY <1>10 DEF PopNotify, NotifyOne
<1>11. ASSUME NEW k \in Closers, ShutdownSet(k) PROVE TypeOK'
  BY <1>11, ShutdownFacts DEF ShutdownSet
<1>12. ASSUME NEW k \in Closers, ShutdownStep(k) PROVE TypeOK'
  BY <1>12 DEF ShutdownStep, ShutdownNotifyFull, ShutdownNotifyEmpty
<1>13. ASSUME NEW t \in Threads, SpuriousWakeup(t) PROVE TypeOK'
  BY <1>13 DEF SpuriousWakeup
<1>14. CASE UNCHANGED vars
  BY <1>14 DEF vars
<1>. QED
  BY <1>1, <1>2, <1>3, <1>4, <1>5, <1>6, <1>7, <1>8, <1>9, <1>10, <1>11,
     <1>12, <1>13, <1>14
  DEF Next, PushStep, PopStep

(* For every set of threads and every capacity, items_ stays within        *)
(* capacity_, every thread is in a state of its role, and sleepers are     *)
(* inside the call that put them to sleep.                                 *)
THEOREM TypeCorrect == Spec => []TypeOK
BY TypeInit, TypeStep, PTL DEF Spec

----------------------------------------------------------------------------
(* FIFO order, and nullopt only at the end *)

(* FIFO order and the meaning of nullopt are inductive together.           *)
DeliveryInv == Fifo /\ EndMeansDrained

(* The two facts about sequences behind FIFO order: appending to the       *)
(* second of two concatenated sequences, and moving the head of the second *)
(* to the end of the first.                                                *)
LEMMA AppendConcat ==
  ASSUME NEW s \in Seq(Values), NEW t \in Seq(Values), NEW v \in Values
  PROVE  s \o Append(t, v) = Append(s \o t, v)
<1>. DEFINE lhs == s \o Append(t, v)
            rhs == Append(s \o t, v)
<1>1. lhs \in Seq(Values) /\ rhs \in Seq(Values)
  BY ConcatProperties, AppendProperties
<1>2. Len(lhs) = Len(rhs)
  BY SMTT(60), ConcatProperties, AppendProperties
<1>3. \A i \in 1..Len(lhs) : lhs[i] = rhs[i]
  BY SMTT(60)
<1>. QED  BY <1>1, <1>2, <1>3, SeqEqual

(* The second of them, used for pop(). *)
LEMMA ConcatHeadTail ==
  ASSUME NEW s \in Seq(Values), NEW t \in Seq(Values), t # <<>>
  PROVE  Append(s, Head(t)) \o Tail(t) = s \o t
<1>. DEFINE lhs == Append(s, Head(t)) \o Tail(t)
            rhs == s \o t
<1>0. Head(t) \in Values /\ Tail(t) \in Seq(Values) /\ Len(Tail(t)) = Len(t) - 1
  BY HeadTailProperties
<1>1. lhs \in Seq(Values) /\ rhs \in Seq(Values)
  BY <1>0, ConcatProperties, AppendProperties
<1>2. Len(lhs) = Len(rhs)
  BY SMTT(60), <1>0, ConcatProperties, AppendProperties
<1>3. \A i \in 1..Len(lhs) : lhs[i] = rhs[i]
  BY SMTT(60), <1>0
<1>. QED  BY <1>1, <1>2, <1>3, SeqEqual

(* Nothing accepted, delivered or queued at first. *)
LEMMA DeliveryInit == Init => DeliveryInv
BY SMTT(60), EmptySeq, ConcatEmptySeq, QueueAssumption
DEF Init, DeliveryInv, Fifo, EndMeansDrained, NewQueue, Threads

(* push() appends to both histories' ends, pop() moves an item over, and   *)
(* once a consumer has seen the end no push() gets past the shutdown flag. *)
LEMMA DeliveryStep == TypeOK /\ DeliveryInv /\ [Next]_vars => DeliveryInv'
<1>. SUFFICES ASSUME TypeOK, DeliveryInv, [Next]_vars PROVE DeliveryInv'
  OBVIOUS
<1>1. /\ queue \in QueueOf(Values, {Capacity}) /\ queue.items \in Seq(Values)
      /\ accepted \in Seq(Values) /\ delivered \in Seq(Values)
      /\ pc \in [Threads -> ProducerPc \cup ConsumerPc \cup CloserPc]
  BY DEF TypeOK, QueueOf
<1>2. Producers \subseteq Threads /\ Consumers \subseteq Threads
      /\ Closers \subseteq Threads
      /\ Producers \cap Consumers = {} /\ Closers \cap Consumers = {}
  BY QueueAssumption DEF Threads
<1>3. ASSUME NEW p \in Producers, NEW v \in Values, PushItem(p, v)
      PROVE  DeliveryInv'
  <2>1. /\ queue'.items = Append(queue.items, v)
        /\ accepted' = Append(accepted, v) /\ delivered' = delivered
    BY <1>1, <1>3, PushFacts DEF PushItem
  <2>2. Fifo'
    <3>1. delivered \o Append(queue.items, v) = Append(delivered \o queue.items, v)
      BY <1>1, AppendConcat
    <3>. QED  BY <2>1, <3>1 DEF DeliveryInv, Fifo
  <2>3. \A c \in Consumers : pc'[c] # "ended"
    BY <1>1, <1>2, <1>3 DEF PushItem, Goto, DeliveryInv, EndMeansDrained
  <2>. QED  BY <2>2, <2>3 DEF DeliveryInv, EndMeansDrained
<1>4. ASSUME NEW c \in Consumers, PopItem(c) PROVE DeliveryInv'
  <2>1. /\ delivered' = Append(delivered, Head(queue.items))
        /\ queue'.items = Tail(queue.items) /\ queue.items # <<>>
        /\ Head(queue.items) \in Values /\ Tail(queue.items) \in Seq(Values)
        /\ accepted' = accepted
    BY <1>1, <1>4, PopFacts, HeadTailProperties DEF PopItem, Oldest
  <2>3. Fifo'
    <3>1. Append(delivered, Head(queue.items)) \o Tail(queue.items)
            = delivered \o queue.items
      BY <1>1, <2>1, ConcatHeadTail
    <3>. QED  BY <2>1, <3>1 DEF DeliveryInv, Fifo
  <2>4. delivered # accepted
    BY SMTT(60), <1>1, <2>1, ConcatEqualIffEmpty DEF DeliveryInv, Fifo
  <2>5. \A d \in Consumers : pc'[d] # "ended"
    BY <1>1, <1>2, <1>4, <2>4 DEF PopItem, Goto, DeliveryInv, EndMeansDrained
  <2>. QED  BY <2>3, <2>5 DEF DeliveryInv, EndMeansDrained
<1>5. ASSUME NEW c \in Consumers, PopEnd(c) PROVE DeliveryInv'
  <2>1. queue.shutdown /\ queue.items = <<>> /\ queue' = queue
        /\ accepted' = accepted /\ delivered' = delivered
    BY <1>5 DEF PopEnd, Drained
  <2>2. delivered = accepted
    BY <1>1, <2>1, ConcatEmptySeq DEF DeliveryInv, Fifo
  <2>. QED  BY <2>1, <2>2 DEF DeliveryInv, Fifo, EndMeansDrained
<1>6. ASSUME NEW k \in Closers, ShutdownSet(k) PROVE DeliveryInv'
  <2>1. queue'.items = queue.items /\ queue'.shutdown
    BY <1>1, <1>6, ShutdownFacts DEF ShutdownSet
  <2>2. \A c \in Consumers : pc'[c] = pc[c]
    BY <1>1, <1>2, <1>6 DEF ShutdownSet, Goto
  <2>. QED
    BY <1>6, <2>1, <2>2 DEF ShutdownSet, DeliveryInv, Fifo, EndMeansDrained
<1>7. ASSUME UNCHANGED <<queue, accepted, delivered>>,
             \A c \in Consumers : pc'[c] = "ended" => pc[c] = "ended"
      PROVE  DeliveryInv'
  BY <1>7 DEF DeliveryInv, Fifo, EndMeansDrained
<1>8. ASSUME NEW p \in Producers,
             PushCall(p) \/ PushBlock(p) \/ PushReject(p) \/ PushNotify(p)
      PROVE  DeliveryInv'
  BY <1>1, <1>2, <1>7, <1>8 DEF PushCall, PushBlock, PushReject, PushNotify, Goto
<1>9. ASSUME NEW c \in Consumers, PopCall(c) \/ PopBlock(c) \/ PopNotify(c)
      PROVE  DeliveryInv'
  BY <1>1, <1>2, <1>7, <1>9 DEF PopCall, PopBlock, PopNotify, Goto
<1>10. ASSUME NEW k \in Closers, ShutdownStep(k) PROVE DeliveryInv'
  BY <1>1, <1>2, <1>7, <1>10
  DEF ShutdownStep, ShutdownNotifyFull, ShutdownNotifyEmpty, Goto
<1>11. ASSUME NEW t \in Threads, SpuriousWakeup(t) PROVE DeliveryInv'
  BY <1>7, <1>11 DEF SpuriousWakeup
<1>12. CASE UNCHANGED vars
  BY <1>7, <1>12 DEF vars
<1>. QED
  BY <1>3, <1>4, <1>5, <1>6, <1>8, <1>9, <1>10, <1>11, <1>12
  DEF Next, PushStep, PopStep

(* For any threads and capacity: items leave the queue in the order they   *)
(* entered it, none lost and none delivered twice.                         *)
THEOREM FifoDelivery == Spec => []Fifo
<1>1. TypeOK /\ DeliveryInv /\ [Next]_vars => (TypeOK /\ DeliveryInv)'
  BY TypeStep, DeliveryStep
<1>2. TypeOK /\ DeliveryInv => Fifo
  BY DEF DeliveryInv
<1>. QED  BY <1>1, <1>2, TypeInit, DeliveryInit, PTL DEF Spec

(* For any threads and capacity: a pop() that returned nullopt returned it *)
(* after every accepted item was delivered.                                *)
THEOREM EndAfterDrain == Spec => []EndMeansDrained
<1>1. TypeOK /\ DeliveryInv /\ [Next]_vars => (TypeOK /\ DeliveryInv)'
  BY TypeStep, DeliveryStep
<1>2. TypeOK /\ DeliveryInv => EndMeansDrained
  BY DEF DeliveryInv
<1>. QED  BY <1>1, <1>2, TypeInit, DeliveryInit, PTL DEF Spec

----------------------------------------------------------------------------
(* No lost wakeup *)

(* The four sets that WakeupInv counts are finite. *)
LEMMA CountsFinite ==
  /\ IsFiniteSet(PushSignals) /\ Cardinality(PushSignals) \in Nat
  /\ IsFiniteSet(PopSignals) /\ Cardinality(PopSignals) \in Nat
  /\ IsFiniteSet(AwakeProducers) /\ Cardinality(AwakeProducers) \in Nat
  /\ IsFiniteSet(AwakeConsumers) /\ Cardinality(AwakeConsumers) \in Nat
<1>1. /\ PushSignals \in SUBSET Producers /\ AwakeProducers \in SUBSET Producers
      /\ PopSignals \in SUBSET Consumers /\ AwakeConsumers \in SUBSET Consumers
  BY DEF PushSignals, PopSignals, AwakeProducers, AwakeConsumers
<1>2. /\ IsFiniteSet(PushSignals) /\ IsFiniteSet(AwakeProducers)
      /\ IsFiniteSet(PopSignals) /\ IsFiniteSet(AwakeConsumers)
  BY <1>1, QueueAssumption, FS_Subset
<1>. QED  BY <1>2, FS_CardinalityType

(* A set that gains an element does not shrink, and grows if it is new.    *)
LEMMA AddedElement ==
  ASSUME NEW S, NEW x, IsFiniteSet(S)
  PROVE  /\ Cardinality(S \cup {x}) \in Nat
         /\ Cardinality(S \cup {x}) >= Cardinality(S)
<1>1. IsFiniteSet(S \cup {x}) /\ Cardinality(S) \in Nat
  BY FS_AddElement, FS_CardinalityType
<1>2. Cardinality(S \cup {x}) = IF x \in S THEN Cardinality(S) ELSE Cardinality(S) + 1
  BY FS_AddElement
<1>. QED  BY SMTT(60), <1>1, <1>2

(* Nobody sleeps at first. *)
LEMMA WakeupInit == Init => WakeupInv
BY DEF Init, NewQueue, WakeupInv, WakeupsCoverItems, WakeupsCoverSlots,
       ShutdownCoversSleepers

(* Every step that adds an item or frees a slot adds a pending             *)
(* notification, every notification spent wakes a sleeper or finds none,   *)
(* and every thread that stops being awake took an item or a slot.         *)
LEMMA WakeupStep == TypeOK /\ WakeupInv /\ [Next]_vars => WakeupInv'
<1>. SUFFICES ASSUME TypeOK, WakeupInv, [Next]_vars PROVE WakeupInv'
  OBVIOUS
<1>0. /\ queue \in QueueOf(Values, {Capacity}) /\ queue.capacity = Capacity
      /\ Len(queue.items) \in Nat /\ Len(queue.items) <= Capacity
      /\ Capacity \in Nat /\ queue.shutdown \in BOOLEAN
      /\ queue.items = <<>> <=> Len(queue.items) = 0
  <2>1. queue.items \in Seq(Values)
    BY DEF TypeOK, QueueOf
  <2>. QED  BY <2>1, LenProperties, EmptySeq, QueueAssumption DEF TypeOK, QueueOf
<1>t. /\ pc \in [Threads -> ProducerPc \cup ConsumerPc \cup CloserPc]
      /\ Producers \subseteq Threads /\ Consumers \subseteq Threads
      /\ Closers \subseteq Threads
      /\ Producers \cap Consumers = {}
      /\ Producers \cap Closers = {} /\ Consumers \cap Closers = {}
      /\ waitNotFull \subseteq {p \in Producers : pc[p] = "push"}
      /\ waitNotEmpty \subseteq {c \in Consumers : pc[c] = "pop"}
  BY QueueAssumption DEF TypeOK, Threads
<1>. USE DEF WakeupInv
<1>1. ASSUME NEW p \in Producers, PushCall(p) PROVE WakeupInv'
  <2>1. /\ AwakeProducers' = AwakeProducers \cup {p}
        /\ PushSignals' = PushSignals /\ PopSignals' = PopSignals
        /\ AwakeConsumers' = AwakeConsumers
        /\ \A k \in Closers : pc'[k] = pc[k]
    BY <1>1, <1>t DEF PushCall, Goto, AwakeProducers, AwakeInPush, PushSignals,
                      PopSignals, AwakeConsumers, AwakeInPop
  <2>2. Cardinality(AwakeProducers') >= Cardinality(AwakeProducers)
        /\ Cardinality(AwakeProducers') \in Nat
    BY <2>1, CountsFinite, AddedElement
  <2>3. UNCHANGED <<queue, waitNotFull, waitNotEmpty>>
    BY <1>1 DEF PushCall
  <2>4. WakeupsCoverItems' /\ ShutdownCoversSleepers'
    BY <2>1, <2>3 DEF WakeupsCoverItems, ShutdownCoversSleepers
  <2>5. WakeupsCoverSlots'
    BY SMTT(60), <1>0, <2>1, <2>2, <2>3, CountsFinite DEF WakeupsCoverSlots
  <2>. QED  BY <2>4, <2>5
<1>2. ASSUME NEW p \in Producers, PushBlock(p) PROVE WakeupInv'
  <2>1. /\ AwakeProducers' \in SUBSET Producers
        /\ PushSignals' = PushSignals /\ PopSignals' = PopSignals
        /\ AwakeConsumers' = AwakeConsumers
    BY <1>2, <1>t DEF PushBlock, AwakeProducers, PushSignals,
                      PopSignals, AwakeConsumers, AwakeInPop
  <2>2. Cardinality(AwakeProducers') \in Nat
    BY <2>1, QueueAssumption, FS_Subset, FS_CardinalityType
  <2>3. Len(queue.items) = Capacity /\ ~queue.shutdown
    BY SMTT(60), <1>0, <1>2 DEF PushBlock, PushReturns
  <2>. QED
    BY SMTT(60), <1>0, <1>2, <2>1, <2>2, <2>3, CountsFinite
    DEF PushBlock, WakeupsCoverItems, WakeupsCoverSlots, ShutdownCoversSleepers
<1>3. ASSUME NEW p \in Producers, PushReject(p) PROVE WakeupInv'
  <2>1. \A k \in Closers : pc'[k] = pc[k]
    BY <1>3, <1>t DEF PushReject, Goto
  <2>. QED
    BY <1>3, <2>1
    DEF PushReject, WakeupsCoverItems, WakeupsCoverSlots, ShutdownCoversSleepers
<1>4. ASSUME NEW p \in Producers, NEW v \in Values, PushItem(p, v)
      PROVE  WakeupInv'
  <2>0. UNCHANGED <<waitNotFull, waitNotEmpty>>
    BY <1>4 DEF PushItem
  <2>1. /\ AwakeProducers' = AwakeProducers \ {p} /\ p \in AwakeProducers
        /\ PushSignals' = PushSignals \cup {p} /\ p \notin PushSignals
        /\ PopSignals' = PopSignals
        /\ AwakeConsumers' = AwakeConsumers
    BY <1>4, <1>t DEF PushItem, Goto, AwakeProducers, AwakeInPush, PushSignals,
                      PopSignals, AwakeConsumers, AwakeInPop
  <2>2. /\ Cardinality(AwakeProducers') = Cardinality(AwakeProducers) - 1
        /\ Cardinality(PushSignals') = Cardinality(PushSignals) + 1
    BY <2>1, CountsFinite, FS_AddElement, FS_RemoveElement
  <2>3. ~queue.shutdown /\ ~queue'.shutdown
        /\ Len(queue'.items) = Len(queue.items) + 1
    BY <1>0, <1>4, PushFacts DEF PushItem
  <2>4. WakeupsCoverItems'
    BY SMTT(60), <1>0, <2>0, <2>1, <2>2, <2>3, CountsFinite DEF WakeupsCoverItems
  <2>5. WakeupsCoverSlots'
    <3>1. \A a, l, x, y \in Nat : a - l <= x + y => a - (l + 1) <= x + (y - 1)
      BY SMTT(60)
    <3>. QED
      BY <1>0, <2>0, <2>1, <2>2, <2>3, <3>1, CountsFinite DEF WakeupsCoverSlots
  <2>6. ShutdownCoversSleepers'
    BY <1>0, <2>0, <2>1, <2>3 DEF ShutdownCoversSleepers
  <2>. QED  BY <2>4, <2>5, <2>6
<1>5. ASSUME NEW p \in Producers, PushNotify(p) PROVE WakeupInv'
  <2>1. /\ PushSignals' = PushSignals \ {p} /\ p \in PushSignals
        /\ AwakeProducers' = AwakeProducers /\ PopSignals' = PopSignals
        /\ \A k \in Closers : pc'[k] = pc[k]
        /\ UNCHANGED <<queue, waitNotFull>>
    BY <1>5, <1>t DEF PushNotify, Goto, AwakeProducers, AwakeInPush, PushSignals,
                      PopSignals
  <2>2. Cardinality(PushSignals') = Cardinality(PushSignals) - 1
    BY <2>1, CountsFinite, FS_RemoveElement
  <2>3. CASE waitNotEmpty' = {}
    BY <1>0, <2>1, <2>3, CountsFinite
    DEF WakeupsCoverItems, WakeupsCoverSlots, ShutdownCoversSleepers
  <2>4. ASSUME NEW t \in waitNotEmpty, waitNotEmpty' = waitNotEmpty \ {t}
        PROVE  WakeupInv'
    <3>1. AwakeConsumers' = AwakeConsumers \cup {t} /\ t \notin AwakeConsumers
      BY <1>5, <1>t, <2>4 DEF PushNotify, Goto, AwakeConsumers, AwakeInPop
    <3>2. Cardinality(AwakeConsumers') = Cardinality(AwakeConsumers) + 1
      BY <3>1, CountsFinite, FS_AddElement
    <3>3. WakeupsCoverItems'
      BY SMTT(60), <1>0, <2>1, <2>2, <2>4, <3>2, CountsFinite DEF WakeupsCoverItems
    <3>4. WakeupsCoverSlots'
      BY <2>1 DEF WakeupsCoverSlots
    <3>5. ShutdownCoversSleepers'
      BY <2>1, <2>4 DEF ShutdownCoversSleepers
    <3>. QED  BY <3>3, <3>4, <3>5
  <2>. QED  BY <1>5, <2>3, <2>4 DEF PushNotify, NotifyOne
<1>6. ASSUME NEW c \in Consumers, PopCall(c) PROVE WakeupInv'
  <2>1. /\ AwakeConsumers' = AwakeConsumers \cup {c}
        /\ PushSignals' = PushSignals /\ PopSignals' = PopSignals
        /\ AwakeProducers' = AwakeProducers
        /\ \A k \in Closers : pc'[k] = pc[k]
    BY <1>6, <1>t DEF PopCall, Goto, AwakeProducers, AwakeInPush, PushSignals,
                      PopSignals, AwakeConsumers, AwakeInPop
  <2>2. Cardinality(AwakeConsumers') >= Cardinality(AwakeConsumers)
        /\ Cardinality(AwakeConsumers') \in Nat
    BY <2>1, CountsFinite, AddedElement
  <2>3. UNCHANGED <<queue, waitNotFull, waitNotEmpty>>
    BY <1>6 DEF PopCall
  <2>4. WakeupsCoverSlots' /\ ShutdownCoversSleepers'
    BY <2>1, <2>3 DEF WakeupsCoverSlots, ShutdownCoversSleepers
  <2>5. WakeupsCoverItems'
    BY SMTT(60), <1>0, <2>1, <2>2, <2>3, CountsFinite DEF WakeupsCoverItems
  <2>. QED  BY <2>4, <2>5
<1>7. ASSUME NEW c \in Consumers, PopBlock(c) PROVE WakeupInv'
  <2>1. /\ AwakeConsumers' \in SUBSET Consumers
        /\ PushSignals' = PushSignals /\ PopSignals' = PopSignals
        /\ AwakeProducers' = AwakeProducers
    BY <1>7, <1>t DEF PopBlock, AwakeConsumers, PushSignals,
                      PopSignals, AwakeProducers, AwakeInPush
  <2>2. Cardinality(AwakeConsumers') \in Nat
    BY <2>1, QueueAssumption, FS_Subset, FS_CardinalityType
  <2>3. Len(queue.items) = 0 /\ ~queue.shutdown
    BY <1>0, <1>7 DEF PopBlock, PopReturns
  <2>. QED
    BY SMTT(60), <1>0, <1>7, <2>1, <2>2, <2>3, CountsFinite
    DEF PopBlock, WakeupsCoverItems, WakeupsCoverSlots, ShutdownCoversSleepers
<1>8. ASSUME NEW c \in Consumers, PopEnd(c) PROVE WakeupInv'
  <2>1. \A k \in Closers : pc'[k] = pc[k]
    BY <1>8, <1>t DEF PopEnd, Goto
  <2>. QED
    BY <1>8, <2>1
    DEF PopEnd, Drained, WakeupsCoverItems, WakeupsCoverSlots,
        ShutdownCoversSleepers
<1>9. ASSUME NEW c \in Consumers, PopItem(c) PROVE WakeupInv'
  <2>0. UNCHANGED <<waitNotFull, waitNotEmpty>>
    BY <1>9 DEF PopItem
  <2>1. /\ AwakeConsumers' = AwakeConsumers \ {c} /\ c \in AwakeConsumers
        /\ PopSignals' = PopSignals \cup {c} /\ c \notin PopSignals
        /\ PushSignals' = PushSignals
        /\ AwakeProducers' = AwakeProducers
        /\ \A k \in Closers : pc'[k] = pc[k]
    BY <1>9, <1>t DEF PopItem, Goto, AwakeProducers, AwakeInPush, PushSignals,
                      PopSignals, AwakeConsumers, AwakeInPop
  <2>2. /\ Cardinality(AwakeConsumers') = Cardinality(AwakeConsumers) - 1
        /\ Cardinality(PopSignals') = Cardinality(PopSignals) + 1
    BY <2>1, CountsFinite, FS_AddElement, FS_RemoveElement
  <2>3. queue'.shutdown = queue.shutdown
        /\ Len(queue'.items) = Len(queue.items) - 1
    BY <1>0, <1>9, PopFacts DEF PopItem
  <2>4. WakeupsCoverItems'
    <3>1. \A l, x, y \in Nat : l <= x + y => l - 1 <= x + (y - 1)
      BY SMTT(60)
    <3>. QED
      BY <1>0, <2>0, <2>1, <2>2, <2>3, <3>1, CountsFinite DEF WakeupsCoverItems
  <2>5. WakeupsCoverSlots'
    <3>. SUFFICES ASSUME ~queue.shutdown, waitNotFull # {}
                  PROVE  Capacity - Len(queue'.items)
                           <= Cardinality(PopSignals') + Cardinality(AwakeProducers')
      BY <2>0, <2>3 DEF WakeupsCoverSlots
    <3>1. Capacity - Len(queue.items)
            <= Cardinality(PopSignals) + Cardinality(AwakeProducers)
      BY DEF WakeupsCoverSlots
    <3>2. Cardinality(AwakeProducers') = Cardinality(AwakeProducers)
      BY <2>1
    <3>3. Len(queue.items) \in Nat /\ Capacity \in Nat
      BY <1>0
    <3>4. Cardinality(PopSignals) \in Nat /\ Cardinality(AwakeProducers) \in Nat
      BY CountsFinite
    <3>5. Capacity - (Len(queue.items) - 1)
            <= (Cardinality(PopSignals) + 1) + Cardinality(AwakeProducers)
      <4>1. \A a, l, x, y \in Nat : a - l <= x + y => a - (l - 1) <= (x + 1) + y
        BY SMTT(60)
      <4>. QED  BY <3>1, <3>3, <3>4, <4>1
    <3>. QED  BY <2>2, <2>3, <3>2, <3>5
  <2>6. ShutdownCoversSleepers'
    BY <1>0, <2>0, <2>1, <2>3 DEF ShutdownCoversSleepers
  <2>. QED  BY <2>4, <2>5, <2>6
<1>10. ASSUME NEW c \in Consumers, PopNotify(c) PROVE WakeupInv'
  <2>1. /\ PopSignals' = PopSignals \ {c} /\ c \in PopSignals
        /\ AwakeConsumers' = AwakeConsumers /\ PushSignals' = PushSignals
        /\ \A k \in Closers : pc'[k] = pc[k]
        /\ UNCHANGED <<queue, waitNotEmpty>>
    BY <1>10, <1>t DEF PopNotify, Goto, AwakeConsumers, AwakeInPop, PushSignals,
                       PopSignals
  <2>2. Cardinality(PopSignals') = Cardinality(PopSignals) - 1
    BY <2>1, CountsFinite, FS_RemoveElement
  <2>3. CASE waitNotFull' = {}
    BY <1>0, <2>1, <2>3, CountsFinite
    DEF WakeupsCoverItems, WakeupsCoverSlots, ShutdownCoversSleepers
  <2>4. ASSUME NEW t \in waitNotFull, waitNotFull' = waitNotFull \ {t}
        PROVE  WakeupInv'
    <3>1. AwakeProducers' = AwakeProducers \cup {t} /\ t \notin AwakeProducers
      BY <1>10, <1>t, <2>4 DEF PopNotify, Goto, AwakeProducers, AwakeInPush
    <3>2. Cardinality(AwakeProducers') = Cardinality(AwakeProducers) + 1
      BY <3>1, CountsFinite, FS_AddElement
    <3>3. WakeupsCoverItems'
      BY <2>1 DEF WakeupsCoverItems
    <3>4. WakeupsCoverSlots'
      BY SMTT(60), <1>0, <2>1, <2>2, <2>4, <3>2, CountsFinite DEF WakeupsCoverSlots
    <3>5. ShutdownCoversSleepers'
      BY <2>1, <2>4 DEF ShutdownCoversSleepers
    <3>. QED  BY <3>3, <3>4, <3>5
  <2>. QED  BY <1>10, <2>3, <2>4 DEF PopNotify, NotifyOne
<1>11. ASSUME NEW k \in Closers, ShutdownSet(k) PROVE WakeupInv'
  <2>1. pc'[k] = "full" /\ queue'.shutdown
    BY <1>0, <1>11, <1>t, ShutdownFacts DEF ShutdownSet, Goto
  <2>. QED
    BY <2>1 DEF WakeupsCoverItems, WakeupsCoverSlots, ShutdownCoversSleepers
<1>12. ASSUME NEW k \in Closers, ShutdownStep(k) PROVE WakeupInv'
  <2>1. /\ PushSignals' = PushSignals /\ PopSignals' = PopSignals
        /\ queue' = queue
        /\ \A j \in Closers \ {k} : pc'[j] = pc[j]
    BY <1>12, <1>t DEF ShutdownStep, ShutdownNotifyFull, ShutdownNotifyEmpty,
                       Goto, PushSignals, PopSignals
  <2>2. CASE ShutdownNotifyFull(k)
    <3>1. /\ AwakeConsumers' = AwakeConsumers
          /\ waitNotFull' = {} /\ pc'[k] = "empty"
      BY <1>t, <2>2 DEF ShutdownNotifyFull, Goto, AwakeConsumers, AwakeInPop
    <3>. QED
      BY <2>1, <2>2, <3>1
      DEF ShutdownNotifyFull, WakeupsCoverItems, WakeupsCoverSlots,
          ShutdownCoversSleepers
  <2>3. CASE ShutdownNotifyEmpty(k)
    <3>1. /\ AwakeProducers' = AwakeProducers
          /\ waitNotEmpty' = {} /\ pc[k] = "empty"
      BY <1>t, <2>3 DEF ShutdownNotifyEmpty, Goto, AwakeProducers, AwakeInPush
    <3>. QED
      BY <2>1, <2>3, <3>1
      DEF ShutdownNotifyEmpty, WakeupsCoverItems, WakeupsCoverSlots,
          ShutdownCoversSleepers
  <2>. QED  BY <1>12, <2>2, <2>3 DEF ShutdownStep
<1>13. ASSUME NEW t \in Threads, SpuriousWakeup(t) PROVE WakeupInv'
  <2>1. /\ PushSignals' = PushSignals /\ PopSignals' = PopSignals
        /\ UNCHANGED <<queue, pc>>
        /\ waitNotFull' \subseteq waitNotFull
        /\ waitNotEmpty' \subseteq waitNotEmpty
    BY <1>13 DEF SpuriousWakeup, PushSignals, PopSignals
  <2>2. \/ AwakeProducers' = AwakeProducers \cup {t}
        \/ AwakeProducers' = AwakeProducers
    BY <1>13, <1>t DEF SpuriousWakeup, AwakeProducers, AwakeInPush
  <2>3. \/ AwakeConsumers' = AwakeConsumers \cup {t}
        \/ AwakeConsumers' = AwakeConsumers
    BY <1>13, <1>t DEF SpuriousWakeup, AwakeConsumers, AwakeInPop
  <2>4. /\ Cardinality(AwakeProducers') \in Nat
        /\ Cardinality(AwakeProducers') >= Cardinality(AwakeProducers)
    <3>1. CASE AwakeProducers' = AwakeProducers \cup {t}
      BY <3>1, CountsFinite, AddedElement
    <3>2. CASE AwakeProducers' = AwakeProducers
      BY SMTT(60), <3>2, CountsFinite
    <3>. QED  BY <2>2, <3>1, <3>2
  <2>5. /\ Cardinality(AwakeConsumers') \in Nat
        /\ Cardinality(AwakeConsumers') >= Cardinality(AwakeConsumers)
    <3>1. CASE AwakeConsumers' = AwakeConsumers \cup {t}
      BY <3>1, CountsFinite, AddedElement
    <3>2. CASE AwakeConsumers' = AwakeConsumers
      BY SMTT(60), <3>2, CountsFinite
    <3>. QED  BY <2>3, <3>1, <3>2
  <2>6. WakeupsCoverItems'
    BY SMTT(60), <1>0, <2>1, <2>5, CountsFinite DEF WakeupsCoverItems
  <2>7. WakeupsCoverSlots'
    BY SMTT(60), <1>0, <2>1, <2>4, CountsFinite DEF WakeupsCoverSlots
  <2>8. ShutdownCoversSleepers'
    BY <2>1 DEF ShutdownCoversSleepers
  <2>. QED  BY <2>6, <2>7, <2>8
<1>14. CASE UNCHANGED vars
  BY <1>14
  DEF vars, WakeupsCoverItems, WakeupsCoverSlots, ShutdownCoversSleepers,
      PushSignals, PopSignals, AwakeProducers, AwakeConsumers, AwakeInPush,
      AwakeInPop
<1>. QED
  BY ZenonT(60), <1>1, <1>2, <1>3, <1>4, <1>5, <1>6, <1>7, <1>8, <1>9, <1>10, <1>11,
     <1>12, <1>13, <1>14
  DEF Next, PushStep, PopStep

(* WakeupInv is strong enough: if a sleeper could proceed, the count of    *)
(* pending notifications and awake threads is positive.                    *)
LEMMA WakeupSuffices == TypeOK /\ WakeupInv => NoLostWakeup
<1>. SUFFICES ASSUME TypeOK, WakeupInv PROVE NoLostWakeup
  OBVIOUS
<1>1. /\ Len(queue.items) \in Nat /\ Capacity \in Nat
      /\ queue.capacity = Capacity
      /\ queue.items # <<>> => Len(queue.items) > 0
  <2>1. queue.items \in Seq(Values) /\ queue.capacity = Capacity
    BY DEF TypeOK, QueueOf
  <2>. QED  BY SMTT(60), <2>1, LenProperties, EmptySeq, QueueAssumption
<1>2. ASSUME waitNotEmpty # {}, PopReturns(queue), ~queue.shutdown
      PROVE  PushSignals # {} \/ AwakeConsumers # {}
  <2>1. Cardinality(PushSignals) + Cardinality(AwakeConsumers) > 0
    BY SMTT(60), <1>1, <1>2, CountsFinite DEF PopReturns, WakeupInv, WakeupsCoverItems
  <2>. QED  BY SMTT(60), <2>1, CountsFinite, FS_EmptySet
<1>3. ASSUME waitNotFull # {}, PushReturns(queue), ~queue.shutdown
      PROVE  PopSignals # {} \/ AwakeProducers # {}
  <2>1. Cardinality(PopSignals) + Cardinality(AwakeProducers) > 0
    BY SMTT(60), <1>1, <1>3, CountsFinite DEF PushReturns, WakeupInv, WakeupsCoverSlots
  <2>. QED  BY SMTT(60), <2>1, CountsFinite, FS_EmptySet
<1>. QED
  BY <1>2, <1>3 DEF NoLostWakeup, WakeupInv, ShutdownCoversSleepers

(* For any number of producers, consumers and closers and any capacity, no *)
(* notification is lost: a sleeper that could proceed is always matched by *)
(* a thread that is awake in its call or still has to notify.              *)
THEOREM WakeupsNeverLost == Spec => []NoLostWakeup
<1>1. TypeOK /\ WakeupInv /\ [Next]_vars => (TypeOK /\ WakeupInv)'
  BY TypeStep, WakeupStep
<1>. QED
  BY <1>1, TypeInit, WakeupInit, WakeupSuffices, PTL DEF Spec

----------------------------------------------------------------------------
(* Action property, and refinement *)

(* For any threads and capacity: after shutdown() no push() is accepted,   *)
(* and the queue stays shut down.                                          *)
THEOREM ShutdownForever == Spec => ShutdownIsFinal
<1>1. TypeOK /\ [Next]_vars =>
        [queue.shutdown => queue'.shutdown /\ accepted' = accepted]_vars
  <2>. SUFFICES ASSUME TypeOK, Next, queue.shutdown
                PROVE  queue'.shutdown /\ accepted' = accepted
    BY DEF vars
  <2>1. queue \in QueueOf(Values, {Capacity})
    BY DEF TypeOK
  <2>2. ASSUME NEW c \in Consumers, PopItem(c)
        PROVE  queue'.shutdown /\ accepted' = accepted
    <3>1. queue' = Pop(queue) /\ queue.items # <<>> /\ accepted' = accepted
      BY <2>2 DEF PopItem
    <3>. QED  BY <2>1, <3>1 DEF Pop, QueueOf
  <2>3. ASSUME NEW k \in Closers, ShutdownSet(k)
        PROVE  queue'.shutdown /\ accepted' = accepted
    BY <2>1, <2>3 DEF ShutdownSet, Shutdown, QueueOf
  <2>4. ASSUME NEW p \in Producers, PushStep(p)
        PROVE  queue' = queue /\ accepted' = accepted
    BY <2>4 DEF PushStep, PushBlock, PushReject, PushItem, PushNotify
  <2>. QED
    BY <2>2, <2>3, <2>4
    DEF Next, PushCall, PopCall, PopStep, PopBlock, PopEnd, PopNotify,
        ShutdownStep, ShutdownNotifyFull, ShutdownNotifyEmpty, SpuriousWakeup
<1>. QED  BY <1>1, TypeCorrect, PTL DEF Spec, ShutdownIsFinal

(* A change of position shows in CallOf only where it changes the call.    *)
LEMMA CallOfGoto ==
  ASSUME TypeOK, NEW t \in Producers \cup Consumers, NEW label,
         Goto(t, label)
  PROVE  CallOf' = [CallOf EXCEPT ![t] =
                      IF label \in {"idle", "notify"} THEN "none" ELSE label]
<1>1. pc \in [Threads -> ProducerPc \cup ConsumerPc \cup CloserPc] /\ t \in Threads
  BY DEF TypeOK, Threads
<1>2. pc' = [pc EXCEPT ![t] = label]
  BY DEF Goto
<1>3. \A u \in Producers \cup Consumers :
        u \in Threads /\ pc'[u] = IF u = t THEN label ELSE pc[u]
  BY <1>1, <1>2 DEF Threads
<1>. DEFINE call(l) == IF l \in {"idle", "notify"} THEN "none" ELSE l
<1>. HIDE DEF call
<1>4. CallOf = [u \in Producers \cup Consumers |-> call(pc[u])]
  BY DEF CallOf, call
<1>5. CallOf' = [u \in Producers \cup Consumers |-> call(pc'[u])]
  BY DEF CallOf, call
<1>6. CallOf' = [CallOf EXCEPT ![t] = call(label)]
  BY <1>3, <1>4, <1>5
<1>. QED  BY <1>6 DEF call

(* A closer is not in the domain of CallOf. *)
LEMMA CallOfCloser ==
  ASSUME TypeOK, NEW k \in Closers, NEW label, Goto(k, label)
  PROVE  CallOf' = CallOf
<1>1. pc \in [Threads -> ProducerPc \cup ConsumerPc \cup CloserPc] /\ k \in Threads
  BY DEF TypeOK, Threads
<1>2. \A u \in Producers \cup Consumers : u \in Threads /\ u # k
  BY QueueAssumption DEF Threads
<1>3. \A u \in Producers \cup Consumers : pc'[u] = pc[u]
  BY <1>1, <1>2 DEF Goto
<1>. QED  BY <1>3 DEF CallOf

(* Every step of the queue is a step of the atomic queue or stutters: a    *)
(* call begins, it takes effect in its critical section, shutdown() sets   *)
(* the flag; sleeping, waking and notifying are invisible.                 *)
LEMMA RefinementStep == TypeOK /\ [Next]_vars => [Atomic!Next]_(Atomic!avars)
<1>. SUFFICES ASSUME TypeOK, [Next]_vars
              PROVE  Atomic!Next \/ (queue' = queue /\ CallOf' = CallOf)
  BY DEF Atomic!avars
<1>0. \A t \in Producers \cup Consumers :
        CallOf[t] = IF pc[t] \in {"idle", "notify"} THEN "none" ELSE pc[t]
  BY DEF CallOf
<1>1. ASSUME NEW p \in Producers, PushCall(p)
      PROVE  Atomic!CallPush(p)
  <2>1. CallOf' = [CallOf EXCEPT ![p] = "push"]
    BY <1>1, CallOfGoto DEF PushCall
  <2>. QED  BY <1>0, <1>1, <2>1 DEF PushCall, Atomic!CallPush
<1>2. ASSUME NEW p \in Producers, PushReject(p)
      PROVE  Atomic!ReturnPush(p)
  <2>1. CallOf' = [CallOf EXCEPT ![p] = "none"]
    BY <1>2, CallOfGoto DEF PushReject
  <2>. QED
    BY <1>0, <1>2, <2>1, QueueAssumption
    DEF PushReject, AwakeInPush, Atomic!ReturnPush, Atomic!PushReturns, Atomic!Push
<1>3. ASSUME NEW p \in Producers, NEW v \in Values, PushItem(p, v)
      PROVE  Atomic!ReturnPush(p)
  <2>1. CallOf' = [CallOf EXCEPT ![p] = "none"]
    BY <1>3, CallOfGoto DEF PushItem
  <2>. QED
    BY <1>0, <1>3, <2>1
    DEF PushItem, AwakeInPush, Atomic!ReturnPush, PushReturns, Push,
        Atomic!PushReturns, Atomic!Push
<1>4. ASSUME NEW c \in Consumers, PopCall(c)
      PROVE  Atomic!CallPop(c)
  <2>1. CallOf' = [CallOf EXCEPT ![c] = "pop"]
    BY <1>4, CallOfGoto DEF PopCall
  <2>. QED  BY <1>0, <1>4, <2>1 DEF PopCall, Atomic!CallPop
<1>5. ASSUME NEW c \in Consumers, PopEnd(c)
      PROVE  Atomic!ReturnPop(c)
  <2>1. CallOf' = [CallOf EXCEPT ![c] = "ended"]
    BY <1>5, CallOfGoto DEF PopEnd
  <2>. QED
    BY <1>0, <1>5, <2>1
    DEF PopEnd, AwakeInPop, Drained, Atomic!ReturnPop, Atomic!PopReturns,
        Atomic!Pop, Atomic!Drained
<1>6. ASSUME NEW c \in Consumers, PopItem(c)
      PROVE  Atomic!ReturnPop(c)
  <2>1. CallOf' = [CallOf EXCEPT ![c] = "none"]
    BY <1>6, CallOfGoto DEF PopItem
  <2>. QED
    BY <1>0, <1>6, <2>1
    DEF PopItem, AwakeInPop, Pop, Atomic!ReturnPop, Atomic!PopReturns,
        Atomic!Pop, Atomic!Drained
<1>7. ASSUME NEW k \in Closers, ShutdownSet(k)
      PROVE  Atomic!Close
  <2>1. CallOf' = CallOf
    BY <1>7, CallOfCloser DEF ShutdownSet
  <2>. QED  BY <1>7, <2>1 DEF ShutdownSet, Shutdown, Atomic!Close, Atomic!Shutdown
<1>8. ASSUME NEW p \in Producers, PushBlock(p) \/ PushNotify(p)
      PROVE  queue' = queue /\ CallOf' = CallOf
  <2>1. CASE PushBlock(p)
    BY <2>1 DEF PushBlock, CallOf
  <2>2. CASE PushNotify(p)
    <3>1. CallOf' = [CallOf EXCEPT ![p] = "none"] /\ CallOf[p] = "none"
      BY <1>0, <2>2, CallOfGoto DEF PushNotify
    <3>2. CallOf' = CallOf
      BY <3>1 DEF CallOf
    <3>. QED  BY <2>2, <3>2 DEF PushNotify
  <2>. QED  BY <1>8, <2>1, <2>2
<1>9. ASSUME NEW c \in Consumers, PopBlock(c) \/ PopNotify(c)
      PROVE  queue' = queue /\ CallOf' = CallOf
  <2>1. CASE PopBlock(c)
    BY <2>1 DEF PopBlock, CallOf
  <2>2. CASE PopNotify(c)
    <3>1. CallOf' = [CallOf EXCEPT ![c] = "none"] /\ CallOf[c] = "none"
      BY <1>0, <2>2, CallOfGoto DEF PopNotify
    <3>2. CallOf' = CallOf
      BY <3>1 DEF CallOf
    <3>. QED  BY <2>2, <3>2 DEF PopNotify
  <2>. QED  BY <1>9, <2>1, <2>2
<1>10. ASSUME NEW k \in Closers, ShutdownStep(k)
       PROVE  queue' = queue /\ CallOf' = CallOf
  BY <1>10, CallOfCloser DEF ShutdownStep, ShutdownNotifyFull, ShutdownNotifyEmpty
<1>11. ASSUME NEW t \in Threads, SpuriousWakeup(t)
       PROVE  queue' = queue /\ CallOf' = CallOf
  BY <1>11 DEF SpuriousWakeup, CallOf
<1>12. CASE UNCHANGED vars
  BY <1>12 DEF vars, CallOf
<1>. QED
  BY <1>1, <1>2, <1>3, <1>4, <1>5, <1>6, <1>7, <1>8, <1>9, <1>10, <1>11, <1>12
  DEF Next, PushStep, PopStep, Atomic!Next

(* For any threads and capacity: the queue with its mutex and condition    *)
(* variables implements the atomic queue of AtomicQueue, as far as safety  *)
(* goes, so what MarketDataPipeline builds on atomic queues is sound.      *)
THEOREM AtomicRefinement == Spec => Atomic!SafeSpec
<1>1. Init => Atomic!Init
  BY DEF Init, Atomic!Init, NewQueue, Atomic!NewQueue, CallOf, Threads
<1>. QED
  BY <1>1, RefinementStep, TypeCorrect, PTL DEF Spec, Atomic!SafeSpec
=============================================================================
