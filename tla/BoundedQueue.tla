---------------------------- MODULE BoundedQueue ----------------------------
(***************************************************************************)
(* BoundedQueue<T> of runtime/BoundedQueue.hpp at the level of its mutex   *)
(* and its two condition variables.                                        *)
(*                                                                         *)
(* A critical section of mutex_ is one step.  Between critical sections    *)
(* threads interleave: a thread that finds its predicate false releases    *)
(* the mutex and sleeps on a condition variable; notify_one and notify_all *)
(* happen after the mutex was released, as steps of their own; a woken     *)
(* thread has to take the mutex again and re-evaluates its predicate; and  *)
(* a sleeper may wake without any notification.                            *)
(***************************************************************************)
EXTENDS QueueOps, FiniteSets

CONSTANTS Producers,   \* threads that call push()
          Consumers,   \* threads that call pop() until it returns nullopt
          Closers,     \* threads that call shutdown()
          Values,      \* the items
          Capacity,    \* capacity_
          MaxPushes    \* bound: items accepted in one behaviour

Threads == Producers \cup Consumers \cup Closers

ASSUME QueueAssumption ==
  /\ Capacity \in Nat \ {0}
  /\ MaxPushes \in Nat
  /\ Values # {}
  /\ IsFiniteSet(Producers) /\ IsFiniteSet(Consumers)
  /\ Producers \cap Consumers = {}
  /\ Producers \cap Closers = {}
  /\ Consumers \cap Closers = {}

VARIABLES
  queue,         \* items_, capacity_, shutdown_
  pc,            \* where each thread is
  waitNotFull,   \* producers asleep on not_full_
  waitNotEmpty,  \* consumers asleep on not_empty_
  accepted,      \* history: items pushed, in the order they entered items_
  delivered      \* history: items popped, in the order they left items_

vars == <<queue, pc, waitNotFull, waitNotEmpty, accepted, delivered>>

(* "push" and "pop": inside the call, asleep or about to take the mutex.   *)
(* "notify": the critical section is over, notify_one is still to come.    *)
(* "ended": pop() returned nullopt.  "full", "empty": inside shutdown(),   *)
(* with the flag set and notify_all on not_full_ (then not_empty_) ahead.  *)
ProducerPc == {"idle", "push", "notify"}
ConsumerPc == {"idle", "pop", "notify", "ended"}
CloserPc   == {"idle", "full", "empty"}

Init ==
  /\ queue = NewQueue(Capacity)
  /\ pc = [t \in Threads |-> "idle"]
  /\ waitNotFull = {}
  /\ waitNotEmpty = {}
  /\ accepted = <<>>
  /\ delivered = <<>>

Goto(t, label) == pc' = [pc EXCEPT ![t] = label]

(* notify_one wakes some sleeper, if there is one. *)
NotifyOne(sleepers, remaining) ==
  \/ sleepers = {} /\ remaining = {}
  \/ \E t \in sleepers : remaining = sleepers \ {t}

----------------------------------------------------------------------------
(* push(T item) *)

PushCall(p) ==
  /\ pc[p] = "idle"
  /\ Len(accepted) < MaxPushes \/ queue.shutdown
  /\ Goto(p, "push")
  /\ UNCHANGED <<queue, waitNotFull, waitNotEmpty, accepted, delivered>>

AwakeInPush(p) == pc[p] = "push" /\ p \notin waitNotFull

PushBlock(p) ==
  /\ AwakeInPush(p)
  /\ ~PushReturns(queue)
  /\ waitNotFull' = waitNotFull \cup {p}
  /\ UNCHANGED <<queue, pc, waitNotEmpty, accepted, delivered>>

PushReject(p) ==
  /\ AwakeInPush(p)
  /\ queue.shutdown
  /\ Goto(p, "idle")
  /\ UNCHANGED <<queue, waitNotFull, waitNotEmpty, accepted, delivered>>

(* Mutant: the shutdown is not tested after the wait. *)
PushItemAnyway(p, v) ==
  /\ AwakeInPush(p)
  /\ PushReturns(queue)
  /\ queue' = [queue EXCEPT !.items = Append(@, v)]
  /\ accepted' = Append(accepted, v)
  /\ Goto(p, "notify")
  /\ UNCHANGED <<waitNotFull, waitNotEmpty, delivered>>

PushItem(p, v) ==
  /\ AwakeInPush(p)
  /\ PushReturns(queue) /\ ~queue.shutdown
  /\ queue' = Push(queue, v)
  /\ accepted' = Append(accepted, v)
  /\ Goto(p, "notify")
  /\ UNCHANGED <<waitNotFull, waitNotEmpty, delivered>>

(* Mutant: push() notifies the waiters of its own kind. *)
PushNotifyNotFull(p) ==
  /\ pc[p] = "notify"
  /\ NotifyOne(waitNotFull, waitNotFull')
  /\ Goto(p, "idle")
  /\ UNCHANGED <<queue, waitNotEmpty, accepted, delivered>>

PushNotify(p) ==
  /\ pc[p] = "notify"
  /\ NotifyOne(waitNotEmpty, waitNotEmpty')
  /\ Goto(p, "idle")
  /\ UNCHANGED <<queue, waitNotFull, accepted, delivered>>

----------------------------------------------------------------------------
(* pop() *)

PopCall(c) ==
  /\ pc[c] = "idle"
  /\ Goto(c, "pop")
  /\ UNCHANGED <<queue, waitNotFull, waitNotEmpty, accepted, delivered>>

AwakeInPop(c) == pc[c] = "pop" /\ c \notin waitNotEmpty

PopBlock(c) ==
  /\ AwakeInPop(c)
  /\ ~PopReturns(queue)
  /\ waitNotEmpty' = waitNotEmpty \cup {c}
  /\ UNCHANGED <<queue, pc, waitNotFull, accepted, delivered>>

PopEnd(c) ==
  /\ AwakeInPop(c)
  /\ Drained(queue)
  /\ Goto(c, "ended")
  /\ UNCHANGED <<queue, waitNotFull, waitNotEmpty, accepted, delivered>>

PopItem(c) ==
  /\ AwakeInPop(c)
  /\ queue.items # <<>>
  /\ delivered' = Append(delivered, Oldest(queue))
  /\ queue' = Pop(queue)
  /\ Goto(c, "notify")
  /\ UNCHANGED <<waitNotFull, waitNotEmpty, accepted>>

(* Mutant: pop() returns without notify_one. *)
PopNoNotify(c) ==
  /\ pc[c] = "notify"
  /\ Goto(c, "idle")
  /\ UNCHANGED <<queue, waitNotFull, waitNotEmpty, accepted, delivered>>

PopNotify(c) ==
  /\ pc[c] = "notify"
  /\ NotifyOne(waitNotFull, waitNotFull')
  /\ Goto(c, "idle")
  /\ UNCHANGED <<queue, waitNotEmpty, accepted, delivered>>

----------------------------------------------------------------------------
(* shutdown() *)

ShutdownSet(k) ==
  /\ pc[k] = "idle"
  /\ queue' = Shutdown(queue)
  /\ Goto(k, "full")
  /\ UNCHANGED <<waitNotFull, waitNotEmpty, accepted, delivered>>

(* Mutant: shutdown() wakes a single producer. *)
ShutdownNotifyOneFull(k) ==
  /\ pc[k] = "full"
  /\ NotifyOne(waitNotFull, waitNotFull')
  /\ Goto(k, "empty")
  /\ UNCHANGED <<queue, waitNotEmpty, accepted, delivered>>

ShutdownNotifyFull(k) ==
  /\ pc[k] = "full"
  /\ waitNotFull' = {}
  /\ Goto(k, "empty")
  /\ UNCHANGED <<queue, waitNotEmpty, accepted, delivered>>

ShutdownNotifyEmpty(k) ==
  /\ pc[k] = "empty"
  /\ waitNotEmpty' = {}
  /\ Goto(k, "idle")
  /\ UNCHANGED <<queue, waitNotFull, accepted, delivered>>

----------------------------------------------------------------------------
(* std::condition_variable may wake a sleeper spuriously. *)

SpuriousWakeup(t) ==
  /\ t \in waitNotFull \cup waitNotEmpty
  /\ waitNotFull' = waitNotFull \ {t}
  /\ waitNotEmpty' = waitNotEmpty \ {t}
  /\ UNCHANGED <<queue, pc, accepted, delivered>>

PushStep(p) ==
  \/ PushBlock(p)
  \/ PushReject(p)
  \/ \E v \in Values : PushItem(p, v)
  \/ PushNotify(p)

PopStep(c) ==
  \/ PopBlock(c)
  \/ PopEnd(c)
  \/ PopItem(c)
  \/ PopNotify(c)

ShutdownStep(k) == ShutdownNotifyFull(k) \/ ShutdownNotifyEmpty(k)

Next ==
  \/ \E p \in Producers : PushCall(p) \/ PushStep(p)
  \/ \E c \in Consumers : PopCall(c) \/ PopStep(c)
  \/ \E k \in Closers : ShutdownSet(k) \/ ShutdownStep(k)
  \/ \E t \in Threads : SpuriousWakeup(t)

Spec == Init /\ [][Next]_vars

(* A thread inside a call keeps running, and the mutex is granted to it    *)
(* eventually.  A consumer calls pop() again after each item, as the loops *)
(* of run_parser_stage and run_aggregation_stage do.  Nothing forces a     *)
(* producer to push, a closer to call shutdown() or a sleeper to wake.     *)
Fairness ==
  /\ \A p \in Producers : WF_vars(PushStep(p))
  /\ \A c \in Consumers : WF_vars(PopCall(c)) /\ WF_vars(PopStep(c))
  /\ \A k \in Closers : WF_vars(ShutdownStep(k))

FairSpec == Spec /\ Fairness

----------------------------------------------------------------------------
(* Properties *)

(* Every thread is where its role allows, sleepers sleep inside the call   *)
(* that put them to sleep, and items_ never outgrows capacity_.            *)
TypeOK ==
  /\ queue \in QueueOf(Values, {Capacity})
  /\ Len(queue.items) <= Capacity
  /\ pc \in [Threads -> ProducerPc \cup ConsumerPc \cup CloserPc]
  /\ \A p \in Producers : pc[p] \in ProducerPc
  /\ \A c \in Consumers : pc[c] \in ConsumerPc
  /\ \A k \in Closers : pc[k] \in CloserPc
  /\ waitNotFull \subseteq {p \in Producers : pc[p] = "push"}
  /\ waitNotEmpty \subseteq {c \in Consumers : pc[c] = "pop"}
  /\ accepted \in Seq(Values)
  /\ delivered \in Seq(Values)

(* Items leave in the order in which they entered, none is lost and none   *)
(* is delivered twice, whatever the interleaving of pushes and pops.       *)
Fifo == accepted = delivered \o queue.items

(* A consumer that has seen nullopt has seen the end: every item any push  *)
(* accepted has been delivered, and no push will succeed again.            *)
EndMeansDrained ==
  (\E c \in Consumers : pc[c] = "ended") =>
     queue.shutdown /\ delivered = accepted

(* Threads that are bound to run and to look at the queue, or to wake a    *)
(* sleeper that will.                                                      *)
PushSignals    == {p \in Producers : pc[p] = "notify"}
PopSignals     == {c \in Consumers : pc[c] = "notify"}
AwakeProducers == {p \in Producers : AwakeInPush(p)}
AwakeConsumers == {c \in Consumers : AwakeInPop(c)}

(* No lost wakeup: whenever a sleeping consumer could proceed, some thread *)
(* is awake in pop() or has a notification of not_empty_ still to send;    *)
(* and the same for sleeping producers and not_full_.                      *)
NoLostWakeup ==
  /\ waitNotEmpty # {} /\ PopReturns(queue) =>
       \/ PushSignals # {} \/ AwakeConsumers # {}
       \/ \E k \in Closers : pc[k] \in {"full", "empty"}
  /\ waitNotFull # {} /\ PushReturns(queue) =>
       \/ PopSignals # {} \/ AwakeProducers # {}
       \/ \E k \in Closers : pc[k] = "full"

(* The inductive form: before a shutdown there is one pending notification *)
(* or awake thread for every item (every free slot) while someone sleeps;  *)
(* after it, someone sleeps only while a notify_all is pending.            *)
WakeupsCoverItems ==
  ~queue.shutdown /\ waitNotEmpty # {} =>
    Len(queue.items) <= Cardinality(PushSignals) + Cardinality(AwakeConsumers)

WakeupsCoverSlots ==
  ~queue.shutdown /\ waitNotFull # {} =>
    Capacity - Len(queue.items)
      <= Cardinality(PopSignals) + Cardinality(AwakeProducers)

ShutdownCoversSleepers ==
  queue.shutdown =>
    /\ waitNotFull # {} => \E k \in Closers : pc[k] = "full"
    /\ waitNotEmpty # {} => \E k \in Closers : pc[k] \in {"full", "empty"}

WakeupInv ==
  WakeupsCoverItems /\ WakeupsCoverSlots /\ ShutdownCoversSleepers

(* Once shut down, the queue accepts nothing more and stays shut down.     *)
ShutdownIsFinal ==
  [][queue.shutdown => queue'.shutdown /\ accepted' = accepted]_vars

(* Every accepted item is eventually delivered: consumers drain the queue, *)
(* before and after a shutdown.                                            *)
EveryItemDelivered ==
  \A n \in 1..MaxPushes : Len(accepted) >= n ~> Len(delivered) >= n

(* The call each thread has not returned from, as AtomicQueue sees it: a   *)
(* call takes effect in its critical section.                              *)
CallOf ==
  [t \in Producers \cup Consumers |->
     IF pc[t] \in {"idle", "notify"} THEN "none" ELSE pc[t]]

Atomic == INSTANCE AtomicQueue WITH call <- CallOf

(* The queue with its mutex and condition variables implements the atomic  *)
(* blocking queue, its progress guarantees included.                       *)
ImplementsAtomicQueue == Atomic!Spec
=============================================================================
