----------------------------- MODULE AtomicQueue -----------------------------
(***************************************************************************)
(* What BoundedQueue promises to its callers, without mutexes, condition   *)
(* variables or wakeups: push() and pop() are calls that take effect in    *)
(* one step, at some moment between the call and the return, as soon as    *)
(* the queue lets them.  This is the queue MarketDataPipeline is built on. *)
(***************************************************************************)
EXTENDS QueueOps

CONSTANTS Producers, Consumers, Values, Capacity

VARIABLES queue,   \* the BoundedQueue object
          call     \* call[t]: the call thread t has not returned from

avars == <<queue, call>>

Init ==
  /\ queue = NewQueue(Capacity)
  /\ call = [t \in Producers \cup Consumers |-> "none"]

CallPush(p) ==
  /\ call[p] = "none"
  /\ call' = [call EXCEPT ![p] = "push"]
  /\ UNCHANGED queue

CallPop(c) ==
  /\ call[c] = "none"
  /\ call' = [call EXCEPT ![c] = "pop"]
  /\ UNCHANGED queue

(* push() takes effect and returns: true before, false after a shutdown.   *)
ReturnPush(p) ==
  /\ call[p] = "push"
  /\ PushReturns(queue)
  /\ \E v \in Values : queue' = Push(queue, v)
  /\ call' = [call EXCEPT ![p] = "none"]

(* pop() takes effect and returns an item, or nullopt; the consumers of    *)
(* this program call pop() in a loop that ends with the first nullopt.     *)
ReturnPop(c) ==
  /\ call[c] = "pop"
  /\ PopReturns(queue)
  /\ queue' = Pop(queue)
  /\ call' = [call EXCEPT ![c] = IF Drained(queue) THEN "ended" ELSE "none"]

Close ==
  /\ queue' = Shutdown(queue)
  /\ UNCHANGED call

Next ==
  \/ \E p \in Producers : CallPush(p) \/ ReturnPush(p)
  \/ \E c \in Consumers : CallPop(c) \/ ReturnPop(c)
  \/ Close

(* Some blocked call proceeds whenever the queue lets one proceed, and     *)
(* after a shutdown() every single call returns.                           *)
Fairness ==
  /\ WF_avars(\E p \in Producers : ReturnPush(p))
  /\ WF_avars(\E c \in Consumers : ReturnPop(c))
  /\ \A p \in Producers : WF_avars(queue.shutdown /\ ReturnPush(p))
  /\ \A c \in Consumers : WF_avars(queue.shutdown /\ ReturnPop(c))

SafeSpec == Init /\ [][Next]_avars

Spec == SafeSpec /\ Fairness
=============================================================================
