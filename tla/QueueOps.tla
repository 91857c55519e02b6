------------------------------ MODULE QueueOps ------------------------------
(***************************************************************************)
(* The object BoundedQueue<T> (runtime/BoundedQueue.hpp) as a value: the   *)
(* record of its members, the predicates its two condition variables wait  *)
(* for, and what the critical section of push(), pop() and shutdown() does *)
(* to it.  A thread may run the critical section of push() only in a state *)
(* that satisfies PushReturns, that of pop() only in one that satisfies    *)
(* PopReturns: until then the call blocks.                                 *)
(***************************************************************************)
EXTENDS Naturals, Sequences

NewQueue(capacity) ==
  [items |-> <<>>, capacity |-> capacity, shutdown |-> FALSE]

QueueOf(Elements, Capacities) ==
  [items : Seq(Elements), capacity : Capacities, shutdown : BOOLEAN]

(* Mutants of the operators below, which the properties must catch.        *)
NoCapacityCheck(q) == TRUE
DrainedOnShutdown(q) == q.shutdown
NewestFirst(q) ==
  IF q.items = <<>> THEN q
  ELSE [q EXCEPT !.items = SubSeq(@, 1, Len(@) - 1)]

(* The predicate push() waits for on not_full_. *)
PushReturns(q) == q.shutdown \/ Len(q.items) < q.capacity

(* The predicate pop() waits for on not_empty_. *)
PopReturns(q) == q.shutdown \/ q.items # <<>>

(* pop() returns std::nullopt. *)
Drained(q) == q.shutdown /\ q.items = <<>>

(* push() returns false and leaves the items alone after a shutdown(). *)
Push(q, x) == IF q.shutdown THEN q ELSE [q EXCEPT !.items = Append(@, x)]

Oldest(q) == Head(q.items)

Pop(q) == IF q.items = <<>> THEN q ELSE [q EXCEPT !.items = Tail(@)]

Shutdown(q) == [q EXCEPT !.shutdown = TRUE]
=============================================================================
