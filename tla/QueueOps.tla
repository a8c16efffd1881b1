------------------------------ MODULE QueueOps ------------------------------
(***************************************************************************)
(* The list operations of pkg/queue/queue.go, as functions of the slice of *)
(* items.  SimpleSyncQueue uses them under its lock; Flintlock uses them   *)
(* for the controller's work queue, where every call is one atomic step.   *)
(***************************************************************************)
EXTENDS Naturals, Sequences

\* An equal item is already waiting in the slice.
Exists(items, item) == \E i \in 1 .. Len(items) : items[i] = item

\* Mutant: the list forgets to look for an equal item.
EnqueuedTwice(items, item) == Append(items, item)

\* Mutant: a new item goes to the front.
EnqueuedFirst(items, item) ==
  IF Exists(items, item) THEN items ELSE <<item>> \o items

\* What Enqueue leaves in the slice of a queue that is not shutting down.
Enqueued(items, item) ==
  IF Exists(items, item) THEN items ELSE Append(items, item)

=============================================================================
