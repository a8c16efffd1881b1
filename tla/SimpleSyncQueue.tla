--------------------------- MODULE SimpleSyncQueue ---------------------------
(***************************************************************************)
(* pkg/queue/queue.go: a FIFO of distinct items protected by a mutex, with *)
(* a condition variable that parks consumers while the queue is empty.     *)
(*                                                                         *)
(* Every method holds the mutex from its first to its last line, except    *)
(* that emptyCond.Wait releases it while the caller is parked.  So a call  *)
(* of Enqueue or Shutdown is one step, and a call of Dequeue is one step   *)
(* for each time it gets hold of the mutex: on entry and after each wake.  *)
(*                                                                         *)
(* A consumer is a goroutine in the loop of MicroVMController.Run: it      *)
(* dequeues, works on the item, and comes back, until Dequeue tells it the *)
(* queue has shut down.                                                    *)
(***************************************************************************)
EXTENDS QueueOps, FiniteSets

CONSTANTS Items,      \* what can be queued (microvm ids)
          Consumers   \* the goroutines calling Dequeue

ASSUME ConsumersFinite == IsFiniteSet(Consumers)

VARIABLES items,         \* the slice
          shuttingDown,
          consumer       \* where each consumer is in its loop

vars == <<items, shuttingDown, consumer>>

ConsumerState ==
  {"calling",   \* about to take the mutex at the top of Dequeue
   "waiting",   \* parked in emptyCond.Wait
   "woken",     \* signalled, about to take the mutex again inside Wait
   "working",   \* Dequeue returned an item
   "done"}      \* Dequeue returned shutdown = true

At(s) == {c \in Consumers : consumer[c] = s}

Waiting == At("waiting")
Woken == At("woken")

Init ==
  /\ items = <<>>
  /\ shuttingDown = FALSE
  /\ consumer = [c \in Consumers |-> "calling"]

-----------------------------------------------------------------------------
\* emptyCond.Signal: wakes one parked consumer, if there is one.
Signal ==
  IF Waiting = {}
    THEN UNCHANGED consumer
    ELSE \E c \in Waiting : consumer' = [consumer EXCEPT ![c] = "woken"]

\* Mutant: Enqueue signals only when the queue was empty, on the theory that
\* a non-empty queue has no one waiting for it.
EnqueueSignalWhenEmpty(item) ==
  /\ ~shuttingDown
  /\ ~Exists(items, item)
  /\ items' = Enqueued(items, item)
  /\ IF items = <<>> THEN Signal ELSE UNCHANGED consumer
  /\ UNCHANGED shuttingDown

\* Mutant: Enqueue appends without looking for an equal item.
EnqueueTwice(item) ==
  /\ ~shuttingDown
  /\ Len(items) <= Cardinality(Items)
  /\ items' = EnqueuedTwice(items, item)
  /\ Signal
  /\ UNCHANGED shuttingDown

\* Mutant: an empty interface value is queued in place of the item.
EnqueueNil(item) ==
  /\ ~shuttingDown
  /\ ~Exists(items, "nil")
  /\ items' = Enqueued(items, "nil")
  /\ Signal
  /\ UNCHANGED shuttingDown

\* A call that returns early, because the queue is shutting down or holds an
\* equal item, changes nothing.
Enqueue(item) ==
  /\ ~shuttingDown
  /\ ~Exists(items, item)
  /\ items' = Enqueued(items, item)
  /\ Signal
  /\ UNCHANGED shuttingDown

\* Dequeue finds nothing and parks, on entry or after a wake that another
\* consumer got ahead of.
DequeueWait(c) ==
  /\ consumer[c] \in {"calling", "woken"}
  /\ items = <<>> /\ ~shuttingDown
  /\ consumer' = [consumer EXCEPT ![c] = "waiting"]
  /\ UNCHANGED <<items, shuttingDown>>

\* Dequeue hands out the oldest item, also after Shutdown.
DequeueItem(c) ==
  /\ consumer[c] \in {"calling", "woken"}
  /\ items # <<>>
  /\ items' = Tail(items)
  /\ consumer' = [consumer EXCEPT ![c] = "working"]
  /\ UNCHANGED shuttingDown

\* Mutant: the consumer is told to stop although items are left.
DequeueStopEarly(c) ==
  /\ consumer[c] \in {"calling", "woken"}
  /\ shuttingDown
  /\ consumer' = [consumer EXCEPT ![c] = "done"]
  /\ UNCHANGED <<items, shuttingDown>>

\* Dequeue reports the shutdown once the slice is empty.
DequeueStop(c) ==
  /\ consumer[c] \in {"calling", "woken"}
  /\ items = <<>> /\ shuttingDown
  /\ consumer' = [consumer EXCEPT ![c] = "done"]
  /\ UNCHANGED <<items, shuttingDown>>

\* The consumer is through with its item and calls Dequeue again.
Work(c) ==
  /\ consumer[c] = "working"
  /\ consumer' = [consumer EXCEPT ![c] = "calling"]
  /\ UNCHANGED <<items, shuttingDown>>

\* Mutant: Shutdown wakes one consumer and not all of them.
ShutdownSignal ==
  /\ shuttingDown' = TRUE
  /\ Signal
  /\ UNCHANGED items

\* Sets the flag and broadcasts.
Shutdown ==
  /\ shuttingDown' = TRUE
  /\ consumer' = [c \in Consumers |-> IF c \in Waiting THEN "woken" ELSE consumer[c]]
  /\ UNCHANGED items

Dequeue(c) == DequeueWait(c) \/ DequeueItem(c) \/ DequeueStop(c)

Next ==
  \/ \E item \in Items : Enqueue(item)
  \/ \E c \in Consumers : Dequeue(c) \/ Work(c)
  \/ Shutdown

\* A runnable goroutine gets the mutex eventually (Go's sync.Mutex does not
\* starve a waiter), and a consumer eventually finishes its item.  Nothing
\* forces anyone to enqueue or to shut the queue down.
Spec ==
  /\ Init /\ [][Next]_vars
  /\ \A c \in Consumers : WF_vars(Dequeue(c)) /\ WF_vars(Work(c))

-----------------------------------------------------------------------------
\* The slice holds queued items only, never a hole, and every consumer is at one
\* of the points of its loop.
TypeOK ==
  /\ items \in Seq(Items)
  /\ shuttingDown \in BOOLEAN
  /\ consumer \in [Consumers -> ConsumerState]

\* "If the item being enqueued already exists then it will be ignored"
\* (queue.go:14): no two entries of the slice are equal.
NoDuplicates ==
  \A i, j \in 1 .. Len(items) : items[i] = items[j] => i = j

\* No wakeup is lost: as long as some consumer is parked and the queue is
\* open, every queued item has a signalled consumer on its way to the mutex,
\* so no item sits in the slice while everyone who could take it sleeps.
\* Enqueue signals once per item and any consumer may take the item first.
NoLostWakeup ==
  (Waiting # {} /\ ~shuttingDown) => Len(items) <= Cardinality(Woken)

\* After Shutdown nobody is parked, so nobody has to be signalled again.
NobodyWaitsAfterShutdown == shuttingDown => Waiting = {}

\* The queue implements DedupQueue: the pending set is what the slice holds,
\* and the active consumers are those that Dequeue has not dismissed.
Abstract == INSTANCE DedupQueue WITH
  pending <- {items[i] : i \in 1 .. Len(items)},
  closed <- shuttingDown,
  active <- Consumers \ At("done")

\* Every step of the queue is a step of DedupQueue or changes nothing it can
\* see, every queued item is handed out, and after Shutdown every consumer is
\* dismissed with the queue drained (the promise tested by queue_test.go).
ImplementsDedupQueue == Abstract!Spec

=============================================================================
