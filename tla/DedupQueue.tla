----------------------------- MODULE DedupQueue -----------------------------
(***************************************************************************)
(* What the controller expects of its work queue, without a list, a lock   *)
(* or a condition variable: a set of items that still have to be handed    *)
(* out.  An item that is already in the set is absorbed; every item in the *)
(* set is handed out; once the queue is closed nothing enters it, and each *)
(* consumer is released as soon as the set is empty.                       *)
(***************************************************************************)
CONSTANTS Items,      \* what can be queued (microvm ids)
          Consumers   \* the goroutines calling Dequeue

VARIABLES pending,    \* items queued and not handed out
          closed,     \* Shutdown has been called
          active      \* consumers not yet told to stop

vars == <<pending, closed, active>>

Init == pending = {} /\ closed = FALSE /\ active = Consumers

Add(x) == ~closed /\ pending' = pending \cup {x} /\ UNCHANGED <<closed, active>>

Take(x) == x \in pending /\ pending' = pending \ {x} /\ UNCHANGED <<closed, active>>

Close == closed' = TRUE /\ UNCHANGED <<pending, active>>

Leave(c) ==
  /\ closed /\ pending = {}
  /\ c \in active /\ active' = active \ {c}
  /\ UNCHANGED <<pending, closed>>

Next ==
  \/ \E x \in Items : Add(x) \/ Take(x)
  \/ Close
  \/ \E c \in Consumers : Leave(c)

Spec ==
  /\ Init /\ [][Next]_vars
  /\ \A x \in Items : WF_vars(Take(x))
  /\ \A c \in Consumers : WF_vars(Leave(c))

=============================================================================
