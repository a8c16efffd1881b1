----------------------- MODULE SimpleSyncQueue_proofs -----------------------
(***************************************************************************)
(* Proofs about SimpleSyncQueue for any set of items and any finite set of *)
(* consumers.                                                              *)
(***************************************************************************)
EXTENDS SimpleSyncQueue, FiniteSetTheorems, SequenceTheorems, TLAPS

\* The slice and the loop positions keep their types.
THEOREM TypeCorrect == Spec => []TypeOK
<1>1. Init => TypeOK
  <2> SUFFICES ASSUME Init PROVE TypeOK
    OBVIOUS
  <2>1. items \in Seq(Items)
    BY EmptySeq DEF Init
  <2>2. shuttingDown \in BOOLEAN /\ consumer \in [Consumers -> ConsumerState]
    BY Zenon DEF Init, ConsumerState
  <2> QED
    BY <2>1, <2>2 DEF TypeOK
<1>2. TypeOK /\ [Next]_vars => TypeOK'
  <2> SUFFICES ASSUME TypeOK, [Next]_vars PROVE TypeOK'
    OBVIOUS
  <2> USE DEF TypeOK, ConsumerState
  <2>1. ASSUME NEW item \in Items, Enqueue(item) PROVE TypeOK'
    BY <2>1 DEF Enqueue, Enqueued, Signal, Waiting, At
  <2>2. ASSUME NEW c \in Consumers, DequeueWait(c) PROVE TypeOK'
    BY <2>2 DEF DequeueWait
  <2>3. ASSUME NEW c \in Consumers, DequeueItem(c) PROVE TypeOK'
    BY <2>3 DEF DequeueItem
  <2>4. ASSUME NEW c \in Consumers, DequeueStop(c) PROVE TypeOK'
    BY <2>4 DEF DequeueStop
  <2>5. ASSUME NEW c \in Consumers, Work(c) PROVE TypeOK'
    BY <2>5 DEF Work
  <2>6. CASE Shutdown
    BY <2>6 DEF Shutdown
  <2>7. CASE UNCHANGED vars
    BY <2>7 DEF vars
  <2> QED
    BY <2>1, <2>2, <2>3, <2>4, <2>5, <2>6, <2>7 DEF Next, Dequeue
<1> QED
  BY <1>1, <1>2, PTL DEF Spec

-----------------------------------------------------------------------------
\* Appending an item that is not there keeps the entries distinct.
LEMMA EnqueuedDistinct ==
  ASSUME NEW item \in Items, TypeOK, NoDuplicates, ~Exists(items, item),
         items' = Enqueued(items, item)
  PROVE  NoDuplicates'
<1> USE DEF TypeOK
<1>1. items' = Append(items, item)
  BY DEF Enqueued
<1>2. Len(items') = Len(items) + 1
  BY <1>1, AppendProperties
<1>3. items'[Len(items) + 1] = item
  BY <1>1, AppendProperties
<1>4. \A i \in 1 .. Len(items) : items'[i] = items[i] /\ items[i] # item
  BY <1>1, AppendProperties DEF Exists
<1>5. Len(items) \in Nat
  OBVIOUS
<1> QED
  BY <1>2, <1>3, <1>4, <1>5 DEF NoDuplicates

\* Taking the head keeps the remaining entries distinct.
LEMMA TailDistinct ==
  ASSUME TypeOK, NoDuplicates, items # <<>>, items' = Tail(items)
  PROVE  NoDuplicates'
<1> USE DEF TypeOK
<1>1. Len(items') = Len(items) - 1 /\ Len(items) \in Nat \ {0}
  BY HeadTailProperties, EmptySeq
<1>2. \A i \in 1 .. Len(items') : items'[i] = items[i + 1]
  BY <1>1, HeadTailProperties
<1> QED
  BY <1>1, <1>2 DEF NoDuplicates

\* The FIFO never holds two equal items (queue.go:14).
THEOREM NeverDuplicates == Spec => []NoDuplicates
<1>1. Init => NoDuplicates
  BY DEF Init, NoDuplicates
<1>2. TypeOK /\ NoDuplicates /\ [Next]_vars => NoDuplicates'
  <2> SUFFICES ASSUME TypeOK, NoDuplicates, [Next]_vars PROVE NoDuplicates'
    OBVIOUS
  <2>1. ASSUME NEW item \in Items, Enqueue(item) PROVE NoDuplicates'
    BY <2>1, EnqueuedDistinct DEF Enqueue
  <2>2. ASSUME NEW c \in Consumers, DequeueItem(c) PROVE NoDuplicates'
    BY <2>2, TailDistinct DEF DequeueItem
  <2>3. CASE UNCHANGED items
    BY <2>3 DEF NoDuplicates
  <2> QED
    BY <2>1, <2>2, <2>3
       DEF Next, Dequeue, DequeueWait, DequeueStop, Work, Shutdown, vars
<1> QED
  BY <1>1, <1>2, TypeCorrect, PTL DEF Spec

-----------------------------------------------------------------------------
\* The set of consumers at any place of the loop is finite.
LEMMA AtFinite ==
  ASSUME NEW s PROVE IsFiniteSet(At(s)) /\ Cardinality(At(s)) \in Nat
BY ConsumersFinite, FS_Subset, FS_CardinalityType DEF At

\* Waking a parked consumer adds it to the woken ones.
LEMMA WakeOne ==
  ASSUME TypeOK, NEW c \in Waiting, consumer' = [consumer EXCEPT ![c] = "woken"]
  PROVE  Cardinality(Woken') = Cardinality(Woken) + 1
<1>1. Woken' = Woken \cup {c} /\ c \notin Woken
  BY DEF Woken, Waiting, At, TypeOK
<1> QED
  BY <1>1, AtFinite, FS_AddElement DEF Woken

\* A woken consumer that moves on leaves one woken consumer fewer.
LEMMA WokenLeaves ==
  ASSUME TypeOK, NEW c \in Consumers, NEW s \in ConsumerState \ {"woken"},
         consumer' = [consumer EXCEPT ![c] = s]
  PROVE  /\ c \in Woken => Cardinality(Woken') = Cardinality(Woken) - 1
         /\ c \notin Woken => Woken' = Woken
<1>1. CASE c \in Woken
  <2>1. Woken' = Woken \ {c}
    BY <1>1 DEF Woken, At, TypeOK, ConsumerState
  <2> QED
    BY <1>1, <2>1, AtFinite, FS_RemoveElement DEF Woken
<1>2. CASE c \notin Woken
  BY <1>2 DEF Woken, At, TypeOK, ConsumerState
<1> QED
  BY <1>1, <1>2

\* No item waits in an open queue while all consumers that could take it are
\* parked, whatever the number of consumers and the order in which signalled
\* and newly calling consumers reach the mutex.
THEOREM WakeupsNeverLost == Spec => []NoLostWakeup
<1>1. Init => NoLostWakeup
  BY DEF Init, NoLostWakeup, Waiting, At
<1>2. TypeOK /\ NoLostWakeup /\ [Next]_vars => NoLostWakeup'
  <2> SUFFICES ASSUME TypeOK, NoLostWakeup, [Next]_vars PROVE NoLostWakeup'
    OBVIOUS
  <2> DEFINE card == Cardinality(Woken)
  <2>0. card \in Nat /\ Len(items) \in Nat /\ items \in Seq(Items)
    BY AtFinite DEF Woken, TypeOK
  <2>1. ASSUME NEW item \in Items, Enqueue(item) PROVE NoLostWakeup'
    <3>1. Len(items') = Len(items) + 1 /\ shuttingDown' = shuttingDown
      BY <2>0, <2>1, AppendProperties DEF Enqueue, Enqueued
    <3>2. CASE Waiting = {}
      BY <2>1, <3>2 DEF Enqueue, Signal, NoLostWakeup, Waiting, At
    <3>3. CASE Waiting # {}
      <4>1. PICK c \in Waiting : consumer' = [consumer EXCEPT ![c] = "woken"]
        BY <2>1, <3>3 DEF Enqueue, Signal
      <4>2. Cardinality(Woken') = card + 1
        BY Zenon, <4>1, WakeOne
      <4> QED
        BY <2>0, <3>1, <3>3, <4>2 DEF NoLostWakeup
    <3> QED
      BY <3>2, <3>3
  <2>2. ASSUME NEW c \in Consumers, DequeueWait(c) PROVE NoLostWakeup'
    <3>1. Len(items') = 0 /\ Cardinality(Woken') \in Nat
      <4>1. IsFiniteSet(Woken')
        BY ConsumersFinite, FS_Subset DEF Woken, At
      <4> QED
        BY <2>2, <4>1, FS_CardinalityType DEF DequeueWait
    <3> QED
      BY <3>1 DEF NoLostWakeup
  <2>3. ASSUME NEW c \in Consumers, DequeueItem(c) PROVE NoLostWakeup'
    <3>1. Len(items') = Len(items) - 1 /\ shuttingDown' = shuttingDown
      BY <2>0, <2>3, HeadTailProperties DEF DequeueItem
    <3>2. Waiting' = Waiting
      BY <2>3 DEF DequeueItem, Waiting, At, TypeOK
    <3>3. /\ c \in Woken => Cardinality(Woken') = card - 1
          /\ c \notin Woken => Woken' = Woken
      BY Zenon, <2>3, WokenLeaves DEF DequeueItem, ConsumerState
    <3> QED
      BY <2>0, <3>1, <3>2, <3>3 DEF NoLostWakeup
  <2>4. ASSUME NEW c \in Consumers, DequeueStop(c) PROVE NoLostWakeup'
    BY <2>4 DEF DequeueStop, NoLostWakeup
  <2>5. ASSUME NEW c \in Consumers, Work(c) PROVE NoLostWakeup'
    <3>1. Waiting' = Waiting /\ Woken' = Woken
      BY <2>5 DEF Work, Waiting, Woken, At, TypeOK
    <3> QED
      BY <2>5, <3>1 DEF Work, NoLostWakeup
  <2>6. CASE Shutdown
    BY <2>6 DEF Shutdown, NoLostWakeup
  <2>7. CASE UNCHANGED vars
    BY <2>7 DEF vars, NoLostWakeup, Waiting, Woken, At
  <2> QED
    BY <2>1, <2>2, <2>3, <2>4, <2>5, <2>6, <2>7 DEF Next, Dequeue
<1> QED
  BY <1>1, <1>2, TypeCorrect, PTL DEF Spec

-----------------------------------------------------------------------------
\* The broadcast of Shutdown leaves nobody parked, and nobody parks after it, for
\* any number of consumers (queue.go, Shutdown and the loop of Dequeue).
THEOREM ShutdownWakesAll == Spec => []NobodyWaitsAfterShutdown
<1>1. Init => NobodyWaitsAfterShutdown
  BY DEF Init, NobodyWaitsAfterShutdown
<1>2. TypeOK /\ NobodyWaitsAfterShutdown /\ [Next]_vars => NobodyWaitsAfterShutdown'
  <2> SUFFICES ASSUME TypeOK, NobodyWaitsAfterShutdown, [Next]_vars
               PROVE  NobodyWaitsAfterShutdown'
    OBVIOUS
  <2> USE DEF TypeOK, NobodyWaitsAfterShutdown, Waiting, At
  <2>1. ASSUME NEW item \in Items, Enqueue(item) PROVE NobodyWaitsAfterShutdown'
    BY <2>1 DEF Enqueue
  <2>2. ASSUME NEW c \in Consumers, Dequeue(c) PROVE NobodyWaitsAfterShutdown'
    BY Zenon, <2>2 DEF Dequeue, DequeueWait, DequeueItem, DequeueStop
  <2>3. ASSUME NEW c \in Consumers, Work(c) PROVE NobodyWaitsAfterShutdown'
    BY <2>3 DEF Work
  <2>4. CASE Shutdown
    BY <2>4 DEF Shutdown
  <2>5. CASE UNCHANGED vars
    BY <2>5 DEF vars
  <2> QED
    BY <2>1, <2>2, <2>3, <2>4, <2>5 DEF Next
<1> QED
  BY <1>1, <1>2, TypeCorrect, PTL DEF Spec

-----------------------------------------------------------------------------
\* The entries of the slice, the pending set of DedupQueue.
Entries == {items[i] : i \in 1 .. Len(items)}

\* Enqueue adds its item to the entries.
LEMMA EntriesEnqueued ==
  ASSUME TypeOK, NEW item \in Items, ~Exists(items, item),
         items' = Enqueued(items, item)
  PROVE  Entries' = Entries \cup {item}
<1> USE DEF TypeOK
<1>1. /\ Len(items') = Len(items) + 1 /\ Len(items) \in Nat
      /\ items'[Len(items) + 1] = item
      /\ \A i \in 1 .. Len(items) : items'[i] = items[i]
  BY AppendProperties DEF Enqueued
<1>2. 1 .. Len(items') = (1 .. Len(items)) \cup {Len(items) + 1}
  BY <1>1
<1> QED
  BY <1>1, <1>2 DEF Entries

\* Dequeue removes the head and, the entries being distinct, only the head.
LEMMA EntriesTail ==
  ASSUME TypeOK, NoDuplicates, items # <<>>, items' = Tail(items)
  PROVE  /\ items[1] \in Entries
         /\ Entries' = Entries \ {items[1]}
<1> USE DEF TypeOK
<1>1. Len(items') = Len(items) - 1 /\ Len(items) \in Nat \ {0}
  BY HeadTailProperties, EmptySeq
<1>2. \A i \in 1 .. Len(items') : items'[i] = items[i + 1]
  BY <1>1, HeadTailProperties
<1>3. items[1] \in Entries
  BY <1>1 DEF Entries
<1>4. ASSUME NEW x \in Entries' PROVE x \in Entries \ {items[1]}
  <2>1. PICK i \in 1 .. Len(items') : x = items'[i]
    BY <1>4 DEF Entries
  <2>2. x = items[i + 1] /\ i + 1 \in 1 .. Len(items) /\ i + 1 # 1
    BY <1>1, <1>2, <2>1
  <2> QED
    BY <1>1, <2>2 DEF Entries, NoDuplicates
<1>5. ASSUME NEW x \in Entries, x # items[1] PROVE x \in Entries'
  <2>1. PICK i \in 1 .. Len(items) : x = items[i]
    BY DEF Entries
  <2>2. i - 1 \in 1 .. Len(items')
    BY <1>1, <1>5, <2>1
  <2>3. items'[i - 1] = x
    BY <1>1, <1>2, <2>1, <2>2
  <2> QED
    BY <2>2, <2>3 DEF Entries
<1> QED
  BY <1>3, <1>4, <1>5

\* The safety part of ImplementsDedupQueue: seen through the refinement
\* mapping, the locked slice with its condition variable starts as and only
\* ever makes the steps of DedupQueue.
THEOREM RefinesDedupQueue ==
  Spec => Abstract!Init /\ [][Abstract!Next]_(Abstract!vars)
<1> USE DEF Abstract!Next, Abstract!Add, Abstract!Take, Abstract!Close,
            Abstract!Leave, Abstract!vars
<1>1. Init => Abstract!Init
  <2> SUFFICES ASSUME Init PROVE Abstract!Init
    OBVIOUS
  <2>1. Len(items) = 0 /\ 1 .. 0 = {}
    BY EmptySeq DEF Init
  <2>2. At("done") = {}
    BY DEF Init, At
  <2> QED
    BY <2>1, <2>2 DEF Init, Abstract!Init
<1>2. TypeOK /\ NoDuplicates /\ [Next]_vars => [Abstract!Next]_(Abstract!vars)
  <2> SUFFICES ASSUME TypeOK, NoDuplicates, [Next]_vars
               PROVE  [Abstract!Next]_(Abstract!vars)
    BY Zenon
  <2>1. ASSUME NEW item \in Items, Enqueue(item) PROVE Abstract!Add(item)
    <3>1. Entries' = Entries \cup {item}
      BY <2>1, EntriesEnqueued DEF Enqueue
    <3>2. At("done")' = At("done")
      BY <2>1 DEF Enqueue, Signal, Waiting, At, TypeOK
    <3> QED
      BY <2>1, <3>1, <3>2 DEF Enqueue, Entries
  <2>2. ASSUME NEW c \in Consumers, DequeueWait(c) PROVE UNCHANGED Abstract!vars
    <3>1. At("done")' = At("done")
      BY <2>2 DEF DequeueWait, At, TypeOK
    <3> QED
      BY <2>2, <3>1 DEF DequeueWait
  <2>3. ASSUME NEW c \in Consumers, DequeueItem(c)
        PROVE  items[1] \in Items /\ Abstract!Take(items[1])
    <3>1. items[1] \in Entries /\ Entries' = Entries \ {items[1]}
      BY <2>3, EntriesTail DEF DequeueItem
    <3>2. At("done")' = At("done")
      BY <2>3 DEF DequeueItem, At, TypeOK
    <3>3. items[1] \in Items
      BY <2>3, EmptySeq, HeadTailProperties DEF DequeueItem, TypeOK
    <3> QED
      BY Zenon, <2>3, <3>1, <3>2, <3>3 DEF DequeueItem, Entries
  <2>4. ASSUME NEW c \in Consumers, DequeueStop(c) PROVE Abstract!Leave(c)
    <3>1. Len(items) = 0 /\ 1 .. 0 = {}
      BY <2>4, EmptySeq DEF DequeueStop
    <3>2. Consumers \ At("done")' = (Consumers \ At("done")) \ {c}
      BY <2>4 DEF DequeueStop, At, TypeOK
    <3>3. c \in Consumers \ At("done")
      BY <2>4 DEF DequeueStop, At
    <3> QED
      BY <2>4, <3>1, <3>2, <3>3 DEF DequeueStop
  <2>5. ASSUME NEW c \in Consumers, Work(c) PROVE UNCHANGED Abstract!vars
    <3>1. At("done")' = At("done")
      BY <2>5 DEF Work, At, TypeOK
    <3> QED
      BY <2>5, <3>1 DEF Work
  <2>6. ASSUME Shutdown PROVE Abstract!Close
    <3>1. At("done")' = At("done")
      BY <2>6 DEF Shutdown, At, Waiting, TypeOK
    <3> QED
      BY <2>6, <3>1 DEF Shutdown
  <2>7. ASSUME UNCHANGED vars PROVE UNCHANGED Abstract!vars
    BY <2>7 DEF vars, At
  <2> QED
    BY Zenon, <2>1, <2>2, <2>3, <2>4, <2>5, <2>6, <2>7 DEF Next, Dequeue
<1> QED
  BY <1>1, <1>2, TypeCorrect, NeverDuplicates, PTL DEF Spec

=============================================================================
