--------------------------- MODULE UploadPoolProofs ---------------------------
(***************************************************************************)
(* Theorems about the pool of the web uploader: what check() and run() do  *)
(* to one another for any number of uploads, places and twins.             *)
(*                                                                         *)
(* The argument: as long as the limit has not been raised over items that  *)
(* wait, an item waits only when every place is taken.  A place given up,  *)
(* or an item that comes, therefore makes a slice of one item at most, and *)
(* what looks like a recursion of slices is a loop over the queue.         *)
(***************************************************************************)
EXTENDS UploadPool, FiniteSetTheorems, SequenceTheorems, TLAPS

Step == PoolNext \/ UNCHANGED poolVars

-----------------------------------------------------------------------------
(* Operators.                                                              *)

\* A slice of the queue is a sequence of items that begins like the queue, and is empty
\* only when nothing waits or no place is free.
LEMMA ReadySlice ==
    ASSUME NEW q \in Seq(Items), NEW p, IsFiniteSet(p), NEW l \in Nat
    PROVE  /\ Ready(q, p, l) \in Seq(Items)
           /\ Ready(q, p, l) = <<>> <=> q = <<>> \/ Cardinality(p) >= l
           /\ Ready(q, p, l) # <<>> => Head(Ready(q, p, l)) = Head(q)
           /\ Len(q) <= 1 \/ Cardinality(p) + 1 >= l => Len(Ready(q, p, l)) <= 1
<1> DEFINE n == IF Available(p, l) < Len(q) THEN Available(p, l) ELSE Len(q)
<1>1. Cardinality(p) \in Nat
  BY FS_CardinalityType
<1>2. /\ Available(p, l) \in Nat
      /\ Available(p, l) = 0 <=> Cardinality(p) >= l
      /\ Cardinality(p) + 1 >= l => Available(p, l) <= 1
  BY <1>1 DEF Available
<1>3. n \in 0 .. Len(q) /\ Len(q) \in Nat
  BY <1>2
<1>4. Ready(q, p, l) = SubSeq(q, 1, n)
  BY DEF Ready
<1>5. /\ SubSeq(q, 1, n) \in Seq(Items) /\ Len(SubSeq(q, 1, n)) = n
      /\ n > 0 => SubSeq(q, 1, n)[1] = q[1]
  BY <1>3
<1> QED
  BY <1>2, <1>3, <1>4, <1>5

\* What is left of the queue without its head, or without an item that has left it.
LEMMA WithoutQueue ==
    ASSUME NEW q \in Seq(Items), NEW i
    PROVE  /\ Without(q, i) \in Seq(Items)
           /\ Without(q, i) \in {q} \cup (IF q = <<>> THEN {} ELSE {Tail(q)})
  BY DEF Without

-----------------------------------------------------------------------------
(* Types.                                                                  *)

\* The list of what is processed is finite whatever the items are.
Typed == PoolTypeOK /\ IsFiniteSet(processing)

LEMMA TypedInit == PoolInit => Typed
<1> SUFFICES ASSUME PoolInit
             PROVE  PoolTypeOK /\ IsFiniteSet(processing)
  BY DEF Typed
<1>1. queue \in Seq(Items) /\ frames \in Seq(Seq(Items))
  BY EmptySeq DEF PoolInit
<1> QED
  BY <1>1, FS_EmptySet DEF PoolInit, PoolTypeOK

LEMMA TypedStep == Typed /\ Step => Typed'
<1> SUFFICES ASSUME Typed, Step
             PROVE  Typed'
  OBVIOUS
<1> USE DEF Typed
<1>0. limit \in Nat /\ limit > 0
  BY PoolAssumption DEF PoolTypeOK
<1>1. ASSUME NEW i \in Items, Enqueue(i)
      PROVE  Typed'
  <2>1. queue' \in Seq(Items)
    BY <1>1 DEF Enqueue, PoolTypeOK
  <2>2. Ready(queue', processing, limit) \in Seq(Items)
    BY <1>0, <2>1, ReadySlice
  <2>3. frames' \in Seq(Seq(Items))
    BY <1>1, <2>2 DEF Enqueue
  <2> QED
    BY <1>1, <2>1, <2>3 DEF Enqueue, PoolTypeOK
<1>2. ASSUME NEW i \in Items, Reject(i)
      PROVE  Typed'
  <2>1. queue' \in Seq(Items) /\ processing' \subseteq Items /\ IsFiniteSet(processing')
    BY <1>2, WithoutQueue, FS_RemoveElement DEF Reject, PoolTypeOK
  <2>2. Ready(queue', processing', limit) \in Seq(Items)
    BY <1>0, <2>1, ReadySlice
  <2>3. frames[1] \in Seq(Items) /\ Tail(frames) \in Seq(Seq(Items)) /\ frames[1] # <<>>
    BY <1>2 DEF Reject, Returned, PoolTypeOK
  <2> QED
    BY <1>2, <2>1, <2>2, <2>3 DEF Reject, PoolTypeOK
<1>3. ASSUME NEW i \in Items, Run(i)
      PROVE  Typed'
  <2>1. queue' \in Seq(Items) /\ processing' \subseteq Items /\ IsFiniteSet(processing')
    BY <1>3, WithoutQueue, FS_AddElement DEF Run, PoolTypeOK
  <2>2. frames[1] \in Seq(Items) /\ Tail(frames) \in Seq(Seq(Items)) /\ frames[1] # <<>>
    BY <1>3 DEF Run, Returned, PoolTypeOK
  <2> QED
    BY <1>3, <2>1, <2>2 DEF Run, PoolTypeOK
<1>4. CASE CheckReturns
  BY <1>4 DEF CheckReturns, Returned, PoolTypeOK
<1>5. ASSUME NEW i \in Items, Release(i)
      PROVE  Typed'
  <2>1. IsFiniteSet(processing')
    BY <1>5, FS_RemoveElement DEF Release
  <2> QED
    BY <1>0, <1>5, <2>1, ReadySlice DEF Release, PoolTypeOK
<1>6. ASSUME NEW n \in Limits, ChangeLimit(n)
      PROVE  Typed'
  BY <1>6 DEF ChangeLimit, PoolTypeOK
<1>7. CASE UNCHANGED poolVars
  BY <1>7 DEF poolVars, PoolTypeOK
<1> QED
  BY <1>1, <1>2, <1>3, <1>4, <1>5, <1>6, <1>7 DEF Step, PoolNext, PoolStep

\* PoolSpec => []PoolTypeOK: the queue, the list processing and the call stack of check()
\* hold items only, for any items and limits.
THEOREM PoolTypes == PoolSpec => [](PoolTypeOK /\ IsFiniteSet(processing))
  BY TypedInit, TypedStep, PTL DEF PoolSpec, Step, Typed
-----------------------------------------------------------------------------
(* The places.                                                             *)

Distinct == \A m, n \in 1 .. Len(queue) : queue[m] = queue[n] => m = n

\* Whoever waits has not been started.
Waiting == Queued \cap running = {}

\* Items wait only for want of a place; while a slice is worked off, its one item is the
\* next to be started and has a place, which is the last unless nobody else waits.
Full == queue # <<>> => Cardinality(processing) >= limit
Loop ==
    IF Returned THEN Full
    ELSE /\ \A n \in 2 .. Len(frames) : frames[n] = <<>>
         /\ Len(frames[1]) <= 1
         /\ IF frames[1] = <<>> THEN Full
            ELSE /\ queue # <<>> /\ Head(frames[1]) = Head(queue)
                 /\ Cardinality(processing) < limit
                 /\ Len(queue) = 1 \/ Cardinality(processing) + 1 = limit

PlacesInv == Typed /\ Distinct /\ (~raised => Waiting /\ PlacesCounted /\ NoTwins /\ Loop)

\* A slice made when items wait only for want of the one place that is free, or when one
\* item waits, makes the loop.
LEMMA NewSlice ==
    ASSUME NEW q \in Seq(Items), NEW p, IsFiniteSet(p), NEW l \in Nat, l > 0,
           Len(q) <= 1 \/ Cardinality(p) + 1 >= l
    PROVE  /\ Len(Ready(q, p, l)) <= 1
           /\ Ready(q, p, l) = <<>> => (q # <<>> => Cardinality(p) >= l)
           /\ Ready(q, p, l) # <<>> =>
                /\ q # <<>> /\ Head(Ready(q, p, l)) = Head(q)
                /\ Cardinality(p) < l
                /\ Len(q) = 1 \/ Cardinality(p) + 1 = l
<1>1. Cardinality(p) \in Nat
  BY FS_CardinalityType
<1>2. Ready(q, p, l) = <<>> <=> q = <<>> \/ Cardinality(p) >= l
  BY ReadySlice
<1>3. Ready(q, p, l) # <<>> => Head(Ready(q, p, l)) = Head(q)
  BY ReadySlice
<1>4. Len(Ready(q, p, l)) <= 1
  BY ReadySlice
<1>5. Len(q) \in Nat /\ (q # <<>> => Len(q) >= 1)
  OBVIOUS
<1>6. Ready(q, p, l) # <<>> => Len(q) = 1 \/ Cardinality(p) + 1 = l
  <2>1. CASE Cardinality(p) + 1 >= l
    BY <1>1, <1>2, <2>1
  <2>2. CASE Len(q) <= 1
    <3>1. Len(q) \in {0, 1}
      <4>1. \A k \in Nat : k <= 1 => k \in {0, 1}
        OBVIOUS
      <4> QED
        BY <1>5, <2>2, <4>1, Zenon
    <3>2. Len(q) = 0 => q = <<>>
      BY EmptySeq
    <3> QED
      BY <1>2, <3>1, <3>2
  <2> QED
    BY <2>1, <2>2
<1> QED
  BY <1>1, <1>2, <1>3, <1>4, <1>6

LEMMA PlacesInit == PoolInit => PlacesInv
  BY TypedInit DEF PoolInit, PlacesInv, Distinct, Waiting, Queued, PlacesCounted, NoTwins,
                   Loop, Full, Returned

\* The queue without its head has the other items, and its head not twice.
LEMMA Dequeue ==
    ASSUME queue \in Seq(Items), queue # <<>>, Distinct,
           queue' = Tail(queue)
    PROVE  /\ Distinct' /\ Queued' = Queued \ {Head(queue)}
           /\ Len(queue') = Len(queue) - 1
<1>1. /\ Len(queue') = Len(queue) - 1
      /\ \A n \in 1 .. Len(queue') : queue'[n] = queue[n + 1]
  OBVIOUS
<1>2. Distinct'
  BY <1>1 DEF Distinct
<1>3. Queued' = Queued \ {Head(queue)}
  <2>1. ASSUME NEW x \in Queued'
        PROVE  x \in Queued \ {Head(queue)}
    BY <1>1, <2>1 DEF Queued, Distinct
  <2>2. ASSUME NEW x \in Queued, x # Head(queue)
        PROVE  x \in Queued'
    <3>1. PICK n \in 1 .. Len(queue) : x = queue[n]
      BY DEF Queued
    <3>2. n - 1 \in 1 .. Len(queue') /\ queue'[n - 1] = x
      BY <1>1, <2>2, <3>1
    <3> QED
      BY <3>2 DEF Queued
  <2> QED
    BY <2>1, <2>2
<1> QED
  BY <1>1, <1>2, <1>3

\* In whatever state, an item that leaves a slice is out of the queue afterwards, and
\* nothing enters.
LEMMA Dropped ==
    ASSUME Typed, Distinct, NEW i \in Items, queue' = Without(queue, i)
    PROVE  Distinct' /\ Queued' \subseteq Queued
<1>1. CASE queue' = queue
  BY <1>1 DEF Distinct, Queued
<1>2. CASE queue # <<>> /\ queue' = Tail(queue)
  BY <1>2, Dequeue DEF Typed, PoolTypeOK
<1> QED
  BY <1>1, <1>2 DEF Without

LEMMA EnqueuePlaces ==
    ASSUME PlacesInv, NEW i \in Items, Enqueue(i)
    PROVE  PlacesInv'
<1> USE DEF PlacesInv
<1>1. Typed'
  BY TypedStep DEF Step, PoolNext
<1>2. queue' \in Seq(Items) /\ Len(queue') = Len(queue) + 1 /\ queue'[Len(queue) + 1] = i
      /\ \A n \in 1 .. Len(queue) : queue'[n] = queue[n]
  BY DEF Enqueue, Typed, PoolTypeOK
<1>3. \A n \in 1 .. Len(queue) : queue[n] # i
  BY DEF Enqueue, Queued
<1>4. Distinct'
  <2>1. ASSUME NEW m \in 1 .. Len(queue'), NEW n \in 1 .. Len(queue'), queue'[m] = queue'[n]
        PROVE  m = n
    <3>1. Len(queue) \in Nat
      BY DEF Typed, PoolTypeOK
    <3>2. /\ m \in 1 .. Len(queue) \/ m = Len(queue) + 1
          /\ n \in 1 .. Len(queue) \/ n = Len(queue) + 1
      BY <1>2, <3>1
    <3> QED
      BY <1>2, <1>3, <2>1, <3>2 DEF Distinct
  <2> QED
    BY <2>1 DEF Distinct
<1>5. Queued' = Queued \cup {i}
  <2>1. Len(queue) \in Nat
    BY DEF Typed, PoolTypeOK
  <2>2. 1 .. Len(queue') = 1 .. Len(queue) \cup {Len(queue) + 1}
    BY <1>2, <2>1
  <2> QED
    BY <1>2, <2>2 DEF Queued
<1>6. ~raised => Waiting'
  BY <1>5 DEF Waiting, Enqueue
<1>7. ASSUME ~raised
      PROVE  (PlacesCounted /\ NoTwins /\ Loop)'
  <2>1. (PlacesCounted /\ NoTwins)'
    BY <1>7 DEF Enqueue, PlacesCounted, NoTwins
  <2>2. Len(queue') <= 1 \/ Cardinality(processing) + 1 >= limit
    <3>1. queue = <<>> \/ Cardinality(processing) >= limit
      BY <1>7 DEF Loop, Full, Enqueue
    <3>2. queue = <<>> => Len(queue') = 1
      BY <1>2
    <3>3. Cardinality(processing) \in Nat /\ limit \in Nat
      BY FS_CardinalityType, PoolAssumption DEF Typed, PoolTypeOK
    <3>4. Cardinality(processing) >= limit => Cardinality(processing) + 1 >= limit
      BY <3>3
    <3>5. Len(queue') = 1 => Len(queue') <= 1
      OBVIOUS
    <3> QED
      BY <3>1, <3>2, <3>4, <3>5
  <2> DEFINE slice == Ready(queue', processing, limit)
  <2>3. limit \in Nat /\ limit > 0 /\ IsFiniteSet(processing)
    BY PoolAssumption DEF Typed, PoolTypeOK
  <2>4. /\ Len(slice) <= 1
        /\ slice = <<>> => (queue' # <<>> => Cardinality(processing) >= limit)
        /\ slice # <<>> =>
                /\ queue' # <<>> /\ Head(slice) = Head(queue')
                /\ Cardinality(processing) < limit
                /\ Len(queue') = 1 \/ Cardinality(processing) + 1 = limit
    BY <1>2, <2>2, <2>3, NewSlice
  <2>5. Len(frames') = 1 /\ frames'[1] = slice /\ frames' # <<>>
    BY DEF Enqueue
  <2>6. processing' = processing /\ limit' = limit
    BY DEF Enqueue
  <2> HIDE DEF slice
  <2>7. Loop'
    BY <2>4, <2>5, <2>6 DEF Loop, Returned, Full
  <2> QED
    BY <2>1, <2>7
<1> QED
  BY <1>1, <1>4, <1>6, <1>7 DEF Enqueue

\* While the limit has not been raised, what a slice hands to run() is the head of the
\* queue and is not being processed.
LEMMA HeadOfSlice ==
    ASSUME PlacesInv, ~raised, ~Returned, frames[1] # <<>>
    PROVE  /\ queue # <<>> /\ Head(frames[1]) = Head(queue)
           /\ Head(queue) \notin processing /\ Tail(frames[1]) = <<>>
           /\ Without(queue, Head(queue)) = Tail(queue)
<1>1. queue # <<>> /\ Head(frames[1]) = Head(queue) /\ Len(frames[1]) <= 1
  BY DEF PlacesInv, Loop
<1>2. Head(queue) \in Queued
  BY <1>1 DEF Queued, PlacesInv, Typed, PoolTypeOK
<1>3. Head(queue) \notin processing
  BY <1>2 DEF PlacesInv, Waiting, PlacesCounted
<1>4. frames[1] \in Seq(Items)
  BY DEF PlacesInv, Typed, PoolTypeOK, Returned
<1>5. Tail(frames[1]) = <<>>
  BY <1>1, <1>4
<1> QED
  BY <1>1, <1>3, <1>5 DEF Without

LEMMA RejectPlaces ==
    ASSUME PlacesInv, NEW i \in Items, Reject(i)
    PROVE  PlacesInv'
<1> USE DEF PlacesInv
<1>1. Typed'
  BY TypedStep DEF Step, PoolNext, PoolStep
<1>2. Distinct' /\ Queued' \subseteq Queued
  BY Dropped DEF Reject
<1>3. ~raised => Waiting'
  BY <1>2 DEF Waiting, Reject
<1>4. ASSUME ~raised
      PROVE  (PlacesCounted /\ NoTwins /\ Loop)'
  <2>1. /\ queue # <<>> /\ i = Head(queue) /\ i \notin processing
        /\ Tail(frames[1]) = <<>> /\ queue' = Tail(queue)
    BY <1>4, HeadOfSlice DEF Reject
  <2>2. processing' = processing
    BY <2>1 DEF Reject
  <2>3. (PlacesCounted /\ NoTwins)'
    BY <1>4, <2>2 DEF Reject, PlacesCounted, NoTwins
  <2> DEFINE slice == Ready(queue', processing, limit)
  <2>4. queue' \in Seq(Items) /\ Len(queue') = Len(queue) - 1
    BY <1>1, <2>1 DEF Typed, PoolTypeOK
  <2>5. Len(queue') <= 1 \/ Cardinality(processing) + 1 >= limit
    <3>1. Len(queue) = 1 \/ Cardinality(processing) + 1 = limit
      BY <1>4 DEF Loop, Reject
    <3>2. Cardinality(processing) \in Nat /\ limit \in Nat /\ Len(queue) \in Nat
      BY FS_CardinalityType, PoolAssumption DEF Typed, PoolTypeOK
    <3> QED
      BY <2>4, <3>1, <3>2
  <2>6. limit \in Nat /\ limit > 0 /\ IsFiniteSet(processing)
    BY PoolAssumption DEF Typed, PoolTypeOK
  <2>7. /\ Len(slice) <= 1
        /\ slice = <<>> => (queue' # <<>> => Cardinality(processing) >= limit)
        /\ slice # <<>> =>
                /\ queue' # <<>> /\ Head(slice) = Head(queue')
                /\ Cardinality(processing) < limit
                /\ Len(queue') = 1 \/ Cardinality(processing) + 1 = limit
    BY <2>4, <2>5, <2>6, NewSlice
  <2> HIDE DEF slice
  <2>8. frames' = <<slice, <<>>>> \o Tail(frames)
    BY <2>1, <2>2 DEF Reject, slice
  <2>9. \A n \in 2 .. Len(frames) : frames[n] = <<>>
    BY <1>4 DEF Loop, Reject
  <2>10. Tail(frames) \in Seq(Seq(Items)) /\ \A n \in 1 .. Len(Tail(frames)) : Tail(frames)[n] = <<>>
    BY <2>9 DEF Reject, Returned, Typed, PoolTypeOK
  <2>11. /\ frames'[1] = slice /\ frames' # <<>>
         /\ \A n \in 2 .. Len(frames') : frames'[n] = <<>>
    <3>1. <<slice, <<>>>> \in Seq({slice, <<>>}) /\ Len(<<slice, <<>>>>) = 2
      OBVIOUS
    <3>2. /\ Len(frames') = 2 + Len(Tail(frames))
          /\ frames'[1] = slice /\ frames'[2] = <<>>
          /\ \A n \in 3 .. Len(frames') : frames'[n] = Tail(frames)[n - 2]
      BY <2>8, <2>10, <3>1
    <3>3. Len(Tail(frames)) \in Nat
      BY <2>10
    <3>4. ASSUME NEW n \in 3 .. Len(frames')
          PROVE  frames'[n] = <<>>
      <4>1. n - 2 \in 1 .. Len(Tail(frames))
        BY <3>2, <3>3
      <4> QED
        BY <2>10, <3>2, <4>1
    <3>5. frames' # <<>>
      BY <3>2, <3>3
    <3> QED
      BY <3>2, <3>3, <3>4, <3>5
  <2>12. Loop'
    BY <2>2, <2>7, <2>11 DEF Loop, Returned, Full, Reject
  <2> QED
    BY <2>3, <2>12
<1> QED
  BY <1>1, <1>2, <1>3, <1>4 DEF Reject

LEMMA RunPlaces ==
    ASSUME PlacesInv, NEW i \in Items, Run(i)
    PROVE  PlacesInv'
<1> USE DEF PlacesInv
<1>1. Typed'
  BY TypedStep DEF Step, PoolNext, PoolStep
<1>2. Distinct' /\ Queued' \subseteq Queued
  BY Dropped DEF Run
<1>3. ASSUME ~raised
      PROVE  (Waiting /\ PlacesCounted /\ NoTwins /\ Loop)'
  <2>1. /\ queue # <<>> /\ i = Head(queue) /\ i \notin processing
        /\ Tail(frames[1]) = <<>> /\ queue' = Tail(queue)
    BY <1>3, HeadOfSlice DEF Run
  <2>2. Queued' = Queued \ {i} /\ Len(queue') = Len(queue) - 1 /\ Len(queue) \in Nat
    BY <2>1, Dequeue DEF Typed, PoolTypeOK
  <2>3. Waiting'
    BY <1>3, <2>2 DEF Waiting, Run
  <2>4. PlacesCounted'
    BY <1>3 DEF PlacesCounted, Run
  <2>5. NoTwins'
    BY <1>3, <2>1 DEF PlacesCounted, NoTwins, Run, Conflicts
  <2>6. Cardinality(processing') = Cardinality(processing) + 1 /\ Cardinality(processing) \in Nat
    BY <2>1, FS_AddElement, FS_CardinalityType DEF Run, Typed
  <2>7. Len(queue) = 1 \/ Cardinality(processing) + 1 = limit
    BY <1>3 DEF Loop, Run
  <2>8. queue' # <<>> => Cardinality(processing') >= limit
    <3>1. queue' # <<>> => Len(queue') # 0
      BY <1>1 DEF Typed, PoolTypeOK
    <3>2. limit \in Nat
      BY PoolAssumption DEF Typed, PoolTypeOK
    <3> QED
      BY <2>2, <2>6, <2>7, <3>1, <3>2
  <2>9. frames' = <<<<>>>> \o Tail(frames)
    BY <2>1 DEF Run
  <2>10. \A n \in 2 .. Len(frames) : frames[n] = <<>>
    BY <1>3 DEF Loop, Run
  <2>11. Tail(frames) \in Seq(Seq(Items)) /\ \A n \in 1 .. Len(Tail(frames)) : Tail(frames)[n] = <<>>
    BY <2>10 DEF Run, Returned, Typed, PoolTypeOK
  <2>12. frames' # <<>> /\ \A n \in 1 .. Len(frames') : frames'[n] = <<>>
    <3>1. Len(frames') = 1 + Len(Tail(frames)) /\ Len(Tail(frames)) \in Nat
      BY <2>9, <2>11
    <3>2. frames'[1] = <<>> /\ \A n \in 2 .. Len(frames') : frames'[n] = Tail(frames)[n - 1]
      BY <2>9, <2>11, <3>1
    <3>3. ASSUME NEW n \in 2 .. Len(frames')
          PROVE  frames'[n] = <<>>
      <4>1. n - 1 \in 1 .. Len(Tail(frames))
        BY <3>1
      <4> QED
        BY <2>11, <3>2, <4>1
    <3>4. frames' # <<>>
      BY <3>1
    <3> QED
      BY <3>1, <3>2, <3>3, <3>4
  <2>13. Loop'
    <3>1. frames'[1] = <<>> /\ \A n \in 2 .. Len(frames') : frames'[n] = <<>>
      BY <2>12 DEF Typed, PoolTypeOK
    <3>2. limit' = limit
      BY DEF Run
    <3> QED
      BY <2>8, <2>12, <3>1, <3>2 DEF Loop, Returned, Full
  <2> QED
    BY <2>3, <2>4, <2>5, <2>13
<1> QED
  BY <1>1, <1>2, <1>3 DEF Run

LEMMA ReturnPlaces ==
    ASSUME PlacesInv, CheckReturns
    PROVE  PlacesInv'
<1> USE DEF PlacesInv
<1>1. Typed'
  BY TypedStep DEF Step, PoolNext, PoolStep
<1>2. ASSUME ~raised
      PROVE  Loop'
  <2>1. \A n \in 2 .. Len(frames) : frames[n] = <<>>
    BY <1>2 DEF Loop, CheckReturns
  <2>2. frames \in Seq(Seq(Items)) /\ frames # <<>> /\ frames' = Tail(frames)
    BY DEF CheckReturns, Returned, Typed, PoolTypeOK
  <2>3. /\ Len(frames') = Len(frames) - 1 /\ Len(frames) \in Nat /\ Len(frames') \in Nat
        /\ \A n \in 1 .. Len(frames') : frames'[n] = frames[n + 1]
    BY <2>2
  <2>4. \A n \in 1 .. Len(frames') : frames'[n] = <<>>
    BY <2>1, <2>3
  <2>5. frames' # <<>> => frames'[1] = <<>> /\ \A n \in 2 .. Len(frames') : frames'[n] = <<>>
    <3>1. frames' # <<>> => 1 \in 1 .. Len(frames')
      BY <2>2, <2>3
    <3> QED
      BY <2>3, <2>4, <3>1
  <2>6. Full'
    BY <1>2 DEF Full, Loop, CheckReturns
  <2> QED
    BY <2>5, <2>6 DEF Loop, Returned
<1> QED
  BY <1>1, <1>2 DEF CheckReturns, Distinct, Waiting, Queued, PlacesCounted, NoTwins

LEMMA ReleasePlaces ==
    ASSUME PlacesInv, NEW i \in Items, Release(i)
    PROVE  PlacesInv'
<1> USE DEF PlacesInv
<1>1. Typed'
  BY TypedStep DEF Step, PoolNext
<1>2. ASSUME ~raised
      PROVE  (Waiting /\ PlacesCounted /\ NoTwins /\ Loop)'
  <2>1. (Waiting /\ PlacesCounted /\ NoTwins)'
    BY <1>2 DEF Release, Waiting, Queued, PlacesCounted, NoTwins
  <2>2. i \in processing
    BY <1>2 DEF Release, PlacesCounted
  <2>3. Cardinality(processing') = Cardinality(processing) - 1 /\ Cardinality(processing) \in Nat
    BY <2>2, FS_RemoveElement, FS_CardinalityType DEF Release, Typed
  <2>4. limit \in Nat /\ limit > 0 /\ IsFiniteSet(processing')
    BY <1>1, PoolAssumption DEF Typed, PoolTypeOK
  <2>5. Len(queue) <= 1 \/ Cardinality(processing') + 1 >= limit
    <3>1. queue = <<>> \/ Cardinality(processing) >= limit
      BY <1>2 DEF Loop, Full, Release
    <3> QED
      BY <2>3, <2>4, <3>1
  <2> DEFINE slice == Ready(queue, processing', limit)
  <2>6. /\ Len(slice) <= 1
        /\ slice = <<>> => (queue # <<>> => Cardinality(processing') >= limit)
        /\ slice # <<>> =>
                /\ queue # <<>> /\ Head(slice) = Head(queue)
                /\ Cardinality(processing') < limit
                /\ Len(queue) = 1 \/ Cardinality(processing') + 1 = limit
    BY <2>4, <2>5, NewSlice DEF Typed, PoolTypeOK
  <2>7. Len(frames') = 1 /\ frames'[1] = slice /\ frames' # <<>>
    BY DEF Release
  <2> HIDE DEF slice
  <2>8. queue' = queue /\ limit' = limit
    BY DEF Release
  <2>9. Loop'
    BY <2>6, <2>7, <2>8 DEF Loop, Returned, Full
  <2> QED
    BY <2>1, <2>9
<1> QED
  BY <1>1, <1>2 DEF Release, Distinct

\* A lower limit leaves what waits waiting, a higher one does so for nothing that waits.
LEMMA ChangePlaces ==
    ASSUME PlacesInv, NEW n \in Limits, ChangeLimit(n)
    PROVE  PlacesInv'
<1> USE DEF PlacesInv
<1>1. Typed'
  BY TypedStep DEF Step, PoolNext
<1>2. ~raised' => ~raised /\ (queue = <<>> \/ ~(Cardinality(processing) < n))
  BY DEF ChangeLimit
<1>3. n \in Nat /\ Cardinality(processing) \in Nat
  BY PoolAssumption, FS_CardinalityType DEF Typed
<1>4. ~raised' => Loop'
  BY <1>2, <1>3 DEF Loop, Full, Returned, ChangeLimit
<1> QED
  BY <1>1, <1>2, <1>4 DEF ChangeLimit, Distinct, Waiting, Queued, PlacesCounted, NoTwins

LEMMA PlacesStep == PlacesInv /\ Step => PlacesInv'
<1> SUFFICES ASSUME PlacesInv, Step
             PROVE  PlacesInv'
  OBVIOUS
<1>1. CASE UNCHANGED poolVars
  <2>1. Typed'
    BY TypedStep DEF PlacesInv
  <2> QED
    BY <1>1, <2>1 DEF poolVars, PlacesInv, Distinct, Waiting, Queued, PlacesCounted, NoTwins,
                      Loop, Full, Returned
<1> QED
  BY <1>1, EnqueuePlaces, RejectPlaces, RunPlaces, ReturnPlaces, ReleasePlaces, ChangePlaces
     DEF Step, PoolNext, PoolStep

\* PoolSpec => []PlacesCounted: over rejected duplicates and nested calls of check(), the
\* list processing is that of the uploads that run, until the limit is raised over items
\* that wait.
THEOREM Counted == PoolSpec => []PlacesCounted
<1>1. PlacesInv => PlacesCounted
  BY DEF PlacesInv, PlacesCounted
<1> QED
  BY <1>1, PlacesInit, PlacesStep, PTL DEF PoolSpec, Step

\* PoolSpec => []NoTwins: two uploads to one name and destination never run side by side.
THEOREM Twinless == PoolSpec => []NoTwins
<1>1. PlacesInv => NoTwins
  BY DEF PlacesInv, NoTwins
<1> QED
  BY <1>1, PlacesInit, PlacesStep, PTL DEF PoolSpec, Step

\* PoolSpec => StartsWithinLimit: whatever is started, with it no more uploads run than the
\* limit allows.
THEOREM WithinLimit == PoolSpec => StartsWithinLimit
<1> DEFINE Within == ~raised' /\ ~(running' \subseteq running) => Cardinality(running') <= limit'
<1>1. ASSUME PlacesInv, Step
      PROVE  Within
  <2> SUFFICES ASSUME ~raised', ~(running' \subseteq running)
               PROVE  Cardinality(running') <= limit'
    OBVIOUS
  <2>1. PICK i \in Items : Run(i)
    BY <1>1 DEF Step, PoolNext, PoolStep, Enqueue, Reject, CheckReturns, Release, ChangeLimit,
                poolVars
  <2>2. ~raised
    BY <2>1 DEF Run
  <2>3. Cardinality(processing) < limit
    BY <1>1, <2>1, <2>2 DEF Run, PlacesInv, Loop
  <2>4. running' = processing' /\ running = processing
    BY <1>1, <2>1, <2>2 DEF Run, PlacesInv, PlacesCounted
  <2>5. i \notin processing
    BY <1>1, <2>1, <2>2, HeadOfSlice DEF Run
  <2>6. Cardinality(processing') = Cardinality(processing) + 1 /\ Cardinality(processing) \in Nat
    BY <1>1, <2>1, <2>5, FS_AddElement, FS_CardinalityType DEF Run, PlacesInv, Typed
  <2>7. limit \in Nat /\ limit' = limit
    BY <1>1, <2>1, PoolAssumption DEF Run, PlacesInv, Typed, PoolTypeOK
  <2> QED
    BY <2>3, <2>4, <2>6, <2>7
<1> QED
  BY <1>1, PlacesInit, PlacesStep, PTL DEF PoolSpec, Step, StartsWithinLimit

-----------------------------------------------------------------------------
(* Nothing is left waiting.                                                *)

\* Even after the limit has been raised: as long as nothing runs and something waits, the
\* outermost call of check has its first item before it, and this item will be started.
Awake ==
    /\ Typed /\ processing \subseteq running
    /\ queue # <<>> /\ running = {} => Len(frames) = 1 /\ frames[1] # <<>>

LEMMA AwakeStep == Awake /\ Step => Awake'
<1> SUFFICES ASSUME Awake, Step
             PROVE  Awake'
  OBVIOUS
<1> USE DEF Awake
<1>0. Typed'
  BY TypedStep
<1>1. limit \in Nat /\ limit > 0
  BY PoolAssumption DEF Typed, PoolTypeOK
<1>2. \A q \in Seq(Items) : q # <<>> => Ready(q, {}, limit) # <<>>
  BY <1>1, ReadySlice, FS_EmptySet
<1>3. ASSUME NEW i \in Items, Enqueue(i)
      PROVE  Awake'
  BY <1>0, <1>2, <1>3 DEF Enqueue, Typed, PoolTypeOK
<1>4. ASSUME NEW i \in Items, Reject(i)
      PROVE  Awake'
  <2>1. running # {}
    BY <1>4 DEF Reject, Conflicts
  <2> QED
    BY <1>0, <1>4, <2>1 DEF Reject
<1>5. ASSUME NEW i \in Items, Run(i)
      PROVE  Awake'
  BY <1>0, <1>5 DEF Run
<1>6. CASE CheckReturns
  <2>1. ~(queue # <<>> /\ running = {})
    BY <1>6 DEF CheckReturns
  <2> QED
    BY <1>0, <1>6, <2>1 DEF CheckReturns
<1>7. ASSUME NEW i \in Items, Release(i)
      PROVE  Awake'
  BY <1>0, <1>2, <1>7 DEF Release, Typed, PoolTypeOK
<1>8. ASSUME NEW n \in Limits, ChangeLimit(n)
      PROVE  Awake'
  BY <1>0, <1>8 DEF ChangeLimit
<1>9. CASE UNCHANGED poolVars
  BY <1>0, <1>9 DEF poolVars
<1> QED
  BY <1>3, <1>4, <1>5, <1>6, <1>7, <1>8, <1>9 DEF Step, PoolNext, PoolStep

\* PoolSpec => []QueueServed: whatever waits, something runs whose end will look at the
\* queue, whatever the limit was and is.
THEOREM Woken == PoolSpec => []QueueServed
<1>1. PoolInit => Awake
  BY TypedInit DEF PoolInit, Awake
<1>2. Awake => QueueServed
  BY DEF Awake, QueueServed, Returned
<1> QED
  BY <1>1, <1>2, AwakeStep, PTL DEF PoolSpec, Step
=============================================================================
