------------------------------ MODULE UploadPool ------------------------------
(***************************************************************************)
(* The pool of the web uploader (core/utils/pool.ts): uploads that wait in *)
(* a queue, and at most limit of them at a time being processed.           *)
(*                                                                         *)
(* JavaScript runs one event to its end.  check() hands a slice of the     *)
(* queue to forEach, run() of an item may reject it and call check() anew  *)
(* while the outer forEach has items left: frames is that call stack, one  *)
(* slice for each check() that has not returned, the innermost first.  No  *)
(* other event is handled before frames is empty.                          *)
(***************************************************************************)
EXTENDS Naturals, FiniteSets, Sequences

CONSTANTS
    Items,     \* calls of enqueue, each with the uploader it carries
    FileOf,    \* the file of an item: its name and its destination
    Limits     \* values the user may give the pool

ASSUME PoolAssumption == Limits \subseteq Nat \ {0} /\ Limits # {}

VARIABLES
    queue,       \* items that wait, the first to run at the head
    processing,  \* items that occupy a place
    running,     \* items whose upload has been started and has not ended
    limit,
    frames,      \* slices left of the calls of check, the innermost first
    raised       \* the limit has been raised over items that wait

poolVars == <<queue, processing, running, limit, frames, raised>>

Returned == frames = <<>>       \* the event has been handled to its end

Available(p, l) == IF Cardinality(p) < l THEN l - Cardinality(p) ELSE 0
Ready(q, p, l) ==
    LET a == Available(p, l) IN SubSeq(q, 1, IF a < Len(q) THEN a ELSE Len(q))

\* queue.filter((v) => v !== item): the items of a slice are the head of the
\* queue one after another, or have left it in a call of check further in.
Without(q, i) == IF q # <<>> /\ Head(q) = i THEN Tail(q) ELSE q

Queued == {queue[n] : n \in 1 .. Len(queue)}

PoolInit ==
    /\ queue = <<>> /\ processing = {} /\ running = {}
    /\ limit \in Limits
    /\ frames = <<>> /\ raised = FALSE

Enqueue(i) ==
    /\ Returned
    /\ i \notin Queued \cup running
    /\ queue' = Append(queue, i)
    /\ frames' = <<Ready(queue', processing, limit)>>
    /\ UNCHANGED <<processing, running, limit, raised>>

\* An item of the same name and destination is being processed: rejected, and
\* released, which takes it out of processing and checks again.
Conflicts(i) == \E v \in processing : FileOf[v] = FileOf[i]

Reject(i) ==
    /\ ~Returned /\ frames[1] # <<>> /\ i = Head(frames[1])
    /\ Conflicts(i)
    /\ queue' = Without(queue, i)
    /\ processing' = processing \ {i}
    /\ frames' = <<Ready(queue', processing', limit), Tail(frames[1])>> \o Tail(frames)
    /\ UNCHANGED <<running, limit, raised>>

\* Seeded fault: the place is taken only when the upload has ended.
RunUncounted(i) ==
    /\ ~Returned /\ frames[1] # <<>> /\ i = Head(frames[1])
    /\ ~Conflicts(i)
    /\ queue' = Without(queue, i)
    /\ running' = running \cup {i}
    /\ frames' = <<Tail(frames[1])>> \o Tail(frames)
    /\ UNCHANGED <<processing, limit, raised>>

Run(i) ==
    /\ ~Returned /\ frames[1] # <<>> /\ i = Head(frames[1])
    /\ ~Conflicts(i)
    /\ queue' = Without(queue, i)
    /\ processing' = processing \cup {i}
    /\ running' = running \cup {i}
    /\ frames' = <<Tail(frames[1])>> \o Tail(frames)
    /\ UNCHANGED <<limit, raised>>

\* forEach has come to the end of its slice and check() returns.
CheckReturns ==
    /\ ~Returned /\ frames[1] = <<>>
    /\ frames' = Tail(frames)
    /\ UNCHANGED <<queue, processing, running, limit, raised>>

\* Seeded fault: the place is given up and nobody looks at the queue.
ReleaseUnchecked(i) ==
    /\ Returned /\ i \in running
    /\ running' = running \ {i}
    /\ processing' = processing \ {i}
    /\ UNCHANGED <<queue, limit, frames, raised>>

\* The promise of uploader.run() is settled either way: release.
Release(i) ==
    /\ Returned /\ i \in running
    /\ running' = running \ {i}
    /\ processing' = processing \ {i}
    /\ frames' = <<Ready(queue, processing', limit)>>
    /\ UNCHANGED <<queue, limit, raised>>

\* changeConcurrentLimit assigns the field; the queue is not looked at.
ChangeLimit(n) ==
    /\ Returned /\ n # limit
    /\ limit' = n
    /\ raised' = (raised \/ (queue # <<>> /\ Cardinality(processing) < n))
    /\ UNCHANGED <<queue, processing, running, frames>>

PoolStep == CheckReturns \/ \E i \in Items : Reject(i) \/ Run(i)

PoolNext ==
    \/ PoolStep
    \/ \E i \in Items : Enqueue(i) \/ Release(i)
    \/ \E n \in Limits : ChangeLimit(n)

PoolSpec == PoolInit /\ [][PoolNext]_poolVars

-----------------------------------------------------------------------------
PoolTypeOK ==
    /\ queue \in Seq(Items)
    /\ processing \subseteq Items /\ running \subseteq Items
    /\ limit \in Limits
    /\ frames \in Seq(Seq(Items))
    /\ raised \in BOOLEAN

(* Every upload that runs is counted against the limit, and what is counted *)
(* runs: run() and release() keep the list processing and the promises of   *)
(* the uploaders in step, over rejected duplicates and nested checks, as    *)
(* long as the limit is not raised while items wait.                        *)
PlacesCounted == ~raised => running = processing

(* An upload is started only when, with it, no more than limit uploads run. *)
StartsWithinLimit ==
    [][ ~raised' /\ ~(running' \subseteq running) => Cardinality(running') <= limit' ]_poolVars

(* Two uploads to the same name and destination never run side by side.     *)
NoTwins ==
    ~raised => \A i, j \in running : FileOf[i] = FileOf[j] => i = j

(* Whatever waits has somebody to wake it: the queue is looked at only when *)
(* a place is given up, so between two events nothing may wait without a    *)
(* place taken, whatever the limit was and is.                              *)
QueueServed == Returned /\ queue # <<>> => running # {}
=============================================================================
