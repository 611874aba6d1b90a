--------------------------- MODULE WebUploaderProofs ---------------------------
(***************************************************************************)
(* Theorems about the uploader of the web client, for any files, cards,    *)
(* policies, numbers of chunks, sessions and faults.                       *)
(*                                                                         *)
(* The argument: twins never run side by side (NoTwins of the pool), hence *)
(* the resume context of a file is written by one task at a time, and what *)
(* it and the memory of a task claim to have been sent their session has.  *)
(***************************************************************************)
EXTENDS WebUploader, UploadPoolProofs, WellFoundedInduction

UStep == UploaderNext \/ UNCHANGED uploaderVars

-----------------------------------------------------------------------------
(* The invariant.                                                          *)

\* The pool, whose limit is not raised here.
PoolPart == PlacesInv /\ Awake /\ ~raised

SessionRecord == [file : Files \cup {NoSession.file}, got : SUBSET Chunks, fin : Nat,
                  state : {"none", "live", "done", "deleted", "expired"}]
CtxMap == [Files -> [session : Session \cup {None}, sent : SUBSET Chunks]]
UTyped ==
    /\ up \in [Uploaders -> Task]
    /\ ctx \in CtxMap
    /\ sess \in [Session -> SessionRecord]

\* The server: nothing is sent to what is not a session, and what goes without a request
\* to complete it is done with its last chunk.
SessOK ==
    \A s \in Session :
        /\ sess[s].state = "none" => sess[s].got = {}
        /\ sess[s].state # "none" => sess[s].file \in Files \cap Allowed
        /\ sess[s].got \subseteq Parts(sess[s].file)
        /\ Policy[PolicyOf[sess[s].file]].calls = 0 /\ Parts(sess[s].file) \subseteq sess[s].got
              => sess[s].state = "done"

Holds(s, f) == s \in Session /\ sess[s].file = f /\ sess[s].state # "none"

CtxOK ==
    \A f \in Files : ctx[f] # NoCtx =>
        /\ Holds(ctx[f].session, f) /\ ctx[f].sent \subseteq sess[ctx[f].session].got
        /\ Policy[PolicyOf[f]].chunked

\* What a task believes of its session is true of it.
TaskFine(u) ==
    LET f == FileOf[u] s == up[u].session IN
    /\ s # None => Holds(s, f)
    /\ up[u].at \in {"chunk", "finish"} \/ up[u].status = "finished" => s # None
    /\ up[u].at = "create" => ctx[f] = NoCtx
    /\ up[u].at = "chunk" =>
          up[u].n \in Parts(f) /\ up[u].sent \ {up[u].n} \subseteq sess[s].got
    /\ up[u].at = "finish" \/ up[u].status = "finished" => Parts(f) \subseteq sess[s].got
    /\ (up[u].at = "finish" /\ up[u].n > P(u).calls) \/ up[u].status = "finished" =>
          sess[s].state = "done" \/ P(u).swallows
TaskOK == \A u \in Uploaders : TaskFine(u)

\* Nobody looks at the card any more, or it has been restarted with a deletion pending.
Quieted(u) == ~up[u].live \/ up[u].rushed

\* A card, its task and its place in the pool agree.
CardFine(u) ==
    /\ up[u].at # "idle" =>
          u \in running /\ up[u].status \in {"preparing", "processing", "finishing", "canceled"}
    /\ u \in Queued => up[u].status \in {"queued", "canceled"}
    /\ up[u].status = "queued" => u \in Queued
    /\ u \in Queued \cup running => FileOf[u] \in Allowed
    /\ up[u].status \in {"preparing", "processing", "finishing"} /\ up[u].at = "idle"
          => ~up[u].live
    /\ up[u].status = "absent" => up[u] = NoTask
    /\ up[u].status = "canceled" => ~up[u].listed /\ Quieted(u)
    /\ "cancel" \in up[u].dels => Quieted(u)
    /\ (~up[u].listed \/ up[u].dels # {}) /\ (u \in Queued \/ up[u].at # "idle") => Quieted(u)
    /\ ~up[u].live /\ up[u].listed => "cancel" \in up[u].dels
    /\ up[u].dels # {} => up[u].session # None
CardOK == \A u \in Uploaders : CardFine(u)

\* Nobody has a session to go on with.
Unreferenced(s) ==
    /\ \A f \in Files : ctx[f] # NoCtx => ctx[f].session # s
    /\ \A v \in Uploaders : up[v].at \in {"chunk", "finish"} => up[v].session # s

\* Sessions a task has deleted or is about to.
Doomed(u) == up[u].gone \cup (IF up[u].dels = {} THEN {} ELSE {up[u].session})

GoneOK ==
    /\ \A u \in Uploaders : \A s \in Doomed(u) :
          sess[s].state # "none" /\ (Quieted(u) \/ Unreferenced(s))
    /\ \A u, v \in Uploaders :
          up[u].session # None /\ up[u].session = up[v].session => u = v \/ P(u).chunked

-----------------------------------------------------------------------------
(* The pool.                                                               *)

LEMMA FileOfUploader == \A u \in Uploaders : u \in Items /\ FileOf[u] \in Files
  BY UploaderAssumption DEF Files

\* Every step is one of the pool or leaves it alone, but loading the page anew.
LEMMA StepsOfPool ==
    ASSUME UStep
    PROVE  (Step /\ raised' = raised) \/ Reload
<1>1. ASSUME NEW u \in Uploaders, NEW t, Start(u, t)
      PROVE  Step /\ raised' = raised
  <2>1. Enqueue(u) \/ UNCHANGED poolVars
    BY <1>1 DEF Start
  <2> QED
    BY <2>1, FileOfUploader DEF Step, PoolNext, Enqueue, poolVars
<1>2. ASSUME NEW u \in Uploaders,
             BeginTask(u) \/ RejectTask(u) \/ Abort(u) \/ Complete(u) \/ AddTask(u) \/ Retry(u)
      PROVE  Step /\ raised' = raised
  <2>1. CASE BeginTask(u) \/ RejectTask(u)
    BY <2>1, FileOfUploader DEF BeginTask, RejectTask, Step, PoolNext, PoolStep, Run, Reject
  <2>2. CASE Abort(u) \/ Complete(u)
    <3>1. Release(u) \/ UNCHANGED poolVars
      BY <2>2 DEF Abort, Complete
    <3> QED
      BY <3>1, FileOfUploader DEF Step, PoolNext, Release, poolVars
  <2>3. CASE AddTask(u) \/ Retry(u)
    BY <1>1, <2>3 DEF AddTask, Retry
  <2> QED
    BY <1>2, <2>1, <2>2, <2>3
<1>3. ASSUME NEW u \in Uploaders, Refused(u) \/ Lost(u)
      PROVE  Step /\ raised' = raised
  <2>1. Release(u) \/ UNCHANGED poolVars
    BY <1>3 DEF Refused, Lost, Fail
  <2> QED
    BY <2>1, FileOfUploader DEF Step, PoolNext, Release, poolVars
<1>4. CASE CheckReturnsTask
  BY <1>4 DEF CheckReturnsTask, Step, PoolNext, PoolStep, CheckReturns
<1>5. ASSUME UNCHANGED poolVars
      PROVE  Step /\ raised' = raised
  BY <1>5 DEF Step, poolVars
<1>6. ASSUME NEW u \in Uploaders,
             \/ Cancel(u) \/ (\E by \in {"error", "cancel"} : DeleteSession(u, by))
             \/ Progress(u) \/ Created(u) \/ ChunkUploaded(u) \/ CallDone(u)
      PROVE  UNCHANGED poolVars
  BY <1>6 DEF Cancel, DeleteSession, Progress, Created, ChunkUploaded, CallDone
<1>7. ASSUME \/ CleanupSessions \/ CleanFinished \/ (\E s \in Session : Expire(s))
             \/ UNCHANGED uploaderVars
      PROVE  UNCHANGED poolVars
  BY <1>7 DEF CleanupSessions, CleanFinished, Expire, uploaderVars
<1> QED
  BY <1>2, <1>3, <1>4, <1>5, <1>6, <1>7 DEF UStep, UploaderNext, PageStep, Answered

LEMMA PoolPartStep == PoolPart /\ UStep => PoolPart'
<1> SUFFICES ASSUME PoolPart, UStep
             PROVE  PoolPart'
  OBVIOUS
<1>1. CASE Step /\ raised' = raised
  BY <1>1, PlacesStep, AwakeStep DEF PoolPart
<1>2. CASE Reload
  <2>1. /\ queue' = <<>> /\ processing' = {} /\ running' = {} /\ frames' = <<>>
        /\ limit' = limit /\ raised' = raised
    BY <1>2 DEF Reload
  <2>2. queue' \in Seq(Items) /\ frames' \in Seq(Seq(Items)) /\ Len(queue') = 0
    BY <2>1, EmptySeq
  <2>3. Typed'
    BY <2>1, <2>2, FS_EmptySet DEF PoolPart, PlacesInv, Typed, PoolTypeOK
  <2> QED
    BY <2>1, <2>2, <2>3 DEF PoolPart, PlacesInv, Awake, Distinct, Waiting, Queued,
                            PlacesCounted, NoTwins, Loop, Full, Returned
<1> QED
  BY <1>1, <1>2, StepsOfPool

\* What the calls of the pool do to who waits and who runs.
LEMMA RunMoves ==
    ASSUME PoolPart, NEW u \in Uploaders, Run(u)
    PROVE  /\ u \in Queued /\ u \notin running
           /\ Queued' = Queued \ {u} /\ running' = running \cup {u}
<1>1. /\ queue # <<>> /\ u = Head(queue) /\ u \notin processing /\ queue' = Tail(queue)
  BY HeadOfSlice DEF PoolPart, Run
<1>2. Queued' = Queued \ {u}
  BY <1>1, Dequeue DEF PoolPart, PlacesInv, Typed, PoolTypeOK
<1>3. u \in Queued
  BY <1>1 DEF Queued, PoolPart, PlacesInv, Typed, PoolTypeOK
<1> QED
  BY <1>1, <1>2, <1>3 DEF Run, PoolPart, PlacesInv, PlacesCounted

LEMMA RejectMoves ==
    ASSUME PoolPart, NEW u \in Uploaders, Reject(u)
    PROVE  /\ u \in Queued /\ u \notin running
           /\ Queued' = Queued \ {u} /\ running' = running
<1>1. /\ queue # <<>> /\ u = Head(queue) /\ u \notin processing /\ queue' = Tail(queue)
  BY HeadOfSlice DEF PoolPart, Reject
<1>2. Queued' = Queued \ {u}
  BY <1>1, Dequeue DEF PoolPart, PlacesInv, Typed, PoolTypeOK
<1>3. u \in Queued
  BY <1>1 DEF Queued, PoolPart, PlacesInv, Typed, PoolTypeOK
<1> QED
  BY <1>1, <1>2, <1>3 DEF Reject, PoolPart, PlacesInv, PlacesCounted

LEMMA EnqueueMoves ==
    ASSUME PoolPart, NEW u, Enqueue(u)
    PROVE  u \notin Queued \cup running /\ Queued' = Queued \cup {u} /\ running' = running
<1>1. queue \in Seq(Items) /\ queue' = Append(queue, u)
  BY DEF PoolPart, PlacesInv, Typed, PoolTypeOK, Enqueue
<1>2. /\ Len(queue') = Len(queue) + 1 /\ queue'[Len(queue) + 1] = u
      /\ \A n \in 1 .. Len(queue) : queue'[n] = queue[n]
      /\ Len(queue) \in Nat
  BY <1>1
<1>3. 1 .. Len(queue') = 1 .. Len(queue) \cup {Len(queue) + 1}
  BY <1>2
<1>4. Queued' = Queued \cup {u}
  BY <1>2, <1>3 DEF Queued
<1> QED
  BY <1>4 DEF Enqueue

LEMMA ReleaseMoves ==
    ASSUME PoolPart, NEW u, Release(u)
    PROVE  u \in running /\ Queued' = Queued /\ running' = running \ {u}
  BY DEF Release, Queued

LEMMA SamePool == ASSUME UNCHANGED poolVars PROVE Queued' = Queued /\ running' = running
  BY DEF poolVars, Queued

\* Twins do not run side by side, and nobody who runs waits.
LEMMA Alone ==
    ASSUME PoolPart
    PROVE  /\ \A u, v \in running : FileOf[u] = FileOf[v] => u = v
           /\ Queued \cap running = {}
  BY DEF PoolPart, PlacesInv, NoTwins, Waiting

-----------------------------------------------------------------------------
(* Operators.                                                              *)

LEMMA PolicyFacts ==
    \A p \in DOMAIN Policy :
        /\ Policy[p].calls \in Nat /\ Policy[p].swallows \in BOOLEAN
        /\ Policy[p].chunked \in BOOLEAN /\ Policy[p].resumes = Policy[p].chunked
<1> DEFINE Good(p) == /\ p.calls \in Nat /\ p.swallows \in BOOLEAN
                     /\ p.chunked \in BOOLEAN /\ p.resumes = p.chunked
<1>1. Good(LocalUploader) /\ Good(RemoteUploader)
  BY DEF LocalUploader, RemoteUploader
<1>2. Good(OneDriveUploader)
  BY DEF LocalUploader, OneDriveUploader
<1>3. Good(OSSUploader)
  BY DEF LocalUploader, OSSUploader
<1>4. Good(QiniuUploader) /\ Good(S3Uploader)
  BY DEF LocalUploader, QiniuUploader, S3Uploader
<1>5. Good(UpyunUploader)
  BY DEF LocalUploader, UpyunUploader
<1>6. Good(COSUploader)
  BY DEF LocalUploader, UpyunUploader, COSUploader
<1> HIDE DEF Good
<1>7. \A p \in DOMAIN Policy : Good(Policy[p])
  BY <1>1, <1>2, <1>3, <1>4, <1>5, <1>6 DEF Policy
<1> QED
  BY <1>7 DEF Good

LEMMA PolicyOfUploader ==
    \A u \in Uploaders :
        /\ P(u).calls \in Nat /\ P(u).swallows \in BOOLEAN
        /\ P(u).chunked \in BOOLEAN /\ P(u).resumes = P(u).chunked
  BY PolicyFacts, UploaderAssumption, FileOfUploader DEF P

LEMMA PartsFacts ==
    /\ 1 \in Chunks /\ Chunks \subseteq Nat
    /\ \A f : Parts(f) \subseteq Chunks /\ Parts(f) # {}
<1>1. Cardinality(Chunks) \in Nat /\ Chunks # {} /\ Chunks = 1 .. Cardinality(Chunks)
  BY UploaderAssumption, FS_CardinalityType
<1>2. 1 \in Chunks /\ Chunks \subseteq Nat
  BY <1>1
<1> QED
  BY <1>2 DEF Parts

LEMMA Least ==
    ASSUME NEW S \in SUBSET Nat, S # {}
    PROVE  \E i \in S : \A j \in S : i <= j
<1> DEFINE R == OpToRel(<, Nat)
<1>1. IsWellFoundedOn(R, Nat)
  BY NatLessThanWellFounded
<1>2. \A x, y \in Nat : x < y => <<x, y>> \in R
  BY DEF OpToRel
<1> HIDE DEF R
<1>3. PICK i \in S : \A j \in S : ~(<<j, i>> \in R)
  BY <1>1, WFMin
<1>4. \A j \in S : i \in Nat /\ j \in Nat /\ ~(j < i)
  BY <1>2, <1>3
<1> QED
  BY <1>4

LEMMA ProceedFacts ==
    ASSUME NEW t \in Task, NEW u \in Uploaders, NEW sent \in SUBSET Chunks,
           NEW r, r = Proceed(t, u, sent)
    PROVE  /\ r \in Task
           /\ r.session = t.session /\ r.sent = sent /\ r.live = t.live /\ r.dels = t.dels
           /\ r.gone = t.gone /\ r.listed = t.listed /\ r.rushed = t.rushed
           /\ r.status \in {"processing", "finishing"}
           /\ \/ r.at = "chunk" /\ r.n \in Parts(FileOf[u]) \ sent
              \/ r.at = "finish" /\ r.n = 1 /\ Parts(FileOf[u]) \subseteq sent
<1> DEFINE missing == Parts(FileOf[u]) \ sent
<1>1. missing \subseteq Chunks /\ Chunks \subseteq Nat
  BY PartsFacts
<1>2. CASE missing # {}
  <2>1. PICK n \in missing : n = CHOOSE i \in missing : \A j \in missing : i <= j
    BY <1>1, <1>2, Least
  <2>2. r = [t EXCEPT !.sent = sent, !.at = "chunk", !.status = "processing", !.n = n]
    BY <1>2, <2>1 DEF Proceed
  <2>3. n \in Nat
    BY <1>1
  <2> QED
    BY <2>2, <2>3 DEF Task, Status
<1>3. CASE missing = {}
  <2>1. PICK st \in {"processing", "finishing"} :
           st = IF P(u).calls > 0 THEN "finishing" ELSE "processing"
    OBVIOUS
  <2>2. r = [t EXCEPT !.sent = sent, !.at = "finish", !.n = 1, !.status = st]
    BY <1>3, <2>1 DEF Proceed
  <2>3. Parts(FileOf[u]) \subseteq sent
    BY <1>3
  <2>4. /\ r.session = t.session /\ r.sent = sent /\ r.live = t.live /\ r.dels = t.dels
        /\ r.gone = t.gone /\ r.listed = t.listed /\ r.rushed = t.rushed
        /\ r.status = st /\ r.at = "finish" /\ r.n = 1
    BY <2>2 DEF Task
  <2>5. r \in Task
    <3>1. st \in Status /\ 1 \in Nat
      BY DEF Status
    <3> QED
      BY <2>2, <3>1 DEF Task
  <2> QED
    BY <2>3, <2>4, <2>5
<1> QED
  BY <1>2, <1>3

-----------------------------------------------------------------------------
(* What the steps do to a task and to the rest of the page.                *)

Others(u) == \A v \in Uploaders \ {u} : up'[v] = up[v]
SameWork(u) ==
    /\ up'[u].at = up[u].at /\ up'[u].n = up[u].n
    /\ up'[u].session = up[u].session /\ up'[u].sent = up[u].sent
SameCard(u) ==
    /\ up'[u].live = up[u].live /\ up'[u].dels = up[u].dels /\ up'[u].gone = up[u].gone
    /\ up'[u].listed = up[u].listed /\ up'[u].rushed = up[u].rushed
Forgotten(u) == ctx' = [ctx EXCEPT ![FileOf[u]] = NoCtx]
Doom(u) ==
    up'[u].dels = IF up[u].session = None THEN up[u].dels ELSE up[u].dels \cup {"error"}

\* start(): the task waits in the pool, or has failed.
Started(u) ==
    \/ /\ Enqueue(u) /\ FileOf[u] \in Allowed
       /\ up'[u].status = "queued" /\ up'[u].dels = up[u].dels /\ ctx' = ctx
    \/ /\ UNCHANGED poolVars /\ FileOf[u] \notin Allowed
       /\ up'[u].status = "error" /\ Doom(u) /\ Forgotten(u)

LEMMA ForgottenTyped ==
    ASSUME UTyped, NEW u \in Uploaders, Forgotten(u)
    PROVE  /\ ctx' \in CtxMap
           /\ ctx'[FileOf[u]] = NoCtx
           /\ \A f \in Files \ {FileOf[u]} : ctx'[f] = ctx[f]
  BY FileOfUploader DEF Forgotten, UTyped, CtxMap, NoCtx

LEMMA StartEffect ==
    ASSUME NEW u \in Uploaders, NEW t \in [Uploaders -> Task], Start(u, t),
           t[u].dels = up[u].dels, t[u].session = up[u].session
    PROVE  /\ up' \in [Uploaders -> Task]
           /\ Started(u)
           /\ up'[u].at = t[u].at /\ up'[u].n = t[u].n /\ up'[u].session = t[u].session
           /\ up'[u].sent = t[u].sent /\ up'[u].live = t[u].live /\ up'[u].gone = t[u].gone
           /\ up'[u].listed = t[u].listed /\ up'[u].rushed = t[u].rushed
           /\ \A v \in Uploaders \ {u} : up'[v] = t[v]
<1>1. CASE FileOf[u] \in Allowed
  <2>1. Enqueue(u) /\ up' = [t EXCEPT ![u].status = "queued"] /\ ctx' = ctx
    BY <1>1 DEF Start
  <2>2. up' \in [Uploaders -> Task]
    BY <2>1 DEF Task, Status
  <2>3. /\ up'[u] = [t[u] EXCEPT !.status = "queued"]
        /\ \A v \in Uploaders \ {u} : up'[v] = t[v]
    BY <2>1
  <2>4. t[u] \in Task
    OBVIOUS
  <2> HIDE <2>1
  <2> QED
    BY <1>1, <2>1, <2>2, <2>3, <2>4 DEF Task, Started
<1>2. CASE FileOf[u] \notin Allowed
  <2>1. PICK d : d = IF t[u].session = None THEN t[u].dels ELSE t[u].dels \cup {"error"}
    OBVIOUS
  <2>2. t[u] \in Task
    OBVIOUS
  <2>3. d \in SUBSET {"error", "cancel"}
    BY <2>1, <2>2 DEF Task
  <2>4. /\ up' = [t EXCEPT ![u].status = "error", ![u].dels = d]
        /\ Forgotten(u) /\ UNCHANGED poolVars
    BY <1>2, <2>1 DEF Start, Forgotten
  <2>5. /\ up'[u] = [t[u] EXCEPT !.status = "error", !.dels = d]
        /\ \A v \in Uploaders \ {u} : up'[v] = t[v]
    BY <2>4
  <2>6. up' \in [Uploaders -> Task]
    <3>1. up'[u] \in Task
      BY <2>2, <2>3, <2>5 DEF Task, Status
    <3>2. up' = [v \in Uploaders |-> IF v = u THEN up'[u] ELSE t[v]]
      BY <2>4
    <3> QED
      BY <3>1, <3>2
  <2>7. up'[u].dels = d /\ up'[u].status = "error"
    BY <2>2, <2>5 DEF Task
  <2>8. /\ up'[u].at = t[u].at /\ up'[u].n = t[u].n /\ up'[u].session = t[u].session
        /\ up'[u].sent = t[u].sent /\ up'[u].live = t[u].live /\ up'[u].gone = t[u].gone
        /\ up'[u].listed = t[u].listed /\ up'[u].rushed = t[u].rushed
    BY <2>2, <2>5 DEF Task
  <2>9. Doom(u)
    BY <2>1, <2>7 DEF Doom
  <2> QED
    BY <1>2, <2>4, <2>5, <2>6, <2>7, <2>8, <2>9 DEF Started
<1> QED
  BY <1>1, <1>2

LEMMA AddEffect ==
    ASSUME UTyped, NEW u \in Uploaders, AddTask(u)
    PROVE  /\ UTyped' /\ sess' = sess
           /\ Started(u) /\ SameWork(u) /\ up[u].status = "absent"
           /\ up'[u].live = up[u].live /\ up'[u].gone = up[u].gone
           /\ up'[u].listed = TRUE /\ up'[u].rushed = up[u].rushed
           /\ \/ Others(u)
              \/ \E h \in Uploaders \ {u} :
                    /\ up[h].status = "resumable" /\ up[h].listed /\ FileOf[h] = FileOf[u]
                    /\ up'[h] = [up[h] EXCEPT !.listed = FALSE]
                    /\ \A v \in Uploaders \ {u, h} : up'[v] = up[v]
<1>1. PICK new : new = [up EXCEPT ![u].listed = TRUE]
  OBVIOUS
<1>2. up[u] \in Task /\ up \in [Uploaders -> Task]
  BY DEF UTyped, CtxMap
<1>3. /\ new \in [Uploaders -> Task] /\ new[u] = [up[u] EXCEPT !.listed = TRUE]
      /\ \A v \in Uploaders \ {u} : new[v] = up[v]
  BY <1>1, <1>2 DEF Task
<1>4. /\ new[u].at = up[u].at /\ new[u].n = up[u].n /\ new[u].session = up[u].session
      /\ new[u].sent = up[u].sent /\ new[u].live = up[u].live /\ new[u].gone = up[u].gone
      /\ new[u].dels = up[u].dels /\ new[u].listed = TRUE /\ new[u].rushed = up[u].rushed
  BY <1>2, <1>3 DEF Task
<1>5. sess' = sess /\ up[u].status = "absent"
  BY DEF AddTask
<1>6. CASE Start(u, new)
  <2>1. /\ up' \in [Uploaders -> Task] /\ Started(u) /\ SameWork(u)
        /\ up'[u].live = up[u].live /\ up'[u].gone = up[u].gone
        /\ up'[u].listed = TRUE /\ up'[u].rushed = up[u].rushed /\ Others(u)
    BY <1>3, <1>4, <1>6, StartEffect DEF SameWork, Others
  <2>2. UTyped'
    BY <1>5, <2>1, ForgottenTyped DEF UTyped, CtxMap, Started
  <2> QED
    BY <1>5, <2>1, <2>2
<1>7. ASSUME NEW h \in Uploaders \ {u},
             up[h].status = "resumable" /\ up[h].listed /\ FileOf[h] = FileOf[u],
             Start(u, [new EXCEPT ![h].listed = FALSE])
      PROVE  /\ UTyped' /\ Started(u) /\ SameWork(u)
             /\ up'[u].live = up[u].live /\ up'[u].gone = up[u].gone
             /\ up'[u].listed = TRUE /\ up'[u].rushed = up[u].rushed
             /\ up'[h] = [up[h] EXCEPT !.listed = FALSE]
             /\ \A v \in Uploaders \ {u, h} : up'[v] = up[v]
  <2>1. PICK t : t = [new EXCEPT ![h].listed = FALSE]
    OBVIOUS
  <2>2. /\ t \in [Uploaders -> Task] /\ t[u] = new[u] /\ t[h] = [up[h] EXCEPT !.listed = FALSE]
        /\ \A v \in Uploaders \ {u, h} : t[v] = up[v]
    <3>1. h # u /\ new[h] = up[h] /\ new[h] \in Task
      BY <1>3
    <3>2. t[h] = [up[h] EXCEPT !.listed = FALSE] /\ \A v \in Uploaders \ {h} : t[v] = new[v]
      BY <1>3, <2>1, <3>1
    <3>3. t \in [Uploaders -> Task]
      <4>1. t[h] \in Task
        <5>1. up[h] \in Task
          BY <3>1
        <5>2. [up[h] EXCEPT !.listed = FALSE] \in Task
          BY <5>1 DEF Task
        <5> QED
          BY <3>2, <5>2
      <4>2. t = [v \in Uploaders |-> IF v = h THEN t[h] ELSE new[v]]
        BY <1>3, <2>1
      <4> QED
        BY <1>3, <4>1, <4>2
    <3> QED
      BY <1>3, <3>1, <3>2, <3>3
  <2>3. /\ up' \in [Uploaders -> Task] /\ Started(u) /\ SameWork(u)
        /\ up'[u].live = up[u].live /\ up'[u].gone = up[u].gone
        /\ up'[u].listed = TRUE /\ up'[u].rushed = up[u].rushed
        /\ \A v \in Uploaders \ {u} : up'[v] = t[v]
    <3>1. Start(u, t) /\ t[u].dels = up[u].dels /\ t[u].session = up[u].session
      BY <1>4, <1>7, <2>1, <2>2
    <3>2. /\ up' \in [Uploaders -> Task] /\ Started(u)
          /\ up'[u].at = t[u].at /\ up'[u].n = t[u].n /\ up'[u].session = t[u].session
          /\ up'[u].sent = t[u].sent /\ up'[u].live = t[u].live /\ up'[u].gone = t[u].gone
          /\ up'[u].listed = t[u].listed /\ up'[u].rushed = t[u].rushed
          /\ \A v \in Uploaders \ {u} : up'[v] = t[v]
      BY <2>2, <3>1, StartEffect
    <3> QED
      BY <1>4, <2>2, <3>2 DEF SameWork
  <2>4. UTyped'
    BY <1>5, <2>3, ForgottenTyped DEF UTyped, CtxMap, Started
  <2> QED
    BY <2>2, <2>3, <2>4
<1> QED
  BY <1>1, <1>5, <1>6, <1>7 DEF AddTask

LEMMA RetryEffect ==
    ASSUME UTyped, NEW u \in Uploaders, Retry(u)
    PROVE  /\ UTyped' /\ sess' = sess
           /\ Started(u) /\ SameWork(u) /\ Others(u)
           /\ up[u].status = "error" /\ up[u].listed
           /\ up'[u].live = TRUE /\ up'[u].gone = up[u].gone
           /\ up'[u].listed = up[u].listed /\ up'[u].rushed = (up[u].rushed \/ up[u].dels # {})
<1>1. PICK r \in BOOLEAN : r = (up[u].rushed \/ up[u].dels # {})
  OBVIOUS
<1>2. PICK t : t = [up EXCEPT ![u].live = TRUE, ![u].rushed = r]
  OBVIOUS
<1>3. Start(u, t) /\ sess' = sess /\ up[u].status = "error" /\ up[u].listed
  BY <1>1, <1>2 DEF Retry
<1>4. up[u] \in Task /\ up \in [Uploaders -> Task]
  BY DEF UTyped, CtxMap
<1>5. /\ t \in [Uploaders -> Task] /\ t[u] = [up[u] EXCEPT !.live = TRUE, !.rushed = r]
      /\ \A v \in Uploaders \ {u} : t[v] = up[v]
  BY <1>2, <1>4 DEF Task
<1>6. /\ t[u].at = up[u].at /\ t[u].n = up[u].n /\ t[u].session = up[u].session
      /\ t[u].sent = up[u].sent /\ t[u].live = TRUE /\ t[u].gone = up[u].gone
      /\ t[u].dels = up[u].dels /\ t[u].listed = up[u].listed /\ t[u].rushed = r
  BY <1>4, <1>5 DEF Task
<1>7. /\ up' \in [Uploaders -> Task] /\ Started(u) /\ SameWork(u) /\ Others(u)
      /\ up'[u].live = TRUE /\ up'[u].gone = up[u].gone
      /\ up'[u].listed = up[u].listed /\ up'[u].rushed = r
  <2>1. t \in [Uploaders -> Task] /\ Start(u, t)
    BY <1>3, <1>5
  <2>2. t[u].dels = up[u].dels /\ t[u].session = up[u].session
    BY <1>6
  <2>3. /\ up' \in [Uploaders -> Task] /\ Started(u)
        /\ up'[u].at = t[u].at /\ up'[u].n = t[u].n /\ up'[u].session = t[u].session
        /\ up'[u].sent = t[u].sent /\ up'[u].live = t[u].live /\ up'[u].gone = t[u].gone
        /\ up'[u].listed = t[u].listed /\ up'[u].rushed = t[u].rushed
        /\ \A v \in Uploaders \ {u} : up'[v] = t[v]
    BY ONLY <2>1, <2>2, StartEffect
  <2> QED
    BY <1>5, <1>6, <2>3 DEF SameWork, Others
<1>8. UTyped'
  BY <1>3, <1>7, ForgottenTyped DEF UTyped, CtxMap, Started
<1> QED
  BY <1>1, <1>3, <1>7, <1>8

LEMMA Put ==
    ASSUME UTyped, NEW u \in Uploaders, NEW x \in Task, up' = [up EXCEPT ![u] = x]
    PROVE  up' \in [Uploaders -> Task] /\ up'[u] = x /\ Others(u)
  BY DEF UTyped, CtxMap, Others

LEMMA CancelEffect ==
    ASSUME UTyped, NEW u \in Uploaders, Cancel(u)
    PROVE  /\ UTyped' /\ sess' = sess /\ UNCHANGED poolVars
           /\ up[u].listed /\ "cancel" \notin up[u].dels
           /\ SameWork(u) /\ Others(u) /\ up'[u].gone = up[u].gone /\ up'[u].rushed = up[u].rushed
           /\ \/ /\ up[u].status = "finished" /\ up'[u].status = "finished" /\ ctx' = ctx
                 /\ up'[u].live = up[u].live /\ up'[u].dels = up[u].dels /\ ~up'[u].listed
              \/ /\ up[u].status # "finished" /\ Forgotten(u) /\ ~up'[u].live
                 /\ up[u].session = None /\ up'[u].dels = up[u].dels
                 /\ up'[u].status = "canceled" /\ ~up'[u].listed
              \/ /\ up[u].status # "finished" /\ Forgotten(u) /\ ~up'[u].live
                 /\ up[u].session # None /\ up'[u].dels = up[u].dels \cup {"cancel"}
                 /\ up'[u].status = up[u].status /\ up'[u].listed = up[u].listed
<1>1. up[u] \in Task /\ up \in [Uploaders -> Task]
  BY DEF UTyped, CtxMap
<1>2. sess' = sess /\ UNCHANGED poolVars /\ up[u].listed /\ "cancel" \notin up[u].dels
  BY DEF Cancel, Loading
<1>3. CASE up[u].status = "finished"
  <2>1. PICK x : x = [up[u] EXCEPT !.listed = FALSE]
    OBVIOUS
  <2>2. up' = [up EXCEPT ![u] = x] /\ ctx' = ctx
    BY <1>3, <2>1 DEF Cancel
  <2>3. x \in Task
    BY <1>1, <2>1 DEF Task
  <2>4. up' \in [Uploaders -> Task] /\ up'[u] = x /\ Others(u)
    BY <2>2, <2>3, Put
  <2> QED
    BY <1>1, <1>2, <1>3, <2>1, <2>2, <2>4 DEF UTyped, CtxMap, SameWork, Task
<1>4. CASE up[u].status # "finished" /\ up[u].session = None
  <2>1. PICK x : x = [up[u] EXCEPT !.live = FALSE, !.status = "canceled", !.listed = FALSE]
    OBVIOUS
  <2>2. x \in Task /\ x.session = None
    BY <1>1, <1>4, <2>1 DEF Task, Status
  <2>3. up' = [up EXCEPT ![u] = x] /\ Forgotten(u)
    BY <1>1, <1>4, <2>1, <2>2 DEF Cancel, CancelSession, Forgotten, Task
  <2>4. up' \in [Uploaders -> Task] /\ up'[u] = x /\ Others(u)
    BY <2>2, <2>3, Put
  <2>5. UTyped'
    BY <1>2, <2>3, <2>4, ForgottenTyped DEF UTyped, CtxMap
  <2> QED
    BY <1>1, <1>2, <1>4, <2>1, <2>3, <2>4, <2>5 DEF SameWork, Task
<1>5. CASE up[u].status # "finished" /\ up[u].session # None
  <2>1. PICK x : x = [up[u] EXCEPT !.live = FALSE, !.dels = up[u].dels \cup {"cancel"}]
    OBVIOUS
  <2>2. x \in Task
    BY <1>1, <2>1 DEF Task
  <2>3. up' = [up EXCEPT ![u] = x] /\ Forgotten(u)
    <3>1. PICK t : t = [up[u] EXCEPT !.live = FALSE]
      OBVIOUS
    <3>2. t.session = up[u].session /\ t.dels = up[u].dels
      BY <1>1, <3>1 DEF Task
    <3>3. [t EXCEPT !.dels = t.dels \cup {"cancel"}] = x
      BY <1>1, <2>1, <3>1, <3>2 DEF Task
    <3>4. CancelSession(u, t, "cancel")
      BY <1>5, <3>1, <3>2 DEF Cancel
    <3> QED
      BY <1>5, <3>2, <3>3, <3>4 DEF CancelSession, Forgotten
  <2>4. up' \in [Uploaders -> Task] /\ up'[u] = x /\ Others(u)
    BY <2>2, <2>3, Put
  <2>5. UTyped'
    BY <1>2, <2>3, <2>4, ForgottenTyped DEF UTyped, CtxMap
  <2> QED
    BY <1>1, <1>2, <1>5, <2>1, <2>3, <2>4, <2>5 DEF SameWork, Task
<1> QED
  BY <1>3, <1>4, <1>5

\* What becomes of the other sessions: nothing, or they are over.
Ended(s) == /\ sess[s].state = "live"
            /\ \E e \in {"deleted", "expired"} : sess' = [sess EXCEPT ![s].state = e]

LEMMA DeleteEffect ==
    ASSUME UTyped, CardOK, NEW u \in Uploaders, NEW by \in {"error", "cancel"},
           DeleteSession(u, by)
    PROVE  /\ up' \in [Uploaders -> Task] /\ ctx' = ctx /\ UNCHANGED poolVars
           /\ by \in up[u].dels /\ up[u].session \in Session
           /\ SameWork(u) /\ Others(u) /\ up'[u].live = up[u].live
           /\ up'[u].rushed = up[u].rushed /\ up'[u].dels = up[u].dels \ {by}
           /\ \/ sess' = sess /\ up'[u].gone = up[u].gone
              \/ Ended(up[u].session) /\ up'[u].gone = up[u].gone \cup {up[u].session}
           /\ \/ by = "cancel" /\ up'[u].status = "canceled" /\ ~up'[u].listed
              \/ by = "error" /\ up'[u].status = up[u].status /\ up'[u].listed = up[u].listed
<1>1. up[u] \in Task /\ up \in [Uploaders -> Task]
  BY DEF UTyped, CtxMap
<1>2. /\ by \in up[u].dels /\ ctx' = ctx /\ UNCHANGED poolVars
  BY DEF DeleteSession
<1>3. up[u].session \in Session
  BY <1>1, <1>2 DEF CardOK, CardFine, Task
<1>4. PICK gone : /\ \/ sess' = sess /\ gone = up[u].gone
                     \/ Ended(up[u].session) /\ gone = up[u].gone \cup {up[u].session}
                  /\ up' = [up EXCEPT ![u] = Resolved(up[u], by, gone)]
  <2>1. \/ /\ sess' = sess
           /\ up' = [up EXCEPT ![u] = Resolved(up[u], by, up[u].gone)]
        \/ /\ sess[up[u].session].state = "live"
           /\ sess' = [sess EXCEPT ![up[u].session].state = "deleted"]
           /\ up' = [up EXCEPT ![u] = Resolved(up[u], by, up[u].gone \cup {up[u].session})]
    BY <1>1 DEF DeleteSession
  <2> QED
    BY <2>1 DEF Ended
<1>5. gone \in SUBSET Session
  BY <1>1, <1>3, <1>4 DEF Task
<1>6. PICK d \in SUBSET {"error", "cancel"} : d = up[u].dels \ {by}
  BY <1>1 DEF Task
<1>7. PICK x : x = Resolved(up[u], by, gone)
  OBVIOUS
<1>8. /\ x \in Task
      /\ x.at = up[u].at /\ x.n = up[u].n /\ x.session = up[u].session /\ x.sent = up[u].sent
      /\ x.live = up[u].live /\ x.rushed = up[u].rushed /\ x.dels = d /\ x.gone = gone
      /\ \/ by = "cancel" /\ x.status = "canceled" /\ ~x.listed
         \/ by = "error" /\ x.status = up[u].status /\ x.listed = up[u].listed
  <2>1. CASE by = "cancel"
    <3>1. x = [up[u] EXCEPT !.dels = d, !.gone = gone, !.status = "canceled", !.listed = FALSE]
      BY <1>6, <1>7, <2>1 DEF Resolved
    <3> QED
      BY <1>1, <1>5, <2>1, <3>1 DEF Task, Status
  <2>2. CASE by = "error"
    <3>1. x = [up[u] EXCEPT !.dels = d, !.gone = gone]
      BY <1>6, <1>7, <2>2 DEF Resolved
    <3> QED
      BY <1>1, <1>5, <2>2, <3>1 DEF Task
  <2> QED
    BY <2>1, <2>2
<1>9. up' \in [Uploaders -> Task] /\ up'[u] = x /\ Others(u)
  BY <1>4, <1>7, <1>8, Put
<1> QED
  BY <1>2, <1>3, <1>4, <1>6, <1>8, <1>9 DEF SameWork

\* setError: the session is left to be resumed, or deleted.
Stops(u, retryable) ==
    /\ up'[u].at = "idle" /\ Others(u)
    /\ up'[u].session = up[u].session /\ up'[u].live = up[u].live /\ up'[u].gone = up[u].gone
    /\ up'[u].listed = up[u].listed /\ up'[u].rushed = up[u].rushed
    /\ \/ retryable /\ P(u).resumes /\ up'[u].dels = up[u].dels /\ ctx' = ctx
       \/ ~(retryable /\ P(u).resumes) /\ Doom(u) /\ Forgotten(u)
Errs(u, retryable) == Stops(u, retryable) /\ up'[u].status = "error"

LEMMA CancelSessionEffect ==
    ASSUME UTyped, NEW u \in Uploaders, NEW t \in Task, CancelSession(u, t, "error"),
           t.session = up[u].session, t.dels = up[u].dels
    PROVE  /\ up' \in [Uploaders -> Task] /\ Others(u) /\ Doom(u) /\ Forgotten(u)
           /\ up'[u].status = t.status /\ up'[u].at = t.at /\ up'[u].n = t.n
           /\ up'[u].session = t.session /\ up'[u].sent = t.sent /\ up'[u].live = t.live
           /\ up'[u].gone = t.gone /\ up'[u].listed = t.listed /\ up'[u].rushed = t.rushed
<1>1. Forgotten(u)
  BY DEF CancelSession, Forgotten
<1>2. CASE t.session = None
  <2>1. up' = [up EXCEPT ![u] = t]
    BY <1>2 DEF CancelSession
  <2>2. up' \in [Uploaders -> Task] /\ up'[u] = t /\ Others(u)
    BY <2>1, Put
  <2> QED
    BY <1>1, <1>2, <2>2 DEF Doom
<1>3. CASE t.session # None
  <2>1. PICK x : x = [t EXCEPT !.dels = t.dels \cup {"error"}]
    OBVIOUS
  <2>2. up' = [up EXCEPT ![u] = x]
    BY <1>3, <2>1 DEF CancelSession
  <2>3. x \in Task
    BY <2>1 DEF Task
  <2>4. up' \in [Uploaders -> Task] /\ up'[u] = x /\ Others(u)
    BY <2>2, <2>3, Put
  <2> QED
    BY <1>1, <1>3, <2>1, <2>4 DEF Doom, Task
<1> QED
  BY <1>2, <1>3

LEMMA ErrorEffect ==
    ASSUME UTyped, NEW u \in Uploaders, NEW retryable \in BOOLEAN, SetError(u, retryable)
    PROVE  /\ up' \in [Uploaders -> Task] /\ Errs(u, retryable)
           /\ ctx' \in CtxMap
<1>1. up[u] \in Task
  BY DEF UTyped, CtxMap
<1>2. PICK t : t = [up[u] EXCEPT !.at = "idle", !.n = 0, !.status = "error"]
  OBVIOUS
<1>3. t \in Task
  BY <1>1, <1>2 DEF Task, Status
<1>4. /\ t.at = "idle" /\ t.status = "error" /\ t.session = up[u].session
      /\ t.live = up[u].live /\ t.gone = up[u].gone /\ t.dels = up[u].dels
      /\ t.listed = up[u].listed /\ t.rushed = up[u].rushed
  BY <1>1, <1>2 DEF Task
<1>5. CASE retryable /\ P(u).resumes
  <2>1. up' = [up EXCEPT ![u] = t] /\ ctx' = ctx
    BY <1>2, <1>5 DEF SetError
  <2>2. up' \in [Uploaders -> Task] /\ up'[u] = t /\ Others(u)
    BY <1>3, <2>1, Put
  <2> QED
    BY <1>4, <1>5, <2>1, <2>2 DEF Errs, Stops, UTyped, CtxMap
<1>6. CASE ~(retryable /\ P(u).resumes)
  <2>1. CancelSession(u, t, "error")
    BY <1>2, <1>6 DEF SetError
  <2>2. /\ up' \in [Uploaders -> Task] /\ Others(u) /\ Doom(u) /\ Forgotten(u)
        /\ up'[u].status = t.status /\ up'[u].at = t.at
        /\ up'[u].session = t.session /\ up'[u].live = t.live
        /\ up'[u].gone = t.gone /\ up'[u].listed = t.listed /\ up'[u].rushed = t.rushed
    BY <1>3, <1>4, <2>1, CancelSessionEffect
  <2> QED
    BY <1>4, <1>6, <2>2, ForgottenTyped DEF Errs, Stops
<1> QED
  BY <1>5, <1>6

-----------------------------------------------------------------------------
(* What the requests do on the server.                                     *)

\* Sessions keep their file, what they have got, and that they are complete.
Grows ==
    \A s \in Session :
        /\ sess[s].state # "none" => sess'[s].state # "none" /\ sess'[s].file = sess[s].file
        /\ sess[s].got \subseteq sess'[s].got
        /\ sess[s].state = "done" => sess'[s].state = "done"
ServerFine == Grows /\ SessOK' /\ sess' \in [Session -> SessionRecord]

LEMMA SameServer == UTyped /\ SessOK /\ sess' = sess => ServerFine
  BY DEF UTyped, CtxMap, SessOK, ServerFine, Grows

LEMMA EndedFine ==
    ASSUME UTyped, SessOK, NEW s \in Session, Ended(s)
    PROVE  ServerFine
<1>1. PICK e \in {"deleted", "expired"} : sess' = [sess EXCEPT ![s].state = e]
  BY DEF Ended
<1>2. sess[s].state = "live" /\ sess[s] \in SessionRecord
  BY DEF Ended, UTyped, CtxMap
<1>3. sess'[s] = [sess[s] EXCEPT !.state = e]
  BY <1>1 DEF UTyped, CtxMap
<1>4. \A r \in Session \ {s} : sess'[r] = sess[r]
  BY <1>1 DEF UTyped, CtxMap
<1>5. /\ sess'[s] \in SessionRecord /\ sess'[s].state = e
      /\ sess'[s].file = sess[s].file /\ sess'[s].got = sess[s].got
  BY <1>2, <1>3 DEF SessionRecord
<1>6. sess' \in [Session -> SessionRecord]
  <2>1. sess' = [r \in Session |-> IF r = s THEN sess'[s] ELSE sess[r]]
    BY <1>1, <1>4 DEF UTyped, CtxMap
  <2> QED
    BY <1>5, <2>1 DEF UTyped, CtxMap
<1>7. Grows
  BY <1>2, <1>4, <1>5 DEF Grows
<1>8. SessOK'
  <2>1. ~(Policy[PolicyOf[sess[s].file]].calls = 0 /\ Parts(sess[s].file) \subseteq sess[s].got)
    BY <1>2 DEF SessOK
  <2>2. e # "none" /\ e # "done" /\ sess[s].state # "none"
    BY <1>2
  <2> QED
    BY <1>4, <1>5, <2>1, <2>2 DEF SessOK
<1> QED
  BY <1>6, <1>7, <1>8 DEF ServerFine

\* One session changes, as follows.
LEMMA OneSession ==
    ASSUME UTyped, SessOK, NEW s \in Session, NEW x \in SessionRecord,
           sess' = [sess EXCEPT ![s] = x],
           x.state # "none", x.file \in Files \cap Allowed, x.got \subseteq Parts(x.file),
           Policy[PolicyOf[x.file]].calls = 0 /\ Parts(x.file) \subseteq x.got => x.state = "done",
           sess[s].state # "none" => x.file = sess[s].file, sess[s].got \subseteq x.got,
           sess[s].state # "done"
    PROVE  ServerFine /\ sess'[s] = x
<1>1. /\ sess' \in [Session -> SessionRecord] /\ sess'[s] = x
      /\ \A r \in Session \ {s} : sess'[r] = sess[r]
  BY DEF UTyped, CtxMap
<1>2. Grows
  BY <1>1 DEF Grows
<1>3. SessOK'
  BY <1>1 DEF SessOK
<1> QED
  BY <1>1, <1>2, <1>3 DEF ServerFine

LEMMA CreateServed ==
    ASSUME UTyped, SessOK, CardOK, NEW u \in Uploaders, up[u].at = "create", Accepts(u),
           sess' = Served(u)
    PROVE  /\ ServerFine /\ NewSession \in Session /\ NewSession # None
           /\ sess[NewSession].state = "none"
           /\ sess'[NewSession].state = "live" /\ sess'[NewSession].file = FileOf[u]
<1>1. Free # {} /\ Free \subseteq Session /\ Session \subseteq Nat
  BY DEF Accepts, Free, Session
<1>2. PICK s \in Free : s = NewSession
  BY <1>1, Least DEF NewSession
<1>3. s \in Session /\ sess[s].state = "none" /\ s # None
  BY <1>2 DEF Free, Session, None
<1>4. PICK x : x = [NoSession EXCEPT !.file = FileOf[u], !.state = "live"]
  OBVIOUS
<1>5. sess' = [sess EXCEPT ![s] = x]
  BY <1>2, <1>4 DEF Served
<1>6. /\ x.state = "live" /\ x.file = FileOf[u] /\ x.got = {} /\ x \in SessionRecord
  BY <1>4, FileOfUploader DEF NoSession, SessionRecord
<1>7. FileOf[u] \in Files \cap Allowed
  BY FileOfUploader DEF CardOK, CardFine
<1>8. sess[s].got = {} /\ Parts(FileOf[u]) # {}
  BY <1>3, PartsFacts DEF SessOK
<1>9. ServerFine /\ sess'[s] = x
  BY <1>3, <1>5, <1>6, <1>7, <1>8, OneSession
<1> QED
  BY <1>2, <1>3, <1>6, <1>9

\* The session of an upload under way.
LEMMA SessionOfTask ==
    ASSUME UTyped, SessOK, TaskOK, NEW u \in Uploaders, up[u].at \in {"chunk", "finish"}
    PROVE  /\ up[u].session \in Session /\ sess[up[u].session] \in SessionRecord
           /\ sess[up[u].session].file = FileOf[u] /\ sess[up[u].session].state # "none"
           /\ FileOf[u] \in Files \cap Allowed
  BY FileOfUploader DEF UTyped, CtxMap, SessOK, TaskOK, TaskFine, Holds

LEMMA ChunkServed ==
    ASSUME UTyped, SessOK, TaskOK, NEW u \in Uploaders, up[u].at = "chunk", Accepts(u),
           sess' = Served(u)
    PROVE  /\ ServerFine /\ up[u].n \in sess'[up[u].session].got
<1> DEFINE s == up[u].session
           n == up[u].n
           f == FileOf[u]
<1>1. /\ s \in Session /\ sess[s] \in SessionRecord /\ sess[s].file = f
      /\ f \in Files \cap Allowed
  BY SessionOfTask
<1>2. sess[s].state = "live" /\ n \in Parts(f)
  BY DEF Accepts, TaskOK, TaskFine
<1>3. PICK got : got = sess[s].got \cup {n}
  OBVIOUS
<1>4. PICK state : state = IF P(u).calls = 0 /\ Parts(f) \subseteq got THEN "done" ELSE sess[s].state
  OBVIOUS
<1>5. PICK x : x = [sess[s] EXCEPT !.got = got, !.state = state]
  OBVIOUS
<1>6. sess' = [sess EXCEPT ![s] = x]
  <2>1. Served(u) = [sess EXCEPT ![s].got = sess[s].got \cup {n}, ![s].state = state]
    BY <1>1, <1>3, <1>4 DEF Served, UTyped, CtxMap
  <2> QED
    BY <1>1, <1>3, <1>5, <2>1 DEF UTyped, CtxMap
<1>7. got \in SUBSET Chunks /\ state \in {"live", "done"} /\ got \subseteq Parts(f)
  <2>1. sess[s].got \subseteq Parts(sess[s].file)
    BY <1>1 DEF SessOK
  <2>2. Parts(f) \subseteq Chunks
    BY PartsFacts
  <2> QED
    BY <1>1, <1>2, <1>3, <1>4, <2>1, <2>2
<1>8. /\ x \in SessionRecord /\ x.state = state /\ x.got = got /\ x.file = f
  BY <1>1, <1>5, <1>7 DEF SessionRecord
<1>9. ServerFine /\ sess'[s] = x
  <2>1. Policy[PolicyOf[f]].calls = 0 /\ Parts(f) \subseteq got => state = "done"
    BY <1>4 DEF P
  <2> QED
    BY <1>1, <1>2, <1>3, <1>6, <1>7, <1>8, <2>1, OneSession
<1> QED
  BY <1>3, <1>8, <1>9

LEMMA CallServed ==
    ASSUME UTyped, SessOK, TaskOK, NEW u \in Uploaders, up[u].at = "finish", Accepts(u),
           sess' = Served(u)
    PROVE  /\ ServerFine
           /\ up[u].n = P(u).calls => sess'[up[u].session].state = "done"
<1> DEFINE s == up[u].session
           n == up[u].n
           f == FileOf[u]
<1>1. /\ s \in Session /\ sess[s] \in SessionRecord /\ sess[s].file = f
      /\ f \in Files \cap Allowed
  BY SessionOfTask
<1>2. sess[s].state = "live" /\ n \in Nat
  BY DEF Accepts, UTyped, CtxMap, Task
<1>3. PICK state : state = IF n = P(u).calls THEN "done" ELSE sess[s].state
  OBVIOUS
<1>4. PICK x : x = [sess[s] EXCEPT !.fin = n, !.state = state]
  OBVIOUS
<1>5. sess' = [sess EXCEPT ![s] = x]
  <2>1. Served(u) = [sess EXCEPT ![s].fin = n, ![s].state = state]
    BY <1>1, <1>3 DEF Served, UTyped, CtxMap
  <2> QED
    BY <1>1, <1>4, <2>1 DEF UTyped, CtxMap
<1>6. state \in {"live", "done"}
  BY <1>2, <1>3
<1>7. /\ x \in SessionRecord /\ x.state = state /\ x.got = sess[s].got /\ x.file = f
  BY <1>1, <1>2, <1>4, <1>6 DEF SessionRecord
<1>8. ServerFine /\ sess'[s] = x
  <2>1. /\ sess[s].got \subseteq Parts(f)
        /\ ~(Policy[PolicyOf[f]].calls = 0 /\ Parts(f) \subseteq sess[s].got)
    BY <1>1, <1>2 DEF SessOK
  <2> QED
    BY <1>1, <1>2, <1>5, <1>6, <1>7, <2>1, OneSession
<1> QED
  BY <1>3, <1>7, <1>8

LEMMA MaybeServedFine ==
    ASSUME UTyped, SessOK, TaskOK, CardOK, NEW u \in Uploaders, Awaits(u), MaybeServed(u)
    PROVE  ServerFine
<1>1. up[u].at \in {"create", "chunk", "finish"}
  BY DEF Awaits, UTyped, CtxMap, Task
<1> QED
  BY <1>1, SameServer, CreateServed, ChunkServed, CallServed DEF MaybeServed

-----------------------------------------------------------------------------
(* What the steps of a task do.                                            *)

\* The loop over the chunks has gone on with what is known to have been sent.
Going(u, session, sent) ==
    /\ up'[u].session = session /\ up'[u].sent = sent
    /\ up'[u].status \in {"processing", "finishing"}
    /\ \/ up'[u].at = "chunk" /\ up'[u].n \in Parts(FileOf[u]) \ sent
       \/ up'[u].at = "finish" /\ up'[u].n = 1 /\ Parts(FileOf[u]) \subseteq sent

\* The context has been saved, or has not.
SavedAs(u, session, sent) ==
    /\ ctx' \in CtxMap /\ \A f \in Files \ {FileOf[u]} : ctx'[f] = ctx[f]
    /\ \/ ctx'[FileOf[u]] = ctx[FileOf[u]]
       \/ P(u).chunked /\ ctx'[FileOf[u]] = [session |-> session, sent |-> sent]

LEMMA GoingEffect ==
    ASSUME UTyped, NEW u \in Uploaders, NEW t \in Task, NEW sent \in SUBSET Chunks,
           up' = [up EXCEPT ![u] = Proceed(t, u, sent)],
           t.live = up[u].live, t.dels = up[u].dels, t.gone = up[u].gone,
           t.listed = up[u].listed, t.rushed = up[u].rushed
    PROVE  /\ up' \in [Uploaders -> Task] /\ Others(u) /\ SameCard(u)
           /\ Going(u, t.session, sent)
<1>1. PICK r : r = Proceed(t, u, sent)
  OBVIOUS
<1>2. /\ r \in Task
      /\ r.session = t.session /\ r.sent = sent /\ r.live = t.live /\ r.dels = t.dels
      /\ r.gone = t.gone /\ r.listed = t.listed /\ r.rushed = t.rushed
      /\ r.status \in {"processing", "finishing"}
      /\ \/ r.at = "chunk" /\ r.n \in Parts(FileOf[u]) \ sent
         \/ r.at = "finish" /\ r.n = 1 /\ Parts(FileOf[u]) \subseteq sent
  BY <1>1, ProceedFacts
<1>3. up' \in [Uploaders -> Task] /\ up'[u] = r /\ Others(u)
  BY <1>1, <1>2, Put
<1> QED
  BY <1>2, <1>3 DEF SameCard, Going

LEMMA SaveEffect ==
    ASSUME UTyped, NEW u \in Uploaders, NEW session \in Session, NEW sent \in SUBSET Chunks,
           Save(u, session, sent)
    PROVE  SavedAs(u, session, sent)
<1>1. PICK c : c = [session |-> session, sent |-> sent]
  OBVIOUS
<1>2. \/ P(u).chunked /\ ctx' = [ctx EXCEPT ![FileOf[u]] = c]
      \/ ctx' = ctx
  BY <1>1 DEF Save
<1>3. c \in [session : Session \cup {None}, sent : SUBSET Chunks]
  BY <1>1
<1>4. FileOf[u] \in Files
  BY FileOfUploader
<1> QED
  BY <1>1, <1>2, <1>3, <1>4 DEF SavedAs, UTyped, CtxMap

LEMMA BeginEffect ==
    ASSUME UTyped, CtxOK, NEW u \in Uploaders, BeginTask(u)
    PROVE  /\ up' \in [Uploaders -> Task] /\ ctx' \in CtxMap /\ sess' = sess
           /\ Others(u) /\ SameCard(u)
           /\ \/ /\ up'[u].at = "create" /\ up'[u].status = "preparing"
                 /\ up'[u].session = up[u].session /\ Forgotten(u)
              \/ /\ ctx[FileOf[u]] # NoCtx /\ ctx' = ctx
                 /\ Going(u, ctx[FileOf[u]].session, ctx[FileOf[u]].sent)
<1> DEFINE c == Cached(FileOf[u])
<1>1. up[u] \in Task /\ FileOf[u] \in Files /\ ctx \in CtxMap
  BY FileOfUploader DEF UTyped
<1>2. c = NoCtx \/ (ctx[FileOf[u]] # NoCtx /\ c = ctx[FileOf[u]])
  BY DEF Cached
<1>3. CASE c = NoCtx
  <2>1. PICK x : x = [up[u] EXCEPT !.status = "preparing", !.at = "create"]
    OBVIOUS
  <2>2. x \in Task
    BY <1>1, <2>1 DEF Task, Status
  <2>3. up' = [up EXCEPT ![u] = x] /\ Forgotten(u)
    BY <1>3, <2>1 DEF BeginTask, Forgotten, UTyped
  <2>4. up' \in [Uploaders -> Task] /\ up'[u] = x /\ Others(u)
    BY <2>2, <2>3, Put
  <2>5. /\ x.status = "preparing" /\ x.at = "create" /\ x.session = up[u].session
        /\ x.live = up[u].live /\ x.dels = up[u].dels /\ x.gone = up[u].gone
        /\ x.listed = up[u].listed /\ x.rushed = up[u].rushed
    BY <1>1, <2>1 DEF Task
  <2>6. ctx' \in CtxMap
    BY <2>3, ForgottenTyped
  <2> QED
    BY <2>3, <2>4, <2>5, <2>6 DEF SameCard, BeginTask
<1>4. CASE c # NoCtx
  <2>1. ctx[FileOf[u]] # NoCtx /\ c = ctx[FileOf[u]] /\ c.session \in Session /\ c.sent \in SUBSET Chunks
    BY <1>1, <1>2, <1>4 DEF CtxOK, Holds, CtxMap
  <2>2. PICK t : t = [up[u] EXCEPT !.session = c.session]
    OBVIOUS
  <2>3. t \in Task
    BY <1>1, <2>1, <2>2 DEF Task
  <2>4. /\ t.session = c.session /\ t.live = up[u].live /\ t.dels = up[u].dels
        /\ t.gone = up[u].gone /\ t.listed = up[u].listed /\ t.rushed = up[u].rushed
    BY <1>1, <2>2 DEF Task
  <2>5. up' = [up EXCEPT ![u] = Proceed(t, u, c.sent)] /\ ctx' = ctx
    BY <1>4, <2>2 DEF BeginTask
  <2>6. /\ up' \in [Uploaders -> Task] /\ Others(u) /\ SameCard(u)
        /\ Going(u, t.session, c.sent)
    BY <2>1, <2>3, <2>4, <2>5, GoingEffect
  <2> QED
    BY <1>1, <2>1, <2>4, <2>5, <2>6 DEF BeginTask
<1> QED
  BY <1>3, <1>4

LEMMA CreatedEffect ==
    ASSUME UTyped, SessOK, TaskOK, CardOK, NEW u \in Uploaders, Created(u)
    PROVE  \E s \in Session :
           /\ up' \in [Uploaders -> Task] /\ UNCHANGED poolVars
           /\ up[u].at = "create" /\ Others(u) /\ SameCard(u)
           /\ ServerFine /\ sess[s].state = "none" /\ s # None
           /\ sess'[s].state = "live" /\ sess'[s].file = FileOf[u]
           /\ Going(u, s, {}) /\ SavedAs(u, s, {})
<1>1. up[u].at = "create" /\ Accepts(u) /\ sess' = Served(u) /\ UNCHANGED poolVars
  BY DEF Created
<1>2. PICK s \in Session :
        /\ s = NewSession /\ ServerFine /\ s # None
        /\ sess[s].state = "none"
        /\ sess'[s].state = "live" /\ sess'[s].file = FileOf[u]
  BY <1>1, CreateServed
<1>3. Cached(FileOf[u]) = NoCtx
  BY <1>1 DEF TaskOK, TaskFine, Cached
<1>4. PICK t : t = [up[u] EXCEPT !.session = s]
  OBVIOUS
<1>5. up[u] \in Task
  BY DEF UTyped
<1>6. t \in Task
  BY <1>4, <1>5 DEF Task
<1>7. /\ t.session = s /\ t.live = up[u].live /\ t.dels = up[u].dels
      /\ t.gone = up[u].gone /\ t.listed = up[u].listed /\ t.rushed = up[u].rushed
  BY <1>4, <1>5 DEF Task
<1>8. PICK sent \in SUBSET Chunks : sent = {}
  OBVIOUS
<1>9. up' = [up EXCEPT ![u] = Proceed(t, u, sent)] /\ Save(u, s, sent)
  BY <1>2, <1>3, <1>4, <1>8 DEF Created
<1>10. SavedAs(u, s, sent)
  BY <1>9, SaveEffect
<1>11. /\ up' \in [Uploaders -> Task] /\ Others(u) /\ SameCard(u) /\ Going(u, s, sent)
  BY <1>6, <1>7, <1>9, GoingEffect
<1> QED
  BY <1>1, <1>2, <1>8, <1>10, <1>11

LEMMA ChunkEffect ==
    ASSUME UTyped, SessOK, TaskOK, NEW u \in Uploaders, ChunkUploaded(u)
    PROVE  \E sent \in SUBSET Chunks :
           /\ up' \in [Uploaders -> Task] /\ UNCHANGED poolVars
           /\ up[u].at = "chunk" /\ Others(u) /\ SameCard(u)
           /\ ServerFine /\ sent = up[u].sent \cup {up[u].n}
           /\ sent \subseteq sess'[up[u].session].got
           /\ Going(u, up[u].session, sent) /\ SavedAs(u, up[u].session, sent)
<1>1. /\ up[u].at = "chunk" /\ Accepts(u) /\ sess' = Served(u) /\ UNCHANGED poolVars
      /\ up' = [up EXCEPT ![u] = Proceed(up[u], u, up[u].sent \cup {up[u].n})]
      /\ Save(u, up[u].session, up[u].sent \cup {up[u].n})
  BY DEF ChunkUploaded, UTyped
<1>2. ServerFine /\ up[u].n \in sess'[up[u].session].got
  BY <1>1, ChunkServed
<1>3. up[u] \in Task /\ up[u].session \in Session
  BY <1>1, SessionOfTask DEF UTyped
<1>4. up[u].n \in Parts(FileOf[u]) /\ up[u].sent \ {up[u].n} \subseteq sess[up[u].session].got
  BY <1>1 DEF TaskOK, TaskFine
<1>5. PICK sent \in SUBSET Chunks : sent = up[u].sent \cup {up[u].n}
  <2>1. up[u].n \in Chunks /\ up[u].sent \subseteq Chunks
    BY <1>3, <1>4, PartsFacts DEF Task
  <2> QED
    BY <2>1
<1>6. sent \subseteq sess'[up[u].session].got
  BY <1>2, <1>3, <1>4, <1>5 DEF ServerFine, Grows
<1>7. SavedAs(u, up[u].session, sent)
  BY <1>1, <1>3, <1>5, SaveEffect
<1>8. /\ up' \in [Uploaders -> Task] /\ Others(u) /\ SameCard(u)
      /\ Going(u, up[u].session, sent)
  BY <1>1, <1>3, <1>5, GoingEffect
<1> QED
  BY <1>1, <1>2, <1>5, <1>6, <1>7, <1>8

LEMMA ProgressEffect ==
    ASSUME UTyped, TaskOK, NEW u \in Uploaders, Progress(u)
    PROVE  /\ up' \in [Uploaders -> Task] /\ UNCHANGED <<ctx, sess, poolVars>>
           /\ up[u].at = "chunk" /\ Others(u) /\ SameCard(u)
           /\ up'[u].at = up[u].at /\ up'[u].n = up[u].n /\ up'[u].session = up[u].session
           /\ up'[u].sent = up[u].sent \cup {up[u].n} /\ up'[u].status = up[u].status
<1>1. up[u] \in Task /\ up[u].at = "chunk"
  BY DEF UTyped, Progress
<1>2. PICK sent \in SUBSET Chunks : sent = up[u].sent \cup {up[u].n}
  <2>1. up[u].n \in Chunks /\ up[u].sent \subseteq Chunks
    BY <1>1, PartsFacts DEF Task, TaskOK, TaskFine
  <2> QED
    BY <2>1
<1>3. PICK x : x = [up[u] EXCEPT !.sent = sent]
  OBVIOUS
<1>4. x \in Task
  BY <1>1, <1>3 DEF Task
<1>5. up' = [up EXCEPT ![u] = x]
  BY <1>2, <1>3 DEF Progress, UTyped
<1>6. up' \in [Uploaders -> Task] /\ up'[u] = x /\ Others(u)
  BY <1>4, <1>5, Put
<1>7. UNCHANGED <<ctx, sess, poolVars>>
  BY DEF Progress
<1> QED
  BY <1>1, <1>2, <1>3, <1>6, <1>7 DEF SameCard, Task

\* One request of those that complete the upload is done with.
Called(u) ==
    /\ up[u].at = "finish" /\ Awaits(u)
    /\ up'[u].at = up[u].at /\ up'[u].n = up[u].n + 1 /\ up'[u].session = up[u].session
    /\ up'[u].sent = up[u].sent /\ up'[u].status = up[u].status
    /\ SameCard(u) /\ Others(u)
    /\ ctx' = ctx /\ UNCHANGED poolVars

LEMMA CallEffect ==
    ASSUME UTyped, NEW u \in Uploaders, up' = [up EXCEPT ![u].n = up[u].n + 1],
           up[u].at = "finish", Awaits(u), ctx' = ctx, UNCHANGED poolVars
    PROVE  up' \in [Uploaders -> Task] /\ ctx' \in CtxMap /\ Called(u)
<1>1. up[u] \in Task
  BY DEF UTyped
<1>2. PICK n : n = up[u].n + 1
  OBVIOUS
<1>3. PICK x : x = [up[u] EXCEPT !.n = n]
  OBVIOUS
<1>4. n \in Nat
  BY <1>1, <1>2 DEF Task
<1>5. x \in Task
  BY <1>1, <1>3, <1>4 DEF Task
<1>6. up' = [up EXCEPT ![u] = x]
  BY <1>2, <1>3 DEF UTyped
<1>7. up' \in [Uploaders -> Task] /\ up'[u] = x /\ Others(u)
  BY <1>5, <1>6, Put
<1>8. /\ x.at = up[u].at /\ x.n = n /\ x.session = up[u].session
      /\ x.sent = up[u].sent /\ x.status = up[u].status
      /\ x.live = up[u].live /\ x.dels = up[u].dels /\ x.gone = up[u].gone
      /\ x.listed = up[u].listed /\ x.rushed = up[u].rushed
  BY <1>1, <1>3 DEF Task
<1> QED
  BY <1>2, <1>7, <1>8 DEF Called, SameCard, UTyped

LEMMA CallDoneEffect ==
    ASSUME UTyped, SessOK, TaskOK, NEW u \in Uploaders, CallDone(u)
    PROVE  /\ up' \in [Uploaders -> Task] /\ ctx' \in CtxMap /\ Called(u) /\ ServerFine
           /\ up[u].n = P(u).calls => sess'[up[u].session].state = "done"
<1>1. /\ up[u].at = "finish" /\ Accepts(u) /\ sess' = Served(u) /\ ctx' = ctx
      /\ UNCHANGED poolVars /\ up' = [up EXCEPT ![u].n = up[u].n + 1]
  BY DEF CallDone, UTyped
<1>2. Awaits(u)
  BY <1>1 DEF CallDone, Idle
<1> QED
  BY <1>1, <1>2, CallEffect, CallServed

LEMMA FailEffect ==
    ASSUME UTyped, NEW u \in Uploaders, NEW retryable \in BOOLEAN, Fail(u, retryable),
           Awaits(u)
    PROVE  /\ up' \in [Uploaders -> Task] /\ ctx' \in CtxMap
           /\ \/ Called(u) /\ P(u).swallows
              \/ Release(u) /\ Errs(u, retryable)
<1>1. CASE up[u].at = "finish" /\ P(u).swallows
  <2>1. up' = [up EXCEPT ![u].n = up[u].n + 1] /\ ctx' = ctx /\ UNCHANGED poolVars
    BY <1>1 DEF Fail, UTyped
  <2> QED
    BY <1>1, <2>1, CallEffect
<1>2. CASE ~(up[u].at = "finish" /\ P(u).swallows)
  BY <1>2, ErrorEffect DEF Fail
<1> QED
  BY <1>1, <1>2

LEMMA FailedEffect ==
    ASSUME UTyped, SessOK, TaskOK, CardOK, NEW u \in Uploaders, Refused(u) \/ Lost(u)
    PROVE  \E retryable \in BOOLEAN :
           /\ up' \in [Uploaders -> Task] /\ ctx' \in CtxMap /\ ServerFine /\ Awaits(u)
           /\ \/ Called(u) /\ P(u).swallows
              \/ Release(u) /\ Errs(u, retryable)
<1>1. CASE Refused(u)
  BY <1>1, FailEffect, SameServer DEF Refused
<1>2. CASE Lost(u)
  BY <1>2, FailEffect, MaybeServedFine DEF Lost
<1> QED
  BY <1>1, <1>2

LEMMA AbortEffect ==
    ASSUME UTyped, SessOK, TaskOK, CardOK, NEW u \in Uploaders, Abort(u)
    PROVE  /\ up' \in [Uploaders -> Task] /\ ctx' \in CtxMap /\ ServerFine /\ Awaits(u)
           /\ ~up[u].live
           /\ \/ Called(u) /\ P(u).swallows
              \/ Release(u) /\ Stops(u, TRUE) /\ up'[u].status = up[u].status
<1>1. up[u] \in Task /\ Awaits(u) /\ ~up[u].live /\ MaybeServed(u)
  BY DEF UTyped, Abort
<1>2. ServerFine
  BY <1>1, MaybeServedFine
<1>3. CASE up[u].at = "finish" /\ P(u).swallows
  <2>1. up' = [up EXCEPT ![u].n = up[u].n + 1] /\ ctx' = ctx /\ UNCHANGED poolVars
    BY <1>3 DEF Abort, UTyped
  <2> QED
    BY <1>1, <1>2, <1>3, <2>1, CallEffect
<1>4. CASE ~(up[u].at = "finish" /\ P(u).swallows)
  <2>1. PICK t : t = [up[u] EXCEPT !.at = "idle", !.n = 0]
    OBVIOUS
  <2>2. t \in Task
    BY <1>1, <2>1 DEF Task
  <2>3. /\ t.at = "idle" /\ t.status = up[u].status /\ t.session = up[u].session
        /\ t.live = up[u].live /\ t.gone = up[u].gone /\ t.dels = up[u].dels
        /\ t.listed = up[u].listed /\ t.rushed = up[u].rushed
    BY <1>1, <2>1 DEF Task
  <2>4. /\ Release(u)
        /\ IF P(u).resumes THEN up' = [up EXCEPT ![u] = t] /\ ctx' = ctx
           ELSE CancelSession(u, t, "error")
    BY <1>4, <2>1 DEF Abort
  <2>5. CASE P(u).resumes
    <3>1. up' \in [Uploaders -> Task] /\ up'[u] = t /\ Others(u)
      BY <2>2, <2>4, <2>5, Put
    <3> QED
      BY <1>1, <1>2, <2>3, <2>4, <2>5, <3>1 DEF Stops, UTyped
  <2>6. CASE ~P(u).resumes
    <3>1. /\ up' \in [Uploaders -> Task] /\ Others(u) /\ Doom(u) /\ Forgotten(u)
          /\ up'[u].status = t.status /\ up'[u].at = t.at
          /\ up'[u].session = t.session /\ up'[u].live = t.live
          /\ up'[u].gone = t.gone /\ up'[u].listed = t.listed /\ up'[u].rushed = t.rushed
      BY <2>2, <2>3, <2>4, <2>6, CancelSessionEffect
    <3>2. Stops(u, TRUE) /\ up'[u].status = up[u].status
      BY <2>3, <2>6, <3>1 DEF Stops
    <3> QED
      BY <1>1, <1>2, <2>4, <3>1, <3>2, ForgottenTyped
  <2> QED
    BY <2>5, <2>6
<1> QED
  BY <1>3, <1>4

LEMMA CompleteEffect ==
    ASSUME UTyped, NEW u \in Uploaders, Complete(u)
    PROVE  /\ up' \in [Uploaders -> Task] /\ sess' = sess
           /\ up[u].at = "finish" /\ up[u].n > P(u).calls
           /\ Release(u) /\ Others(u) /\ SameCard(u) /\ Forgotten(u)
           /\ up'[u].at = "idle" /\ up'[u].status = "finished"
           /\ up'[u].session = up[u].session
<1>1. up[u] \in Task
  BY DEF UTyped
<1>2. PICK x : x = [up[u] EXCEPT !.at = "idle", !.n = 0, !.status = "finished"]
  OBVIOUS
<1>3. x \in Task
  BY <1>1, <1>2 DEF Task, Status
<1>4. up' = [up EXCEPT ![u] = x]
  BY <1>2 DEF Complete, UTyped
<1>5. up' \in [Uploaders -> Task] /\ up'[u] = x /\ Others(u)
  BY <1>3, <1>4, Put
<1>6. /\ x.at = "idle" /\ x.status = "finished" /\ x.session = up[u].session
      /\ x.live = up[u].live /\ x.dels = up[u].dels /\ x.gone = up[u].gone
      /\ x.listed = up[u].listed /\ x.rushed = up[u].rushed
  BY <1>1, <1>2 DEF Task
<1> QED
  BY <1>5, <1>6 DEF Complete, Awaits, SameCard, Forgotten

-----------------------------------------------------------------------------
(* What a step of one task leaves as it is.                                *)

Rest == UTyped /\ SessOK /\ CtxOK /\ TaskOK /\ CardOK /\ GoneOK
UploaderInv == PoolPart /\ Rest

\* The other tasks are what they were, though some card may have gone.
Beside(u) ==
    \A v \in Uploaders \ {u} :
        /\ up'[v].status = up[v].status /\ up'[v].at = up[v].at /\ up'[v].n = up[v].n
        /\ up'[v].session = up[v].session /\ up'[v].sent = up[v].sent
        /\ up'[v].live = up[v].live /\ up'[v].dels = up[v].dels /\ up'[v].gone = up[v].gone
        /\ up'[v].rushed = up[v].rushed

LEMMA OthersBeside == ASSUME NEW u, Others(u) PROVE Beside(u)
  BY DEF Others, Beside

LEMMA KeepCards ==
    ASSUME CardOK, NEW u \in Uploaders, Others(u), CardFine(u)',
           Queued' \ {u} = Queued \ {u}, running' \ {u} = running \ {u}
    PROVE  CardOK'
<1>1. ASSUME NEW v \in Uploaders \ {u}
      PROVE  CardFine(v)'
  <2>1. up'[v] = up[v] /\ (v \in Queued' <=> v \in Queued) /\ (v \in running' <=> v \in running)
    BY DEF Others
  <2>2. CardFine(v)
    BY DEF CardOK
  <2> QED
    BY <2>1, <2>2 DEF CardFine, Quieted
<1> QED
  BY <1>1 DEF CardOK

\* Contexts are forgotten, or saved while no twin waits for a session.
LEMMA KeepTasks ==
    ASSUME UTyped, TaskOK, Grows, NEW u \in Uploaders, Beside(u), TaskFine(u)',
           \A f \in Files : \/ ctx'[f] \in {ctx[f], NoCtx}
                            \/ f = FileOf[u] /\ up[u].at # "idle",
           CardOK, PoolPart
    PROVE  TaskOK'
<1>1. ASSUME NEW v \in Uploaders \ {u}
      PROVE  TaskFine(v)'
  <2>1. /\ up'[v].status = up[v].status /\ up'[v].at = up[v].at /\ up'[v].n = up[v].n
        /\ up'[v].session = up[v].session /\ up'[v].sent = up[v].sent
        /\ TaskFine(v) /\ FileOf[v] \in Files
    BY FileOfUploader DEF Beside, TaskOK
  <2>2. up[v].at = "create" => ctx'[FileOf[v]] = NoCtx
    <3>1. ASSUME up[v].at = "create"
          PROVE  ~(FileOf[v] = FileOf[u] /\ up[u].at # "idle")
      BY <3>1, Alone DEF CardOK, CardFine
    <3> QED
      BY <2>1, <3>1 DEF TaskFine
  <2>3. up[v].session # None => Holds(up[v].session, FileOf[v])'
    BY <2>1 DEF TaskFine, Holds, Grows
  <2>4. up[v].session # None => up[v].session \in Session
    BY <2>1 DEF TaskFine, Holds
  <2> QED
    BY <2>1, <2>2, <2>3, <2>4 DEF TaskFine, Grows, P
<1> QED
  BY <1>1 DEF TaskOK

LEMMA KeepCtx ==
    ASSUME UTyped, CtxOK, Grows, NEW F,
           \A f \in Files \ F : ctx'[f] \in {ctx[f], NoCtx},
           \A f \in Files \cap F : ctx'[f] # NoCtx =>
                /\ Holds(ctx[f].session, f)' /\ ctx'[f].sent \subseteq sess'[ctx'[f].session].got
                /\ Policy[PolicyOf[f]].chunked
    PROVE  CtxOK'
<1>1. ASSUME NEW f \in Files \ F, ctx'[f] # NoCtx
      PROVE  /\ Holds(ctx[f].session, f)' /\ ctx'[f].sent \subseteq sess'[ctx'[f].session].got
             /\ Policy[PolicyOf[f]].chunked
  <2>1. ctx'[f] = ctx[f]
    BY <1>1
  <2> QED
    BY <1>1, <2>1 DEF CtxOK, Holds, Grows
<1> QED
  BY <1>1 DEF CtxOK

LEMMA DroppedCtx ==
    ASSUME UTyped, CtxOK, Grows, \A f \in Files : ctx'[f] \in {ctx[f], NoCtx}
    PROVE  CtxOK'
<1>1. PICK F : F = {}
  OBVIOUS
<1>2. /\ \A f \in Files \ F : ctx'[f] \in {ctx[f], NoCtx}
      /\ Files \cap F = {}
  BY <1>1
<1> QED
  BY <1>2, KeepCtx

LEMMA ForgottenCtx ==
    ASSUME UTyped, CtxOK, Grows, NEW u \in Uploaders, Forgotten(u) \/ ctx' = ctx
    PROVE  CtxOK' /\ \A f \in Files : ctx'[f] \in {ctx[f], NoCtx}
<1>1. \A f \in Files : ctx'[f] \in {ctx[f], NoCtx}
  BY ForgottenTyped
<1>2. CtxOK'
  BY <1>1, DroppedCtx
<1> QED
  BY <1>1, <1>2

\* A session nobody has to go on with stays so.
LEMMA KeepUnreferenced ==
    ASSUME NEW s, Unreferenced(s), NEW u \in Uploaders, Beside(u),
           up'[u].at \in {"chunk", "finish"} => up'[u].session # s,
           \A f \in Files : ctx'[f] # NoCtx => ctx'[f] = ctx[f] \/ ctx'[f].session # s
    PROVE  Unreferenced(s)'
<1>1. \A v \in Uploaders : up'[v].at \in {"chunk", "finish"} => up'[v].session # s
  BY DEF Unreferenced, Beside
<1>2. \A f \in Files : ctx'[f] # NoCtx => ctx'[f].session # s
  BY DEF Unreferenced
<1> QED
  BY <1>1, <1>2 DEF Unreferenced

\* What u may do for the deleted sessions to be left alone.
LEMMA KeepGone ==
    ASSUME UTyped, TaskOK, TaskOK', CardOK, GoneOK, ServerFine, NEW u \in Uploaders, Beside(u),
           \A s \in Session : Unreferenced(s) /\ sess[s].state # "none" => Unreferenced(s)',
           \A s \in Doomed(u)' : sess'[s].state # "none" /\ (Quieted(u)' \/ Unreferenced(s)'),
           \/ up'[u].session = up[u].session \/ up'[u].session = None
           \/ P(u).chunked \/ sess[up'[u].session].state = "none"
    PROVE  GoneOK'
<1>1. ASSUME NEW v \in Uploaders \ {u}, NEW s \in Doomed(v)'
      PROVE  sess'[s].state # "none" /\ (Quieted(v)' \/ Unreferenced(s)')
  <2>1. /\ up'[v].live = up[v].live /\ up'[v].rushed = up[v].rushed
        /\ s \in Doomed(v) /\ up[v] \in Task
    BY <1>1 DEF Beside, Doomed, UTyped
  <2>2. sess[s].state # "none" /\ (Quieted(v) \/ Unreferenced(s))
    BY <2>1 DEF GoneOK
  <2>3. s \in Session \/ s = None
    BY <2>1 DEF Doomed, Task
  <2>4. s \in Session
    <3>1. CASE s \in up[v].gone
      BY <2>1, <3>1 DEF Task
    <3>2. CASE s = up[v].session /\ up[v].dels # {}
      BY <2>3, <3>2 DEF CardOK, CardFine
    <3> QED
      BY <2>1, <3>1, <3>2 DEF Doomed
  <2> QED
    BY <2>1, <2>2, <2>4 DEF ServerFine, Grows, Quieted
<1>2. ASSUME NEW v \in Uploaders, NEW w \in Uploaders, v # w,
             up'[v].session # None, up'[v].session = up'[w].session
      PROVE  P(v).chunked
  <2>1. Holds(up[v].session, FileOf[v])' /\ Holds(up[w].session, FileOf[w])'
    BY <1>2 DEF TaskOK, TaskFine
  <2>2. P(v) = P(w)
    BY <1>2, <2>1 DEF Holds, P
  <2>3. CASE v # u /\ w # u
    BY <1>2, <2>3 DEF Beside, GoneOK
  <2>4. ASSUME NEW x \in Uploaders \ {u}, up'[u].session # None, up'[u].session = up'[x].session
        PROVE  P(u).chunked
    <3>1. up[x].session = up'[u].session /\ up[x].session # None
      BY <2>4 DEF Beside
    <3>2. sess[up[x].session].state # "none"
      BY <3>1 DEF TaskOK, TaskFine, Holds
    <3>3. up'[u].session = up[u].session => P(u).chunked
      BY <3>1 DEF GoneOK
    <3> QED
      BY <2>4, <3>1, <3>2, <3>3
  <2> QED
    BY <1>2, <2>2, <2>3, <2>4
<1>3. \A v, w \in Uploaders : up'[v].session # None /\ up'[v].session = up'[w].session
                                => v = w \/ P(v).chunked
  BY <1>2
<1> QED
  BY <1>1, <1>3 DEF GoneOK, P

-----------------------------------------------------------------------------
(* The steps.                                                              *)

\* Sessions doomed before are dealt with, whatever becomes of the contexts of others.
LEMMA OldDoom ==
    ASSUME UTyped, GoneOK, CardOK, ServerFine, NEW u \in Uploaders, NEW s \in Doomed(u),
           Quieted(u) => Quieted(u)',
           Unreferenced(s) /\ s \in Session /\ sess[s].state # "none" => Unreferenced(s)'
    PROVE  s \in Session /\ sess'[s].state # "none" /\ (Quieted(u)' \/ Unreferenced(s)')
<1>1. sess[s].state # "none" /\ (Quieted(u) \/ Unreferenced(s))
  BY DEF GoneOK
<1>2. up[u] \in Task /\ (up[u].dels # {} => up[u].session # None)
  BY DEF UTyped, CardOK, CardFine
<1>3. s \in Session
  BY <1>2 DEF Doomed, Task
<1> QED
  BY <1>1, <1>3 DEF ServerFine, Grows

\* A task that goes on: what it knows to have been sent has been.
LEMMA GoingFine ==
    ASSUME SessOK', NEW u \in Uploaders, NEW s, NEW sent, Going(u, s, sent), s # None,
           Holds(s, FileOf[u])', sent \subseteq sess'[s].got
    PROVE  TaskFine(u)'
<1>1. up'[u].session = s /\ up'[u].sent = sent /\ up'[u].status \in {"processing", "finishing"}
  BY DEF Going
<1>2. CASE up'[u].at = "chunk" /\ up'[u].n \in Parts(FileOf[u]) \ sent
  BY <1>1, <1>2 DEF TaskFine
<1>3. CASE up'[u].at = "finish" /\ up'[u].n = 1 /\ Parts(FileOf[u]) \subseteq sent
  <2>1. Parts(FileOf[u]) \subseteq sess'[s].got /\ sess'[s].file = FileOf[u] /\ s \in Session
    BY <1>3 DEF Holds
  <2>2. 1 > P(u).calls => P(u).calls = 0
    BY PolicyOfUploader
  <2>3. 1 > P(u).calls => sess'[s].state = "done"
    BY <2>1, <2>2 DEF SessOK, P
  <2> QED
    BY <1>1, <1>3, <2>1, <2>3 DEF TaskFine, P
<1> QED
  BY <1>2, <1>3 DEF Going

LEMMA BeginKeeps ==
    ASSUME UploaderInv, NEW u \in Uploaders, BeginTask(u)
    PROVE  Rest'
<1> DEFINE f == FileOf[u]
<1> USE DEF UploaderInv, Rest
<1>1. /\ up' \in [Uploaders -> Task] /\ ctx' \in CtxMap /\ sess' = sess
      /\ Others(u) /\ SameCard(u)
      /\ \/ /\ up'[u].at = "create" /\ up'[u].status = "preparing"
            /\ up'[u].session = up[u].session /\ Forgotten(u)
         \/ ctx[f] # NoCtx /\ ctx' = ctx /\ Going(u, ctx[f].session, ctx[f].sent)
  BY BeginEffect
<1>2. Beside(u) /\ ServerFine /\ f \in Files
  BY <1>1, OthersBeside, SameServer, FileOfUploader
<1>3. /\ u \in Queued /\ u \notin running
      /\ Queued' = Queued \ {u} /\ running' = running \cup {u}
  BY RunMoves DEF BeginTask
<1>4. UTyped' /\ SessOK'
  BY <1>1, <1>2 DEF UTyped, ServerFine
<1>5. CtxOK' /\ \A g \in Files : ctx'[g] \in {ctx[g], NoCtx}
  BY <1>1, <1>2, ForgottenCtx DEF ServerFine
<1>6. /\ up[u].at = "idle" /\ f \in Allowed
      /\ up[u].dels # {} \/ ~up[u].listed => Quieted(u)
  BY <1>3 DEF CardOK, CardFine
<1>7. TaskFine(u)'
  <2>1. CASE up'[u].at = "create" /\ up'[u].session = up[u].session /\ Forgotten(u)
             /\ up'[u].status = "preparing"
    <3>1. ctx'[f] = NoCtx
      BY <2>1, ForgottenTyped
    <3>2. up[u].session # None => Holds(up[u].session, f)'
      BY <1>1, <2>1 DEF TaskOK, TaskFine, Holds
    <3> QED
      BY <2>1, <3>1, <3>2 DEF TaskFine
  <2>2. CASE ctx[f] # NoCtx /\ Going(u, ctx[f].session, ctx[f].sent)
    <3>1. Holds(ctx[f].session, f) /\ ctx[f].sent \subseteq sess[ctx[f].session].got
      BY <1>2, <2>2 DEF CtxOK
    <3>2. PICK s, sent : s = ctx[f].session /\ sent = ctx[f].sent
      OBVIOUS
    <3>3. s # None /\ Holds(s, f)' /\ sent \subseteq sess'[s].got
      BY <1>1, <3>1, <3>2 DEF Holds, Session, None
    <3> QED
      BY <1>4, <2>2, <3>2, <3>3, GoingFine
  <2> QED
    BY <1>1, <2>1, <2>2
<1>8. TaskOK'
  BY <1>2, <1>5, <1>7, KeepTasks DEF ServerFine
<1>9. CardOK'
  <2>1. /\ up'[u].at # "idle" /\ up'[u].status \in {"preparing", "processing", "finishing"}
    BY <1>1 DEF Going
  <2>2. /\ up'[u].live = up[u].live /\ up'[u].dels = up[u].dels
        /\ up'[u].listed = up[u].listed /\ up'[u].rushed = up[u].rushed
    BY <1>1 DEF SameCard
  <2>3. up'[u].session = None => up[u].session = None
    <3>1. Going(u, ctx[f].session, ctx[f].sent) /\ ctx[f] # NoCtx => up'[u].session # None
      BY <1>2 DEF Going, CtxOK, Holds, Session, None
    <3> QED
      BY <1>1, <3>1
  <2>4. CardFine(u)'
    BY <1>3, <1>6, <2>1, <2>2, <2>3 DEF CardOK, CardFine, Quieted
  <2> QED
    BY <1>1, <1>3, <2>4, KeepCards
<1>10. \A s : Unreferenced(s) => Unreferenced(s)'
  <2> SUFFICES ASSUME NEW s, Unreferenced(s)
               PROVE  Unreferenced(s)'
    OBVIOUS
  <2>1. up'[u].at \in {"chunk", "finish"} => up'[u].session # s
    BY <1>1, <1>2 DEF Going, Unreferenced
  <2> QED
    BY <1>2, <1>5, <2>1, KeepUnreferenced
<1>11. \A s \in Doomed(u)' : sess'[s].state # "none" /\ (Quieted(u)' \/ Unreferenced(s)')
  <2> SUFFICES ASSUME NEW s \in Doomed(u)'
               PROVE  sess'[s].state # "none" /\ (Quieted(u)' \/ Unreferenced(s)')
    OBVIOUS
  <2>1. Quieted(u)' <=> Quieted(u)
    BY <1>1 DEF SameCard, Quieted
  <2>2. CASE s \in Doomed(u)
    BY <1>2, <1>10, <2>1, <2>2, OldDoom
  <2>3. CASE s \notin Doomed(u)
    <3>1. s = up'[u].session /\ up[u].dels # {} /\ up'[u].session # up[u].session
      BY <1>1, <2>3 DEF Doomed, SameCard
    <3>2. s = ctx[f].session /\ ctx[f] # NoCtx
      BY <1>1, <3>1 DEF Going
    <3>3. sess'[s].state # "none"
      BY <1>1, <1>2, <3>2 DEF CtxOK, Holds
    <3> QED
      BY <1>6, <2>1, <3>1, <3>3
  <2> QED
    BY <2>2, <2>3
<1>12. up'[u].session = up[u].session \/ P(u).chunked
  BY <1>1, <1>2 DEF CtxOK, P
<1>13. GoneOK'
  BY <1>2, <1>8, <1>10, <1>11, <1>12, KeepGone
<1> QED
  BY <1>4, <1>5, <1>8, <1>9, <1>13

\* The first chunk is sent, or the next, or the last has been.
LEMMA GoOnKeeps ==
    ASSUME UploaderInv, NEW u \in Uploaders, NEW s \in Session, NEW sent \in SUBSET Chunks,
           up' \in [Uploaders -> Task], UNCHANGED poolVars, up[u].at # "idle",
           Others(u), SameCard(u), ServerFine, s # None, Holds(s, FileOf[u])',
           sent \subseteq sess'[s].got, Going(u, s, sent), SavedAs(u, s, sent),
           (s = up[u].session /\ up[u].at = "chunk") \/ sess[s].state = "none"
    PROVE  Rest'
<1> DEFINE f == FileOf[u]
<1> USE DEF UploaderInv, Rest
<1>1. Beside(u) /\ f \in Files /\ Queued' = Queued /\ running' = running
  BY OthersBeside, FileOfUploader, SamePool
<1>2. UTyped' /\ SessOK' /\ Grows
  BY DEF UTyped, ServerFine, SavedAs
<1>3. /\ u \in running /\ u \notin Queued /\ f \in Allowed
      /\ up[u].dels # {} \/ ~up[u].listed => Quieted(u)
      /\ up[u].status # "absent"
  <2>1. u \in running /\ CardFine(u) /\ (up[u].status = "absent" => up[u] = NoTask)
    BY DEF CardOK, CardFine
  <2> QED
    BY <2>1, Alone DEF CardFine, NoTask
<1>4. CtxOK'
  <2>1. \A g \in Files \ {f} : ctx'[g] = ctx[g]
    BY DEF SavedAs
  <2>2. CASE ctx'[f] = ctx[f]
    <3>1. \A g \in Files : ctx'[g] \in {ctx[g], NoCtx}
      BY <2>1, <2>2
    <3>2. PICK F : F = {}
      OBVIOUS
    <3> QED
      BY <1>2, <3>1, <3>2, KeepCtx
  <2>3. CASE P(u).chunked /\ ctx'[f] = [session |-> s, sent |-> sent]
    <3>1. ctx'[f].session = s /\ ctx'[f].sent = sent /\ Policy[PolicyOf[f]].chunked
      BY <2>3 DEF P
    <3>2. PICK F : F = {f}
      OBVIOUS
    <3>3. /\ \A g \in Files \ F : ctx'[g] \in {ctx[g], NoCtx}
          /\ \A g \in Files \cap F : g = f
      BY <2>1, <3>2
    <3>4. Holds(ctx[f].session, f)'
      BY <3>1 DEF Holds
    <3> QED
      BY <1>2, <3>1, <3>3, <3>4, KeepCtx
  <2> QED
    BY <2>2, <2>3 DEF SavedAs
<1>5. TaskOK'
  <2>1. TaskFine(u)'
    BY <1>2, GoingFine
  <2>2. \A g \in Files : \/ ctx'[g] \in {ctx[g], NoCtx}
                         \/ g = FileOf[u] /\ up[u].at # "idle"
    BY DEF SavedAs
  <2> QED
    BY <1>1, <1>2, <2>1, <2>2, KeepTasks
<1>6. CardOK'
  <2>1. /\ up'[u].at # "idle" /\ up'[u].status \in {"processing", "finishing"}
        /\ up'[u].session # None
    BY DEF Going
  <2>2. /\ up'[u].live = up[u].live /\ up'[u].dels = up[u].dels
        /\ up'[u].listed = up[u].listed /\ up'[u].rushed = up[u].rushed
    BY DEF SameCard
  <2>3. CardFine(u)'
    BY <1>1, <1>3, <2>1, <2>2 DEF CardOK, CardFine, Quieted
  <2> QED
    BY <1>1, <2>3, KeepCards
<1>7. \A r \in Session : Unreferenced(r) /\ sess[r].state # "none" => Unreferenced(r)'
  <2> SUFFICES ASSUME NEW r \in Session, Unreferenced(r), sess[r].state # "none"
               PROVE  Unreferenced(r)'
    OBVIOUS
  <2>1. r # s
    BY DEF Unreferenced
  <2>2. up'[u].session = s
    BY DEF Going
  <2>3. \A g \in Files : ctx'[g] # NoCtx => ctx'[g] = ctx[g] \/ ctx'[g].session # r
    BY <2>1 DEF SavedAs
  <2> QED
    BY <1>1, <2>1, <2>2, <2>3, KeepUnreferenced
<1>8. \A r \in Doomed(u)' : sess'[r].state # "none" /\ (Quieted(u)' \/ Unreferenced(r)')
  <2> SUFFICES ASSUME NEW r \in Doomed(u)'
               PROVE  sess'[r].state # "none" /\ (Quieted(u)' \/ Unreferenced(r)')
    OBVIOUS
  <2>1. Quieted(u)' <=> Quieted(u)
    BY DEF SameCard, Quieted
  <2>2. CASE r \in Doomed(u)
    BY <1>7, <2>1, <2>2, OldDoom
  <2>3. CASE r \notin Doomed(u)
    <3>1. r = s /\ up[u].dels # {}
      BY <2>3 DEF Doomed, SameCard, Going
    <3> QED
      BY <1>3, <2>1, <3>1 DEF Holds
  <2> QED
    BY <2>2, <2>3
<1>9. GoneOK'
  <2>1. up'[u].session = s
    BY DEF Going
  <2>2. up'[u].session = up[u].session \/ sess[up'[u].session].state = "none"
    BY <2>1
  <2> QED
    BY <1>1, <1>5, <1>7, <1>8, <2>2, KeepGone
<1> QED
  BY <1>2, <1>4, <1>5, <1>6, <1>9

LEMMA CreatedKeeps ==
    ASSUME UploaderInv, NEW u \in Uploaders, Created(u)
    PROVE  Rest'
<1>1. PICK s \in Session :
           /\ up' \in [Uploaders -> Task] /\ UNCHANGED poolVars
           /\ up[u].at = "create" /\ Others(u) /\ SameCard(u)
           /\ ServerFine /\ sess[s].state = "none" /\ s # None
           /\ sess'[s].state = "live" /\ sess'[s].file = FileOf[u]
           /\ Going(u, s, {}) /\ SavedAs(u, s, {})
  BY CreatedEffect DEF UploaderInv, Rest
<1>2. PICK sent \in SUBSET Chunks : sent = {}
  OBVIOUS
<1>3. Holds(s, FileOf[u])' /\ sent \subseteq sess'[s].got
  BY <1>1, <1>2 DEF Holds
<1> QED
  BY <1>1, <1>2, <1>3, GoOnKeeps

LEMMA ChunkKeeps ==
    ASSUME UploaderInv, NEW u \in Uploaders, ChunkUploaded(u)
    PROVE  Rest'
<1>1. PICK sent \in SUBSET Chunks :
           /\ up' \in [Uploaders -> Task] /\ UNCHANGED poolVars
           /\ up[u].at = "chunk" /\ Others(u) /\ SameCard(u)
           /\ ServerFine /\ sent \subseteq sess'[up[u].session].got
           /\ Going(u, up[u].session, sent) /\ SavedAs(u, up[u].session, sent)
  BY ChunkEffect DEF UploaderInv, Rest
<1>2. PICK s : s = up[u].session
  OBVIOUS
<1>3. s \in Session /\ sess[s].file = FileOf[u] /\ sess[s].state # "none" /\ s # None
  BY <1>1, <1>2, SessionOfTask DEF UploaderInv, Rest, Session, None
<1>4. Holds(s, FileOf[u])'
  BY <1>1, <1>3 DEF Holds, ServerFine, Grows
<1> QED
  BY <1>1, <1>2, <1>3, <1>4, GoOnKeeps

\* Neither the session nor the card of the task changes, nor what it waits for.
LEMMA CalmKeeps ==
    ASSUME UploaderInv, NEW u \in Uploaders, up' \in [Uploaders -> Task],
           UNCHANGED poolVars, ctx' = ctx, ServerFine, Others(u), SameCard(u),
           up[u].at \in {"chunk", "finish"}, up'[u].at = up[u].at,
           up'[u].session = up[u].session, up'[u].status = up[u].status,
           up[u].at = "chunk" => up'[u].n = up[u].n /\ up'[u].sent = up[u].sent \cup {up[u].n},
           up[u].at = "finish" /\ up'[u].n > P(u).calls =>
                P(u).swallows \/ sess'[up[u].session].state = "done"
    PROVE  Rest'
<1> USE DEF UploaderInv, Rest
<1>1. Beside(u) /\ FileOf[u] \in Files /\ Queued' = Queued /\ running' = running
  BY OthersBeside, FileOfUploader, SamePool
<1>2. UTyped' /\ SessOK' /\ Grows
  BY DEF UTyped, ServerFine
<1>3. CtxOK' /\ \A f \in Files : ctx'[f] \in {ctx[f], NoCtx}
  BY <1>2, ForgottenCtx
<1>4. /\ up'[u].live = up[u].live /\ up'[u].dels = up[u].dels /\ up'[u].gone = up[u].gone
      /\ up'[u].listed = up[u].listed /\ up'[u].rushed = up[u].rushed
  BY DEF SameCard
<1>5. TaskOK'
  <2>1. up[u].session \in Session /\ up[u].session # None /\ Holds(up[u].session, FileOf[u])
    BY DEF TaskOK, TaskFine, Holds
  <2>2. Holds(up[u].session, FileOf[u])'
    BY <1>2, <2>1 DEF Holds, Grows
  <2>3. TaskFine(u) /\ up[u].status # "finished"
    BY DEF TaskOK, CardOK, CardFine
  <2>4. sess[up[u].session].got \subseteq sess'[up[u].session].got
    BY <1>2, <2>1 DEF Grows
  <2>5. TaskFine(u)'
    BY <2>1, <2>2, <2>3, <2>4 DEF TaskFine, P
  <2> QED
    BY <1>1, <1>2, <1>3, <2>5, KeepTasks
<1>6. CardOK'
  <2>1. CardFine(u) /\ up[u].status # "absent"
    BY DEF CardOK, CardFine, NoTask
  <2>2. CardFine(u)'
    BY <1>1, <1>4, <2>1 DEF CardFine, Quieted
  <2> QED
    BY <1>1, <2>2, KeepCards
<1>7. \A r : Unreferenced(r) => Unreferenced(r)'
  BY <1>1, KeepUnreferenced DEF Unreferenced
<1>8. \A r \in Doomed(u)' : sess'[r].state # "none" /\ (Quieted(u)' \/ Unreferenced(r)')
  <2>1. Doomed(u)' = Doomed(u) /\ (Quieted(u)' <=> Quieted(u))
    BY <1>4 DEF Doomed, Quieted
  <2> QED
    BY <1>7, <2>1, OldDoom
<1>9. GoneOK'
  BY <1>1, <1>5, <1>7, <1>8, KeepGone
<1> QED
  BY <1>2, <1>3, <1>5, <1>6, <1>9

LEMMA ProgressKeeps ==
    ASSUME UploaderInv, NEW u \in Uploaders, Progress(u)
    PROVE  Rest'
<1>1. /\ up' \in [Uploaders -> Task] /\ UNCHANGED <<ctx, sess, poolVars>>
      /\ up[u].at = "chunk" /\ Others(u) /\ SameCard(u)
      /\ up'[u].at = up[u].at /\ up'[u].n = up[u].n /\ up'[u].session = up[u].session
      /\ up'[u].sent = up[u].sent \cup {up[u].n} /\ up'[u].status = up[u].status
  BY ProgressEffect DEF UploaderInv, Rest
<1>2. ServerFine
  BY <1>1, SameServer DEF UploaderInv, Rest
<1> QED
  BY <1>1, <1>2, CalmKeeps

LEMMA CalledKeeps ==
    ASSUME UploaderInv, NEW u \in Uploaders, up' \in [Uploaders -> Task], ServerFine,
           Called(u),
           P(u).swallows \/ (up[u].n = P(u).calls => sess'[up[u].session].state = "done")
    PROVE  Rest'
<1>1. up[u].n \in Nat /\ P(u).calls \in Nat /\ ~(up[u].n > P(u).calls)
  BY PolicyOfUploader DEF UploaderInv, Rest, UTyped, Task, Called, Awaits
<1>2. up'[u].n = up[u].n + 1
  BY DEF Called
<1>3. up'[u].n > P(u).calls => up[u].n = P(u).calls
  BY <1>1, <1>2
<1>4. up'[u].n > P(u).calls => P(u).swallows \/ sess'[up[u].session].state = "done"
  BY <1>3
<1> QED
  BY <1>4, CalmKeeps DEF Called

\* The task comes to a stop; nobody else goes on with a session it gives up.
LEMMA StopKeeps ==
    ASSUME UploaderInv, NEW u \in Uploaders, NEW retryable \in BOOLEAN,
           up' \in [Uploaders -> Task], ctx' \in CtxMap, ServerFine, Stops(u, retryable),
           u \notin Queued' \cup running', Queued' \ {u} = Queued \ {u},
           running' \ {u} = running \ {u}, up[u].status # "absent", up[u].status # "finished",
           \/ up'[u].status = "error"
           \/ up'[u].status = up[u].status /\ ~up[u].live /\ up[u].status # "queued",
           \A v \in Uploaders \ {u} :
              up[v].at \in {"chunk", "finish"} /\ up[v].session = up[u].session
              /\ up[u].session # None => retryable /\ P(u).resumes
    PROVE  Rest'
<1> DEFINE f == FileOf[u]
           s == up[u].session
<1> USE DEF UploaderInv, Rest
<1>1. Beside(u) /\ f \in Files /\ Grows
  BY OthersBeside, FileOfUploader DEF Stops, ServerFine
<1>2. UTyped' /\ SessOK'
  BY DEF UTyped, ServerFine
<1>3. Forgotten(u) \/ ctx' = ctx
  BY DEF Stops
<1>4. CtxOK' /\ \A g \in Files : ctx'[g] \in {ctx[g], NoCtx}
  BY <1>1, <1>3, ForgottenCtx
<1>5. /\ up'[u].at = "idle" /\ up'[u].session = s /\ up'[u].live = up[u].live
      /\ up'[u].gone = up[u].gone /\ up'[u].listed = up[u].listed
      /\ up'[u].rushed = up[u].rushed
      /\ up'[u].dels = up[u].dels \/ (s # None /\ up'[u].dels = up[u].dels \cup {"error"})
  BY DEF Stops, Doom
<1>6. TaskOK'
  <2>1. s # None => Holds(s, f)'
    BY <1>1, <1>5 DEF TaskOK, TaskFine, Holds, Grows
  <2>2. TaskFine(u)'
    BY <1>5, <2>1 DEF TaskFine
  <2> QED
    BY <1>1, <1>4, <2>2, KeepTasks
<1>7. CardOK'
  <2>1. CardFine(u)
    BY DEF CardOK
  <2>2. CardFine(u)'
    BY <1>5, <2>1 DEF CardFine, Quieted
  <2> QED
    BY <2>2, KeepCards DEF Stops
<1>8. \A r : Unreferenced(r) => Unreferenced(r)'
  BY <1>1, <1>4, <1>5, KeepUnreferenced
<1>9. \A r \in Doomed(u)' : sess'[r].state # "none" /\ (Quieted(u)' \/ Unreferenced(r)')
  <2> SUFFICES ASSUME NEW r \in Doomed(u)'
               PROVE  sess'[r].state # "none" /\ (Quieted(u)' \/ Unreferenced(r)')
    OBVIOUS
  <2>1. Quieted(u)' <=> Quieted(u)
    BY <1>5 DEF Quieted
  <2>2. CASE r \in Doomed(u)
    BY <1>8, <2>1, <2>2, OldDoom
  <2>3. CASE r \notin Doomed(u)
    <3>1. r = s /\ s # None /\ up'[u].dels # up[u].dels
      BY <1>5, <2>3 DEF Doomed
    <3>2. ~(retryable /\ P(u).resumes) /\ Forgotten(u)
      BY <3>1 DEF Stops
    <3>3. Holds(s, f)
      BY <3>1 DEF TaskOK, TaskFine
    <3>4. \A g \in Files : ctx'[g] # NoCtx => ctx'[g].session # s
      <4>1. \A g \in Files : ctx'[g] # NoCtx => ctx'[g] = ctx[g] /\ g # f
        BY <3>2, ForgottenTyped
      <4> QED
        BY <3>3, <4>1 DEF CtxOK, Holds
    <3>5. \A v \in Uploaders : up'[v].at \in {"chunk", "finish"} => up'[v].session # s
      BY <1>1, <1>5, <3>1, <3>2 DEF Beside
    <3>6. sess'[r].state # "none"
      BY <1>1, <3>1, <3>3 DEF Holds, Grows
    <3> QED
      BY <3>1, <3>4, <3>5, <3>6 DEF Unreferenced
  <2> QED
    BY <2>2, <2>3
<1>10. GoneOK'
  BY <1>1, <1>5, <1>6, <1>8, <1>9, KeepGone
<1> QED
  BY <1>2, <1>4, <1>6, <1>7, <1>10

LEMMA ReleasedKeeps ==
    ASSUME UploaderInv, NEW u \in Uploaders, NEW retryable \in BOOLEAN,
           up' \in [Uploaders -> Task], ctx' \in CtxMap, ServerFine, Stops(u, retryable),
           Release(u), up[u].at # "idle",
           up'[u].status = "error" \/ (up'[u].status = up[u].status /\ ~up[u].live)
    PROVE  Rest'
<1>1. u \in running /\ Queued' = Queued /\ running' = running \ {u} /\ u \notin Queued
  BY ReleaseMoves, Alone DEF UploaderInv
<1>2. up[u].status \notin {"absent", "finished", "queued"}
  BY DEF UploaderInv, Rest, CardOK, CardFine
<1>3. ASSUME NEW v \in Uploaders \ {u}, up[v].at \in {"chunk", "finish"},
             up[v].session = up[u].session, up[u].session # None
      PROVE  FALSE
  <2>1. FileOf[v] = FileOf[u]
    BY <1>3 DEF UploaderInv, Rest, TaskOK, TaskFine, Holds
  <2>2. v \in running
    BY <1>3 DEF UploaderInv, Rest, CardOK, CardFine
  <2> QED
    BY <1>1, <2>1, <2>2, Alone DEF UploaderInv
<1> QED
  BY <1>1, <1>2, <1>3, StopKeeps

LEMMA FailedKeeps ==
    ASSUME UploaderInv, NEW u \in Uploaders, Refused(u) \/ Lost(u) \/ Abort(u)
    PROVE  Rest'
<1>1. /\ up' \in [Uploaders -> Task] /\ ctx' \in CtxMap /\ ServerFine /\ Awaits(u)
      /\ \/ Called(u) /\ P(u).swallows
         \/ \E retryable \in BOOLEAN :
              /\ Release(u) /\ Stops(u, retryable)
              /\ up'[u].status = "error" \/ (up'[u].status = up[u].status /\ ~up[u].live)
  BY FailedEffect, AbortEffect DEF UploaderInv, Rest, Errs
<1>2. up[u].at # "idle"
  BY <1>1 DEF Awaits
<1> QED
  BY <1>1, <1>2, CalledKeeps, ReleasedKeeps

LEMMA RejectKeeps ==
    ASSUME UploaderInv, NEW u \in Uploaders, RejectTask(u)
    PROVE  Rest'
<1>1. Reject(u) /\ SetError(u, TRUE) /\ sess' = sess
  BY DEF RejectTask
<1>2. /\ up' \in [Uploaders -> Task] /\ ctx' \in CtxMap /\ Stops(u, TRUE)
      /\ up'[u].status = "error" /\ ServerFine
  BY <1>1, ErrorEffect, SameServer DEF UploaderInv, Rest, Errs
<1>3. u \in Queued /\ u \notin running /\ Queued' = Queued \ {u} /\ running' = running
  BY <1>1, RejectMoves DEF UploaderInv
<1>4. up[u].status \in {"queued", "canceled"}
  BY <1>3 DEF UploaderInv, Rest, CardOK, CardFine
<1>5. \A v \in Uploaders \ {u} :
              up[v].at \in {"chunk", "finish"} /\ up[v].session = up[u].session
              /\ up[u].session # None => P(u).resumes
  BY PolicyOfUploader DEF UploaderInv, Rest, GoneOK
<1> QED
  BY <1>2, <1>3, <1>4, <1>5, StopKeeps

LEMMA CallDoneKeeps ==
    ASSUME UploaderInv, NEW u \in Uploaders, CallDone(u)
    PROVE  Rest'
  BY CallDoneEffect, CalledKeeps DEF UploaderInv, Rest

\* The card of a task changes, or its place in the pool; its session and the contexts of
\* others do not.
LEMMA TurnKeeps ==
    ASSUME UploaderInv, NEW u \in Uploaders, up' \in [Uploaders -> Task], ServerFine,
           Others(u), Forgotten(u) \/ ctx' = ctx, up'[u].session = up[u].session,
           up'[u].at \in {up[u].at, "idle"},
           up'[u].gone = up[u].gone \/ Doomed(u)' \subseteq Doomed(u),
           Queued' \ {u} = Queued \ {u}, running' \ {u} = running \ {u},
           TaskFine(u)', CardFine(u)', Quieted(u) => Quieted(u)',
           up'[u].dels \subseteq up[u].dels \/ up'[u].session = None \/ Quieted(u)'
    PROVE  Rest'
<1> USE DEF UploaderInv, Rest
<1>1. Beside(u) /\ UTyped'
  BY OthersBeside, ForgottenTyped DEF UTyped, ServerFine
<1>2. SessOK' /\ CtxOK' /\ \A g \in Files : ctx'[g] \in {ctx[g], NoCtx}
  BY <1>1, ForgottenCtx DEF ServerFine
<1>3. TaskOK' /\ CardOK'
  BY <1>1, <1>2, KeepTasks, KeepCards DEF ServerFine
<1>4. \A r : Unreferenced(r) => Unreferenced(r)'
  <2> SUFFICES ASSUME NEW r, Unreferenced(r)
               PROVE  Unreferenced(r)'
    OBVIOUS
  <2>1. up'[u].at \in {"chunk", "finish"} => up'[u].session # r
    BY DEF Unreferenced
  <2> QED
    BY <1>1, <1>2, <2>1, KeepUnreferenced
<1>5. \A r \in Doomed(u)' : sess'[r].state # "none" /\ (Quieted(u)' \/ Unreferenced(r)')
  <2> SUFFICES ASSUME NEW r \in Doomed(u)'
               PROVE  sess'[r].state # "none" /\ (Quieted(u)' \/ Unreferenced(r)')
    OBVIOUS
  <2>1. CASE r \in Doomed(u)
    BY <1>1, <1>4, <2>1, OldDoom
  <2>2. CASE r \notin Doomed(u)
    <3>1. r = up[u].session /\ up'[u].dels # {} /\ up[u].dels = {}
      BY <2>2 DEF Doomed
    <3>2. r # None /\ Quieted(u)'
      BY <3>1 DEF CardFine
    <3>3. sess'[r].state # "none"
      BY <3>1, <3>2 DEF TaskOK, TaskFine, Holds, ServerFine, Grows
    <3> QED
      BY <3>2, <3>3
  <2> QED
    BY <2>1, <2>2
<1>6. GoneOK'
  BY <1>1, <1>3, <1>4, <1>5, KeepGone
<1> QED
  BY <1>1, <1>2, <1>3, <1>6

LEMMA CompleteKeeps ==
    ASSUME UploaderInv, NEW u \in Uploaders, Complete(u)
    PROVE  Rest'
<1> USE DEF UploaderInv, Rest
<1>1. /\ up' \in [Uploaders -> Task] /\ sess' = sess
      /\ up[u].at = "finish" /\ up[u].n > P(u).calls
      /\ Release(u) /\ Others(u) /\ SameCard(u) /\ Forgotten(u)
      /\ up'[u].at = "idle" /\ up'[u].status = "finished"
      /\ up'[u].session = up[u].session
  BY CompleteEffect
<1>2. u \in running /\ Queued' = Queued /\ running' = running \ {u} /\ u \notin Queued
  BY <1>1, ReleaseMoves, Alone
<1>3. /\ up'[u].live = up[u].live /\ up'[u].dels = up[u].dels /\ up'[u].gone = up[u].gone
      /\ up'[u].listed = up[u].listed /\ up'[u].rushed = up[u].rushed
  BY <1>1 DEF SameCard
<1>4. TaskFine(u)'
  BY <1>1 DEF TaskOK, TaskFine, Holds, P
<1>5. CardFine(u)'
  BY <1>1, <1>2, <1>3 DEF CardOK, CardFine, Quieted
<1>6. Quieted(u) => Quieted(u)'
  BY <1>3 DEF Quieted
<1> QED
  BY <1>1, <1>2, <1>3, <1>4, <1>5, <1>6, TurnKeeps, SameServer

LEMMA CancelKeeps ==
    ASSUME UploaderInv, NEW u \in Uploaders, Cancel(u)
    PROVE  Rest'
<1> USE DEF UploaderInv, Rest
<1>1. /\ UTyped' /\ sess' = sess /\ UNCHANGED poolVars
      /\ up[u].listed /\ "cancel" \notin up[u].dels
      /\ SameWork(u) /\ Others(u) /\ up'[u].gone = up[u].gone /\ up'[u].rushed = up[u].rushed
      /\ \/ /\ up[u].status = "finished" /\ up'[u].status = "finished" /\ ctx' = ctx
            /\ up'[u].live = up[u].live /\ up'[u].dels = up[u].dels /\ ~up'[u].listed
         \/ /\ up[u].status # "finished" /\ Forgotten(u) /\ ~up'[u].live
            /\ up[u].session = None /\ up'[u].dels = up[u].dels
            /\ up'[u].status = "canceled" /\ ~up'[u].listed
         \/ /\ up[u].status # "finished" /\ Forgotten(u) /\ ~up'[u].live
            /\ up[u].session # None /\ up'[u].dels = up[u].dels \cup {"cancel"}
            /\ up'[u].status = up[u].status /\ up'[u].listed = up[u].listed
  BY CancelEffect
<1>2. Queued' = Queued /\ running' = running
  BY <1>1, SamePool
<1>3. CardFine(u) /\ TaskFine(u) /\ up[u].status \notin {"absent", "canceled"}
  <2>1. CardFine(u) /\ TaskFine(u)
    BY DEF CardOK, TaskOK
  <2>2. up[u].status # "absent"
    BY <1>1, <2>1 DEF CardFine, NoTask
  <2>3. up[u].status # "canceled"
    BY <1>1, <2>1 DEF CardFine
  <2> QED
    BY <2>1, <2>2, <2>3
<1>4. TaskFine(u)'
  <2>1. \A f \in Files : ctx'[f] \in {ctx[f], NoCtx}
    BY <1>1, ForgottenTyped
  <2>2. up[u].at = "create" => ctx'[FileOf[u]] = NoCtx
    BY <1>3, <2>1, FileOfUploader DEF TaskFine
  <2> QED
    BY <1>1, <1>3, <2>2 DEF TaskFine, SameWork, Holds, P
<1>5. CardFine(u)' /\ (Quieted(u) => Quieted(u)')
  <2>1. up'[u].at = up[u].at /\ up'[u].session = up[u].session
    BY <1>1 DEF SameWork
  <2>2. CASE /\ up[u].status = "finished" /\ up'[u].status = "finished"
             /\ up'[u].live = up[u].live /\ up'[u].dels = up[u].dels /\ ~up'[u].listed
    <3>1. u \notin Queued /\ up[u].at = "idle"
      BY <1>3, <2>2 DEF CardFine
    <3>2. up[u].live
      BY <1>1, <1>3 DEF CardFine
    <3> QED
      BY <1>1, <1>2, <1>3, <2>1, <2>2, <3>1, <3>2 DEF CardFine, Quieted
  <2>3. CASE /\ up[u].status # "finished" /\ ~up'[u].live
             /\ up[u].session = None /\ up'[u].dels = up[u].dels
             /\ up'[u].status = "canceled" /\ ~up'[u].listed
    BY <1>1, <1>2, <1>3, <2>1, <2>3 DEF CardFine, Quieted
  <2>4. CASE /\ up[u].status # "finished" /\ ~up'[u].live
             /\ up[u].session # None /\ up'[u].dels = up[u].dels \cup {"cancel"}
             /\ up'[u].status = up[u].status /\ up'[u].listed = up[u].listed
    BY <1>1, <1>2, <1>3, <2>1, <2>4 DEF CardFine, Quieted
  <2> QED
    BY <1>1, <2>2, <2>3, <2>4
<1>6. up'[u].dels \subseteq up[u].dels \/ up'[u].session = None \/ Quieted(u)'
  BY <1>1 DEF Quieted
<1>7. up' \in [Uploaders -> Task] /\ (Forgotten(u) \/ ctx' = ctx)
  BY <1>1 DEF UTyped
<1> QED
  BY <1>1, <1>2, <1>4, <1>5, <1>6, <1>7, TurnKeeps, SameServer DEF SameWork

LEMMA RetryKeeps ==
    ASSUME UploaderInv, NEW u \in Uploaders, Retry(u)
    PROVE  Rest'
<1> USE DEF UploaderInv, Rest
<1>1. /\ UTyped' /\ sess' = sess
      /\ Started(u) /\ SameWork(u) /\ Others(u)
      /\ up[u].status = "error" /\ up[u].listed
      /\ up'[u].live = TRUE /\ up'[u].gone = up[u].gone
      /\ up'[u].listed = up[u].listed /\ up'[u].rushed = (up[u].rushed \/ up[u].dels # {})
  BY RetryEffect
<1>2. CardFine(u) /\ TaskFine(u)
  BY DEF CardOK, TaskOK
<1>3. up[u].at = "idle" /\ up'[u].at = "idle" /\ up'[u].session = up[u].session
  BY <1>1, <1>2 DEF CardFine, SameWork
<1>4. Quieted(u) => Quieted(u)'
  BY <1>1, <1>2 DEF CardFine, Quieted
<1>5. CASE /\ Enqueue(u) /\ FileOf[u] \in Allowed
           /\ up'[u].status = "queued" /\ up'[u].dels = up[u].dels /\ ctx' = ctx
  <2>1. u \notin Queued \cup running /\ Queued' = Queued \cup {u} /\ running' = running
    BY <1>5, EnqueueMoves
  <2>2. CardFine(u)'
    BY <1>1, <1>2, <1>3, <1>4, <1>5, <2>1 DEF CardFine, Quieted
  <2>3. TaskFine(u)'
    BY <1>1, <1>2, <1>3, <1>5 DEF TaskFine, Holds
  <2> QED
    BY <1>1, <1>3, <1>4, <1>5, <2>1, <2>2, <2>3, TurnKeeps, SameServer DEF UTyped
<1>6. CASE /\ UNCHANGED poolVars /\ FileOf[u] \notin Allowed
           /\ up'[u].status = "error" /\ Doom(u) /\ Forgotten(u)
  <2>1. Queued' = Queued /\ running' = running
    BY <1>6, SamePool
  <2>2. up[u].session = None
    BY <1>2, <1>6 DEF TaskFine, Holds, SessOK
  <2>3. up'[u].dels = up[u].dels /\ up[u].dels = {}
    BY <1>2, <1>6, <2>2 DEF Doom, CardFine
  <2>4. CardFine(u)'
    BY <1>1, <1>2, <1>3, <1>4, <1>6, <2>1, <2>3 DEF CardFine, Quieted
  <2>5. TaskFine(u)'
    BY <1>1, <1>2, <1>3, <1>6, <2>2 DEF TaskFine
  <2> QED
    BY <1>1, <1>3, <1>4, <1>6, <2>1, <2>3, <2>4, <2>5, TurnKeeps, SameServer DEF UTyped
<1> QED
  BY <1>1, <1>5, <1>6 DEF Started

LEMMA DeleteKeeps ==
    ASSUME UploaderInv, NEW u \in Uploaders, NEW by \in {"error", "cancel"},
           DeleteSession(u, by)
    PROVE  Rest'
<1> USE DEF UploaderInv, Rest
<1>1. /\ up' \in [Uploaders -> Task] /\ ctx' = ctx /\ UNCHANGED poolVars
      /\ by \in up[u].dels /\ up[u].session \in Session
      /\ SameWork(u) /\ Others(u) /\ up'[u].live = up[u].live
      /\ up'[u].rushed = up[u].rushed /\ up'[u].dels = up[u].dels \ {by}
      /\ \/ sess' = sess /\ up'[u].gone = up[u].gone
         \/ Ended(up[u].session) /\ up'[u].gone = up[u].gone \cup {up[u].session}
      /\ \/ by = "cancel" /\ up'[u].status = "canceled" /\ ~up'[u].listed
         \/ by = "error" /\ up'[u].status = up[u].status /\ up'[u].listed = up[u].listed
  BY DeleteEffect
<1>2. Queued' = Queued /\ running' = running
  BY <1>1, SamePool
<1>3. ServerFine
  BY <1>1, SameServer, EndedFine
<1>4. CardFine(u) /\ TaskFine(u) /\ up'[u].at = up[u].at /\ up'[u].session = up[u].session
  BY <1>1 DEF CardOK, TaskOK, SameWork
<1>5. TaskFine(u)'
  <2>1. up[u].session # None => Holds(up[u].session, FileOf[u])'
    BY <1>3, <1>4 DEF TaskFine, Holds, ServerFine, Grows
  <2>2. sess[up[u].session].got \subseteq sess'[up[u].session].got
    BY <1>1, <1>3 DEF ServerFine, Grows
  <2>3. sess[up[u].session].state = "done" => sess'[up[u].session].state = "done"
    BY <1>1, <1>3 DEF ServerFine, Grows
  <2> QED
    BY <1>1, <1>4, <2>1, <2>2, <2>3 DEF TaskFine, SameWork, P
<1>6. CardFine(u)' /\ (Quieted(u) => Quieted(u)')
  <2>1. up[u].status # "absent"
    BY <1>1, <1>4 DEF CardFine, NoTask
  <2>2. CASE by = "cancel" /\ up'[u].status = "canceled" /\ ~up'[u].listed
    <3>1. Quieted(u)
      BY <1>1, <1>4, <2>2 DEF CardFine
    <3> QED
      BY <1>1, <1>2, <1>4, <2>1, <2>2, <3>1 DEF CardFine, Quieted
  <2>3. CASE by = "error" /\ up'[u].status = up[u].status /\ up'[u].listed = up[u].listed
    BY <1>1, <1>2, <1>4, <2>1, <2>3 DEF CardFine, Quieted
  <2> QED
    BY <1>1, <2>2, <2>3
<1>7. Doomed(u)' \subseteq Doomed(u) /\ up'[u].dels \subseteq up[u].dels
  BY <1>1, <1>4 DEF Doomed
<1> QED
  BY <1>1, <1>2, <1>3, <1>4, <1>5, <1>6, <1>7, TurnKeeps

\* A file is added; the card of a hint to resume may go for it.
LEMMA AddKeeps ==
    ASSUME UploaderInv, NEW u \in Uploaders, AddTask(u)
    PROVE  Rest'
<1> USE DEF UploaderInv, Rest
<1>1. /\ UTyped' /\ sess' = sess
      /\ Started(u) /\ SameWork(u) /\ up[u].status = "absent"
      /\ up'[u].live = up[u].live /\ up'[u].gone = up[u].gone
      /\ up'[u].listed = TRUE /\ up'[u].rushed = up[u].rushed
      /\ \/ Others(u)
         \/ \E h \in Uploaders \ {u} :
               /\ up[h].status = "resumable" /\ up[h].listed /\ FileOf[h] = FileOf[u]
               /\ up'[h] = [up[h] EXCEPT !.listed = FALSE]
               /\ \A v \in Uploaders \ {u, h} : up'[v] = up[v]
  BY AddEffect
<1>2. /\ up[u].at = "idle" /\ up[u].session = None /\ up[u].live /\ up[u].dels = {}
      /\ up[u].gone = {}
  <2>1. up[u] = NoTask
    BY <1>1 DEF CardOK, CardFine
  <2> QED
    BY <2>1 DEF NoTask
<1>3. up'[u].at = "idle" /\ up'[u].session = None /\ up'[u].live /\ up'[u].gone = {}
  BY <1>1, <1>2 DEF SameWork
<1>4. up'[u].dels = {}
  BY <1>1, <1>2 DEF Started, Doom
<1>5. ServerFine /\ Grows
  BY <1>1, SameServer DEF ServerFine
<1>6. Forgotten(u) \/ ctx' = ctx
  BY <1>1 DEF Started
<1>7. SessOK' /\ CtxOK' /\ \A g \in Files : ctx'[g] \in {ctx[g], NoCtx}
  BY <1>5, <1>6, ForgottenCtx DEF ServerFine
<1>8. /\ Queued' \ {u} = Queued \ {u} /\ running' = running
      /\ \/ up'[u].status = "queued" /\ u \in Queued' /\ u \notin running /\ FileOf[u] \in Allowed
         \/ up'[u].status = "error" /\ u \notin Queued' \cup running
  <2>1. CASE Enqueue(u) /\ FileOf[u] \in Allowed /\ up'[u].status = "queued"
    BY <2>1, EnqueueMoves
  <2>2. CASE UNCHANGED poolVars /\ FileOf[u] \notin Allowed /\ up'[u].status = "error"
    <3>1. Queued' = Queued /\ running' = running
      BY <2>2, SamePool
    <3>2. u \notin Queued \cup running
      BY <2>2 DEF CardOK, CardFine
    <3> QED
      BY <2>2, <3>1, <3>2
  <2> QED
    BY <1>1, <2>1, <2>2 DEF Started
<1>9. Beside(u)
  <2>1. CASE Others(u)
    BY <2>1, OthersBeside
  <2>2. ASSUME NEW h \in Uploaders \ {u}, up'[h] = [up[h] EXCEPT !.listed = FALSE],
               \A v \in Uploaders \ {u, h} : up'[v] = up[v]
        PROVE  Beside(u)
    <3>1. up[h] \in Task
      BY DEF UTyped
    <3>2. /\ up'[h].status = up[h].status /\ up'[h].at = up[h].at /\ up'[h].n = up[h].n
          /\ up'[h].session = up[h].session /\ up'[h].sent = up[h].sent
          /\ up'[h].live = up[h].live /\ up'[h].dels = up[h].dels /\ up'[h].gone = up[h].gone
          /\ up'[h].rushed = up[h].rushed
      BY <2>2, <3>1 DEF Task
    <3> QED
      BY <2>2, <3>2 DEF Beside
  <2> QED
    BY <1>1, <2>1, <2>2
<1>10. TaskOK'
  <2>1. TaskFine(u)'
    BY <1>3, <1>8 DEF TaskFine
  <2> QED
    BY <1>5, <1>7, <1>9, <2>1, KeepTasks
<1>11. CardOK'
  <2>1. CardFine(u)'
    BY <1>1, <1>3, <1>4, <1>8 DEF CardFine, Quieted
  <2>2. CASE Others(u)
    BY <1>8, <2>1, <2>2, KeepCards
  <2>3. ASSUME NEW h \in Uploaders \ {u},
               up[h].status = "resumable", up'[h] = [up[h] EXCEPT !.listed = FALSE],
               \A v \in Uploaders \ {u, h} : up'[v] = up[v]
        PROVE  CardOK'
    <3>1. CardFine(h)'
      <4>1. up[h] \in Task /\ CardFine(h)
        BY DEF UTyped, CardOK
      <4>2. ~up'[h].listed
        BY <2>3, <4>1 DEF Task
      <4>3. up'[h].status = "resumable" /\ up'[h].at = "idle" /\ h \notin Queued'
        BY <1>8, <1>9, <2>3, <4>1 DEF Beside, CardFine
      <4> QED
        BY <1>8, <1>9, <4>1, <4>2, <4>3 DEF Beside, CardFine, Quieted
    <3>2. ASSUME NEW v \in Uploaders \ {u, h}
          PROVE  CardFine(v)'
      <4>1. up'[v] = up[v] /\ (v \in Queued' <=> v \in Queued) /\ CardFine(v)
        BY <1>8, <2>3 DEF CardOK
      <4> QED
        BY <1>8, <4>1 DEF CardFine, Quieted
    <3> QED
      BY <2>1, <3>1, <3>2 DEF CardOK
  <2> QED
    BY <1>1, <2>2, <2>3
<1>12. \A r : Unreferenced(r) => Unreferenced(r)'
  BY <1>3, <1>7, <1>9, KeepUnreferenced
<1>13. Doomed(u)' = {}
  BY <1>3, <1>4 DEF Doomed
<1>14. GoneOK'
  BY <1>3, <1>5, <1>9, <1>10, <1>12, <1>13, KeepGone
<1> QED
  BY <1>1, <1>7, <1>10, <1>11, <1>14

LEMMA SameFine ==
    ASSUME NEW u, CardFine(u), up'[u] = up[u], Queued' = Queued, running' = running
    PROVE  CardFine(u)'
  BY DEF CardFine, Quieted

LEMMA UnlistedFine ==
    ASSUME NEW u, CardFine(u), Queued' = Queued, running' = running,
           up[u].status \in Over \cup {"resumable"}, up'[u].status = up[u].status,
           up'[u].at = up[u].at, up'[u].session = up[u].session, up'[u].live = up[u].live,
           up'[u].dels = up[u].dels, up'[u].rushed = up[u].rushed, ~up'[u].listed
    PROVE  CardFine(u)'
<1>1. Quieted(u)' <=> Quieted(u)
  BY DEF Quieted
<1>2. up[u].status = "canceled" \/ (up[u].at = "idle" /\ u \notin Queued)
  BY DEF CardFine, Over
<1>3. up[u].status \notin {"absent", "queued", "preparing", "processing", "finishing"}
  BY DEF Over
<1> QED
  BY <1>1, <1>2, <1>3 DEF CardFine

\* Nothing happens to the tasks but that cards of tasks which have ended, or of hints, go;
\* contexts may be forgotten and sessions end.
LEMMA PageKeeps ==
    ASSUME UploaderInv, up' \in [Uploaders -> Task], ServerFine, ctx' \in CtxMap,
           \A f \in Files : ctx'[f] \in {ctx[f], NoCtx}, Queued' = Queued, running' = running,
           \A u \in Uploaders :
              \/ up'[u] = up[u]
              \/ up[u].status \in Over \cup {"resumable"} /\ up'[u] = [up[u] EXCEPT !.listed = FALSE]
    PROVE  Rest'
<1> USE DEF UploaderInv, Rest
<1>1. UTyped' /\ SessOK' /\ Grows
  BY DEF UTyped, ServerFine
<1>2. ASSUME NEW u \in Uploaders
      PROVE  /\ up'[u].status = up[u].status /\ up'[u].at = up[u].at /\ up'[u].n = up[u].n
             /\ up'[u].session = up[u].session /\ up'[u].sent = up[u].sent
             /\ up'[u].live = up[u].live /\ up'[u].dels = up[u].dels
             /\ up'[u].gone = up[u].gone /\ up'[u].rushed = up[u].rushed
             /\ \/ up'[u] = up[u]
                \/ up[u].status \in Over \cup {"resumable"} /\ ~up'[u].listed
  <2>1. up[u] \in Task
    BY DEF UTyped
  <2>2. CASE up'[u] = up[u]
    BY <2>2
  <2>3. CASE up[u].status \in Over \cup {"resumable"} /\ up'[u] = [up[u] EXCEPT !.listed = FALSE]
    BY <2>1, <2>3 DEF Task
  <2> QED
    BY <2>2, <2>3
<1>3. CtxOK'
  BY <1>1, DroppedCtx
<1>4. ASSUME NEW u \in Uploaders
      PROVE  TaskFine(u)' /\ CardFine(u)'
  <2>1. TaskFine(u) /\ CardFine(u) /\ FileOf[u] \in Files
    BY FileOfUploader DEF TaskOK, CardOK
  <2>2. up[u].session # None =>
          /\ up[u].session \in Session /\ Holds(up[u].session, FileOf[u])'
          /\ sess[up[u].session].got \subseteq sess'[up[u].session].got
          /\ sess[up[u].session].state = "done" => sess'[up[u].session].state = "done"
    BY <1>1, <1>2, <2>1 DEF TaskFine, Holds, Grows
  <2>3. up[u].at = "create" => ctx'[FileOf[u]] = NoCtx
    BY <2>1 DEF TaskFine
  <2>4. TaskFine(u)'
    BY <1>2, <2>1, <2>2, <2>3 DEF TaskFine, P
  <2>5. CASE up'[u] = up[u]
    BY <2>1, <2>4, <2>5, SameFine
  <2>6. CASE up[u].status \in Over \cup {"resumable"} /\ ~up'[u].listed
    BY <1>2, <2>1, <2>4, <2>6, UnlistedFine
  <2> QED
    BY <1>2, <2>5, <2>6
<1>5. TaskOK' /\ CardOK'
  BY <1>4 DEF TaskOK, CardOK
<1>6. \A s : Unreferenced(s) => Unreferenced(s)'
  <2>1. \A f \in Files : ctx'[f] # NoCtx => ctx'[f] = ctx[f]
    OBVIOUS
  <2> QED
    BY <1>2, <2>1 DEF Unreferenced
<1>7. ASSUME NEW u \in Uploaders, NEW s \in Doomed(u)'
      PROVE  sess'[s].state # "none" /\ (Quieted(u)' \/ Unreferenced(s)')
  <2>1. s \in Doomed(u) /\ (Quieted(u)' <=> Quieted(u))
    BY <1>2, <1>7 DEF Doomed, Quieted
  <2> QED
    BY <1>6, <2>1, OldDoom
<1>8. ASSUME NEW u \in Uploaders, NEW v \in Uploaders,
             up'[u].session # None, up'[u].session = up'[v].session
      PROVE  u = v \/ P(u).chunked
  BY <1>2, <1>8 DEF GoneOK
<1>9. GoneOK'
  BY <1>7, <1>8 DEF GoneOK, P
<1> QED
  BY <1>1, <1>3, <1>5, <1>9

\* Every session that lives is deleted.
LEMMA AllEnded ==
    ASSUME UTyped, SessOK,
           sess' = [s \in Session |-> IF sess[s].state = "live"
                                      THEN [sess[s] EXCEPT !.state = "deleted"] ELSE sess[s]]
    PROVE  ServerFine
<1>1. ASSUME NEW s \in Session
      PROVE  /\ sess'[s] \in SessionRecord
             /\ sess'[s].file = sess[s].file /\ sess'[s].got = sess[s].got
             /\ sess'[s].state = sess[s].state \/ (sess[s].state = "live" /\ sess'[s].state = "deleted")
  <2>1. sess[s] \in SessionRecord
    BY DEF UTyped
  <2>2. CASE sess[s].state = "live"
    <3>1. sess'[s] = [sess[s] EXCEPT !.state = "deleted"]
      BY <2>2
    <3> QED
      BY <2>1, <2>2, <3>1 DEF SessionRecord
  <2>3. CASE sess[s].state # "live"
    BY <2>1, <2>3
  <2> QED
    BY <2>2, <2>3
<1>2. Grows
  BY <1>1 DEF Grows
<1>3. SessOK'
  BY <1>1 DEF SessOK
<1>4. sess' \in [Session -> SessionRecord]
  BY <1>1
<1> QED
  BY <1>2, <1>3, <1>4 DEF ServerFine

LEMMA CleanKeeps ==
    ASSUME UploaderInv, CleanupSessions \/ CleanFinished
    PROVE  Rest'
<1> USE DEF UploaderInv, Rest
<1>1. ASSUME NEW Ending, \A u \in Uploaders : up[u].status \in Ending
                                              => up[u].status \in Over \cup {"resumable"},
             up' = [u \in Uploaders |-> IF up[u].status \in Ending
                                        THEN [up[u] EXCEPT !.listed = FALSE] ELSE up[u]]
      PROVE  /\ up' \in [Uploaders -> Task]
             /\ \A u \in Uploaders :
                   \/ up'[u] = up[u]
                   \/ /\ up[u].status \in Over \cup {"resumable"}
                      /\ up'[u] = [up[u] EXCEPT !.listed = FALSE]
  <2>1. ASSUME NEW u \in Uploaders
        PROVE  up'[u] \in Task
    <3>1. up[u] \in Task
      BY DEF UTyped
    <3>2. [up[u] EXCEPT !.listed = FALSE] \in Task
      BY <3>1 DEF Task
    <3> QED
      BY <1>1, <3>1, <3>2
  <2> QED
    BY <1>1, <2>1
<1>2. CASE CleanFinished
  <2>1. /\ up' = [u \in Uploaders |-> IF up[u].status \in Over
                                      THEN [up[u] EXCEPT !.listed = FALSE] ELSE up[u]]
        /\ ctx' = ctx /\ sess' = sess /\ UNCHANGED poolVars
    BY <1>2 DEF CleanFinished
  <2>2. ServerFine /\ ctx' \in CtxMap /\ Queued' = Queued /\ running' = running
    BY <2>1, SameServer, SamePool DEF UTyped
  <2>3. \A u \in Uploaders : up[u].status \in Over => up[u].status \in Over \cup {"resumable"}
    OBVIOUS
  <2> QED
    BY <1>1, <2>1, <2>2, <2>3, PageKeeps
<1>3. CASE CleanupSessions
  <2>1. /\ up' = [u \in Uploaders |-> IF up[u].status \in {"resumable"}
                                      THEN [up[u] EXCEPT !.listed = FALSE] ELSE up[u]]
        /\ UNCHANGED poolVars
        /\ sess' = [s \in Session |-> IF sess[s].state = "live"
                                  THEN [sess[s] EXCEPT !.state = "deleted"] ELSE sess[s]]
    BY <1>3 DEF CleanupSessions
  <2>2. ServerFine /\ Queued' = Queued /\ running' = running
    BY <2>1, AllEnded, SamePool
  <2>3. PICK kept : ctx' = [f \in Files |-> IF f \in kept THEN ctx[f] ELSE NoCtx]
    BY <1>3 DEF CleanupSessions
  <2>4. ctx' \in CtxMap /\ \A f \in Files : ctx'[f] \in {ctx[f], NoCtx}
    BY <2>3 DEF UTyped, CtxMap, NoCtx
  <2>5. \A u \in Uploaders : up[u].status \in {"resumable"}
                                => up[u].status \in Over \cup {"resumable"}
    OBVIOUS
  <2> QED
    BY <1>1, <2>1, <2>2, <2>4, <2>5, PageKeeps
<1> QED
  BY <1>2, <1>3

LEMMA CalmPageKeeps ==
    ASSUME UploaderInv,
           CheckReturnsTask \/ UNCHANGED uploaderVars \/ (\E s \in Session : Expire(s))
    PROVE  Rest'
<1> USE DEF UploaderInv, Rest
<1>1. up' = up /\ ctx' = ctx
  BY DEF CheckReturnsTask, uploaderVars, Expire
<1>2. Queued' = Queued /\ running' = running
  BY SamePool DEF CheckReturnsTask, CheckReturns, Queued, uploaderVars, Expire
<1>3. sess' = sess \/ \E s \in Session : Ended(s)
  BY DEF CheckReturnsTask, uploaderVars, Expire, Ended
<1>4. ServerFine
  BY <1>3, SameServer, EndedFine
<1> QED
  BY <1>1, <1>2, <1>4, PageKeeps DEF UTyped

\* What a reload makes of a card.
LEMMA ReloadEffect ==
    ASSUME UploaderInv, NEW u \in Uploaders, Reload
    PROVE  /\ up'[u] \in Task
           /\ \/ up'[u] = NoTask
              \/ /\ ctx[FileOf[u]] # NoCtx /\ up'[u].session = ctx[FileOf[u]].session
                 /\ up'[u].status = "resumable" /\ up'[u].at = "idle" /\ up'[u].live
                 /\ up'[u].dels = {} /\ up'[u].gone = {}
<1> DEFINE f == FileOf[u]
<1>1. NoTask \in Task
  BY DEF NoTask, Task, Status
<1>2. f \in Files /\ ctx[f].session \in Session \cup {None} /\ ctx[f].sent \in SUBSET Chunks
  BY FileOfUploader DEF UploaderInv, Rest, UTyped, CtxMap
<1>3. up'[u] = IF u = (CHOOSE v \in Uploaders : FileOf[v] = f) /\ 1 \in Cached(f).sent
               THEN [NoTask EXCEPT !.status = "resumable", !.listed = TRUE,
                                   !.session = ctx[f].session, !.sent = ctx[f].sent]
               ELSE NoTask
  BY DEF Reload
<1>4. CASE u = (CHOOSE v \in Uploaders : FileOf[v] = f) /\ 1 \in Cached(f).sent
  <2>1. ctx[f] # NoCtx
    BY <1>4 DEF Cached, NoCtx
  <2>2. up'[u] = [NoTask EXCEPT !.status = "resumable", !.listed = TRUE,
                                !.session = ctx[f].session, !.sent = ctx[f].sent]
    BY <1>3, <1>4
  <2>3. up'[u] \in Task
    BY <1>1, <1>2, <2>2 DEF Task, Status
  <2>4. /\ up'[u].session = ctx[f].session /\ up'[u].status = "resumable"
        /\ up'[u].at = "idle" /\ up'[u].live /\ up'[u].dels = {} /\ up'[u].gone = {}
    BY <2>2 DEF NoTask
  <2> QED
    BY <2>1, <2>3, <2>4
<1>5. CASE ~(u = (CHOOSE v \in Uploaders : FileOf[v] = f) /\ 1 \in Cached(f).sent)
  BY <1>1, <1>3, <1>5
<1> QED
  BY <1>4, <1>5

LEMMA ReloadKeeps ==
    ASSUME UploaderInv, Reload
    PROVE  Rest'
<1> USE DEF UploaderInv, Rest
<1>1. ServerFine
  BY SameServer, MaybeServedFine DEF Reload
<1>2. Queued' = {} /\ running' = {} /\ ctx' = ctx
  <2>1. queue' = <<>>
    BY DEF Reload
  <2>2. Len(queue') = 0
    BY <2>1
  <2>3. Queued' = {}
    BY <2>2 DEF Queued
  <2> QED
    BY <2>3 DEF Reload
<1>3. UTyped' /\ SessOK' /\ Grows
  <2>1. DOMAIN up' = Uploaders /\ up' = [u \in Uploaders |-> up'[u]]
    BY DEF Reload
  <2>2. \A u \in Uploaders : up'[u] \in Task
    BY ReloadEffect
  <2>3. up' \in [Uploaders -> Task]
    BY <2>1, <2>2
  <2> QED
    BY <1>1, <1>2, <2>3 DEF UTyped, ServerFine
<1>4. CtxOK'
  BY <1>2, <1>3, DroppedCtx
<1>5. ASSUME NEW u \in Uploaders
      PROVE  /\ TaskFine(u)' /\ CardFine(u)' /\ Doomed(u)' = {}
             /\ up'[u].session # None => P(u).chunked
  <2>1. CASE up'[u] = NoTask
    <3>1. /\ up'[u].status = "absent" /\ up'[u].at = "idle" /\ up'[u].session = None
          /\ up'[u].live /\ up'[u].dels = {} /\ up'[u].gone = {}
      BY <2>1 DEF NoTask
    <3> QED
      BY <1>2, <2>1, <3>1 DEF TaskFine, CardFine, Doomed, Quieted
  <2>2. CASE /\ ctx[FileOf[u]] # NoCtx /\ up'[u].session = ctx[FileOf[u]].session
             /\ up'[u].status = "resumable" /\ up'[u].at = "idle" /\ up'[u].live
             /\ up'[u].dels = {} /\ up'[u].gone = {}
    <3>1. Holds(up'[u].session, FileOf[u]) /\ P(u).chunked
      BY <2>2, FileOfUploader DEF CtxOK, P, Holds
    <3>2. PICK s : s = up'[u].session
      OBVIOUS
    <3>3. Holds(s, FileOf[u])'
      BY <1>3, <3>1, <3>2 DEF Holds, Grows
    <3>4. TaskFine(u)'
      BY <2>2, <3>2, <3>3 DEF TaskFine
    <3> QED
      BY <1>2, <2>2, <3>1, <3>4 DEF CardFine, Doomed, Quieted
  <2> QED
    BY <2>1, <2>2, ReloadEffect
<1>6. GoneOK'
  BY <1>5 DEF GoneOK, P
<1> QED
  BY <1>3, <1>4, <1>5, <1>6 DEF TaskOK, CardOK

-----------------------------------------------------------------------------
(* The invariant.                                                          *)

LEMMA UploaderStart == UploaderInit => UploaderInv
<1> SUFFICES ASSUME UploaderInit
             PROVE  UploaderInv
  OBVIOUS
<1> USE DEF UploaderInit
<1>1. PoolPart
  <2>1. Typed /\ PlacesInv
    BY TypedInit, PlacesInit
  <2> QED
    BY <2>1 DEF PoolPart, PoolInit, Awake
<1>2. Queued = {} /\ running = {}
  <2>1. queue = <<>> /\ Len(queue) = 0
    BY DEF PoolInit
  <2> QED
    BY <2>1 DEF Queued, PoolInit
<1>3. NoTask \in Task /\ NoSession.got = {} /\ NoSession.state = "none"
  BY DEF NoTask, Task, Status, NoSession
<1>4. UTyped
  <2>1. NoSession \in SessionRecord
    BY DEF NoSession, SessionRecord
  <2>2. NoCtx \in [session : Session \cup {None}, sent : SUBSET Chunks]
    BY DEF NoCtx
  <2> QED
    BY <1>3, <2>1, <2>2 DEF UTyped, CtxMap
<1>5. SessOK /\ CtxOK
  BY <1>3, PartsFacts DEF SessOK, CtxOK
<1>6. ASSUME NEW u \in Uploaders
      PROVE  TaskFine(u) /\ CardFine(u) /\ Doomed(u) = {} /\ up[u].session = None
  <2>1. /\ up[u] = NoTask /\ up[u].status = "absent" /\ up[u].at = "idle"
        /\ up[u].session = None /\ up[u].live /\ up[u].dels = {} /\ up[u].gone = {}
    BY DEF NoTask
  <2> QED
    BY <1>2, <2>1 DEF TaskFine, CardFine, Doomed, Quieted
<1> QED
  BY <1>1, <1>4, <1>5, <1>6 DEF UploaderInv, Rest, TaskOK, CardOK, GoneOK

LEMMA UploaderStep == UploaderInv /\ UStep => UploaderInv'
<1> SUFFICES ASSUME UploaderInv, UStep
             PROVE  UploaderInv'
  OBVIOUS
<1>1. PoolPart'
  BY PoolPartStep DEF UploaderInv
<1>2. Rest'
  <2>1. CASE PageStep
    BY <2>1, CalmPageKeeps, BeginKeeps, RejectKeeps, FailedKeeps, CompleteKeeps DEF PageStep
  <2>2. ASSUME NEW u \in Uploaders, Answered(u)
        PROVE  Rest'
    BY <2>2, CreatedKeeps, ChunkKeeps, CallDoneKeeps, FailedKeeps DEF Answered
  <2>3. ASSUME NEW u \in Uploaders,
               \/ AddTask(u) \/ Retry(u) \/ Cancel(u) \/ Progress(u)
               \/ \E by \in {"error", "cancel"} : DeleteSession(u, by)
        PROVE  Rest'
    BY <2>3, AddKeeps, RetryKeeps, CancelKeeps, DeleteKeeps, ProgressKeeps
  <2>4. CASE \/ CleanupSessions \/ CleanFinished \/ Reload \/ (\E s \in Session : Expire(s))
             \/ UNCHANGED uploaderVars
    BY <2>4, CleanKeeps, ReloadKeeps, CalmPageKeeps
  <2> QED
    BY <2>1, <2>2, <2>3, <2>4 DEF UStep, UploaderNext
<1> QED
  BY <1>1, <1>2 DEF UploaderInv

-----------------------------------------------------------------------------
(* The theorems.                                                           *)

LEMMA UploaderHolds == UploaderSpec => []UploaderInv
<1>1. UploaderInv /\ [UploaderNext]_uploaderVars => UploaderInv'
  BY UploaderStep DEF UStep
<1> QED
  BY <1>1, UploaderStart, PTL DEF UploaderSpec

(* A card says finished only of a file of which the storage has every part *)
(* and whose upload has been completed, over retries, resumed sessions,    *)
(* cleared contexts, lost requests and reloads (base.ts 97-190).           *)
THEOREM Uploaded == UploaderSpec => []FinishedUploaded
<1>1. UploaderInv => FinishedUploaded
  <2> SUFFICES ASSUME UploaderInv, NEW u \in Uploaders, up[u].status = "finished"
               PROVE  /\ sess[up[u].session].got = Parts(FileOf[u])
                      /\ sess[up[u].session].state = "done" \/ P(u).swallows
    BY DEF FinishedUploaded
  <2>1. TaskFine(u) /\ SessOK
    BY DEF UploaderInv, Rest, TaskOK
  <2>2. Holds(up[u].session, FileOf[u]) /\ Parts(FileOf[u]) \subseteq sess[up[u].session].got
    BY <2>1 DEF TaskFine
  <2>3. sess[up[u].session].got \subseteq Parts(FileOf[u])
    BY <2>1, <2>2 DEF SessOK, Holds
  <2> QED
    BY <2>1, <2>2, <2>3 DEF TaskFine
<1> QED
  BY <1>1, UploaderHolds, PTL

(* A resume context names a session of its file, and claims no chunk that  *)
(* session has not got (helper.ts 58-152, chunk.ts 22-84).                 *)
THEOREM Truthful == UploaderSpec => []CtxTruthful
<1>1. UploaderInv => CtxTruthful
  BY DEF UploaderInv, Rest, CtxOK, Holds, CtxTruthful
<1> QED
  BY <1>1, UploaderHolds, PTL

(* A card that has been removed sends nothing more (base.ts 155-163).      *)
THEOREM Quiet == UploaderSpec => []RemovedIsQuiet
<1>1. UploaderInv => RemovedIsQuiet
  BY DEF UploaderInv, Rest, CardOK, CardFine, Quieted, RemovedIsQuiet
<1> QED
  BY <1>1, UploaderHolds, PTL

(* A task does not upload into a session it has had deleted (base.ts       *)
(* 192-212): whoever gives a session up has forgotten its context.         *)
THEOREM Undeleted == UploaderSpec => []NoSelfDelete
<1>1. UploaderInv => NoSelfDelete
  <2> SUFFICES ASSUME UploaderInv, Idle, NEW u \in Uploaders,
                      up[u].at \in {"chunk", "finish"}, ~up[u].rushed,
                      up[u].session \in up[u].gone
               PROVE  FALSE
    BY DEF NoSelfDelete
  <2>1. up[u].live
    BY DEF Idle
  <2>2. Quieted(u) \/ Unreferenced(up[u].session)
    BY DEF UploaderInv, Rest, GoneOK, Doomed
  <2> QED
    BY <2>1, <2>2 DEF Quieted, Unreferenced
<1> QED
  BY <1>1, UploaderHolds, PTL

(* Every card that shows an upload waiting or busy has somebody to move it *)
(* on (base.ts 118-212 and pool.ts 33-82).                                 *)
THEOREM Unstuck == UploaderSpec => []CardsServed
<1>1. UploaderInv => CardsServed
  <2> SUFFICES ASSUME UploaderInv, Idle, NEW u \in Uploaders,
                      Phase(u) \in {"waiting", "busy"}, up[u].at = "idle", ~Loading(u)
               PROVE  up[u].status = "queued" /\ u \in Queued /\ running # {}
    BY DEF CardsServed
  <2>1. CardFine(u) /\ up[u] \in Task /\ up[u].listed
    BY DEF UploaderInv, Rest, CardOK, UTyped, Phase
  <2>2. up[u].status \notin {"finished", "error", "resumable"}
    BY <2>1 DEF Phase
  <2>3. up[u].status \notin {"absent", "canceled"}
    BY <2>1 DEF CardFine, NoTask
  <2>4. up[u].status \notin {"preparing", "processing", "finishing"}
    BY <2>1 DEF CardFine, Loading
  <2>5. up[u].status = "queued"
    BY <2>1, <2>2, <2>3, <2>4 DEF Task, Status
  <2>6. u \in Queued
    BY <2>1, <2>5 DEF CardFine
  <2>7. queue # <<>> /\ frames = <<>>
    BY <2>6 DEF Queued, Idle, Returned
  <2>8. running # {}
    <3>1. Len(frames) # 1
      BY <2>7
    <3> QED
      BY <2>7, <3>1 DEF UploaderInv, PoolPart, Awake
  <2> QED
    BY <2>5, <2>6, <2>8
<1> QED
  BY <1>1, UploaderHolds, PTL

-----------------------------------------------------------------------------
(* The cards keep the contract.                                            *)

Phases == [u \in Uploaders |-> Phase(u)]
Stored == {f \in Files : \E s \in Session : sess[s].file = f /\ sess[s].got = Parts(f)}

\* What a card may come to show, one event at a time.
PhaseMoves(u) ==
    \/ Phase(u)' = Phase(u)
    \/ Phase(u) = "none" /\ Phase(u)' \in {"waiting", "failed"}
    \/ Phase(u) = "waiting" /\ Phase(u)' = "busy"
    \/ Phase(u) = "busy" /\ Phase(u)' = "done" /\ FileOf[u] \in Stored
    \/ Phase(u) \in {"waiting", "busy"} /\ Phase(u)' = "failed"
    \/ Phase(u) = "failed" /\ Phase(u)' \in {"waiting", "busy"}
    \/ Phase(u) \in {"waiting", "busy", "done", "failed", "hint"} /\ Phase(u)' = "none"

\* What the storage has it keeps.
LEMMA StoredGrows ==
    ASSUME UploaderInv, UploaderInv', Grows
    PROVE  Stored \subseteq Stored'
<1> SUFFICES ASSUME NEW f \in Files, NEW s \in Session,
                    sess[s].file = f, sess[s].got = Parts(f)
             PROVE  sess'[s].file = f /\ sess'[s].got = Parts(f)
  BY DEF Stored
<1>1. sess[s].state # "none"
  BY PartsFacts DEF UploaderInv, Rest, SessOK
<1>2. sess'[s].file = f /\ Parts(f) \subseteq sess'[s].got
  BY <1>1 DEF Grows
<1>3. sess'[s].got \subseteq Parts(sess'[s].file)
  BY DEF UploaderInv, Rest, SessOK
<1> QED
  BY <1>2, <1>3

LEMMA OneMoves ==
    ASSUME NEW u \in Uploaders, Others(u), PhaseMoves(u), Stored \subseteq Stored'
    PROVE  Contract!Next
<1>1. /\ Phases[u] = Phase(u) /\ Phases' = [Phases EXCEPT ![u] = Phase(u)']
  <2>1. \A v \in Uploaders \ {u} : Phase(v)' = Phase(v)
    BY DEF Others, Phase, Loading
  <2> QED
    BY <2>1 DEF Phases
<1>2. \/ Phases' = Phases
      \/ Contract!Submit(u) \/ Contract!Begin(u) \/ Contract!Succeed(u) \/ Contract!Fail(u)
      \/ Contract!Retry(u) \/ Contract!Cancel(u) \/ Contract!Dismiss(u)
  <2>1. CASE Phase(u)' = Phase(u)
    BY <1>1, <2>1 DEF Phases
  <2>2. CASE Phase(u) = "none" /\ Phase(u)' \in {"waiting", "failed"}
    BY <1>1, <2>2 DEF Contract!Submit, Contract!Moves, Phases
  <2>3. CASE Phase(u) = "waiting" /\ Phase(u)' = "busy"
    BY <1>1, <2>3 DEF Contract!Begin, Contract!Moves, Phases
  <2>4. CASE Phase(u) = "busy" /\ Phase(u)' = "done" /\ FileOf[u] \in Stored
    BY <1>1, <2>4 DEF Contract!Succeed, Contract!Moves, Phases, Stored
  <2>5. CASE Phase(u) \in {"waiting", "busy"} /\ Phase(u)' = "failed"
    BY <1>1, <2>5 DEF Contract!Fail, Contract!Moves, Phases
  <2>6. CASE Phase(u) = "failed" /\ Phase(u)' = "waiting"
    BY <1>1, <2>6 DEF Contract!Retry, Contract!Moves, Phases
  <2>7. CASE Phase(u) = "failed" /\ Phase(u)' = "busy"
    BY <1>1, <2>7 DEF Contract!Cancel, Contract!Moves, Phases
  <2>8. CASE /\ Phase(u) \in {"waiting", "busy", "done", "failed", "hint"}
             /\ Phase(u)' = "none"
    BY <1>1, <2>8 DEF Contract!Dismiss, Contract!Moves, Phases
  <2> QED
    BY <2>1, <2>2, <2>3, <2>4, <2>5, <2>6, <2>7, <2>8 DEF PhaseMoves
<1> QED
  BY <1>2 DEF Contract!Next, Phases, Stored

\* A step after which all cards show what they showed.
LEMMA NobodyMoves ==
    ASSUME \A u \in Uploaders : Phase(u)' = Phase(u), Stored \subseteq Stored'
    PROVE  Contract!Next
<1>1. Phases' = Phases
  BY DEF Phases
<1> QED
  BY <1>1 DEF Contract!Next, Phases, Stored

LEMMA SamePhase ==
    ASSUME NEW u, up'[u].listed = up[u].listed, up'[u].status = up[u].status,
           Loading(u)' <=> Loading(u)
    PROVE  Phase(u)' = Phase(u)
  BY DEF Phase

LEMMA UploaderGrows ==
    ASSUME UploaderInv, UStep
    PROVE  Grows
<1> USE DEF UploaderInv, Rest
<1>1. CASE sess' = sess
  BY <1>1, SameServer DEF ServerFine
<1>2. CASE CleanupSessions
  BY <1>2, AllEnded DEF CleanupSessions, ServerFine
<1>3. CASE \E s \in Session : Expire(s)
  BY <1>3, EndedFine DEF Expire, Ended, ServerFine
<1>4. CASE Reload
  BY <1>4, SameServer, MaybeServedFine DEF Reload, ServerFine
<1>5. ASSUME NEW u \in Uploaders, Created(u) \/ ChunkUploaded(u) \/ CallDone(u)
      PROVE  Grows
  BY <1>5, CreatedEffect, ChunkEffect, CallDoneEffect DEF ServerFine
<1>6. ASSUME NEW u \in Uploaders, Refused(u) \/ Lost(u) \/ Abort(u)
      PROVE  Grows
  BY <1>6, FailedEffect, AbortEffect DEF ServerFine
<1>7. ASSUME NEW u \in Uploaders, NEW by \in {"error", "cancel"}, DeleteSession(u, by)
      PROVE  Grows
  BY <1>7, DeleteEffect, EndedFine, SameServer DEF ServerFine
<1>8. ASSUME NEW u \in Uploaders,
             \/ AddTask(u) \/ Retry(u) \/ Cancel(u) \/ Progress(u)
             \/ BeginTask(u) \/ RejectTask(u) \/ Complete(u)
      PROVE  sess' = sess
  BY <1>8 DEF AddTask, Retry, Cancel, Progress, BeginTask, RejectTask, Complete
<1>9. CASE CheckReturnsTask \/ CleanFinished \/ UNCHANGED uploaderVars
  BY <1>1, <1>9 DEF CheckReturnsTask, CleanFinished, uploaderVars
<1> QED
  BY <1>1, <1>2, <1>3, <1>4, <1>5, <1>6, <1>7, <1>8, <1>9
     DEF UStep, UploaderNext, PageStep, Answered

\* The task begins, goes on, or makes one of the calls that complete the upload.
LEMMA WorkMoves ==
    ASSUME UploaderInv, Stored \subseteq Stored', NEW u \in Uploaders, Others(u), SameCard(u),
           up'[u].status \in {"preparing", "processing", "finishing"},
           u \in Queued \/ up[u].at # "idle"
    PROVE  Contract!Next
<1>1. /\ CardFine(u) /\ up'[u].listed = up[u].listed /\ (Loading(u)' <=> Loading(u))
  BY DEF UploaderInv, Rest, CardOK, SameCard, Loading
<1>2. up[u].status \in {"queued", "canceled", "preparing", "processing", "finishing"}
  BY <1>1 DEF CardFine
<1>3. up[u].status = "canceled" => ~up[u].listed
  BY <1>1 DEF CardFine
<1>4. PhaseMoves(u)
  BY <1>1, <1>2, <1>3 DEF PhaseMoves, Phase
<1> QED
  BY <1>4, OneMoves

\* Status and card stay as they are, whatever is to be deleted.
LEMMA QuietMoves ==
    ASSUME Stored \subseteq Stored', NEW u \in Uploaders, Others(u),
           up'[u].status = up[u].status, up'[u].listed = up[u].listed,
           up'[u].dels \ {"error"} = up[u].dels \ {"error"}
    PROVE  Contract!Next
<1>1. Loading(u)' <=> Loading(u)
  BY DEF Loading
<1>2. Phase(u)' = Phase(u)
  BY <1>1, SamePhase
<1> QED
  BY <1>2, OneMoves DEF PhaseMoves

LEMMA ErrorMoves ==
    ASSUME UploaderInv, Stored \subseteq Stored', NEW u \in Uploaders,
           NEW retryable \in BOOLEAN, Errs(u, retryable), u \in Queued \/ up[u].at # "idle"
    PROVE  Contract!Next
<1>1. /\ CardFine(u) /\ up'[u].listed = up[u].listed /\ (Loading(u)' <=> Loading(u))
      /\ up'[u].status = "error" /\ Others(u)
  BY DEF UploaderInv, Rest, CardOK, Errs, Stops, Doom, Loading
<1>2. up[u].status \in {"queued", "canceled", "preparing", "processing", "finishing"}
  BY <1>1 DEF CardFine
<1>3. up[u].status = "canceled" => ~up[u].listed
  BY <1>1 DEF CardFine
<1>4. PhaseMoves(u)
  BY <1>1, <1>2, <1>3 DEF PhaseMoves, Phase
<1> QED
  BY <1>1, <1>4, OneMoves

LEMMA TaskMoves ==
    ASSUME UploaderInv, Stored \subseteq Stored', NEW u \in Uploaders,
           \/ BeginTask(u) \/ RejectTask(u) \/ Created(u) \/ ChunkUploaded(u)
           \/ Progress(u) \/ CallDone(u) \/ Refused(u) \/ Lost(u) \/ Abort(u)
    PROVE  Contract!Next
<1> USE DEF UploaderInv, Rest
<1>1. CASE BeginTask(u)
  <2>1. u \in Queued
    BY <1>1, RunMoves DEF BeginTask
  <2>2. /\ Others(u) /\ SameCard(u)
        /\ up'[u].status \in {"preparing", "processing", "finishing"}
    BY <1>1, BeginEffect DEF Going
  <2> QED
    BY <2>1, <2>2, WorkMoves
<1>2. CASE Created(u) \/ ChunkUploaded(u)
  <2>1. /\ Others(u) /\ SameCard(u) /\ up[u].at # "idle"
        /\ up'[u].status \in {"preparing", "processing", "finishing"}
    BY <1>2, CreatedEffect, ChunkEffect DEF Going
  <2> QED
    BY <2>1, WorkMoves
<1>3. CASE Progress(u) \/ CallDone(u)
  <2>1. Others(u) /\ SameCard(u) /\ up'[u].status = up[u].status
    BY <1>3, ProgressEffect, CallDoneEffect DEF Called
  <2> QED
    BY <2>1, QuietMoves DEF SameCard
<1>4. ASSUME Called(u)
      PROVE  Contract!Next
  BY <1>4, QuietMoves DEF Called, SameCard
<1>5. CASE RejectTask(u)
  <2>1. u \in Queued
    BY <1>5, RejectMoves DEF RejectTask
  <2> QED
    BY <1>5, <2>1, ErrorEffect, ErrorMoves DEF RejectTask
<1>6. CASE Refused(u) \/ Lost(u)
  <2>1. PICK retryable \in BOOLEAN :
           Awaits(u) /\ (Called(u) \/ Errs(u, retryable))
    BY <1>6, FailedEffect
  <2> QED
    BY <1>4, <2>1, ErrorMoves DEF Awaits
<1>7. CASE Abort(u)
  <2>1. Called(u) \/ (Stops(u, TRUE) /\ up'[u].status = up[u].status)
    BY <1>7, AbortEffect
  <2> QED
    BY <1>4, <2>1, QuietMoves DEF Stops, Doom
<1> QED
  BY <1>1, <1>2, <1>3, <1>5, <1>6, <1>7

LEMMA CompleteMoves ==
    ASSUME UploaderInv, Stored \subseteq Stored', NEW u \in Uploaders, Complete(u)
    PROVE  Contract!Next
<1> USE DEF UploaderInv, Rest
<1>1. /\ up[u].at = "finish" /\ Others(u) /\ SameCard(u) /\ up'[u].status = "finished"
  BY CompleteEffect
<1>2. /\ CardFine(u) /\ up'[u].listed = up[u].listed /\ (Loading(u)' <=> Loading(u))
  BY <1>1 DEF CardOK, SameCard, Loading
<1>3. FileOf[u] \in Stored
  <2>1. Holds(up[u].session, FileOf[u]) /\ Parts(FileOf[u]) \subseteq sess[up[u].session].got
    BY <1>1 DEF TaskOK, TaskFine
  <2>2. sess[up[u].session].got = Parts(FileOf[u])
    BY <2>1 DEF SessOK, Holds
  <2> QED
    BY <2>1, <2>2, FileOfUploader DEF Stored, Holds
<1>4. up[u].status \in {"canceled", "preparing", "processing", "finishing"}
  BY <1>1, <1>2 DEF CardFine
<1>5. up[u].status = "canceled" => ~up[u].listed
  BY <1>2 DEF CardFine
<1>6. PhaseMoves(u)
  BY <1>1, <1>2, <1>3, <1>4, <1>5 DEF PhaseMoves, Phase
<1> QED
  BY <1>1, <1>6, OneMoves

LEMMA UserMoves ==
    ASSUME UploaderInv, Stored \subseteq Stored', NEW u \in Uploaders,
           \/ Retry(u) \/ Cancel(u)
           \/ \E by \in {"error", "cancel"} : DeleteSession(u, by)
    PROVE  Contract!Next
<1> USE DEF UploaderInv, Rest
<1>0. CardFine(u) /\ up[u] \in Task
  BY DEF CardOK, UTyped
<1>1. CASE Retry(u)
  <2>1. /\ Started(u) /\ Others(u) /\ up[u].status = "error" /\ up[u].listed
        /\ up'[u].listed = up[u].listed
    BY <1>1, RetryEffect
  <2>2. /\ Loading(u)' <=> Loading(u)
        /\ up'[u].status \in {"queued", "error"}
    BY <2>1 DEF Started, Doom, Loading
  <2>3. PhaseMoves(u)
    BY <2>1, <2>2 DEF PhaseMoves, Phase
  <2> QED
    BY <2>1, <2>3, OneMoves
<1>2. CASE Cancel(u)
  <2>1. /\ Others(u) /\ up[u].listed /\ "cancel" \notin up[u].dels
        /\ \/ ~up'[u].listed
           \/ /\ up[u].status # "finished" /\ up'[u].status = up[u].status
              /\ up'[u].listed = up[u].listed /\ "cancel" \in up'[u].dels
    BY <1>2, CancelEffect
  <2>2. Phase(u) \in {"waiting", "busy", "done", "failed", "hint"}
    BY <2>1 DEF Phase
  <2>3. CASE ~up'[u].listed
    <3>1. Phase(u)' = "none"
      BY <2>3 DEF Phase
    <3> QED
      BY <2>1, <2>2, <3>1, OneMoves DEF PhaseMoves
  <2>4. CASE /\ up[u].status # "finished" /\ up'[u].status = up[u].status
             /\ up'[u].listed = up[u].listed /\ "cancel" \in up'[u].dels
    <3>1. PhaseMoves(u)
      BY <2>1, <2>4 DEF PhaseMoves, Phase, Loading
    <3> QED
      BY <2>1, <3>1, OneMoves
  <2> QED
    BY <2>1, <2>3, <2>4
<1>3. ASSUME NEW by \in {"error", "cancel"}, DeleteSession(u, by)
      PROVE  Contract!Next
  <2>1. /\ Others(u) /\ up'[u].dels = up[u].dels \ {by}
        /\ \/ by = "cancel" /\ ~up'[u].listed
           \/ by = "error" /\ up'[u].status = up[u].status /\ up'[u].listed = up[u].listed
    BY <1>3, DeleteEffect
  <2>2. CASE by = "cancel" /\ ~up'[u].listed
    <3>1. Phase(u)' = "none"
      BY <2>2 DEF Phase
    <3>2. Phase(u) \in {"none", "waiting", "busy", "done", "failed", "hint"}
      BY DEF Phase
    <3>3. PhaseMoves(u)
      BY <3>1, <3>2 DEF PhaseMoves
    <3> QED
      BY <2>1, <3>3, OneMoves
  <2>3. CASE by = "error" /\ up'[u].status = up[u].status /\ up'[u].listed = up[u].listed
    BY <2>1, <2>3, QuietMoves
  <2> QED
    BY <2>1, <2>2, <2>3
<1> QED
  BY <1>1, <1>2, <1>3

LEMMA AddMoves ==
    ASSUME UploaderInv, Stored \subseteq Stored', NEW u \in Uploaders, AddTask(u)
    PROVE  Contract!Next
<1> USE DEF UploaderInv, Rest
<1>1. /\ Started(u) /\ up[u].status = "absent" /\ up'[u].listed = TRUE
      /\ \/ Others(u)
         \/ \E h \in Uploaders \ {u} :
               /\ up[h].status = "resumable" /\ up[h].listed /\ FileOf[h] = FileOf[u]
               /\ up'[h] = [up[h] EXCEPT !.listed = FALSE]
               /\ \A v \in Uploaders \ {u, h} : up'[v] = up[v]
  BY AddEffect
<1>2. ~up[u].listed /\ up[u].dels = {} /\ up[u].session = None
  <2>1. up[u] = NoTask
    BY <1>1 DEF CardOK, CardFine
  <2> QED
    BY <2>1 DEF NoTask
<1>3. up'[u].dels = {} /\ up'[u].status \in {"queued", "error"}
  BY <1>1, <1>2 DEF Started, Doom
<1>4. Phase(u) = "none" /\ Phase(u)' \in {"waiting", "failed"}
  BY <1>1, <1>2, <1>3 DEF Phase, Loading
<1>5. CASE Others(u)
  BY <1>4, <1>5, OneMoves DEF PhaseMoves
<1>6. ASSUME NEW h \in Uploaders \ {u},
             up[h].status = "resumable", up[h].listed, FileOf[h] = FileOf[u],
             up'[h] = [up[h] EXCEPT !.listed = FALSE],
             \A v \in Uploaders \ {u, h} : up'[v] = up[v]
      PROVE  Contract!Next
  <2>1. ~up'[h].listed
    BY <1>6 DEF UTyped, Task
  <2>2. Phase(h) = "hint" /\ Phase(h)' = "none"
    BY <1>6, <2>1 DEF Phase
  <2>3. \A v \in Uploaders \ {u, h} : Phase(v)' = Phase(v)
    BY <1>6 DEF Phase, Loading
  <2>4. PICK p \in {"waiting", "failed"} : p = Phase(u)'
    BY <1>4
  <2>5. Phases' = [Phases EXCEPT ![u] = p, ![h] = "none"]
    BY <2>2, <2>3, <2>4 DEF Phases
  <2>6. Phases[u] = "none" /\ Phases[h] = "hint"
    BY <1>4, <2>2 DEF Phases
  <2>7. Contract!Resume(u, h)
    BY <1>6, <2>5, <2>6 DEF Contract!Resume, Phases
  <2> QED
    BY <2>7 DEF Contract!Next, Phases, Stored
<1> QED
  BY <1>1, <1>5, <1>6

LEMMA PageMoves ==
    ASSUME UploaderInv, Stored \subseteq Stored', CleanupSessions \/ CleanFinished \/ Reload
    PROVE  Contract!Next
<1> USE DEF UploaderInv, Rest
<1>1. CASE CleanupSessions
  <2>1. ASSUME NEW u \in Uploaders
        PROVE  Phase(u)' = IF Phase(u) = "hint" THEN "none" ELSE Phase(u)
    <3>1. CASE up[u].status = "resumable"
      <4>1. up'[u] = [up[u] EXCEPT !.listed = FALSE] /\ up[u] \in Task
        BY <1>1, <3>1 DEF CleanupSessions, UTyped
      <4>2. ~up'[u].listed
        BY <4>1 DEF Task
      <4> QED
        BY <3>1, <4>2 DEF Phase
    <3>2. CASE up[u].status # "resumable"
      <4>1. up'[u] = up[u]
        BY <1>1, <3>2 DEF CleanupSessions
      <4>2. Phase(u)' = Phase(u)
        BY <4>1 DEF Phase, Loading
      <4>3. Phase(u) # "hint"
        BY <3>2 DEF Phase
      <4> QED
        BY <4>2, <4>3
    <3> QED
      BY <3>1, <3>2
  <2>2. Phases' = [u \in Uploaders |-> IF Phases[u] = "hint" THEN "none" ELSE Phases[u]]
    BY <2>1 DEF Phases
  <2> QED
    BY <2>2 DEF Contract!Next, Contract!Forget, Phases, Stored
<1>2. CASE CleanFinished
  <2> DEFINE gone == {u \in Uploaders : up[u].status \in Over /\ up[u].listed}
  <2>1. \A u \in gone : Phase(u) \in {"busy", "done", "failed"}
    BY DEF Phase, CardOK, CardFine, Over
  <2>2. ASSUME NEW u \in Uploaders
        PROVE  Phase(u)' = IF u \in gone THEN "none" ELSE Phase(u)
    <3>1. CASE up[u].status \in Over
      <4>1. up'[u] = [up[u] EXCEPT !.listed = FALSE] /\ up[u] \in Task
        BY <1>2, <3>1 DEF CleanFinished, UTyped
      <4>2. ~up'[u].listed
        BY <4>1 DEF Task
      <4> QED
        BY <3>1, <4>2 DEF Phase
    <3>2. CASE up[u].status \notin Over
      <4>1. up'[u] = up[u]
        BY <1>2, <3>2 DEF CleanFinished
      <4>2. Phase(u)' = Phase(u)
        BY <4>1 DEF Phase, Loading
      <4> QED
        BY <3>2, <4>2
    <3> QED
      BY <3>1, <3>2
  <2>3. Phases' = [u \in Uploaders |-> IF u \in gone THEN "none" ELSE Phases[u]]
    BY <2>2 DEF Phases
  <2>4. gone \in SUBSET {u \in Uploaders : Phases[u] \in {"busy", "done", "failed"}}
    BY <2>1 DEF Phases
  <2> HIDE DEF gone
  <2>5. Contract!Tidy
    BY <2>3, <2>4 DEF Contract!Tidy, Phases
  <2> QED
    BY <2>5 DEF Contract!Next, Phases, Stored
<1>3. CASE Reload
  <2>1. ASSUME NEW u \in Uploaders
        PROVE  Phase(u)' \in {"none", "hint"}
    <3>1. up'[u] = NoTask \/ up'[u].status = "resumable"
      BY <1>3, ReloadEffect
    <3>2. up'[u] = NoTask => ~up'[u].listed
      BY DEF NoTask
    <3> QED
      BY <3>1, <3>2 DEF Phase
  <2>2. Phases' \in [Uploaders -> {"none", "hint"}]
    BY <2>1 DEF Phases
  <2> QED
    BY <2>2 DEF Contract!Next, Contract!Reload, Phases, Stored
<1> QED
  BY <1>1, <1>2, <1>3

(* The cards of the list go the ways UploadContract allows, and those that *)
(* say done are of files the storage holds completely: the uploader        *)
(* implements the contract.                                                *)
THEOREM Kept == UploaderSpec => KeepsContract
<1>1. UploaderInit => Contract!Init
  <2> SUFFICES ASSUME UploaderInit
               PROVE  Contract!Init
    OBVIOUS
  <2>1. \A u \in Uploaders : Phase(u) = "none"
    BY DEF UploaderInit, NoTask, Phase
  <2>2. \A f, s : s \in Session => ~(sess[s].got = Parts(f))
    BY PartsFacts DEF UploaderInit, NoSession
  <2> QED
    BY <2>1, <2>2 DEF Contract!Init
<1>2. ASSUME UploaderInv, UploaderInv', [UploaderNext]_uploaderVars
      PROVE  Contract!Next
  <2>1. Stored \subseteq Stored'
    BY <1>2, UploaderGrows, StoredGrows DEF UStep
  <2>2. ASSUME up' = up
        PROVE  Contract!Next
    <3>1. \A u \in Uploaders : Phase(u)' = Phase(u)
      BY <2>2 DEF Phase, Loading
    <3> QED
      BY <2>1, <3>1, NobodyMoves
  <2>3. CASE CheckReturnsTask \/ UNCHANGED uploaderVars \/ (\E s \in Session : Expire(s))
    BY <2>2, <2>3 DEF CheckReturnsTask, uploaderVars, Expire
  <2>4. CASE CleanupSessions \/ CleanFinished \/ Reload
    BY <1>2, <2>1, <2>4, PageMoves
  <2>5. ASSUME NEW u \in Uploaders,
               \/ BeginTask(u) \/ RejectTask(u) \/ Created(u) \/ ChunkUploaded(u)
               \/ Progress(u) \/ CallDone(u) \/ Refused(u) \/ Lost(u) \/ Abort(u)
               \/ Complete(u) \/ AddTask(u) \/ Retry(u) \/ Cancel(u)
               \/ \E by \in {"error", "cancel"} : DeleteSession(u, by)
        PROVE  Contract!Next
    BY <1>2, <2>1, <2>5, TaskMoves, CompleteMoves, AddMoves, UserMoves
  <2> QED
    BY <1>2, <2>3, <2>4, <2>5 DEF UploaderNext, PageStep, Answered
<1> QED
  BY <1>1, <1>2, UploaderHolds, PTL DEF UploaderSpec, KeepsContract, Contract!Spec

=============================================================================
