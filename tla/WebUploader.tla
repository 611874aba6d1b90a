------------------------------ MODULE WebUploader ------------------------------
(***************************************************************************)
(* The uploader of the web client: the cards of the upload list, the task  *)
(* of each (core/uploader/base.ts) with its chunk loop (chunk.ts), the     *)
(* resume contexts in localStorage, the pool of UploadPool, and the server *)
(* as far as the client sees it.                                           *)
(*                                                                         *)
(* A task stops at every await; an action runs from the answer it waits    *)
(* for to the next await.  A request whose token has been cancelled and a  *)
(* task with nothing left to wait for go on in a microtask, before any     *)
(* other event: Idle.                                                      *)
(***************************************************************************)
EXTENDS UploadPool

CONSTANTS
    Uploaders,     \* task objects of one page; a subset of Items
    PolicyOf,      \* type of the storage policy of a file
    Allowed,       \* files that suffix and size limit of their policy allow
    Chunks,        \* 1 .. number of chunks of a file sent in chunks
    MaxSessions,   \* bound: upload sessions the server creates
    MaxFaults      \* bound: lost requests, expired sessions, reloads, and retries

Files == {FileOf[u] : u \in Uploaders}
Session == 1 .. MaxSessions
None == 0

\* What the policy types make of the base class: whether the file goes in
\* chunks, whether a failed upload may be resumed, how many requests complete
\* it, whether their errors are swallowed; and of the storage behind: whether it
\* takes chunks in order only, whether it completes an upload with parts missing.
LocalUploader == [chunked |-> TRUE, resumes |-> TRUE, calls |-> 0, swallows |-> FALSE,
                  ordered |-> TRUE, lenient |-> FALSE]
RemoteUploader == LocalUploader
OneDriveUploader == [LocalUploader EXCEPT !.calls = 1]
OSSUploader == [LocalUploader EXCEPT !.calls = 1, !.ordered = FALSE, !.lenient = TRUE]
QiniuUploader == [LocalUploader EXCEPT !.calls = 1, !.ordered = FALSE]
S3Uploader == [LocalUploader EXCEPT !.calls = 2, !.ordered = FALSE]
UpyunUploader == [LocalUploader EXCEPT !.chunked = FALSE, !.resumes = FALSE]
COSUploader == [UpyunUploader EXCEPT !.calls = 1, !.swallows = TRUE]

Policy == [local |-> LocalUploader, remote |-> RemoteUploader,
           onedrive |-> OneDriveUploader, oss |-> OSSUploader, qiniu |-> QiniuUploader,
           s3 |-> S3Uploader, upyun |-> UpyunUploader, cos |-> COSUploader]

ASSUME UploaderAssumption ==
    /\ Uploaders \subseteq Items
    /\ \A f \in Files : PolicyOf[f] \in DOMAIN Policy
    /\ IsFiniteSet(Chunks) /\ Chunks # {} /\ Chunks = 1 .. Cardinality(Chunks)
    /\ MaxSessions \in Nat /\ MaxFaults \in Nat

VARIABLES
    up,         \* the task objects with their cards
    ctx,        \* localStorage: the resume context of each file
    sess,       \* the upload sessions of the server
    faults

uploaderVars == <<up, ctx, sess, faults, poolVars>>

P(u) == Policy[PolicyOf[FileOf[u]]]
Parts(f) == IF Policy[PolicyOf[f]].chunked THEN Chunks ELSE {1}

Status == {"absent", "resumable", "queued", "preparing", "processing", "finishing",
           "finished", "error", "canceled"}
Task == [status : Status,
         at : {"idle", "create", "chunk", "finish"},   \* the request it awaits
         n : Nat,                                      \* which chunk, which call
         session : Session \cup {None},
         live : BOOLEAN,                               \* the token is not cancelled
         sent : SUBSET Chunks,                         \* chunkProgress: loaded in full
         dels : SUBSET {"error", "cancel"},            \* deletions behind their delay
         gone : SUBSET Session,                        \* sessions it has had deleted
         listed : BOOLEAN,                             \* the card is on the list
         rushed : BOOLEAN]                             \* restarted with a deletion pending

NoTask == [status |-> "absent", at |-> "idle", n |-> 0, session |-> None, live |-> TRUE,
           sent |-> {}, dels |-> {}, gone |-> {}, listed |-> FALSE, rushed |-> FALSE]
NoCtx == [session |-> None, sent |-> {}]
NoSession == [file |-> CHOOSE f \in Files : TRUE, state |-> "none", got |-> {}, fin |-> 0]

UploaderInit ==
    /\ PoolInit
    /\ up = [u \in Uploaders |-> NoTask]
    /\ ctx = [f \in Files |-> NoCtx]
    /\ sess = [s \in Session |-> NoSession]
    /\ faults = 0

-----------------------------------------------------------------------------
(* The server, as the requests of the client see it.                       *)

Taken(f) == \E s \in Session : sess[s].file = f /\ sess[s].state \in {"live", "done"}
Free == {s \in Session : sess[s].state = "none"}
NewSession == CHOOSE s \in Free : \A r \in Free : s <= r

\* Does the server accept the request that u is waiting for ...
Accepts(u) ==
    LET s == sess[up[u].session] n == up[u].n IN
    CASE up[u].at = "create" -> ~Taken(FileOf[u]) /\ Free # {}
      [] up[u].at = "chunk" ->
           s.state = "live" /\ (P(u).ordered => 1 .. (n - 1) \subseteq s.got)
      [] OTHER ->
           s.state = "live" /\ s.fin = n - 1
           /\ (P(u).lenient \/ s.got = Parts(FileOf[u]))

\* ... and what it then does.
Served(u) ==
    LET id == up[u].session n == up[u].n f == FileOf[u] IN
    CASE up[u].at = "create" ->
           [sess EXCEPT ![NewSession] = [NoSession EXCEPT !.file = f, !.state = "live"]]
      [] up[u].at = "chunk" ->
           [sess EXCEPT ![id].got = @ \cup {n},
                        ![id].state = IF P(u).calls = 0 /\ Parts(f) \subseteq sess[id].got \cup {n}
                                      THEN "done" ELSE @]
      [] OTHER ->
           [sess EXCEPT ![id].fin = n, ![id].state = IF n = P(u).calls THEN "done" ELSE @]

\* A request that is lost on its way there or on its way back.
MaybeServed(u) == sess' = sess \/ (Accepts(u) /\ sess' = Served(u))

-----------------------------------------------------------------------------
(* Helpers of the task.                                                    *)

Awaits(u) == up[u].at # "idle" /\ ~(up[u].at = "finish" /\ up[u].n > P(u).calls)
Idle == Returned /\ \A u \in Uploaders : up[u].at = "idle" \/ (Awaits(u) /\ up[u].live)
Loading(u) == "cancel" \in up[u].dels

\* getResumeCtx: an expired session is as good as none.
Cached(f) ==
    IF ctx[f] # NoCtx /\ sess[ctx[f].session].state # "expired" THEN ctx[f] ELSE NoCtx

\* The loop over the chunks, up to its next await: the first chunk that is not
\* loaded, or what completes the upload.
Proceed(t, u, sent) ==
    LET missing == Parts(FileOf[u]) \ sent IN
    IF missing # {}
    THEN [t EXCEPT !.sent = sent, !.at = "chunk", !.status = "processing",
                   !.n = CHOOSE i \in missing : \A j \in missing : i <= j]
    ELSE [t EXCEPT !.sent = sent, !.at = "finish", !.n = 1,
                   !.status = IF P(u).calls > 0 THEN "finishing" ELSE "processing"]

\* setResumeCtx, which only warns when localStorage is full.
Save(u, session, sent) ==
    \/ P(u).chunked /\ ctx' = [ctx EXCEPT ![FileOf[u]] = [session |-> session, sent |-> sent]]
    \/ ctx' = ctx

\* Seeded fault: the session is deleted and its resume context is kept.
CancelSessionKeepingCtx(u, t, by) ==
    /\ ctx' = ctx
    /\ up' = [up EXCEPT ![u] = IF t.session = None THEN t
                               ELSE [t EXCEPT !.dels = @ \cup {by}]]

\* cancelUploadSession: forget the context now, delete the session later.
CancelSession(u, t, by) ==
    /\ ctx' = [ctx EXCEPT ![FileOf[u]] = NoCtx]
    /\ up' = [up EXCEPT ![u] = IF t.session = None THEN t
                               ELSE [t EXCEPT !.dels = @ \cup {by}]]

\* setError: only a retryable error of a policy that resumes leaves the session.
SetError(u, retryable) ==
    LET t == [up[u] EXCEPT !.at = "idle", !.n = 0, !.status = "error"] IN
    IF retryable /\ P(u).resumes THEN up' = [up EXCEPT ![u] = t] /\ ctx' = ctx
    ELSE CancelSession(u, t, "error")

-----------------------------------------------------------------------------
(* Events of the user.                                                     *)

\* start(): validate, then wait in the pool.
Start(u, t) ==
    IF FileOf[u] \in Allowed
    THEN /\ Enqueue(u)
         /\ up' = [t EXCEPT ![u].status = "queued"]
         /\ UNCHANGED ctx
    ELSE /\ up' = [t EXCEPT ![u].status = "error",
                            ![u].dels = IF t[u].session = None THEN @ ELSE @ \cup {"error"}]
         /\ ctx' = [ctx EXCEPT ![FileOf[u]] = NoCtx]
         /\ UNCHANGED poolVars

\* A file is selected or dropped, perhaps to resume a hint of the same key.
AddTask(u) ==
    /\ Idle /\ up[u].status = "absent"
    /\ LET new == [up EXCEPT ![u].listed = TRUE] IN
       \/ Start(u, new)
       \/ \E h \in Uploaders \ {u} :
            /\ up[h].status = "resumable" /\ up[h].listed /\ FileOf[h] = FileOf[u]
            /\ Start(u, [new EXCEPT ![h].listed = FALSE])
    /\ UNCHANGED <<sess, faults>>

\* Retry of a card, and retryFailed of the list: reset() and start().
Retry(u) ==
    /\ faults < MaxFaults /\ faults' = faults + 1
    /\ Idle /\ up[u].status = "error" /\ up[u].listed
    /\ Start(u, [up EXCEPT ![u].live = TRUE,
                           ![u].rushed = @ \/ up[u].dels # {}])
    /\ UNCHANGED sess

\* Seeded fault: the session is given up and the request goes on.
CancelKeepingRequest(u) ==
    /\ Idle /\ up[u].listed /\ ~Loading(u)
    /\ IF up[u].status = "finished"
       THEN up' = [up EXCEPT ![u].listed = FALSE] /\ UNCHANGED ctx
       ELSE CancelSession(u, IF up[u].session # None THEN up[u]
                             ELSE [up[u] EXCEPT !.status = "canceled", !.listed = FALSE],
                          "cancel")
    /\ UNCHANGED <<sess, faults, poolVars>>

\* cancel(), behind which the card goes away.
Cancel(u) ==
    /\ Idle /\ up[u].listed /\ ~Loading(u)
    /\ IF up[u].status = "finished"
       THEN up' = [up EXCEPT ![u].listed = FALSE] /\ UNCHANGED ctx
       ELSE LET t == [up[u] EXCEPT !.live = FALSE] IN
            CancelSession(u, IF t.session # None THEN t
                             ELSE [t EXCEPT !.status = "canceled", !.listed = FALSE],
                          "cancel")
    /\ UNCHANGED <<sess, faults, poolVars>>

\* The deletion of cancel() has been answered: the card goes.
Resolved(t, by, gone) ==
    IF by = "cancel"
    THEN [t EXCEPT !.dels = @ \ {by}, !.gone = gone, !.status = "canceled", !.listed = FALSE]
    ELSE [t EXCEPT !.dels = @ \ {by}, !.gone = gone]

\* Seeded fault: only a deletion that succeeds resolves the promise of cancel.
DeleteSessionUnresolved(u, by) ==
    /\ Idle /\ by \in up[u].dels
    /\ LET s == up[u].session IN
       \/ /\ sess' = sess
          /\ up' = [up EXCEPT ![u].dels = @ \ {by}]
       \/ /\ sess[s].state = "live"
          /\ sess' = [sess EXCEPT ![s].state = "deleted"]
          /\ up' = [up EXCEPT ![u] = Resolved(@, by, @.gone \cup {s})]
    /\ UNCHANGED <<ctx, faults, poolVars>>

\* The delay of cancelUploadSession is over: the session the task has by now is
\* deleted; an error is logged only.
DeleteSession(u, by) ==
    /\ Idle /\ by \in up[u].dels
    /\ LET s == up[u].session IN
       \/ /\ sess' = sess
          /\ up' = [up EXCEPT ![u] = Resolved(@, by, @.gone)]
       \/ /\ sess[s].state = "live"
          /\ sess' = [sess EXCEPT ![s].state = "deleted"]
          /\ up' = [up EXCEPT ![u] = Resolved(@, by, @.gone \cup {s})]
    /\ UNCHANGED <<ctx, faults, poolVars>>

\* cleanupSessions: removing keys while counting through them passes over some;
\* the server deletes every session of the user, and the hints go away.
CleanupSessions ==
    LET held == {f \in Files : ctx[f] # NoCtx} IN
    /\ Idle
    /\ \E kept \in SUBSET held :
         /\ kept # held
         /\ ctx' = [f \in Files |-> IF f \in kept THEN ctx[f] ELSE NoCtx]
    /\ sess' = [s \in Session |-> IF sess[s].state = "live"
                                  THEN [sess[s] EXCEPT !.state = "deleted"] ELSE sess[s]]
    /\ up' = [u \in Uploaders |-> IF up[u].status = "resumable"
                                  THEN [up[u] EXCEPT !.listed = FALSE] ELSE up[u]]
    /\ UNCHANGED <<faults, poolVars>>

\* cleanFinished takes the cards off the list whose tasks have come to an end, failures
\* with their deletions pending included.
Over == {"finished", "error", "canceled"}
CleanFinished ==
    /\ Idle /\ \E u \in Uploaders : up[u].listed /\ up[u].status \in Over
    /\ up' = [u \in Uploaders |-> IF up[u].status \in Over
                                  THEN [up[u] EXCEPT !.listed = FALSE] ELSE up[u]]
    /\ UNCHANGED <<ctx, sess, faults, poolVars>>

\* The page is left and loaded again: tasks, timers and requests are gone, at most
\* one request on its way is still served; what has a first chunk comes back as a
\* hint that carries its session.
Reload ==
    /\ faults < MaxFaults /\ faults' = faults + 1
    /\ Idle
    /\ sess' = sess \/ \E u \in Uploaders : Awaits(u) /\ MaybeServed(u)
    /\ up' = [u \in Uploaders |->
                LET f == FileOf[u] IN
                IF u = (CHOOSE v \in Uploaders : FileOf[v] = f) /\ 1 \in Cached(f).sent
                THEN [NoTask EXCEPT !.status = "resumable", !.listed = TRUE,
                                    !.session = ctx[f].session, !.sent = ctx[f].sent]
                ELSE NoTask]
    /\ queue' = <<>> /\ processing' = {} /\ running' = {} /\ frames' = <<>>
    /\ UNCHANGED <<ctx, limit, raised>>

-----------------------------------------------------------------------------
(* The task in the pool.                                                   *)

\* run(): resume from the context, or ask for a session.
BeginTask(u) ==
    /\ Run(u)
    /\ LET c == Cached(FileOf[u]) IN
       IF c = NoCtx
       THEN /\ up' = [up EXCEPT ![u].status = "preparing", ![u].at = "create"]
            /\ ctx' = [ctx EXCEPT ![FileOf[u]] = NoCtx]
       ELSE /\ up' = [up EXCEPT ![u] = Proceed([@ EXCEPT !.session = c.session], u, c.sent)]
            /\ UNCHANGED ctx
    /\ UNCHANGED <<sess, faults>>

RejectTask(u) ==
    /\ Reject(u)
    /\ SetError(u, TRUE)
    /\ UNCHANGED <<sess, faults>>

CheckReturnsTask ==
    CheckReturns /\ UNCHANGED <<up, ctx, sess, faults>>

\* Seeded fault: the progress of an earlier attempt is kept for the new session.
CreatedKeepingProgress(u) ==
    /\ Idle /\ up[u].at = "create" /\ Accepts(u)
    /\ sess' = Served(u)
    /\ up' = [up EXCEPT ![u] = Proceed([@ EXCEPT !.session = NewSession], u, up[u].sent)]
    /\ Save(u, NewSession, up[u].sent)
    /\ UNCHANGED <<faults, poolVars>>

\* The answer with the session.  Progress starts afresh when there is no context.
Created(u) ==
    /\ Idle /\ up[u].at = "create" /\ Accepts(u)
    /\ sess' = Served(u)
    /\ LET sent == IF Cached(FileOf[u]) = NoCtx THEN {} ELSE up[u].sent IN
       /\ up' = [up EXCEPT ![u] = Proceed([@ EXCEPT !.session = NewSession], u, sent)]
       /\ Save(u, NewSession, sent)
    /\ UNCHANGED <<faults, poolVars>>

\* Seeded fault: progress is saved as it is reported.
ProgressSaved(u) ==
    /\ Idle /\ up[u].at = "chunk" /\ P(u).chunked /\ up[u].n \notin up[u].sent
    /\ up' = [up EXCEPT ![u].sent = @ \cup {up[u].n}]
    /\ Save(u, up[u].session, up[u].sent \cup {up[u].n})
    /\ UNCHANGED <<sess, faults, poolVars>>

\* onUploadProgress: the bytes have left the browser, no more.
Progress(u) ==
    /\ Idle /\ up[u].at = "chunk" /\ P(u).chunked /\ up[u].n \notin up[u].sent
    /\ up' = [up EXCEPT ![u].sent = @ \cup {up[u].n}]
    /\ UNCHANGED <<ctx, sess, faults, poolVars>>

ChunkUploaded(u) ==
    /\ Idle /\ up[u].at = "chunk" /\ Accepts(u)
    /\ sess' = Served(u)
    /\ LET sent == up[u].sent \cup {up[u].n} IN
       /\ up' = [up EXCEPT ![u] = Proceed(@, u, sent)]
       /\ Save(u, up[u].session, sent)
    /\ UNCHANGED <<faults, poolVars>>

\* One of the requests of afterUpload.
CallDone(u) ==
    /\ Idle /\ up[u].at = "finish" /\ Accepts(u)
    /\ sess' = Served(u)
    /\ up' = [up EXCEPT ![u].n = @ + 1]
    /\ UNCHANGED <<ctx, faults, poolVars>>

\* The request fails: the promise of run() is rejected, the place released.
Fail(u, retryable) ==
    IF up[u].at = "finish" /\ P(u).swallows
    THEN up' = [up EXCEPT ![u].n = @ + 1] /\ UNCHANGED <<ctx, poolVars>>
    ELSE Release(u) /\ SetError(u, retryable)

Refused(u) ==
    /\ Idle /\ Awaits(u) /\ ~Accepts(u)
    /\ Fail(u, FALSE)
    /\ UNCHANGED <<sess, faults>>

Lost(u) ==
    /\ faults < MaxFaults /\ faults' = faults + 1
    /\ Idle /\ Awaits(u)
    /\ MaybeServed(u)
    /\ Fail(u, TRUE)

\* The token has been cancelled: the request is rejected with RequestCanceledError,
\* which is retryable, and after which the status stays as it is.
Abort(u) ==
    /\ Returned /\ Awaits(u) /\ ~up[u].live
    /\ MaybeServed(u)
    /\ IF up[u].at = "finish" /\ P(u).swallows
       THEN up' = [up EXCEPT ![u].n = @ + 1] /\ UNCHANGED <<ctx, poolVars>>
       ELSE /\ Release(u)
            /\ LET t == [up[u] EXCEPT !.at = "idle", !.n = 0] IN
               IF P(u).resumes THEN up' = [up EXCEPT ![u] = t] /\ UNCHANGED ctx
               ELSE CancelSession(u, t, "error")
    /\ UNCHANGED <<faults>>

\* Nothing is left to wait for.
Complete(u) ==
    /\ Returned /\ up[u].at = "finish" /\ ~Awaits(u)
    /\ up' = [up EXCEPT ![u].at = "idle", ![u].n = 0, ![u].status = "finished"]
    /\ ctx' = [ctx EXCEPT ![FileOf[u]] = NoCtx]
    /\ Release(u)
    /\ UNCHANGED <<sess, faults>>

\* The session expires, for the server and in the context alike.
Expire(s) ==
    /\ faults < MaxFaults /\ faults' = faults + 1
    /\ Idle /\ sess[s].state = "live"
    /\ sess' = [sess EXCEPT ![s].state = "expired"]
    /\ UNCHANGED <<up, ctx, poolVars>>

-----------------------------------------------------------------------------
Answered(u) == Created(u) \/ ChunkUploaded(u) \/ CallDone(u) \/ Refused(u) \/ Lost(u)

PageStep ==
    \/ CheckReturnsTask
    \/ \E u \in Uploaders : BeginTask(u) \/ RejectTask(u) \/ Abort(u) \/ Complete(u)

UploaderNext ==
    \/ PageStep
    \/ \E u \in Uploaders :
         \/ AddTask(u) \/ Retry(u) \/ Cancel(u)
         \/ \E by \in {"error", "cancel"} : DeleteSession(u, by)
         \/ Progress(u) \/ Answered(u)
    \/ CleanupSessions \/ CleanFinished
    \/ Reload
    \/ \E s \in Session : Expire(s)

UploaderSpec == UploaderInit /\ [][UploaderNext]_uploaderVars

-----------------------------------------------------------------------------
UploaderTypeOK ==
    /\ PoolTypeOK
    /\ up \in [Uploaders -> Task]
    /\ ctx \in [Files -> [session : Session \cup {None}, sent : SUBSET Chunks]]
    /\ sess \in [Session -> [file : Files, got : SUBSET Chunks, fin : Nat,
                 state : {"none", "live", "done", "deleted", "expired"}]]
    /\ faults \in Nat

(* A card that says finished is right: the storage holds every part of the  *)
(* file, and the upload has been completed on the server (of COS, whose     *)
(* callback may fail unnoticed, only the first) - over retries, resumed     *)
(* sessions, cleared contexts and reloads, and for storages that would      *)
(* complete an upload with parts missing.                                   *)
FinishedUploaded ==
    \A u \in Uploaders : up[u].status = "finished" =>
        LET s == sess[up[u].session] IN
        s.got = Parts(FileOf[u]) /\ (s.state = "done" \/ P(u).swallows)

(* What a resume context claims to have been sent the server has received, *)
(* in the session the context names, which is one of that very file.       *)
CtxTruthful ==
    \A f \in Files : ctx[f] # NoCtx =>
        sess[ctx[f].session].file = f /\ ctx[f].sent \subseteq sess[ctx[f].session].got

(* A card that is gone sends nothing more: its token is cancelled, wherever *)
(* its task was - in the queue too - unless it was restarted while cancel() *)
(* was waiting.                                                             *)
RemovedIsQuiet ==
    \A u \in Uploaders :
        ~up[u].listed /\ up[u].at # "idle" => ~up[u].live \/ up[u].rushed

(* A task never uploads into a session it has deleted itself, unless it was *)
(* restarted within the delay before a deletion.                            *)
NoSelfDelete ==
    \A u \in Uploaders :
        Idle /\ up[u].at \in {"chunk", "finish"} /\ ~up[u].rushed =>
            up[u].session \notin up[u].gone

\* What the card of a task shows to its user.
Phase(u) ==
    IF ~up[u].listed THEN "none"
    ELSE IF up[u].status = "resumable" THEN "hint"
    ELSE IF Loading(u) THEN "busy"
    ELSE CASE up[u].status = "queued" -> "waiting"
           [] up[u].status = "finished" -> "done"
           [] up[u].status = "error" -> "failed"
           [] OTHER -> "busy"

(* A card that shows an upload waiting or busy has somebody to move it on:  *)
(* a request that will be answered or fail, a deletion behind its delay, or *)
(* a place in the queue with an upload before it that will wake it.  Nobody *)
(* else looks after it: no card stays busy for ever.                        *)
CardsServed ==
    Idle => \A u \in Uploaders : Phase(u) \in {"waiting", "busy"} =>
        \/ up[u].at # "idle" \/ Loading(u)
        \/ up[u].status = "queued" /\ u \in Queued /\ running # {}

Contract ==
    INSTANCE UploadContract WITH
        Cards <- Uploaders, File <- FileOf,
        phase <- [u \in Uploaders |-> Phase(u)],
        stored <- {f \in Files : \E s \in Session : sess[s].file = f /\ sess[s].got = Parts(f)}

(* The cards keep the contract of UploadContract.                          *)
KeepsContract == Contract!Spec
=============================================================================
