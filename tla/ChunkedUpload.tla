---------------------------- MODULE ChunkedUpload ----------------------------
(***************************************************************************)
(* Chunked upload to a policy of type "local", on the master node, and     *)
(* everything that touches the same file while it is being uploaded:       *)
(* CreateUploadSession, LocalUpload with its hooks, the goroutine that     *)
(* watches for a client that hangs up, FileSystem.Delete, the cron job     *)
(* that collects abandoned placeholders, and a restart of the server.      *)
(*                                                                         *)
(* One user uploads; a step is one cache call, one statement or            *)
(* transaction of the database, or one use of the file system (opening a   *)
(* file for a chunk, with the cut that may go with it, counts as one).  The *)
(* row of an upload is identified by its session: the session key is fresh *)
(* and a session inserts at most one row.  Save paths are taken to be      *)
(* different for different sessions, as they are under the default naming  *)
(* rule, which contains a random key.                                      *)
(***************************************************************************)
EXTENDS Integers, Sequences, FiniteSets, Functions

CONSTANTS
    Session,      \* upload sessions that may ever be created
    Name,         \* [Session -> folder and file name the client asks for]
    Size,         \* [Session -> number of bytes the client declares]
    Request,      \* goroutines serving create and chunk requests
    Deleter,      \* goroutines serving delete requests
    Cron,         \* the goroutine of cron_recycle_upload_session
    ChunkSize,    \* Policy.OptionsSerialized.ChunkSize, 0: no chunks
    MaxFileSize,  \* Policy.MaxSize
    Quota,        \* User.Group.MaxStorage
    MaxIndex,     \* bound: largest chunk index a client sends
    Overlap,      \* FALSE: no two agents work on one session at a time
    MaxCuts,      \* bound: request bodies cut short, files that resist removal
    MaxTxFails,   \* bound: database transactions that fail
    MaxCancels,   \* bound: clients that hang up on a running request
    MaxRestarts,  \* bound: restarts of the server
    NoRow, NoBlob, Idle

ASSUME SizesAssumption ==
    /\ ChunkSize \in Nat /\ MaxFileSize \in Nat /\ Quota \in Nat
    /\ Size \in [Session -> 0 .. MaxFileSize]
ASSUME AgentsAssumption ==
    IsFiniteSet(Request) /\ Request # {} /\ Cron \notin Deleter
ASSUME MarkersAssumption ==
    /\ NoBlob \notin Seq(Int)
    /\ NoRow \notin [size : Nat, pending : BOOLEAN]
    /\ Idle \notin [at : STRING, todo : SUBSET Session,
                     found : SUBSET Session, sizes : [Session -> Nat]]
ASSUME BoundsAssumption ==
    /\ MaxIndex \in Nat /\ Overlap \in BOOLEAN
    /\ MaxCuts \in Nat /\ MaxTxFails \in Nat
    /\ MaxCancels \in Nat /\ MaxRestarts \in Nat

VARIABLES
    row,      \* the files table: size, and whether upload_session_id is set
    storage,  \* users.storage, the capacity the user is charged for
    blob,     \* the physical file, as the sequence of its bytes
    cached,   \* sessions in the session cache and not expired
    req,      \* what each request goroutine is about to do
    del,      \* what each delete request and the cron job is about to do
    hangups,  \* truncations that CancelUpload goroutines have yet to do
    issued,   \* session keys already issued
    asked,    \* sessions whose file the user asked to delete
    budget    \* faults that may still happen

vars == <<row, storage, blob, cached, req, del, hangups, issued, asked, budget>>
-----------------------------------------------------------------------------
(* Chunks.  Byte k of the file that the client sends is written k, so that *)
(* a blob shows which bytes of the file it holds; a hole left by truncating *)
(* beyond the end reads as Hole.                                            *)

Start(i) == i * ChunkSize
IsLastChunk(s, i) == ChunkSize = 0 \/ Start(i + 1) >= Size[s]
\* Seeded fault: the last chunk is taken to be as long as the others.
ChunkLenUnclipped(s, i) == ChunkSize
ChunkLen(s, i) == IF IsLastChunk(s, i) THEN Size[s] - Start(i) ELSE ChunkSize
End(s, i) == Start(i) + ChunkLen(s, i)

Hole == -1
Slice(from, n) == [k \in 1 .. n |-> from + k - 1]
Resize(data, n) ==
    [k \in 1 .. n |-> IF k \in 1 .. Len(data) THEN data[k] ELSE Hole]

(* Rows and quota. *)
Exists(s) == row[s] # NoRow
Pending(s) == Exists(s) /\ row[s].pending
Finished(s) == Exists(s) /\ ~row[s].pending
\* Seeded fault: what is already used is left out of the check.
HasCapacityIgnoringUsed(n) == Quota >= n
HasCapacity(n) == (IF Quota <= storage THEN 0 ELSE Quota - storage) >= n

(* Who works on a session.  With Overlap = FALSE agents wait for each other, *)
(* as the uploader of the web client does for its own requests.             *)
Agents == Deleter \cup {Cron}
ReqIdle(r) == req[r].at = "idle"
Busy(s) == \/ \E r \in Request : ~ReqIdle(r) /\ req[r].s = s
           \/ \E d \in Agents : del[d] # Idle /\ s \in del[d].todo \cup del[d].found
           \/ \E h \in hangups : h.s = s
Free(s) == Overlap \/ ~Busy(s)

Quiet == [at |-> "idle"]
Goto(r, at) == req' = [req EXCEPT ![r].at = at]
Leave(r) == req' = [req EXCEPT ![r] = Quiet]
Spend(b) == budget[b] > 0 /\ budget' = [budget EXCEPT ![b] = @ - 1]

\* Seeded fault: the whole new size is charged, not what has been added.
UpdateSizeChargingAll(s, known, value) ==
    /\ row' = IF Exists(s) /\ row[s].size = known
                THEN [row EXCEPT ![s].size = value]
                ELSE row
    /\ storage' = storage + value

(* File.UpdateSize: the row changes only if it still has the size the       *)
(* request has read, and the user is charged in either case.                *)
UpdateSize(s, known, value) ==
    /\ row' = IF Exists(s) /\ row[s].size = known
                THEN [row EXCEPT ![s].size = value]
                ELSE row
    /\ storage' = storage + (value - known)
-----------------------------------------------------------------------------
(* CreateUploadSession *)

(* Size and capacity are validated against the user the request has loaded. *)
(* A request refused here has changed nothing.                              *)
BeginCreate(r, s) ==
    /\ ReqIdle(r) /\ s \notin issued
    /\ Size[s] <= MaxFileSize
    /\ HasCapacity(Size[s])
    /\ issued' = issued \cup {s}
    /\ req' = [req EXCEPT ![r] = [at |-> "insert", s |-> s, i |-> 0, size |-> 0]]
    /\ UNCHANGED <<row, storage, blob, cached, del, hangups, asked, budget>>

(* The placeholder of a local policy has size 0: it reserves nothing.       *)
(* The unique index on name, owner and folder turns a duplicate away.       *)
InsertPlaceholder(r) ==
    /\ req[r].at = "insert"
    /\ LET s == req[r].s IN
        IF \E t \in Session : Exists(t) /\ Name[t] = Name[s]
          THEN Leave(r) /\ UNCHANGED row
          ELSE /\ row' = [row EXCEPT ![s] = [size |-> 0, pending |-> TRUE]]
               /\ Goto(r, "register")
    /\ UNCHANGED <<storage, blob, cached, del, hangups, issued, asked, budget>>

(* The transaction is rolled back, and no hook is there to react to it.     *)
InsertPlaceholderFails(r) ==
    /\ req[r].at = "insert"
    /\ Spend("txFails")
    /\ Leave(r)
    /\ UNCHANGED <<row, storage, blob, cached, del, hangups, issued, asked>>

RegisterSession(r) ==
    /\ req[r].at = "register"
    /\ cached' = cached \cup {req[r].s}
    /\ Leave(r)
    /\ UNCHANGED <<row, storage, blob, del, hangups, issued, asked, budget>>
-----------------------------------------------------------------------------
(* LocalUpload and processChunkUpload *)

(* The user was loaded by the middleware, so the capacity check that the    *)
(* BeforeUpload hook makes later already has its answer here.               *)
BeginChunk(r, s, i) ==
    /\ ReqIdle(r) /\ s \in cached /\ Free(s)
    /\ ChunkSize = 0 => i = 0
    /\ Start(i) <= Size[s]      \* else the expected Content-Length wraps
    /\ HasCapacity(ChunkLen(s, i))
    /\ req' = [req EXCEPT ![r] = [at |-> "lookup", s |-> s, i |-> i, size |-> 0]]
    /\ UNCHANGED <<row, storage, blob, cached, del, hangups, issued, asked, budget>>

(* The placeholder is read once; its size is what UpdateSize compares with. *)
LookupPlaceholder(r) ==
    /\ req[r].at = "lookup"
    /\ LET s == req[r].s IN
        IF Pending(s) /\ row[s].size >= Start(req[r].i)
          THEN req' = [req EXCEPT
                         ![r].at = IF req[r].i = 0 THEN "check" ELSE "open",
                         ![r].size = row[s].size]
          ELSE Leave(r)
    /\ UNCHANGED <<row, storage, blob, cached, del, hangups, issued, asked, budget>>

(* The first chunk is not written in Overwrite mode. *)
CheckNotExists(r) ==
    /\ req[r].at = "check"
    /\ IF blob[req[r].s] = NoBlob THEN Goto(r, "open") ELSE Leave(r)
    /\ UNCHANGED <<row, storage, blob, cached, del, hangups, issued, asked, budget>>

\* Seeded fault: what an earlier attempt has left in the file is not cut off.
OpenBlobKeepingTail(r) ==
    /\ req[r].at = "open"
    /\ LET s == req[r].s
           data == IF blob[s] = NoBlob THEN <<>> ELSE blob[s]
       IN blob' = [blob EXCEPT ![s] = data]
    /\ Goto(r, "write")
    /\ UNCHANGED <<row, storage, cached, del, hangups, issued, asked, budget>>

(* Open for append, creating the file if need be; too short is an error,    *)
(* too long is cut back to the start of this chunk.                         *)
OpenBlob(r) ==
    /\ req[r].at = "open"
    /\ LET s == req[r].s
           data == IF blob[s] = NoBlob THEN <<>> ELSE blob[s]
       IN IF Len(data) < Start(req[r].i)
            THEN blob' = [blob EXCEPT ![s] = data] /\ Leave(r)
            ELSE /\ blob' = [blob EXCEPT ![s] = Resize(data, Start(req[r].i))]
                 /\ Goto(r, "write")
    /\ UNCHANGED <<row, storage, cached, del, hangups, issued, asked, budget>>

(* io.Copy appends to the open file.  A request that stands at "writeGone"  *)
(* holds a file that has lost its name: nothing of what it writes is kept.  *)
AppendChunk(r, n) ==
    /\ req[r].at \in {"write", "writeGone"}
    /\ blob' = IF req[r].at = "writeGone" THEN blob
               ELSE [blob EXCEPT ![req[r].s] = @ \o Slice(Start(req[r].i), n)]

WriteChunk(r) ==
    /\ ~ReqIdle(r)
    /\ AppendChunk(r, ChunkLen(req[r].s, req[r].i))
    /\ Goto(r, "charge")
    /\ UNCHANGED <<row, storage, cached, del, hangups, issued, asked, budget>>

(* The request body ends early: what arrived stays in the file, and no hook *)
(* is registered for AfterUploadFailed.                                     *)
WritePartOfChunk(r) ==
    /\ ~ReqIdle(r)
    /\ Spend("cuts")
    /\ \E n \in 0 .. ChunkLen(req[r].s, req[r].i) - 1 : AppendChunk(r, n)
    /\ Leave(r)
    /\ UNCHANGED <<row, storage, cached, del, hangups, issued, asked>>

(* HookChunkUploaded *)
ChargeChunk(r) ==
    /\ req[r].at = "charge"
    /\ LET s == req[r].s
           i == req[r].i
       IN /\ UpdateSize(s, req[r].size, End(s, i))
          /\ IF IsLastChunk(s, i)
               THEN req' = [req EXCEPT ![r].at = "promote", ![r].size = End(s, i)]
               ELSE Leave(r)
    /\ UNCHANGED <<blob, cached, del, hangups, issued, asked, budget>>

(* A statement fails, or the commit, after file.Size has been assigned: the *)
(* request then takes the size for one that the row does not have.          *)
ChargeChunkFails(r) ==
    /\ req[r].at = "charge"
    /\ Spend("txFails")
    /\ \E known \in {req[r].size, End(req[r].s, req[r].i)} :
         req' = [req EXCEPT ![r].at = "truncate", ![r].size = known]
    /\ UNCHANGED <<row, storage, blob, cached, del, hangups, issued, asked>>

(* HookPopPlaceholderToFile: upload_session_id becomes NULL, whatever size  *)
(* the row has.                                                             *)
PromotePlaceholder(r) ==
    /\ req[r].at = "promote"
    /\ row' = IF Exists(req[r].s) THEN [row EXCEPT ![req[r].s].pending = FALSE]
                                  ELSE row
    /\ Goto(r, "unregister")
    /\ UNCHANGED <<storage, blob, cached, del, hangups, issued, asked, budget>>

PromotePlaceholderFails(r) ==
    /\ req[r].at = "promote"
    /\ Spend("txFails")
    /\ Goto(r, "truncate")
    /\ UNCHANGED <<row, storage, blob, cached, del, hangups, issued, asked>>

(* HookDeleteUploadSession *)
UnregisterSession(r) ==
    /\ req[r].at = "unregister"
    /\ cached' = cached \ {req[r].s}
    /\ Leave(r)
    /\ UNCHANGED <<row, storage, blob, del, hangups, issued, asked, budget>>

(* AfterValidateFailed: HookTruncateFileTo, then HookChunkUploadFailed      *)
(* unless the first found no file to truncate.                              *)
TruncateChunk(r) ==
    /\ req[r].at = "truncate"
    /\ LET s == req[r].s IN
        IF blob[s] = NoBlob
          THEN Leave(r) /\ UNCHANGED blob
          ELSE /\ blob' = [blob EXCEPT ![s] = Resize(@, Start(req[r].i))]
               /\ Goto(r, "refund")
    /\ UNCHANGED <<row, storage, cached, del, hangups, issued, asked, budget>>

RefundChunk(r) ==
    /\ req[r].at = "refund"
    /\ UpdateSize(req[r].s, req[r].size, Start(req[r].i))
    /\ Leave(r)
    /\ UNCHANGED <<blob, cached, del, hangups, issued, asked, budget>>

RefundChunkFails(r) ==
    /\ req[r].at = "refund"
    /\ Spend("txFails")
    /\ Leave(r)
    /\ UNCHANGED <<row, storage, blob, cached, del, hangups, issued, asked>>

(* CancelUpload: the client hangs up while the handler runs.  The goroutine *)
(* finds the request context done and the handler's own context not yet     *)
(* cancelled; it will run AfterUploadCanceled, and nothing makes it hurry.  *)
HangUp(r) ==
    /\ req[r].at \in {"check", "open", "write", "writeGone", "charge", "promote",
                       "unregister", "truncate", "refund"}
    /\ Spend("cancels")
    /\ hangups' = hangups \cup {[s |-> req[r].s, i |-> req[r].i]}
    /\ UNCHANGED <<row, storage, blob, cached, req, del, issued, asked>>

TruncateCanceled(h) ==
    /\ hangups' = hangups \ {h}
    /\ blob' = IF blob[h.s] = NoBlob THEN blob
               ELSE [blob EXCEPT ![h.s] = Resize(@, Start(h.i))]
    /\ UNCHANGED <<row, storage, cached, req, del, issued, asked, budget>>
-----------------------------------------------------------------------------
(* FileSystem.Delete, for the user and for the cron job.  "todo" holds what *)
(* is left of the current loop, "found" the files to delete, "sizes" the    *)
(* sizes their rows had when they were listed.                              *)

NoSizes == [s \in Session |-> 0]
Removed(found) == [s \in Session |-> IF s \in found THEN NoRow ELSE row[s]]

(* The user cancels an upload, or deletes files or folders. *)
BeginDelete(d, S) ==
    /\ del[d] = Idle
    /\ \A s \in S : Exists(s) /\ Free(s)
    /\ del' = [del EXCEPT ![d] =
                 [at |-> "list", todo |-> {}, found |-> S, sizes |-> NoSizes]]
    /\ asked' = asked \cup S
    /\ UNCHANGED <<row, storage, blob, cached, req, hangups, issued, budget>>

ListFiles(d) ==
    /\ del[d] # Idle /\ del[d].at = "list"
    /\ LET found == {s \in del[d].found : Exists(s)} IN
        del' = [del EXCEPT ![d] =
                  [at |-> "cancel",
                   todo |-> {s \in found : Pending(s)},
                   found |-> found,
                   sizes |-> [s \in Session |-> IF s \in found THEN row[s].size ELSE 0]]]
    /\ UNCHANGED <<row, storage, blob, cached, req, hangups, issued, asked, budget>>

(* The sessions of the placeholders among them leave the cache. *)
CancelSessions(d) ==
    /\ del[d] # Idle /\ del[d].at = "cancel"
    /\ cached' = cached \ del[d].todo
    /\ del' = [del EXCEPT ![d].at = "unlink", ![d].todo = del[d].found]
    /\ UNCHANGED <<row, storage, blob, req, hangups, issued, asked, budget>>

(* Physical removal, one file after the other.  A request that has the file *)
(* open is left with a file without a name.                                 *)
UnlinkBlob(d, s) ==
    /\ del[d] # Idle /\ del[d].at = "unlink" /\ s \in del[d].todo
    /\ blob' = [blob EXCEPT ![s] = NoBlob]
    /\ req' = [r \in Request |->
                 IF req[r].at = "write" /\ req[r].s = s
                   THEN [req[r] EXCEPT !.at = "writeGone"] ELSE req[r]]
    /\ del' = [del EXCEPT ![d].todo = @ \ {s}]
    /\ UNCHANGED <<row, storage, cached, hangups, issued, asked, budget>>

\* Seeded fault: a file that could not be removed loses its row all the same.
UnlinkBlobFailureIgnored(d, s) ==
    /\ del[d] # Idle /\ del[d].at = "unlink" /\ s \in del[d].todo
    /\ blob[s] # NoBlob
    /\ Spend("cuts")
    /\ del' = [del EXCEPT ![d].todo = @ \ {s}]
    /\ UNCHANGED <<row, storage, blob, cached, req, hangups, issued, asked>>

(* A file that cannot be removed keeps its row. *)
UnlinkBlobFails(d, s) ==
    /\ del[d] # Idle /\ del[d].at = "unlink" /\ s \in del[d].todo
    /\ blob[s] # NoBlob
    /\ Spend("cuts")
    /\ del' = [del EXCEPT ![d].todo = @ \ {s}, ![d].found = @ \ {s}]
    /\ UNCHANGED <<row, storage, blob, cached, req, hangups, issued, asked>>

(* DeleteFiles: one transaction, given up if any row has changed its size   *)
(* or is gone ("file size is dirty").                                       *)
EraseRows(d) ==
    /\ del[d] # Idle /\ del[d].at = "unlink" /\ del[d].todo = {}
    /\ LET found == del[d].found
           freed == FoldFunctionOnSet(+, 0, del[d].sizes, found)
       IN IF \A s \in found : Exists(s) /\ row[s].size = del[d].sizes[s]
            THEN /\ freed \in Nat                       \* var size uint64
                 /\ row' = Removed(found)
                 /\ storage' = storage - freed
            ELSE UNCHANGED <<row, storage>>
    /\ del' = [del EXCEPT ![d] = Idle]
    /\ UNCHANGED <<blob, cached, req, hangups, issued, asked, budget>>

(* The transaction fails for another reason; the files are gone already.    *)
EraseRowsFails(d) ==
    /\ del[d] # Idle /\ del[d].at = "unlink" /\ del[d].todo = {}
    /\ Spend("txFails")
    /\ del' = [del EXCEPT ![d] = Idle]
    /\ UNCHANGED <<row, storage, blob, cached, req, hangups, issued, asked>>
-----------------------------------------------------------------------------
(* uploadSessionCollect *)

ListPlaceholders ==
    /\ del[Cron] = Idle
    /\ \E s \in Session : Pending(s)
    /\ \A s \in Session : Pending(s) => Free(s)
    /\ del' = [del EXCEPT ![Cron] =
                 [at |-> "sift", todo |-> {s \in Session : Pending(s)},
                  found |-> {}, sizes |-> NoSizes]]
    /\ UNCHANGED <<row, storage, blob, cached, req, hangups, issued, asked, budget>>

\* Seeded fault: a placeholder counts as expired while its session is alive.
SiftPlaceholderInverted(s) ==
    /\ del[Cron] # Idle /\ del[Cron].at = "sift" /\ s \in del[Cron].todo
    /\ del' = [del EXCEPT ![Cron].todo = @ \ {s},
                          ![Cron].found = IF s \in cached THEN @ \cup {s} ELSE @]
    /\ UNCHANGED <<row, storage, blob, cached, req, hangups, issued, asked, budget>>

(* A placeholder whose session is not in the cache is taken for expired. *)
SiftPlaceholder(s) ==
    /\ del[Cron] # Idle /\ del[Cron].at = "sift" /\ s \in del[Cron].todo
    /\ del' = [del EXCEPT ![Cron].todo = @ \ {s},
                          ![Cron].found = IF s \in cached THEN @ ELSE @ \cup {s}]
    /\ UNCHANGED <<row, storage, blob, cached, req, hangups, issued, asked, budget>>

CollectExpired ==
    /\ del[Cron] # Idle /\ del[Cron].at = "sift" /\ del[Cron].todo = {}
    /\ del' = IF del[Cron].found = {} THEN [del EXCEPT ![Cron] = Idle]
                                      ELSE [del EXCEPT ![Cron].at = "list"]
    /\ UNCHANGED <<row, storage, blob, cached, req, hangups, issued, asked, budget>>
-----------------------------------------------------------------------------
(* The cache entry outlives its TTL. *)
Expire(s) ==
    /\ s \in cached
    /\ cached' = cached \ {s}
    /\ UNCHANGED <<row, storage, blob, req, del, hangups, issued, asked, budget>>

(* The process stops and starts again: every goroutine is gone; the session *)
(* cache survives in Redis, or when a clean shutdown has persisted it.      *)
Restart ==
    /\ Spend("restarts")
    /\ cached' \in {cached, {}}
    /\ req' = [r \in Request |-> Quiet]
    /\ del' = [d \in Agents |-> Idle]
    /\ hangups' = {}
    /\ UNCHANGED <<row, storage, blob, issued, asked>>
-----------------------------------------------------------------------------
Init ==
    /\ row = [s \in Session |-> NoRow]
    /\ storage = 0
    /\ blob = [s \in Session |-> NoBlob]
    /\ cached = {}
    /\ req = [r \in Request |-> Quiet]
    /\ del = [d \in Agents |-> Idle]
    /\ hangups = {}
    /\ issued = {}
    /\ asked = {}
    /\ budget = [cuts |-> MaxCuts, txFails |-> MaxTxFails,
                 cancels |-> MaxCancels, restarts |-> MaxRestarts]

RequestStep(r) ==
    \/ InsertPlaceholder(r) \/ InsertPlaceholderFails(r) \/ RegisterSession(r)
    \/ LookupPlaceholder(r) \/ CheckNotExists(r) \/ OpenBlob(r)
    \/ WriteChunk(r) \/ WritePartOfChunk(r)
    \/ ChargeChunk(r) \/ ChargeChunkFails(r)
    \/ PromotePlaceholder(r) \/ PromotePlaceholderFails(r)
    \/ UnregisterSession(r)
    \/ TruncateChunk(r) \/ RefundChunk(r) \/ RefundChunkFails(r)

DeleteStep(d) ==
    \/ ListFiles(d) \/ CancelSessions(d) \/ EraseRows(d) \/ EraseRowsFails(d)
    \/ \E s \in Session : UnlinkBlob(d, s) \/ UnlinkBlobFails(d, s)

CollectStep ==
    ListPlaceholders \/ CollectExpired \/ \E s \in Session : SiftPlaceholder(s)

Next ==
    \/ \E r \in Request, s \in Session : BeginCreate(r, s)
    \/ \E r \in Request, s \in Session, i \in 0 .. MaxIndex : BeginChunk(r, s, i)
    \/ \E r \in Request : RequestStep(r)
    \/ \E r \in Request : HangUp(r)
    \/ \E h \in hangups : TruncateCanceled(h)
    \/ \E d \in Deleter, S \in SUBSET Session \ {{}} : BeginDelete(d, S)
    \/ \E d \in Agents : DeleteStep(d)
    \/ CollectStep
    \/ \E s \in Session : Expire(s)
    \/ Restart

Spec == Init /\ [][Next]_vars

(* Goroutines that have something to do are scheduled, the cron job fires   *)
(* every 90 minutes, and entries of the cache do expire.                    *)
Fairness ==
    /\ \A r \in Request : WF_vars(RequestStep(r))
    /\ \A d \in Agents : WF_vars(DeleteStep(d))
    /\ WF_vars(CollectStep)
    /\ \A s \in Session : WF_vars(Expire(s))

FairSpec == Spec /\ Fairness
-----------------------------------------------------------------------------
(* Types *)

Row == [size : Nat, pending : BOOLEAN]
BeforeLookup == {"insert", "register", "lookup"}
AfterLookup == {"check", "open", "write", "writeGone", "charge", "promote",
                "unregister", "truncate", "refund"}
Working(stages) == [at : stages, s : Session, i : Nat, size : Nat]
Deleting == [at : {"sift", "list", "cancel", "unlink"}, todo : SUBSET Session,
             found : SUBSET Session, sizes : [Session -> Nat]]

(* Every variable has its type, and a row is never larger than the file its *)
(* client has declared.                                                     *)
TypeOK ==
    /\ row \in [Session -> Row \cup {NoRow}]
    /\ \A s \in Session : Exists(s) => row[s].size <= Size[s]
    /\ storage \in Int
    /\ blob \in [Session -> Seq(Int) \cup {NoBlob}]
    /\ cached \subseteq Session /\ issued \subseteq Session
    /\ asked \subseteq Session
    /\ req \in [Request -> Working(BeforeLookup \cup AfterLookup) \cup {Quiet}]
    /\ del \in [Agents -> Deleting \cup {Idle}]
    /\ hangups \subseteq [s : Session, i : Nat]
    /\ budget \in [{"cuts", "txFails", "cancels", "restarts"} -> Nat]

(* Quota *)

LongestChunk == IF ChunkSize = 0 THEN MaxFileSize ELSE ChunkSize

(* The capacity check of a chunk and its charge are separate steps, so the  *)
(* quota can be overrun; but never by more than a chunk for each request    *)
(* that can be in flight next to the one that passed the check last.  This  *)
(* holds with requests, deletions, failed transactions and restarts         *)
(* interleaved in every way.                                                *)
OvershootBounded ==
    storage <= Quota + (Cardinality(Request) - 1) * LongestChunk

(* HookValidateCapacity is commented "verify and deduct the capacity": were *)
(* it so, the user would never be charged for more than the quota.          *)
WithinQuota == storage <= Quota

(* What the user is charged for is the total size of the rows, whatever the *)
(* interleaving of requests on different sessions, wherever a request body  *)
(* breaks off, and after every restart.                                     *)
Ledger ==
    storage = FoldFunctionOnSet(+, 0,
                  [s \in Session |-> IF Exists(s) THEN row[s].size ELSE 0], Session)

(* UpdateSize moves the size of the row and the charge of its owner in one  *)
(* transaction, by the same amount.                                         *)
BalancedCharge ==
    [][\A s \in Session :
         Pending(s) /\ row'[s] # NoRow /\ storage' # storage
         /\ (\A t \in Session \ {s} : row'[t] = row[t])
         => storage' - storage = row'[s].size - row[s].size]_vars

(* Files *)

Content(s) == [k \in 1 .. Size[s] |-> k - 1]

(* A file that has left the placeholder state has the declared size and the *)
(* declared bytes, whatever was retried, cut short or overwritten on the    *)
(* way; only a deletion the user asked for takes the bytes away.            *)
FinishedIntact ==
    \A s \in Session : Finished(s) =>
        /\ row[s].size = Size[s]
        /\ blob[s] # NoBlob => blob[s] = Content(s)
        /\ blob[s] = NoBlob => s \in asked

(* No physical file is left without a row that leads to it. *)
BlobHasRow == \A s \in Session : blob[s] # NoBlob => Exists(s)

(* uploadSessionCollect "deletes the expired sessions": the cron job takes  *)
(* away placeholders, and a finished file goes only when the user asks.     *)
FinishedKept ==
    [][\A s \in Session : Finished(s) /\ row'[s] = NoRow => s \in asked]_vars

(* CancelUpload "deletes the temporary file" of an upload the client has    *)
(* cancelled: a file that is finished is not truncated by it.               *)
CancelSparesFinished ==
    [][\A s \in Session : Finished(s) /\ blob[s] = Content(s) /\ blob'[s] # NoBlob
          => blob'[s] = blob[s]]_vars

(* A placeholder does not stay for ever: it is finished, or it is collected *)
(* with its file and its charge, also when its session was lost between two *)
(* steps of its creation or of an upload.                                   *)
PlaceholderResolved == \A s \in Session : Pending(s) ~> ~Pending(s)
==============================================================================
