------------------------- MODULE RemoteDownloadProofs -------------------------
(***************************************************************************)
(* Proofs about TaskPool as RemoteDownload uses it, for every set of       *)
(* downloads, every number of workers, tasks and files, and every bound on *)
(* faults: the types, the conservation of workers, that no job is          *)
(* forgotten, that a transfer marked complete has brought every file, and  *)
(* that a download that has ended stays ended.  That the temporary folder  *)
(* is not removed under a transfer is proved for downloads that nobody     *)
(* cancels and aria2 does not give up, on a server that does not stop.     *)
(***************************************************************************)
EXTENDS RemoteDownload, FiniteSetTheorems, TLAPS

(* A goroutine works on a task that has a row. *)
JobHasTask == \A id \in TaskId : job[id].at # "none" => task[id] # NoTask

(* A job about to give its worker back has a final status. *)
FreedIsEnded == \A id \in TaskId : job[id].at = "free" => Ended(id)

(* aria2 has heard of every download that is recorded or monitored. *)
AriaKnows ==
    \A d \in Download :
        /\ Exists(d) => mon[d].at # "none"
        /\ mon[d].at # "none" => aria[d].state # "none"

(* A monitor about to submit a task is the only one to do so, and the task   *)
(* has no goroutine yet.                                                    *)
Submitting(d) == mon[d].at \in {"submit", "submitRecycle"}
SubmitsFresh ==
    \A d \in Download : Submitting(d) =>
        /\ mon[d].id \in TaskId /\ task[mon[d].id] # NoTask
        /\ job[mon[d].id].at = "none"
        /\ \A e \in Download : Submitting(e) /\ mon[e].id = mon[d].id => e = d

(* While the server is starting, nobody adds or monitors a download. *)
Quiet == ~ready => \A d \in Download : mon[d].at \in {"none", "off"}

QueueInv == WorkersConserved /\ JobHasTask /\ FreedIsEnded /\ SubmitsFresh /\ JobsHeld
PoolInv == TypeOK /\ AriaKnows /\ Quiet /\ QueueInv

Holders == {id \in TaskId : HoldsWorker(id)}
-----------------------------------------------------------------------------
(* Helpers *)

(* A free row is found when there is one. *)
LEMMA NextIdUnused == Unused # {} => NextId \in TaskId /\ task[NextId] = NoTask
<1> SUFFICES ASSUME Unused # {} PROVE NextId \in Unused
  BY DEF Unused
<1>1. \E id \in TaskId : id \in Unused
  BY DEF Unused
<1> QED
  BY <1>1 DEF NextId

(* There are finitely many goroutines. *)
LEMMA HoldersFinite == IsFiniteSet(Holders) /\ Cardinality(Holders) \in Nat
<1>1. IsFiniteSet(TaskId)
  BY PoolAssumption, FS_Interval DEF TaskId
<1>2. Holders \in SUBSET TaskId
  BY DEF Holders
<1>3. IsFiniteSet(Holders)
  BY <1>1, <1>2, FS_Subset
<1> QED
  BY <1>3, FS_CardinalityType

(* While a job holds a worker, the channel has room for it. *)
LEMMA RoomForWorker ==
    ASSUME NEW id \in TaskId, HoldsWorker(id), WorkersConserved, idle \in Nat
    PROVE  idle + 1 \in 0 .. MaxWorkers
<1>1. id \in Holders
  BY DEF Holders
<1>2. Cardinality(Holders) # 0
  BY <1>1, HoldersFinite, FS_EmptySet
<1>3. idle + Cardinality(Holders) = MaxWorkers
  BY DEF WorkersConserved, Holders
<1> QED
  BY <1>2, <1>3, HoldersFinite, PoolAssumption

(* A monitor, or a goroutine, with another value in one field is one still. *)
LEMMA OneField ==
    /\ \A m \in Monitor :
         /\ \A x \in Stage : [m EXCEPT !.at = x] \in Monitor
         /\ \A x \in Status : [m EXCEPT !.status = x] \in Monitor
         /\ \A x \in {0} \cup TaskId : [m EXCEPT !.task = x] \in Monitor
         /\ \A x \in 1 .. 2 : [m EXCEPT !.gid = x] \in Monitor
         /\ \A x \in 0 .. 2 : [m EXCEPT !.sized = x] \in Monitor
         /\ \A x \in Nat : [m EXCEPT !.retried = x] \in Monitor
         /\ \A x \in {0} \cup TaskId : [m EXCEPT !.id = x] \in Monitor
    /\ \A j \in Goroutine :
         /\ \A x \in Nat : [j EXCEPT !.n = x] \in Goroutine
         /\ \A x \in BOOLEAN : [j EXCEPT !.failed = x] \in Goroutine
<1>1. ASSUME NEW m \in Monitor
      PROVE  /\ \A x \in Stage : [m EXCEPT !.at = x] \in Monitor
             /\ \A x \in Status : [m EXCEPT !.status = x] \in Monitor
             /\ \A x \in {0} \cup TaskId : [m EXCEPT !.task = x] \in Monitor
             /\ \A x \in 1 .. 2 : [m EXCEPT !.gid = x] \in Monitor
             /\ \A x \in 0 .. 2 : [m EXCEPT !.sized = x] \in Monitor
             /\ \A x \in Nat : [m EXCEPT !.retried = x] \in Monitor
             /\ \A x \in {0} \cup TaskId : [m EXCEPT !.id = x] \in Monitor
  BY DEF Monitor
<1>2. ASSUME NEW j \in Goroutine
      PROVE  /\ \A x \in Nat : [j EXCEPT !.n = x] \in Goroutine
             /\ \A x \in BOOLEAN : [j EXCEPT !.failed = x] \in Goroutine
  BY DEF Goroutine
<1> QED
  BY <1>1, <1>2

(* What is saved of a monitor's copy is a row. *)
LEMMA SavedIsRow ==
    ASSUME NEW d \in Download, NEW m \in Monitor, Save(d, m),
           row \in [Download -> DownloadRow \cup {NoDownload}]
    PROVE  /\ row' \in [Download -> DownloadRow \cup {NoDownload}]
           /\ \A e \in Download : row'[e] # NoDownload => Exists(e)
<1>1. Saved(m) \in DownloadRow
  BY DEF Saved, DownloadRow, Monitor
<1>2. CASE Exists(d)
  <2>1. row' = [row EXCEPT ![d] = Saved(m)]
    BY <1>2 DEF Save
  <2> QED
    BY <1>1, <1>2, <2>1 DEF Exists
<1>3. CASE ~Exists(d)
  BY <1>3 DEF Save, Exists
<1> QED
  BY <1>2, <1>3
-----------------------------------------------------------------------------
(* Types *)

(* The queue's steps keep its types. *)
LEMMA PoolTypeStep ==
    ASSUME PoolTypeOK, WorkersConserved, JobHasTask, NEW id \in TaskId, PoolStep(id)
    PROVE  PoolTypeOK'
<1>1. CASE ObtainWorker(id)
  BY <1>1, PoolAssumption DEF ObtainWorker, PoolTypeOK, Goroutine
<1>2. CASE BeginJob(id)
  BY <1>2 DEF BeginJob, PoolTypeOK, Goroutine, TaskRow, JobHasTask
<1>3. CASE EndJob(id)
  BY <1>3 DEF EndJob, PoolTypeOK, Goroutine, TaskRow, JobHasTask
<1>4. CASE FreeWorker(id)
  <2>1. idle + 1 \in 0 .. MaxWorkers
    BY <1>4, RoomForWorker, PoolAssumption DEF FreeWorker, HoldsWorker, PoolTypeOK
  <2> QED
    BY <1>4, <2>1 DEF FreeWorker, PoolTypeOK, Goroutine, NoJob
<1> QED
  BY <1>1, <1>2, <1>3, <1>4 DEF PoolStep

(* A row inserted, and a goroutine started, have their types. *)
LEMMA RecordType ==
    ASSUME PoolTypeOK, NEW d \in Owner,
           NEW type \in {"transfer", "recycle"}, Record(type, d)
    PROVE  PoolTypeOK' /\ NextId \in TaskId
<1>1. NextId \in TaskId
  BY NextIdUnused DEF Record
<1>2. [type |-> type, of |-> d, status |-> "queued"] \in TaskRow
  BY DEF TaskRow
<1> QED
  BY <1>1, <1>2 DEF Record, PoolTypeOK

(* A task submitted has the types of one that waits. *)
LEMMA SubmitType ==
    ASSUME PoolTypeOK, NEW id \in {0} \cup TaskId, Submit(id)
    PROVE  PoolTypeOK'
BY DEF Submit, PoolTypeOK, Goroutine, Waiting, NoJob

(* The types are kept by every step of a download. *)
LEMMA DownloadTypeStep ==
    ASSUME TypeOK, AriaKnows, NEW d \in Download,
           \/ AddDownload(d) \/ DeleteDownload(d) \/ MonitorStep(d)
           \/ DeleteTempFile(d) \/ AriaStep(d) \/ AriaFail(d)
    PROVE  TypeOK'
<1>1. mon[d] \in Monitor /\ \A at \in Stage : [mon[d] EXCEPT !.at = at] \in Monitor
  BY DEF TypeOK, Monitor
<1>2. task \in [TaskId -> TaskRow \cup {NoTask}] /\ Owner = Download
  BY DownloadAssumption DEF TypeOK, PoolTypeOK
<1>3. CASE AddDownload(d)
  BY <1>1, <1>3
  DEF AddDownload, TypeOK, PoolTypeOK, pool, MonitorAt, GotoStage, Spend, Stage,
      Status
<1>4. CASE DeleteDownload(d)
  <2>1. row' \in [Download -> DownloadRow \cup {NoDownload}]
    BY <1>4 DEF DeleteDownload, TypeOK
  <2>2. aria' \in [Download -> [gid : 1 .. 2, state : {"none"} \cup Status]]
    BY <1>4 DEF DeleteDownload, CancelInAria, TypeOK, Status
  <2> QED
    BY <1>4, <2>1, <2>2 DEF DeleteDownload, Spend, TypeOK, PoolTypeOK, pool
<1>5. CASE InsertDownload(d)
  BY <1>1, <1>5
  DEF InsertDownload, TypeOK, PoolTypeOK, pool, MonitorAt, GotoStage, Spend, Saved,
      DownloadRow, Monitor, Stage
<1>6. CASE InsertDownloadFails(d)
  BY <1>1, <1>6
  DEF InsertDownloadFails, TypeOK, PoolTypeOK, pool, MonitorAt, GotoStage, Spend,
      Stage
<1>7. CASE Poll(d)
  <2>1. mon' \in [Download -> Monitor]
    BY <1>1, <1>7 DEF Poll, TypeOK, Monitor, Stage, Status, MonitorAt, AriaKnows
  <2> QED
    BY <1>7, <2>1 DEF Poll, TypeOK, PoolTypeOK, pool
<1>8. CASE PollFails(d)
  <2> DEFINE at == IF mon[d].retried + 1 > MaxRetry THEN "fail" ELSE "poll"
             m == [mon[d] EXCEPT !.retried = @ + 1, !.at = at]
  <2>1. at \in Stage
    BY DEF Stage
  <2>2. m \in Monitor
    <3> HIDE DEF at
    <3> QED
      <4>1. mon[d].retried + 1 \in Nat
        BY <1>1 DEF Monitor
      <4>2. [mon[d] EXCEPT !.retried = @ + 1] \in Monitor
        BY <1>1, <4>1, OneField
      <4> QED
        BY <2>1, <4>2, OneField
  <2>3. mon' = [mon EXCEPT ![d] = m]
    BY <1>8 DEF PollFails, TypeOK, Monitor
  <2>4. mon' \in [Download -> Monitor]
    <3> HIDE DEF m
    <3> QED
      BY <2>2, <2>3 DEF TypeOK
  <2> QED
    BY <1>8, <2>4 DEF PollFails, TypeOK, PoolTypeOK, pool, Spend
<1>9. CASE FollowDownload(d)
  <2> DEFINE m == [mon[d] EXCEPT !.gid = 2, !.at = "poll"]
  <2>1. m \in Monitor
    <3>1. \A x \in 1 .. 2 : [mon[d] EXCEPT !.gid = x] \in Monitor
      BY <1>1, OneField
    <3>2. 2 \in 1 .. 2
      OBVIOUS
    <3>3. [mon[d] EXCEPT !.gid = 2] \in Monitor
      BY <3>1, <3>2
    <3> QED
      BY <3>3, OneField DEF Stage
  <2>2. Save(d, m) /\ mon' = [mon EXCEPT ![d] = m]
    BY <1>9 DEF FollowDownload
  <2> HIDE DEF m
  <2>3. row' \in [Download -> DownloadRow \cup {NoDownload}]
    BY <2>1, <2>2, SavedIsRow DEF TypeOK
  <2> QED
    BY <1>9, <2>1, <2>2, <2>3 DEF FollowDownload, TypeOK, PoolTypeOK, pool
<1>10. CASE UpdateTaskInfo(d)
  <2> DEFINE m == [mon[d] EXCEPT !.sized = mon[d].gid]
  <2>1. m \in Monitor /\ \A at \in Stage : [m EXCEPT !.at = at] \in Monitor
    <3>1. mon[d].gid \in 0 .. 2
      BY <1>1 DEF Monitor
    <3> QED
      BY <1>1, <3>1, OneField
  <2>2. PICK at \in Stage : Save(d, m) /\ mon' = [mon EXCEPT ![d] = [m EXCEPT !.at = at]]
    BY <1>10 DEF UpdateTaskInfo, Handle, Stage
  <2> HIDE DEF m
  <2>3. row' \in [Download -> DownloadRow \cup {NoDownload}]
    BY <2>1, <2>2, SavedIsRow DEF TypeOK
  <2> QED
    BY <1>10, <2>1, <2>2, <2>3 DEF UpdateTaskInfo, TypeOK, PoolTypeOK, pool
<1>11. CASE RejectDownload(d)
  BY <1>1, <1>11
  DEF RejectDownload, TypeOK, PoolTypeOK, pool, MonitorAt, GotoStage, Spend,
      CancelInAria, Status, Stage
<1>12. CASE SetErrorStatus(d)
  <2> DEFINE m == [mon[d] EXCEPT !.status = "error", !.at = "cleanup"]
  <2>1. m \in Monitor
    <3>1. [mon[d] EXCEPT !.status = "error"] \in Monitor
      BY <1>1, OneField DEF Status
    <3> QED
      BY <3>1, OneField DEF Stage
  <2>2. Save(d, m) /\ mon' = [mon EXCEPT ![d] = m]
    BY <1>12 DEF SetErrorStatus
  <2> HIDE DEF m
  <2>3. row' \in [Download -> DownloadRow \cup {NoDownload}]
    BY <2>1, <2>2, SavedIsRow DEF TypeOK
  <2> QED
    BY <1>12, <2>1, <2>2, <2>3 DEF SetErrorStatus, TypeOK, PoolTypeOK, pool
<1>13. CASE SetCanceled(d)
  <2>1. PICK m \in Monitor : Save(d, m) /\ mon' \in [Download -> Monitor]
    BY <1>1, <1>13 DEF SetCanceled, TypeOK, Monitor, Stage, Status, MonitorAt, GotoStage
  <2>2. row' \in [Download -> DownloadRow \cup {NoDownload}]
    BY <2>1, SavedIsRow DEF TypeOK
  <2> QED
    BY <1>13, <2>1, <2>2 DEF SetCanceled, TypeOK, PoolTypeOK, pool
<1>14. CASE RemoveTempFolder(d)
  BY <1>1, <1>14
  DEF RemoveTempFolder, TypeOK, PoolTypeOK, pool, MonitorAt, GotoStage, Spend, Stage
<1>15. CASE RecordTransfer(d)
  <2>1. Record("transfer", d)
    BY <1>15 DEF RecordTransfer
  <2>2. PoolTypeOK' /\ NextId \in TaskId
    BY <1>2, <2>1, RecordType DEF TypeOK
  <2>3. mon' \in [Download -> Monitor]
    <3>1. [mon[d] EXCEPT !.at = "submit", !.id = NextId] \in Monitor
      <4>1. [mon[d] EXCEPT !.at = "submit"] \in Monitor
        BY <1>1, OneField DEF Stage
      <4> QED
        BY <2>2, <4>1, OneField
    <3>2. mon' = [mon EXCEPT ![d] = [mon[d] EXCEPT !.at = "submit", !.id = NextId]]
      BY <1>15 DEF RecordTransfer, TypeOK, Monitor
    <3> QED
      BY <3>1, <3>2 DEF TypeOK
  <2> QED
    BY <1>15, <2>2, <2>3 DEF RecordTransfer, TypeOK
<1>16. CASE SubmitTransfer(d)
  <2>1. PoolTypeOK'
    BY <1>1, <1>16, SubmitType DEF SubmitTransfer, TypeOK, Monitor
  <2> QED
    BY <1>1, <1>16, <2>1 DEF SubmitTransfer, TypeOK, GotoStage, Stage
<1>17. CASE LinkTransfer(d)
  <2> DEFINE m == [mon[d] EXCEPT !.task = mon[d].id, !.at = "poll"]
  <2>1. m \in Monitor
    <3>1. mon[d].id \in {0} \cup TaskId
      BY <1>1 DEF Monitor
    <3>2. [mon[d] EXCEPT !.task = mon[d].id] \in Monitor
      BY <1>1, <3>1, OneField
    <3> QED
      BY <3>2, OneField DEF Stage
  <2>2. Save(d, m) /\ mon' = [mon EXCEPT ![d] = m]
    BY <1>17 DEF LinkTransfer
  <2> HIDE DEF m
  <2>3. row' \in [Download -> DownloadRow \cup {NoDownload}]
    BY <2>1, <2>2, SavedIsRow DEF TypeOK
  <2> QED
    BY <1>17, <2>1, <2>2, <2>3 DEF LinkTransfer, TypeOK, PoolTypeOK, pool
<1>18. CASE AwaitTransfer(d)
  BY <1>1, <1>18
  DEF AwaitTransfer, TypeOK, PoolTypeOK, pool, MonitorAt, GotoStage, Spend, Stage
<1>19. CASE RecordRecycle(d)
  <2>1. Record("recycle", d)
    BY <1>19 DEF RecordRecycle
  <2>2. PoolTypeOK' /\ NextId \in TaskId
    BY <1>2, <2>1, RecordType DEF TypeOK
  <2>3. mon' \in [Download -> Monitor]
    <3>1. [mon[d] EXCEPT !.at = "submitRecycle", !.id = NextId] \in Monitor
      <4>1. [mon[d] EXCEPT !.at = "submitRecycle"] \in Monitor
        BY <1>1, OneField DEF Stage
      <4> QED
        BY <2>2, <4>1, OneField
    <3>2. mon' = [mon EXCEPT ![d] = [mon[d] EXCEPT !.at = "submitRecycle", !.id = NextId]]
      BY <1>19 DEF RecordRecycle, TypeOK, Monitor
    <3> QED
      BY <3>1, <3>2 DEF TypeOK
  <2> QED
    BY <1>19, <2>2, <2>3 DEF RecordRecycle, TypeOK
<1>20. CASE SubmitRecycle(d)
  <2>1. PoolTypeOK'
    BY <1>1, <1>20, SubmitType DEF SubmitRecycle, TypeOK, Monitor
  <2> QED
    BY <1>1, <1>20, <2>1 DEF SubmitRecycle, TypeOK, GotoStage, Stage
<1>21. CASE RecordFails(d)
  BY <1>1, <1>21
  DEF RecordFails, TypeOK, PoolTypeOK, pool, MonitorAt, GotoStage, Spend, Stage
<1>22. CASE DeleteTempFile(d)
  BY <1>1, <1>22
  DEF DeleteTempFile, TypeOK, PoolTypeOK, pool, MonitorAt, GotoStage, Spend
<1>23. CASE AriaFollow(d)
  BY <1>1, <1>23
  DEF AriaFollow, TypeOK, PoolTypeOK, pool, MonitorAt, GotoStage, Spend, Status
<1>24. CASE AriaFinish(d)
  <2>1. aria' \in [Download -> [gid : 1 .. 2, state : {"none"} \cup Status]]
    <3>1. PICK s \in Status : aria' = [aria EXCEPT ![d].state = s]
      BY <1>24 DEF AriaFinish, Status
    <3> QED
      BY <3>1 DEF TypeOK
  <2> QED
    BY <1>24, <2>1 DEF AriaFinish, TypeOK, PoolTypeOK, pool
<1>25. CASE AriaFail(d)
  BY <1>1, <1>25
  DEF AriaFail, TypeOK, PoolTypeOK, pool, MonitorAt, GotoStage, Spend, Status
<1> QED
  BY <1>3, <1>4, <1>5, <1>6, <1>7, <1>8, <1>9, <1>10, <1>11, <1>12, <1>13, <1>14,
     <1>15, <1>16, <1>17, <1>18, <1>19, <1>20, <1>21, <1>22, <1>23, <1>24, <1>25
  DEF MonitorStep, AriaStep

(* The types are kept by every step of a job. *)
LEMMA JobTypeStep ==
    ASSUME TypeOK, WorkersConserved, JobHasTask, NEW id \in TaskId, JobStep(id)
    PROVE  TypeOK'
<1>1. CASE PoolStep(id) /\ UNCHANGED dvars
  BY <1>1, PoolTypeStep DEF TypeOK, dvars
<1>2. CASE TransferFile(id)
  <2> DEFINE d == task[id].of
             k == job[id].n + 1
  <2>1. task[id] \in TaskRow /\ job[id] \in Goroutine /\ Owner = Download /\ Files \in Nat
    BY <1>2, DownloadAssumption DEF TransferFile, JobHasTask, TypeOK, PoolTypeOK
  <2>2. d \in Download /\ k \in 1 .. Files
    BY <1>2, <2>1 DEF TransferFile, TaskRow, Goroutine
  <2>3. PICK ok \in BOOLEAN :
          /\ job' = [job EXCEPT ![id] = AfterFile(@, ok)]
          /\ stored' = IF ok THEN [stored EXCEPT ![d] = @ \cup {k}] ELSE stored
          /\ Spend("stores") \/ UNCHANGED budget
    BY <1>2 DEF TransferFile
  <2>4. AfterFile(job[id], ok) \in Goroutine
    <3>1. (job[id].failed \/ ~ok) \in BOOLEAN
      BY <2>1 DEF Goroutine
    <3>2. [job[id] EXCEPT !.n = @ + 1] \in Goroutine
      BY <2>1, OneField DEF Goroutine
    <3>3. \A b \in BOOLEAN : [job[id] EXCEPT !.n = @ + 1, !.failed = b] \in Goroutine
      BY <3>2, OneField
    <3> QED
      BY <3>1, <3>3 DEF AfterFile
  <2>5. PoolTypeOK'
    BY <1>2, <2>3, <2>4 DEF TransferFile, TypeOK, PoolTypeOK
  <2>6. stored' \in [Download -> SUBSET (1 .. Files)]
    <3>1. stored[d] \cup {k} \in SUBSET (1 .. Files)
      BY <2>2 DEF TypeOK
    <3> HIDE DEF d, k
    <3> QED
      BY <2>2, <2>3, <3>1 DEF TypeOK
  <2>7. budget' \in [{"polls", "aria", "db", "stores", "deletes", "restarts"} -> Nat]
    BY <2>3 DEF Spend, TypeOK
  <2> QED
    BY <1>2, <2>5, <2>6, <2>7 DEF TransferFile, TypeOK
<1>3. CASE EndTransfer(id)
  BY <1>3 DEF EndTransfer, TypeOK, PoolTypeOK, Goroutine, dvars
<1>4. CASE RecycleFiles(id)
  <2>1. task[id] \in TaskRow /\ Owner = Download
    BY <1>4, DownloadAssumption DEF RecycleFiles, JobHasTask, TypeOK, PoolTypeOK
  <2>2. task[id].of \in Download
    BY <2>1 DEF TaskRow
  <2>3. removing' \subseteq Download
    BY <1>4, <2>2 DEF RecycleFiles, TypeOK
  <2>4. PoolTypeOK'
    <3>1. PICK b \in BOOLEAN : job' = [job EXCEPT ![id].at = "finish", ![id].failed = b]
      BY <1>4 DEF RecycleFiles
    <3>2. job[id] \in Goroutine
      BY DEF TypeOK, PoolTypeOK
    <3>3. [job[id] EXCEPT !.at = "finish", !.failed = b] \in Goroutine
      <4>1. [job[id] EXCEPT !.at = "finish"] \in Goroutine
        BY <3>2 DEF Goroutine
      <4> QED
        BY <4>1, OneField
    <3> QED
      BY <1>4, <3>1, <3>3 DEF RecycleFiles, TypeOK, PoolTypeOK
  <2> QED
    BY <1>4, <2>3, <2>4 DEF RecycleFiles, TypeOK
<1> QED
  BY <1>1, <1>2, <1>3, <1>4 DEF JobStep

(* The types are kept by a restart, and by what follows it. *)
LEMMA RestartTypeStep ==
    ASSUME TypeOK, Restart \/ InitMonitors
    PROVE  TypeOK'
<1>1. CASE Restart
  <2>1. mon' \in [Download -> Monitor]
    <3>1. \A d \in Download : mon[d] \in Monitor /\ [mon[d] EXCEPT !.at = "off"] \in Monitor
      BY OneField DEF TypeOK, Stage
    <3> QED
      BY <1>1, <3>1 DEF Restart
  <2>2. PoolTypeOK'
    <3>1. Waiting \in Goroutine /\ NoJob \in Goroutine
      BY DEF Waiting, NoJob, Goroutine
    <3>2. Resume
      BY <1>1 DEF Restart
    <3> QED
      BY <3>1, <3>2, PoolAssumption DEF Resume, TypeOK, PoolTypeOK
  <2>3. budget' \in [{"polls", "aria", "db", "stores", "deletes", "restarts"} -> Nat]
    BY <1>1 DEF Restart, Spend, TypeOK
  <2>4. removing' \subseteq Download /\ ready' \in BOOLEAN
        /\ UNCHANGED <<row, aria, temp, stored>>
    BY <1>1 DEF Restart
  <2> QED
    BY <2>1, <2>2, <2>3, <2>4 DEF TypeOK
<1>2. CASE InitMonitors
  <2>1. ASSUME NEW d \in Download, Exists(d)
        PROVE  [NoMonitor EXCEPT !.at = "poll", !.status = row[d].status, !.task = row[d].task,
                  !.gid = row[d].gid, !.sized = row[d].sized] \in Monitor
    <3>1. row[d] \in DownloadRow
      BY <2>1 DEF TypeOK, Exists
    <3> QED
      BY <3>1 DEF DownloadRow, Monitor, NoMonitor, Stage
  <2>2. mon' \in [Download -> Monitor]
    BY <1>2, <2>1 DEF InitMonitors, TypeOK, Resumable
  <2> QED
    BY <1>2, <2>2 DEF InitMonitors, TypeOK, PoolTypeOK, pool
<1> QED
  BY <1>1, <1>2
-----------------------------------------------------------------------------
(* Workers and jobs *)

(* A step that touches neither table nor queue, and after which the same     *)
(* monitors are about to submit the same tasks.                             *)
Calm == /\ UNCHANGED pool
        /\ \A e \in Download :
             LET about == {"submit", "submitRecycle"} IN
               /\ mon'[e].at \in about <=> mon[e].at \in about
               /\ mon[e].at \in about => mon'[e].id = mon[e].id

(* The steps of a download that leave the queue alone. *)
LEMMA CalmOtherwise ==
    ASSUME TypeOK, NEW d \in Download,
           \/ AddDownload(d) \/ DeleteDownload(d) \/ MonitorStep(d)
           \/ DeleteTempFile(d) \/ AriaStep(d) \/ AriaFail(d),
           ~RecordTransfer(d), ~RecordRecycle(d), ~SubmitTransfer(d), ~SubmitRecycle(d)
    PROVE  Calm /\ stored' = stored
<1>1. mon \in [Download -> Monitor]
  BY DEF TypeOK
<1> USE DEF Calm, MonitorAt, GotoStage
<1>2. CASE AddDownload(d)
  BY <1>1, <1>2 DEF AddDownload, Monitor
<1>3. CASE DeleteDownload(d) \/ DeleteTempFile(d) \/ AriaStep(d) \/ AriaFail(d)
  BY <1>3 DEF DeleteDownload, DeleteTempFile, AriaStep, AriaFollow, AriaFinish, AriaFail
<1>4. CASE InsertDownload(d) \/ InsertDownloadFails(d) \/ RecordFails(d)
  BY <1>1, <1>4 DEF InsertDownload, InsertDownloadFails, RecordFails, Monitor
<1>5. CASE Poll(d) \/ PollFails(d)
  BY <1>1, <1>5 DEF Poll, PollFails, Monitor
<1>6. CASE FollowDownload(d)
  BY <1>1, <1>6 DEF FollowDownload, Monitor
<1>7. CASE UpdateTaskInfo(d)
  BY <1>1, <1>7 DEF UpdateTaskInfo, Handle, Monitor
<1>8. CASE RejectDownload(d) \/ SetCanceled(d) \/ RemoveTempFolder(d)
  BY <1>1, <1>8 DEF RejectDownload, SetCanceled, RemoveTempFolder, Monitor
<1>9. CASE SetErrorStatus(d)
  BY <1>1, <1>9 DEF SetErrorStatus, Monitor
<1>10. CASE LinkTransfer(d)
  BY <1>1, <1>10 DEF LinkTransfer, Monitor
<1>11. CASE AwaitTransfer(d)
  BY <1>1, <1>11 DEF AwaitTransfer, Monitor
<1> QED
  BY <1>2, <1>3, <1>4, <1>5, <1>6, <1>7, <1>8, <1>9, <1>10, <1>11 DEF MonitorStep

(* Such a step keeps the queue as it is. *)
LEMMA CalmStep ==
    ASSUME PoolInv, Calm
    PROVE  QueueInv'
<1>1. /\ task' = task /\ job' = job /\ idle' = idle
      /\ \A e \in Download :
           LET about == {"submit", "submitRecycle"} IN
             /\ mon'[e].at \in about <=> mon[e].at \in about
             /\ mon[e].at \in about => mon'[e].id = mon[e].id
  BY DEF Calm, pool
<1>2. WorkersConserved' /\ JobHasTask' /\ FreedIsEnded'
  BY <1>1
  DEF PoolInv, QueueInv, WorkersConserved, HoldsWorker, JobHasTask, FreedIsEnded,
      Ended
<1>3. SubmitsFresh'
  <2>1. ASSUME NEW d \in Download, Submitting(d)'
        PROVE  /\ mon'[d].id \in TaskId /\ task'[mon'[d].id] # NoTask
               /\ job'[mon'[d].id].at = "none"
    <3>1. Submitting(d) /\ mon'[d].id = mon[d].id
      BY <1>1, <2>1 DEF Submitting
    <3> QED
      BY <3>1, <1>1 DEF PoolInv, QueueInv, SubmitsFresh
  <2>2. ASSUME NEW d \in Download, NEW e \in Download, Submitting(d)', Submitting(e)',
               mon'[e].id = mon'[d].id
        PROVE  e = d
    <3>1. Submitting(d) /\ Submitting(e) /\ mon[e].id = mon[d].id
      BY <1>1, <2>2 DEF Submitting
    <3> QED
      BY <3>1 DEF PoolInv, QueueInv, SubmitsFresh
  <2> QED
    BY <2>1, <2>2 DEF SubmitsFresh
<1>4. JobsHeld'
  <2>1. ASSUME NEW id \in TaskId, Unfinished(id)', job'[id].at = "none"
        PROVE  \E e \in Download : mon'[e].at \in {"submit", "submitRecycle"} /\ mon'[e].id = id
    <3>1. Unfinished(id) /\ job[id].at = "none"
      BY <1>1, <2>1 DEF Unfinished
    <3>2. PICK e \in Download : mon[e].at \in {"submit", "submitRecycle"} /\ mon[e].id = id
      BY <3>1 DEF PoolInv, QueueInv, JobsHeld
    <3>3. mon'[e].at \in {"submit", "submitRecycle"} /\ mon'[e].id = id
      BY <1>1, <3>2
    <3> QED
      BY <3>3
  <2> QED
    BY <2>1 DEF JobsHeld
<1> QED
  BY <1>2, <1>3, <1>4 DEF QueueInv

(* A monitor records a task: its id is fresh. *)
LEMMA RecordStep ==
    ASSUME PoolInv, NEW d \in Download, ~Submitting(d), NEW type, Record(type, d),
           NEW at \in {"submit", "submitRecycle"}, type \in {"transfer", "recycle"},
           mon' = [mon EXCEPT ![d].at = at, ![d].id = NextId]
    PROVE  QueueInv'
<1> DEFINE new == [type |-> type, of |-> d, status |-> "queued"]
<1>1. NextId \in TaskId /\ task[NextId] = NoTask
  BY NextIdUnused DEF Record
<1>2. job[NextId].at = "none"
  BY <1>1 DEF PoolInv, QueueInv, JobHasTask
<1>3. task' = [task EXCEPT ![NextId] = new] /\ job' = job /\ idle' = idle
  BY DEF Record
<1>4. new # NoTask
  <2>1. new \in TaskRow
    BY DownloadAssumption DEF TaskRow
  <2> QED
    BY <2>1, PoolAssumption
<1>5. task \in [TaskId -> TaskRow \cup {NoTask}] /\ mon \in [Download -> Monitor]
  BY DEF PoolInv, QueueInv, TypeOK, PoolTypeOK
<1>6. \A id \in TaskId : task[id] # NoTask => task'[id] = task[id]
  BY <1>1, <1>3, <1>5
<1>7. task'[NextId] = new
  BY <1>1, <1>3, <1>5
<1> HIDE DEF new
<1>8. WorkersConserved'
  BY <1>3 DEF PoolInv, QueueInv, WorkersConserved, HoldsWorker
<1>9. JobHasTask'
  BY <1>3, <1>6 DEF PoolInv, QueueInv, JobHasTask
<1>10. FreedIsEnded'
  BY <1>3, <1>6 DEF PoolInv, QueueInv, FreedIsEnded, Ended
<1>11. SubmitsFresh'
  <2>1. mon'[d].id = NextId /\ \A e \in Download : e # d => mon'[e] = mon[e]
    BY <1>5 DEF Monitor
  <2>2. \A e \in Download : e # d /\ Submitting(e)' =>
          /\ mon'[e].id \in TaskId /\ task[mon'[e].id] # NoTask
          /\ mon'[e].id # NextId /\ job[mon'[e].id].at = "none"
    BY <2>1, <1>1 DEF PoolInv, QueueInv, SubmitsFresh, Submitting
  <2>3. ASSUME NEW e \in Download, Submitting(e)'
        PROVE  /\ mon'[e].id \in TaskId /\ task'[mon'[e].id] # NoTask
               /\ job'[mon'[e].id].at = "none"
    <3>1. CASE e = d
      BY <3>1, <2>1, <1>1, <1>2, <1>3, <1>4, <1>7
    <3>2. CASE e # d
      BY <3>2, <2>2, <2>3, <1>3, <1>6
    <3> QED
      BY <3>1, <3>2
  <2>4. ASSUME NEW e \in Download, NEW f \in Download, Submitting(e)', Submitting(f)',
               mon'[e].id = mon'[f].id
        PROVE  e = f
    <3>1. CASE e = d \/ f = d
      BY <3>1, <2>1, <2>2, <2>4
    <3>2. CASE e # d /\ f # d
      BY <3>2, <2>1, <2>4 DEF PoolInv, QueueInv, SubmitsFresh, Submitting
    <3> QED
      BY <3>1, <3>2
  <2> QED
    BY <2>3, <2>4 DEF SubmitsFresh
<1>12. JobsHeld'
  <2>1. mon'[d].id = NextId /\ mon'[d].at = at
        /\ \A e \in Download : e # d => mon'[e] = mon[e]
    BY <1>5 DEF Monitor
  <2>2. mon[d].at \notin {"submit", "submitRecycle"}
    BY DEF Submitting
  <2>3. ASSUME NEW id \in TaskId, Unfinished(id)', id # NextId
        PROVE  \/ job'[id].at # "none"
               \/ \E e \in Download : mon'[e].at \in {"submit", "submitRecycle"} /\ mon'[e].id = id
    <3>1. Unfinished(id)
      BY <2>3, <1>1, <1>3, <1>5 DEF Unfinished
    <3> QED
      <4>1. CASE job[id].at # "none"
        BY <4>1, <1>3
      <4>2. CASE job[id].at = "none"
        <5>1. PICK e \in Download : mon[e].at \in {"submit", "submitRecycle"} /\ mon[e].id = id
          BY <3>1, <4>2 DEF PoolInv, QueueInv, JobsHeld
        <5>2. e # d
          BY <5>1, <2>2
        <5> QED
          BY <5>1, <5>2, <2>1
      <4> QED
        BY <4>1, <4>2
  <2> QED
    BY <2>1, <2>3 DEF JobsHeld
<1> QED
  BY <1>8, <1>9, <1>10, <1>11, <1>12 DEF QueueInv

(* A monitor submits the task that it has recorded. *)
LEMMA SubmitStep ==
    ASSUME PoolInv, NEW d \in Download, Submitting(d), Submit(mon[d].id),
           NEW at \in {"link", "off"}, mon' = [mon EXCEPT ![d].at = at]
    PROVE  QueueInv'
<1> DEFINE new == mon[d].id
<1>1. new \in TaskId /\ task[new] # NoTask /\ job[new].at = "none"
  BY DEF PoolInv, QueueInv, SubmitsFresh
<1>2. job' = [job EXCEPT ![new] = Waiting] /\ task' = task /\ idle' = idle
  BY DEF Submit
<1>3. job \in [TaskId -> Goroutine] /\ mon \in [Download -> Monitor]
  BY DEF PoolInv, QueueInv, TypeOK, PoolTypeOK
<1>4. job'[new].at = "waiting" /\ \A id \in TaskId : id # new => job'[id] = job[id]
  BY <1>1, <1>2, <1>3 DEF Waiting, NoJob
<1>5. mon'[d].at = at /\ \A e \in Download : e # d => mon'[e] = mon[e]
  BY <1>3 DEF Monitor
<1>6. \A e \in Download : e # d /\ Submitting(e) => mon[e].id # new
  BY DEF PoolInv, QueueInv, SubmitsFresh
<1> HIDE DEF new
<1>7. WorkersConserved'
  <2>1. \A id \in TaskId : HoldsWorker(id)' <=> HoldsWorker(id)
    BY <1>1, <1>4 DEF HoldsWorker
  <2>2. {id \in TaskId : HoldsWorker(id)}' = {id \in TaskId : HoldsWorker(id)}
    BY <2>1
  <2> QED
    BY <1>2, <2>2 DEF PoolInv, QueueInv, WorkersConserved
<1>8. JobHasTask'
  BY <1>1, <1>2, <1>4 DEF PoolInv, QueueInv, JobHasTask
<1>9. FreedIsEnded'
  BY <1>2, <1>4 DEF PoolInv, QueueInv, FreedIsEnded, Ended
<1>10. SubmitsFresh'
  <2>1. \A e \in Download : Submitting(e)' => e # d /\ Submitting(e) /\ mon'[e] = mon[e]
    BY <1>5 DEF Submitting
  <2> QED
    BY <2>1, <1>2, <1>4, <1>6 DEF PoolInv, QueueInv, SubmitsFresh
<1>11. JobsHeld'
  <2>1. ASSUME NEW id \in TaskId, Unfinished(id)', id # new
        PROVE  \/ job'[id].at # "none"
               \/ \E e \in Download : mon'[e].at \in {"submit", "submitRecycle"} /\ mon'[e].id = id
    <3>1. Unfinished(id) /\ mon[d].id # id
      BY <2>1, <1>2 DEF Unfinished, new
    <3> QED
      BY <3>1, <2>1, <1>4, <1>5 DEF PoolInv, QueueInv, JobsHeld
  <2>2. job'[new].at # "none"
    BY <1>4
  <2> QED
    BY <2>1, <2>2 DEF JobsHeld
<1> QED
  BY <1>7, <1>8, <1>9, <1>10, <1>11 DEF QueueInv

(* A step of a job: it gets a worker, keeps it, or gives it back. *)
LEMMA JobInvStep ==
    ASSUME PoolInv, NEW id \in TaskId, JobStep(id)
    PROVE  QueueInv'
<1>1. job \in [TaskId -> Goroutine] /\ task \in [TaskId -> TaskRow \cup {NoTask}]
      /\ idle \in Nat /\ mon \in [Download -> Monitor]
  BY PoolAssumption DEF PoolInv, QueueInv, TypeOK, PoolTypeOK
<1>2. /\ mon' = mon
      /\ job[id].at # "none"
      /\ \A j \in TaskId : j # id => job'[j] = job[j] /\ task'[j] = task[j]
  <2>1. CASE PoolStep(id) /\ UNCHANGED dvars
    BY <2>1, <1>1 DEF PoolStep, ObtainWorker, BeginJob, EndJob, FreeWorker, dvars
  <2>2. CASE TransferFile(id)
    BY <2>2, <1>1 DEF TransferFile
  <2>3. CASE EndTransfer(id)
    BY <2>3, <1>1 DEF EndTransfer, dvars
  <2>4. CASE RecycleFiles(id)
    BY <2>4, <1>1 DEF RecycleFiles
  <2> QED
    BY <2>1, <2>2, <2>3, <2>4 DEF JobStep
<1>3. task[id] \in TaskRow /\ task[id] # NoTask
  BY <1>1, <1>2 DEF PoolInv, QueueInv, JobHasTask
<1>4. \/ /\ job[id].at = "waiting" /\ job'[id].at = "obtained"
         /\ idle' = idle - 1 /\ task' = task
      \/ /\ job[id].at = "free" /\ job'[id].at = "none"
         /\ idle' = idle + 1 /\ task' = task
      \/ /\ HoldsWorker(id) /\ HoldsWorker(id)' /\ idle' = idle
         /\ task'[id] # NoTask
         /\ job'[id].at = "free" => task'[id].status \in {"error", "complete"}
  <2>1. CASE ObtainWorker(id)
    BY <2>1, <1>1 DEF ObtainWorker, Goroutine
  <2>2. CASE FreeWorker(id)
    BY <2>2, <1>1 DEF FreeWorker, NoJob
  <2>3. CASE BeginJob(id)
    <3>1. [task[id] EXCEPT !.status = "processing"] \in TaskRow
      BY <1>3 DEF TaskRow
    <3> QED
      BY <2>3, <3>1, <1>1, <1>3, PoolAssumption DEF BeginJob, HoldsWorker, Goroutine
  <2>4. CASE EndJob(id)
    <3>1. PICK s \in {"error", "complete"} : task' = [task EXCEPT ![id].status = s]
      BY <2>4 DEF EndJob
    <3>2. [task[id] EXCEPT !.status = s] \in TaskRow
      BY <1>3 DEF TaskRow
    <3>3. task'[id] # NoTask /\ task'[id].status = s
      BY <3>1, <3>2, <1>1, <1>3, PoolAssumption DEF TaskRow
    <3> QED
      BY <2>4, <3>3, <1>1 DEF EndJob, HoldsWorker, Goroutine
  <2>5. CASE TransferFile(id)
    <3>1. PICK ok \in BOOLEAN : job' = [job EXCEPT ![id] = AfterFile(@, ok)]
      BY <2>5 DEF TransferFile
    <3>2. job'[id].at = "run"
      BY <2>5, <3>1, <1>1 DEF TransferFile, AfterFile, Goroutine
    <3> QED
      BY <2>5, <3>2, <1>3 DEF TransferFile, HoldsWorker
  <2>6. CASE EndTransfer(id)
    BY <2>6, <1>1, <1>3 DEF EndTransfer, HoldsWorker, Goroutine
  <2>7. CASE RecycleFiles(id)
    BY <2>7, <1>1, <1>3 DEF RecycleFiles, HoldsWorker, Goroutine
  <2> QED
    BY <2>1, <2>2, <2>3, <2>4, <2>5, <2>6, <2>7 DEF JobStep, PoolStep
<1>5. WorkersConserved'
  <2>1. idle + Cardinality(Holders) = MaxWorkers /\ MaxWorkers \in Nat
    BY PoolAssumption DEF PoolInv, QueueInv, WorkersConserved, Holders
  <2>2. \A j \in TaskId : j # id => (HoldsWorker(j)' <=> HoldsWorker(j))
    BY <1>2 DEF HoldsWorker
  <2>3. idle' + Cardinality(Holders') = MaxWorkers
    <3>1. CASE job[id].at = "waiting" /\ job'[id].at = "obtained" /\ idle' = idle - 1
      <4>1. Holders' = Holders \cup {id} /\ id \notin Holders
        BY <3>1, <2>2 DEF Holders, HoldsWorker
      <4>2. Cardinality(Holders') = Cardinality(Holders) + 1
        BY <4>1, HoldersFinite, FS_AddElement
      <4> QED
        BY <3>1, <4>2, <2>1, <1>1, HoldersFinite
    <3>2. CASE job[id].at = "free" /\ job'[id].at = "none" /\ idle' = idle + 1
      <4>1. Holders' = Holders \ {id} /\ id \in Holders
        BY <3>2, <2>2 DEF Holders, HoldsWorker
      <4>2. Cardinality(Holders') = Cardinality(Holders) - 1
        BY <4>1, HoldersFinite, FS_RemoveElement
      <4> QED
        BY <3>2, <4>2, <2>1, <1>1, HoldersFinite
    <3>3. CASE HoldsWorker(id) /\ HoldsWorker(id)' /\ idle' = idle
      <4>1. Holders' = Holders
        BY <3>3, <2>2 DEF Holders
      <4> QED
        BY <3>3, <4>1, <2>1
    <3> QED
      BY <1>4, <3>1, <3>2, <3>3
  <2> QED
    BY <2>3 DEF WorkersConserved, Holders
<1>6. JobHasTask'
  <2>1. task'[id] # NoTask
    BY <1>3, <1>4
  <2> QED
    BY <2>1, <1>2 DEF PoolInv, QueueInv, JobHasTask
<1>7. FreedIsEnded'
  <2>1. job'[id].at = "free" => task'[id] # NoTask /\ task'[id].status \in {"error", "complete"}
    BY <1>4
  <2> QED
    BY <2>1, <1>2 DEF PoolInv, QueueInv, FreedIsEnded, Ended
<1>8. SubmitsFresh'
  <2>1. \A d \in Download : Submitting(d) => mon[d].id # id
    BY <1>2 DEF PoolInv, QueueInv, SubmitsFresh
  <2> QED
    BY <2>1, <1>2 DEF PoolInv, QueueInv, SubmitsFresh, Submitting
<1>9. JobsHeld'
  <2>1. Unfinished(id)' => job'[id].at # "none"
    <3>1. CASE job[id].at = "free" /\ task' = task
      BY <3>1 DEF PoolInv, QueueInv, FreedIsEnded, Ended, Unfinished
    <3>2. CASE ~(job[id].at = "free" /\ task' = task)
      BY <3>2, <1>4 DEF HoldsWorker
    <3> QED
      BY <3>1, <3>2
  <2>2. ASSUME NEW j \in TaskId, j # id, Unfinished(j)'
        PROVE  \/ job'[j].at # "none"
               \/ \E e \in Download : mon'[e].at \in {"submit", "submitRecycle"} /\ mon'[e].id = j
    <3>1. Unfinished(j)
      BY <2>2, <1>2 DEF Unfinished
    <3> QED
      BY <3>1, <2>2, <1>2 DEF PoolInv, QueueInv, JobsHeld
  <2> QED
    BY <2>1, <2>2 DEF JobsHeld
<1> QED
  BY <1>5, <1>6, <1>7, <1>8, <1>9 DEF QueueInv

(* The server starts again: all workers are free, unfinished tasks wait. *)
LEMMA RestartStep ==
    ASSUME PoolInv, Restart
    PROVE  QueueInv'
<1>1. Resume /\ task' = task
  BY DEF Restart, Resume
<1>2. \A id \in TaskId : job'[id] = IF Unfinished(id) THEN Waiting ELSE NoJob
  BY <1>1 DEF Resume
<1>3. \A id \in TaskId : job'[id].at \in {"none", "waiting"}
                         /\ (job'[id].at # "none" => task[id] # NoTask)
  BY <1>2 DEF Waiting, NoJob, Unfinished
<1>4. WorkersConserved'
  <2>1. {id \in TaskId : HoldsWorker(id)}' = {}
    BY <1>3 DEF HoldsWorker
  <2>2. idle' = MaxWorkers
    BY <1>1 DEF Resume
  <2> QED
    BY <2>1, <2>2, FS_EmptySet, PoolAssumption DEF WorkersConserved
<1>5. JobHasTask' /\ FreedIsEnded'
  BY <1>1, <1>3 DEF JobHasTask, FreedIsEnded
<1>6. SubmitsFresh'
  <2>1. mon \in [Download -> Monitor]
    BY DEF PoolInv, QueueInv, TypeOK
  <2>2. \A d \in Download : mon'[d] = IF MonitorAt(d, "none") THEN mon[d]
                                      ELSE [mon[d] EXCEPT !.at = "off"]
    BY DEF Restart
  <2>3. \A d \in Download : mon'[d].at \in {"none", "off"}
    BY <2>1, <2>2 DEF MonitorAt, Monitor
  <2> QED
    BY <2>3 DEF SubmitsFresh, Submitting
<1>7. JobsHeld'
  BY <1>1, <1>2 DEF JobsHeld, Unfinished, Waiting, NoJob
<1> QED
  BY <1>4, <1>5, <1>6, <1>7 DEF QueueInv
-----------------------------------------------------------------------------
(* Steps of a download *)

(* aria2 has been told before there is a record or a monitor, and keeps the  *)
(* download in some state for ever.                                         *)
LEMMA AriaKnowsStep ==
    ASSUME TypeOK, AriaKnows, [Next]_vars
    PROVE  AriaKnows'
<1> USE DEF AriaKnows, Exists
<1>1. mon \in [Download -> Monitor] /\ row \in [Download -> DownloadRow \cup {NoDownload}]
      /\ aria \in [Download -> [gid : 1 .. 2, state : {"none"} \cup Status]]
  BY DEF TypeOK
<1>2. ASSUME NEW d \in Download, AddDownload(d)
      PROVE  AriaKnows'
  BY <1>1, <1>2 DEF AddDownload, MonitorAt, GotoStage, Monitor, Stage
<1>3. ASSUME NEW d \in Download, DeleteDownload(d)
      PROVE  AriaKnows'
  BY <1>1, <1>3 DEF DeleteDownload, CancelInAria, MonitorAt, GotoStage, Monitor, Stage
<1>4. ASSUME NEW d \in Download, InsertDownload(d)
      PROVE  AriaKnows'
  BY <1>1, <1>4 DEF InsertDownload, MonitorAt, GotoStage, Monitor, Stage
<1>5. ASSUME NEW d \in Download, InsertDownloadFails(d)
      PROVE  AriaKnows'
  BY <1>1, <1>5 DEF InsertDownloadFails, MonitorAt, GotoStage, Monitor, Stage
<1>6. ASSUME NEW d \in Download, Poll(d)
      PROVE  AriaKnows'
  BY <1>1, <1>6 DEF Poll, MonitorAt, GotoStage, Monitor, Stage
<1>7. ASSUME NEW d \in Download, PollFails(d)
      PROVE  AriaKnows'
  BY <1>1, <1>7 DEF PollFails, MonitorAt, GotoStage, Monitor, Stage
<1>8. ASSUME NEW d \in Download, FollowDownload(d)
      PROVE  AriaKnows'
  BY <1>1, <1>8 DEF FollowDownload, Save, Monitor, MonitorAt, GotoStage, Stage
<1>9. ASSUME NEW d \in Download, UpdateTaskInfo(d)
      PROVE  AriaKnows'
  BY <1>1, <1>9 DEF UpdateTaskInfo, Save, Monitor, MonitorAt, GotoStage, Stage, Handle
<1>10. ASSUME NEW d \in Download, RejectDownload(d)
      PROVE  AriaKnows'
  BY <1>1, <1>10 DEF RejectDownload, CancelInAria, MonitorAt, GotoStage, Monitor, Stage
<1>11. ASSUME NEW d \in Download, SetErrorStatus(d)
      PROVE  AriaKnows'
  BY <1>1, <1>11 DEF SetErrorStatus, Save, Monitor, MonitorAt, GotoStage, Stage
<1>12. ASSUME NEW d \in Download, SetCanceled(d)
      PROVE  AriaKnows'
  BY <1>1, <1>12 DEF SetCanceled, Save, Monitor, MonitorAt, GotoStage, Stage
<1>13. ASSUME NEW d \in Download, RemoveTempFolder(d)
      PROVE  AriaKnows'
  BY <1>1, <1>13 DEF RemoveTempFolder, MonitorAt, GotoStage, Monitor, Stage
<1>14. ASSUME NEW d \in Download, RecordTransfer(d)
      PROVE  AriaKnows'
  BY <1>1, <1>14 DEF RecordTransfer, MonitorAt, GotoStage, Monitor, Stage
<1>15. ASSUME NEW d \in Download, SubmitTransfer(d)
      PROVE  AriaKnows'
  BY <1>1, <1>15 DEF SubmitTransfer, MonitorAt, GotoStage, Monitor, Stage
<1>16. ASSUME NEW d \in Download, LinkTransfer(d)
      PROVE  AriaKnows'
  BY <1>1, <1>16 DEF LinkTransfer, Save, Monitor, MonitorAt, GotoStage, Stage
<1>17. ASSUME NEW d \in Download, AwaitTransfer(d)
      PROVE  AriaKnows'
  BY <1>1, <1>17 DEF AwaitTransfer, MonitorAt, GotoStage, Monitor, Stage
<1>18. ASSUME NEW d \in Download, RecordRecycle(d)
      PROVE  AriaKnows'
  BY <1>1, <1>18 DEF RecordRecycle, MonitorAt, GotoStage, Monitor, Stage
<1>19. ASSUME NEW d \in Download, SubmitRecycle(d)
      PROVE  AriaKnows'
  BY <1>1, <1>19 DEF SubmitRecycle, MonitorAt, GotoStage, Monitor, Stage
<1>20. ASSUME NEW d \in Download, RecordFails(d)
      PROVE  AriaKnows'
  BY <1>1, <1>20 DEF RecordFails, MonitorAt, GotoStage, Monitor, Stage
<1>21. ASSUME NEW d \in Download, DeleteTempFile(d)
      PROVE  AriaKnows'
  BY <1>1, <1>21 DEF DeleteTempFile, MonitorAt, GotoStage, Monitor, Stage
<1>22. ASSUME NEW d \in Download, AriaFollow(d)
      PROVE  AriaKnows'
  BY <1>1, <1>22 DEF AriaFollow, MonitorAt, GotoStage, Monitor, Stage
<1>23. ASSUME NEW d \in Download, AriaFinish(d)
      PROVE  AriaKnows'
  BY <1>1, <1>23 DEF AriaFinish, MonitorAt, GotoStage, Monitor, Stage
<1>24. ASSUME NEW d \in Download, AriaFail(d)
      PROVE  AriaKnows'
  BY <1>1, <1>24 DEF AriaFail, MonitorAt, GotoStage, Monitor, Stage
<1>25. ASSUME NEW id \in TaskId, JobStep(id)
      PROVE  AriaKnows'
  <2>1. UNCHANGED <<row, mon, aria>>
    BY <1>25 DEF JobStep, TransferFile, EndTransfer, RecycleFiles, dvars
  <2> QED
    BY <2>1
<1>26. CASE Restart
  BY <1>1, <1>26 DEF Restart, MonitorAt, Monitor
<1>27. CASE InitMonitors
  BY <1>1, <1>27 DEF InitMonitors, Resumable, NoMonitor
<1>28. CASE UNCHANGED vars
  BY <1>28 DEF vars, dvars
<1> QED
  BY <1>2, <1>3, <1>4, <1>5, <1>6, <1>7, <1>8, <1>9, <1>10, <1>11, <1>12, <1>13, <1>14,
     <1>15, <1>16, <1>17, <1>18, <1>19, <1>20, <1>21, <1>22, <1>23, <1>24, <1>25,
     <1>26, <1>27, <1>28
  DEF Next, MonitorStep, AriaStep

(* What a step of a download means for the queue. *)
LEMMA DownloadInvStep ==
    ASSUME PoolInv, NEW d \in Download,
           \/ AddDownload(d) \/ DeleteDownload(d) \/ MonitorStep(d)
           \/ DeleteTempFile(d) \/ AriaStep(d) \/ AriaFail(d)
    PROVE  QueueInv'
<1>1. TypeOK
  BY DEF PoolInv
<1>2. CASE RecordTransfer(d) \/ RecordRecycle(d)
  <2>1. PICK type \in {"transfer", "recycle"}, at \in {"submit", "submitRecycle"} :
          /\ ~Submitting(d) /\ Record(type, d)
          /\ mon' = [mon EXCEPT ![d].at = at, ![d].id = NextId]
    BY <1>2 DEF RecordTransfer, RecordRecycle, Submitting, MonitorAt
  <2> QED
    BY <2>1, RecordStep
<1>3. CASE SubmitTransfer(d) \/ SubmitRecycle(d)
  <2>1. PICK at \in {"link", "off"} :
          Submitting(d) /\ Submit(mon[d].id) /\ mon' = [mon EXCEPT ![d].at = at]
    BY <1>3 DEF SubmitTransfer, SubmitRecycle, Submitting, MonitorAt, GotoStage
  <2> QED
    BY <2>1, SubmitStep
<1>4. CASE /\ ~RecordTransfer(d) /\ ~RecordRecycle(d)
           /\ ~SubmitTransfer(d) /\ ~SubmitRecycle(d)
  BY <1>1, <1>4, CalmOtherwise, CalmStep
<1> QED
  BY <1>2, <1>3, <1>4

(* A monitor that goes on is neither unborn nor off. *)
LEMMA MonitorRuns ==
    ASSUME NEW d \in Download, MonitorStep(d)
    PROVE  mon[d].at \notin {"none", "off"} /\ ready' = ready
BY
DEF MonitorStep, MonitorAt, InsertDownload, InsertDownloadFails, Poll, PollFails,
    FollowDownload, UpdateTaskInfo, RejectDownload, SetErrorStatus, SetCanceled,
    RemoveTempFolder, RecordTransfer, SubmitTransfer, LinkTransfer, AwaitTransfer,
    RecordRecycle, SubmitRecycle, RecordFails

(* No step adds or monitors a download before the server has started. *)
LEMMA QuietStep ==
    ASSUME TypeOK, Quiet, [Next]_vars
    PROVE  Quiet'
<1>1. ASSUME NEW d \in Download, AddDownload(d) \/ DeleteDownload(d) \/ MonitorStep(d)
      PROVE  Quiet'
  BY <1>1, MonitorRuns DEF Quiet, AddDownload, DeleteDownload
<1>2. ASSUME NEW d \in Download, DeleteTempFile(d) \/ AriaStep(d) \/ AriaFail(d)
      PROVE  Quiet'
  BY <1>2 DEF Quiet, DeleteTempFile, AriaStep, AriaFollow, AriaFinish, AriaFail
<1>3. ASSUME NEW id \in TaskId, JobStep(id)
      PROVE  Quiet'
  BY <1>3 DEF Quiet, JobStep, TransferFile, EndTransfer, RecycleFiles, dvars
<1>4. CASE Restart
  <2>1. mon \in [Download -> Monitor]
    BY DEF TypeOK
  <2>2. \A d \in Download : mon'[d] = IF MonitorAt(d, "none") THEN mon[d]
                                      ELSE [mon[d] EXCEPT !.at = "off"]
    BY <1>4 DEF Restart
  <2> QED
    BY <2>1, <2>2 DEF MonitorAt, Monitor, Quiet
<1>5. CASE InitMonitors
  BY <1>5 DEF InitMonitors, Quiet
<1>6. CASE UNCHANGED vars
  BY <1>6 DEF vars, dvars, Quiet
<1> QED
  BY <1>1, <1>2, <1>3, <1>4, <1>5, <1>6 DEF Next
-----------------------------------------------------------------------------
(* The theorems *)

LEMMA PoolInvInit == Init => PoolInv
<1> SUFFICES ASSUME Init PROVE PoolInv
  OBVIOUS
<1>1. TypeOK
  BY PoolAssumption, DownloadAssumption
    DEF Init, PoolInit, TypeOK, PoolTypeOK, NoJob, Goroutine, NoMonitor, Monitor,
        Stage, Status
<1>2. {id \in TaskId : HoldsWorker(id)} = {}
  BY DEF Init, PoolInit, HoldsWorker, NoJob
<1>3. WorkersConserved
  <2>1. Cardinality({id \in TaskId : HoldsWorker(id)}) = 0
    BY <1>2, FS_EmptySet
  <2>2. idle = MaxWorkers
    BY DEF Init, PoolInit
  <2> QED
    BY <2>1, <2>2, PoolAssumption DEF WorkersConserved
<1>4. JobHasTask /\ FreedIsEnded /\ AriaKnows /\ SubmitsFresh /\ Quiet
  BY DEF Init, PoolInit, NoJob, NoMonitor, JobHasTask, FreedIsEnded, AriaKnows, Exists,
         SubmitsFresh, Submitting, Quiet
<1>5. JobsHeld
  BY DEF Init, PoolInit, JobsHeld, Unfinished
<1> QED
  BY <1>1, <1>3, <1>4, <1>5 DEF PoolInv, QueueInv

(* Every step keeps the invariant, *)
LEMMA PoolInvStep == PoolInv /\ [Next]_vars => PoolInv'
<1> SUFFICES ASSUME PoolInv, [Next]_vars PROVE PoolInv'
  OBVIOUS
<1>1. TypeOK /\ WorkersConserved /\ JobHasTask /\ AriaKnows /\ Quiet
  BY DEF PoolInv, QueueInv
<1>2. AriaKnows' /\ Quiet'
  BY <1>1, AriaKnowsStep, QuietStep
<1>3. ASSUME NEW d \in Download,
             \/ AddDownload(d) \/ DeleteDownload(d) \/ MonitorStep(d)
             \/ DeleteTempFile(d) \/ AriaStep(d) \/ AriaFail(d)
      PROVE  TypeOK' /\ QueueInv'
  BY <1>1, <1>3, DownloadTypeStep, DownloadInvStep
<1>4. ASSUME NEW id \in TaskId, JobStep(id)
      PROVE  TypeOK' /\ QueueInv'
  BY <1>1, <1>4, JobTypeStep, JobInvStep
<1>5. ASSUME Restart
      PROVE  TypeOK' /\ QueueInv'
  BY <1>1, <1>5, RestartTypeStep, RestartStep
<1>6. ASSUME InitMonitors
      PROVE  TypeOK' /\ QueueInv'
  <2>1. mon \in [Download -> Monitor]
    BY <1>1 DEF TypeOK
  <2>2. \A d \in Download : mon[d].at \in {"none", "off"}
    BY <1>1, <1>6 DEF InitMonitors, Quiet
  <2>3. Calm
    BY <1>6, <2>1, <2>2 DEF InitMonitors, NoMonitor, Submitting, Calm
  <2> QED
    BY <1>1, <1>6, <2>3, RestartTypeStep, CalmStep
<1>7. ASSUME UNCHANGED vars
      PROVE  TypeOK' /\ QueueInv'
  <2>1. TypeOK'
    BY <1>1, <1>7 DEF TypeOK, PoolTypeOK, vars, dvars, pool
  <2>2. Calm
    BY <1>7 DEF vars, dvars, Calm, Submitting
  <2> QED
    BY <2>1, <2>2, CalmStep
<1>8. TypeOK' /\ QueueInv'
  BY <1>3, <1>4, <1>5, <1>6, <1>7 DEF Next
<1> QED
  BY <1>2, <1>8 DEF PoolInv

(* which therefore always holds. *)
LEMMA PoolInvariant == Spec => []PoolInv
BY PoolInvInit, PoolInvStep, PTL DEF Spec

(* Every variable has its type, and no more workers are idle than there are: *)
(* the channel idleWorker never overflows.                                  *)
THEOREM TypeCorrect == Spec => []TypeOK
<1>1. PoolInv => TypeOK
  BY DEF PoolInv
<1> QED
  BY <1>1, PoolInvariant, PTL

(* Workers are neither lost nor made up, by a job that ends, fails or is     *)
(* interrupted by a restart.                                                *)
THEOREM WorkersSafe == Spec => []WorkersConserved
<1>1. PoolInv => WorkersConserved
  BY DEF PoolInv, QueueInv
<1> QED
  BY <1>1, PoolInvariant, PTL

(* A task that the table shows as unfinished has its goroutine, or a monitor *)
(* is about to start it, however often the server stops.                    *)
THEOREM NoJobForgotten == Spec => []JobsHeld
<1>1. PoolInv => JobsHeld
  BY DEF PoolInv, QueueInv
<1> QED
  BY <1>1, PoolInvariant, PTL
-----------------------------------------------------------------------------
(* What a step does to the queue: nothing, a monitor records a task, a       *)
(* monitor submits the task it has recorded, a job goes on, or a restart.    *)

(* A monitor records a task, *)
Records(d, type, at) ==
    /\ ~Submitting(d) /\ Record(type, d)
    /\ mon' = [mon EXCEPT ![d].at = at, ![d].id = NextId]
(* and submits it. *)
Submits(d, at) ==
    /\ Submitting(d) /\ Submit(mon[d].id)
    /\ mon' = [mon EXCEPT ![d].at = at]

(* Every step is one of these, and no file that has arrived is lost. *)
LEMMA QueueMoves ==
    ASSUME PoolInv, [Next]_vars
    PROVE  \/ Calm /\ stored' = stored
           \/ /\ stored' = stored
              /\ \E d \in Download : \/ Records(d, "transfer", "submit")
                                     \/ Records(d, "recycle", "submitRecycle")
                                     \/ Submits(d, "link") \/ Submits(d, "off")
           \/ \E id \in TaskId : JobStep(id)
           \/ Resume /\ Restart /\ stored' = stored
<1>1. TypeOK /\ Quiet
  BY DEF PoolInv
<1>2. ASSUME NEW d \in Download,
             \/ AddDownload(d) \/ DeleteDownload(d) \/ MonitorStep(d)
             \/ DeleteTempFile(d) \/ AriaStep(d) \/ AriaFail(d)
      PROVE  \/ Calm /\ stored' = stored
             \/ /\ stored' = stored
                /\ \/ Records(d, "transfer", "submit")
                   \/ Records(d, "recycle", "submitRecycle")
                   \/ Submits(d, "link") \/ Submits(d, "off")
  <2>1. CASE RecordTransfer(d) \/ RecordRecycle(d)
    BY <2>1 DEF RecordTransfer, RecordRecycle, Records, Submitting, MonitorAt
  <2>2. CASE SubmitTransfer(d) \/ SubmitRecycle(d)
    BY <2>2 DEF SubmitTransfer, SubmitRecycle, Submits, Submitting, MonitorAt, GotoStage
  <2> QED
    BY <1>1, <1>2, <2>1, <2>2, CalmOtherwise
<1>3. Restart => Resume /\ stored' = stored
  BY DEF Restart
<1>4. ASSUME InitMonitors PROVE Calm /\ stored' = stored
  <2>1. \A d \in Download : mon[d].at \in {"none", "off"}
    BY <1>1, <1>4 DEF InitMonitors, Quiet
  <2> QED
    BY <1>1, <1>4, <2>1 DEF InitMonitors, NoMonitor, Calm, TypeOK
<1>5. UNCHANGED vars => Calm /\ stored' = stored
  BY DEF vars, dvars, Calm
<1> QED
  BY <1>2, <1>3, <1>4, <1>5 DEF Next

(* A job goes from stage to stage and keeps its task's type and download. *)
JobGoes(id, from, to) == job[id].at = from /\ job'[id].at = to
StatusStays(id) == task'[id].status = task[id].status

(* A step of a job moves its goroutine one stage on, or stores one file, and*)
(* touches no other goroutine and no other task.                           *)
LEMMA JobMoves ==
    ASSUME PoolInv, NEW id \in TaskId, JobStep(id)
    PROVE  /\ UNCHANGED <<row, mon, aria, temp, ready>>
           /\ \A b \in {"polls", "aria", "deletes", "restarts"} : budget'[b] = budget[b]
           /\ \A j \in TaskId \ {id} : job'[j] = job[j] /\ task'[j] = task[j]
           /\ task[id] # NoTask /\ task'[id] # NoTask
           /\ task'[id].type = task[id].type /\ task'[id].of = task[id].of
           /\ task[id].of \in Download
           /\ \A d \in Download : stored[d] \subseteq stored'[d]
           /\ \/ /\ JobGoes(id, "waiting", "obtained") /\ StatusStays(id)
                 /\ job'[id].n = job[id].n
              \/ /\ JobGoes(id, "obtained", "run") /\ task'[id].status = "processing"
                 /\ job'[id].n = job[id].n
              \/ /\ JobGoes(id, "run", "run") /\ StatusStays(id)
                 /\ job[id].n < Files /\ job'[id].n = job[id].n + 1
                 /\ ~job'[id].failed => /\ ~job[id].failed
                                        /\ job[id].n + 1 \in stored'[task[id].of]
              \/ /\ JobGoes(id, "run", "finish") /\ StatusStays(id)
                 /\ job'[id].n = job[id].n
                 /\ task[id].type = "transfer" => /\ job[id].n = Files
                                                  /\ job'[id].failed = job[id].failed
              \/ /\ JobGoes(id, "finish", "free")
                 /\ task'[id].status = IF job[id].failed THEN "error" ELSE "complete"
              \/ JobGoes(id, "free", "none") /\ StatusStays(id)
           /\ \/ removing' = removing
              \/ /\ job[id].at = "run" /\ task[id].type = "recycle"
                 /\ removing' = removing \cup {task[id].of}
<1>1. /\ job \in [TaskId -> Goroutine] /\ task \in [TaskId -> TaskRow \cup {NoTask}]
      /\ stored \in [Download -> SUBSET (1 .. Files)]
      /\ budget \in [{"polls", "aria", "db", "stores", "deletes", "restarts"} -> Nat]
      /\ job[id] \in Goroutine
  BY DEF PoolInv, TypeOK, PoolTypeOK
<1>2. task[id] # NoTask /\ task[id] \in TaskRow /\ task[id].of \in Download
  <2>1. job[id].at # "none"
    BY DEF JobStep, PoolStep, ObtainWorker, BeginJob, EndJob, FreeWorker, TransferFile,
           EndTransfer, RecycleFiles
  <2> QED
    BY <1>1, <2>1, DownloadAssumption DEF PoolInv, QueueInv, JobHasTask, TaskRow
<1>3. \A status \in {"queued", "processing", "error", "complete"} :
        LET t == [task[id] EXCEPT !.status = status] IN
          /\ t # NoTask /\ t.type = task[id].type /\ t.of = task[id].of
          /\ t.status = status
  BY <1>2, PoolAssumption DEF TaskRow
<1> USE DEF JobGoes, StatusStays
<1>4. CASE ObtainWorker(id) /\ UNCHANGED dvars
  BY <1>1, <1>2, <1>4 DEF ObtainWorker, dvars, Goroutine
<1>5. CASE BeginJob(id) /\ UNCHANGED dvars
  BY <1>1, <1>2, <1>3, <1>5 DEF BeginJob, dvars, Goroutine
<1>6. CASE EndJob(id) /\ UNCHANGED dvars
  <2>1. PICK s \in {"error", "complete"} :
          /\ task' = [task EXCEPT ![id].status = s]
          /\ s = IF job[id].failed THEN "error" ELSE "complete"
    BY <1>6 DEF EndJob
  <2>2. task'[id] = [task[id] EXCEPT !.status = s]
    BY <1>1, <2>1
  <2> QED
    BY <1>1, <1>2, <1>3, <1>6, <2>1, <2>2 DEF EndJob, dvars, Goroutine
<1>7. CASE FreeWorker(id) /\ UNCHANGED dvars
  BY <1>1, <1>2, <1>7 DEF FreeWorker, dvars, Goroutine, NoJob
<1>8. CASE TransferFile(id)
  <2> DEFINE d == task[id].of
             k == job[id].n + 1
  <2>1. PICK ok \in BOOLEAN :
          /\ job' = [job EXCEPT ![id] = AfterFile(@, ok)]
          /\ stored' = IF ok THEN [stored EXCEPT ![d] = @ \cup {k}] ELSE stored
          /\ Spend("stores") \/ UNCHANGED budget
    BY <1>8 DEF TransferFile
  <2>2. /\ job[id].at = "run" /\ job[id].n < Files
        /\ UNCHANGED <<row, mon, aria, temp, removing, ready, task>>
    BY <1>8 DEF TransferFile
  <2>3. /\ job'[id].at = "run" /\ job'[id].n = job[id].n + 1
        /\ ~job'[id].failed => ~job[id].failed /\ ok
        /\ \A j \in TaskId \ {id} : job'[j] = job[j]
    <3>1. job'[id] = AfterFile(job[id], ok) /\ \A j \in TaskId \ {id} : job'[j] = job[j]
      BY <1>1, <2>1
    <3> QED
      BY <1>1, <2>2, <3>1 DEF AfterFile, Goroutine
  <2>4. /\ \A e \in Download : stored[e] \subseteq stored'[e]
        /\ ok => k \in stored'[d]
    BY <1>1, <1>2, <2>1
  <2>5. \A b \in {"polls", "aria", "deletes", "restarts"} : budget'[b] = budget[b]
    BY <1>1, <2>1 DEF Spend
  <2> QED
    BY <1>2, <2>2, <2>3, <2>4, <2>5
<1>9. CASE EndTransfer(id)
  BY <1>1, <1>2, <1>9 DEF EndTransfer, dvars, Goroutine
<1>10. CASE RecycleFiles(id)
  BY <1>1, <1>2, <1>10 DEF RecycleFiles, Goroutine
<1> QED
  BY <1>4, <1>5, <1>6, <1>7, <1>8, <1>9, <1>10 DEF JobStep, PoolStep
-----------------------------------------------------------------------------
(* Transfers *)

(* Only an unfinished task is worked on, or about to be submitted. *)
Live ==
    /\ \A id \in TaskId :
         job[id].at \in {"waiting", "obtained", "run", "finish"} => Unfinished(id)
    /\ \A d \in Download : Submitting(d) => Unfinished(mon[d].id)

Is(id, type) == task[id] # NoTask /\ task[id].type = type
Arrived(id, n) == 1 .. n \subseteq stored[task[id].of]

(* A transfer without a failure has brought as many files as it has counted, *)
(* and counts them anew when it is taken up again.                          *)
Brought ==
    \A id \in TaskId : Is(id, "transfer") =>
        /\ job[id].at \in {"waiting", "obtained"} => job[id].n = 0
        /\ job[id].at = "run" =>
             job[id].n <= Files /\ (job[id].failed \/ Arrived(id, job[id].n))
        /\ job[id].at = "finish" => job[id].failed \/ Arrived(id, Files)
        /\ task[id].status = "complete" => Arrived(id, Files)

(* A row just inserted is new and queued, and the monitor has noted it. *)
NewTask(d, type, at, new) ==
    /\ task[new] = NoTask /\ job[new].at = "none" /\ job' = job
    /\ task'[new] # NoTask /\ task'[new].type = type
    /\ task'[new].of = d /\ task'[new].status = "queued"
    /\ \A id \in TaskId \ {new} : task'[id] = task[id]
    /\ mon'[d] = [mon[d] EXCEPT !.at = at, !.id = new]
    /\ mon'[d].at = at /\ mon'[d].id = new
    /\ \A e \in Download \ {d} : mon'[e] = mon[e]

(* A monitor that records a task has inserted a new row. *)
LEMMA Recorded ==
    ASSUME PoolInv, NEW d \in Download, NEW type \in {"transfer", "recycle"},
           NEW at \in Stage, Records(d, type, at)
    PROVE  \E new \in TaskId : NewTask(d, type, at, new)
<1>1. NextId \in TaskId /\ task[NextId] = NoTask
  BY NextIdUnused DEF Records, Record
<1>2. [type |-> type, of |-> d, status |-> "queued"] \in TaskRow
  BY DownloadAssumption DEF TaskRow
<1>3. /\ task \in [TaskId -> TaskRow \cup {NoTask}] /\ mon \in [Download -> Monitor]
      /\ job[NextId].at = "none"
  BY <1>1 DEF PoolInv, TypeOK, PoolTypeOK, QueueInv, JobHasTask
<1>4. mon'[d] = [mon[d] EXCEPT !.at = at, !.id = NextId]
  BY <1>3 DEF Records
<1>5. mon[d] \in Monitor
  BY <1>3
<1>6. mon'[d].at = at /\ mon'[d].id = NextId
  BY <1>4, <1>5 DEF Monitor
<1>7. NewTask(d, type, at, NextId)
  BY <1>1, <1>2, <1>3, <1>4, <1>6, PoolAssumption DEF Records, Record, NewTask
<1> QED
  BY <1>1, <1>7

(* A task just submitted waits, with nothing counted. *)
LEMMA Submitted ==
    ASSUME PoolInv, NEW d \in Download, NEW at \in Stage, Submits(d, at)
    PROVE  LET id == mon[d].id IN
             /\ id \in TaskId /\ task[id] # NoTask /\ task' = task
             /\ job'[id].at = "waiting" /\ job'[id].n = 0
             /\ \A i \in TaskId \ {id} : job'[i] = job[i]
             /\ mon'[d] = [mon[d] EXCEPT !.at = at] /\ mon'[d].at = at
             /\ \A e \in Download \ {d} : mon'[e] = mon[e]
<1>1. /\ job \in [TaskId -> Goroutine] /\ mon \in [Download -> Monitor]
      /\ mon[d].id \in TaskId /\ task[mon[d].id] # NoTask
  BY DEF PoolInv, TypeOK, PoolTypeOK, QueueInv, SubmitsFresh, Submits
<1>2. mon'[d] = [mon[d] EXCEPT !.at = at] /\ mon'[d].at = at
  BY <1>1 DEF Submits, Monitor
<1> QED
  BY <1>1, <1>2 DEF Submits, Submit, Waiting, NoJob

(* No step works on a task that has ended. *)
LEMMA LiveNext ==
    ASSUME PoolInv, Live, [Next]_vars
    PROVE  Live'
<1>0. Stage # {} /\ \A at \in {"submit", "submitRecycle", "link", "off"} : at \in Stage
  BY DEF Stage
<1>1. CASE Calm
  BY <1>1 DEF Live, Calm, pool, Unfinished, Submitting
<1>2. ASSUME NEW d \in Download, NEW type \in {"transfer", "recycle"},
             NEW at \in {"submit", "submitRecycle"}, Records(d, type, at)
      PROVE  Live'
  <2>0. at \in Stage
    BY <1>0
  <2>1. PICK new \in TaskId : NewTask(d, type, at, new)
    BY <1>2, <2>0, Recorded
  <2>2. Unfinished(new)' /\ \A id \in TaskId : Unfinished(id) => Unfinished(id)'
    BY <2>1 DEF Unfinished, NewTask
  <2>3. ASSUME NEW e \in Download, Submitting(e)' PROVE Unfinished(mon[e].id)'
    <3>1. CASE e = d
      BY <2>1, <2>2, <3>1 DEF Unfinished, NewTask
    <3>2. CASE e # d
      <4>1. mon'[e] = mon[e]
        BY <2>1, <3>2 DEF NewTask
      <4>2. Submitting(e) /\ mon[e].id \in TaskId /\ Unfinished(mon[e].id)
        BY <2>3, <4>1 DEF Submitting, Live, PoolInv, QueueInv, SubmitsFresh
      <4> QED
        BY <2>2, <4>1, <4>2 DEF Unfinished
    <3> QED
      BY <3>1, <3>2
  <2> QED
    BY <2>1, <2>2, <2>3 DEF Live, NewTask
<1>3. ASSUME NEW d \in Download, NEW at \in {"link", "off"}, Submits(d, at)
      PROVE  Live'
  <2>0. at \in Stage
    BY <1>0
  <2>1. PICK id \in TaskId : id = mon[d].id
    BY <1>3, <2>0, Submitted
  <2>a. /\ task' = task /\ job'[id].at = "waiting"
        /\ \A i \in TaskId \ {id} : job'[i] = job[i]
        /\ mon'[d].at = at /\ \A e \in Download \ {d} : mon'[e] = mon[e]
    BY <1>3, <2>0, <2>1, Submitted
  <2>2. \A i : Unfinished(i)' <=> Unfinished(i)
    BY <2>a DEF Unfinished
  <2>3. Unfinished(id)
    BY <1>3, <2>1 DEF Submits, Live
  <2>4. ASSUME NEW e \in Download, Submitting(e)' PROVE Unfinished(mon[e].id)'
    <3>1. e # d
      BY <2>a, <2>4 DEF Submitting
    <3>2. mon'[e] = mon[e] /\ Submitting(e)
      BY <2>a, <2>4, <3>1 DEF Submitting
    <3>3. Unfinished(mon[e].id)
      BY <3>2 DEF Live
    <3> QED
      BY <2>a, <3>2, <3>3 DEF Unfinished
  <2>5. \A i \in TaskId : job'[i].at \in {"waiting", "obtained", "run", "finish"}
                          => Unfinished(i)
    BY <2>a, <2>3 DEF Live
  <2> QED
    BY <2>2, <2>4, <2>5 DEF Live
<1>4. ASSUME NEW id \in TaskId, JobStep(id) PROVE Live'
  <2>1. \A i \in TaskId \ {id} : Unfinished(i)' <=> Unfinished(i)
    BY <1>4, JobMoves DEF Unfinished
  <2>2. job'[id].at \in {"waiting", "obtained", "run", "finish"} => Unfinished(id)'
    BY <1>4, JobMoves DEF Live, Unfinished, JobGoes, StatusStays
  <2>3. ASSUME NEW e \in Download, Submitting(e)' PROVE Unfinished(mon[e].id)'
    <3>1. /\ Submitting(e) /\ mon' = mon /\ mon[e].id \in TaskId
          /\ job[mon[e].id].at = "none"
      BY <1>4, <2>3, JobMoves DEF Submitting, PoolInv, QueueInv, SubmitsFresh
    <3>2. mon[e].id # id
      BY <1>4, <3>1, JobMoves DEF JobGoes
    <3>3. Unfinished(mon[e].id)
      BY <3>1 DEF Live
    <3>4. task'[mon[e].id] = task[mon[e].id]
      BY <1>4, <3>1, <3>2, JobMoves
    <3> QED
      BY <3>1, <3>3, <3>4 DEF Unfinished
  <2> QED
    BY <1>4, <2>1, <2>2, <2>3, JobMoves DEF Live
<1>5. CASE Resume /\ Restart
  <2>1. \A id \in TaskId : /\ job'[id] = IF Unfinished(id) THEN Waiting ELSE NoJob
                           /\ Unfinished(id)' <=> Unfinished(id)
    BY <1>5 DEF Resume, Unfinished
  <2>2. \A d \in Download : ~Submitting(d)'
    <3>1. mon \in [Download -> Monitor]
      BY DEF PoolInv, TypeOK
    <3>2. \A d \in Download : mon'[d] = IF MonitorAt(d, "none") THEN mon[d]
                                        ELSE [mon[d] EXCEPT !.at = "off"]
      BY <1>5 DEF Restart
    <3> QED
      BY <3>1, <3>2 DEF MonitorAt, Monitor, Submitting
  <2> QED
    BY <2>1, <2>2 DEF Live, Waiting, NoJob
<1> QED
  BY <1>1, <1>2, <1>3, <1>4, <1>5, QueueMoves

(* No step counts a file that has not arrived. *)
LEMMA BroughtNext ==
    ASSUME PoolInv, Brought, [Next]_vars
    PROVE  Brought'
<1>0. /\ \A at \in {"submit", "submitRecycle", "link", "off"} : at \in Stage
      /\ \A id \in TaskId : task[id] # NoTask => task[id].of \in Download
  BY DownloadAssumption DEF Stage, PoolInv, TypeOK, PoolTypeOK, TaskRow
<1>1. CASE Calm /\ stored' = stored
  BY <1>1 DEF Brought, Calm, pool, Is, Arrived
<1>2. ASSUME NEW d \in Download, NEW type \in {"transfer", "recycle"},
             NEW at \in {"submit", "submitRecycle"}, Records(d, type, at),
             stored' = stored
      PROVE  Brought'
  <2>0. at \in Stage
    BY <1>0
  <2>1. PICK new \in TaskId : NewTask(d, type, at, new)
    BY <1>2, <2>0, Recorded
  <2> QED
    BY <1>2, <2>1 DEF Brought, Is, Arrived, NewTask
<1>3. ASSUME NEW d \in Download, NEW at \in {"link", "off"}, Submits(d, at),
             stored' = stored
      PROVE  Brought'
  BY <1>0, <1>3, Submitted DEF Brought, Is, Arrived
<1>4. ASSUME NEW id \in TaskId, JobStep(id) PROVE Brought'
  <2>1. ASSUME NEW i \in TaskId \ {id}, Is(i, "transfer")'
        PROVE  /\ job'[i] = job[i] /\ task'[i] = task[i] /\ Is(i, "transfer")
               /\ \A n : Arrived(i, n) => Arrived(i, n)'
    <3>1. job'[i] = job[i] /\ task'[i] = task[i]
      BY <1>4, JobMoves
    <3>2. Is(i, "transfer") /\ task[i].of \in Download
      BY <1>0, <2>1, <3>1 DEF Is
    <3> QED
      BY <1>4, <3>1, <3>2, JobMoves DEF Arrived
  <2>2. ASSUME Is(id, "transfer")'
        PROVE  /\ Is(id, "transfer") /\ \A n : Arrived(id, n) => Arrived(id, n)'
    BY <1>4, <2>2, JobMoves DEF Is, Arrived
  <2>3. ASSUME Is(id, "transfer")'
        PROVE  /\ job'[id].at \in {"waiting", "obtained"} => job'[id].n = 0
               /\ job'[id].at = "run" => /\ job'[id].n <= Files
                                         /\ job'[id].failed \/ Arrived(id, job[id].n)'
               /\ job'[id].at = "finish" => job'[id].failed \/ Arrived(id, Files)'
               /\ task'[id].status = "complete" => Arrived(id, Files)'
    <3>0. /\ job[id].n \in Nat /\ Files \in Nat
      BY DownloadAssumption DEF PoolInv, TypeOK, PoolTypeOK, Goroutine
    <3>1. CASE JobGoes(id, "waiting", "obtained") /\ StatusStays(id)
               /\ job'[id].n = job[id].n
      BY <2>2, <2>3, <3>1 DEF Brought, JobGoes, StatusStays
    <3>2. CASE JobGoes(id, "obtained", "run") /\ task'[id].status = "processing"
               /\ job'[id].n = job[id].n
      <4>1. job'[id].n = 0
        BY <2>2, <2>3, <3>2 DEF Brought, JobGoes
      <4>2. Arrived(id, job[id].n)'
        BY <4>1 DEF Arrived
      <4> QED
        BY <3>0, <3>2, <4>1, <4>2 DEF JobGoes
    <3>3. CASE /\ JobGoes(id, "run", "run") /\ StatusStays(id)
               /\ job[id].n < Files /\ job'[id].n = job[id].n + 1
               /\ ~job'[id].failed => /\ ~job[id].failed
                                      /\ job[id].n + 1 \in stored'[task[id].of]
      <4>2. PICK n \in Nat : n = job[id].n
        BY <3>0
      <4>1. ~job'[id].failed => Arrived(id, n)'
        BY <2>2, <2>3, <3>3, <4>2 DEF Brought, JobGoes
      <4>3. 1 .. n + 1 = 1 .. n \cup {n + 1}
        OBVIOUS
      <4>4. task'[id].of = task[id].of
        BY <1>4, JobMoves
      <4>5. job'[id].failed \/ Arrived(id, job[id].n)'
        <5>1. ASSUME ~job'[id].failed PROVE 1 .. job'[id].n \subseteq stored'[task'[id].of]
          <6>1. /\ 1 .. job'[id].n = 1 .. n + 1
                /\ 1 .. n \cup {n + 1} \subseteq stored'[task[id].of]
            BY <3>3, <4>1, <4>2, <4>4, <5>1 DEF Arrived
          <6> QED
            BY <4>3, <4>4, <6>1
        <5> QED
          BY <5>1 DEF Arrived
      <4> QED
        BY <2>2, <2>3, <3>0, <3>3, <4>5 DEF Brought, JobGoes, StatusStays
    <3>4. CASE /\ JobGoes(id, "run", "finish") /\ StatusStays(id)
               /\ task[id].type = "transfer" => /\ job[id].n = Files
                                                /\ job'[id].failed = job[id].failed
      BY <2>2, <2>3, <3>4 DEF Brought, JobGoes, StatusStays, Is
    <3>5. CASE /\ JobGoes(id, "finish", "free")
               /\ task'[id].status = IF job[id].failed THEN "error" ELSE "complete"
      BY <2>2, <2>3, <3>5 DEF Brought, JobGoes
    <3>6. CASE JobGoes(id, "free", "none") /\ StatusStays(id)
      BY <2>2, <2>3, <3>6 DEF Brought, JobGoes, StatusStays
    <3> QED
      BY <1>4, <3>1, <3>2, <3>3, <3>4, <3>5, <3>6, JobMoves
  <2> QED
    BY <2>1, <2>3 DEF Brought, Arrived
<1>5. CASE Resume /\ stored' = stored
  <2>1. \A id \in TaskId : /\ job'[id].at \in {"none", "waiting"} /\ job'[id].n = 0
                           /\ task'[id] = task[id]
    BY <1>5 DEF Resume, Waiting, NoJob
  <2> QED
    BY <1>5, <2>1 DEF Brought, Is, Arrived
<1> QED
  BY <1>1, <1>2, <1>3, <1>4, <1>5, QueueMoves

(* A transfer reported as complete has brought every file: with any number   *)
(* of downloads, files and workers, and however often files could not be    *)
(* stored, transfers were repeated, folders removed or the server stopped.  *)
THEOREM TransferCompleteSafe == Spec => []TransferComplete
<1> DEFINE IInv == PoolInv /\ Brought
<1>1. Init => IInv
  <2>1. Init => Brought
    BY DEF Init, PoolInit, Brought, Is
  <2> QED
    BY <2>1, PoolInvInit
<1>2. IInv /\ [Next]_vars => IInv'
  BY PoolInvStep, BroughtNext
<1>3. IInv => TransferComplete
  <2>1. ASSUME PoolInv, Brought, NEW id \in TaskId, task[id] # NoTask,
               task[id].type = "transfer", task[id].status = "complete"
        PROVE  stored[task[id].of] = 1 .. Files
    <3>1. task[id].of \in Download
      BY <2>1, DownloadAssumption DEF PoolInv, TypeOK, PoolTypeOK, TaskRow
    <3>2. stored[task[id].of] \subseteq 1 .. Files
      BY <2>1, <3>1 DEF PoolInv, TypeOK
    <3> QED
      BY <2>1, <3>2 DEF Brought, Is, Arrived
  <2> QED
    BY <2>1 DEF TransferComplete
<1> QED
  BY <1>1, <1>2, <1>3, PTL DEF Spec
-----------------------------------------------------------------------------
(* Downloads that have ended *)

(* A final status that a monitor knows is aria2's last word under the GID    *)
(* that the monitor follows, and a record with a final status has a monitor *)
(* that knows a final one too, or that saves nothing any more.              *)
Closing(d) == mon[d].at \in {"cleanup", "off"}
Decided(d) ==
    /\ mon[d].at = "insert" => ~Exists(d)
    /\ ~Closing(d) /\ IsFinal(mon[d].status) =>
         mon[d].gid = aria[d].gid /\ IsFinal(aria[d].state)
    /\ mon[d].at \in {"none", "follow"} => ~IsFinal(mon[d].status)
    /\ Exists(d) /\ IsFinal(row[d].status) => Closing(d) \/ IsFinal(mon[d].status)

StaysFinal(d) ==
    Exists(d) /\ IsFinal(row[d].status) /\ row'[d] # NoDownload
    => IsFinal(row'[d].status)

DownloadStep(d) ==
    \/ AddDownload(d) \/ DeleteDownload(d) \/ MonitorStep(d)
    \/ DeleteTempFile(d) \/ AriaStep(d) \/ AriaFail(d)

(* A monitor that assigns itself a value leaves the others theirs. *)
LEMMA MonitorAssigns ==
    ASSUME TypeOK, NEW d \in Download, NEW m, mon' = [mon EXCEPT ![d] = m]
    PROVE  mon'[d] = m /\ \A e \in Download \ {d} : mon'[e] = mon[e]
BY DEF TypeOK

(* The fields of what a monitor assigns. *)
LEMMA MonitorFields ==
    ASSUME NEW m \in Monitor, NEW at, NEW x
    PROVE  /\ LET v == [m EXCEPT !.at = at] IN
                /\ v.at = at /\ v.status = m.status /\ v.task = m.task /\ v.gid = m.gid
                /\ v.sized = m.sized /\ v.retried = m.retried /\ v.id = m.id
           /\ LET v == [m EXCEPT !.status = x, !.at = at] IN
                /\ v.at = at /\ v.status = x /\ v.task = m.task /\ v.gid = m.gid
                /\ v.sized = m.sized /\ v.retried = m.retried /\ v.id = m.id
           /\ LET v == [m EXCEPT !.gid = x, !.at = at] IN
                /\ v.at = at /\ v.status = m.status /\ v.task = m.task /\ v.gid = x
                /\ v.sized = m.sized /\ v.retried = m.retried /\ v.id = m.id
           /\ LET v == [m EXCEPT !.task = x, !.at = at] IN
                /\ v.at = at /\ v.status = m.status /\ v.task = x /\ v.gid = m.gid
                /\ v.sized = m.sized /\ v.retried = m.retried /\ v.id = m.id
           /\ LET v == [m EXCEPT !.at = at, !.id = x] IN
                /\ v.at = at /\ v.status = m.status /\ v.task = m.task /\ v.gid = m.gid
                /\ v.sized = m.sized /\ v.retried = m.retried /\ v.id = x
           /\ LET v == [[m EXCEPT !.sized = x] EXCEPT !.at = at] IN
                /\ v.at = at /\ v.status = m.status /\ v.task = m.task /\ v.gid = m.gid
                /\ v.sized = x /\ v.retried = m.retried /\ v.id = m.id
BY DEF Monitor

(* What is saved, when there is a record to save it in. *)
LEMMA SaveSaves ==
    ASSUME TypeOK, NEW d \in Download, NEW m, Save(d, m)
    PROVE  /\ Exists(d) => row'[d] = Saved(m) /\ row'[d].status = m.status
           /\ ~Exists(d) => row' = row
           /\ \A e \in Download \ {d} : row'[e] = row[e]
BY DEF Save, Saved, TypeOK, Exists

(* What a step does to the monitor's stage, to what it knows, and to the     *)
(* record.                                                                  *)
Goes(d, from, to) == mon[d].at = from /\ mon'[d].at = to
Knows(d, status, target, gid, sized) ==
    /\ mon'[d].status = status /\ mon'[d].task = target
    /\ mon'[d].gid = gid /\ mon'[d].sized = sized
Remembers(d) == Knows(d, mon[d].status, mon[d].task, mon[d].gid, mon[d].sized)
Saves(d, status) ==
    /\ Exists(d)' <=> Exists(d)
    /\ Exists(d) => row'[d].status = status
Counts(d) == mon'[d].retried = mon[d].retried

Advance(d) ==
    \/ /\ Goes(d, "insert", "poll") /\ Remembers(d) /\ Counts(d)
       /\ Exists(d)' /\ row'[d].status = mon[d].status
    \/ /\ \/ Goes(d, "insert", "off") \/ Goes(d, "cleanup", "off")
          \/ Goes(d, "submit", "link") \/ Goes(d, "submitRecycle", "off")
          \/ Goes(d, "complete", "submit") /\ mon[d].task = 0
          \/ Goes(d, "complete", "fail") /\ mon[d].task = 0
          \/ Goes(d, "complete", "recycle") /\ mon[d].task # 0 /\ Recyclable(d)
          \/ Goes(d, "complete", "poll") /\ mon[d].task # 0
          \/ Goes(d, "recycle", "submitRecycle") \/ Goes(d, "recycle", "fail")
          \/ Goes(d, "reject", "fail")
       /\ Remembers(d) /\ Counts(d) /\ row' = row
    \/ /\ Goes(d, "poll", "follow") /\ mon[d].gid # aria[d].gid
       /\ Remembers(d) /\ mon'[d].retried = 0 /\ row' = row
    \/ /\ Goes(d, "poll", "save") /\ mon[d].gid = aria[d].gid
       /\ Knows(d, aria[d].state, mon[d].task, mon[d].gid, mon[d].sized)
       /\ mon'[d].retried = 0 /\ row' = row
    \/ /\ \/ Goes(d, "poll", "poll")
          \/ Goes(d, "poll", "fail") /\ mon[d].retried + 1 > MaxRetry
       /\ Remembers(d) /\ mon'[d].retried = mon[d].retried + 1
       /\ Spend("polls") /\ row' = row
    \/ /\ Goes(d, "follow", "poll") /\ Counts(d)
       /\ Knows(d, mon[d].status, mon[d].task, 2, mon[d].sized)
       /\ Saves(d, mon[d].status)
    \/ /\ \/ Goes(d, "save", "fail") /\ ~Exists(d)
          \/ Goes(d, "save", "reject") /\ Exists(d) /\ mon[d].sized # mon[d].gid
          \/ Goes(d, "save", Handle(mon[d].status)) /\ Exists(d)
       /\ Knows(d, mon[d].status, mon[d].task, mon[d].gid, mon[d].gid)
       /\ Counts(d) /\ Saves(d, mon[d].status)
    \/ /\ Goes(d, "fail", "cleanup") /\ Counts(d)
       /\ Knows(d, "error", mon[d].task, mon[d].gid, mon[d].sized)
       /\ Saves(d, "error")
    \/ /\ Goes(d, "canceled", "cleanup") /\ Remembers(d) /\ Counts(d)
       /\ Saves(d, mon[d].status)
    \/ /\ Goes(d, "link", "poll") /\ Counts(d)
       /\ Knows(d, mon[d].status, mon[d].id, mon[d].gid, mon[d].sized)
       /\ Saves(d, mon[d].status)

(* A step of a monitor is one of these, and concerns its download only. *)
Apart(d) ==
    /\ \A e \in Download \ {d} :
         mon'[e] = mon[e] /\ row'[e] = row[e] /\ aria'[e] = aria[e]
    /\ UNCHANGED <<temp, stored, ready>>
    /\ \/ removing' = removing
       \/ removing' = removing \cup {d} /\ mon[d].at = "cleanup"
    /\ \/ aria' = aria
       \/ /\ mon[d].at = "reject" /\ aria'[d].gid = aria[d].gid
          /\ aria'[d].state \in {aria[d].state, "removed"}
          /\ IsFinal(aria[d].state) => aria'[d].state = aria[d].state

(* Each of the monitor's calls, saves and waits included, is one of these. *)
LEMMA MonitorMoves ==
    ASSUME TypeOK, NEW d \in Download, MonitorStep(d)
    PROVE  Advance(d) /\ Apart(d)
<1>0. mon[d] \in Monitor /\ mon[d].retried \in Nat
  BY DEF TypeOK, Monitor
<1>1. ASSUME NEW at, GotoStage(d, at)
      PROVE  /\ mon'[d].at = at /\ Remembers(d) /\ Counts(d) /\ mon'[d].id = mon[d].id
             /\ \A e \in Download \ {d} : mon'[e] = mon[e]
  <2> DEFINE m == [mon[d] EXCEPT !.at = at]
  <2>1. mon' = [mon EXCEPT ![d] = m]
    BY <1>1 DEF GotoStage
  <2>2. /\ m.at = at /\ m.status = mon[d].status /\ m.task = mon[d].task
        /\ m.gid = mon[d].gid /\ m.sized = mon[d].sized
        /\ m.retried = mon[d].retried /\ m.id = mon[d].id
    BY <1>0, MonitorFields
  <2> HIDE DEF m
  <2> QED
    BY <2>1, <2>2, MonitorAssigns DEF Remembers, Knows, Counts
<1>2. ASSUME NEW m, Save(d, m)
      PROVE  /\ \A e \in Download \ {d} : row'[e] = row[e]
             /\ m \in Monitor => Saves(d, m.status)
  <2>1. m \in Monitor => Saved(m) # NoDownload
    BY DownloadAssumption DEF Saved, DownloadRow, Monitor
  <2> QED
    BY <1>2, <2>1, SaveSaves DEF Saves, Exists
<1> USE DEF Goes, MonitorAt
<1>3. CASE InsertDownload(d)
  <2>1. Saved(mon[d]) # NoDownload /\ Saved(mon[d]).status = mon[d].status
    BY <1>0, DownloadAssumption DEF Saved, DownloadRow, Monitor
  <2>2. row'[d] = Saved(mon[d]) /\ \A e \in Download \ {d} : row'[e] = row[e]
    BY <1>3 DEF InsertDownload, TypeOK
  <2> QED
    BY <1>1, <1>3, <2>1, <2>2 DEF InsertDownload, Advance, Apart, Exists
<1>4. CASE InsertDownloadFails(d) \/ RemoveTempFolder(d)
  BY <1>1, <1>4 DEF InsertDownloadFails, RemoveTempFolder, Advance, Apart
<1>5. CASE SubmitTransfer(d) \/ SubmitRecycle(d) \/ RecordFails(d)
  BY <1>1, <1>5 DEF SubmitTransfer, SubmitRecycle, RecordFails, Advance, Apart
<1>6. CASE RecordTransfer(d) \/ RecordRecycle(d)
  <2>1. PICK at : /\ \/ at = "submit" /\ MonitorAt(d, "complete") /\ mon[d].task = 0
                     \/ at = "submitRecycle" /\ MonitorAt(d, "recycle")
                  /\ mon' = [mon EXCEPT ![d].at = at, ![d].id = NextId]
    BY <1>6 DEF RecordTransfer, RecordRecycle
  <2> DEFINE m == [mon[d] EXCEPT !.at = at, !.id = NextId]
  <2>2. mon' = [mon EXCEPT ![d] = m]
    BY <2>1
  <2>3. /\ m.at = at /\ m.status = mon[d].status /\ m.task = mon[d].task
        /\ m.gid = mon[d].gid /\ m.sized = mon[d].sized
        /\ m.retried = mon[d].retried
    BY <1>0, MonitorFields
  <2> HIDE DEF m
  <2>4. /\ mon'[d].at = at /\ Remembers(d) /\ Counts(d)
        /\ \A e \in Download \ {d} : mon'[e] = mon[e]
    BY <2>2, <2>3, MonitorAssigns DEF Remembers, Knows, Counts
  <2> QED
    BY <1>6, <2>1, <2>4 DEF RecordTransfer, RecordRecycle, Advance, Apart
<1>7. CASE AwaitTransfer(d)
  <2>1. PICK at : GotoStage(d, at) /\ at = IF Recyclable(d) THEN "recycle" ELSE "poll"
    BY <1>7 DEF AwaitTransfer
  <2> QED
    BY <1>1, <1>7, <2>1 DEF AwaitTransfer, Advance, Apart
<1>8. CASE RejectDownload(d)
  BY <1>1, <1>8 DEF RejectDownload, Advance, Apart, CancelInAria, TypeOK, IsFinal
<1>9. CASE Poll(d)
  <2> DEFINE at == IF mon[d].gid # aria[d].gid THEN "follow" ELSE "save"
             status == IF mon[d].gid # aria[d].gid THEN mon[d].status
                                                   ELSE aria[d].state
             m == [mon[d] EXCEPT !.retried = 0, !.at = at, !.status = status]
  <2>1. mon' = [mon EXCEPT ![d] = m]
    BY <1>9 DEF Poll
  <2>2. /\ m.at = at /\ m.status = status /\ m.task = mon[d].task
        /\ m.gid = mon[d].gid /\ m.sized = mon[d].sized /\ m.retried = 0
    BY <1>0 DEF Monitor
  <2> HIDE DEF m
  <2>3. /\ mon'[d] = m /\ \A e \in Download \ {d} : mon'[e] = mon[e]
    BY <2>1, MonitorAssigns
  <2> QED
    BY <1>9, <2>2, <2>3 DEF Poll, Advance, Apart, Remembers, Knows
<1>10. CASE PollFails(d)
  <2> DEFINE at == IF mon[d].retried + 1 > MaxRetry THEN "fail" ELSE "poll"
             m == [mon[d] EXCEPT !.retried = mon[d].retried + 1, !.at = at]
  <2>1. mon' = [mon EXCEPT ![d] = m]
    BY <1>10 DEF PollFails
  <2>2. /\ m.at = at /\ m.status = mon[d].status /\ m.task = mon[d].task
        /\ m.gid = mon[d].gid /\ m.sized = mon[d].sized
        /\ m.retried = mon[d].retried + 1
    BY <1>0 DEF Monitor
  <2> HIDE DEF m
  <2>3. /\ mon'[d] = m /\ \A e \in Download \ {d} : mon'[e] = mon[e]
    BY <2>1, MonitorAssigns
  <2> QED
    BY <1>10, <2>2, <2>3 DEF PollFails, Advance, Apart, Remembers, Knows
<1>11. CASE FollowDownload(d)
  <2> DEFINE m == [mon[d] EXCEPT !.gid = 2, !.at = "poll"]
  <2>1. mon' = [mon EXCEPT ![d] = m] /\ Save(d, m)
    BY <1>11 DEF FollowDownload
  <2>2. /\ m.at = "poll" /\ m.status = mon[d].status /\ m.task = mon[d].task
        /\ m.gid = 2 /\ m.sized = mon[d].sized /\ m.retried = mon[d].retried
    BY <1>0, MonitorFields
  <2>4. m \in Monitor
    <3>1. [mon[d] EXCEPT !.gid = 2] \in Monitor
      BY <1>0 DEF Monitor
    <3> QED
      BY <3>1, OneField DEF Stage
  <2> HIDE DEF m
  <2>3. mon'[d] = m /\ \A e \in Download \ {d} : mon'[e] = mon[e]
    BY <2>1, MonitorAssigns
  <2> QED
    BY <1>2, <1>11, <2>1, <2>2, <2>3, <2>4
    DEF FollowDownload, Advance, Apart, Knows, Counts
<1>12. CASE UpdateTaskInfo(d)
  <2> DEFINE n == [mon[d] EXCEPT !.sized = mon[d].gid]
  <2>0. n \in Monitor /\ n.status = mon[d].status
    BY <1>0 DEF Monitor
  <2>1. PICK valid \in BOOLEAN :
          /\ Save(d, n)
          /\ ~valid => mon[d].sized # mon[d].gid
          /\ mon' = [mon EXCEPT ![d] = [n EXCEPT !.at =
                       IF ~Exists(d) THEN "fail" ELSE IF ~valid THEN "reject"
                       ELSE Handle(n.status)]]
    BY <1>12 DEF UpdateTaskInfo
  <2> DEFINE at == IF ~Exists(d) THEN "fail" ELSE IF ~valid THEN "reject"
                   ELSE Handle(n.status)
             m == [n EXCEPT !.at = at]
  <2>2. /\ m.at = at /\ m.status = mon[d].status /\ m.task = mon[d].task
        /\ m.gid = mon[d].gid /\ m.sized = mon[d].gid
        /\ m.retried = mon[d].retried
    BY <1>0, MonitorFields
  <2> HIDE DEF n
  <2>3. mon' = [mon EXCEPT ![d] = m]
    BY <2>1
  <2> HIDE DEF m
  <2>4. mon'[d] = m /\ \A e \in Download \ {d} : mon'[e] = mon[e]
    BY <2>3, MonitorAssigns
  <2>5. Saves(d, mon[d].status) /\ \A e \in Download \ {d} : row'[e] = row[e]
    BY <1>2, <2>0, <2>1
  <2>6. /\ mon[d].at = "save"
        /\ UNCHANGED <<aria, temp, removing, stored, ready, budget, pool>>
    BY <1>12 DEF UpdateTaskInfo
  <2>7. /\ mon'[d].at = at
        /\ Knows(d, mon[d].status, mon[d].task, mon[d].gid, mon[d].gid) /\ Counts(d)
    BY <2>2, <2>4 DEF Knows, Counts
  <2>8. \/ at = "fail" /\ ~Exists(d)
        \/ at = "reject" /\ Exists(d) /\ mon[d].sized # mon[d].gid
        \/ at = Handle(mon[d].status) /\ Exists(d)
    BY <2>0, <2>1
  <2> HIDE DEF at
  <2> QED
    BY <2>4, <2>5, <2>6, <2>7, <2>8 DEF Advance, Apart
<1>13. CASE SetErrorStatus(d)
  <2> DEFINE m == [mon[d] EXCEPT !.status = "error", !.at = "cleanup"]
  <2>1. mon' = [mon EXCEPT ![d] = m] /\ Save(d, m)
    BY <1>13 DEF SetErrorStatus
  <2>2. /\ m.at = "cleanup" /\ m.status = "error" /\ m.task = mon[d].task
        /\ m.gid = mon[d].gid /\ m.sized = mon[d].sized
        /\ m.retried = mon[d].retried /\ m \in Monitor
    BY <1>0, MonitorFields DEF Monitor, Stage, Status
  <2> HIDE DEF m
  <2>3. mon'[d] = m /\ \A e \in Download \ {d} : mon'[e] = mon[e]
    BY <2>1, MonitorAssigns
  <2> QED
    BY <1>2, <1>13, <2>1, <2>2, <2>3 DEF SetErrorStatus, Advance, Apart, Knows, Counts
<1>14. CASE SetCanceled(d)
  <2>1. Saves(d, mon[d].status) /\ \A e \in Download \ {d} : row'[e] = row[e]
    BY <1>0, <1>2, <1>14 DEF SetCanceled
  <2> QED
    BY <1>1, <1>14, <2>1 DEF SetCanceled, Advance, Apart
<1>15. CASE LinkTransfer(d)
  <2> DEFINE m == [mon[d] EXCEPT !.task = mon[d].id, !.at = "poll"]
  <2>1. mon' = [mon EXCEPT ![d] = m] /\ Save(d, m)
    BY <1>15 DEF LinkTransfer
  <2>2. /\ m.at = "poll" /\ m.status = mon[d].status /\ m.task = mon[d].id
        /\ m.gid = mon[d].gid /\ m.sized = mon[d].sized
        /\ m.retried = mon[d].retried /\ m \in Monitor
    BY <1>0, MonitorFields DEF Monitor, Stage
  <2> HIDE DEF m
  <2>3. mon'[d] = m /\ \A e \in Download \ {d} : mon'[e] = mon[e]
    BY <2>1, MonitorAssigns
  <2> QED
    BY <1>2, <1>15, <2>1, <2>2, <2>3 DEF LinkTransfer, Advance, Apart, Knows, Counts
<1> QED
  BY <1>3, <1>4, <1>5, <1>6, <1>7, <1>8, <1>9, <1>10, <1>11, <1>12, <1>13, <1>14, <1>15
  DEF MonitorStep

(* What a step of a download that is not one of its monitor's does. *)
LEMMA OtherMoves ==
    ASSUME TypeOK, NEW d \in Download, DownloadStep(d), ~MonitorStep(d)
    PROVE  /\ \A e \in Download \ {d} :
                mon'[e] = mon[e] /\ row'[e] = row[e] /\ aria'[e] = aria[e]
           /\ UNCHANGED <<stored, ready, pool>>
           /\ \/ /\ Goes(d, "none", "insert") /\ Remembers(d) /\ Counts(d)
                 /\ aria'[d].state = "active"
                 /\ UNCHANGED <<row, removing, budget>> /\ temp \subseteq temp'
              \/ /\ Spend("deletes") /\ UNCHANGED <<mon, removing, temp>>
                 /\ aria'[d].gid = aria[d].gid
                 /\ aria'[d].state \in {aria[d].state, "removed"}
                 /\ IsFinal(aria[d].state) => aria'[d] = aria[d]
                 /\ row'[d] \in {row[d], NoDownload}
              \/ /\ d \in removing /\ removing' \subseteq removing
                 /\ temp' = temp \ {d} /\ UNCHANGED <<mon, row, aria, budget>>
              \/ /\ aria[d].state = "active" /\ aria'[d] = [aria[d] EXCEPT !.gid = 2]
                 /\ UNCHANGED <<mon, row, removing, temp, budget>>
              \/ /\ aria[d].state \in {"active", "seeding"}
                 /\ aria'[d].gid = aria[d].gid
                 /\ aria'[d].state \in {"complete", "seeding"}
                 /\ UNCHANGED <<mon, row, removing, temp, budget>>
              \/ /\ aria[d].state \in {"active", "seeding"}
                 /\ aria'[d].gid = aria[d].gid
                 /\ Spend("aria") /\ UNCHANGED <<mon, row, removing, temp>>
<1>0. /\ aria \in [Download -> [gid : 1 .. 2, state : {"none"} \cup Status]]
      /\ mon \in [Download -> Monitor]
      /\ row \in [Download -> DownloadRow \cup {NoDownload}]
  BY DEF TypeOK
<1>1. CASE AddDownload(d)
  <2> DEFINE m == [mon[d] EXCEPT !.at = "insert"]
  <2>1. /\ m.at = "insert" /\ m.status = mon[d].status /\ m.task = mon[d].task
        /\ m.gid = mon[d].gid /\ m.sized = mon[d].sized
        /\ m.retried = mon[d].retried
    BY <1>0, MonitorFields
  <2>2. mon' = [mon EXCEPT ![d] = m]
    BY <1>1 DEF AddDownload, GotoStage
  <2> HIDE DEF m
  <2>3. /\ mon'[d] = m /\ \A e \in Download \ {d} : mon'[e] = mon[e]
    BY <2>2, MonitorAssigns
  <2>4. /\ aria'[d].state = "active" /\ \A e \in Download \ {d} : aria'[e] = aria[e]
    BY <1>0, <1>1 DEF AddDownload
  <2> QED
    BY <1>1, <2>1, <2>3, <2>4 DEF AddDownload, MonitorAt, Goes, Remembers, Knows, Counts
<1>2. CASE DeleteDownload(d)
  BY <1>0, <1>2 DEF DeleteDownload, CancelInAria, IsFinal
<1>3. CASE DeleteTempFile(d)
  BY <1>3 DEF DeleteTempFile
<1>4. CASE AriaFollow(d)
  BY <1>0, <1>4 DEF AriaFollow
<1>5. CASE AriaFinish(d)
  BY <1>0, <1>5 DEF AriaFinish
<1>6. CASE AriaFail(d)
  BY <1>0, <1>6 DEF AriaFail
<1> QED
  BY <1>1, <1>2, <1>3, <1>4, <1>5, <1>6 DEF DownloadStep, AriaStep

(* Its own steps, and aria2's and its owner's, keep a final status decided. *)
LEMMA DecidedOwn ==
    ASSUME TypeOK, AriaKnows, NEW d \in Download, Decided(d), DownloadStep(d)
    PROVE  Decided(d)' /\ StaysFinal(d)
<1>0. /\ mon[d].at = "none" => ~Exists(d)
      /\ aria[d].state \in Status \cup {"none"} /\ mon[d].gid \in 1 .. 2
      /\ aria[d].gid \in 1 .. 2
  BY DEF AriaKnows, TypeOK, Monitor
<1>1. CASE MonitorStep(d)
  <2>1. Advance(d) /\ Apart(d)
    BY <1>1, MonitorMoves
  <2>2. IsFinal("error") /\ \A s : Handle(s) \in {"complete", "fail", "canceled", "poll"}
    BY DEF IsFinal, Handle
  <2>3. /\ IsFinal(aria[d].state) => aria'[d].gid = aria[d].gid /\ IsFinal(aria'[d].state)
        /\ mon[d].at # "reject" => aria' = aria
    BY <2>1 DEF Apart
  <2> USE DEF Advance, Goes, Knows, Remembers, Saves, Decided, Closing, StaysFinal,
              Exists
  <2>4. CASE mon[d].at = "poll"
    BY <2>1, <2>3, <2>4
  <2>5. CASE mon[d].at \in {"insert", "follow"}
    BY <2>1, <2>2, <2>3, <2>5
  <2>6. CASE mon[d].at = "save"
    BY <2>1, <2>2, <2>3, <2>6
  <2>7. CASE mon[d].at \in {"reject", "fail", "canceled", "link"}
    BY <2>1, <2>2, <2>3, <2>7
  <2>8. CASE mon[d].at \in {"cleanup", "submit", "submitRecycle", "complete", "recycle"}
    BY <2>1, <2>3, <2>8
  <2> QED
    BY <2>1, <2>4, <2>5, <2>6, <2>7, <2>8
<1>2. CASE ~MonitorStep(d)
  <2> USE DEF Goes, Knows, Remembers, Decided, Closing, StaysFinal, Exists
  <2>0. aria[d].state \in {"active", "seeding"} => ~IsFinal(aria[d].state)
    BY DEF IsFinal
  <2>1. CASE UNCHANGED <<mon, row>>
    BY <1>0, <1>2, <2>0, <2>1, OtherMoves
  <2>2. CASE Goes(d, "none", "insert") /\ Remembers(d) /\ UNCHANGED row
    BY <1>0, <2>2
  <2>3. CASE /\ UNCHANGED mon /\ aria'[d].gid = aria[d].gid
             /\ IsFinal(aria[d].state) => aria'[d] = aria[d]
             /\ row'[d] \in {row[d], NoDownload}
    BY <1>0, <2>3
  <2> QED
    BY <1>2, <2>1, <2>2, <2>3, OtherMoves
<1> QED
  BY <1>1, <1>2

(* So does every step. *)
LEMMA DecidedNext ==
    ASSUME PoolInv, \A d \in Download : Decided(d), [Next]_vars
    PROVE  \A d \in Download : Decided(d)' /\ StaysFinal(d)
<1>0. TypeOK /\ AriaKnows /\ Quiet
  BY DEF PoolInv
<1>1. ASSUME NEW d \in Download, NEW e \in Download, DownloadStep(d)
      PROVE  Decided(e)' /\ StaysFinal(e)
  <2>1. CASE e = d
    BY <1>0, <1>1, <2>1, DecidedOwn
  <2>2. CASE e # d
    <3>1. mon'[e] = mon[e] /\ row'[e] = row[e] /\ aria'[e] = aria[e]
      BY <1>0, <1>1, <2>2, MonitorMoves, OtherMoves DEF Apart
    <3> QED
      BY <3>1 DEF Decided, Closing, StaysFinal, Exists
  <2> QED
    BY <2>1, <2>2
<1>2. ASSUME UNCHANGED <<mon, row, aria>>, NEW d \in Download
      PROVE  Decided(d)' /\ StaysFinal(d)
  BY <1>2 DEF Decided, Closing, StaysFinal, Exists
<1>3. (\E id \in TaskId : JobStep(id)) => UNCHANGED <<mon, row, aria>>
  BY JobMoves
<1>4. ASSUME Restart \/ InitMonitors, NEW d \in Download
      PROVE  Decided(d)' /\ StaysFinal(d)
  <2>1. UNCHANGED <<row, aria>>
    BY <1>4 DEF Restart, InitMonitors
  <2>2. \/ mon'[d] = mon[d]
        \/ mon'[d].at = "off"
        \/ mon'[d].at = "poll" /\ Exists(d) /\ IsActive(row[d].status)
           /\ mon'[d].status = row[d].status
    <3>1. mon[d] \in Monitor
      BY <1>0 DEF TypeOK
    <3>2. CASE Restart
      BY <3>1, <3>2 DEF Restart, Monitor
    <3>3. CASE InitMonitors
      BY <3>3 DEF InitMonitors, Resumable, NoMonitor
    <3> QED
      BY <1>4, <3>2, <3>3
  <2>3. \A s : IsActive(s) => ~IsFinal(s)
    BY DEF IsActive, IsFinal
  <2> QED
    BY <2>1, <2>2, <2>3 DEF Decided, Closing, StaysFinal, Exists
<1>5. UNCHANGED vars => UNCHANGED <<mon, row, aria>>
  BY DEF vars, dvars
<1> QED
  BY <1>1, <1>2, <1>3, <1>4, <1>5 DEF Next, DownloadStep

(* A download that has ended stays ended: whatever aria2 answers late, and   *)
(* through any faults and restarts, no step makes its record active again.  *)
THEOREM FinalStaysSafe == Spec => FinalStays
<1> DEFINE IInv == PoolInv /\ \A d \in Download : Decided(d)
           Keeps == \A d \in Download :
                      Exists(d) /\ IsFinal(row[d].status) /\ row'[d] # NoDownload
                      => IsFinal(row'[d].status)
<1>1. Init => IInv
  <2>1. Init => \A d \in Download : Decided(d)
    BY DEF Init, Decided, Closing, Exists, NoMonitor, IsFinal
  <2> QED
    BY <2>1, PoolInvInit
<1>2. IInv /\ [Next]_vars => IInv'
  BY PoolInvStep, DecidedNext
<1>3. IInv /\ [Next]_vars => Keeps
  BY DecidedNext DEF StaysFinal
<1>4. FinalStays <=> [][Keeps]_vars
  BY DEF FinalStays
<1> HIDE DEF IInv, Keeps
<1> QED
  BY <1>1, <1>2, <1>3, <1>4, PTL DEF Spec
-----------------------------------------------------------------------------
(* Transfers and the temporary folder.  A download that aria2 gives up, that *)
(* is cancelled, or whose monitor cannot reach aria2 loses its folder, and   *)
(* a restart between the row of a transfer and the record of the download   *)
(* makes the monitor record another; without these the folder goes when the *)
(* transfer is through.                                                     *)

(* Nothing of the kind will happen. *)
Undisturbed ==
    /\ ready /\ budget["aria"] = 0 /\ budget["deletes"] = 0 /\ budget["restarts"] = 0
    /\ \A d \in Download : mon[d].retried + budget["polls"] <= MaxRetry

(* The monitor sees the download through: what it has fetched stays fetched, *)
(* under the GID that it follows and whose files it has validated.          *)
Fetched(status) == status \in {"seeding", "complete"}
Broken(status) == status \in {"error", "removed"}
Over(d) == mon[d].at \in {"fail", "cleanup", "off"}
Transferring == {"complete", "submit", "link", "recycle", "submitRecycle"}
SeesThrough(d) ==
    /\ mon[d].at \in {"none", "insert", "reject", "submit", "link"} => mon[d].task = 0
    /\ mon[d].at \in {"none", "follow"} => ~Fetched(mon[d].status)
    /\ mon[d].at \notin {"none", "insert", "off"} => Exists(d)
    /\ mon[d].at # "canceled"
    /\ ~Over(d) => /\ ~Broken(aria[d].state) /\ ~Broken(mon[d].status)
                   /\ Fetched(mon[d].status) =>
                        mon[d].gid = aria[d].gid /\ Fetched(aria[d].state)
                   /\ mon[d].task # 0 \/ mon[d].at \in Transferring =>
                        Fetched(mon[d].status) /\ mon[d].sized = mon[d].gid

(* A download has one transfer, which its monitor knows; it is through when  *)
(* the folder is recycled or removed.                                       *)
Of(id, type, d) == Is(id, type) /\ task[id].of = d
OneTransfer(d) ==
    /\ \A id \in TaskId : Of(id, "transfer", d) =>
         \/ mon[d].task = id
         \/ mon[d].at \in {"submit", "link"} /\ mon[d].id = id
    /\ mon[d].at \in {"recycle", "submitRecycle", "fail", "reject", "cleanup", "off"} =>
         \A id \in TaskId : Of(id, "transfer", d) => ~Unfinished(id)
    /\ \A id \in TaskId : Of(id, "recycle", d) =>
         \/ mon[d].at = "off"
         \/ mon[d].at = "submitRecycle" /\ mon[d].id = id
    /\ d \in removing => mon[d].at = "off"

Steady ==
    /\ Undisturbed
    /\ \A d \in Download : SeesThrough(d) /\ OneTransfer(d)

(* What a step of a download does to the queue. *)
LEMMA DownloadQueue ==
    ASSUME PoolInv, NEW d \in Download, DownloadStep(d)
    PROVE  \/ Calm
           \/ /\ Records(d, "transfer", "submit") /\ Goes(d, "complete", "submit")
              /\ mon[d].task = 0 /\ removing' = removing
           \/ /\ Records(d, "recycle", "submitRecycle")
              /\ Goes(d, "recycle", "submitRecycle") /\ removing' = removing
           \/ /\ Submits(d, "link") /\ Goes(d, "submit", "link") /\ removing' = removing
           \/ /\ Submits(d, "off") /\ Goes(d, "submitRecycle", "off")
              /\ removing' = removing
<1>0. TypeOK
  BY DEF PoolInv
<1>1. CASE RecordTransfer(d) \/ RecordRecycle(d) \/ SubmitTransfer(d) \/ SubmitRecycle(d)
  <2>1. Advance(d)
    BY <1>0, <1>1, MonitorMoves DEF MonitorStep
  <2>2. CASE RecordTransfer(d)
    <3>1. mon[d].at = "complete" /\ mon[d].task = 0 /\ Records(d, "transfer", "submit")
      BY <2>2 DEF RecordTransfer, Records, Submitting, MonitorAt
    <3>2. mon'[d].at = "submit"
      BY <1>0, <3>1 DEF Records, TypeOK, Monitor
    <3> QED
      BY <2>2, <3>1, <3>2 DEF Goes, RecordTransfer
  <2>3. CASE RecordRecycle(d)
    <3>1. mon[d].at = "recycle" /\ Records(d, "recycle", "submitRecycle")
      BY <2>3 DEF RecordRecycle, Records, Submitting, MonitorAt
    <3>2. mon'[d].at = "submitRecycle"
      BY <1>0, <3>1 DEF Records, TypeOK, Monitor
    <3> QED
      BY <2>3, <3>1, <3>2 DEF Goes, RecordRecycle
  <2>4. CASE SubmitTransfer(d)
    <3>1. mon[d].at = "submit" /\ Submits(d, "link")
      BY <2>4 DEF SubmitTransfer, Submits, Submitting, MonitorAt, GotoStage
    <3>2. mon'[d].at = "link"
      BY <1>0, <3>1 DEF Submits, TypeOK, Monitor
    <3> QED
      BY <2>4, <3>1, <3>2 DEF Goes, SubmitTransfer
  <2>5. CASE SubmitRecycle(d)
    <3>1. mon[d].at = "submitRecycle" /\ Submits(d, "off")
      BY <2>5 DEF SubmitRecycle, Submits, Submitting, MonitorAt, GotoStage
    <3>2. mon'[d].at = "off"
      BY <1>0, <3>1 DEF Submits, TypeOK, Monitor
    <3> QED
      BY <2>5, <3>1, <3>2 DEF Goes, SubmitRecycle
  <2> QED
    BY <1>1, <2>2, <2>3, <2>4, <2>5
<1> QED
  BY <1>0, <1>1, CalmOtherwise DEF DownloadStep

(* Its own steps leave a monitor to see its download through. *)
LEMMA SeesThroughOwn ==
    ASSUME TypeOK, Undisturbed, NEW d \in Download, SeesThrough(d), DownloadStep(d)
    PROVE  SeesThrough(d)'
<1>0. /\ mon[d].retried \in Nat /\ budget["polls"] \in Nat /\ MaxRetry \in Nat
      /\ mon[d].retried + budget["polls"] <= MaxRetry
      /\ ~Spend("deletes") /\ ~Spend("aria")
  BY DownloadAssumption DEF TypeOK, Monitor, Undisturbed, Spend
<1> USE DEF Goes, Knows, Remembers, SeesThrough, Over, Transferring, Exists
<1>1. CASE MonitorStep(d)
  <2>1. Advance(d) /\ Apart(d)
    BY <1>1, MonitorMoves
  <2>2. mon[d].at # "reject" => aria' = aria
    BY <2>1 DEF Apart
  <2> USE DEF Advance, Saves
  <2>3. CASE mon[d].at = "poll"
    <3>1. ~(Spend("polls") /\ mon[d].retried + 1 > MaxRetry)
      BY <1>0 DEF Spend
    <3> QED
      BY <2>1, <2>2, <2>3, <3>1
  <2>4. CASE mon[d].at \in {"insert", "follow"}
    BY <2>1, <2>2, <2>4
  <2>5. CASE mon[d].at = "save"
    <3>1. /\ Handle(mon[d].status) \in {"complete", "poll"}
          /\ Handle(mon[d].status) = "complete" => Fetched(mon[d].status)
      BY <2>5 DEF Handle, Broken, Fetched
    <3> QED
      BY <2>1, <2>2, <2>5, <3>1
  <2>6. CASE mon[d].at \in {"reject", "fail", "canceled"}
    BY <2>1, <2>6
  <2>7. CASE mon[d].at = "link"
    BY <2>1, <2>2, <2>7
  <2>8. CASE mon[d].at \in {"cleanup", "submit", "submitRecycle", "complete", "recycle"}
    BY <2>1, <2>2, <2>8
  <2> QED
    BY <2>1, <2>3, <2>4, <2>5, <2>6, <2>7, <2>8
<1>2. CASE ~MonitorStep(d)
  <2>1. CASE UNCHANGED <<mon, row, aria>>
    BY <2>1
  <2>2. CASE /\ Goes(d, "none", "insert") /\ Remembers(d) /\ UNCHANGED row
             /\ aria'[d].state = "active"
    BY <2>2 DEF Broken, Fetched
  <2>3. CASE /\ aria[d].state = "active" /\ UNCHANGED <<mon, row>>
             /\ aria'[d] = [aria[d] EXCEPT !.gid = 2]
    <3>1. aria'[d].state = aria[d].state
      BY <2>3 DEF TypeOK
    <3> QED
      BY <2>3, <3>1 DEF Fetched
  <2>4. CASE /\ aria'[d].gid = aria[d].gid /\ aria'[d].state \in {"complete", "seeding"}
             /\ UNCHANGED <<mon, row>>
    BY <2>4 DEF Fetched, Broken
  <2> QED
    BY <1>0, <1>2, <2>1, <2>2, <2>3, <2>4, OtherMoves
<1> QED
  BY <1>1, <1>2

(* Faults that can no longer happen do not happen, and each status call that *)
(* fails takes one from those that may.                                     *)
LEMMA SpendsNothing ==
    ASSUME TypeOK, Undisturbed, NEW d \in Download, DownloadStep(d)
    PROVE  Undisturbed'
<1>0. /\ budget \in [{"polls", "aria", "db", "stores", "deletes", "restarts"} -> Nat]
      /\ \A e \in Download : mon[e].retried \in Nat
      /\ MaxRetry \in Nat
  BY DownloadAssumption DEF TypeOK, Monitor
<1>1. ASSUME NEW b \in {"polls", "db"}, Spend(b)
      PROVE  /\ \A c \in {"aria", "deletes", "restarts"} : budget'[c] = budget[c]
             /\ budget'["polls"] = IF b = "polls" THEN budget["polls"] - 1
                                                  ELSE budget["polls"]
             /\ budget["polls"] \in Nat /\ (b = "polls" => budget["polls"] > 0)
  BY <1>0, <1>1 DEF Spend
<1>2. CASE MonitorStep(d)
  <2>1. Advance(d) /\ Apart(d)
    BY <1>2, MonitorMoves
  <2>2. budget' = budget \/ Spend("db") \/ Spend("polls")
    BY <1>2 DEF MonitorStep, InsertDownload, InsertDownloadFails, Poll, PollFails,
        FollowDownload, UpdateTaskInfo, RejectDownload, SetErrorStatus, SetCanceled,
        RemoveTempFolder, RecordTransfer, SubmitTransfer, LinkTransfer, AwaitTransfer,
        RecordRecycle, SubmitRecycle, RecordFails
  <2>3. /\ \A e \in Download \ {d} : mon'[e] = mon[e]
        /\ ready' = ready
    BY <2>1 DEF Apart
  <2>4. \/ mon'[d].retried \in {mon[d].retried, 0}
        \/ mon'[d].retried = mon[d].retried + 1 /\ Spend("polls")
    BY <2>1 DEF Advance, Counts
  <2>5. \/ budget'["polls"] = budget["polls"]
        \/ budget'["polls"] = budget["polls"] - 1 /\ budget["polls"] > 0
    BY <1>1, <2>2
  <2>6. \A c \in {"aria", "deletes", "restarts"} : budget'[c] = budget[c]
    BY <1>1, <2>2
  <2>7. ASSUME NEW e \in Download
        PROVE  mon'[e].retried + budget'["polls"] <= MaxRetry
    <3>1. mon[e].retried + budget["polls"] <= MaxRetry /\ budget["polls"] \in Nat
      BY <1>0 DEF Undisturbed
    <3>2. CASE e # d
      BY <1>0, <2>3, <2>5, <3>1, <3>2
    <3>3. CASE e = d
      <4>1. Spend("polls") => budget'["polls"] = budget["polls"] - 1
        BY <1>0 DEF Spend
      <4> QED
        BY <1>0, <2>4, <2>5, <3>1, <3>3, <4>1
    <3> QED
      BY <3>2, <3>3
  <2> QED
    BY <2>3, <2>6, <2>7 DEF Undisturbed
<1>3. CASE ~MonitorStep(d)
  <2>1. ~Spend("deletes") /\ ~Spend("aria")
    BY DEF Undisturbed, Spend
  <2>2. budget' = budget /\ ready' = ready
    BY <1>3, <2>1, OtherMoves
  <2>3. \A e \in Download : mon'[e].retried = mon[e].retried
    <3>1. /\ \A e \in Download \ {d} : mon'[e] = mon[e]
          /\ Counts(d) \/ mon' = mon
      BY <1>3, <2>1, OtherMoves
    <3> QED
      BY <3>1 DEF Counts
  <2> QED
    BY <2>2, <2>3 DEF Undisturbed
<1> QED
  BY <1>2, <1>3

(* Its own steps keep a download's transfer the only one. *)
LEMMA OneTransferOwn ==
    ASSUME PoolInv, Undisturbed, NEW d \in Download, SeesThrough(d), OneTransfer(d),
           DownloadStep(d)
    PROVE  OneTransfer(d)'
<1>0. /\ TypeOK /\ \A at \in {"submit", "submitRecycle", "link", "off"} : at \in Stage
      /\ \A id \in TaskId : id # 0
  BY DEF PoolInv, Stage, TaskId
<1> USE DEF Goes
<1>1. CASE Calm
  <2>1. /\ task' = task
        /\ \A id : /\ Unfinished(id)' <=> Unfinished(id)
                   /\ Ended(id) => ~Unfinished(id)
                   /\ \A type, e : Of(id, type, e)' <=> Of(id, type, e)
    BY <1>1 DEF Calm, pool, Unfinished, Ended, Of, Is
  <2>2. /\ mon'[d].at \in {"submit", "submitRecycle"}
             <=> mon[d].at \in {"submit", "submitRecycle"}
        /\ mon[d].at \in {"submit", "submitRecycle"} => mon'[d].id = mon[d].id
    BY <1>1 DEF Calm
  <2>3. CASE MonitorStep(d)
    <3>1. Advance(d) /\ Apart(d)
      BY <1>0, <2>3, MonitorMoves
    <3>2. d \in removing' => d \in removing \/ mon[d].at = "cleanup"
      BY <3>1 DEF Apart
    <3> USE DEF Knows, Remembers, OneTransfer
    <3>3. CASE mon[d].at = "poll"
      <4>1. ~Goes(d, "poll", "fail") \/ ~(mon[d].retried + 1 > MaxRetry) \/ ~Spend("polls")
        BY <1>0, DownloadAssumption DEF Undisturbed, Spend, TypeOK, Monitor
      <4> QED
        BY <2>1, <3>1, <3>2, <3>3, <4>1 DEF Advance
    <3>4. CASE mon[d].at = "save"
      <4>1. /\ mon'[d].at \in {"reject", "complete", "poll"}
            /\ mon'[d].at = "reject" => mon[d].task = 0
        BY <3>1, <3>4 DEF Advance, SeesThrough, Over, Handle, Broken
      <4>2. mon'[d].task = mon[d].task
        BY <3>1, <3>4 DEF Advance
      <4> QED
        BY <1>0, <2>1, <3>2, <3>4, <4>1, <4>2
    <3>5. CASE mon[d].at = "link"
      <4>1. mon'[d].at = "poll" /\ mon'[d].task = mon[d].id /\ mon[d].task = 0
        BY <3>1, <3>5 DEF Advance, SeesThrough
      <4> QED
        BY <1>0, <2>1, <3>2, <3>5, <4>1
    <3>6. CASE mon[d].at = "complete"
      <4>1. /\ mon'[d].at \in {"fail", "recycle", "poll"} /\ mon'[d].task = mon[d].task
            /\ mon'[d].at = "fail" => mon[d].task = 0
            /\ mon'[d].at = "recycle" => Ended(mon[d].task)
        BY <2>2, <3>1, <3>6 DEF Advance, Recyclable
      <4> QED
        BY <1>0, <2>1, <3>2, <3>6, <4>1
    <3>7. CASE mon[d].at \in {"insert", "follow"}
      <4>1. /\ mon'[d].at \in {"poll", "off"} /\ mon'[d].task = mon[d].task
            /\ mon'[d].at = "off" => mon[d].task = 0
        BY <3>1, <3>7 DEF Advance, SeesThrough
      <4> QED
        BY <1>0, <2>1, <3>2, <3>7, <4>1
    <3>8. CASE mon[d].at \in {"recycle", "reject", "fail", "cleanup"}
      <4>1. /\ mon'[d].at \in {"fail", "cleanup", "off"} /\ mon'[d].task = mon[d].task
            /\ mon[d].at = "cleanup" => mon'[d].at = "off"
        BY <2>2, <3>1, <3>8 DEF Advance
      <4> QED
        BY <2>1, <3>2, <3>8, <4>1
    <3>9. mon[d].at \in {"poll", "save", "link", "complete", "insert", "follow",
                         "recycle", "reject", "fail", "cleanup"}
      BY <2>2, <3>1 DEF Advance, SeesThrough
    <3> QED
      BY <3>3, <3>4, <3>5, <3>6, <3>7, <3>8, <3>9
  <2>4. CASE ~MonitorStep(d)
    <3>1. /\ removing' \subseteq removing
          /\ \/ mon' = mon
             \/ Goes(d, "none", "insert") /\ mon'[d].task = mon[d].task
      BY <1>0, <2>4, OtherMoves DEF Remembers, Knows
    <3> QED
      BY <2>1, <3>1 DEF OneTransfer
  <2> QED
    BY <2>3, <2>4
<1>2. CASE /\ Records(d, "transfer", "submit") /\ Goes(d, "complete", "submit")
           /\ mon[d].task = 0 /\ removing' = removing
  <2>1. PICK new \in TaskId : NewTask(d, "transfer", "submit", new)
    BY <1>0, <1>2, Recorded
  <2>2. \A id \in TaskId, type \in {"transfer", "recycle"} :
          ~Of(id, type, d) /\ (id # new => ~Of(id, type, d)')
    BY <1>0, <1>2, <2>1 DEF NewTask, OneTransfer, Of, Is
  <2>3. ~Of(new, "recycle", d)'
    BY <2>1 DEF NewTask, Of, Is
  <2>4. mon'[d].at = "submit" /\ mon'[d].id = new
    BY <2>1 DEF NewTask
  <2> QED
    BY <1>2, <2>2, <2>3, <2>4 DEF OneTransfer
<1>3. CASE /\ Records(d, "recycle", "submitRecycle")
           /\ Goes(d, "recycle", "submitRecycle") /\ removing' = removing
  <2>1. PICK new \in TaskId : NewTask(d, "recycle", "submitRecycle", new)
    BY <1>0, <1>3, Recorded
  <2>2. /\ \A id \in TaskId : Of(id, "transfer", d)' =>
             Of(id, "transfer", d) /\ (Unfinished(id)' <=> Unfinished(id))
        /\ \A id \in TaskId \ {new} : ~Of(id, "recycle", d)'
    BY <1>3, <2>1 DEF NewTask, OneTransfer, Of, Is, Unfinished
  <2>3. /\ mon'[d].at = "submitRecycle" /\ mon'[d].id = new
        /\ mon'[d].task = mon[d].task
    <3>1. mon[d] \in Monitor
      BY <1>0 DEF TypeOK
    <3> QED
      BY <2>1, <3>1, MonitorFields DEF NewTask
  <2> QED
    BY <1>3, <2>2, <2>3 DEF OneTransfer
<1>4. ASSUME NEW at \in {"link", "off"}, Submits(d, at),
             \/ Goes(d, "submit", "link") \/ Goes(d, "submitRecycle", "off"),
             removing' = removing
      PROVE  OneTransfer(d)'
  <2>1. /\ task' = task /\ mon'[d] = [mon[d] EXCEPT !.at = at]
    BY <1>0, <1>4, Submitted
  <2>2. /\ mon'[d].id = mon[d].id /\ mon'[d].task = mon[d].task
    <3>1. mon[d] \in Monitor
      BY <1>0 DEF TypeOK
    <3> QED
      BY <2>1, <3>1, MonitorFields
  <2>3. \A id : /\ Unfinished(id)' <=> Unfinished(id)
                /\ \A type, e : Of(id, type, e)' <=> Of(id, type, e)
    BY <2>1 DEF Unfinished, Of, Is
  <2> QED
    BY <1>4, <2>2, <2>3 DEF OneTransfer
<1> QED
  BY <1>1, <1>2, <1>3, <1>4, DownloadQueue

(* Neither do the steps of others give a download another transfer. *)
LEMMA OneTransferElsewhere ==
    ASSUME PoolInv, NEW d \in Download, DownloadStep(d),
           NEW e \in Download \ {d}, OneTransfer(e)
    PROVE  OneTransfer(e)'
<1>0. TypeOK /\ \A at \in {"submit", "submitRecycle", "link", "off"} : at \in Stage
  BY DEF PoolInv, Stage
<1>1. mon'[e] = mon[e] /\ (e \in removing' => e \in removing)
  <2>1. CASE MonitorStep(d)
    BY <1>0, <2>1, MonitorMoves DEF Apart
  <2>2. CASE ~MonitorStep(d)
    BY <1>0, <2>2, OtherMoves
  <2> QED
    BY <2>1, <2>2
<1> DEFINE Keeps ==
             \A id \in TaskId, type \in {"transfer", "recycle"} :
               Of(id, type, e)' => /\ Of(id, type, e)
                                   /\ Unfinished(id)' <=> Unfinished(id)
<1>2. Keeps
  <2>1. CASE task' = task
    BY <2>1 DEF Of, Is, Unfinished
  <2>2. ASSUME NEW type \in {"transfer", "recycle"},
               NEW at \in {"submit", "submitRecycle"}, Records(d, type, at)
        PROVE  Keeps
    <3>1. PICK new \in TaskId : NewTask(d, type, at, new)
      BY <1>0, <2>2, Recorded
    <3> QED
      BY <3>1 DEF NewTask, Of, Is, Unfinished
  <2>3. ASSUME NEW at \in {"link", "off"}, Submits(d, at) PROVE task' = task
    BY <1>0, <2>3, Submitted
  <2>4. Calm => task' = task
    BY DEF Calm, pool
  <2> QED
    BY <2>1, <2>2, <2>3, <2>4, DownloadQueue
<1> QED
  BY <1>1, <1>2 DEF OneTransfer

(* Nor do jobs, and only the one that recycles removes the folder. *)
LEMMA OneTransferJob ==
    ASSUME PoolInv, Live, NEW id \in TaskId, JobStep(id),
           NEW d \in Download, OneTransfer(d)
    PROVE  OneTransfer(d)'
<1>1. mon' = mon
  BY JobMoves
<1>2. \A i \in TaskId : /\ \A type : Of(i, type, d)' <=> Of(i, type, d)
                        /\ Unfinished(i)' => Unfinished(i)
  <2>1. ASSUME NEW i \in TaskId \ {id}
        PROVE  /\ \A type : Of(i, type, d)' <=> Of(i, type, d)
               /\ Unfinished(i)' => Unfinished(i)
    BY JobMoves DEF Of, Is, Unfinished
  <2>2. /\ \A type : Of(id, type, d)' <=> Of(id, type, d)
        /\ Unfinished(id)' => Unfinished(id)
    <3>1. \A type : Of(id, type, d)' <=> Of(id, type, d)
      BY JobMoves DEF Of, Is
    <3>2. Unfinished(id)' => Unfinished(id)
      BY JobMoves DEF Unfinished, Live, JobGoes, StatusStays
    <3> QED
      BY <3>1, <3>2
  <2> QED
    BY <2>1, <2>2
<1>3. d \in removing' => mon[d].at = "off"
  <2>1. CASE d \in removing
    BY <2>1 DEF OneTransfer
  <2>2. CASE d \in removing' /\ d \notin removing
    <3>1. job[id].at = "run" /\ Of(id, "recycle", d)
      BY <2>2, JobMoves DEF Of, Is
    <3>2. ~(mon[d].at = "submitRecycle" /\ mon[d].id = id)
      BY <3>1 DEF PoolInv, QueueInv, SubmitsFresh, Submitting
    <3> QED
      BY <3>1, <3>2 DEF OneTransfer
  <2> QED
    BY <2>1, <2>2
<1> QED
  BY <1>1, <1>2, <1>3 DEF OneTransfer

(* Every step keeps the download steady. *)
LEMMA SteadyNext ==
    ASSUME PoolInv, Live, Steady, [Next]_vars
    PROVE  Steady'
<1>0. /\ TypeOK /\ Undisturbed
      /\ \A d \in Download : SeesThrough(d) /\ OneTransfer(d)
  BY DEF PoolInv, Steady
<1>1. ASSUME NEW d \in Download, DownloadStep(d) PROVE Steady'
  <2>1. /\ \A e \in Download \ {d} :
             mon'[e] = mon[e] /\ row'[e] = row[e] /\ aria'[e] = aria[e]
        /\ ready' = ready
    BY <1>0, <1>1, MonitorMoves, OtherMoves DEF Apart
  <2>2. \A e \in Download \ {d} : SeesThrough(e)'
    BY <1>0, <2>1 DEF SeesThrough, Over, Exists
  <2>3. \A e \in Download \ {d} : OneTransfer(e)'
    BY <1>0, <1>1, OneTransferElsewhere
  <2>4. SeesThrough(d)' /\ OneTransfer(d)'
    BY <1>0, <1>1, SeesThroughOwn, OneTransferOwn
  <2>5. Undisturbed'
    BY <1>0, <1>1, <2>1, SpendsNothing
  <2> QED
    BY <2>2, <2>3, <2>4, <2>5 DEF Steady
<1>2. ASSUME NEW id \in TaskId, JobStep(id) PROVE Steady'
  <2>1. /\ UNCHANGED <<row, mon, aria, ready>>
        /\ \A b \in {"polls", "aria", "deletes", "restarts"} : budget'[b] = budget[b]
    BY <1>2, JobMoves
  <2>2. \A d \in Download : SeesThrough(d)'
    BY <1>0, <2>1 DEF SeesThrough, Over, Exists
  <2>3. \A d \in Download : OneTransfer(d)'
    BY <1>0, <1>2, OneTransferJob
  <2> QED
    BY <1>0, <2>1, <2>2, <2>3 DEF Steady, Undisturbed
<1>3. ~Restart /\ ~InitMonitors
  BY <1>0 DEF Undisturbed, Restart, InitMonitors, Spend
<1>4. CASE UNCHANGED vars
  BY <1>0, <1>4 DEF vars, dvars, pool, Steady, Undisturbed, SeesThrough, Over, Exists,
                    OneTransfer, Of, Is, Unfinished
<1> QED
  BY <1>1, <1>2, <1>3, <1>4 DEF Next, DownloadStep

(* The temporary folder is not removed under a transfer: as long as aria2    *)
(* gives nothing up, nobody cancels, the server does not stop and status    *)
(* calls fail no oftener than a monitor tolerates, whatever files cannot be *)
(* stored and rows cannot be inserted, the folder goes when the transfer of *)
(* its download is through.                                                 *)
THEOREM TransferKeepsSourceSafe ==
    ASSUME MaxAriaFails = 0, MaxDeletes = 0, MaxRestarts = 0, MaxPollFails <= MaxRetry
    PROVE  Spec => TransferKeepsSource
<1> DEFINE IInv == PoolInv /\ Live /\ Steady
           Keeps == \A d \in Download : d \in temp /\ d \notin temp' =>
                      ~\E id \in TaskId : /\ Unfinished(id) /\ task[id].of = d
                                          /\ task[id].type = "transfer"
<1>1. Init => IInv
  <2>1. ASSUME Init PROVE Live
    BY <2>1 DEF Init, PoolInit, NoJob, NoMonitor, Live, Submitting
  <2>2. ASSUME Init PROVE Undisturbed
    BY <2>2, DownloadAssumption DEF Init, NoMonitor, Undisturbed
  <2>3. ASSUME Init, NEW d \in Download PROVE SeesThrough(d) /\ OneTransfer(d)
    BY <2>3 DEF Init, PoolInit, NoMonitor, SeesThrough, OneTransfer, Over, Exists,
                Of, Is, Fetched, Broken, Transferring
  <2> QED
    BY <2>1, <2>2, <2>3, PoolInvInit DEF Steady
<1>2. IInv /\ [Next]_vars => IInv'
  BY PoolInvStep, LiveNext, SteadyNext
<1>3. IInv /\ [Next]_vars => Keeps
  <2>1. ASSUME IInv, [Next]_vars, NEW d \in Download, d \in temp, d \notin temp'
        PROVE  \A id \in TaskId : Of(id, "transfer", d) => ~Unfinished(id)
    <3>1. d \in removing
      <4>1. ASSUME NEW e \in Download, DownloadStep(e) PROVE d \in removing
        BY <2>1, <4>1, MonitorMoves, OtherMoves DEF Apart, PoolInv
      <4>2. (\E id \in TaskId : JobStep(id)) => temp' = temp
        BY <2>1, JobMoves
      <4>3. Restart \/ InitMonitors \/ UNCHANGED vars => temp' = temp
        BY DEF Restart, InitMonitors, vars, dvars
      <4> QED
        BY <2>1, <4>1, <4>2, <4>3 DEF Next, DownloadStep
    <3> QED
      BY <2>1, <3>1 DEF Steady, OneTransfer
  <2> QED
    BY <2>1 DEF Of, Is, Unfinished
<1>4. TransferKeepsSource <=> [][Keeps]_vars
  BY DEF TransferKeepsSource
<1> HIDE DEF IInv, Keeps
<1> QED
  BY <1>1, <1>2, <1>3, <1>4, PTL DEF Spec
=============================================================================
