---------------------------- MODULE RemoteDownload ----------------------------
(***************************************************************************)
(* Remote downloads through the aria2 server of the master node: adding    *)
(* and cancelling a download, the goroutine that monitors it, the transfer *)
(* and recycle jobs it submits to the task queue, and a restart.           *)
(*                                                                         *)
(* A step is one call of the aria2 server, one statement of the database,  *)
(* or one file stored.  aria2 is another process: it goes on by itself, and *)
(* a restart of the server does not touch it.  A notification only wakes    *)
(* the monitor up, as its timer does; a poll may happen at any time.       *)
(***************************************************************************)
EXTENDS TaskPool

CONSTANTS
    Download,     \* downloads that may ever be added
    Magnet,       \* those whose first GID is followed by another
    Files,        \* number of files of a download
    MaxRetry,     \* MAX_RETRY
    MaxPollFails, \* bound: status calls that fail
    MaxAriaFails, \* bound: downloads that aria2 gives up
    MaxDbFails,   \* bound: rows that cannot be inserted
    MaxStoreFails,\* bound: files that cannot be stored
    MaxDeletes,   \* bound: requests to cancel or delete a download
    MaxRestarts,  \* bound: restarts of the server
    NoDownload

Status == {"ready", "active", "seeding", "complete", "error", "removed"}
DownloadRow == [status : Status, task : {0} \cup TaskId, gid : 1 .. 2, sized : 0 .. 2]

ASSUME DownloadAssumption ==
    /\ Magnet \subseteq Download /\ Owner = Download
    /\ Files \in Nat /\ MaxRetry \in Nat
    /\ {MaxPollFails, MaxAriaFails, MaxDbFails, MaxStoreFails,
        MaxDeletes, MaxRestarts} \subseteq Nat
    /\ NoDownload \notin DownloadRow

VARIABLES
    row,       \* the downloads table
    mon,       \* the monitor, and before it the request that adds the download
    aria,      \* the download in aria2: its GID, and its state
    temp,      \* downloads whose temporary folder exists
    removing,  \* downloads with a goroutine of DeleteTempFile asleep
    stored,    \* files that have arrived in the user's folder
    ready,     \* cluster.Init and aria2.Init have run
    budget     \* faults and requests that may still happen

dvars == <<row, mon, aria, temp, removing, stored, ready, budget>>
pool == <<task, job, idle>>
vars == <<dvars, pool>>

Exists(d) == row[d] # NoDownload
IsActive(status) == status \in {"ready", "active", "seeding"}
IsFinal(status) == status \in {"complete", "error", "removed"}
Spend(b) == budget[b] > 0 /\ budget' = [budget EXCEPT ![b] = @ - 1]

NoMonitor == [at |-> "none", status |-> "ready", task |-> 0, gid |-> 1,
              sized |-> 0, retried |-> 0, id |-> 0]
MonitorAt(d, at) == mon[d].at = at
GotoStage(d, at) == mon' = [mon EXCEPT ![d].at = at]

(* Save writes every column of the monitor's copy.  A record that has been   *)
(* deleted is not found, and the insertion that gorm then tries collides     *)
(* with its primary key.                                                    *)
Saved(m) == [status |-> m.status, task |-> m.task, gid |-> m.gid, sized |-> m.sized]
Save(d, m) == row' = IF Exists(d) THEN [row EXCEPT ![d] = Saved(m)] ELSE row
-----------------------------------------------------------------------------
(* Adding a download: AddURLService.Add.  The folder is aria2's. *)

AddDownload(d) ==
    /\ ready /\ MonitorAt(d, "none")
    /\ aria' = [aria EXCEPT ![d].state = "active"]
    /\ temp' = temp \cup {d}
    /\ GotoStage(d, "insert")
    /\ UNCHANGED <<row, removing, stored, ready, budget, pool>>

InsertDownload(d) ==
    /\ MonitorAt(d, "insert")
    /\ row' = [row EXCEPT ![d] = Saved(mon[d])]
    /\ GotoStage(d, "poll")
    /\ UNCHANGED <<aria, temp, removing, stored, ready, budget, pool>>

(* Nobody takes back what aria2 has been asked to do. *)
InsertDownloadFails(d) ==
    /\ MonitorAt(d, "insert") /\ Spend("db")
    /\ GotoStage(d, "off")
    /\ UNCHANGED <<row, aria, temp, removing, stored, ready, pool>>

(* DownloadTaskService.Delete: a record with a final status is deleted, any  *)
(* other download is cancelled in aria2, which refuses what is not running   *)
(* under the GID of the record.                                             *)
CancelInAria(d, gid) ==
    aria' = IF aria[d].gid = gid /\ aria[d].state \in {"active", "seeding"}
              THEN [aria EXCEPT ![d].state = "removed"] ELSE aria

DeleteDownload(d) ==
    /\ ready /\ Exists(d) /\ Spend("deletes")
    /\ IF IsFinal(row[d].status)
         THEN row' = [row EXCEPT ![d] = NoDownload] /\ UNCHANGED aria
         ELSE CancelInAria(d, row[d].gid) /\ UNCHANGED row
    /\ UNCHANGED <<mon, temp, removing, stored, ready, pool>>
-----------------------------------------------------------------------------
(* Monitor.Update *)

(* The status call answers; the answer is the status the monitor will save. *)
(* A GID that is followed by another is left for the other one.             *)
Poll(d) ==
    /\ MonitorAt(d, "poll")
    /\ mon' = [mon EXCEPT ![d].retried = 0,
                 ![d].at = IF mon[d].gid # aria[d].gid THEN "follow" ELSE "save",
                 ![d].status = IF mon[d].gid # aria[d].gid THEN @ ELSE aria[d].state]
    /\ UNCHANGED <<row, aria, temp, removing, stored, ready, budget, pool>>

PollFails(d) ==
    /\ MonitorAt(d, "poll") /\ Spend("polls")
    /\ mon' = [mon EXCEPT ![d].retried = @ + 1,
                 ![d].at = IF mon[d].retried + 1 > MaxRetry THEN "fail" ELSE "poll"]
    /\ UNCHANGED <<row, aria, temp, removing, stored, ready, pool>>

FollowDownload(d) ==
    /\ MonitorAt(d, "follow")
    /\ LET m == [mon[d] EXCEPT !.gid = 2, !.at = "poll"] IN
        mon' = [mon EXCEPT ![d] = m] /\ Save(d, m)
    /\ UNCHANGED <<aria, temp, removing, stored, ready, budget, pool>>

(* UpdateTaskInfo, and the switch on the status.  The files are validated    *)
(* when the total size has changed, which is when a GID first reports it.    *)
Handle(status) ==
    CASE status \in {"complete", "seeding"} -> "complete"
      [] status = "error" -> "fail"
      [] status = "removed" -> "canceled"
      [] OTHER -> "poll"

UpdateTaskInfo(d) ==
    /\ MonitorAt(d, "save")
    /\ LET m == [mon[d] EXCEPT !.sized = mon[d].gid] IN
        /\ Save(d, m)
        /\ \E valid \in BOOLEAN :
             /\ ~valid => mon[d].sized # mon[d].gid
             /\ mon' = [mon EXCEPT ![d] =
                          [m EXCEPT !.at = IF ~Exists(d) THEN "fail"
                                           ELSE IF ~valid THEN "reject"
                                           ELSE Handle(m.status)]]
    /\ UNCHANGED <<aria, temp, removing, stored, ready, budget, pool>>

RejectDownload(d) ==
    /\ MonitorAt(d, "reject")
    /\ CancelInAria(d, mon[d].gid)
    /\ GotoStage(d, "fail")
    /\ UNCHANGED <<row, temp, removing, stored, ready, budget, pool>>

\* Seeded fault: the monitor goes on after it has given the download up.
SetErrorStatusAndGoOn(d) ==
    /\ MonitorAt(d, "fail")
    /\ LET m == [mon[d] EXCEPT !.status = "error", !.at = "poll"] IN
        mon' = [mon EXCEPT ![d] = m] /\ Save(d, m)
    /\ UNCHANGED <<aria, temp, removing, stored, ready, budget, pool>>

SetErrorStatus(d) ==
    /\ MonitorAt(d, "fail")
    /\ LET m == [mon[d] EXCEPT !.status = "error", !.at = "cleanup"] IN
        mon' = [mon EXCEPT ![d] = m] /\ Save(d, m)
    /\ UNCHANGED <<aria, temp, removing, stored, ready, budget, pool>>

SetCanceled(d) ==
    /\ MonitorAt(d, "canceled")
    /\ Save(d, mon[d])
    /\ GotoStage(d, "cleanup")
    /\ UNCHANGED <<aria, temp, removing, stored, ready, budget, pool>>

(* RemoveTempFolder; as long as no status has been saved, the folder is not  *)
(* known and nothing is removed.                                            *)
RemoveTempFolder(d) ==
    /\ MonitorAt(d, "cleanup")
    /\ removing' = IF mon[d].sized = 0 THEN removing ELSE removing \cup {d}
    /\ GotoStage(d, "off")
    /\ UNCHANGED <<row, aria, temp, stored, ready, budget, pool>>

(* DeleteTempFile sleeps before it removes. *)
DeleteTempFile(d) ==
    /\ d \in removing
    /\ temp' = temp \ {d}
    /\ removing' = removing \ {d}
    /\ UNCHANGED <<row, mon, aria, stored, ready, budget, pool>>
-----------------------------------------------------------------------------
(* Monitor.Complete and Monitor.transfer *)

RecordTransfer(d) ==
    /\ MonitorAt(d, "complete") /\ mon[d].task = 0
    /\ Record("transfer", d)
    /\ mon' = [mon EXCEPT ![d].at = "submit", ![d].id = NextId]
    /\ UNCHANGED <<row, aria, temp, removing, stored, ready, budget>>

SubmitTransfer(d) ==
    /\ MonitorAt(d, "submit")
    /\ Submit(mon[d].id)
    /\ GotoStage(d, "link")
    /\ UNCHANGED <<row, aria, temp, removing, stored, ready, budget>>

LinkTransfer(d) ==
    /\ MonitorAt(d, "link")
    /\ LET m == [mon[d] EXCEPT !.task = mon[d].id, !.at = "poll"] IN
        mon' = [mon EXCEPT ![d] = m] /\ Save(d, m)
    /\ UNCHANGED <<aria, temp, removing, stored, ready, budget, pool>>

\* Seeded faults: the folder is recycled without waiting for the transfer,
\* or only after a transfer that has not failed.
RecyclableAtOnce(d) == mon[d].status = "complete"
RecyclableAfterSuccess(d) ==
    mon[d].status = "complete" /\ task[mon[d].task].status = "complete"

(* aria2 and the transfer are both through. *)
Recyclable(d) == mon[d].status = "complete" /\ Ended(mon[d].task)

AwaitTransfer(d) ==
    /\ MonitorAt(d, "complete") /\ mon[d].task # 0
    /\ GotoStage(d, IF Recyclable(d) THEN "recycle" ELSE "poll")
    /\ UNCHANGED <<row, aria, temp, removing, stored, ready, budget, pool>>

RecordRecycle(d) ==
    /\ MonitorAt(d, "recycle")
    /\ Record("recycle", d)
    /\ mon' = [mon EXCEPT ![d].at = "submitRecycle", ![d].id = NextId]
    /\ UNCHANGED <<row, aria, temp, removing, stored, ready, budget>>

SubmitRecycle(d) ==
    /\ MonitorAt(d, "submitRecycle")
    /\ Submit(mon[d].id)
    /\ GotoStage(d, "off")
    /\ UNCHANGED <<row, aria, temp, removing, stored, ready, budget>>

(* The owner is inactive or the row of the task cannot be inserted. *)
RecordFails(d) ==
    /\ \/ MonitorAt(d, "complete") /\ mon[d].task = 0
       \/ MonitorAt(d, "recycle")
    /\ Spend("db")
    /\ GotoStage(d, "fail")
    /\ UNCHANGED <<row, aria, temp, removing, stored, ready, pool>>
-----------------------------------------------------------------------------
\* Seeded fault: only the error of the last file is kept.
AfterFileKeepingLast(j, ok) == [j EXCEPT !.n = @ + 1, !.failed = ~ok]

(* TransferTask.Do: one file after the other; a file that cannot be opened   *)
(* or stored, or has arrived already, makes the job fail but not stop.      *)
AfterFile(j, ok) == [j EXCEPT !.n = @ + 1, !.failed = @ \/ ~ok]

TransferFile(id) ==
    /\ job[id].at = "run" /\ task[id].type = "transfer" /\ job[id].n < Files
    /\ LET d == task[id].of
           k == job[id].n + 1
           possible == d \in temp /\ k \notin stored[d]
       IN \E ok \in BOOLEAN :
            /\ job' = [job EXCEPT ![id] = AfterFile(@, ok)]
            /\ stored' = IF ok THEN [stored EXCEPT ![d] = @ \cup {k}] ELSE stored
            /\ ok => possible
            /\ IF possible /\ ~ok THEN Spend("stores") ELSE UNCHANGED budget
    /\ UNCHANGED <<row, mon, aria, temp, removing, ready, task, idle>>

EndTransfer(id) ==
    /\ job[id].at = "run" /\ task[id].type = "transfer" /\ job[id].n = Files
    /\ job' = [job EXCEPT ![id].at = "finish"]
    /\ UNCHANGED <<dvars, task, idle>>

(* RecycleTask.Do: finds the record by its GID, then the node.  Before the   *)
(* node pool exists the lookup of the node panics.                          *)
RecycleFiles(id) ==
    /\ job[id].at = "run" /\ task[id].type = "recycle"
    /\ LET d == task[id].of
           found == Exists(d) /\ ready
       IN /\ removing' = IF found THEN removing \cup {d} ELSE removing
          /\ job' = [job EXCEPT ![id].at = "finish", ![id].failed = ~found]
    /\ UNCHANGED <<row, mon, aria, temp, stored, ready, budget, task, idle>>
-----------------------------------------------------------------------------
(* aria2 *)

AriaFollow(d) ==
    /\ d \in Magnet /\ aria[d].state = "active" /\ aria[d].gid = 1
    /\ aria' = [aria EXCEPT ![d].gid = 2]
    /\ UNCHANGED <<row, mon, temp, removing, stored, ready, budget, pool>>

AriaFinish(d) ==
    /\ \/ /\ aria[d].state = "active" /\ (d \in Magnet => aria[d].gid = 2)
          /\ \E s \in {"complete", "seeding"} : aria' = [aria EXCEPT ![d].state = s]
       \/ /\ aria[d].state = "seeding"
          /\ aria' = [aria EXCEPT ![d].state = "complete"]
    /\ UNCHANGED <<row, mon, temp, removing, stored, ready, budget, pool>>

AriaFail(d) ==
    /\ aria[d].state \in {"active", "seeding"} /\ Spend("aria")
    /\ aria' = [aria EXCEPT ![d].state = "error"]
    /\ UNCHANGED <<row, mon, temp, removing, stored, ready, pool>>
-----------------------------------------------------------------------------
(* The server stops and starts again.  Tasks are resumed before the node     *)
(* pool and the monitors exist, and before requests are served.             *)
Restart ==
    /\ Spend("restarts")
    /\ mon' = [d \in Download |-> IF MonitorAt(d, "none") THEN mon[d]
                                  ELSE [mon[d] EXCEPT !.at = "off"]]
    /\ removing' = {}
    /\ ready' = FALSE
    /\ Resume
    /\ UNCHANGED <<row, aria, temp, stored>>

\* Seeded fault: a download that is seeding is not watched again.
ResumableUnlessSeeding(d) == Exists(d) /\ row[d].status \in {"ready", "active"}

Resumable(d) == Exists(d) /\ IsActive(row[d].status)

(* cluster.Init, and aria2.Init with a monitor for each unfinished download. *)
InitMonitors ==
    /\ ~ready
    /\ ready' = TRUE
    /\ mon' = [d \in Download |->
                 IF Resumable(d)
                   THEN [NoMonitor EXCEPT !.at = "poll", !.status = row[d].status,
                           !.task = row[d].task, !.gid = row[d].gid, !.sized = row[d].sized]
                   ELSE mon[d]]
    /\ UNCHANGED <<row, aria, temp, removing, stored, budget, pool>>
-----------------------------------------------------------------------------
Init ==
    /\ PoolInit
    /\ row = [d \in Download |-> NoDownload]
    /\ mon = [d \in Download |-> NoMonitor]
    /\ aria = [d \in Download |-> [gid |-> 1, state |-> "none"]]
    /\ temp = {} /\ removing = {}
    /\ stored = [d \in Download |-> {}]
    /\ ready = TRUE
    /\ budget = [polls |-> MaxPollFails, aria |-> MaxAriaFails, db |-> MaxDbFails,
                 stores |-> MaxStoreFails, deletes |-> MaxDeletes, restarts |-> MaxRestarts]

MonitorStep(d) ==
    \/ InsertDownload(d) \/ InsertDownloadFails(d)
    \/ Poll(d) \/ PollFails(d) \/ FollowDownload(d)
    \/ UpdateTaskInfo(d) \/ RejectDownload(d)
    \/ SetErrorStatus(d) \/ SetCanceled(d) \/ RemoveTempFolder(d)
    \/ RecordTransfer(d) \/ SubmitTransfer(d) \/ LinkTransfer(d) \/ AwaitTransfer(d)
    \/ RecordRecycle(d) \/ SubmitRecycle(d) \/ RecordFails(d)

JobStep(id) ==
    \/ PoolStep(id) /\ UNCHANGED dvars
    \/ TransferFile(id) \/ EndTransfer(id) \/ RecycleFiles(id)

AriaStep(d) == AriaFollow(d) \/ AriaFinish(d)

Next ==
    \/ \E d \in Download :
         \/ AddDownload(d) \/ DeleteDownload(d) \/ MonitorStep(d)
         \/ DeleteTempFile(d) \/ AriaStep(d) \/ AriaFail(d)
    \/ \E id \in TaskId : JobStep(id)
    \/ Restart \/ InitMonitors

Spec == Init /\ [][Next]_vars

(* Goroutines that can go on do so, a server that has stopped is started     *)
(* again, and aria2 finishes what it has not given up.                      *)
Fairness ==
    /\ \A d \in Download : WF_vars(MonitorStep(d)) /\ WF_vars(DeleteTempFile(d))
                           /\ WF_vars(AriaStep(d))
    /\ \A id \in TaskId : WF_vars(JobStep(id))
    /\ WF_vars(InitMonitors)

FairSpec == Spec /\ Fairness
-----------------------------------------------------------------------------
Stage == {"none", "insert", "poll", "follow", "save", "reject", "fail", "canceled",
          "cleanup", "complete", "submit", "link", "recycle", "submitRecycle", "off"}
Monitor == [at : Stage, status : Status, task : {0} \cup TaskId, gid : 1 .. 2,
            sized : 0 .. 2, retried : Nat, id : {0} \cup TaskId]

(* Every variable has its type; no more workers are idle than there are. *)
TypeOK ==
    /\ PoolTypeOK
    /\ row \in [Download -> DownloadRow \cup {NoDownload}]
    /\ mon \in [Download -> Monitor]
    /\ aria \in [Download -> [gid : 1 .. 2, state : {"none"} \cup Status]]
    /\ temp \subseteq Download /\ removing \subseteq Download
    /\ stored \in [Download -> SUBSET (1 .. Files)]
    /\ ready \in BOOLEAN
    /\ budget \in [{"polls", "aria", "db", "stores", "deletes", "restarts"} -> Nat]

(* No job is forgotten: a task that the table shows as unfinished has its    *)
(* goroutine, or a monitor is about to submit it, also after a restart at    *)
(* any point between the insertion of its row and its last status.          *)
JobsHeld ==
    \A id \in TaskId : Unfinished(id) =>
        \/ job[id].at # "none"
        \/ \E d \in Download : mon[d].at \in {"submit", "submitRecycle"} /\ mon[d].id = id

(* A transfer reported as complete has brought every file, whatever was      *)
(* interrupted, repeated or removed on the way.                             *)
TransferComplete ==
    \A id \in TaskId :
        task[id] # NoTask /\ task[id].type = "transfer" /\ task[id].status = "complete"
        => stored[task[id].of] = 1 .. Files

(* A download that has ended stays ended: no late answer of aria2 and no     *)
(* restart makes it active again.                                           *)
FinalStays ==
    [][\A d \in Download :
         Exists(d) /\ IsFinal(row[d].status) /\ row'[d] # NoDownload
         => IsFinal(row'[d].status)]_vars

(* Every download that has been recorded ends, or its record is deleted. *)
DownloadEnds ==
    \A d \in Download :
        Exists(d) /\ IsActive(row[d].status) ~> ~(Exists(d) /\ IsActive(row[d].status))

(* Every task that has been recorded is worked off, with any number of       *)
(* workers, also over a restart.                                            *)
JobsEnd == \A id \in TaskId : Unfinished(id) ~> Ended(id)

(* The temporary folder is not removed under a transfer: the folder is       *)
(* recycled when the transfer is through.                                   *)
TransferKeepsSource ==
    [][\A d \in Download : d \in temp /\ d \notin temp' =>
         ~\E id \in TaskId : /\ Unfinished(id) /\ task[id].of = d
                             /\ task[id].type = "transfer"]_vars

(* What is downloaded is transferred: a complete download gets a transfer    *)
(* that ends, unless it fails or its record is deleted.                     *)
CompleteTransferred ==
    \A d \in Download :
        Exists(d) /\ row[d].status = "complete"
        ~> \/ ~Exists(d) \/ row[d].status # "complete"
           \/ \E id \in TaskId : /\ Ended(id) /\ task[id].of = d
                                 /\ task[id].type = "transfer"

(* The temporary folder of a download is removed in the end. *)
FolderRecycled == \A d \in Download : d \in temp ~> d \notin temp
==============================================================================
