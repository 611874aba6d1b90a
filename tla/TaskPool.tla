------------------------------- MODULE TaskPool -------------------------------
(***************************************************************************)
(* The task queue of pkg/task: rows of the tasks table, one goroutine for  *)
(* each job that has been submitted, and MaxWorkers tokens in the channel  *)
(* idleWorker.  What a job does between BeginJob and EndJob is left to the *)
(* module that extends this one.                                           *)
(***************************************************************************)
EXTENDS Naturals, FiniteSets

CONSTANTS
    MaxWorkers,   \* capacity of the channel idleWorker
    MaxTasks,     \* bound: rows the tasks table may get
    Owner,        \* what a task works for
    NoTask

TaskRow == [type : {"transfer", "recycle"}, of : Owner,
            status : {"queued", "processing", "error", "complete"}]

ASSUME PoolAssumption ==
    /\ MaxWorkers \in Nat \ {0} /\ MaxTasks \in Nat
    /\ NoTask \notin TaskRow

VARIABLES
    task,   \* the tasks table: type, owner, status
    job,    \* the goroutine of each task: stage, files done, whether it failed
    idle    \* tokens in the channel

TaskId == 1 .. MaxTasks
Unused == {id \in TaskId : task[id] = NoTask}
NextId == CHOOSE id \in TaskId : id \in Unused

NoJob == [at |-> "none", n |-> 0, failed |-> FALSE]
Waiting == [NoJob EXCEPT !.at = "waiting"]
Unfinished(id) == task[id] # NoTask /\ task[id].status \in {"queued", "processing"}
Ended(id) == task[id] # NoTask /\ task[id].status \in {"error", "complete"}
HoldsWorker(id) == job[id].at \in {"obtained", "run", "finish", "free"}

PoolInit ==
    /\ task = [id \in TaskId |-> NoTask]
    /\ job = [id \in TaskId |-> NoJob]
    /\ idle = MaxWorkers

(* Record inserts the row, for Submit to start its goroutine later. *)
Record(type, of) ==
    /\ Unused # {}
    /\ task' = [task EXCEPT ![NextId] = [type |-> type, of |-> of, status |-> "queued"]]
    /\ UNCHANGED <<job, idle>>

Submit(id) ==
    /\ job' = [job EXCEPT ![id] = Waiting]
    /\ UNCHANGED <<task, idle>>

(* obtainWorker *)
ObtainWorker(id) ==
    /\ job[id].at = "waiting" /\ idle > 0
    /\ job' = [job EXCEPT ![id].at = "obtained"]
    /\ idle' = idle - 1
    /\ UNCHANGED task

(* GeneralWorker.Do, before and after job.Do.  A panic of the job is         *)
(* recovered there and counts as a failure.                                 *)
BeginJob(id) ==
    /\ job[id].at = "obtained"
    /\ job' = [job EXCEPT ![id].at = "run"]
    /\ task' = [task EXCEPT ![id].status = "processing"]
    /\ UNCHANGED idle

\* Seeded fault: the status is written only when the job has not failed.
EndJobForgettingErrors(id) ==
    /\ job[id].at = "finish"
    /\ job' = [job EXCEPT ![id].at = "free"]
    /\ task' = IF job[id].failed THEN task
               ELSE [task EXCEPT ![id].status = "complete"]
    /\ UNCHANGED idle

EndJob(id) ==
    /\ job[id].at = "finish"
    /\ job' = [job EXCEPT ![id].at = "free"]
    /\ task' = [task EXCEPT ![id].status = IF job[id].failed THEN "error" ELSE "complete"]
    /\ UNCHANGED idle

\* Seeded fault: a worker whose job has failed is not given back.
FreeWorkerAfterSuccess(id) ==
    /\ job[id].at = "free"
    /\ job' = [job EXCEPT ![id] = NoJob]
    /\ idle' = IF job[id].failed THEN idle ELSE idle + 1
    /\ UNCHANGED task

(* freeWorker *)
FreeWorker(id) ==
    /\ job[id].at = "free"
    /\ job' = [job EXCEPT ![id] = NoJob]
    /\ idle' = idle + 1
    /\ UNCHANGED task

\* Seeded fault: a task that was being processed is not taken up again.
ResumeQueuedOnly ==
    /\ job' = [id \in TaskId |-> IF task[id] # NoTask /\ task[id].status = "queued"
                                   THEN Waiting ELSE NoJob]
    /\ idle' = MaxWorkers
    /\ UNCHANGED task

\* Seeded fault: the tokens are added to those left in the channel.
ResumeAddingWorkers ==
    /\ job' = [id \in TaskId |-> IF Unfinished(id) THEN Waiting ELSE NoJob]
    /\ idle' = idle + MaxWorkers
    /\ UNCHANGED task

(* Init after a restart: all the tokens, and a goroutine for each task that  *)
(* the table shows as unfinished.                                           *)
Resume ==
    /\ job' = [id \in TaskId |-> IF Unfinished(id) THEN Waiting ELSE NoJob]
    /\ idle' = MaxWorkers
    /\ UNCHANGED task

PoolStep(id) == ObtainWorker(id) \/ BeginJob(id) \/ EndJob(id) \/ FreeWorker(id)

Goroutine == [at : {"none", "waiting", "obtained", "run", "finish", "free"},
              n : Nat, failed : BOOLEAN]

PoolTypeOK ==
    /\ task \in [TaskId -> TaskRow \cup {NoTask}]
    /\ job \in [TaskId -> Goroutine]
    /\ idle \in 0 .. MaxWorkers

(* No worker is lost or made up: the tokens in the channel and the jobs that *)
(* hold one always add up to MaxWorkers, so the channel is never overfull    *)
(* and FreeWorker never blocks.                                             *)
WorkersConserved == idle + Cardinality({id \in TaskId : HoldsWorker(id)}) = MaxWorkers
==============================================================================
