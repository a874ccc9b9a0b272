---------------------------- MODULE TrainingJobs ----------------------------
(***************************************************************************)
(* Training jobs of the Studio.  API requests submit, cancel and delete    *)
(* jobs (job_service); the training worker (workers/training.py) takes the *)
(* oldest pending one and trains it (training_service): a main task, a     *)
(* synchronization task that copies progress to the job's row and looks    *)
(* for a cancellation, and a thread that trains.  Every access to the      *)
(* database is a session of its own; repo.update first reads the row       *)
(* (Read), later writes the whole row back (Write), whatever was committed *)
(* in between, and inserts it when it was deleted.  Reading it once more   *)
(* after the commit is part of the Write.                                  *)
(*                                                                         *)
(* A row stands for its status; the payload of a job never changes.  A     *)
(* model is named by the job that trained it.  Snapshots, progress values  *)
(* and messages are left out.                                              *)
(***************************************************************************)
EXTENDS Naturals, Sequences

CONSTANTS
    Jobs,       \* ids of jobs, each used once
    Payload,    \* the payload of each job
    Clients,    \* API requests that may be under way together
    NoJob,
    MaxStarts,  \* bound: starts of the worker process
    MaxFaults   \* bound: accesses to the database that fail

ASSUME ConstantsAssumption ==
    /\ NoJob \notin Jobs
    /\ "main" \notin Clients /\ "sync" \notin Clients /\ "abort" \notin Clients
    /\ MaxStarts \in Nat /\ MaxFaults \in Nat

VARIABLES
    status,     \* what each job's row says; "absent": there is no row
    submitted,  \* the jobs in the order of created_at
    models,     \* jobs whose model has a row
    folder,     \* the files of each job's model
    held,       \* the row each actor has read and is about to write back
    op,         \* what each request is doing
    worker,     \* the worker process
    orphans,    \* rows that abort_orphan_jobs still has to mark
    job,        \* the job of the main task, or the orphan being marked
    task,       \* where the main task is
    sync,       \* where the synchronization task is
    cancel,     \* cancel_training_event
    fit,        \* where the training thread is
    starts,     \* starts of the worker so far
    faults,     \* failed accesses so far
    trained,    \* history: jobs whose model was ever saved
    unrecorded, \* history: jobs whose last status a failed access kept from the row
    condemned   \* history: jobs whose model somebody asked to delete

rows     == <<status, models>>
requests == <<submitted, op, condemned>>
training == <<job, task, sync, cancel, fit>>
process  == <<worker, orphans, starts>>
history  == <<trained, unrecorded>>
vars == <<rows, folder, held, requests, process, training, faults, history>>

Statuses == {"absent", "pending", "running", "completed", "failed", "canceled"}
Ended    == {"completed", "failed", "canceled"}
Actors   == {"main", "sync", "abort"} \cup Clients
Steps    == {"none", "claim", "claiming", "refuse", "refusing", "prepare", "train",
             "withdraw", "withdrawing", "erase", "create", "fail", "failing",
             "settle", "check", "complete", "completing"}
Kinds    == {"idle", "saving", "canceling", "deleting", "erasing", "unlisting", "dropping"}
Nothing  == [kind |-> "idle", job |-> NoJob]

Init ==
    /\ status = [j \in Jobs |-> "absent"]
    /\ submitted = <<>>
    /\ models = {}
    /\ folder = [j \in Jobs |-> "none"]
    /\ held = [a \in Actors |-> "absent"]
    /\ op = [c \in Clients |-> Nothing]
    /\ worker = "stopped" /\ orphans = {}
    /\ job = NoJob /\ task = "none" /\ sync = "off" /\ cancel = FALSE /\ fit = "idle"
    /\ starts = 0 /\ faults = 0
    /\ trained = {} /\ unrecorded = {} /\ condemned = {}

(* An access to the database fails.                                        *)
Faulty == faults < MaxFaults /\ faults' = faults + 1

(* The two halves of an update by actor a.                                 *)
Read(a, j)  == /\ status[j] # "absent"
               /\ held' = [held EXCEPT ![a] = status[j]]
Write(a, j, s) == /\ status' = [status EXCEPT ![j] = s]
                  /\ held' = [held EXCEPT ![a] = "absent"]
WriteFails(a, j, s) == Write(a, j, s) \/ Write(a, j, status[j])

-----------------------------------------------------------------------------
(* API requests.                                                           *)

Begin(c, kind, j) == /\ op[c] = Nothing
                     /\ op' = [op EXCEPT ![c] = [kind |-> kind, job |-> j]]
Goes(c, kind)     == op' = [op EXCEPT ![c].kind = kind]
Ends(c)           == op' = [op EXCEPT ![c] = Nothing]
Doing(c, kind)    == op[c].kind = kind

Used(j) == \/ \E i \in 1..Len(submitted) : submitted[i] = j
           \/ \E c \in Clients : op[c].job = j

IsDuplicate(j) == \E k \in Jobs : /\ Payload[k] = Payload[j]
                                  /\ status[k] \in {"pending", "running"}

(* submit_train_job: no active job has the payload; then the row is saved. *)
(* Any fresh id will do.                                                   *)
Submit(c) ==
    LET j == CHOOSE k \in Jobs : ~Used(k)
    IN  /\ \E k \in Jobs : ~Used(k)
        /\ ~IsDuplicate(j)
        /\ Begin(c, "saving", j)
        /\ UNCHANGED <<rows, folder, held, submitted, process, training, faults, history, condemned>>

Save(c) ==
    /\ Doing(c, "saving")
    /\ status' = [status EXCEPT ![op[c].job] = "pending"]
    /\ submitted' = Append(submitted, op[c].job)
    /\ Ends(c)
    /\ UNCHANGED <<models, folder, held, process, training, faults, history, condemned>>

(* cancel_job, whatever the status of the job.                             *)
Cancel(c, j) ==
    /\ Begin(c, "canceling", j)
    /\ Read(c, j)
    /\ UNCHANGED <<rows, folder, submitted, process, training, faults, history, condemned>>

(* Mutant: a spelling that no JobStatus has.                               *)
CommitCancelMisspelt(c) ==
    /\ Doing(c, "canceling")
    /\ Write(c, op[c].job, "cancelled")
    /\ Ends(c)
    /\ UNCHANGED <<models, folder, submitted, process, training, faults, history, condemned>>

CommitCancel(c) ==
    /\ Doing(c, "canceling")
    /\ Write(c, op[c].job, "canceled")
    /\ Ends(c)
    /\ UNCHANGED <<models, folder, submitted, process, training, faults, history, condemned>>

(* delete_job: a row whose model is there is restricted by it.             *)
Delete(c, j) ==
    /\ status[j] \in {"failed", "canceled"}
    /\ Begin(c, "deleting", j)
    /\ UNCHANGED <<rows, folder, held, submitted, process, training, faults, history, condemned>>

CommitDelete(c) ==
    /\ Doing(c, "deleting")
    /\ status' = [status EXCEPT ![op[c].job] = IF op[c].job \in models THEN @ ELSE "absent"]
    /\ Ends(c)
    /\ UNCHANGED <<models, folder, held, submitted, process, training, faults, history, condemned>>

(* delete_model: the files, then the model's row unless a pipeline uses    *)
(* it, then the row of the job, whatever its status.                       *)
DeleteModel(c, j) ==
    /\ j \in models
    /\ Begin(c, "erasing", j)
    /\ condemned' = condemned \cup {j}
    /\ UNCHANGED <<rows, folder, held, submitted, process, training, faults, history>>

EraseModel(c) ==
    /\ Doing(c, "erasing")
    /\ folder' = [folder EXCEPT ![op[c].job] = "none"]
    /\ Goes(c, "unlisting")
    /\ UNCHANGED <<rows, held, submitted, process, training, faults, history, condemned>>

UnlistModel(c) ==
    /\ Doing(c, "unlisting")
    /\ \/ models' = models \ {op[c].job} /\ Goes(c, "dropping")
       \/ UNCHANGED models /\ Ends(c)
    /\ UNCHANGED <<status, folder, held, submitted, process, training, faults, history, condemned>>

DropJob(c) ==
    /\ Doing(c, "dropping")
    /\ status' = [status EXCEPT ![op[c].job] = "absent"]
    /\ Ends(c)
    /\ UNCHANGED <<models, folder, held, submitted, process, training, faults, history, condemned>>

(* The access of a request fails, or the server dies.                      *)
RequestFails(c) ==
    /\ op[c] # Nothing
    /\ Faulty
    /\ held' = [held EXCEPT ![c] = "absent"]
    /\ Ends(c)
    /\ UNCHANGED <<rows, folder, submitted, process, training, history, condemned>>

Request(c) ==
    \/ \E j \in Jobs : Cancel(c, j) \/ Delete(c, j) \/ DeleteModel(c, j)
    \/ Submit(c) \/ Save(c) \/ CommitCancel(c) \/ CommitDelete(c)
    \/ EraseModel(c) \/ UnlistModel(c) \/ DropJob(c) \/ RequestFails(c)

-----------------------------------------------------------------------------
(* The main task: train_pending_job and _run_training_job.  An update that *)
(* finds no row raises like one that fails.                                *)

Pending(j) == status[j] = "pending"
Oldest(j)  == \E i \in 1..Len(submitted) :
                 /\ submitted[i] = j /\ Pending(j)
                 /\ \A h \in 1..(i - 1) : ~Pending(submitted[h])

(* get_pending_train_job, by a new task of run_loop.                       *)
Take(j) ==
    /\ worker = "up" /\ task = "none"
    /\ Oldest(j)
    /\ job' = j /\ task' = "claim" /\ cancel' = FALSE
    /\ UNCHANGED <<rows, folder, held, requests, process, sync, fit, faults, history>>

(* The main task goes on at `to`; ending, it may leave its job running.    *)
Raises(to) ==
    /\ task' = to
    /\ unrecorded' = unrecorded \cup {j \in {job} : to = "none" /\ status'[j] = "running"}

(* The main task reads the row for an update; or the update raises.        *)
MainReads(from, to, raised) ==
    /\ task = from /\ UNCHANGED rows
    /\ \/ Read("main", job) /\ task' = to /\ UNCHANGED <<faults, unrecorded>>
       \/ status[job] = "absent" /\ Raises(raised) /\ UNCHANGED <<held, faults>>
       \/ Faulty /\ Raises(raised) /\ UNCHANGED held
    /\ UNCHANGED <<folder, requests, process, job, sync, cancel, fit, trained>>

(* A write that fails may have been committed.                             *)
MainWrites(from, s, to, raised) ==
    /\ task = from
    /\ \/ Write("main", job, s) /\ task' \in to /\ UNCHANGED <<faults, unrecorded>>
       \/ /\ Faulty
          /\ WriteFails("main", job, s)
          /\ Raises(raised)
    /\ UNCHANGED <<models, folder, requests, process, job, sync, cancel, fit, trained>>

(* The job is marked as running, whatever it has become since it was       *)
(* taken; then its payload is validated.                                   *)
ReadClaim == MainReads("claim", "claiming", "none")
Claim == MainWrites("claiming", "running", {"prepare", "refuse"}, "none")
ReadRefuse == MainReads("refuse", "refusing", "none")

(* Mutant: an invalid payload ends the task, but not the job.              *)
RefuseSilently == MainWrites("refusing", "running", {"none"}, "none")

Refuse == MainWrites("refusing", "failed", {"none"}, "none")

(* get_or_create_snapshot; then the synchronization starts, the snapshot   *)
(* is extracted and the thread starts.                                     *)
Prepare ==
    /\ task = "prepare"
    /\ \/ task' = "train" /\ sync' = "look" /\ fit' = "start"
       \/ task' = "fail" /\ sync' \in {"off", "look"} /\ UNCHANGED fit
    /\ UNCHANGED <<rows, folder, held, requests, process, job, cancel, faults, history>>

(* Mutant: neither the event nor an empty result is looked at.             *)
JudgeBlindly ==
    /\ task = "train"
    /\ fit \in {"exported", "nothing", "failed"}
    /\ task' = IF fit = "failed" THEN "fail" ELSE "create"
    /\ fit' = "idle"
    /\ UNCHANGED <<rows, folder, held, requests, process, job, sync, cancel, faults, history>>

(* The thread has returned or raised, and the extracted snapshot is gone.  *)
Judge ==
    /\ task = "train"
    /\ fit \in {"exported", "nothing", "failed"}
    /\ task' = CASE fit = "failed"  -> "fail"
                 [] fit # "failed" /\ cancel -> "withdraw"
                 [] fit = "nothing" /\ ~cancel -> "fail"
                 [] OTHER -> "create"
    /\ fit' = "idle"
    /\ UNCHANGED <<rows, folder, held, requests, process, job, sync, cancel, faults, history>>

(* _handle_job_cancellation; the folder may be gone already, or resist.    *)
ReadWithdraw == MainReads("withdraw", "withdrawing", "fail")
Withdraw == MainWrites("withdrawing", "canceled", {"erase"}, "fail")
Erase ==
    /\ task = "erase"
    /\ \/ folder' = [folder EXCEPT ![job] = "none"] /\ task' = "settle"
       \/ folder' \in {folder, [folder EXCEPT ![job] = "partial"]} /\ task' = "fail"
    /\ UNCHANGED <<rows, held, requests, process, job, sync, cancel, fit, faults, history>>

(* create_model; without the job's row the foreign key refuses it.         *)
Create ==
    /\ task = "create"
    /\ \/ /\ status[job] # "absent"
          /\ models' = models \cup {job} /\ trained' = trained \cup {job}
          /\ task' = "settle" /\ UNCHANGED faults
       \/ /\ (status[job] = "absent" /\ UNCHANGED faults) \/ Faulty
          /\ task' = "fail" /\ UNCHANGED <<models, trained>>
    /\ UNCHANGED <<status, folder, held, requests, process, job, sync, cancel, fit, unrecorded>>

(* The except clause.  delete_model, called when the thread got as far as  *)
(* an export path, finds no row of the model: it raises and leaves the     *)
(* files.                                                                  *)
ReadFail == MainReads("fail", "failing", "settle")
Fail == MainWrites("failing", "failed", {"settle"}, "settle")

(* Mutant: the synchronization goes on while the job is completed.         *)
SettleEarly ==
    /\ task = "settle"
    /\ task' = "check"
    /\ UNCHANGED <<rows, folder, held, requests, process, job, sync, cancel, fit, faults, history>>

(* The finally clause: the synchronization is cancelled and awaited, then  *)
(* a job that is still running is completed.                               *)
Settle ==
    /\ task = "settle"
    /\ sync' = "off" /\ held' = [held EXCEPT !["sync"] = "absent"]
    /\ task' = "check"
    /\ UNCHANGED <<rows, folder, requests, process, job, cancel, fit, faults, history>>

Check ==
    /\ task = "check" /\ UNCHANGED rows
    /\ \/ /\ task' = IF status[job] = "running" THEN "complete" ELSE "none"
          /\ UNCHANGED <<faults, unrecorded>>
       \/ Faulty /\ Raises("none")
    /\ UNCHANGED <<folder, held, requests, process, job, sync, cancel, fit, trained>>

ReadComplete == MainReads("complete", "completing", "none")
Complete == MainWrites("completing", "completed", {"none"}, "none")

Main ==
    \/ \E j \in Jobs : Take(j)
    \/ ReadClaim \/ Claim \/ ReadRefuse \/ Refuse \/ Prepare \/ Judge
    \/ ReadWithdraw \/ Withdraw \/ Erase \/ Create \/ ReadFail \/ Fail
    \/ Settle \/ Check \/ ReadComplete \/ Complete

-----------------------------------------------------------------------------
(* The thread of asyncio.to_thread: it goes on when its task is cancelled. *)

Thread(from, to) ==
    /\ fit = from /\ fit' \in to
    /\ UNCHANGED <<rows, held, requests, process, job, task, sync, cancel, faults, history>>

StartFit ==
    /\ Thread("start", {"fitting", "failed"})
    /\ folder' = [folder EXCEPT ![job] = IF fit' = "fitting" THEN "partial" ELSE @]

(* Fitting stops early when the event is set, which is then looked at.     *)
EndFit ==
    /\ Thread("fitting", {"failed", IF cancel THEN "nothing" ELSE "exporting"})
    /\ UNCHANGED folder

Export ==
    /\ Thread("exporting", {"exported", "failed"})
    /\ folder' = [folder EXCEPT ![job] = IF fit' = "exported" THEN "exported" ELSE @]

Fitting == StartFit \/ EndFit \/ Export

-----------------------------------------------------------------------------
(* _sync_progress_with_db, every half second.                              *)

SyncKeeps == UNCHANGED <<models, folder, requests, process, job, task, fit, history>>

Look ==
    /\ sync = "look"
    /\ \/ /\ sync' = IF status[job] = "running" THEN "step" ELSE "off"
          /\ cancel' = (cancel \/ status[job] = "canceled")
          /\ UNCHANGED faults
       \/ Faulty /\ sync' = "mark" /\ UNCHANGED cancel
    /\ UNCHANGED <<status, held>>
    /\ SyncKeeps

(* update_job_progress; the message differs from the empty one it is       *)
(* compared with, so that every round writes the row.                      *)
ReadStep ==
    /\ sync = "step"
    /\ \/ Read("sync", job) /\ sync' = "write" /\ UNCHANGED faults
       \/ /\ (status[job] = "absent" /\ UNCHANGED faults) \/ Faulty
          /\ sync' = "mark" /\ UNCHANGED held
    /\ UNCHANGED <<status, cancel>>
    /\ SyncKeeps

WriteStep ==
    /\ sync = "write"
    /\ \/ Write("sync", job, held["sync"]) /\ sync' = "look" /\ UNCHANGED faults
       \/ Faulty /\ WriteFails("sync", job, held["sync"]) /\ sync' = "mark"
    /\ UNCHANGED cancel
    /\ SyncKeeps

(* A failure of the synchronization fails the job, which trains on.        *)
ReadMark ==
    /\ sync = "mark"
    /\ \/ Read("sync", job) /\ sync' = "marking" /\ UNCHANGED faults
       \/ /\ (status[job] = "absent" /\ UNCHANGED faults) \/ Faulty
          /\ sync' = "off" /\ UNCHANGED held
    /\ UNCHANGED <<status, cancel>>
    /\ SyncKeeps

Mark ==
    /\ sync = "marking"
    /\ \/ Write("sync", job, "failed") /\ UNCHANGED faults
       \/ Faulty /\ WriteFails("sync", job, "failed")
    /\ sync' = "off"
    /\ UNCHANGED cancel
    /\ SyncKeeps

Synchronize == Look \/ ReadStep \/ WriteStep \/ ReadMark \/ Mark

-----------------------------------------------------------------------------
(* The worker process: setup, run_loop, teardown.                          *)

Running == {j \in Jobs : status[j] = "running"}

NoTask == /\ job' = NoJob /\ task' = "none" /\ sync' = "off"
          /\ cancel' = FALSE /\ fit' = "idle"
          /\ held' = [held EXCEPT !["main"] = "absent", !["sync"] = "absent", !["abort"] = "absent"]

(* Mutant: only teardown looks for orphans.                                *)
StartBare ==
    /\ worker \in {"stopped", "dead"}
    /\ starts < MaxStarts /\ starts' = starts + 1
    /\ worker' = "setup" /\ orphans' = {}
    /\ UNCHANGED <<rows, folder, held, requests, training, faults, history>>

(* setup begins with abort_orphan_jobs, whose query reads all rows at once. *)
Start ==
    /\ worker \in {"stopped", "dead"}
    /\ starts < MaxStarts /\ starts' = starts + 1
    /\ worker' = "setup" /\ orphans' = Running
    /\ UNCHANGED <<rows, folder, held, requests, training, faults, history>>

Aborting == worker \in {"setup", "teardown"}

(* An orphan's update; when it raises, setup or teardown does, and the     *)
(* process ends.                                                           *)
ReadOrphan(j) ==
    /\ Aborting /\ j \in orphans /\ held["abort"] = "absent"
    /\ job' = j
    /\ \/ Read("abort", j) /\ UNCHANGED <<worker, orphans, faults>>
       \/ /\ (status[j] = "absent" /\ UNCHANGED faults) \/ Faulty
          /\ worker' = "dead" /\ orphans' = {}
          /\ UNCHANGED held
    /\ UNCHANGED <<rows, folder, requests, starts, task, sync, cancel, fit, history>>

AbortOrphan ==
    /\ Aborting /\ held["abort"] # "absent"
    /\ \/ /\ Write("abort", job, "failed")
          /\ orphans' = orphans \ {job} /\ UNCHANGED <<worker, faults>>
       \/ Faulty /\ WriteFails("abort", job, "failed") /\ worker' = "dead" /\ orphans' = {}
    /\ UNCHANGED <<models, folder, requests, starts, training, history>>

(* The loop runs, or the process has ended; no orphan is left.             *)
EndAbort ==
    /\ Aborting /\ orphans = {}
    /\ worker' = IF worker = "setup" THEN "up" ELSE "stopped"
    /\ unrecorded' = {}
    /\ UNCHANGED <<rows, folder, held, requests, orphans, starts, training, faults, trained>>

(* Where CancelledError leaves the main task.  It is no Exception, so only *)
(* the finally clause sees it, and the await of a synchronization that     *)
(* ends swallows it.                                                       *)
Cancelled(t) ==
    CASE t \in {"prepare", "train", "withdraw", "withdrawing", "erase", "create", "fail", "failing"} -> "settle"
      [] t = "settle" /\ sync # "off" -> "settle"
      [] OTHER -> "none"

Writing == [claiming |-> "running", refusing |-> "failed", withdrawing |-> "canceled",
            failing |-> "failed", completing |-> "completed"]

(* The stop event is seen: the task is cancelled, and a write under way    *)
(* is committed or not.                                                    *)
Stop ==
    /\ worker = "up" /\ worker' = "closing"
    /\ task' = Cancelled(task)
    /\ \/ UNCHANGED status
       \/ /\ task \in DOMAIN Writing
          /\ status' = [status EXCEPT ![job] = Writing[task]]
    /\ held' = [held EXCEPT !["main"] = "absent"]
    /\ UNCHANGED <<models, folder, requests, orphans, starts, job, sync, cancel, fit, faults, history>>

(* gather, then the executor's thread is joined; teardown begins.          *)
Close ==
    /\ worker = "closing" /\ task = "none"
    /\ fit \notin {"start", "fitting", "exporting"}
    /\ worker' = "teardown" /\ orphans' = Running
    /\ UNCHANGED <<rows, folder, held, requests, starts, training, faults, history>>

(* The process is killed, or terminated because it takes too long to end.  *)
Crash ==
    /\ worker \in {"setup", "up", "closing", "teardown"}
    /\ worker' = "dead" /\ orphans' = {}
    /\ NoTask
    /\ UNCHANGED <<rows, folder, requests, starts, faults, history>>

Process ==
    \/ Start \/ AbortOrphan \/ EndAbort \/ Stop \/ Close \/ Crash
    \/ \E j \in Jobs : ReadOrphan(j)

Next == (\E c \in Clients : Request(c)) \/ Main \/ Fitting \/ Synchronize \/ Process
Spec == Init /\ [][Next]_vars

(* The event loop and the thread keep running while the process lives, and *)
(* a database answers or fails; a request may be given up, and nobody has  *)
(* to start or stop the server.                                            *)
Ending   == AbortOrphan \/ EndAbort \/ Close \/ \E j \in Jobs : ReadOrphan(j)
FairSpec == Spec /\ WF_vars(Main) /\ WF_vars(Fitting) /\ WF_vars(Ending)

-----------------------------------------------------------------------------
(* Properties.                                                             *)

TypeOK ==
    /\ status \in [Jobs -> Statuses]
    /\ submitted \in Seq(Jobs)
    /\ models \subseteq Jobs
    /\ folder \in [Jobs -> {"none", "partial", "exported"}]
    /\ held \in [Actors -> Statuses]
    /\ op \in [Clients -> [kind : Kinds, job : Jobs \cup {NoJob}]]
    /\ worker \in {"stopped", "setup", "up", "closing", "teardown", "dead"}
    /\ orphans \subseteq Jobs
    /\ job \in Jobs \cup {NoJob}
    /\ task \in Steps
    /\ sync \in {"off", "look", "step", "write", "mark", "marking"}
    /\ cancel \in BOOLEAN
    /\ fit \in {"idle", "start", "fitting", "exporting", "exported", "nothing", "failed"}
    /\ starts \in 0..MaxStarts /\ faults \in 0..MaxFaults
    /\ trained \subseteq Jobs /\ unrecorded \subseteq Jobs /\ condemned \subseteq Jobs

(* A row says running only while somebody works on the job: a worker that  *)
(* is up trains it now, unless an update that ended an earlier training    *)
(* failed; and a worker that stopped in order leaves none behind, whatever *)
(* crashed before, and however requests fall between its updates           *)
(* (abort_orphan_jobs at setup and teardown, MAX_CONCURRENT_TRAINING).     *)
RunningIsWorked ==
    /\ worker = "up" => \A j \in Running : j \in unrecorded \/ (task # "none" /\ j = job)
    /\ worker = "stopped" => Running = {}

(* A job that was completed is never running or failed again: the last     *)
(* word of the main task is not overwritten by the row that its            *)
(* synchronization had read, nor by the orphans of a shutdown.             *)
CompletedIsFinal ==
    [][\A j \in Jobs : status[j] = "completed" =>
                          status'[j] \in {"completed", "canceled", "absent"}]_vars

(* A listed model has its exported files, unless somebody asked to delete  *)
(* it: no cancellation, failure or shutdown lists an unfinished model or   *)
(* takes the files of a listed one away.                                   *)
ModelIsExported == \A j \in models \ condemned : folder[j] = "exported"

(* Every job ends while the worker lives, whatever fails: it does not stay *)
(* pending or running, except where the update that ended it failed.       *)
Active(j) == status[j] \in {"pending", "running"}
JobsEnd ==
    \A j \in Jobs :
        Active(j) ~> (~Active(j) \/ j \in unrecorded \/ worker \in {"stopped", "dead"})

(* "Training completed successfully" (training_service.py:163): a job that *)
(* is completed has had a model.                                           *)
CompletedHasModel == \A j \in Jobs : status[j] = "completed" => j \in trained
=============================================================================
