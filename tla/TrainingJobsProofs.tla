-------------------------- MODULE TrainingJobsProofs --------------------------
(***************************************************************************)
(* Proofs about TrainingJobs, for every set of jobs and of requests, every *)
(* number of restarts and of failed accesses to the database.              *)
(***************************************************************************)
EXTENDS TrainingJobs, TLAPS

(* The jobs whose row was ever saved. *)
Known == {submitted[i] : i \in 1..Len(submitted)}

(* A request works on a known job, but for the one it is about to save,     *)
(* which no other request has.                                              *)
Asked(c) ==
    /\ op[c].kind = "idle" <=> op[c] = Nothing
    /\ op[c].kind = "saving" =>
         /\ op[c].job \in Jobs \ Known
         /\ \A d \in Clients \ {c} : op[d].job # op[c].job
    /\ op[c].kind \notin {"idle", "saving"} => op[c].job \in Known
    /\ op[c].kind = "erasing" => op[c].job \in condemned

(* What was saved or trained is known; a trained job is not pending again.  *)
Listed ==
    /\ \A j \in Jobs : status[j] # "absent" => j \in Known
    /\ models \subseteq trained /\ condemned \subseteq trained /\ trained \subseteq Known
    /\ \A j \in trained : status[j] # "pending"

Fits     == {"start", "fitting", "exporting"}
Leaving  == {"settle", "check", "complete", "completing"}
Untrained == Steps \ (Leaving \cup {"none", "fail", "failing"})
Watched  == {"train", "withdraw", "withdrawing", "erase", "create", "fail", "failing", "settle"}

(* The main task, its synchronization and its thread work on one job of a   *)
(* worker that is up or closing.                                            *)
Employed ==
    /\ task # "none" => /\ worker \in {"up", "closing"}
                        /\ job \in Known
                        /\ status[job] # "completed"
    /\ worker = "closing" => task \in Leaving \cup {"none"}
    /\ task \notin {"none", "claim", "claiming"} => status[job] # "pending"
    /\ task \in Untrained => job \notin trained
    /\ sync # "off" => task \in Watched
    /\ sync = "write" => held["sync"] \notin {"pending", "completed"}
    /\ fit \in Fits => /\ worker \in {"up", "closing"}
                       /\ worker = "up" => task = "train"
                       /\ job \in Known \ trained
    /\ task = "train" /\ fit = "exported" => folder[job] = "exported"
    /\ task = "create" => folder[job] = "exported"

(* abort_orphan_jobs has every row that is running, and no completed one.   *)
Orphaned ==
    /\ Aborting => Running \subseteq orphans
    /\ orphans \subseteq Known
    /\ \A j \in orphans : status[j] # "completed"
    /\ held["abort"] # "absent" => Aborting /\ job \in orphans
    /\ orphans # {} => Aborting

Inv == /\ TypeOK
       /\ \A c \in Clients : Asked(c)
       /\ Listed /\ Employed /\ Orphaned
       /\ ModelIsExported /\ RunningIsWorked

(* Appending to a sequence adds one to its elements. *)
LEMMA AppendedElements ==
    ASSUME NEW S, NEW s \in Seq(S), NEW e \in S
    PROVE  {Append(s, e)[i] : i \in 1 .. Len(Append(s, e))}
               = {s[i] : i \in 1 .. Len(s)} \cup {e}
<1>1. Len(Append(s, e)) = Len(s) + 1 /\ Len(s) \in Nat
  OBVIOUS
<1>2. 1 .. Len(Append(s, e)) = (1 .. Len(s)) \cup {Len(s) + 1}
  BY <1>1
<1>3. Append(s, e)[Len(s) + 1] = e
  OBVIOUS
<1>4. \A i \in 1 .. Len(s) : Append(s, e)[i] = s[i]
  OBVIOUS
<1> QED BY <1>2, <1>3, <1>4, Zenon

-----------------------------------------------------------------------------
LEMMA InitInv == Init => Inv
<1> SUFFICES ASSUME Init PROVE Inv
  OBVIOUS
<1>1. TypeOK
  <2>1. submitted \in Seq(Jobs)
    BY DEF Init
  <2>2. op \in [Clients -> [kind : Kinds, job : Jobs \cup {NoJob}]]
    BY DEF Init, Nothing, Kinds
  <2>3. starts \in 0..MaxStarts /\ faults \in 0..MaxFaults
    BY ConstantsAssumption DEF Init
  <2> QED BY <2>1, <2>2, <2>3 DEF Init, TypeOK, Statuses, Steps
<1>2. Known = {}
  BY DEF Init, Known
<1>3. \A c \in Clients : Asked(c)
  BY <1>2 DEF Init, Asked, Nothing
<1>4. Listed /\ Employed /\ Orphaned
  BY <1>2 DEF Init, Listed, Employed, Orphaned, Fits, Untrained, Leaving, Watched, Aborting, Running,
              Actors
<1>5. ModelIsExported /\ RunningIsWorked
  BY DEF Init, ModelIsExported, RunningIsWorked, Running
<1> QED BY <1>1, <1>3, <1>4, <1>5 DEF Inv

LEMMA RequestInv ==
    ASSUME Inv, NEW c \in Clients, Request(c)
    PROVE  Inv'
<1> USE ConstantsAssumption DEF Inv, TypeOK, rows, requests, process, training, history,
        Read, Write, WriteFails, Faulty, Begin, Goes, Ends, Doing, Nothing
<1>a. {"main", "sync", "abort"} \cup Clients \subseteq Actors
  BY DEF Actors
<1>k. UNCHANGED submitted => Known' = Known
  BY DEF Known
<1>j. Known \subseteq Jobs
  BY DEF Known
<1>m. /\ task # "none" => job \in Jobs
      /\ sync # "off" => job \in Jobs
      /\ fit \in Fits => job \in Jobs
      /\ held["abort"] # "absent" => job \in Jobs
      /\ \A d \in Clients : op[d] # Nothing => op[d].job \in Jobs
  BY <1>j DEF Employed, Watched, Orphaned, Asked
<1>1. ASSUME NEW j \in Jobs, Cancel(c, j) PROVE Inv'
  <2>1. TypeOK'
    BY <1>1, <1>a, <1>m DEF Cancel, Kinds
  <2>2. \A d \in Clients : Asked(d)'
    BY <1>1, <1>a, <1>k DEF Cancel, Asked, Listed
  <2>3. Listed'
    BY <1>1, <1>a, <1>k DEF Cancel, Listed
  <2>4. Employed'
    BY <1>1, <1>a, <1>k DEF Cancel, Employed
  <2>5. Orphaned'
    BY <1>1, <1>a, <1>k DEF Cancel, Orphaned, Aborting, Running
  <2>6. ModelIsExported'
    BY <1>1, <1>a DEF Cancel, ModelIsExported
  <2>7. RunningIsWorked'
    BY <1>1, <1>a DEF Cancel, RunningIsWorked, Orphaned, Running
  <2> QED BY <2>1, <2>2, <2>3, <2>4, <2>5, <2>6, <2>7
<1>2. ASSUME NEW j \in Jobs, Delete(c, j) PROVE Inv'
  <2>1. TypeOK'
    BY <1>2, <1>a, <1>m DEF Delete, Kinds
  <2>2. \A d \in Clients : Asked(d)'
    BY <1>2, <1>a, <1>k DEF Delete, Asked, Listed
  <2>3. Listed'
    BY <1>2, <1>a, <1>k DEF Delete, Listed
  <2>4. Employed'
    BY <1>2, <1>a, <1>k DEF Delete, Employed
  <2>5. Orphaned'
    BY <1>2, <1>a, <1>k DEF Delete, Orphaned, Aborting, Running
  <2>6. ModelIsExported'
    BY <1>2, <1>a DEF Delete, ModelIsExported
  <2>7. RunningIsWorked'
    BY <1>2, <1>a DEF Delete, RunningIsWorked, Orphaned, Running
  <2> QED BY <2>1, <2>2, <2>3, <2>4, <2>5, <2>6, <2>7
<1>3. ASSUME NEW j \in Jobs, DeleteModel(c, j) PROVE Inv'
  <2>1. TypeOK'
    BY <1>3, <1>a, <1>m DEF DeleteModel, Kinds
  <2>2. \A d \in Clients : Asked(d)'
    BY <1>3, <1>a, <1>k DEF DeleteModel, Asked, Listed
  <2>3. Listed'
    BY <1>3, <1>a, <1>k DEF DeleteModel, Listed
  <2>4. Employed'
    BY <1>3, <1>a, <1>k DEF DeleteModel, Employed
  <2>5. Orphaned'
    BY <1>3, <1>a, <1>k DEF DeleteModel, Orphaned, Aborting, Running
  <2>6. ModelIsExported'
    BY <1>3, <1>a DEF DeleteModel, ModelIsExported
  <2>7. RunningIsWorked'
    BY <1>3, <1>a DEF DeleteModel, RunningIsWorked, Orphaned, Running
  <2> QED BY <2>1, <2>2, <2>3, <2>4, <2>5, <2>6, <2>7
<1>4. CASE Submit(c)
  <2>1. TypeOK'
    BY <1>4, <1>a, <1>m DEF Submit, Kinds
  <2>2. \A d \in Clients : Asked(d)'
    <3> DEFINE fresh == CHOOSE k \in Jobs : ~Used(k)
    <3>1. fresh \in Jobs /\ ~Used(fresh)
      BY <1>4 DEF Submit
    <3>2. fresh \notin Known /\ \A d \in Clients : op[d].job # fresh
      BY <3>1 DEF Used, Known
    <3>3. /\ op[c] = Nothing /\ op' = [op EXCEPT ![c] = [kind |-> "saving", job |-> fresh]]
          /\ Known' = Known /\ condemned' = condemned
      BY <1>4, <1>k DEF Submit
    <3> HIDE DEF fresh
    <3> QED BY <3>1, <3>2, <3>3 DEF Asked
  <2>3. Listed'
    BY <1>4, <1>a, <1>k DEF Submit, Listed
  <2>4. Employed'
    BY <1>4, <1>a, <1>k DEF Submit, Employed
  <2>5. Orphaned'
    BY <1>4, <1>a, <1>k DEF Submit, Orphaned, Aborting, Running
  <2>6. ModelIsExported'
    BY <1>4, <1>a DEF Submit, ModelIsExported
  <2>7. RunningIsWorked'
    BY <1>4, <1>a DEF Submit, RunningIsWorked, Orphaned, Running
  <2> QED BY <2>1, <2>2, <2>3, <2>4, <2>5, <2>6, <2>7
<1>5. CASE Save(c)
  <2> DEFINE j == op[c].job
  <2>1. /\ op[c].kind = "saving" /\ j \in Jobs \ Known
        /\ \A d \in Clients \ {c} : op[d].job # j
        /\ j \notin trained /\ status[j] = "absent"
    BY <1>5 DEF Save, Asked, Listed
  <2>2. /\ status' = [status EXCEPT ![j] = "pending"]
        /\ submitted' = Append(submitted, j)
        /\ op' = [op EXCEPT ![c] = Nothing]
        /\ UNCHANGED <<models, folder, held, process, training, faults, history, condemned>>
    BY <1>5 DEF Save
  <2>3. Known' = Known \cup {j}
    <3>1. submitted \in Seq(Jobs) /\ j \in Jobs
      BY <2>1
    <3> QED BY <2>2, <3>1, AppendedElements DEF Known
  <2> HIDE DEF j
  <2>4. TypeOK'
    BY <2>1, <2>2 DEF Statuses, Kinds
  <2>5. \A d \in Clients : Asked(d)'
    BY <2>1, <2>2, <2>3 DEF Asked, j
  <2>6. Listed'
    BY <2>1, <2>2, <2>3 DEF Listed
  <2>7. Employed'
    <3>1. /\ task # "none" => job \in Known /\ status'[job] = status[job]
          /\ fit \in Fits => job \in Known
      BY <2>1, <2>2 DEF Employed
    <3> QED BY <2>2, <2>3, <3>1 DEF Employed
  <2>8. Orphaned'
    BY <2>1, <2>2, <2>3 DEF Orphaned, Aborting, Running
  <2>9. ModelIsExported'
    BY <2>2 DEF ModelIsExported
  <2>10. RunningIsWorked'
    BY <2>1, <2>2 DEF RunningIsWorked, Running
  <2> QED BY <2>4, <2>5, <2>6, <2>7, <2>8, <2>9, <2>10
<1>6. CASE CommitCancel(c)
  <2>1. TypeOK'
    BY <1>6, <1>a, <1>m DEF CommitCancel, Statuses, Kinds
  <2>2. \A d \in Clients : Asked(d)'
    BY <1>6, <1>a, <1>k DEF CommitCancel, Asked
  <2>3. Listed'
    BY <1>6, <1>a, <1>k DEF CommitCancel, Asked, Listed
  <2>4. Employed'
    BY <1>6, <1>a, <1>k DEF CommitCancel, Employed
  <2>5. Orphaned'
    BY <1>6, <1>a, <1>k DEF CommitCancel, Orphaned, Aborting, Running
  <2>6. ModelIsExported'
    BY <1>6, <1>a DEF CommitCancel, ModelIsExported
  <2>7. RunningIsWorked'
    BY <1>6, <1>a DEF CommitCancel, RunningIsWorked, Orphaned, Running
  <2> QED BY <2>1, <2>2, <2>3, <2>4, <2>5, <2>6, <2>7
<1>7. CASE CommitDelete(c)
  <2>1. TypeOK'
    BY <1>7, <1>a, <1>m DEF CommitDelete, Statuses, Kinds
  <2>2. \A d \in Clients : Asked(d)'
    BY <1>7, <1>a, <1>k DEF CommitDelete, Asked
  <2>3. Listed'
    BY <1>7, <1>a, <1>k DEF CommitDelete, Listed
  <2>4. Employed'
    BY <1>7, <1>a, <1>k DEF CommitDelete, Employed
  <2>5. Orphaned'
    BY <1>7, <1>a, <1>k DEF CommitDelete, Orphaned, Aborting, Running
  <2>6. ModelIsExported'
    BY <1>7, <1>a DEF CommitDelete, ModelIsExported
  <2>7. RunningIsWorked'
    BY <1>7, <1>a DEF CommitDelete, RunningIsWorked, Orphaned, Running
  <2> QED BY <2>1, <2>2, <2>3, <2>4, <2>5, <2>6, <2>7
<1>8. CASE EraseModel(c)
  <2>1. TypeOK'
    BY <1>8, <1>a, <1>m DEF EraseModel, Kinds
  <2>2. \A d \in Clients : Asked(d)'
    BY <1>8, <1>a, <1>k DEF EraseModel, Asked
  <2>3. Listed'
    BY <1>8, <1>a, <1>k DEF EraseModel, Listed
  <2>4. Employed'
    BY <1>8, <1>a, <1>k DEF EraseModel, Asked, Listed, Employed, Untrained, Leaving
  <2>5. Orphaned'
    BY <1>8, <1>a, <1>k DEF EraseModel, Orphaned, Aborting, Running
  <2>6. ModelIsExported'
    BY <1>8, <1>a DEF EraseModel, ModelIsExported, Asked
  <2>7. RunningIsWorked'
    BY <1>8, <1>a DEF EraseModel, RunningIsWorked, Orphaned, Running
  <2> QED BY <2>1, <2>2, <2>3, <2>4, <2>5, <2>6, <2>7
<1>9. CASE UnlistModel(c)
  <2>1. TypeOK'
    BY <1>9, <1>a, <1>m DEF UnlistModel, Statuses, Kinds
  <2>2. \A d \in Clients : Asked(d)'
    BY <1>9, <1>a, <1>k DEF UnlistModel, Asked, Listed
  <2>3. Listed'
    BY <1>9, <1>a, <1>k DEF UnlistModel, Listed
  <2>4. Employed'
    BY <1>9, <1>a, <1>k DEF UnlistModel, Employed
  <2>5. Orphaned'
    BY <1>9, <1>a, <1>k DEF UnlistModel, Orphaned, Aborting, Running
  <2>6. ModelIsExported'
    BY <1>9, <1>a DEF UnlistModel, ModelIsExported
  <2>7. RunningIsWorked'
    BY <1>9, <1>a DEF UnlistModel, RunningIsWorked, Orphaned, Running
  <2> QED BY <2>1, <2>2, <2>3, <2>4, <2>5, <2>6, <2>7
<1>10. CASE DropJob(c)
  <2>1. TypeOK'
    BY <1>10, <1>a, <1>m DEF DropJob, Statuses, Kinds
  <2>2. \A d \in Clients : Asked(d)'
    BY <1>10, <1>a, <1>k DEF DropJob, Asked
  <2>3. Listed'
    BY <1>10, <1>a, <1>k DEF DropJob, Listed
  <2>4. Employed'
    BY <1>10, <1>a, <1>k DEF DropJob, Employed
  <2>5. Orphaned'
    BY <1>10, <1>a, <1>k DEF DropJob, Orphaned, Aborting, Running
  <2>6. ModelIsExported'
    BY <1>10, <1>a DEF DropJob, ModelIsExported
  <2>7. RunningIsWorked'
    BY <1>10, <1>a DEF DropJob, RunningIsWorked, Orphaned, Running
  <2> QED BY <2>1, <2>2, <2>3, <2>4, <2>5, <2>6, <2>7
<1>11. CASE RequestFails(c)
  <2>1. TypeOK'
    BY <1>11, <1>a, <1>m DEF RequestFails, Statuses, Kinds
  <2>2. \A d \in Clients : Asked(d)'
    BY <1>11, <1>a, <1>k DEF RequestFails, Asked
  <2>3. Listed'
    BY <1>11, <1>a, <1>k DEF RequestFails, Listed
  <2>4. Employed'
    BY <1>11, <1>a, <1>k DEF RequestFails, Employed
  <2>5. Orphaned'
    BY <1>11, <1>a, <1>k DEF RequestFails, Orphaned, Aborting, Running
  <2>6. ModelIsExported'
    BY <1>11, <1>a DEF RequestFails, ModelIsExported
  <2>7. RunningIsWorked'
    BY <1>11, <1>a DEF RequestFails, RunningIsWorked, Orphaned, Running
  <2> QED BY <2>1, <2>2, <2>3, <2>4, <2>5, <2>6, <2>7
<1> QED BY <1>1, <1>2, <1>3, <1>4, <1>5, <1>6, <1>7, <1>8, <1>9, <1>10, <1>11 DEF Request

LEMMA MainInv ==
    ASSUME Inv, Main
    PROVE  Inv'
<1> USE ConstantsAssumption DEF Inv, TypeOK, rows, requests, process, training, history,
        Read, Write, WriteFails, Faulty, Begin, Goes, Ends, Doing, Nothing
<1>a. {"main", "sync", "abort"} \cup Clients \subseteq Actors
  BY DEF Actors
<1>k. UNCHANGED submitted => Known' = Known
  BY DEF Known
<1>j. Known \subseteq Jobs
  BY DEF Known
<1>m. /\ task # "none" => job \in Jobs
      /\ sync # "off" => job \in Jobs
      /\ fit \in Fits => job \in Jobs
      /\ held["abort"] # "absent" => job \in Jobs
      /\ \A d \in Clients : op[d] # Nothing => op[d].job \in Jobs
  BY <1>j DEF Employed, Watched, Orphaned, Asked
<1>1. ASSUME NEW j \in Jobs, Take(j) PROVE Inv'
  <2>1. TypeOK'
    BY <1>1, <1>a, <1>m DEF Take, Steps
  <2>2. \A d \in Clients : Asked(d)'
    BY <1>1, <1>a, <1>k DEF Take, Asked
  <2>3. Listed'
    BY <1>1, <1>a, <1>k DEF Take, Listed
  <2>4. Employed'
    <3>1. /\ worker = "up" /\ task = "none" /\ job' = j /\ task' = "claim"
          /\ status[j] = "pending" /\ j \in Known /\ Known' = Known
          /\ UNCHANGED <<status, folder, held, worker, sync, fit, trained>>
      BY <1>1, <1>k DEF Take, Oldest, Pending, Known
    <3>2. j \notin trained
      BY <3>1 DEF Listed
    <3>3. sync = "off" /\ fit \notin Fits
      BY <3>1 DEF Employed, Watched
    <3> QED BY <3>1, <3>2, <3>3 DEF Employed
  <2>5. Orphaned'
    BY <1>1, <1>a, <1>k DEF Take, Orphaned, Aborting
  <2>6. ModelIsExported'
    BY <1>1, <1>a DEF Take, ModelIsExported
  <2>7. RunningIsWorked'
    BY <1>1, <1>a DEF Take, RunningIsWorked, Orphaned, Running
  <2> QED BY <2>1, <2>2, <2>3, <2>4, <2>5, <2>6, <2>7
<1>2. CASE ReadClaim
  <2>1. TypeOK'
    BY <1>2, <1>a, <1>m DEF ReadClaim, MainReads, Raises, Steps
  <2>2. \A d \in Clients : Asked(d)'
    BY <1>2, <1>a, <1>k DEF ReadClaim, MainReads, Raises, Asked
  <2>3. Listed'
    BY <1>2, <1>a, <1>k DEF ReadClaim, MainReads, Raises, Listed
  <2>4. Employed'
    BY <1>2, <1>a, <1>k DEF ReadClaim, MainReads, Raises, Employed, Untrained, Leaving, Watched
  <2>5. Orphaned'
    BY <1>2, <1>a, <1>k DEF ReadClaim, MainReads, Raises, Orphaned, Aborting, Running
  <2>6. ModelIsExported'
    BY <1>2, <1>a DEF ReadClaim, MainReads, Raises, ModelIsExported
  <2>7. RunningIsWorked'
    BY <1>2, <1>a DEF ReadClaim, MainReads, Raises, RunningIsWorked, Orphaned, Running
  <2> QED BY <2>1, <2>2, <2>3, <2>4, <2>5, <2>6, <2>7
<1>3. CASE Claim
  <2>1. TypeOK'
    BY <1>3, <1>a, <1>m DEF Claim, MainWrites, Raises, Statuses, Steps
  <2>2. \A d \in Clients : Asked(d)'
    BY <1>3, <1>a, <1>k DEF Claim, MainWrites, Raises, Asked
  <2>3. Listed'
    BY <1>3, <1>a, <1>k DEF Claim, MainWrites, Raises, Listed, Employed
  <2>4. Employed'
    <3>1. /\ task = "claiming" /\ task' \in {"prepare", "refuse", "none"}
          /\ Known' = Known /\ held'["sync"] = held["sync"]
          /\ UNCHANGED <<folder, worker, job, sync, fit, trained>>
      BY <1>3, <1>a, <1>k DEF Claim, MainWrites, Raises
    <3>2. task' # "none" => status'[job] = "running"
      BY <1>3, <1>m DEF Claim, MainWrites, Raises
    <3>3. sync = "off" /\ worker = "up" /\ fit \notin Fits /\ job \in Known \ trained
      BY <3>1 DEF Employed, Watched, Untrained, Leaving
    <3> QED BY <3>1, <3>2, <3>3 DEF Employed
  <2>5. Orphaned'
    BY <1>3, <1>a, <1>k DEF Claim, MainWrites, Raises, Orphaned, Employed, Aborting
  <2>6. ModelIsExported'
    BY <1>3, <1>a DEF Claim, MainWrites, Raises, ModelIsExported
  <2>7. RunningIsWorked'
    BY <1>3, <1>a DEF Claim, MainWrites, Raises, RunningIsWorked, Employed, Orphaned, Running
  <2> QED BY <2>1, <2>2, <2>3, <2>4, <2>5, <2>6, <2>7
<1>4. CASE ReadRefuse
  <2>1. TypeOK'
    BY <1>4, <1>a, <1>m DEF ReadRefuse, MainReads, Raises, Steps
  <2>2. \A d \in Clients : Asked(d)'
    BY <1>4, <1>a, <1>k DEF ReadRefuse, MainReads, Raises, Asked
  <2>3. Listed'
    BY <1>4, <1>a, <1>k DEF ReadRefuse, MainReads, Raises, Listed
  <2>4. Employed'
    BY <1>4, <1>a, <1>k DEF ReadRefuse, MainReads, Raises, Employed, Untrained, Leaving, Watched
  <2>5. Orphaned'
    BY <1>4, <1>a, <1>k DEF ReadRefuse, MainReads, Raises, Orphaned, Aborting, Running
  <2>6. ModelIsExported'
    BY <1>4, <1>a DEF ReadRefuse, MainReads, Raises, ModelIsExported
  <2>7. RunningIsWorked'
    BY <1>4, <1>a DEF ReadRefuse, MainReads, Raises, RunningIsWorked, Orphaned, Running
  <2> QED BY <2>1, <2>2, <2>3, <2>4, <2>5, <2>6, <2>7
<1>5. CASE Refuse
  <2>1. TypeOK'
    BY <1>5, <1>a, <1>m DEF Refuse, MainWrites, Raises, Statuses, Steps
  <2>2. \A d \in Clients : Asked(d)'
    BY <1>5, <1>a, <1>k DEF Refuse, MainWrites, Raises, Asked
  <2>3. Listed'
    BY <1>5, <1>a, <1>k DEF Refuse, MainWrites, Raises, Listed, Employed
  <2>4. Employed'
    BY <1>5, <1>a, <1>k DEF Refuse, MainWrites, Raises, Employed, Untrained, Watched
  <2>5. Orphaned'
    BY <1>5, <1>a, <1>k DEF Refuse, MainWrites, Raises, Orphaned, Aborting, Running
  <2>6. ModelIsExported'
    BY <1>5, <1>a DEF Refuse, MainWrites, Raises, ModelIsExported
  <2>7. RunningIsWorked'
    BY <1>5, <1>a DEF Refuse, MainWrites, Raises, RunningIsWorked, Orphaned, Running
  <2> QED BY <2>1, <2>2, <2>3, <2>4, <2>5, <2>6, <2>7
<1>6. CASE Prepare
  <2>1. TypeOK'
    BY <1>6, <1>a, <1>m DEF Prepare, Steps
  <2>2. \A d \in Clients : Asked(d)'
    BY <1>6, <1>a, <1>k DEF Prepare, Asked
  <2>3. Listed'
    BY <1>6, <1>a, <1>k DEF Prepare, Listed
  <2>4. Employed'
    BY <1>6, <1>a, <1>k DEF Prepare, Employed, Untrained, Leaving, Watched
  <2>5. Orphaned'
    BY <1>6, <1>a, <1>k DEF Prepare, Orphaned, Aborting, Running
  <2>6. ModelIsExported'
    BY <1>6, <1>a DEF Prepare, ModelIsExported
  <2>7. RunningIsWorked'
    BY <1>6, <1>a DEF Prepare, RunningIsWorked, Orphaned, Running
  <2> QED BY <2>1, <2>2, <2>3, <2>4, <2>5, <2>6, <2>7
<1>7. CASE Judge
  <2>1. TypeOK'
    BY <1>7, <1>a, <1>m DEF Judge, Steps
  <2>2. \A d \in Clients : Asked(d)'
    BY <1>7, <1>a, <1>k DEF Judge, Asked
  <2>3. Listed'
    BY <1>7, <1>a, <1>k DEF Judge, Listed
  <2>4. Employed'
    BY <1>7, <1>a, <1>k DEF Judge, Employed, Fits, Untrained, Leaving, Watched
  <2>5. Orphaned'
    BY <1>7, <1>a, <1>k DEF Judge, Orphaned, Aborting, Running
  <2>6. ModelIsExported'
    BY <1>7, <1>a DEF Judge, ModelIsExported
  <2>7. RunningIsWorked'
    BY <1>7, <1>a DEF Judge, RunningIsWorked, Orphaned, Running
  <2> QED BY <2>1, <2>2, <2>3, <2>4, <2>5, <2>6, <2>7
<1>8. CASE ReadWithdraw
  <2>1. TypeOK'
    BY <1>8, <1>a, <1>m DEF ReadWithdraw, MainReads, Raises, Steps
  <2>2. \A d \in Clients : Asked(d)'
    BY <1>8, <1>a, <1>k DEF ReadWithdraw, MainReads, Raises, Asked
  <2>3. Listed'
    BY <1>8, <1>a, <1>k DEF ReadWithdraw, MainReads, Raises, Listed
  <2>4. Employed'
    BY <1>8, <1>a, <1>k DEF ReadWithdraw, MainReads, Raises, Employed, Untrained, Leaving, Watched
  <2>5. Orphaned'
    BY <1>8, <1>a, <1>k DEF ReadWithdraw, MainReads, Raises, Orphaned, Aborting, Running
  <2>6. ModelIsExported'
    BY <1>8, <1>a DEF ReadWithdraw, MainReads, Raises, ModelIsExported
  <2>7. RunningIsWorked'
    BY <1>8, <1>a DEF ReadWithdraw, MainReads, Raises, RunningIsWorked, Orphaned, Running
  <2> QED BY <2>1, <2>2, <2>3, <2>4, <2>5, <2>6, <2>7
<1>9. CASE Withdraw
  <2>1. TypeOK'
    BY <1>9, <1>a, <1>m DEF Withdraw, MainWrites, Raises, Statuses, Steps
  <2>2. \A d \in Clients : Asked(d)'
    BY <1>9, <1>a, <1>k DEF Withdraw, MainWrites, Raises, Asked
  <2>3. Listed'
    BY <1>9, <1>a, <1>k DEF Withdraw, MainWrites, Raises, Listed, Employed
  <2>4. Employed'
    BY <1>9, <1>a, <1>k DEF Withdraw, MainWrites, Raises, Employed, Untrained, Leaving, Watched
  <2>5. Orphaned'
    BY <1>9, <1>a, <1>k DEF Withdraw, MainWrites, Raises, Orphaned, Aborting, Running
  <2>6. ModelIsExported'
    BY <1>9, <1>a DEF Withdraw, MainWrites, Raises, ModelIsExported
  <2>7. RunningIsWorked'
    BY <1>9, <1>a DEF Withdraw, MainWrites, Raises, RunningIsWorked, Orphaned, Running
  <2> QED BY <2>1, <2>2, <2>3, <2>4, <2>5, <2>6, <2>7
<1>10. CASE Erase
  <2>1. TypeOK'
    BY <1>10, <1>a, <1>m DEF Erase, Steps
  <2>2. \A d \in Clients : Asked(d)'
    BY <1>10, <1>a, <1>k DEF Erase, Asked
  <2>3. Listed'
    BY <1>10, <1>a, <1>k DEF Erase, Listed
  <2>4. Employed'
    BY <1>10, <1>a, <1>k DEF Erase, Employed, Untrained, Leaving, Watched
  <2>5. Orphaned'
    BY <1>10, <1>a, <1>k DEF Erase, Orphaned, Aborting, Running
  <2>6. ModelIsExported'
    BY <1>10, <1>a DEF Erase, ModelIsExported, Listed, Employed, Untrained, Leaving
  <2>7. RunningIsWorked'
    BY <1>10, <1>a DEF Erase, RunningIsWorked, Orphaned, Running
  <2> QED BY <2>1, <2>2, <2>3, <2>4, <2>5, <2>6, <2>7
<1>11. CASE Create
  <2>1. TypeOK'
    BY <1>11, <1>a, <1>m DEF Create, Steps
  <2>2. \A d \in Clients : Asked(d)'
    BY <1>11, <1>a, <1>k DEF Create, Asked
  <2>3. Listed'
    BY <1>11, <1>a, <1>k DEF Create, Listed, Employed
  <2>4. Employed'
    BY <1>11, <1>a, <1>k DEF Create, Employed, Untrained, Leaving, Watched
  <2>5. Orphaned'
    BY <1>11, <1>a, <1>k DEF Create, Orphaned, Aborting, Running
  <2>6. ModelIsExported'
    BY <1>11, <1>a DEF Create, ModelIsExported, Employed
  <2>7. RunningIsWorked'
    BY <1>11, <1>a DEF Create, RunningIsWorked, Orphaned, Running
  <2> QED BY <2>1, <2>2, <2>3, <2>4, <2>5, <2>6, <2>7
<1>12. CASE ReadFail
  <2>1. TypeOK'
    BY <1>12, <1>a, <1>m DEF ReadFail, MainReads, Raises, Steps
  <2>2. \A d \in Clients : Asked(d)'
    BY <1>12, <1>a, <1>k DEF ReadFail, MainReads, Raises, Asked
  <2>3. Listed'
    BY <1>12, <1>a, <1>k DEF ReadFail, MainReads, Raises, Listed
  <2>4. Employed'
    BY <1>12, <1>a, <1>k DEF ReadFail, MainReads, Raises, Employed, Untrained, Leaving, Watched
  <2>5. Orphaned'
    BY <1>12, <1>a, <1>k DEF ReadFail, MainReads, Raises, Orphaned, Aborting, Running
  <2>6. ModelIsExported'
    BY <1>12, <1>a DEF ReadFail, MainReads, Raises, ModelIsExported
  <2>7. RunningIsWorked'
    BY <1>12, <1>a DEF ReadFail, MainReads, Raises, RunningIsWorked, Orphaned, Running
  <2> QED BY <2>1, <2>2, <2>3, <2>4, <2>5, <2>6, <2>7
<1>13. CASE Fail
  <2>1. TypeOK'
    <3>1. task = "failing" /\ task' = "settle" /\ job \in Jobs
      BY <1>13, <1>m DEF Fail, MainWrites, Raises
    <3>2. faults' \in 0..MaxFaults
      BY <1>13 DEF Fail, MainWrites
    <3>3. status' \in [Jobs -> Statuses] /\ held' \in [Actors -> Statuses]
      BY <1>13, <3>1 DEF Fail, MainWrites, Statuses
    <3>4. unrecorded' = unrecorded
      BY <1>13 DEF Fail, MainWrites, Raises
    <3>5. UNCHANGED <<models, folder, requests, process, job, sync, cancel, fit, trained>>
      BY <1>13 DEF Fail, MainWrites
    <3> QED BY <3>1, <3>2, <3>3, <3>4, <3>5 DEF Steps
  <2>2. \A d \in Clients : Asked(d)'
    BY <1>13, <1>a, <1>k DEF Fail, MainWrites, Raises, Asked
  <2>3. Listed'
    BY <1>13, <1>a, <1>k DEF Fail, MainWrites, Raises, Listed, Employed
  <2>4. Employed'
    BY <1>13, <1>a, <1>k DEF Fail, MainWrites, Raises, Employed, Untrained, Leaving, Watched
  <2>5. Orphaned'
    BY <1>13, <1>a, <1>k DEF Fail, MainWrites, Raises, Orphaned, Aborting, Running
  <2>6. ModelIsExported'
    BY <1>13, <1>a DEF Fail, MainWrites, Raises, ModelIsExported
  <2>7. RunningIsWorked'
    BY <1>13, <1>a DEF Fail, MainWrites, Raises, RunningIsWorked, Orphaned, Running
  <2> QED BY <2>1, <2>2, <2>3, <2>4, <2>5, <2>6, <2>7
<1>14. CASE Settle
  <2>1. TypeOK'
    BY <1>14, <1>a, <1>m DEF Settle, Statuses, Steps
  <2>2. \A d \in Clients : Asked(d)'
    BY <1>14, <1>a, <1>k DEF Settle, Asked
  <2>3. Listed'
    BY <1>14, <1>a, <1>k DEF Settle, Listed
  <2>4. Employed'
    BY <1>14, <1>a, <1>k DEF Settle, Employed, Untrained, Leaving
  <2>5. Orphaned'
    BY <1>14, <1>a, <1>k DEF Settle, Orphaned, Aborting, Running
  <2>6. ModelIsExported'
    BY <1>14, <1>a DEF Settle, ModelIsExported
  <2>7. RunningIsWorked'
    BY <1>14, <1>a DEF Settle, RunningIsWorked, Orphaned, Running
  <2> QED BY <2>1, <2>2, <2>3, <2>4, <2>5, <2>6, <2>7
<1>15. CASE Check
  <2>1. TypeOK'
    BY <1>15, <1>a, <1>m DEF Check, Raises, Steps
  <2>2. \A d \in Clients : Asked(d)'
    BY <1>15, <1>a, <1>k DEF Check, Raises, Asked
  <2>3. Listed'
    BY <1>15, <1>a, <1>k DEF Check, Raises, Listed
  <2>4. Employed'
    BY <1>15, <1>a, <1>k DEF Check, Raises, Employed, Untrained, Leaving, Watched
  <2>5. Orphaned'
    BY <1>15, <1>a, <1>k DEF Check, Raises, Orphaned, Aborting, Running
  <2>6. ModelIsExported'
    BY <1>15, <1>a DEF Check, Raises, ModelIsExported
  <2>7. RunningIsWorked'
    BY <1>15, <1>a DEF Check, Raises, RunningIsWorked, Orphaned, Running
  <2> QED BY <2>1, <2>2, <2>3, <2>4, <2>5, <2>6, <2>7
<1>16. CASE ReadComplete
  <2>1. TypeOK'
    BY <1>16, <1>a, <1>m DEF ReadComplete, MainReads, Raises, Steps
  <2>2. \A d \in Clients : Asked(d)'
    BY <1>16, <1>a, <1>k DEF ReadComplete, MainReads, Raises, Asked
  <2>3. Listed'
    BY <1>16, <1>a, <1>k DEF ReadComplete, MainReads, Raises, Listed
  <2>4. Employed'
    BY <1>16, <1>a, <1>k DEF ReadComplete, MainReads, Raises, Employed, Untrained, Leaving, Watched
  <2>5. Orphaned'
    BY <1>16, <1>a, <1>k DEF ReadComplete, MainReads, Raises, Orphaned, Aborting, Running
  <2>6. ModelIsExported'
    BY <1>16, <1>a DEF ReadComplete, MainReads, Raises, ModelIsExported
  <2>7. RunningIsWorked'
    BY <1>16, <1>a DEF ReadComplete, MainReads, Raises, RunningIsWorked, Orphaned, Running
  <2> QED BY <2>1, <2>2, <2>3, <2>4, <2>5, <2>6, <2>7
<1>17. CASE Complete
  <2>1. TypeOK'
    BY <1>17, <1>a, <1>m DEF Complete, MainWrites, Raises, Statuses, Steps
  <2>2. \A d \in Clients : Asked(d)'
    BY <1>17, <1>a, <1>k DEF Complete, MainWrites, Raises, Asked
  <2>3. Listed'
    BY <1>17, <1>a, <1>k DEF Complete, MainWrites, Raises, Listed, Employed
  <2>4. Employed'
    BY <1>17, <1>a, <1>k DEF Complete, MainWrites, Raises, Employed, Untrained, Watched
  <2>5. Orphaned'
    BY <1>17, <1>a, <1>k DEF Complete, MainWrites, Raises, Orphaned, Employed, Aborting
  <2>6. ModelIsExported'
    BY <1>17, <1>a DEF Complete, MainWrites, Raises, ModelIsExported
  <2>7. RunningIsWorked'
    BY <1>17, <1>a DEF Complete, MainWrites, Raises, RunningIsWorked, Orphaned, Running
  <2> QED BY <2>1, <2>2, <2>3, <2>4, <2>5, <2>6, <2>7
<1> QED BY <1>1, <1>2, <1>3, <1>4, <1>5, <1>6, <1>7, <1>8, <1>9, <1>10, <1>11, <1>12, <1>13, <1>14, <1>15, <1>16, <1>17 DEF Main

LEMMA FitInv ==
    ASSUME Inv, Fitting
    PROVE  Inv'
<1> USE ConstantsAssumption DEF Inv, TypeOK, rows, requests, process, training, history,
        Read, Write, WriteFails, Faulty, Begin, Goes, Ends, Doing, Nothing
<1>a. {"main", "sync", "abort"} \cup Clients \subseteq Actors
  BY DEF Actors
<1>k. UNCHANGED submitted => Known' = Known
  BY DEF Known
<1>j. Known \subseteq Jobs
  BY DEF Known
<1>m. /\ task # "none" => job \in Jobs
      /\ sync # "off" => job \in Jobs
      /\ fit \in Fits => job \in Jobs
      /\ held["abort"] # "absent" => job \in Jobs
      /\ \A d \in Clients : op[d] # Nothing => op[d].job \in Jobs
  BY <1>j DEF Employed, Watched, Orphaned, Asked
<1>1. CASE StartFit
  <2>1. TypeOK'
    BY <1>1, <1>a, <1>m DEF StartFit, Thread
  <2>2. \A d \in Clients : Asked(d)'
    BY <1>1, <1>a, <1>k DEF StartFit, Thread, Asked
  <2>3. Listed'
    BY <1>1, <1>a, <1>k DEF StartFit, Thread, Listed
  <2>4. Employed'
    BY <1>1, <1>a, <1>k DEF StartFit, Thread, Employed, Fits, Leaving
  <2>5. Orphaned'
    BY <1>1, <1>a, <1>k DEF StartFit, Thread, Orphaned, Aborting, Running
  <2>6. ModelIsExported'
    BY <1>1, <1>a DEF StartFit, Thread, ModelIsExported, Listed, Employed, Fits
  <2>7. RunningIsWorked'
    BY <1>1, <1>a DEF StartFit, Thread, RunningIsWorked, Orphaned, Running
  <2> QED BY <2>1, <2>2, <2>3, <2>4, <2>5, <2>6, <2>7
<1>2. CASE EndFit
  <2>1. TypeOK'
    BY <1>2, <1>a, <1>m DEF EndFit, Thread
  <2>2. \A d \in Clients : Asked(d)'
    BY <1>2, <1>a, <1>k DEF EndFit, Thread, Asked
  <2>3. Listed'
    BY <1>2, <1>a, <1>k DEF EndFit, Thread, Listed
  <2>4. Employed'
    BY <1>2, <1>a, <1>k DEF EndFit, Thread, Employed, Fits
  <2>5. Orphaned'
    BY <1>2, <1>a, <1>k DEF EndFit, Thread, Orphaned, Aborting, Running
  <2>6. ModelIsExported'
    BY <1>2, <1>a DEF EndFit, Thread, ModelIsExported
  <2>7. RunningIsWorked'
    BY <1>2, <1>a DEF EndFit, Thread, RunningIsWorked, Orphaned, Running
  <2> QED BY <2>1, <2>2, <2>3, <2>4, <2>5, <2>6, <2>7
<1>3. CASE Export
  <2>1. TypeOK'
    BY <1>3, <1>a, <1>m DEF Export, Thread
  <2>2. \A d \in Clients : Asked(d)'
    BY <1>3, <1>a, <1>k DEF Export, Thread, Asked
  <2>3. Listed'
    BY <1>3, <1>a, <1>k DEF Export, Thread, Listed
  <2>4. Employed'
    <3>1. /\ fit = "exporting" /\ fit' \in {"exported", "failed"} /\ job \in Jobs
          /\ fit' = "exported" => folder'[job] = "exported"
          /\ Known' = Known
          /\ UNCHANGED <<status, held, worker, job, task, sync, trained>>
      BY <1>3, <1>k, <1>m DEF Export, Thread, Fits
    <3>2. task # "create"
      BY <3>1 DEF Employed, Fits, Leaving
    <3> QED BY <3>1, <3>2 DEF Employed, Fits
  <2>5. Orphaned'
    BY <1>3, <1>a, <1>k DEF Export, Thread, Orphaned, Aborting, Running
  <2>6. ModelIsExported'
    BY <1>3, <1>a DEF Export, Thread, ModelIsExported
  <2>7. RunningIsWorked'
    BY <1>3, <1>a DEF Export, Thread, RunningIsWorked, Orphaned, Running
  <2> QED BY <2>1, <2>2, <2>3, <2>4, <2>5, <2>6, <2>7
<1> QED BY <1>1, <1>2, <1>3 DEF Fitting

LEMMA SyncInv ==
    ASSUME Inv, Synchronize
    PROVE  Inv'
<1> USE ConstantsAssumption DEF Inv, TypeOK, rows, requests, process, training, history,
        Read, Write, WriteFails, Faulty, Begin, Goes, Ends, Doing, Nothing
<1>a. {"main", "sync", "abort"} \cup Clients \subseteq Actors
  BY DEF Actors
<1>k. UNCHANGED submitted => Known' = Known
  BY DEF Known
<1>j. Known \subseteq Jobs
  BY DEF Known
<1>m. /\ task # "none" => job \in Jobs
      /\ sync # "off" => job \in Jobs
      /\ fit \in Fits => job \in Jobs
      /\ held["abort"] # "absent" => job \in Jobs
      /\ \A d \in Clients : op[d] # Nothing => op[d].job \in Jobs
  BY <1>j DEF Employed, Watched, Orphaned, Asked
<1>1. CASE Look
  <2>1. TypeOK'
    <3>1. sync' \in {"step", "off", "mark"} /\ faults' \in 0..MaxFaults
      BY <1>1 DEF Look
    <3>2. cancel' \in BOOLEAN
      BY <1>1, Zenon DEF Look
    <3> QED BY <1>1, <3>1, <3>2 DEF Look, SyncKeeps
  <2>2. \A d \in Clients : Asked(d)'
    BY <1>1, <1>a, <1>k DEF Look, SyncKeeps, Asked
  <2>3. Listed'
    BY <1>1, <1>a, <1>k DEF Look, SyncKeeps, Listed
  <2>4. Employed'
    BY <1>1, <1>a, <1>k DEF Look, SyncKeeps, Employed
  <2>5. Orphaned'
    BY <1>1, <1>a, <1>k DEF Look, SyncKeeps, Orphaned, Aborting, Running
  <2>6. ModelIsExported'
    BY <1>1, <1>a DEF Look, SyncKeeps, ModelIsExported
  <2>7. RunningIsWorked'
    BY <1>1, <1>a DEF Look, SyncKeeps, RunningIsWorked, Orphaned, Running
  <2> QED BY <2>1, <2>2, <2>3, <2>4, <2>5, <2>6, <2>7
<1>2. CASE ReadStep
  <2>1. TypeOK'
    BY <1>2, <1>a, <1>m DEF ReadStep, SyncKeeps
  <2>2. \A d \in Clients : Asked(d)'
    BY <1>2, <1>a, <1>k DEF ReadStep, SyncKeeps, Asked
  <2>3. Listed'
    BY <1>2, <1>a, <1>k DEF ReadStep, SyncKeeps, Listed
  <2>4. Employed'
    BY <1>2, <1>a, <1>k DEF ReadStep, SyncKeeps, Employed, Watched
  <2>5. Orphaned'
    BY <1>2, <1>a, <1>k DEF ReadStep, SyncKeeps, Orphaned, Aborting, Running
  <2>6. ModelIsExported'
    BY <1>2, <1>a DEF ReadStep, SyncKeeps, ModelIsExported
  <2>7. RunningIsWorked'
    BY <1>2, <1>a DEF ReadStep, SyncKeeps, RunningIsWorked, Orphaned, Running
  <2> QED BY <2>1, <2>2, <2>3, <2>4, <2>5, <2>6, <2>7
<1>3. CASE WriteStep
  <2>1. TypeOK'
    BY <1>3, <1>a, <1>m DEF WriteStep, SyncKeeps, Statuses
  <2>2. \A d \in Clients : Asked(d)'
    BY <1>3, <1>a, <1>k DEF WriteStep, SyncKeeps, Asked
  <2>3. Listed'
    BY <1>3, <1>a, <1>k DEF WriteStep, SyncKeeps, Listed, Employed, Watched
  <2>4. Employed'
    BY <1>3, <1>a, <1>k DEF WriteStep, SyncKeeps, Employed
  <2>5. Orphaned'
    <3>1. /\ sync = "write" /\ held'["abort"] = held["abort"]
          /\ UNCHANGED <<worker, orphans, job>> /\ Known' = Known
          /\ \A k \in Jobs \ {job} : status'[k] = status[k]
          /\ status'[job] \in {status[job], held["sync"]}
      BY <1>3, <1>a, <1>k, <1>m DEF WriteStep, SyncKeeps
    <3>2. ~Aborting
      BY <3>1 DEF Employed, Watched, Aborting
    <3> QED BY <3>1, <3>2 DEF Orphaned, Aborting
  <2>6. ModelIsExported'
    BY <1>3, <1>a DEF WriteStep, SyncKeeps, ModelIsExported
  <2>7. RunningIsWorked'
    <3>1. /\ sync = "write" /\ UNCHANGED <<worker, job, task, unrecorded>>
          /\ \A k \in Jobs \ {job} : status'[k] = status[k]
      BY <1>3 DEF WriteStep, SyncKeeps
    <3>2. worker \in {"up", "closing"} /\ task # "none"
      BY <3>1 DEF Employed, Watched
    <3> QED BY <3>1, <3>2 DEF RunningIsWorked, Running
  <2> QED BY <2>1, <2>2, <2>3, <2>4, <2>5, <2>6, <2>7
<1>4. CASE ReadMark
  <2>1. TypeOK'
    BY <1>4, <1>a, <1>m DEF ReadMark, SyncKeeps
  <2>2. \A d \in Clients : Asked(d)'
    BY <1>4, <1>a, <1>k DEF ReadMark, SyncKeeps, Asked
  <2>3. Listed'
    BY <1>4, <1>a, <1>k DEF ReadMark, SyncKeeps, Listed
  <2>4. Employed'
    BY <1>4, <1>a, <1>k DEF ReadMark, SyncKeeps, Employed
  <2>5. Orphaned'
    BY <1>4, <1>a, <1>k DEF ReadMark, SyncKeeps, Orphaned, Aborting, Running
  <2>6. ModelIsExported'
    BY <1>4, <1>a DEF ReadMark, SyncKeeps, ModelIsExported
  <2>7. RunningIsWorked'
    BY <1>4, <1>a DEF ReadMark, SyncKeeps, RunningIsWorked, Orphaned, Running
  <2> QED BY <2>1, <2>2, <2>3, <2>4, <2>5, <2>6, <2>7
<1>5. CASE Mark
  <2>1. TypeOK'
    <3>1. sync' = "off" /\ faults' \in 0..MaxFaults
      BY <1>5 DEF Mark
    <3>2. status' \in [Jobs -> Statuses] /\ held' \in [Actors -> Statuses]
      BY <1>5, <1>m DEF Mark, Statuses
    <3> QED BY <1>5, <3>1, <3>2 DEF Mark, SyncKeeps
  <2>2. \A d \in Clients : Asked(d)'
    BY <1>5, <1>a, <1>k DEF Mark, SyncKeeps, Asked
  <2>3. Listed'
    BY <1>5, <1>a, <1>k DEF Mark, SyncKeeps, Listed, Employed, Watched
  <2>4. Employed'
    BY <1>5, <1>a, <1>k DEF Mark, SyncKeeps, Employed
  <2>5. Orphaned'
    BY <1>5, <1>a, <1>k DEF Mark, SyncKeeps, Orphaned, Aborting, Running
  <2>6. ModelIsExported'
    BY <1>5, <1>a DEF Mark, SyncKeeps, ModelIsExported
  <2>7. RunningIsWorked'
    BY <1>5, <1>a DEF Mark, SyncKeeps, RunningIsWorked, Orphaned, Running
  <2> QED BY <2>1, <2>2, <2>3, <2>4, <2>5, <2>6, <2>7
<1> QED BY <1>1, <1>2, <1>3, <1>4, <1>5 DEF Synchronize

LEMMA ProcessInv ==
    ASSUME Inv, Process
    PROVE  Inv'
<1> USE ConstantsAssumption DEF Inv, TypeOK, rows, requests, process, training, history,
        Read, Write, WriteFails, Faulty, Begin, Goes, Ends, Doing, Nothing
<1>a. {"main", "sync", "abort"} \cup Clients \subseteq Actors
  BY DEF Actors
<1>k. UNCHANGED submitted => Known' = Known
  BY DEF Known
<1>j. Known \subseteq Jobs
  BY DEF Known
<1>m. /\ task # "none" => job \in Jobs
      /\ sync # "off" => job \in Jobs
      /\ fit \in Fits => job \in Jobs
      /\ held["abort"] # "absent" => job \in Jobs
      /\ \A d \in Clients : op[d] # Nothing => op[d].job \in Jobs
  BY <1>j DEF Employed, Watched, Orphaned, Asked
<1>1. CASE Start
  <2>1. TypeOK'
    BY <1>1, <1>a, <1>m DEF Start, Running
  <2>2. \A d \in Clients : Asked(d)'
    BY <1>1, <1>a, <1>k DEF Start, Asked
  <2>3. Listed'
    BY <1>1, <1>a, <1>k DEF Start, Listed
  <2>4. Employed'
    BY <1>1, <1>a, <1>k DEF Start, Employed
  <2>5. Orphaned'
    BY <1>1, <1>a, <1>k DEF Start, Running, Orphaned, Listed, Aborting, Running
  <2>6. ModelIsExported'
    BY <1>1, <1>a DEF Start, ModelIsExported
  <2>7. RunningIsWorked'
    BY <1>1, <1>a DEF Start, RunningIsWorked, Orphaned
  <2> QED BY <2>1, <2>2, <2>3, <2>4, <2>5, <2>6, <2>7
<1>2. CASE AbortOrphan
  <2>1. TypeOK'
    BY <1>2, <1>a, <1>m DEF AbortOrphan, Statuses, Kinds
  <2>2. \A d \in Clients : Asked(d)'
    BY <1>2, <1>a, <1>k DEF AbortOrphan, Asked
  <2>3. Listed'
    <3>1. /\ job \in Known /\ job \in Jobs /\ Known' = Known
          /\ \A k \in Jobs \ {job} : status'[k] = status[k]
          /\ status'[job] \in {status[job], "failed"}
          /\ UNCHANGED <<models, condemned, trained>>
      <4>1. job \in Known /\ job \in Jobs
        BY <1>2, <1>m DEF AbortOrphan, Orphaned
      <4> QED BY <1>2, <1>k, <4>1 DEF AbortOrphan
    <3> QED BY <3>1 DEF Listed
  <2>4. Employed'
    BY <1>2, <1>a, <1>k DEF AbortOrphan, Aborting, Employed
  <2>5. Orphaned'
    BY <1>2, <1>a, <1>k DEF AbortOrphan, Aborting, Orphaned, Aborting, Running
  <2>6. ModelIsExported'
    BY <1>2, <1>a DEF AbortOrphan, ModelIsExported
  <2>7. RunningIsWorked'
    BY <1>2, <1>a DEF AbortOrphan, Aborting, RunningIsWorked, Orphaned, Aborting
  <2> QED BY <2>1, <2>2, <2>3, <2>4, <2>5, <2>6, <2>7
<1>3. CASE EndAbort
  <2>1. TypeOK'
    BY <1>3, <1>a, <1>m DEF EndAbort
  <2>2. \A d \in Clients : Asked(d)'
    BY <1>3, <1>a, <1>k DEF EndAbort, Asked
  <2>3. Listed'
    BY <1>3, <1>a, <1>k DEF EndAbort, Listed
  <2>4. Employed'
    BY <1>3, <1>a, <1>k DEF EndAbort, Aborting, Employed
  <2>5. Orphaned'
    BY <1>3, <1>a, <1>k DEF EndAbort, Aborting, Orphaned, Aborting
  <2>6. ModelIsExported'
    BY <1>3, <1>a DEF EndAbort, ModelIsExported
  <2>7. RunningIsWorked'
    BY <1>3, <1>a DEF EndAbort, RunningIsWorked, Orphaned, Running
  <2> QED BY <2>1, <2>2, <2>3, <2>4, <2>5, <2>6, <2>7
<1>4. CASE Stop
  <2>1. TypeOK'
    BY <1>4, <1>a, <1>m DEF Stop, Cancelled, Writing, Statuses, Steps
  <2>2. \A d \in Clients : Asked(d)'
    BY <1>4, <1>a, <1>k DEF Stop, Cancelled, Writing, Asked
  <2>3. Listed'
    BY <1>4, <1>a, <1>k DEF Stop, Cancelled, Writing, Listed, Employed
  <2>4. Employed'
    BY <1>4, <1>a, <1>k DEF Stop, Cancelled, Writing, Employed, Untrained, Leaving, Watched
  <2>5. Orphaned'
    BY <1>4, <1>a, <1>k DEF Stop, Cancelled, Writing, Orphaned, Aborting
  <2>6. ModelIsExported'
    BY <1>4, <1>a DEF Stop, Cancelled, Writing, ModelIsExported
  <2>7. RunningIsWorked'
    BY <1>4, <1>a DEF Stop, Cancelled, Writing, RunningIsWorked, Orphaned
  <2> QED BY <2>1, <2>2, <2>3, <2>4, <2>5, <2>6, <2>7
<1>5. CASE Close
  <2>1. TypeOK'
    BY <1>5, <1>a, <1>m DEF Close, Running
  <2>2. \A d \in Clients : Asked(d)'
    BY <1>5, <1>a, <1>k DEF Close, Asked
  <2>3. Listed'
    BY <1>5, <1>a, <1>k DEF Close, Listed
  <2>4. Employed'
    BY <1>5, <1>a, <1>k DEF Close, Employed, Fits
  <2>5. Orphaned'
    BY <1>5, <1>a, <1>k DEF Close, Running, Orphaned, Listed, Aborting, Running
  <2>6. ModelIsExported'
    BY <1>5, <1>a DEF Close, ModelIsExported
  <2>7. RunningIsWorked'
    BY <1>5, <1>a DEF Close, RunningIsWorked, Orphaned
  <2> QED BY <2>1, <2>2, <2>3, <2>4, <2>5, <2>6, <2>7
<1>6. CASE Crash
  <2>1. TypeOK'
    BY <1>6, <1>a, <1>m DEF Crash, NoTask, Statuses, Steps
  <2>2. \A d \in Clients : Asked(d)'
    BY <1>6, <1>a, <1>k DEF Crash, NoTask, Asked
  <2>3. Listed'
    BY <1>6, <1>a, <1>k DEF Crash, NoTask, Listed
  <2>4. Employed'
    BY <1>6, <1>a, <1>k DEF Crash, NoTask, Employed, Fits
  <2>5. Orphaned'
    BY <1>6, <1>a, <1>k DEF Crash, NoTask, Orphaned, Aborting
  <2>6. ModelIsExported'
    BY <1>6, <1>a DEF Crash, NoTask, ModelIsExported
  <2>7. RunningIsWorked'
    BY <1>6, <1>a DEF Crash, NoTask, RunningIsWorked, Orphaned
  <2> QED BY <2>1, <2>2, <2>3, <2>4, <2>5, <2>6, <2>7
<1>7. ASSUME NEW j \in Jobs, ReadOrphan(j) PROVE Inv'
  <2>1. TypeOK'
    BY <1>7, <1>a, <1>m DEF ReadOrphan
  <2>2. \A d \in Clients : Asked(d)'
    BY <1>7, <1>a, <1>k DEF ReadOrphan, Asked
  <2>3. Listed'
    BY <1>7, <1>a, <1>k DEF ReadOrphan, Listed
  <2>4. Employed'
    BY <1>7, <1>a, <1>k DEF ReadOrphan, Aborting, Employed, Untrained
  <2>5. Orphaned'
    BY <1>7, <1>a, <1>k DEF ReadOrphan, Aborting, Orphaned, Aborting, Running
  <2>6. ModelIsExported'
    BY <1>7, <1>a DEF ReadOrphan, ModelIsExported
  <2>7. RunningIsWorked'
    BY <1>7, <1>a DEF ReadOrphan, Aborting, RunningIsWorked, Orphaned, Aborting
  <2> QED BY <2>1, <2>2, <2>3, <2>4, <2>5, <2>6, <2>7
<1> QED BY <1>1, <1>2, <1>3, <1>4, <1>5, <1>6, <1>7 DEF Process

-----------------------------------------------------------------------------
THEOREM Invariance == Spec => []Inv
<1>1. Inv /\ [Next]_vars => Inv'
  <2> SUFFICES ASSUME Inv, [Next]_vars PROVE Inv'
    OBVIOUS
  <2>1. CASE UNCHANGED vars
    <3> USE <2>1 DEF Inv, vars, rows, requests, process, training, history
    <3>1. Known' = Known
      BY DEF Known
    <3>2. TypeOK' /\ ModelIsExported' /\ RunningIsWorked'
      BY DEF TypeOK, ModelIsExported, RunningIsWorked, Running
    <3>3. \A c \in Clients : Asked(c)'
      BY <3>1 DEF Asked
    <3>4. Listed' /\ Employed' /\ Orphaned'
      BY <3>1 DEF Listed, Employed, Orphaned, Aborting, Running
    <3> QED BY <3>2, <3>3, <3>4
  <2>2. CASE Next
    BY <2>2, RequestInv, MainInv, FitInv, SyncInv, ProcessInv DEF Next
  <2> QED BY <2>1, <2>2
<1> QED BY <1>1, InitInv, PTL DEF Spec

(* Every variable stays in its range, for any jobs, requests, restarts and  *)
(* failed accesses (TrainingJobs.TypeOK).                                   *)
THEOREM Typing == Spec => []TypeOK
<1>1. Inv => TypeOK
  BY DEF Inv
<1> QED BY <1>1, Invariance, PTL

(* A row says running only while a worker trains it, but for an ending that *)
(* a failed access kept out of the row; a worker that stopped in order      *)
(* leaves none (TrainingJobs.RunningIsWorked).                              *)
THEOREM RunningJobsAreWorked == Spec => []RunningIsWorked
<1>1. Inv => RunningIsWorked
  BY DEF Inv
<1> QED BY <1>1, Invariance, PTL

(* A listed model that nobody asked to delete has its exported files,       *)
(* however cancellations, failures, shutdowns and stale writes of the job's *)
(* row fall (TrainingJobs.ModelIsExported).                                 *)
THEOREM ListedModelsAreExported == Spec => []ModelIsExported
<1>1. Inv => ModelIsExported
  BY DEF Inv
<1> QED BY <1>1, Invariance, PTL

(* Only a cancellation and a deletion move a job that was completed. *)
LEMMA CompletedStays ==
    ASSUME Inv, Next, NEW j \in Jobs, status[j] = "completed"
    PROVE  status'[j] \in {"completed", "canceled", "absent"}
<1> USE DEF rows, Inv
<1>1. status \in [Jobs -> Statuses]
  BY DEF TypeOK
<1>2. ASSUME NEW c \in Clients, Request(c) PROVE status'[j] \in {"completed", "canceled", "absent"}
  <2>1. CASE Save(c)
    <3>1. op[c].job # j
      BY <2>1 DEF Save, Doing, Asked, Listed
    <3> QED BY <1>1, <2>1, <3>1 DEF Save
  <2>2. CASE CommitCancel(c) \/ CommitDelete(c) \/ DropJob(c)
    BY <1>1, <2>2 DEF CommitCancel, CommitDelete, DropJob, Write
  <2>3. CASE UNCHANGED status
    BY <2>3
  <2> QED BY <1>2, <2>1, <2>2, <2>3
        DEF Request, Cancel, Delete, DeleteModel, Submit, EraseModel, UnlistModel, RequestFails
<1>3. CASE Main
  <2>1. CASE UNCHANGED status
    BY <2>1
  <2>2. CASE Claim \/ Refuse \/ Withdraw \/ Fail \/ Complete
    <3>1. task # "none"
      BY <2>2 DEF Claim, Refuse, Withdraw, Fail, Complete, MainWrites
    <3>2. job # j
      BY <3>1 DEF Employed
    <3> QED BY <1>1, <2>2, <3>2
          DEF Claim, Refuse, Withdraw, Fail, Complete, MainWrites, Write, WriteFails
  <2> QED BY <1>3, <2>1, <2>2
        DEF Main, Take, ReadClaim, ReadRefuse, Prepare, Judge, ReadWithdraw, Erase, Create, ReadFail,
            Settle, Check, ReadComplete, MainReads
<1>4. CASE Fitting
  BY <1>4 DEF Fitting, StartFit, EndFit, Export, Thread
<1>5. CASE Synchronize
  <2>1. CASE sync # "off" /\ \A k \in Jobs \ {job} : status'[k] = status[k]
    BY <2>1 DEF Employed, Watched
  <2> QED BY <1>1, <1>5, <2>1
        DEF Synchronize, Look, ReadStep, WriteStep, ReadMark, Mark, Write, WriteFails
<1>6. CASE Process
  <2>1. CASE UNCHANGED status
    BY <2>1
  <2>2. CASE AbortOrphan
    <3>1. job # j
      BY <2>2 DEF AbortOrphan, Orphaned
    <3> QED BY <1>1, <2>2, <3>1 DEF AbortOrphan, Write, WriteFails
  <2>3. CASE Stop /\ task \in DOMAIN Writing
    <3>1. job # j
      BY <2>3 DEF Employed, Writing
    <3> QED BY <1>1, <2>3, <3>1 DEF Stop
  <2> QED BY <1>6, <2>1, <2>2, <2>3 DEF Process, Start, EndAbort, Stop, Close, Crash, ReadOrphan
<1> QED BY <1>2, <1>3, <1>4, <1>5, <1>6 DEF Next

(* A completed job is never running or failed again: neither the row its    *)
(* synchronization had read nor a later shutdown overwrites the last word   *)
(* of the main task (TrainingJobs.CompletedIsFinal).                        *)
THEOREM CompletedJobsStay == Spec => CompletedIsFinal
<1>1. Inv /\ [Next]_vars =>
        [\A j \in Jobs : status[j] = "completed" =>
                            status'[j] \in {"completed", "canceled", "absent"}]_vars
  BY CompletedStays
<1> QED BY <1>1, Invariance, PTL DEF Spec, CompletedIsFinal

-----------------------------------------------------------------------------
(* The finding of TrainingJobs_completed, from the other side: three steps  *)
(* can complete a job that has no model, and no other can.                  *)

Working == {"prepare", "train", "withdraw", "withdrawing", "erase", "create", "fail", "failing"}

(* A shutdown cancels the training, which only the finally clause sees.     *)
CutShort == worker = "up" /\ worker' = "closing" /\ task \in Working

(* The synchronization writes a status back that the row no longer had.     *)
Overwritten == sync = "write" /\ sync' \in {"look", "mark"} /\ status' # status

(* The update that should have failed the job fails.                        *)
Unfailed == task \in {"fail", "failing"} /\ task' = "settle" /\ faults' # faults

(* Once the finally clause is reached, a job that is still running has its  *)
(* model.                                                                   *)
Earned ==
    /\ CompletedHasModel
    /\ task \in {"settle", "check"} => job \in trained \/ status[job] # "running"
    /\ task \in {"complete", "completing"} => job \in trained
    /\ task = "erase" => status[job] # "running"

(* Rows that change, but never to running or completed, change nothing      *)
(* about who has earned it.                                                 *)
LEMMA EarnedStays ==
    ASSUME Inv, Earned, UNCHANGED <<job, trained>>,
           task' = task \/ task' = "none",
           \A j \in Jobs : status'[j] = status[j] \/ status'[j] \notin {"running", "completed"}
    PROVE  Earned'
<1>1. task # "none" => job \in Jobs
  BY DEF Inv, Employed, Known, TypeOK
<1> QED BY <1>1 DEF Earned, CompletedHasModel

LEMMA MainEarns ==
    ASSUME Inv, Earned, Main, ~Unfailed
    PROVE  Earned'
<1> USE DEF Inv, TypeOK, rows, history, process, training
<1>1. task # "none" => job \in Jobs
  BY DEF Employed, Known
<1>2. ASSUME NEW j \in Jobs, Take(j) PROVE Earned'
  BY <1>2 DEF Take, Earned, CompletedHasModel
<1>3. CASE ReadClaim \/ ReadRefuse \/ ReadWithdraw
  BY <1>3 DEF ReadClaim, ReadRefuse, ReadWithdraw, MainReads, Raises, Earned, CompletedHasModel
<1>4. CASE Claim \/ Refuse
  BY <1>1, <1>4 DEF Claim, Refuse, MainWrites, Write, WriteFails, Raises, Earned, CompletedHasModel
<1>5. CASE Prepare \/ Judge
  BY <1>5 DEF Prepare, Judge, Earned, CompletedHasModel
<1>6. CASE Withdraw
  BY <1>1, <1>6 DEF Withdraw, MainWrites, Write, WriteFails, Raises, Earned, CompletedHasModel
<1>7. CASE Erase
  BY <1>7 DEF Erase, Earned, CompletedHasModel
<1>8. CASE Create
  BY <1>8 DEF Create, Earned, CompletedHasModel
<1>9. CASE ReadFail
  <2>1. /\ task = "fail" /\ UNCHANGED <<status, job, trained>>
        /\ task' = "failing" \/ (task' = "settle" /\ (status[job] = "absent" \/ faults' = faults + 1))
    BY <1>9 DEF ReadFail, MainReads, Raises, Faulty
  <2>2. faults' = faults + 1 => faults' # faults
    BY ConstantsAssumption
  <2> QED BY <2>1, <2>2 DEF Unfailed, Earned, CompletedHasModel
<1>10. CASE Fail
  <2>1. /\ task = "failing" /\ UNCHANGED <<job, trained>> /\ task' = "settle"
        /\ status' = [status EXCEPT ![job] = "failed"] \/ faults' = faults + 1
    BY <1>10 DEF Fail, MainWrites, Write, Raises, Faulty
  <2>2. faults' = faults + 1 => faults' # faults
    BY ConstantsAssumption
  <2>3. status' = [status EXCEPT ![job] = "failed"]
    BY <2>1, <2>2 DEF Unfailed
  <2> QED BY <1>1, <2>1, <2>3 DEF Earned, CompletedHasModel
<1>11. CASE Settle \/ Check
  BY <1>11 DEF Settle, Check, Raises, Earned, CompletedHasModel
<1>12. CASE ReadComplete
  BY <1>12 DEF ReadComplete, MainReads, Raises, Earned, CompletedHasModel
<1>13. CASE Complete
  BY <1>1, <1>13 DEF Complete, MainWrites, Write, WriteFails, Raises, Earned, CompletedHasModel
<1> QED BY <1>2, <1>3, <1>4, <1>5, <1>6, <1>7, <1>8, <1>9, <1>10, <1>11, <1>12, <1>13 DEF Main

LEMMA OthersEarn ==
    ASSUME Inv, Earned, ~CutShort, ~Overwritten,
           (\E c \in Clients : Request(c)) \/ Fitting \/ Synchronize \/ Process
    PROVE  Earned'
<1> USE DEF Inv, TypeOK, rows, requests, training, process, history
<1>1. ASSUME NEW c \in Clients, Request(c) PROVE Earned'
  <2>1. UNCHANGED <<job, task, trained>>
    BY <1>1 DEF Request, Cancel, Delete, DeleteModel, Submit, Save, CommitCancel, CommitDelete,
                EraseModel, UnlistModel, DropJob, RequestFails
  <2>2. \A j \in Jobs : status'[j] = status[j] \/ status'[j] \notin {"running", "completed"}
    BY <1>1 DEF Request, Cancel, Delete, DeleteModel, Submit, Save, CommitCancel, CommitDelete,
                EraseModel, UnlistModel, DropJob, RequestFails, Write
  <2> QED BY <2>1, <2>2, EarnedStays
<1>2. CASE Fitting
  BY <1>2, EarnedStays DEF Fitting, StartFit, EndFit, Export, Thread
<1>3. CASE Synchronize
  <2>1. UNCHANGED <<job, task, trained>>
    BY <1>3 DEF Synchronize, Look, ReadStep, WriteStep, ReadMark, Mark, SyncKeeps
  <2>2. CASE WriteStep
    <3>1. UNCHANGED status
      BY <2>2 DEF WriteStep, Overwritten
    <3> QED BY <2>1, <3>1, EarnedStays
  <2>3. CASE Look \/ ReadStep \/ ReadMark \/ Mark
    <3>1. \A j \in Jobs : status'[j] = status[j] \/ status'[j] \notin {"running", "completed"}
      BY <2>3 DEF Look, ReadStep, ReadMark, Mark, Write, WriteFails
    <3> QED BY <2>1, <3>1, EarnedStays
  <2> QED BY <1>3, <2>2, <2>3 DEF Synchronize
<1>4. CASE Process
  <2>1. CASE Stop
    <3>1. /\ worker = "up" /\ worker' = "closing" /\ task' = Cancelled(task)
          /\ UNCHANGED <<job, trained>>
      BY <2>1 DEF Stop
    <3>2. task \notin Working
      BY <3>1 DEF CutShort
    <3>3. task' \in {task, "none"}
      BY <3>1, <3>2 DEF Cancelled, Working
    <3>4. CASE task = "completing"
      <4>1. job \in Jobs /\ job \in trained
        BY <3>4 DEF Employed, Known, Earned
      <4>2. \A j \in Jobs : status'[j] = status[j] \/ j = job
        BY <2>1, <4>1 DEF Stop
      <4>3. task' = "none"
        BY <3>1, <3>4 DEF Cancelled
      <4> QED BY <3>1, <4>1, <4>2, <4>3 DEF Earned, CompletedHasModel
    <3>5. CASE task = "claiming"
      <4>1. \A j \in Jobs : status'[j] = status[j] \/ status'[j] = "running"
        BY <2>1, <3>5 DEF Stop, Writing
      <4>2. task' = "none"
        BY <3>1, <3>5 DEF Cancelled
      <4> QED BY <3>1, <4>1, <4>2 DEF Earned, CompletedHasModel
    <3>6. CASE task \notin {"claiming", "completing"}
      <4>1. \A j \in Jobs : status'[j] = status[j] \/ status'[j] \notin {"running", "completed"}
        BY <2>1, <3>2, <3>6 DEF Stop, Writing, Working
      <4> QED BY <3>1, <3>3, <4>1, EarnedStays
    <3> QED BY <3>4, <3>5, <3>6
  <2>2. CASE AbortOrphan
    <3>1. UNCHANGED <<job, task, trained>>
      BY <2>2 DEF AbortOrphan
    <3>2. \A j \in Jobs : status'[j] = status[j] \/ status'[j] \notin {"running", "completed"}
      BY <2>2 DEF AbortOrphan, Write, WriteFails
    <3> QED BY <3>1, <3>2, EarnedStays
  <2>3. ASSUME NEW j \in Jobs, ReadOrphan(j) PROVE Earned'
    <3>1. task = "none" /\ UNCHANGED <<status, task, trained>>
      BY <2>3 DEF ReadOrphan, Employed, Aborting
    <3> QED BY <3>1 DEF Earned, CompletedHasModel
  <2>4. CASE Crash
    BY <2>4 DEF Crash, NoTask, Earned, CompletedHasModel
  <2>5. CASE Start \/ EndAbort \/ Close
    BY <2>5, EarnedStays DEF Start, EndAbort, Close
  <2> QED BY <1>4, <2>1, <2>2, <2>3, <2>4, <2>5 DEF Process
<1> QED BY <1>1, <1>2, <1>3, <1>4

(* "Training completed successfully" (training_service.py:163) is true of a *)
(* job unless its training was cut short by a shutdown, or a write of the   *)
(* synchronization undid a failure or a cancellation that had been          *)
(* recorded, or the update in the except clause failed: no other            *)
(* interleaving, crash or failed access completes a job without a model.    *)
THEOREM OnlyThreeWaysWithoutModel ==
    Spec /\ [][~CutShort /\ ~Overwritten /\ ~Unfailed]_vars => []CompletedHasModel
<1>1. Init => Earned
  BY DEF Init, Earned, CompletedHasModel
<1>2. Inv /\ Earned /\ [Next]_vars /\ [~CutShort /\ ~Overwritten /\ ~Unfailed]_vars => Earned'
  <2> SUFFICES ASSUME Inv, Earned, [Next]_vars, [~CutShort /\ ~Overwritten /\ ~Unfailed]_vars
               PROVE  Earned'
    OBVIOUS
  <2>1. CASE UNCHANGED vars
    BY <2>1 DEF vars, rows, training, history, Earned, CompletedHasModel
  <2>2. CASE Next /\ ~CutShort /\ ~Overwritten /\ ~Unfailed
    BY <2>2, MainEarns, OthersEarn DEF Next
  <2> QED BY <2>1, <2>2
<1>3. Earned => CompletedHasModel
  BY DEF Earned
<1> QED BY <1>1, <1>2, <1>3, Invariance, PTL DEF Spec
=============================================================================
