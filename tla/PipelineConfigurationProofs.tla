--------------------- MODULE PipelineConfigurationProofs ---------------------
(***************************************************************************)
(* The safety of the pipeline's configuration, for any number of requests, *)
(* watchers, sources, models, commits and failures.                        *)
(***************************************************************************)
EXTENDS PipelineConfiguration, TLAPS

Steps == {"notify", "reload", "signal"}

Notifies(said) == \E n \in 1 .. Len(said) : said[n] = "notify"

LEMMA NotifiesInside ==
    ASSUME NEW a \in Seq(Steps), NEW b \in Seq(Steps), NEW c \in Seq(Steps),
           Notifies(a) \/ Notifies(b)
    PROVE  Notifies((a \o b) \o c)
<1>1. a \o b \in Seq(Steps) /\ Notifies(a \o b)
  <2>1. CASE Notifies(a)
    <3>1. PICK n \in 1 .. Len(a) : a[n] = "notify"
      BY <2>1 DEF Notifies
    <3>2. n \in 1 .. Len(a \o b) /\ (a \o b)[n] = "notify"
      BY <3>1
    <3> QED BY <3>2 DEF Notifies
  <2>2. CASE Notifies(b)
    <3>1. PICK n \in 1 .. Len(b) : b[n] = "notify"
      BY <2>2 DEF Notifies
    <3>2. Len(a) + n \in 1 .. Len(a \o b) /\ (a \o b)[Len(a) + n] = "notify"
      BY <3>1
    <3> QED BY <3>2 DEF Notifies
  <2> QED BY <2>1, <2>2
<1>2. PICK n \in 1 .. Len(a \o b) : (a \o b)[n] = "notify"
  BY <1>1 DEF Notifies
<1> DEFINE ab == a \o b
<1> HIDE DEF ab
<1>3. n \in 1 .. Len(ab \o c) /\ (ab \o c)[n] = "notify"
  BY <1>1, <1>2 DEF ab
<1> QED BY <1>3 DEF ab, Notifies

(* What update_pipeline announces is a sequence of announcements, and       *)
(* another source or status is notified.                                    *)
LEMMA AnnouncementsType ==
    ASSUME NEW old \in Rows, NEW new \in Rows,
           NEW sinkChanged \in BOOLEAN, NEW tuned \in BOOLEAN
    PROVE  /\ Announcements(old, new, sinkChanged, tuned) \in Seq(Steps)
           /\ old.source # new.source \/ old.status # new.status =>
                  Notifies(Announcements(old, new, sinkChanged, tuned))
<1> DEFINE first == IF old.source # new.source THEN <<"notify">> ELSE <<>>
           moved == IF old.source # new.source \/ sinkChanged THEN <<"notify", "reload">> ELSE <<>>
           model == IF old.model # new.model THEN <<"signal">> ELSE <<>>
           second == CASE old.status = "running" /\ new.status = "running" -> moved \o model
                       [] old.status # new.status -> <<"notify", "reload", "signal">>
                       [] OTHER -> <<>>
           last == IF tuned THEN <<"signal">> ELSE <<>>
<1>0. /\ <<>> \in Seq(Steps) /\ <<"notify">> \in Seq(Steps) /\ <<"signal">> \in Seq(Steps)
      /\ <<"notify", "reload">> \in Seq(Steps)
      /\ <<"notify", "reload", "signal">> \in Seq(Steps)
  BY DEF Steps
<1>1. first \in Seq(Steps) /\ moved \in Seq(Steps) /\ model \in Seq(Steps) /\ last \in Seq(Steps)
  BY <1>0
<1>2. \A s, t \in Seq(Steps) : s \o t \in Seq(Steps)
  OBVIOUS
<1>3. second \in Seq(Steps)
  <2>1. moved \o model \in Seq(Steps)
    BY <1>1, <1>2
  <2>2. CASE old.status = "running" /\ new.status = "running"
    <3>1. second = moved \o model
      BY <2>2, Zenon
    <3> QED BY <2>1, <3>1
  <2>3. CASE old.status # new.status
    <3>1. second = <<"notify", "reload", "signal">>
      BY <2>3
    <3> QED BY <1>0, <3>1
  <2>4. CASE /\ ~(old.status = "running" /\ new.status = "running")
             /\ old.status = new.status
    <3>1. second = <<>>
      BY <2>4
    <3> QED BY <1>0, <3>1
  <2> QED BY <2>2, <2>3, <2>4
<1>4. Announcements(old, new, sinkChanged, tuned) = (first \o second) \o last
  BY Zenon DEF Announcements
<1>5. old.source # new.source => Notifies(first)
  BY DEF Notifies
<1>6. old.status # new.status => Notifies(second)
  <2> SUFFICES ASSUME old.status # new.status PROVE Notifies(second)
    OBVIOUS
  <2>1. second = <<"notify", "reload", "signal">>
    OBVIOUS
  <2> HIDE DEF second
  <2> QED BY <2>1 DEF Notifies
<1> HIDE DEF first, second, last
<1>7. first \o second \in Seq(Steps)
  BY <1>1, <1>2, <1>3
<1>8. (first \o second) \o last \in Seq(Steps)
  BY <1>1, <1>2, <1>7
<1>9. old.source # new.source \/ old.status # new.status => Notifies((first \o second) \o last)
  BY <1>1, <1>3, <1>5, <1>6, NotifiesInside
<1> QED BY <1>4, <1>8, <1>9

(* What a task and a watcher make of a row have their types, and of a row   *)
(* that can be read a watcher never makes a running pipeline with no source.*)
LEMMA ReadingType ==
    ASSUME NEW p \in Rows, NEW old \in Configurations
    PROVE  /\ Answer(p) \in Answers
           /\ Configured(p, old) \in Configurations
           /\ Readable(p) /\ Configured(p, old).running => Configured(p, old).source # None
<1>1. Answer(p) \in Answers
  BY DEF Answer, Answers, Rows, Statuses
<1>2. Configured(p, old) \in Configurations
  BY Z3 DEF Configured, Configurations, Rows, Statuses
<1>3. ASSUME Readable(p), Configured(p, old).running
      PROVE  Configured(p, old).source # None
  BY <1>3 DEF Configured, Readable
<1> QED BY <1>1, <1>2, <1>3

-----------------------------------------------------------------------------
(* The source that is about to be stored is there when the pipeline runs:   *)
(* the strengthening of RunningHasSource.                                   *)
ReadHasSource == \A w \in Watchers : watch[w] = "loading" /\ conf[w].running => read[w] # None

IInv == TypeOK /\ ReloadIsNeverLost /\ RunningHasSource /\ ReadHasSource

(* The invariant holds in the initial states.                               *)
LEMMA IInvInit == Init => IInv
<1> SUFFICES ASSUME Init PROVE IInv
  OBVIOUS
<1> USE ConstantsAssumption DEF Init
<1>1. row \in Rows /\ Readable(row) /\ Disconnected \in Configurations
  BY DEF Disconnected, Configurations
<1>2. RequestTypeOK
  <2>1. <<>> \in Seq({"notify", "reload", "signal"})
    OBVIOUS
  <2>2. todo \in [Requests -> Seq({"notify", "reload", "signal"})]
    BY <2>1, Zenon
  <2>3. commits \in 0 .. MaxCommits /\ faults \in 0 .. MaxFaults
    OBVIOUS
  <2>4. event \in BOOLEAN /\ unanswered \in BOOLEAN
    OBVIOUS
  <2> QED BY <1>1, <2>2, <2>3, <2>4, Zenon DEF RequestTypeOK
<1>3. WatcherTypeOK
  BY <1>1, ReadingType DEF WatcherTypeOK
<1>4. WorkerTypeOK
  <2>1. Answer(row) \in Answers
    BY <1>1, ReadingType
  <2> QED BY <2>1 DEF WorkerTypeOK, Answers, Awaits
<1>5. HoldsOnlyWhatItNeeds
  BY DEF HoldsOnlyWhatItNeeds
<1>6. ReloadIsNeverLost /\ RunningHasSource /\ ReadHasSource
  BY <1>1, ReadingType DEF ReloadIsNeverLost, RunningHasSource, ReadHasSource, Disconnected
<1> QED BY <1>2, <1>3, <1>4, <1>5, <1>6 DEF IInv, TypeOK

(* The parts of the invariant that an action leaves alone stay true.        *)
LEMMA Untouched ==
    ASSUME IInv
    PROVE  /\ UNCHANGED watching => WatcherTypeOK' /\ RunningHasSource' /\ ReadHasSource'
           /\ UNCHANGED worker => WorkerTypeOK' /\ HoldsOnlyWhatItNeeds'
<1>1. ASSUME UNCHANGED watching PROVE WatcherTypeOK' /\ RunningHasSource' /\ ReadHasSource'
  BY <1>1 DEF IInv, TypeOK, watching, WatcherTypeOK, RunningHasSource, ReadHasSource
<1>2. ASSUME UNCHANGED worker PROVE WorkerTypeOK' /\ HoldsOnlyWhatItNeeds'
  BY <1>2 DEF IInv, TypeOK, worker, tasks, models, WorkerTypeOK, HoldsOnlyWhatItNeeds
<1> QED BY <1>1, <1>2

(* A request commits a row that has its type, and announces it.             *)
LEMMA RequestPreserves ==
    ASSUME IInv, NEW r \in Requests, Request(r)
    PROVE  IInv'
<1> USE ConstantsAssumption
<1>1. row \in Rows /\ RequestTypeOK /\ ReloadIsNeverLost
  BY DEF IInv, TypeOK, RequestTypeOK
<1>2. PICK new \in Rows, said \in Seq(Steps) : Commit(r, new, said)
  <2>1. CASE Patch(r)
    <3>1. PICK s \in Sources \cup {None}, m \in Models \cup {None},
               sinkChanged \in BOOLEAN, tuned \in BOOLEAN :
            LET new == [row EXCEPT !.source = s, !.model = m]
            IN  Commit(r, new, Announcements(row, new, sinkChanged, tuned))
      BY <2>1, Zenon DEF Patch
    <3>2. [row EXCEPT !.source = s, !.model = m] \in Rows
      BY <1>1 DEF Rows
    <3> QED BY <1>1, <3>1, <3>2, AnnouncementsType
  <2>2. CASE SetStatus(r)
    <3>1. PICK status \in Statuses :
            LET new == [row EXCEPT !.status = status]
            IN  Commit(r, new, Announcements(row, new, FALSE, FALSE))
      BY <2>2, Zenon DEF SetStatus
    <3>2. [row EXCEPT !.status = status] \in Rows
      BY <1>1 DEF Rows
    <3> QED BY <1>1, <3>1, <3>2, AnnouncementsType
  <2>3. CASE EditSettings(r)
    <3>1. PICK s \in Sources \cup {None} :
            Commit(r, [row EXCEPT !.source = s],
                   IF row.status # "idle" THEN <<"notify">> ELSE <<>>)
      BY <2>3 DEF EditSettings
    <3>2. [row EXCEPT !.source = s] \in Rows
      BY <1>1 DEF Rows
    <3>3. (IF row.status # "idle" THEN <<"notify">> ELSE <<>>) \in Seq(Steps)
      <4>1. <<"notify">> \in Seq(Steps) /\ <<>> \in Seq(Steps)
        BY DEF Steps
      <4> QED BY <4>1, Zenon
    <3> QED BY <3>1, <3>2, <3>3
  <2> QED BY <2>1, <2>2, <2>3 DEF Request
<1>3. UNCHANGED <<event, watching, worker, unanswered>>
  BY <1>2 DEF Commit
<1>4. RequestTypeOK'
  BY <1>1, <1>2, <1>3 DEF RequestTypeOK, Commit, Faulty, Steps
<1>5. ReloadIsNeverLost'
  BY <1>1, <1>3 DEF ReloadIsNeverLost, worker, tasks
<1> QED BY <1>3, <1>4, <1>5, Untouched DEF IInv, TypeOK

(* An announcement takes one step off the list; only a signal sets the      *)
(* history variable, and it sets the event with it.                         *)
LEMMA AnnouncePreserves ==
    ASSUME IInv, NEW r \in Requests, Announce(r)
    PROVE  IInv'
<1> USE ConstantsAssumption
<1>1. RequestTypeOK /\ WatcherTypeOK /\ ReloadIsNeverLost
  BY DEF IInv, TypeOK
<1>2. UNCHANGED <<database, read, conf, worker>> /\ todo[r] # <<>>
  BY DEF Announce, Notify, Reload, Signal, Announces
<1>3. Tail(todo[r]) \in Seq(Steps) /\ <<>> \in Seq(Steps)
  BY <1>1, <1>2 DEF RequestTypeOK, Steps
<1>4. RequestTypeOK'
  <2>1. /\ \/ todo' = [todo EXCEPT ![r] = Tail(todo[r])]
           \/ todo' = [todo EXCEPT ![r] = <<>>]
        /\ faults' = faults \/ (faults < MaxFaults /\ faults' = faults + 1)
        /\ event' \in BOOLEAN /\ unanswered' \in BOOLEAN
    BY <1>1 DEF Announce, Notify, Reload, Signal, RequestTypeOK, CannotRead, Faulty
  <2>2. todo' \in [Requests -> Seq(Steps)]
    BY <1>1, <1>3, <2>1 DEF RequestTypeOK, Steps
  <2> QED BY <1>1, <1>2, <2>1, <2>2 DEF RequestTypeOK, database, Steps
<1>5. WatcherTypeOK'
  BY <1>1, <1>2 DEF Announce, Notify, Reload, Signal, WatcherTypeOK
<1>6. ReloadIsNeverLost'
  BY <1>1, <1>2 DEF Announce, Notify, Reload, Signal, ReloadIsNeverLost, worker, tasks
<1>7. RunningHasSource' /\ ReadHasSource'
  <2>1. \A w \in Watchers : (watch[w] = "loading" <=> watch'[w] = "loading")
    BY <1>1 DEF Announce, Notify, Reload, Signal, WatcherTypeOK
  <2> QED BY <1>2, <2>1 DEF IInv, RunningHasSource, ReadHasSource
<1> QED BY <1>2, <1>4, <1>5, <1>6, <1>7, Untouched DEF IInv, TypeOK

(* A watcher's step keeps the requests and the worker, and stores only what *)
(* it read from a row that can be read.                                     *)
LEMMA WatchPreserves ==
    ASSUME IInv, NEW w \in Watchers, Watch(w)
    PROVE  IInv'
<1> USE ConstantsAssumption
<1>1. RequestTypeOK /\ WatcherTypeOK /\ ReloadIsNeverLost /\ RunningHasSource /\ ReadHasSource
  BY DEF IInv, TypeOK
<1>2. UNCHANGED <<database, todo, event, worker, unanswered>>
  BY DEF Watch, Waits, TimesOut, Reads, Adopts, ReadFails, Applies
<1>3. RequestTypeOK'
  <2>1. faults' = faults \/ (faults < MaxFaults /\ faults' = faults + 1)
    BY DEF Watch, Waits, TimesOut, Reads, Adopts, ReadFails, Applies, CannotRead, Faulty
  <2> QED BY <1>1, <1>2, <2>1 DEF RequestTypeOK, database
<1>4. WatcherTypeOK' /\ RunningHasSource' /\ ReadHasSource'
  <2>1. CASE Waits(w) \/ TimesOut(w) \/ ReadFails(w)
    BY <1>1, <2>1 DEF Waits, TimesOut, ReadFails, WatcherTypeOK, RunningHasSource, ReadHasSource
  <2>2. CASE Reads(w)
    <3>1. PICK new \in Configurations : Adopts(w, new) /\ (new.running => new.source # None)
      BY <1>1, <2>2, ReadingType DEF Reads, RequestTypeOK, WatcherTypeOK
    <3>2. new.source \in Sources \cup {None} /\ new.running \in BOOLEAN
      BY DEF Configurations
    <3>3. WatcherTypeOK'
      BY <1>1, <3>1, <3>2 DEF Adopts, WatcherTypeOK, Configurations
    <3>4. \A u \in Watchers \ {w} : watch'[u] = watch[u] /\ conf'[u] = conf[u] /\ read'[u] = read[u]
      BY <1>1, <3>1 DEF Adopts, WatcherTypeOK
    <3>5. watch'[w] = "loading" /\ conf'[w].running = new.running /\ read'[w] = new.source
      BY <1>1, <3>1 DEF Adopts, WatcherTypeOK, Configurations
    <3> QED BY <1>1, <3>1, <3>3, <3>4, <3>5 DEF RunningHasSource, ReadHasSource
  <2>3. CASE Applies(w)
    <3>1. WatcherTypeOK'
      BY <1>1, <2>3 DEF Applies, WatcherTypeOK, Configurations
    <3>2. \A u \in Watchers \ {w} : watch'[u] = watch[u] /\ conf'[u] = conf[u] /\ read'[u] = read[u]
      BY <1>1, <2>3 DEF Applies, WatcherTypeOK
    <3>3. /\ watch[w] = "loading" /\ watch'[w] = "between"
          /\ conf'[w].running = conf[w].running /\ conf'[w].source = read[w]
      BY <1>1, <2>3 DEF Applies, WatcherTypeOK, Configurations
    <3> QED BY <1>1, <3>1, <3>2, <3>3 DEF RunningHasSource, ReadHasSource
  <2> QED BY <2>1, <2>2, <2>3 DEF Watch
<1>5. ReloadIsNeverLost'
  BY <1>1, <1>2 DEF ReloadIsNeverLost, worker, tasks
<1> QED BY <1>2, <1>3, <1>4, <1>5, Untouched DEF IInv, TypeOK

(* What taking the mode and the model of an answer leaves of them.          *)
LEMMA ModeType ==
    ASSUME WorkerTypeOK, NEW t \in {"loop", "daemon"}, got[t] \in Answers \cup {None}, TakeMode(t)
    PROVE  /\ passthrough' \in BOOLEAN
           /\ got' \in [{"loop", "daemon"} -> Answers \cup Models \cup {None}]
           /\ got'[t] \in Models \cup {None}
           /\ \A u \in {"loop", "daemon"} \ {t} : got'[u] = got[u]
<1> USE DEF WorkerTypeOK
<1>1. CASE got[t] = None /\ UNCHANGED <<got, passthrough>>
  BY <1>1
<1>2. CASE got[t] # None /\ passthrough' = got[t].bypass
  <2>1. got[t].bypass \in BOOLEAN /\ got[t].model \in Models \cup {None}
    BY <1>2 DEF Answers
  <2>2. PICK m \in Models \cup {None} : got' = [got EXCEPT ![t] = m]
    BY <1>2, <2>1 DEF TakeMode
  <2> QED BY <1>2, <2>1, <2>2
<1> QED BY <1>1, <1>2 DEF TakeMode

LEMMA AdoptType ==
    ASSUME WorkerTypeOK, NEW t \in {"loop", "daemon"}, got[t] \in Models \cup {None}, Adopt(t)
    PROVE  /\ loaded' \in Models \cup {None} /\ passthrough' \in BOOLEAN
           /\ got' \in [{"loop", "daemon"} -> Answers \cup Models \cup {None}]
           /\ got'[t] = None
           /\ \A u \in {"loop", "daemon"} \ {t} : got'[u] = got[u]
BY DEF Adopt, WorkerTypeOK

(* A step of the frame loop outside of a reload.                            *)
LEMMA ScoringType ==
    ASSUME IInv, Scoring \/ TakeFrame
    PROVE  WorkerTypeOK' /\ HoldsOnlyWhatItNeeds'
<1> USE ConstantsAssumption DEF WorkerTypeOK, HoldsOnlyWhatItNeeds, FrameLoop, Awaits
<1>1. WorkerTypeOK /\ HoldsOnlyWhatItNeeds
  BY DEF IInv, TypeOK
<1>2. CASE PassThrough \/ NoModel \/ Wake \/ TakeFrame
  BY <1>1, <1>2 DEF PassThrough, NoModel, Wake, TakeFrame, models
<1>3. CASE Score
  BY <1>1, <1>3 DEF Score, models
<1>4. CASE Fetch
  BY <1>1, <1>4 DEF Fetch
<1>5. CASE FetchFails \/ Predict
  BY <1>1, <1>5 DEF FetchFails, Predict, models
<1> QED BY <1>2, <1>3, <1>4, <1>5 DEF Scoring

(* A step of a reload.                                                      *)
LEMMA ReloadingType ==
    ASSUME IInv, Reloading \/ StartReload("idle")
    PROVE  WorkerTypeOK' /\ HoldsOnlyWhatItNeeds'
<1> USE ConstantsAssumption DEF WorkerTypeOK, HoldsOnlyWhatItNeeds, FrameLoop, Awaits
<1>1. WorkerTypeOK /\ HoldsOnlyWhatItNeeds /\ row \in Rows
  BY DEF IInv, TypeOK, RequestTypeOK
<1>2. CASE StartReload("idle") \/ StartReload("reloaded") \/ EndReload
  BY <1>1, <1>2 DEF StartReload, EndReload, models
<1>3. CASE Query
  <2>1. Answer(row) \in Answers
    BY <1>1, ReadingType DEF IInv, TypeOK, WatcherTypeOK, Answer, Answers, Rows, Statuses
  <2> QED BY <1>1, <1>3, <2>1 DEF Query, models
<1>4. CASE ReloadWithoutModel \/ Evict
  <2>1. Adopt("loop")
    BY <1>4 DEF ReloadWithoutModel, Evict
  <2>2. /\ loaded' \in Models \cup {None} /\ passthrough' \in BOOLEAN
        /\ got' \in [{"loop", "daemon"} -> Answers \cup Models \cup {None}]
        /\ got'["loop"] = None /\ got'["daemon"] = got["daemon"]
    BY <1>1, <1>4, <2>1, AdoptType DEF ReloadWithoutModel, Evict
  <2>3. CASE ReloadWithoutModel
    BY <1>1, <2>2, <2>3 DEF ReloadWithoutModel
  <2>4. CASE Evict
    BY <1>1, <2>2, <2>4 DEF Evict
  <2> QED BY <1>4, <2>3, <2>4
<1>5. CASE Load \/ LoadForNobody
  BY <1>1, <1>5 DEF Load, LoadForNobody, models
<1>6. CASE QueryEnds
  <2>1. /\ passthrough' \in BOOLEAN
        /\ got' \in [{"loop", "daemon"} -> Answers \cup Models \cup {None}]
        /\ got'["loop"] \in Models \cup {None} /\ got'["daemon"] = got["daemon"]
    BY <1>1, <1>6, ModeType DEF QueryEnds
  <2> QED BY <1>1, <1>6, <2>1 DEF QueryEnds
<1> QED BY <1>2, <1>3, <1>4, <1>5, <1>6 DEF Reloading

(* A step of the refresh daemon.                                            *)
LEMMA RefreshingType ==
    ASSUME IInv, Refreshing
    PROVE  WorkerTypeOK' /\ HoldsOnlyWhatItNeeds'
<1> USE ConstantsAssumption DEF WorkerTypeOK, HoldsOnlyWhatItNeeds, Refresh
<1>1. WorkerTypeOK /\ HoldsOnlyWhatItNeeds /\ row \in Rows
  BY DEF IInv, TypeOK, RequestTypeOK
<1>2. CASE RefreshWakes
  BY <1>1, <1>2 DEF RefreshWakes
<1>3. CASE RefreshQuery
  <2>1. Answer(row) \in Answers
    BY <1>1 DEF Answer, Answers, Rows, Statuses
  <2> QED BY <1>1, <1>3, <2>1 DEF RefreshQuery
<1>4. CASE RefreshAssign
  <2>1. /\ loaded' \in Models \cup {None} /\ passthrough' \in BOOLEAN
        /\ got' \in [{"loop", "daemon"} -> Answers \cup Models \cup {None}]
        /\ got'["daemon"] = None /\ got'["loop"] = got["loop"]
    BY <1>1, <1>4, AdoptType DEF RefreshAssign
  <2> QED BY <1>1, <1>4, <2>1 DEF RefreshAssign
<1>5. CASE RefreshQueryEnds
  <2>1. /\ passthrough' \in BOOLEAN
        /\ got' \in [{"loop", "daemon"} -> Answers \cup Models \cup {None}]
        /\ got'["daemon"] \in Models \cup {None} /\ got'["loop"] = got["loop"]
    BY <1>1, <1>5, ModeType DEF RefreshQueryEnds
  <2> QED BY <1>1, <1>5, <2>1 DEF RefreshQueryEnds
<1> QED BY <1>2, <1>3, <1>4, <1>5 DEF Refreshing

(* The worker keeps the requests and the watchers; a reload clears the      *)
(* event only to ask, and what it asks for answers what was announced.      *)
LEMMA WorkerPreserves ==
    ASSUME IInv, Frame \/ Reloading \/ Scoring \/ Refreshing
    PROVE  IInv'
<1> USE ConstantsAssumption
<1>1. RequestTypeOK /\ ReloadIsNeverLost
  BY DEF IInv, TypeOK
<1>2. UNCHANGED <<database, todo, watching>>
  BY DEF Frame, TakeFrame, StartReload, Reloading, EndReload, Query, QueryEnds, ReloadWithoutModel, Evict,
         Load, LoadForNobody, Scoring, PassThrough, NoModel, Score, Fetch, FetchFails, Predict,
         Wake, Refreshing, RefreshWakes, RefreshQuery, RefreshQueryEnds, RefreshAssign,
         FrameLoop, Refresh
<1>3. WorkerTypeOK' /\ HoldsOnlyWhatItNeeds'
  BY ScoringType, ReloadingType, RefreshingType DEF Frame
<1>4. RequestTypeOK' /\ ReloadIsNeverLost'
  <2> USE DEF RequestTypeOK, ReloadIsNeverLost, database
  <2>1. CASE Frame \/ StartReload("reloaded") \/ EndReload
    <3>1. UNCHANGED <<faults, unanswered>> /\ event' \in BOOLEAN
      BY <1>1, <2>1 DEF Frame, TakeFrame, StartReload, EndReload
    <3>2. task' = "query" \/ (event' = event /\ task # "query")
      BY <2>1 DEF Frame, TakeFrame, StartReload, EndReload, FrameLoop
    <3> QED BY <1>1, <1>2, <3>1, <3>2
  <2>2. CASE Query
    <3>1. faults' = faults \/ (faults < MaxFaults /\ faults' = faults + 1)
      BY <2>2 DEF Query, CannotRead, Faulty
    <3>2. event' = event /\ ~unanswered' /\ unanswered' \in BOOLEAN
      BY <2>2 DEF Query
    <3> QED BY <1>1, <1>2, <3>1, <3>2
  <2>3. CASE ReloadWithoutModel \/ Evict \/ Load \/ LoadForNobody
    BY <1>1, <1>2, <2>3 DEF ReloadWithoutModel, Evict, Load, LoadForNobody, FrameLoop, Faulty
  <2>4. CASE Scoring
    BY <1>1, <1>2, <2>4 DEF Scoring, PassThrough, NoModel, Score, Fetch, FetchFails, Predict, Wake,
                            FrameLoop, Faulty
  <2>5. CASE Refreshing
    BY <1>1, <1>2, <2>5 DEF Refreshing, RefreshWakes, RefreshQuery, RefreshQueryEnds, RefreshAssign,
                            TakeMode, Refresh, CannotRead, Faulty
  <2>6. CASE QueryEnds
    BY <1>1, <1>2, <2>6 DEF QueryEnds, TakeMode, FrameLoop, Faulty
  <2> QED BY <2>1, <2>2, <2>3, <2>4, <2>5, <2>6 DEF Reloading
<1> QED BY <1>2, <1>3, <1>4, Untouched DEF IInv, TypeOK

(* The invariant is inductive.                                              *)
LEMMA IInvNext == IInv /\ [Next]_vars => IInv'
<1> SUFFICES ASSUME IInv, [Next]_vars PROVE IInv'
  OBVIOUS
<1>1. CASE Next
  BY <1>1, RequestPreserves, AnnouncePreserves, WatchPreserves, WorkerPreserves DEF Next
<1>2. CASE UNCHANGED vars
  <2>1. RequestTypeOK' /\ ReloadIsNeverLost'
    BY <1>2 DEF IInv, TypeOK, RequestTypeOK, ReloadIsNeverLost, vars, database, worker, tasks
  <2> QED BY <1>2, <2>1, Untouched DEF vars, IInv, TypeOK
<1> QED BY <1>1, <1>2

-----------------------------------------------------------------------------
LEMMA AlwaysIInv == Spec => []IInv
  BY IInvInit, IInvNext, PTL DEF Spec

(* Every request, watcher and task of the worker keeps its types, and the   *)
(* worker holds a model and an answer only while it needs them.             *)
THEOREM TypeCorrect == Spec => []TypeOK
<1>1. IInv => TypeOK
  BY DEF IInv
<1> QED BY <1>1, AlwaysIInv, PTL

(* However requests signal while _handle_model_reload runs, the worker asks *)
(* the database again after the last signal.                                *)
THEOREM ReloadNeverLost == Spec => []ReloadIsNeverLost
<1>1. IInv => ReloadIsNeverLost
  BY DEF IInv
<1> QED BY <1>1, AlwaysIInv, PTL

(* No stream loader or dispatcher takes the pipeline for running without a  *)
(* source, but between two statements of a reload that has one in hand,     *)
(* whatever rows are committed and whatever fails.                          *)
THEOREM RunningSourced == Spec => []RunningHasSource
<1>1. IInv => RunningHasSource
  BY DEF IInv
<1> QED BY <1>1, AlwaysIInv, PTL

-----------------------------------------------------------------------------
(* What breaks the two promises the code does not keep, and nothing else.   *)

(* A row the Pipeline model refuses is refused for good: PATCH, :run and    *)
(* :stop read the pipeline before they write it, so no request repairs it;  *)
(* and only a PATCH of a running pipeline makes one (RunningIsConfigured).  *)
OnlyDetachingBreaks ==
    [][/\ ~Readable(row) => ~Readable(row') /\ row'.status = row.status
       /\ Readable(row) /\ ~Readable(row') =>
              /\ row.status = "running"
              /\ row'.source = None \/ row'.model = None
              /\ \E r \in Requests : Patch(r)]_vars

LEMMA CommitRow ==
    ASSUME IInv, NEW r \in Requests, Request(r)
    PROVE  /\ ~Readable(row) => ~Readable(row') /\ row'.status = row.status
           /\ Readable(row) /\ ~Readable(row') =>
                  /\ row.status = "running"
                  /\ row'.source = None \/ row'.model = None
                  /\ Patch(r)
<1>1. row \in Rows
  BY DEF IInv, TypeOK, RequestTypeOK
<1>2. CASE Patch(r)
  <2>1. Readable(row)
    BY <1>2 DEF Patch
  <2>2. PICK s \in Sources \cup {None}, m \in Models \cup {None} :
            row' = [row EXCEPT !.source = s, !.model = m]
    BY <1>2, Zenon DEF Patch, Commit
  <2>3. row'.status = row.status /\ row'.source = s /\ row'.model = m
    BY <1>1, <2>2 DEF Rows
  <2> QED BY <1>2, <2>1, <2>3 DEF Readable
<1>3. CASE SetStatus(r)
  <2>1. Readable(row)
    BY <1>3 DEF SetStatus
  <2>2. PICK status \in Statuses :
            /\ row' = [row EXCEPT !.status = status]
            /\ Readable([row EXCEPT !.status = status])
    BY <1>3, Zenon DEF SetStatus, Commit
  <2> QED BY <2>1, <2>2
<1>4. CASE EditSettings(r)
  <2>1. PICK s \in Sources \cup {None} :
            (s = None <=> row.source = None) /\ row' = [row EXCEPT !.source = s]
    BY <1>4 DEF EditSettings, Commit
  <2>2. row'.status = row.status /\ row'.source = s /\ row'.model = row.model
    BY <1>1, <2>1 DEF Rows
  <2> QED BY <2>1, <2>2 DEF Readable
<1> QED BY <1>2, <1>3, <1>4 DEF Request

LEMMA OthersKeepTheRow ==
    ASSUME Next, \A r \in Requests : ~Request(r)
    PROVE  UNCHANGED database
<1>1. CASE \E r \in Requests : Announce(r)
  BY <1>1 DEF Announce, Notify, Reload, Signal, Announces
<1>2. CASE \E w \in Watchers : Watch(w)
  BY <1>2 DEF Watch, Waits, TimesOut, Reads, Adopts, ReadFails, Applies
<1>3. CASE Frame \/ Reloading \/ Scoring \/ Refreshing
  BY <1>3 DEF Frame, TakeFrame, StartReload, Reloading, EndReload, Query, QueryEnds, ReloadWithoutModel, Evict,
         Load, LoadForNobody, Scoring, PassThrough, NoModel, Score, Fetch, FetchFails, Predict,
         Wake, Refreshing, RefreshWakes, RefreshQuery, RefreshQueryEnds, RefreshAssign,
         FrameLoop, Refresh
<1> QED BY <1>1, <1>2, <1>3 DEF Next

(* A pipeline is broken by detaching, and stays broken. *)
THEOREM BrokenForGood == Spec => OnlyDetachingBreaks
<1> DEFINE A == /\ ~Readable(row) => ~Readable(row') /\ row'.status = row.status
                /\ Readable(row) /\ ~Readable(row') =>
                       /\ row.status = "running"
                       /\ row'.source = None \/ row'.model = None
                       /\ \E r \in Requests : Patch(r)
<1>1. IInv /\ [Next]_vars => [A]_vars
  <2> SUFFICES ASSUME IInv, Next PROVE A
    OBVIOUS
  <2>1. CASE \E r \in Requests : Request(r)
    BY <2>1, CommitRow
  <2>2. CASE \A r \in Requests : ~Request(r)
    BY <2>2, OthersKeepTheRow DEF database, Readable
  <2> QED BY <2>1, <2>2
<1> QED BY <1>1, AlwaysIInv, PTL DEF Spec, OnlyDetachingBreaks

-----------------------------------------------------------------------------
(* A watcher that reloads when notify_all is called does not hear it; that  *)
(* is the only way a watcher can miss a change.                             *)
HeardByAll ==
    \A r \in Requests : Notify(r) => \A w \in Watchers : watch[w] \in {"waiting", "awake", "dead"}

Announced == \E r \in Requests : Notifies(todo[r])

(* A watcher has what the row says, or has read it and is about to store it. *)
Current(w) ==
    /\ watch[w] \in {"waiting", "between"} => conf[w] = Configured(row, conf[w])
    /\ watch[w] = "loading" =>
           /\ read[w] = Configured(row, conf[w]).source
           /\ conf[w].running = Configured(row, conf[w]).running

(* Without a failure, a readable row that somebody does not have is still   *)
(* to be announced.                                                         *)
Informed == faults = 0 /\ Readable(row) => Announced \/ \A w \in Watchers : Current(w)

(* Looking twice at the same row changes nothing. *)
LEMMA ConfiguredTwice ==
    ASSUME NEW p \in Rows, NEW old \in Configurations, NEW new \in Configurations,
           new.source = Configured(p, old).source, new.running = Configured(p, old).running
    PROVE  new = Configured(p, new)
<1>1. CASE p.status = "idle"
  BY <1>1 DEF Configured, Configurations
<1>2. CASE p.status # "idle" /\ p.source # None
  BY <1>2 DEF Configured, Configurations
<1>3. CASE p.status # "idle" /\ p.source = None
  BY <1>3 DEF Configured, Configurations
<1> QED BY <1>1, <1>2, <1>3

LEMMA InitInformed == Init => Informed
<1> SUFFICES ASSUME Init, NEW w \in Watchers PROVE Current(w)
  BY DEF Informed
<1>1. row \in Rows /\ Disconnected \in Configurations
  BY DEF Init, Disconnected, Configurations
<1>2. conf[w] = Configured(row, Disconnected) /\ watch[w] = "between"
  BY DEF Init
<1>3. conf[w] \in Configurations
  BY <1>1, <1>2, ReadingType
<1>4. conf[w] = Configured(row, conf[w])
  BY <1>1, <1>2, <1>3, ConfiguredTwice
<1> QED BY <1>2, <1>4 DEF Current

(* Every change of what a watcher makes of the row is announced. *)
LEMMA ChangesAreAnnounced ==
    ASSUME IInv, NEW r \in Requests, Request(r), faults' = 0, Readable(row')
    PROVE  Announced' \/ \A old \in Configurations : Configured(row', old) = Configured(row, old)
<1>1. row \in Rows /\ todo \in [Requests -> Seq(Steps)] /\ faults \in Nat
  BY DEF IInv, TypeOK, RequestTypeOK, Steps
<1>2. ~Faulty
  BY <1>1 DEF Faulty
<1>3. CASE Patch(r)
  <2>1. PICK s \in Sources \cup {None}, m \in Models \cup {None},
             sinkChanged \in BOOLEAN, tuned \in BOOLEAN :
          LET new == [row EXCEPT !.source = s, !.model = m]
          IN  Commit(r, new, Announcements(row, new, sinkChanged, tuned))
    BY <1>3, Zenon DEF Patch
  <2> DEFINE new == [row EXCEPT !.source = s, !.model = m]
  <2>2. new \in Rows /\ new.status = row.status
    BY <1>1 DEF Rows
  <2>3. row' = new /\ todo'[r] = Announcements(row, new, sinkChanged, tuned)
    BY <1>1, <1>2, <2>1, Zenon DEF Commit
  <2>4. CASE new.source # row.source
    BY <1>1, <2>2, <2>3, <2>4, AnnouncementsType DEF Announced
  <2>5. CASE new.source = row.source
    BY <2>2, <2>3, <2>5 DEF Configured
  <2> QED BY <2>4, <2>5
<1>4. CASE SetStatus(r)
  <2>1. PICK status \in Statuses \ {row.status} :
          LET new == [row EXCEPT !.status = status]
          IN  Commit(r, new, Announcements(row, new, FALSE, FALSE))
    BY <1>4, Zenon DEF SetStatus
  <2> DEFINE new == [row EXCEPT !.status = status]
  <2>2. new \in Rows /\ new.status # row.status
    BY <1>1 DEF Rows
  <2>3. row' = new /\ todo'[r] = Announcements(row, new, FALSE, FALSE)
    BY <1>1, <1>2, <2>1, Zenon DEF Commit
  <2> QED BY <1>1, <2>2, <2>3, AnnouncementsType DEF Announced
<1>5. CASE EditSettings(r)
  <2>1. PICK s \in Sources \cup {None} :
          Commit(r, [row EXCEPT !.source = s], IF row.status # "idle" THEN <<"notify">> ELSE <<>>)
    BY <1>5 DEF EditSettings
  <2>2. /\ row'.status = row.status
        /\ todo'[r] = IF row.status # "idle" THEN <<"notify">> ELSE <<>>
    BY <1>1, <1>2, <2>1 DEF Commit, Rows
  <2>3. CASE row.status = "idle"
    BY <2>2, <2>3 DEF Configured
  <2>4. CASE row.status # "idle"
    <3>1. todo'[r] = <<"notify">>
      BY <2>2, <2>4
    <3>2. 1 \in 1 .. Len(<<"notify">>) /\ <<"notify">>[1] = "notify"
      OBVIOUS
    <3>3. Notifies(<<"notify">>)
      BY <3>2 DEF Notifies
    <3> QED BY <3>1, <3>3 DEF Announced
  <2> QED BY <2>3, <2>4
<1> QED BY <1>3, <1>4, <1>5 DEF Request

(* What the others have to announce, and what a reload or a signal leaves   *)
(* to be notified, is still to be announced.                                *)
LEMMA RequestInforms ==
    ASSUME IInv, Informed, NEW r \in Requests, Request(r)
    PROVE  Informed'
<1> SUFFICES ASSUME faults' = 0, Readable(row') PROVE Announced' \/ \A w \in Watchers : Current(w)'
  BY DEF Informed
<1>1. /\ faults \in Nat /\ todo \in [Requests -> Seq(Steps)] /\ conf \in [Watchers -> Configurations]
  BY DEF IInv, TypeOK, RequestTypeOK, WatcherTypeOK, Steps
<1>2. /\ UNCHANGED watching /\ todo[r] = <<>> /\ faults = 0
      /\ \A q \in Requests \ {r} : todo'[q] = todo[q]
  <2>1. \E new, said : Commit(r, new, said)
    <3>1. ASSUME Patch(r) PROVE \E new, said : Commit(r, new, said)
      BY <3>1, Zenon DEF Patch
    <3>2. ASSUME SetStatus(r) PROVE \E new, said : Commit(r, new, said)
      BY <3>2, Zenon DEF SetStatus
    <3>3. ASSUME EditSettings(r) PROVE \E new, said : Commit(r, new, said)
      BY <3>3, Zenon DEF EditSettings
    <3> QED BY <3>1, <3>2, <3>3 DEF Request
  <2> QED BY <1>1, <2>1 DEF Commit, Faulty
<1>3. Readable(row)
  BY CommitRow
<1>4. CASE Announced
  <2>1. PICK q \in Requests : Notifies(todo[q])
    BY <1>4 DEF Announced
  <2>2. q # r
    BY <1>2, <2>1 DEF Notifies
  <2> QED BY <1>2, <2>1, <2>2 DEF Announced
<1>5. CASE \A w \in Watchers : Current(w)
  <2>1. CASE \A old \in Configurations : Configured(row', old) = Configured(row, old)
    BY <1>1, <1>2, <1>5, <2>1 DEF Current, watching
  <2> QED BY <2>1, ChangesAreAnnounced
<1> QED BY <1>2, <1>3, <1>4, <1>5 DEF Informed

LEMMA AnnounceInforms ==
    ASSUME IInv, Informed, NEW r \in Requests, Announce(r), HeardByAll
    PROVE  Informed'
<1> SUFFICES ASSUME faults' = 0, Readable(row') PROVE Announced' \/ \A w \in Watchers : Current(w)'
  BY DEF Informed
<1>1. /\ faults \in Nat /\ todo \in [Requests -> Seq(Steps)]
      /\ watch \in [Watchers -> {"waiting", "between", "awake", "loading", "dead"}]
  BY DEF IInv, TypeOK, RequestTypeOK, WatcherTypeOK, Steps
<1>2. UNCHANGED <<row, read, conf>> /\ todo[r] # <<>>
  BY DEF Announce, Notify, Reload, Signal, Announces, database
<1>3. CASE Notify(r)
  <2>1. \A w \in Watchers : watch'[w] \in {"awake", "dead"}
    BY <1>1, <1>3 DEF Notify, HeardByAll
  <2> QED BY <2>1 DEF Current
<1>4. CASE Reload(r) \/ Signal(r)
  <2>1. faults = 0 /\ UNCHANGED watch /\ todo' = [todo EXCEPT ![r] = Tail(@)]
        /\ Head(todo[r]) # "notify"
    BY <1>1, <1>2, <1>4 DEF Reload, Signal, Announces, CannotRead, Faulty
  <2>2. CASE Announced
    <3>1. PICK q \in Requests : Notifies(todo[q])
      BY <2>2 DEF Announced
    <3>2. CASE q # r
      BY <1>1, <2>1, <3>1, <3>2 DEF Announced
    <3>3. CASE q = r
      <4>1. PICK n \in 1 .. Len(todo[r]) : todo[r][n] = "notify"
        BY <3>1, <3>3 DEF Notifies
      <4>2. todo[r] \in Seq(Steps) /\ n # 1
        BY <1>1, <1>2, <2>1, <4>1
      <4>3. n - 1 \in 1 .. Len(Tail(todo[r])) /\ Tail(todo[r])[n - 1] = "notify"
        BY <1>2, <4>1, <4>2
      <4> QED BY <1>1, <2>1, <4>3 DEF Announced, Notifies
    <3> QED BY <3>2, <3>3
  <2>3. CASE \A w \in Watchers : Current(w)
    BY <1>2, <2>1, <2>3 DEF Current
  <2> QED BY <1>2, <2>1, <2>2, <2>3 DEF Informed
<1> QED BY <1>3, <1>4 DEF Announce

LEMMA WatchInforms ==
    ASSUME IInv, Informed, NEW w \in Watchers, Watch(w)
    PROVE  Informed'
<1> SUFFICES ASSUME faults' = 0, Readable(row') PROVE Announced' \/ \A u \in Watchers : Current(u)'
  BY DEF Informed
<1>1. /\ row \in Rows /\ faults \in Nat /\ conf \in [Watchers -> Configurations]
      /\ read \in [Watchers -> Sources \cup {None}]
      /\ watch \in [Watchers -> {"waiting", "between", "awake", "loading", "dead"}]
  BY DEF IInv, TypeOK, RequestTypeOK, WatcherTypeOK
<1>2. UNCHANGED <<row, todo>> /\ faults = 0
  BY <1>1 DEF Watch, Waits, TimesOut, Reads, Adopts, ReadFails, Applies, database, CannotRead, Faulty
<1>3. CASE Announced
  BY <1>2, <1>3 DEF Announced
<1>4. CASE \A u \in Watchers : Current(u)
  <2>1. \A u \in Watchers \ {w} : Current(u)'
    BY <1>1, <1>2, <1>4 DEF Watch, Waits, TimesOut, Reads, Adopts, ReadFails, Applies, Current
  <2>2. Current(w)'
    <3>1. CASE Waits(w) \/ TimesOut(w) \/ ReadFails(w)
      BY <1>1, <1>2, <1>4, <3>1 DEF Waits, TimesOut, ReadFails, Current
    <3>2. CASE Reads(w)
      <4>1. /\ watch'[w] = "loading" /\ read'[w] = Configured(row, conf[w]).source
            /\ conf'[w].running = Configured(row, conf[w]).running
            /\ conf'[w].source = conf[w].source
        BY <1>1, <3>2 DEF Reads, Adopts, Configurations
      <4>2. Configured(row, conf'[w]) = Configured(row, conf[w])
        BY <4>1 DEF Configured
      <4> QED BY <1>2, <4>1, <4>2 DEF Current
    <3>3. CASE Applies(w)
      <4>1. /\ watch[w] = "loading" /\ watch'[w] = "between"
            /\ conf'[w] \in Configurations
            /\ conf'[w].source = read[w] /\ conf'[w].running = conf[w].running
        BY <1>1, <3>3 DEF Applies, Configurations
      <4>2. conf'[w] = Configured(row, conf'[w])
        BY <1>1, <1>4, <4>1, ConfiguredTwice DEF Current
      <4> QED BY <1>2, <4>1, <4>2 DEF Current
    <3> QED BY <3>1, <3>2, <3>3 DEF Watch
  <2> QED BY <2>1, <2>2
<1> QED BY <1>2, <1>3, <1>4 DEF Informed

LEMMA WorkerInforms ==
    ASSUME IInv, Informed, Frame \/ Reloading \/ Scoring \/ Refreshing
    PROVE  Informed'
<1>1. UNCHANGED <<database, todo, watching>>
  BY DEF Frame, TakeFrame, StartReload, Reloading, EndReload, Query, QueryEnds, ReloadWithoutModel, Evict,
         Load, LoadForNobody, Scoring, PassThrough, NoModel, Score, Fetch, FetchFails, Predict,
         Wake, Refreshing, RefreshWakes, RefreshQuery, RefreshQueryEnds, RefreshAssign,
         FrameLoop, Refresh
<1>2. faults' = 0 => faults = 0
  <2>1. UNCHANGED faults \/ Faulty
    BY DEF Frame, TakeFrame, StartReload, Reloading, EndReload, Query, QueryEnds, ReloadWithoutModel, Evict,
         Load, LoadForNobody, Scoring, PassThrough, NoModel, Score, Fetch, FetchFails, Predict,
         Wake, Refreshing, RefreshWakes, RefreshQuery, RefreshQueryEnds, RefreshAssign,
         TakeMode, CannotRead
  <2> QED BY <2>1 DEF Faulty, IInv, TypeOK, RequestTypeOK
<1> QED BY <1>1, <1>2 DEF Informed, Announced, Current, database, watching

(* Where every watcher hears every notify_all, none waits with an old       *)
(* configuration (PipelineConfiguration.WaitingIsCurrent, which the code    *)
(* breaks): a notification during a reload is the only way to miss a change.*)
THEOREM OnlyUnheardIsMissed == Spec /\ [][HeardByAll]_vars => []WaitingIsCurrent
<1>1. IInv /\ Informed /\ [Next]_vars /\ [HeardByAll]_vars => Informed'
  <2> SUFFICES ASSUME IInv, Informed, [Next]_vars, [HeardByAll]_vars PROVE Informed'
    OBVIOUS
  <2>1. CASE UNCHANGED vars
    BY <2>1 DEF Informed, Announced, Current, vars, database, watching
  <2>2. CASE Next /\ HeardByAll
    BY <2>2, RequestInforms, AnnounceInforms, WatchInforms, WorkerInforms DEF Next
  <2> QED BY <2>1, <2>2
<1>2. IInv /\ Informed => WaitingIsCurrent
  <2> SUFFICES ASSUME Informed, NEW w \in Watchers, watch[w] = "waiting", faults = 0,
                      Readable(row), \A r \in Requests : todo[r] = <<>>
               PROVE  conf[w] = Configured(row, conf[w])
    BY DEF WaitingIsCurrent
  <2>1. ~Announced
    BY DEF Announced, Notifies
  <2> QED BY <2>1 DEF Informed, Current
<1> QED BY <1>1, <1>2, AlwaysIInv, InitInformed, PTL DEF Spec
=============================================================================
