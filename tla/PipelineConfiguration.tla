------------------------ MODULE PipelineConfiguration ------------------------
(***************************************************************************)
(* How a change of the Studio's pipeline reaches the workers.  A request   *)
(* (pipeline_service, configuration_service) commits the pipeline's row,   *)
(* then announces it: notify_all on the configuration condition, and the   *)
(* model reload event.  A watcher is the daemon thread of an               *)
(* ActivePipelineService (stream loader, dispatcher).  The inference       *)
(* worker has one event loop with two tasks, the frame loop and the        *)
(* refresh daemon, which alternate only where the running one awaits.      *)
(*                                                                         *)
(* One project; a source stands for its id and its settings; a cached      *)
(* inferencer is named by the model it was made from.  Frames come and go  *)
(* (their queues are not modelled): the loop may find one at any time.     *)
(***************************************************************************)
EXTENDS Naturals, Sequences

CONSTANTS
    Requests,    \* API requests that may be under way together
    Watchers,    \* processes with a configuration watcher
    Sources,
    Models,
    None,        \* no source, no model, no inferencer, no answer
    MaxCommits,  \* bound: commits of the pipeline's row
    MaxFaults    \* bound: transient failures of the database and of loading

ASSUME ConstantsAssumption ==
    /\ None \notin Sources \cup Models
    /\ MaxCommits \in Nat /\ MaxFaults \in Nat

VARIABLES
    row,         \* the committed pipeline
    commits,     \* how often it was committed
    faults,      \* transient failures so far
    todo,        \* what each request still has to announce
    event,       \* mp_model_reload_event
    watch,       \* what each watcher's daemon does
    read,        \* the source it read and has not stored yet
    conf,        \* the configuration its process uses
    task,        \* where the frame loop is
    daemon,      \* where the refresh daemon is
    got,         \* what the database told each of the two tasks, then its model; None: it failed
    passthrough, \* _is_passthrough_mode
    loaded,      \* the model of _loaded_model
    cache,       \* _cached_models
    asked,       \* the model of the call under way
    unanswered   \* history: the event was set and the frame loop has not asked since

database == <<row, commits>>
watching == <<watch, read, conf>>
models   == <<passthrough, loaded, cache>>
tasks    == <<task, daemon, got, asked>>
worker   == <<tasks, models>>
vars == <<database, faults, todo, event, watching, worker, unanswered>>

Statuses == {"idle", "active", "running"}
Rows     == [status : Statuses, source : Sources \cup {None}, model : Models \cup {None}]
Configurations == [source : Sources \cup {None}, running : BOOLEAN]
Answers  == [bypass : BOOLEAN, model : Models \cup {None}]

(* A row the Pipeline model accepts; reading any other row raises.         *)
Readable(p) == p.status = "running" => p.source # None /\ p.model # None

(* What the worker makes of a row: get_active_pipeline finds no idle one.   *)
Answer(p) == [bypass |-> p.status # "running",
              model  |-> IF p.status = "idle" THEN None ELSE p.model]

Disconnected == [source |-> None, running |-> FALSE]

(* What a watcher makes of it: a detached source leaves the old one.        *)
Configured(p, old) ==
    [source  |-> CASE p.status = "idle"  -> None
                   [] p.status # "idle" /\ p.source # None -> p.source
                   [] OTHER -> old.source,
     running |-> p.status = "running"]

Init ==
    /\ row \in {p \in Rows : Readable(p)}
    /\ commits = 0 /\ faults = 0
    /\ todo = [r \in Requests |-> <<>>]
    /\ event = FALSE
    /\ watch = [w \in Watchers |-> "between"]
    /\ read = [w \in Watchers |-> None]
    /\ conf = [w \in Watchers |-> Configured(row, Disconnected)]
    /\ task = "idle" /\ daemon = "asleep"
    /\ got = [t \in {"loop", "daemon"} |-> None]
    /\ passthrough = Answer(row).bypass
    /\ loaded = Answer(row).model
    /\ cache = [m \in Models |-> None]
    /\ asked = None
    /\ unanswered = FALSE

(* A transient failure, or the row cannot be read at all.                   *)
Faulty  == faults < MaxFaults /\ faults' = faults + 1
CannotRead == Faulty \/ (~Readable(row) /\ UNCHANGED faults)

-----------------------------------------------------------------------------
(* Requests.                                                                *)

(* What update_pipeline announces, in its order.                            *)
Announcements(old, new, sinkChanged, tuned) ==
    (IF old.source # new.source THEN <<"notify">> ELSE <<>>)
    \o (CASE old.status = "running" /\ new.status = "running" ->
               (IF old.source # new.source \/ sinkChanged THEN <<"notify", "reload">> ELSE <<>>)
               \o (IF old.model # new.model THEN <<"signal">> ELSE <<>>)
          [] old.status # new.status -> <<"notify", "reload", "signal">>
          [] OTHER -> <<>>)
    \o (IF tuned THEN <<"signal">> ELSE <<>>)

(* The request raises when the row it committed cannot be read back.        *)
Commit(r, new, announcements) ==
    /\ todo[r] = <<>> /\ commits < MaxCommits
    /\ row' = new
    /\ commits' = commits + 1
    /\ \/ /\ Readable(new)
          /\ todo' = [todo EXCEPT ![r] = announcements]
          /\ UNCHANGED faults
       \/ /\ (~Readable(new) /\ UNCHANGED faults) \/ Faulty
          /\ UNCHANGED todo
    /\ UNCHANGED <<event, watching, worker, unanswered>>

(* PATCH: ids, sink, device and overlay.  What is validated are the source  *)
(* and model of before; the new ids are first looked at when the committed  *)
(* row is read again.                                                       *)
Patch(r) ==
    \E s \in Sources \cup {None}, m \in Models \cup {None}, sinkChanged, tuned \in BOOLEAN :
        LET new == [row EXCEPT !.source = s, !.model = m]
        IN  /\ Readable(row)
            /\ new # row \/ sinkChanged \/ tuned
            /\ Commit(r, new, Announcements(row, new, sinkChanged, tuned))

(* :run, :activate, :stop, :disable.                                        *)
SetStatus(r) ==
    \E status \in Statuses \ {row.status} :
        LET new == [row EXCEPT !.status = status]
        IN  /\ Readable(row) /\ Readable(new)
            /\ Commit(r, new, Announcements(row, new, FALSE, FALSE))

(* update_source and update_sink: the settings of the pipeline's source or  *)
(* sink, changed or not.                                                    *)
EditSettings(r) ==
    \E s \in Sources \cup {None} :
        /\ s = None <=> row.source = None
        /\ Commit(r, [row EXCEPT !.source = s],
                  IF row.status # "idle" THEN <<"notify">> ELSE <<>>)

Announces(r, step) ==
    /\ todo[r] # <<>> /\ Head(todo[r]) = step
    /\ UNCHANGED <<database, read, conf, worker>>

(* notify_all wakes who is waiting now.                                     *)
Notify(r) ==
    /\ Announces(r, "notify")
    /\ watch' = [w \in Watchers |-> IF watch[w] = "waiting" THEN "awake" ELSE watch[w]]
    /\ todo' = [todo EXCEPT ![r] = Tail(@)]
    /\ UNCHANGED <<faults, event, unanswered>>

(* The API's own ActivePipelineService, which nobody else reads; when its   *)
(* reload raises, so does the request.                                      *)
Reload(r) ==
    /\ Announces(r, "reload")
    /\ \/ todo' = [todo EXCEPT ![r] = Tail(@)] /\ Readable(row) /\ UNCHANGED faults
       \/ todo' = [todo EXCEPT ![r] = <<>>] /\ CannotRead
    /\ UNCHANGED <<event, watch, unanswered>>

Signal(r) ==
    /\ Announces(r, "signal")
    /\ event' = TRUE
    /\ unanswered' = TRUE
    /\ todo' = [todo EXCEPT ![r] = Tail(@)]
    /\ UNCHANGED <<faults, watch>>

-----------------------------------------------------------------------------
(* Watchers: wait(timeout=3); reload with the lock released; wait again.    *)

Waits(w) ==
    /\ watch[w] = "between"
    /\ watch' = [watch EXCEPT ![w] = "waiting"]
    /\ UNCHANGED <<database, faults, todo, event, read, conf, worker, unanswered>>

TimesOut(w) ==
    /\ watch[w] = "waiting"
    /\ watch' = [watch EXCEPT ![w] = "between"]
    /\ UNCHANGED <<database, faults, todo, event, read, conf, worker, unanswered>>

(* The pipeline is stored before its source; another thread may look between. *)
Adopts(w, new) ==
    /\ watch[w] = "awake"
    /\ watch' = [watch EXCEPT ![w] = "loading"]
    /\ conf' = [conf EXCEPT ![w].running = new.running]
    /\ read' = [read EXCEPT ![w] = new.source]
    /\ UNCHANGED <<database, faults, todo, event, worker, unanswered>>

(* Mutant: a row the Pipeline model refuses is taken all the same. *)
ReadsAnything(w) == Adopts(w, Configured(row, conf[w]))

Reads(w) == Readable(row) /\ Adopts(w, Configured(row, conf[w]))

(* Nothing catches what the reload raises: the daemon thread is gone.       *)
ReadFails(w) ==
    /\ watch[w] = "awake" /\ CannotRead
    /\ watch' = [watch EXCEPT ![w] = "dead"]
    /\ UNCHANGED <<database, todo, event, read, conf, worker, unanswered>>

Applies(w) ==
    /\ watch[w] = "loading"
    /\ watch' = [watch EXCEPT ![w] = "between"]
    /\ conf' = [conf EXCEPT ![w].source = read[w]]
    /\ read' = [read EXCEPT ![w] = None]
    /\ UNCHANGED <<database, faults, todo, event, worker, unanswered>>

-----------------------------------------------------------------------------
(* The inference worker's frame loop.                                       *)

(* Another task runs only while the frame loop awaits something.            *)
Awaits == {"query", "assign", "close", "load", "fetch", "predict", "asleep"}

FrameLoop(from, to) ==
    /\ task = from
    /\ task' = to
    /\ UNCHANGED <<database, todo, watching, daemon>>

(* A frame was taken and no reload is asked for.                            *)
TakeFrame ==
    /\ FrameLoop("idle", "mode")
    /\ ~event
    /\ UNCHANGED <<faults, event, got, asked, models, unanswered>>

(* _handle_model_reload: one more reload as long as the event is set.       *)
StartReload(from) ==
    /\ FrameLoop(from, "query")
    /\ event
    /\ event' = FALSE
    /\ UNCHANGED <<faults, got, asked, models, unanswered>>

EndReload ==
    /\ FrameLoop("reloaded", "mode")
    /\ ~event
    /\ UNCHANGED <<faults, event, got, asked, models, unanswered>>

(* The database thread answers _get_active_model; what failed reads None.   *)
Query ==
    /\ FrameLoop("query", "assign")
    /\ unanswered' = FALSE
    /\ \/ Readable(row) /\ got' = [got EXCEPT !["loop"] = Answer(row)] /\ UNCHANGED faults
       \/ CannotRead /\ got' = [got EXCEPT !["loop"] = None]
    /\ UNCHANGED <<event, asked, models>>

(* What a task makes of the answer: the mode at once; the model only when   *)
(* the session is closed, which is another await and may fail as well.      *)
TakeMode(t) ==
    \/ got[t] = None /\ UNCHANGED <<got, passthrough, faults>>
    \/ /\ got[t] # None
       /\ passthrough' = got[t].bypass
       /\ \/ got' = [got EXCEPT ![t] = @.model] /\ UNCHANGED faults
          \/ got' = [got EXCEPT ![t] = None] /\ Faulty

Adopt(t) ==
    /\ loaded' = got[t]
    /\ got' = [got EXCEPT ![t] = None]
    /\ UNCHANGED passthrough

QueryEnds ==
    /\ FrameLoop("assign", "close")
    /\ TakeMode("loop")
    /\ UNCHANGED <<event, asked, loaded, cache, unanswered>>

(* No model: the reload raises, the frame is dropped and the loop sleeps.   *)
ReloadWithoutModel ==
    /\ FrameLoop("close", "asleep")
    /\ Adopt("loop") /\ loaded' = None
    /\ UNCHANGED <<faults, event, asked, cache, unanswered>>

(* Mutant: the event is cleared once the answer is there, not before it is  *)
(* asked for. *)
EvictThenClear ==
    /\ FrameLoop("close", "load")
    /\ Adopt("loop") /\ loaded' # None
    /\ cache' = [cache EXCEPT ![loaded'] = None]
    /\ asked' = loaded'
    /\ event' = FALSE
    /\ UNCHANGED <<faults, unanswered>>

(* Evict the model and load it again.                                       *)
Evict ==
    /\ FrameLoop("close", "load")
    /\ Adopt("loop") /\ loaded' # None
    /\ cache' = [cache EXCEPT ![loaded'] = None]
    /\ asked' = loaded'
    /\ UNCHANGED <<faults, event, unanswered>>

(* The inferencer is filed under the model that is active by now.           *)
Load ==
    /\ FrameLoop("load", "reloaded")
    /\ loaded # None
    /\ \/ cache' = [cache EXCEPT ![loaded] = asked] /\ UNCHANGED faults
       \/ Faulty /\ UNCHANGED cache
    /\ asked' = None
    /\ UNCHANGED <<event, got, passthrough, loaded, unanswered>>

(* There is none: the handler's own message raises.                         *)
LoadForNobody ==
    /\ FrameLoop("load", "asleep")
    /\ loaded = None
    /\ asked' = None
    /\ UNCHANGED <<faults, event, got, models, unanswered>>

Wake ==
    /\ FrameLoop("asleep", "idle")
    /\ UNCHANGED <<faults, event, got, asked, models, unanswered>>

(* Not running: the frame goes on as it is, and nothing is awaited.         *)
PassThrough ==
    /\ FrameLoop("mode", "idle")
    /\ passthrough
    /\ UNCHANGED <<faults, event, got, asked, models, unanswered>>

NoModel ==
    /\ FrameLoop("mode", "asleep")
    /\ ~passthrough /\ loaded = None
    /\ UNCHANGED <<faults, event, got, asked, models, unanswered>>

(* predict_image with the model of now, from the cache or loaded for it.    *)
Score ==
    /\ ~passthrough /\ loaded # None
    /\ \/ cache[loaded] # None /\ FrameLoop("mode", "predict")
       \/ cache[loaded] = None /\ FrameLoop("mode", "fetch")
    /\ asked' = loaded
    /\ UNCHANGED <<faults, event, got, models, unanswered>>

Fetch ==
    /\ FrameLoop("fetch", "predict")
    /\ cache' = [cache EXCEPT ![asked] = asked]
    /\ UNCHANGED <<faults, event, got, asked, passthrough, loaded, unanswered>>

FetchFails ==
    /\ FrameLoop("fetch", "idle")
    /\ Faulty
    /\ asked' = None
    /\ UNCHANGED <<event, got, models, unanswered>>

(* Mutant: the call is not over when its result is there. *)
PredictStays ==
    /\ FrameLoop("predict", "idle")
    /\ UNCHANGED <<faults, event, got, asked, models, unanswered>>

(* The result leaves with the name of the model that is active by now, or   *)
(* is dropped when there is none.                                           *)
Predict ==
    /\ FrameLoop("predict", "idle")
    /\ asked' = None
    /\ UNCHANGED <<faults, event, got, models, unanswered>>

-----------------------------------------------------------------------------
(* _model_refresh_daemon.                                                   *)

Refresh(from, to) ==
    /\ daemon = from
    /\ daemon' = to
    /\ UNCHANGED <<database, todo, event, watching, unanswered, task, asked, cache>>

RefreshWakes ==
    /\ Refresh("asleep", "query")
    /\ task \in Awaits
    /\ UNCHANGED <<faults, got, passthrough, loaded>>

RefreshQuery ==
    /\ Refresh("query", "assign")
    /\ \/ Readable(row) /\ got' = [got EXCEPT !["daemon"] = Answer(row)] /\ UNCHANGED faults
       \/ CannotRead /\ got' = [got EXCEPT !["daemon"] = None]
    /\ UNCHANGED <<passthrough, loaded>>

RefreshQueryEnds ==
    /\ Refresh("assign", "close")
    /\ task \in Awaits
    /\ TakeMode("daemon")
    /\ UNCHANGED loaded

(* Mutant: a refresh keeps the model there is. *)
RefreshAssignOnce ==
    /\ Refresh("close", "asleep")
    /\ task \in Awaits
    /\ IF loaded = None THEN Adopt("daemon")
       ELSE got' = [got EXCEPT !["daemon"] = None] /\ UNCHANGED <<passthrough, loaded>>
    /\ UNCHANGED faults

RefreshAssign ==
    /\ Refresh("close", "asleep")
    /\ task \in Awaits
    /\ Adopt("daemon")
    /\ UNCHANGED faults

-----------------------------------------------------------------------------
Request(r) == Patch(r) \/ SetStatus(r) \/ EditSettings(r)
Announce(r) == Notify(r) \/ Reload(r) \/ Signal(r)
Watch(w) == Waits(w) \/ TimesOut(w) \/ Reads(w) \/ ReadFails(w) \/ Applies(w)
Frame == TakeFrame \/ StartReload("idle")
Reloading == StartReload("reloaded") \/ EndReload \/ Query \/ QueryEnds \/ ReloadWithoutModel
             \/ Evict \/ Load \/ LoadForNobody
Scoring == PassThrough \/ NoModel \/ Score \/ Fetch \/ FetchFails \/ Predict \/ Wake
Refreshing == RefreshWakes \/ RefreshQuery \/ RefreshQueryEnds \/ RefreshAssign

Next ==
    \/ \E r \in Requests : Request(r) \/ Announce(r)
    \/ \E w \in Watchers : Watch(w)
    \/ Frame \/ Reloading \/ Scoring \/ Refreshing

Spec == Init /\ [][Next]_vars

(* Requests are carried through and threads run; asyncio serves its ready   *)
(* tasks in turn, so a waiting refresh runs whenever the loop awaits often  *)
(* enough.  Nothing makes requests or frames come.                          *)
Fairness ==
    /\ \A r \in Requests : WF_vars(Announce(r))
    /\ \A w \in Watchers : WF_vars(Waits(w) \/ Reads(w) \/ ReadFails(w) \/ Applies(w))
    /\ WF_vars(Reloading \/ Scoring)
    /\ SF_vars(Refreshing)

FairSpec == Spec /\ Fairness

-----------------------------------------------------------------------------
RequestTypeOK ==
    /\ row \in Rows /\ commits \in 0 .. MaxCommits /\ faults \in 0 .. MaxFaults
    /\ todo \in [Requests -> Seq({"notify", "reload", "signal"})]
    /\ event \in BOOLEAN /\ unanswered \in BOOLEAN

WatcherTypeOK ==
    /\ watch \in [Watchers -> {"waiting", "between", "awake", "loading", "dead"}]
    /\ read \in [Watchers -> Sources \cup {None}]
    /\ conf \in [Watchers -> Configurations]

WorkerTypeOK ==
    /\ task \in Awaits \cup {"idle", "mode", "reloaded"}
    /\ daemon \in {"asleep", "query", "assign", "close"}
    /\ got \in [{"loop", "daemon"} -> Answers \cup Models \cup {None}]
    /\ passthrough \in BOOLEAN
    /\ loaded \in Models \cup {None}
    /\ cache \in [Models -> Models \cup {None}]
    /\ asked \in Models \cup {None}

(* A model is asked for exactly while a call with it is under way, and an   *)
(* answer is held exactly until its task adopts it.                         *)
HoldsOnlyWhatItNeeds ==
    /\ asked # None <=> task \in {"load", "fetch", "predict"}
    /\ IF task = "assign" THEN got["loop"] \in Answers \cup {None}
       ELSE got["loop"] = None \/ (task = "close" /\ got["loop"] \in Models)
    /\ IF daemon = "assign" THEN got["daemon"] \in Answers \cup {None}
       ELSE got["daemon"] = None \/ (daemon = "close" /\ got["daemon"] \in Models)

(* The types, and what the worker holds between its awaits.                 *)
TypeOK == RequestTypeOK /\ WatcherTypeOK /\ WorkerTypeOK /\ HoldsOnlyWhatItNeeds

(* A reload that is asked for while another is under way is not lost: with  *)
(* the event clear, the worker has asked the database since the event was   *)
(* last set, or is about to (inference.py clears, then queries).            *)
ReloadIsNeverLost == unanswered => event \/ task = "query"

(* A process takes a pipeline for running without a source only between two *)
(* statements of a reload, with the source to store already in hand:        *)
(* whoever looks between them is at odds with the row for no longer.        *)
RunningHasSource ==
    \A w \in Watchers :
        conf[w].running /\ conf[w].source = None => watch[w] = "loading" /\ read[w] # None

(* While the worker goes on scoring, refreshes and reloads bring it to the  *)
(* pipeline's model for good, however they interleave and whatever they     *)
(* find out of date; without failures the inferencer is that model's too.   *)
Serves ==
    /\ row.status = "running" /\ loaded = row.model /\ loaded # None
    /\ faults = 0 => \A m \in Models : m = loaded => cache[m] \in {None, m}

StaleModelIsReplaced == []<>(task = "predict") => <>[]Serves

-----------------------------------------------------------------------------
(* "Pipeline cannot be in 'running' status when source, or model is not     *)
(* configured." (the validator of pydantic_models/pipeline.py)              *)
RunningIsConfigured == Readable(row)

(* With nothing left to announce, a watcher that waits holds the pipeline's *)
(* source ("monitor configuration changes", active_pipeline_service.py).    *)
WaitingIsCurrent ==
    \A w \in Watchers :
        /\ watch[w] = "waiting" /\ faults = 0 /\ Readable(row)
        /\ \A r \in Requests : todo[r] = <<>>
        => conf[w] = Configured(row, conf[w])
=============================================================================
