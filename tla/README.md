# Specifications of the ZS32 inspection software

TLA+ models of the parts of this repository whose correctness depends on order,
failure and concurrency: how artefacts are published, how a part is captured,
how an inspection reaches and publishes its decision, how a change of the live
pipeline's configuration reaches its workers, how frames flow through that
pipeline and how it stops, and how training jobs are run, cancelled and
recovered. TLC checks them on small instances; TLAPS proves every safety property
the passing runs check, and the three refinements, for every value of the constants.
Line numbers are those of the sources the models were written from;
`PROJECT.json` maps every definition to its lines.

## 1. The system

The repository holds three programs:

* **ZS32** (`src/zs32_inspection`): the production line software. `zs32-capture`
  acquires the images of one part, `zs32-inspect` decides about it, further
  commands build datasets, calibrations, gate policies and releases. Processes
  share nothing but the file system, and every artefact is an *atomic
  publication*: a directory that appears under its id once, complete, and is
  never changed.
* **Studio** (`application/backend`): a server that runs a live pipeline (camera
  source -> inference -> sink) in worker processes, trains models, and is
  configured through a REST API and a database.
* **anomalib** and scripts (`src/` packages, `pipeline`): the training library
  and one-off research programs.

### Inventory

| Component | State it keeps | Operations | Hard behaviour | What makes it correct |
|---|---|---|---|---|
| Atomic publication (`runtime/publisher.py`) | lock file, staging directory, destination, two metadata files | enter, write, copy, finalize, abort, verify | competing processes, crash and power loss between rename and flush, a file that changes while it is staged, programs that take no lock | whole or invisible; once per id; success is durable; failure is invisible; the lock comes free |
| Capture service (`capture/service.py`, `storage.py`, `round_coordinator.py`, `cli/capture.py`) | frames, confirmations, two stores | confirm a round, acquire it, validate it, judge by gates, publish, quarantine | a failure or an interrupt at any step, ids that are used again, a publication that fails after the work is done | no trigger without the exact token; a complete set is confirmed, whole and passed; evidence of a failure is kept; the answer agrees with the stores |
| Camera session (`capture/hikvision.py`) | exclusive handles, exposure settings, unread images in the cameras | open, set exposure, trigger all, read all, HDR passes and attempts, close | one camera of a group fails; late images; cleanup that fails | every frame is made of images of its own round, camera, pass and attempt |
| Capture reader and gates (`reader.py`, `manifests.py`, `gate_policy.py`, OpenCV gates) | none | load and validate a set, judge images | - | a loaded capture is whole and all its gates passed |
| Inspection orchestration (`runtime/orchestrator.py`, `cropper.py`, `preflight.py`, `cli/inspect.py`) | crops, scores, branch results, decision | preflight, entry checks, crop, template stage, two concurrent branches, merge | two threads that end in either order, one failing; files that change under the readers; interrupts | only earned releases; a STRONG row is never dropped; one interrupt leaves no thread behind; it ends |
| Fusion and decisions (`fusion/`, `domain/decisions.py`, `runtime/audit.py`) | none | fuse templates, fuse models, build a decision | which reasons and combinations are legal | strict priority STRONG > GRAY > CLEAR; OK only for a complete set |
| Evidence sink (`runtime/inspection_sink.py`) | staging directory | derive the decision again, copy, validate, publish | a second derivation that disagrees; evidence that changes between check and copy | what is published is what was scored; a decision is refused only for a reason |
| Predictors (`models/`, `template/`) | loaded weights, temporary heatmaps | verify crops, predict, release resources | verify-then-read; resources that are deleted early | rows are of the crops that were hashed |
| Calibration (`calibration/`) | none | quantile thresholds, scores to levels | boundaries, ties | monotone thresholds |
| Dataset and splitter (`data/`) | none | build, split by part | groups that must not be torn apart | no part in two splits |
| Releases (`release_assembler.py`, `release_loader.py`, `promotion_receipt.py`), configuration compiler | none beyond publications | assemble, load, verify, promote | stale digests | a loaded release is the one that was approved |
| Studio inference worker (`workers/inference.py`, `model_service.py`) | active model, mode, cached inferencers, reload event | take a frame, reload, refresh, load, predict | two tasks that change the same model across awaits; a reload asked for during a reload; failing queries and loads | no reload is lost; the active model is finally used |
| Studio stream loader, dispatcher, scheduler (`workers/stream_loading.py`, `dispatching.py`, `workers/base.py`, `core/scheduler.py`) | two bounded queues, video stream, stop event | open, read, enqueue, discard, dispatch, join | queues at their limit, a source that does not open, a shutdown or the death of a process while a queue is full | no frame of a file is lost; the wanted source is opened; every worker ends |
| Studio configuration (`active_pipeline_service.py`, `configuration_service.py`, `pipeline_service.py`, `repositories/base.py`) | the pipeline's row, each process's source and status, condition variable | update, set status, edit settings, announce, watch, reload | lost wake-ups; a watcher that dies; validation of the wrong values; check then act | the last committed configuration is finally active; a running pipeline is configured; one active pipeline |
| Studio jobs (`workers/training.py`, `training_service.py`, `job_service.py`, `model_service.py`) | job and model rows, model folders, a cancellation event | submit, cancel, delete, train, synchronize, abort orphans | whole-row writes of rows read earlier by four actors; a cancelled task; a crash with a running job | running only while trained; a listed model has its files; completed stays; every job ends |
| REST API, repositories | database | requests | - | - |
| anomalib, scripts | - | - | - | - |

### How the parts interact

`zs32-capture` drives the camera session through `CaptureSource.capture_round`
and hands the frames to `AtomicCaptureStore`, which uses one publication for the
complete store and one for `_incomplete`. `zs32-inspect` loads such a
publication and a release publication, runs the orchestrator, whose worker
threads call the predictors, and gives the run to the sink, which publishes it.
The only shared state between processes is the output roots; the only threads
are the two branch workers. Studio is separate: its processes share
`multiprocessing` queues, events and a condition, and the database; the training
worker and the API meet only in the rows of jobs and models. `FramePipeline` takes
from `PipelineConfiguration` that the wanted source may change at any time and
that inference may have any mode, or no model, at any frame.

## 2. Modules

| Module | Models | Abstract specification it implements |
|---|---|---|
| `PublishOnce` | the promise of a publication to competing callers | - |
| `AtomicPublication` | `AtomicDirectoryPublisher` in full | `PublishOnce` |
| `StrictVerdict` | the promise of an inspection: evidence is learned, then one verdict | - |
| `Inspection` | one inspection from preflight to publication | `StrictVerdict`; it uses `PublishOnce` as its publisher |
| `Capture` | capture processes, their cameras and stores | - |
| `PipelineConfiguration` | requests, watchers and the inference worker of a Studio pipeline | - |
| `LossyQueue` | the promise of the live pipeline to a viewer: in order, at most once | - |
| `FramePipeline` | stream loader, inference, dispatcher and scheduler over two bounded queues | `LossyQueue` |
| `TrainingJobs` | job and model requests, and the training worker | - |
| `MC...` | values of constants that a `.cfg` cannot write | |
| `AtomicPublicationProofs`, `InspectionProofs`, `InspectionRefinement`, `CaptureProofs`, `CaptureProgress`, `PipelineConfigurationProofs`, `FramePipelineProofs`, `TrainingJobsProofs` | theorems | |

### AtomicPublication

A member of `Attempts` is one `with AtomicDirectoryPublisher(root, id)` block,
all with one id: two ids share neither lock nor path. `pc[a]` walks the block
statement by statement: `AcquireLock`/`LockHeld` (`flock` with `LOCK_NB`),
`OpenStaging` (destination check), `WriteBytes`, the three steps of `copy_file`
(`HashSource`, `CopyBytes`, `HashCopy`), then `finalize`: `WriteIndex`,
`Validate`, `Seal`, `Flush`, `Rename`, and after it `ReleaseLock`,
`FlushParent` or `FlushParentFails`. `Fail` is any other exception, `Abort` the
cleanup. `file[a]`, `index[a]`, `intact[a]` are the tree an attempt builds, which
becomes the destination when `dest = a`. The environment changes a source, a
staged file or a metadata file (until the tree is sealed), makes the destination
without the lock, kills a process, and takes the power away, which undoes an
unflushed rename or not.

### Inspection

`pc` is the coordinator (`cli/inspect.py`, the orchestrator, then the sink),
`branch[b]` the two worker threads. Every exception may carry an empty text, one
word, or a text with spaces, because `InspectionDecision` refuses reasons with
white space and the sink refuses empty errors. Every file an inspection reads or
makes is `absent`, `good` or `bad`; `Damage` may spoil one at any time, and
`misread` records that a predictor read a crop after it went bad. A score row is
the level calibration gives it or `irregular` (duplicate, or of another crop,
model or capture). The sink's second derivation is `Validate`, which evaluates
`DecisionStands` or `SystemErrorStands` on the retained evidence, `CopyEvidence`
and `ValidateStaging`. `Interrupt` is Control-C at any moment, any number of times
(`interrupts`). While the branches run, the exit of the thread pool joins its
threads (`unwinding`); that join is itself interruptible, so a second Control-C
leaves them running. Between the rename and the answer nothing is undone: the
inspection is published and nobody is told. When `inspect` has returned or raised,
`RemoveCrops` is the end of the `TemporaryDirectory` of `cli/inspect.py:124`,
whoever still reads in it. `NoReaderLeftBehind` therefore speaks of inspections
interrupted at most once; what happens after a second interrupt is modelled, and
bounded by the theorem `Unwitnessed`.

The orchestrator's RETAKE branch and `gate_runtime_error` are not modelled: no
request can reach them, as `CaptureBundle.validate` (`manifests.py:286`) refuses a
capture with a failed gate. `request` ranges over what callers of
`InspectionOrchestrator.inspect` can pass; the command itself builds only
requests that fit the release it loaded.

### Capture

A member of `Runs` is one `zs32-capture` process; they share the cameras and,
when an id is given twice, its two places. `at[r]` is the round, HDR attempt,
exposure pass and grouped trigger (settle frames come first). A trigger appends
an image to the `queue` of each camera; a read takes the oldest image or times
out, which `RoundFails` covers with every other error of the round. An image is
named by the run, round, attempt, shot and exposure setting it was made under,
and a frame is the list of the images it was made from, so a stale or mixed
image cannot hide. `Kept` is what a failing `capture_round` hands to the
service: the frames encoded so far, and without HDR those of a partly read group;
a partly read HDR group is dropped. `Close` may leave cameras open whose cleanup
fails, until the process exits. Opening is one step: all runs open the cameras
in binding order, so they meet at the first one.

### PipelineConfiguration

`row` is the committed pipeline (status, source, model); a source stands for its
id and its settings, the sink, device and overlay only for whether they changed.
A request (`Patch`, `SetStatus`, `EditSettings`) reads and commits in one step and
leaves in `todo[r]` what it still has to announce, in the order of
`update_pipeline`: `Notify` (`notify_all`, which moves only watchers that are
`waiting`), `Reload` (the API's own service, whose failure ends the request) and
`Signal` (the reload event). `repo.update` commits before it returns, so nothing
is announced before it is in the database; the session keeps no object of its
identity map alive over the update, so the row that is read back is the committed
one.

A watcher (`watch[w]`) is the thread of `_reload_config_daemon_routine`:
`waiting` in `wait(timeout=3)`, `awake` when notified, `loading` between the store
of the pipeline and the store of its source, `between` two waits, `dead` after an
exception. A source that is detached from an active pipeline leaves the old one.

The worker's event loop runs two tasks. `task` is the frame loop: `mode` is the
point after the reload check, `query`, `assign`, `close`, `load`, `fetch`, `predict`
and `asleep` are its awaits (`Awaits`), and the refresh daemon (`daemon`) takes a
step of its own only there; an answer of the database, which a thread computes, may
come at any time. `_get_active_model` sets the mode (`TakeMode`,
`inference.py:73`) inside the database session and its caller the model (`Adopt`,
`:98`, `:122`) after the session was closed, which is another await: in between the
other task sees the new mode with the old model, and when closing fails there is a
mode and no model. `asked` is the model of the call under way and `loaded` that of
`_loaded_model`, which the other task may change in between; `cache` says from
which model the inferencer filed under each model was made. An inferencer for
another device than the one asked for counts as none. Frames come from nowhere:
`TakeFrame` and `StartReload` find one at any time or never. The database or the
loading may fail `MaxFaults` times; a row that the `Pipeline` validator refuses
cannot be read at all. The query at start-up is taken to succeed.

### FramePipeline

A frame is its number in the order of reading, and `read` says from which source
each came. `loader` is the point of `StreamLoader.run_loop`: `loop` before
`_reset_stream_if_needed` (`ResetStream`, `KeepStream`), `get` at `get_data`
(`GetFrame`, `GetNothing`), `put` in `_enqueue_frame_with_retry` (`PutFrame`,
`PutTimesOut`, `PutStops`), `discard` between the timeout and the second `put`
of a camera. `stream` is the source `_video_stream` was made for, `open` whether
it was released since, `served` is `_prev_source_config`, so a stream that was
released before its successor failed to open is a state of its own. A file's full
queue is not an action: the loader tries again. `inference` and `dispatcher` are
the two consumers; `TakeFrame`, `SkipFrame`, `PutResult` (a result that times out is
dropped), `Dispatch` (a sink that cannot be made ends the thread). `shown` is
history: the frame that reached the viewers last. `ImplementsQueue` maps the
frames in both queues and in the hands of the loader and of inference to the
messages in flight of `LossyQueue`.

`ShouldStop` is the stop event or the death of the parent. A process that ends does
not wait for the thread that flushes its queue (`QueuesToCancel`,
`cancel_join_thread`); if items are in flight, a reader that waits may be left with
half of one (`Torn`, an external definition that says what `multiprocessing.Queue`
does then). `Shutdown`, `JoinThread`, `JoinLoader`, `JoinInference` and
`ServerExits` are `Scheduler.shutdown` in its order, each join with its timeout,
termination and kill; `ServerDies` and `InferenceDies` are kills from outside.

### TrainingJobs

A row stands for its status; `"absent"` is no row. `repo.update` reads the row
in one session and writes the whole row back in another, and inserts it when it
has been deleted in between: hence `Read` (into `held[actor]`) and `Write` are two
steps for each of the actors, the requests, the main task, the synchronization
and `abort_orphan_jobs`. `op[c]` is what a request is doing: `saving` between the
duplicate check and the insert, `canceling` and `deleting` between read and
write, and the three steps of `delete_model`. `task` walks
`_run_training_job` from `claim` (the update to RUNNING) over `prepare`, `train`,
the three ends (`withdraw`, `fail`, `create`) to the finally clause (`settle`,
`check`, `complete`); `sync` is `_sync_progress_with_db`; `fit` the thread of
`asyncio.to_thread`, which goes on when its task is cancelled. A failed access may
have been committed or not (`WriteFails`). `Stop` cancels the task at whatever
await it is (`Cancelled` says where `CancelledError` leaves it). `Erase`, the removal
of a cancelled job's files, may fail halfway; the except clause then marks the
canceled job as failed and the files stay. `Close` ends
`gather` and the executor, `Crash` is a kill, `Start` a restart that begins with
the orphans. Three variables are history: `trained` (a model was saved once),
`unrecorded` (the update that should have ended a job failed) and `condemned`
(somebody asked to delete the model).

## 3. What the runs check

| Run | Instance | Shows |
|---|---|---|
| `publication_promise` | 3 attempts, 2 files, 1 change of content, 1 power loss, fair | `OneWriter`, `LockHasLiveOwner`, `VisibleIsWhole`, `SuccessIsDurable`, `FailureIsInvisible`, `ImplementsPromise`, `SealedForGood`, `AttemptsEnd`, `LockIsFreed` |
| `inspection_promise` | 2 views, 1 damaged file, fair | `ReleaseIsEarned`, `StrongIsNeverDropped`, `PublishedIsWhatWasScored`, `NoReaderLeftBehind`, `NoOutcomeForACause`, `ImplementsVerdict`, `InspectionEnds` |
| `inspection_strong`, `inspection_invalid` | violated | see Findings |
| `capture_safety` | 2 processes, 1 id, 2 cameras, 2 rounds, 1 settle frame, 1 HDR retry, both acquisition modes, fair | `FramesAreTheirs`, `TriggeredAfterToken`, `CompleteIsEarned`, `AnswersAreTrue`, `EvidenceIsKept`, `PlacesAreFinal`, `RunsEnd` |
| `capture_retake` | violated | `RetakeIsQuarantined` |
| `configuration_safety` | 1 request at a time, 1 watcher, 1 source, 2 models, 2 commits, 1 failure, fair | `ReloadIsNeverLost`, `RunningHasSource`, `StaleModelIsReplaced` |
| `configuration_settled`, `configuration_configured` | violated | `WaitingIsCurrent`, `RunningIsConfigured` |
| `frames_safety` | an IP camera and a file, frame queue of 2, prediction queue of 1, 3 frames, 2 switches, 1 fault, fair | `FileFramesArrive`, `ImplementsQueue`, `SourceIsServed`, `WorkersEnd` |
| `training_safety` | 2 jobs, 1 request at a time, 1 restart, 1 failed access, fair | `RunningIsWorked`, `ModelIsExported`, `CompletedIsFinal`, `JobsEnd` |
| `training_completed` | violated | `CompletedHasModel` |

Every passing run also checks its module's `TypeOK`. Every property is checked
against a mutant of the code (`PROJECT.json`, "mutants"; the `(* Mutant: ... *)`
operators): a plausible bug that TLC must find.

**Bounds.** Publication: a third attempt can meet what the first two left behind
in every way (one crashed or failed, one visible or not); files are only told
apart by how they are written and whether the caller's validator reads their
content, which two files cover; one change of content and one power loss
suffice to break a publisher that checks nothing, and the proofs drop all these
bounds. Inspection: two views are the least that can disagree, which is what
completeness and fusion are about; the proofs hold for any set of views. One
damaged file at any of the moments is enough to tell apart check, read and copy.
Capture: two cameras make partial groups, two rounds make the turn of the part,
one settle frame and one retry exercise each loop both ways, and two processes
with the same id meet in both stores. Configuration: the second commit is the one
that falls into the reload, the query or the announcements of the first; two
models are the least that can be confused in the cache; one source and none are
enough for what a watcher stores; the proofs drop all these bounds. Frames: an IP
camera and a file differ in every way the loader looks at (real-time or not,
reconnected or not when read after a release); a queue of two has an oldest frame
that is not the newest; three frames fill it with one in hand; two switches are
what a source needs to be left and wanted again; one fault is enough, as each of
them ends or releases what it meets. Jobs: the second job is the one that waits,
is deleted or is trained while the first one's rows are still being written; one
request at a time falls between any two accesses of the worker; two starts are a
crash and its recovery. The sizes are 707,580 and 1,167,202 distinct states, that of the configuration is 2,688,098; with
a second concurrent request, or two faults, a run does not end within minutes, and
it is the proofs that cover these.

**Deadlock** checking is off because publications, inspections, captures, workers
and jobs end; it is on for `PipelineConfiguration`, which never stops in the model.

**Fairness.** `AtomicPublication`: every started attempt keeps taking steps (the
code is straight-line, the lock is not waited for); `Fail`, `Crash` and
the environment are never forced. `Inspection`: the coordinator and each
branch (one executor thread per branch) keep running; a predictor returns or
raises. The code has no timeout around `futures[branch].result()`, so
`InspectionEnds` rests on that assumption: it catches a merge or an exit of the
pool that waits for something that does not come, and not a predictor that hangs. `Capture`: a process that has not
ended takes steps; the operator's answer and every camera read have timeouts,
so no fairness of the operator or of the cameras is assumed. An interrupt is
never forced. `PipelineConfiguration`: requests finish what they announce, and
threads and tasks run; the refresh daemon is strongly fair where it needs the
event loop, because asyncio runs its ready tasks in turn whenever the frame loop
awaits. No request and no frame is forced, so `StaleModelIsReplaced` speaks of
behaviours in which the worker goes on scoring: while frames only pass through,
or none comes, the frame loop never yields and the daemon does not run.
`FramePipeline`: the loader, inference and the dispatcher go on, as `get`, `put`
and `wait` have timeouts, and so does every join of the scheduler; a source
need not change, no process has to die and a shutdown need not come. `SourceIsServed`
and `WorkersEnd` name what they leave out: a file that waits on a dead inference
process (`StuckAtFile`), a released stream that is wanted again (`LeftReleased`),
and a torn queue, because the code gives no way out of these. `TrainingJobs`: the
main task, its thread, and setup and teardown go on while the process lives; the
synchronization and the requests are not fair, as nothing waits for them, and no
start, stop or crash is forced.

## 4. What is proved

TLAPS checks all of this from nothing. `[]TypeOK` is proved of every module, and so
is every invariant and every action property that a passing run checks.

`AtomicPublicationProofs` (any sets of attempts and files, any number of changes,
crashes and power losses): `Typing`, `MutualExclusion`, `LiveOwner`, `Wholeness`,
`Durability`, `CleanFailure`, `NoReplacement`, `Immutability`, `Refinement` (it
implements `PublishOnce`) and `Advance`. The visible properties are not inductive: `VisibleIsWhole`, for
example, needs to know at each phase before the rename what has already been
established about the staging tree. The inductive invariant therefore says, per
phase, which files are written, what the index records and when the tree can no
longer change, ties the lock to the phase of its holder, and says that `dest`
names an attempt that got past the rename. `Invariance` shows that each action
keeps it, one step per action. `Advance` orders the states of an attempt by its
phase, then by the files it has not begun to write (`Left`, a set that shrinks),
then by where it is with the file it copies: every step of its own is forward,
others leave it where it is, and only a change of staged content, of which there
are `MaxTampers`, can give it more to write.

`InspectionProofs` (any set of views, either strong priority, any number of
damaged files, any number of interrupts): `Typing`, `Releases`, `StrongEvidence`,
`Provenance`, `Joined`, `Unwitnessed`, `Agreement`. The inductive invariant `IInv` adds to the type invariant: in
which phases which results and threads can exist (`Phases`), which evidence each
phase rests on (`Evidence`, `Earned`), that a calibrated STRONG row is in the
decision (`Kept`), which copies are staged (`Present`), that a file found intact
and later bad has been counted as damaged (`Fresh`), and that the sink's second
derivation agrees (`Sound`). The last is what makes `NoOutcomeForACause`
provable: the two derivations are written differently and equal only on
evidence the orchestrator can produce. `Joined` is `NoReaderLeftBehind`: no thread
outlives an inspection that was interrupted at most once. `Unwitnessed` takes up the
case it leaves out. `Abandoned` names it in the invariant: threads can run past the
end only of an inspection that raised at its second interrupt, and that one has
decided nothing, so it can publish nothing; the crops that are removed under its
threads spoil what no verdict rests on. Two invariants on top of it say how far
the findings reach: `OnlyWhitespaceLoses` (STRONG evidence is lost only if the
text of an error has white space in it; `Reached` says which failures lead where)
and `OnlyDisallowedIsReported` (with evidence, an INVALID_CAPTURE is never about
an image that changed). `FiniteInspection` assigns every state a number,
`StepsLeft`: what is left of each branch (`Owed`), of the coordinator
(`StageOf`), of the damage and of the crops that are still to be removed (`Litter`),
weighted so that whatever a step adds elsewhere it takes away more; every step lowers
it, from `24 + MaxDamages`.

`InspectionRefinement` proves `Refinement`: every inspection implements
`StrictVerdict`. The state of the abstract specification is named `Found` (the
first layer), `Findings` (each branch) and `Told` (the verdict). `AdmittedIs`
writes the admitted verdicts as a function of the first two, `AdmittedMerged`
shows that what the merge decides is among them, and `Deserved` (a decision, once
taken, is admitted by the evidence) is invariant on top of `IInv`; each step is
then one of the abstract specification (`FaultLearnt`, `TemplatesLearnt`,
`BranchLearnt`, also of an inspection that was given up and whose verdict is lost,
`VerdictPublished`) or a stutter or a loss (`Unnoticed`). It needs
that there is a view, which the topology demands: without one, nothing would have
to be learnt from the templates.

`CaptureProofs` (any sets of processes and ids, any number of cameras, rounds,
settle frames and retries): `CaptureTypeOK`, `PlacesStayTaken`,
`CompleteSetsAreEarned`, `AnswersAgreeWithStores`, `EvidenceStays`,
`FramesComeFromTheirRound`, `TriggersFollowTokens`. The invariant has three layers,
each resting on the one below. `Staged`: types, and what the place of a process
says about its counters and confirmations. `Accounted`: what each place says of
the stores, the frames of every finished round, the verdict and the answer; the
answer at the end follows only from what the failing steps before it recorded.
`Provenance`: which process holds the cameras (all or none, `Alone`), that the
images in each camera's queue are of that process and of its current trigger,
that the images it gathered are of the pass they are filed under, and that a
camera nobody holds has an empty queue. That no stale image is ever read rests on
the last two, and no weaker statement is inductive: a failed read leaves an image
behind, and only the closing of the session removes it. `OnlyReusedIdsLoseRetakes`
adds that a RETAKE that is not retained had its id displaced by another run
(`Displaced`), so that with ids used once (`UniqueIds`) it always is.

`CaptureProgress` proves `RunsOnlyAdvance`: the state of a capture is put into a
lexicographic order of era (before, during and after the rounds), round, HDR
attempt, pass, shot, phase and images that wait in its cameras, and every step
moves exactly one capture forward in it (`StepAdvances`) and the others nowhere
(`OthersStay`). Each component is bounded by the invariant of `CaptureProofs`.

`TrainingJobsProofs` (any sets of jobs and requests, any payloads, restarts and
failures): `Typing`, `RunningJobsAreWorked`, `ListedModelsAreExported` and
`CompletedJobsStay`. None of the three is inductive. `Asked` says what a request
may be about to write; `Listed` that trained jobs have rows that are not pending;
`Employed` ties the main task, the synchronization, the thread and the rows they
hold to one job that is not completed, and says in which steps the
synchronization may still write (never after `settle`, which is why a completed
row is not overwritten); `Orphaned` that `abort_orphan_jobs` has every running row
and no completed one. Since rows are written whole, the invariant must speak of
every value an actor has read and not yet written back. `OnlyThreeWaysWithoutModel`
turns finding 6 around: of the behaviours without a `CutShort`, an `Overwritten`
and an `Unfailed` step, none completes a job that has no model. `Earned` is the
invariant: when the finally clause is reached, the job has its model or its row
does not say running. TLC finds a counterexample when any one of the three is
allowed, and none when none is.

`FramePipelineProofs` (any sources of any kinds, any sizes of the queues, any
number of frames, switches and faults): `Typing`, by which no queue exceeds its
size, `FileFramesAreNotLost`, `Refinement` (the pipeline implements `LossyQueue`)
and `ShownInOrder`. The invariant adds `InHand`: the frame about to be put is the
last one read, from the stream that is in place, and only a camera discards. The
refinement rests on `Ordered`: both queues are sorted, each stage holds only frames
read before those of the stages behind it, and all of them were read after what
was shown. Each step is then `Send`, `Lose` or `Deliver`, or moves a frame from
one stage to the next, which a viewer cannot tell from nothing.

`PipelineConfigurationProofs` (any sets of requests, watchers, sources and models,
any number of commits and failures): `TypeCorrect`, `ReloadNeverLost` and
`RunningSourced`. `ReloadIsNeverLost` is inductive with the types: the event is
cleared only on the way to a query. `RunningHasSource` includes the torn state between
the store of the pipeline and the store of its source: running without a source is
seen there only, and only with the source to store in hand. It needs `ReadHasSource`:
a source that is about to be stored is there whenever the status stored before it
says running, also over an older source. That rests on the row being readable, so it holds although rows
that are not readable are committed (finding 5). `BrokenForGood` says that such a
row comes only from the detachment of a running pipeline's source or model and
that no request repairs it. `OnlyUnheardIsMissed` says that finding 4 has one
cause: in the behaviours in which every announcement finds each watcher waiting
(`HeardByAll`), `WaitingIsCurrent` holds. Its invariant `Informed` follows a commit
from the row over the announcement to the watcher that has not reloaded yet.

Assumptions are those named in the modules (`ConstantsAssumption`): the special
values are distinct, the bounds are natural numbers, `Required`, `Checked` and
`Copied` are files, the inspection has a view.

**Only model-checked:** liveness under fairness (`AttemptsEnd`, `LockIsFreed`,
`InspectionEnds`, `RunsEnd`, `StaleModelIsReplaced`, `SourceIsServed`,
`WorkersEnd`, `JobsEnd`), which is out of the prover's reach. Of three of them the
part that needs no fairness is proved: `Advance`, `FiniteInspection` and
`RunsOnlyAdvance` say that steps run out; that a step is always possible, and is
taken, needs `ENABLED` and stays with TLC. Of `StaleModelIsReplaced`, `SourceIsServed`
and `JobsEnd` there is no such part: a reload, a failed opening and a progress write
may be repeated without end, and only fairness decides that they are not.

## 5. Findings

1. `StrongIsReported` (a bug): a branch that fails with an ordinary sentence as
   its error text makes the SYSTEM_ERROR decision itself unbuildable, because a
   reason must not contain white space; the STRONG evidence of the other branch
   and the SYSTEM_ERROR are both lost. A test of the repository expects
   `yolo_runtime_error:yolo unavailable` to be published.
2. `InvalidCaptureIsReported`: an image that changes after the request was built
   is decided INVALID_CAPTURE, and then the sink's reload of the capture
   refuses the same image, so the INVALID_CAPTURE is never published.
3. `RetakeIsQuarantined`: a second RETAKE under the same `capture_set_id` is not
   retained and is answered as SYSTEM_ERROR.
4. `WaitingIsCurrent`: a change that is announced between two waits of a watcher,
   above all while it reloads for an earlier one, wakes nobody; a stream loader or dispatcher then keeps the old
   source or status until something else changes.
5. `RunningIsConfigured` (a bug): a partial update is validated with the objects of
   before, so detaching the source or the model of a running pipeline is
   committed; afterwards nothing can read the row, and the pipeline cannot even
   be stopped.
6. `CompletedHasModel` (a bug): a shutdown cancels the training task;
   `CancelledError` passes the except clause, and the finally clause finds the job
   running and completes it, with the message "Training completed successfully"
   and without a model. `abort_orphan_jobs` then finds nothing to fail. Two other
   ways lead there, and by `OnlyThreeWaysWithoutModel` no fourth: a progress write of
   the synchronization restores the running it had read over the FAILED or
   CANCELED of the main task, because only the last update waits for the
   synchronization to end (`training_service.py:158`), and the update to FAILED in
   the except clause fails itself.

Met on the way, not stated as a property of a run:

* Publication: `publication_root.json` is not read again after it is written
  (`publisher.py:572-587`; the class promises to recheck the complete file set,
  `:427-430`), so a change before the seal is published and fails the verifier.
* Inspection: a fault of the template stage without a text gives
  `system_errors=('',)`, which the sink refuses (`inspection_sink.py:712`). A second
  Control-C while the pool joins its threads (`orchestrator.py:784`) leaves them
  running while their crops are deleted (`cli/inspect.py:124`); and one between the
  rename and the answer leaves a published inspection that the command reports as
  interrupted.
* Pipeline: the result of a prediction carries the name of the model that is
  active when it arrives (`inference.py:241`), not of the one that made it; two
  requests may each find no active pipeline and activate theirs
  (`pipeline_service.py:96`), and the later of two updates that read together wins
  as a whole (`:59`).
* Frames: a loader whose parent died while it retries to put a frame of a file is
  left running (`stream_loading.py:110` looks at the event only, although
  `base.py:42` says that workers stop when their parent dies); a released stream
  is used again when its source is wanted again after another one failed to open
  (`stream_loading.py:50`); an IP camera's reconnection ends at the first failed
  open; a sink that cannot be made ends the dispatching thread
  (`dispatching.py:113`); `scheduler.py:138` says that consumers are ended before
  producers, but the order it takes joins the loader, a producer, first; a camera
  that the source is switched to may discard the last frames of a file.
* Jobs: a cancelled job whose files cannot be removed is marked as failed
  (`training_service.py:302`, `:135-141`); a cancellation that falls between
  `get_pending_train_job` and the update to RUNNING is overwritten; a deleted job comes back when an actor that had read it
  writes it; two submissions of one payload pass the duplicate check together;
  the folder of a failed training stays, because `delete_model` does not find the
  model (`training_service.py:144`); `delete_model` removes the files first and
  the snapshot never.

## 6. What is not modelled, and the plan

### Not modelled

The repository is mostly `anomalib` and research scripts: numerical code, file
conversion, training loops and plots, of which a state machine says nothing. The
definitions cover a small share of its lines and nearly all of the code in which
several actors, or a failure between two steps, decide what happens. Left out in
particular:

* pixels, scores and calibration arithmetic; the layout of JSON and CSV records;
  timestamps and trigger pacing;
* the readers' sequential validation (`capture/reader.py`, `release_loader.py`),
  whose result the inspection assumes, and release assembly, promotion and dataset
  building, which are sequential checks of digests around one atomic publication;
* the quantiles of `calibration/` and the grouping of `data/splitter.py`: pure
  algorithms without states or steps;
* the REST layer, the MJPEG and WebRTC outputs, the protocols of the sinks, and
  anomalib and the scripts.

Of modelled parts: one project and one pipeline (a request reads and commits in one
step, so two requests that overwrite each other are outside of
`PipelineConfiguration`, although `TrainingJobs` models exactly this for jobs);
snapshots, progress and log streams of jobs; a watcher of an images folder. An
interrupt while the operator turns the part leaves no record of the frames taken so
far (`service.py:227` catches `Exception` only): `Interrupt` models it, no property
judges it.

Some hazards are only partly covered, and `PROJECT.json` says so at each: a predictor
that never returns and a second interrupt (above); the death of the parent while a
loader waits with a frame of a file, which `SourceIsServed` and `WorkersEnd` leave
out; two submissions of one payload that pass the duplicate check together, which
the instance of `TrainingJobs` has no room for; a job whose last update failed, which
may say running until the next start or orderly stop (`unrecorded`); and
`is_running`, which reads `_pipeline` twice.

### What would come next

1. **`PipelineConfiguration`** with two projects and requests that read before they
   write, as in `TrainingJobs`: at most one active pipeline, and no update lost.
2. **Calibration and splitter** as operators against reference definitions.
3. An abstract specification of a job (asked for, running, one end) that
   `TrainingJobs` implements where no access fails.
