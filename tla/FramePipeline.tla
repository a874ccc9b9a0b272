---------------------------- MODULE FramePipeline ----------------------------
(***************************************************************************)
(* The live pipeline of the Studio as a flow of frames: the stream loader  *)
(* (workers/stream_loading.py) reads the configured source into a bounded  *)
(* queue, the inference worker (workers/inference.py) moves each frame to  *)
(* a second one, the dispatcher (workers/dispatching.py), a thread of the  *)
(* server, empties that; the scheduler (core/scheduler.py) stops them.     *)
(*                                                                         *)
(* A frame is its number in the order of reading; `read` says which source *)
(* it came from.  Images, the MJPEG and WebRTC outputs and the sinks'      *)
(* protocols are left out; how configurations and models become known to   *)
(* the workers is PipelineConfiguration, so here the source that is wanted *)
(* changes at any time and inference has any mode at any frame.            *)
(***************************************************************************)
EXTENDS Naturals, Sequences, Functions

CONSTANTS
    Sources,     \* source configurations
    KindOf,      \* "usb", "ip", "video" or "folder", for each source
    NoSource,    \* disconnected
    FrameQueueSize,
    PredictionQueueSize,
    MaxFrames,   \* bound: frames read
    MaxSwitches, \* bound: changes of the wanted source
    MaxFaults    \* bound: failures to start, to open, of a sink, of the inference process

ASSUME ConstantsAssumption ==
    /\ KindOf \in [Sources -> {"usb", "ip", "video", "folder"}]
    /\ NoSource \notin Sources
    /\ FrameQueueSize \in Nat \ {0} /\ PredictionQueueSize \in Nat \ {0}
    /\ MaxFrames \in Nat /\ MaxSwitches \in Nat /\ MaxFaults \in Nat

VARIABLES
    wanted,      \* source_config of the loader's ActivePipelineService
    served,      \* _prev_source_config
    stream,      \* the source _video_stream was made for
    open,        \* it was not released since
    loader,      \* where the loader is
    hand,        \* the frame it is about to put; 0: none
    read,        \* the source of every frame read
    frames,      \* frame_queue
    inference,   \* where the inference worker is
    work,        \* the frame it holds; 0: none
    taken,       \* history: frames that inference has taken
    preds,       \* pred_queue
    dispatcher,  \* where the dispatching thread is
    shown,       \* history: the frame that was shown last; 0: none
    stop,        \* mp_stop_event
    scheduler,   \* what the server's scheduler is doing
    switches, faults

streaming == <<wanted, served, stream, open>>
loading   == <<loader, hand, read>>
inferring == <<inference, work, taken>>
queues    == <<frames, preds>>
dispatching == <<dispatcher, shown>>
control   == <<stop, scheduler>>
bounds    == <<switches, faults>>
vars == <<streaming, loading, inferring, queues, dispatching, control, bounds>>

Init ==
    /\ wanted \in Sources \cup {NoSource}
    /\ served = NoSource /\ stream = NoSource /\ open = FALSE
    /\ loader = "start" /\ hand = 0 /\ read = <<>>
    /\ inference = "get" /\ work = 0 /\ taken = {}
    /\ frames = <<>> /\ preds = <<>>
    /\ dispatcher = "start" /\ shown = 0
    /\ stop = FALSE /\ scheduler = "up"
    /\ switches = 0 /\ faults = 0

Faulty == faults < MaxFaults /\ faults' = faults + 1 /\ UNCHANGED switches

(* StoppableMixin.should_stop: the event is set or the parent died.        *)
ShouldStop == stop \/ scheduler = "dead"

(* Cameras are real-time, files are not.                                   *)
RealTime(s) == KindOf[s] \in {"usb", "ip"}

-----------------------------------------------------------------------------
(* The stream loader.                                                      *)

LoaderStarts ==
    /\ loader = "start"
    /\ \/ loader' = "loop" /\ UNCHANGED bounds
       \/ loader' = "exit" /\ Faulty
    /\ UNCHANGED <<streaming, hand, read, inferring, queues, dispatching, control>>

LoaderStops ==
    /\ loader = "loop" /\ ShouldStop
    /\ loader' = "exit" /\ open' = FALSE
    /\ UNCHANGED <<wanted, served, stream, hand, read, inferring, queues, dispatching, control, bounds>>

(* Mutant: the source is remembered before its stream is open.             *)
ResetStreamEagerly ==
    /\ loader = "loop" /\ ~ShouldStop
    /\ wanted # NoSource /\ wanted # served
    /\ served' = wanted
    /\ \/ stream' = wanted /\ open' = TRUE /\ loader' = "get" /\ UNCHANGED bounds
       \/ open' = FALSE /\ Faulty /\ UNCHANGED <<stream, loader>>
    /\ UNCHANGED <<wanted, hand, read, inferring, queues, dispatching, control>>

(* _reset_stream_if_needed.  The old stream is released first; when the    *)
(* new one does not open, it stays, released, and so does its source.      *)
ResetStream ==
    /\ loader = "loop" /\ ~ShouldStop
    /\ wanted # NoSource /\ wanted # served
    /\ \/ /\ stream' = wanted /\ served' = wanted /\ open' = TRUE
          /\ loader' = "get" /\ UNCHANGED bounds
       \/ open' = FALSE /\ Faulty /\ UNCHANGED <<served, stream, loader>>
    /\ UNCHANGED <<wanted, hand, read, inferring, queues, dispatching, control>>

KeepStream ==
    /\ loader = "loop" /\ ~ShouldStop
    /\ wanted # NoSource /\ wanted = served /\ stream # NoSource
    /\ loader' = "get"
    /\ UNCHANGED <<streaming, hand, read, inferring, queues, dispatching, control, bounds>>

(* Mutant: the frame is numbered before it is read.                        *)
GetFrameEarly ==
    /\ loader = "get"
    /\ Len(read) < MaxFrames
    /\ open \/ KindOf[stream] \in {"ip", "folder"}
    /\ read' = Append(read, stream)
    /\ hand' = Len(read)
    /\ open' = (open \/ KindOf[stream] = "ip")
    /\ loader' = "put"
    /\ UNCHANGED <<wanted, served, stream, inferring, queues, dispatching, control, bounds>>

(* get_data.  A released IP camera is connected again, a released folder   *)
(* still has the files it had listed; the other streams stay released.     *)
GetFrame ==
    /\ loader = "get"
    /\ Len(read) < MaxFrames
    /\ open \/ KindOf[stream] \in {"ip", "folder"}
    /\ read' = Append(read, stream)
    /\ hand' = Len(read')
    /\ open' = (open \/ KindOf[stream] = "ip")
    /\ loader' = "put"
    /\ UNCHANGED <<wanted, served, stream, inferring, queues, dispatching, control, bounds>>

(* No frame, or an error.  A camera that failed may be left released.      *)
GetNothing ==
    /\ loader = "get"
    /\ open' \in {open, open /\ KindOf[stream] # "ip"}
    /\ loader' = "loop"
    /\ UNCHANGED <<wanted, served, stream, hand, read, inferring, queues, dispatching, control, bounds>>

(* _enqueue_frame_with_retry, whose only way out besides the queue is the  *)
(* event.                                                                  *)
Leaves == hand' = 0 /\ loader' = "loop"

PutFrame ==
    /\ loader = "put" /\ ~stop
    /\ Len(frames) < FrameQueueSize
    /\ frames' = Append(frames, hand)
    /\ Leaves
    /\ UNCHANGED <<streaming, read, inferring, preds, dispatching, control, bounds>>

(* Mutant: a full queue is met with a discard, whatever the source.        *)
PutTimesOutAlike ==
    /\ loader = "put" /\ ~stop
    /\ Len(frames) = FrameQueueSize
    /\ loader' = "discard"
    /\ UNCHANGED <<streaming, hand, read, inferring, queues, dispatching, control, bounds>>

(* Full: a file is tried again, a camera goes on to discard.               *)
PutTimesOut ==
    /\ loader = "put" /\ ~stop
    /\ Len(frames) = FrameQueueSize
    /\ RealTime(stream)
    /\ loader' = "discard"
    /\ UNCHANGED <<streaming, hand, read, inferring, queues, dispatching, control, bounds>>

(* The oldest frame goes, unless the queue is empty or being read; the new *)
(* one goes in either case.                                                *)
Discard ==
    /\ loader = "discard"
    /\ \/ frames # <<>> /\ frames' = Tail(frames)
       \/ UNCHANGED frames
    /\ Leaves
    /\ UNCHANGED <<streaming, read, inferring, preds, dispatching, control, bounds>>

PutStops ==
    /\ loader = "put" /\ stop
    /\ Leaves
    /\ UNCHANGED <<streaming, read, inferring, queues, dispatching, control, bounds>>

(* The queues whose background thread a process does not wait for.  Such a *)
(* thread dies with a frame half written, and whoever then reads the queue *)
(* waits for the other half.                                               *)
QueuesToCancelNone == {}
QueuesToCancel == {"frames", "preds"}

Torn(reader, queue) == IF queue # <<>> /\ reader = "get" THEN {reader, "torn"} ELSE {reader}

LoaderEnds ==
    /\ loader = "exit"
    /\ frames = <<>> \/ "frames" \in QueuesToCancel
    /\ loader' = "ended"
    /\ inference' \in Torn(inference, frames)
    /\ UNCHANGED <<streaming, hand, read, work, taken, queues, dispatching, control, bounds>>

Loader ==
    \/ LoaderStarts \/ LoaderStops \/ ResetStream \/ KeepStream \/ GetFrame \/ GetNothing
    \/ PutFrame \/ PutTimesOut \/ Discard \/ PutStops \/ LoaderEnds

-----------------------------------------------------------------------------
(* The inference worker.                                                   *)

InferenceStops ==
    /\ inference = "get" /\ ShouldStop
    /\ inference' = "exit"
    /\ UNCHANGED <<streaming, loading, work, taken, queues, dispatching, control, bounds>>

(* Mutant: the newest frame is taken, the older ones are left for later.   *)
TakeNewest ==
    /\ inference = "get" /\ ~ShouldStop
    /\ frames # <<>>
    /\ work' = frames[Len(frames)]
    /\ frames' = SubSeq(frames, 1, Len(frames) - 1)
    /\ taken' = taken \cup {work'}
    /\ inference' = "have"
    /\ UNCHANGED <<streaming, loading, preds, dispatching, control, bounds>>

TakeFrame ==
    /\ inference = "get" /\ ~ShouldStop
    /\ frames # <<>>
    /\ work' = Head(frames) /\ frames' = Tail(frames)
    /\ taken' = taken \cup {Head(frames)}
    /\ inference' = "have"
    /\ UNCHANGED <<streaming, loading, preds, dispatching, control, bounds>>

(* No model, a failed reload or a failed prediction: the frame is dropped. *)
SkipFrame ==
    /\ inference = "have"
    /\ inference' = "get" /\ work' = 0
    /\ UNCHANGED <<streaming, loading, taken, queues, dispatching, control, bounds>>

(* _enqueue_result and _handle_passthrough_mode: a put that times out      *)
(* drops the result.                                                       *)
PutResult ==
    /\ inference = "have"
    /\ preds' = IF Len(preds) < PredictionQueueSize
                THEN Append(preds, work)
                ELSE preds
    /\ inference' = "get" /\ work' = 0
    /\ UNCHANGED <<streaming, loading, taken, frames, dispatching, control, bounds>>

InferenceEnds ==
    /\ inference = "exit"
    /\ preds = <<>> \/ "preds" \in QueuesToCancel
    /\ inference' = "ended"
    /\ dispatcher' \in Torn(dispatcher, preds)
    /\ UNCHANGED <<streaming, loading, work, taken, queues, shown, control, bounds>>

(* The process is killed; nobody starts another one.                       *)
InferenceDies ==
    /\ inference # "ended" /\ Faulty
    /\ inference' = "ended" /\ work' = 0
    /\ dispatcher' \in Torn(dispatcher, preds)
    /\ UNCHANGED <<streaming, loading, taken, queues, shown, control>>

Inference == InferenceStops \/ TakeFrame \/ SkipFrame \/ PutResult \/ InferenceEnds

-----------------------------------------------------------------------------
(* The dispatcher.                                                         *)

DispatcherKeeps == UNCHANGED <<streaming, loading, inferring, frames, control>>

DispatcherStarts ==
    /\ dispatcher = "start" /\ scheduler # "dead"
    /\ \/ dispatcher' = "get" /\ UNCHANGED bounds
       \/ dispatcher' = "ended" /\ Faulty
    /\ UNCHANGED <<preds, shown>>
    /\ DispatcherKeeps

DispatcherStops ==
    /\ dispatcher = "get" /\ ShouldStop
    /\ dispatcher' = "ended"
    /\ UNCHANGED <<preds, shown, bounds>>
    /\ DispatcherKeeps

(* A result is shown and delivered, or skipped.  A sink that cannot be     *)
(* made ends the thread: _reset_sink_if_needed is outside of any try.      *)
Dispatch ==
    /\ dispatcher = "get" /\ ~ShouldStop
    /\ preds # <<>> /\ preds' = Tail(preds)
    /\ \/ shown' \in {shown, Head(preds)} /\ UNCHANGED <<dispatcher, bounds>>
       \/ dispatcher' = "ended" /\ Faulty /\ UNCHANGED shown
    /\ DispatcherKeeps

Dispatcher == DispatcherStarts \/ DispatcherStops \/ Dispatch

-----------------------------------------------------------------------------
(* The scheduler of the server, and the death of the server.               *)

SchedulerKeeps == UNCHANGED <<streaming, hand, read, work, taken, queues, shown, bounds>>

Shutdown ==
    /\ scheduler = "up"
    /\ stop' = TRUE /\ scheduler' = "thread"
    /\ UNCHANGED <<loader, inference, dispatcher>>
    /\ SchedulerKeeps

(* The thread is joined, or ten seconds have passed; it is a daemon.       *)
JoinThread ==
    /\ scheduler = "thread"
    /\ scheduler' = "loader"
    /\ UNCHANGED <<loader, inference, dispatcher, stop>>
    /\ SchedulerKeeps

(* The processes, last started first: joined, terminated or killed.        *)
JoinLoader ==
    /\ scheduler = "loader" /\ scheduler' = "inference"
    /\ loader' = "ended"
    /\ inference' \in IF loader = "ended" THEN {inference} ELSE Torn(inference, frames)
    /\ UNCHANGED <<dispatcher, stop>>
    /\ SchedulerKeeps

JoinInference ==
    /\ scheduler = "inference" /\ scheduler' = "down"
    /\ inference' = "ended"
    /\ dispatcher' \in IF inference = "ended" THEN {dispatcher} ELSE Torn(dispatcher, preds)
    /\ UNCHANGED <<loader, stop>>
    /\ SchedulerKeeps

(* The server exits, and its daemon thread with it.                        *)
ServerExits ==
    /\ scheduler = "down" /\ scheduler' = "gone"
    /\ dispatcher' = "ended"
    /\ UNCHANGED <<loader, inference, stop>>
    /\ SchedulerKeeps

ServerDies ==
    /\ scheduler \notin {"dead", "gone"}
    /\ scheduler' = "dead" /\ dispatcher' = "ended"
    /\ UNCHANGED <<loader, inference, stop>>
    /\ SchedulerKeeps

Join == JoinThread \/ JoinLoader \/ JoinInference \/ ServerExits

(* The loader's service learns of another source.                          *)
Switch(s) ==
    /\ s # wanted /\ switches < MaxSwitches
    /\ wanted' = s /\ switches' = switches + 1
    /\ UNCHANGED <<served, stream, open, loading, inferring, queues, dispatching, control, faults>>

Next ==
    \/ Loader \/ Inference \/ InferenceDies \/ Dispatcher
    \/ Join \/ Shutdown \/ ServerDies
    \/ \E s \in Sources \cup {NoSource} : Switch(s)

Spec == Init /\ [][Next]_vars

(* The processes and the scheduler go on, and a timeout passes; nobody has *)
(* to stop or to kill anything.                                            *)
FairSpec == Spec /\ WF_vars(Loader) /\ WF_vars(Inference) /\ WF_vars(Dispatcher) /\ WF_vars(Join)

-----------------------------------------------------------------------------
(* Properties.                                                             *)

TypeOK ==
    /\ {wanted, served, stream} \subseteq Sources \cup {NoSource}
    /\ open \in BOOLEAN
    /\ loader \in {"start", "loop", "get", "put", "discard", "exit", "ended"}
    /\ read \in Seq(Sources) /\ Len(read) <= MaxFrames
    /\ hand \in 0..Len(read) /\ work \in 0..Len(read)
    /\ loader \in {"put", "discard"} => hand # 0 /\ stream # NoSource
    /\ loader = "get" => stream # NoSource
    /\ frames \in Seq(1..Len(read)) /\ Len(frames) <= FrameQueueSize
    /\ inference \in {"get", "have", "torn", "exit", "ended"}
    /\ inference = "have" => work # 0
    /\ taken \subseteq 1..Len(read)
    /\ preds \in Seq(1..Len(read)) /\ Len(preds) <= PredictionQueueSize
    /\ dispatcher \in {"start", "get", "torn", "ended"} /\ shown \in 0..Len(read)
    /\ stop \in BOOLEAN
    /\ scheduler \in {"up", "thread", "loader", "inference", "down", "gone", "dead"}
    /\ switches \in 0..MaxSwitches /\ faults \in 0..MaxFaults

(* A frame of a file is not lost before inference, however full the queue  *)
(* is (_enqueue_frame_with_retry); except that a camera the source was     *)
(* switched to discards it as the oldest frame, or at a shutdown.          *)
Waits(n) == n = hand \/ n \in Range(frames)
FileFramesArrive ==
    \A n \in 1..Len(read) :
        RealTime(read[n]) \/ Waits(n) \/ n \in taken \/ stop
            \/ \E m \in n..Len(read) : RealTime(read[m])

(* What leaves the pipeline are frames of the source in the order they     *)
(* were read, none twice: through the three workers, their two queues and  *)
(* everything that loses frames on the way, it is a lossy queue.           *)
Held(n)  == {n} \ {0}
InFlight == Range(preds) \cup Held(work) \cup Range(frames) \cup Held(hand)
Fifo == INSTANCE LossyQueue WITH sent <- Len(read), inFlight <- InFlight, delivered <- shown
ImplementsQueue == Fifo!Spec

(* The source that is wanted is finally open, whatever was tried before    *)
(* and however full the queue: a camera does not even need inference to be *)
(* alive.  Left out: a file that waits for a dead inference process, and a *)
(* source that is wanted again after another one failed to open.           *)
StuckAtFile == /\ loader = "put" /\ ~RealTime(stream)
               /\ Len(frames) = FrameQueueSize /\ inference \in {"torn", "ended"}
LeftReleased(s) == stream = s /\ served = s /\ ~open
SourceIsServed ==
    \A s \in Sources :
        (wanted = s) ~> \/ wanted # s
                        \/ stream = s /\ open
                        \/ LeftReleased(s) \/ StuckAtFile
                        \/ loader \in {"exit", "ended"}

(* When the server stops or dies, every worker ends (scheduler.shutdown,   *)
(* should_stop, cancel_join_thread).  Left out, for a server that died: a  *)
(* file's loader that retries a put nobody will take, which does not look  *)
(* at the parent, and a worker that waits for the rest of a torn frame.    *)
WorkersEnd ==
    ShouldStop ~>
        /\ loader = "ended" \/ (scheduler = "dead" /\ ~stop /\ StuckAtFile)
        /\ inference = "ended" \/ (scheduler = "dead" /\ inference = "torn")
        /\ dispatcher = "ended"
=============================================================================
