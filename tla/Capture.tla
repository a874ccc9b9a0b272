------------------------------- MODULE Capture -------------------------------
(***************************************************************************)
(* Capturing one part: cli/capture.py, capture/service.py (rounds, gates,  *)
(* quarantine), capture/hikvision.py (exclusive cameras, grouped triggers, *)
(* HDR passes), capture/storage.py (the complete store and `_incomplete`). *)
(*                                                                         *)
(* A member of Runs is one zs32-capture process.  Runs of one capture      *)
(* session share the cameras and, when an id is used again, its place in   *)
(* each store, which is taken once (PublishOnce).  A frame is the list of  *)
(* the exposures it was made from, so that a stale image shows.            *)
(***************************************************************************)
EXTENDS FiniteSets, Naturals, Sequences

CONSTANTS
    Runs,       \* zs32-capture processes
    Ids,        \* the capture_set_ids they are given
    Cameras,    \* number of camera slots, numbered in binding order
    Rounds,     \* number of rounds of the topology
    Settle,     \* hdr_settle_frames
    Retries,    \* hdr_max_retries
    NoOne       \* no process; no image

ASSUME ConstantsAssumption ==
    /\ NoOne \notin Runs
    /\ Cameras \in Nat \ {0} /\ Rounds \in Nat \ {0}
    /\ Settle \in Nat /\ Retries \in Nat

VARIABLES
    hdr,         \* the acquisition asset asks for two exposures
    id,          \* the capture_set_id each run was given
    pc,          \* where each run is
    at,          \* its round, HDR attempt, exposure pass and grouped trigger
    images,      \* its last grouped read, one image per slot
    passes,      \* the last group of each finished pass of the attempt
    frames,      \* the encoded frames the service holds
    confirmed,   \* how many round confirmations the service holds
    typed,       \* the rounds whose token the operator has typed
    verdict,     \* how the service classified its failure
    refused,     \* why a publication of the run failed, if it did
    told,        \* what the command answered
    handles,     \* the adapter holds its camera handles
    holder,      \* which process has each camera open
    exposure,    \* the exposure setting of each camera
    queue,       \* images a camera made that nobody has read
    complete,    \* who took the place of each id in the complete store
    quarantine   \* who took the place of each id in _incomplete

inputs     == <<hdr, id>>
progress   == <<at, images, passes>>
dialogue   == <<confirmed, typed>>
conclusion == <<verdict, refused, told>>
hardware   == <<handles, holder, exposure, queue>>
stores     == <<complete, quarantine>>
vars == <<inputs, pc, progress, frames, dialogue, conclusion, hardware, stores>>

Slots    == 1 .. Cameras
Settings == IF hdr THEN <<"short", "long">> ELSE <<"single">>
Shots    == IF hdr THEN Settle + 1 ELSE 1
Attempts == IF hdr THEN Retries + 1 ELSE 1

Kinds   == {"RETAKE", "INVALID_CAPTURE", "SYSTEM_ERROR"}
Replies == {"token", "cancel", "wrong", "closed", "timeout"}
Round   == {"open", "expose", "trigger", "read", "fuse", "encode"}
PCs == {"start", "confirm", "gates", "failing", "quarantined", "publish",
        "visible", "leave", "ended"} \cup Round

Start(k) == [round |-> k, attempt |-> 1, pass |-> 1, shot |-> 1]
NoImages == [c \in Slots |-> NoOne]

Init ==
    /\ hdr \in BOOLEAN
    /\ id \in [Runs -> Ids]
    /\ pc = [r \in Runs |-> "start"]
    /\ at = [r \in Runs |-> Start(1)]
    /\ images = [r \in Runs |-> NoImages]
    /\ passes = [r \in Runs |-> <<>>]
    /\ frames = [r \in Runs |-> {}]
    /\ confirmed = [r \in Runs |-> 0]
    /\ typed = [r \in Runs |-> {}]
    /\ verdict = [r \in Runs |-> "none"]
    /\ refused = [r \in Runs |-> "no"]
    /\ told = [r \in Runs |-> "nothing"]
    /\ handles = [r \in Runs |-> FALSE]
    /\ holder = [c \in Slots |-> NoOne]
    /\ exposure = [c \in Slots |-> "unset"]
    /\ queue = [c \in Slots |-> <<>>]
    /\ complete = [i \in Ids |-> NoOne]
    /\ quarantine = [i \in Ids |-> NoOne]

Goto(r, phase) == pc' = [pc EXCEPT ![r] = phase]

(* Between two rounds; the locals of capture_round are gone. *)
BeginRound(r, k) ==
    /\ at' = [at EXCEPT ![r] = Start(k)]
    /\ images' = [images EXCEPT ![r] = NoImages]
    /\ passes' = [passes EXCEPT ![r] = <<>>]

(* The attempt, exposure pass and grouped trigger that come next. *)
Aim(r, attempt, pass, shot) ==
    at' = [at EXCEPT ![r] = [round |-> at[r].round, attempt |-> attempt,
                             pass |-> pass, shot |-> shot]]

(* The service catches an Exception and classifies it; the frames it was    *)
(* given so far are kept.                                                   *)
Abandon(r, kind, partial) ==
    /\ Goto(r, "failing")
    /\ verdict' = [verdict EXCEPT ![r] = kind]
    /\ frames' = [frames EXCEPT ![r] = @ \cup partial]
    /\ UNCHANGED <<refused, told>>

-----------------------------------------------------------------------------
(* The command: platform, gate publication, profiles, acquisition config.  *)
Prepare(r) ==
    /\ pc[r] = "start"
    /\ Goto(r, "confirm")
    /\ UNCHANGED <<inputs, progress, frames, dialogue, conclusion, hardware, stores>>

RefuseRequest(r) ==
    /\ pc[r] = "start"
    /\ Goto(r, "ended")
    /\ told' = [told EXCEPT ![r] = "failed"]
    /\ UNCHANGED <<inputs, progress, frames, dialogue, verdict, refused, hardware, stores>>

(* Mutant: everything that is not a cancellation goes through. *)
AcceptsUnlessCancelled(reply) == reply # "cancel"

(* Only the exact text CONFIRM <round_id>, in time, is a confirmation. *)
Accepts(reply) == reply = "token"

ConfirmRound(r) ==
    /\ pc[r] = "confirm"
    /\ \E reply \in Replies :
        /\ typed' = [typed EXCEPT ![r] =
                        IF reply = "token" THEN @ \cup {at[r].round} ELSE @]
        /\ IF Accepts(reply)
           THEN /\ Goto(r, "open")
                /\ confirmed' = [confirmed EXCEPT ![r] = @ + 1]
                /\ UNCHANGED <<frames, conclusion>>
           ELSE Abandon(r, "RETAKE", {}) /\ UNCHANGED confirmed
    /\ UNCHANGED <<inputs, progress, hardware, stores>>

(* No terminal, or the coordinator itself breaks. *)
CannotAsk(r) ==
    /\ pc[r] = "confirm"
    /\ Abandon(r, "SYSTEM_ERROR", {})
    /\ UNCHANGED <<inputs, progress, dialogue, hardware, stores>>

-----------------------------------------------------------------------------
(* The camera session.  Every run opens the cameras in binding order, so    *)
(* another run holds all of them or none, up to those it could not close.   *)
Held(r) == {c \in Slots : holder[c] = r}

(* Closing gives up the buffers and settings; a camera whose cleanup fails  *)
(* stays open until its process ends.                                       *)
Close(r, stuck) ==
    /\ holder' = [c \in Slots |-> IF holder[c] = r /\ c \notin stuck THEN NoOne ELSE holder[c]]
    /\ queue' = [c \in Slots |-> IF holder[c] = r THEN <<>> ELSE queue[c]]
    /\ exposure' = [c \in Slots |-> IF holder[c] = r THEN "unset" ELSE exposure[c]]
    /\ handles' = [handles EXCEPT ![r] = FALSE]

(* _ensure_open: the handles of an earlier round, or all cameras anew. *)
Open(r) ==
    /\ pc[r] = "open"
    /\ handles[r] \/ \A c \in Slots : holder[c] = NoOne
    /\ handles' = [handles EXCEPT ![r] = TRUE]
    /\ holder' = [c \in Slots |-> r]
    /\ Goto(r, "expose")
    /\ UNCHANGED <<inputs, progress, frames, dialogue, conclusion, exposure, queue, stores>>

(* A camera is missing, open elsewhere, or fails: those already opened are  *)
(* closed again as far as that succeeds.                                    *)
OpenFails(r) ==
    /\ pc[r] = "open"
    /\ ~handles[r]
    /\ \E stuck \in SUBSET {c \in Slots : holder[c] = NoOne} :
        holder' = [c \in Slots |-> IF c \in stuck THEN r ELSE holder[c]]
    /\ Abandon(r, "SYSTEM_ERROR", {})
    /\ UNCHANGED <<inputs, progress, dialogue, handles, exposure, queue, stores>>

Setting(r) == Settings[at[r].pass]

SetExposure(r) ==
    /\ pc[r] = "expose"
    /\ exposure' = [c \in Slots |-> Setting(r)]
    /\ Goto(r, "trigger")
    /\ UNCHANGED <<inputs, progress, frames, dialogue, conclusion, handles, holder,
                   queue, stores>>

(* What a camera makes of a software trigger. *)
Image(r, c) == [run |-> r, round |-> at[r].round, attempt |-> at[r].attempt,
                shot |-> at[r].shot, exposure |-> exposure[c]]

(* All cameras are triggered before any is read. *)
TriggerAll(r) ==
    /\ pc[r] = "trigger"
    /\ queue' = [c \in Slots |-> Append(queue[c], Image(r, c))]
    /\ images' = [images EXCEPT ![r] = NoImages]
    /\ Goto(r, "read")
    /\ UNCHANGED <<inputs, at, passes, frames, dialogue, conclusion, handles, holder,
                   exposure, stores>>

Unread(r) == {c \in Slots : images[r][c] = NoOne}
NextSlot(r, c) == c \in Unread(r) /\ \A d \in Unread(r) : c <= d

(* GetOneFrameTimeout returns the oldest image of the camera. *)
Read(r) ==
    /\ pc[r] = "read"
    /\ \E c \in Slots :
        /\ NextSlot(r, c)
        /\ queue[c] # <<>>
        /\ images' = [images EXCEPT ![r][c] = Head(queue[c])]
        /\ queue' = [queue EXCEPT ![c] = Tail(@)]
    /\ UNCHANGED <<inputs, pc, at, passes, frames, dialogue, conclusion, handles, holder,
                   exposure, stores>>

(* Mutant: the images of a settle frame are left in the cameras. *)
SettleUnread(r) ==
    /\ pc[r] = "read"
    /\ at[r].shot < Shots
    /\ Aim(r, at[r].attempt, at[r].pass, at[r].shot + 1)
    /\ Goto(r, "trigger")
    /\ UNCHANGED <<inputs, images, passes, frames, dialogue, conclusion, hardware, stores>>

(* A settle frame was read and is dropped. *)
SettleFrame(r) ==
    /\ pc[r] = "read"
    /\ Unread(r) = {}
    /\ at[r].shot < Shots
    /\ Aim(r, at[r].attempt, at[r].pass, at[r].shot + 1)
    /\ Goto(r, "trigger")
    /\ UNCHANGED <<inputs, images, passes, frames, dialogue, conclusion, hardware, stores>>

(* The last group of a pass is kept; the next exposure, or the fusion. *)
FinishPass(r) ==
    /\ pc[r] = "read"
    /\ Unread(r) = {}
    /\ at[r].shot = Shots
    /\ passes' = [passes EXCEPT ![r] = Append(@, images[r])]
    /\ IF at[r].pass < Len(Settings)
       THEN /\ Aim(r, at[r].attempt, at[r].pass + 1, 1)
            /\ Goto(r, "expose")
       ELSE Goto(r, "fuse") /\ UNCHANGED at
    /\ UNCHANGED <<inputs, images, frames, dialogue, conclusion, hardware, stores>>

(* Mutant: repeat until the images are good. *)
RetryForEver(r) ==
    /\ pc[r] = "fuse"
    /\ Aim(r, at[r].attempt, 1, 1)
    /\ passes' = [passes EXCEPT ![r] = <<>>]
    /\ Goto(r, "expose")
    /\ UNCHANGED <<inputs, images, frames, dialogue, conclusion, hardware, stores>>

(* Too many clipped pixels, and attempts left. *)
RetryHdr(r) ==
    /\ pc[r] = "fuse"
    /\ at[r].attempt < Attempts
    /\ Aim(r, at[r].attempt + 1, 1, 1)
    /\ passes' = [passes EXCEPT ![r] = <<>>]
    /\ Goto(r, "expose")
    /\ UNCHANGED <<inputs, images, frames, dialogue, conclusion, hardware, stores>>

(* The images are good enough, or the last attempt is taken as it is. *)
AcceptImages(r) ==
    /\ pc[r] = "fuse"
    /\ Goto(r, "encode")
    /\ UNCHANGED <<inputs, progress, frames, dialogue, conclusion, hardware, stores>>

Frame(r, c, made) == [round |-> at[r].round, slot |-> c, made |-> made]
Encoded(r) ==
    {Frame(r, c, [p \in 1 .. Len(passes[r]) |-> passes[r][p][c]]) : c \in Slots}

(* What capture_round keeps when it fails: the frames encoded so far, and   *)
(* without HDR also those encoded from a group that was read in part.       *)
Kept(r) ==
    CASE pc[r] = "encode" -> {{f \in Encoded(r) : f.slot < c} : c \in Slots}
      [] pc[r] = "read" /\ ~hdr ->
            {{Frame(r, c, <<images[r][c]>>) : c \in {d \in Slots \ Unread(r) : d < b}}
                : b \in Slots}
      [] OTHER -> {{}}

(* Any camera, fusion or encoding error, an interrupt of a camera read too: *)
(* the cameras are closed at once and the service keeps the partial frames. *)
RoundFails(r) ==
    /\ pc[r] \in Round \ {"open"}
    /\ pc[r] = "read" => Unread(r) # {}
    /\ \E stuck \in SUBSET Slots : Close(r, stuck)
    /\ \E partial \in Kept(r) : Abandon(r, "SYSTEM_ERROR", partial)
    /\ BeginRound(r, at[r].round)
    /\ UNCHANGED <<inputs, dialogue, stores>>

-----------------------------------------------------------------------------
(* _validate_round: one frame of this round for every slot. *)
RoundIsValid(r, group) ==
    /\ \A f \in group : f.round = at[r].round
    /\ {f.slot : f \in group} = Slots
    /\ Cardinality(group) = Cameras

(* Mutant: the frames of a later round replace those of an earlier one. *)
AcceptRoundAlone(r) ==
    /\ pc[r] = "encode"
    /\ frames' = [frames EXCEPT ![r] = Encoded(r)]
    /\ IF at[r].round < Rounds
       THEN Goto(r, "confirm") /\ BeginRound(r, at[r].round + 1)
       ELSE Goto(r, "gates") /\ BeginRound(r, Rounds)
    /\ UNCHANGED <<inputs, dialogue, conclusion, hardware, stores>>

AcceptRound(r) ==
    /\ pc[r] = "encode"
    /\ IF ~RoundIsValid(r, Encoded(r))
       THEN Abandon(r, "INVALID_CAPTURE", {}) /\ BeginRound(r, at[r].round)
       ELSE /\ frames' = [frames EXCEPT ![r] = @ \cup Encoded(r)]
            /\ IF at[r].round < Rounds
               THEN Goto(r, "confirm") /\ BeginRound(r, at[r].round + 1)
               ELSE Goto(r, "gates") /\ BeginRound(r, Rounds)
            /\ UNCHANGED conclusion
    /\ UNCHANGED <<inputs, dialogue, hardware, stores>>

(* Every required view once: ensure_unique_frames and the view check. *)
Views == (1 .. Rounds) \X Slots
SetIsWhole(held) ==
    /\ {<<f.round, f.slot>> : f \in held} = Views
    /\ Cardinality(held) = Rounds * Cameras

(* Mutant: a failed gate is reported but does not stop the publication. *)
JudgeLeniently(r) ==
    /\ pc[r] = "gates"
    /\ \E results \in {"passed", "failed", "broken"} :
        IF results = "broken" THEN Abandon(r, "SYSTEM_ERROR", {})
        ELSE /\ Goto(r, "publish")
             /\ verdict' = [verdict EXCEPT ![r] = IF results = "failed" THEN "RETAKE" ELSE "none"]
             /\ UNCHANGED <<frames, refused, told>>
    /\ UNCHANGED <<inputs, progress, dialogue, hardware, stores>>

(* Both gates give one result per view, or their evidence is unusable. *)
Judge(r) ==
    /\ pc[r] = "gates"
    /\ IF ~SetIsWhole(frames[r]) THEN Abandon(r, "INVALID_CAPTURE", {})
       ELSE \E results \in {"passed", "failed", "broken"} :
            CASE results = "passed" -> Goto(r, "publish") /\ UNCHANGED <<frames, conclusion>>
              [] results = "failed" -> Abandon(r, "RETAKE", {})
              [] results = "broken" -> Abandon(r, "SYSTEM_ERROR", {})
    /\ UNCHANGED <<inputs, progress, dialogue, hardware, stores>>

-----------------------------------------------------------------------------
(* The answer the command will give when the camera session is left. *)
Leave(r, answer) ==
    /\ Goto(r, "leave")
    /\ told' = [told EXCEPT ![r] = answer]
    /\ UNCHANGED verdict

publishFrame == <<inputs, progress, frames, dialogue, hardware>>

(* publish_incomplete takes the place of the id below _incomplete. *)
Quarantine(r) ==
    /\ pc[r] = "failing"
    /\ quarantine[id[r]] = NoOne
    /\ quarantine' = [quarantine EXCEPT ![id[r]] = r]
    /\ Goto(r, "quarantined")
    /\ UNCHANGED <<publishFrame, conclusion, complete>>

QuarantineConfirmed(r) ==
    /\ pc[r] = "quarantined"
    /\ Leave(r, verdict[r])
    /\ UNCHANGED <<publishFrame, refused, stores>>

(* The id was quarantined before: the failure becomes a system error. *)
QuarantineTaken(r) ==
    /\ pc[r] = "failing"
    /\ quarantine[id[r]] # NoOne
    /\ Leave(r, "SYSTEM_ERROR")
    /\ refused' = [refused EXCEPT ![r] = "taken"]
    /\ UNCHANGED <<publishFrame, stores>>

(* Mutant: the first failure is reported whatever became of its evidence. *)
QuarantineFailsQuietly(r) ==
    /\ pc[r] \in {"failing", "quarantined"}
    /\ Leave(r, verdict[r])
    /\ refused' = [refused EXCEPT ![r] = "failed"]
    /\ UNCHANGED <<publishFrame, stores>>

(* The lock is held, the disk fails, or the last flush does. *)
QuarantineFails(r) ==
    /\ pc[r] \in {"failing", "quarantined"}
    /\ Leave(r, "SYSTEM_ERROR")
    /\ refused' = [refused EXCEPT ![r] = "failed"]
    /\ UNCHANGED <<publishFrame, stores>>

(* Mutant: a set is moved over whatever is at its place. *)
PublishOver(r) ==
    /\ pc[r] = "publish"
    /\ complete' = [complete EXCEPT ![id[r]] = r]
    /\ Goto(r, "visible")
    /\ UNCHANGED <<publishFrame, conclusion, quarantine>>

Publish(r) ==
    /\ pc[r] = "publish"
    /\ complete[id[r]] = NoOne
    /\ complete' = [complete EXCEPT ![id[r]] = r]
    /\ Goto(r, "visible")
    /\ UNCHANGED <<publishFrame, conclusion, quarantine>>

PublishConfirmed(r) ==
    /\ pc[r] = "visible"
    /\ Leave(r, "ok")
    /\ UNCHANGED <<publishFrame, refused, stores>>

(* Mutant: the answer is the kind of a failure nobody has classified. *)
PublishFailsQuietly(r) ==
    /\ pc[r] \in {"publish", "visible"}
    /\ Leave(r, verdict[r])
    /\ refused' = [refused EXCEPT ![r] = "failed"]
    /\ UNCHANGED <<publishFrame, stores>>

(* A complete set that cannot be published is not quarantined either. *)
PublishFails(r) ==
    /\ pc[r] \in {"publish", "visible"}
    /\ Leave(r, "SYSTEM_ERROR")
    /\ refused' = [refused EXCEPT ![r] =
                      IF complete[id[r]] \in {NoOne, r} THEN "failed" ELSE "taken"]
    /\ UNCHANGED <<publishFrame, stores>>

(* The context exit closes the cameras; a cleanup error turns a success     *)
(* into a failure of the command and is only noted otherwise.               *)
Exit(r) ==
    /\ pc[r] = "leave"
    /\ Goto(r, "ended")
    /\ Close(r, {})
    /\ UNCHANGED <<inputs, progress, frames, dialogue, conclusion, stores>>

ExitFails(r) ==
    /\ pc[r] = "leave"
    /\ handles[r]
    /\ Goto(r, "ended")
    /\ told' = [told EXCEPT ![r] = IF @ = "ok" THEN "failed" ELSE @]
    /\ Close(r, {})
    /\ UNCHANGED <<inputs, progress, frames, dialogue, verdict, refused, stores>>

(* Control-C or a kill: nothing catches it on the way out but the cleanup. *)
Interrupt(r) ==
    /\ pc[r] # "ended"
    /\ Goto(r, "ended")
    /\ told' = [told EXCEPT ![r] = "interrupted"]
    /\ Close(r, {})
    /\ BeginRound(r, at[r].round)
    /\ UNCHANGED <<inputs, frames, dialogue, verdict, refused, stores>>

-----------------------------------------------------------------------------
Step(r) ==
    \/ Prepare(r) \/ RefuseRequest(r) \/ ConfirmRound(r) \/ CannotAsk(r)
    \/ Open(r) \/ OpenFails(r) \/ SetExposure(r) \/ TriggerAll(r) \/ Read(r)
    \/ SettleFrame(r) \/ FinishPass(r) \/ RetryHdr(r) \/ AcceptImages(r)
    \/ RoundFails(r) \/ AcceptRound(r) \/ Judge(r)
    \/ Quarantine(r) \/ QuarantineConfirmed(r) \/ QuarantineTaken(r) \/ QuarantineFails(r)
    \/ Publish(r) \/ PublishConfirmed(r) \/ PublishFails(r)
    \/ Exit(r) \/ ExitFails(r)

Next == \E r \in Runs : Step(r) \/ Interrupt(r)

Spec == Init /\ [][Next]_vars

(* The operator's answer and every camera read have a timeout, the locks of *)
(* the stores are not waited for, so a process always has a next step.      *)
Fairness == \A r \in Runs : WF_vars(Step(r))
FairSpec == Spec /\ Fairness

-----------------------------------------------------------------------------
Exposures == {"unset", "single", "short", "long"}
ImageSet == [run : Runs, round : 1 .. Rounds, attempt : 1 .. Retries + 1,
             shot : 1 .. Settle + 1, exposure : Exposures]
FrameSet == [round : 1 .. Rounds, slot : Slots, made : Seq(ImageSet)]

(* Every variable stays in its range; a frame is made of real images.       *)
TypeOK ==
    /\ hdr \in BOOLEAN
    /\ id \in [Runs -> Ids]
    /\ pc \in [Runs -> PCs]
    /\ at \in [Runs -> [round : 1 .. Rounds, attempt : 1 .. Retries + 1,
                        pass : 1 .. 2, shot : 1 .. Settle + 1]]
    /\ images \in [Runs -> [Slots -> ImageSet \cup {NoOne}]]
    /\ passes \in [Runs -> Seq([Slots -> ImageSet])]
    /\ frames \in [Runs -> SUBSET FrameSet]
    /\ confirmed \in [Runs -> 0 .. Rounds]
    /\ typed \in [Runs -> SUBSET (1 .. Rounds)]
    /\ verdict \in [Runs -> Kinds \cup {"none"}]
    /\ refused \in [Runs -> {"no", "taken", "failed"}]
    /\ told \in [Runs -> Kinds \cup {"nothing", "ok", "failed", "interrupted"}]
    /\ handles \in [Runs -> BOOLEAN]
    /\ holder \in [Slots -> Runs \cup {NoOne}]
    /\ exposure \in [Slots -> Exposures]
    /\ queue \in [Slots -> Seq(ImageSet)]
    /\ complete \in [Ids -> Runs \cup {NoOne}]
    /\ quarantine \in [Ids -> Runs \cup {NoOne}]

(* A frame, complete or partial, was made by its own run from images its    *)
(* camera took in the round it is labelled with: the last grouped trigger   *)
(* of every exposure pass of one attempt, each under its own exposure       *)
(* setting (hikvision.py, _capture_exposure_pass and _capture_hdr).         *)
FramesAreTheirs ==
    \A r \in Runs : \A f \in frames[r] : \E a \in 1 .. Attempts :
        f.made = [p \in 1 .. Len(Settings) |->
                    [run |-> r, round |-> f.round, attempt |-> a, shot |-> Shots,
                     exposure |-> Settings[p]]]

(* No camera is triggered in a round whose exact token the operator has not *)
(* typed in this run (round_coordinator.py, service.py).                    *)
TriggeredAfterToken ==
    \A c \in Slots : \A n \in 1 .. Len(queue[c]) :
        queue[c][n].round \in typed[queue[c][n].run]

(* What stands in the complete store has every view of the topology once,   *)
(* one confirmation per round, and passed both gates (service.py).          *)
CompleteIsEarned ==
    \A i \in Ids : \A r \in Runs : complete[i] = r =>
        /\ id[r] = i
        /\ SetIsWhole(frames[r])
        /\ confirmed[r] = Rounds /\ typed[r] = 1 .. Rounds
        /\ verdict[r] = "none"

(* The command's answer agrees with the stores: "ok" only for a set that is *)
(* complete, a RETAKE or INVALID_CAPTURE only with its evidence retained,   *)
(* and a failure never for a set it knows to be published, unless closing   *)
(* the cameras or the last flush failed (service.py, cli/capture.py).       *)
AnswersAreTrue ==
    \A r \in Runs : pc[r] = "ended" =>
        /\ told[r] = "ok" => complete[id[r]] = r /\ refused[r] = "no"
        /\ told[r] \in {"RETAKE", "INVALID_CAPTURE"} =>
             quarantine[id[r]] = r /\ verdict[r] = told[r] /\ refused[r] = "no"
        /\ told[r] = "SYSTEM_ERROR" =>
             (verdict[r] = "SYSTEM_ERROR" /\ quarantine[id[r]] = r) \/ refused[r] # "no"

(* A run that got frames leaves them in a store, with every finished round, *)
(* unless it is interrupted or the store refuses (service.py, "raise after  *)
(* quarantining partial data").                                             *)
EvidenceIsKept ==
    \A r \in Runs : pc[r] = "ended" /\ told[r] # "interrupted" =>
        /\ frames[r] # {} => r \in {complete[id[r]], quarantine[id[r]]} \/ refused[r] # "no"
        /\ \A k \in 1 .. at[r].round - 1 :
              {f.slot : f \in {g \in frames[r] : g.round = k}} = Slots

(* A place in a store never changes hands (storage.py, no replacement).     *)
PlacesAreFinal ==
    [][\A i \in Ids : /\ complete[i] # NoOne => complete'[i] = complete[i]
                      /\ quarantine[i] # NoOne => quarantine'[i] = quarantine[i]]_vars

(* Every command ends, whatever the operator and the cameras do, and gives  *)
(* the cameras back (the timeouts of round_coordinator.py and hikvision.py).*)
RunsEnd ==
    \A r \in Runs : <>[](pc[r] = "ended" /\ Held(r) = {})

(* "Cancellation, wrong input or a timeout are written to _incomplete as    *)
(* RETAKE" (ZS32_LINUX_REFACTOR_RUNBOOK.md:173-174): a run that ended as a  *)
(* RETAKE, with a working disk, has its place in quarantine.                *)
RetakeIsQuarantined ==
    \A r \in Runs :
        pc[r] = "ended" /\ verdict[r] = "RETAKE" /\ told[r] # "interrupted"
            /\ refused[r] # "failed"
        => quarantine[id[r]] = r

=============================================================================
