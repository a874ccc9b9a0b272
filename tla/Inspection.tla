----------------------------- MODULE Inspection -----------------------------
(***************************************************************************)
(* One inspection: cli/inspect.py and runtime/orchestrator.py (release,    *)
(* capture, crop, template, two concurrent model branches, strict fusion), *)
(* and runtime/inspection_sink.py, which re-derives the decision from the  *)
(* retained evidence before and after it copies the evidence into staging. *)
(*                                                                         *)
(* Publication is the abstract PublishOnce, which AtomicPublication        *)
(* implements.  A score row is abstracted to the level calibration gives   *)
(* it, or "irregular" (duplicate, or of another crop, model or capture).   *)
(* Error texts matter: decisions.py refuses a reason with whitespace.      *)
(***************************************************************************)
EXTENDS Naturals

CONSTANTS
    Views,       \* the required views of the topology
    Primary,     \* the first branch of the policy's strong_priority
    Me,          \* this inspection, as an owner of the inspection id
    NoOne,       \* nobody owns the inspection id
    Foreign,     \* somebody else owns it
    MaxDamages   \* bound: files damaged while the inspection runs

Branches == {"anomaly", "yolo"}

ASSUME ConstantsAssumption ==
    /\ Views # {}                      \* domain/topology.py refuses a slot without views
    /\ Primary \in Branches
    /\ NoOne # Me /\ Foreign # Me /\ NoOne # Foreign
    /\ MaxDamages \in Nat

VARIABLES
    pc,         \* where the coordinator is
    request,    \* how the request relates to the loaded release
    files,      \* the files the inspection reads or makes
    damages,    \* how many of them were damaged so far
    interrupts, \* how often Control-C was pressed
    misread,    \* a predictor read a damaged crop it had verified before
    templates,  \* the raw template score of each view
    branch,     \* where the worker thread of each branch is
    raw,        \* the raw model score of each branch and view
    fault,      \* the text of the error of each stage, if any
    decision,   \* the decision of the run handed to the sink
    staged,     \* what the staging directory holds copies of
    cause,      \* why there is no outcome
    owner, settled, answer   \* the publication, see PublishOnce

Shelf == INSTANCE PublishOnce WITH Attempts <- {Me}

shelfVars  == <<owner, settled, answer>>
threadVars == <<branch, raw>>
vars == <<pc, request, files, damages, interrupts, misread, templates, branch, raw,
          fault, decision, staged, cause, owner, settled, answer>>

Levels   == {"CLEAR", "GRAY", "STRONG"}
Outcomes == {"PASS", "NG_TEMPLATE"}
Stages   == Branches \cup {"template"}

(* An error without a text, with one word, or with several. *)
Texts == {"empty", "word", "spaced"}

(* Files: absent, as recorded, or not as recorded (a lost file included). *)
Files  == {"images", "manifest", "references", "crops", "visuals"}
States == {"absent", "good", "bad"}

NG == [anomaly |-> "NG_ANOMALY", yolo |-> "NG_YOLO"]

(* A decision is released with its own status, or withheld. *)
Released(status) ==
    [inspection |-> status, evidence |-> IF status = "OK" THEN "none" ELSE status,
     released |-> status]
Withheld(status, evidence) ==
    [inspection |-> status, evidence |-> evidence, released |-> "none"]

NoDecision == Withheld("none", "none")

Decisions ==
    {Released(s) : s \in {"OK", "NG_TEMPLATE", "NG_ANOMALY", "NG_YOLO"}} \cup
    {Withheld(s, "none") : s \in {"REVIEW", "INVALID_CAPTURE"}} \cup
    {Withheld("SYSTEM_ERROR", e) : e \in {"none", "NG_ANOMALY", "NG_YOLO"}}

Ended == {"returned", "raised"}
PCs == {"preflight", "inspect", "crop", "template", "matching", "collect",
        "unwinding", "decided", "staging", "staged", "approved", "visible"}
       \cup Ended

Init ==
    /\ pc = "preflight"
    /\ request \in [release : {"loaded", "other"},
                    capture : {"valid", "disallowed", "foreign"}]
    /\ files = [f \in Files |-> IF f \in {"crops", "visuals"} THEN "absent" ELSE "good"]
    /\ damages = 0 /\ interrupts = 0
    /\ misread = FALSE
    /\ templates = [v \in Views |-> "none"]
    /\ branch = [b \in Branches |-> "idle"]
    /\ raw = [b \in Branches |-> [v \in Views |-> "none"]]
    /\ fault = [s \in Stages |-> "none"]
    /\ decision = NoDecision
    /\ staged = [f \in Files |-> "absent"]
    /\ cause = "none"
    /\ Shelf!Init

-----------------------------------------------------------------------------
(* Mutant: a digest comparison that only looks whether the file is there. *)
IntactIfThere(f) == files[f] # "absent"

(* sha256_file(path) = the recorded digest. *)
Intact(f) == files[f] = "good"

(* The coordinator goes on, and nothing is decided. *)
Goto(phase) ==
    /\ pc' = phase
    /\ UNCHANGED <<decision, cause, shelfVars>>

Decide(d) ==
    /\ pc' = "decided"
    /\ decision' = d
    /\ UNCHANGED <<cause, shelfVars>>

(* An exception leaves the inspection, which publishes nothing. *)
Lose(why) ==
    /\ pc' = "raised"
    /\ cause' = why
    /\ Shelf!Refuse(Me)
    /\ UNCHANGED decision

(* InspectionDecision.__post_init__ applies require_non_empty to reasons. *)
DecideUnlessSpaced(texts, d) ==
    IF "spaced" \in texts THEN Lose("undecidable") ELSE Decide(d)

-----------------------------------------------------------------------------
(* cli/inspect.py: the release, the code, the environment and the capture   *)
(* are loaded and the request is built.                                     *)
PassPreflight ==
    /\ pc = "preflight"
    /\ Goto("inspect")
    /\ UNCHANGED <<request, files, damages, interrupts, misread, templates, threadVars, fault,
                   staged>>

(* Failures are published without evidence, by a publisher of their own.    *)
FailPreflight ==
    /\ pc = "preflight"
    /\ \E status \in {"SYSTEM_ERROR", "INVALID_CAPTURE"} :
           decision' = Withheld(status, "none")
    /\ pc' = "approved"
    /\ UNCHANGED <<request, files, damages, interrupts, misread, templates, threadVars, fault,
                   staged, cause, shelfVars>>

(* The entry checks: release and fusion policy, then the capture's identity *)
(* and images, then its gate provenance.  The gate results of a loaded      *)
(* capture are complete and passed (CaptureBundle.validate).                *)
CaptureError == request.capture # "valid" \/ ~Intact("images")

Admit ==
    /\ pc = "inspect"
    /\ IF request.release # "loaded" THEN Decide(Withheld("SYSTEM_ERROR", "none"))
       ELSE IF CaptureError THEN Decide(Withheld("INVALID_CAPTURE", "none"))
       ELSE Goto("crop")
    /\ UNCHANGED <<request, files, damages, interrupts, misread, templates, threadVars, fault,
                   staged>>

(* The except clause around cropping and template matching. *)
TemplateFault(text) ==
    /\ fault' = [fault EXCEPT !["template"] = text]
    /\ DecideUnlessSpaced({text}, Withheld("SYSTEM_ERROR", "none"))

(* crop_batch: every image is hashed again; a failure removes the crops. *)
Crop ==
    /\ pc = "crop"
    /\ Intact("images")
    /\ files' = [files EXCEPT !["crops"] = "good"]
    /\ Goto("template")
    /\ UNCHANGED <<request, damages, interrupts, misread, templates, threadVars, fault, staged>>

FailFirstLayer ==
    /\ pc \in {"crop", "template", "matching"}
    /\ \E text \in Texts : TemplateFault(text)
    /\ UNCHANGED <<request, files, damages, interrupts, misread, templates, threadVars, staged>>

(* The crops are checked, the matcher is loaded and verifies them. *)
VerifyTemplateInputs ==
    /\ pc = "template"
    /\ Intact("crops")
    /\ Goto("matching")
    /\ UNCHANGED <<request, files, damages, interrupts, misread, templates, threadVars, fault,
                   staged>>

Judged(rows)   == \A v \in Views : rows[v] \in Outcomes
Mismatch(rows) == \E v \in Views : rows[v] = "NG_TEMPLATE"

(* The matcher reads the crops; its scores become evidence, and a mismatch  *)
(* ends the inspection; otherwise both branches are submitted.              *)
MatchTemplates ==
    /\ pc = "matching"
    /\ templates' \in [Views -> Outcomes \cup {"none", "irregular"}]
    /\ misread' = (misread \/ files["crops"] # "good")
    /\ IF ~Judged(templates') THEN TemplateFault("spaced") /\ UNCHANGED branch
       ELSE IF Mismatch(templates') THEN
            Decide(Released("NG_TEMPLATE")) /\ UNCHANGED <<branch, fault>>
       ELSE Goto("collect") /\ branch' = [b \in Branches |-> "submitted"]
            /\ UNCHANGED fault
    /\ UNCHANGED <<request, files, damages, interrupts, raw, staged>>

-----------------------------------------------------------------------------
(* The worker threads, _run_model_branch. *)
threadFrame == <<pc, request, damages, interrupts, templates, decision, staged, cause, shelfVars>>

LoadPredictor(b) ==
    /\ branch[b] = "submitted"
    /\ branch' = [branch EXCEPT ![b] = "loaded"]
    /\ UNCHANGED <<threadFrame, files, misread, raw, fault>>

VerifyCrops(b) ==
    /\ branch[b] = "loaded"
    /\ Intact("crops")
    /\ branch' = [branch EXCEPT ![b] = "verified"]
    /\ UNCHANGED <<threadFrame, files, misread, raw, fault>>

(* The predictor reads the crops again; anomaly also renders its visuals,  *)
(* which live as long as the predictor.                                    *)
Predict(b) ==
    /\ branch[b] = "verified"
    /\ branch' = [branch EXCEPT ![b] = "predicted"]
    /\ \E rows \in [Views -> Levels \cup {"none", "irregular"}] :
           raw' = [raw EXCEPT ![b] = rows]
    /\ misread' = (misread \/ files["crops"] # "good")
    /\ files' = IF b = "anomaly" THEN [files EXCEPT !["visuals"] = "good"] ELSE files
    /\ UNCHANGED <<threadFrame, fault>>

(* Loading or predicting fails; the branch name makes any text non-empty. *)
FailBranch(b) ==
    /\ branch[b] \in {"submitted", "loaded", "verified"}
    /\ branch' = [branch EXCEPT ![b] = "done"]
    /\ \E text \in {"word", "spaced"} : fault' = [fault EXCEPT ![b] = text]
    /\ UNCHANGED <<threadFrame, files, misread, raw>>

Regular(rows) == \A v \in Views : rows[v] \in Levels

(* Mutant: resource_guard is not kept, so the predictor deletes its visuals. *)
CalibrateUnguarded(b) ==
    /\ branch[b] = "predicted"
    /\ branch' = [branch EXCEPT ![b] = "done"]
    /\ fault' = [fault EXCEPT ![b] = IF Regular(raw[b]) THEN "none" ELSE "spaced"]
    /\ files' = IF b = "anomaly" THEN [files EXCEPT !["visuals"] = "absent"] ELSE files
    /\ UNCHANGED <<threadFrame, misread, raw>>

(* Exactly one regular row per view becomes evidence; raw rows are kept. *)
Calibrate(b) ==
    /\ branch[b] = "predicted"
    /\ branch' = [branch EXCEPT ![b] = "done"]
    /\ fault' = [fault EXCEPT ![b] = IF Regular(raw[b]) THEN "none" ELSE "spaced"]
    /\ UNCHANGED <<threadFrame, files, misread, raw>>

BranchStep(b) ==
    LoadPredictor(b) \/ VerifyCrops(b) \/ Predict(b) \/ FailBranch(b) \/ Calibrate(b)

-----------------------------------------------------------------------------
(* Fusion. *)
Calibrated(b) == branch[b] = "done" /\ fault[b] = "none"
Faulty == {b \in Branches : fault[b] # "none"}
Rated(level) == {b \in Branches : Calibrated(b) /\ \E v \in Views : raw[b][v] = level}

(* The first branch of strong_priority with a calibrated STRONG row. *)
FirstStrong ==
    IF Primary \in Rated("STRONG") THEN Primary ELSE CHOOSE b \in Rated("STRONG") : TRUE

(* Mutant: STRONG rows count only if no branch failed. *)
StrongStatusIfHealthy ==
    IF Rated("STRONG") = {} \/ Faulty # {} THEN "none" ELSE NG[FirstStrong]

(* The evidence status of the STRONG rows. *)
StrongStatus == IF Rated("STRONG") = {} THEN "none" ELSE NG[FirstStrong]

(* Mutant: a majority vote, one GRAY branch is outvoted by a CLEAR one. *)
FuseModelsByVote ==
    IF Rated("STRONG") # {} THEN Released(StrongStatus)
    ELSE IF Rated("GRAY") = Branches THEN Withheld("REVIEW", "none")
    ELSE Released("OK")

(* Mutant: a GRAY inspection is released as REVIEW. *)
FuseModelsReleasesReview ==
    IF Rated("STRONG") # {} THEN Released(StrongStatus)
    ELSE IF Rated("GRAY") # {} THEN Released("REVIEW")
    ELSE Released("OK")

(* fuse_models: STRONG over GRAY over all CLEAR. *)
FuseModels ==
    IF Rated("STRONG") # {} THEN Released(StrongStatus)
    ELSE IF Rated("GRAY") # {} THEN Withheld("REVIEW", "none")
    ELSE Released("OK")

(* Mutant: the first failed branch cancels the wait for its peer. *)
MergeEarly ==
    /\ pc = "collect"
    /\ (\A b \in Branches : branch[b] = "done") \/ Faulty # {}
    /\ IF Faulty = {} THEN Decide(FuseModels)
       ELSE DecideUnlessSpaced({fault[b] : b \in Faulty}, Withheld("SYSTEM_ERROR", StrongStatus))
    /\ UNCHANGED <<request, files, damages, interrupts, misread, templates, threadVars, fault,
                   staged>>

(* Mutant: the wait ends only if both branches calibrated. *)
MergeHealthy ==
    /\ pc = "collect"
    /\ \A b \in Branches : Calibrated(b)
    /\ Decide(FuseModels)
    /\ UNCHANGED <<request, files, damages, interrupts, misread, templates, threadVars, fault,
                   staged>>

(* Both futures have a result and the pool is shut down. *)
Merge ==
    /\ pc = "collect"
    /\ \A b \in Branches : branch[b] = "done"
    /\ IF Faulty = {} THEN Decide(FuseModels)
       ELSE DecideUnlessSpaced({fault[b] : b \in Faulty}, Withheld("SYSTEM_ERROR", StrongStatus))
    /\ UNCHANGED <<request, files, damages, interrupts, misread, templates, threadVars, fault,
                   staged>>

-----------------------------------------------------------------------------
(* The sink. *)
HasRows(b) == \E v \in Views : raw[b][v] # "none"
HasTemplateRows == \E v \in Views : templates[v] # "none"

(* What the sink copies, and what it hashes without copying. *)
Copied ==
    {"manifest"} \cup (IF files["crops"] # "absent" THEN {"crops"} ELSE {})
                 \cup (IF HasRows("anomaly") THEN {"visuals"} ELSE {})
Rehashed == {"images"} \cup (IF HasTemplateRows THEN {"references"} ELSE {})

(* What validate_inspection_run_for_publication asks of a SYSTEM_ERROR. *)
SystemErrorStands ==
    /\ fault["template"] # "empty"
    /\ ~(Judged(templates) /\ Mismatch(templates))
    /\ (\E b \in Branches : HasRows(b)) => Judged(templates)
    /\ decision.evidence = StrongStatus
    /\ \E b \in Branches : ~Calibrated(b)

(* The decision is the one the retained evidence calls for. *)
DecisionStands ==
    CASE decision.inspection = "INVALID_CAPTURE" -> request.release = "loaded" /\ CaptureError
      [] decision.inspection = "SYSTEM_ERROR"    -> SystemErrorStands
      [] decision.inspection = "NG_TEMPLATE"     ->
             Judged(templates) /\ Mismatch(templates) /\ \A b \in Branches : ~HasRows(b)
      [] OTHER ->
             /\ Judged(templates) /\ ~Mismatch(templates)
             /\ \A b \in Branches : Calibrated(b)
             /\ decision = FuseModels

(* validate_inspection_run_for_publication, the template references, and    *)
(* load_capture_bundle against the topology of the loaded release.          *)
Publishable ==
    /\ DecisionStands
    /\ \A v \in Views : templates[v] # "irregular" /\ \A b \in Branches : raw[b][v] # "irregular"
    /\ request.capture # "foreign"
    /\ \A f \in Copied \cup Rehashed : Intact(f)

Validate ==
    /\ pc = "decided"
    /\ IF Publishable THEN Goto("staging") ELSE Lose("rejected")
    /\ UNCHANGED <<request, files, damages, interrupts, misread, templates, threadVars, fault,
                   staged>>

(* The publisher is entered and the evidence copied, each copy hashed. *)
CopyEvidence ==
    /\ pc = "staging"
    /\ IF \A f \in Copied : Intact(f)
       THEN Goto("staged") /\ staged' = [f \in Files |-> IF f \in Copied THEN files[f] ELSE "absent"]
       ELSE Lose("rejected") /\ UNCHANGED staged
    /\ UNCHANGED <<request, files, damages, interrupts, misread, templates, threadVars, fault>>

(* _validate_staging validates the whole run again. *)
ValidateStaging ==
    /\ pc = "staged"
    /\ IF Publishable THEN Goto("approved") ELSE Lose("rejected")
    /\ UNCHANGED <<request, files, damages, interrupts, misread, templates, threadVars, fault,
                   staged>>

Rename ==
    /\ pc = "approved"
    /\ Shelf!Claim(Me)
    /\ pc' = "visible"
    /\ UNCHANGED <<request, files, damages, interrupts, misread, templates, threadVars, fault,
                   decision, staged, cause>>

(* The lock is held, the id is taken, or the file system fails. *)
PublicationFails ==
    /\ pc \in {"staging", "staged", "approved"}
    /\ Lose("publication")
    /\ UNCHANGED <<request, files, damages, interrupts, misread, templates, threadVars, fault,
                   staged>>

(* inspect returns; or the final flush failed, PublicationDurabilityError. *)
Answer ==
    /\ pc = "visible"
    /\ \/ Shelf!Confirm(Me) /\ pc' = "returned" /\ UNCHANGED cause
       \/ Shelf!Doubt(Me) /\ pc' = "raised" /\ cause' = "publication"
    /\ UNCHANGED <<request, files, damages, interrupts, misread, templates, threadVars, fault,
                   decision, staged>>

-----------------------------------------------------------------------------
(* Control-C, at any moment. *)
Pressed ==
    /\ pc \notin Ended
    /\ interrupts' = interrupts + 1
    /\ UNCHANGED <<request, files, damages, misread, templates, threadVars, fault, staged>>

(* After the rename nothing is undone: an outcome without an answer. *)
LeaveUnanswered ==
    /\ pc = "visible"
    /\ pc' = "raised" /\ cause' = "interrupt"
    /\ UNCHANGED <<decision, shelfVars>>

(* Mutant: the first interrupt leaves the pool without waiting for it. *)
InterruptNow ==
    /\ Pressed
    /\ \/ LeaveUnanswered
       \/ pc # "visible" /\ Lose("interrupt")

(* KeyboardInterrupt is not caught.  While the branches run the pool's exit *)
(* joins its threads; a second interrupt breaks off that join.              *)
Interrupt ==
    /\ Pressed
    /\ \/ pc = "collect" /\ Goto("unwinding")
       \/ LeaveUnanswered
       \/ pc \notin {"collect", "visible"} /\ Lose("interrupt")

Unwind ==
    /\ pc = "unwinding"
    /\ \A b \in Branches : branch[b] = "done"
    /\ Lose("interrupt")
    /\ UNCHANGED <<request, files, damages, interrupts, misread, templates, threadVars, fault,
                   staged>>

(* cli/inspect.py: the TemporaryDirectory goes, whoever still reads in it. *)
RemoveCrops ==
    /\ pc \in Ended
    /\ files["crops"] # "absent"
    /\ files' = [files EXCEPT !["crops"] = "absent"]
    /\ UNCHANGED <<pc, request, damages, interrupts, misread, templates, threadVars, fault,
                   decision, staged, cause, shelfVars>>

(* A file changes or disappears and does not come back as it was. *)
Damage ==
    /\ damages < MaxDamages
    /\ pc \notin Ended
    /\ \E f \in Files :
           /\ files[f] = "good"
           /\ files' = [files EXCEPT ![f] = "bad"]
    /\ damages' = damages + 1
    /\ UNCHANGED <<pc, request, interrupts, misread, templates, threadVars, fault, decision,
                   staged, cause, shelfVars>>

(* Somebody else takes the inspection id. *)
IdTaken ==
    /\ pc \notin Ended
    /\ Shelf!ClaimByStranger
    /\ UNCHANGED <<pc, request, files, damages, interrupts, misread, templates, threadVars, fault,
                   decision, staged, cause>>

-----------------------------------------------------------------------------
Coordinate ==
    \/ PassPreflight
    \/ FailPreflight
    \/ Admit
    \/ Crop
    \/ FailFirstLayer
    \/ VerifyTemplateInputs
    \/ MatchTemplates
    \/ Merge
    \/ Validate
    \/ CopyEvidence
    \/ ValidateStaging
    \/ Rename
    \/ PublicationFails
    \/ Answer
    \/ Unwind
    \/ RemoveCrops

Environment ==
    \/ Interrupt
    \/ Damage
    \/ IdTaken

Next ==
    \/ Coordinate
    \/ \E b \in Branches : BranchStep(b)
    \/ Environment

Spec == Init /\ [][Next]_vars

(* Loading, predicting and the file system return or raise; the executor    *)
(* has a thread for each branch (max_workers = len(branch_specs)).          *)
FairSpec == Spec /\ WF_vars(Coordinate) /\ \A b \in Branches : WF_vars(BranchStep(b))

-----------------------------------------------------------------------------
(* The types of the variables, and of the values an action may write. *)
TypeOK ==
    /\ pc \in PCs
    /\ request \in [release : {"loaded", "other"}, capture : {"valid", "disallowed", "foreign"}]
    /\ files \in [Files -> States]
    /\ damages \in 0..MaxDamages /\ interrupts \in Nat
    /\ misread \in BOOLEAN
    /\ templates \in [Views -> Outcomes \cup {"none", "irregular"}]
    /\ branch \in [Branches -> {"idle", "submitted", "loaded", "verified", "predicted", "done"}]
    /\ raw \in [Branches -> [Views -> Levels \cup {"none", "irregular"}]]
    /\ fault \in [Stages -> Texts \cup {"none"}]
    /\ decision \in Decisions \cup {NoDecision}
    /\ staged \in [Files -> States]
    /\ cause \in {"none", "undecidable", "rejected", "publication", "interrupt"}
    /\ owner \in {Me, NoOne, Foreign}
    /\ settled \in BOOLEAN
    /\ answer \in [{Me} -> {"pending", "published", "unknown", "refused"}]

(* A visible decision that releases the part rests on complete evidence of  *)
(* both layers: no stage failed, every view passed or one was mismatched,   *)
(* OK needs every row of every branch CLEAR, and the status of a STRONG row *)
(* is that of the first branch in the policy that has one.                  *)
ReleaseIsEarned ==
    owner = Me /\ decision.released # "none" =>
        /\ \A s \in Stages : fault[s] = "none"
        /\ Judged(templates)
        /\ decision.released = "NG_TEMPLATE" <=> Mismatch(templates)
        /\ decision.released # "NG_TEMPLATE" =>
               \A b \in Branches : branch[b] = "done" /\ Regular(raw[b])
        /\ decision.released = "OK" =>
               \A b \in Branches, v \in Views : raw[b][v] = "CLEAR"
        /\ \A b \in Branches : decision.released = NG[b] =>
               /\ \E v \in Views : raw[b][v] = "STRONG"
               /\ b = Primary \/ \A v \in Views : raw[Primary][v] # "STRONG"

(* Whatever happens to its peer, a branch that calibrated a STRONG row      *)
(* leaves its trace in every visible decision.                              *)
StrongIsNeverDropped ==
    owner = Me /\ Rated("STRONG") # {} => decision.evidence \in {NG[b] : b \in Rated("STRONG")}

(* What is visible was copied undamaged, and was scored from these bytes:   *)
(* no predictor read other crops after it had verified them.                *)
PublishedIsWhatWasScored ==
    owner = Me =>
        /\ \A f \in Files : staged[f] # "bad"
        /\ HasTemplateRows => staged["crops"] = "good" /\ ~misread
        /\ HasRows("anomaly") => staged["visuals"] = "good"

(* The caller deletes the crops when inspect has returned or raised.  No    *)
(* worker thread still reads them then, unless Control-C was pressed again  *)
(* while the pool waited for its threads.                                   *)
NoReaderLeftBehind ==
    pc \in Ended /\ interrupts < 2 => \A b \in Branches : branch[b] \in {"idle", "done"}

(* An inspection without an outcome has a reason to have none: the sink     *)
(* only rejects after damage, a capture of another topology, or an error    *)
(* without a text, and a decision is only impossible after an error whose   *)
(* text has whitespace.                                                     *)
NoOutcomeForACause ==
    /\ cause = "rejected" =>
           damages > 0 \/ request.capture = "foreign" \/ fault["template"] = "empty"
    /\ cause = "undecidable" => \E s \in Stages : fault[s] = "spaced"

(* Every inspection ends: with an outcome or with an exception. *)
InspectionEnds == <>(pc \in Ended)

(* The inspection implements the verdict it promises: the branches run      *)
(* concurrently, stages fail and files are checked three times, and still   *)
(* the published decision is that function of the evidence.                 *)
Worst(b) ==
    IF fault[b] # "none" THEN "fault"
    ELSE IF b \in Rated("STRONG") THEN "STRONG"
    ELSE IF b \in Rated("GRAY") THEN "GRAY"
    ELSE "CLEAR"

Promise == INSTANCE StrictVerdict WITH
    template <- IF fault["template"] # "none" THEN "fault"
                ELSE IF ~Judged(templates) THEN "unknown"
                ELSE IF Mismatch(templates) THEN "mismatch" ELSE "match",
    model    <- [b \in Branches |-> IF branch[b] # "done" THEN "unknown" ELSE Worst(b)],
    verdict  <- IF owner = Me THEN decision
                ELSE Withheld(IF pc = "raised" THEN "lost" ELSE "open", "none")

ImplementsVerdict == Promise!Spec

(* docs/ZS32_REFACTOR_BLUEPRINT.md:738-743: when one branch has found a     *)
(* STRONG row and the other fails, the result is SYSTEM_ERROR with that NG  *)
(* as evidence status.  Only an interrupt, damage or a failed publication   *)
(* may prevent the report.                                                  *)
StrongIsReported ==
    pc = "raised" /\ cause \notin {"interrupt", "publication"} /\ damages = 0
        => Rated("STRONG") = {}

(* docs/ZS32_REFACTOR_BLUEPRINT.md:720,727: an inspection that finds the    *)
(* images of a capture changed reports INVALID_CAPTURE.                     *)
InvalidCaptureIsReported ==
    pc = "raised" /\ cause \notin {"interrupt", "publication"} /\ request.capture = "valid"
        => decision.inspection # "INVALID_CAPTURE"

=============================================================================
