-------------------------- MODULE InspectionProofs --------------------------
(***************************************************************************)
(* Proofs about Inspection, for every set of views, either priority of the *)
(* branches and every number of damaged files.                             *)
(***************************************************************************)
EXTENDS Inspection, TLAPS

(* The status a STRONG row stands for names a branch that has one, and the *)
(* first branch of the priority if that one has.                           *)
LEMMA StrongStatusNames ==
    /\ Rated("STRONG") = {} => StrongStatus = "none"
    /\ Rated("STRONG") # {} =>
           \E b \in Rated("STRONG") :
               StrongStatus = NG[b] /\ (b = Primary \/ Primary \notin Rated("STRONG"))
<1>1. Rated("STRONG") # {} =>
          /\ FirstStrong \in Rated("STRONG")
          /\ FirstStrong = Primary \/ Primary \notin Rated("STRONG")
  BY DEF FirstStrong
<1> QED BY <1>1 DEF StrongStatus

(* What the fusion yields is a legal decision. *)
LEMMA DecisionTypes ==
    /\ FuseModels \in Decisions
    /\ Withheld("SYSTEM_ERROR", StrongStatus) \in Decisions
<1>1. \A b \in Rated("STRONG") : NG[b] \in {"NG_ANOMALY", "NG_YOLO"}
  BY DEF Rated, Branches, NG
<1>2. StrongStatus \in {"none", "NG_ANOMALY", "NG_YOLO"}
  BY <1>1, StrongStatusNames
<1>3. Rated("STRONG") # {} => StrongStatus \in {"NG_ANOMALY", "NG_YOLO"}
  BY <1>1, StrongStatusNames
<1> QED BY <1>2, <1>3 DEF FuseModels, Decisions

LEMMA Decided ==
    /\ \A s \in {"SYSTEM_ERROR", "INVALID_CAPTURE"} : Withheld(s, "none") \in Decisions
    /\ Released("NG_TEMPLATE") \in Decisions
    /\ NoDecision \notin Decisions
<1>1. \A d \in Decisions : d.inspection # "none"
  BY DEF Decisions, Released, Withheld
<1>2. NoDecision.inspection = "none"
  BY DEF NoDecision, Withheld
<1> QED BY <1>1, <1>2 DEF Decisions

LEMMA InitType == Init => TypeOK
<1> SUFFICES ASSUME Init PROVE TypeOK
  OBVIOUS
<1>1. pc \in PCs /\ damages \in 0..MaxDamages
  BY ConstantsAssumption DEF Init, PCs
<1>2. files \in [Files -> States] /\ staged \in [Files -> States]
  BY DEF Init, States
<1>3. branch \in [Branches -> {"idle", "submitted", "loaded", "verified", "predicted", "done"}]
  BY DEF Init
<1>4. fault \in [Stages -> Texts \cup {"none"}]
  BY DEF Init
<1>5. owner \in {Me, NoOne, Foreign} /\ settled \in BOOLEAN
      /\ answer \in [{Me} -> {"pending", "published", "unknown", "refused"}]
  BY DEF Init, Shelf!Init
<1>6. /\ templates \in [Views -> Outcomes \cup {"none", "irregular"}]
      /\ raw \in [Branches -> [Views -> Levels \cup {"none", "irregular"}]]
  BY DEF Init
<1> QED BY <1>1, <1>2, <1>3, <1>4, <1>5, <1>6 DEF Init, TypeOK

LEMMA NextType == TypeOK /\ [Next]_vars => TypeOK'
<1> SUFFICES ASSUME TypeOK, [Next]_vars PROVE TypeOK'
  OBVIOUS
<1> USE ConstantsAssumption, Decided, DecisionTypes
        DEF TypeOK, Goto, Decide, DecideUnlessSpaced, Lose, shelfVars, threadVars, PCs, Ended,
            Shelf!Refuse
<1>1. CASE Coordinate
  <2>1. CASE PassPreflight
    BY <2>1 DEF PassPreflight
  <2>2. CASE FailPreflight
    BY <2>2 DEF FailPreflight
  <2>3. CASE Admit
    BY <2>3 DEF Admit
  <2>4. CASE Crop
    BY <2>4 DEF Crop, Files, States
  <2>5. CASE FailFirstLayer
    BY <2>5 DEF FailFirstLayer, TemplateFault, Stages, Texts
  <2>6. CASE VerifyTemplateInputs
    BY <2>6 DEF VerifyTemplateInputs
  <2>7. CASE MatchTemplates
    BY <2>7 DEF MatchTemplates, TemplateFault, Stages, Texts
  <2>8. CASE Merge
    BY <2>8 DEF Merge
  <2>9. CASE Validate
    BY <2>9 DEF Validate
  <2>10. CASE CopyEvidence
    BY <2>10 DEF CopyEvidence, Files, States
  <2>11. CASE ValidateStaging
    BY <2>11 DEF ValidateStaging
  <2>12. CASE Rename
    BY <2>12 DEF Rename, Shelf!Claim
  <2>13. CASE PublicationFails
    BY <2>13 DEF PublicationFails
  <2>14. CASE Answer
    BY <2>14 DEF Answer, Shelf!Confirm, Shelf!Doubt
  <2>15. CASE Unwind
    BY <2>15 DEF Unwind
  <2>16. CASE RemoveCrops
    BY <2>16 DEF RemoveCrops, Files, States
  <2> QED BY <1>1, <2>1, <2>2, <2>3, <2>4, <2>5, <2>6, <2>7, <2>8, <2>9,
         <2>10, <2>11, <2>12, <2>13, <2>14, <2>15, <2>16 DEF Coordinate
<1>2. ASSUME NEW b \in Branches, BranchStep(b) PROVE TypeOK'
  <2>1. CASE LoadPredictor(b)
    BY <2>1 DEF LoadPredictor, threadFrame
  <2>2. CASE VerifyCrops(b)
    BY <2>2 DEF VerifyCrops, threadFrame
  <2>3. CASE Predict(b)
    BY <2>3 DEF Predict, threadFrame, Files, States
  <2>4. CASE FailBranch(b)
    BY <2>4 DEF FailBranch, threadFrame, Stages, Texts
  <2>5. CASE Calibrate(b)
    BY <2>5 DEF Calibrate, threadFrame, Stages, Texts
  <2> QED BY <1>2, <2>1, <2>2, <2>3, <2>4, <2>5 DEF BranchStep
<1>3. CASE Environment
  <2>1. CASE Interrupt
    BY <2>1 DEF Interrupt, Pressed, LeaveUnanswered
  <2>2. CASE Damage
    BY <2>2 DEF Damage, States
  <2>3. CASE IdTaken
    BY <2>3 DEF IdTaken, Shelf!ClaimByStranger
  <2> QED BY <1>3, <2>1, <2>2, <2>3 DEF Environment
<1>4. CASE UNCHANGED vars
  BY <1>4 DEF vars
<1> QED BY <1>1, <1>2, <1>3, <1>4 DEF Next

(* Type correctness of an inspection. *)
THEOREM Typing == Spec => []TypeOK
BY InitType, NextType, PTL DEF Spec

-----------------------------------------------------------------------------
(* The inductive invariant.                                                *)
(* Phases: what has happened by each phase of the coordinator.             *)
First  == {"preflight", "inspect", "crop", "template", "matching"}
Second == {"collect", "unwinding"}
Late   == {"decided", "staging", "staged", "approved", "visible", "returned"}

(* The wait for the worker threads was broken off; they run on, for nobody. *)
Abandoned == pc = "raised" /\ interrupts = 2

Phases ==
    /\ pc \in First =>
           /\ \A b \in Branches : branch[b] = "idle"
           /\ fault["template"] = "none"
           /\ ~misread
           /\ \A v \in Views : templates[v] = "none"
    /\ pc \in Second =>
           /\ \A b \in Branches : branch[b] # "idle"
           /\ fault["template"] = "none"
           /\ Judged(templates) /\ ~Mismatch(templates)
    /\ pc \in Second \/ Abandoned \/ \A b \in Branches : branch[b] \in {"idle", "done"}
    /\ pc = "unwinding" => interrupts = 1
    /\ pc \notin {"unwinding", "raised"} => interrupts = 0
    /\ interrupts = 2 =>
           /\ decision = NoDecision
           /\ fault["template"] = "none"
           /\ Judged(templates) /\ ~Mismatch(templates)
    /\ interrupts \in 0..2
    /\ pc \in First \cup Second => decision = NoDecision
    /\ pc \in Late => decision # NoDecision
    /\ owner = Me => pc \in {"visible", "returned", "raised"} /\ decision # NoDecision
    /\ pc = "visible" => owner = Me

(* Evidence: a branch has rows once it has predicted, what it has when it  *)
(* is done without a fault is regular, and irregular rows cost an error    *)
(* text that no decision can carry.                                        *)
Evidence ==
    \A b \in Branches :
        /\ branch[b] # "done" => fault[b] = "none"
        /\ branch[b] = "done" /\ fault[b] = "none" => Regular(raw[b])
        /\ branch[b] = "done" /\ fault[b] \notin {"none", "spaced"} =>
               \A v \in Views : raw[b][v] # "irregular"
        /\ branch[b] \in {"idle", "submitted", "loaded", "verified"} =>
               \A v \in Views : raw[b][v] = "none"

(* Earned: ReleaseIsEarned from the moment of the decision on.             *)
Earned ==
    decision.released # "none" =>
        /\ \A s \in Stages : fault[s] = "none"
        /\ Judged(templates)
        /\ decision.released = "NG_TEMPLATE" <=> Mismatch(templates)
        /\ decision.released # "NG_TEMPLATE" =>
               \A b \in Branches : branch[b] = "done" /\ Regular(raw[b])
        /\ decision.released = "OK" =>
               \A b \in Branches, v \in Views : raw[b][v] = "CLEAR"
        /\ \A b \in Branches : decision.released = NG[b] =>
               /\ \E v \in Views : raw[b][v] = "STRONG"
               /\ b = Primary \/ \A v \in Views : raw[Primary][v] # "STRONG"

(* Kept: no decision forgets a STRONG row.                                 *)
Kept ==
    decision # NoDecision /\ Rated("STRONG") # {} =>
        decision.evidence \in {NG[b] : b \in Rated("STRONG")}

(* Present: which files there are, and that a damaged one stays damaged.   *)
Present ==
    /\ \A f \in {"images", "manifest", "references"} : files[f] # "absent"
    /\ pc \in {"template", "matching"} \cup Second => files["crops"] # "absent"
    /\ pc \notin Ended /\ HasTemplateRows => files["crops"] # "absent"
    /\ HasRows("anomaly") => files["visuals"] # "absent"
    /\ misread => Abandoned \/ damages > 0
    /\ misread /\ pc \notin Ended => files["crops"] = "bad"
    /\ damages = 0 => \A f \in Files : files[f] # "bad"

(* Fresh: what the sink has copied, and established of it.                 *)
Fresh ==
    /\ \A f \in Files : staged[f] # "bad"
    /\ pc \in {"staged", "approved", "visible", "returned"} \/ owner = Me =>
        /\ HasTemplateRows => staged["crops"] = "good"
        /\ HasRows("anomaly") => staged["visuals"] = "good"
    /\ pc \in {"approved", "visible", "returned"} \/ owner = Me =>
           (HasTemplateRows => ~misread)

(* Sound: unless something was done to the inspection, the sink agrees.    *)
Harmed == damages > 0 \/ request.capture = "foreign" \/ fault["template"] = "empty"

Regularity ==
    \A v \in Views : templates[v] # "irregular" /\ \A b \in Branches : raw[b][v] # "irregular"

Sound ==
    /\ pc \in {"decided", "staging", "staged"} => Harmed \/ (DecisionStands /\ Regularity)
    /\ cause = "rejected" => Harmed
    /\ cause = "undecidable" => \E s \in Stages : fault[s] = "spaced"

IInv == TypeOK /\ Phases /\ Evidence /\ Earned /\ Kept /\ Present /\ Fresh /\ Sound

-----------------------------------------------------------------------------
(* Each step keeps the phases. *)
LEMMA PhasesStep == TypeOK /\ Phases /\ [Next]_vars => Phases'
<1> SUFFICES ASSUME TypeOK /\ Phases, [Next]_vars PROVE Phases'
  OBVIOUS
<1> USE ConstantsAssumption, Decided, DecisionTypes
        DEF TypeOK, Phases, First, Second, Late, Abandoned, Goto, Decide, DecideUnlessSpaced, Lose,
            shelfVars, threadVars, Ended, Shelf!Refuse
<1>1. CASE Coordinate
  <2>1. CASE PassPreflight
    BY <2>1 DEF PassPreflight
  <2>2. CASE FailPreflight
    BY <2>2 DEF FailPreflight
  <2>3. CASE Admit
    BY <2>3 DEF Admit
  <2>4. CASE Crop
    BY <2>4 DEF Crop
  <2>5. CASE FailFirstLayer
    BY <2>5 DEF FailFirstLayer, TemplateFault, Stages, Texts
  <2>6. CASE VerifyTemplateInputs
    BY <2>6 DEF VerifyTemplateInputs
  <2>7. CASE MatchTemplates
    BY <2>7 DEF MatchTemplates, TemplateFault, Stages, Texts
  <2>8. CASE Merge
    BY <2>8 DEF Merge
  <2>9. CASE Validate
    BY <2>9 DEF Validate
  <2>10. CASE CopyEvidence
    BY <2>10 DEF CopyEvidence
  <2>11. CASE ValidateStaging
    BY <2>11 DEF ValidateStaging
  <2>12. CASE Rename
    BY <2>12 DEF Rename, Shelf!Claim
  <2>13. CASE PublicationFails
    BY <2>13 DEF PublicationFails
  <2>14. CASE Answer
    BY <2>14 DEF Answer, Shelf!Confirm, Shelf!Doubt
  <2>15. CASE Unwind
    BY <2>15 DEF Unwind
  <2>16. CASE RemoveCrops
    BY <2>16 DEF RemoveCrops, Files, States
  <2> QED BY <1>1, <2>1, <2>2, <2>3, <2>4, <2>5, <2>6, <2>7, <2>8, <2>9,
         <2>10, <2>11, <2>12, <2>13, <2>14, <2>15, <2>16 DEF Coordinate
<1>2. ASSUME NEW b \in Branches, BranchStep(b) PROVE Phases'
  <2>1. CASE LoadPredictor(b)
    BY <2>1 DEF LoadPredictor, threadFrame
  <2>2. CASE VerifyCrops(b)
    BY <2>2 DEF VerifyCrops, threadFrame
  <2>3. CASE Predict(b)
    BY <2>3 DEF Predict, threadFrame
  <2>4. CASE FailBranch(b)
    BY <2>4 DEF FailBranch, threadFrame, Stages, Branches
  <2>5. CASE Calibrate(b)
    BY <2>5 DEF Calibrate, threadFrame, Stages, Branches
  <2> QED BY <1>2, <2>1, <2>2, <2>3, <2>4, <2>5 DEF BranchStep
<1>3. CASE Environment
  <2>1. CASE Interrupt
    BY <2>1 DEF Interrupt, Pressed, LeaveUnanswered
  <2>2. CASE Damage
    BY <2>2 DEF Damage
  <2>3. CASE IdTaken
    BY <2>3 DEF IdTaken, Shelf!ClaimByStranger
  <2> QED BY <1>3, <2>1, <2>2, <2>3 DEF Environment
<1>4. CASE UNCHANGED vars
  BY <1>4 DEF vars
<1> QED BY <1>1, <1>2, <1>3, <1>4 DEF Next

(* Each step keeps the evidence. *)
LEMMA EvidenceStep == TypeOK /\ Phases /\ Evidence /\ [Next]_vars => Evidence'
<1> SUFFICES ASSUME TypeOK /\ Phases /\ Evidence, [Next]_vars PROVE Evidence'
  OBVIOUS
<1> USE ConstantsAssumption
        DEF TypeOK, Evidence, threadVars, Stages, Branches
<1>1. CASE Coordinate
  <2>1. CASE PassPreflight
    BY <2>1 DEF PassPreflight
  <2>2. CASE FailPreflight
    BY <2>2 DEF FailPreflight
  <2>3. CASE Admit
    BY <2>3 DEF Admit
  <2>4. CASE Crop
    BY <2>4 DEF Crop
  <2>5. CASE FailFirstLayer
    BY <2>5 DEF FailFirstLayer, TemplateFault
  <2>6. CASE VerifyTemplateInputs
    BY <2>6 DEF VerifyTemplateInputs
  <2>7. CASE MatchTemplates
    BY <2>7 DEF MatchTemplates, Phases, First, TemplateFault, Goto
  <2>8. CASE Merge
    BY <2>8 DEF Merge
  <2>9. CASE Validate
    BY <2>9 DEF Validate
  <2>10. CASE CopyEvidence
    BY <2>10 DEF CopyEvidence
  <2>11. CASE ValidateStaging
    BY <2>11 DEF ValidateStaging
  <2>12. CASE Rename
    BY <2>12 DEF Rename
  <2>13. CASE PublicationFails
    BY <2>13 DEF PublicationFails
  <2>14. CASE Answer
    BY <2>14 DEF Answer
  <2>15. CASE Unwind
    BY <2>15 DEF Unwind
  <2>16. CASE RemoveCrops
    BY <2>16 DEF RemoveCrops, Files, States
  <2> QED BY <1>1, <2>1, <2>2, <2>3, <2>4, <2>5, <2>6, <2>7, <2>8, <2>9,
         <2>10, <2>11, <2>12, <2>13, <2>14, <2>15, <2>16 DEF Coordinate
<1>2. ASSUME NEW b \in Branches, BranchStep(b) PROVE Evidence'
  <2>1. CASE LoadPredictor(b)
    BY <2>1 DEF LoadPredictor, threadFrame
  <2>2. CASE VerifyCrops(b)
    BY <2>2 DEF VerifyCrops, threadFrame
  <2>3. CASE Predict(b)
    BY <2>3 DEF Predict, threadFrame
  <2>4. CASE FailBranch(b)
    BY <2>4 DEF FailBranch, threadFrame, Texts
  <2>5. CASE Calibrate(b)
    BY <2>5 DEF Calibrate, threadFrame
  <2> QED BY <1>2, <2>1, <2>2, <2>3, <2>4, <2>5 DEF BranchStep
<1>3. CASE Environment
  <2>1. CASE Interrupt
    BY <2>1 DEF Interrupt, Pressed, LeaveUnanswered
  <2>2. CASE Damage
    BY <2>2 DEF Damage
  <2>3. CASE IdTaken
    BY <2>3 DEF IdTaken
  <2> QED BY <1>3, <2>1, <2>2, <2>3 DEF Environment
<1>4. CASE UNCHANGED vars
  BY <1>4 DEF vars
<1> QED BY <1>1, <1>2, <1>3, <1>4 DEF Next

(* A worker thread only runs while, or where, nothing is decided. *)
LEMMA Undecided ==
    ASSUME Phases, NEW b \in Branches, branch[b] \notin {"idle", "done"}
    PROVE  (pc \in Second \/ Abandoned) /\ decision = NoDecision /\ owner # Me
BY DEF Phases, Abandoned, Second

(* What the fusion releases is earned. *)
LEMMA FusionEarned ==
    ASSUME TypeOK, Evidence, Faulty = {}, \A b \in Branches : branch[b] = "done"
    PROVE  /\ \A b \in Branches : Regular(raw[b])
           /\ FuseModels.released \in {"none", "OK", "NG_ANOMALY", "NG_YOLO"}
           /\ FuseModels.released = "OK" =>
                  \A b \in Branches, v \in Views : raw[b][v] = "CLEAR"
           /\ \A b \in Branches : FuseModels.released = NG[b] =>
                  /\ \E v \in Views : raw[b][v] = "STRONG"
                  /\ b = Primary \/ \A v \in Views : raw[Primary][v] # "STRONG"
<1>1. \A b \in Branches : Calibrated(b) /\ Regular(raw[b])
  BY DEF Evidence, Faulty, Calibrated
<1>2. \A b \in Branches, level \in Levels :
          b \in Rated(level) <=> \E v \in Views : raw[b][v] = level
  BY <1>1 DEF Rated
<1>3. NG["anomaly"] = "NG_ANOMALY" /\ NG["yolo"] = "NG_YOLO" /\ Branches = {"anomaly", "yolo"}
  BY DEF NG, Branches
<1>4. CASE Rated("STRONG") # {}
  <2>1. PICK s \in Rated("STRONG") :
            StrongStatus = NG[s] /\ (s = Primary \/ Primary \notin Rated("STRONG"))
    BY <1>4, StrongStatusNames
  <2>2. s \in Branches /\ StrongStatus \in {"NG_ANOMALY", "NG_YOLO"}
    BY <2>1, <1>3 DEF Rated
  <2>3. FuseModels.released = StrongStatus
    BY <1>4 DEF FuseModels, Released
  <2>4. \A b \in Branches : StrongStatus = NG[b] => b = s
    BY <2>1, <2>2, <1>3
  <2> QED BY <1>1, <1>2, <2>1, <2>2, <2>3, <2>4, ConstantsAssumption DEF Levels
<1>5. CASE Rated("STRONG") = {} /\ Rated("GRAY") # {}
  <2>1. FuseModels.released = "none"
    BY <1>5 DEF FuseModels, Withheld
  <2> QED BY <1>1, <1>3, <2>1
<1>6. CASE Rated("STRONG") = {} /\ Rated("GRAY") = {}
  <2>1. FuseModels.released = "OK"
    BY <1>6 DEF FuseModels, Released
  <2>2. \A b \in Branches, v \in Views : raw[b][v] = "CLEAR"
    BY <1>1, <1>2, <1>6 DEF Regular, Levels
  <2> QED BY <1>1, <1>3, <2>1, <2>2
<1> QED BY <1>4, <1>5, <1>6

(* A decision that is withheld, or not taken, releases nothing. *)
LEMMA WithheldReleasesNothing ==
    /\ \A s, e : Withheld(s, e).released = "none"
    /\ NoDecision.released = "none"
    /\ Released("NG_TEMPLATE").released = "NG_TEMPLATE"
BY DEF Withheld, NoDecision, Released

(* Each step keeps releases earned. *)
LEMMA EarnedStep == TypeOK /\ Phases /\ Evidence /\ Earned /\ [Next]_vars => Earned'
<1> SUFFICES ASSUME TypeOK /\ Phases /\ Evidence /\ Earned, [Next]_vars PROVE Earned'
  OBVIOUS
<1> USE ConstantsAssumption, WithheldReleasesNothing, Undecided
        DEF TypeOK, Earned, Goto, Decide, DecideUnlessSpaced, Lose, threadVars
<1>1. CASE Coordinate
  <2>1. CASE PassPreflight
    BY <2>1 DEF PassPreflight
  <2>2. CASE FailPreflight
    BY <2>2 DEF FailPreflight
  <2>3. CASE Admit
    BY <2>3 DEF Admit
  <2>4. CASE Crop
    BY <2>4 DEF Crop
  <2>5. CASE FailFirstLayer
    BY <2>5 DEF FailFirstLayer, TemplateFault, Phases, First
  <2>6. CASE VerifyTemplateInputs
    BY <2>6 DEF VerifyTemplateInputs
  <2>7. CASE MatchTemplates
    <3>1. CASE ~Judged(templates')
      BY <2>7, <3>1 DEF MatchTemplates, TemplateFault, Phases, First
    <3>2. CASE Judged(templates') /\ Mismatch(templates')
      <4>1. decision' = Released("NG_TEMPLATE") /\ branch' = branch /\ fault' = fault /\ raw' = raw
        BY <2>7, <3>2 DEF MatchTemplates
      <4>2. \A s \in Stages : fault[s] = "none"
        BY <2>7 DEF MatchTemplates, Stages, Phases, First, Evidence
      <4>3. \A b \in Branches : NG[b] # "NG_TEMPLATE"
        BY DEF NG, Branches
      <4> QED BY <3>2, <4>1, <4>2, <4>3
    <3>3. CASE Judged(templates') /\ ~Mismatch(templates')
      BY <2>7, <3>3 DEF MatchTemplates, Phases, First
    <3> QED BY <3>1, <3>2, <3>3
  <2>8. CASE Merge
    <3>1. CASE Faulty = {}
      <4>1. decision' = FuseModels
        BY <2>8, <3>1 DEF Merge
      <4>2. \A s \in Stages : fault[s] = "none"
        BY <2>8, <3>1 DEF Merge, Faulty, Stages, Phases, Second
      <4>3. \A b \in Branches : branch[b] = "done"
        BY <2>8 DEF Merge
      <4> QED BY <2>8, <3>1, <4>1, <4>2, <4>3, FusionEarned DEF Merge, Phases, Second
    <3>2. CASE Faulty # {}
      BY <2>8, <3>2 DEF Merge, Phases, Second
    <3> QED BY <3>1, <3>2
  <2>9. CASE Validate
    BY <2>9 DEF Validate
  <2>10. CASE CopyEvidence
    BY <2>10 DEF CopyEvidence
  <2>11. CASE ValidateStaging
    BY <2>11 DEF ValidateStaging
  <2>12. CASE Rename
    BY <2>12 DEF Rename
  <2>13. CASE PublicationFails
    BY <2>13 DEF PublicationFails
  <2>14. CASE Answer
    BY <2>14 DEF Answer
  <2>15. CASE Unwind
    BY <2>15 DEF Unwind
  <2>16. CASE RemoveCrops
    BY <2>16 DEF RemoveCrops, Files, States
  <2> QED BY <1>1, <2>1, <2>2, <2>3, <2>4, <2>5, <2>6, <2>7, <2>8, <2>9,
         <2>10, <2>11, <2>12, <2>13, <2>14, <2>15, <2>16 DEF Coordinate
<1>2. ASSUME NEW b \in Branches, BranchStep(b) PROVE Earned'
  <2>1. CASE LoadPredictor(b)
    BY <2>1 DEF LoadPredictor, threadFrame
  <2>2. CASE VerifyCrops(b)
    BY <2>2 DEF VerifyCrops, threadFrame
  <2>3. CASE Predict(b)
    BY <2>3 DEF Predict, threadFrame
  <2>4. CASE FailBranch(b)
    BY <2>4 DEF FailBranch, threadFrame
  <2>5. CASE Calibrate(b)
    BY <2>5 DEF Calibrate, threadFrame
  <2> QED BY <1>2, <2>1, <2>2, <2>3, <2>4, <2>5 DEF BranchStep
<1>3. CASE Environment
  <2>1. CASE Interrupt
    BY <2>1 DEF Interrupt, Pressed, LeaveUnanswered
  <2>2. CASE Damage
    BY <2>2 DEF Damage
  <2>3. CASE IdTaken
    BY <2>3 DEF IdTaken
  <2> QED BY <1>3, <2>1, <2>2, <2>3 DEF Environment
<1>4. CASE UNCHANGED vars
  BY <1>4 DEF vars
<1> QED BY <1>1, <1>2, <1>3, <1>4 DEF Next

(* Only the branches' own rows and faults decide what they are rated. *)
LEMMA RatedFrame ==
    ASSUME UNCHANGED threadVars, \A b \in Branches : fault'[b] = fault[b]
    PROVE  Rated("STRONG")' = Rated("STRONG")
BY DEF Rated, Calibrated, threadVars

LEMMA IdleIsNotRated ==
    ASSUME \A b \in Branches : branch[b] = "idle"
    PROVE  Rated("STRONG") = {}
BY DEF Rated, Calibrated

(* The evidence status of a merged decision names a STRONG branch. *)
LEMMA MergedEvidence ==
    Rated("STRONG") # {} =>
        /\ FuseModels.evidence \in {NG[b] : b \in Rated("STRONG")}
        /\ Withheld("SYSTEM_ERROR", StrongStatus).evidence \in {NG[b] : b \in Rated("STRONG")}
<1>1. Rated("STRONG") # {} => StrongStatus \in {NG[b] : b \in Rated("STRONG")}
  BY StrongStatusNames
<1>2. Rated("STRONG") # {} => StrongStatus # "OK"
  BY <1>1 DEF Rated, Branches, NG
<1> QED BY <1>1, <1>2 DEF FuseModels, Released, Withheld

(* No step forgets a STRONG row. *)
LEMMA KeptStep == TypeOK /\ Phases /\ Kept /\ [Next]_vars => Kept'
<1> SUFFICES ASSUME TypeOK /\ Phases /\ Kept, [Next]_vars PROVE Kept'
  OBVIOUS
<1> USE ConstantsAssumption, Undecided
        DEF TypeOK, Kept, Goto, Decide, DecideUnlessSpaced, Lose, threadVars
<1>1. CASE Coordinate
  <2>1. CASE PassPreflight
    BY <2>1, RatedFrame DEF PassPreflight
  <2>2. CASE FailPreflight
    BY <2>2, IdleIsNotRated, RatedFrame DEF FailPreflight, Phases, First
  <2>3. CASE Admit
    BY <2>3, IdleIsNotRated, RatedFrame DEF Admit, Phases, First
  <2>4. CASE Crop
    BY <2>4, RatedFrame DEF Crop
  <2>5. CASE FailFirstLayer
    <3>1. Rated("STRONG") = {} /\ \A b \in Branches : fault'[b] = fault[b]
      BY <2>5, IdleIsNotRated DEF FailFirstLayer, TemplateFault, Phases, First, Stages, Branches
    <3> QED BY <2>5, <3>1, RatedFrame DEF FailFirstLayer
  <2>6. CASE VerifyTemplateInputs
    BY <2>6, RatedFrame DEF VerifyTemplateInputs
  <2>7. CASE MatchTemplates
    <3>1. Rated("STRONG")' = {}
      BY <2>7, IdleIsNotRated
         DEF MatchTemplates, TemplateFault, Phases, First, Stages, Branches, Rated, Calibrated
    <3> QED BY <3>1
  <2>8. CASE Merge
    <3>1. \/ decision' \in {FuseModels, Withheld("SYSTEM_ERROR", StrongStatus)}
          \/ decision' = decision
      BY <2>8 DEF Merge
    <3>2. decision = NoDecision /\ Rated("STRONG")' = Rated("STRONG")
      BY <2>8, RatedFrame DEF Merge, Phases, Second
    <3> QED BY <3>1, <3>2, MergedEvidence
  <2>9. CASE Validate
    BY <2>9, RatedFrame DEF Validate
  <2>10. CASE CopyEvidence
    BY <2>10, RatedFrame DEF CopyEvidence
  <2>11. CASE ValidateStaging
    BY <2>11, RatedFrame DEF ValidateStaging
  <2>12. CASE Rename
    BY <2>12, RatedFrame DEF Rename
  <2>13. CASE PublicationFails
    BY <2>13, RatedFrame DEF PublicationFails
  <2>14. CASE Answer
    BY <2>14, RatedFrame DEF Answer
  <2>15. CASE Unwind
    BY <2>15, RatedFrame DEF Unwind
  <2>16. CASE RemoveCrops
    BY <2>16, RatedFrame DEF RemoveCrops
  <2> QED BY <1>1, <2>1, <2>2, <2>3, <2>4, <2>5, <2>6, <2>7, <2>8, <2>9,
         <2>10, <2>11, <2>12, <2>13, <2>14, <2>15, <2>16 DEF Coordinate
<1>2. ASSUME NEW b \in Branches, BranchStep(b) PROVE Kept'
  <2>1. CASE LoadPredictor(b)
    BY <2>1 DEF LoadPredictor, threadFrame
  <2>2. CASE VerifyCrops(b)
    BY <2>2 DEF VerifyCrops, threadFrame
  <2>3. CASE Predict(b)
    BY <2>3 DEF Predict, threadFrame
  <2>4. CASE FailBranch(b)
    BY <2>4 DEF FailBranch, threadFrame
  <2>5. CASE Calibrate(b)
    BY <2>5 DEF Calibrate, threadFrame
  <2> QED BY <1>2, <2>1, <2>2, <2>3, <2>4, <2>5 DEF BranchStep
<1>3. CASE Environment
  <2>1. CASE Interrupt
    BY <2>1, RatedFrame DEF Interrupt, Pressed, LeaveUnanswered, shelfVars
  <2>2. CASE Damage
    BY <2>2, RatedFrame DEF Damage, shelfVars
  <2>3. CASE IdTaken
    BY <2>3, RatedFrame DEF IdTaken, shelfVars
  <2> QED BY <1>3, <2>1, <2>2, <2>3 DEF Environment
<1>4. CASE UNCHANGED vars
  BY <1>4, RatedFrame DEF vars
<1> QED BY <1>1, <1>2, <1>3, <1>4 DEF Next

(* Each step keeps the files in order. *)
LEMMA PresentStep == TypeOK /\ Phases /\ Evidence /\ Present /\ [Next]_vars => Present'
<1> SUFFICES ASSUME TypeOK /\ Phases /\ Evidence /\ Present, [Next]_vars PROVE Present'
  OBVIOUS
<1> USE ConstantsAssumption, Undecided
        DEF TypeOK, Present, HasTemplateRows, HasRows, Second, Abandoned, Ended, Goto, Decide,
            DecideUnlessSpaced, Lose, threadVars
<1>1. CASE Coordinate
  <2>1. CASE PassPreflight
    BY <2>1 DEF PassPreflight
  <2>2. CASE FailPreflight
    BY <2>2 DEF FailPreflight
  <2>3. CASE Admit
    BY <2>3 DEF Admit
  <2>4. CASE Crop
    BY <2>4 DEF Crop, Phases, First, Files
  <2>5. CASE FailFirstLayer
    BY <2>5 DEF FailFirstLayer, TemplateFault
  <2>6. CASE VerifyTemplateInputs
    BY <2>6 DEF VerifyTemplateInputs
  <2>7. CASE MatchTemplates
    <3>1. files' = files /\ files["crops"] # "absent" /\ raw' = raw /\ damages' = damages
      BY <2>7 DEF MatchTemplates, Phases, First
    <3>2. misread' => files["crops"] = "bad"
      BY <2>7, <3>1 DEF MatchTemplates, Phases, First, Files, States
    <3> QED BY <3>1, <3>2 DEF Files
  <2>8. CASE Merge
    BY <2>8 DEF Merge
  <2>9. CASE Validate
    BY <2>9 DEF Validate
  <2>10. CASE CopyEvidence
    BY <2>10 DEF CopyEvidence
  <2>11. CASE ValidateStaging
    BY <2>11 DEF ValidateStaging
  <2>12. CASE Rename
    BY <2>12 DEF Rename
  <2>13. CASE PublicationFails
    BY <2>13 DEF PublicationFails
  <2>14. CASE Answer
    BY <2>14 DEF Answer
  <2>15. CASE Unwind
    BY <2>15 DEF Unwind
  <2>16. CASE RemoveCrops
    BY <2>16 DEF RemoveCrops, Files, States
  <2> QED BY <1>1, <2>1, <2>2, <2>3, <2>4, <2>5, <2>6, <2>7, <2>8, <2>9,
         <2>10, <2>11, <2>12, <2>13, <2>14, <2>15, <2>16 DEF Coordinate
<1>2. ASSUME NEW b \in Branches, BranchStep(b) PROVE Present'
  <2>1. CASE LoadPredictor(b)
    BY <2>1 DEF LoadPredictor, threadFrame
  <2>2. CASE VerifyCrops(b)
    BY <2>2 DEF VerifyCrops, threadFrame
  <2>3. CASE Predict(b)
    <3>1. (Abandoned \/ files["crops"] # "absent") /\ files["crops"]' = files["crops"]
      BY <2>3 DEF Predict, threadFrame, Files, Phases
    <3>2. misread' => Abandoned \/ (files["crops"] = "bad" /\ damages > 0)
      BY <2>3, <3>1 DEF Predict, Files, States
    <3>3. \A f \in Files : files'[f] = files[f] \/ (f = "visuals" /\ files'[f] = "good")
      <4>1. CASE b = "anomaly" BY <2>3, <4>1 DEF Predict
      <4>2. CASE b # "anomaly" BY <2>3, <4>2 DEF Predict
      <4> QED BY <4>1, <4>2
    <3>4. HasRows("anomaly")' => files'["visuals"] # "absent"
      BY <2>3, <3>3 DEF Predict, Files, Branches
    <3>5. UNCHANGED <<pc, damages, interrupts, templates>>
      BY <2>3 DEF Predict, threadFrame
    <3> QED BY <3>1, <3>2, <3>3, <3>4, <3>5 DEF Files
  <2>4. CASE FailBranch(b)
    BY <2>4 DEF FailBranch, threadFrame
  <2>5. CASE Calibrate(b)
    BY <2>5 DEF Calibrate, threadFrame
  <2> QED BY <1>2, <2>1, <2>2, <2>3, <2>4, <2>5 DEF BranchStep
<1>3. CASE Environment
  <2>1. CASE Interrupt
    BY <2>1 DEF Interrupt, Pressed, LeaveUnanswered
  <2>2. CASE Damage
    BY <2>2 DEF Damage, Files
  <2>3. CASE IdTaken
    BY <2>3 DEF IdTaken
  <2> QED BY <1>3, <2>1, <2>2, <2>3 DEF Environment
<1>4. CASE UNCHANGED vars
  BY <1>4 DEF vars
<1> QED BY <1>1, <1>2, <1>3, <1>4 DEF Next

(* Each step keeps what the sink has established. *)
LEMMA FreshStep == TypeOK /\ Phases /\ Evidence /\ Present /\ Fresh /\ [Next]_vars => Fresh'
<1> SUFFICES ASSUME TypeOK /\ Phases /\ Evidence /\ Present /\ Fresh, [Next]_vars PROVE Fresh'
  OBVIOUS
<1> USE ConstantsAssumption, Undecided
        DEF TypeOK, Fresh, HasTemplateRows, HasRows, Second, Abandoned, Ended, Goto, Decide,
            DecideUnlessSpaced, Lose, threadVars, shelfVars, Shelf!Refuse
<1>1. CASE Coordinate
  <2>1. CASE PassPreflight
    BY <2>1 DEF PassPreflight
  <2>2. CASE FailPreflight
    <3>1. /\ \A v \in Views : templates[v] = "none" /\ raw["anomaly"][v] = "none"
          /\ ~misread
      BY <2>2 DEF FailPreflight, Phases, First, Evidence, Branches
    <3> QED BY <2>2, <3>1 DEF FailPreflight
  <2>3. CASE Admit
    BY <2>3 DEF Admit
  <2>4. CASE Crop
    BY <2>4 DEF Crop
  <2>5. CASE FailFirstLayer
    BY <2>5 DEF FailFirstLayer, TemplateFault, Phases
  <2>6. CASE VerifyTemplateInputs
    BY <2>6 DEF VerifyTemplateInputs
  <2>7. CASE MatchTemplates
    BY <2>7 DEF MatchTemplates, TemplateFault, Phases
  <2>8. CASE Merge
    BY <2>8 DEF Merge
  <2>9. CASE Validate
    BY <2>9 DEF Validate
  <2>10. CASE CopyEvidence
    BY <2>10 DEF CopyEvidence, Copied, HasRows, HasTemplateRows, Present, Intact, Files, Phases
  <2>11. CASE ValidateStaging
    BY <2>11 DEF ValidateStaging, Publishable, Copied, Present, Intact, Phases
  <2>12. CASE Rename
    BY <2>12 DEF Rename, Shelf!Claim
  <2>13. CASE PublicationFails
    BY <2>13 DEF PublicationFails
  <2>14. CASE Answer
    BY <2>14 DEF Answer, Shelf!Confirm, Shelf!Doubt
  <2>15. CASE Unwind
    BY <2>15 DEF Unwind
  <2>16. CASE RemoveCrops
    BY <2>16 DEF RemoveCrops, Files, States
  <2> QED BY <1>1, <2>1, <2>2, <2>3, <2>4, <2>5, <2>6, <2>7, <2>8, <2>9,
         <2>10, <2>11, <2>12, <2>13, <2>14, <2>15, <2>16 DEF Coordinate
<1>2. ASSUME NEW b \in Branches, BranchStep(b) PROVE Fresh'
  <2>1. CASE LoadPredictor(b)
    BY <2>1 DEF LoadPredictor, threadFrame
  <2>2. CASE VerifyCrops(b)
    BY <2>2 DEF VerifyCrops, threadFrame
  <2>3. CASE Predict(b)
    BY <2>3 DEF Predict, threadFrame, Phases
  <2>4. CASE FailBranch(b)
    BY <2>4 DEF FailBranch, threadFrame
  <2>5. CASE Calibrate(b)
    BY <2>5 DEF Calibrate, threadFrame
  <2> QED BY <1>2, <2>1, <2>2, <2>3, <2>4, <2>5 DEF BranchStep
<1>3. CASE Environment
  <2>1. CASE Interrupt
    BY <2>1 DEF Interrupt, Pressed, LeaveUnanswered
  <2>2. CASE Damage
    BY <2>2 DEF Damage
  <2>3. CASE IdTaken
    BY <2>3 DEF IdTaken, Shelf!ClaimByStranger
  <2> QED BY <1>3, <2>1, <2>2, <2>3 DEF Environment
<1>4. CASE UNCHANGED vars
  BY <1>4 DEF vars
<1> QED BY <1>1, <1>2, <1>3, <1>4 DEF Next

-----------------------------------------------------------------------------
(* A sink that is not prevented publishes what stands. *)
LEMMA UnharmedIsPublishable ==
    ASSUME TypeOK, Present, DecisionStands, Regularity, ~Harmed
    PROVE  Publishable /\ \A f \in Copied : Intact(f)
<1>1. damages = 0
  BY DEF TypeOK, Harmed
<1>2. \A f \in Files : files[f] # "absent" => files[f] = "good"
  BY <1>1 DEF TypeOK, Present, States
<1>3. \A f \in Copied \cup Rehashed : f \in Files /\ files[f] # "absent"
  BY DEF Copied, Rehashed, Files, Present
<1>4. \A f \in Copied \cup Rehashed : Intact(f)
  BY <1>2, <1>3 DEF Intact
<1> QED BY <1>4 DEF Publishable, Regularity, Harmed

(* What the sink derives does not change while the evidence stays. *)
LEMMA SoundFrame ==
    ASSUME UNCHANGED <<request, files, damages, templates, threadVars, fault, decision>>
    PROVE  /\ DecisionStands' <=> DecisionStands
           /\ Regularity' <=> Regularity
           /\ Harmed' <=> Harmed
<1>1. \A b \in Branches : Calibrated(b)' <=> Calibrated(b)
  BY DEF Calibrated, threadVars
<1>2. Rated("STRONG")' = Rated("STRONG") /\ Rated("GRAY")' = Rated("GRAY")
  BY <1>1 DEF Rated, threadVars
<1>3. StrongStatus' = StrongStatus
  BY DEF StrongStatus, FirstStrong, Rated, Calibrated, threadVars
<1>4. FuseModels' = FuseModels
  BY <1>2, <1>3 DEF FuseModels
<1>5. SystemErrorStands' <=> SystemErrorStands
  BY <1>1, <1>3 DEF SystemErrorStands, HasRows, threadVars
<1>6. CaptureError' <=> CaptureError
  BY DEF CaptureError, Intact
<1>7. DecisionStands' <=> DecisionStands
  BY <1>1, <1>4, <1>5, <1>6 DEF DecisionStands, HasRows, threadVars
<1> QED BY <1>7 DEF Regularity, Harmed, threadVars

(* A system error that is decided without any evidence stands. *)
LEMMA EarlySystemErrorStands ==
    ASSUME \A b \in Branches : branch[b] = "idle" /\ \A v \in Views : raw[b][v] = "none",
           \A v \in Views : templates[v] = "none",
           UNCHANGED <<templates, threadVars>>,
           fault'["template"] # "empty",
           decision' = Withheld("SYSTEM_ERROR", "none")
    PROVE  DecisionStands' /\ Regularity'
<1>1. \A b \in Branches : ~Calibrated(b)' /\ ~HasRows(b)'
  BY DEF Calibrated, HasRows, threadVars
<1>2. StrongStatus' = "none"
  BY <1>1 DEF StrongStatus, Rated
<1>3. ~Mismatch(templates')
  BY DEF Mismatch
<1>4. decision'.inspection = "SYSTEM_ERROR" /\ decision'.evidence = "none"
  BY DEF Withheld
<1>5. DecisionStands'
  BY <1>1, <1>2, <1>3, <1>4 DEF DecisionStands, SystemErrorStands, Branches
<1> QED BY <1>5 DEF Regularity, threadVars

(* A decision of the fusion stands. *)
LEMMA FusedStands ==
    ASSUME Judged(templates'), ~Mismatch(templates'), \A b \in Branches : Calibrated(b)',
           decision' = FuseModels, FuseModels' = FuseModels
    PROVE  DecisionStands'
<1>1. \A b \in Rated("STRONG") : NG[b] \in {"NG_ANOMALY", "NG_YOLO"}
  BY DEF Rated, Branches, NG
<1>2. FuseModels.inspection \in {"NG_ANOMALY", "NG_YOLO", "REVIEW", "OK"}
  BY <1>1, StrongStatusNames DEF FuseModels, Released, Withheld
<1> QED BY <1>2 DEF DecisionStands

(* A system error of a branch stands. *)
LEMMA BranchErrorStands ==
    ASSUME Judged(templates'), ~Mismatch(templates'), fault'["template"] = "none",
           Faulty' # {}, decision' = Withheld("SYSTEM_ERROR", StrongStatus')
    PROVE  DecisionStands'
<1>1. \E b \in Branches : ~Calibrated(b)'
  BY DEF Faulty, Calibrated
<1>2. decision'.inspection = "SYSTEM_ERROR" /\ decision'.evidence = StrongStatus'
  BY DEF Withheld
<1> QED BY <1>1, <1>2 DEF DecisionStands, SystemErrorStands

(* Each step keeps the sink in agreement. *)
LEMMA SoundStep == TypeOK /\ Phases /\ Evidence /\ Present /\ Sound /\ [Next]_vars => Sound'
<1> SUFFICES ASSUME TypeOK /\ Phases /\ Evidence /\ Present /\ Sound, [Next]_vars PROVE Sound'
  OBVIOUS
<1> USE ConstantsAssumption, Undecided
        DEF TypeOK, Sound, Harmed, Second, Abandoned, Goto, Decide, DecideUnlessSpaced, Lose
<1>1. CASE Coordinate
  <2>1. CASE PassPreflight
    BY <2>1, SoundFrame DEF PassPreflight
  <2>2. CASE FailPreflight
    BY <2>2 DEF FailPreflight
  <2>3. CASE Admit
    <3>1. \A b \in Branches : branch[b] = "idle" /\ \A v \in Views : raw[b][v] = "none"
      BY <2>3 DEF Admit, Phases, First, Evidence
    <3>2. (\A v \in Views : templates[v] = "none") /\ fault["template"] = "none"
      BY <2>3 DEF Admit, Phases, First
    <3>3. UNCHANGED <<request, files, damages, templates, threadVars, fault>>
      BY <2>3 DEF Admit
    <3>4. CASE decision' = Withheld("SYSTEM_ERROR", "none") /\ pc' = "decided"
      <4>1. DecisionStands' /\ Regularity'
        BY <3>1, <3>2, <3>3, <3>4, EarlySystemErrorStands
      <4> QED BY <2>3, <3>3, <4>1 DEF Admit
    <3>5. CASE /\ decision' = Withheld("INVALID_CAPTURE", "none") /\ pc' = "decided"
               /\ request.release = "loaded" /\ CaptureError
      <4>1. decision'.inspection = "INVALID_CAPTURE"
        BY <3>5 DEF Withheld
      <4>2. DecisionStands'
        BY <3>3, <3>5, <4>1 DEF DecisionStands, CaptureError, Intact
      <4>3. Regularity'
        BY <3>1, <3>2, <3>3 DEF Regularity, threadVars
      <4> QED BY <2>3, <3>3, <4>2, <4>3 DEF Admit
    <3>6. CASE pc' = "crop"
      BY <2>3, <3>3, <3>6 DEF Admit
    <3> QED BY <2>3, <3>4, <3>5, <3>6 DEF Admit
  <2>4. CASE Crop
    BY <2>4 DEF Crop
  <2>5. CASE FailFirstLayer
    <3>1. \A b \in Branches : branch[b] = "idle" /\ \A v \in Views : raw[b][v] = "none"
      BY <2>5 DEF FailFirstLayer, Phases, First, Evidence
    <3>2. (\A v \in Views : templates[v] = "none") /\ fault["template"] = "none"
      BY <2>5 DEF FailFirstLayer, Phases, First
    <3>3. PICK text \in Texts : TemplateFault(text)
      BY <2>5 DEF FailFirstLayer
    <3>4. UNCHANGED <<request, files, damages, templates, threadVars>> /\ fault'["template"] = text
      BY <2>5, <3>3 DEF FailFirstLayer, TemplateFault, Stages
    <3>5. CASE text = "spaced"
      BY <3>2, <3>3, <3>4, <3>5 DEF TemplateFault, Stages, Phases
    <3>6. CASE text # "spaced"
      <4>1. decision' = Withheld("SYSTEM_ERROR", "none") /\ cause' = cause
        BY <3>3, <3>6 DEF TemplateFault
      <4>2. fault'["template"] # "empty" => DecisionStands' /\ Regularity'
        BY <3>1, <3>2, <3>4, <4>1, EarlySystemErrorStands
      <4>3. Harmed' <=> damages > 0 \/ request.capture = "foreign" \/ fault'["template"] = "empty"
        BY <3>4
      <4>4. \A s \in Stages : fault[s] = "spaced" => fault'[s] = "spaced"
        BY <3>2, <3>3 DEF TemplateFault
      <4> QED BY <3>2, <4>1, <4>2, <4>3, <4>4
    <3> QED BY <3>5, <3>6
  <2>6. CASE VerifyTemplateInputs
    BY <2>6, SoundFrame DEF VerifyTemplateInputs
  <2>7. CASE MatchTemplates
    <3>1. \A b \in Branches : branch[b] = "idle" /\ \A v \in Views : raw[b][v] = "none"
      BY <2>7 DEF MatchTemplates, Phases, First, Evidence
    <3>2. (\A v \in Views : templates[v] = "none") /\ fault["template"] = "none"
      BY <2>7 DEF MatchTemplates, Phases, First
    <3>3. UNCHANGED <<request, files, damages, raw>>
      BY <2>7 DEF MatchTemplates
    <3>4. CASE ~Judged(templates')
      BY <2>7, <3>2, <3>3, <3>4 DEF MatchTemplates, TemplateFault, Stages, Texts
    <3>5. CASE Judged(templates') /\ Mismatch(templates')
      <4>1. /\ decision' = Released("NG_TEMPLATE") /\ UNCHANGED <<branch, fault, cause>>
        BY <2>7, <3>5 DEF MatchTemplates
      <4>2. decision'.inspection = "NG_TEMPLATE"
        BY <4>1 DEF Released
      <4>3. DecisionStands'
        BY <3>1, <3>3, <3>5, <4>2 DEF DecisionStands, HasRows
      <4>4. Regularity'
        BY <3>1, <3>3, <3>5 DEF Regularity, Judged, Outcomes
      <4> QED BY <3>3, <4>1, <4>3, <4>4
    <3>6. CASE Judged(templates') /\ ~Mismatch(templates')
      BY <2>7, <3>3, <3>6 DEF MatchTemplates
    <3> QED BY <3>4, <3>5, <3>6
  <2>8. CASE Merge
    <3>1. UNCHANGED <<request, files, damages, templates, threadVars, fault>>
      BY <2>8 DEF Merge
    <3>2. Judged(templates') /\ ~Mismatch(templates') /\ fault'["template"] = "none"
      BY <2>8, <3>1 DEF Merge, Phases, Second
    <3>3. \A b \in Branches : branch[b] = "done"
      BY <2>8 DEF Merge
    <3>4. FuseModels' = FuseModels /\ StrongStatus' = StrongStatus
      BY <3>1 DEF FuseModels, StrongStatus, FirstStrong, Rated, Calibrated, threadVars
    <3>5. CASE Faulty = {}
      <4>1. decision' = FuseModels
        BY <2>8, <3>5 DEF Merge
      <4>2. \A b \in Branches : Calibrated(b)' /\ Regular(raw[b])
        BY <3>1, <3>3, <3>5 DEF Calibrated, Faulty, Evidence, threadVars
      <4>3. Regularity'
        BY <3>1, <3>2, <4>2 DEF Regularity, Judged, Outcomes, Regular, Levels, threadVars
      <4>4. DecisionStands'
        BY <3>2, <3>4, <4>1, <4>2, FusedStands
      <4> QED BY <2>8, <3>1, <3>5, <4>3, <4>4 DEF Merge
    <3>6. CASE Faulty # {} /\ "spaced" \notin {fault[b] : b \in Faulty}
      <4>1. decision' = Withheld("SYSTEM_ERROR", StrongStatus')
        BY <2>8, <3>4, <3>6 DEF Merge
      <4>2. \A b \in Branches, v \in Views : raw[b][v] # "irregular"
        BY <3>3, <3>6 DEF Evidence, Faulty, Regular, Levels
      <4>3. Regularity'
        BY <3>1, <3>2, <4>2 DEF Regularity, Judged, Outcomes, threadVars
      <4>4. Faulty' # {}
        BY <3>1, <3>6 DEF Faulty
      <4>5. DecisionStands'
        BY <3>2, <4>1, <4>4, BranchErrorStands
      <4> QED BY <2>8, <3>1, <3>6, <4>3, <4>5 DEF Merge
    <3>7. CASE Faulty # {} /\ "spaced" \in {fault[b] : b \in Faulty}
      <4>1. \E s \in Stages : fault'[s] = "spaced"
        BY <3>1, <3>7 DEF Faulty, Stages
      <4>2. pc' = "raised" /\ cause' = "undecidable"
        BY <2>8, <3>7 DEF Merge
      <4> QED BY <4>1, <4>2
    <3> QED BY <3>5, <3>6, <3>7
  <2>9. CASE Validate
    BY <2>9, SoundFrame, UnharmedIsPublishable DEF Validate
  <2>10. CASE CopyEvidence
    BY <2>10, SoundFrame, UnharmedIsPublishable DEF CopyEvidence
  <2>11. CASE ValidateStaging
    BY <2>11, SoundFrame, UnharmedIsPublishable DEF ValidateStaging
  <2>12. CASE Rename
    BY <2>12, SoundFrame DEF Rename
  <2>13. CASE PublicationFails
    BY <2>13, SoundFrame DEF PublicationFails
  <2>14. CASE Answer
    BY <2>14, SoundFrame DEF Answer
  <2>15. CASE Unwind
    BY <2>15, SoundFrame DEF Unwind
  <2>16. CASE RemoveCrops
    BY <2>16 DEF RemoveCrops, Ended
  <2> QED BY <1>1, <2>1, <2>2, <2>3, <2>4, <2>5, <2>6, <2>7, <2>8, <2>9,
         <2>10, <2>11, <2>12, <2>13, <2>14, <2>15, <2>16 DEF Coordinate
<1>2. ASSUME NEW b \in Branches, BranchStep(b) PROVE Sound'
  <2>1. CASE LoadPredictor(b)
    BY <2>1 DEF LoadPredictor, threadFrame, threadVars
  <2>2. CASE VerifyCrops(b)
    BY <2>2 DEF VerifyCrops, threadFrame, threadVars
  <2>3. CASE Predict(b)
    BY <2>3 DEF Predict, threadFrame, threadVars
  <2>4. CASE FailBranch(b)
    <3>1. pc' \in Second \cup {"raised"} /\ UNCHANGED <<damages, request, cause>>
      BY <2>4 DEF FailBranch, threadFrame
    <3>2. fault'["template"] = fault["template"]
      BY <2>4 DEF FailBranch, Stages, Branches
    <3>3. \A s \in Stages : fault[s] = "spaced" => fault'[s] = "spaced"
      BY <2>4 DEF FailBranch, Evidence
    <3> QED BY <3>1, <3>2, <3>3
  <2>5. CASE Calibrate(b)
    <3>1. pc' \in Second \cup {"raised"} /\ UNCHANGED <<damages, request, cause>>
      BY <2>5 DEF Calibrate, threadFrame
    <3>2. fault'["template"] = fault["template"]
      BY <2>5 DEF Calibrate, Stages, Branches
    <3>3. \A s \in Stages : fault[s] = "spaced" => fault'[s] = "spaced"
      BY <2>5 DEF Calibrate, Evidence
    <3> QED BY <3>1, <3>2, <3>3
  <2> QED BY <1>2, <2>1, <2>2, <2>3, <2>4, <2>5 DEF BranchStep
<1>3. CASE Environment
  <2>1. CASE Interrupt
    BY <2>1, SoundFrame DEF Interrupt, Pressed, LeaveUnanswered
  <2>2. CASE Damage
    BY <2>2 DEF Damage, threadVars
  <2>3. CASE IdTaken
    BY <2>3, SoundFrame DEF IdTaken
  <2> QED BY <1>3, <2>1, <2>2, <2>3 DEF Environment
<1>4. CASE UNCHANGED vars
  BY <1>4, SoundFrame DEF vars, threadVars
<1> QED BY <1>1, <1>2, <1>3, <1>4 DEF Next

-----------------------------------------------------------------------------
LEMMA InitInv == Init => IInv
<1> SUFFICES ASSUME Init PROVE IInv
  OBVIOUS
<1>1. TypeOK
  BY InitType
<1>2. Phases /\ Kept
  BY ConstantsAssumption DEF Init, Phases, Kept, First, Second, Late, Stages, Shelf!Init
<1>3. Evidence /\ Earned
  BY WithheldReleasesNothing DEF Init, Evidence, Earned, Stages, Branches
<1>4. Present
  BY DEF Init, Present, HasTemplateRows, HasRows, Files, Second, Branches
<1>5. Fresh
  BY ConstantsAssumption DEF Init, Fresh, Shelf!Init
<1>6. Sound
  BY DEF Init, Sound
<1> QED BY <1>1, <1>2, <1>3, <1>4, <1>5, <1>6 DEF IInv

LEMMA NextInv == IInv /\ [Next]_vars => IInv'
BY NextType, PhasesStep, EvidenceStep, EarnedStep, KeptStep, PresentStep, FreshStep, SoundStep
   DEF IInv

(* The inductive invariant holds in every state. *)
THEOREM Invariance == Spec => []IInv
BY InitInv, NextInv, PTL DEF Spec

(* A part is only released on complete evidence. *)
THEOREM Releases == Spec => []ReleaseIsEarned
<1>1. IInv => ReleaseIsEarned
  BY DEF IInv, Earned, ReleaseIsEarned
<1> QED BY <1>1, Invariance, PTL

(* A failed peer does not make the verdict forget a STRONG row. *)
THEOREM StrongEvidence == Spec => []StrongIsNeverDropped
<1>1. IInv => StrongIsNeverDropped
  BY DEF IInv, Phases, Kept, StrongIsNeverDropped
<1> QED BY <1>1, Invariance, PTL

(* The published files are those the scores were computed from. *)
THEOREM Provenance == Spec => []PublishedIsWhatWasScored
<1>1. IInv => PublishedIsWhatWasScored
  BY DEF IInv, Fresh, PublishedIsWhatWasScored
<1> QED BY <1>1, Invariance, PTL

(* The pool's exit joins its threads on every path, and one interrupt does  *)
(* not break it off: no thread outlives the inspection unless Control-C is  *)
(* pressed again during that wait.                                          *)
THEOREM Joined == Spec => []NoReaderLeftBehind
<1>1. IInv => NoReaderLeftBehind
  BY DEF IInv, Phases, Second, Abandoned, Ended, NoReaderLeftBehind
<1> QED BY <1>1, Invariance, PTL

(* What a second Control-C costs (orchestrator.py:784, cli/inspect.py:124):  *)
(* the threads left behind belong to an inspection that publishes nothing    *)
(* and has decided nothing, and a predictor only ever reads other crops than *)
(* it verified because a file was damaged or because of that interrupt, when *)
(* the caller removes them under it.                                         *)
LeftBehindForNobody ==
    /\ pc \in Ended /\ (\E b \in Branches : branch[b] \notin {"idle", "done"}) =>
           /\ pc = "raised" /\ interrupts = 2
           /\ owner # Me /\ decision = NoDecision
    /\ misread => damages > 0 \/ interrupts = 2

(* A second interrupt wastes threads, and never a verdict. *)
THEOREM Unwitnessed == Spec => []LeftBehindForNobody
<1>1. IInv => LeftBehindForNobody
  BY DEF IInv, Phases, Present, Second, Abandoned, Ended, LeftBehindForNobody
<1> QED BY <1>1, Invariance, PTL

(* The sink agrees with the orchestrator unless there is a cause. *)
THEOREM Agreement == Spec => []NoOutcomeForACause
<1>1. IInv => NoOutcomeForACause
  BY DEF IInv, Sound, Harmed, NoOutcomeForACause
<1> QED BY <1>1, Invariance, PTL

-----------------------------------------------------------------------------
(* What the published promises miss, and that they miss nothing else.      *)
(* Reached: an exception has a cause, and only a valid capture is scored.  *)
Reached ==
    /\ pc = "raised" => cause # "none"
    /\ pc \in {"crop", "template", "matching"} \cup Second => request.capture = "valid"
    /\ \A b \in Branches : branch[b] # "idle" =>
           request.capture = "valid" /\ fault["template"] = "none"

LEMMA ReachedStep == TypeOK /\ Phases /\ Reached /\ [Next]_vars => Reached'
<1> SUFFICES ASSUME TypeOK /\ Phases /\ Reached, [Next]_vars PROVE Reached'
  OBVIOUS
<1> USE ConstantsAssumption
        DEF TypeOK, Phases, Reached, First, Second, Goto, Decide, DecideUnlessSpaced, Lose,
            shelfVars, threadVars, Ended
<1>1. CASE Coordinate
  <2>1. CASE PassPreflight
    BY <2>1 DEF PassPreflight
  <2>2. CASE FailPreflight
    BY <2>2 DEF FailPreflight
  <2>3. CASE Admit
    BY <2>3 DEF Admit, CaptureError
  <2>4. CASE Crop
    BY <2>4 DEF Crop
  <2>5. CASE FailFirstLayer
    BY <2>5 DEF FailFirstLayer, TemplateFault
  <2>6. CASE VerifyTemplateInputs
    BY <2>6 DEF VerifyTemplateInputs
  <2>7. CASE MatchTemplates
    BY <2>7 DEF MatchTemplates, TemplateFault
  <2>8. CASE Merge
    BY <2>8 DEF Merge
  <2>9. CASE Validate
    BY <2>9 DEF Validate
  <2>10. CASE CopyEvidence
    BY <2>10 DEF CopyEvidence
  <2>11. CASE ValidateStaging
    BY <2>11 DEF ValidateStaging
  <2>12. CASE Rename
    BY <2>12 DEF Rename
  <2>13. CASE PublicationFails
    BY <2>13 DEF PublicationFails
  <2>14. CASE Answer
    BY <2>14 DEF Answer
  <2>15. CASE Unwind
    BY <2>15 DEF Unwind
  <2>16. CASE RemoveCrops
    BY <2>16 DEF RemoveCrops, Files, States
  <2> QED BY <1>1, <2>1, <2>2, <2>3, <2>4, <2>5, <2>6, <2>7, <2>8, <2>9,
         <2>10, <2>11, <2>12, <2>13, <2>14, <2>15, <2>16 DEF Coordinate
<1>2. ASSUME NEW b \in Branches, BranchStep(b) PROVE Reached'
  <2>1. UNCHANGED <<pc, cause, request>>
    BY <1>2 DEF BranchStep, LoadPredictor, VerifyCrops, Predict, FailBranch, Calibrate, threadFrame
  <2>2. \A c \in Branches : branch[c] = "idle" => branch'[c] = "idle"
    BY <1>2 DEF BranchStep, LoadPredictor, VerifyCrops, Predict, FailBranch, Calibrate
  <2>3. fault'["template"] = fault["template"]
    BY <1>2 DEF BranchStep, LoadPredictor, VerifyCrops, Predict, FailBranch, Calibrate,
                Stages, Branches
  <2> QED BY <2>1, <2>2, <2>3
<1>3. CASE Environment
  BY <1>3 DEF Environment, Interrupt, Pressed, LeaveUnanswered, Damage, IdTaken
<1>4. CASE UNCHANGED vars
  BY <1>4 DEF vars
<1> QED BY <1>1, <1>2, <1>3, <1>4 DEF Next

LEMMA InitReached == Init => Reached
BY DEF Init, Reached, Second

(* decisions.py: a reason with whitespace is refused by the decision itself. *)
(* A worker thread's error with such a text is the only way to lose the      *)
(* report of a STRONG row: where neither branch failed with one, the promise *)
(* of docs/ZS32_REFACTOR_BLUEPRINT.md:738-743 is kept.                       *)
WhitespaceLosesTheReport == StrongIsReported \/ \E b \in Branches : fault[b] = "spaced"

(* A STRONG row is reported unless an error's text has whitespace. *)
THEOREM OnlyWhitespaceLoses == Spec => []WhitespaceLosesTheReport
<1>1. IInv /\ Reached => WhitespaceLosesTheReport
  <2> SUFFICES ASSUME IInv, Reached, pc = "raised", damages = 0,
                      cause \notin {"interrupt", "publication"},
                      NEW c \in Rated("STRONG")
               PROVE  \E b \in Branches : fault[b] = "spaced"
    BY DEF WhitespaceLosesTheReport, StrongIsReported
  <2>1. request.capture = "valid" /\ fault["template"] = "none"
    BY DEF Rated, Calibrated, Reached
  <2>2. cause \in {"undecidable", "rejected"}
    BY DEF IInv, TypeOK, Reached
  <2>3. cause # "rejected"
    BY <2>1 DEF IInv, TypeOK, Sound, Harmed
  <2>4. \E s \in Stages : fault[s] = "spaced"
    BY <2>2, <2>3 DEF IInv, Sound
  <2> QED BY <2>1, <2>4 DEF Stages
<1>2. IInv /\ Reached /\ [Next]_vars => Reached'
  BY ReachedStep DEF IInv
<1> QED BY <1>1, <1>2, InitReached, Invariance, PTL DEF Spec

(* Reported: an INVALID_CAPTURE the sink lets pass is about a disallowed   *)
(* capture; the one of the preflight has no evidence.                      *)
Reported ==
    /\ pc \notin {"staged", "approved", "visible"} \cup Ended => staged["manifest"] = "absent"
    /\ decision.inspection = "INVALID_CAPTURE" =>
           /\ pc \in {"staging", "staged"} => request.capture = "disallowed"
           /\ pc \in {"approved", "visible", "returned"} \/ owner = Me =>
                  staged["manifest"] = "absent" \/ request.capture = "disallowed"

(* The sink hashes the images again, so it rejects what their change calls for. *)
LEMMA ChangedImagesAreRejected ==
    Publishable /\ decision.inspection = "INVALID_CAPTURE" /\ TypeOK
        => request.capture = "disallowed"
<1> SUFFICES ASSUME Publishable, decision.inspection = "INVALID_CAPTURE", TypeOK
             PROVE  request.capture = "disallowed"
  OBVIOUS
<1>1. CaptureError
  BY DEF Publishable, DecisionStands
<1>2. Intact("images")
  BY DEF Publishable, Rehashed
<1> QED BY <1>1, <1>2 DEF CaptureError, Publishable, TypeOK

LEMMA ReportedStep == TypeOK /\ Phases /\ Reported /\ [Next]_vars => Reported'
<1> SUFFICES ASSUME TypeOK /\ Phases /\ Reported, [Next]_vars PROVE Reported'
  OBVIOUS
<1> USE ConstantsAssumption
        DEF TypeOK, Phases, Reported, First, Second, Goto, Decide, DecideUnlessSpaced, Lose,
            shelfVars, threadVars, Ended, Shelf!Refuse, Files
<1>1. CASE Coordinate
  <2>1. CASE PassPreflight
    BY <2>1 DEF PassPreflight
  <2>2. CASE FailPreflight
    BY <2>2 DEF FailPreflight
  <2>3. CASE Admit
    BY <2>3 DEF Admit
  <2>4. CASE Crop
    BY <2>4 DEF Crop
  <2>5. CASE FailFirstLayer
    BY <2>5 DEF FailFirstLayer, TemplateFault
  <2>6. CASE VerifyTemplateInputs
    BY <2>6 DEF VerifyTemplateInputs
  <2>7. CASE MatchTemplates
    BY <2>7 DEF MatchTemplates, TemplateFault
  <2>8. CASE Merge
    BY <2>8 DEF Merge
  <2>9. CASE Validate
    BY <2>9, ChangedImagesAreRejected DEF Validate
  <2>10. CASE CopyEvidence
    BY <2>10 DEF CopyEvidence
  <2>11. CASE ValidateStaging
    BY <2>11, ChangedImagesAreRejected DEF ValidateStaging
  <2>12. CASE Rename
    BY <2>12 DEF Rename, Shelf!Claim
  <2>13. CASE PublicationFails
    BY <2>13 DEF PublicationFails
  <2>14. CASE Answer
    BY <2>14 DEF Answer, Shelf!Confirm, Shelf!Doubt
  <2>15. CASE Unwind
    BY <2>15 DEF Unwind
  <2>16. CASE RemoveCrops
    BY <2>16 DEF RemoveCrops, Files, States
  <2> QED BY <1>1, <2>1, <2>2, <2>3, <2>4, <2>5, <2>6, <2>7, <2>8, <2>9,
         <2>10, <2>11, <2>12, <2>13, <2>14, <2>15, <2>16 DEF Coordinate
<1>2. ASSUME NEW b \in Branches, BranchStep(b) PROVE Reported'
  BY <1>2 DEF BranchStep, LoadPredictor, VerifyCrops, Predict, FailBranch, Calibrate, threadFrame
<1>3. CASE Environment
  <2>1. CASE Interrupt
    BY <2>1 DEF Interrupt, Pressed, LeaveUnanswered
  <2>2. CASE Damage
    BY <2>2 DEF Damage
  <2>3. CASE IdTaken
    BY <2>3 DEF IdTaken, Shelf!ClaimByStranger
  <2> QED BY <1>3, <2>1, <2>2, <2>3 DEF Environment
<1>4. CASE UNCHANGED vars
  BY <1>4 DEF vars
<1> QED BY <1>1, <1>2, <1>3, <1>4 DEF Next

LEMMA InitReported == Init => Reported
BY ConstantsAssumption DEF Init, Reported, Shelf!Init, NoDecision, Withheld, Files

(* orchestrator.py: a capture whose images changed is decided               *)
(* INVALID_CAPTURE; inspection_sink.py hashes these images again and        *)
(* refuses.  So no inspection ever reports a changed image with evidence:   *)
(* what InvalidCaptureIsReported asks for is not rarely but never done.     *)
ChangedImagesAreNeverReported ==
    owner = Me /\ decision.inspection = "INVALID_CAPTURE" /\ staged["manifest"] # "absent"
        => request.capture = "disallowed"

(* An INVALID_CAPTURE with evidence is about a disallowed capture. *)
THEOREM OnlyDisallowedIsReported == Spec => []ChangedImagesAreNeverReported
<1>1. Reported => ChangedImagesAreNeverReported
  BY DEF Reported, ChangedImagesAreNeverReported
<1>2. IInv /\ Reported /\ [Next]_vars => Reported'
  BY ReportedStep DEF IInv
<1> QED BY <1>1, <1>2, InitReported, Invariance, PTL DEF Spec

-----------------------------------------------------------------------------
(* How far an inspection still has to go: phases of the coordinator, stages *)
(* of the branches, and what may still happen to its files, its id and its  *)
(* temporary directory.                                                     *)
PhaseOf ==
    [preflight |-> 0, inspect |-> 1, crop |-> 2, template |-> 3, matching |-> 4,
     collect |-> 5, unwinding |-> 6, decided |-> 7, staging |-> 8, staged |-> 9,
     approved |-> 10, visible |-> 11, returned |-> 12, raised |-> 12]
StageOf ==
    [idle |-> 0, submitted |-> 1, loaded |-> 2, verified |-> 3, predicted |-> 4, done |-> 5]

StepsLeft ==
    (12 - PhaseOf[pc]) + (5 - StageOf[branch["anomaly"]]) + (5 - StageOf[branch["yolo"]])
    + (MaxDamages - damages) + (IF owner = NoOne THEN 1 ELSE 0)
    + (IF pc \in Ended /\ files["crops"] = "absent" THEN 0 ELSE 1)

Owed   == IF owner = NoOne THEN 1 ELSE 0
Litter == IF pc \in Ended /\ files["crops"] = "absent" THEN 0 ELSE 1

LEMMA Scales ==
    /\ \A p \in PCs : PhaseOf[p] \in 0..12
    /\ \A b \in {"idle", "submitted", "loaded", "verified", "predicted", "done"} :
           StageOf[b] \in 0..5
<1>1. \A p \in PCs : PhaseOf[p] \in 0..12
  BY DEF PCs, Ended, PhaseOf
<1> QED BY <1>1 DEF StageOf

LEMMA Measures == TypeOK =>
    /\ PhaseOf[pc] \in 0..12
    /\ \A b \in Branches : StageOf[branch[b]] \in 0..5
    /\ MaxDamages \in Nat /\ damages \in 0..MaxDamages
    /\ Owed \in 0..1 /\ Litter \in 0..1
BY Scales, ConstantsAssumption DEF TypeOK, Owed, Litter

LEMMA MeasuresNext == TypeOK' =>
    /\ PhaseOf[pc'] \in 0..12
    /\ \A b \in Branches : StageOf[branch'[b]] \in 0..5
    /\ damages' \in 0..MaxDamages
    /\ Owed' \in 0..1 /\ Litter' \in 0..1
BY Scales, ConstantsAssumption DEF TypeOK, Owed, Litter

LEMMA SumShrinks ==
    ASSUME NEW p \in 0..12, NEW q \in 0..12, q >= p,
           NEW a \in 0..5, NEW b \in 0..5, b >= a,
           NEW y \in 0..5, NEW z \in 0..5, z >= y,
           NEW m \in Nat, NEW d \in Nat, NEW e \in Nat, e >= d,
           NEW o \in 0..1, NEW r \in 0..1, r <= o,
           NEW t \in 0..1, NEW u \in 0..1, u <= t,
           q > p \/ b > a \/ z > y \/ e > d \/ r < o \/ u < t
    PROVE  (12 - q) + (5 - b) + (5 - z) + (m - e) + r + u
               < (12 - p) + (5 - a) + (5 - y) + (m - d) + o + t
OBVIOUS

(* A step moves something forward, and nothing back. *)
LEMMA Shorter ==
    ASSUME TypeOK, TypeOK',
           PhaseOf[pc'] >= PhaseOf[pc],
           \A b \in Branches : StageOf[branch'[b]] >= StageOf[branch[b]],
           damages' >= damages,
           Owed' <= Owed,
           Litter' <= Litter,
           \/ PhaseOf[pc'] > PhaseOf[pc]
           \/ \E b \in Branches : StageOf[branch'[b]] > StageOf[branch[b]]
           \/ damages' > damages
           \/ Owed' < Owed
           \/ Litter' < Litter
    PROVE  StepsLeft' < StepsLeft
<1> DEFINE a == StageOf[branch["anomaly"]]  y == StageOf[branch["yolo"]]
           p == PhaseOf[pc]
<1>1. p \in 0..12 /\ p' \in 0..12 /\ p' >= p
  BY Measures, MeasuresNext
<1>2. a \in 0..5 /\ y \in 0..5 /\ a' \in 0..5 /\ y' \in 0..5 /\ a' >= a /\ y' >= y
  BY Measures, MeasuresNext DEF Branches
<1>3. /\ MaxDamages \in Nat /\ damages \in Nat /\ damages' \in Nat
      /\ Owed \in 0..1 /\ Owed' \in 0..1 /\ Litter \in 0..1 /\ Litter' \in 0..1
  BY Measures, MeasuresNext
<1>4. p' > p \/ a' > a \/ y' > y \/ damages' > damages \/ Owed' < Owed \/ Litter' < Litter
  BY DEF Branches
<1>5. /\ StepsLeft = (12 - p) + (5 - a) + (5 - y) + (MaxDamages - damages) + Owed + Litter
      /\ StepsLeft' = (12 - p') + (5 - a') + (5 - y') + (MaxDamages - damages') + Owed' + Litter'
  BY DEF StepsLeft, Owed, Litter
<1> HIDE DEF a, y, p
<1> QED BY <1>1, <1>2, <1>3, <1>4, <1>5, SumShrinks

LEMMA CoordinatorAdvances ==
    ASSUME TypeOK, Phases, Coordinate, ~RemoveCrops
    PROVE  /\ PhaseOf[pc'] > PhaseOf[pc]
           /\ \A b \in Branches : branch'[b] = branch[b] \/ branch[b] = "idle"
           /\ damages' = damages
           /\ owner' = owner \/ owner = NoOne
<1> USE DEF Goto, Decide, DecideUnlessSpaced, Lose, shelfVars, threadVars, PhaseOf,
            Shelf!Refuse, Ended
<1>1. CASE PassPreflight
  BY <1>1 DEF PassPreflight
<1>2. CASE FailPreflight
  BY <1>2 DEF FailPreflight
<1>3. CASE Admit
  BY <1>3 DEF Admit
<1>4. CASE Crop
  BY <1>4 DEF Crop
<1>5. CASE FailFirstLayer
  BY <1>5 DEF FailFirstLayer, TemplateFault
<1>6. CASE VerifyTemplateInputs
  BY <1>6 DEF VerifyTemplateInputs
<1>7. CASE MatchTemplates
  BY <1>7 DEF MatchTemplates, TemplateFault, Phases, First
<1>8. CASE Merge
  BY <1>8 DEF Merge
<1>9. CASE Validate
  BY <1>9 DEF Validate
<1>10. CASE CopyEvidence
  BY <1>10 DEF CopyEvidence
<1>11. CASE ValidateStaging
  BY <1>11 DEF ValidateStaging
<1>12. CASE Rename
  BY <1>12 DEF Rename, Shelf!Claim
<1>13. CASE PublicationFails
  BY <1>13 DEF PublicationFails
<1>14. CASE Answer
  BY <1>14 DEF Answer, Shelf!Confirm, Shelf!Doubt
<1>15. CASE Unwind
  BY <1>15 DEF Unwind
<1> QED BY <1>1, <1>2, <1>3, <1>4, <1>5, <1>6, <1>7, <1>8, <1>9,
       <1>10, <1>11, <1>12, <1>13, <1>14, <1>15 DEF Coordinate

(* A temporary directory that is gone stays gone. *)
LEMMA LitterStays == TypeOK /\ [Next]_vars => Litter' <= Litter
<1> SUFFICES ASSUME TypeOK, [Next]_vars, pc \in Ended, files["crops"] = "absent"
             PROVE  pc' \in Ended /\ files'["crops"] = "absent"
  BY DEF Litter
<1> USE DEF Ended, TypeOK
<1>1. CASE Coordinate
  BY <1>1 DEF Coordinate, PassPreflight, FailPreflight, Admit, Crop, FailFirstLayer,
              VerifyTemplateInputs, MatchTemplates, Merge, Validate, CopyEvidence, ValidateStaging,
              Rename, PublicationFails, Answer, Unwind, RemoveCrops
<1>2. ASSUME NEW b \in Branches, BranchStep(b) PROVE pc' \in Ended /\ files'["crops"] = "absent"
  BY <1>2 DEF BranchStep, LoadPredictor, VerifyCrops, Predict, FailBranch, Calibrate, threadFrame,
              Files
<1>3. CASE Environment
  BY <1>3 DEF Environment, Interrupt, Pressed, Damage, IdTaken
<1>4. CASE UNCHANGED vars
  BY <1>4 DEF vars
<1> QED BY <1>1, <1>2, <1>3, <1>4 DEF Next

LEMMA StepShortens == TypeOK /\ Phases /\ [Next]_vars => [StepsLeft' < StepsLeft]_vars
<1> SUFFICES ASSUME TypeOK, Phases, Next PROVE StepsLeft' < StepsLeft
  OBVIOUS
<1>0. TypeOK'
  BY NextType
<1>l. Litter' <= Litter
  BY LitterStays
<1>r. CASE RemoveCrops
  <2>1. UNCHANGED <<pc, branch, damages, owner>>
    BY <1>r DEF RemoveCrops, threadVars, shelfVars
  <2>2. Litter = 1 /\ Litter' = 0
    BY <1>r DEF RemoveCrops, Litter, TypeOK, Files
  <2>3. /\ PhaseOf[pc'] >= PhaseOf[pc] /\ damages' >= damages /\ Owed' <= Owed
        /\ \A b \in Branches : StageOf[branch'[b]] >= StageOf[branch[b]]
    BY <2>1, Measures DEF Owed
  <2> QED BY <1>0, <1>l, <2>2, <2>3, Shorter
<1>1. CASE Coordinate /\ ~RemoveCrops
  <2>1. \A b \in Branches : StageOf[branch'[b]] >= StageOf[branch[b]]
    <3>1. \A b \in Branches : branch[b] = "idle" => StageOf[branch'[b]] >= StageOf[branch[b]]
      <4>1. StageOf["idle"] = 0
        BY DEF StageOf
      <4>2. \A b \in Branches : StageOf[branch'[b]] \in 0..5
        BY <1>0, MeasuresNext
      <4> QED BY <4>1, <4>2
    <3>2. \A b \in Branches : StageOf[branch[b]] \in 0..5
      BY Measures
    <3> QED BY <1>1, <3>1, <3>2, CoordinatorAdvances
  <2>2. Owed' <= Owed
    BY <1>1, CoordinatorAdvances DEF Owed
  <2>3. damages' = damages /\ damages \in Nat
    BY <1>1, CoordinatorAdvances, Measures
  <2>4. PhaseOf[pc] \in Nat /\ PhaseOf[pc'] \in Nat /\ PhaseOf[pc'] > PhaseOf[pc]
    BY <1>0, <1>1, CoordinatorAdvances, Measures, MeasuresNext
  <2> QED BY <1>0, <1>l, <2>1, <2>2, <2>3, <2>4, Shorter
<1>2. ASSUME NEW b \in Branches, BranchStep(b) PROVE StepsLeft' < StepsLeft
  <2>1. UNCHANGED <<pc, damages, owner>>
    BY <1>2 DEF BranchStep, LoadPredictor, VerifyCrops, Predict, FailBranch, Calibrate,
                threadFrame, shelfVars
  <2>2. \A c \in Branches : c # b => branch'[c] = branch[c]
    BY <1>2 DEF BranchStep, LoadPredictor, VerifyCrops, Predict, FailBranch, Calibrate, TypeOK
  <2>3. StageOf[branch'[b]] > StageOf[branch[b]]
    BY <1>2 DEF BranchStep, LoadPredictor, VerifyCrops, Predict, FailBranch, Calibrate, TypeOK,
                StageOf
  <2>4. \A c \in Branches : StageOf[branch'[c]] >= StageOf[branch[c]]
    BY <1>0, <2>2, <2>3, Measures, MeasuresNext
  <2>5. PhaseOf[pc'] >= PhaseOf[pc] /\ damages' >= damages /\ Owed' <= Owed
    BY <2>1, Measures DEF Owed
  <2> QED BY <1>0, <1>l, <2>3, <2>4, <2>5, Shorter
<1>3. CASE Environment
  <2>0. \A b \in Branches : StageOf[branch[b]] \in 0..5
    BY Measures
  <2>1. CASE Interrupt
    <3>1. PhaseOf[pc'] > PhaseOf[pc] /\ UNCHANGED <<branch, damages, owner>>
      BY <2>1 DEF Interrupt, Pressed, LeaveUnanswered, Goto, Lose, Shelf!Refuse, shelfVars, threadVars, TypeOK, PCs, Ended, PhaseOf
    <3>2. PhaseOf[pc'] >= PhaseOf[pc] /\ damages' >= damages /\ Owed' <= Owed
      BY <1>0, <3>1, Measures, MeasuresNext DEF Owed
    <3> QED BY <1>0, <1>l, <2>0, <3>1, <3>2, Shorter
  <2>2. CASE Damage
    <3>1. damages' = damages + 1 /\ UNCHANGED <<pc, branch, owner>>
      BY <2>2 DEF Damage, shelfVars, threadVars
    <3>2. PhaseOf[pc'] >= PhaseOf[pc] /\ damages' > damages /\ Owed' <= Owed
      BY <3>1, Measures DEF Owed
    <3>3. damages' >= damages
      BY <3>1, Measures
    <3> QED BY <1>0, <1>l, <2>0, <3>1, <3>2, <3>3, Shorter
  <2>3. CASE IdTaken
    <3>1. owner = NoOne /\ owner' = Foreign /\ UNCHANGED <<pc, branch, damages>>
      BY <2>3 DEF IdTaken, Shelf!ClaimByStranger, threadVars
    <3>2. PhaseOf[pc'] >= PhaseOf[pc] /\ damages' >= damages /\ Owed' < Owed
      BY <3>1, Measures, ConstantsAssumption DEF Owed
    <3>3. Owed' <= Owed
      BY <3>2, <1>0, Measures, MeasuresNext
    <3> QED BY <1>0, <1>l, <2>0, <3>1, <3>2, <3>3, Shorter
  <2> QED BY <1>3, <2>1, <2>2, <2>3 DEF Environment
<1> QED BY <1>r, <1>1, <1>2, <1>3 DEF Next

(* The safety half of InspectionEnds: every step of an inspection, of its    *)
(* threads and of its environment uses up one of finitely many steps, so no  *)
(* inspection goes round in circles, whatever fails and in whatever order.   *)
InspectionIsFinite == [][StepsLeft' < StepsLeft]_vars /\ [](StepsLeft \in Nat)

(* At most 24 + MaxDamages steps are taken. *)
THEOREM FiniteInspection == Spec => InspectionIsFinite /\ (Init => StepsLeft = 24 + MaxDamages)
<1>1. IInv /\ [Next]_vars => [StepsLeft' < StepsLeft]_vars
  BY StepShortens DEF IInv
<1>2. IInv => StepsLeft \in Nat
  <2> SUFFICES ASSUME TypeOK PROVE StepsLeft \in Nat
    BY DEF IInv
  <2> QED BY Measures DEF StepsLeft, Owed, Litter, Branches
<1>3. Init => StepsLeft = 24 + MaxDamages
  BY ConstantsAssumption DEF Init, Shelf!Init, StepsLeft, PhaseOf, StageOf, Branches, Ended
<1> QED BY <1>1, <1>2, <1>3, Invariance, PTL DEF Spec, InspectionIsFinite

=============================================================================
