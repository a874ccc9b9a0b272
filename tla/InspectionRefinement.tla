------------------------ MODULE InspectionRefinement ------------------------
(***************************************************************************)
(* The inspection implements StrictVerdict, for every set of views, either *)
(* priority of the branches and every number of damaged files.             *)
(***************************************************************************)
EXTENDS InspectionProofs

(* The evidence and the verdict as StrictVerdict knows them. *)
Found ==
    IF fault["template"] # "none" THEN "fault"
    ELSE IF ~Judged(templates) THEN "unknown"
    ELSE IF Mismatch(templates) THEN "mismatch" ELSE "match"
Findings == [b \in Branches |-> IF branch[b] # "done" THEN "unknown" ELSE Worst(b)]
Told ==
    IF owner = Me THEN decision
    ELSE Withheld(IF pc = "raised" THEN "lost" ELSE "open", "none")

(* What is known in each phase. *)
LEMMA FoundFirst == IInv /\ pc \in First => Found = "unknown" /\ fault["template"] = "none"
<1> SUFFICES ASSUME IInv, pc \in First PROVE ~Judged(templates) /\ fault["template"] = "none"
  BY DEF Found
<1>1. \A v \in Views : templates[v] = "none"
  BY DEF IInv, Phases
<1>2. PICK v \in Views : TRUE
  BY ConstantsAssumption
<1>3. fault["template"] = "none"
  BY DEF IInv, Phases
<1> QED BY <1>1, <1>2, <1>3 DEF Judged, Outcomes

LEMMA FoundSecond == IInv /\ pc \in Second => Found = "match"
BY DEF IInv, Phases, Found

LEMMA FoundAbandoned == IInv /\ Abandoned => Found = "match"
BY DEF IInv, Phases, Abandoned, Found

LEMMA VisibleIsMine == IInv /\ pc = "visible" => owner = Me
BY DEF IInv, Phases

LEMMA ToldOpen == IInv /\ pc \notin {"visible", "returned", "raised"} =>
                      owner # Me /\ Told = Promise!Open
BY DEF IInv, Phases, Told, Promise!Open, Promise!Stopped, Promise!Verdict, Withheld

(* The verdicts StrictVerdict admits, as a function of these two alone. *)
AdmittedIs ==
    LET strong == {b \in Branches : Findings[b] = "STRONG"}
        status == Promise!StatusOf(strong) IN
    Promise!Admitted =
        IF Found = "unknown" THEN
            {Promise!Stopped("SYSTEM_ERROR"), Promise!Stopped("INVALID_CAPTURE")}
        ELSE IF Found = "fault" THEN {Promise!Stopped("SYSTEM_ERROR")}
        ELSE IF Found = "mismatch" THEN
            {Promise!Verdict("NG_TEMPLATE", "NG_TEMPLATE", "NG_TEMPLATE")}
        ELSE IF \E b \in Branches : Findings[b] = "unknown" THEN {}
        ELSE IF \E b \in Branches : Findings[b] = "fault" THEN
            {Promise!Verdict("SYSTEM_ERROR", status, "none")}
        ELSE IF strong # {} THEN {Promise!Verdict(status, status, status)}
        ELSE IF \E b \in Branches : Findings[b] = "GRAY" THEN {Promise!Stopped("REVIEW")}
        ELSE {Promise!Verdict("OK", "none", "OK")}

LEMMA AdmittedFunction == AdmittedIs
BY DEF AdmittedIs, Promise!Admitted, Promise!Strong, Found, Findings

(* The cases of the first layer. *)
AdmitsFirst ==
    /\ Found = "unknown" => \A s \in {"SYSTEM_ERROR", "INVALID_CAPTURE"} :
                                Withheld(s, "none") \in Promise!Admitted
    /\ Found = "fault" => Withheld("SYSTEM_ERROR", "none") \in Promise!Admitted
    /\ Found = "mismatch" => Released("NG_TEMPLATE") \in Promise!Admitted

LEMMA AdmittedFirst == AdmitsFirst
<1>1. \A i, e, r : Promise!Verdict(i, e, r) = [inspection |-> i, evidence |-> e, released |-> r]
  BY DEF Promise!Verdict
<1>2. \A s : Promise!Stopped(s) = Withheld(s, "none")
  BY DEF Promise!Stopped, Promise!Verdict, Withheld
<1>3. Released("NG_TEMPLATE") = Promise!Verdict("NG_TEMPLATE", "NG_TEMPLATE", "NG_TEMPLATE")
  BY <1>1 DEF Released
<1>4. Found = "unknown" =>
          Promise!Admitted = {Promise!Stopped("SYSTEM_ERROR"), Promise!Stopped("INVALID_CAPTURE")}
  BY AdmittedFunction DEF AdmittedIs
<1>5. Found = "fault" => Promise!Admitted = {Promise!Stopped("SYSTEM_ERROR")}
  BY AdmittedFunction DEF AdmittedIs
<1>6. Found = "mismatch" =>
          Promise!Admitted = {Promise!Verdict("NG_TEMPLATE", "NG_TEMPLATE", "NG_TEMPLATE")}
  BY AdmittedFunction DEF AdmittedIs
<1> QED BY <1>2, <1>3, <1>4, <1>5, <1>6 DEF AdmitsFirst

LEMMA StrongAlike ==
    (\A b \in Branches : branch[b] = "done") =>
        Promise!Strong = Rated("STRONG") /\ Promise!StatusOf(Promise!Strong) = StrongStatus
<1> SUFFICES ASSUME \A b \in Branches : branch[b] = "done"
             PROVE  /\ Promise!Strong = Rated("STRONG")
                    /\ Promise!StatusOf(Rated("STRONG")) = StrongStatus
  OBVIOUS
<1>1. \A b \in Branches : Findings[b] = "STRONG" <=> b \in Rated("STRONG")
  BY DEF Findings, Worst, Rated, Calibrated
<1>2. Promise!Strong = {b \in Branches : Findings[b] = "STRONG"}
  BY DEF Promise!Strong, Findings
<1>3. Promise!Strong = Rated("STRONG")
  BY <1>1, <1>2 DEF Rated
<1>4. Promise!StatusOf(Rated("STRONG")) = StrongStatus
  BY DEF Promise!StatusOf, StrongStatus, FirstStrong
<1> QED BY <1>3, <1>4

(* What the merge decides is what the findings of the branches admit. *)
LEMMA AdmittedMerged ==
    ASSUME Found = "match", \A b \in Branches : branch[b] = "done"
    PROVE  /\ Faulty = {} => FuseModels \in Promise!Admitted
           /\ Faulty # {} => Withheld("SYSTEM_ERROR", StrongStatus) \in Promise!Admitted
<1>1. \A b \in Branches : Findings[b] = Worst(b)
  BY DEF Findings
<1>2. \A b \in Branches : Worst(b) # "unknown"
  BY DEF Worst
<1>3. \A b \in Branches : Worst(b) = "fault" <=> b \in Faulty
  BY DEF Worst, Faulty
<1>4. Rated("STRONG") = {} => \A b \in Branches : Worst(b) = "GRAY" <=> b \in Rated("GRAY")
  BY DEF Worst, Rated, Calibrated
<1>5. Rated("GRAY") \subseteq Branches /\ Faulty \subseteq Branches
  BY DEF Rated, Faulty
<1>6. Promise!Strong = Rated("STRONG") /\ Promise!StatusOf(Promise!Strong) = StrongStatus
  BY StrongAlike
<1>7. Promise!Admitted =
          IF \E b \in Branches : Findings[b] = "unknown" THEN {}
          ELSE IF \E b \in Branches : Findings[b] = "fault" THEN
              {Promise!Verdict("SYSTEM_ERROR", Promise!StatusOf(Promise!Strong), "none")}
          ELSE IF Promise!Strong # {} THEN
              {Promise!Verdict(Promise!StatusOf(Promise!Strong), Promise!StatusOf(Promise!Strong),
                               Promise!StatusOf(Promise!Strong))}
          ELSE IF \E b \in Branches : Findings[b] = "GRAY" THEN {Promise!Stopped("REVIEW")}
          ELSE {Promise!Verdict("OK", "none", "OK")}
  BY DEF Promise!Admitted, Found, Findings
<1>8. \A i, e, r : Promise!Verdict(i, e, r) = [inspection |-> i, evidence |-> e, released |-> r]
  BY DEF Promise!Verdict
<1>9. \A s : Promise!Stopped(s) = Withheld(s, "none")
  BY DEF Promise!Stopped, Promise!Verdict, Withheld
<1>10. \A e : Promise!Verdict("SYSTEM_ERROR", e, "none") = Withheld("SYSTEM_ERROR", e)
  BY <1>8 DEF Withheld
<1>11. Promise!Verdict("OK", "none", "OK") = Released("OK")
  BY <1>8 DEF Released
<1>12. Rated("STRONG") # {} => StrongStatus # "OK"
  BY StrongStatusNames DEF Rated, Branches, NG
<1>13. Rated("STRONG") # {} =>
           Promise!Verdict(StrongStatus, StrongStatus, StrongStatus) = Released(StrongStatus)
  BY <1>8, <1>12 DEF Released
<1>14. ~ \E b \in Branches : Findings[b] = "unknown"
  BY <1>1, <1>2
<1>15. (\E b \in Branches : Findings[b] = "fault") <=> Faulty # {}
  BY <1>1, <1>3, <1>5
<1>16. ASSUME Faulty # {} PROVE Withheld("SYSTEM_ERROR", StrongStatus) \in Promise!Admitted
  BY <1>6, <1>7, <1>10, <1>14, <1>15, <1>16
<1>17. ASSUME Faulty = {} PROVE FuseModels \in Promise!Admitted
  <2>1. CASE Rated("STRONG") # {}
    BY <1>6, <1>7, <1>13, <1>14, <1>15, <1>17, <2>1 DEF FuseModels
  <2>2. CASE Rated("STRONG") = {}
    <3>1. (\E b \in Branches : Findings[b] = "GRAY") <=> Rated("GRAY") # {}
      BY <1>1, <1>4, <1>5, <2>2
    <3> QED BY <1>6, <1>7, <1>9, <1>11, <1>14, <1>15, <1>17, <2>2, <3>1 DEF FuseModels
  <2> QED BY <2>1, <2>2
<1> QED BY <1>16, <1>17

-----------------------------------------------------------------------------
(* Deserved: from the moment of the decision on, the evidence admits it.    *)
Deserved == decision # NoDecision => decision \in Promise!Admitted

(* The evidence, in the terms of StrictVerdict, is all it depends on. *)
LEMMA EvidenceFrame ==
    UNCHANGED <<fault, templates, branch, raw>> =>
        Found' = Found /\ Findings' = Findings /\ Promise!Admitted' = Promise!Admitted
<1> SUFFICES ASSUME UNCHANGED <<fault, templates, branch, raw>>
             PROVE  Found' = Found /\ Findings' = Findings /\ Promise!Admitted' = Promise!Admitted
  OBVIOUS
<1>1. Found' = Found
  BY DEF Found, Judged, Mismatch
<1>2. Findings' = Findings
  BY DEF Findings, Worst, Rated, Calibrated
<1>3. Promise!Admitted' = Promise!Admitted
  <2>1. AdmittedIs /\ AdmittedIs'
    BY AdmittedFunction, PTL
  <2> QED BY <1>1, <1>2, <2>1 DEF AdmittedIs
<1> QED BY <1>1, <1>2, <1>3

LEMMA DeservedFrame ==
    Deserved /\ UNCHANGED <<decision, fault, templates, branch, raw>> => Deserved'
BY EvidenceFrame DEF Deserved

(* Before the decision there is nothing to deserve, and threads end before it. *)
LEMMA DeservedBefore ==
    ASSUME IInv, pc \in First \cup Second \/ Abandoned, decision' = decision
    PROVE  Deserved'
BY DEF IInv, Phases, Abandoned, Deserved, NoDecision, Withheld

LEMMA FaultDeserved ==
    ASSUME IInv, Deserved, pc \in First, NEW text \in Texts, TemplateFault(text)
    PROVE  Deserved'
<1>1. fault'["template"] = text /\ text # "none"
  BY DEF TemplateFault, IInv, TypeOK, Stages, Texts
<1>2. Found' = "fault"
  BY <1>1 DEF Found
<1>3. Withheld("SYSTEM_ERROR", "none") \in Promise!Admitted'
  <2>1. AdmitsFirst'
    BY AdmittedFirst, PTL
  <2> QED BY <1>2, <2>1 DEF AdmitsFirst
<1>4. decision' \in {Withheld("SYSTEM_ERROR", "none"), NoDecision}
  BY DEF TemplateFault, DecideUnlessSpaced, Decide, Lose, IInv, Phases
<1> QED BY <1>3, <1>4 DEF Deserved, NoDecision, Withheld

LEMMA MatchDeserved ==
    ASSUME IInv, Deserved, MatchTemplates
    PROVE  Deserved'
<1>1. pc \in First /\ decision = NoDecision /\ fault["template"] = "none"
  BY DEF MatchTemplates, IInv, Phases, First
<1>2. CASE ~Judged(templates')
  <2>1. TemplateFault("spaced")
    BY <1>2 DEF MatchTemplates
  <2> QED BY <1>1, <2>1, FaultDeserved DEF Texts
<1>3. CASE Judged(templates') /\ Mismatch(templates')
  <2>1. decision' = Released("NG_TEMPLATE") /\ fault' = fault
    BY <1>3 DEF MatchTemplates, Decide
  <2>2. Found' = "mismatch"
    BY <1>1, <1>3, <2>1 DEF Found
  <2>3. Released("NG_TEMPLATE") \in Promise!Admitted'
    <3>1. AdmitsFirst'
      BY AdmittedFirst, PTL
    <3> QED BY <2>2, <3>1 DEF AdmitsFirst
  <2> QED BY <2>1, <2>3 DEF Deserved
<1>4. CASE Judged(templates') /\ ~Mismatch(templates')
  BY <1>1, <1>4, DeservedBefore DEF MatchTemplates, Goto
<1> QED BY <1>2, <1>3, <1>4

LEMMA DeservedStep == IInv /\ Deserved /\ [Next]_vars => Deserved'
<1> SUFFICES ASSUME IInv, Deserved, [Next]_vars PROVE Deserved'
  OBVIOUS
<1> USE DEF Goto, Decide, Lose, threadVars
<1>1. CASE Coordinate
  <2>1. CASE PassPreflight
    BY <2>1, DeservedFrame DEF PassPreflight
  <2>2. CASE FailPreflight
    <3>1. Found = "unknown" /\ UNCHANGED <<fault, templates, branch, raw>>
      BY <2>2, FoundFirst DEF FailPreflight, First
    <3>2. PICK s \in {"SYSTEM_ERROR", "INVALID_CAPTURE"} : decision' = Withheld(s, "none")
      BY <2>2 DEF FailPreflight
    <3> QED BY <3>1, <3>2, AdmittedFirst, EvidenceFrame DEF AdmitsFirst, Deserved
  <2>3. CASE Admit
    <3>1. Found = "unknown" /\ UNCHANGED <<fault, templates, branch, raw>>
      BY <2>3, FoundFirst DEF Admit, First
    <3>2. \/ \E s \in {"SYSTEM_ERROR", "INVALID_CAPTURE"} : decision' = Withheld(s, "none")
          \/ UNCHANGED decision
      BY <2>3 DEF Admit
    <3> QED BY <3>1, <3>2, AdmittedFirst, EvidenceFrame DEF AdmitsFirst, Deserved
  <2>4. CASE Crop
    BY <2>4, DeservedFrame DEF Crop
  <2>5. CASE FailFirstLayer
    <3>1. PICK text \in Texts : TemplateFault(text)
      BY <2>5 DEF FailFirstLayer
    <3> QED BY <2>5, <3>1, FaultDeserved DEF FailFirstLayer, First
  <2>6. CASE VerifyTemplateInputs
    BY <2>6, DeservedFrame DEF VerifyTemplateInputs
  <2>7. CASE MatchTemplates
    BY <2>7, MatchDeserved
  <2>8. CASE Merge
    <3>1. Found = "match" /\ \A b \in Branches : branch[b] = "done"
      BY <2>8, FoundSecond DEF Merge, Second
    <3>2. \/ Faulty = {} /\ decision' = FuseModels
          \/ Faulty # {} /\ decision' = Withheld("SYSTEM_ERROR", StrongStatus)
          \/ UNCHANGED decision
      BY <2>8 DEF Merge, DecideUnlessSpaced
    <3>3. UNCHANGED <<fault, templates, branch, raw>>
      BY <2>8 DEF Merge
    <3> QED BY <3>1, <3>2, <3>3, AdmittedMerged, EvidenceFrame DEF Deserved
  <2>9. CASE Validate
    BY <2>9, DeservedFrame DEF Validate
  <2>10. CASE CopyEvidence
    BY <2>10, DeservedFrame DEF CopyEvidence
  <2>11. CASE ValidateStaging
    BY <2>11, DeservedFrame DEF ValidateStaging
  <2>12. CASE Rename
    BY <2>12, DeservedFrame DEF Rename
  <2>13. CASE PublicationFails
    BY <2>13, DeservedFrame DEF PublicationFails
  <2>14. CASE Answer
    BY <2>14, DeservedFrame DEF Answer
  <2>15. CASE Unwind
    BY <2>15, DeservedFrame DEF Unwind
  <2>16. CASE RemoveCrops
    BY <2>16, DeservedFrame DEF RemoveCrops
  <2> QED BY <1>1, <2>1, <2>2, <2>3, <2>4, <2>5, <2>6, <2>7, <2>8, <2>9,
         <2>10, <2>11, <2>12, <2>13, <2>14, <2>15, <2>16 DEF Coordinate
<1>2. ASSUME NEW b \in Branches, BranchStep(b) PROVE Deserved'
  <2>1. branch[b] \notin {"idle", "done"} /\ decision' = decision
    BY <1>2 DEF BranchStep, LoadPredictor, VerifyCrops, Predict, FailBranch, Calibrate, threadFrame
  <2>2. pc \in Second \/ Abandoned
    BY <2>1 DEF IInv, Phases
  <2> QED BY <2>1, <2>2, DeservedBefore
<1>3. CASE Environment
  BY <1>3, DeservedFrame DEF Environment, Interrupt, Pressed, LeaveUnanswered, Damage, IdTaken
<1>4. CASE UNCHANGED vars
  BY <1>4, DeservedFrame DEF vars
<1> QED BY <1>1, <1>2, <1>3, <1>4 DEF Next

(* Every decision that becomes visible is deserved. *)
LEMMA DeservedAlways == Spec => []Deserved
<1>1. Init => Deserved
  BY DEF Init, Deserved
<1> QED BY <1>1, DeservedStep, Invariance, PTL DEF Spec

-----------------------------------------------------------------------------
(* The refinement.  The state of StrictVerdict is <<Found, Findings, Told>>. *)
LEMMA PromiseVars ==
    UNCHANGED <<Found, Findings, Told>> => UNCHANGED Promise!vars
BY DEF Found, Findings, Told, Promise!vars

LEMMA PromiseInit == Init => Promise!Init
<1> SUFFICES ASSUME Init PROVE Promise!Init
  OBVIOUS
<1>1. IInv /\ pc \in First
  BY InitInv DEF Init, First
<1>2. Found = "unknown"
  BY <1>1, FoundFirst
<1>3. Findings = [b \in Branches |-> "unknown"]
  BY DEF Init, Findings
<1>4. Told = Promise!Open
  BY <1>1, ToldOpen DEF Init
<1> QED BY <1>2, <1>3, <1>4 DEF Promise!Init, Found, Findings, Told

(* The verdict stays open, or is lost, while the inspection does not own its id. *)
LEMMA Quiet ==
    ASSUME owner' # Me, pc' # "raised"
    PROVE  Told' = Promise!Open
BY DEF Told, Promise!Open, Promise!Stopped, Promise!Verdict, Withheld

LEMMA Losing ==
    ASSUME owner # Me, NEW why, Lose(why)
    PROVE  Told' = Promise!Lost
BY DEF Lose, Shelf!Refuse, Told, Promise!Lost, Promise!Stopped, Promise!Verdict, Withheld

(* Steps that learn nothing and do not answer. *)
LEMMA Unnoticed ==
    ASSUME IInv, pc \notin {"visible", "returned", "raised"},
           UNCHANGED <<fault, templates, branch, raw>>,
           \/ owner' # Me /\ pc' # "raised"
           \/ \E why \in {"undecidable", "rejected", "publication", "interrupt"} : Lose(why)
    PROVE  [Promise!Next]_(Promise!vars)
<1>1. owner # Me /\ Told = Promise!Open
  BY ToldOpen
<1>2. Found' = Found /\ Findings' = Findings
  BY EvidenceFrame
<1>3. CASE owner' # Me /\ pc' # "raised"
  BY <1>1, <1>2, <1>3, Quiet, PromiseVars
<1>4. CASE \E why \in {"undecidable", "rejected", "publication", "interrupt"} : Lose(why)
  <2>1. Told' = Promise!Lost
    BY <1>1, <1>4, Losing
  <2>2. Promise!Lose
    BY <1>1, <1>2, <2>1 DEF Promise!Lose, Found, Findings, Told
  <2> QED BY <2>2 DEF Promise!Next
<1> QED BY <1>3, <1>4

(* The first layer fails: its fault is learnt, the verdict perhaps lost. *)
LEMMA FaultLearnt ==
    ASSUME IInv, pc \in First, NEW text \in Texts, TemplateFault(text), UNCHANGED <<branch, raw>>
    PROVE  Promise!TemplateFault
<1>1. Found = "unknown" /\ owner # Me /\ Told = Promise!Open
  BY FoundFirst, ToldOpen DEF First
<1>2. Found' = "fault"
  BY DEF TemplateFault, Found, IInv, TypeOK, Stages, Texts
<1>3. Findings' = Findings
  <2>1. \A b \in Branches : branch[b] # "done" /\ branch'[b] # "done"
    BY DEF IInv, Phases
  <2> QED BY <2>1 DEF Findings
<1>4. Told' \in {Promise!Open, Promise!Lost}
  <2>1. CASE Lose("undecidable")
    BY <1>1, <2>1, Losing
  <2>2. CASE ~Lose("undecidable")
    BY <1>1, <2>2, Quiet DEF TemplateFault, DecideUnlessSpaced, Decide, shelfVars
  <2> QED BY <2>1, <2>2
<1> QED BY <1>1, <1>2, <1>3, <1>4 DEF Promise!TemplateFault, Found, Findings, Told

LEMMA TemplatesLearnt ==
    ASSUME IInv, MatchTemplates
    PROVE  Promise!TemplateFault \/ Promise!LearnTemplate
<1>1. pc \in First /\ Found = "unknown" /\ fault["template"] = "none"
      /\ owner # Me /\ Told = Promise!Open
  BY FoundFirst, ToldOpen DEF MatchTemplates, First
<1>2. CASE ~Judged(templates')
  <2>1. TemplateFault("spaced") /\ UNCHANGED <<branch, raw>>
    BY <1>2 DEF MatchTemplates
  <2> QED BY <1>1, <2>1, FaultLearnt DEF Texts
<1>3. CASE Judged(templates')
  <2>1. /\ fault' = fault /\ owner' = owner /\ pc' \in {"decided", "collect"}
        /\ \A b \in Branches : branch'[b] # "done"
    BY <1>1, <1>3 DEF MatchTemplates, Decide, Goto, shelfVars, IInv, Phases
  <2>2. Found' \in {"match", "mismatch"}
    BY <1>1, <1>3, <2>1 DEF Found
  <2>3. Findings' = Findings
    <3>1. \A b \in Branches : branch[b] # "done"
      BY <1>1 DEF IInv, Phases
    <3> QED BY <2>1, <3>1 DEF Findings
  <2>4. Told' = Promise!Open
    BY <1>1, <2>1, Quiet
  <2> QED BY <1>1, <2>2, <2>3, <2>4 DEF Promise!LearnTemplate, Found, Findings, Told
<1> QED BY <1>2, <1>3

(* A thread goes on: nothing is learnt before it ends. *)
LEMMA BranchLearnt ==
    ASSUME IInv, NEW b \in Branches, BranchStep(b)
    PROVE  [Promise!Next]_(Promise!vars)
<1>1. /\ branch[b] \notin {"idle", "done"}
      /\ UNCHANGED <<pc, templates, decision, owner>>
      /\ \A c \in Branches \ {b} :
             /\ branch'[c] = branch[c] /\ raw'[c] = raw[c] /\ fault'[c] = fault[c]
      /\ fault'["template"] = fault["template"]
      /\ branch'[b] \in {"loaded", "verified", "predicted", "done"}
  BY DEF BranchStep, LoadPredictor, VerifyCrops, Predict, FailBranch, Calibrate, threadFrame,
         shelfVars, IInv, TypeOK, Stages, Branches
<1>2. (pc \in Second \/ Abandoned) /\ owner # Me
  BY <1>1, Undecided DEF IInv
<1>3. Found = "match" /\ Told \in {Promise!Open, Promise!Lost}
  <2>1. CASE pc \in Second
    BY <2>1, FoundSecond, ToldOpen DEF Second
  <2>2. CASE Abandoned
    BY <1>2, <2>2, FoundAbandoned DEF Abandoned, Told, Promise!Lost, Promise!Stopped,
       Promise!Verdict, Withheld
  <2> QED BY <1>2, <2>1, <2>2
<1>4. Found' = Found /\ Told' = Told
  BY <1>1 DEF Found, Told
<1>5. \A c \in Branches \ {b} : Worst(c)' = Worst(c)
  BY <1>1 DEF Worst, Rated, Calibrated
<1>6. \A c \in Branches \ {b} : Findings'[c] = Findings[c]
  BY <1>1, <1>5 DEF Findings
<1>7. Findings[b] = "unknown"
  BY <1>1 DEF Findings
<1>8. CASE branch'[b] # "done"
  <2>1. Findings'[b] = "unknown"
    BY <1>8 DEF Findings
  <2>2. Findings' = Findings
    BY <1>6, <1>7, <2>1 DEF Findings
  <2> QED BY <1>4, <2>2, PromiseVars
<1>9. CASE branch'[b] = "done"
  <2>1. Findings'[b] \in {"CLEAR", "GRAY", "STRONG", "fault"}
    BY <1>9 DEF Findings, Worst
  <2>2. Findings' = [Findings EXCEPT ![b] = Findings'[b]]
    BY <1>6 DEF Findings
  <2>3. Promise!LearnModel(b)
    BY <1>3, <1>4, <1>7, <2>1, <2>2 DEF Promise!LearnModel, Found, Findings, Told
  <2> QED BY <2>3 DEF Promise!Next
<1> QED BY <1>8, <1>9

(* The rename makes the decision visible: the verdict is published. *)
LEMMA VerdictPublished ==
    ASSUME IInv, Deserved, Rename
    PROVE  Promise!Publish
<1>1. owner' = Me /\ decision' = decision /\ UNCHANGED <<fault, templates, branch, raw>>
  BY DEF Rename, Shelf!Claim, threadVars
<1>2. Told = Promise!Open /\ decision # NoDecision
  BY ToldOpen DEF Rename, IInv, Phases, Late
<1>3. Told' = decision /\ decision \in Promise!Admitted
  BY <1>1, <1>2 DEF Told, Deserved
<1>4. Found' = Found /\ Findings' = Findings
  BY <1>1, EvidenceFrame
<1> QED BY <1>2, <1>3, <1>4 DEF Promise!Publish, Found, Findings, Told

LEMMA RefinementStep == IInv /\ Deserved /\ [Next]_vars => [Promise!Next]_(Promise!vars)
<1> SUFFICES ASSUME IInv, Deserved, [Next]_vars PROVE [Promise!Next]_(Promise!vars)
  OBVIOUS
<1> USE DEF Goto, Decide, DecideUnlessSpaced, shelfVars, threadVars
<1>0. pc \notin {"visible", "returned", "raised"} => owner # Me
  BY ToldOpen
<1>1. CASE Coordinate
  <2>1. CASE PassPreflight
    BY <1>0, <2>1, Unnoticed DEF PassPreflight
  <2>2. CASE FailPreflight
    BY <1>0, <2>2, Unnoticed DEF FailPreflight
  <2>3. CASE Admit
    BY <1>0, <2>3, Unnoticed DEF Admit
  <2>4. CASE Crop
    BY <1>0, <2>4, Unnoticed DEF Crop
  <2>5. CASE FailFirstLayer
    <3>1. PICK text \in Texts : TemplateFault(text)
      BY <2>5 DEF FailFirstLayer
    <3>2. Promise!TemplateFault
      BY <2>5, <3>1, FaultLearnt DEF FailFirstLayer, First
    <3> QED BY <3>2 DEF Promise!Next
  <2>6. CASE VerifyTemplateInputs
    BY <1>0, <2>6, Unnoticed DEF VerifyTemplateInputs
  <2>7. CASE MatchTemplates
    BY <2>7, TemplatesLearnt DEF Promise!Next
  <2>8. CASE Merge
    BY <1>0, <2>8, Unnoticed DEF Merge
  <2>9. CASE Validate
    BY <1>0, <2>9, Unnoticed DEF Validate
  <2>10. CASE CopyEvidence
    BY <1>0, <2>10, Unnoticed DEF CopyEvidence
  <2>11. CASE ValidateStaging
    BY <1>0, <2>11, Unnoticed DEF ValidateStaging
  <2>12. CASE Rename
    BY <2>12, VerdictPublished DEF Promise!Next
  <2>13. CASE PublicationFails
    BY <1>0, <2>13, Unnoticed DEF PublicationFails
  <2>14. CASE Answer
    <3>1. owner = Me /\ owner' = Me /\ decision' = decision
      BY <2>14 DEF Answer, Shelf!Confirm, Shelf!Doubt
    <3>2. Told' = Told
      BY <3>1 DEF Told
    <3> QED BY <2>14, <3>2, EvidenceFrame, PromiseVars DEF Answer
  <2>15. CASE Unwind
    BY <1>0, <2>15, Unnoticed DEF Unwind
  <2>16. CASE RemoveCrops
    BY <2>16, EvidenceFrame, PromiseVars DEF RemoveCrops, Told
  <2> QED BY <1>1, <2>1, <2>2, <2>3, <2>4, <2>5, <2>6, <2>7, <2>8, <2>9,
         <2>10, <2>11, <2>12, <2>13, <2>14, <2>15, <2>16 DEF Coordinate
<1>2. ASSUME NEW b \in Branches, BranchStep(b) PROVE [Promise!Next]_(Promise!vars)
  BY <1>2, BranchLearnt
<1>3. CASE Environment
  <2>1. CASE Interrupt
    <3>1. CASE pc = "visible"
      <4>1. owner' = owner /\ decision' = decision /\ (owner = Me \/ pc' = "raised")
        BY <2>1, <3>1 DEF Interrupt, LeaveUnanswered
      <4> QED BY <2>1, <3>1, <4>1, VisibleIsMine, EvidenceFrame, PromiseVars
              DEF Interrupt, Pressed, Told
    <3>2. CASE pc # "visible"
      BY <1>0, <2>1, <3>2, Unnoticed DEF Interrupt, Pressed, LeaveUnanswered, Ended
    <3> QED BY <3>1, <3>2
  <2>2. CASE Damage
    BY <2>2, EvidenceFrame, PromiseVars DEF Damage, Told
  <2>3. CASE IdTaken
    <3>1. owner # Me /\ owner' # Me /\ pc' = pc
      BY <2>3, ConstantsAssumption DEF IdTaken, Shelf!ClaimByStranger
    <3>2. Told' = Told
      BY <3>1 DEF Told
    <3> QED BY <2>3, <3>2, EvidenceFrame, PromiseVars DEF IdTaken
  <2> QED BY <1>3, <2>1, <2>2, <2>3 DEF Environment
<1>4. CASE UNCHANGED vars
  BY <1>4, EvidenceFrame, PromiseVars DEF vars, Told
<1> QED BY <1>1, <1>2, <1>3, <1>4 DEF Next

(* Threads, faults, three checks of every file and interrupts included, an  *)
(* inspection does nothing that StrictVerdict does not allow: it publishes  *)
(* at most one verdict, and only the one its evidence calls for.            *)
THEOREM Refinement == Spec => ImplementsVerdict
BY PromiseInit, RefinementStep, Invariance, DeservedAlways, PTL
   DEF Spec, ImplementsVerdict, Promise!Spec

=============================================================================
