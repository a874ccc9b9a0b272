---------------------------- MODULE StrictVerdict ----------------------------
(***************************************************************************)
(* What one inspection promises to whoever acts on its result, without     *)
(* threads, files or stages (docs/ZS32_REFACTOR_BLUEPRINT.md 13.2 and 14,  *)
(* as fusion/engine.py decides it): evidence is learnt once and never      *)
(* unlearnt, the verdict is a function of the evidence alone, it is given  *)
(* at most once, and an incomplete inspection releases nothing.            *)
(***************************************************************************)
CONSTANTS
    Branches,   \* the second-layer branches
    Primary,    \* the branch that names the part's status if both are STRONG
    NG          \* the status a STRONG row of each branch stands for

VARIABLES
    template,   \* what the first layer found
    model,      \* what each branch of the second layer found
    verdict     \* the published verdict, Open or Lost

vars == <<template, model, verdict>>

(* The status a set of STRONG branches stands for. *)
StatusOf(strong) ==
    CASE strong = {}        -> "none"
      [] Primary \in strong -> NG[Primary]
      [] OTHER              -> NG[CHOOSE b \in strong : TRUE]

Verdict(inspection, evidence, released) ==
    [inspection |-> inspection, evidence |-> evidence, released |-> released]

Stopped(status) == Verdict(status, "none", "none")

(* No verdict yet, and no verdict ever. *)
Open == Stopped("open")
Lost == Stopped("lost")

Init ==
    /\ template = "unknown"
    /\ model = [b \in Branches |-> "unknown"]
    /\ verdict = Open

Strong == {b \in Branches : model[b] = "STRONG"}

(* The verdicts the evidence learnt so far admits. *)
Admitted ==
    IF template = "unknown" THEN {Stopped("SYSTEM_ERROR"), Stopped("INVALID_CAPTURE")}
    ELSE IF template = "fault" THEN {Stopped("SYSTEM_ERROR")}
    ELSE IF template = "mismatch" THEN {Verdict("NG_TEMPLATE", "NG_TEMPLATE", "NG_TEMPLATE")}
    ELSE IF \E b \in Branches : model[b] = "unknown" THEN {}
    ELSE IF \E b \in Branches : model[b] = "fault" THEN
        {Verdict("SYSTEM_ERROR", StatusOf(Strong), "none")}
    ELSE IF Strong # {} THEN {Verdict(StatusOf(Strong), StatusOf(Strong), StatusOf(Strong))}
    ELSE IF \E b \in Branches : model[b] = "GRAY" THEN {Stopped("REVIEW")}
    ELSE {Verdict("OK", "none", "OK")}

LearnTemplate ==
    /\ template = "unknown"
    /\ verdict = Open
    /\ template' \in {"match", "mismatch"}
    /\ UNCHANGED <<model, verdict>>

(* A fault may at once cost the inspection its verdict. *)
TemplateFault ==
    /\ template = "unknown"
    /\ verdict = Open
    /\ template' = "fault"
    /\ verdict' \in {Open, Lost}
    /\ UNCHANGED model

(* The branches of an inspection that was given up may still come to an end. *)
LearnModel(b) ==
    /\ template = "match"
    /\ model[b] = "unknown"
    /\ verdict \in {Open, Lost}
    /\ \E found \in {"CLEAR", "GRAY", "STRONG", "fault"} :
           model' = [model EXCEPT ![b] = found]
    /\ UNCHANGED <<template, verdict>>

Publish ==
    /\ verdict = Open
    /\ verdict' \in Admitted
    /\ UNCHANGED <<template, model>>

Lose ==
    /\ verdict = Open
    /\ verdict' = Lost
    /\ UNCHANGED <<template, model>>

Next ==
    \/ LearnTemplate
    \/ TemplateFault
    \/ \E b \in Branches : LearnModel(b)
    \/ Publish
    \/ Lose

Spec == Init /\ [][Next]_vars

=============================================================================
