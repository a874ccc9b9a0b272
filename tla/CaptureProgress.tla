--------------------------- MODULE CaptureProgress ---------------------------
(***************************************************************************)
(* The safety half of Capture.RunsEnd, for every set of processes, every   *)
(* number of cameras, rounds, settle frames and retries: the loops of      *)
(* capture/service.py (rounds) and capture/hikvision.py (HDR attempts,     *)
(* exposure passes, settle frames, grouped reads) only ever go forward.    *)
(***************************************************************************)
EXTENDS CaptureProofs

(* The way of a run: before, through and after its rounds. *)
EraOf ==
    [start |-> 0, confirm |-> 1, open |-> 1, expose |-> 1, trigger |-> 1, read |-> 1,
     fuse |-> 1, encode |-> 1, gates |-> 2, failing |-> 3, publish |-> 3,
     quarantined |-> 4, visible |-> 4, leave |-> 5, ended |-> 6]

(* The steps of a round that belong to one grouped trigger. *)
PhaseOf ==
    [confirm |-> 0, open |-> 1, expose |-> 2, trigger |-> 3, read |-> 4, fuse |-> 5,
     encode |-> 6]

Capturing == {"confirm"} \cup Round

(* The order of rounds, attempts, exposure passes and grouped triggers. *)
Later(a, b) ==
    \/ b.round > a.round
    \/ b.round = a.round /\ b.attempt > a.attempt
    \/ b.round = a.round /\ b.attempt = a.attempt /\ b.pass > a.pass
    \/ b.round = a.round /\ b.attempt = a.attempt /\ b.pass = a.pass /\ b.shot > a.shot

(* One image fewer is waiting to be read. *)
Fewer == \E c \in Slots : queue[c] # <<>> /\ queue' = [queue EXCEPT ![c] = Tail(@)]

(* A run advances in the lexicographic order of era, round, attempt, pass,  *)
(* shot, phase and waiting images: TypeOK bounds the first six by the       *)
(* constants, and no camera holds more than one image (Provenance).         *)
Advances(r) ==
    \/ EraOf[pc'[r]] > EraOf[pc[r]]
    \/ /\ {pc[r], pc'[r]} \subseteq Capturing
       /\ \/ Later(at[r], at'[r])
          \/ at'[r] = at[r] /\ PhaseOf[pc'[r]] > PhaseOf[pc[r]]
    \/ pc[r] = "read" /\ pc'[r] = "read" /\ at'[r] = at[r] /\ Fewer

(* A run is where it was, and the images it waits for are there. *)
Stays(q) ==
    /\ pc'[q] = pc[q] /\ at'[q] = at[q]
    /\ pc[q] = "read" => UNCHANGED queue

LEMMA StepAdvances ==
    ASSUME Staged, NEW r \in Runs, Step(r) \/ Interrupt(r)
    PROVE  Advances(r)
<1>a. /\ at[r] \in AtSet /\ pc[r] \in PCs /\ pc \in [Runs -> PCs] /\ at \in [Runs -> AtSet]
      /\ told \in [Runs -> Kinds \cup {"nothing", "ok", "failed", "interrupted"}]
  BY DEF Staged, TypeOK, AtSet
<1>b. /\ at[r].round \in Nat /\ at[r].attempt \in Nat /\ at[r].pass \in Nat /\ at[r].shot \in Nat
  BY <1>a DEF AtSet
<1> USE <1>a DEF Advances, Goto, Abandon, Leave, Capturing, Round, EraOf, PhaseOf
<1>1. CASE Prepare(r)
  BY <1>1 DEF Prepare
<1>2. CASE RefuseRequest(r)
  BY <1>2 DEF RefuseRequest
<1>3. CASE ConfirmRound(r)
  BY <1>3 DEF ConfirmRound, progress
<1>4. CASE CannotAsk(r)
  BY <1>4 DEF CannotAsk
<1>5. CASE Open(r)
  BY <1>5 DEF Open, progress
<1>6. CASE OpenFails(r)
  BY <1>6 DEF OpenFails
<1>7. CASE SetExposure(r)
  BY <1>7 DEF SetExposure, progress
<1>8. CASE TriggerAll(r)
  BY <1>8 DEF TriggerAll
<1>9. CASE Read(r)
  BY <1>9 DEF Read, Fewer
<1>10. CASE SettleFrame(r)
  <2>1. at'[r] = [round |-> at[r].round, attempt |-> at[r].attempt, pass |-> at[r].pass,
                  shot |-> at[r].shot + 1]
    BY <1>10 DEF SettleFrame, Aim
  <2>2. Later(at[r], at'[r])
    BY <1>b, <2>1 DEF Later
  <2> QED BY <1>10, <2>2 DEF SettleFrame
<1>11. CASE FinishPass(r)
  <2>1. CASE at[r].pass < Len(Settings)
    <3>1. at'[r] = [round |-> at[r].round, attempt |-> at[r].attempt, pass |-> at[r].pass + 1,
                    shot |-> 1]
      BY <1>11, <2>1 DEF FinishPass, Aim
    <3>2. Later(at[r], at'[r])
      BY <1>b, <3>1 DEF Later
    <3> QED BY <1>11, <2>1, <3>2 DEF FinishPass
  <2>2. CASE ~(at[r].pass < Len(Settings))
    BY <1>11, <2>2 DEF FinishPass
  <2> QED BY <2>1, <2>2
<1>12. CASE RetryHdr(r)
  <2>1. at'[r] = [round |-> at[r].round, attempt |-> at[r].attempt + 1, pass |-> 1, shot |-> 1]
    BY <1>12 DEF RetryHdr, Aim
  <2>2. Later(at[r], at'[r])
    BY <1>b, <2>1 DEF Later
  <2> QED BY <1>12, <2>2 DEF RetryHdr
<1>13. CASE AcceptImages(r)
  BY <1>13 DEF AcceptImages, progress
<1>14. CASE RoundFails(r)
  BY <1>14 DEF RoundFails
<1>15. CASE AcceptRound(r)
  <2>1. CASE pc'[r] \in {"failing", "gates"}
    BY <1>15, <2>1 DEF AcceptRound
  <2>2. CASE Goto(r, "confirm") /\ BeginRound(r, at[r].round + 1)
    <3>1. at'[r] = Start(at[r].round + 1)
      BY <2>2 DEF BeginRound
    <3>2. Later(at[r], at'[r])
      BY <1>b, <3>1 DEF Later, Start
    <3> QED BY <1>15, <2>2, <3>2 DEF AcceptRound
  <2> QED BY <1>15, <2>1, <2>2 DEF AcceptRound
<1>16. CASE Judge(r)
  BY <1>16 DEF Judge
<1>17. CASE Quarantine(r)
  BY <1>17 DEF Quarantine
<1>18. CASE QuarantineConfirmed(r)
  BY <1>18 DEF QuarantineConfirmed
<1>19. CASE QuarantineTaken(r)
  BY <1>19 DEF QuarantineTaken
<1>20. CASE QuarantineFails(r)
  BY <1>20 DEF QuarantineFails
<1>21. CASE Publish(r)
  BY <1>21 DEF Publish
<1>22. CASE PublishConfirmed(r)
  BY <1>22 DEF PublishConfirmed
<1>23. CASE PublishFails(r)
  BY <1>23 DEF PublishFails
<1>24. CASE Exit(r)
  BY <1>24 DEF Exit
<1>25. CASE ExitFails(r)
  BY <1>25 DEF ExitFails
<1>26. CASE Interrupt(r)
  BY <1>26 DEF Interrupt, PCs
<1> QED BY <1>1, <1>2, <1>3, <1>4, <1>5, <1>6, <1>7, <1>8, <1>9, <1>10, <1>11, <1>12, <1>13, <1>14, <1>15, <1>16, <1>17, <1>18, <1>19, <1>20, <1>21, <1>22, <1>23, <1>24, <1>25, <1>26 DEF Step

LEMMA OthersStay ==
    ASSUME Staged, Provenance, NEW r \in Runs, Step(r) \/ Interrupt(r), NEW q \in Runs \ {r}
    PROVE  Stays(q)
<1>1. TypeOK /\ Owned(r) /\ Owned(q)
  BY DEF Staged, Provenance
<1>2. pc'[q] = pc[q] /\ at'[q] = at[q]
  BY <1>1, Others
<1>3. ASSUME pc[q] = "read" PROVE UNCHANGED queue
  <2>1. handles[q]
    BY <1>1, <1>3 DEF Owned, Round
  <2>2. \A c \in Slots : queue'[c] = queue[c]
    BY <1>1, <2>1, Undisturbed
  <2>3. queue' \in [Slots -> Seq(ImageSet)] /\ queue \in [Slots -> Seq(ImageSet)]
    BY StepStaged DEF Staged, TypeOK
  <2> QED BY <2>2, <2>3
<1> QED BY <1>2, <1>3 DEF Stays

(* Whatever the operator, the cameras and the stores do, each step moves    *)
(* one run forward and none back: rounds, HDR retries, exposure passes,     *)
(* settle frames and reads are all bounded.  RunsEnd adds, under fairness,  *)
(* that a run that has not ended has a step to take.                        *)
OneRunAdvances ==
    [][\E r \in Runs : Advances(r) /\ \A q \in Runs \ {r} : Stays(q)]_vars

THEOREM RunsOnlyAdvance == Spec => OneRunAdvances
<1>1. Staged /\ Provenance /\ [Next]_vars =>
          [\E r \in Runs : Advances(r) /\ \A q \in Runs \ {r} : Stays(q)]_vars
  BY StepAdvances, OthersStay DEF Next
<1> QED BY <1>1, Typing, ProvenanceHolds, PTL DEF Spec, OneRunAdvances

=============================================================================
