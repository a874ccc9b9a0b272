---------------------------- MODULE CaptureProofs ----------------------------
(***************************************************************************)
(* Proofs about Capture, for every set of processes and ids, every number  *)
(* of cameras, rounds, settle frames and retries.                          *)
(*                                                                         *)
(* The invariant is proved in three layers, each using the one below:      *)
(* Staged (types, and what the place of a run says about its counters),    *)
(* Accounted (the stores, the answers and the evidence) and Provenance     *)
(* (which process the cameras serve and whose images they hold).           *)
(***************************************************************************)
EXTENDS Capture, FiniteSetTheorems, TLAPS

(* Where a run is tells what it has been given: an exposure pass and a shot *)
(* that the acquisition has, a kind for its failure, and one confirmation   *)
(* for every round it has entered.                                          *)
Stage(r) ==
    /\ at[r].pass \in 1 .. Len(Settings)
    /\ at[r].shot \in 1 .. Shots
    /\ at[r].attempt \in 1 .. Attempts
    /\ pc[r] \in {"failing", "quarantined"} => verdict[r] \in Kinds
    /\ pc[r] \in {"start", "confirm"} => confirmed[r] = at[r].round - 1
    /\ pc[r] \in Round => confirmed[r] = at[r].round
    /\ pc[r] \in {"gates", "publish", "visible"} => confirmed[r] = Rounds

Staged == TypeOK /\ \A r \in Runs : Stage(r)

-----------------------------------------------------------------------------
(* What the acquisition asset asks for is one or two exposures. *)
LEMMA Acquisition ==
    ASSUME hdr \in BOOLEAN
    PROVE  /\ Settings \in Seq(Exposures)
           /\ Len(Settings) \in {1, 2}
           /\ \A p \in 1 .. Len(Settings) : Settings[p] \in Exposures
           /\ Shots \in 1 .. Settle + 1
           /\ Attempts \in 1 .. Retries + 1
           /\ ~hdr => Settings = <<"single">> /\ Shots = 1
<1>1. CASE hdr
  <2>1. Settings = <<"short", "long">> /\ Shots = Settle + 1 /\ Attempts = Retries + 1
    BY <1>1 DEF Settings, Shots, Attempts
  <2> QED BY <1>1, <2>1, ConstantsAssumption DEF Exposures
<1>2. CASE ~hdr
  <2>1. Settings = <<"single">> /\ Shots = 1 /\ Attempts = 1
    BY <1>2 DEF Settings, Shots, Attempts
  <2> QED BY <2>1, ConstantsAssumption DEF Exposures
<1> QED BY <1>1, <1>2

(* A run begins a round at the first pass, shot and attempt. *)
LEMMA Beginning ==
    ASSUME hdr \in BOOLEAN, NEW k \in 1 .. Rounds
    PROVE  /\ Start(k) \in [round : 1 .. Rounds, attempt : 1 .. Retries + 1,
                            pass : 1 .. 2, shot : 1 .. Settle + 1]
           /\ Start(k).round = k
           /\ Start(k).pass \in 1 .. Len(Settings)
           /\ Start(k).shot \in 1 .. Shots
           /\ Start(k).attempt \in 1 .. Attempts
           /\ NoImages \in [Slots -> ImageSet \cup {NoOne}]
<1>1. Start(k) = [round |-> k, attempt |-> 1, pass |-> 1, shot |-> 1]
  BY DEF Start
<1>2. /\ 1 \in 1 .. Retries + 1 /\ 1 \in 1 .. 2 /\ 1 \in 1 .. Settle + 1
      /\ 1 \in 1 .. Shots /\ 1 \in 1 .. Attempts
  BY Acquisition, ConstantsAssumption
<1>3. 1 \in 1 .. Len(Settings)
  <2>1. Len(Settings) \in {1, 2}
    BY Acquisition
  <2> QED BY <2>1
<1>4. NoImages \in [Slots -> ImageSet \cup {NoOne}]
  BY DEF NoImages
<1> QED BY <1>1, <1>2, <1>3, <1>4

LEMMA ImageType ==
    ASSUME TypeOK, NEW r \in Runs, NEW c \in Slots
    PROVE  Image(r, c) \in ImageSet
<1>1. at[r] \in [round : 1 .. Rounds, attempt : 1 .. Retries + 1, pass : 1 .. 2,
                 shot : 1 .. Settle + 1]
  BY DEF TypeOK
<1>2. exposure[c] \in Exposures
  BY DEF TypeOK
<1> QED BY <1>1, <1>2 DEF Image, ImageSet

LEMMA EncodedType ==
    ASSUME TypeOK, NEW r \in Runs
    PROVE  Encoded(r) \subseteq FrameSet
<1> SUFFICES ASSUME NEW c \in Slots
             PROVE  Frame(r, c, [p \in 1 .. Len(passes[r]) |-> passes[r][p][c]]) \in FrameSet
  BY DEF Encoded
<1> DEFINE made == [p \in 1 .. Len(passes[r]) |-> passes[r][p][c]]
<1>1. passes[r] \in Seq([Slots -> ImageSet]) /\ at[r].round \in 1 .. Rounds
  BY DEF TypeOK
<1>2. \A p \in 1 .. Len(passes[r]) : passes[r][p][c] \in ImageSet
  BY <1>1
<1>3. Len(passes[r]) \in Nat
  BY <1>1
<1>4. made \in Seq(ImageSet)
  BY <1>2, <1>3
<1> HIDE DEF made
<1>5. Frame(r, c, made) \in FrameSet
  BY <1>1, <1>4 DEF Frame, FrameSet
<1> QED BY <1>5 DEF made

LEMMA KeptType ==
    ASSUME TypeOK, NEW r \in Runs, NEW partial \in Kept(r)
    PROVE  partial \subseteq FrameSet
<1>1. CASE pc[r] = "encode"
  BY <1>1, EncodedType DEF Kept
<1>2. CASE pc[r] = "read" /\ ~hdr
  <2>1. PICK b \in Slots :
            partial = {Frame(r, c, <<images[r][c]>>) : c \in {d \in Slots \ Unread(r) : d < b}}
    BY <1>2 DEF Kept
  <2>2. \A c \in Slots \ Unread(r) : images[r][c] \in ImageSet
    BY DEF TypeOK, Unread
  <2>3. \A c \in Slots \ Unread(r) : <<images[r][c]>> \in Seq(ImageSet)
    BY <2>2
  <2>4. at[r].round \in 1 .. Rounds
    BY DEF TypeOK
  <2>5. \A c \in Slots \ Unread(r) : Frame(r, c, <<images[r][c]>>) \in FrameSet
    BY <2>3, <2>4 DEF Frame, FrameSet
  <2> QED BY <2>1, <2>5
<1>3. CASE pc[r] # "encode" /\ ~(pc[r] = "read" /\ ~hdr)
  BY <1>3 DEF Kept
<1> QED BY <1>1, <1>2, <1>3

LEMMA InitStaged == Init => Staged
<1> SUFFICES ASSUME Init PROVE Staged
  OBVIOUS
<1>1. hdr \in BOOLEAN /\ 1 \in 1 .. Rounds
  BY ConstantsAssumption DEF Init
<1>2. \A r \in Runs : at[r] = Start(1)
  BY DEF Init
<1>3. TypeOK
  BY <1>1, Beginning, ConstantsAssumption DEF Init, TypeOK, PCs, Exposures
<1>4. \A r \in Runs : Stage(r)
  BY <1>1, <1>2, Beginning, ConstantsAssumption DEF Init, Stage, Round
<1> QED BY <1>3, <1>4 DEF Staged

(* A step of one run leaves the requests, and all that other runs keep for  *)
(* themselves, as they are.                                                 *)
LEMMA Others ==
    ASSUME TypeOK, NEW r \in Runs, Step(r) \/ Interrupt(r)
    PROVE  /\ UNCHANGED inputs
           /\ \A q \in Runs \ {r} :
                 /\ pc'[q] = pc[q] /\ at'[q] = at[q] /\ images'[q] = images[q]
                 /\ passes'[q] = passes[q] /\ frames'[q] = frames[q]
                 /\ confirmed'[q] = confirmed[q] /\ typed'[q] = typed[q]
                 /\ verdict'[q] = verdict[q] /\ refused'[q] = refused[q]
                 /\ told'[q] = told[q] /\ handles'[q] = handles[q]
<1> USE DEF TypeOK, Goto, Abandon, BeginRound, Aim, Leave, Close, publishFrame, inputs, progress,
            dialogue, conclusion, hardware, stores
<1>1. CASE Prepare(r)
  BY <1>1 DEF Prepare
<1>2. CASE RefuseRequest(r)
  BY <1>2 DEF RefuseRequest
<1>3. CASE ConfirmRound(r)
  BY <1>3 DEF ConfirmRound
<1>4. CASE CannotAsk(r)
  BY <1>4 DEF CannotAsk
<1>5. CASE Open(r)
  BY <1>5 DEF Open
<1>6. CASE OpenFails(r)
  BY <1>6 DEF OpenFails
<1>7. CASE SetExposure(r)
  BY <1>7 DEF SetExposure
<1>8. CASE TriggerAll(r)
  BY <1>8 DEF TriggerAll
<1>9. CASE Read(r)
  BY <1>9 DEF Read
<1>10. CASE SettleFrame(r)
  BY <1>10 DEF SettleFrame
<1>11. CASE FinishPass(r)
  BY <1>11 DEF FinishPass
<1>12. CASE RetryHdr(r)
  BY <1>12 DEF RetryHdr
<1>13. CASE AcceptImages(r)
  BY <1>13 DEF AcceptImages
<1>14. CASE RoundFails(r)
  BY <1>14 DEF RoundFails
<1>15. CASE AcceptRound(r)
  BY <1>15 DEF AcceptRound
<1>16. CASE Judge(r)
  BY <1>16 DEF Judge
<1>17. CASE Quarantine(r)
  BY <1>17 DEF Quarantine
<1>18. CASE QuarantineConfirmed(r)
  BY <1>18 DEF QuarantineConfirmed
<1>19. CASE QuarantineTaken(r)
  BY <1>19 DEF QuarantineTaken
<1>20. CASE QuarantineFails(r)
  BY <1>20 DEF QuarantineFails
<1>21. CASE Publish(r)
  BY <1>21 DEF Publish
<1>22. CASE PublishConfirmed(r)
  BY <1>22 DEF PublishConfirmed
<1>23. CASE PublishFails(r)
  BY <1>23 DEF PublishFails
<1>24. CASE Exit(r)
  BY <1>24 DEF Exit
<1>25. CASE ExitFails(r)
  BY <1>25 DEF ExitFails
<1>26. CASE Interrupt(r)
  BY <1>26 DEF Interrupt
<1> QED BY <1>1, <1>2, <1>3, <1>4, <1>5, <1>6, <1>7, <1>8, <1>9, <1>10, <1>11, <1>12, <1>13, <1>14, <1>15, <1>16, <1>17, <1>18, <1>19, <1>20, <1>21, <1>22, <1>23, <1>24, <1>25, <1>26 DEF Step

(* What the shared parts of the actions do to the types: the service gives  *)
(* up, the cameras are closed, a round begins, the cameras are aimed anew.  *)
AtSet == [round : 1 .. Rounds, attempt : 1 .. Retries + 1, pass : 1 .. 2,
          shot : 1 .. Settle + 1]

LEMMA AbandonType ==
    ASSUME TypeOK, NEW r \in Runs, NEW kind \in Kinds, NEW partial \in SUBSET FrameSet,
           Abandon(r, kind, partial)
    PROVE  /\ pc' \in [Runs -> PCs] /\ verdict' \in [Runs -> Kinds \cup {"none"}]
           /\ frames' \in [Runs -> SUBSET FrameSet]
           /\ pc'[r] = "failing" /\ verdict'[r] = kind /\ frames'[r] = frames[r] \cup partial
           /\ UNCHANGED <<refused, told>>
BY DEF TypeOK, Abandon, Goto, PCs

LEMMA CloseType ==
    ASSUME TypeOK, NEW r \in Runs, NEW stuck, Close(r, stuck)
    PROVE  /\ handles' \in [Runs -> BOOLEAN] /\ holder' \in [Slots -> Runs \cup {NoOne}]
           /\ exposure' \in [Slots -> Exposures] /\ queue' \in [Slots -> Seq(ImageSet)]
BY DEF TypeOK, Close, Exposures

LEMMA BeginType ==
    ASSUME TypeOK, NEW r \in Runs, NEW k \in 1 .. Rounds, BeginRound(r, k)
    PROVE  /\ at' \in [Runs -> AtSet]
           /\ images' \in [Runs -> [Slots -> ImageSet \cup {NoOne}]]
           /\ passes' \in [Runs -> Seq([Slots -> ImageSet])]
           /\ at'[r] = Start(k) /\ passes'[r] = <<>>
<1>1. hdr \in BOOLEAN /\ <<>> \in Seq([Slots -> ImageSet])
  BY DEF TypeOK
<1>2. Start(k) \in AtSet /\ NoImages \in [Slots -> ImageSet \cup {NoOne}]
  BY <1>1, Beginning DEF AtSet
<1> QED BY <1>1, <1>2 DEF TypeOK, BeginRound, AtSet

LEMMA AimType ==
    ASSUME TypeOK, NEW r \in Runs, NEW a \in 1 .. Retries + 1, NEW p \in 1 .. 2,
           NEW n \in 1 .. Settle + 1, Aim(r, a, p, n)
    PROVE  /\ at' \in [Runs -> AtSet] /\ at'[r].round = at[r].round
           /\ at'[r].attempt = a /\ at'[r].pass = p /\ at'[r].shot = n
BY DEF TypeOK, Aim, AtSet

LEMMA StepStaged ==
    ASSUME Staged, NEW r \in Runs, Step(r) \/ Interrupt(r)
    PROVE  Staged'
<1>a. /\ TypeOK /\ Stage(r)
      /\ Settings' = Settings /\ Shots' = Shots /\ Attempts' = Attempts
      /\ \A q \in Runs \ {r} : Stage(q)'
  BY Others DEF Staged, Stage, inputs, Settings, Shots, Attempts
<1>b. /\ at[r].round \in 1 .. Rounds /\ at[r].attempt \in 1 .. Retries + 1
      /\ at[r].pass \in 1 .. 2 /\ at[r].shot \in 1 .. Settle + 1
      /\ confirmed[r] \in 0 .. Rounds
  BY <1>a DEF TypeOK
<1>c. /\ Len(Settings) \in {1, 2} /\ Shots \in 1 .. Settle + 1 /\ Attempts \in 1 .. Retries + 1
      /\ \A p \in 1 .. Len(Settings) : Settings[p] \in Exposures
  BY <1>a, Acquisition DEF TypeOK
<1>d. \A k \in 1 .. Rounds :
          /\ Start(k).round = k
          /\ Start(k).pass \in 1 .. Len(Settings)
          /\ Start(k).shot \in 1 .. Shots
          /\ Start(k).attempt \in 1 .. Attempts
  BY <1>a, Beginning DEF TypeOK
<1> SUFFICES TypeOK' /\ Stage(r)'
  BY <1>a DEF Staged
<1> USE <1>a, ConstantsAssumption
    DEF Stage, Goto, Leave, publishFrame,
        inputs, progress, dialogue, conclusion, hardware, stores, PCs, Round, Kinds
<1>1. CASE Prepare(r)
  <2>1. TypeOK'
    BY <1>1, <1>c DEF TypeOK, Prepare
  <2>2. Stage(r)'
    BY <1>1 DEF Prepare, TypeOK
  <2> QED BY <2>1, <2>2
<1>2. CASE RefuseRequest(r)
  <2>1. TypeOK'
    BY <1>2, <1>c DEF TypeOK, RefuseRequest
  <2>2. Stage(r)'
    BY <1>2 DEF RefuseRequest, TypeOK
  <2> QED BY <2>1, <2>2
<1>3. CASE ConfirmRound(r)
  <2>1. /\ pc[r] = "confirm" /\ UNCHANGED <<inputs, progress, hardware, stores>>
        /\ typed' \in [Runs -> SUBSET (1 .. Rounds)]
    BY <1>3, <1>b DEF ConfirmRound, TypeOK
  <2>2. CASE Abandon(r, "RETAKE", {}) /\ UNCHANGED confirmed
    <3>1. /\ pc' \in [Runs -> PCs] /\ verdict' \in [Runs -> Kinds \cup {"none"}]
          /\ frames' \in [Runs -> SUBSET FrameSet]
          /\ pc'[r] = "failing" /\ verdict'[r] = "RETAKE"
          /\ UNCHANGED <<refused, told>>
      BY <2>2, AbandonType
    <3>2. TypeOK'
      BY <2>1, <2>2, <3>1 DEF TypeOK
    <3>3. Stage(r)'
      BY <2>1, <3>1
    <3> QED BY <3>2, <3>3
  <2>3. CASE /\ Goto(r, "open")
             /\ confirmed' = [confirmed EXCEPT ![r] = @ + 1]
             /\ UNCHANGED <<frames, conclusion>>
    <3>1. /\ pc' \in [Runs -> PCs] /\ pc'[r] = "open"
          /\ confirmed' \in [Runs -> 0 .. Rounds] /\ confirmed'[r] = at[r].round
      BY <2>1, <2>3, <1>b DEF TypeOK
    <3>2. TypeOK'
      BY <2>1, <2>3, <3>1 DEF TypeOK
    <3>3. Stage(r)'
      BY <2>1, <3>1
    <3> QED BY <3>2, <3>3
  <2> QED BY <1>3, <2>2, <2>3 DEF ConfirmRound
<1>4. CASE CannotAsk(r)
  <2>1. /\ pc' \in [Runs -> PCs] /\ verdict' \in [Runs -> Kinds \cup {"none"}]
        /\ frames' \in [Runs -> SUBSET FrameSet]
        /\ pc'[r] = "failing" /\ verdict'[r] \in Kinds
        /\ UNCHANGED <<refused, told>>
    BY <1>4, AbandonType DEF CannotAsk
  <2>2. TypeOK'
    BY <1>4, <2>1 DEF TypeOK, CannotAsk
  <2>3. Stage(r)'
    BY <1>4, <2>1 DEF CannotAsk
  <2> QED BY <2>2, <2>3
<1>5. CASE Open(r)
  <2>1. TypeOK'
    BY <1>5, <1>c DEF TypeOK, Open
  <2>2. Stage(r)'
    BY <1>5 DEF Open, TypeOK
  <2> QED BY <2>1, <2>2
<1>6. CASE OpenFails(r)
  <2>1. /\ pc' \in [Runs -> PCs] /\ verdict' \in [Runs -> Kinds \cup {"none"}]
        /\ frames' \in [Runs -> SUBSET FrameSet]
        /\ pc'[r] = "failing" /\ verdict'[r] \in Kinds
        /\ UNCHANGED <<refused, told>>
    BY <1>6, AbandonType DEF OpenFails
  <2>2. holder' \in [Slots -> Runs \cup {NoOne}]
    BY <1>6 DEF TypeOK, OpenFails
  <2>3. TypeOK'
    BY <1>6, <2>1, <2>2 DEF TypeOK, OpenFails
  <2>4. Stage(r)'
    BY <1>6, <2>1 DEF OpenFails
  <2> QED BY <2>3, <2>4
<1>7. CASE SetExposure(r)
  <2>1. TypeOK'
    BY <1>7, <1>c DEF TypeOK, SetExposure, Setting
  <2>2. Stage(r)'
    BY <1>7 DEF SetExposure, TypeOK
  <2> QED BY <2>1, <2>2
<1>8. CASE TriggerAll(r)
  <2>1. \A c \in Slots : queue[c] \in Seq(ImageSet) /\ Image(r, c) \in ImageSet
    BY ImageType DEF TypeOK
  <2>2. queue' \in [Slots -> Seq(ImageSet)]
    BY <1>8, <2>1 DEF TriggerAll
  <2>3. TypeOK'
    BY <1>8, <2>2 DEF TypeOK, TriggerAll, NoImages
  <2>4. Stage(r)'
    BY <1>8 DEF TriggerAll
  <2> QED BY <2>3, <2>4
<1>9. CASE Read(r)
  <2>1. PICK c \in Slots : /\ queue[c] # <<>>
                           /\ images' = [images EXCEPT ![r][c] = Head(queue[c])]
                           /\ queue' = [queue EXCEPT ![c] = Tail(@)]
    BY <1>9 DEF Read
  <2>2. queue[c] \in Seq(ImageSet)
    BY DEF TypeOK
  <2>3. Head(queue[c]) \in ImageSet /\ Tail(queue[c]) \in Seq(ImageSet)
    BY <2>1, <2>2
  <2>4. images' \in [Runs -> [Slots -> ImageSet \cup {NoOne}]]
    BY <2>1, <2>3 DEF TypeOK
  <2>5. queue' \in [Slots -> Seq(ImageSet)]
    BY <2>1, <2>3 DEF TypeOK
  <2>6. TypeOK'
    BY <1>9, <2>4, <2>5 DEF TypeOK, Read
  <2>7. Stage(r)'
    BY <1>9 DEF Read
  <2> QED BY <2>6, <2>7
<1>10. CASE SettleFrame(r)
  <2>1. /\ at[r].attempt \in 1 .. Attempts /\ at[r].pass \in 1 .. Len(Settings)
        /\ at[r].shot + 1 \in 1 .. Shots /\ at[r].shot + 1 \in 1 .. Settle + 1
    BY <1>10, <1>b, <1>c DEF SettleFrame
  <2>2. /\ at' \in [Runs -> AtSet] /\ at'[r].round = at[r].round
        /\ at'[r].attempt = at[r].attempt /\ at'[r].pass = at[r].pass
        /\ at'[r].shot = at[r].shot + 1
    <3>1. Aim(r, at[r].attempt, at[r].pass, at[r].shot + 1)
      BY <1>10 DEF SettleFrame
    <3> QED BY <1>a, <1>b, <2>1, <3>1, AimType
  <2>3. TypeOK'
    BY <1>10, <2>2 DEF TypeOK, SettleFrame, AtSet
  <2>4. Stage(r)'
    BY <1>10, <2>1, <2>2 DEF SettleFrame, TypeOK
  <2> QED BY <2>3, <2>4
<1>11. CASE FinishPass(r)
  <2>1. images[r] \in [Slots -> ImageSet]
    BY <1>11 DEF TypeOK, FinishPass, Unread
  <2>2. passes' \in [Runs -> Seq([Slots -> ImageSet])]
    <3>1. passes[r] \in Seq([Slots -> ImageSet]) /\ passes' = [passes EXCEPT ![r] = Append(@, images[r])]
      BY <1>11 DEF TypeOK, FinishPass
    <3>2. Append(passes[r], images[r]) \in Seq([Slots -> ImageSet])
      BY <2>1, <3>1
    <3> QED BY <3>1, <3>2 DEF TypeOK
  <2>3. CASE at[r].pass < Len(Settings)
    <3>1. Aim(r, at[r].attempt, at[r].pass + 1, 1) /\ Goto(r, "expose")
      BY <1>11, <2>3 DEF FinishPass
    <3>2. at[r].pass + 1 \in 1 .. 2 /\ 1 \in 1 .. Settle + 1
      <4>1. at[r].pass = 1
        BY <1>b, <1>c, <2>3
      <4> QED BY <4>1
    <3>3. /\ at' \in [Runs -> AtSet] /\ at'[r].round = at[r].round
          /\ at'[r].attempt = at[r].attempt /\ at'[r].pass = at[r].pass + 1 /\ at'[r].shot = 1
      BY <1>b, <3>1, <3>2, AimType
    <3>4. TypeOK'
      BY <1>11, <2>2, <3>1, <3>3 DEF TypeOK, FinishPass, AtSet
    <3>5. Stage(r)'
      BY <1>11, <1>b, <1>c, <2>3, <3>1, <3>3 DEF FinishPass, TypeOK
    <3> QED BY <3>4, <3>5
  <2>4. CASE ~(at[r].pass < Len(Settings))
    <3>1. Goto(r, "fuse") /\ UNCHANGED at
      BY <1>11, <2>4 DEF FinishPass
    <3>2. TypeOK'
      BY <1>11, <2>2, <3>1 DEF TypeOK, FinishPass
    <3>3. Stage(r)'
      BY <1>11, <3>1 DEF FinishPass, TypeOK
    <3> QED BY <3>2, <3>3
  <2> QED BY <2>3, <2>4
<1>12. CASE RetryHdr(r)
  <2>1. /\ at[r].attempt + 1 \in 1 .. Attempts /\ at[r].attempt + 1 \in 1 .. Retries + 1
        /\ 1 \in 1 .. Len(Settings) /\ 1 \in 1 .. Shots /\ 1 \in 1 .. Settle + 1
    BY <1>12, <1>b, <1>c DEF RetryHdr
  <2>2. /\ at' \in [Runs -> AtSet] /\ at'[r].round = at[r].round
        /\ at'[r].attempt = at[r].attempt + 1 /\ at'[r].pass = 1 /\ at'[r].shot = 1
    <3>1. Aim(r, at[r].attempt + 1, 1, 1) /\ 1 \in 1 .. 2
      BY <1>12 DEF RetryHdr
    <3> QED BY <2>1, <3>1, AimType
  <2>3. passes' \in [Runs -> Seq([Slots -> ImageSet])]
    <3>1. <<>> \in Seq([Slots -> ImageSet])
      OBVIOUS
    <3> QED BY <1>12, <3>1 DEF TypeOK, RetryHdr
  <2>4. TypeOK'
    BY <1>12, <2>2, <2>3 DEF TypeOK, RetryHdr, AtSet
  <2>5. Stage(r)'
    BY <1>12, <2>1, <2>2 DEF RetryHdr, TypeOK
  <2> QED BY <2>4, <2>5
<1>13. CASE AcceptImages(r)
  <2>1. TypeOK'
    BY <1>13, <1>c DEF TypeOK, AcceptImages
  <2>2. Stage(r)'
    BY <1>13 DEF AcceptImages, TypeOK
  <2> QED BY <2>1, <2>2
<1>14. CASE RoundFails(r)
  <2>1. PICK partial \in Kept(r) : Abandon(r, "SYSTEM_ERROR", partial)
    BY <1>14 DEF RoundFails
  <2>2. partial \in SUBSET FrameSet
    BY KeptType
  <2>3. /\ pc' \in [Runs -> PCs] /\ verdict' \in [Runs -> Kinds \cup {"none"}]
        /\ frames' \in [Runs -> SUBSET FrameSet]
        /\ pc'[r] = "failing" /\ verdict'[r] = "SYSTEM_ERROR"
        /\ UNCHANGED <<refused, told>>
    BY <2>1, <2>2, AbandonType
  <2>4. PICK stuck \in SUBSET Slots : Close(r, stuck)
    BY <1>14 DEF RoundFails
  <2>5. /\ handles' \in [Runs -> BOOLEAN] /\ holder' \in [Slots -> Runs \cup {NoOne}]
        /\ exposure' \in [Slots -> Exposures] /\ queue' \in [Slots -> Seq(ImageSet)]
    BY <2>4, CloseType
  <2>6. BeginRound(r, at[r].round) /\ UNCHANGED <<inputs, dialogue, stores>>
    BY <1>14 DEF RoundFails
  <2>7. /\ at' \in [Runs -> AtSet]
        /\ images' \in [Runs -> [Slots -> ImageSet \cup {NoOne}]]
        /\ passes' \in [Runs -> Seq([Slots -> ImageSet])]
        /\ at'[r] = Start(at[r].round)
    BY <1>b, <2>6, BeginType
  <2>8. TypeOK'
    BY <2>3, <2>5, <2>6, <2>7 DEF TypeOK, AtSet
  <2>9. Stage(r)'
    BY <1>b, <1>d, <2>3, <2>7
  <2> QED BY <2>8, <2>9
<1>15. CASE AcceptRound(r)
  <2>1. pc[r] = "encode" /\ UNCHANGED <<inputs, dialogue, hardware, stores>>
    BY <1>15 DEF AcceptRound
  <2>2. confirmed[r] = at[r].round
    BY <2>1
  <2>3. CASE ~RoundIsValid(r, Encoded(r))
    <3>1. Abandon(r, "INVALID_CAPTURE", {}) /\ BeginRound(r, at[r].round)
      BY <1>15, <2>3 DEF AcceptRound
    <3>2. /\ pc' \in [Runs -> PCs] /\ verdict' \in [Runs -> Kinds \cup {"none"}]
          /\ frames' \in [Runs -> SUBSET FrameSet]
          /\ pc'[r] = "failing" /\ verdict'[r] = "INVALID_CAPTURE"
          /\ UNCHANGED <<refused, told>>
      BY <3>1, AbandonType
    <3>3. /\ at' \in [Runs -> AtSet]
          /\ images' \in [Runs -> [Slots -> ImageSet \cup {NoOne}]]
          /\ passes' \in [Runs -> Seq([Slots -> ImageSet])]
          /\ at'[r] = Start(at[r].round)
      BY <1>b, <3>1, BeginType
    <3>4. TypeOK'
      BY <2>1, <3>2, <3>3 DEF TypeOK, AtSet
    <3>5. Stage(r)'
      BY <1>b, <1>d, <3>2, <3>3
    <3> QED BY <3>4, <3>5
  <2>4. CASE RoundIsValid(r, Encoded(r))
    <3>1. frames' = [frames EXCEPT ![r] = @ \cup Encoded(r)] /\ UNCHANGED conclusion
      BY <1>15, <2>4 DEF AcceptRound
    <3>2. frames' \in [Runs -> SUBSET FrameSet]
      BY <3>1, EncodedType DEF TypeOK
    <3>3. CASE at[r].round < Rounds
      <4>1. Goto(r, "confirm") /\ BeginRound(r, at[r].round + 1) /\ at[r].round + 1 \in 1 .. Rounds
        BY <1>15, <1>b, <2>4, <3>3 DEF AcceptRound
      <4>2. /\ at' \in [Runs -> AtSet]
            /\ images' \in [Runs -> [Slots -> ImageSet \cup {NoOne}]]
            /\ passes' \in [Runs -> Seq([Slots -> ImageSet])]
            /\ at'[r] = Start(at[r].round + 1)
        BY <4>1, BeginType
      <4>3. TypeOK'
        BY <2>1, <3>1, <3>2, <4>1, <4>2 DEF TypeOK, AtSet
      <4>4. Stage(r)'
        BY <1>b, <1>d, <2>1, <2>2, <4>1, <4>2 DEF TypeOK
      <4> QED BY <4>3, <4>4
    <3>4. CASE ~(at[r].round < Rounds)
      <4>1. Goto(r, "gates") /\ BeginRound(r, Rounds) /\ at[r].round = Rounds /\ Rounds \in 1 .. Rounds
        BY <1>15, <1>b, <2>4, <3>4 DEF AcceptRound
      <4>2. /\ at' \in [Runs -> AtSet]
            /\ images' \in [Runs -> [Slots -> ImageSet \cup {NoOne}]]
            /\ passes' \in [Runs -> Seq([Slots -> ImageSet])]
            /\ at'[r] = Start(Rounds)
        BY <4>1, BeginType
      <4>3. TypeOK'
        BY <2>1, <3>1, <3>2, <4>1, <4>2 DEF TypeOK, AtSet
      <4>4. Stage(r)'
        BY <1>d, <2>1, <2>2, <4>1, <4>2 DEF TypeOK
      <4> QED BY <4>3, <4>4
    <3> QED BY <3>3, <3>4
  <2> QED BY <2>3, <2>4
<1>16. CASE Judge(r)
  <2>1. pc[r] = "gates" /\ UNCHANGED <<inputs, progress, dialogue, hardware, stores>>
    BY <1>16 DEF Judge
  <2>2. CASE \E kind \in Kinds : Abandon(r, kind, {})
    <3>1. /\ pc' \in [Runs -> PCs] /\ verdict' \in [Runs -> Kinds \cup {"none"}]
          /\ frames' \in [Runs -> SUBSET FrameSet]
          /\ pc'[r] = "failing" /\ verdict'[r] \in Kinds
          /\ UNCHANGED <<refused, told>>
      BY <2>2, AbandonType
    <3>2. TypeOK'
      BY <2>1, <3>1 DEF TypeOK
    <3>3. Stage(r)'
      BY <2>1, <3>1
    <3> QED BY <3>2, <3>3
  <2>3. CASE Goto(r, "publish") /\ UNCHANGED <<frames, conclusion>>
    <3>1. TypeOK'
      BY <2>1, <2>3 DEF TypeOK
    <3>2. Stage(r)'
      BY <2>1, <2>3 DEF TypeOK
    <3> QED BY <3>1, <3>2
  <2> QED BY <1>16, <2>2, <2>3 DEF Judge
<1>17. CASE Quarantine(r)
  <2>1. TypeOK'
    BY <1>17, <1>c DEF TypeOK, Quarantine
  <2>2. Stage(r)'
    BY <1>17 DEF Quarantine, TypeOK
  <2> QED BY <2>1, <2>2
<1>18. CASE QuarantineConfirmed(r)
  <2>1. TypeOK'
    BY <1>18, <1>c DEF TypeOK, QuarantineConfirmed
  <2>2. Stage(r)'
    BY <1>18 DEF QuarantineConfirmed, TypeOK
  <2> QED BY <2>1, <2>2
<1>19. CASE QuarantineTaken(r)
  <2>1. TypeOK'
    BY <1>19, <1>c DEF TypeOK, QuarantineTaken
  <2>2. Stage(r)'
    BY <1>19 DEF QuarantineTaken, TypeOK
  <2> QED BY <2>1, <2>2
<1>20. CASE QuarantineFails(r)
  <2>1. TypeOK'
    BY <1>20, <1>c DEF TypeOK, QuarantineFails
  <2>2. Stage(r)'
    BY <1>20 DEF QuarantineFails, TypeOK
  <2> QED BY <2>1, <2>2
<1>21. CASE Publish(r)
  <2>1. TypeOK'
    BY <1>21, <1>c DEF TypeOK, Publish
  <2>2. Stage(r)'
    BY <1>21 DEF Publish, TypeOK
  <2> QED BY <2>1, <2>2
<1>22. CASE PublishConfirmed(r)
  <2>1. TypeOK'
    BY <1>22, <1>c DEF TypeOK, PublishConfirmed
  <2>2. Stage(r)'
    BY <1>22 DEF PublishConfirmed, TypeOK
  <2> QED BY <2>1, <2>2
<1>23. CASE PublishFails(r)
  <2>1. TypeOK'
    BY <1>23, <1>c DEF TypeOK, PublishFails
  <2>2. Stage(r)'
    BY <1>23 DEF PublishFails, TypeOK
  <2> QED BY <2>1, <2>2
<1>24. CASE Exit(r)
  <2>1. /\ handles' \in [Runs -> BOOLEAN] /\ holder' \in [Slots -> Runs \cup {NoOne}]
        /\ exposure' \in [Slots -> Exposures] /\ queue' \in [Slots -> Seq(ImageSet)]
    BY <1>24, CloseType DEF Exit
  <2>2. TypeOK'
    BY <1>24, <2>1 DEF TypeOK, Exit
  <2>3. Stage(r)'
    BY <1>24 DEF Exit, TypeOK
  <2> QED BY <2>2, <2>3
<1>25. CASE ExitFails(r)
  <2>1. /\ handles' \in [Runs -> BOOLEAN] /\ holder' \in [Slots -> Runs \cup {NoOne}]
        /\ exposure' \in [Slots -> Exposures] /\ queue' \in [Slots -> Seq(ImageSet)]
    BY <1>25, CloseType DEF ExitFails
  <2>2. TypeOK'
    BY <1>25, <2>1 DEF TypeOK, ExitFails
  <2>3. Stage(r)'
    BY <1>25 DEF ExitFails, TypeOK
  <2> QED BY <2>2, <2>3
<1>26. CASE Interrupt(r)
  <2>1. /\ handles' \in [Runs -> BOOLEAN] /\ holder' \in [Slots -> Runs \cup {NoOne}]
        /\ exposure' \in [Slots -> Exposures] /\ queue' \in [Slots -> Seq(ImageSet)]
    BY <1>26, CloseType DEF Interrupt
  <2>2. /\ at' \in [Runs -> AtSet]
        /\ images' \in [Runs -> [Slots -> ImageSet \cup {NoOne}]]
        /\ passes' \in [Runs -> Seq([Slots -> ImageSet])]
        /\ at'[r] = Start(at[r].round)
    BY <1>26, <1>b, BeginType DEF Interrupt
  <2>3. TypeOK'
    BY <1>26, <2>1, <2>2 DEF TypeOK, AtSet, Interrupt
  <2>4. Stage(r)'
    BY <1>26, <1>b, <1>d, <2>2 DEF Interrupt, TypeOK
  <2> QED BY <2>3, <2>4
<1> QED BY <1>1, <1>2, <1>3, <1>4, <1>5, <1>6, <1>7, <1>8, <1>9, <1>10, <1>11, <1>12, <1>13, <1>14, <1>15, <1>16, <1>17, <1>18, <1>19, <1>20, <1>21, <1>22, <1>23, <1>24, <1>25, <1>26 DEF Step

THEOREM Typing == Spec => []Staged
<1>1. Staged /\ [Next]_vars => Staged'
  <2> SUFFICES ASSUME Staged, [Next]_vars PROVE Staged'
    OBVIOUS
  <2>1. CASE UNCHANGED vars
    BY <2>1 DEF Staged, TypeOK, Stage, Settings, Shots, Attempts, vars, inputs, progress,
                dialogue, conclusion, hardware, stores
  <2>2. CASE Next
    BY <2>2, StepStaged DEF Next
  <2> QED BY <2>1, <2>2
<1> QED BY <1>1, InitStaged, PTL DEF Spec

(* Every variable stays in its range, for every number of processes, ids,   *)
(* cameras, rounds, settle frames and retries (Capture.TypeOK).             *)
THEOREM CaptureTypeOK == Spec => []TypeOK
<1>1. Staged => TypeOK
  BY DEF Staged
<1> QED BY <1>1, Typing, PTL

-----------------------------------------------------------------------------
SlotsOf(held, k) == {f.slot : f \in {g \in held : g.round = k}}
Ending == {"leave", "ended"}

(* What a run holds by where it is: a run has no verdict before it fails,   *)
(* no refusal before it leaves, every view when it publishes, and its place *)
(* in a store while it says so.                                             *)
Account(r) ==
    /\ typed[r] = 1 .. confirmed[r]
    /\ pc[r] \notin Ending \cup {"failing", "quarantined"} => verdict[r] = "none"
    /\ pc[r] \notin Ending => refused[r] = "no"
    /\ pc[r] = "start" => frames[r] = {}
    /\ pc[r] \in {"publish", "visible"} => SetIsWhole(frames[r])
    /\ pc[r] = "visible" => complete[id[r]] = r
    /\ pc[r] = "quarantined" => quarantine[id[r]] = r

(* CompleteIsEarned for one run, with where that run can be. *)
Earned(r) ==
    \A i \in Ids : complete[i] = r =>
        /\ id[r] = i
        /\ pc[r] \in Ending \cup {"visible"}
        /\ SetIsWhole(frames[r])
        /\ confirmed[r] = Rounds
        /\ verdict[r] = "none"

(* AnswersAreTrue, and the first half of EvidenceIsKept, from the moment    *)
(* the answer is decided.                                                   *)
Answered(r) ==
    pc[r] \in Ending =>
        /\ told[r] = "ok" => complete[id[r]] = r /\ refused[r] = "no"
        /\ told[r] \in {"RETAKE", "INVALID_CAPTURE"} =>
             quarantine[id[r]] = r /\ verdict[r] = told[r] /\ refused[r] = "no"
        /\ told[r] = "SYSTEM_ERROR" =>
             (verdict[r] = "SYSTEM_ERROR" /\ quarantine[id[r]] = r) \/ refused[r] # "no"
        /\ told[r] # "interrupted" /\ frames[r] # {} =>
             r \in {complete[id[r]], quarantine[id[r]]} \/ refused[r] # "no"

(* The second half of EvidenceIsKept, at every moment. *)
RoundsKept(r) == \A k \in 1 .. at[r].round - 1 : SlotsOf(frames[r], k) = Slots

Settled(r) == Account(r) /\ Earned(r) /\ Answered(r) /\ RoundsKept(r)

Accounted == \A r \in Runs : Settled(r)

(* Frames that are added to a finished round fill no new slot. *)
LEMMA Growth ==
    ASSUME NEW held \in SUBSET FrameSet, NEW more \in SUBSET FrameSet, held \subseteq more,
           NEW k, SlotsOf(held, k) = Slots
    PROVE  SlotsOf(more, k) = Slots
<1>1. \A f \in FrameSet : f.slot \in Slots
  BY DEF FrameSet
<1> QED BY <1>1 DEF SlotsOf

(* A step takes at most a free place, and takes it for its own run. *)
LEMMA Places ==
    ASSUME TypeOK, NEW r \in Runs, Step(r) \/ Interrupt(r), NEW i \in Ids
    PROVE  /\ complete[i] # NoOne => complete'[i] = complete[i]
           /\ quarantine[i] # NoOne => quarantine'[i] = quarantine[i]
           /\ complete'[i] \in {complete[i], r} /\ quarantine'[i] \in {quarantine[i], r}
<1> USE DEF TypeOK, publishFrame, stores
<1>1. CASE Prepare(r)
  BY <1>1 DEF Prepare
<1>2. CASE RefuseRequest(r)
  BY <1>2 DEF RefuseRequest
<1>3. CASE ConfirmRound(r)
  BY <1>3 DEF ConfirmRound
<1>4. CASE CannotAsk(r)
  BY <1>4 DEF CannotAsk
<1>5. CASE Open(r)
  BY <1>5 DEF Open
<1>6. CASE OpenFails(r)
  BY <1>6 DEF OpenFails
<1>7. CASE SetExposure(r)
  BY <1>7 DEF SetExposure
<1>8. CASE TriggerAll(r)
  BY <1>8 DEF TriggerAll
<1>9. CASE Read(r)
  BY <1>9 DEF Read
<1>10. CASE SettleFrame(r)
  BY <1>10 DEF SettleFrame
<1>11. CASE FinishPass(r)
  BY <1>11 DEF FinishPass
<1>12. CASE RetryHdr(r)
  BY <1>12 DEF RetryHdr
<1>13. CASE AcceptImages(r)
  BY <1>13 DEF AcceptImages
<1>14. CASE RoundFails(r)
  BY <1>14 DEF RoundFails
<1>15. CASE AcceptRound(r)
  BY <1>15 DEF AcceptRound
<1>16. CASE Judge(r)
  BY <1>16 DEF Judge
<1>17. CASE Quarantine(r)
  BY <1>17 DEF Quarantine
<1>18. CASE QuarantineConfirmed(r)
  BY <1>18 DEF QuarantineConfirmed
<1>19. CASE QuarantineTaken(r)
  BY <1>19 DEF QuarantineTaken
<1>20. CASE QuarantineFails(r)
  BY <1>20 DEF QuarantineFails
<1>21. CASE Publish(r)
  BY <1>21 DEF Publish
<1>22. CASE PublishConfirmed(r)
  BY <1>22 DEF PublishConfirmed
<1>23. CASE PublishFails(r)
  BY <1>23 DEF PublishFails
<1>24. CASE Exit(r)
  BY <1>24 DEF Exit
<1>25. CASE ExitFails(r)
  BY <1>25 DEF ExitFails
<1>26. CASE Interrupt(r)
  BY <1>26 DEF Interrupt
<1> QED BY <1>1, <1>2, <1>3, <1>4, <1>5, <1>6, <1>7, <1>8, <1>9, <1>10, <1>11, <1>12, <1>13, <1>14, <1>15, <1>16, <1>17, <1>18, <1>19, <1>20, <1>21, <1>22, <1>23, <1>24, <1>25, <1>26 DEF Step

(* Once taken, a place in a store never changes hands (storage.py): of a    *)
(* complete set and of a quarantined one (Capture.PlacesAreFinal).          *)
THEOREM PlacesStayTaken == Spec => PlacesAreFinal
<1>1. Staged /\ [Next]_vars =>
        [\A i \in Ids : /\ complete[i] # NoOne => complete'[i] = complete[i]
                        /\ quarantine[i] # NoOne => quarantine'[i] = quarantine[i]]_vars
  BY Places DEF Staged, Next
<1> QED BY <1>1, Typing, PTL DEF Spec, PlacesAreFinal

LEMMA InitAccounted == Init => Accounted
<1> SUFFICES ASSUME Init, NEW r \in Runs PROVE Settled(r)
  BY DEF Accounted
<1>1. Account(r) /\ Answered(r)
  BY DEF Init, Account, Answered, Ending
<1>2. Earned(r)
  BY ConstantsAssumption DEF Init, Earned
<1>3. RoundsKept(r)
  BY DEF Init, RoundsKept, Start
<1> QED BY <1>1, <1>2, <1>3 DEF Settled

(* A service that gives up keeps its frames and has no place yet. *)
LEMMA Abandoned ==
    ASSUME Staged, NEW r \in Runs, Settled(r), NEW kind \in Kinds,
           NEW partial \in SUBSET FrameSet, Abandon(r, kind, partial),
           pc[r] \in Round \cup {"confirm", "gates"},
           UNCHANGED <<inputs, dialogue, stores>>, at'[r].round = at[r].round
    PROVE  Settled(r)'
<1>1. /\ pc'[r] = "failing" /\ frames'[r] = frames[r] \cup partial
      /\ UNCHANGED <<refused, told>> /\ frames[r] \in SUBSET FrameSet
  BY AbandonType DEF Staged, TypeOK
<1>2. Account(r)' /\ Earned(r)' /\ Answered(r)'
  BY <1>1 DEF Settled, Account, Earned, Answered, Ending, Round, inputs, dialogue, stores
<1>3. RoundsKept(r)'
  BY <1>1, Growth DEF Settled, RoundsKept
<1> QED BY <1>2, <1>3 DEF Settled

LEMMA StepAccounted ==
    ASSUME Staged, Accounted, NEW r \in Runs, Step(r) \/ Interrupt(r)
    PROVE  Accounted'
<1>a. /\ TypeOK /\ Stage(r) /\ Settled(r)
      /\ id[r] \in Ids /\ at[r].round \in 1 .. Rounds /\ frames[r] \in SUBSET FrameSet
      /\ confirmed[r] \in 0 .. Rounds
  BY DEF Staged, TypeOK, Accounted
<1>b. \A q \in Runs \ {r} : Settled(q)'
  <2> SUFFICES ASSUME NEW q \in Runs \ {r} PROVE Settled(q)'
    OBVIOUS
  <2>1. Settled(q) /\ id[q] \in Ids /\ q # NoOne
    BY ConstantsAssumption DEF Accounted, Staged, TypeOK
  <2>2. \A i \in Ids :
            /\ complete[i] # NoOne => complete'[i] = complete[i]
            /\ quarantine[i] # NoOne => quarantine'[i] = quarantine[i]
            /\ complete'[i] \in {complete[i], r}
    BY <1>a, Places
  <2>3. /\ UNCHANGED inputs
        /\ pc'[q] = pc[q] /\ at'[q] = at[q] /\ frames'[q] = frames[q]
        /\ confirmed'[q] = confirmed[q] /\ typed'[q] = typed[q] /\ verdict'[q] = verdict[q]
        /\ refused'[q] = refused[q] /\ told'[q] = told[q]
    BY <1>a, Others
  <2> QED BY <2>1, <2>2, <2>3 DEF Settled, Account, Earned, Answered, RoundsKept, inputs
<1> SUFFICES Settled(r)'
  BY <1>b DEF Accounted
<1> USE <1>a, ConstantsAssumption
    DEF Goto, Leave, publishFrame, inputs, progress, dialogue, conclusion, hardware, stores
<1>1. CASE Prepare(r)
  BY <1>1 DEF Prepare, Settled, Account, Earned, Answered, RoundsKept, Ending, TypeOK
<1>2. CASE RefuseRequest(r)
  BY <1>2 DEF RefuseRequest, Settled, Account, Earned, Answered, RoundsKept, Ending, TypeOK
<1>3. CASE ConfirmRound(r)
  <2>1. CASE Abandon(r, "RETAKE", {}) /\ UNCHANGED <<confirmed, typed>>
    BY <1>3, <2>1, Abandoned DEF ConfirmRound, Kinds
  <2>2. CASE /\ Goto(r, "open") /\ UNCHANGED <<frames, conclusion>>
             /\ confirmed' = [confirmed EXCEPT ![r] = @ + 1]
             /\ typed' = [typed EXCEPT ![r] = @ \cup {at[r].round}]
    <3>1. pc[r] = "confirm" /\ pc'[r] = "open" /\ confirmed'[r] = confirmed[r] + 1
          /\ at[r].round = confirmed[r] + 1 /\ typed'[r] = typed[r] \cup {at[r].round}
          /\ UNCHANGED <<inputs, progress, frames, conclusion, stores>>
      BY <1>3, <2>2 DEF ConfirmRound, TypeOK, Stage
    <3>2. typed'[r] = 1 .. confirmed'[r]
      BY <3>1 DEF Settled, Account
    <3> QED BY <3>1, <3>2 DEF Settled, Account, Earned, Answered, RoundsKept, Ending
  <2>3. \A reply \in Replies :
            ~Accepts(reply) => typed = [typed EXCEPT ![r] = IF reply = "token" THEN @ \cup {at[r].round} ELSE @]
    BY DEF Accepts, TypeOK
  <2> QED BY <1>3, <2>1, <2>2, <2>3 DEF ConfirmRound, Accepts
<1>4. CASE CannotAsk(r)
  BY <1>4, Abandoned DEF CannotAsk, Kinds
<1>5. CASE Open(r)
  BY <1>5 DEF Open, Settled, Account, Earned, Answered, RoundsKept, Ending, TypeOK
<1>6. CASE OpenFails(r)
  BY <1>6, Abandoned DEF OpenFails, Kinds, Round
<1>7. CASE SetExposure(r)
  BY <1>7 DEF SetExposure, Settled, Account, Earned, Answered, RoundsKept, Ending, TypeOK
<1>8. CASE TriggerAll(r)
  BY <1>8 DEF TriggerAll, Settled, Account, Earned, Answered, RoundsKept, Ending, TypeOK
<1>9. CASE Read(r)
  BY <1>9 DEF Read, Settled, Account, Earned, Answered, RoundsKept, Ending, TypeOK
<1>10. CASE SettleFrame(r)
  BY <1>10 DEF SettleFrame, Aim, Settled, Account, Earned, Answered, RoundsKept, Ending, TypeOK
<1>11. CASE FinishPass(r)
  BY <1>11 DEF FinishPass, Aim, Settled, Account, Earned, Answered, RoundsKept, Ending, TypeOK
<1>12. CASE RetryHdr(r)
  BY <1>12 DEF RetryHdr, Aim, Settled, Account, Earned, Answered, RoundsKept, Ending, TypeOK
<1>13. CASE AcceptImages(r)
  BY <1>13 DEF AcceptImages, Settled, Account, Earned, Answered, RoundsKept, Ending, TypeOK
<1>14. CASE RoundFails(r)
  <2>1. PICK partial \in Kept(r) : Abandon(r, "SYSTEM_ERROR", partial)
    BY <1>14 DEF RoundFails
  <2>2. partial \in SUBSET FrameSet
    BY KeptType
  <2>3. at'[r] = Start(at[r].round) /\ Start(at[r].round).round = at[r].round
    BY <1>14, BeginType DEF RoundFails, Start
  <2> QED BY <1>14, <2>1, <2>2, <2>3, Abandoned DEF RoundFails, Kinds
<1>15. CASE AcceptRound(r)
  <2>1. pc[r] = "encode" /\ UNCHANGED <<inputs, dialogue, hardware, stores>>
    BY <1>15 DEF AcceptRound
  <2>2. CASE ~RoundIsValid(r, Encoded(r))
    <3>1. Abandon(r, "INVALID_CAPTURE", {}) /\ BeginRound(r, at[r].round)
      BY <1>15, <2>2 DEF AcceptRound
    <3>2. at'[r] = Start(at[r].round) /\ Start(at[r].round).round = at[r].round
      BY <3>1, BeginType DEF Start
    <3> QED BY <2>1, <3>1, <3>2, Abandoned DEF Kinds, Round
  <2>3. CASE RoundIsValid(r, Encoded(r))
    <3>1. /\ frames'[r] = frames[r] \cup Encoded(r) /\ UNCHANGED conclusion
          /\ Encoded(r) \subseteq FrameSet
      BY <1>15, <2>3, EncodedType DEF AcceptRound, TypeOK
    <3>2. /\ pc'[r] \in {"confirm", "gates"}
          /\ at'[r].round \in {at[r].round, at[r].round + 1}
      <4>1. CASE at[r].round < Rounds
        <5>1. Goto(r, "confirm") /\ BeginRound(r, at[r].round + 1)
          BY <1>15, <2>3, <4>1 DEF AcceptRound
        <5>2. at'[r] = Start(at[r].round + 1)
          BY <4>1, <5>1, BeginType
        <5> QED BY <5>1, <5>2 DEF Start, TypeOK
      <4>2. CASE ~(at[r].round < Rounds)
        <5>1. Goto(r, "gates") /\ BeginRound(r, Rounds) /\ Rounds \in 1 .. Rounds
              /\ at[r].round = Rounds
          BY <1>15, <2>3, <4>2 DEF AcceptRound
        <5>2. at'[r] = Start(Rounds)
          BY <5>1, BeginType
        <5> QED BY <5>1, <5>2 DEF Start, TypeOK
      <4> QED BY <4>1, <4>2
    <3>3. Account(r)' /\ Earned(r)' /\ Answered(r)'
      BY <2>1, <3>1, <3>2 DEF Settled, Account, Earned, Answered, Ending
    <3>4. SlotsOf(Encoded(r), at[r].round) = Slots
      BY <2>3 DEF RoundIsValid, SlotsOf
    <3>5. \A k \in 1 .. at[r].round : SlotsOf(frames'[r], k) = Slots
      <4> TAKE k \in 1 .. at[r].round
      <4>1. CASE k = at[r].round
        BY <3>1, <3>4, <4>1, Growth
      <4>2. CASE k # at[r].round
        <5>1. SlotsOf(frames[r], k) = Slots
          BY <4>2 DEF Settled, RoundsKept
        <5> QED BY <3>1, <5>1, Growth
      <4> QED BY <4>1, <4>2
    <3>6. RoundsKept(r)'
      BY <3>2, <3>5 DEF RoundsKept
    <3> QED BY <3>3, <3>6 DEF Settled
  <2> QED BY <2>2, <2>3
<1>16. CASE Judge(r)
  <2>1. CASE \E kind \in Kinds : Abandon(r, kind, {})
    BY <1>16, <2>1, Abandoned DEF Judge
  <2>2. CASE Goto(r, "publish") /\ UNCHANGED <<frames, conclusion>> /\ SetIsWhole(frames[r])
    BY <1>16, <2>2 DEF Judge, Settled, Account, Earned, Answered, RoundsKept, Ending, TypeOK
  <2> QED BY <1>16, <2>1, <2>2 DEF Judge, Kinds
<1>17. CASE Quarantine(r)
  BY <1>17 DEF Quarantine, Settled, Account, Earned, Answered, RoundsKept, Ending, TypeOK
<1>18. CASE QuarantineConfirmed(r)
  <2>1. /\ pc[r] = "quarantined" /\ pc'[r] = "leave" /\ told'[r] = verdict[r]
        /\ UNCHANGED <<publishFrame, verdict, refused, stores>>
    BY <1>18 DEF QuarantineConfirmed, TypeOK
  <2>2. verdict[r] \in Kinds /\ refused[r] = "no" /\ quarantine[id[r]] = r
    BY <2>1 DEF Settled, Account, Stage, Ending
  <2> QED BY <2>1, <2>2 DEF Settled, Account, Earned, Answered, RoundsKept, Ending, Kinds
<1>19. CASE QuarantineTaken(r)
  BY <1>19 DEF QuarantineTaken, Settled, Account, Earned, Answered, RoundsKept, Ending, TypeOK
<1>20. CASE QuarantineFails(r)
  BY <1>20 DEF QuarantineFails, Settled, Account, Earned, Answered, RoundsKept, Ending, TypeOK
<1>21. CASE Publish(r)
  <2>1. /\ pc[r] = "publish" /\ pc'[r] = "visible" /\ complete'[id[r]] = r
        /\ \A i \in Ids \ {id[r]} : complete'[i] = complete[i]
        /\ UNCHANGED <<publishFrame, conclusion, quarantine>>
    BY <1>21 DEF Publish, TypeOK
  <2>2. Account(r)' /\ Answered(r)' /\ RoundsKept(r)'
    BY <2>1 DEF Settled, Account, Answered, RoundsKept, Ending
  <2>3. Earned(r)'
    BY <2>1 DEF Settled, Account, Earned, Stage, Ending
  <2> QED BY <2>2, <2>3 DEF Settled
<1>22. CASE PublishConfirmed(r)
  BY <1>22 DEF PublishConfirmed, Settled, Account, Earned, Answered, RoundsKept, Ending, TypeOK
<1>23. CASE PublishFails(r)
  BY <1>23 DEF PublishFails, Settled, Account, Earned, Answered, RoundsKept, Ending, TypeOK
<1>24. CASE Exit(r)
  BY <1>24 DEF Exit, Settled, Account, Earned, Answered, RoundsKept, Ending, TypeOK
<1>25. CASE ExitFails(r)
  BY <1>25 DEF ExitFails, Settled, Account, Earned, Answered, RoundsKept, Ending, TypeOK
<1>26. CASE Interrupt(r)
  <2>1. at'[r] = Start(at[r].round) /\ Start(at[r].round).round = at[r].round
    BY <1>26, BeginType DEF Interrupt, Start
  <2> QED BY <1>26, <2>1 DEF Interrupt, Settled, Account, Earned, Answered, RoundsKept, Ending,
                           TypeOK
<1> QED BY <1>1, <1>2, <1>3, <1>4, <1>5, <1>6, <1>7, <1>8, <1>9, <1>10, <1>11, <1>12, <1>13, <1>14, <1>15, <1>16, <1>17, <1>18, <1>19, <1>20, <1>21, <1>22, <1>23, <1>24, <1>25, <1>26 DEF Step

THEOREM Accounting == Spec => []Accounted
<1>1. Staged /\ Accounted /\ [Next]_vars => Accounted'
  <2> SUFFICES ASSUME Staged, Accounted, [Next]_vars PROVE Accounted'
    OBVIOUS
  <2>1. CASE UNCHANGED vars
    BY <2>1 DEF Accounted, Settled, Account, Earned, Answered, RoundsKept, vars, inputs, progress,
                dialogue, conclusion, hardware, stores
  <2>2. CASE Next
    BY <2>2, StepAccounted DEF Next
  <2> QED BY <2>1, <2>2
<1> QED BY <1>1, InitAccounted, Typing, PTL DEF Spec

(* A set stands in the complete store only when its run got every view      *)
(* once, one confirmation per round and passed gates: whatever other runs   *)
(* did under the same id (Capture.CompleteIsEarned).                        *)
THEOREM CompleteSetsAreEarned == Spec => []CompleteIsEarned
<1>1. Accounted => CompleteIsEarned
  BY DEF Accounted, Settled, Account, Earned, CompleteIsEarned
<1> QED BY <1>1, Accounting, PTL

(* What the command answered is what the stores hold, whichever of its      *)
(* publications, its cameras or its operator failed it                      *)
(* (Capture.AnswersAreTrue).                                                *)
THEOREM AnswersAgreeWithStores == Spec => []AnswersAreTrue
<1>1. Accounted => AnswersAreTrue
  BY DEF Accounted, Settled, Answered, Ending, AnswersAreTrue
<1> QED BY <1>1, Accounting, PTL

(* A run that ended without an interrupt left its frames in a store, or was *)
(* refused, and holds every slot of every round it finished                 *)
(* (Capture.EvidenceIsKept).                                                *)
THEOREM EvidenceStays == Spec => []EvidenceIsKept
<1>1. Accounted => EvidenceIsKept
  BY DEF Accounted, Settled, Answered, RoundsKept, SlotsOf, Ending, EvidenceIsKept
<1> QED BY <1>1, Accounting, PTL

-----------------------------------------------------------------------------
(* What became of a RETAKE: a place in quarantine belongs to a run of its   *)
(* id, and it is taken when a run left with a RETAKE that no disk failed.   *)
Displaced(r) ==
    pc[r] \in Ending /\ verdict[r] = "RETAKE" /\ told[r] # "interrupted"
        /\ refused[r] # "failed"
    => quarantine[id[r]] # NoOne

Filed == /\ \A i \in Ids : quarantine[i] # NoOne => id[quarantine[i]] = i
         /\ \A r \in Runs : Displaced(r)

LEMMA DisplacedStep ==
    ASSUME Staged, Accounted, Filed, NEW r \in Runs, Step(r) \/ Interrupt(r)
    PROVE  Displaced(r)'
<1>a. /\ TypeOK /\ Settled(r) /\ Stage(r) /\ Displaced(r) /\ id[r] \in Ids /\ r # NoOne
  BY ConstantsAssumption DEF Staged, TypeOK, Accounted, Filed
<1> USE <1>a
    DEF TypeOK, Displaced, Settled, Account, Ending, Goto, Leave, Abandon, publishFrame, inputs,
        conclusion, stores
<1>1. CASE Prepare(r)
  BY <1>1 DEF Prepare
<1>2. CASE RefuseRequest(r)
  BY <1>2 DEF RefuseRequest
<1>3. CASE ConfirmRound(r)
  BY <1>3 DEF ConfirmRound
<1>4. CASE CannotAsk(r)
  BY <1>4 DEF CannotAsk
<1>5. CASE Open(r)
  BY <1>5 DEF Open
<1>6. CASE OpenFails(r)
  BY <1>6 DEF OpenFails
<1>7. CASE SetExposure(r)
  BY <1>7 DEF SetExposure
<1>8. CASE TriggerAll(r)
  BY <1>8 DEF TriggerAll
<1>9. CASE Read(r)
  BY <1>9 DEF Read
<1>10. CASE SettleFrame(r)
  BY <1>10 DEF SettleFrame
<1>11. CASE FinishPass(r)
  BY <1>11 DEF FinishPass
<1>12. CASE RetryHdr(r)
  BY <1>12 DEF RetryHdr
<1>13. CASE AcceptImages(r)
  BY <1>13 DEF AcceptImages
<1>14. CASE RoundFails(r)
  BY <1>14 DEF RoundFails
<1>15. CASE AcceptRound(r)
  BY <1>15 DEF AcceptRound
<1>16. CASE Judge(r)
  BY <1>16 DEF Judge
<1>17. CASE Quarantine(r)
  BY <1>17 DEF Quarantine
<1>18. CASE QuarantineConfirmed(r)
  BY <1>18 DEF QuarantineConfirmed
<1>19. CASE QuarantineTaken(r)
  BY <1>19 DEF QuarantineTaken
<1>20. CASE QuarantineFails(r)
  BY <1>20 DEF QuarantineFails
<1>21. CASE Publish(r)
  BY <1>21 DEF Publish
<1>22. CASE PublishConfirmed(r)
  BY <1>22 DEF PublishConfirmed
<1>23. CASE PublishFails(r)
  BY <1>23 DEF PublishFails
<1>24. CASE Exit(r)
  BY <1>24 DEF Exit
<1>25. CASE ExitFails(r)
  BY <1>25 DEF ExitFails
<1>26. CASE Interrupt(r)
  BY <1>26 DEF Interrupt
<1> QED BY <1>1, <1>2, <1>3, <1>4, <1>5, <1>6, <1>7, <1>8, <1>9, <1>10, <1>11, <1>12, <1>13, <1>14, <1>15, <1>16, <1>17, <1>18, <1>19, <1>20, <1>21, <1>22, <1>23, <1>24, <1>25, <1>26 DEF Step

LEMMA StepFiled ==
    ASSUME Staged, Accounted, Filed, NEW r \in Runs, Step(r) \/ Interrupt(r)
    PROVE  Filed'
<1>1. TypeOK /\ UNCHANGED inputs
  BY Others DEF Staged
<1>2. \A i \in Ids : quarantine'[i] \in {quarantine[i], r}
  BY <1>1, Places
<1>3. \A i \in Ids : quarantine'[i] # NoOne => id'[quarantine'[i]] = i
  <2> SUFFICES ASSUME NEW i \in Ids, quarantine'[i] # NoOne PROVE id[quarantine'[i]] = i
    BY <1>1 DEF inputs
  <2>1. CASE quarantine'[i] = quarantine[i]
    BY <2>1 DEF Filed
  <2>2. CASE quarantine'[i] # quarantine[i]
    <3>1. Quarantine(r)
      BY <1>1, <2>2 DEF Step, Prepare, RefuseRequest, ConfirmRound, CannotAsk, Open, OpenFails,
         SetExposure, TriggerAll, Read, SettleFrame, FinishPass, RetryHdr, AcceptImages,
         RoundFails, AcceptRound, Judge, QuarantineConfirmed, QuarantineTaken, QuarantineFails,
         Publish, PublishConfirmed, PublishFails, Exit, ExitFails, Interrupt, stores
    <3>2. i = id[r] /\ quarantine'[i] = r
      BY <1>1, <2>2, <3>1 DEF Quarantine, TypeOK
    <3> QED BY <3>2
  <2> QED BY <2>1, <2>2
<1>4. \A q \in Runs \ {r} : Displaced(q)'
  <2> SUFFICES ASSUME NEW q \in Runs \ {r} PROVE Displaced(q)'
    OBVIOUS
  <2>1. pc'[q] = pc[q] /\ verdict'[q] = verdict[q] /\ told'[q] = told[q] /\ refused'[q] = refused[q]
    BY <1>1, Others
  <2>2. id[q] \in Ids /\ id' = id
    BY <1>1 DEF TypeOK, inputs
  <2>3. quarantine[id[q]] # NoOne => quarantine'[id[q]] # NoOne
    BY <1>1, <2>2, Places
  <2> QED BY <2>1, <2>2, <2>3 DEF Filed, Displaced
<1> QED BY <1>3, <1>4, DisplacedStep DEF Filed

(* The ids are given once; nothing in cli/capture.py sees to that. *)
UniqueIds == \A r, q \in Runs : id[r] = id[q] => r = q

(* A RETAKE that a working disk did not take has its place in quarantine,   *)
(* or an earlier run of the same id has: an id used again is the only way   *)
(* to lose the evidence (Capture.RetakeIsQuarantined, which the code breaks *)
(* without UniqueIds).                                                      *)
RetakeGivesWayToItsId ==
    /\ \A r \in Runs : Displaced(r)
    /\ \A i \in Ids : quarantine[i] # NoOne => id[quarantine[i]] = i
    /\ UniqueIds => RetakeIsQuarantined

THEOREM OnlyReusedIdsLoseRetakes == Spec => []RetakeGivesWayToItsId
<1>1. Init => Filed
  BY DEF Init, Filed, Displaced, Ending
<1>2. Staged /\ Accounted /\ Filed /\ [Next]_vars => Filed'
  <2> SUFFICES ASSUME Staged, Accounted, Filed, [Next]_vars PROVE Filed'
    OBVIOUS
  <2>1. CASE UNCHANGED vars
    BY <2>1 DEF Filed, Displaced, vars, inputs, conclusion, stores
  <2>2. CASE Next
    BY <2>2, StepFiled DEF Next
  <2> QED BY <2>1, <2>2
<1>3. Staged /\ Filed => RetakeGivesWayToItsId
  <2> SUFFICES ASSUME Staged, Filed, UniqueIds PROVE RetakeIsQuarantined
    BY DEF RetakeGivesWayToItsId, Filed
  <2> SUFFICES ASSUME NEW r \in Runs, quarantine[id[r]] # NoOne PROVE quarantine[id[r]] = r
    BY DEF RetakeIsQuarantined, Filed, Displaced, Ending
  <2>1. id[r] \in Ids /\ quarantine[id[r]] \in Runs
    BY DEF Staged, TypeOK
  <2> QED BY <2>1 DEF Filed, UniqueIds
<1> QED BY <1>1, <1>2, <1>3, Typing, Accounting, PTL DEF Spec

-----------------------------------------------------------------------------
(* The cameras of a run that is capturing are its own, and set for its pass. *)
Owned(r) ==
    /\ handles[r] => \A c \in Slots : holder[c] = r
    /\ pc[r] \in Round \ {"open"} => handles[r]
    /\ pc[r] \in {"trigger", "read"} => \A c \in Slots : exposure[c] = Setting(r)

(* The last trigger of pass p of the attempt. *)
Taken(r, p) == [run |-> r, round |-> at[r].round, attempt |-> at[r].attempt,
                shot |-> Shots, exposure |-> Settings[p]]

(* What the attempt has gathered: the last group of each finished pass, and *)
(* of the pass it is in the images read so far.                             *)
Gathered(r) ==
    /\ pc[r] \in {"start", "confirm", "open"} => at[r] = Start(at[r].round) /\ passes[r] = <<>>
    /\ pc[r] \in {"expose", "trigger", "read"} => Len(passes[r]) = at[r].pass - 1
    /\ pc[r] \in {"fuse", "encode"} => Len(passes[r]) = Len(Settings)
    /\ pc[r] \in Round =>
         \A p \in 1 .. Len(passes[r]) : \A c \in Slots : passes[r][p][c] = Taken(r, p)
    /\ pc[r] = "read" => \A c \in Slots \ Unread(r) : images[r][c] = Image(r, c)

(* A camera holds no image but the one its run is about to read. *)
Waiting(r, c) == pc[r] = "read" /\ c \in Unread(r) /\ queue[c] = <<Image(r, c)>>
Fresh(c) == queue[c] = <<>> \/ \E r \in Runs : Waiting(r, c)

(* FramesAreTheirs for one frame. *)
Theirs(r, f) ==
    \E a \in 1 .. Attempts :
        f.made = [p \in 1 .. Len(Settings) |->
                    [run |-> r, round |-> f.round, attempt |-> a, shot |-> Shots,
                     exposure |-> Settings[p]]]

Provenance ==
    /\ \A r \in Runs : Owned(r) /\ Gathered(r) /\ \A f \in frames[r] : Theirs(r, f)
    /\ \A c \in Slots : Fresh(c)

LEMMA InitProvenance == Init => Provenance
BY DEF Init, Provenance, Owned, Gathered, Fresh, Round, Start

(* Two runs do not hold the cameras at once. *)
LEMMA Alone ==
    ASSUME NEW r \in Runs, NEW q \in Runs, Owned(r), Owned(q), handles[r], handles[q]
    PROVE  q = r
<1>1. 1 \in Slots
  BY ConstantsAssumption DEF Slots
<1> QED BY <1>1 DEF Owned

(* While a run holds the cameras no other run touches them. *)
LEMMA Undisturbed ==
    ASSUME TypeOK, NEW r \in Runs, Step(r) \/ Interrupt(r), Owned(r),
           NEW q \in Runs \ {r}, Owned(q), handles[q], NEW c \in Slots
    PROVE  holder'[c] = q /\ exposure'[c] = exposure[c] /\ queue'[c] = queue[c]
<1>1. ~handles[r] /\ pc[r] \notin Round \ {"open"}
  BY Alone DEF Owned
<1>2. \A d \in Slots : holder[d] = q /\ q # NoOne /\ q # r
  BY ConstantsAssumption DEF Owned
<1> USE <1>1, <1>2 DEF Round, publishFrame, hardware
<1>3. CASE Prepare(r)
  BY <1>3 DEF Prepare, Close
<1>4. CASE RefuseRequest(r)
  BY <1>4 DEF RefuseRequest, Close
<1>5. CASE ConfirmRound(r)
  BY <1>5 DEF ConfirmRound, Close
<1>6. CASE CannotAsk(r)
  BY <1>6 DEF CannotAsk, Close
<1>7. CASE Open(r)
  BY <1>7 DEF Open, Close
<1>8. CASE OpenFails(r)
  BY <1>8 DEF OpenFails, Close
<1>9. CASE SetExposure(r)
  BY <1>9 DEF SetExposure, Close
<1>10. CASE TriggerAll(r)
  BY <1>10 DEF TriggerAll, Close
<1>11. CASE Read(r)
  BY <1>11 DEF Read, Close
<1>12. CASE SettleFrame(r)
  BY <1>12 DEF SettleFrame, Close
<1>13. CASE FinishPass(r)
  BY <1>13 DEF FinishPass, Close
<1>14. CASE RetryHdr(r)
  BY <1>14 DEF RetryHdr, Close
<1>15. CASE AcceptImages(r)
  BY <1>15 DEF AcceptImages, Close
<1>16. CASE RoundFails(r)
  BY <1>16 DEF RoundFails, Close
<1>17. CASE AcceptRound(r)
  BY <1>17 DEF AcceptRound, Close
<1>18. CASE Judge(r)
  BY <1>18 DEF Judge, Close
<1>19. CASE Quarantine(r)
  BY <1>19 DEF Quarantine, Close
<1>20. CASE QuarantineConfirmed(r)
  BY <1>20 DEF QuarantineConfirmed, Close
<1>21. CASE QuarantineTaken(r)
  BY <1>21 DEF QuarantineTaken, Close
<1>22. CASE QuarantineFails(r)
  BY <1>22 DEF QuarantineFails, Close
<1>23. CASE Publish(r)
  BY <1>23 DEF Publish, Close
<1>24. CASE PublishConfirmed(r)
  BY <1>24 DEF PublishConfirmed, Close
<1>25. CASE PublishFails(r)
  BY <1>25 DEF PublishFails, Close
<1>26. CASE Exit(r)
  BY <1>26 DEF Exit, Close
<1>27. CASE ExitFails(r)
  BY <1>27 DEF ExitFails, Close
<1>28. CASE Interrupt(r)
  BY <1>28 DEF Interrupt, Close
<1> QED BY <1>3, <1>4, <1>5, <1>6, <1>7, <1>8, <1>9, <1>10, <1>11, <1>12, <1>13, <1>14, <1>15, <1>16, <1>17, <1>18, <1>19, <1>20, <1>21, <1>22, <1>23, <1>24, <1>25, <1>26, <1>27, <1>28 DEF Step

LEMMA EncodedTheirs ==
    ASSUME Staged, NEW r \in Runs, Gathered(r), pc[r] = "encode", NEW f \in Encoded(r)
    PROVE  Theirs(r, f)
<1>1. PICK c \in Slots : f = Frame(r, c, [p \in 1 .. Len(passes[r]) |-> passes[r][p][c]])
  BY DEF Encoded
<1>2. f.round = at[r].round /\ f.made = [p \in 1 .. Len(passes[r]) |-> passes[r][p][c]]
  BY <1>1 DEF Frame
<1>3. Len(passes[r]) = Len(Settings) /\ at[r].attempt \in 1 .. Attempts
  BY DEF Gathered, Staged, Stage
<1>4. \A p \in 1 .. Len(Settings) : passes[r][p][c] = Taken(r, p)
  BY <1>3 DEF Gathered, Round
<1>5. f.made = [p \in 1 .. Len(Settings) |-> Taken(r, p)]
  BY <1>2, <1>3, <1>4
<1> QED BY <1>2, <1>3, <1>5 DEF Theirs, Taken

LEMMA KeptTheirs ==
    ASSUME Staged, NEW r \in Runs, Gathered(r), Owned(r), NEW partial \in Kept(r),
           NEW f \in partial
    PROVE  Theirs(r, f)
<1>1. CASE pc[r] = "encode"
  BY <1>1, EncodedTheirs DEF Kept
<1>2. CASE pc[r] = "read" /\ ~hdr
  <2>1. PICK c \in Slots \ Unread(r) : f = Frame(r, c, <<images[r][c]>>)
    BY <1>2 DEF Kept
  <2>2. images[r][c] = Image(r, c) /\ exposure[c] = Setting(r)
    BY <1>2, <2>1 DEF Gathered, Owned
  <2>3. /\ Settings = <<"single">> /\ Shots = 1 /\ Len(Settings) = 1
        /\ at[r].shot = Shots /\ at[r].pass = 1 /\ at[r].attempt \in 1 .. Attempts
    <3>1. hdr \in BOOLEAN /\ Stage(r) /\ at[r].shot \in Nat /\ at[r].pass \in Nat
      BY DEF Staged, TypeOK
    <3>2. Settings = <<"single">> /\ Shots = 1
      BY <1>2, <3>1, Acquisition
    <3>3. Len(Settings) = 1
      BY <3>2
    <3> QED BY <3>1, <3>2, <3>3 DEF Stage
  <2>4. /\ f.round = at[r].round
        /\ f.made = <<[run |-> r, round |-> f.round, attempt |-> at[r].attempt,
                       shot |-> Shots, exposure |-> Settings[1]]>>
    BY <2>1, <2>2, <2>3 DEF Frame, Image, Setting
  <2>5. f.made = [p \in 1 .. Len(Settings) |->
                    [run |-> r, round |-> f.round, attempt |-> at[r].attempt,
                     shot |-> Shots, exposure |-> Settings[p]]]
    BY <2>3, <2>4
  <2> QED BY <2>3, <2>5 DEF Theirs
<1>3. CASE pc[r] # "encode" /\ ~(pc[r] = "read" /\ ~hdr)
  BY <1>3 DEF Kept
<1> QED BY <1>1, <1>2, <1>3

LEMMA StepProvenance ==
    ASSUME Staged, Provenance, NEW r \in Runs, Step(r) \/ Interrupt(r)
    PROVE  Provenance'
<1>a. /\ TypeOK /\ Stage(r) /\ Owned(r) /\ Gathered(r) /\ \A f \in frames[r] : Theirs(r, f)
      /\ Settings' = Settings /\ Shots' = Shots /\ Attempts' = Attempts
      /\ at[r].round \in 1 .. Rounds
  BY Others DEF Staged, TypeOK, Provenance, inputs, Settings, Shots, Attempts
<1>b. \A f : \A q \in Runs : Theirs(q, f)' <=> Theirs(q, f)
  BY <1>a DEF Theirs
<1>c. \A q \in Runs \ {r} : Owned(q)' /\ Gathered(q)' /\ \A f \in frames'[q] : Theirs(q, f)'
  <2> SUFFICES ASSUME NEW q \in Runs \ {r}
               PROVE  Owned(q)' /\ Gathered(q)' /\ \A f \in frames'[q] : Theirs(q, f)'
    OBVIOUS
  <2>1. Owned(q) /\ Gathered(q) /\ \A f \in frames[q] : Theirs(q, f)
    BY DEF Provenance
  <2>2. /\ pc'[q] = pc[q] /\ at'[q] = at[q] /\ images'[q] = images[q] /\ passes'[q] = passes[q]
        /\ frames'[q] = frames[q] /\ handles'[q] = handles[q]
    BY <1>a, Others
  <2>3. handles[q] => \A c \in Slots : holder'[c] = q /\ exposure'[c] = exposure[c]
    BY <1>a, <2>1, Undisturbed
  <2>4. Owned(q)'
    BY <1>a, <2>1, <2>2, <2>3 DEF Owned, Setting, Round
  <2>5. Gathered(q)'
    BY <1>a, <2>1, <2>2, <2>3 DEF Owned, Gathered, Taken, Unread, Image, Round
  <2> QED BY <1>b, <2>1, <2>2, <2>4, <2>5
<1>d. \A c \in Slots : \A q \in Runs \ {r} : Waiting(q, c) => Waiting(q, c)'
  <2> SUFFICES ASSUME NEW c \in Slots, NEW q \in Runs \ {r}, Waiting(q, c) PROVE Waiting(q, c)'
    OBVIOUS
  <2>1. Owned(q) /\ handles[q]
    BY DEF Provenance, Owned, Waiting, Round
  <2>2. exposure'[c] = exposure[c] /\ queue'[c] = queue[c]
    BY <1>a, <2>1, Undisturbed
  <2>3. pc'[q] = pc[q] /\ at'[q] = at[q] /\ images'[q] = images[q]
    BY <1>a, Others
  <2> QED BY <2>2, <2>3 DEF Waiting, Unread, Image
<1> DEFINE Mine == \A c \in Slots : queue[c] = <<>> \/ Waiting(r, c) =>
                                    queue'[c] = <<>> \/ Waiting(r, c)'
           Kin == \A f \in frames'[r] : Theirs(r, f)
<1> SUFFICES Owned(r)' /\ Gathered(r)' /\ Mine /\ Kin
  BY <1>b, <1>c, <1>d DEF Provenance, Fresh
<1> USE <1>a, ConstantsAssumption
    DEF Goto, Leave, publishFrame, inputs, progress, dialogue, conclusion, hardware, stores
<1>1. CASE Prepare(r)
  <2>1. Owned(r)'
    BY <1>1 DEF Prepare, Owned, Setting, Round, TypeOK
  <2>2. Gathered(r)'
    BY <1>1 DEF Prepare, Gathered, Taken, Unread, Image, Round, TypeOK
  <2>3. Mine
    BY <1>1 DEF Prepare, Waiting, Owned, Unread, Image, Round, TypeOK
  <2>4. Kin
    BY <1>1 DEF Prepare, TypeOK
  <2> QED BY <2>1, <2>2, <2>3, <2>4
<1>2. CASE RefuseRequest(r)
  <2>1. Owned(r)'
    BY <1>2 DEF RefuseRequest, Owned, Setting, Round, TypeOK
  <2>2. Gathered(r)'
    BY <1>2 DEF RefuseRequest, Gathered, Taken, Unread, Image, Round, TypeOK
  <2>3. Mine
    BY <1>2 DEF RefuseRequest, Waiting, Owned, Unread, Image, Round, TypeOK
  <2>4. Kin
    BY <1>2 DEF RefuseRequest, TypeOK
  <2> QED BY <2>1, <2>2, <2>3, <2>4
<1>3. CASE ConfirmRound(r)
  <2>1. Owned(r)'
    BY <1>3 DEF ConfirmRound, Owned, Abandon, Setting, Round, TypeOK
  <2>2. Gathered(r)'
    BY <1>3 DEF ConfirmRound, Gathered, Abandon, Taken, Unread, Image, Round, TypeOK
  <2>3. Mine
    BY <1>3 DEF ConfirmRound, Waiting, Owned, Abandon, Unread, Image, Round, TypeOK
  <2>4. Kin
    BY <1>3 DEF ConfirmRound, Abandon, TypeOK
  <2> QED BY <2>1, <2>2, <2>3, <2>4
<1>4. CASE CannotAsk(r)
  <2>1. Owned(r)'
    BY <1>4 DEF CannotAsk, Owned, Abandon, Setting, Round, TypeOK
  <2>2. Gathered(r)'
    BY <1>4 DEF CannotAsk, Gathered, Abandon, Taken, Unread, Image, Round, TypeOK
  <2>3. Mine
    BY <1>4 DEF CannotAsk, Waiting, Owned, Abandon, Unread, Image, Round, TypeOK
  <2>4. Kin
    BY <1>4 DEF CannotAsk, Abandon, TypeOK
  <2> QED BY <2>1, <2>2, <2>3, <2>4
<1>5. CASE Open(r)
  <2>1. Owned(r)'
    BY <1>5 DEF Open, Owned, Setting, Round, TypeOK
  <2>2. Gathered(r)'
    <3>1. at[r].pass = 1 /\ Len(passes[r]) = 0
      BY <1>5 DEF Open, Gathered, Start
    <3> QED BY <1>5, <3>1 DEF Open, Gathered, Round, TypeOK
  <2>3. Mine
    BY <1>5 DEF Open, Waiting
  <2>4. Kin
    BY <1>5 DEF Open
  <2> QED BY <2>1, <2>2, <2>3, <2>4
<1>6. CASE OpenFails(r)
  <2>1. Owned(r)'
    BY <1>6 DEF OpenFails, Owned, Abandon, Setting, Round, TypeOK
  <2>2. Gathered(r)'
    BY <1>6 DEF OpenFails, Gathered, Abandon, Taken, Unread, Image, Round, TypeOK
  <2>3. Mine
    BY <1>6 DEF OpenFails, Waiting, Owned, Abandon, Unread, Image, Round, TypeOK
  <2>4. Kin
    BY <1>6 DEF OpenFails, Abandon, TypeOK
  <2> QED BY <2>1, <2>2, <2>3, <2>4
<1>7. CASE SetExposure(r)
  <2>1. Owned(r)'
    BY <1>7 DEF SetExposure, Owned, Setting, Round, TypeOK
  <2>2. Gathered(r)'
    BY <1>7 DEF SetExposure, Gathered, Taken, Unread, Image, Round, TypeOK
  <2>3. Mine
    BY <1>7 DEF SetExposure, Waiting, Owned, Unread, Image, Round, TypeOK
  <2>4. Kin
    BY <1>7 DEF SetExposure, TypeOK
  <2> QED BY <2>1, <2>2, <2>3, <2>4
<1>8. CASE TriggerAll(r)
  <2>1. /\ pc[r] = "trigger" /\ pc'[r] = "read" /\ images'[r] = NoImages
        /\ \A c \in Slots : queue'[c] = Append(queue[c], Image(r, c))
        /\ UNCHANGED <<inputs, at, passes, frames, handles, holder, exposure>>
    BY <1>8 DEF TriggerAll, TypeOK
  <2>2. Owned(r)'
    BY <2>1 DEF Owned, Setting, Round
  <2>3. \A c \in Slots : c \in Unread(r)' /\ Image(r, c)' = Image(r, c)
    BY <2>1 DEF Unread, NoImages, Image
  <2>4. Gathered(r)'
    BY <2>1, <2>3 DEF Gathered, Taken, Round
  <2>5. Mine
    <3> SUFFICES ASSUME NEW c \in Slots, queue[c] = <<>> \/ Waiting(r, c)
                 PROVE  Waiting(r, c)'
      OBVIOUS
    <3>1. queue[c] = <<>>
      BY <2>1 DEF Waiting
    <3>2. queue'[c] = <<Image(r, c)>>
      BY <2>1, <3>1
    <3> QED BY <2>1, <2>3, <3>2 DEF Waiting
  <2>6. Kin
    BY <2>1
  <2> QED BY <2>2, <2>4, <2>5, <2>6
<1>9. CASE Read(r)
  <2>1. PICK c \in Slots : /\ NextSlot(r, c) /\ queue[c] # <<>>
                           /\ images' = [images EXCEPT ![r][c] = Head(queue[c])]
                           /\ queue' = [queue EXCEPT ![c] = Tail(@)]
    BY <1>9 DEF Read
  <2>2. /\ pc[r] = "read" /\ handles[r] /\ UNCHANGED <<inputs, pc, at, passes, frames, handles, holder, exposure>>
    BY <1>9 DEF Read, Owned, Round
  <2>3. queue[c] = <<Image(r, c)>>
    <3>1. PICK q \in Runs : Waiting(q, c)
      BY <2>1 DEF Provenance, Fresh
    <3>2. handles[q] /\ Owned(q)
      BY <3>1 DEF Waiting, Provenance, Owned, Round
    <3>3. q = r
      BY <2>2, <3>2, Alone
    <3> QED BY <3>1, <3>3 DEF Waiting
  <2>4. /\ images'[r][c] = Image(r, c) /\ queue'[c] = <<>>
        /\ \A d \in Slots \ {c} : images'[r][d] = images[r][d] /\ queue'[d] = queue[d]
    BY <2>1, <2>3 DEF TypeOK
  <2>5. Owned(r)'
    BY <2>2 DEF Owned, Setting
  <2>6. \A d \in Slots : Image(r, d)' = Image(r, d)
    BY <2>2 DEF Image
  <2>7. \A d \in Slots \ {c} : d \in Unread(r)' <=> d \in Unread(r)
    BY <2>4 DEF Unread
  <2>8. Gathered(r)'
    <3>1. \A d \in Slots \ Unread(r)' : images'[r][d] = Image(r, d)'
      BY <2>2, <2>4, <2>6, <2>7 DEF Gathered
    <3>2. \A p : Taken(r, p)' = Taken(r, p)
      BY <2>2 DEF Taken
    <3> QED BY <2>2, <3>1, <3>2 DEF Gathered, Round
  <2>9. Mine
    BY <2>2, <2>4, <2>6, <2>7 DEF Waiting
  <2>10. Kin
    BY <2>2
  <2> QED BY <2>5, <2>8, <2>9, <2>10
<1>10. CASE SettleFrame(r)
  <2>1. /\ pc[r] = "read" /\ pc'[r] = "trigger" /\ Unread(r) = {}
        /\ Aim(r, at[r].attempt, at[r].pass, at[r].shot + 1)
        /\ UNCHANGED <<inputs, images, passes, frames, hardware>>
    BY <1>10 DEF SettleFrame, TypeOK
  <2>2. /\ at'[r].pass = at[r].pass /\ at'[r].round = at[r].round
        /\ at'[r].attempt = at[r].attempt
    BY <2>1 DEF Aim, TypeOK
  <2>3. Owned(r)'
    BY <2>1, <2>2 DEF Owned, Setting, Round
  <2>4. Gathered(r)'
    BY <2>1, <2>2 DEF Gathered, Taken, Round
  <2>5. Mine
    BY <2>1 DEF Waiting
  <2>6. Kin
    BY <2>1
  <2> QED BY <2>3, <2>4, <2>5, <2>6
<1>11. CASE FinishPass(r)
  <2>1. /\ pc[r] = "read" /\ Unread(r) = {} /\ at[r].shot = Shots
        /\ passes'[r] = Append(passes[r], images[r]) /\ passes[r] \in Seq([Slots -> ImageSet])
        /\ UNCHANGED <<inputs, images, frames, hardware>>
    BY <1>11 DEF FinishPass, TypeOK
  <2>2. Len(passes[r]) = at[r].pass - 1 /\ Len(passes[r]) \in Nat /\ at[r].pass \in Nat
    BY <2>1 DEF Gathered, TypeOK
  <2>3. \A c \in Slots : images[r][c] = Taken(r, at[r].pass)
    BY <2>1 DEF Gathered, Owned, Image, Taken, Setting, Round
  <2>4. /\ Len(passes'[r]) = at[r].pass
        /\ \A p \in 1 .. at[r].pass : \A c \in Slots : passes'[r][p][c] = Taken(r, p)
    <3>1. Len(passes'[r]) = at[r].pass
      BY <2>1, <2>2
    <3>2. \A p \in 1 .. at[r].pass - 1 : passes'[r][p] = passes[r][p]
      BY <2>1, <2>2
    <3>3. passes'[r][at[r].pass] = images[r]
      BY <2>1, <2>2
    <3>4. \A p \in 1 .. at[r].pass - 1 : \A c \in Slots : passes[r][p][c] = Taken(r, p)
      BY <2>1, <2>2 DEF Gathered, Round
    <3>5. \A p \in 1 .. at[r].pass : p = at[r].pass \/ p \in 1 .. at[r].pass - 1
      BY <2>2
    <3> QED BY <2>3, <3>1, <3>2, <3>3, <3>4, <3>5
  <2>5. CASE at[r].pass < Len(Settings)
    <3>1. Aim(r, at[r].attempt, at[r].pass + 1, 1) /\ pc'[r] = "expose"
      BY <1>11, <2>5 DEF FinishPass, TypeOK
    <3>2. /\ at'[r].pass = at[r].pass + 1 /\ at'[r].round = at[r].round
          /\ at'[r].attempt = at[r].attempt
      BY <3>1 DEF Aim, TypeOK
    <3>3. \A p : Taken(r, p)' = Taken(r, p)
      BY <3>2 DEF Taken
    <3>4. Gathered(r)'
      BY <2>2, <2>4, <3>1, <3>2, <3>3 DEF Gathered, Round
    <3>5. Owned(r)'
      BY <2>1, <3>1 DEF Owned, Round
    <3> QED BY <2>1, <3>4, <3>5 DEF Waiting
  <2>6. CASE ~(at[r].pass < Len(Settings))
    <3>1. UNCHANGED at /\ pc'[r] = "fuse"
      BY <1>11, <2>6 DEF FinishPass, TypeOK
    <3>2. at[r].pass = Len(Settings)
      BY <2>6, Acquisition DEF Stage, TypeOK
    <3>3. \A p : Taken(r, p)' = Taken(r, p)
      BY <3>1 DEF Taken
    <3>4. Gathered(r)'
      BY <2>4, <3>1, <3>2, <3>3 DEF Gathered, Round
    <3>5. Owned(r)'
      BY <2>1, <3>1 DEF Owned, Round
    <3> QED BY <2>1, <3>4, <3>5 DEF Waiting
  <2> QED BY <2>5, <2>6
<1>12. CASE RetryHdr(r)
  <2>1. /\ pc[r] = "fuse" /\ pc'[r] = "expose" /\ passes'[r] = <<>>
        /\ Aim(r, at[r].attempt + 1, 1, 1)
        /\ UNCHANGED <<inputs, images, frames, hardware>>
    BY <1>12 DEF RetryHdr, TypeOK
  <2>2. at'[r].pass = 1 /\ Len(passes'[r]) = 0
    BY <2>1 DEF Aim, TypeOK
  <2>3. Gathered(r)'
    BY <2>1, <2>2 DEF Gathered, Round
  <2>4. Owned(r)'
    BY <2>1 DEF Owned, Round
  <2> QED BY <2>1, <2>3, <2>4 DEF Waiting
<1>13. CASE AcceptImages(r)
  <2>1. Owned(r)'
    BY <1>13 DEF AcceptImages, Owned, Setting, Round, TypeOK
  <2>2. Gathered(r)'
    BY <1>13 DEF AcceptImages, Gathered, Taken, Unread, Image, Round, TypeOK
  <2>3. Mine
    BY <1>13 DEF AcceptImages, Waiting, Owned, Unread, Image, Round, TypeOK
  <2>4. Kin
    BY <1>13 DEF AcceptImages, TypeOK
  <2> QED BY <2>1, <2>2, <2>3, <2>4
<1>14. CASE RoundFails(r)
  <2>1. PICK partial \in Kept(r) : Abandon(r, "SYSTEM_ERROR", partial)
    BY <1>14 DEF RoundFails
  <2>2. pc'[r] = "failing" /\ frames'[r] = frames[r] \cup partial
    BY <2>1, KeptType, AbandonType DEF Kinds
  <2>3. PICK stuck : Close(r, stuck)
    BY <1>14 DEF RoundFails
  <2>4. Owned(r)' /\ Gathered(r)'
    BY <2>2, <2>3 DEF Owned, Gathered, Close, Round, TypeOK
  <2>5. Mine
    BY <2>3 DEF Waiting, Owned, Close, Round
  <2>6. Kin
    BY <2>2, KeptTheirs
  <2> QED BY <2>4, <2>5, <2>6
<1>15. CASE AcceptRound(r)
  <2>1. pc[r] = "encode" /\ UNCHANGED <<inputs, dialogue, hardware, stores>>
    BY <1>15 DEF AcceptRound
  <2>2. pc'[r] \in {"failing", "confirm", "gates"} /\ frames'[r] \subseteq frames[r] \cup Encoded(r)
    BY <1>15 DEF AcceptRound, Abandon, TypeOK
  <2>3. \E k \in 1 .. Rounds : BeginRound(r, k)
    BY <1>15 DEF AcceptRound
  <2>4. PICK k \in 1 .. Rounds : at'[r] = Start(k) /\ passes'[r] = <<>>
    BY <2>3, BeginType
  <2>5. Gathered(r)'
    BY <2>2, <2>4 DEF Gathered, Start, Round
  <2>6. Owned(r)'
    BY <2>1, <2>2 DEF Owned, Round
  <2>7. Mine
    BY <2>1 DEF Waiting
  <2>8. Kin
    BY <2>1, <2>2, EncodedTheirs
  <2> QED BY <2>5, <2>6, <2>7, <2>8
<1>16. CASE Judge(r)
  <2>1. Owned(r)'
    BY <1>16 DEF Judge, Owned, Abandon, Setting, Round, TypeOK
  <2>2. Gathered(r)'
    BY <1>16 DEF Judge, Gathered, Abandon, Taken, Unread, Image, Round, TypeOK
  <2>3. Mine
    BY <1>16 DEF Judge, Waiting, Owned, Abandon, Unread, Image, Round, TypeOK
  <2>4. Kin
    BY <1>16 DEF Judge, Abandon, TypeOK
  <2> QED BY <2>1, <2>2, <2>3, <2>4
<1>17. CASE Quarantine(r)
  <2>1. Owned(r)'
    BY <1>17 DEF Quarantine, Owned, Setting, Round, TypeOK
  <2>2. Gathered(r)'
    BY <1>17 DEF Quarantine, Gathered, Taken, Unread, Image, Round, TypeOK
  <2>3. Mine
    BY <1>17 DEF Quarantine, Waiting, Owned, Unread, Image, Round, TypeOK
  <2>4. Kin
    BY <1>17 DEF Quarantine, TypeOK
  <2> QED BY <2>1, <2>2, <2>3, <2>4
<1>18. CASE QuarantineConfirmed(r)
  <2>1. Owned(r)'
    BY <1>18 DEF QuarantineConfirmed, Owned, Setting, Round, TypeOK
  <2>2. Gathered(r)'
    BY <1>18 DEF QuarantineConfirmed, Gathered, Taken, Unread, Image, Round, TypeOK
  <2>3. Mine
    BY <1>18 DEF QuarantineConfirmed, Waiting, Owned, Unread, Image, Round, TypeOK
  <2>4. Kin
    BY <1>18 DEF QuarantineConfirmed, TypeOK
  <2> QED BY <2>1, <2>2, <2>3, <2>4
<1>19. CASE QuarantineTaken(r)
  <2>1. Owned(r)'
    BY <1>19 DEF QuarantineTaken, Owned, Setting, Round, TypeOK
  <2>2. Gathered(r)'
    BY <1>19 DEF QuarantineTaken, Gathered, Taken, Unread, Image, Round, TypeOK
  <2>3. Mine
    BY <1>19 DEF QuarantineTaken, Waiting, Owned, Unread, Image, Round, TypeOK
  <2>4. Kin
    BY <1>19 DEF QuarantineTaken, TypeOK
  <2> QED BY <2>1, <2>2, <2>3, <2>4
<1>20. CASE QuarantineFails(r)
  <2>1. Owned(r)'
    BY <1>20 DEF QuarantineFails, Owned, Setting, Round, TypeOK
  <2>2. Gathered(r)'
    BY <1>20 DEF QuarantineFails, Gathered, Taken, Unread, Image, Round, TypeOK
  <2>3. Mine
    BY <1>20 DEF QuarantineFails, Waiting, Owned, Unread, Image, Round, TypeOK
  <2>4. Kin
    BY <1>20 DEF QuarantineFails, TypeOK
  <2> QED BY <2>1, <2>2, <2>3, <2>4
<1>21. CASE Publish(r)
  <2>1. Owned(r)'
    BY <1>21 DEF Publish, Owned, Setting, Round, TypeOK
  <2>2. Gathered(r)'
    BY <1>21 DEF Publish, Gathered, Taken, Unread, Image, Round, TypeOK
  <2>3. Mine
    BY <1>21 DEF Publish, Waiting, Owned, Unread, Image, Round, TypeOK
  <2>4. Kin
    BY <1>21 DEF Publish, TypeOK
  <2> QED BY <2>1, <2>2, <2>3, <2>4
<1>22. CASE PublishConfirmed(r)
  <2>1. Owned(r)'
    BY <1>22 DEF PublishConfirmed, Owned, Setting, Round, TypeOK
  <2>2. Gathered(r)'
    BY <1>22 DEF PublishConfirmed, Gathered, Taken, Unread, Image, Round, TypeOK
  <2>3. Mine
    BY <1>22 DEF PublishConfirmed, Waiting, Owned, Unread, Image, Round, TypeOK
  <2>4. Kin
    BY <1>22 DEF PublishConfirmed, TypeOK
  <2> QED BY <2>1, <2>2, <2>3, <2>4
<1>23. CASE PublishFails(r)
  <2>1. Owned(r)'
    BY <1>23 DEF PublishFails, Owned, Setting, Round, TypeOK
  <2>2. Gathered(r)'
    BY <1>23 DEF PublishFails, Gathered, Taken, Unread, Image, Round, TypeOK
  <2>3. Mine
    BY <1>23 DEF PublishFails, Waiting, Owned, Unread, Image, Round, TypeOK
  <2>4. Kin
    BY <1>23 DEF PublishFails, TypeOK
  <2> QED BY <2>1, <2>2, <2>3, <2>4
<1>24. CASE Exit(r)
  <2>1. Owned(r)'
    BY <1>24 DEF Exit, Owned, Close, Setting, Round, TypeOK
  <2>2. Gathered(r)'
    BY <1>24 DEF Exit, Gathered, Taken, Unread, Image, Round, TypeOK
  <2>3. Mine
    BY <1>24 DEF Exit, Waiting, Owned, Close, Unread, Image, Round, TypeOK
  <2>4. Kin
    BY <1>24 DEF Exit, TypeOK
  <2> QED BY <2>1, <2>2, <2>3, <2>4
<1>25. CASE ExitFails(r)
  <2>1. Owned(r)'
    BY <1>25 DEF ExitFails, Owned, Close, Setting, Round, TypeOK
  <2>2. Gathered(r)'
    BY <1>25 DEF ExitFails, Gathered, Taken, Unread, Image, Round, TypeOK
  <2>3. Mine
    BY <1>25 DEF ExitFails, Waiting, Owned, Close, Unread, Image, Round, TypeOK
  <2>4. Kin
    BY <1>25 DEF ExitFails, TypeOK
  <2> QED BY <2>1, <2>2, <2>3, <2>4
<1>26. CASE Interrupt(r)
  <2>1. Owned(r)'
    BY <1>26 DEF Interrupt, Owned, Close, BeginRound, Setting, Round, TypeOK
  <2>2. Gathered(r)'
    BY <1>26 DEF Interrupt, Gathered, BeginRound, Taken, Unread, Image, Round, TypeOK
  <2>3. Mine
    BY <1>26 DEF Interrupt, Waiting, Owned, Close, BeginRound, Unread, Image, Round, TypeOK
  <2>4. Kin
    BY <1>26 DEF Interrupt, TypeOK
  <2> QED BY <2>1, <2>2, <2>3, <2>4
<1> QED BY <1>1, <1>2, <1>3, <1>4, <1>5, <1>6, <1>7, <1>8, <1>9, <1>10, <1>11, <1>12, <1>13, <1>14, <1>15, <1>16, <1>17, <1>18, <1>19, <1>20, <1>21, <1>22, <1>23, <1>24, <1>25, <1>26 DEF Step

THEOREM ProvenanceHolds == Spec => []Provenance
<1>1. Staged /\ Provenance /\ [Next]_vars => Provenance'
  <2> SUFFICES ASSUME Staged, Provenance, [Next]_vars PROVE Provenance'
    OBVIOUS
  <2>1. CASE UNCHANGED vars
    <3> USE <2>1 DEF vars, inputs, progress, dialogue, conclusion, hardware, stores
    <3>1. Settings' = Settings /\ Shots' = Shots /\ Attempts' = Attempts
      BY DEF Settings, Shots, Attempts
    <3>2. \A r \in Runs : Owned(r)'
      BY <3>1 DEF Provenance, Owned, Setting
    <3>3. \A r \in Runs : Gathered(r)'
      BY <3>1 DEF Provenance, Gathered, Taken, Unread, Image
    <3>4. \A r \in Runs : \A f \in frames'[r] : Theirs(r, f)'
      <4>1. \A r \in Runs : \A f : Theirs(r, f)' <=> Theirs(r, f)
        BY <3>1 DEF Theirs
      <4> QED BY <4>1 DEF Provenance
    <3>5. \A c \in Slots : Fresh(c)'
      BY DEF Provenance, Fresh, Waiting, Unread, Image
    <3> QED BY <3>2, <3>3, <3>4, <3>5 DEF Provenance
  <2>2. CASE Next
    BY <2>2, StepProvenance DEF Next
  <2> QED BY <2>1, <2>2
<1> QED BY <1>1, InitProvenance, Typing, PTL DEF Spec

(* Every frame was made by its own run from the last triggers of one        *)
(* attempt of its round, each under its own exposure, whatever failed       *)
(* before and whoever used the cameras (Capture.FramesAreTheirs).           *)
THEOREM FramesComeFromTheirRound == Spec => []FramesAreTheirs
<1>1. Provenance => FramesAreTheirs
  BY DEF Provenance, Theirs, FramesAreTheirs
<1> QED BY <1>1, ProvenanceHolds, PTL

(* No camera is triggered before the operator has typed the token of that   *)
(* round in that run (Capture.TriggeredAfterToken).                         *)
THEOREM TriggersFollowTokens == Spec => []TriggeredAfterToken
<1>1. Staged /\ Accounted /\ Provenance => TriggeredAfterToken
  <2> SUFFICES ASSUME Staged, Accounted, Provenance, NEW c \in Slots, NEW n \in 1 .. Len(queue[c])
               PROVE  queue[c][n].round \in typed[queue[c][n].run]
    BY DEF TriggeredAfterToken
  <2>1. queue[c] # <<>>
    BY DEF Staged, TypeOK
  <2>2. PICK r \in Runs : Waiting(r, c)
    BY <2>1 DEF Provenance, Fresh
  <2>3. queue[c][n] = Image(r, c) /\ pc[r] = "read"
    BY <2>2 DEF Waiting
  <2>4. confirmed[r] = at[r].round /\ at[r].round \in 1 .. Rounds /\ typed[r] = 1 .. confirmed[r]
    BY <2>3 DEF Staged, Stage, Round, TypeOK, Accounted, Settled, Account
  <2> QED BY <2>3, <2>4 DEF Image
<1> QED BY <1>1, Typing, Accounting, ProvenanceHolds, PTL

=============================================================================
