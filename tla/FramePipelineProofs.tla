------------------------- MODULE FramePipelineProofs -------------------------
(***************************************************************************)
(* Proofs about FramePipeline, for every set of sources of any kind, every *)
(* size of the two queues and any number of frames, switches and faults.   *)
(***************************************************************************)
EXTENDS FramePipeline, TLAPS

(* The frame in hand is the one read last, from the stream; it is given up  *)
(* or discarded for only by a camera, or at a shutdown.                     *)
InHand ==
    /\ loader \in {"start", "loop", "get"} => hand = 0
    /\ loader \in {"put", "discard"} => hand = Len(read) /\ read[hand] = stream
    /\ loader = "discard" => RealTime(stream)

Inv == TypeOK /\ InHand /\ FileFramesArrive

LEMMA InitInv == Init => Inv
<1> SUFFICES ASSUME Init PROVE Inv
  OBVIOUS
<1>1. TypeOK
  <2>1. /\ read \in Seq(Sources) /\ frames \in Seq(1..Len(read)) /\ preds \in Seq(1..Len(read))
        /\ Len(read) = 0 /\ Len(frames) = 0 /\ Len(preds) = 0
    BY DEF Init
  <2>2. MaxFrames \in Nat /\ FrameQueueSize \in Nat /\ PredictionQueueSize \in Nat
        /\ MaxSwitches \in Nat /\ MaxFaults \in Nat
    BY ConstantsAssumption
  <2>3. {wanted, served, stream} \subseteq Sources \cup {NoSource} /\ taken \subseteq 1..Len(read)
    BY DEF Init
  <2>4. 0 \in 0..Len(read) /\ switches \in 0..MaxSwitches /\ faults \in 0..MaxFaults
    BY <2>1, <2>2 DEF Init
  <2>5. Len(read) <= MaxFrames /\ Len(frames) <= FrameQueueSize /\ Len(preds) <= PredictionQueueSize
    BY <2>1, <2>2
  <2> QED BY <2>1, <2>3, <2>4, <2>5 DEF Init, TypeOK
<1>2. InHand /\ FileFramesArrive
  BY DEF Init, InHand, FileFramesArrive
<1> QED BY <1>1, <1>2 DEF Inv

(* The waiting frames, when the queue is put to or taken from. *)
LEMMA Queueing ==
    ASSUME NEW S, NEW q \in Seq(S), NEW e \in S
    PROVE  /\ Append(q, e) \in Seq(S) /\ Len(Append(q, e)) = Len(q) + 1
           /\ Range(Append(q, e)) = Range(q) \cup {e}
           /\ q # <<>> => /\ Tail(q) \in Seq(S) /\ Len(Tail(q)) = Len(q) - 1
                          /\ Head(q) \in S
                          /\ Range(q) = Range(Tail(q)) \cup {Head(q)}
<1>1. Append(q, e) \in Seq(S) /\ Len(Append(q, e)) = Len(q) + 1
  OBVIOUS
<1>2. Range(Append(q, e)) = Range(q) \cup {e}
  <2>1. \A i \in 1..Len(q) : Append(q, e)[i] = q[i]
    OBVIOUS
  <2>2. Append(q, e)[Len(q) + 1] = e
    OBVIOUS
  <2>3. \A i \in 1..Len(q) + 1 : i \in 1..Len(q) \/ i = Len(q) + 1
    OBVIOUS
  <2>4. DOMAIN Append(q, e) = 1..Len(q) + 1 /\ DOMAIN q = 1..Len(q)
    OBVIOUS
  <2>5. \A i \in 1..Len(q) + 1 : Append(q, e)[i] \in Range(q) \cup {e}
    BY <2>1, <2>2, <2>3, <2>4 DEF Range
  <2>6. \A i \in 1..Len(q) : q[i] \in Range(Append(q, e))
    <3> TAKE i \in 1..Len(q)
    <3>1. i \in 1..Len(q) + 1
      OBVIOUS
    <3> QED BY <2>1, <2>4, <3>1 DEF Range
  <2>7. e \in Range(Append(q, e))
    <3>1. Len(q) + 1 \in 1..Len(q) + 1
      OBVIOUS
    <3> QED BY <2>2, <2>4, <3>1 DEF Range
  <2>8. Range(Append(q, e)) \subseteq Range(q) \cup {e}
    BY <2>4, <2>5 DEF Range
  <2>9. Range(q) \subseteq Range(Append(q, e))
    BY <2>4, <2>6 DEF Range
  <2> QED BY <2>7, <2>8, <2>9
<1>3. ASSUME q # <<>>
      PROVE  /\ Tail(q) \in Seq(S) /\ Len(Tail(q)) = Len(q) - 1
             /\ Head(q) \in S
             /\ Range(q) = Range(Tail(q)) \cup {Head(q)}
  <2>1. Tail(q) \in Seq(S) /\ Len(Tail(q)) = Len(q) - 1 /\ Head(q) = q[1] /\ q[1] \in S
    BY <1>3
  <2>2. \A i \in 1..Len(q) - 1 : Tail(q)[i] = q[i + 1]
    BY <1>3
  <2>3. \A i \in 1..Len(q) : i = 1 \/ i - 1 \in 1..Len(q) - 1
    OBVIOUS
  <2>4. DOMAIN Tail(q) = 1..Len(q) - 1 /\ DOMAIN q = 1..Len(q) /\ 1 \in 1..Len(q)
    BY <1>3, <2>1
  <2>5. \A i \in 1..Len(q) : q[i] \in Range(Tail(q)) \cup {Head(q)}
    <3> TAKE i \in 1..Len(q)
    <3>1. CASE i = 1
      BY <2>1, <3>1
    <3>2. CASE i - 1 \in 1..Len(q) - 1
      <4>1. Tail(q)[i - 1] = q[i]
        BY <2>2, <3>2
      <4> QED BY <2>4, <3>2, <4>1 DEF Range
    <3> QED BY <2>3, <3>1, <3>2
  <2>6. \A i \in 1..Len(q) - 1 : Tail(q)[i] \in Range(q)
    BY <2>2, <2>4 DEF Range
  <2> QED BY <2>1, <2>4, <2>5, <2>6 DEF Range
<1> QED BY <1>1, <1>2, <1>3

LEMMA LoaderInv ==
    ASSUME Inv, Loader
    PROVE  Inv'
<1> USE ConstantsAssumption DEF Inv, streaming, loading, inferring, queues, dispatching, control, bounds
<1>1. CASE LoaderStarts
  <2>1. TypeOK'
    BY <1>1 DEF LoaderStarts, Faulty, TypeOK
  <2>2. InHand'
    BY <1>1 DEF LoaderStarts, Faulty, InHand
  <2>3. FileFramesArrive'
    BY <1>1 DEF LoaderStarts, Faulty, FileFramesArrive, Waits
  <2> QED BY <2>1, <2>2, <2>3
<1>2. CASE LoaderStops
  <2>1. TypeOK'
    BY <1>2 DEF LoaderStops, TypeOK
  <2>2. InHand'
    BY <1>2 DEF LoaderStops, InHand
  <2>3. FileFramesArrive'
    BY <1>2 DEF LoaderStops, FileFramesArrive, Waits
  <2> QED BY <2>1, <2>2, <2>3
<1>3. CASE ResetStream
  <2>1. TypeOK'
    <3>1. wanted \in Sources /\ wanted # NoSource
      BY <1>3 DEF ResetStream, TypeOK
    <3>2. CASE /\ stream' = wanted /\ served' = wanted /\ open' = TRUE
               /\ loader' = "get" /\ UNCHANGED bounds
      BY <1>3, <3>1, <3>2 DEF ResetStream, TypeOK
    <3>3. CASE open' = FALSE /\ Faulty /\ UNCHANGED <<served, stream, loader>>
      <4>1. faults' \in 0..MaxFaults /\ UNCHANGED switches
        BY <3>3 DEF Faulty, TypeOK
      <4>2. open' \in BOOLEAN /\ UNCHANGED <<wanted, served, stream, loader>>
        BY <1>3, <3>3 DEF ResetStream
      <4> QED BY <1>3, <4>1, <4>2 DEF ResetStream, TypeOK
    <3> QED BY <1>3, <3>2, <3>3 DEF ResetStream
  <2>2. InHand'
    BY <1>3 DEF ResetStream, Faulty, InHand
  <2>3. FileFramesArrive'
    BY <1>3 DEF ResetStream, Faulty, FileFramesArrive, Waits
  <2> QED BY <2>1, <2>2, <2>3
<1>4. CASE KeepStream
  <2>1. TypeOK'
    BY <1>4 DEF KeepStream, TypeOK
  <2>2. InHand'
    BY <1>4 DEF KeepStream, InHand
  <2>3. FileFramesArrive'
    BY <1>4 DEF KeepStream, FileFramesArrive, Waits
  <2> QED BY <2>1, <2>2, <2>3
<1>5. CASE GetFrame
  <2>1. TypeOK'
    BY <1>5 DEF GetFrame, TypeOK
  <2>2. InHand'
    BY <1>5 DEF GetFrame, InHand
  <2>3. FileFramesArrive'
    <3>1. /\ Len(read') = Len(read) + 1 /\ hand' = Len(read) + 1 /\ hand = 0
          /\ UNCHANGED <<frames, taken, stop>>
          /\ \A n \in 1..Len(read) : read'[n] = read[n]
      BY <1>5 DEF GetFrame, TypeOK, InHand
    <3> SUFFICES ASSUME NEW n \in 1..Len(read')
                 PROVE  \/ RealTime(read'[n]) \/ Waits(n)' \/ n \in taken' \/ stop'
                        \/ \E m \in n..Len(read') : RealTime(read'[m])
      BY DEF FileFramesArrive, RealTime
    <3>2. CASE n = Len(read) + 1
      BY <3>1, <3>2 DEF Waits
    <3>3. CASE n # Len(read) + 1
      <4>1. n \in 1..Len(read) /\ n # 0
        BY <3>1, <3>3 DEF TypeOK
      <4>2. CASE \E m \in n..Len(read) : RealTime(read[m])
        <5>1. PICK m \in n..Len(read) : RealTime(read[m])
          BY <4>2
        <5>2. m \in n..Len(read') /\ m \in 1..Len(read)
          BY <3>1, <4>1 DEF TypeOK
        <5> QED BY <3>1, <5>1, <5>2
      <4>3. CASE ~ \E m \in n..Len(read) : RealTime(read[m])
        BY <3>1, <4>1, <4>3 DEF FileFramesArrive, Waits
      <4> QED BY <4>2, <4>3
    <3> QED BY <3>2, <3>3
  <2> QED BY <2>1, <2>2, <2>3
<1>6. CASE GetNothing
  <2>1. TypeOK'
    BY <1>6 DEF GetNothing, TypeOK
  <2>2. InHand'
    BY <1>6 DEF GetNothing, InHand
  <2>3. FileFramesArrive'
    BY <1>6 DEF GetNothing, FileFramesArrive, Waits
  <2> QED BY <2>1, <2>2, <2>3
<1>7. CASE PutFrame
  <2>1. TypeOK'
    BY <1>7 DEF PutFrame, Leaves, TypeOK
  <2>2. InHand'
    BY <1>7 DEF PutFrame, Leaves, InHand
  <2>3. FileFramesArrive'
    <3>1. frames \in Seq(1..Len(read)) /\ hand \in 1..Len(read)
      BY <1>7 DEF PutFrame, TypeOK
    <3>2. Range(frames') = Range(frames) \cup {hand}
      BY <1>7, <3>1, Queueing DEF PutFrame
    <3> QED BY <1>7, <3>2 DEF PutFrame, FileFramesArrive, Waits
  <2> QED BY <2>1, <2>2, <2>3
<1>8. CASE PutTimesOut
  <2>1. TypeOK'
    BY <1>8 DEF PutTimesOut, TypeOK
  <2>2. InHand'
    BY <1>8 DEF PutTimesOut, InHand
  <2>3. FileFramesArrive'
    BY <1>8 DEF PutTimesOut, FileFramesArrive, Waits
  <2> QED BY <2>1, <2>2, <2>3
<1>9. CASE Discard
  <2>1. TypeOK'
    <3>1. frames \in Seq(1..Len(read)) /\ hand \in 1..Len(read)
          /\ Len(frames) \in Nat /\ Len(frames) <= FrameQueueSize
      BY <1>9 DEF Discard, TypeOK
    <3>2. frames' \in Seq(1..Len(read)) /\ Len(frames') <= FrameQueueSize
      <4>1. CASE frames # <<>> /\ frames' = Tail(frames)
        BY <3>1, <4>1, Queueing
      <4>2. CASE UNCHANGED frames
        BY <3>1, <4>2
      <4> QED BY <1>9, <4>1, <4>2 DEF Discard
    <3> QED BY <1>9, <3>2 DEF Discard, Leaves, TypeOK
  <2>2. InHand'
    BY <1>9 DEF Discard, Leaves, InHand
  <2>3. FileFramesArrive'
    <3>1. RealTime(read[Len(read)]) /\ UNCHANGED <<read, taken, stop>>
      BY <1>9 DEF Discard, InHand
    <3>2. \A n \in 1..Len(read) : Len(read) \in n..Len(read)
      BY DEF TypeOK
    <3> QED BY <3>1, <3>2 DEF FileFramesArrive, RealTime
  <2> QED BY <2>1, <2>2, <2>3
<1>10. CASE PutStops
  <2>1. TypeOK'
    BY <1>10 DEF PutStops, Leaves, TypeOK
  <2>2. InHand'
    BY <1>10 DEF PutStops, Leaves, InHand
  <2>3. FileFramesArrive'
    BY <1>10 DEF PutStops, Leaves, FileFramesArrive, Waits
  <2> QED BY <2>1, <2>2, <2>3
<1>11. CASE LoaderEnds
  <2>1. TypeOK'
    BY <1>11 DEF LoaderEnds, Torn, TypeOK
  <2>2. InHand'
    BY <1>11 DEF LoaderEnds, Torn, InHand
  <2>3. FileFramesArrive'
    BY <1>11 DEF LoaderEnds, Torn, FileFramesArrive, Waits
  <2> QED BY <2>1, <2>2, <2>3
<1> QED BY <1>1, <1>2, <1>3, <1>4, <1>5, <1>6, <1>7, <1>8, <1>9, <1>10, <1>11 DEF Loader

LEMMA InferenceInv ==
    ASSUME Inv, Inference \/ InferenceDies
    PROVE  Inv'
<1> USE ConstantsAssumption DEF Inv, streaming, loading, inferring, queues, dispatching, control, bounds
<1>1. CASE InferenceStops
  <2>1. TypeOK'
    BY <1>1 DEF InferenceStops, TypeOK
  <2>2. InHand'
    BY <1>1 DEF InferenceStops, InHand
  <2>3. FileFramesArrive'
    BY <1>1 DEF InferenceStops, FileFramesArrive, Waits
  <2> QED BY <2>1, <2>2, <2>3
<1>2. CASE TakeFrame
  <2>1. TypeOK'
    <3>1. frames \in Seq(1..Len(read)) /\ frames # <<>> /\ Len(frames) <= FrameQueueSize
      BY <1>2 DEF TakeFrame, TypeOK
    <3>2. /\ Tail(frames) \in Seq(1..Len(read)) /\ Len(Tail(frames)) <= FrameQueueSize
          /\ Head(frames) \in 1..Len(read)
      <4>1. Head(frames) \in 1..Len(read) /\ Tail(frames) \in Seq(1..Len(read))
            /\ Len(Tail(frames)) = Len(frames) - 1
        BY <3>1
      <4> QED BY <3>1, <4>1
    <3>3. frames' \in Seq(1..Len(read)) /\ Len(frames') <= FrameQueueSize
          /\ work' \in 1..Len(read) /\ taken' \subseteq 1..Len(read)
      BY <1>2, <3>2 DEF TakeFrame, TypeOK
    <3>4. work' \in 0..Len(read) /\ work' # 0
      BY <3>3
    <3>5. inference' = "have"
          /\ UNCHANGED <<wanted, served, stream, open, loader, hand, read, preds, dispatcher, shown,
                         stop, scheduler, switches, faults>>
      BY <1>2 DEF TakeFrame
    <3> QED BY <3>3, <3>4, <3>5 DEF TypeOK
  <2>2. InHand'
    BY <1>2 DEF TakeFrame, InHand
  <2>3. FileFramesArrive'
    <3>1. frames \in Seq(1..Len(read)) /\ frames # <<>> /\ Head(frames) \in 1..Len(read)
      BY <1>2 DEF TakeFrame, TypeOK
    <3>2. Range(frames) = Range(frames') \cup {Head(frames)}
      BY <1>2, <3>1, Queueing DEF TakeFrame
    <3> QED BY <1>2, <3>2 DEF TakeFrame, FileFramesArrive, Waits
  <2> QED BY <2>1, <2>2, <2>3
<1>3. CASE SkipFrame
  <2>1. TypeOK'
    BY <1>3 DEF SkipFrame, TypeOK
  <2>2. InHand'
    BY <1>3 DEF SkipFrame, InHand
  <2>3. FileFramesArrive'
    BY <1>3 DEF SkipFrame, FileFramesArrive, Waits
  <2> QED BY <2>1, <2>2, <2>3
<1>4. CASE PutResult
  <2>1. TypeOK'
    <3>1. preds \in Seq(1..Len(read)) /\ work \in 1..Len(read)
          /\ Len(preds) \in Nat /\ Len(preds) <= PredictionQueueSize
      BY <1>4 DEF PutResult, TypeOK
    <3>2. preds' \in Seq(1..Len(read)) /\ Len(preds') <= PredictionQueueSize
      <4>1. CASE Len(preds) < PredictionQueueSize
        <5>1. preds' = Append(preds, work) /\ Append(preds, work) \in Seq(1..Len(read))
              /\ Len(Append(preds, work)) = Len(preds) + 1
          BY <1>4, <3>1, <4>1 DEF PutResult
        <5> QED BY <3>1, <4>1, <5>1
      <4>2. CASE ~ Len(preds) < PredictionQueueSize
        BY <1>4, <3>1, <4>2 DEF PutResult
      <4> QED BY <4>1, <4>2
    <3> QED BY <1>4, <3>2 DEF PutResult, TypeOK
  <2>2. InHand'
    BY <1>4 DEF PutResult, InHand
  <2>3. FileFramesArrive'
    BY <1>4 DEF PutResult, FileFramesArrive, Waits
  <2> QED BY <2>1, <2>2, <2>3
<1>5. CASE InferenceEnds
  <2>1. TypeOK'
    BY <1>5 DEF InferenceEnds, Torn, TypeOK
  <2>2. InHand'
    BY <1>5 DEF InferenceEnds, Torn, InHand
  <2>3. FileFramesArrive'
    BY <1>5 DEF InferenceEnds, Torn, FileFramesArrive, Waits
  <2> QED BY <2>1, <2>2, <2>3
<1>6. CASE InferenceDies
  <2>1. TypeOK'
    BY <1>6 DEF InferenceDies, Torn, Faulty, TypeOK
  <2>2. InHand'
    BY <1>6 DEF InferenceDies, Torn, Faulty, InHand
  <2>3. FileFramesArrive'
    BY <1>6 DEF InferenceDies, Torn, Faulty, FileFramesArrive, Waits
  <2> QED BY <2>1, <2>2, <2>3
<1> QED BY <1>1, <1>2, <1>3, <1>4, <1>5, <1>6 DEF Inference

LEMMA DispatcherInv ==
    ASSUME Inv, Dispatcher
    PROVE  Inv'
<1> USE ConstantsAssumption DEF Inv, streaming, loading, inferring, queues, dispatching, control, bounds
<1>1. CASE DispatcherStarts
  <2>1. TypeOK'
    BY <1>1 DEF DispatcherStarts, DispatcherKeeps, Faulty, TypeOK
  <2>2. InHand'
    BY <1>1 DEF DispatcherStarts, DispatcherKeeps, Faulty, InHand
  <2>3. FileFramesArrive'
    BY <1>1 DEF DispatcherStarts, DispatcherKeeps, Faulty, FileFramesArrive, Waits
  <2> QED BY <2>1, <2>2, <2>3
<1>2. CASE DispatcherStops
  <2>1. TypeOK'
    BY <1>2 DEF DispatcherStops, DispatcherKeeps, TypeOK
  <2>2. InHand'
    BY <1>2 DEF DispatcherStops, DispatcherKeeps, InHand
  <2>3. FileFramesArrive'
    BY <1>2 DEF DispatcherStops, DispatcherKeeps, FileFramesArrive, Waits
  <2> QED BY <2>1, <2>2, <2>3
<1>3. CASE Dispatch
  <2>1. TypeOK'
    <3>1. /\ preds # <<>> /\ preds' = Tail(preds) /\ read' = read
          /\ preds \in Seq(1..Len(read))
      BY <1>3 DEF Dispatch, DispatcherKeeps, TypeOK
    <3>2. preds' \in Seq(1..Len(read')) /\ Len(preds') = Len(preds) - 1
      BY <3>1
    <3>3. dispatcher' \in {dispatcher, "ended"}
          /\ switches' \in 0..MaxSwitches /\ faults' \in 0..MaxFaults
      BY <1>3 DEF Dispatch, Faulty, TypeOK
    <3>4. Len(preds) \in Nat
      BY <3>1
    <3> QED BY <1>3, <3>2, <3>3, <3>4 DEF Dispatch, DispatcherKeeps, TypeOK
  <2>2. InHand'
    BY <1>3 DEF Dispatch, DispatcherKeeps, Faulty, InHand
  <2>3. FileFramesArrive'
    BY <1>3 DEF Dispatch, DispatcherKeeps, Faulty, FileFramesArrive, Waits
  <2> QED BY <2>1, <2>2, <2>3
<1> QED BY <1>1, <1>2, <1>3 DEF Dispatcher

LEMMA SchedulerInv ==
    ASSUME Inv, Join \/ Shutdown \/ ServerDies
    PROVE  Inv'
<1> USE ConstantsAssumption DEF Inv, streaming, loading, inferring, queues, dispatching, control, bounds
<1>1. CASE JoinThread
  <2>1. TypeOK'
    BY <1>1 DEF JoinThread, SchedulerKeeps, TypeOK
  <2>2. InHand'
    BY <1>1 DEF JoinThread, SchedulerKeeps, InHand
  <2>3. FileFramesArrive'
    BY <1>1 DEF JoinThread, SchedulerKeeps, FileFramesArrive, Waits
  <2> QED BY <2>1, <2>2, <2>3
<1>2. CASE JoinLoader
  <2>1. TypeOK'
    BY <1>2 DEF JoinLoader, SchedulerKeeps, Torn, TypeOK
  <2>2. InHand'
    BY <1>2 DEF JoinLoader, SchedulerKeeps, Torn, InHand
  <2>3. FileFramesArrive'
    BY <1>2 DEF JoinLoader, SchedulerKeeps, Torn, FileFramesArrive, Waits
  <2> QED BY <2>1, <2>2, <2>3
<1>3. CASE JoinInference
  <2>1. TypeOK'
    BY <1>3 DEF JoinInference, SchedulerKeeps, Torn, TypeOK
  <2>2. InHand'
    BY <1>3 DEF JoinInference, SchedulerKeeps, Torn, InHand
  <2>3. FileFramesArrive'
    BY <1>3 DEF JoinInference, SchedulerKeeps, Torn, FileFramesArrive, Waits
  <2> QED BY <2>1, <2>2, <2>3
<1>4. CASE ServerExits
  <2>1. TypeOK'
    BY <1>4 DEF ServerExits, SchedulerKeeps, TypeOK
  <2>2. InHand'
    BY <1>4 DEF ServerExits, SchedulerKeeps, InHand
  <2>3. FileFramesArrive'
    BY <1>4 DEF ServerExits, SchedulerKeeps, FileFramesArrive, Waits
  <2> QED BY <2>1, <2>2, <2>3
<1>5. CASE Shutdown
  <2>1. TypeOK'
    BY <1>5 DEF Shutdown, SchedulerKeeps, TypeOK
  <2>2. InHand'
    BY <1>5 DEF Shutdown, SchedulerKeeps, InHand
  <2>3. FileFramesArrive'
    BY <1>5 DEF Shutdown, SchedulerKeeps, FileFramesArrive, Waits
  <2> QED BY <2>1, <2>2, <2>3
<1>6. CASE ServerDies
  <2>1. TypeOK'
    BY <1>6 DEF ServerDies, SchedulerKeeps, TypeOK
  <2>2. InHand'
    BY <1>6 DEF ServerDies, SchedulerKeeps, InHand
  <2>3. FileFramesArrive'
    BY <1>6 DEF ServerDies, SchedulerKeeps, FileFramesArrive, Waits
  <2> QED BY <2>1, <2>2, <2>3
<1> QED BY <1>1, <1>2, <1>3, <1>4, <1>5, <1>6 DEF Join

LEMMA SwitchInv ==
    ASSUME Inv, NEW s \in Sources \cup {NoSource}, Switch(s)
    PROVE  Inv'
<1> USE ConstantsAssumption DEF Inv, Switch, loading, inferring, queues, dispatching, control
<1>1. TypeOK'
  BY DEF TypeOK
<1>2. InHand' /\ FileFramesArrive'
  BY DEF InHand, FileFramesArrive, Waits
<1> QED BY <1>1, <1>2

(* No step, of the loader, inference, the dispatcher, the scheduler or a    *)
(* switch of the source, leads out of the invariant.                        *)
THEOREM Invariance == Spec => []Inv
<1>1. Inv /\ [Next]_vars => Inv'
  <2> SUFFICES ASSUME Inv, [Next]_vars PROVE Inv'
    OBVIOUS
  <2>1. CASE UNCHANGED vars
    BY <2>1 DEF Inv, TypeOK, InHand, FileFramesArrive, Waits, vars, streaming, loading, inferring,
                queues, dispatching, control, bounds
  <2>2. CASE Next
    BY <2>2, LoaderInv, InferenceInv, DispatcherInv, SchedulerInv, SwitchInv DEF Next
  <2> QED BY <2>1, <2>2
<1> QED BY <1>1, InitInv, PTL DEF Spec

(* Every variable stays in its range and no queue exceeds its size, for any *)
(* sizes and numbers of frames (FramePipeline.TypeOK).                      *)
THEOREM Typing == Spec => []TypeOK
<1>1. Inv => TypeOK
  BY DEF Inv
<1> QED BY <1>1, Invariance, PTL

(* No frame of a file is lost before inference but to a camera read after   *)
(* it, or to a shutdown: for queues of any size, whatever timeouts, faults  *)
(* and changes of the source interleave (FramePipeline.FileFramesArrive).   *)
THEOREM FileFramesAreNotLost == Spec => []FileFramesArrive
<1>1. Inv => FileFramesArrive
  BY DEF Inv
<1> QED BY <1>1, Invariance, PTL

-----------------------------------------------------------------------------
(* The order of the frames. *)

Sorted(q)    == \A i, k \in 1..Len(q) : i < k => q[i] < q[k]
Before(S, T) == \A m \in S, n \in T : m < n

(* Each stage of the pipeline holds only frames read before those of the    *)
(* stages behind it, and read after what was shown.                         *)
Ordered ==
    /\ Sorted(preds) /\ Sorted(frames)
    /\ Before({shown}, InFlight)
    /\ Before(Range(preds), Held(work) \cup Range(frames) \cup Held(hand))
    /\ Before(Held(work), Range(frames) \cup Held(hand))
    /\ Before(Range(frames), Held(hand))
    /\ inference = "get" => work = 0

(* A sorted queue stays sorted when it is put to or taken from, and its     *)
(* head is the least of its elements.                                       *)
LEMMA SortedAppend ==
    ASSUME NEW q \in Seq(Nat), NEW e \in Nat, Sorted(q), \A n \in Range(q) : n < e
    PROVE  Sorted(Append(q, e))
<1>1. /\ Len(Append(q, e)) = Len(q) + 1 /\ Len(q) \in Nat
      /\ \A i \in 1..Len(q) : Append(q, e)[i] = q[i]
      /\ Append(q, e)[Len(q) + 1] = e
  OBVIOUS
<1>2. \A i \in 1..Len(q) : q[i] < e
  BY DEF Range
<1> SUFFICES ASSUME NEW i \in 1..Len(q) + 1, NEW k \in 1..Len(q) + 1, i < k
             PROVE  Append(q, e)[i] < Append(q, e)[k]
  BY <1>1 DEF Sorted
<1>3. i \in 1..Len(q)
  BY <1>1
<1>4. CASE k = Len(q) + 1
  BY <1>1, <1>2, <1>3, <1>4
<1>5. CASE k \in 1..Len(q)
  BY <1>1, <1>3, <1>5 DEF Sorted
<1> QED BY <1>1, <1>4, <1>5

LEMMA SortedTail ==
    ASSUME NEW q \in Seq(Nat), q # <<>>, Sorted(q)
    PROVE  /\ Sorted(Tail(q))
           /\ Head(q) \in Range(q)
           /\ Range(Tail(q)) = Range(q) \ {Head(q)}
           /\ \A n \in Range(Tail(q)) : Head(q) < n
<1>1. /\ Tail(q) \in Seq(Nat) /\ Len(Tail(q)) = Len(q) - 1 /\ Head(q) = q[1]
      /\ Len(q) \in Nat /\ Len(q) >= 1
      /\ \A i \in 1..Len(q) - 1 : Tail(q)[i] = q[i + 1]
      /\ DOMAIN Tail(q) = 1..Len(q) - 1 /\ DOMAIN q = 1..Len(q)
      /\ \A i \in 1..Len(q) : q[i] \in Nat
  OBVIOUS
<1>2. Sorted(Tail(q))
  BY <1>1 DEF Sorted
<1>3. Head(q) \in Range(q)
  BY <1>1 DEF Range
<1>4. \A i \in 1..Len(q) - 1 : Head(q) < Tail(q)[i]
  BY <1>1 DEF Sorted
<1>5. \A n \in Range(Tail(q)) : Head(q) < n /\ n \in Nat
  BY <1>1, <1>4 DEF Range
<1>6. Range(q) = Range(Tail(q)) \cup {Head(q)}
  BY Queueing
<1>7. Head(q) \in Nat
  BY <1>1
<1>8. Head(q) \notin Range(Tail(q))
  BY <1>5, <1>7
<1> QED BY <1>2, <1>3, <1>5, <1>6, <1>8

(* What is in flight has been read. *)
FlightIsRead ==
    /\ preds \in Seq(Nat) /\ frames \in Seq(Nat)
    /\ Len(read) \in Nat /\ shown \in Nat
    /\ Range(preds) \subseteq 1..Len(read) /\ Range(frames) \subseteq 1..Len(read)
    /\ Held(work) \subseteq 1..Len(read) /\ Held(hand) \subseteq 1..Len(read)
    /\ InFlight \subseteq 1..Len(read)

LEMMA FlightType == TypeOK => FlightIsRead
<1> SUFFICES ASSUME TypeOK PROVE FlightIsRead
  OBVIOUS
<1>1. Len(read) \in Nat /\ shown \in Nat
  BY DEF TypeOK
<1>2. ASSUME NEW q \in Seq(1..Len(read)) PROVE q \in Seq(Nat) /\ Range(q) \subseteq 1..Len(read)
  <2>1. 1..Len(read) \subseteq Nat
    OBVIOUS
  <2>2. DOMAIN q = 1..Len(q) /\ \A i \in 1..Len(q) : q[i] \in 1..Len(read)
    OBVIOUS
  <2> QED BY <2>1, <2>2 DEF Range
<1>3. Held(work) \subseteq 1..Len(read) /\ Held(hand) \subseteq 1..Len(read)
  BY <1>1 DEF TypeOK, Held
<1> QED BY <1>1, <1>2, <1>3 DEF TypeOK, InFlight, FlightIsRead

Mapped == [Fifo!Next]_<<Len(read), InFlight, shown>>

(* Most steps move no frame. *)
LEMMA NothingMoves ==
    ASSUME Ordered, UNCHANGED <<preds, work, frames, hand, read, shown>>,
           inference' = "get" => inference = "get"
    PROVE  Ordered' /\ Mapped
<1>1. InFlight' = InFlight /\ Len(read)' = Len(read)
  BY DEF InFlight, Held
<1> QED BY <1>1 DEF Ordered, Mapped, Held

LEMMA LoaderKeepsOrder ==
    ASSUME Inv, Ordered, Loader
    PROVE  Ordered' /\ Mapped
<1> USE DEF streaming, loading, inferring, queues, dispatching, control, bounds
<1>t. TypeOK /\ InHand
  BY DEF Inv
<1>f. FlightIsRead
  BY <1>t, FlightType
<1>1. CASE GetFrame
  <2>1. /\ Len(read') = Len(read) + 1 /\ hand = 0 /\ hand' = Len(read) + 1
        /\ UNCHANGED <<preds, work, frames, shown, inference>>
    BY <1>1, <1>t DEF GetFrame, TypeOK, InHand
  <2>2. Held(hand) = {} /\ Held(hand') = {Len(read) + 1}
    BY <1>f, <2>1 DEF Held, FlightIsRead
  <2>3. InFlight' = InFlight \cup {Len(read) + 1}
    BY <2>1, <2>2 DEF InFlight, Held
  <2>4. Before({shown}, {Len(read) + 1}) /\ Before(InFlight, {Len(read) + 1})
    BY <1>f, <1>t DEF Before, TypeOK, FlightIsRead
  <2>5. Ordered'
    <3>1. Before({shown}, InFlight)'
      BY <2>1, <2>3, <2>4 DEF Ordered, Before
    <3>2. Before(Range(preds), Held(work) \cup Range(frames) \cup Held(hand))'
      BY <2>1, <2>2, <2>4 DEF Ordered, Before, InFlight, Held
    <3>3. Before(Held(work), Range(frames) \cup Held(hand))'
      BY <2>1, <2>2, <2>4 DEF Ordered, Before, InFlight, Held
    <3>4. Before(Range(frames), Held(hand))'
      BY <2>1, <2>2, <2>4 DEF Ordered, Before, InFlight
    <3> QED BY <2>1, <3>1, <3>2, <3>3, <3>4 DEF Ordered
  <2>6. Fifo!Send
    BY <2>1, <2>3 DEF Fifo!Send
  <2> QED BY <2>5, <2>6 DEF Mapped, Fifo!Next
<1>2. CASE PutFrame
  <2>1. /\ frames' = Append(frames, hand) /\ hand' = 0 /\ hand \in 1..Len(read)
        /\ UNCHANGED <<preds, work, read, shown, inference>>
    BY <1>2, <1>t DEF PutFrame, Leaves, TypeOK
  <2>2. Range(frames') = Range(frames) \cup {hand} /\ Held(hand) = {hand} /\ Held(hand') = {}
    <3>1. frames \in Seq(Nat) /\ hand \in Nat /\ hand # 0
      BY <1>f, <2>1 DEF FlightIsRead
    <3>2. Range(frames') = Range(frames) \cup {hand}
      BY <2>1, <3>1, Queueing
    <3> QED BY <2>1, <3>1, <3>2 DEF Held
  <2>3. InFlight' = InFlight
    BY <2>1, <2>2 DEF InFlight, Held
  <2>4. Sorted(frames')
    <3>1. \A n \in Range(frames) : n < hand
      BY <2>2 DEF Ordered, Before
    <3> QED BY <1>f, <2>1, <3>1, SortedAppend DEF Ordered, FlightIsRead
  <2>5. Ordered'
    BY <2>1, <2>2, <2>3, <2>4 DEF Ordered, Before, Held
  <2> QED BY <2>1, <2>3, <2>5 DEF Mapped
<1>3. CASE Discard \/ PutStops
  <2>1. hand' = 0 /\ Held(hand') = {} /\ UNCHANGED <<preds, work, read, shown, inference>>
    BY <1>3 DEF Discard, PutStops, Leaves, Held
  <2>2. Range(frames') \subseteq Range(frames) /\ Sorted(frames')
    <3>1. CASE frames # <<>> /\ frames' = Tail(frames)
      BY <1>f, <3>1, SortedTail DEF Ordered, FlightIsRead
    <3>2. CASE UNCHANGED frames
      BY <3>2 DEF Ordered
    <3> QED BY <1>3, <3>1, <3>2 DEF Discard, PutStops
  <2>3. InFlight' \subseteq InFlight
    BY <2>1, <2>2 DEF InFlight, Held
  <2>4. Ordered'
    BY <2>1, <2>2, <2>3 DEF Ordered, Before, Held
  <2>5. Fifo!Lose
    BY <2>1, <2>3 DEF Fifo!Lose
  <2> QED BY <2>4, <2>5 DEF Mapped, Fifo!Next
<1>4. CASE \/ LoaderStarts \/ LoaderStops \/ ResetStream \/ KeepStream \/ GetNothing
           \/ PutTimesOut \/ LoaderEnds
  <2>1. UNCHANGED <<preds, work, frames, hand, read, shown>>
    BY <1>4 DEF LoaderStarts, LoaderStops, ResetStream, KeepStream, GetNothing, PutTimesOut, LoaderEnds
  <2>2. inference' = "get" => inference = "get"
    BY <1>4 DEF LoaderStarts, LoaderStops, ResetStream, KeepStream, GetNothing, PutTimesOut, LoaderEnds,
                Torn
  <2> QED BY <2>1, <2>2, NothingMoves
<1> QED BY <1>1, <1>2, <1>3, <1>4 DEF Loader

LEMMA InferenceKeepsOrder ==
    ASSUME Inv, Ordered, Inference \/ InferenceDies
    PROVE  Ordered' /\ Mapped
<1> USE DEF streaming, loading, inferring, queues, dispatching, control, bounds
<1>t. TypeOK
  BY DEF Inv
<1>f. FlightIsRead
  BY <1>t, FlightType
<1>1. CASE TakeFrame
  <2> DEFINE n == Head(frames)
  <2>1. /\ frames # <<>> /\ work = 0 /\ work' = n /\ frames' = Tail(frames) /\ inference' = "have"
        /\ UNCHANGED <<preds, hand, read, shown>>
    BY <1>1 DEF TakeFrame, Ordered
  <2>2. /\ Sorted(frames') /\ n \in Range(frames) /\ Range(frames') = Range(frames) \ {n}
        /\ Before({n}, Range(frames'))
    BY <1>f, <2>1, SortedTail DEF Ordered, Before, FlightIsRead
  <2> HIDE DEF n
  <2>3. Held(work) = {} /\ Held(work') = {n}
    BY <1>f, <2>1, <2>2 DEF Held, FlightIsRead
  <2>4. InFlight' = InFlight
    BY <2>1, <2>2, <2>3 DEF InFlight, Held
  <2>5. Ordered'
    <3>1. Held(hand') = Held(hand)
      BY <2>1
    <3>2. Held(work') \cup Range(frames') \subseteq Range(frames)
      BY <2>2, <2>3
    <3>3. Before(Range(preds), Held(work) \cup Range(frames) \cup Held(hand))'
      BY <2>1, <3>1, <3>2 DEF Ordered, Before
    <3>4. Before(Range(frames), Held(hand))
      BY DEF Ordered
    <3>5. Before(Held(work), Range(frames) \cup Held(hand))'
      BY <2>2, <2>3, <3>1, <3>4 DEF Before
    <3>6. Before(Range(frames), Held(hand))'
      BY <3>1, <3>2, <3>4 DEF Before
    <3>7. Before({shown}, InFlight)'
      BY <2>1, <2>4 DEF Ordered, Before
    <3> QED BY <2>1, <2>2, <3>3, <3>5, <3>6, <3>7 DEF Ordered
  <2> QED BY <2>1, <2>4, <2>5 DEF Mapped
<1>2. CASE PutResult /\ Len(preds) < PredictionQueueSize
  <2>1. /\ preds' = Append(preds, work) /\ work' = 0 /\ work \in 1..Len(read)
        /\ UNCHANGED <<frames, hand, read, shown>>
    BY <1>2, <1>t DEF PutResult, TypeOK
  <2>2. Range(preds') = Range(preds) \cup {work} /\ Held(work) = {work} /\ Held(work') = {}
    <3>1. preds \in Seq(Nat) /\ work \in Nat /\ work # 0
      BY <1>f, <2>1 DEF FlightIsRead
    <3>2. Range(preds') = Range(preds) \cup {work}
      BY <2>1, <3>1, Queueing
    <3> QED BY <2>1, <3>1, <3>2 DEF Held
  <2>3. InFlight' = InFlight
    BY <2>1, <2>2 DEF InFlight, Held
  <2>4. Sorted(preds')
    <3>1. \A n \in Range(preds) : n < work
      BY <2>2 DEF Ordered, Before
    <3> QED BY <1>f, <2>1, <3>1, SortedAppend DEF Ordered, FlightIsRead
  <2>5. Ordered'
    BY <2>1, <2>2, <2>3, <2>4 DEF Ordered, Before, Held
  <2> QED BY <2>1, <2>3, <2>5 DEF Mapped
<1>3. CASE (PutResult /\ ~(Len(preds) < PredictionQueueSize)) \/ SkipFrame \/ InferenceDies
  <2>1. work' = 0 /\ Held(work') = {} /\ UNCHANGED <<preds, frames, hand, read, shown>>
    BY <1>3 DEF PutResult, SkipFrame, InferenceDies, Held
  <2>2. InFlight' \subseteq InFlight
    BY <2>1 DEF InFlight, Held
  <2>3. Ordered'
    BY <2>1, <2>2 DEF Ordered, Before, Held
  <2>4. Fifo!Lose
    BY <2>1, <2>2 DEF Fifo!Lose
  <2> QED BY <2>3, <2>4 DEF Mapped, Fifo!Next
<1>4. CASE InferenceStops \/ InferenceEnds
  BY <1>4, NothingMoves DEF InferenceStops, InferenceEnds
<1> QED BY <1>1, <1>2, <1>3, <1>4 DEF Inference

LEMMA ServerKeepsOrder ==
    ASSUME Inv, Ordered,
           \/ Dispatcher \/ Join \/ Shutdown \/ ServerDies
           \/ \E s \in Sources \cup {NoSource} : Switch(s)
    PROVE  Ordered' /\ Mapped
<1> USE DEF streaming, loading, inferring, queues, dispatching, control, bounds
<1>t. TypeOK
  BY DEF Inv
<1>f. FlightIsRead
  BY <1>t, FlightType
<1>1. CASE Dispatch
  <2> DEFINE n == Head(preds)
  <2>1. /\ preds # <<>> /\ preds' = Tail(preds) /\ shown' \in {shown, n}
        /\ UNCHANGED <<frames, work, hand, read, inference>>
    BY <1>1 DEF Dispatch, DispatcherKeeps
  <2>2. /\ Sorted(preds') /\ n \in Range(preds) /\ Range(preds') = Range(preds) \ {n}
        /\ Before({n}, Range(preds'))
    BY <1>f, <2>1, SortedTail DEF Ordered, Before, FlightIsRead
  <2> HIDE DEF n
  <2>3. /\ n \notin Held(work) \cup Range(frames) \cup Held(hand)
        /\ Before({n}, Held(work) \cup Range(frames) \cup Held(hand))
    BY <1>f, <2>2 DEF Ordered, Before, FlightIsRead
  <2>4. InFlight' = InFlight \ {n} /\ n \in InFlight /\ Before({n}, InFlight')
    BY <2>1, <2>2, <2>3 DEF InFlight, Held, Before
  <2>5. Ordered'
    BY <2>1, <2>2, <2>3, <2>4 DEF Ordered, Before, Held
  <2>6. CASE shown' = shown
    <3>1. Fifo!Lose
      BY <2>1, <2>4, <2>6 DEF Fifo!Lose
    <3> QED BY <2>5, <3>1 DEF Mapped, Fifo!Next
  <2>7. CASE shown' = n
    <3>1. \A m \in InFlight : n <= m
      BY <1>f, <2>4 DEF Before, FlightIsRead
    <3>2. Fifo!Deliver
      BY <2>1, <2>4, <2>7, <3>1 DEF Fifo!Deliver
    <3> QED BY <2>5, <3>2 DEF Mapped, Fifo!Next
  <2> QED BY <2>1, <2>5, <2>6, <2>7
<1>2. CASE DispatcherStarts \/ DispatcherStops
  BY <1>2, NothingMoves DEF DispatcherStarts, DispatcherStops, DispatcherKeeps
<1>3. CASE Join \/ Shutdown \/ ServerDies
  <2>1. UNCHANGED <<preds, work, frames, hand, read, shown>>
    BY <1>3 DEF Join, JoinThread, JoinLoader, JoinInference, ServerExits, Shutdown, ServerDies,
                SchedulerKeeps
  <2>2. inference' = "get" => inference = "get"
    BY <1>3 DEF Join, JoinThread, JoinLoader, JoinInference, ServerExits, Shutdown, ServerDies, Torn
  <2> QED BY <2>1, <2>2, NothingMoves
<1>4. ASSUME NEW s \in Sources \cup {NoSource}, Switch(s) PROVE Ordered' /\ Mapped
  BY <1>4, NothingMoves DEF Switch
<1> QED BY <1>1, <1>2, <1>3, <1>4 DEF Dispatcher

LEMMA OrderStep == Inv /\ Ordered /\ [Next]_vars => Ordered' /\ Mapped
<1> SUFFICES ASSUME Inv, Ordered, [Next]_vars PROVE Ordered' /\ Mapped
  OBVIOUS
<1>1. CASE UNCHANGED vars
  BY <1>1, NothingMoves DEF vars, loading, inferring, queues, dispatching
<1>2. CASE Next
  BY <1>2, LoaderKeepsOrder, InferenceKeepsOrder, ServerKeepsOrder DEF Next
<1> QED BY <1>1, <1>2

LEMMA InitOrdered == Init => Ordered /\ Fifo!Init
<1> SUFFICES ASSUME Init PROVE Ordered /\ Fifo!Init
  OBVIOUS
<1>1. preds = <<>> /\ frames = <<>> /\ work = 0 /\ hand = 0 /\ shown = 0 /\ read = <<>>
  BY DEF Init
<1>2. Range(preds) = {} /\ Range(frames) = {} /\ Held(work) = {} /\ Held(hand) = {} /\ Len(read) = 0
  BY <1>1 DEF Range, Held
<1>3. Sorted(preds) /\ Sorted(frames)
  BY <1>1 DEF Sorted
<1>4. InFlight = {}
  BY <1>2 DEF InFlight
<1> QED BY <1>1, <1>2, <1>3, <1>4 DEF Ordered, Before, Fifo!Init

(* The pipeline is a lossy queue from the source to the viewers: frames are *)
(* shown in the order they were read, none twice, whatever timeouts,        *)
(* discards, deaths of processes, shutdowns and changes of the source       *)
(* interleave, for queues of any size (FramePipeline.ImplementsQueue).      *)
THEOREM Refinement == Spec => ImplementsQueue
<1>1. Mapped => [Fifo!Next]_(Fifo!vars)
  BY DEF Mapped, Fifo!vars
<1> QED BY <1>1, InitOrdered, OrderStep, Invariance, PTL DEF Spec, ImplementsQueue, Fifo!Spec

(* A frame that is shown was read after every frame shown before it.        *)
THEOREM ShownInOrder == Spec => [][shown' # shown => shown < shown']_vars
<1>1. Inv /\ Ordered /\ [Next]_vars => [shown' # shown => shown < shown']_vars
  <2> SUFFICES ASSUME Inv, Ordered, [Next]_vars, shown' # shown PROVE shown < shown'
    BY DEF vars
  <2>1. [Fifo!Next]_<<Len(read), InFlight, shown>>
    BY OrderStep DEF Mapped
  <2>2. Fifo!Deliver
    BY <2>1 DEF Fifo!Next, Fifo!Send, Fifo!Lose
  <2> QED BY <2>2 DEF Fifo!Deliver, Ordered, Before
<1> QED BY <1>1, InitOrdered, OrderStep, Invariance, PTL DEF Spec
=============================================================================
