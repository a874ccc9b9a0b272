----------------------- MODULE AtomicPublicationProofs -----------------------
(***************************************************************************)
(* Proofs about AtomicPublication, for every set of attempts and files and *)
(* every bound on changes of content and losses of power.                  *)
(***************************************************************************)
EXTENDS AtomicPublication, TLAPS

LEMMA InitType == Init => TypeOK
<1> SUFFICES ASSUME Init PROVE TypeOK
  OBVIOUS
<1>1. pc \in [Attempts -> PCs]
  BY DEF Init, PCs
<1>2. source \in [Files -> Content] /\ file \in [Attempts -> [Files -> Content]]
  BY DEF Init, Content
<1>3. index \in [Attempts -> [Files -> Content]]
  BY DEF Init, Content
<1>4. intact \in [Attempts -> SUBSET Metadata] /\ flushed \in [Attempts -> BOOLEAN]
  BY DEF Init
<1>5. current \in [Attempts -> Files \cup {NoOne}]
  BY DEF Init
<1>6. tampers \in 0..MaxTampers /\ powerLosses \in 0..MaxPowerLosses
  BY ConstantsAssumption DEF Init
<1> QED BY <1>1, <1>2, <1>3, <1>4, <1>5, <1>6 DEF Init, TypeOK

(* Every step keeps the types. *)
LEMMA NextType == TypeOK /\ [Next]_vars => TypeOK'
<1> SUFFICES ASSUME TypeOK, [Next]_vars PROVE TypeOK'
  OBVIOUS
<1> USE ConstantsAssumption DEF TypeOK, Goto, treeVars, faultVars, PCs,
        Holding, Building, Finished, Content
<1>1. ASSUME NEW a \in Attempts, Step(a) PROVE TypeOK'
  <2>1. CASE AcquireLock(a) BY <2>1 DEF AcquireLock
  <2>2. CASE LockHeld(a) BY <2>2 DEF LockHeld
  <2>3. CASE OpenStaging(a) BY <2>3 DEF OpenStaging
  <2>4. ASSUME NEW f \in Files, WriteBytes(a, f) PROVE TypeOK'
    <3>1. file' = [file EXCEPT ![a] = [file[a] EXCEPT ![f] = "approved"]]
      BY <2>4 DEF WriteBytes
    <3> QED BY <2>4, <3>1 DEF WriteBytes
  <2>5. ASSUME NEW f \in Files, HashSource(a, f) PROVE TypeOK'
    <3>1. pc' \in [Attempts -> PCs]
      BY <2>5 DEF HashSource
    <3>2. current' \in [Attempts -> Files \cup {NoOne}]
      BY <2>5 DEF HashSource
    <3> QED BY <2>5, <3>1, <3>2 DEF HashSource
  <2>6. CASE CopyBytes(a)
    <3> DEFINE x == current[a]
               tree == [file[a] EXCEPT ![x] = source[x]]
    <3>1. file' = [file EXCEPT ![a] = tree]
      BY <2>6 DEF CopyBytes
    <3>2. tree \in [Files -> Content]
      <4>1. CASE x \in Files BY <4>1
      <4>2. CASE x \notin Files
        <5>1. tree = file[a] BY <4>2
        <5>2. file[a] \in [Files -> Content] OBVIOUS
        <5> HIDE DEF tree
        <5> QED BY <5>1, <5>2
      <4> QED BY <4>1, <4>2
    <3> HIDE DEF tree
    <3> QED BY <2>6, <3>1, <3>2 DEF CopyBytes
  <2>7. CASE HashCopy(a)
    <3> DEFINE x == current[a]
               tree == [file[a] EXCEPT ![x] = "absent"]
    <3>1. file' = file \/ file' = [file EXCEPT ![a] = tree]
      BY <2>7 DEF HashCopy
    <3>2. tree \in [Files -> Content]
      BY DEF TypeOK
    <3>3. file' \in [Attempts -> [Files -> Content]]
      <4> HIDE DEF tree
      <4> QED BY <3>1, <3>2
    <3>4. pc' \in [Attempts -> PCs] /\ current' \in [Attempts -> Files \cup {NoOne}]
      BY <2>7 DEF HashCopy
    <3> QED BY <2>7, <3>3, <3>4 DEF HashCopy
  <2>8. CASE WriteIndex(a)
    <3>1. index' \in [Attempts -> [Files -> Content]]
      <4>1. index' = index \/ index' = [index EXCEPT ![a] = file[a]]
        BY <2>8 DEF WriteIndex
      <4>2. file[a] \in [Files -> Content]
        OBVIOUS
      <4> QED BY <4>1, <4>2
    <3>2. intact' \in [Attempts -> SUBSET Metadata]
      <4>1. intact' = intact \/ intact' = [intact EXCEPT ![a] = Metadata]
        BY <2>8 DEF WriteIndex
      <4> QED BY <4>1
    <3>3. pc' \in [Attempts -> PCs]
      BY <2>8 DEF WriteIndex
    <3> QED BY <2>8, <3>1, <3>2, <3>3 DEF WriteIndex
  <2>9. CASE Validate(a) BY <2>9 DEF Validate
  <2>10. CASE Seal(a) BY <2>10 DEF Seal
  <2>11. CASE Flush(a) BY <2>11 DEF Flush
  <2>12. CASE Rename(a) BY <2>12 DEF Rename
  <2>13. CASE ReleaseLock(a) BY <2>13 DEF ReleaseLock
  <2>14. CASE FlushParent(a) BY <2>14 DEF FlushParent
  <2>15. CASE FlushParentFails(a) BY <2>15 DEF FlushParentFails
  <2>16. CASE Abort(a) BY <2>16 DEF Abort
  <2> QED BY <1>1, <2>1, <2>2, <2>3, <2>4, <2>5, <2>6, <2>7, <2>8, <2>9,
             <2>10, <2>11, <2>12, <2>13, <2>14, <2>15, <2>16 DEF Step
<1>2. ASSUME NEW a \in Attempts, Fail(a) PROVE TypeOK'
  BY <1>2 DEF Fail
<1>3. CASE Environment
  <2>1. ASSUME NEW f \in Files, ChangeSource(f) PROVE TypeOK'
    BY <2>1 DEF ChangeSource
  <2>2. ASSUME NEW a \in Attempts, NEW f \in Files, NEW c \in {"other", "absent"},
               TamperFile(a, f, c)
        PROVE  TypeOK'
    BY <2>2 DEF TamperFile
  <2>3. ASSUME NEW a \in Attempts, NEW m \in Metadata, TamperMetadata(a, m)
        PROVE  TypeOK'
    BY <2>3 DEF TamperMetadata
  <2>4. CASE ForeignCreate BY <2>4 DEF ForeignCreate
  <2>5. ASSUME NEW a \in Attempts, Crash(a) PROVE TypeOK'
    BY <2>5 DEF Crash
  <2>6. CASE PowerLoss BY <2>6 DEF PowerLoss
  <2> QED BY <1>3, <2>1, <2>2, <2>3, <2>4, <2>5, <2>6 DEF Environment
<1>4. CASE UNCHANGED vars BY <1>4 DEF vars
<1> QED BY <1>1, <1>2, <1>3, <1>4 DEF Next

(* Type correctness of the publication protocol. *)
THEOREM Typing == Spec => []TypeOK
BY InitType, NextType, PTL DEF Spec

-----------------------------------------------------------------------------
(* The inductive invariant.                                                *)
(* LockInv: the lock names the one attempt that works under it.            *)
LockInv == \A a \in Attempts : pc[a] \in Holding <=> lock = a

(* BuildInv: what each check of finalize has established by its phase.  The *)
(* staged files may still change until they are sealed, so before that only *)
(* the index can be relied on.                                             *)
BuildInv ==
    \A a \in Attempts :
        /\ pc[a] \in {"indexed", "validated"} =>
               \A f \in Required : index[a][f] # "absent"
        /\ pc[a] = "validated" => \A f \in Checked : index[a][f] = "approved"
        /\ pc[a] \in {"sealed", "flushed"} => Whole(a)
        /\ pc[a] = "flushed" => flushed[a]

(* DestInv: the owner of the destination got there by the rename, with a    *)
(* whole tree that is on stable storage.                                   *)
DestInv ==
    \A a \in Attempts :
        dest = a => /\ pc[a] \in {"renamed", "unlocked", "ok", "unknown", "crashed"}
                    /\ Whole(a)
                    /\ flushed[a]

(* OwnerInv: who believes to have published is right, and an attempt that   *)
(* returned normally is past any loss of power.                            *)
OwnerInv ==
    /\ \A a \in Attempts :
          /\ pc[a] \in {"renamed", "unlocked", "ok"} => dest = a
          /\ pc[a] = "ok" => durable
    /\ dest = NoOne => ~durable

IInv == TypeOK /\ LockInv /\ BuildInv /\ DestInv /\ OwnerInv

(* The lock keeps naming its holder. *)
LEMMA LockStep == TypeOK /\ LockInv /\ [Next]_vars => LockInv'
<1> SUFFICES ASSUME TypeOK /\ LockInv, [Next]_vars PROVE LockInv'
  OBVIOUS
<1> USE ConstantsAssumption DEF TypeOK, LockInv, Goto, treeVars, faultVars,
        Holding, Building, Finished, PCs
<1>1. ASSUME NEW a \in Attempts, Step(a) PROVE LockInv'
  <2>1. CASE AcquireLock(a)
    BY <2>1 DEF AcquireLock
  <2>2. CASE LockHeld(a)
    BY <2>2 DEF LockHeld
  <2>3. CASE OpenStaging(a)
    BY <2>3 DEF OpenStaging
  <2>4. ASSUME NEW f \in Files, WriteBytes(a, f) PROVE LockInv'
    BY <2>4 DEF WriteBytes
  <2>5. ASSUME NEW f \in Files, HashSource(a, f) PROVE LockInv'
    BY <2>5 DEF HashSource
  <2>6. CASE CopyBytes(a)
    BY <2>6 DEF CopyBytes
  <2>7. CASE HashCopy(a)
    BY <2>7 DEF HashCopy
  <2>8. CASE WriteIndex(a)
    BY <2>8 DEF WriteIndex
  <2>9. CASE Validate(a)
    BY <2>9 DEF Validate
  <2>10. CASE Seal(a)
    BY <2>10 DEF Seal
  <2>11. CASE Flush(a)
    BY <2>11 DEF Flush
  <2>12. CASE Rename(a)
    BY <2>12 DEF Rename
  <2>13. CASE ReleaseLock(a)
    BY <2>13 DEF ReleaseLock
  <2>14. CASE FlushParent(a)
    BY <2>14 DEF FlushParent
  <2>15. CASE FlushParentFails(a)
    BY <2>15 DEF FlushParentFails
  <2>16. CASE Abort(a)
    BY <2>16 DEF Abort
  <2> QED BY <1>1, <2>1, <2>2, <2>3, <2>4, <2>5, <2>6, <2>7, <2>8,
             <2>9, <2>10, <2>11, <2>12, <2>13, <2>14, <2>15, <2>16 DEF Step
<1>2. ASSUME NEW a \in Attempts, Fail(a) PROVE LockInv'
  BY <1>2 DEF Fail
<1>3. CASE Environment
  <2>1. ASSUME NEW f \in Files, ChangeSource(f)
        PROVE  LockInv'
    BY <2>1 DEF ChangeSource
  <2>2. ASSUME NEW a \in Attempts, NEW f \in Files, NEW c \in {"other", "absent"},
               TamperFile(a, f, c)
        PROVE  LockInv'
    BY <2>2 DEF TamperFile
  <2>3. ASSUME NEW a \in Attempts, NEW m \in Metadata, TamperMetadata(a, m)
        PROVE  LockInv'
    BY <2>3 DEF TamperMetadata
  <2>4. CASE ForeignCreate
    BY <2>4 DEF ForeignCreate
  <2>5. ASSUME NEW a \in Attempts, Crash(a)
        PROVE  LockInv'
    BY <2>5 DEF Crash
  <2>6. CASE PowerLoss
    BY <2>6 DEF PowerLoss
  <2> QED BY <1>3, <2>1, <2>2, <2>3, <2>4, <2>5, <2>6 DEF Environment
<1>4. CASE UNCHANGED vars BY <1>4 DEF vars
<1> QED BY <1>1, <1>2, <1>3, <1>4 DEF Next

(* The checks of finalize keep what they established. *)
LEMMA BuildStep == TypeOK /\ BuildInv /\ [Next]_vars => BuildInv'
<1> SUFFICES ASSUME TypeOK /\ BuildInv, [Next]_vars PROVE BuildInv'
  OBVIOUS
<1> USE ConstantsAssumption DEF TypeOK, BuildInv, Whole, Goto, treeVars,
        faultVars, Holding, Building, Writable
<1>1. ASSUME NEW a \in Attempts, Step(a) PROVE BuildInv'
  <2>1. CASE AcquireLock(a)
    BY <2>1 DEF AcquireLock, MatchesIndex, Unwritten
  <2>2. CASE LockHeld(a)
    BY <2>2 DEF LockHeld, MatchesIndex, Unwritten
  <2>3. CASE OpenStaging(a)
    BY <2>3 DEF OpenStaging, MatchesIndex, Unwritten
  <2>4. ASSUME NEW f \in Files, WriteBytes(a, f) PROVE BuildInv'
    BY <2>4 DEF WriteBytes, MatchesIndex, Unwritten
  <2>5. ASSUME NEW f \in Files, HashSource(a, f) PROVE BuildInv'
    BY <2>5 DEF HashSource, MatchesIndex, Unwritten
  <2>6. CASE CopyBytes(a)
    BY <2>6 DEF CopyBytes, MatchesIndex, Unwritten
  <2>7. CASE HashCopy(a)
    BY <2>7 DEF HashCopy, MatchesIndex, Unwritten
  <2>8. CASE WriteIndex(a)
    BY <2>8 DEF WriteIndex, MatchesIndex, Unwritten
  <2>9. CASE Validate(a)
    BY <2>9 DEF Validate, MatchesIndex, Unwritten
  <2>10. CASE Seal(a)
    BY <2>10 DEF Seal, MatchesIndex, Unwritten
  <2>11. CASE Flush(a)
    BY <2>11 DEF Flush, MatchesIndex, Unwritten
  <2>12. CASE Rename(a)
    BY <2>12 DEF Rename, MatchesIndex, Unwritten
  <2>13. CASE ReleaseLock(a)
    BY <2>13 DEF ReleaseLock, MatchesIndex, Unwritten
  <2>14. CASE FlushParent(a)
    BY <2>14 DEF FlushParent, MatchesIndex, Unwritten
  <2>15. CASE FlushParentFails(a)
    BY <2>15 DEF FlushParentFails, MatchesIndex, Unwritten
  <2>16. CASE Abort(a)
    BY <2>16 DEF Abort, MatchesIndex, Unwritten
  <2> QED BY <1>1, <2>1, <2>2, <2>3, <2>4, <2>5, <2>6, <2>7, <2>8,
             <2>9, <2>10, <2>11, <2>12, <2>13, <2>14, <2>15, <2>16 DEF Step
<1>2. ASSUME NEW a \in Attempts, Fail(a) PROVE BuildInv'
  BY <1>2 DEF Fail, MatchesIndex, Unwritten
<1>3. CASE Environment
  <2>1. ASSUME NEW f \in Files, ChangeSource(f)
        PROVE  BuildInv'
    BY <2>1 DEF ChangeSource, MatchesIndex, Unwritten
  <2>2. ASSUME NEW a \in Attempts, NEW f \in Files, NEW c \in {"other", "absent"},
               TamperFile(a, f, c)
        PROVE  BuildInv'
    BY <2>2 DEF TamperFile, MatchesIndex, Unwritten
  <2>3. ASSUME NEW a \in Attempts, NEW m \in Metadata, TamperMetadata(a, m)
        PROVE  BuildInv'
    BY <2>3 DEF TamperMetadata, MatchesIndex, Unwritten
  <2>4. CASE ForeignCreate
    BY <2>4 DEF ForeignCreate, MatchesIndex, Unwritten
  <2>5. ASSUME NEW a \in Attempts, Crash(a)
        PROVE  BuildInv'
    BY <2>5 DEF Crash, MatchesIndex, Unwritten
  <2>6. CASE PowerLoss
    BY <2>6 DEF PowerLoss, MatchesIndex, Unwritten
  <2> QED BY <1>3, <2>1, <2>2, <2>3, <2>4, <2>5, <2>6 DEF Environment
<1>4. CASE UNCHANGED vars BY <1>4 DEF vars, MatchesIndex, Unwritten
<1> QED BY <1>1, <1>2, <1>3, <1>4 DEF Next

(* The destination keeps its whole tree. *)
LEMMA DestStep == IInv /\ [Next]_vars => DestInv'
<1> SUFFICES ASSUME IInv, [Next]_vars PROVE DestInv'
  OBVIOUS
<1> USE ConstantsAssumption DEF IInv, TypeOK, DestInv, Goto, treeVars, faultVars,
        Holding, Building, Writable
<1>1. ASSUME NEW a \in Attempts, Step(a) PROVE DestInv'
  <2>1. CASE AcquireLock(a)
    BY <2>1 DEF AcquireLock, Whole, MatchesIndex, BuildInv
  <2>2. CASE LockHeld(a)
    BY <2>2 DEF LockHeld, Whole, MatchesIndex, BuildInv
  <2>3. CASE OpenStaging(a)
    BY <2>3 DEF OpenStaging, Whole, MatchesIndex, BuildInv
  <2>4. ASSUME NEW f \in Files, WriteBytes(a, f) PROVE DestInv'
    BY <2>4 DEF WriteBytes, Whole, MatchesIndex, BuildInv
  <2>5. ASSUME NEW f \in Files, HashSource(a, f) PROVE DestInv'
    BY <2>5 DEF HashSource, Whole, MatchesIndex, BuildInv
  <2>6. CASE CopyBytes(a)
    BY <2>6 DEF CopyBytes, Whole, MatchesIndex, BuildInv
  <2>7. CASE HashCopy(a)
    BY <2>7 DEF HashCopy, Whole, MatchesIndex, BuildInv
  <2>8. CASE WriteIndex(a)
    BY <2>8 DEF WriteIndex, Whole, MatchesIndex, BuildInv
  <2>9. CASE Validate(a)
    BY <2>9 DEF Validate, Whole, MatchesIndex, BuildInv
  <2>10. CASE Seal(a)
    BY <2>10 DEF Seal, Whole, MatchesIndex, BuildInv
  <2>11. CASE Flush(a)
    BY <2>11 DEF Flush, Whole, MatchesIndex, BuildInv
  <2>12. CASE Rename(a)
    BY <2>12 DEF Rename, Whole, MatchesIndex, BuildInv
  <2>13. CASE ReleaseLock(a)
    BY <2>13 DEF ReleaseLock, Whole, MatchesIndex, BuildInv
  <2>14. CASE FlushParent(a)
    BY <2>14 DEF FlushParent, Whole, MatchesIndex, BuildInv
  <2>15. CASE FlushParentFails(a)
    BY <2>15 DEF FlushParentFails, Whole, MatchesIndex, BuildInv
  <2>16. CASE Abort(a)
    BY <2>16 DEF Abort, Whole, MatchesIndex, BuildInv
  <2> QED BY <1>1, <2>1, <2>2, <2>3, <2>4, <2>5, <2>6, <2>7, <2>8,
             <2>9, <2>10, <2>11, <2>12, <2>13, <2>14, <2>15, <2>16 DEF Step
<1>2. ASSUME NEW a \in Attempts, Fail(a) PROVE DestInv'
  BY <1>2 DEF Fail, Whole, MatchesIndex, BuildInv
<1>3. CASE Environment
  <2>1. ASSUME NEW f \in Files, ChangeSource(f)
        PROVE  DestInv'
    BY <2>1 DEF ChangeSource, Whole, MatchesIndex, BuildInv
  <2>2. ASSUME NEW a \in Attempts, NEW f \in Files, NEW c \in {"other", "absent"},
               TamperFile(a, f, c)
        PROVE  DestInv'
    BY <2>2 DEF TamperFile, Whole, MatchesIndex, BuildInv
  <2>3. ASSUME NEW a \in Attempts, NEW m \in Metadata, TamperMetadata(a, m)
        PROVE  DestInv'
    BY <2>3 DEF TamperMetadata, Whole, MatchesIndex, BuildInv
  <2>4. CASE ForeignCreate
    BY <2>4 DEF ForeignCreate, Whole, MatchesIndex, BuildInv
  <2>5. ASSUME NEW a \in Attempts, Crash(a)
        PROVE  DestInv'
    BY <2>5 DEF Crash, Whole, MatchesIndex, BuildInv
  <2>6. CASE PowerLoss
    BY <2>6 DEF PowerLoss, Whole, MatchesIndex, BuildInv
  <2> QED BY <1>3, <2>1, <2>2, <2>3, <2>4, <2>5, <2>6 DEF Environment
<1>4. CASE UNCHANGED vars BY <1>4 DEF vars, Whole, MatchesIndex, BuildInv
<1> QED BY <1>1, <1>2, <1>3, <1>4 DEF Next

(* Who believes to own the destination keeps owning it. *)
LEMMA OwnerStep == IInv /\ [Next]_vars => OwnerInv'
<1> SUFFICES ASSUME IInv, [Next]_vars PROVE OwnerInv'
  OBVIOUS
<1> USE ConstantsAssumption DEF IInv, TypeOK, OwnerInv, Goto, treeVars, faultVars,
        Holding, Building, LockInv
<1>1. ASSUME NEW a \in Attempts, Step(a) PROVE OwnerInv'
  <2>1. CASE AcquireLock(a)
    BY <2>1 DEF AcquireLock
  <2>2. CASE LockHeld(a)
    BY <2>2 DEF LockHeld
  <2>3. CASE OpenStaging(a)
    BY <2>3 DEF OpenStaging
  <2>4. ASSUME NEW f \in Files, WriteBytes(a, f) PROVE OwnerInv'
    BY <2>4 DEF WriteBytes
  <2>5. ASSUME NEW f \in Files, HashSource(a, f) PROVE OwnerInv'
    BY <2>5 DEF HashSource
  <2>6. CASE CopyBytes(a)
    BY <2>6 DEF CopyBytes
  <2>7. CASE HashCopy(a)
    BY <2>7 DEF HashCopy
  <2>8. CASE WriteIndex(a)
    BY <2>8 DEF WriteIndex
  <2>9. CASE Validate(a)
    BY <2>9 DEF Validate
  <2>10. CASE Seal(a)
    BY <2>10 DEF Seal
  <2>11. CASE Flush(a)
    BY <2>11 DEF Flush
  <2>12. CASE Rename(a)
    BY <2>12 DEF Rename
  <2>13. CASE ReleaseLock(a)
    BY <2>13 DEF ReleaseLock
  <2>14. CASE FlushParent(a)
    BY <2>14 DEF FlushParent
  <2>15. CASE FlushParentFails(a)
    BY <2>15 DEF FlushParentFails
  <2>16. CASE Abort(a)
    BY <2>16 DEF Abort
  <2> QED BY <1>1, <2>1, <2>2, <2>3, <2>4, <2>5, <2>6, <2>7, <2>8,
             <2>9, <2>10, <2>11, <2>12, <2>13, <2>14, <2>15, <2>16 DEF Step
<1>2. ASSUME NEW a \in Attempts, Fail(a) PROVE OwnerInv'
  BY <1>2 DEF Fail
<1>3. CASE Environment
  <2>1. ASSUME NEW f \in Files, ChangeSource(f)
        PROVE  OwnerInv'
    BY <2>1 DEF ChangeSource
  <2>2. ASSUME NEW a \in Attempts, NEW f \in Files, NEW c \in {"other", "absent"},
               TamperFile(a, f, c)
        PROVE  OwnerInv'
    BY <2>2 DEF TamperFile
  <2>3. ASSUME NEW a \in Attempts, NEW m \in Metadata, TamperMetadata(a, m)
        PROVE  OwnerInv'
    BY <2>3 DEF TamperMetadata
  <2>4. CASE ForeignCreate
    BY <2>4 DEF ForeignCreate
  <2>5. ASSUME NEW a \in Attempts, Crash(a)
        PROVE  OwnerInv'
    BY <2>5 DEF Crash
  <2>6. CASE PowerLoss
    BY <2>6 DEF PowerLoss
  <2> QED BY <1>3, <2>1, <2>2, <2>3, <2>4, <2>5, <2>6 DEF Environment
<1>4. CASE UNCHANGED vars BY <1>4 DEF vars
<1> QED BY <1>1, <1>2, <1>3, <1>4 DEF Next

(* The invariant holds in every reachable state. *)
THEOREM Invariance == Spec => []IInv
<1>1. Init => IInv
  BY InitType, ConstantsAssumption DEF Init, IInv, LockInv, BuildInv, DestInv,
     OwnerInv, Holding, Building
<1>2. IInv /\ [Next]_vars => IInv'
  BY NextType, LockStep, BuildStep, DestStep, OwnerStep DEF IInv
<1> QED BY <1>1, <1>2, PTL DEF Spec

-----------------------------------------------------------------------------
(* At most one attempt is between the lock and its release. *)
THEOREM MutualExclusion == Spec => []OneWriter
<1>1. IInv => OneWriter
  BY DEF IInv, LockInv, OneWriter
<1> QED BY <1>1, Invariance, PTL

(* No failure, crash or loss of power leaves the id locked by nobody. *)
THEOREM LiveOwner == Spec => []LockHasLiveOwner
<1>1. IInv => LockHasLiveOwner
  BY ConstantsAssumption DEF IInv, TypeOK, LockInv, LockHasLiveOwner
<1> QED BY <1>1, Invariance, PTL

(* A visible publication is whole. *)
THEOREM Wholeness == Spec => []VisibleIsWhole
<1>1. IInv => VisibleIsWhole
  BY DEF IInv, DestInv, VisibleIsWhole
<1> QED BY <1>1, Invariance, PTL

(* finalize returns only what no loss of power can undo. *)
THEOREM Durability == Spec => []SuccessIsDurable
<1>1. IInv => SuccessIsDurable
  BY DEF IInv, OwnerInv, SuccessIsDurable
<1> QED BY <1>1, Invariance, PTL

(* A failed attempt left nothing visible. *)
THEOREM CleanFailure == Spec => []FailureIsInvisible
<1>1. IInv => FailureIsInvisible
  BY DEF IInv, DestInv, FailureIsInvisible
<1> QED BY <1>1, Invariance, PTL

(* Nothing replaces a publication: the destination changes owner only from   *)
(* nobody, and is emptied only by a loss of power that undoes a rename no    *)
(* caller was told had succeeded.                                           *)
NeverReplaced ==
    [][dest' # dest => \/ dest = NoOne
                       \/ /\ dest' = NoOne
                          /\ powerLosses' > powerLosses
                          /\ \A a \in Attempts : pc[a] # "ok"]_vars

(* A publication is never replaced, and only a loss of power no caller was   *)
(* misled about removes one.                                               *)
THEOREM NoReplacement == Spec => NeverReplaced
<1> DEFINE Keeps == dest' # dest => \/ dest = NoOne
                                   \/ /\ dest' = NoOne
                                      /\ powerLosses' > powerLosses
                                      /\ \A a \in Attempts : pc[a] # "ok"
<1>1. IInv /\ [Next]_vars => [Keeps]_vars
  <2> SUFFICES ASSUME IInv, Next PROVE Keeps
    BY DEF vars
  <2>1. CASE dest' = dest
    BY <2>1
  <2>2. ASSUME NEW a \in Attempts, Step(a) \/ Fail(a) PROVE Keeps
    BY <2>2 DEF Step, Fail, AcquireLock, LockHeld, OpenStaging, WriteBytes,
       HashSource, CopyBytes, HashCopy, WriteIndex, Validate, Seal, Flush,
       Rename, ReleaseLock, FlushParent, FlushParentFails, Abort
  <2>3. CASE Environment
    <3>1. CASE PowerLoss
      <4>1. powerLosses \in Nat /\ powerLosses' = powerLosses + 1
        BY <3>1 DEF PowerLoss, IInv, TypeOK
      <4>2. dest' # dest => dest' = NoOne /\ ~durable
        BY <3>1 DEF PowerLoss
      <4>3. ~durable => \A a \in Attempts : pc[a] # "ok"
        BY DEF IInv, OwnerInv
      <4> QED BY <4>1, <4>2, <4>3
    <3>2. CASE ~PowerLoss
      BY <2>3, <3>2 DEF Environment, ChangeSource, TamperFile, TamperMetadata,
         ForeignCreate, Crash
    <3> QED BY <3>1, <3>2
  <2> QED BY <2>2, <2>3 DEF Next
<1> QED BY <1>1, Invariance, PTL DEF Spec, NeverReplaced

(* Nothing of a visible tree changes: only a tree that is being built or is  *)
(* not yet flushed does, and the visible one is past both.                   *)
THEOREM Immutability == Spec => SealedForGood
<1> DEFINE Tree(a) == <<file[a], index[a], intact[a]>>
           Sealed == \A a \in Attempts : dest = a /\ dest' = a => UNCHANGED Tree(a)
<1>1. IInv /\ [Next]_vars => [Sealed]_vars
  <2> SUFFICES ASSUME IInv, Next, NEW a \in Attempts, dest = a, dest' = a
               PROVE  UNCHANGED Tree(a)
    BY DEF vars
  <2>1. pc[a] \in {"renamed", "unlocked", "ok", "unknown", "crashed"} /\ flushed[a]
    BY DEF IInv, DestInv
  <2>2. ASSUME NEW b \in Attempts, Step(b) \/ Fail(b) PROVE UNCHANGED Tree(a)
    <3>1. \/ UNCHANGED <<file, index, intact>>
          \/ b # a /\ UNCHANGED Tree(a)
      BY <2>1, <2>2 DEF Step, Fail, AcquireLock, LockHeld, OpenStaging, WriteBytes,
         HashSource, CopyBytes, HashCopy, WriteIndex, Validate, Seal, Flush,
         Rename, ReleaseLock, FlushParent, FlushParentFails, Abort, treeVars, IInv, TypeOK
    <3> QED BY <3>1
  <2>3. CASE Environment
    <3>1. CASE PowerLoss
      BY <2>1, <3>1 DEF PowerLoss, IInv, TypeOK
    <3>2. CASE ~PowerLoss
      BY <2>1, <2>3, <3>2 DEF Environment, ChangeSource, TamperFile, TamperMetadata, Writable,
         ForeignCreate, Crash, treeVars, IInv, TypeOK
    <3> QED BY <3>1, <3>2
  <2> QED BY <2>2, <2>3 DEF Next
<1>2. Spec => [][Sealed]_vars
  BY <1>1, Invariance, PTL DEF Spec
<1> QED BY <1>2 DEF SealedForGood

-----------------------------------------------------------------------------
(* The refinement.  One step of the protocol is a step of the promise or     *)
(* leaves its owner, its settlement and its answers alone.                  *)
(* What an attempt has been told depends on its phase only.                 *)
LEMMA AnswerFrame ==
    ASSUME TypeOK, NEW a \in Attempts, NEW phase, pc' = [pc EXCEPT ![a] = phase],
           phase \notin {"ok", "unknown", "failed"},
           pc[a] \notin {"ok", "unknown", "failed"}
    PROVE  [b \in Attempts |-> Answer(b)]' = [b \in Attempts |-> Answer(b)]
<1>1. \A b \in Attempts : Answer(b)' = Answer(b)
  BY DEF Answer, TypeOK
<1> QED BY <1>1

LEMMA AnswerGiven ==
    ASSUME TypeOK, NEW a \in Attempts, NEW phase, pc' = [pc EXCEPT ![a] = phase],
           NEW word, pc[a] \notin {"ok", "unknown", "failed"},
           \/ phase = "ok" /\ word = "published"
           \/ phase = "unknown" /\ word = "unknown"
           \/ phase = "failed" /\ word = "refused"
    PROVE  /\ [b \in Attempts |-> Answer(b)][a] = "pending"
           /\ [b \in Attempts |-> Answer(b)]'
                  = [[b \in Attempts |-> Answer(b)] EXCEPT ![a] = word]
<1>1. \A b \in Attempts : Answer(b)' = IF b = a THEN word ELSE Answer(b)
  BY DEF Answer, TypeOK
<1>2. Answer(a) = "pending"
  BY DEF Answer
<1> QED BY <1>1, <1>2

(* The steps that change neither the destination nor an answer. *)
Quiet(a) ==
    \/ AcquireLock(a) \/ OpenStaging(a)
    \/ \E f \in Files : WriteBytes(a, f) \/ HashSource(a, f)
    \/ CopyBytes(a) \/ HashCopy(a) \/ WriteIndex(a) \/ Validate(a)
    \/ Seal(a) \/ Flush(a) \/ ReleaseLock(a) \/ Fail(a)

answers == [a \in Attempts |-> Answer(a)]

LEMMA QuietStep ==
    ASSUME IInv, NEW a \in Attempts, Quiet(a)
    PROVE  UNCHANGED <<dest, durable, answers>>
<1>1. UNCHANGED <<dest, durable>>
  BY DEF Quiet, AcquireLock, OpenStaging, WriteBytes, HashSource, CopyBytes,
     HashCopy, WriteIndex, Validate, Seal, Flush, ReleaseLock, Fail
<1>2. \/ pc' = pc
      \/ /\ pc[a] \notin {"ok", "unknown", "failed"}
         /\ \E phase \in {"locked", "staging", "failing", "hashed", "copied",
                          "indexed", "validated", "sealed", "flushed", "unlocked"} :
                pc' = [pc EXCEPT ![a] = phase]
  BY DEF Quiet, AcquireLock, OpenStaging, WriteBytes, HashSource, CopyBytes,
     HashCopy, WriteIndex, Validate, Seal, Flush, ReleaseLock, Fail, Goto, Building
<1>3. answers' = answers
  BY <1>2, AnswerFrame DEF IInv, answers, Answer
<1> QED BY <1>1, <1>3

LEMMA RefinementInit == Init => Promise!Init
BY DEF Init, Promise!Init, Answer

LEMMA RefinementStep == IInv /\ [Next]_vars => [Promise!Next]_(Promise!vars)
<1> SUFFICES ASSUME IInv, Next PROVE [Promise!Next]_(Promise!vars)
  <2>1. UNCHANGED vars => UNCHANGED Promise!vars
    BY DEF vars, Promise!vars, Answer
  <2> QED BY <2>1
<1> USE DEF answers
<1>1. ASSUME NEW a \in Attempts, Quiet(a) PROVE UNCHANGED Promise!vars
  BY <1>1, QuietStep DEF Promise!vars
<1>2. ASSUME NEW a \in Attempts, LockHeld(a) PROVE Promise!Refuse(a)
  <2>1. dest # a
    BY <1>2 DEF LockHeld, IInv, DestInv
  <2>2. pc[a] = "idle" /\ pc' = [pc EXCEPT ![a] = "failed"] /\ UNCHANGED <<dest, durable>>
    BY <1>2 DEF LockHeld, Goto
  <2> QED BY <2>1, <2>2, AnswerGiven DEF IInv, Promise!Refuse
<1>3. ASSUME NEW a \in Attempts, Abort(a) PROVE Promise!Refuse(a)
  <2>1. dest # a
    BY <1>3 DEF Abort, IInv, DestInv
  <2>2. pc[a] = "failing" /\ pc' = [pc EXCEPT ![a] = "failed"] /\ UNCHANGED <<dest, durable>>
    BY <1>3 DEF Abort, Goto
  <2> QED BY <2>1, <2>2, AnswerGiven DEF IInv, Promise!Refuse
<1>4. ASSUME NEW a \in Attempts, Rename(a)
      PROVE  Promise!Claim(a) \/ UNCHANGED Promise!vars
  <2>1. pc[a] = "flushed"
    BY <1>4 DEF Rename
  <2>2. \E phase \in {"renamed", "failing"} : pc' = [pc EXCEPT ![a] = phase]
    BY <1>4 DEF Rename, Goto
  <2>3. answers' = answers /\ answers[a] = "pending"
    BY <2>1, <2>2, AnswerFrame DEF IInv, Answer
  <2>4. \/ dest = NoOne /\ dest' = a /\ durable' = FALSE
        \/ UNCHANGED <<dest, durable>>
    BY <1>4 DEF Rename
  <2> QED BY <2>3, <2>4 DEF Promise!Claim, Promise!vars
<1>5. ASSUME NEW a \in Attempts, FlushParent(a) PROVE Promise!Confirm(a)
  <2>1. dest = a
    BY <1>5 DEF FlushParent, IInv, OwnerInv
  <2>2. /\ pc[a] = "unlocked" /\ pc' = [pc EXCEPT ![a] = "ok"]
        /\ durable' = TRUE /\ dest' = dest
    BY <1>5 DEF FlushParent, Goto
  <2> QED BY <2>1, <2>2, AnswerGiven DEF IInv, Promise!Confirm
<1>6. ASSUME NEW a \in Attempts, FlushParentFails(a) PROVE Promise!Doubt(a)
  <2>1. dest = a
    BY <1>6 DEF FlushParentFails, IInv, OwnerInv
  <2>2. /\ pc[a] = "unlocked" /\ pc' = [pc EXCEPT ![a] = "unknown"]
        /\ UNCHANGED <<dest, durable>>
    BY <1>6 DEF FlushParentFails, Goto
  <2> QED BY <2>1, <2>2, AnswerGiven DEF IInv, Promise!Doubt
<1>7. ASSUME NEW a \in Attempts, Crash(a) PROVE UNCHANGED Promise!vars
  <2>1. /\ pc[a] \notin {"ok", "unknown", "failed"}
        /\ pc' = [pc EXCEPT ![a] = "crashed"] /\ UNCHANGED <<dest, durable>>
    BY <1>7 DEF Crash, Goto, Holding, Building
  <2> QED BY <2>1, AnswerFrame DEF IInv, Promise!vars
<1>8. ASSUME PowerLoss
      PROVE  Promise!Forget \/ Promise!Settle \/ UNCHANGED Promise!vars
  <2>1. answers' = answers
    <3>1. \A a \in Attempts : Answer(a)' = Answer(a)
      BY <1>8 DEF PowerLoss, Answer, Holding, Building, IInv, TypeOK
    <3> QED BY <3>1
  <2>2. \/ dest' = dest
        \/ dest # NoOne /\ dest' = NoOne /\ ~durable
    BY <1>8 DEF PowerLoss
  <2>3. durable' = (dest' # NoOne) /\ durable \in BOOLEAN /\ (dest = NoOne => ~durable)
    BY <1>8 DEF PowerLoss, IInv, TypeOK, OwnerInv
  <2>4. CASE dest' = dest /\ dest = NoOne
    BY <2>1, <2>3, <2>4 DEF Promise!vars
  <2>5. CASE dest' = dest /\ dest # NoOne
    BY <2>1, <2>3, <2>5 DEF Promise!Settle
  <2>6. CASE dest # NoOne /\ dest' = NoOne /\ ~durable
    BY <2>1, <2>3, <2>6 DEF Promise!Forget
  <2> QED BY <2>2, <2>4, <2>5, <2>6
<1>9. ASSUME ForeignCreate PROVE Promise!ClaimByStranger
  BY <1>9 DEF ForeignCreate, Promise!ClaimByStranger, Answer
<1>10. ASSUME \/ \E f \in Files : ChangeSource(f)
              \/ \E a \in Attempts, f \in Files, c \in {"other", "absent"} :
                     TamperFile(a, f, c)
              \/ \E a \in Attempts, m \in Metadata : TamperMetadata(a, m)
       PROVE  UNCHANGED Promise!vars
  <2>1. UNCHANGED <<pc, dest, durable>>
    BY <1>10 DEF ChangeSource, TamperFile, TamperMetadata
  <2> QED BY <2>1 DEF Promise!vars, Answer
<1>11. ASSUME NEW a \in Attempts, Step(a) \/ Fail(a)
       PROVE  [Promise!Next]_(Promise!vars)
  <2>1. \/ Quiet(a) \/ LockHeld(a) \/ Abort(a) \/ Rename(a)
        \/ FlushParent(a) \/ FlushParentFails(a)
    BY <1>11 DEF Step, Quiet
  <2> QED BY <2>1, <1>1, <1>2, <1>3, <1>4, <1>5, <1>6 DEF Promise!Next
<1>12. ASSUME Environment PROVE [Promise!Next]_(Promise!vars)
  BY <1>12, <1>7, <1>8, <1>9, <1>10 DEF Environment, Promise!Next
<1> QED BY <1>11, <1>12 DEF Next

(* The publisher implements the promise of PublishOnce. *)
THEOREM Refinement == Spec => ImplementsPromise
BY RefinementInit, RefinementStep, Invariance, PTL DEF Spec, ImplementsPromise, Promise!Spec

-----------------------------------------------------------------------------
(* Every step of an attempt brings it nearer to its end.                    *)

Copying == {"hashed", "copied"}
Filling == {"staging"} \cup Copying

Rank(phase) ==
    CASE phase = "idle"      -> 0
      [] phase = "locked"    -> 1
      [] phase \in Filling   -> 2
      [] phase = "indexed"   -> 3
      [] phase = "validated" -> 4
      [] phase = "sealed"    -> 5
      [] phase = "flushed"   -> 6
      [] phase \in {"renamed", "failing"} -> 7
      [] phase = "unlocked"  -> 8
      [] phase \in Finished  -> 9

(* The files an attempt has not begun to write. *)
Left(a) == {f \in Unwritten(a) : pc[a] \in Copying => f # current[a]}

(* Where it is with the file it has begun. *)
Round(phase) == CASE phase = "hashed" -> 0 [] phase = "copied" -> 1 [] phase = "staging" -> 2

Later(a) ==
    \/ Rank(pc[a]) < Rank(pc'[a])
    \/ /\ {pc[a], pc'[a]} \subseteq Filling
       /\ \/ Left(a)' \subseteq Left(a) /\ Left(a)' # Left(a)
          \/ Left(a)' = Left(a) /\ Round(pc[a]) < Round(pc'[a])

Still(a) == pc'[a] = pc[a] /\ Left(a)' = Left(a)

(* A file that was written is removed again. *)
Undone(a) == pc'[a] = pc[a] /\ tampers' = tampers + 1

(* An attempt goes only forward, with each step of its own, and never back; *)
(* others leave it where it is, but for the bounded removals of what it has *)
(* written.  With finitely many files it takes finitely many steps: the     *)
(* part of AtomicPublication.AttemptsEnd that does not depend on fairness.  *)
AttemptsOnlyAdvance ==
    [][\A a \in Attempts : /\ Step(a) \/ Fail(a) => Later(a)
                           /\ Later(a) \/ Still(a) \/ Undone(a)]_vars

(* Writing a file, or one of the three steps of copying one. *)
LEMMA FillingAdvances ==
    ASSUME TypeOK, NEW a \in Attempts,
           \/ \E f \in Files : WriteBytes(a, f) \/ HashSource(a, f)
           \/ CopyBytes(a) \/ HashCopy(a)
    PROVE  Later(a)
<1> USE DEF TypeOK, Filling, Copying, Finished, Rank, Round, Goto
<1>1. ASSUME NEW f \in Files, WriteBytes(a, f) PROVE Later(a)
  <2>1. /\ pc[a] = "staging" /\ pc' = pc /\ file[a][f] = "absent" /\ file'[a][f] = "approved"
        /\ \A g \in Files \ {f} : file'[a][g] = file[a][g]
    BY <1>1 DEF WriteBytes, Unwritten
  <2>2. Left(a)' = Left(a) \ {f} /\ f \in Left(a)
    BY <2>1 DEF Left, Unwritten
  <2> QED BY <2>1, <2>2 DEF Later
<1>2. ASSUME NEW f \in Files, HashSource(a, f) PROVE Later(a)
  <2>1. pc[a] = "staging" /\ file[a][f] = "absent" /\ file' = file
    BY <1>2 DEF HashSource, Unwritten, treeVars
  <2>2. CASE pc'[a] = "failing"
    BY <2>1, <2>2 DEF Later
  <2>3. CASE pc'[a] = "hashed" /\ current'[a] = f
    <3>1. Left(a)' = Left(a) \ {f} /\ f \in Left(a)
      BY <2>1, <2>3 DEF Left, Unwritten
    <3> QED BY <2>1, <2>3, <3>1 DEF Later
  <2> QED BY <1>2, <2>2, <2>3 DEF HashSource
<1>3. CASE CopyBytes(a)
  <2>1. /\ pc[a] = "hashed" /\ pc'[a] = "copied" /\ current' = current
        /\ \A g \in Files : g # current[a] => file'[a][g] = file[a][g]
    BY <1>3 DEF CopyBytes
  <2>2. Left(a)' = Left(a)
    BY <2>1 DEF Left, Unwritten
  <2> QED BY <2>1, <2>2 DEF Later
<1>4. CASE HashCopy(a)
  <2>1. CASE pc'[a] = "failing"
    BY <1>4, <2>1 DEF HashCopy, Later
  <2>2. CASE file[a][current[a]] = "approved" /\ pc'[a] = "staging" /\ file' = file
    <3>1. pc[a] = "copied"
      BY <1>4 DEF HashCopy
    <3>2. Left(a)' = Left(a)
      BY <2>2, <3>1 DEF Left, Unwritten
    <3> QED BY <2>2, <3>1, <3>2 DEF Later
  <2> QED BY <1>4, <2>1, <2>2 DEF HashCopy
<1> QED BY <1>1, <1>2, <1>3, <1>4

(* A step of one attempt, which the others do not notice. *)
LEMMA StepAdvances ==
    ASSUME TypeOK, NEW a \in Attempts, Step(a) \/ Fail(a)
    PROVE  /\ Later(a)
           /\ \A b \in Attempts \ {a} : Still(b)
<1> USE DEF TypeOK, Goto
<1>1. Later(a)
  <2>1. CASE \/ \E f \in Files : WriteBytes(a, f) \/ HashSource(a, f)
             \/ CopyBytes(a) \/ HashCopy(a)
    BY <2>1, FillingAdvances
  <2>2. CASE \/ AcquireLock(a) \/ LockHeld(a) \/ OpenStaging(a) \/ WriteIndex(a) \/ Validate(a)
             \/ Seal(a) \/ Flush(a) \/ Rename(a)
    BY <2>2 DEF AcquireLock, LockHeld, OpenStaging, WriteIndex, Validate, Seal, Flush, Rename,
                Later, Rank, Filling, Copying, Finished
  <2>3. CASE ReleaseLock(a) \/ FlushParent(a) \/ FlushParentFails(a) \/ Abort(a)
    BY <2>3 DEF ReleaseLock, FlushParent, FlushParentFails, Abort,
                Later, Rank, Filling, Copying, Finished
  <2>4. CASE Fail(a)
    BY <2>4 DEF Fail, Building, Later, Rank, Filling, Copying, Finished
  <2> QED BY <2>1, <2>2, <2>3, <2>4 DEF Step
<1>2. ASSUME NEW b \in Attempts \ {a} PROVE Still(b)
  <2>1. pc'[b] = pc[b] /\ current'[b] = current[b] /\ file'[b] = file[b]
    BY DEF Step, Fail, AcquireLock, LockHeld, OpenStaging, WriteBytes, HashSource, CopyBytes, HashCopy,
           WriteIndex, Validate, Seal, Flush, Rename, ReleaseLock, FlushParent, FlushParentFails, Abort,
           treeVars
  <2> QED BY <2>1 DEF Still, Left, Unwritten
<1> QED BY <1>1, <1>2

(* Changes of content, crashes and losses of power. *)
LEMMA EnvironmentAdvances ==
    ASSUME TypeOK, Environment, NEW a \in Attempts
    PROVE  Later(a) \/ Still(a) \/ Undone(a)
<1> USE DEF TypeOK, Goto, treeVars
<1>1. ASSUME NEW f \in Files, ChangeSource(f) PROVE Still(a)
  BY <1>1 DEF ChangeSource, Still, Left, Unwritten
<1>2. ASSUME NEW b \in Attempts, NEW f \in Files, NEW c \in {"other", "absent"}, TamperFile(b, f, c)
      PROVE  Undone(a)
  BY <1>2 DEF TamperFile, Undone
<1>3. ASSUME NEW b \in Attempts, NEW m \in Metadata, TamperMetadata(b, m) PROVE Still(a)
  BY <1>3 DEF TamperMetadata, Still, Left, Unwritten
<1>4. CASE ForeignCreate
  BY <1>4 DEF ForeignCreate, Still, Left, Unwritten
<1>5. ASSUME NEW b \in Attempts, Crash(b) PROVE Later(a) \/ Still(a)
  <2>1. CASE a = b
    BY <1>5, <2>1 DEF Crash, Holding, Building, Later, Rank, Filling, Copying, Finished
  <2>2. CASE a # b
    BY <1>5, <2>2 DEF Crash, Still, Left, Unwritten
  <2> QED BY <2>1, <2>2
<1>6. CASE PowerLoss
  <2>1. CASE pc[a] \in Holding \cup {"unlocked"}
    BY <1>6, <2>1 DEF PowerLoss, Holding, Building, Later, Rank, Filling, Copying, Finished
  <2>2. CASE pc[a] \notin Holding \cup {"unlocked"}
    <3>1. pc'[a] = pc[a] /\ current' = current
      BY <1>6, <2>2 DEF PowerLoss
    <3>2. \A f \in Files : file'[a][f] = "absent" <=> file[a][f] = "absent"
      BY <1>6 DEF PowerLoss
    <3> QED BY <3>1, <3>2 DEF Still, Left, Unwritten
  <2> QED BY <2>1, <2>2
<1> QED BY <1>1, <1>2, <1>3, <1>4, <1>5, <1>6 DEF Environment

(* An attempt goes only forward: every step of its own, failures included,  *)
(* brings it nearer to its end, and of all the rest only a change of staged *)
(* content, of which there are MaxTampers, can give it more to write.       *)
THEOREM Advance == Spec => AttemptsOnlyAdvance
<1> DEFINE Advances == \A a \in Attempts : /\ Step(a) \/ Fail(a) => Later(a)
                                           /\ Later(a) \/ Still(a) \/ Undone(a)
<1>1. TypeOK /\ [Next]_vars => [Advances]_vars
  <2> SUFFICES ASSUME TypeOK, Next PROVE Advances
    BY DEF vars
  <2>1. ASSUME NEW a \in Attempts, Step(a) \/ Fail(a) PROVE Advances
    BY <2>1, StepAdvances
  <2>2. CASE Environment
    BY <2>2, EnvironmentAdvances, StepAdvances
  <2> QED BY <2>1, <2>2 DEF Next
<1>2. Spec => [][Advances]_vars
  BY <1>1, Typing, PTL DEF Spec
<1> QED BY <1>2 DEF AttemptsOnlyAdvance
=============================================================================
