--------------------------- MODULE FailoverProofs ---------------------------
(***************************************************************************)
(* Theorems about two managers of the nginx operator, for any number of    *)
(* take-overs.  What a pass knows of the histories does not depend on who  *)
(* runs it; only the order of the specs does.                              *)
(***************************************************************************)
EXTENDS Failover, NgloyProofs

USE DEF Kinds, Children, Mishaps

-----------------------------------------------------------------------------
(* The inductive invariant.                                                *)

\* The spec of a child comes from a snapshot that this leader's cache or that of
\* an earlier one has passed.
ReachOK ==
    \A k \in Children :
        LastBuilt(k) # 0 =>
            \E i \in 1..Len(CrLog) : /\ i <= seen["cr"] \/ i <= predecessor
                                     /\ CrLog[i].spec = LastBuilt(k)

\* A pass works on a spec older than a child's only if an earlier leader had seen
\* more than it.
BehindOK ==
    copy.spec # 0 =>
        \A k \in Children : LastBuilt(k) <= copy.spec \/ copy.rv < predecessor

HAInv == HATypeOK /\ PassInv /\ ReachOK /\ BehindOK

-----------------------------------------------------------------------------
(* The steps.                                                              *)

\* Whatever the leader does is a step of the operator.
LEMMA LeaderSteps ==
    ASSUME HANext
    PROVE  \/ [Next]_vars /\ UNCHANGED predecessor
           \/ TakeOver
BY DEF HANext, Leader, StandbyWatch, Next

\* A take-over writes nothing and starts with no pass under way.
LEMMA TakeOverPass == ASSUME HATypeOK, PassInv, TakeOver PROVE PassInv'
<1>1. KubeTypeOK /\ TypeOK
  BY DEF HATypeOK, TypeOK
<1>2. UNCHANGED <<version, log>> /\ pc' = "idle" /\ copy' = Zero
  BY DEF TakeOver
<1>3. TypeOK'
  <2>1. budget' \in [Mishaps -> Nat]
    BY <1>1, SpendType DEF TakeOver, KubeTypeOK
  <2>2. seen' \in [Kinds -> Nat] /\ \A k \in Kinds : seen'[k] \in 1..Len(log[k])
    BY DEF TakeOver, HATypeOK
  <2>3. dirty' \in BOOLEAN /\ backoff' \in BOOLEAN
    BY DEF TakeOver
  <2>4. KubeTypeOK'
    BY <1>1, <1>2, <2>1, <2>2, <2>3 DEF KubeTypeOK
  <2> QED BY <1>2, <2>4 DEF TakeOver, TypeOK, WorkerTypeOK, Zero, Steps
<1>4. HistoryOK' /\ RecordOK'
  <2>1. \A k \in Kinds : Versions(k)' = Versions(k)
    BY <1>2 DEF Versions
  <2> QED BY <1>2, <2>1 DEF PassInv, HistoryOK, RecordOK, CrLog
<1>5. CopyOK' /\ BuiltOK'
  BY <1>2 DEF CopyOK, BuiltOK, Zero
<1>6. AwakeOK'
  <2>1. Cached("cr")' = log["cr"][standby["cr"]]
    BY DEF TakeOver, Cached
  <2> QED BY <2>1 DEF TakeOver, AwakeOK, Live
<1> QED BY <1>3, <1>4, <1>5, <1>6 DEF PassInv

LEMMA HAPassStep == ASSUME HAInv, [HANext]_haVars PROVE PassInv'
<1>1. CASE [Next]_vars
  BY <1>1, PassStep DEF HAInv
<1>2. CASE TakeOver
  BY <1>2, TakeOverPass DEF HAInv
<1>3. CASE UNCHANGED haVars
  BY <1>1, <1>3 DEF haVars
<1> QED BY <1>1, <1>2, <1>3, LeaderSteps

\* Nothing is taken out of a history.
LEMMA HAGrows ==
    ASSUME HAInv, [HANext]_haVars
    PROVE  \A k \in Kinds :
               /\ Len(log[k]) \in Nat /\ Len(log'[k]) \in Nat
               /\ Len(log[k]) <= Len(log'[k])
               /\ \A i \in 1..Len(log[k]) : log'[k][i] = log[k][i]
<1>1. KubeTypeOK /\ KubeTypeOK' /\ TypeOK /\ CopyOK /\ BuiltOK
  BY HAPassStep DEF HAInv, PassInv, TypeOK
<1>2. \A k \in Kinds : Len(log[k]) \in Nat /\ Len(log'[k]) \in Nat
  <2>1. \A k \in Kinds : log[k] \in Seq(Object) /\ log'[k] \in Seq(Object)
    BY <1>1 DEF KubeTypeOK
  <2> QED BY <2>1
<1>3. CASE [Next]_vars
  BY <1>1, <1>2, <1>3, StepGrows
<1>4. CASE UNCHANGED log
  BY <1>2, <1>4
<1> QED BY <1>3, <1>4, LeaderSteps DEF TakeOver, haVars, vars, kubeVars

LEMMA HATypeStep == ASSUME HAInv, [HANext]_haVars PROVE HATypeOK'
<1>1. TypeOK' /\ KubeTypeOK' /\ HATypeOK /\ KubeTypeOK
  BY HAPassStep DEF HAInv, PassInv, TypeOK
<1>2. \A k \in Kinds : /\ Len(log[k]) \in Nat /\ Len(log'[k]) \in Nat
                       /\ Len(log[k]) <= Len(log'[k])
                       /\ Len(log[k]) >= 1
  BY <1>1, HAGrows, SnapshotTypes
<1>3. standby \in [Kinds -> Nat] /\ \A k \in Kinds : standby[k] \in 1..Len(log[k])
  BY <1>1 DEF HATypeOK
<1>4. predecessor \in 0..Len(log["cr"]) /\ seen["cr"] \in 1..Len(log["cr"])
  BY <1>1 DEF HATypeOK, KubeTypeOK
<1>5. CASE Leader \/ UNCHANGED haVars
  <2>1. UNCHANGED <<standby, predecessor>>
    BY <1>5 DEF Leader, haVars
  <2>2. \A k \in Kinds : standby'[k] \in 1..Len(log'[k])
    BY <1>2, <1>3, <2>1
  <2>3. predecessor' \in 0..Len(log'["cr"])
    BY <1>2, <1>4, <2>1
  <2> QED BY <1>1, <1>3, <2>1, <2>2, <2>3 DEF HATypeOK
<1>6. CASE \E k \in Kinds : StandbyWatch(k)
  <2>1. PICK k \in Kinds : StandbyWatch(k)
    BY <1>6
  <2>2. /\ standby' = [standby EXCEPT ![k] = standby[k] + 1]
        /\ standby[k] < Len(log[k]) /\ UNCHANGED <<log, predecessor>>
    BY <2>1 DEF StandbyWatch, vars, kubeVars
  <2> QED BY <1>1, <1>2, <1>3, <1>4, <2>2 DEF HATypeOK
<1>7. CASE TakeOver
  <2>1. /\ standby' = [k \in Kinds |-> Len(log[k])] /\ log' = log
        /\ predecessor' \in {seen["cr"], predecessor}
    BY <1>7 DEF TakeOver
  <2> QED BY <1>1, <1>2, <1>4, <2>1 DEF HATypeOK
<1> QED BY <1>5, <1>6, <1>7 DEF HANext

\* A child is only ever built from the copy a pass works on.
LEMMA ChildBuilds ==
    ASSUME PassInv, [Next]_vars, NEW k \in Children
    PROVE  \/ LastBuilt(k)' = LastBuilt(k)
           \/ /\ copy.spec # 0 /\ LastBuilt(k)' = copy.spec
              /\ k = "svc" => copy.spec = LastBuilt("deploy")
<1>1. KubeTypeOK /\ TypeOK /\ CopyOK /\ BuiltOK
  BY DEF PassInv, TypeOK
<1>2. /\ version \in Nat /\ copy.spec \in Nat
      /\ Stored("cr") \in Object /\ Absent \in Object
      /\ Built(copy.spec) \in Object /\ Built(copy.spec).spec = copy.spec
  BY <1>1, RuntimeAssumption, SnapshotTypes, ObjectTypes
  DEF TypeOK, KubeTypeOK, WorkerTypeOK, Built
<1>3. ASSUME NEW obj \in Object, Store("cr", obj)
      PROVE  LastBuilt(k)' = LastBuilt(k)
  BY <1>1, <1>3, LastBuiltStored
<1>4. CASE UNCHANGED <<version, log>>
  BY <1>4 DEF LastBuilt, Stored
<1>5. CASE UserWrites
  <2>1. PICK a \in {0, Stored("cr").ann}, d \in BOOLEAN :
            Store("cr", [spec |-> version + 1, ann |-> a, deleting |-> d])
    BY <1>5 DEF UserWrites
  <2>2. [spec |-> version + 1, ann |-> a, deleting |-> d] \in Object
    BY <1>2 DEF Object
  <2> QED BY <1>3, <2>1, <2>2
<1>6. CASE \E j \in Kinds : Removes(j)
  BY <1>1, <1>2, <1>6, LastBuiltStored DEF Removes
<1>7. CASE MarksDeleting
  <2>1. [spec |-> Stored("cr").spec, ann |-> Stored("cr").ann,
         deleting |-> TRUE] \in Object
    BY <1>2 DEF Object
  <2> QED BY <1>3, <1>7, <2>1 DEF MarksDeleting
<1>8. CASE BuildsDeploy \/ BuildsSvc
  <2>1. PICK j \in Children : /\ copy.spec # 0 /\ Store(j, Built(copy.spec))
                              /\ j = "svc" => copy.spec = LastBuilt("deploy")
    BY <1>8 DEF BuildsDeploy, BuildsSvc
  <2>2. Built(copy.spec) # Absent
    BY <1>2, <2>1 DEF Absent
  <2> QED BY <1>1, <1>2, <2>1, <2>2, LastBuiltStored
<1>9. CASE SavesSpec
  <2>1. [spec |-> copy.spec, ann |-> copy.spec, deleting |-> FALSE] \in Object
    BY <1>2 DEF Object
  <2> QED BY <1>3, <1>9, <2>1 DEF SavesSpec
<1> QED BY <1>1, <1>4, <1>5, <1>6, <1>7, <1>8, <1>9, WriteCases

\* A pass copies what its cache holds, and keeps the copy until it ends.
LEMMA CopyCases ==
    ASSUME [Next]_vars
    PROVE  \/ copy' = copy
           \/ copy' = Zero
           \/ Begin /\ copy' = Snapshot(Cached("cr"))
<1>1. CASE Begin
  BY <1>1 DEF Begin, Goto, Fail
<1>2. CASE Reconcile /\ ~Begin
  BY <1>2, CallCases, ReadCases
  DEF Reconcile, GetDeploy, CreateDeploy, CreateSvc, SaveSpec, GetOldDeploy,
      UpdateDeploy, GetOldSvc, UpdateSvc, Goto, Fail
<1>3. CASE Restart \/ (Environment /\ UNCHANGED localVars) \/ UNCHANGED vars
  BY <1>3 DEF Restart, localVars, vars
<1> QED BY <1>1, <1>2, <1>3 DEF Next

LEMMA ReachStep == ASSUME HAInv, [HANext]_haVars PROVE ReachOK'
<1>1. KubeTypeOK /\ TypeOK /\ HATypeOK /\ PassInv /\ CopyOK /\ ReachOK /\ BuiltOK
  BY DEF HAInv, PassInv, TypeOK
<1>2. /\ Len(CrLog) \in Nat /\ Len(CrLog') \in Nat /\ Len(CrLog) <= Len(CrLog')
      /\ \A i \in 1..Len(CrLog) : CrLog'[i] = CrLog[i]
      /\ seen["cr"] \in 1..Len(CrLog) /\ predecessor \in Nat
  BY <1>1, HAGrows DEF CrLog, KubeTypeOK, HATypeOK
<1>3. CASE [Next]_vars /\ UNCHANGED predecessor
  <2>1. seen["cr"] <= seen'["cr"] /\ seen'["cr"] \in Nat
    BY <1>1, <1>3, StepGrows, TypeStep DEF TypeOK, KubeTypeOK
  <2>2. ASSUME NEW i \in 1..Len(CrLog), i <= seen["cr"] \/ i <= predecessor
        PROVE  /\ i \in 1..Len(CrLog') /\ CrLog'[i] = CrLog[i]
               /\ i <= seen'["cr"] \/ i <= predecessor'
    BY <1>2, <1>3, <2>1, <2>2
  <2>3. ASSUME NEW k \in Children, LastBuilt(k)' # 0
        PROVE  \E i \in 1..Len(CrLog') : /\ i <= seen'["cr"] \/ i <= predecessor'
                                         /\ CrLog'[i].spec = LastBuilt(k)'
    <3>1. CASE LastBuilt(k)' = LastBuilt(k)
      BY <1>1, <2>2, <2>3, <3>1 DEF ReachOK
    <3>2. CASE copy.spec # 0 /\ LastBuilt(k)' = copy.spec
      <4>1. copy.rv \in 1..seen["cr"] /\ CrLog[copy.rv].spec = copy.spec
        BY <1>1, <3>2 DEF CopyOK
      <4>2. copy.rv \in 1..Len(CrLog) /\ copy.rv <= seen["cr"]
        BY <1>2, <4>1
      <4> QED BY <2>2, <3>2, <4>1, <4>2
    <3> QED BY <1>1, <1>3, <3>1, <3>2, ChildBuilds
  <2> QED BY <2>3 DEF ReachOK
<1>4. CASE TakeOver
  <2>1. \A k \in Kinds : LastBuilt(k)' = LastBuilt(k)
    BY <1>4 DEF TakeOver, LastBuilt, Stored
  <2>2. seen["cr"] <= predecessor' /\ predecessor <= predecessor' /\ CrLog' = CrLog
    BY <1>2, <1>4 DEF TakeOver, CrLog
  <2>3. predecessor' \in Nat
    BY <1>2, <1>4 DEF TakeOver
  <2>4. \A i \in 1..Len(CrLog) :
            i <= seen["cr"] \/ i <= predecessor => i <= predecessor'
    BY <1>2, <2>2, <2>3
  <2> QED BY <1>1, <2>1, <2>2, <2>4 DEF ReachOK
<1>5. CASE UNCHANGED haVars
  BY <1>3, <1>5 DEF haVars
<1> QED BY <1>3, <1>4, <1>5, LeaderSteps

LEMMA BehindStep == ASSUME HAInv, [HANext]_haVars PROVE BehindOK'
<1>1. /\ KubeTypeOK /\ TypeOK /\ HATypeOK /\ PassInv /\ HistoryOK
      /\ ReachOK /\ BehindOK
  BY DEF HAInv, PassInv, TypeOK
<1>2. CASE [Next]_vars /\ UNCHANGED predecessor
  <2>1. CASE copy' = copy \/ copy' = Zero
    <3>1. copy.spec \in Nat
      BY <1>1 DEF TypeOK, WorkerTypeOK
    <3>2. ASSUME copy' = copy, copy.spec # 0, NEW k \in Children
          PROVE  LastBuilt(k)' <= copy.spec \/ copy.rv < predecessor
      BY <1>1, <1>2, <3>1, <3>2, ChildBuilds DEF BehindOK
    <3> QED BY <1>2, <2>1, <3>2 DEF BehindOK, Zero
  <2>2. CASE Begin /\ copy' = Snapshot(Cached("cr"))
    <3>1. /\ copy'.rv = seen["cr"] /\ copy'.spec = CrLog[seen["cr"]].spec
          /\ copy'.spec \in Nat
          /\ seen["cr"] \in 1..Len(CrLog) /\ Len(CrLog) \in Nat
          /\ predecessor \in Nat
      <4>1. Cached("cr") \in Object /\ Len(CrLog) \in Nat
        BY <1>1, SnapshotTypes DEF CrLog
      <4>2. seen["cr"] \in 1..Len(CrLog) /\ predecessor \in Nat
        BY <1>1, <4>1 DEF KubeTypeOK, HATypeOK, CrLog
      <4>3. Cached("cr").spec \in Nat
        BY <4>1 DEF Object
      <4> QED BY <2>2, <4>1, <4>2, <4>3 DEF Snapshot, Cached, CrLog
    <3>2. \A k \in Kinds : LastBuilt(k)' = LastBuilt(k) /\ LastBuilt(k) \in Nat
      BY <1>1, <2>2, LastBuiltType DEF Begin, LastBuilt, Stored
    <3>3. ASSUME NEW k \in Children, copy'.spec # 0, LastBuilt(k) # 0
          PROVE  LastBuilt(k) <= copy'.spec \/ seen["cr"] < predecessor
      <4>1. PICK i \in 1..Len(CrLog) : /\ i <= seen["cr"] \/ i <= predecessor
                                       /\ CrLog[i].spec = LastBuilt(k)
        BY <1>1, <3>3 DEF ReachOK
      <4>2. CASE i <= seen["cr"]
        BY <1>1, <3>1, <3>3, <4>1, <4>2 DEF HistoryOK
      <4>3. CASE i > seen["cr"]
        BY <3>1, <4>1, <4>3
      <4> QED BY <3>1, <4>2, <4>3
    <3> QED BY <1>2, <3>1, <3>2, <3>3 DEF BehindOK
  <2> QED BY <1>2, <2>1, <2>2, CopyCases
<1>3. CASE TakeOver
  BY <1>3 DEF TakeOver, BehindOK, Zero
<1>4. CASE UNCHANGED haVars
  BY <1>2, <1>4 DEF haVars
<1> QED BY <1>2, <1>3, <1>4, LeaderSteps

-----------------------------------------------------------------------------
(* Theorems.                                                               *)

LEMMA HAInitInvariant == HAInit => HAInv
<1> SUFFICES ASSUME HAInit PROVE HAInv
  OBVIOUS
<1>1. PassInv /\ TypeOK /\ Init /\ standby = seen /\ predecessor = 0
  BY InitInvariant DEF HAInit, IInv, PassInv
<1>2. HATypeOK
  BY <1>1, SnapshotTypes DEF HATypeOK, TypeOK, KubeTypeOK
<1>3. ReachOK /\ BehindOK
  BY <1>1
  DEF Init, WorkerInit, KubeInit, ReachOK, BehindOK, LastBuilt, Stored, Absent, Zero
<1> QED BY <1>1, <1>2, <1>3 DEF HAInv

\* What a pass knows, and how far behind it may be, holds over any take-over.
THEOREM HAInvariantHolds == HASpec => []HAInv
<1>1. HAInv /\ [HANext]_haVars => HAInv'
  BY HATypeStep, HAPassStep, ReachStep, BehindStep DEF HAInv
<1> QED BY HAInitInvariant, <1>1, PTL DEF HASpec

\* The variables keep their types: neither manager's caches are ever ahead.
THEOREM HATypeCorrect == HASpec => []HATypeOK
<1>1. HAInv => HATypeOK
  BY DEF HAInv
<1> QED BY <1>1, HAInvariantHolds, PTL

\* An annotation is a true commit record, whichever leader wrote it and whatever
\* its successor knows.
THEOREM HACommitRecordHolds == HASpec => []CommitRecord
<1>1. HAInv => CommitRecord
  BY PassRecord DEF HAInv
<1> QED BY <1>1, HAInvariantHolds, PTL

\* A new leader finds by itself what its predecessor left to do.
THEOREM HANoLostWakeupHolds == HASpec => []NoLostWakeup
<1>1. HAInv => NoLostWakeup
  BY PassAwake DEF HAInv
<1> QED BY <1>1, HAInvariantHolds, PTL

\* A child goes back to an older spec only in a pass of a leader that has not yet
\* seen what an earlier one had, and no pass of any leader lets the Service's spec
\* differ from the Deployment's.
THEOREM CatchesUpHolds == HASpec => CatchesUp
<1> DEFINE A == /\ \A k \in Children :
                       LastBuilt(k)' < LastBuilt(k) => copy.rv < predecessor
                /\ LastBuilt("svc")' # LastBuilt("svc") =>
                       LastBuilt("svc")' = LastBuilt("deploy")
<1>1. HAInv /\ [HANext]_haVars => [A]_haVars
  <2> SUFFICES ASSUME HAInv, [HANext]_haVars PROVE A
    OBVIOUS
  <2>1. ASSUME NEW k \in Children, LastBuilt(k)' # LastBuilt(k)
        PROVE  /\ LastBuilt(k)' < LastBuilt(k) => copy.rv < predecessor
               /\ k = "svc" => LastBuilt(k)' = LastBuilt("deploy")
    <3>1. LastBuilt(k) \in Nat /\ copy.spec \in Nat /\ PassInv /\ BehindOK
      BY LastBuiltType DEF HAInv, PassInv, TypeOK, WorkerTypeOK
    <3>2. CASE [Next]_vars
      <4>1. /\ copy.spec # 0 /\ LastBuilt(k)' = copy.spec
            /\ k = "svc" => copy.spec = LastBuilt("deploy")
        BY <2>1, <3>1, <3>2, ChildBuilds
      <4>2. LastBuilt(k) <= copy.spec \/ copy.rv < predecessor
        BY <3>1, <4>1 DEF BehindOK
      <4> QED BY <3>1, <4>1, <4>2
    <3>3. CASE UNCHANGED log
      BY <2>1, <3>3 DEF LastBuilt, Stored
    <3> QED BY <3>2, <3>3, LeaderSteps DEF TakeOver, haVars, vars, kubeVars
  <2>2. \A k \in Children : LastBuilt(k) \in Nat
    BY LastBuiltType DEF HAInv, PassInv, TypeOK
  <2>3. ASSUME NEW k \in Children, LastBuilt(k)' < LastBuilt(k)
        PROVE  copy.rv < predecessor
    BY <2>1, <2>2, <2>3
  <2> QED BY <2>1, <2>3
<1> QED BY <1>1, HAInvariantHolds, PTL DEF HASpec, CatchesUp
=============================================================================
