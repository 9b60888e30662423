---------------------------- MODULE NgloyProofs ----------------------------
(***************************************************************************)
(* Theorems about the nginx operator, for any number of writes by its user *)
(* and any number of failed calls, vanished children and crashes.          *)
(***************************************************************************)
EXTENDS NgloyController, WorkerProofs

USE DEF Kinds, Children, Mishaps

-----------------------------------------------------------------------------
(* Types.                                                                  *)

\* Reading the custom resource and looking for the Deployment keep the types.
LEMMA BeginType == ASSUME TypeOK, Begin PROVE TypeOK'
<1>1. RuntimeTypeOK
  BY DEF TypeOK, RuntimeTypeOK
<1>2. Cached("cr") \in Object /\ seen["cr"] \in Nat
  BY <1>1, SnapshotTypes DEF RuntimeTypeOK, KubeTypeOK
<1>3. /\ pc' \in {"idle", "getDeploy"}
      /\ copy' \in [spec: Nat, ann: Nat, rv: Nat]
      /\ backoff' \in BOOLEAN
      /\ budget' \in [Mishaps -> Nat]
  <2>1. CASE (Fail \/ Goto("idle")) /\ UNCHANGED budget
    BY <1>1, <2>1, GotoType DEF RuntimeTypeOK, KubeTypeOK
  <2>2. CASE /\ pc' = "getDeploy"
             /\ copy' = Snapshot(Cached("cr"))
             /\ UNCHANGED <<backoff, budget>>
    BY <1>1, <1>2, <2>2 DEF Snapshot, Object, RuntimeTypeOK, KubeTypeOK
  <2>3. CASE Spend("fault") /\ Goto("getDeploy")
    BY <1>1, <2>3, GotoType, SpendType DEF RuntimeTypeOK, KubeTypeOK
  <2> QED BY <2>1, <2>2, <2>3 DEF Begin
<1> QED
  BY <1>1, <1>3
  DEF Begin, Steps, TypeOK, RuntimeTypeOK, KubeTypeOK, WorkerTypeOK

LEMMA GetDeployType == ASSUME TypeOK, GetDeploy PROVE TypeOK'
<1>1. RuntimeTypeOK
  BY DEF TypeOK, RuntimeTypeOK
<1>2. Fail \/ Goto("createDeploy") \/ Goto("getOldDeploy")
  BY DEF GetDeploy
<1>3. /\ pc' \in Steps
      /\ copy' \in [spec: Nat, ann: Nat, rv: Nat]
      /\ backoff' \in BOOLEAN
  BY <1>1, <1>2, GotoType DEF Steps
<1>4. budget' \in [Mishaps -> Nat]
  BY <1>1, SpendType DEF GetDeploy, RuntimeTypeOK, KubeTypeOK
<1> QED
  BY <1>1, <1>3, <1>4
  DEF GetDeploy, TypeOK, RuntimeTypeOK, KubeTypeOK, WorkerTypeOK

\* TypeOK is inductive by itself.
LEMMA TypeStep == ASSUME TypeOK, [Next]_vars PROVE TypeOK'
<1>1. RuntimeTypeOK
  BY DEF TypeOK, RuntimeTypeOK
<1>2. Built(copy.spec) \in Object
  BY <1>1, ObjectTypes DEF RuntimeTypeOK, WorkerTypeOK
<1>3. ASSUME RuntimeTypeOK', pc' \in Steps
      PROVE  TypeOK'
  BY <1>3 DEF TypeOK, RuntimeTypeOK
<1>4. CASE Begin
  BY <1>4, BeginType
<1>5. CASE GetDeploy
  BY <1>5, GetDeployType
<1>6. CASE CreateDeploy
  BY <1>1, <1>2, <1>3, <1>6, CallType DEF CreateDeploy, Steps
<1>7. CASE CreateSvc
  BY <1>1, <1>2, <1>3, <1>7, CallType DEF CreateSvc, Steps
<1>8. CASE SaveSpec
  <2>1. [spec |-> copy.spec, ann |-> copy.spec, deleting |-> FALSE] \in Object
    BY <1>1 DEF Object, RuntimeTypeOK, WorkerTypeOK
  <2> QED BY <1>1, <1>3, <1>8, <2>1, CallType DEF SaveSpec, Steps
<1>9. CASE GetOldDeploy
  BY <1>1, <1>3, <1>9, ReadType DEF GetOldDeploy, Steps
<1>10. CASE UpdateDeploy
  BY <1>1, <1>2, <1>3, <1>10, CallType DEF UpdateDeploy, Steps
<1>11. CASE GetOldSvc
  BY <1>1, <1>3, <1>11, ReadType DEF GetOldSvc, Steps
<1>12. CASE UpdateSvc
  BY <1>1, <1>2, <1>3, <1>12, CallType DEF UpdateSvc, Steps
<1>13. CASE Restart
  BY <1>1, <1>3, <1>13, RestartType DEF Restart, Steps
<1>14. CASE Environment /\ UNCHANGED localVars
  BY <1>14, EnvironmentType DEF TypeOK, WorkerTypeOK, localVars
<1>15. CASE UNCHANGED vars
  BY <1>15
  DEF vars, kubeVars, localVars, TypeOK, KubeTypeOK, WorkerTypeOK
<1> QED
  BY <1>4, <1>5, <1>6, <1>7, <1>8, <1>9, <1>10, <1>11, <1>12, <1>13, <1>14,
     <1>15
  DEF Next, Reconcile

\* The variables keep their types: in particular no cache is ever ahead of the
\* history it follows.
THEOREM TypeCorrect == Spec => []TypeOK
<1>1. Init => TypeOK
  BY InitType DEF Init, WorkerInit, TypeOK, RuntimeTypeOK, Steps
<1>2. TypeOK /\ [Next]_vars => TypeOK'
  BY TypeStep
<1> QED BY <1>1, <1>2, PTL DEF Spec

-----------------------------------------------------------------------------
(* The inductive invariant.                                                *)

\* Reconcile's copy is a snapshot its cache has held, and the newest one unless
\* the key was queued since.
CopyOK ==
    /\ copy.spec = 0 =>
           copy = Zero /\ pc \in {"idle", "getDeploy", "createDeploy"}
    /\ copy.spec # 0 =>
           /\ pc # "idle"
           /\ copy.rv \in 1..seen["cr"]
           /\ CrLog[copy.rv] = [spec |-> copy.spec, ann |-> copy.ann,
                                deleting |-> FALSE]
           /\ dirty \/ copy.rv = seen["cr"]

\* What the calls already made have built.
BuiltOK ==
    /\ pc \in {"createSvc", "getOldSvc", "updateSvc"} =>
           copy.spec = LastBuilt("deploy")
    /\ pc \in {"createSvc", "saveSpec"} => copy.spec \in Versions("deploy")
    /\ pc = "saveSpec" => copy.spec \in Versions("svc")

\* CommitRecord, of every snapshot.
RecordOK ==
    \A i \in 1..Len(CrLog) :
        CrLog[i].ann # 0 =>
            CrLog[i].ann \in Versions("deploy") \cap Versions("svc")

\* The Deployment's spec comes from a snapshot the cache has passed, and is no
\* newer than the copy.
OrderOK ==
    /\ LastBuilt("deploy") # 0 =>
           \E i \in 1..seen["cr"] : CrLog[i].spec = LastBuilt("deploy")
    /\ copy.spec # 0 => LastBuilt("deploy") <= copy.spec

\* A worker that rests has built the Service from what its cache holds.
AwakeOK ==
    (pc = "idle" /\ ~dirty /\ ~backoff) =>
        (Live(Cached("cr")) => Cached("cr").spec \in Versions("svc"))

\* All of it but the order also holds when another manager takes over.
PassInv == TypeOK /\ HistoryOK /\ CopyOK /\ BuiltOK /\ RecordOK /\ AwakeOK

IInv == PassInv /\ OrderOK

-----------------------------------------------------------------------------
(* Every write, and why it is made.                                        *)

BuildsDeploy ==
    /\ version' = version
    /\ copy.spec # 0
    /\ Store("deploy", Built(copy.spec))

BuildsSvc ==
    /\ version' = version
    /\ copy.spec # 0
    /\ copy.spec = LastBuilt("deploy")
    /\ Store("svc", Built(copy.spec))

SavesSpec ==
    /\ version' = version
    /\ copy.spec \in Versions("deploy") \cap Versions("svc")
    /\ Stored("cr") = [spec |-> copy.spec, ann |-> copy.ann, deleting |-> FALSE]
    /\ Store("cr", [spec |-> copy.spec, ann |-> copy.spec, deleting |-> FALSE])

\* What SaveSpec writes, it writes over the snapshot it was made from.
LEMMA SaveCases ==
    ASSUME TypeOK, CopyOK, BuiltOK, SaveSpec
    PROVE  UNCHANGED <<version, log>> \/ SavesSpec
<1> DEFINE saved == [spec |-> copy.spec, ann |-> copy.spec, deleting |-> FALSE]
<1>1. pc = "saveSpec" /\ Call("cr", copy.rv = Len(log["cr"]), saved, "idle")
  BY DEF SaveSpec
<1>2. /\ copy.spec \in Versions("deploy") \cap Versions("svc")
      /\ CrLog[copy.rv] = [spec |-> copy.spec, ann |-> copy.ann,
                           deleting |-> FALSE]
  BY <1>1 DEF CopyOK, BuiltOK
<1>3. /\ version' = version
      /\ UNCHANGED log \/ (copy.rv = Len(log["cr"]) /\ Store("cr", saved))
  BY <1>1, CallCases
<1> QED BY <1>2, <1>3 DEF SavesSpec, Stored, CrLog

\* A step makes at most one write, and only for one of these reasons.
LEMMA WriteCases ==
    ASSUME TypeOK, CopyOK, BuiltOK, [Next]_vars
    PROVE  \/ UNCHANGED <<version, log>>
           \/ UserWrites
           \/ \E k \in Kinds : Removes(k)
           \/ MarksDeleting
           \/ BuildsDeploy
           \/ BuildsSvc
           \/ SavesSpec
<1>1. KubeTypeOK
  BY DEF TypeOK
<1>2. CASE Begin \/ GetDeploy \/ Restart \/ UNCHANGED vars
  BY <1>2 DEF Begin, GetDeploy, Restart, vars, kubeVars
<1>3. CASE GetOldDeploy \/ GetOldSvc
  BY <1>3, ReadCases DEF GetOldDeploy, GetOldSvc
<1>4. CASE CreateDeploy
  BY <1>4, CallCases DEF CreateDeploy, BuildsDeploy
<1>5. CASE UpdateDeploy
  <2>1. copy.spec # 0
    BY <1>5 DEF CopyOK, UpdateDeploy
  <2> QED BY <1>5, <2>1, CallCases DEF UpdateDeploy, BuildsDeploy
<1>6. CASE CreateSvc
  <2>1. copy.spec # 0 /\ copy.spec = LastBuilt("deploy")
    BY <1>6 DEF CopyOK, BuiltOK, CreateSvc
  <2> QED BY <1>6, <2>1, CallCases DEF CreateSvc, BuildsSvc
<1>7. CASE UpdateSvc
  <2>1. copy.spec # 0 /\ copy.spec = LastBuilt("deploy")
    BY <1>7 DEF CopyOK, BuiltOK, UpdateSvc
  <2> QED BY <1>7, <2>1, CallCases DEF UpdateSvc, BuildsSvc
<1>8. CASE SaveSpec
  BY <1>8, SaveCases
<1>9. CASE Environment /\ UNCHANGED localVars
  BY <1>1, <1>9, EnvironmentWrites
<1> QED
  BY <1>2, <1>3, <1>4, <1>5, <1>6, <1>7, <1>8, <1>9 DEF Next, Reconcile

\* What a step writes is an object, and of the Deployment it either changes
\* nothing, or leaves what was built last, or builds it from Reconcile's copy.
LEMMA StepWrites ==
    ASSUME TypeOK, CopyOK, BuiltOK, [Next]_vars
    PROVE  /\ \/ UNCHANGED <<version, log>>
              \/ \E k \in Kinds, obj \in Object : Store(k, obj)
           /\ \/ LastBuilt("deploy")' = LastBuilt("deploy")
              \/ BuildsDeploy
<1>1. KubeTypeOK /\ copy.spec \in Nat /\ version \in Nat
  BY RuntimeAssumption DEF TypeOK, KubeTypeOK, WorkerTypeOK
<1>2. Stored("cr") \in Object /\ Built(copy.spec) \in Object /\ Absent \in Object
  BY <1>1, SnapshotTypes, ObjectTypes
<1>3. CASE UNCHANGED <<version, log>>
  BY <1>3 DEF LastBuilt, Stored
<1>4. CASE UserWrites
  <2>1. PICK a \in {0, Stored("cr").ann}, d \in BOOLEAN :
            Store("cr", [spec |-> version + 1, ann |-> a, deleting |-> d])
    BY <1>4 DEF UserWrites
  <2>2. [spec |-> version + 1, ann |-> a, deleting |-> d] \in Object
    BY <1>1, <1>2 DEF Object
  <2> QED BY <1>1, <2>1, <2>2, LastBuiltStored
<1>5. CASE \E k \in Kinds : Removes(k)
  <2>1. PICK k \in Kinds : Store(k, Absent)
    BY <1>5 DEF Removes
  <2> QED BY <1>1, <1>2, <2>1, LastBuiltStored
<1>6. CASE MarksDeleting
  <2>1. [spec |-> Stored("cr").spec, ann |-> Stored("cr").ann,
         deleting |-> TRUE] \in Object
    BY <1>2 DEF Object
  <2> QED BY <1>1, <1>6, <2>1, LastBuiltStored DEF MarksDeleting
<1>7. CASE BuildsDeploy
  BY <1>2, <1>7 DEF BuildsDeploy
<1>8. CASE BuildsSvc
  BY <1>1, <1>2, <1>8, LastBuiltStored DEF BuildsSvc
<1>9. CASE SavesSpec
  <2>1. [spec |-> copy.spec, ann |-> copy.spec, deleting |-> FALSE] \in Object
    BY <1>1 DEF Object
  <2> QED BY <1>1, <1>9, <2>1, LastBuiltStored DEF SavesSpec
<1> QED BY <1>3, <1>4, <1>5, <1>6, <1>7, <1>8, <1>9, WriteCases

\* Histories and caches only go forward.
LEMMA StepGrows ==
    ASSUME TypeOK, CopyOK, BuiltOK, [Next]_vars
    PROVE  \A k \in Kinds :
               /\ Versions(k) \subseteq Versions(k)'
               /\ Len(log[k]) <= Len(log'[k])
               /\ \A i \in 1..Len(log[k]) : log'[k][i] = log[k][i]
               /\ seen[k] <= seen'[k]
               /\ seen[k] \in 1..Len(log[k])
<1>1. KubeTypeOK /\ \A k \in Kinds : Len(log[k]) \in Nat
  BY SnapshotTypes DEF TypeOK
<1>2. ASSUME NEW k \in Kinds
      PROVE  /\ Versions(k) \subseteq Versions(k)'
             /\ Len(log[k]) <= Len(log'[k])
             /\ \A i \in 1..Len(log[k]) : log'[k][i] = log[k][i]
  <2>1. CASE UNCHANGED log
    BY <1>1, <2>1 DEF Versions
  <2>2. CASE \E j \in Kinds, obj \in Object : Store(j, obj)
    BY <1>1, <2>2, StoreAppends, VersionsGrow
  <2> QED BY <2>1, <2>2, StepWrites
<1>3. \A k \in Kinds : seen[k] \in Nat /\ seen[k] \in 1..Len(log[k])
  BY <1>1 DEF KubeTypeOK
<1>4. \A k \in Kinds : seen[k] <= seen'[k]
  <2>1. CASE UNCHANGED seen
    BY <1>3, <2>1
  <2>2. CASE \E k \in Kinds : Watch(k)
    BY <1>1, <1>3, <2>2 DEF Watch, KubeTypeOK
  <2>3. CASE Environment
    BY <2>1, <2>2, <2>3
    DEF Environment, Submit, Edit, WriteSpec, Delete, Vanish, Resync, RetryFires
  <2>4. CASE Reconcile \/ Restart \/ UNCHANGED vars
    BY <2>1, <2>4, CallCases, ReadCases
    DEF Reconcile, Restart, vars, kubeVars, Begin, GetDeploy, CreateDeploy,
        CreateSvc, SaveSpec, GetOldDeploy, UpdateDeploy, GetOldSvc, UpdateSvc
  <2> QED BY <2>3, <2>4 DEF Next
<1> QED BY <1>2, <1>3, <1>4

\* Whatever others do, the Deployment was last built from the same spec.
LEMMA EnvironmentKeepsDeploy ==
    ASSUME KubeTypeOK, Environment
    PROVE  LastBuilt("deploy")' = LastBuilt("deploy")
<1>1. Stored("cr") \in Object /\ Absent \in Object /\ version \in Nat
  BY SnapshotTypes, RuntimeAssumption DEF KubeTypeOK, Absent, Object
<1>2. CASE UNCHANGED <<version, log>>
  BY <1>2 DEF LastBuilt, Stored
<1>3. ASSUME NEW obj \in Object, Store("cr", obj)
      PROVE  LastBuilt("deploy")' = LastBuilt("deploy")
  BY <1>3, LastBuiltStored
<1>4. CASE UserWrites
  <2>1. PICK a \in {0, Stored("cr").ann}, d \in BOOLEAN :
            Store("cr", [spec |-> version + 1, ann |-> a, deleting |-> d])
    BY <1>4 DEF UserWrites
  <2>2. [spec |-> version + 1, ann |-> a, deleting |-> d] \in Object
    BY <1>1 DEF Object
  <2> QED BY <1>3, <2>1, <2>2
<1>5. CASE \E k \in Kinds : Removes(k)
  BY <1>1, <1>5, LastBuiltStored DEF Removes
<1>6. CASE MarksDeleting
  <2>1. [spec |-> Stored("cr").spec, ann |-> Stored("cr").ann,
         deleting |-> TRUE] \in Object
    BY <1>1 DEF Object
  <2> QED BY <1>3, <1>6, <2>1 DEF MarksDeleting
<1> QED BY <1>2, <1>4, <1>5, <1>6, EnvironmentWrites

-----------------------------------------------------------------------------
(* The steps preserve the invariant.                                       *)

LEMMA HistoryStep == ASSUME PassInv, [Next]_vars PROVE HistoryOK'
<1>1. KubeTypeOK /\ HistoryOK /\ CopyOK /\ BuiltOK /\ TypeOK
  BY DEF PassInv, TypeOK
<1>2. /\ version \in Nat /\ copy.spec \in Nat
      /\ Stored("cr") \in Object /\ Built(copy.spec) \in Object
      /\ Absent \in Object
  BY <1>1, RuntimeAssumption, SnapshotTypes, ObjectTypes
  DEF TypeOK, KubeTypeOK, WorkerTypeOK
<1>3. Stored("cr").spec <= version
  <2>1. Stored("cr") = CrLog[Len(CrLog)] /\ Len(CrLog) \in 1..Len(CrLog)
    BY <1>1, SnapshotTypes DEF Stored, CrLog
  <2> QED BY <1>1, <2>1 DEF HistoryOK
<1>4. CASE UNCHANGED <<version, log>>
  BY <1>1, <1>4 DEF HistoryOK, CrLog
<1>5. CASE UserWrites
  <2>1. PICK a \in {0, Stored("cr").ann}, d \in BOOLEAN :
            Store("cr", [spec |-> version + 1, ann |-> a, deleting |-> d])
    BY <1>5 DEF UserWrites
  <2>2. [spec |-> version + 1, ann |-> a, deleting |-> d] \in Object
    BY <1>2 DEF Object
  <2>3. version' = version + 1
    BY <1>5 DEF UserWrites
  <2> QED BY <1>1, <1>2, <2>1, <2>2, <2>3, HistoryStore
<1>6. CASE \E k \in Kinds : Removes(k)
  <2>1. PICK k \in Kinds : Store(k, Absent) /\ version' = version
    BY <1>6 DEF Removes
  <2>2. Absent.spec = 0
    BY DEF Absent
  <2> QED BY <1>1, <1>2, <2>1, <2>2, HistoryStore
<1>7. CASE MarksDeleting
  <2>1. [spec |-> Stored("cr").spec, ann |-> Stored("cr").ann,
         deleting |-> TRUE] \in Object
    BY <1>2 DEF Object
  <2>2. Stored("cr").spec # 0
    BY <1>1, <1>7, SnapshotTypes DEF HistoryOK, MarksDeleting, Stored
  <2> QED BY <1>1, <1>2, <1>3, <1>7, <2>1, <2>2, HistoryStore DEF MarksDeleting
<1>8. CASE BuildsDeploy
  BY <1>1, <1>2, <1>8, HistoryStore DEF BuildsDeploy, Built
<1>9. CASE BuildsSvc
  BY <1>1, <1>2, <1>9, HistoryStore DEF BuildsSvc, Built
<1>10. CASE SavesSpec
  <2>1. [spec |-> copy.spec, ann |-> copy.spec, deleting |-> FALSE] \in Object
    BY <1>2 DEF Object
  <2>2. copy.spec = Stored("cr").spec /\ copy.spec # 0
    BY <1>10 DEF SavesSpec, Versions
  <2> QED BY <1>1, <1>2, <1>3, <1>10, <2>1, <2>2, HistoryStore DEF SavesSpec
<1> QED BY <1>1, <1>4, <1>5, <1>6, <1>7, <1>8, <1>9, <1>10, WriteCases

LEMMA RecordStep == ASSUME PassInv, [Next]_vars PROVE RecordOK'
<1>1. KubeTypeOK /\ RecordOK /\ CopyOK /\ BuiltOK /\ TypeOK
  BY DEF PassInv, TypeOK
<1>2. /\ version \in Nat /\ copy.spec \in Nat
      /\ Stored("cr") \in Object /\ Built(copy.spec) \in Object
      /\ Absent \in Object
  BY <1>1, RuntimeAssumption, SnapshotTypes, ObjectTypes
  DEF TypeOK, KubeTypeOK, WorkerTypeOK
<1>3. Versions("deploy") \cap Versions("svc")
          \subseteq (Versions("deploy") \cap Versions("svc"))'
  BY <1>1, StepGrows
<1>4. Stored("cr").ann # 0 =>
          Stored("cr").ann \in Versions("deploy") \cap Versions("svc")
  <2>1. Stored("cr") = CrLog[Len(CrLog)] /\ Len(CrLog) \in 1..Len(CrLog)
    BY <1>1, SnapshotTypes DEF Stored, CrLog
  <2> QED BY <1>1, <2>1 DEF RecordOK
<1>5. CASE UNCHANGED CrLog
  BY <1>1, <1>3, <1>5 DEF RecordOK
<1>6. ASSUME NEW obj \in Object, Store("cr", obj),
             obj.ann # 0 =>
                 obj.ann \in Versions("deploy") \cap Versions("svc")
      PROVE  RecordOK'
  <2>1. /\ CrLog \in Seq(Object) /\ CrLog' \in Seq(Object)
        /\ \A i \in 1..Len(CrLog) : CrLog'[i] = CrLog[i]
        /\ CrLog'[Len(CrLog')] = obj
        /\ CrLog' = CrLog \/ Len(CrLog') = Len(CrLog) + 1
    BY <1>1, <1>6, StoreAppends DEF CrLog, KubeTypeOK
  <2>2. \A i \in 1..Len(CrLog') : i \in 1..Len(CrLog) \/ i = Len(CrLog')
    BY <2>1
  <2>3. \A i \in 1..Len(CrLog') :
            CrLog'[i] = obj \/ (i \in 1..Len(CrLog) /\ CrLog'[i] = CrLog[i])
    BY <2>1, <2>2
  <2> QED BY <1>1, <1>3, <1>6, <2>3 DEF RecordOK
<1>7. CASE UserWrites
  <2>1. PICK a \in {0, Stored("cr").ann}, d \in BOOLEAN :
            Store("cr", [spec |-> version + 1, ann |-> a, deleting |-> d])
    BY <1>7 DEF UserWrites
  <2>2. [spec |-> version + 1, ann |-> a, deleting |-> d] \in Object
    BY <1>2 DEF Object
  <2> QED BY <1>4, <1>6, <2>1, <2>2
<1>8. CASE Removes("cr")
  BY <1>2, <1>6, <1>8 DEF Removes, Absent
<1>9. CASE MarksDeleting
  <2>1. [spec |-> Stored("cr").spec, ann |-> Stored("cr").ann,
         deleting |-> TRUE] \in Object
    BY <1>2 DEF Object
  <2> QED BY <1>4, <1>6, <1>9, <2>1 DEF MarksDeleting
<1>10. CASE SavesSpec
  <2>1. [spec |-> copy.spec, ann |-> copy.spec, deleting |-> FALSE] \in Object
    BY <1>2 DEF Object
  <2> QED BY <1>6, <1>10, <2>1 DEF SavesSpec
<1>11. ASSUME NEW k \in Children, NEW obj \in Object, Store(k, obj)
       PROVE  UNCHANGED CrLog
  BY <1>1, <1>11, StoreAppends DEF CrLog
<1>12. CASE BuildsDeploy \/ BuildsSvc \/ \E k \in Children : Removes(k)
  BY <1>2, <1>5, <1>11, <1>12 DEF BuildsDeploy, BuildsSvc, Removes
<1> QED
  BY <1>1, <1>5, <1>7, <1>8, <1>9, <1>10, <1>12, WriteCases DEF CrLog

LEMMA CopyStep == ASSUME PassInv, [Next]_vars PROVE CopyOK'
<1>1. TypeOK /\ KubeTypeOK /\ HistoryOK /\ CopyOK /\ BuiltOK
  BY DEF PassInv, TypeOK
<1>2. /\ copy \in [spec: Nat, ann: Nat, rv: Nat]
      /\ seen["cr"] \in 1..Len(CrLog) /\ seen["cr"] \in Nat
      /\ Cached("cr") \in Object
  BY <1>1, SnapshotTypes DEF TypeOK, KubeTypeOK, WorkerTypeOK, CrLog
<1>3. /\ seen["cr"] <= seen'["cr"] /\ seen'["cr"] \in Nat
      /\ Len(CrLog) \in Nat
      /\ \A i \in 1..Len(CrLog) : CrLog'[i] = CrLog[i]
  BY <1>1, StepGrows, TypeStep, SnapshotTypes DEF TypeOK, KubeTypeOK, CrLog
<1>4. Zero.spec = 0 /\ Zero.ann = 0
  BY DEF Zero
<1>5. ASSUME Fail \/ Goto("idle") \/ Restart
      PROVE  CopyOK'
  BY <1>4, <1>5 DEF Fail, Goto, Restart, CopyOK
<1>6. ASSUME copy' = copy, pc' # "idle",
             copy.spec = 0 => pc' \in {"getDeploy", "createDeploy"},
             copy.spec # 0 => UNCHANGED <<seen, dirty>>
      PROVE  CopyOK'
  <2>1. CASE copy.spec = 0
    BY <1>1, <1>6, <2>1 DEF CopyOK
  <2>2. CASE copy.spec # 0
    <3>1. /\ copy.rv \in 1..seen["cr"]
          /\ CrLog[copy.rv] = [spec |-> copy.spec, ann |-> copy.ann,
                               deleting |-> FALSE]
          /\ dirty \/ copy.rv = seen["cr"]
      BY <1>1, <2>2 DEF CopyOK
    <3>2. CrLog'[copy.rv] = CrLog[copy.rv]
      BY <1>2, <1>3, <3>1
    <3> QED BY <1>6, <2>2, <3>1, <3>2 DEF CopyOK
  <2> QED BY <2>1, <2>2
<1>7. CASE Begin
  <2>1. copy.spec = 0
    BY <1>1, <1>7 DEF CopyOK, Begin
  <2>2. CASE /\ Cached("cr") # Absent /\ ~Cached("cr").deleting
             /\ pc' = "getDeploy"
             /\ copy' = Snapshot(Cached("cr"))
    <3>1. /\ Cached("cr") = CrLog[seen["cr"]]
          /\ Cached("cr").deleting = FALSE
      BY <1>2, <2>2 DEF Cached, CrLog, Object
    <3>2. /\ copy'.spec = Cached("cr").spec /\ copy'.ann = Cached("cr").ann
          /\ copy'.rv = seen["cr"]
      BY <2>2 DEF Snapshot
    <3>3. Cached("cr").spec # 0
      BY <1>1, <1>2, <2>2, <3>1 DEF HistoryOK, CrLog
    <3>4. CrLog'[seen["cr"]] = [spec |-> copy'.spec, ann |-> copy'.ann,
                                deleting |-> FALSE]
      BY <1>2, <1>3, <3>1, <3>2 DEF Object
    <3>5. seen' = seen
      BY <1>7 DEF Begin
    <3> QED BY <1>2, <2>2, <3>2, <3>3, <3>4, <3>5 DEF CopyOK
  <2>3. CASE Goto("getDeploy")
    BY <1>6, <2>1, <2>3 DEF Goto
  <2> QED BY <1>5, <1>7, <2>2, <2>3 DEF Begin
<1>8. CASE GetDeploy
  <2>1. CASE Goto("createDeploy")
    BY <1>6, <1>8, <2>1 DEF Goto, GetDeploy
  <2>2. CASE Goto("getOldDeploy") /\ copy.ann # 0
    <3>1. copy.spec # 0
      BY <1>1, <1>4, <2>2 DEF CopyOK
    <3> QED BY <1>6, <1>8, <2>2, <3>1 DEF Goto, GetDeploy
  <2> QED BY <1>5, <1>8, <2>1, <2>2 DEF GetDeploy
<1>9. CASE CreateDeploy
  <2>1. Fail \/ (Goto("createSvc") /\ copy.spec # 0)
    BY <1>9, CallCases DEF CreateDeploy
  <2>2. UNCHANGED <<seen, dirty>>
    BY <1>9, CallCases DEF CreateDeploy
  <2> QED BY <1>5, <1>6, <2>1, <2>2 DEF Goto
<1>10. CASE CreateSvc
  <2>1. copy.spec # 0
    BY <1>1, <1>10 DEF CopyOK, CreateSvc
  <2>2. (Fail \/ Goto("saveSpec")) /\ UNCHANGED <<seen, dirty>>
    BY <1>10, CallCases DEF CreateSvc
  <2> QED BY <1>5, <1>6, <2>1, <2>2 DEF Goto
<1>11. CASE SaveSpec
  BY <1>5, <1>11, CallCases DEF SaveSpec
<1>12. CASE GetOldDeploy
  <2>1. copy.spec # 0
    BY <1>1, <1>12 DEF CopyOK, GetOldDeploy
  <2>2. (Fail \/ Goto("updateDeploy")) /\ UNCHANGED <<seen, dirty>>
    BY <1>12, ReadCases DEF GetOldDeploy
  <2> QED BY <1>5, <1>6, <2>1, <2>2 DEF Goto
<1>13. CASE UpdateDeploy
  <2>1. copy.spec # 0
    BY <1>1, <1>13 DEF CopyOK, UpdateDeploy
  <2>2. (Fail \/ Goto("getOldSvc")) /\ UNCHANGED <<seen, dirty>>
    BY <1>13, CallCases DEF UpdateDeploy
  <2> QED BY <1>5, <1>6, <2>1, <2>2 DEF Goto
<1>14. CASE GetOldSvc
  <2>1. copy.spec # 0
    BY <1>1, <1>14 DEF CopyOK, GetOldSvc
  <2>2. (Fail \/ Goto("updateSvc")) /\ UNCHANGED <<seen, dirty>>
    BY <1>14, ReadCases DEF GetOldSvc
  <2> QED BY <1>5, <1>6, <2>1, <2>2 DEF Goto
<1>15. CASE UpdateSvc
  BY <1>5, <1>15, CallCases DEF UpdateSvc
<1>16. CASE Restart
  BY <1>5, <1>16
<1>17. CASE (Environment /\ UNCHANGED localVars) \/ UNCHANGED vars
  <2>1. UNCHANGED <<pc, copy>>
    BY <1>17 DEF localVars, vars
  <2>2. CASE copy.spec = 0
    BY <1>1, <2>1, <2>2 DEF CopyOK
  <2>3. CASE copy.spec # 0
    <3>1. /\ pc # "idle"
          /\ copy.rv \in 1..seen["cr"]
          /\ CrLog[copy.rv] = [spec |-> copy.spec, ann |-> copy.ann,
                               deleting |-> FALSE]
          /\ dirty \/ copy.rv = seen["cr"]
      BY <1>1, <2>3 DEF CopyOK
    <3>2. CrLog'[copy.rv] = CrLog[copy.rv] /\ copy.rv \in 1..seen'["cr"]
      BY <1>2, <1>3, <3>1
    <3>3. dirty' \/ (~dirty /\ seen'["cr"] = seen["cr"])
                \/ (dirty /\ dirty' = dirty)
      BY <1>1, <1>17
      DEF vars, kubeVars, Environment, Submit, Edit, WriteSpec, Delete, Vanish,
          Watch, Resync, RetryFires, KubeTypeOK
    <3> QED BY <2>1, <2>3, <3>1, <3>2, <3>3 DEF CopyOK
  <2> QED BY <2>2, <2>3
<1> QED
  BY <1>7, <1>8, <1>9, <1>10, <1>11, <1>12, <1>13, <1>14, <1>15, <1>16, <1>17
  DEF Next, Reconcile

LEMMA BuiltStep == ASSUME PassInv, [Next]_vars PROVE BuiltOK'
<1>1. TypeOK /\ KubeTypeOK /\ CopyOK /\ BuiltOK
  BY DEF PassInv, TypeOK
<1>2. Versions("deploy") \subseteq Versions("deploy")'
      /\ Versions("svc") \subseteq Versions("svc")'
  BY <1>1, StepGrows
<1>3. Built(copy.spec) \in Object /\ Built(copy.spec).spec = copy.spec
  BY <1>1, ObjectTypes DEF TypeOK, WorkerTypeOK, Built
<1>4. ASSUME pc' \notin {"createSvc", "saveSpec", "getOldSvc", "updateSvc"}
      PROVE  BuiltOK'
  BY <1>4 DEF BuiltOK
<1>5. CASE Begin \/ GetDeploy \/ SaveSpec \/ GetOldDeploy \/ UpdateSvc \/ Restart
  <2>1. CASE Begin \/ GetDeploy \/ Restart
    BY <1>4, <2>1 DEF Begin, GetDeploy, Restart, Goto, Fail
  <2>2. CASE SaveSpec \/ UpdateSvc
    <3>1. Goto("idle") \/ Fail
      BY <2>2, CallCases DEF SaveSpec, UpdateSvc
    <3> QED BY <1>4, <3>1 DEF Goto, Fail
  <2>3. CASE GetOldDeploy
    <3>1. Goto("updateDeploy") \/ Fail
      BY <2>3, ReadCases DEF GetOldDeploy
    <3> QED BY <1>4, <3>1 DEF Goto, Fail
  <2> QED BY <1>5, <2>1, <2>2, <2>3
<1>6. CASE CreateDeploy
  <2>1. CASE Fail
    BY <1>4, <2>1 DEF Fail
  <2>2. CASE /\ copy.spec # 0
             /\ Store("deploy", Built(copy.spec)) /\ Goto("createSvc")
    <3>1. copy.spec = LastBuilt("deploy")' /\ copy.spec \in Versions("deploy")'
      BY <1>1, <1>3, <2>2, LastBuiltStored, VersionsGrow DEF Absent
    <3> QED BY <2>2, <3>1 DEF Goto, BuiltOK
  <2> QED BY <1>6, <2>1, <2>2, CallCases DEF CreateDeploy
<1>7. CASE CreateSvc
  <2>1. copy.spec # 0 /\ copy.spec \in Versions("deploy")
    BY <1>1, <1>7 DEF CopyOK, BuiltOK, CreateSvc
  <2>2. CASE Fail
    BY <1>4, <2>2 DEF Fail
  <2>3. CASE Store("svc", Built(copy.spec)) /\ Goto("saveSpec")
    <3>1. copy.spec \in Versions("svc")' /\ copy.spec \in Versions("deploy")'
      BY <1>1, <1>2, <1>3, <2>1, <2>3, VersionsGrow
    <3> QED BY <2>3, <3>1 DEF Goto, BuiltOK
  <2> QED BY <1>7, <2>2, <2>3, CallCases DEF CreateSvc
<1>8. CASE UpdateDeploy
  <2>1. copy.spec # 0
    BY <1>1, <1>8 DEF CopyOK, UpdateDeploy
  <2>2. CASE Fail
    BY <1>4, <2>2 DEF Fail
  <2>3. CASE Store("deploy", Built(copy.spec)) /\ Goto("getOldSvc")
    <3>1. copy.spec = LastBuilt("deploy")'
      BY <1>1, <1>3, <2>1, <2>3, LastBuiltStored DEF Absent
    <3> QED BY <2>3, <3>1 DEF Goto, BuiltOK
  <2> QED BY <1>8, <2>2, <2>3, CallCases DEF UpdateDeploy
<1>9. CASE GetOldSvc
  <2>1. LastBuilt("deploy")' = LastBuilt("deploy")
    BY <1>9, ReadCases DEF GetOldSvc, LastBuilt, Stored
  <2>2. CASE Fail
    BY <1>4, <2>2 DEF Fail
  <2>3. CASE Goto("updateSvc")
    <3>1. copy.spec = LastBuilt("deploy")
      BY <1>1, <1>9 DEF BuiltOK, GetOldSvc
    <3> QED BY <2>1, <2>3, <3>1 DEF Goto, BuiltOK
  <2> QED BY <1>9, <2>2, <2>3, ReadCases DEF GetOldSvc
<1>10. CASE Environment /\ UNCHANGED localVars
  <2>1. LastBuilt("deploy")' = LastBuilt("deploy")
    BY <1>1, <1>10, EnvironmentKeepsDeploy
  <2> QED BY <1>1, <1>2, <1>10, <2>1 DEF BuiltOK, localVars
<1>11. CASE UNCHANGED vars
  <2>1. LastBuilt("deploy")' = LastBuilt("deploy")
    BY <1>11 DEF LastBuilt, Stored, vars, kubeVars
  <2> QED BY <1>1, <1>2, <1>11, <2>1 DEF BuiltOK, vars, localVars
<1> QED BY <1>5, <1>6, <1>7, <1>8, <1>9, <1>10, <1>11 DEF Next, Reconcile

LEMMA OrderStep == ASSUME IInv, [Next]_vars PROVE OrderOK'
<1>1. TypeOK /\ KubeTypeOK /\ HistoryOK /\ CopyOK /\ BuiltOK /\ OrderOK
  BY DEF IInv, PassInv, TypeOK
<1>2. /\ seen["cr"] \in 1..Len(CrLog) /\ seen["cr"] \in Nat
      /\ Len(CrLog) \in Nat
      /\ seen["cr"] <= seen'["cr"] /\ seen'["cr"] \in Nat
      /\ \A i \in 1..Len(CrLog) : CrLog'[i] = CrLog[i]
  BY <1>1, StepGrows, TypeStep, SnapshotTypes DEF TypeOK, KubeTypeOK, CrLog
<1>3. copy.spec \in Nat /\ Built(copy.spec) \in Object
      /\ Built(copy.spec).spec = copy.spec
  BY <1>1, ObjectTypes DEF TypeOK, WorkerTypeOK, Built
<1>4. \/ LastBuilt("deploy")' = LastBuilt("deploy")
      \/ copy.spec # 0 /\ LastBuilt("deploy")' = copy.spec
  <2>1. ASSUME BuildsDeploy
        PROVE  copy.spec # 0 /\ LastBuilt("deploy")' = copy.spec
    BY <1>1, <1>3, <2>1, LastBuiltStored DEF BuildsDeploy, Absent
  <2> QED BY <1>1, <2>1, StepWrites
<1>5. LastBuilt("deploy")' # 0 =>
          \E i \in 1..seen'["cr"] : CrLog'[i].spec = LastBuilt("deploy")'
  <2>1. ASSUME NEW i \in 1..seen["cr"]
        PROVE  i \in 1..seen'["cr"] /\ CrLog'[i] = CrLog[i]
    BY <1>2
  <2>2. CASE LastBuilt("deploy")' = LastBuilt("deploy")
    BY <1>1, <2>1, <2>2 DEF OrderOK
  <2>3. CASE copy.spec # 0 /\ LastBuilt("deploy")' = copy.spec
    <3>1. copy.rv \in 1..seen["cr"] /\ CrLog[copy.rv].spec = copy.spec
      BY <1>1, <2>3 DEF CopyOK
    <3> QED BY <2>1, <2>3, <3>1
  <2> QED BY <1>4, <2>2, <2>3
<1>6. copy'.spec # 0 => LastBuilt("deploy")' <= copy'.spec
  <2>1. CASE copy' = copy \/ copy' = Zero
    BY <1>1, <1>3, <1>4, <2>1 DEF OrderOK, Zero
  <2>2. CASE Begin /\ copy' = Snapshot(Cached("cr"))
    <3>1. copy'.spec = CrLog[seen["cr"]].spec /\ copy'.spec \in Nat
      BY <1>1, <2>2, SnapshotTypes DEF Snapshot, Cached, CrLog, Object
    <3>2. LastBuilt("deploy")' = LastBuilt("deploy")
      BY <2>2 DEF Begin, LastBuilt, Stored
    <3>3. CASE LastBuilt("deploy") = 0
      BY <3>1, <3>2, <3>3
    <3>4. CASE LastBuilt("deploy") # 0
      <4>1. PICK i \in 1..seen["cr"] : CrLog[i].spec = LastBuilt("deploy")
        BY <1>1, <3>4 DEF OrderOK
      <4>2. i \in 1..Len(CrLog) /\ i <= seen["cr"]
        BY <1>2
      <4> QED BY <1>1, <1>2, <3>1, <3>2, <4>1, <4>2 DEF HistoryOK
    <3> QED BY <3>3, <3>4
  <2>3. copy' = copy \/ copy' = Zero \/ (Begin /\ copy' = Snapshot(Cached("cr")))
    <3>1. CASE Begin
      BY <3>1 DEF Begin, Goto, Fail
    <3>2. CASE Reconcile /\ ~Begin
      BY <3>2, CallCases, ReadCases
      DEF Reconcile, GetDeploy, CreateDeploy, CreateSvc, SaveSpec, GetOldDeploy,
          UpdateDeploy, GetOldSvc, UpdateSvc, Goto, Fail
    <3>3. CASE Restart \/ (Environment /\ UNCHANGED localVars) \/ UNCHANGED vars
      BY <3>3 DEF Restart, localVars, vars
    <3> QED BY <3>1, <3>2, <3>3 DEF Next
  <2> QED BY <2>1, <2>2, <2>3
<1> QED BY <1>5, <1>6 DEF OrderOK

LEMMA AwakeStep == ASSUME PassInv, [Next]_vars PROVE AwakeOK'
<1>1. TypeOK /\ KubeTypeOK /\ CopyOK /\ BuiltOK /\ AwakeOK
  BY DEF PassInv, TypeOK
<1>2. /\ seen["cr"] \in 1..Len(CrLog)
      /\ \A i \in 1..Len(CrLog) : CrLog'[i] = CrLog[i]
      /\ Versions("svc") \subseteq Versions("svc")'
  BY <1>1, StepGrows DEF CrLog
<1>3. ASSUME UNCHANGED seen
      PROVE  Cached("cr")' = Cached("cr")
  BY <1>2, <1>3 DEF Cached, CrLog
<1>4. ASSUME UNCHANGED <<seen, dirty>>, ~dirty, copy.spec # 0,
             copy.spec \in Versions("svc")'
      PROVE  AwakeOK'
  <2>1. Cached("cr").spec = copy.spec
    BY <1>1, <1>4 DEF CopyOK, Cached, CrLog
  <2> QED BY <1>3, <1>4, <2>1 DEF AwakeOK
<1>5. ASSUME pc' # "idle" \/ dirty' \/ backoff'
      PROVE  AwakeOK'
  BY <1>5 DEF AwakeOK
<1>6. CASE Begin
  <2>1. UNCHANGED seen
    BY <1>6 DEF Begin
  <2>2. Cached("cr").deleting \/ Fail \/ pc' = "getDeploy"
    BY <1>6 DEF Begin, Goto
  <2> QED BY <1>3, <1>5, <2>1, <2>2 DEF AwakeOK, Live, Fail
<1>7. CASE GetDeploy \/ CreateDeploy \/ CreateSvc \/ GetOldDeploy
           \/ UpdateDeploy \/ GetOldSvc
  <2>1. Fail \/ pc' # "idle"
    BY <1>7, CallCases, ReadCases
    DEF GetDeploy, CreateDeploy, CreateSvc, GetOldDeploy, UpdateDeploy,
        GetOldSvc, Goto
  <2> QED BY <1>5, <2>1 DEF Fail
<1>8. CASE SaveSpec
  <2>1. copy.spec # 0 /\ copy.spec \in Versions("svc")
    BY <1>1, <1>8 DEF CopyOK, BuiltOK, SaveSpec
  <2>2. UNCHANGED <<seen, dirty>>
    BY <1>8, CallCases DEF SaveSpec
  <2> QED BY <1>2, <1>4, <1>5, <2>1, <2>2
<1>9. CASE UpdateSvc
  <2>1. copy.spec # 0
    BY <1>1, <1>9 DEF CopyOK, UpdateSvc
  <2>2. UNCHANGED <<seen, dirty>>
    BY <1>9, CallCases DEF UpdateSvc
  <2>3. CASE Fail
    BY <1>5, <2>3 DEF Fail
  <2>4. CASE Store("svc", Built(copy.spec))
    <3>1. Built(copy.spec) \in Object /\ Built(copy.spec).spec = copy.spec
      BY <1>1, ObjectTypes DEF TypeOK, WorkerTypeOK, Built
    <3>2. copy.spec \in Versions("svc")'
      BY <1>1, <2>1, <2>4, <3>1, VersionsGrow
    <3> QED BY <1>4, <1>5, <2>1, <2>2, <3>2
  <2> QED BY <1>9, <2>3, <2>4, CallCases DEF UpdateSvc
<1>10. CASE Restart
  <2>1. Cached("cr")' = Cached("cr") /\ dirty' = (Cached("cr") # Absent)
    BY <1>3, <1>10 DEF Restart
  <2> QED BY <2>1 DEF AwakeOK, Live
<1>11. CASE Environment /\ UNCHANGED localVars
  <2>1. CASE \/ Watch("cr") \/ Resync \/ RetryFires
    BY <1>5, <2>1 DEF Watch, Resync, RetryFires
  <2>2. CASE \/ Submit \/ Edit \/ Delete \/ \E k \in Children : Vanish(k)
             \/ \E k \in Children : Watch(k)
    <3>1. seen'["cr"] = seen["cr"] /\ dirty' = dirty /\ backoff' = backoff
      BY <1>1, <2>2
      DEF Submit, Edit, WriteSpec, Delete, Vanish, Watch, KubeTypeOK
    <3>2. Cached("cr")' = Cached("cr")
      BY <1>2, <3>1 DEF Cached, CrLog
    <3> QED BY <1>1, <1>2, <1>11, <3>1, <3>2 DEF AwakeOK, localVars
  <2> QED BY <1>11, <2>1, <2>2 DEF Environment
<1>12. CASE UNCHANGED vars
  <2>1. UNCHANGED <<seen, pc, dirty, backoff>>
    BY <1>12 DEF vars, kubeVars, localVars
  <2> QED BY <1>1, <1>2, <1>3, <2>1 DEF AwakeOK
<1> QED
  BY <1>6, <1>7, <1>8, <1>9, <1>10, <1>11, <1>12 DEF Next, Reconcile

LEMMA PassStep == ASSUME PassInv, [Next]_vars PROVE PassInv'
<1>1. TypeOK'
  BY TypeStep DEF PassInv
<1> QED
  BY <1>1, HistoryStep, CopyStep, BuiltStep, RecordStep, AwakeStep DEF PassInv

-----------------------------------------------------------------------------
(* What it implies.                                                        *)

LEMMA PassRecord == ASSUME PassInv PROVE CommitRecord
<1>1. Stored("cr") = CrLog[Len(CrLog)] /\ Len(CrLog) \in 1..Len(CrLog)
  BY SnapshotTypes DEF PassInv, TypeOK, Stored, CrLog
<1> QED BY <1>1 DEF PassInv, RecordOK, CommitRecord

LEMMA PassAwake == ASSUME PassInv PROVE NoLostWakeup
BY DEF PassInv, AwakeOK, NoLostWakeup, UpToDate, Cached, Stored

-----------------------------------------------------------------------------
(* Theorems.                                                               *)

LEMMA InitInvariant == Init => IInv
<1> SUFFICES ASSUME Init PROVE IInv
  OBVIOUS
<1>1. TypeOK
  BY InitType DEF Init, WorkerInit, TypeOK, RuntimeTypeOK, Steps
<1>2. /\ \A k \in Kinds : Len(log[k]) = 1 /\ log[k][1] = Absent
      /\ version = 0 /\ pc = "idle" /\ copy = Zero /\ seen["cr"] = 1
  BY DEF Init, WorkerInit, KubeInit
<1>3. /\ Len(CrLog) = 1 /\ CrLog[1] = Absent
      /\ Absent.spec = 0 /\ Absent.ann = 0 /\ Zero.spec = 0
  BY <1>2 DEF CrLog, Absent, Zero
<1>4. HistoryOK
  <2>1. \A k \in Kinds : \A i \in 1..Len(log[k]) : log[k][i] = Absent
    <3>1. ASSUME NEW k \in Kinds, NEW i \in 1..Len(log[k])
          PROVE  log[k][i] = Absent
      <4>1. i \in 1..1
        BY <1>2
      <4> QED BY <1>2, <4>1
    <3> QED BY <3>1
  <2> QED BY <1>2, <1>3, <2>1 DEF HistoryOK, CrLog
<1>5. CopyOK /\ BuiltOK /\ RecordOK
  BY <1>2, <1>3 DEF CopyOK, BuiltOK, RecordOK
<1>6. OrderOK
  BY <1>2, <1>3 DEF OrderOK, LastBuilt, Stored
<1>7. AwakeOK
  BY <1>2 DEF AwakeOK, Cached, Live
<1> QED BY <1>1, <1>4, <1>5, <1>6, <1>7 DEF IInv, PassInv

\* The inductive invariant holds: every annotation, every copy and every call
\* already made agree with the histories, in every reachable state.
THEOREM InvariantHolds == Spec => []IInv
<1>1. IInv /\ [Next]_vars => IInv'
  <2> SUFFICES ASSUME IInv, [Next]_vars PROVE IInv'
    OBVIOUS
  <2> QED BY PassStep, OrderStep DEF IInv
<1> QED BY InitInvariant, <1>1, PTL DEF Spec

\* An annotation is only ever found on an object when its spec was built into a
\* Deployment and into a Service.
THEOREM CommitRecordHolds == Spec => []CommitRecord
<1>1. IInv => CommitRecord
  BY PassRecord DEF IInv
<1> QED BY <1>1, InvariantHolds, PTL

\* A spec that has not reached the Service is never forgotten by the queue.
THEOREM NoLostWakeupHolds == Spec => []NoLostWakeup
<1>1. IInv => NoLostWakeup
  BY PassAwake DEF IInv
<1> QED BY <1>1, InvariantHolds, PTL

\* The worker never writes the resource but to add the annotation to the object
\* as it is, whatever annotation that has already.
THEOREM CommitFreshHolds == Spec => CommitFresh
<1> DEFINE A == LET old == Stored("cr")
                    new == Stored("cr")'
                IN  (localVars' # localVars /\ new # old) =>
                        /\ Live(old)
                        /\ new = [spec |-> old.spec, ann |-> old.spec,
                                  deleting |-> FALSE]
<1>1. IInv /\ [Next]_vars => [A]_vars
  <2> SUFFICES ASSUME IInv, [Next]_vars PROVE A
    OBVIOUS
  <2>1. KubeTypeOK /\ CopyOK /\ BuiltOK /\ TypeOK /\ copy.spec \in Nat
    BY DEF IInv, PassInv, TypeOK, WorkerTypeOK
  <2>2. CASE UNCHANGED log
    BY <2>2 DEF Stored
  <2>3. ASSUME NEW k \in Children, NEW obj \in Object, Store(k, obj)
        PROVE  A
    <3>1. Stored("cr")' = Stored("cr")
      BY <2>1, <2>3, StoreAppends DEF Stored
    <3> QED BY <3>1
  <2>4. CASE Begin \/ GetDeploy \/ GetOldDeploy \/ GetOldSvc \/ Restart
    BY <2>2, <2>4, ReadCases
    DEF Begin, GetDeploy, GetOldDeploy, GetOldSvc, Restart
  <2>5. CASE CreateDeploy \/ CreateSvc \/ UpdateDeploy \/ UpdateSvc
    <3>1. Built(copy.spec) \in Object
      BY <2>1, ObjectTypes
    <3>2. \/ UNCHANGED log
          \/ \E k \in Children : Store(k, Built(copy.spec))
      BY <2>5, CallCases DEF CreateDeploy, CreateSvc, UpdateDeploy, UpdateSvc
    <3> QED BY <2>2, <2>3, <3>1, <3>2
  <2>6. CASE SavesSpec
    <3>1. [spec |-> copy.spec, ann |-> copy.spec, deleting |-> FALSE] \in Object
      BY <2>1 DEF Object
    <3>2. Stored("cr")' = [spec |-> copy.spec, ann |-> copy.spec,
                           deleting |-> FALSE]
      BY <2>1, <2>6, <3>1, StoreAppends DEF SavesSpec, Stored
    <3>3. /\ Stored("cr").spec = copy.spec /\ copy.spec # 0
          /\ Stored("cr").deleting = FALSE
      BY <2>6 DEF SavesSpec, Versions
    <3>4. Live(Stored("cr"))
      BY <3>3 DEF Live, Absent
    <3> QED BY <3>2, <3>3, <3>4
  <2>7. CASE SaveSpec
    BY <2>1, <2>2, <2>6, <2>7, SaveCases
  <2>8. CASE UNCHANGED localVars \/ UNCHANGED vars
    BY <2>8 DEF vars
  <2> QED BY <2>4, <2>5, <2>7, <2>8 DEF Next, Reconcile
<1> QED BY <1>1, InvariantHolds, PTL DEF Spec, CommitFresh

\* A pass that could not read the resource writes neither child.
THEOREM EmptyCopyWritesNothingHolds == Spec => EmptyCopyWritesNothing
<1> DEFINE A == \A k \in Children :
                    log'[k] # log[k] =>
                        copy.spec # 0 \/ budget'["vanish"] # budget["vanish"]
<1>1. IInv /\ [Next]_vars => [A]_vars
  <2> SUFFICES ASSUME IInv, [Next]_vars PROVE A
    OBVIOUS
  <2>1. KubeTypeOK /\ CopyOK
    BY DEF IInv, PassInv, TypeOK
  <2>2. CASE UNCHANGED log \/ copy.spec # 0
    BY <2>2
  <2>3. CASE Reconcile
    <3>1. CASE Begin \/ GetDeploy \/ GetOldDeploy \/ GetOldSvc
      BY <2>2, <3>1, ReadCases DEF Begin, GetDeploy, GetOldDeploy, GetOldSvc
    <3>2. CASE CreateDeploy
      BY <2>2, <3>2, CallCases DEF CreateDeploy
    <3>3. CASE CreateSvc \/ SaveSpec \/ UpdateDeploy \/ UpdateSvc
      BY <2>1, <2>2, <3>3
      DEF CreateSvc, SaveSpec, UpdateDeploy, UpdateSvc, CopyOK
    <3> QED BY <2>3, <3>1, <3>2, <3>3 DEF Reconcile
  <2>4. ASSUME NEW k \in Children, Vanish(k)
        PROVE  A
    <3>1. budget["vanish"] \in Nat /\ budget'["vanish"] = budget["vanish"] - 1
      BY <2>1, <2>4 DEF Vanish, Spend, KubeTypeOK
    <3> QED BY <3>1
  <2>5. CASE Submit \/ Edit \/ Delete
    <3>1. \E obj : Store("cr", obj)
      BY <2>5 DEF Submit, Edit, Delete, WriteSpec
    <3>2. \A k \in Children : log'[k] = log[k]
      BY <2>1, <3>1 DEF Store, KubeTypeOK
    <3> QED BY <3>2
  <2>6. CASE (\E k \in Kinds : Watch(k)) \/ Resync \/ RetryFires
    BY <2>2, <2>6 DEF Watch, Resync, RetryFires
  <2>7. CASE Restart \/ UNCHANGED vars
    BY <2>2, <2>7 DEF Restart, vars, kubeVars
  <2> QED BY <2>3, <2>4, <2>5, <2>6, <2>7 DEF Next, Environment
<1> QED BY <1>1, InvariantHolds, PTL DEF Spec, EmptyCopyWritesNothing

\* The operator implements Rollout: the Deployment's spec only goes forward, and
\* the Service is only ever given the Deployment's.
THEOREM OrderedHolds == Spec => Ordered
<1>1. Init => R!Init
  BY DEF Init, WorkerInit, KubeInit, R!Init, LastBuilt, Stored, Absent
<1>2. IInv /\ [Next]_vars => [R!Next]_(R!vars)
  <2> SUFFICES ASSUME IInv, [Next]_vars PROVE [R!Next]_(R!vars)
    OBVIOUS
  <2>1. KubeTypeOK /\ HistoryOK /\ CopyOK /\ BuiltOK /\ OrderOK /\ TypeOK
    BY DEF IInv, PassInv, TypeOK
  <2>2. Stored("cr") \in Object /\ copy.spec \in Nat /\ version \in Nat
    BY <2>1, SnapshotTypes, RuntimeAssumption
    DEF TypeOK, KubeTypeOK, WorkerTypeOK
  <2>3. /\ Absent \in Object /\ Built(copy.spec) \in Object
        /\ Built(copy.spec).spec = copy.spec
    BY <2>2 DEF Absent, Object, Built
  <2>4. ASSUME NEW obj \in Object, Store("cr", obj)
        PROVE  UNCHANGED <<LastBuilt("deploy"), LastBuilt("svc")>>
    BY <2>1, <2>4, LastBuiltStored
  <2>5. CASE UNCHANGED <<version, log>>
    BY <2>5 DEF R!vars, LastBuilt, Stored
  <2>6. CASE UserWrites
    <3>1. PICK a \in {0, Stored("cr").ann}, d \in BOOLEAN :
              Store("cr", [spec |-> version + 1, ann |-> a, deleting |-> d])
      BY <2>6 DEF UserWrites
    <3>2. [spec |-> version + 1, ann |-> a, deleting |-> d] \in Object
      BY <2>2 DEF Object
    <3>3. version' = version + 1
      BY <2>6 DEF UserWrites
    <3> QED BY <2>4, <3>1, <3>2, <3>3 DEF R!Next, R!Write
  <2>7. CASE \E k \in Kinds : Removes(k)
    BY <2>1, <2>3, <2>7, LastBuiltStored DEF Removes, R!vars
  <2>8. CASE MarksDeleting
    <3>1. [spec |-> Stored("cr").spec, ann |-> Stored("cr").ann,
           deleting |-> TRUE] \in Object
      BY <2>2 DEF Object
    <3> QED BY <2>4, <2>8, <3>1 DEF MarksDeleting, R!vars
  <2>9. CASE BuildsDeploy
    <3>1. /\ LastBuilt("deploy")' = copy.spec /\ copy.spec # 0
          /\ UNCHANGED <<version, LastBuilt("svc")>>
      BY <2>1, <2>3, <2>9, LastBuiltStored DEF BuildsDeploy, Absent
    <3>2. LastBuilt("deploy") <= copy.spec
      BY <2>1, <3>1 DEF OrderOK
    <3>3. copy.spec <= version
      <4>1. copy.rv \in 1..seen["cr"] /\ CrLog[copy.rv].spec = copy.spec
        BY <2>1, <3>1 DEF CopyOK
      <4>2. copy.rv \in 1..Len(CrLog)
        BY <2>1, <4>1, SnapshotTypes DEF KubeTypeOK, CrLog
      <4> QED BY <2>1, <4>1, <4>2 DEF HistoryOK
    <3>4. LastBuilt("deploy") \in Nat
      BY <2>1, LastBuiltType
    <3>5. CASE LastBuilt("deploy") = copy.spec
      BY <3>1, <3>5 DEF R!vars
    <3>6. CASE LastBuilt("deploy") # copy.spec
      <4>1. copy.spec \in 1..version /\ copy.spec > LastBuilt("deploy")
        BY <2>2, <3>1, <3>2, <3>3, <3>4, <3>6
      <4> QED BY <3>1, <4>1 DEF R!Next, R!Deploy
    <3> QED BY <3>5, <3>6
  <2>10. CASE BuildsSvc
    <3>1. /\ LastBuilt("svc")' = LastBuilt("deploy")
          /\ UNCHANGED <<version, LastBuilt("deploy")>>
      BY <2>1, <2>3, <2>10, LastBuiltStored DEF BuildsSvc, Absent
    <3> QED BY <3>1 DEF R!Next, R!Serve
  <2>11. CASE SavesSpec
    <3>1. [spec |-> copy.spec, ann |-> copy.spec, deleting |-> FALSE] \in Object
      BY <2>2 DEF Object
    <3> QED BY <2>4, <2>11, <3>1 DEF SavesSpec, R!vars
  <2> QED
    BY <2>1, <2>5, <2>6, <2>7, <2>8, <2>9, <2>10, <2>11, WriteCases
<1> QED BY <1>1, <1>2, InvariantHolds, PTL DEF Spec, Ordered, R!Spec
=============================================================================
