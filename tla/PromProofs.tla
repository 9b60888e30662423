----------------------------- MODULE PromProofs -----------------------------
(***************************************************************************)
(* Theorems about the Prometheus operator, for any number of writes by its *)
(* user and any number of failed calls, vanished children and crashes.     *)
(***************************************************************************)
EXTENDS PromReconciler, WorkerProofs

USE DEF Kinds, Children, Mishaps, NewDeploy, NewService

-----------------------------------------------------------------------------
(* Types.                                                                  *)

\* TypeOK, but of the ports, which no step changes.
RunTypeOK == KubeTypeOK /\ WorkerTypeOK /\ pc \in Steps

LEMMA BeginType == ASSUME RunTypeOK, Begin PROVE RunTypeOK'
<1>1. RuntimeTypeOK
  BY DEF RunTypeOK, RuntimeTypeOK
<1>2. Cached("cr") \in Object /\ seen["cr"] \in Nat
  BY <1>1, SnapshotTypes DEF RuntimeTypeOK, KubeTypeOK
<1>3. /\ pc' \in {"idle", "getDeploy"}
      /\ copy' \in [spec: Nat, ann: Nat, rv: Nat]
      /\ backoff' \in BOOLEAN
      /\ budget' \in [Mishaps -> Nat]
  <2>1. CASE Goto("idle") /\ UNCHANGED budget
    BY <1>1, <2>1, GotoType DEF RuntimeTypeOK, KubeTypeOK
  <2>2. CASE /\ pc' = "getDeploy"
             /\ copy' = Snapshot(Cached("cr"))
             /\ UNCHANGED <<backoff, budget>>
    BY <1>1, <1>2, <2>2 DEF Snapshot, Object, RuntimeTypeOK, KubeTypeOK
  <2>3. CASE Spend("fault") /\ Fail
    BY <1>1, <2>3, GotoType, SpendType DEF RuntimeTypeOK, KubeTypeOK
  <2> QED BY <2>1, <2>2, <2>3 DEF Begin
<1> QED
  BY <1>1, <1>3
  DEF Begin, Steps, RunTypeOK, RuntimeTypeOK, KubeTypeOK, WorkerTypeOK

\* The reads that decide what to do lead to one of two steps, or fail.
LEMMA DecideCases ==
    ASSUME GetDeploy \/ GetDeployAgain \/ GetSvc
    PROVE  /\ UNCHANGED <<version, log, seen, dirty, held>>
           /\ UNCHANGED budget \/ Spend("fault")
           /\ \/ Fail
              \/ GetDeploy /\ Goto("getOldDeploy") /\ copy.ann # 0
              \/ GetDeploy /\ Goto("getDeployAgain")
              \/ GetDeployAgain /\ Goto("getSvc") /\ Cached("deploy") # Absent
              \/ GetSvc /\ Goto("saveSpec") /\ Cached("svc") # Absent
BY DEF GetDeploy, GetDeployAgain, GetSvc, Read

LEMMA DecideType ==
    ASSUME RunTypeOK, GetDeploy \/ GetDeployAgain \/ GetSvc PROVE RunTypeOK'
<1>1. RuntimeTypeOK
  BY DEF RunTypeOK, RuntimeTypeOK
<1>2. /\ pc' \in Steps
      /\ copy' \in [spec: Nat, ann: Nat, rv: Nat]
      /\ backoff' \in BOOLEAN
  BY <1>1, DecideCases, GotoType DEF Steps
<1>3. budget' \in [Mishaps -> Nat]
  BY <1>1, DecideCases, SpendType DEF RuntimeTypeOK, KubeTypeOK
<1> QED
  BY <1>1, <1>2, <1>3, DecideCases
  DEF RunTypeOK, RuntimeTypeOK, KubeTypeOK, WorkerTypeOK

\* Nor does somebody who creates a child.
LEMMA ProvideType ==
    ASSUME KubeTypeOK, NEW k \in Children, Provide(k) PROVE KubeTypeOK'
<1>1. PICK v \in 1..version : Store(k, Built(v))
  BY DEF Provide
<1>2. Built(v) \in Object
  BY <1>1, ObjectTypes
<1> QED BY <1>1, <1>2, StoreType DEF Provide, KubeTypeOK

\* RunTypeOK is inductive by itself.
LEMMA TypeStep == ASSUME RunTypeOK, [Next]_vars PROVE RunTypeOK'
<1>1. RuntimeTypeOK
  BY DEF RunTypeOK, RuntimeTypeOK
<1>2. Built(copy.spec) \in Object
  BY <1>1, ObjectTypes DEF RuntimeTypeOK, WorkerTypeOK
<1>3. ASSUME RuntimeTypeOK', pc' \in Steps
      PROVE  RunTypeOK'
  BY <1>3 DEF RunTypeOK, RuntimeTypeOK
<1>4. CASE Begin
  BY <1>4, BeginType
<1>5. CASE GetDeploy \/ GetDeployAgain \/ GetSvc
  BY <1>5, DecideType
<1>6. CASE SaveSpec
  <2>1. [spec |-> copy.spec, ann |-> copy.spec, deleting |-> FALSE] \in Object
    BY <1>1 DEF Object, RuntimeTypeOK, WorkerTypeOK
  <2> QED BY <1>1, <1>3, <1>6, <2>1, CallType DEF SaveSpec, Steps
<1>7. CASE GetOldDeploy
  BY <1>1, <1>3, <1>7, ReadType DEF GetOldDeploy, Steps
<1>8. CASE UpdateDeploy
  BY <1>1, <1>2, <1>3, <1>8, CallType DEF UpdateDeploy, Steps
<1>9. CASE GetOldSvc
  BY <1>1, <1>3, <1>9, ReadType DEF GetOldSvc, Steps
<1>10. CASE UpdateSvc
  BY <1>1, <1>2, <1>3, <1>10, CallType DEF UpdateSvc, Steps
<1>11. CASE Restart
  BY <1>1, <1>3, <1>11, RestartType DEF Restart, Steps
<1>12. CASE Environment /\ UNCHANGED localVars
  BY <1>12, EnvironmentType DEF RunTypeOK, WorkerTypeOK, localVars
<1>13. CASE (\E k \in Children : Provide(k)) /\ UNCHANGED localVars
  BY <1>13, ProvideType DEF RunTypeOK, WorkerTypeOK, localVars
<1>14. CASE UNCHANGED vars
  BY <1>14
  DEF vars, kubeVars, localVars, RunTypeOK, KubeTypeOK, WorkerTypeOK
<1> QED
  BY <1>4, <1>5, <1>6, <1>7, <1>8, <1>9, <1>10, <1>11, <1>12, <1>13, <1>14
  DEF Next, Reconcile

\* A step of the specification is one of Next's, and leaves the user's ports alone.
LEMMA SpecStep ==
    ASSUME [Next]_promVars
    PROVE  [Next]_vars /\ UNCHANGED unnumbered
BY DEF promVars, Next

\* The variables keep their types: in particular no cache is ever ahead of the
\* history it follows.
THEOREM TypeCorrect == Spec => []TypeOK
<1>1. Init => TypeOK
  BY InitType DEF Init, WorkerInit, TypeOK, RuntimeTypeOK, Steps
<1>2. TypeOK /\ [Next]_promVars => TypeOK'
  <2> SUFFICES ASSUME TypeOK, [Next]_promVars PROVE TypeOK'
    OBVIOUS
  <2>1. RunTypeOK'
    BY SpecStep, TypeStep DEF TypeOK, RunTypeOK
  <2> QED BY <2>1, SpecStep DEF TypeOK, RunTypeOK
<1> QED BY <1>1, <1>2, PTL DEF Spec

-----------------------------------------------------------------------------
(* The inductive invariant.                                                *)

\* Reconcile's copy is a snapshot its cache has held, and the newest one unless
\* the key was queued since.
CopyOK ==
    pc # "idle" =>
        /\ copy.spec # 0
        /\ copy.rv \in 1..seen["cr"]
        /\ CrLog[copy.rv] = [spec |-> copy.spec, ann |-> copy.ann,
                             deleting |-> FALSE]
        /\ dirty \/ copy.rv = seen["cr"]

\* What the reads already made have found.
FoundOK ==
    /\ pc \in {"getSvc", "saveSpec"} => Versions("deploy") # {}
    /\ pc = "saveSpec" => Versions("svc") # {}
    /\ pc \in {"getOldDeploy", "updateDeploy", "getOldSvc", "updateSvc"} =>
           copy.ann # 0

\* A worker that rests has seen the annotation, or is about to be told of it.
AwakeOK ==
    (pc = "idle" /\ ~dirty /\ ~backoff /\ Live(Cached("cr"))) =>
        Cached("cr").ann # 0 \/ seen["cr"] < Len(CrLog)

IInv == /\ RunTypeOK /\ HistoryOK /\ CopyOK /\ FoundOK /\ AdoptsBoth /\ AwakeOK

-----------------------------------------------------------------------------
(* Every write, and why it is made.                                        *)

\* Where there is none, or in the update of a child.
BuildsChild ==
    /\ version' = version
    /\ \E k \in Children, v \in Nat \ {0} :
           /\ Store(k, Built(v))
           /\ \/ Stored(k) = Absent
              \/ v = copy.spec /\ pc = "updateDeploy" /\ k = "deploy"
              \/ v = copy.spec /\ pc = "updateSvc" /\ k = "svc"

SavesSpec ==
    /\ version' = version
    /\ copy.spec # 0
    /\ \A k \in Children : Versions(k) # {}
    /\ Stored("cr") = [spec |-> copy.spec, ann |-> copy.ann, deleting |-> FALSE]
    /\ Store("cr", [spec |-> copy.spec, ann |-> copy.spec, deleting |-> FALSE])

\* What SaveSpec writes, it writes over the snapshot it was made from.
LEMMA SaveCases ==
    ASSUME RunTypeOK, CopyOK, FoundOK, SaveSpec
    PROVE  UNCHANGED <<version, log>> \/ SavesSpec
<1> DEFINE saved == [spec |-> copy.spec, ann |-> copy.spec, deleting |-> FALSE]
<1>1. pc = "saveSpec" /\ Call("cr", copy.rv = Len(log["cr"]), saved, "idle")
  BY DEF SaveSpec
<1>2. /\ copy.spec # 0 /\ \A k \in Children : Versions(k) # {}
      /\ CrLog[copy.rv] = [spec |-> copy.spec, ann |-> copy.ann,
                           deleting |-> FALSE]
  BY <1>1 DEF CopyOK, FoundOK
<1>3. /\ version' = version
      /\ UNCHANGED log \/ (copy.rv = Len(log["cr"]) /\ Store("cr", saved))
  BY <1>1, CallCases
<1> QED BY <1>2, <1>3 DEF SavesSpec, Stored, CrLog

\* A step makes at most one write, and only for one of these reasons.
LEMMA WriteCases ==
    ASSUME RunTypeOK, CopyOK, FoundOK, [Next]_vars
    PROVE  \/ UNCHANGED <<version, log>>
           \/ UserWrites
           \/ \E k \in Kinds : Removes(k)
           \/ MarksDeleting
           \/ BuildsChild
           \/ SavesSpec
<1>1. KubeTypeOK /\ copy.spec \in Nat
  BY DEF RunTypeOK, WorkerTypeOK
<1>2. CASE Begin \/ Restart \/ UNCHANGED vars
  BY <1>2 DEF Begin, Restart, vars, kubeVars
<1>3. CASE GetDeploy \/ GetDeployAgain \/ GetSvc
  BY <1>3, DecideCases
<1>4. CASE GetOldDeploy \/ GetOldSvc
  BY <1>4, ReadCases DEF GetOldDeploy, GetOldSvc
<1>5. CASE UpdateDeploy \/ UpdateSvc
  <2>1. copy.spec \in Nat \ {0}
    BY <1>1, <1>5 DEF CopyOK, UpdateDeploy, UpdateSvc
  <2>2. /\ version' = version
        /\ \/ UNCHANGED log
           \/ pc = "updateDeploy" /\ Store("deploy", Built(copy.spec))
           \/ pc = "updateSvc" /\ Store("svc", Built(copy.spec))
    BY <1>5, CallCases DEF UpdateDeploy, UpdateSvc
  <2> QED BY <2>1, <2>2 DEF BuildsChild
<1>6. CASE SaveSpec
  BY <1>6, SaveCases
<1>7. CASE Environment /\ UNCHANGED localVars
  BY <1>1, <1>7, EnvironmentWrites
<1>8. CASE \E k \in Children : Provide(k)
  <2>1. PICK k \in Children :
            Stored(k) = Absent /\ \E v \in 1..version : Store(k, Built(v))
    BY <1>8 DEF Provide
  <2>2. version \in Nat /\ version' = version
    BY <1>1, <1>8, RuntimeAssumption DEF Provide, KubeTypeOK
  <2>3. 1..version \subseteq Nat \ {0}
    BY <2>2
  <2> QED BY <2>1, <2>2, <2>3 DEF BuildsChild
<1> QED
  BY <1>2, <1>3, <1>4, <1>5, <1>6, <1>7, <1>8 DEF Next, Reconcile

\* What is written is an object, and has a spec unless it is a deletion.
LEMMA StepWrites ==
    ASSUME RunTypeOK, HistoryOK, CopyOK, FoundOK, [Next]_vars
    PROVE  \/ UNCHANGED <<version, log>>
           \/ \E k \in Kinds, obj \in Object :
                  Store(k, obj) /\ (obj.spec = 0 => obj = Absent)
<1>1. KubeTypeOK /\ copy.spec \in Nat /\ version \in Nat
  BY RuntimeAssumption DEF RunTypeOK, KubeTypeOK, WorkerTypeOK
<1>2. Stored("cr") \in Object /\ Absent \in Object
  BY <1>1, SnapshotTypes, ObjectTypes
<1>3. CASE UserWrites
  <2>1. PICK a \in {0, Stored("cr").ann}, d \in BOOLEAN :
            Store("cr", [spec |-> version + 1, ann |-> a, deleting |-> d])
    BY <1>3 DEF UserWrites
  <2>2. [spec |-> version + 1, ann |-> a, deleting |-> d] \in Object
    BY <1>1, <1>2 DEF Object
  <2>3. version + 1 # 0
    BY <1>1
  <2> QED BY <2>1, <2>2, <2>3
<1>4. CASE \E k \in Kinds : Removes(k)
  BY <1>2, <1>4 DEF Removes
<1>5. CASE MarksDeleting
  <2>1. [spec |-> Stored("cr").spec, ann |-> Stored("cr").ann,
         deleting |-> TRUE] \in Object
    BY <1>2 DEF Object
  <2>2. Stored("cr").spec # 0
    BY <1>1, <1>5, SnapshotTypes DEF HistoryOK, MarksDeleting, Stored
  <2> QED BY <1>5, <2>1, <2>2 DEF MarksDeleting
<1>6. CASE BuildsChild
  <2>1. PICK k \in Children, v \in Nat \ {0} : Store(k, Built(v))
    BY <1>6 DEF BuildsChild
  <2>2. Built(v) \in Object /\ Built(v).spec # 0
    BY ObjectTypes DEF Built
  <2> QED BY <2>1, <2>2
<1>7. CASE SavesSpec
  <2>1. [spec |-> copy.spec, ann |-> copy.spec, deleting |-> FALSE] \in Object
    BY <1>1 DEF Object
  <2> QED BY <1>7, <2>1 DEF SavesSpec
<1> QED BY <1>3, <1>4, <1>5, <1>6, <1>7, WriteCases

\* Histories and caches only go forward.
LEMMA StepGrows ==
    ASSUME RunTypeOK, HistoryOK, CopyOK, FoundOK, [Next]_vars
    PROVE  \A k \in Kinds :
               /\ Versions(k) \subseteq Versions(k)'
               /\ Len(log[k]) <= Len(log'[k])
               /\ \A i \in 1..Len(log[k]) : log'[k][i] = log[k][i]
               /\ seen[k] <= seen'[k]
               /\ seen[k] \in 1..Len(log[k])
<1>1. KubeTypeOK /\ \A k \in Kinds : Len(log[k]) \in Nat
  BY SnapshotTypes DEF RunTypeOK
<1>2. ASSUME NEW k \in Kinds
      PROVE  /\ Versions(k) \subseteq Versions(k)'
             /\ Len(log[k]) <= Len(log'[k])
             /\ \A i \in 1..Len(log[k]) : log'[k][i] = log[k][i]
  <2>1. CASE UNCHANGED log
    BY <1>1, <2>1 DEF Versions
  <2>2. CASE \E j \in Kinds, obj \in Object : Store(j, obj)
    BY <1>1, <2>2, StoreAppends, VersionsGrow
  <2> QED BY <2>1, <2>2, StepWrites
<1>3. \A k \in Kinds : seen[k] \in Nat /\ seen[k] \in 1..Len(log[k])
  BY <1>1 DEF KubeTypeOK
<1>4. \A k \in Kinds : seen[k] <= seen'[k]
  <2>1. CASE UNCHANGED seen
    BY <1>3, <2>1
  <2>2. CASE \E k \in Kinds : Watch(k)
    BY <1>1, <1>3, <2>2 DEF Watch, KubeTypeOK
  <2>3. CASE Environment \/ \E k \in Children : Provide(k)
    BY <2>1, <2>2, <2>3
    DEF Environment, Submit, Edit, WriteSpec, Delete, Vanish, Resync, RetryFires,
        Provide
  <2>4. CASE Reconcile \/ Restart \/ UNCHANGED vars
    BY <2>1, <2>4, CallCases, ReadCases, DecideCases
    DEF Reconcile, Restart, vars, kubeVars, Begin, SaveSpec, GetOldDeploy,
        UpdateDeploy, GetOldSvc, UpdateSvc
  <2> QED BY <2>3, <2>4 DEF Next
<1> QED BY <1>2, <1>3, <1>4

-----------------------------------------------------------------------------
(* The steps preserve the invariant.                                       *)

LEMMA HistoryStep == ASSUME IInv, [Next]_vars PROVE HistoryOK'
<1>1. KubeTypeOK /\ RunTypeOK /\ HistoryOK /\ CopyOK /\ FoundOK
  BY DEF IInv, RunTypeOK
<1>2. /\ version \in Nat /\ copy.spec \in Nat
      /\ Stored("cr") \in Object /\ Absent \in Object /\ Absent.spec = 0
  <2>1. version \in Nat /\ copy.spec \in Nat
    BY <1>1, RuntimeAssumption DEF RunTypeOK, KubeTypeOK, WorkerTypeOK
  <2>2. Stored("cr") \in Object
    BY <1>1, SnapshotTypes
  <2>3. Absent \in Object /\ Absent.spec = 0
    BY DEF Absent, Object
  <2> QED BY <2>1, <2>2, <2>3
<1>3. Stored("cr").spec <= version
  <2>1. Stored("cr") = CrLog[Len(CrLog)] /\ Len(CrLog) \in 1..Len(CrLog)
    BY <1>1, SnapshotTypes DEF Stored, CrLog
  <2> QED BY <1>1, <2>1 DEF HistoryOK
<1>4. CASE UNCHANGED <<version, log>>
  BY <1>1, <1>4 DEF HistoryOK, CrLog
<1>5. CASE UserWrites
  <2>1. PICK a \in {0, Stored("cr").ann}, d \in BOOLEAN :
            Store("cr", [spec |-> version + 1, ann |-> a, deleting |-> d])
    BY <1>5 DEF UserWrites
  <2>2. [spec |-> version + 1, ann |-> a, deleting |-> d] \in Object
    BY <1>2 DEF Object
  <2>3. version' = version + 1
    BY <1>5 DEF UserWrites
  <2> QED BY <1>1, <1>2, <2>1, <2>2, <2>3, HistoryStore
<1>6. CASE \E k \in Kinds : Removes(k)
  <2>1. PICK k \in Kinds : Store(k, Absent) /\ version' = version
    BY <1>6 DEF Removes
  <2> QED BY <1>1, <1>2, <2>1, HistoryStore
<1>7. CASE MarksDeleting
  <2>1. [spec |-> Stored("cr").spec, ann |-> Stored("cr").ann,
         deleting |-> TRUE] \in Object
    BY <1>2 DEF Object
  <2>2. Stored("cr").spec # 0
    BY <1>1, <1>7, SnapshotTypes DEF HistoryOK, MarksDeleting, Stored
  <2> QED BY <1>1, <1>2, <1>3, <1>7, <2>1, <2>2, HistoryStore DEF MarksDeleting
<1>8. CASE BuildsChild
  <2>1. PICK k \in Children, v \in Nat \ {0} : Store(k, Built(v))
    BY <1>8 DEF BuildsChild
  <2>2. Built(v) \in Object /\ Built(v).spec # 0 /\ version' = version
    BY <1>8, ObjectTypes DEF Built, BuildsChild
  <2> QED BY <1>1, <1>2, <2>1, <2>2, HistoryStore
<1>9. CASE SavesSpec
  <2>1. [spec |-> copy.spec, ann |-> copy.spec, deleting |-> FALSE] \in Object
    BY <1>2 DEF Object
  <2>2. copy.spec = Stored("cr").spec /\ copy.spec # 0
    BY <1>9 DEF SavesSpec
  <2> QED BY <1>1, <1>2, <1>3, <1>9, <2>1, <2>2, HistoryStore DEF SavesSpec
<1> QED BY <1>1, <1>4, <1>5, <1>6, <1>7, <1>8, <1>9, WriteCases

LEMMA CopyStep == ASSUME IInv, [Next]_vars PROVE CopyOK'
<1>1. RunTypeOK /\ KubeTypeOK /\ HistoryOK /\ CopyOK /\ FoundOK
  BY DEF IInv, RunTypeOK
<1>2. /\ copy \in [spec: Nat, ann: Nat, rv: Nat]
      /\ seen["cr"] \in 1..Len(CrLog) /\ seen["cr"] \in Nat
      /\ Cached("cr") \in Object
  BY <1>1, SnapshotTypes DEF RunTypeOK, KubeTypeOK, WorkerTypeOK, CrLog
<1>3. /\ seen["cr"] <= seen'["cr"] /\ seen'["cr"] \in Nat
      /\ Len(CrLog) \in Nat
      /\ \A i \in 1..Len(CrLog) : CrLog'[i] = CrLog[i]
  BY <1>1, StepGrows, TypeStep, SnapshotTypes DEF RunTypeOK, KubeTypeOK, CrLog
<1>4. ASSUME pc' = "idle"
      PROVE  CopyOK'
  BY <1>4 DEF CopyOK
<1>5. ASSUME copy' = copy, pc # "idle", dirty' \/ UNCHANGED <<seen, dirty>>
      PROVE  CopyOK'
  <2>1. /\ copy.spec # 0 /\ copy.rv \in 1..seen["cr"]
        /\ CrLog[copy.rv] = [spec |-> copy.spec, ann |-> copy.ann,
                             deleting |-> FALSE]
        /\ dirty \/ copy.rv = seen["cr"]
    BY <1>1, <1>5 DEF CopyOK
  <2>2. CrLog'[copy.rv] = CrLog[copy.rv] /\ copy.rv \in 1..seen'["cr"]
    BY <1>2, <1>3, <2>1
  <2> QED BY <1>5, <2>1, <2>2 DEF CopyOK
<1>6. CASE Begin
  <2>1. CASE /\ Cached("cr") # Absent /\ ~Cached("cr").deleting
             /\ pc' = "getDeploy"
             /\ copy' = Snapshot(Cached("cr"))
    <3>1. /\ Cached("cr") = CrLog[seen["cr"]]
          /\ Cached("cr").deleting = FALSE
      BY <1>2, <2>1 DEF Cached, CrLog, Object
    <3>2. /\ copy'.spec = Cached("cr").spec /\ copy'.ann = Cached("cr").ann
          /\ copy'.rv = seen["cr"]
      BY <2>1 DEF Snapshot
    <3>3. Cached("cr").spec # 0
      BY <1>1, <1>2, <2>1, <3>1 DEF HistoryOK, CrLog
    <3>4. CrLog'[seen["cr"]] = [spec |-> copy'.spec, ann |-> copy'.ann,
                                deleting |-> FALSE]
      BY <1>2, <1>3, <3>1, <3>2 DEF Object
    <3>5. seen' = seen
      BY <1>6 DEF Begin
    <3> QED BY <1>2, <2>1, <3>2, <3>3, <3>4, <3>5 DEF CopyOK
  <2> QED BY <1>4, <1>6, <2>1 DEF Begin, Goto, Fail
<1>7. CASE GetDeploy \/ GetDeployAgain \/ GetSvc
  <2>1. pc # "idle"
    BY <1>7 DEF GetDeploy, GetDeployAgain, GetSvc
  <2>2. pc' = "idle" \/ (copy' = copy /\ UNCHANGED <<seen, dirty>>)
    BY <1>7, DecideCases DEF Goto, Fail
  <2> QED BY <1>4, <1>5, <2>1, <2>2
<1>8. CASE SaveSpec \/ UpdateSvc \/ Restart
  BY <1>4, <1>8, CallCases DEF SaveSpec, UpdateSvc, Restart, Goto, Fail
<1>9. CASE GetOldDeploy \/ UpdateDeploy \/ GetOldSvc
  <2>1. pc # "idle"
    BY <1>9 DEF GetOldDeploy, UpdateDeploy, GetOldSvc
  <2>2. /\ UNCHANGED <<seen, dirty>>
        /\ Fail \/ \E s \in {"updateDeploy", "getOldSvc", "updateSvc"} : Goto(s)
    <3>1. CASE GetOldDeploy \/ GetOldSvc
      BY <3>1, ReadCases DEF GetOldDeploy, GetOldSvc
    <3>2. CASE UpdateDeploy
      BY <3>2, CallCases DEF UpdateDeploy
    <3> QED BY <1>9, <3>1, <3>2
  <2>3. pc' = "idle" \/ (copy' = copy /\ UNCHANGED <<seen, dirty>>)
    BY <2>2 DEF Goto, Fail
  <2> QED BY <1>4, <1>5, <2>1, <2>3
<1>10. CASE \/ Environment /\ UNCHANGED localVars
            \/ (\E k \in Children : Provide(k)) /\ UNCHANGED localVars
            \/ UNCHANGED vars
  <2>1. UNCHANGED <<pc, copy>>
    BY <1>10 DEF localVars, vars
  <2>2. CASE pc = "idle"
    BY <1>4, <2>1, <2>2
  <2>3. CASE pc # "idle" /\ dirty'
    BY <1>5, <2>1, <2>3
  <2>4. CASE pc # "idle" /\ ~dirty'
    <3>1. ~dirty /\ seen'["cr"] = seen["cr"]
      BY <1>1, <1>10, <2>4
      DEF vars, kubeVars, Environment, Submit, Edit, WriteSpec, Delete, Vanish,
          Watch, Resync, RetryFires, Provide, KubeTypeOK
    <3>2. CrLog'[seen["cr"]] = CrLog[seen["cr"]]
      BY <1>2, <1>3
    <3> QED BY <1>1, <1>2, <2>1, <2>4, <3>1, <3>2 DEF CopyOK
  <2> QED BY <2>2, <2>3, <2>4
<1> QED
  BY <1>6, <1>7, <1>8, <1>9, <1>10 DEF Next, Reconcile

\* A cached child was built from some spec.
LEMMA CachedVersions ==
    ASSUME KubeTypeOK, HistoryOK, NEW k \in Children, Cached(k) # Absent
    PROVE  Versions(k) # {}
<1>1. seen[k] \in 1..Len(log[k])
  BY DEF KubeTypeOK
<1>2. log[k][seen[k]].spec # 0
  BY <1>1 DEF HistoryOK, Cached
<1> QED BY <1>1, <1>2 DEF Versions

LEMMA FoundStep == ASSUME IInv, [Next]_vars PROVE FoundOK'
<1>1. RunTypeOK /\ KubeTypeOK /\ HistoryOK /\ CopyOK /\ FoundOK
  BY DEF IInv, RunTypeOK
<1>2. \A k \in Children : Versions(k) \subseteq Versions(k)'
  BY <1>1, StepGrows
<1>3. ASSUME pc' \in {"idle", "getDeploy", "getDeployAgain"}
      PROVE  FoundOK'
  BY <1>3 DEF FoundOK
<1>4. CASE Begin \/ Restart
  BY <1>3, <1>4 DEF Begin, Restart, Goto, Fail
<1>5. CASE SaveSpec \/ UpdateSvc
  BY <1>3, <1>5, CallCases DEF SaveSpec, UpdateSvc, Goto, Fail
<1>6. CASE GetDeploy \/ GetDeployAgain \/ GetSvc
  <2>1. CASE Fail \/ Goto("getDeployAgain")
    BY <1>3, <2>1 DEF Fail, Goto
  <2>2. CASE Goto("getOldDeploy") /\ copy.ann # 0
    BY <2>2 DEF Goto, FoundOK
  <2>3. CASE Goto("getSvc") /\ Cached("deploy") # Absent
    <3>1. Versions("deploy")' # {}
      BY <1>1, <1>2, <2>3, CachedVersions
    <3> QED BY <2>3, <3>1 DEF Goto, FoundOK
  <2>4. CASE GetSvc /\ Goto("saveSpec") /\ Cached("svc") # Absent
    <3>1. Versions("svc")' # {}
      BY <1>1, <1>2, <2>4, CachedVersions
    <3>2. Versions("deploy")' # {}
      BY <1>1, <1>2, <2>4 DEF GetSvc, FoundOK
    <3> QED BY <2>4, <3>1, <3>2 DEF Goto, FoundOK
  <2> QED BY <1>6, <2>1, <2>2, <2>3, <2>4, DecideCases
<1>7. CASE GetOldDeploy \/ UpdateDeploy \/ GetOldSvc
  <2>1. copy.ann # 0
    BY <1>1, <1>7 DEF FoundOK, GetOldDeploy, UpdateDeploy, GetOldSvc
  <2>2. Fail \/ \E s \in {"updateDeploy", "getOldSvc", "updateSvc"} : Goto(s)
    BY <1>7, CallCases, ReadCases DEF GetOldDeploy, UpdateDeploy, GetOldSvc
  <2> QED BY <1>3, <2>1, <2>2 DEF Fail, Goto, FoundOK
<1>8. CASE UNCHANGED <<pc, copy>>
  BY <1>1, <1>2, <1>8 DEF FoundOK
<1>9. CASE UNCHANGED localVars \/ UNCHANGED vars
  BY <1>8, <1>9 DEF localVars, vars
<1> QED
  BY <1>4, <1>5, <1>6, <1>7, <1>9 DEF Next, Reconcile

LEMMA AdoptsStep == ASSUME IInv, [Next]_vars PROVE AdoptsBoth'
<1>1. RunTypeOK /\ KubeTypeOK /\ HistoryOK /\ CopyOK /\ FoundOK /\ AdoptsBoth
  BY DEF IInv, RunTypeOK
<1>2. \A k \in Children : Versions(k) \subseteq Versions(k)'
  BY <1>1, StepGrows
<1>3. Stored("cr") \in Object /\ copy.spec \in Nat /\ version \in Nat
  BY <1>1, SnapshotTypes, RuntimeAssumption DEF RunTypeOK, KubeTypeOK, WorkerTypeOK
<1>4. ASSUME NEW obj \in Object, Store("cr", obj),
             obj.ann # 0 => \A k \in Children : Versions(k) # {}
      PROVE  AdoptsBoth'
  <2>1. Stored("cr")' = obj
    BY <1>1, <1>4, StoreAppends DEF Stored
  <2> QED BY <1>2, <1>4, <2>1 DEF AdoptsBoth
<1>5. ASSUME Stored("cr")' = Stored("cr")
      PROVE  AdoptsBoth'
  BY <1>1, <1>2, <1>5 DEF AdoptsBoth
<1>6. ASSUME NEW k \in Children, NEW obj \in Object, Store(k, obj)
      PROVE  AdoptsBoth'
  BY <1>1, <1>5, <1>6, StoreAppends DEF Stored
<1>7. CASE UNCHANGED <<version, log>>
  BY <1>5, <1>7 DEF Stored
<1>8. CASE UserWrites
  <2>1. PICK a \in {0, Stored("cr").ann}, d \in BOOLEAN :
            Store("cr", [spec |-> version + 1, ann |-> a, deleting |-> d])
    BY <1>8 DEF UserWrites
  <2>2. [spec |-> version + 1, ann |-> a, deleting |-> d] \in Object
    BY <1>3 DEF Object
  <2> QED BY <1>1, <1>4, <2>1, <2>2 DEF AdoptsBoth
<1>9. CASE \E k \in Kinds : Removes(k)
  <2>1. Absent \in Object /\ Absent.ann = 0
    BY DEF Absent, Object
  <2> QED BY <1>4, <1>6, <1>9, <2>1 DEF Removes
<1>10. CASE MarksDeleting
  <2>1. [spec |-> Stored("cr").spec, ann |-> Stored("cr").ann,
         deleting |-> TRUE] \in Object
    BY <1>3 DEF Object
  <2> QED BY <1>1, <1>4, <1>10, <2>1 DEF MarksDeleting, AdoptsBoth
<1>11. CASE BuildsChild
  BY <1>6, <1>11, ObjectTypes DEF BuildsChild
<1>12. CASE SavesSpec
  <2>1. [spec |-> copy.spec, ann |-> copy.spec, deleting |-> FALSE] \in Object
    BY <1>3 DEF Object
  <2> QED BY <1>4, <1>12, <2>1 DEF SavesSpec
<1> QED BY <1>1, <1>7, <1>8, <1>9, <1>10, <1>11, <1>12, WriteCases

LEMMA AwakeStep == ASSUME IInv, [Next]_vars PROVE AwakeOK'
<1>1. RunTypeOK /\ KubeTypeOK /\ HistoryOK /\ CopyOK /\ FoundOK /\ AwakeOK
  BY DEF IInv, RunTypeOK
<1>2. /\ seen["cr"] \in 1..Len(CrLog) /\ seen["cr"] \in Nat
      /\ Len(CrLog) \in Nat /\ Len(CrLog') \in Nat
      /\ Len(CrLog) <= Len(CrLog')
      /\ \A i \in 1..Len(CrLog) : CrLog'[i] = CrLog[i]
  <2>1. CrLog \in Seq(Object) /\ CrLog' \in Seq(Object) /\ seen["cr"] \in Nat
    BY <1>1, TypeStep DEF RunTypeOK, KubeTypeOK, CrLog
  <2> QED BY <1>1, <2>1, StepGrows DEF CrLog
<1>3. ASSUME seen'["cr"] = seen["cr"]
      PROVE  Cached("cr")' = Cached("cr")
  BY <1>2, <1>3 DEF Cached, CrLog
<1>4. ASSUME pc' # "idle" \/ dirty' \/ backoff'
      PROVE  AwakeOK'
  BY <1>4 DEF AwakeOK
<1>5. CASE Begin
  <2>1. UNCHANGED seen
    BY <1>5 DEF Begin
  <2>2. ~Live(Cached("cr")) \/ Fail \/ pc' = "getDeploy"
    BY <1>5 DEF Begin, Live
  <2> QED BY <1>3, <1>4, <2>1, <2>2 DEF AwakeOK, Fail
<1>6. CASE GetDeploy \/ GetDeployAgain \/ GetSvc
  BY <1>4, <1>6, DecideCases DEF Goto, Fail
<1>7. CASE GetOldDeploy \/ UpdateDeploy \/ GetOldSvc
  <2>1. Fail \/ pc' # "idle"
    BY <1>7, CallCases, ReadCases
    DEF GetOldDeploy, UpdateDeploy, GetOldSvc, Goto
  <2> QED BY <1>4, <2>1 DEF Fail
<1>8. CASE SaveSpec
  <2> DEFINE saved == [spec |-> copy.spec, ann |-> copy.spec, deleting |-> FALSE]
  <2>1. CASE Fail
    BY <1>4, <2>1 DEF Fail
  <2>2. CASE copy.rv = Len(CrLog) /\ Store("cr", saved) /\ UNCHANGED seen
    <3>1. copy.spec # 0 /\ copy.rv \in 1..seen["cr"] /\ copy.spec \in Nat
      BY <1>1, <1>8 DEF CopyOK, SaveSpec, RunTypeOK, WorkerTypeOK
    <3>2. seen["cr"] = Len(CrLog)
      BY <1>2, <2>2, <3>1
    <3>3. CASE saved = Stored("cr")
      <4>1. Cached("cr")' = saved
        BY <1>3, <2>2, <3>2, <3>3 DEF Cached, Stored, CrLog
      <4> QED BY <3>1, <4>1 DEF AwakeOK
    <3>4. CASE saved # Stored("cr")
      <4>1. CrLog' = Append(CrLog, saved)
        BY <1>1, <2>2, <3>4 DEF Store, CrLog, KubeTypeOK
      <4>2. Len(CrLog') = Len(CrLog) + 1
        BY <1>1, <3>1, <4>1 DEF CrLog, KubeTypeOK, Object
      <4>3. seen'["cr"] < Len(CrLog')
        BY <1>2, <2>2, <3>2, <4>2
      <4> QED BY <4>3 DEF AwakeOK
    <3> QED BY <3>3, <3>4
  <2>3. Call("cr", copy.rv = Len(CrLog), saved, "idle")
    BY <1>8 DEF SaveSpec, CrLog
  <2> QED BY <2>1, <2>2, <2>3, CallCases
<1>9. CASE UpdateSvc
  <2>1. CASE Fail
    BY <1>4, <2>1 DEF Fail
  <2>2. CASE dirty
    BY <1>4, <1>9, <2>2, CallCases DEF UpdateSvc
  <2>3. CASE ~dirty
    <3>1. /\ copy.ann # 0
          /\ Cached("cr").ann = copy.ann
      BY <1>1, <1>9, <2>3 DEF CopyOK, FoundOK, UpdateSvc, Cached, CrLog
    <3>2. seen' = seen
      BY <1>9, CallCases DEF UpdateSvc
    <3> QED BY <1>3, <3>1, <3>2 DEF AwakeOK
  <2> QED BY <2>1, <2>2, <2>3
<1>10. CASE Restart
  <2>1. Cached("cr")' = Cached("cr") /\ dirty' = (Cached("cr") # Absent)
    BY <1>3, <1>10 DEF Restart
  <2> QED BY <2>1 DEF AwakeOK, Live
<1>11. CASE Watch("cr") \/ Resync \/ RetryFires
  BY <1>4, <1>11 DEF Watch, Resync, RetryFires
<1>12. CASE /\ seen'["cr"] = seen["cr"]
            /\ UNCHANGED <<pc, dirty, backoff>>
  <2>1. seen["cr"] < Len(CrLog) => seen'["cr"] < Len(CrLog')
    BY <1>2, <1>12
  <2> QED BY <1>1, <1>3, <1>12, <2>1 DEF AwakeOK
<1>13. CASE Environment /\ UNCHANGED localVars
  <2>1. CASE \/ Submit \/ Edit \/ Delete \/ \E k \in Children : Vanish(k)
             \/ \E k \in Children : Watch(k)
    <3>1. seen'["cr"] = seen["cr"] /\ UNCHANGED <<dirty, backoff>>
      BY <1>1, <2>1
      DEF Submit, Edit, WriteSpec, Delete, Vanish, Watch, KubeTypeOK
    <3> QED BY <1>12, <1>13, <3>1 DEF localVars
  <2> QED BY <1>11, <1>13, <2>1 DEF Environment
<1>14. CASE (\E k \in Children : Provide(k)) /\ UNCHANGED localVars
  BY <1>12, <1>14 DEF Provide, localVars
<1>15. CASE UNCHANGED vars
  BY <1>12, <1>15 DEF vars, kubeVars, localVars
<1> QED
  BY <1>5, <1>6, <1>7, <1>8, <1>9, <1>10, <1>13, <1>14, <1>15
  DEF Next, Reconcile

-----------------------------------------------------------------------------
(* Theorems.                                                               *)

LEMMA InitInvariant == Init => IInv
<1> SUFFICES ASSUME Init PROVE IInv
  OBVIOUS
<1>1. RunTypeOK
  BY InitType DEF Init, WorkerInit, RunTypeOK, RuntimeTypeOK, Steps
<1>2. /\ \A k \in Kinds : Len(log[k]) = 1 /\ log[k][1] = Absent
      /\ version = 0 /\ pc = "idle" /\ seen["cr"] = 1
  BY DEF Init, WorkerInit, KubeInit
<1>3. Stored("cr") = Absent /\ Cached("cr") = Absent /\ Absent.ann = 0
  BY <1>2 DEF Stored, Cached, Absent
<1>4. HistoryOK
  <2>1. ASSUME NEW k \in Kinds, NEW i \in 1..Len(log[k])
        PROVE  log[k][i] = Absent
    <3>1. i \in 1..1
      BY <1>2
    <3> QED BY <1>2, <3>1
  <2>2. Absent.spec = 0
    BY DEF Absent
  <2>3. /\ \A i \in 1..Len(CrLog) : CrLog[i] = Absent
        /\ \A k \in Kinds : \A i \in 1..Len(log[k]) : log[k][i] = Absent
    BY <2>1 DEF CrLog
  <2> QED BY <1>2, <2>2, <2>3 DEF HistoryOK
<1>5. CopyOK /\ FoundOK
  BY <1>2 DEF CopyOK, FoundOK
<1>6. AdoptsBoth /\ AwakeOK
  BY <1>3 DEF AdoptsBoth, AwakeOK, Live
<1> QED BY <1>1, <1>4, <1>5, <1>6 DEF IInv

LEMMA InvariantStep == ASSUME IInv, [Next]_vars PROVE IInv'
<1>1. RunTypeOK'
  BY TypeStep DEF IInv
<1> QED
  BY <1>1, HistoryStep, CopyStep, FoundStep, AdoptsStep, AwakeStep DEF IInv

\* The inductive invariant holds: every copy, and what the reads of a pass have
\* found, agree with the histories.
THEOREM InvariantHolds == Spec => []IInv
<1>1. IInv /\ [Next]_vars => IInv'
  BY InvariantStep
<1>2. [Next]_promVars => [Next]_vars
  BY SpecStep
<1> QED BY InitInvariant, <1>1, <1>2, PTL DEF Spec

\* An annotation is only ever found on an object that had both children.
THEOREM AdoptsBothHolds == Spec => []AdoptsBoth
<1>1. IInv => AdoptsBoth
  BY DEF IInv
<1> QED BY <1>1, InvariantHolds, PTL

\* An object without the annotation is never forgotten by the queue.
THEOREM KeepsTryingHolds == Spec => []KeepsTrying
<1>1. IInv => KeepsTrying
  <2> SUFFICES ASSUME IInv, Live(Stored("cr")), Stored("cr").ann = 0,
                      ~dirty, ~backoff, pc = "idle", UpToDate("cr")
               PROVE  FALSE
    BY DEF KeepsTrying
  <2>1. Cached("cr") = Stored("cr") /\ seen["cr"] = Len(CrLog)
    BY DEF UpToDate, Cached, Stored, CrLog
  <2>2. Len(CrLog) \in Nat
    BY SnapshotTypes DEF IInv, RunTypeOK, CrLog
  <2>3. seen["cr"] < Len(CrLog)
    BY <2>1 DEF IInv, AwakeOK
  <2> QED BY <2>1, <2>2, <2>3
<1> QED BY <1>1, InvariantHolds, PTL

\* The worker never writes the resource but to add the annotation to the object
\* as it is, whatever annotation that has already.
THEOREM CommitFreshHolds == Spec => CommitFresh
<1> DEFINE A == LET old == Stored("cr")
                    new == Stored("cr")'
                IN  (localVars' # localVars /\ new # old) =>
                        /\ Live(old)
                        /\ new = [spec |-> old.spec, ann |-> old.spec,
                                  deleting |-> FALSE]
<1>1. IInv /\ [Next]_vars => [A]_vars
  <2> SUFFICES ASSUME IInv, [Next]_vars PROVE A
    OBVIOUS
  <2>1. KubeTypeOK /\ CopyOK /\ FoundOK /\ RunTypeOK /\ copy.spec \in Nat
    BY DEF IInv, RunTypeOK, WorkerTypeOK
  <2>2. CASE UNCHANGED log
    BY <2>2 DEF Stored
  <2>3. ASSUME NEW k \in Children, NEW obj \in Object, Store(k, obj)
        PROVE  A
    <3>1. Stored("cr")' = Stored("cr")
      BY <2>1, <2>3, StoreAppends DEF Stored
    <3> QED BY <3>1
  <2>4. CASE \/ Begin \/ GetDeploy \/ GetDeployAgain \/ GetSvc
            \/ GetOldDeploy \/ GetOldSvc \/ Restart
    <3>1. CASE Begin \/ Restart
      BY <2>2, <3>1 DEF Begin, Restart
    <3>2. CASE GetDeploy \/ GetDeployAgain \/ GetSvc
      BY <2>2, <3>2, DecideCases
    <3>3. CASE GetOldDeploy \/ GetOldSvc
      BY <2>2, <3>3, ReadCases DEF GetOldDeploy, GetOldSvc
    <3> QED BY <2>4, <3>1, <3>2, <3>3
  <2>5. CASE UpdateDeploy \/ UpdateSvc
    <3>1. Built(copy.spec) \in Object
      BY <2>1, ObjectTypes
    <3>2. \/ UNCHANGED log
          \/ \E k \in Children : Store(k, Built(copy.spec))
      BY <2>5, CallCases DEF UpdateDeploy, UpdateSvc
    <3> QED BY <2>2, <2>3, <3>1, <3>2
  <2>6. CASE SavesSpec
    <3>1. [spec |-> copy.spec, ann |-> copy.spec, deleting |-> FALSE] \in Object
      BY <2>1 DEF Object
    <3>2. Stored("cr")' = [spec |-> copy.spec, ann |-> copy.spec,
                           deleting |-> FALSE]
      BY <2>1, <2>6, <3>1, StoreAppends DEF SavesSpec, Stored
    <3>3. /\ Stored("cr").spec = copy.spec /\ copy.spec # 0
          /\ Stored("cr").deleting = FALSE
      BY <2>6 DEF SavesSpec
    <3>4. Live(Stored("cr"))
      BY <3>3 DEF Live, Absent
    <3> QED BY <3>2, <3>3, <3>4
  <2>7. CASE SaveSpec
    BY <2>1, <2>2, <2>6, <2>7, SaveCases
  <2>8. CASE UNCHANGED localVars \/ UNCHANGED vars
    BY <2>8 DEF vars
  <2> QED BY <2>4, <2>5, <2>7, <2>8 DEF Next, Reconcile
<1>2. [Next]_promVars => [Next]_vars
  BY SpecStep
<1> QED BY <1>1, InvariantHolds, <1>2, PTL DEF Spec, CommitFresh
-----------------------------------------------------------------------------
(* The order of the updates.                                               *)

\* The Service is only worked on after the Deployment got the same spec.
DeployFirst ==
    pc \in {"getOldSvc", "updateSvc"} => copy.spec \in Versions("deploy")

\* What was put into a child was read from the history, and no later than the
\* copy of the pass under way.
PassedOK ==
    \A k \in Children : \A i \in Overwrites(k) :
        \E q \in 1..seen["cr"] :
            /\ CrLog[q].spec = log[k][i].spec
            /\ pc # "idle" => q <= copy.rv

UInv == IInv /\ DeployFirst /\ PassedOK /\ OverwritesInOrder

LEMMA UInvFacts ==
    ASSUME UInv
    PROVE  /\ RunTypeOK /\ KubeTypeOK /\ HistoryOK /\ CopyOK /\ FoundOK
           /\ copy \in [spec: Nat, ann: Nat, rv: Nat]
           /\ \A k \in Kinds : Len(log[k]) \in Nat /\ Len(log[k]) \in 1..Len(log[k])
           /\ seen["cr"] \in 1..Len(CrLog) /\ seen["cr"] \in Nat
<1>1. RunTypeOK /\ KubeTypeOK /\ HistoryOK /\ CopyOK /\ FoundOK
  BY DEF UInv, IInv, RunTypeOK
<1> QED BY <1>1, SnapshotTypes DEF RunTypeOK, KubeTypeOK, WorkerTypeOK, CrLog

\* A child is only replaced by the update of that child, with the copy's spec.
LEMMA OverwriteCases ==
    ASSUME UInv, [Next]_vars, NEW k \in Children, NEW i \in Overwrites(k)'
    PROVE  \/ i \in Overwrites(k) /\ log'[k][i] = log[k][i]
           \/ /\ i = Len(log[k]) + 1
              /\ log'[k][i].spec = copy.spec
              /\ \/ pc = "updateDeploy" /\ k = "deploy"
                 \/ pc = "updateSvc" /\ k = "svc"
<1>1. /\ RunTypeOK /\ KubeTypeOK /\ HistoryOK /\ CopyOK /\ FoundOK
      /\ Len(log[k]) \in Nat
  BY UInvFacts
<1>2. /\ i \in 2..Len(log'[k])
      /\ log'[k][i] # Absent /\ log'[k][i - 1] # Absent
  BY DEF Overwrites
<1>3. /\ Len(log'[k]) \in Nat /\ Len(log[k]) <= Len(log'[k])
      /\ \A j \in 1..Len(log[k]) : log'[k][j] = log[k][j]
  <2>1. RunTypeOK'
    BY <1>1, TypeStep
  <2>2. Len(log'[k]) \in Nat
    BY <2>1 DEF RunTypeOK, KubeTypeOK
  <2> QED BY <1>1, <2>2, StepGrows
<1>4. CASE i <= Len(log[k])
  <2>1. i \in 2..Len(log[k]) /\ i \in 1..Len(log[k]) /\ i - 1 \in 1..Len(log[k])
    BY <1>1, <1>2, <1>3, <1>4
  <2> QED BY <1>2, <1>3, <2>1 DEF Overwrites
<1>5. CASE ~(i <= Len(log[k]))
  <2>1. ASSUME NEW j \in Kinds, NEW obj \in Object, Store(j, obj)
        PROVE  /\ j = k /\ i = Len(log[k]) + 1
               /\ log'[k][i] = obj /\ obj # Absent /\ Stored(k) # Absent
    <3>1. j = k
      BY <1>1, <1>2, <1>5, <2>1, StoreAppends
    <3>2. /\ log'[k][Len(log'[k])] = obj
          /\ log'[k] = log[k] \/ Len(log'[k]) = Len(log[k]) + 1
      BY <1>1, <2>1, <3>1, StoreAppends
    <3>3. i = Len(log[k]) + 1 /\ Len(log'[k]) = i /\ i - 1 = Len(log[k])
      BY <1>1, <1>2, <1>3, <1>5, <3>2
    <3>4. Len(log[k]) \in 1..Len(log[k])
      BY <1>1, SnapshotTypes
    <3>5. log'[k][i - 1] = Stored(k)
      BY <1>3, <3>3, <3>4 DEF Stored
    <3> QED BY <1>2, <3>1, <3>2, <3>3, <3>5
  <2>2. Stored("cr") \in Object /\ copy.spec \in Nat /\ version \in Nat
    BY <1>1, UInvFacts, SnapshotTypes, RuntimeAssumption DEF KubeTypeOK
  <2>3. CASE UNCHANGED <<version, log>>
    BY <1>1, <1>2, <1>5, <2>3
  <2>4. CASE UserWrites
    <3>1. PICK a \in {0, Stored("cr").ann}, d \in BOOLEAN :
              Store("cr", [spec |-> version + 1, ann |-> a, deleting |-> d])
      BY <2>4 DEF UserWrites
    <3>2. [spec |-> version + 1, ann |-> a, deleting |-> d] \in Object
      BY <2>2 DEF Object
    <3> QED BY <2>1, <3>1, <3>2
  <2>5. CASE \E j \in Kinds : Removes(j)
    <3>1. Absent \in Object
      BY DEF Absent, Object
    <3> QED BY <2>1, <2>5, <3>1 DEF Removes
  <2>6. CASE MarksDeleting
    <3>1. [spec |-> Stored("cr").spec, ann |-> Stored("cr").ann,
           deleting |-> TRUE] \in Object
      BY <2>2 DEF Object
    <3> QED BY <2>1, <2>6, <3>1 DEF MarksDeleting
  <2>7. CASE BuildsChild
    <3>1. PICK j \in Children, v \in Nat \ {0} :
              /\ Store(j, Built(v))
              /\ \/ Stored(j) = Absent
                 \/ v = copy.spec /\ pc = "updateDeploy" /\ j = "deploy"
                 \/ v = copy.spec /\ pc = "updateSvc" /\ j = "svc"
      BY <2>7 DEF BuildsChild
    <3>2. Built(v) \in Object /\ Built(v).spec = v
      BY ObjectTypes DEF Built
    <3>3. /\ j = k /\ i = Len(log[k]) + 1
          /\ log'[k][i] = Built(v) /\ Stored(k) # Absent
      BY <2>1, <3>1, <3>2
    <3> QED BY <3>1, <3>2, <3>3
  <2>8. CASE SavesSpec
    <3>1. [spec |-> copy.spec, ann |-> copy.spec, deleting |-> FALSE] \in Object
      BY <2>2 DEF Object
    <3> QED BY <2>1, <2>8, <3>1 DEF SavesSpec
  <2> QED BY <1>1, <2>3, <2>4, <2>5, <2>6, <2>7, <2>8, WriteCases
<1> QED BY <1>4, <1>5

\* A pass keeps the copy it began with.
LEMMA CopyCases ==
    ASSUME [Next]_vars
    PROVE  \/ pc' = "idle"
           \/ pc = "idle" /\ copy'.rv = seen["cr"]
           \/ pc # "idle" /\ copy' = copy
<1>1. CASE Begin
  BY <1>1 DEF Begin, Goto, Fail, Snapshot
<1>2. CASE GetDeploy \/ GetDeployAgain \/ GetSvc
  <2>1. pc # "idle"
    BY <1>2 DEF GetDeploy, GetDeployAgain, GetSvc
  <2> QED BY <1>2, <2>1, DecideCases DEF Goto, Fail
<1>3. CASE SaveSpec \/ UpdateSvc \/ Restart
  BY <1>3, CallCases DEF SaveSpec, UpdateSvc, Restart, Goto, Fail
<1>4. CASE GetOldDeploy \/ UpdateDeploy \/ GetOldSvc
  <2>1. pc # "idle"
    BY <1>4 DEF GetOldDeploy, UpdateDeploy, GetOldSvc
  <2> QED
    BY <1>4, <2>1, CallCases, ReadCases
    DEF GetOldDeploy, UpdateDeploy, GetOldSvc, Goto, Fail
<1>5. CASE UNCHANGED localVars \/ UNCHANGED vars
  BY <1>5 DEF localVars, vars
<1> QED BY <1>1, <1>2, <1>3, <1>4, <1>5 DEF Next, Reconcile

LEMMA DeployFirstStep == ASSUME UInv, [Next]_vars PROVE DeployFirst'
<1>1. /\ RunTypeOK /\ KubeTypeOK /\ HistoryOK /\ CopyOK /\ FoundOK
      /\ copy.spec \in Nat /\ DeployFirst
  BY UInvFacts DEF UInv
<1>2. Versions("deploy") \subseteq Versions("deploy")'
  BY <1>1, StepGrows
<1>3. ASSUME pc' \notin {"getOldSvc", "updateSvc"}
      PROVE  DeployFirst'
  BY <1>3 DEF DeployFirst
<1>4. CASE \/ Begin \/ GetDeploy \/ GetDeployAgain \/ GetSvc
           \/ SaveSpec \/ GetOldDeploy \/ UpdateSvc \/ Restart
  <2>1. CASE Begin \/ Restart
    BY <1>3, <2>1 DEF Begin, Restart, Goto, Fail
  <2>2. CASE GetDeploy \/ GetDeployAgain \/ GetSvc
    BY <1>3, <2>2, DecideCases DEF Goto, Fail
  <2>3. CASE SaveSpec \/ UpdateSvc
    <3>1. Fail \/ Goto("idle")
      BY <2>3, CallCases DEF SaveSpec, UpdateSvc
    <3> QED BY <1>3, <3>1 DEF Goto, Fail
  <2>4. CASE GetOldDeploy
    <3>1. Fail \/ Goto("updateDeploy")
      BY <2>4, ReadCases DEF GetOldDeploy
    <3> QED BY <1>3, <3>1 DEF Goto, Fail
  <2> QED BY <1>4, <2>1, <2>2, <2>3, <2>4
<1>5. CASE UpdateDeploy
  <2>1. CASE Fail
    BY <1>3, <2>1 DEF Fail
  <2>2. CASE Store("deploy", Built(copy.spec)) /\ Goto("getOldSvc")
    <3>1. copy.spec # 0 /\ Built(copy.spec) \in Object
      BY <1>1, <1>5, ObjectTypes DEF CopyOK, UpdateDeploy
    <3>2. log'["deploy"][Len(log'["deploy"])] = Built(copy.spec)
      BY <1>1, <2>2, <3>1, StoreAppends
    <3>3. Len(log'["deploy"]) \in 1..Len(log'["deploy"])
      <4>1. RunTypeOK'
        BY <1>1, TypeStep
      <4>2. /\ log'["deploy"] \in Seq(Object)
            /\ seen'["deploy"] \in 1..Len(log'["deploy"])
        BY <4>1 DEF RunTypeOK, KubeTypeOK
      <4> QED BY <4>2
    <3>4. copy.spec \in Versions("deploy")'
      BY <3>1, <3>2, <3>3 DEF Versions, Built
    <3> QED BY <2>2, <3>4 DEF Goto, DeployFirst
  <2> QED BY <1>5, <2>1, <2>2, CallCases DEF UpdateDeploy
<1>6. CASE GetOldSvc
  <2>1. Fail \/ Goto("updateSvc")
    BY <1>6, ReadCases DEF GetOldSvc
  <2>2. copy.spec \in Versions("deploy")'
    BY <1>1, <1>2, <1>6 DEF GetOldSvc, DeployFirst
  <2> QED BY <1>3, <2>1, <2>2 DEF Fail, Goto, DeployFirst
<1>7. CASE UNCHANGED localVars \/ UNCHANGED vars
  <2>1. UNCHANGED <<pc, copy>>
    BY <1>7 DEF localVars, vars
  <2> QED BY <1>1, <1>2, <2>1 DEF DeployFirst
<1> QED BY <1>4, <1>5, <1>6, <1>7 DEF Next, Reconcile

LEMMA PassedStep == ASSUME UInv, [Next]_vars PROVE PassedOK'
<1>1. /\ RunTypeOK /\ KubeTypeOK /\ HistoryOK /\ CopyOK /\ FoundOK /\ PassedOK
      /\ copy \in [spec: Nat, ann: Nat, rv: Nat]
      /\ seen["cr"] \in 1..Len(CrLog) /\ seen["cr"] \in Nat
      /\ Len(CrLog) \in Nat
  BY UInvFacts DEF UInv, CrLog
<1>2. /\ seen["cr"] <= seen'["cr"] /\ seen'["cr"] \in Nat
      /\ \A q \in 1..Len(CrLog) : CrLog'[q] = CrLog[q]
  BY <1>1, StepGrows, TypeStep DEF RunTypeOK, KubeTypeOK, CrLog
<1>3. SUFFICES ASSUME NEW k \in Children, NEW i \in Overwrites(k)'
               PROVE  \E q \in 1..seen'["cr"] :
                          /\ CrLog'[q].spec = log'[k][i].spec
                          /\ pc' # "idle" => q <= copy'.rv
  BY DEF PassedOK
<1>4. ASSUME NEW q \in 1..seen["cr"],
             CrLog[q].spec = log'[k][i].spec,
             pc # "idle" => q <= copy.rv
      PROVE  \E p \in 1..seen'["cr"] :
                 /\ CrLog'[p].spec = log'[k][i].spec
                 /\ pc' # "idle" => p <= copy'.rv
  <2>1. q \in 1..seen'["cr"] /\ CrLog'[q] = CrLog[q] /\ q <= seen["cr"]
    BY <1>1, <1>2
  <2>2. pc' # "idle" => q <= copy'.rv
    BY <1>4, <2>1, CopyCases
  <2> QED BY <1>4, <2>1, <2>2
<1>5. CASE i \in Overwrites(k) /\ log'[k][i] = log[k][i]
  <2>1. PICK q \in 1..seen["cr"] : /\ CrLog[q].spec = log[k][i].spec
                                   /\ pc # "idle" => q <= copy.rv
    BY <1>1, <1>5 DEF PassedOK
  <2> QED BY <1>4, <1>5, <2>1
<1>6. CASE log'[k][i].spec = copy.spec /\ pc # "idle"
  <2>1. /\ copy.rv \in 1..seen["cr"]
        /\ CrLog[copy.rv].spec = copy.spec
        /\ copy.rv <= copy.rv
    BY <1>1, <1>6 DEF CopyOK
  <2> QED BY <1>4, <1>6, <2>1
<1> QED BY <1>5, <1>6, OverwriteCases

LEMMA OverwritesStep == ASSUME UInv, [Next]_vars PROVE OverwritesInOrder'
<1>1. /\ RunTypeOK /\ KubeTypeOK /\ HistoryOK /\ CopyOK /\ FoundOK
      /\ DeployFirst /\ PassedOK /\ OverwritesInOrder
      /\ copy \in [spec: Nat, ann: Nat, rv: Nat]
      /\ seen["cr"] \in 1..Len(CrLog) /\ seen["cr"] \in Nat
      /\ Len(CrLog) \in Nat
  BY UInvFacts DEF UInv, CrLog
<1>2. ASSUME NEW k \in Children, NEW i \in Overwrites(k), pc # "idle"
      PROVE  log[k][i].spec <= copy.spec
  <2>1. PICK q \in 1..seen["cr"] :
            CrLog[q].spec = log[k][i].spec /\ q <= copy.rv
    BY <1>1, <1>2 DEF PassedOK
  <2>2. /\ copy.rv \in 1..Len(CrLog) /\ q \in 1..Len(CrLog)
        /\ CrLog[copy.rv].spec = copy.spec /\ copy.spec # 0
    BY <1>1, <1>2 DEF CopyOK
  <2> QED BY <1>1, <2>1, <2>2 DEF HistoryOK
<1>3. ASSUME NEW k \in Children,
             NEW i \in Overwrites(k)', NEW j \in Overwrites(k)', i < j
      PROVE  log'[k][i].spec <= log'[k][j].spec
  <2>1. /\ Len(log[k]) \in Nat
        /\ \A n \in Overwrites(k) : n \in Nat /\ n <= Len(log[k])
    BY UInvFacts DEF Overwrites
  <2>2. \/ i \in Overwrites(k) /\ log'[k][i] = log[k][i]
        \/ i = Len(log[k]) + 1
    BY OverwriteCases
  <2>3. \/ j \in Overwrites(k) /\ log'[k][j] = log[k][j]
        \/ j = Len(log[k]) + 1 /\ log'[k][j].spec = copy.spec /\ pc # "idle"
    BY OverwriteCases
  <2>4. CASE j \in Overwrites(k) /\ log'[k][j] = log[k][j]
    <3>1. i \in Overwrites(k) /\ log'[k][i] = log[k][i]
      BY <1>3, <2>1, <2>2, <2>4
    <3> QED BY <1>1, <1>3, <2>4, <3>1 DEF OverwritesInOrder
  <2>5. CASE j = Len(log[k]) + 1 /\ log'[k][j].spec = copy.spec /\ pc # "idle"
    <3>1. i \in Overwrites(k) /\ log'[k][i] = log[k][i]
      BY <1>3, <2>1, <2>2, <2>5
    <3> QED BY <1>2, <2>5, <3>1
  <2> QED BY <2>3, <2>4, <2>5
<1>4. ASSUME NEW i \in Overwrites("svc")'
      PROVE  log'["svc"][i].spec \in Versions("deploy")'
  <2>1. Versions("deploy") \subseteq Versions("deploy")'
    BY <1>1, StepGrows
  <2>2. \/ i \in Overwrites("svc") /\ log'["svc"][i] = log["svc"][i]
        \/ log'["svc"][i].spec = copy.spec /\ pc = "updateSvc"
    BY <1>4, OverwriteCases
  <2> QED BY <1>1, <2>1, <2>2 DEF OverwritesInOrder, DeployFirst
<1> QED BY <1>3, <1>4 DEF OverwritesInOrder

\* What the operator puts into the children never goes back to an older spec, and
\* reaches the Deployment before the Service: for any number of user's writes,
\* failed calls, crashes and children that vanish or are provided by hand.
THEOREM OverwritesInOrderHolds == Spec => []OverwritesInOrder
<1>1. Init => UInv
  <2> SUFFICES ASSUME Init PROVE UInv
    OBVIOUS
  <2>1. \A k \in Kinds : Len(log[k]) = 1
    BY DEF Init, WorkerInit, KubeInit
  <2>2. \A k \in Children : Overwrites(k) = {}
    BY <2>1 DEF Overwrites
  <2>3. pc = "idle"
    BY DEF Init, WorkerInit
  <2> QED
    BY <2>2, <2>3, InitInvariant
    DEF UInv, DeployFirst, PassedOK, OverwritesInOrder
<1>2. UInv /\ [Next]_vars => UInv'
  <2> SUFFICES ASSUME UInv, [Next]_vars PROVE UInv'
    OBVIOUS
  <2>1. IInv'
    BY InvariantStep DEF UInv
  <2> QED
    BY <2>1, DeployFirstStep, PassedStep, OverwritesStep DEF UInv
<1>3. UInv => OverwritesInOrder
  BY DEF UInv
<1>4. [Next]_promVars => [Next]_vars
  BY SpecStep
<1> QED BY <1>1, <1>2, <1>3, <1>4, PTL DEF Spec
=============================================================================
