---------------------------- MODULE WorkerProofs ----------------------------
(***************************************************************************)
(* What the steps of the API server, of the informers and of the worker do *)
(* to their types and to the histories, for any operator.                  *)
(***************************************************************************)
EXTENDS Worker, TLAPS

USE DEF Kinds, Children, Mishaps

RuntimeTypeOK == KubeTypeOK /\ WorkerTypeOK

-----------------------------------------------------------------------------
(* Types.                                                                  *)

\* What the operators build, and its absence, can be stored.
LEMMA ObjectTypes ==
    ASSUME NEW v \in Nat
    PROVE  Built(v) \in Object /\ Absent \in Object
BY DEF Built, Absent, Object

\* What the API server stores and what a cache holds are snapshots.
LEMMA SnapshotTypes ==
    ASSUME KubeTypeOK, NEW k \in Kinds
    PROVE  /\ Stored(k) \in Object
           /\ Cached(k) \in Object
           /\ Len(log[k]) \in Nat
           /\ Len(log[k]) \in 1..Len(log[k])
<1>1. log[k] \in Seq(Object) /\ seen[k] \in 1..Len(log[k])
  BY DEF KubeTypeOK
<1>2. Len(log[k]) \in Nat /\ Len(log[k]) \in 1..Len(log[k])
  BY <1>1
<1> QED BY <1>1, <1>2 DEF Cached, Stored

\* A write appends at most one snapshot to one history and changes nothing that
\* was stored before.
LEMMA StoreAppends ==
    ASSUME KubeTypeOK, NEW k \in Kinds, NEW obj \in Object, Store(k, obj)
    PROVE  /\ log' \in [Kinds -> Seq(Object)]
           /\ \A j \in Kinds :
                  /\ Len(log[j]) <= Len(log'[j])
                  /\ \A i \in 1..Len(log[j]) : log'[j][i] = log[j][i]
           /\ \A j \in Kinds \ {k} : log'[j] = log[j]
           /\ log'[k][Len(log'[k])] = obj
           /\ \/ log'[k] = log[k]
              \/ Len(log'[k]) = Len(log[k]) + 1
<1>1. CASE obj = Stored(k)
  BY <1>1 DEF Store, KubeTypeOK, Stored
<1>2. CASE obj # Stored(k)
  <2>1. log' = [log EXCEPT ![k] = Append(log[k], obj)]
    BY <1>2 DEF Store
  <2>2. /\ log[k] \in Seq(Object)
        /\ Append(log[k], obj) \in Seq(Object)
        /\ Len(Append(log[k], obj)) = Len(log[k]) + 1
        /\ \A i \in 1..Len(log[k]) : Append(log[k], obj)[i] = log[k][i]
        /\ Append(log[k], obj)[Len(log[k]) + 1] = obj
    BY DEF KubeTypeOK
  <2>3. \A j \in Kinds : Len(log[j]) \in Nat
    BY DEF KubeTypeOK
  <2> QED BY <2>1, <2>2, <2>3 DEF KubeTypeOK
<1> QED BY <1>1, <1>2

\* A write leaves the histories and the informers' positions well typed.
LEMMA StoreType ==
    ASSUME KubeTypeOK, NEW k \in Kinds, NEW obj \in Object, Store(k, obj)
    PROVE  /\ log' \in [Kinds -> Seq(Object)]
           /\ \A j \in Kinds : seen[j] \in 1..Len(log'[j])
<1>1. \A j \in Kinds : Len(log[j]) \in Nat /\ seen[j] \in 1..Len(log[j])
  BY SnapshotTypes DEF KubeTypeOK
<1>2. /\ log' \in [Kinds -> Seq(Object)]
      /\ \A j \in Kinds : Len(log[j]) <= Len(log'[j])
  BY StoreAppends
<1>3. \A j \in Kinds : Len(log'[j]) \in Nat
  BY <1>2
<1> QED BY <1>1, <1>2, <1>3

LEMMA SpendType ==
    ASSUME budget \in [Mishaps -> Nat], NEW m \in Mishaps, Spend(m)
    PROVE  budget' \in [Mishaps -> Nat]
BY DEF Spend

\* The initial state is well typed.
LEMMA InitType == WorkerInit => RuntimeTypeOK
<1> SUFFICES ASSUME WorkerInit PROVE RuntimeTypeOK
  OBVIOUS
<1>1. \A k \in Kinds : log[k] = <<Absent>> /\ Len(log[k]) = 1 /\ seen[k] = 1
  BY DEF WorkerInit, KubeInit
<1>2. <<Absent>> \in Seq(Object)
  BY ObjectTypes
<1>3. /\ log \in [Kinds -> Seq(Object)]
      /\ seen \in [Kinds -> Nat]
      /\ \A k \in Kinds : seen[k] \in 1..Len(log[k])
  <2>1. ASSUME NEW k \in Kinds PROVE seen[k] \in 1..Len(log[k])
    <3>1. 1 \in 1..1
      OBVIOUS
    <3>2. seen[k] = 1 /\ Len(log[k]) = 1
      BY <1>1
    <3> QED BY <3>1, <3>2
  <2>2. log \in [Kinds -> Seq(Object)]
    <3> DEFINE first == <<Absent>>
    <3>1. log = [k \in Kinds |-> first]
      BY DEF WorkerInit, KubeInit
    <3> HIDE DEF first
    <3> QED BY <1>2, <3>1 DEF first
  <2>3. seen \in [Kinds -> Nat]
    BY DEF WorkerInit, KubeInit
  <2> QED BY <2>1, <2>2, <2>3
<1>4. KubeTypeOK
  <2>1. version \in 0..MaxVersion /\ budget \in [Mishaps -> Nat]
    BY RuntimeAssumption DEF WorkerInit, KubeInit
  <2>2. dirty \in BOOLEAN /\ backoff \in BOOLEAN
    BY DEF WorkerInit, KubeInit
  <2> QED BY <1>3, <2>1, <2>2 DEF KubeTypeOK
<1> QED BY <1>4 DEF WorkerInit, Zero, WorkerTypeOK, RuntimeTypeOK

\* No step of the users, the informers and the timers breaks the types.
LEMMA EnvironmentType ==
    ASSUME KubeTypeOK, Environment
    PROVE  KubeTypeOK'
<1>1. ASSUME NEW a \in Nat, NEW d \in BOOLEAN, WriteSpec(a, d)
      PROVE  KubeTypeOK'
  <2>1. [spec |-> version + 1, ann |-> a, deleting |-> d] \in Object
    BY RuntimeAssumption DEF Object, KubeTypeOK
  <2>2. /\ log' \in [Kinds -> Seq(Object)]
        /\ \A j \in Kinds : seen[j] \in 1..Len(log'[j])
    BY <1>1, <2>1, StoreType DEF WriteSpec
  <2>3. version' \in 0..MaxVersion
    BY <1>1, RuntimeAssumption DEF WriteSpec, KubeTypeOK
  <2> QED BY <1>1, <2>2, <2>3 DEF WriteSpec, KubeTypeOK
<1>2. ASSUME NEW k \in Kinds, NEW obj \in Object, Store(k, obj),
             UNCHANGED <<version, seen, dirty, backoff>>,
             budget' \in [Mishaps -> Nat]
      PROVE  KubeTypeOK'
  BY <1>2, StoreType DEF KubeTypeOK
<1>3. Stored("cr") \in Object /\ Absent \in Object
  BY SnapshotTypes, ObjectTypes
<1>4. CASE Submit
  BY <1>4, <1>1 DEF Submit
<1>5. CASE Edit
  BY <1>5, <1>1, <1>3 DEF Edit, Object
<1>6. CASE Delete
  <2>1. [spec |-> Stored("cr").spec, ann |-> Stored("cr").ann,
         deleting |-> TRUE] \in Object
    BY <1>3 DEF Object
  <2>2. budget' \in [Mishaps -> Nat]
    BY <1>6 DEF Delete, KubeTypeOK
  <2> QED BY <1>6, <2>1, <2>2, <1>2, <1>3 DEF Delete
<1>7. ASSUME NEW k \in Children, Vanish(k)
      PROVE  KubeTypeOK'
  BY <1>7, <1>2, <1>3, SpendType DEF Vanish, KubeTypeOK
<1>8. ASSUME NEW k \in Kinds, Watch(k)
      PROVE  KubeTypeOK'
  <2>1. seen' \in [Kinds -> Nat] /\ \A j \in Kinds : seen'[j] \in 1..Len(log[j])
    BY <1>8, SnapshotTypes DEF Watch, KubeTypeOK
  <2>2. dirty' \in BOOLEAN
    BY <1>8 DEF Watch, KubeTypeOK
  <2> QED BY <1>8, <2>1, <2>2 DEF Watch, KubeTypeOK
<1>9. CASE Resync \/ RetryFires
  BY <1>9 DEF Resync, RetryFires, KubeTypeOK
<1> QED BY <1>4, <1>5, <1>6, <1>7, <1>8, <1>9 DEF Environment

\* Nor does Reconcile, whether it goes on or returns.
LEMMA GotoType ==
    ASSUME RuntimeTypeOK, NEW step, Goto(step) \/ Fail
    PROVE  /\ pc' \in {step, "idle"}
           /\ copy' \in [spec: Nat, ann: Nat, rv: Nat]
           /\ backoff' \in BOOLEAN
<1>1. Zero \in [spec: Nat, ann: Nat, rv: Nat]
  BY DEF Zero
<1> QED
  BY <1>1 DEF Goto, Fail, RuntimeTypeOK, KubeTypeOK, WorkerTypeOK

\* Nor does a write of Reconcile.
LEMMA CallType ==
    ASSUME RuntimeTypeOK, NEW k \in Kinds, NEW accepted,
           NEW obj \in Object, NEW next, Call(k, accepted, obj, next)
    PROVE  RuntimeTypeOK' /\ pc' \in {next, "idle"}
<1>1. KubeTypeOK
  BY DEF RuntimeTypeOK
<1>2. Goto(next) \/ Fail
  BY DEF Call
<1>3. /\ pc' \in {next, "idle"}
      /\ copy' \in [spec: Nat, ann: Nat, rv: Nat]
      /\ backoff' \in BOOLEAN
  BY <1>2, GotoType
<1>4. budget' \in [Mishaps -> Nat]
  BY <1>1, SpendType DEF Call, KubeTypeOK
<1>5. UNCHANGED <<version, seen, dirty>> /\ held' = 0
  BY DEF Call
<1>6. /\ log' \in [Kinds -> Seq(Object)]
      /\ \A j \in Kinds : seen[j] \in 1..Len(log'[j])
  <2>1. CASE Store(k, obj)
    BY <2>1, <1>1, StoreType
  <2>2. CASE UNCHANGED log
    BY <2>2, <1>1 DEF KubeTypeOK
  <2> QED BY <2>1, <2>2 DEF Call
<1> QED
  BY <1>1, <1>3, <1>4, <1>5, <1>6 DEF RuntimeTypeOK, KubeTypeOK, WorkerTypeOK

\* Nor does reading a child.
LEMMA ReadType ==
    ASSUME RuntimeTypeOK, NEW k \in Kinds, NEW next, ReadForUpdate(k, next)
    PROVE  RuntimeTypeOK' /\ pc' \in {next, "idle"}
<1>1. /\ pc' \in {next, "idle"}
      /\ copy' \in [spec: Nat, ann: Nat, rv: Nat]
      /\ backoff' \in BOOLEAN
  BY GotoType DEF ReadForUpdate
<1>2. budget' \in [Mishaps -> Nat]
  BY SpendType DEF ReadForUpdate, RuntimeTypeOK, KubeTypeOK
<1>3. held' \in Nat
  BY DEF ReadForUpdate, RuntimeTypeOK, KubeTypeOK, WorkerTypeOK
<1>4. UNCHANGED <<version, log, seen, dirty>>
  BY DEF ReadForUpdate
<1> QED
  BY <1>1, <1>2, <1>3, <1>4 DEF RuntimeTypeOK, KubeTypeOK, WorkerTypeOK

\* Nor does a crash.
LEMMA RestartType ==
    ASSUME RuntimeTypeOK, Restart
    PROVE  RuntimeTypeOK'
<1>1. budget' \in [Mishaps -> Nat]
  BY SpendType DEF Restart, RuntimeTypeOK, KubeTypeOK
<1>2. Zero \in [spec: Nat, ann: Nat, rv: Nat]
  BY DEF Zero
<1>3. dirty' \in BOOLEAN /\ backoff' \in BOOLEAN
  BY DEF Restart
<1> QED
  BY <1>1, <1>2, <1>3 DEF Restart, RuntimeTypeOK, KubeTypeOK, WorkerTypeOK

-----------------------------------------------------------------------------
(* Histories.                                                              *)

\* What a write adds to a history is built from; nothing is forgotten.
LEMMA VersionsGrow ==
    ASSUME KubeTypeOK, NEW k \in Kinds, NEW obj \in Object, Store(k, obj)
    PROVE  /\ \A j \in Kinds : Versions(j) \subseteq Versions(j)'
           /\ obj.spec # 0 => obj.spec \in Versions(k)'
<1>1. /\ log' \in [Kinds -> Seq(Object)]
      /\ \A j \in Kinds :
             /\ Len(log[j]) <= Len(log'[j])
             /\ \A i \in 1..Len(log[j]) : log'[j][i] = log[j][i]
      /\ log'[k][Len(log'[k])] = obj
  BY StoreAppends
<1>2. \A j \in Kinds : /\ Len(log[j]) \in Nat /\ Len(log'[j]) \in Nat
                       /\ Len(log[j]) >= 1
  BY <1>1, SnapshotTypes
<1>3. ASSUME NEW j \in Kinds, NEW v \in Versions(j)
      PROVE  v \in Versions(j)'
  <2>1. PICK i \in 1..Len(log[j]) : log[j][i].spec = v
    BY <1>3 DEF Versions
  <2>2. i \in 1..Len(log'[j]) /\ log'[j][i].spec = v
    BY <1>1, <1>2, <2>1
  <2> QED BY <1>3, <2>2 DEF Versions
<1>4. Len(log'[k]) \in 1..Len(log'[k])
  BY <1>1, <1>2
<1> QED BY <1>1, <1>3, <1>4 DEF Versions

\* A stored object tells what was last built; its deletion does not change that.
LEMMA LastBuiltStored ==
    ASSUME KubeTypeOK, NEW k \in Kinds, NEW obj \in Object, Store(k, obj)
    PROVE  /\ obj # Absent => LastBuilt(k)' = obj.spec
           /\ obj = Absent => LastBuilt(k)' = LastBuilt(k)
           /\ \A j \in Kinds \ {k} : LastBuilt(j)' = LastBuilt(j)
<1>1. /\ log' \in [Kinds -> Seq(Object)]
      /\ \A i \in 1..Len(log[k]) : log'[k][i] = log[k][i]
      /\ \A j \in Kinds \ {k} : log'[j] = log[j]
      /\ Stored(k)' = obj
      /\ log'[k] = log[k] \/ Len(log'[k]) = Len(log[k]) + 1
  BY StoreAppends DEF Stored
<1>2. Len(log[k]) \in Nat /\ Len(log[k]) \in 1..Len(log[k])
  BY SnapshotTypes
<1>3. obj # Absent => LastBuilt(k)' = obj.spec
  BY <1>1 DEF LastBuilt
<1>4. ASSUME obj = Absent
      PROVE  LastBuilt(k)' = LastBuilt(k)
  <2>1. CASE log'[k] = log[k]
    BY <2>1 DEF LastBuilt, Stored
  <2>2. CASE log'[k] # log[k]
    <3>1. Stored(k) # Absent
      <4>1. log' # log
        BY <2>2
      <4> QED BY <4>1, <1>4 DEF Store
    <3>2. Len(log'[k]) # 1 /\ Len(log'[k]) - 1 = Len(log[k])
      <4>1. Len(log'[k]) = Len(log[k]) + 1
        BY <1>1, <2>2
      <4> QED BY <4>1, <1>2
    <3>3. LastBuilt(k)' = log'[k][Len(log[k])].spec
      BY <1>1, <1>4, <3>2 DEF LastBuilt
    <3>4. log'[k][Len(log[k])] = Stored(k)
      BY <1>1, <1>2 DEF Stored
    <3> QED BY <3>1, <3>3, <3>4 DEF LastBuilt
  <2> QED BY <2>1, <2>2
<1>5. \A j \in Kinds \ {k} : LastBuilt(j)' = LastBuilt(j)
  BY <1>1 DEF LastBuilt, Stored
<1> QED BY <1>3, <1>4, <1>5

LEMMA LastBuiltType ==
    ASSUME KubeTypeOK, NEW k \in Kinds
    PROVE  LastBuilt(k) \in Nat
<1> DEFINE n == Len(log[k])
<1>1. log[k] \in Seq(Object) /\ n \in Nat /\ n >= 1
  BY SnapshotTypes DEF KubeTypeOK
<1>2. \A i \in 1..n : log[k][i].spec \in Nat
  <2>1. \A i \in 1..n : log[k][i] \in Object
    BY <1>1
  <2> QED BY <2>1 DEF Object
<1>3. n \in 1..n /\ (n # 1 => n - 1 \in 1..n)
  <2> HIDE DEF n
  <2> QED BY <1>1
<1> QED BY <1>2, <1>3 DEF LastBuilt, Stored

\* The writes that are not Reconcile's: a user's, of a spec that is newer than all
\* others and with the annotation the object had or none; a deletion; and the mark
\* a foreground deletion leaves.
UserWrites ==
    /\ version' = version + 1
    /\ \E a \in {0, Stored("cr").ann}, d \in BOOLEAN :
           Store("cr", [spec |-> version + 1, ann |-> a, deleting |-> d])

Removes(k) == version' = version /\ Store(k, Absent)

MarksDeleting ==
    /\ version' = version
    /\ Stored("cr") # Absent
    /\ Store("cr", [spec |-> Stored("cr").spec, ann |-> Stored("cr").ann,
                    deleting |-> TRUE])

\* There are no others.
LEMMA EnvironmentWrites ==
    ASSUME KubeTypeOK, Environment
    PROVE  \/ UNCHANGED <<version, log>>
           \/ UserWrites
           \/ \E k \in Kinds : Removes(k)
           \/ MarksDeleting
<1>1. Stored("cr") \in Object
  BY SnapshotTypes
<1>2. CASE Submit
  BY <1>2 DEF Submit, WriteSpec, UserWrites
<1>3. CASE Edit
  BY <1>1, <1>3 DEF Edit, WriteSpec, UserWrites, Object
<1>4. CASE Delete
  BY <1>4 DEF Delete, Removes, MarksDeleting
<1>5. CASE \E k \in Children : Vanish(k)
  BY <1>5 DEF Vanish, Removes
<1>6. CASE (\E k \in Kinds : Watch(k)) \/ Resync \/ RetryFires
  BY <1>6 DEF Watch, Resync, RetryFires
<1> QED BY <1>2, <1>3, <1>4, <1>5, <1>6 DEF Environment

\* A write of Reconcile is stored, or fails.
LEMMA CallCases ==
    ASSUME NEW k \in Kinds, NEW accepted, NEW obj, NEW next,
           Call(k, accepted, obj, next)
    PROVE  /\ UNCHANGED <<version, seen, dirty>>
           /\ \/ accepted /\ Store(k, obj) /\ (Goto(next) \/ Fail)
              \/ UNCHANGED log /\ Fail
BY DEF Call

\* Reading a child leads on or fails.
LEMMA ReadCases ==
    ASSUME NEW k \in Kinds, NEW next, ReadForUpdate(k, next)
    PROVE  UNCHANGED <<version, log, seen, dirty>> /\ (Goto(next) \/ Fail)
BY DEF ReadForUpdate

-----------------------------------------------------------------------------
(* The order of the specs.                                                 *)

CrLog == log["cr"]

\* Only an absent object has no spec, and the custom resource's spec never goes
\* back, not even over a deletion.
HistoryOK ==
    /\ \A k \in Kinds : \A i \in 1..Len(log[k]) :
           log[k][i].spec = 0 => log[k][i] = Absent
    /\ \A i \in 1..Len(CrLog) : CrLog[i].spec <= version
    /\ \A i, j \in 1..Len(CrLog) :
           i <= j /\ CrLog[j].spec # 0 => CrLog[i].spec <= CrLog[j].spec

\* A snapshot that fits can be appended to any history.
LEMMA HistoryStore ==
    ASSUME KubeTypeOK, HistoryOK, NEW k \in Kinds, NEW obj \in Object,
           Store(k, obj), version' \in Nat, version <= version',
           obj.spec = 0 => obj = Absent,
           k = "cr" => /\ obj.spec <= version'
                       /\ obj.spec \in {0, Stored("cr").spec, version'}
    PROVE  HistoryOK'
<1>1. /\ log' \in [Kinds -> Seq(Object)]
      /\ \A j \in Kinds :
             /\ Len(log[j]) <= Len(log'[j])
             /\ \A i \in 1..Len(log[j]) : log'[j][i] = log[j][i]
      /\ \A j \in Kinds \ {k} : log'[j] = log[j]
      /\ log'[k][Len(log'[k])] = obj
      /\ log'[k] = log[k] \/ Len(log'[k]) = Len(log[k]) + 1
  BY StoreAppends
<1>2. \A j \in Kinds : /\ Len(log[j]) \in Nat /\ Len(log'[j]) \in Nat
                       /\ Len(log[j]) \in 1..Len(log[j])
  BY <1>1, SnapshotTypes
<1>3. \A i \in 1..Len(log'[k]) : i \in 1..Len(log[k]) \/ log'[k][i] = obj
  <2>1. \A i \in 1..Len(log'[k]) : i \in 1..Len(log[k]) \/ i = Len(log'[k])
    BY <1>1, <1>2
  <2> QED BY <1>1, <2>1
<1>4. \A j \in Kinds : \A i \in 1..Len(log'[j]) :
          log'[j][i].spec = 0 => log'[j][i] = Absent
  BY <1>1, <1>3 DEF HistoryOK
<1>5. \A i \in 1..Len(CrLog) : CrLog[i].spec \in Nat
  <2>1. CrLog \in Seq(Object)
    BY DEF CrLog, KubeTypeOK
  <2>2. \A i \in 1..Len(CrLog) : CrLog[i] \in Object
    BY <2>1
  <2> QED BY <2>2 DEF Object
<1>6. version \in Nat /\ obj.spec \in Nat
  BY RuntimeAssumption DEF KubeTypeOK, Object
<1>7. CASE k # "cr"
  <2>1. CrLog' = CrLog
    BY <1>1, <1>7 DEF CrLog
  <2>2. \A i \in 1..Len(CrLog) : CrLog[i].spec <= version'
    BY <1>5, <1>6 DEF HistoryOK
  <2> QED BY <1>4, <2>1, <2>2 DEF HistoryOK
<1>8. CASE k = "cr"
  <2>1. \A i \in 1..Len(CrLog) : CrLog[i].spec <= version'
    BY <1>5, <1>6 DEF HistoryOK
  <2>2. \A i \in 1..Len(CrLog') :
            \/ i \in 1..Len(CrLog) /\ CrLog'[i] = CrLog[i]
            \/ CrLog'[i] = obj
    BY <1>1, <1>3, <1>8 DEF CrLog
  <2>3. \A i \in 1..Len(CrLog') : CrLog'[i].spec <= version'
    BY <1>8, <2>1, <2>2
  <2>4. ASSUME obj.spec # 0
        PROVE  \A i \in 1..Len(CrLog) : CrLog[i].spec <= obj.spec
    <3>1. CASE obj.spec = version'
      BY <2>1, <3>1
    <3>2. CASE obj.spec = Stored("cr").spec
      <4>1. /\ Stored("cr") = CrLog[Len(CrLog)]
            /\ Len(CrLog) \in 1..Len(CrLog)
            /\ \A i \in 1..Len(CrLog) : i <= Len(CrLog)
        BY <1>2 DEF Stored, CrLog
      <4> QED BY <2>4, <3>2, <4>1 DEF HistoryOK
    <3> QED BY <1>8, <2>4, <3>1, <3>2
  <2>5. ASSUME NEW i \in 1..Len(CrLog'), NEW j \in 1..Len(CrLog'),
               i <= j, CrLog'[j].spec # 0
        PROVE  CrLog'[i].spec <= CrLog'[j].spec
    <3>1. CASE i \in 1..Len(CrLog) /\ j \in 1..Len(CrLog)
      BY <1>1, <1>8, <2>5, <3>1 DEF HistoryOK, CrLog
    <3>2. CASE j \notin 1..Len(CrLog)
      BY <1>6, <2>2, <2>4, <2>5, <3>2
    <3>3. CASE i \notin 1..Len(CrLog) /\ j \in 1..Len(CrLog)
      BY <1>2, <2>5, <3>3 DEF CrLog
    <3> QED BY <3>1, <3>2, <3>3
  <2> QED BY <1>4, <2>3, <2>5 DEF HistoryOK
<1> QED BY <1>7, <1>8
=============================================================================
