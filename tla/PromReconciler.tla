--------------------------- MODULE PromReconciler ---------------------------
(***************************************************************************)
(* The Prometheus operator: PromReconciler.Reconcile of                    *)
(* operator/controllers/prom_controller.go, one action per call it makes   *)
(* on the client.  Where its sibling creates, it reads again: it can only  *)
(* adopt a Deployment and a Service that somebody else provides.           *)
(***************************************************************************)
EXTENDS Worker

VARIABLE unnumbered  (* the specs the user writes, or would write, with a   *)
                     (* port whose targetPort is left out or is a name, and *)
                     (* no number                                           *)

promVars == <<vars, unnumbered>>

Steps == {"idle", "getDeploy", "getDeployAgain", "getSvc", "saveSpec",
          "getOldDeploy", "updateDeploy", "getOldSvc", "updateSvc"}

\* Type invariant.
TypeOK ==
    /\ KubeTypeOK
    /\ WorkerTypeOK
    /\ pc \in Steps
    /\ unnumbered \subseteq 1..MaxVersion

Init == WorkerInit /\ unnumbered \in SUBSET (1..MaxVersion)

-----------------------------------------------------------------------------

\* What newDeploy and newService fill in is a function of the spec; the rest are
\* the names, labels and owner every object of this key has.  A Service takes the
\* ports as they are; a container gets TargetPort.IntVal, which is 0 of a
\* targetPort that is no number.
NewDeploy(cr)  == Built(cr.spec)
NewService(cr) == Built(cr.spec)

ContainerPortZero(cr) == cr.spec \in unnumbered

\* A person creates a missing child by hand, from any spec there was.
Provide(k) ==
    /\ Stored(k) = Absent
    /\ \E v \in 1..version : Store(k, Built(v))
    /\ UNCHANGED <<version, seen, dirty, backoff, budget>>

\* Mutant of Begin: "not found" is returned as an error.
BeginNotFoundFails ==
    /\ pc = "idle"
    /\ dirty
    /\ dirty' = FALSE
    /\ LET cr == Cached("cr") IN
       \/ ~Live(cr) /\ Fail
       \/ Live(cr) /\ pc' = "getDeploy" /\ copy' = Snapshot(cr) /\ UNCHANGED backoff
    /\ UNCHANGED <<version, log, seen, held, budget>>

\* The worker takes the key and reads the custom resource.
Begin ==
    /\ pc = "idle"
    /\ dirty
    /\ dirty' = FALSE
    /\ LET cr == Cached("cr") IN
       \/ (cr = Absent \/ cr.deleting) /\ Goto("idle") /\ UNCHANGED budget
       \/ /\ cr # Absent /\ ~cr.deleting
          /\ pc' = "getDeploy"
          /\ copy' = Snapshot(cr)
          /\ UNCHANGED <<backoff, budget>>
       \/ Spend("fault") /\ Fail
    /\ UNCHANGED <<version, log, seen, held>>

\* A read of a child that is not updated afterwards: absence is an error.
Read(k, Found, Missing) ==
    /\ \/ Cached(k) # Absent /\ Found /\ UNCHANGED budget
       \/ ((Cached(k) = Absent /\ UNCHANGED budget) \/ Spend("fault")) /\ Missing
    /\ UNCHANGED <<version, log, seen, dirty, held>>

\* Mutant of GetDeploy: the Service is updated first.
GetDeployServiceFirst ==
    /\ pc = "getDeploy"
    /\ Read("deploy", IF copy.ann = 0 THEN Fail ELSE Goto("getOldSvc"),
            Goto("getDeployAgain"))

\* An error of any kind leads to what should have been the creation, success to
\* the update, for which the saved spec must parse; it is then compared with a
\* pointer, and always found different.
GetDeploy ==
    /\ pc = "getDeploy"
    /\ Read("deploy", IF copy.ann = 0 THEN Fail ELSE Goto("getOldDeploy"),
            Goto("getDeployAgain"))

\* Mutant of GetDeployAgain: the error is logged and nil is returned.
GetDeployAgainSilently ==
    /\ pc = "getDeployAgain"
    /\ Read("deploy", Goto("getSvc"), Goto("idle"))

\* The Deployment that was built is overwritten by the one that is read.
GetDeployAgain ==
    /\ pc = "getDeployAgain"
    /\ Read("deploy", Goto("getSvc"), Fail)

\* Mutant of GetSvc: its error is logged only.
GetSvcUnchecked ==
    /\ pc = "getSvc"
    /\ Read("svc", Goto("saveSpec"), Goto("saveSpec"))

GetSvc ==
    /\ pc = "getSvc"
    /\ Read("svc", Goto("saveSpec"), Fail)

\* Mutant of SaveSpec: the object is written whatever happened to it since.
SaveSpecUnconditionally ==
    /\ pc = "saveSpec"
    /\ Call("cr", Stored("cr") # Absent,
            [spec |-> copy.spec, ann |-> copy.spec, deleting |-> FALSE],
            "idle")

\* The whole object is put back with the spec as its annotation, unless it was
\* written or deleted since it was read.
SaveSpec ==
    /\ pc = "saveSpec"
    /\ Call("cr", copy.rv = Len(log["cr"]),
            [spec |-> copy.spec, ann |-> copy.spec, deleting |-> FALSE],
            "idle")

GetOldDeploy == pc = "getOldDeploy" /\ ReadForUpdate("deploy", "updateDeploy")

\* Mutant of UpdateDeploy: the Deployment that was read is put back as it is.
UpdateDeployUnchanged ==
    /\ pc = "updateDeploy"
    /\ Call("deploy", held = Len(log["deploy"]), Stored("deploy"), "getOldSvc")

\* A Deployment with a port 0 is refused.
UpdateDeploy ==
    /\ pc = "updateDeploy"
    /\ Call("deploy", held = Len(log["deploy"]) /\ ~ContainerPortZero(copy),
            NewDeploy(copy), "getOldSvc")

GetOldSvc == pc = "getOldSvc" /\ ReadForUpdate("svc", "updateSvc")

\* What was read is dropped: the Service that was built is sent without a
\* resourceVersion, and replaces whatever is stored.
UpdateSvc ==
    /\ pc = "updateSvc"
    /\ \E filled \in FillsClusterIP :
           Call("svc", Stored("svc") # Absent /\ filled, NewService(copy), "idle")

-----------------------------------------------------------------------------

Reconcile ==
    \/ Begin \/ GetDeploy \/ GetDeployAgain \/ GetSvc \/ SaveSpec
    \/ GetOldDeploy \/ UpdateDeploy \/ GetOldSvc \/ UpdateSvc

Next ==
    /\ \/ Reconcile
       \/ Restart
       \/ (Environment \/ \E k \in Children : Provide(k)) /\ UNCHANGED localVars
    /\ UNCHANGED unnumbered

Spec == Init /\ [][Next]_promVars

\* The worker goes on as long as there is a call to make or a key in the queue.
FairSpec == Spec /\ WF_vars(Reconcile) /\ RuntimeFairness

-----------------------------------------------------------------------------

\* Safety.  An object that carries the annotation had a Deployment and a Service
\* when it got it.
AdoptsBoth ==
    Stored("cr").ann # 0 => \A k \in Children : Versions(k) # {}

\* The snapshots of a child that replaced another: those the operator wrote.
Overwrites(k) ==
    {i \in 2..Len(log[k]) : log[k][i] # Absent /\ log[k][i - 1] # Absent}

\* Safety.  Whoever provides the children, whatever fails and however often the
\* manager dies in between: what the operator puts into a child never goes back to
\* an older spec, and the Service only gets specs the Deployment has had.
OverwritesInOrder ==
    /\ \A k \in Children : \A i, j \in Overwrites(k) :
           i < j => log[k][i].spec <= log[k][j].spec
    /\ \A i \in Overwrites("svc") : log["svc"][i].spec \in Versions("deploy")

\* Liveness.  Once an object carries the annotation and it and its children stay,
\* its Deployment ends up built from its last spec, if that spec's ports can be
\* given to a container.
AdoptedFollows ==
    <>[](SetUp /\ ~ContainerPortZero(Stored("cr"))) =>
        <>[](Stored("deploy").spec = Stored("cr").spec)

\* Safety.  An object without the annotation is looked at again without waiting
\* for a resync: it is queued, being retried, being worked on, or the news of it
\* has not arrived yet.
KeepsTrying ==
    (Live(Stored("cr")) /\ Stored("cr").ann = 0) =>
        dirty \/ backoff \/ pc # "idle" \/ ~UpToDate("cr")
=============================================================================
