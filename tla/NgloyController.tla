-------------------------- MODULE NgloyController --------------------------
(***************************************************************************)
(* The nginx operator: NgloyReconciler.Reconcile of                        *)
(* nginx-deploy/controllers/ngloy_controller.go, one action per call it    *)
(* makes on the client.                                                    *)
(***************************************************************************)
EXTENDS Worker

Steps == {"idle", "getDeploy", "createDeploy", "createSvc", "saveSpec",
          "getOldDeploy", "updateDeploy", "getOldSvc", "updateSvc"}

\* Type invariant.
TypeOK == KubeTypeOK /\ WorkerTypeOK /\ pc \in Steps

Init == WorkerInit

-----------------------------------------------------------------------------

\* The worker takes the key and reads the custom resource: not found is an
\* error, any other error is not looked at and leaves the copy empty.
Begin ==
    /\ pc = "idle"
    /\ dirty
    /\ dirty' = FALSE
    /\ LET cr == Cached("cr") IN
       \/ cr = Absent /\ Fail /\ UNCHANGED budget
       \/ cr.deleting /\ Goto("idle") /\ UNCHANGED budget
       \/ /\ cr # Absent /\ ~cr.deleting
          /\ pc' = "getDeploy"
          /\ copy' = Snapshot(cr)
          /\ UNCHANGED <<backoff, budget>>
       \/ Spend("fault") /\ Goto("getDeploy")
    /\ UNCHANGED <<version, log, seen, held>>

\* Mutant of GetDeploy: the Service is updated first.
GetDeploySvcFirst ==
    /\ pc = "getDeploy"
    /\ \/ Cached("deploy") = Absent /\ Goto("createDeploy")
       \/ /\ Cached("deploy") # Absent
          /\ IF copy.ann = 0 THEN Fail ELSE Goto("getOldSvc")
    /\ UNCHANGED <<version, log, seen, dirty, held, budget>>

\* Mutant of GetDeploy: the error of Unmarshal is not looked at.
GetDeployUnparsed ==
    /\ pc = "getDeploy"
    /\ \/ /\ Cached("deploy") = Absent
          /\ Goto("createDeploy")
          /\ UNCHANGED budget
       \/ /\ (Cached("deploy") # Absent /\ UNCHANGED budget) \/ Spend("fault")
          /\ Goto("getOldDeploy")
    /\ UNCHANGED <<version, log, seen, dirty, held>>

\* Only "not found" leads to creation.  Everything else, errors included, leads
\* to the update, for which the saved spec must parse; it is then compared with
\* a value of another type, and always found different.
GetDeploy ==
    /\ pc = "getDeploy"
    /\ \/ /\ Cached("deploy") = Absent
          /\ Goto("createDeploy")
          /\ UNCHANGED budget
       \/ /\ (Cached("deploy") # Absent /\ UNCHANGED budget) \/ Spend("fault")
          /\ IF copy.ann = 0 THEN Fail ELSE Goto("getOldDeploy")
    /\ UNCHANGED <<version, log, seen, dirty, held>>

\* Mutant of CreateDeploy: one that exists is taken for the one to create.
CreateDeployExisting ==
    /\ pc = "createDeploy"
    /\ Call("deploy", copy.spec # 0,
            IF Stored("deploy") = Absent THEN Built(copy.spec) ELSE Stored("deploy"),
            "createSvc")

\* An object without a name is refused, and so is one that exists.
CreateDeploy ==
    /\ pc = "createDeploy"
    /\ Call("deploy", copy.spec # 0 /\ Stored("deploy") = Absent,
            Built(copy.spec), "createSvc")

\* Mutant of CreateSvc: its error is logged and the spec is saved all the same.
CreateSvcUnchecked ==
    /\ pc = "createSvc"
    /\ Goto("saveSpec")
    /\ Store("svc", IF Stored("svc") = Absent THEN Built(copy.spec)
                                              ELSE Stored("svc"))
    /\ UNCHANGED <<version, seen, dirty, held, budget>>

CreateSvc ==
    /\ pc = "createSvc"
    /\ Call("svc", Stored("svc") = Absent,
            Built(copy.spec), "saveSpec")

\* Mutant of SaveSpec: the object is written whatever happened to it since.
SaveSpecUnconditionally ==
    /\ pc = "saveSpec"
    /\ Call("cr", Stored("cr") # Absent,
            [spec |-> copy.spec, ann |-> copy.spec, deleting |-> FALSE],
            "idle")

\* The whole object is put back with the spec as its annotation, unless it was
\* written or deleted since it was read.
SaveSpec ==
    /\ pc = "saveSpec"
    /\ Call("cr", copy.rv = Len(log["cr"]),
            [spec |-> copy.spec, ann |-> copy.spec, deleting |-> FALSE],
            "idle")

GetOldDeploy == pc = "getOldDeploy" /\ ReadForUpdate("deploy", "updateDeploy")

\* Mutant of UpdateDeploy: the Deployment that was read is put back as it is.
UpdateDeployUnchanged ==
    /\ pc = "updateDeploy"
    /\ Call("deploy", held = Len(log["deploy"]), Stored("deploy"), "getOldSvc")

UpdateDeploy ==
    /\ pc = "updateDeploy"
    /\ Call("deploy", held = Len(log["deploy"]),
            Built(copy.spec), "getOldSvc")

GetOldSvc == pc = "getOldSvc" /\ ReadForUpdate("svc", "updateSvc")

\* The Service's spec is replaced whole, and with it its clusterIP.
UpdateSvc ==
    /\ pc = "updateSvc"
    /\ \E filled \in FillsClusterIP :
           Call("svc", held = Len(log["svc"]) /\ filled, Built(copy.spec), "idle")

-----------------------------------------------------------------------------

Reconcile ==
    \/ Begin \/ GetDeploy \/ CreateDeploy \/ CreateSvc \/ SaveSpec
    \/ GetOldDeploy \/ UpdateDeploy \/ GetOldSvc \/ UpdateSvc

Next ==
    \/ Reconcile
    \/ Restart
    \/ Environment /\ UNCHANGED localVars

Spec == Init /\ [][Next]_vars

\* The worker goes on as long as there is a call to make or a key in the queue.
FairSpec == Spec /\ WF_vars(Reconcile) /\ RuntimeFairness

-----------------------------------------------------------------------------

\* Refinement.  Whatever is cached, conflicts, fails or crashes, the specs reach
\* the cluster in the order Rollout promises: the Deployment never goes back to
\* an older spec, and the Service never runs ahead of it.
R == INSTANCE Rollout WITH desired  <- version,
                           deployed <- LastBuilt("deploy"),
                           served   <- LastBuilt("svc")
Ordered == R!Spec

\* Safety.  The annotation is the operator's commit record: an object that
\* carries it names a spec both children were really built from, although the
\* three are written by separate calls that fail separately.
CommitRecord ==
    LET saved == Stored("cr").ann IN
    saved # 0 => saved \in Versions("deploy") \cap Versions("svc")

\* Action property.  A pass whose read of the resource failed with anything but
\* "not found" goes on with an empty copy: it writes neither child (the only other
\* reason for a child to change is that somebody deletes it).
EmptyCopyWritesNothing ==
    [][\A k \in Children :
           log'[k] # log[k] => copy.spec # 0 \/ budget'["vanish"] # budget["vanish"]]_vars

\* Safety.  While the newest spec has not reached the Service, somebody will
\* look at the key again without waiting for a resync: it is queued, being
\* retried, being worked on, or the news of it has not arrived yet.
NoLostWakeup ==
    (Live(Stored("cr")) /\ Stored("cr").spec \notin Versions("svc")) =>
        dirty \/ backoff \/ pc # "idle" \/ ~UpToDate("cr")
=============================================================================
