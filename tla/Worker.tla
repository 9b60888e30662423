------------------------------- MODULE Worker -------------------------------
(***************************************************************************)
(* The single worker of a controller while it runs Reconcile for the key:  *)
(* which call of Reconcile is next, the locals that outlive a call, and    *)
(* what the calls and the returns that both operators make have in common. *)
(***************************************************************************)
EXTENDS KubeRuntime

VARIABLES pc,    (* the call Reconcile is about to make; "idle" outside it  *)
          copy,  (* Reconcile's copy of the custom resource (nginx in one   *)
                 (* operator, instance in the other): its spec and its      *)
                 (* annotation, and the position rv it was read at          *)
          held   (* the resourceVersion of the child it is about to update  *)

localVars == <<pc, copy, held>>
vars == <<kubeVars, localVars>>

Zero == [spec |-> 0, ann |-> 0, rv |-> 0]

\* Mutant of Snapshot: the resourceVersion is not kept.
SnapshotWithoutVersion(cr) == cr

Snapshot(cr) == [spec |-> cr.spec, ann |-> cr.ann, rv |-> seen["cr"]]

WorkerTypeOK ==
    /\ copy \in [spec: Nat, ann: Nat, rv: Nat]
    /\ held \in Nat

WorkerInit ==
    /\ KubeInit
    /\ pc = "idle"
    /\ copy = Zero
    /\ held = 0

\* Going on, or returning nil if there is nothing left to do.
Goto(step) ==
    /\ pc' = step
    /\ copy' = IF step = "idle" THEN Zero ELSE copy
    /\ UNCHANGED backoff

\* Mutant of Fail: the error is logged and nil is returned.
FailSilently == Goto("idle")

\* Returning an error makes the workqueue retry the key.
Fail ==
    /\ pc' = "idle"
    /\ copy' = Zero
    /\ backoff' = TRUE

\* A write the API server carries out if it accepts it.  The request may also
\* fail on the way there, or its answer on the way back; one the client has given
\* up on is not carried out later.
Call(k, accepted, obj, next) ==
    /\ \/ accepted /\ Store(k, obj) /\ Goto(next) /\ UNCHANGED budget
       \/ ~accepted /\ UNCHANGED <<log, budget>> /\ Fail
       \/ /\ Spend("fault")
          /\ Fail
          /\ UNCHANGED log \/ (accepted /\ Store(k, obj))
    /\ held' = 0
    /\ UNCHANGED <<version, seen, dirty>>

\* The child is read from the cache to be updated: its absence is an error too.
ReadForUpdate(k, next) ==
    /\ \/ /\ Cached(k) # Absent
          /\ held' = seen[k]
          /\ Goto(next)
          /\ UNCHANGED budget
       \/ /\ (Cached(k) = Absent /\ UNCHANGED budget) \/ Spend("fault")
          /\ Fail
          /\ UNCHANGED held
    /\ UNCHANGED <<version, log, seen, dirty>>

\* The manager dies and comes back: Reconcile's locals and the workqueue are
\* lost, and the first list queues the key if there is an object.
Restart ==
    /\ Spend("crash")
    /\ pc' = "idle"
    /\ copy' = Zero
    /\ held' = 0
    /\ dirty' = (Cached("cr") # Absent)
    /\ backoff' = FALSE
    /\ UNCHANGED <<version, log, seen>>

\* The manager's threads keep running: its informers and the timers of its rate
\* limiter and of its resync.
RuntimeFairness ==
    /\ \A k \in Kinds : WF_vars(Watch(k) /\ UNCHANGED localVars)
    /\ WF_vars(Resync /\ UNCHANGED localVars)
    /\ WF_vars(RetryFires /\ UNCHANGED localVars)

-----------------------------------------------------------------------------
(* What a user of either operator expects.                                 *)

Live(cr) == cr # Absent /\ ~cr.deleting

\* Action property.  Whenever the worker changes the resource, it only adds the
\* annotation to the object as the user left it: its Update overwrites no newer
\* spec, whatever annotation the object already has, and brings back no object
\* that is being deleted or is gone.
CommitFresh ==
    [][LET old == Stored("cr")
           new == Stored("cr")'
       IN  (localVars' # localVars /\ new # old) =>
               /\ Live(old)
               /\ new = [spec |-> old.spec, ann |-> old.spec,
                         deleting |-> FALSE]]_vars

ChildrenExist == \A k \in Children : Stored(k) # Absent

\* An object that stays, with the annotation and with its children.
SetUp == Live(Stored("cr")) /\ Stored("cr").ann # 0 /\ ChildrenExist

\* Liveness.  Once an object is set up and stays so, its Deployment ends up built
\* from its last spec, however many conflicts, failed calls, refused updates of
\* its Service and restarts of the manager there were before and still are.
DeployConverges ==
    <>[]SetUp => <>[](Stored("deploy").spec = Stored("cr").spec)

\* Liveness.  The state of the cluster reaches the desired one: once an object is
\* set up and stays so, both children end up built from its last spec.
Converges ==
    <>[]SetUp => <>[](\A k \in Children : Stored(k).spec = Stored("cr").spec)

\* Liveness.  A submitted object gets its Deployment and its Service, unless it
\* is deleted first.
SubmitCreates == Live(Stored("cr")) ~> (ChildrenExist \/ ~Live(Stored("cr")))

\* Liveness.  The cluster follows the spec: of an object that was never deleted,
\* every spec gets to both children unless the user replaces it first.
NeverDeleted == \A i \in 2..Len(log["cr"]) : Live(log["cr"][i])

SpecReachesCluster ==
    \A v \in 1..MaxVersion :
        (NeverDeleted /\ Stored("cr").spec = v) ~>
            (\/ \A k \in Children : v \in Versions(k)
             \/ Stored("cr").spec # v \/ ~NeverDeleted)

\* Liveness.  The queue forgets an object that is gone for good.
QueueDrains == <>[](Stored("cr") = Absent) => <>[](~dirty /\ ~backoff)
=============================================================================
