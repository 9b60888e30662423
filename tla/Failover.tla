------------------------------ MODULE Failover ------------------------------
(***************************************************************************)
(* Two managers of the nginx operator, as main.go starts them with the     *)
(* flag --leader-elect: only the one that holds the lease runs Reconcile,  *)
(* the other waits.  Its informers start with its controller, with a list  *)
(* an API server may answer from a watch cache of its own, so that what a  *)
(* new leader starts from may be older than what its predecessor worked    *)
(* from, and no older than what it could have listed when it was started.  *)
(* The election itself is client-go's; its lease is taken to exclude.      *)
(***************************************************************************)
EXTENDS NgloyController

VARIABLES standby,     (* standby[k]: the position from which the manager   *)
                       (* that waits would start to follow log[k]           *)
          predecessor  (* how far the earlier leaders had seen the history  *)
                       (* of the custom resource                            *)

haVars == <<vars, standby, predecessor>>

\* Type invariant.
HATypeOK ==
    /\ TypeOK
    /\ standby \in [Kinds -> Nat]
    /\ \A k \in Kinds : standby[k] \in 1..Len(log[k])
    /\ predecessor \in 0..Len(log["cr"])

HAInit ==
    /\ Init
    /\ standby = seen
    /\ predecessor = 0

\* What the waiting manager would be given moves on, at any pace, while the bound
\* on mishaps leaves another take-over.
StandbyWatch(k) ==
    /\ budget["crash"] > 0
    /\ standby[k] < Len(log[k])
    /\ standby' = [standby EXCEPT ![k] = @ + 1]
    /\ UNCHANGED <<vars, predecessor>>

\* Mutant of TakeOver: the controller does not queue what its cache holds.
TakeOverIdle ==
    /\ Spend("crash")
    /\ pc' = "idle"
    /\ copy' = Zero
    /\ held' = 0
    /\ backoff' = FALSE
    /\ dirty' = FALSE
    /\ seen' = standby
    /\ standby' = [k \in Kinds |-> Len(log[k])]
    /\ predecessor' = IF seen["cr"] > predecessor THEN seen["cr"] ELSE predecessor
    /\ UNCHANGED <<version, log>>

\* Mutant of TakeOver: the position of one kind is taken for all.
TakeOverOneKind ==
    /\ Spend("crash")
    /\ pc' = "idle"
    /\ copy' = Zero
    /\ held' = 0
    /\ backoff' = FALSE
    /\ dirty' = (log["cr"][standby["cr"]] # Absent)
    /\ seen' = standby
    /\ standby' = [k \in Kinds |-> Len(log["cr"])]
    /\ predecessor' = IF seen["cr"] > predecessor THEN seen["cr"] ELSE predecessor
    /\ UNCHANGED <<version, log>>

\* The leader cannot renew its lease and exits, or dies; when the lease is over
\* the other manager starts its informers and its controller, which queues the
\* object the first list returns.  A new manager is started in its place.
TakeOver ==
    /\ Spend("crash")
    /\ pc' = "idle"
    /\ copy' = Zero
    /\ held' = 0
    /\ backoff' = FALSE
    /\ dirty' = (log["cr"][standby["cr"]] # Absent)
    /\ seen' = standby
    /\ standby' = [k \in Kinds |-> Len(log[k])]
    /\ predecessor' = IF seen["cr"] > predecessor THEN seen["cr"] ELSE predecessor
    /\ UNCHANGED <<version, log>>

Leader ==
    /\ Reconcile \/ (Environment /\ UNCHANGED localVars)
    /\ UNCHANGED <<standby, predecessor>>

HANext == Leader \/ TakeOver \/ \E k \in Kinds : StandbyWatch(k)

HASpec == HAInit /\ [][HANext]_haVars

\* The leader's threads run; nothing is assumed of what the other would be given.
HAFairSpec ==
    HASpec /\ WF_vars(Reconcile) /\ RuntimeFairness

-----------------------------------------------------------------------------

\* Action property.  A child goes back to an older spec only in a pass of a new
\* leader that read an object its predecessors were already past: as soon as its
\* cache has caught up with theirs, order is kept again.  Caught up or not, a
\* pass never builds the Service from another spec than the Deployment.
CatchesUp ==
    [][/\ \A k \in Children :
              LastBuilt(k)' < LastBuilt(k) => copy.rv < predecessor
       /\ LastBuilt("svc")' # LastBuilt("svc") =>
              LastBuilt("svc")' = LastBuilt("deploy")]_haVars
=============================================================================
