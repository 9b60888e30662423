---------------------------- MODULE KubeRuntime ----------------------------
(***************************************************************************)
(* What the two operators of this repository run on, for one object key:   *)
(* the API server, the informer caches of the manager's client and the     *)
(* workqueue of controller-runtime.  None of it is under src/; it is       *)
(* modelled from how src/nginx-deploy and src/operator use it.             *)
(*                                                                         *)
(* The API server keeps, per kind, the history of the one object with the  *)
(* key: a sequence of snapshots whose last element is the stored object    *)
(* and whose index is its resourceVersion.  An informer cache is a         *)
(* position in that history: what the client's Get returns may be old, but *)
(* a cache never goes back.                                                *)
(*                                                                         *)
(* A custom resource's spec is abstracted to the number of the user's      *)
(* write that produced it, a Deployment or a Service to the number of the  *)
(* spec it was built from; 0 stands for "none".                            *)
(***************************************************************************)
EXTENDS Naturals, Sequences

CONSTANTS MaxVersion,    (* how many specs the user ever writes             *)
          Budget,        (* how often each kind of mishap may happen        *)
          FillsClusterIP (* what an API server may do with a Service update *)
                         (* that lacks the clusterIP it assigned: fill it   *)
                         (* in (TRUE), or refuse to change it (FALSE), as   *)
                         (* Kubernetes 1.16.3 does                          *)

Kinds    == {"cr", "deploy", "svc"}
Children == {"deploy", "svc"}
Mishaps  == {"fault", "vanish", "crash"}

ASSUME RuntimeAssumption ==
    /\ MaxVersion \in Nat
    /\ Budget \in [Mishaps -> Nat]
    /\ FillsClusterIP \subseteq BOOLEAN
    /\ FillsClusterIP # {}

VARIABLES version,  (* the number of specs written so far                   *)
          log,      (* log[k]: the snapshots the API server stored for k    *)
          seen,     (* seen[k]: the position of k's informer in log[k]      *)
          dirty,    (* the key is in the workqueue                          *)
          backoff,  (* the key waits in the rate limiter to be queued again *)
          budget    (* the mishaps that are left                            *)

kubeVars == <<version, log, seen, dirty, backoff, budget>>

-----------------------------------------------------------------------------

Object == [spec: Nat, ann: Nat, deleting: BOOLEAN]
Absent == [spec |-> 0, ann |-> 0, deleting |-> FALSE]

Built(v) == [spec |-> v, ann |-> 0, deleting |-> FALSE]

Stored(k)   == log[k][Len(log[k])]
Cached(k)   == log[k][seen[k]]
UpToDate(k) == seen[k] = Len(log[k])

\* The specs from which an object of kind k was ever built.
Versions(k) == {log[k][i].spec : i \in 1..Len(log[k])} \ {0}

\* The spec from which an object of kind k was last built: a deleted object
\* leaves the snapshot it was deleted from behind.
LastBuilt(k) ==
    IF Stored(k) # Absent \/ Len(log[k]) = 1 THEN Stored(k).spec
    ELSE log[k][Len(log[k]) - 1].spec

\* A write that changes nothing does not make a new resourceVersion.
Store(k, obj) ==
    log' = IF obj = Stored(k) THEN log
           ELSE [log EXCEPT ![k] = Append(@, obj)]

Spend(m) ==
    /\ budget[m] > 0
    /\ budget' = [budget EXCEPT ![m] = @ - 1]

KubeTypeOK ==
    /\ version \in 0..MaxVersion
    /\ log \in [Kinds -> Seq(Object)]
    /\ seen \in [Kinds -> Nat]
    /\ \A k \in Kinds : seen[k] \in 1..Len(log[k])
    /\ dirty \in BOOLEAN
    /\ backoff \in BOOLEAN
    /\ budget \in [Mishaps -> Nat]

KubeInit ==
    /\ version = 0
    /\ log = [k \in Kinds |-> <<Absent>>]
    /\ seen = [k \in Kinds |-> 1]
    /\ dirty = FALSE
    /\ backoff = FALSE
    /\ budget = Budget

-----------------------------------------------------------------------------
(* The user of the custom resource.                                        *)

WriteSpec(ann, deleting) ==
    /\ version < MaxVersion
    /\ version' = version + 1
    /\ Store("cr", [spec |-> version + 1, ann |-> ann, deleting |-> deleting])
    /\ UNCHANGED <<seen, dirty, backoff, budget>>

Submit == Stored("cr") = Absent /\ WriteSpec(0, FALSE)

\* kubectl apply, patch or edit keeps the annotations of the object,
\* kubectl replace puts the user's manifest, which has none, in its place.
Edit ==
    /\ Stored("cr") # Absent
    /\ \E a \in {0, Stored("cr").ann} : WriteSpec(a, Stored("cr").deleting)

\* Background deletion removes the object at once; foreground deletion first
\* sets its DeletionTimestamp.
Delete ==
    /\ Stored("cr") # Absent
    /\ \/ Store("cr", Absent)
       \/ /\ ~Stored("cr").deleting
          /\ Store("cr", [spec |-> Stored("cr").spec, ann |-> Stored("cr").ann,
                          deleting |-> TRUE])
    /\ UNCHANGED <<version, seen, dirty, backoff, budget>>

\* A Deployment or a Service is deleted behind the operator's back: by a
\* person, or by the garbage collector after its owner is gone.
Vanish(k) ==
    /\ Stored(k) # Absent
    /\ Spend("vanish")
    /\ Store(k, Absent)
    /\ UNCHANGED <<version, seen, dirty, backoff>>

-----------------------------------------------------------------------------
(* The informers and the workqueue.                                        *)

\* The watch delivers the next snapshot.  Only the custom resource is watched
\* for events (the operators register For, and no Owns).
Watch(k) ==
    /\ seen[k] < Len(log[k])
    /\ seen' = [seen EXCEPT ![k] = @ + 1]
    /\ dirty' = (dirty \/ k = "cr")
    /\ UNCHANGED <<version, log, backoff, budget>>

\* The periodic resync (SyncPeriod has its default) queues every cached object.
Resync ==
    /\ Cached("cr") # Absent
    /\ ~dirty
    /\ dirty' = TRUE
    /\ UNCHANGED <<version, log, seen, backoff, budget>>

RetryFires ==
    /\ backoff
    /\ dirty' = TRUE
    /\ backoff' = FALSE
    /\ UNCHANGED <<version, log, seen, budget>>

Environment ==
    \/ Submit \/ Edit \/ Delete
    \/ \E k \in Children : Vanish(k)
    \/ \E k \in Kinds : Watch(k)
    \/ Resync \/ RetryFires
=============================================================================
