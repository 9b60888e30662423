------------------------------ MODULE Rollout ------------------------------
(***************************************************************************)
(* What an operator promises about the order in which the specs a user     *)
(* writes reach the cluster.  Specs are numbered in the order they are     *)
(* written and may be skipped.  A Deployment is only built from a spec     *)
(* that was written, never from an older one than the last time; a Service *)
(* is only built from the spec the Deployment was last built from.         *)
(***************************************************************************)
EXTENDS Naturals

VARIABLES desired,   (* how many specs were written                         *)
          deployed,  (* the spec the Deployment was last built from         *)
          served     (* the spec the Service was last built from            *)

vars == <<desired, deployed, served>>

Init ==
    /\ desired = 0
    /\ deployed = 0
    /\ served = 0

Write ==
    /\ desired' = desired + 1
    /\ UNCHANGED <<deployed, served>>

Deploy ==
    /\ \E v \in 1..desired : v > deployed /\ deployed' = v
    /\ UNCHANGED <<desired, served>>

Serve ==
    /\ served' = deployed
    /\ UNCHANGED <<desired, deployed>>

Next == Write \/ Deploy \/ Serve

Spec == Init /\ [][Next]_vars
=============================================================================
