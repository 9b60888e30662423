------------------------------ MODULE FileRun ------------------------------
(***************************************************************************)
(* What a batch program promises whoever starts it, and starts it again:   *)
(* the lines of the input file are taken in their order, from the first,   *)
(* each at most once in a run and as a whole.  A run may stop anywhere,    *)
(* and nobody learns whether the line it stopped at was still taken.  Only *)
(* a program that MaySkip goes on behind a line it did not take.           *)
(***************************************************************************)
EXTENDS Naturals

CONSTANTS Lines,   (* the number of lines of the file                       *)
          MaySkip

VARIABLES next,    (* the line the run is at; 0 if nothing runs             *)
          effects  (* effects[i]: how often line i was taken, by all runs   *)

vars == <<next, effects>>

Init ==
    /\ next = 0
    /\ effects = [i \in 1..Lines |-> 0]

Start == next = 0 /\ next' = 1 /\ UNCHANGED effects

Take ==
    /\ next \in 1..Lines
    /\ effects' = [effects EXCEPT ![next] = @ + 1]
    /\ next' \in {next + 1, 0}

Skip ==
    /\ MaySkip
    /\ next \in 1..Lines
    /\ next' = next + 1
    /\ UNCHANGED effects

Stop == next # 0 /\ next' = 0 /\ UNCHANGED effects

Next == Start \/ Take \/ Skip \/ Stop

Spec == Init /\ [][Next]_vars
=============================================================================
