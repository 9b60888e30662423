--------------------------- MODULE PyImportProofs ---------------------------
(***************************************************************************)
(* Theorems about the Python programs, for a file of any length, any       *)
(* number of runs, with any arguments, and any number of mishaps.          *)
(***************************************************************************)
EXTENDS PyImport, TLAPS

USE DEF Mishaps

-----------------------------------------------------------------------------
(* What a step of a run can be.                                            *)

\* The table is left alone, and so are the arguments.
Kept == UNCHANGED <<committed, before, run, call>>

\* It goes on with the same line.
Moves ==
    /\ Running /\ Running'
    /\ Kept
    /\ UNCHANGED <<at, said, status>>

\* The process ends.
Ends ==
    /\ Running /\ ~Running'
    /\ Kept
    /\ UNCHANGED <<at, said>>
    /\ \/ status' = "failed"
       \/ status' = "ok" /\ at > Lines

\* The line is reported as failed.
Skips ==
    /\ pc = "execute" /\ pc' = "next"
    /\ Kept
    /\ Report("failure")
    /\ status' = status

\* The line is committed and reported, or committed as the last thing.
Done ==
    /\ pc = "commit"
    /\ Effect
    /\ \/ pc' = "next" /\ Report("success") /\ status' = status
       \/ ~Running' /\ UNCHANGED <<at, said>> /\ status' = "failed"
    /\ UNCHANGED <<before, run, call>>

Rests == UNCHANGED <<pc, at, committed, before, said, run, status, call>>

\* There are no other steps.
LEMMA StepCases ==
    ASSUME [Next]_vars
    PROVE  Start \/ Moves \/ Ends \/ Skips \/ Done \/ Rests
<1> USE DEF Running, GoOn, Exit, Kept
<1>1. CASE Connect \/ NextLine
  BY <1>1 DEF Connect, NextLine, Moves, Ends
<1>2. CASE Execute
  BY <1>2 DEF Execute, Moves, Ends, Skips
<1>3. CASE Commit("next") /\ UNCHANGED call
  <2>1. CASE Exit("failed") /\ UNCHANGED <<at, said, committed>>
    BY <1>3, <2>1 DEF Commit, Ends
  <2> QED BY <1>3, <2>1 DEF Commit, Done
<1>4. CASE Crash /\ UNCHANGED call
  BY <1>4 DEF Crash, Ends
<1>5. CASE UNCHANGED vars
  BY <1>5 DEF Rests, vars, batchVars
<1> QED BY <1>1, <1>2, <1>3, <1>4, <1>5 DEF Next, Loop

-----------------------------------------------------------------------------
(* The inductive invariant.                                                *)

\* A line that is being worked on is there; its statement parsed if it is about
\* to be committed, and the environment was known if anything was read.
LineOK ==
    /\ pc \in {"execute", "commit"} => at <= Lines
    /\ pc = "commit" => ~Malformed(at)
    /\ pc \in {"next", "execute", "commit"} => call # "noEnv"

\* Of the lines before the one the run is at it is known what became of them;
\* those behind it are untouched, and the one it is at unless the run ended there.
ProgressOK ==
    \A i \in 1..Lines :
        /\ i < at => \/ said[i] = "success" /\ committed[i] = before[i] + 1
                     \/ said[i] = "failure" /\ committed[i] = before[i]
        /\ i >= at => /\ said[i] = "nothing"
                      /\ \/ committed[i] = before[i]
                         \/ /\ committed[i] = before[i] + 1
                            /\ i = at /\ status = "failed"

EndOK == status = "ok" => at > Lines

IInv == TypeOK /\ LineOK /\ ProgressOK /\ EndOK

-----------------------------------------------------------------------------

LEMMA SpendLess ==
    ASSUME budget \in [Mishaps -> Nat], NEW m \in Mishaps, Spend(m)
    PROVE  budget' \in [Mishaps -> Nat]
BY DEF Spend

\* The program counter and the budget keep their types, and a line is only worked
\* on when there is one.
LEMMA LineStep ==
    ASSUME TypeOK, LineOK, [Next]_vars
    PROVE  /\ pc' \in {"off", "open", "next", "execute", "commit"}
           /\ budget' \in [Mishaps -> Nat]
           /\ LineOK'
<1>1. at \in 1..(Lines + 1) /\ budget \in [Mishaps -> Nat] /\ LineOK
  BY DEF TypeOK, BatchTypeOK
<1>2. budget' \in [Mishaps -> Nat]
  <2>1. UNCHANGED budget \/ \E m \in Mishaps : Spend(m)
    BY DEF Next, Start, StartRun, Connect, Loop, NextLine, Execute, Commit, Crash,
           vars, batchVars
  <2> QED BY <1>1, <2>1, SpendLess
<1>3. \A i : at' = at /\ call' = call => (Malformed(at)' <=> Malformed(at))
  BY DEF Malformed, Words
<1>4. pc' \in {"off", "open", "next", "execute", "commit"} /\ LineOK'
  <2> USE DEF GoOn, Exit, LineOK, TypeOK
  <2>1. CASE Start
    <3>1. pc' = "open"
      BY <2>1 DEF Start, StartRun
    <3> QED BY <3>1
  <2>2. CASE Connect \/ NextLine
    BY <1>1, <2>2 DEF Connect, NextLine
  <2>3. CASE Execute
    <3>1. CASE ~Malformed(at) /\ GoOn("commit") /\ UNCHANGED at
      BY <1>1, <1>3, <2>3, <3>1 DEF Execute
    <3>2. CASE pc' \in {"next", "off"}
      <4>1. call' # "noEnv"
        BY <1>1, <2>3 DEF Execute
      <4> QED BY <3>2, <4>1
    <3> QED BY <2>3, <3>1, <3>2 DEF Execute
  <2>4. CASE Commit("next") /\ UNCHANGED call
    BY <1>1, <2>4 DEF Commit
  <2>5. CASE Crash
    BY <2>5 DEF Crash
  <2>6. CASE UNCHANGED vars
    BY <1>1, <1>3, <2>6 DEF vars, batchVars
  <2> QED BY <2>1, <2>2, <2>3, <2>4, <2>5, <2>6 DEF Next, Loop
<1> QED BY <1>2, <1>4

LEMMA TypeStep == ASSUME IInv, [Next]_vars PROVE TypeOK'
<1>1. /\ BatchTypeOK /\ TypeOK /\ LineOK /\ Lines \in Nat /\ MaxRuns \in Nat
      /\ at \in 1..(Lines + 1)
  BY BatchAssumption DEF IInv, TypeOK, BatchTypeOK
<1>2. budget' \in [Mishaps -> Nat]
  BY <1>1, LineStep
<1>3. CASE Start
  BY <1>1, <1>2, <1>3 DEF Start, StartRun, TypeOK, BatchTypeOK, Running
<1>4. CASE Moves \/ Ends \/ Rests
  <2>1. BatchTypeOK' /\ call' \in Calls
    BY <1>1, <1>2, <1>4
    DEF Moves, Ends, Rests, Kept, TypeOK, BatchTypeOK, Running
  <2> QED BY <1>1, <2>1, LineStep DEF TypeOK
<1>5. CASE Skips \/ Done
  <2>1. at \in 1..Lines /\ status = "none"
    BY <1>1, <1>5 DEF Skips, Done, LineOK, BatchTypeOK, Running
  <2>2. committed' \in [1..Lines -> Nat]
    <3>1. committed \in [1..Lines -> Nat]
      BY <1>1 DEF BatchTypeOK
    <3>2. CASE committed' = committed
      BY <3>1, <3>2
    <3>3. CASE Effect
      BY <2>1, <3>1, <3>3 DEF Effect
    <3> QED BY <1>5, <3>2, <3>3 DEF Skips, Done, Kept
  <2>3. /\ at' \in 1..(Lines + 1)
        /\ said' \in [1..Lines -> {"nothing", "success", "failure"}]
    <3>1. CASE UNCHANGED <<at, said>>
      BY <1>1, <3>1 DEF BatchTypeOK
    <3>2. ASSUME NEW word \in {"success", "failure"}, Report(word)
          PROVE  /\ at' \in 1..(Lines + 1)
                 /\ said' \in [1..Lines -> {"nothing", "success", "failure"}]
      <4>1. /\ said \in [1..Lines -> {"nothing", "success", "failure"}]
            /\ word \in {"nothing", "success", "failure"}
        BY <1>1 DEF BatchTypeOK
      <4>2. at' = at + 1 /\ said' = [said EXCEPT ![at] = word]
        BY <3>2 DEF Report
      <4> QED BY <1>1, <2>1, <4>1, <4>2
    <3> QED BY <1>5, <3>1, <3>2 DEF Skips, Done
  <2>4. /\ UNCHANGED <<before, run, call>>
        /\ status' = "failed" \/ status' = "none"
        /\ Running' => status' = "none"
    BY <1>5, <2>1 DEF Skips, Done, Kept
  <2>5. BatchTypeOK' /\ call' \in Calls
    BY <1>1, <1>2, <2>2, <2>3, <2>4 DEF TypeOK, BatchTypeOK
  <2> QED BY <1>1, <2>5, LineStep DEF TypeOK
<1> QED BY <1>3, <1>4, <1>5, StepCases

LEMMA ProgressStep == ASSUME IInv, [Next]_vars PROVE ProgressOK' /\ EndOK'
<1>1. /\ BatchTypeOK /\ TypeOK /\ ProgressOK /\ LineOK /\ EndOK
      /\ at \in Nat /\ Lines \in Nat
  BY BatchAssumption DEF IInv, TypeOK, BatchTypeOK
<1>2. CASE Start
  BY <1>1, <1>2 DEF Start, StartRun, ProgressOK, EndOK, BatchTypeOK
<1>3. CASE Moves \/ Rests
  BY <1>1, <1>3 DEF Moves, Rests, Kept, ProgressOK, EndOK
<1>4. CASE Ends
  <2>1. status = "none"
    BY <1>1, <1>4 DEF Ends, BatchTypeOK
  <2> QED BY <1>1, <1>4, <2>1 DEF Ends, Kept, ProgressOK, EndOK
<1>5. CASE Skips \/ Done
  <2>1. at \in 1..Lines /\ status = "none"
    BY <1>1, <1>5 DEF Skips, Done, LineOK, BatchTypeOK, Running
  <2>2. /\ committed[at] = before[at] /\ before' = before
        /\ status' \in {"none", "failed"}
    BY <1>1, <1>5, <2>1 DEF ProgressOK, Skips, Done, Kept
  <2>3. EndOK'
    BY <2>2 DEF EndOK
  <2>4. CASE Skips
    <3>1. /\ at' = at + 1 /\ committed' = committed
          /\ \A i \in 1..Lines : said'[i] = IF i = at THEN "failure" ELSE said[i]
      BY <1>1, <2>1, <2>4 DEF Skips, Kept, Report, BatchTypeOK
    <3> QED BY <1>1, <2>1, <2>2, <2>3, <3>1 DEF ProgressOK
  <2>5. CASE Done
    <3>1. \A i \in 1..Lines :
              committed'[i] = IF i = at THEN committed[i] + 1 ELSE committed[i]
      BY <1>1, <2>1, <2>5 DEF Done, Effect, BatchTypeOK
    <3>2. CASE Report("success") /\ status' = status
      <4>1. /\ at' = at + 1
            /\ \A i \in 1..Lines :
                   said'[i] = IF i = at THEN "success" ELSE said[i]
        BY <1>1, <2>1, <3>2 DEF Report, BatchTypeOK
      <4> QED BY <1>1, <2>1, <2>2, <2>3, <3>1, <4>1 DEF ProgressOK
    <3>3. CASE UNCHANGED <<at, said>> /\ status' = "failed"
      BY <1>1, <2>1, <2>2, <2>3, <3>1, <3>3 DEF ProgressOK
    <3> QED BY <2>5, <3>2, <3>3 DEF Done
  <2> QED BY <1>5, <2>4, <2>5
<1> QED BY <1>2, <1>3, <1>4, <1>5, StepCases

-----------------------------------------------------------------------------
(* Theorems.                                                               *)

LEMMA InitInvariant == Init => IInv
<1> SUFFICES ASSUME Init PROVE IInv
  OBVIOUS
<1>1. /\ Lines \in Nat /\ MaxRuns \in Nat /\ Budget \in [Mishaps -> Nat]
      /\ pc = "off" /\ at = 1 /\ status = "none" /\ call \in Calls
      /\ committed = [i \in 1..Lines |-> 0] /\ before = committed
      /\ said = [i \in 1..Lines |-> "nothing"]
      /\ run = 0 /\ budget = Budget
  BY BatchAssumption DEF Init, BatchInit
<1>2. TypeOK
  BY <1>1 DEF TypeOK, BatchTypeOK, Running
<1>3. LineOK /\ ProgressOK /\ EndOK
  BY <1>1 DEF LineOK, ProgressOK, EndOK
<1> QED BY <1>2, <1>3 DEF IInv

\* Wherever a run is, what became of the lines before is reported and true, and
\* the lines behind are untouched.
THEOREM InvariantHolds == Spec => []IInv
<1>1. IInv /\ [Next]_vars => IInv'
  BY TypeStep, LineStep, ProgressStep DEF IInv
<1> QED BY InitInvariant, <1>1, PTL DEF Spec

\* The variables keep their types: in particular the run never gets past the end
\* of the file.
THEOREM TypeCorrect == Spec => []TypeOK
<1>1. IInv => TypeOK
  BY DEF IInv
<1> QED BY <1>1, InvariantHolds, PTL

\* What a run has printed is what is in the table.
THEOREM ReportsAreTrueHolds == Spec => []ReportsAreTrue
<1>1. IInv => ReportsAreTrue
  <2> SUFFICES ASSUME IInv, NEW i \in 1..Lines
               PROVE  /\ said[i] = "success" => committed[i] = before[i] + 1
                      /\ said[i] = "failure" => committed[i] = before[i]
                      /\ said[i] = "nothing" =>
                            \/ committed[i] = before[i]
                            \/ /\ committed[i] = before[i] + 1
                               /\ i = at /\ status = "failed"
    BY DEF ReportsAreTrue
  <2>1. i < at \/ i >= at
    BY BatchAssumption DEF IInv, TypeOK, BatchTypeOK
  <2> QED BY <2>1 DEF IInv, ProgressOK
<1> QED BY <1>1, InvariantHolds, PTL

\* A run that ends by itself has passed over no line without a word.
THEOREM AccountedHolds == Spec => []Accounted
<1>1. IInv => Accounted
  <2> SUFFICES ASSUME IInv, status = "ok", NEW i \in 1..Lines
               PROVE  said[i] # "nothing"
    BY DEF Accounted
  <2>1. i < at
    BY BatchAssumption DEF IInv, EndOK, TypeOK, BatchTypeOK
  <2> QED BY <2>1 DEF IInv, ProgressOK
<1> QED BY <1>1, InvariantHolds, PTL

\* Whatever is mistyped, no line without a trailing blank gets into the table.
THEOREM MistypedInsertsNothingHolds == Spec => MistypedInsertsNothing
<1> DEFINE A == committed' # committed => call = "right" \/ at \in Padded
<1>1. IInv /\ [Next]_vars => [A]_vars
  <2> SUFFICES ASSUME IInv, [Next]_vars, committed' # committed, at \notin Padded
               PROVE  call = "right"
    OBVIOUS
  <2>1. Done
    BY StepCases DEF Start, StartRun, Moves, Ends, Skips, Kept, Rests
  <2>2. ~Malformed(at) /\ call # "noEnv" /\ call \in {"right", "noEnv", "noOs"}
    BY <2>1, PyAssumption DEF Done, IInv, LineOK, TypeOK
  <2>3. ASSUME call = "noOs" PROVE FALSE
    <3>1. Words(at)[2] = "'os'"
      BY <2>3 DEF Words
    <3> QED BY <2>2, <3>1 DEF Malformed
  <2> QED BY <2>2, <2>3
<1> QED BY <1>1, InvariantHolds, PTL DEF Spec, MistypedInsertsNothing

\* The programs implement FileRun: lines are taken in their order, once a run.
THEOREM InFileOrderHolds == Spec => InFileOrder
<1>1. Init => F!Init
  BY DEF Init, BatchInit, F!Init, Running
<1>2. IInv /\ [Next]_vars => [F!Next]_(F!vars)
  <2> SUFFICES ASSUME IInv, [Next]_vars PROVE [F!Next]_(F!vars)
    OBVIOUS
  <2>1. LineOK /\ at \in 1..(Lines + 1) /\ Lines \in Nat
    BY BatchAssumption DEF IInv, TypeOK, BatchTypeOK
  <2>2. CASE Start
    BY <2>2 DEF Start, StartRun, Running, F!Next, F!Start
  <2>3. CASE Moves \/ Rests
    BY <2>3 DEF Moves, Rests, Kept, Running, F!vars
  <2>4. CASE Ends
    BY <2>1, <2>4 DEF Ends, Kept, F!Next, F!Stop
  <2>5. CASE Skips
    <3>1. /\ Running /\ Running' /\ at \in 1..Lines
          /\ at' = at + 1 /\ committed' = committed
      BY <2>1, <2>5 DEF Skips, Kept, Report, LineOK, Running
    <3>2. F!Skip
      BY <3>1 DEF F!Skip
    <3> QED BY <3>2 DEF F!Next
  <2>6. CASE Done
    <3>1. Running /\ at \in 1..Lines
      BY <2>1, <2>6 DEF Done, LineOK, Running
    <3>2. Effect /\ (Running' => at' = at + 1)
      BY <2>6 DEF Done, Report
    <3>3. F!Take
      BY <3>1, <3>2 DEF Effect, F!Take
    <3> QED BY <3>3 DEF F!Next
  <2> QED BY <2>2, <2>3, <2>4, <2>5, <2>6, StepCases
<1> QED BY <1>1, <1>2, InvariantHolds, PTL DEF Spec, InFileOrder, F!Spec
=============================================================================
