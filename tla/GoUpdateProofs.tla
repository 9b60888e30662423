--------------------------- MODULE GoUpdateProofs ---------------------------
(***************************************************************************)
(* Theorems about the Go batch programs, for a file of any length, any     *)
(* number of runs and any number of mishaps.                               *)
(***************************************************************************)
EXTENDS GoUpdate, TLAPS

USE DEF Mishaps

-----------------------------------------------------------------------------
(* What a step of a run can be.                                            *)

Kept == UNCHANGED <<committed, before, said, run>>

\* It goes on with the same line.
Moves ==
    /\ Running /\ Running'
    /\ Kept
    /\ UNCHANGED <<at, status>>

\* The process ends with the line it is at.
Ends ==
    /\ Running /\ ~Running'
    /\ Kept
    /\ at' = at
    /\ status' \in {"ok", "failed"}

\* The line is committed, and reported.
Done ==
    /\ pc = "commit" /\ pc' = "scan"
    /\ Effect
    /\ Report("success")
    /\ UNCHANGED <<before, run, status>>

\* The line is committed, and the process ends before it is reported.
DoneUnsaid ==
    /\ pc = "commit" /\ ~Running'
    /\ Effect
    /\ UNCHANGED <<at, said, before, run>>
    /\ status' = "failed"

Rests == Kept /\ UNCHANGED <<pc, at, status>>

\* There are no other steps.
LEMMA StepCases ==
    ASSUME TypeOK, [Next]_vars
    PROVE  StartRun \/ Moves \/ Ends \/ Done \/ DoneUnsaid \/ Rests
<1> USE DEF Running, GoOn, Exit, Kept
<1>1. CASE Start
  BY <1>1 DEF Start
<1>2. CASE Open \/ Scan \/ Begin
  BY <1>2 DEF Open, Scan, Begin, Moves, Ends, TypeOK, BatchTypeOK
<1>3. CASE Prepare \/ Exec
  BY <1>3 DEF Prepare, Exec, Statement, Moves, Ends
<1>4. CASE Commit("scan") /\ Process
  <2>1. CASE Effect /\ Report("success") /\ GoOn("scan")
    BY <1>4, <2>1 DEF Commit, Done
  <2>2. CASE Exit("failed") /\ UNCHANGED <<at, said>> /\ Effect
    BY <1>4, <2>2 DEF Commit, DoneUnsaid
  <2>3. CASE Exit("failed") /\ UNCHANGED <<at, said, committed>>
    BY <1>4, <2>3 DEF Commit, Ends
  <2> QED BY <1>4, <2>1, <2>2, <2>3 DEF Commit
<1>5. CASE Return \/ PrintDone \/ Die \/ ExitMain
  BY <1>5
  DEF Return, PrintDone, Die, ExitMain, Moves, Ends, Rests, batchVars, TypeOK
<1>6. CASE Crash /\ Process
  BY <1>6 DEF Crash, Ends
<1>7. CASE UNCHANGED vars
  BY <1>7 DEF Rests, vars, batchVars
<1> QED
  BY <1>1, <1>2, <1>3, <1>4, <1>5, <1>6, <1>7
  DEF Next, Get_IP, Update, Connect

-----------------------------------------------------------------------------
(* The inductive invariant.                                                *)

\* A line that is being worked on is there.
LineOK == pc \in {"begin", "prepare", "exec", "commit"} => at <= Lines

\* The lines before the one the run is at are done; those behind it are not, and
\* the one it is at only if the run ended there.
ProgressOK ==
    \A i \in 1..Lines :
        /\ i < at => said[i] = "success" /\ committed[i] = before[i] + 1
        /\ i >= at => /\ said[i] = "nothing"
                      /\ \/ committed[i] = before[i]
                         \/ /\ committed[i] = before[i] + 1
                            /\ i = at /\ status = "failed"

\* The end of the file was reached, or it could not be read.
AtEnd == at = Lines + 1 \/ budget["read"] < Budget["read"]

\* Main is only woken by the end of Get_IP, and only a run that got there, and
\* does not panic, ends well.
EndOK ==
    /\ \A m \in Mishaps : budget[m] <= Budget[m]
    /\ pc \in {"send", "sent"} => AtEnd
    /\ status = "ok" => AtEnd
    /\ main \in {"woken", "printed"} => pc \in {"sent", "dying"}

IInv == TypeOK /\ LineOK /\ ProgressOK /\ EndOK

-----------------------------------------------------------------------------

LEMMA SpendLess ==
    ASSUME budget \in [Mishaps -> Nat], NEW m \in Mishaps, Spend(m)
    PROVE  /\ budget' \in [Mishaps -> Nat]
           /\ \A n \in Mishaps : budget'[n] <= budget[n]
           /\ budget'[m] < budget[m]
BY DEF Spend

\* No step gives mishaps back.
LEMMA BudgetStep ==
    ASSUME TypeOK, [Next]_vars
    PROVE  /\ budget' \in [Mishaps -> Nat]
           /\ \A n \in Mishaps : budget'[n] <= budget[n]
<1>1. budget \in [Mishaps -> Nat]
  BY DEF TypeOK, BatchTypeOK
<1>2. UNCHANGED budget \/ \E m \in Mishaps : Spend(m)
  BY DEF Next, Start, StartRun, Get_IP, Open, Scan, Update, Begin, Prepare, Exec,
         Statement, Commit, Return, Connect, PrintDone, Die, ExitMain, Crash,
         vars, batchVars
<1>3. CASE UNCHANGED budget
  BY <1>1, <1>3
<1>4. CASE \E m \in Mishaps : Spend(m)
  BY <1>1, <1>4, SpendLess
<1> QED BY <1>2, <1>3, <1>4

\* The program counters of the two goroutines.
LEMMA CounterStep ==
    ASSUME TypeOK, EndOK, [Next]_vars
    PROVE  /\ pc' \in {"off", "open", "scan", "begin", "prepare", "exec", "commit",
                       "send", "unwind", "sent", "dying"}
           /\ main' \in {"off", "receiving", "calling", "woken", "printed"}
           /\ main' = "off" <=> ~Running'
           /\ main' \in {"woken", "printed"} => pc' \in {"sent", "dying"}
<1> USE DEF Running, GoOn, Exit, Process, TypeOK, EndOK
<1>1. CASE Start
  BY <1>1 DEF Start, StartRun
<1>2. CASE Open \/ Scan \/ Begin
  BY <1>2 DEF Open, Scan, Begin
<1>3. CASE Prepare \/ Exec
  BY <1>3 DEF Prepare, Exec, Statement
<1>4. CASE Commit("scan") /\ Process
  BY <1>4 DEF Commit
<1>5. CASE Return \/ PrintDone \/ Die \/ ExitMain
  BY <1>5 DEF Return, PrintDone, Die, ExitMain, batchVars
<1>6. CASE (Crash /\ Process) \/ UNCHANGED vars
  BY <1>6 DEF Crash, vars, batchVars
<1> QED
  BY <1>1, <1>2, <1>3, <1>4, <1>5, <1>6 DEF Next, Get_IP, Update, Connect

\* A line is only begun when there is one.
LEMMA LineStep == ASSUME IInv, [Next]_vars PROVE LineOK'
<1>1. at \in 1..(Lines + 1) /\ LineOK
  BY DEF IInv, TypeOK, BatchTypeOK
<1> USE DEF GoOn, Exit, LineOK
<1>2. CASE Start \/ Open \/ Scan
  BY <1>2 DEF Start, StartRun, Open, Scan
<1>3. CASE Begin \/ Prepare \/ Exec
  BY <1>1, <1>3 DEF Begin, Prepare, Exec, Statement
<1>4. CASE Commit("scan") /\ Process
  BY <1>4 DEF Commit
<1>5. CASE Return \/ Die \/ ExitMain
  BY <1>5 DEF Return, Die, ExitMain
<1>6. CASE PrintDone \/ (Crash /\ Process) \/ UNCHANGED vars
  BY <1>1, <1>6 DEF PrintDone, Crash, vars, batchVars
<1> QED
  BY <1>2, <1>3, <1>4, <1>5, <1>6 DEF Next, Get_IP, Update, Connect

LEMMA TypeStep == ASSUME IInv, [Next]_vars PROVE TypeOK'
<1>1. BatchTypeOK /\ TypeOK /\ LineOK /\ EndOK /\ Lines \in Nat /\ MaxRuns \in Nat
  BY BatchAssumption DEF IInv, TypeOK
<1>2. budget' \in [Mishaps -> Nat]
  BY <1>1, BudgetStep
<1>3. BatchTypeOK'
  <2>1. CASE StartRun
    BY <1>1, <1>2, <2>1 DEF StartRun, BatchTypeOK, Running
  <2>2. CASE Moves \/ Ends \/ Rests
    BY <1>1, <1>2, <2>2 DEF Moves, Ends, Rests, Kept, BatchTypeOK, Running
  <2>3. CASE Done \/ DoneUnsaid
    <3>1. at \in 1..Lines
      BY <1>1, <2>3 DEF Done, DoneUnsaid, LineOK, BatchTypeOK
    <3>2. committed' \in [1..Lines -> Nat]
      BY <1>1, <2>3, <3>1 DEF Done, DoneUnsaid, Effect, BatchTypeOK
    <3>3. /\ at' \in 1..(Lines + 1)
          /\ said' \in [1..Lines -> {"nothing", "success", "failure"}]
      <4>1. CASE DoneUnsaid
        BY <1>1, <4>1 DEF DoneUnsaid, BatchTypeOK
      <4>2. CASE at' = at + 1 /\ said' = [said EXCEPT ![at] = "success"]
        BY <1>1, <3>1, <4>2 DEF BatchTypeOK
      <4> QED BY <2>3, <4>1, <4>2 DEF Done, Report
    <3>4. /\ before' \in [1..Lines -> Nat] /\ run' \in 0..MaxRuns
          /\ status' \in {"none", "ok", "failed"}
          /\ Running' => status' = "none"
      BY <1>1, <2>3 DEF Done, DoneUnsaid, BatchTypeOK, Running
    <3> QED BY <1>2, <3>2, <3>3, <3>4 DEF BatchTypeOK
  <2> QED BY <1>1, <2>1, <2>2, <2>3, StepCases
<1> QED BY <1>1, <1>3, CounterStep DEF TypeOK

LEMMA ProgressStep == ASSUME IInv, [Next]_vars PROVE ProgressOK'
<1>1. /\ BatchTypeOK /\ TypeOK /\ ProgressOK /\ LineOK
      /\ at \in Nat /\ Lines \in Nat
  BY BatchAssumption DEF IInv, TypeOK, BatchTypeOK
<1>2. CASE StartRun
  BY <1>1, <1>2 DEF StartRun, ProgressOK, BatchTypeOK
<1>3. CASE Moves \/ Rests
  BY <1>1, <1>3 DEF Moves, Rests, Kept, ProgressOK
<1>4. CASE Ends
  <2>1. status = "none"
    BY <1>1, <1>4 DEF Ends, BatchTypeOK
  <2> QED BY <1>1, <1>4, <2>1 DEF Ends, Kept, ProgressOK
<1>5. CASE Done \/ DoneUnsaid
  <2>1. at \in 1..Lines /\ status = "none"
    BY <1>1, <1>5 DEF Done, DoneUnsaid, LineOK, BatchTypeOK, Running
  <2>2. \A i \in 1..Lines :
            committed'[i] = IF i = at THEN committed[i] + 1 ELSE committed[i]
    BY <1>1, <1>5 DEF Done, DoneUnsaid, Effect, BatchTypeOK
  <2>3. committed[at] = before[at]
    BY <1>1, <2>1 DEF ProgressOK
  <2>4. CASE Done
    <3>1. /\ at' = at + 1 /\ before' = before /\ status' = "none"
          /\ \A i \in 1..Lines : said'[i] = IF i = at THEN "success" ELSE said[i]
      BY <1>1, <2>1, <2>4 DEF Done, Report, BatchTypeOK
    <3> QED BY <1>1, <2>1, <2>2, <2>3, <3>1 DEF ProgressOK
  <2>5. CASE DoneUnsaid
    <3>1. UNCHANGED <<at, said, before>> /\ status' = "failed"
      BY <2>5 DEF DoneUnsaid
    <3> QED BY <1>1, <2>1, <2>2, <2>3, <3>1 DEF ProgressOK
  <2> QED BY <1>5, <2>4, <2>5
<1> QED BY <1>1, <1>2, <1>3, <1>4, <1>5, StepCases

LEMMA EndStep == ASSUME IInv, [Next]_vars PROVE EndOK'
<1>1. /\ BatchTypeOK /\ TypeOK /\ EndOK /\ Lines \in Nat
      /\ at \in 1..(Lines + 1)
      /\ budget \in [Mishaps -> Nat] /\ Budget \in [Mishaps -> Nat]
  BY BatchAssumption DEF IInv, TypeOK, BatchTypeOK
<1>2. \A m \in Mishaps : budget'[m] <= budget[m] /\ budget'[m] \in Nat
  BY <1>1, BudgetStep
<1>3. \A m \in Mishaps : budget'[m] <= Budget[m]
  BY <1>1, <1>2 DEF EndOK
<1>4. ASSUME AtEnd, at' = at
      PROVE  AtEnd'
  BY <1>1, <1>2, <1>4 DEF AtEnd
<1>5. (pc' \in {"send", "sent"} \/ status' = "ok") => AtEnd'
  <2> USE DEF GoOn, Exit
  <2>1. CASE Start
    BY <2>1 DEF Start, StartRun
  <2>2. CASE Open \/ Begin \/ Prepare \/ Exec
    BY <1>1, <2>2
    DEF Open, Begin, Prepare, Exec, Statement, BatchTypeOK, Running
  <2>3. CASE Scan
    <3>1. CASE at <= Lines /\ GoOn("begin")
      BY <1>1, <2>3, <3>1 DEF Scan, BatchTypeOK, Running
    <3>2. CASE at > Lines
      <4>1. AtEnd
        BY <1>1, <3>2 DEF AtEnd
      <4> QED BY <1>4, <2>3, <4>1 DEF Scan
    <3>3. CASE Spend("read")
      <4>1. budget'["read"] < budget["read"] /\ budget["read"] <= Budget["read"]
        BY <1>1, <3>3, SpendLess DEF EndOK
      <4>2. budget'["read"] < Budget["read"]
        BY <1>1, <1>2, <4>1
      <4> QED BY <4>2 DEF AtEnd
    <3> QED BY <2>3, <3>1, <3>2, <3>3 DEF Scan
  <2>4. CASE Commit("scan") /\ Process
    BY <1>1, <2>4 DEF Commit, BatchTypeOK, Running
  <2>5. CASE Return
    BY <1>1, <1>4, <2>5 DEF Return, EndOK, BatchTypeOK, Running
  <2>6. CASE Die \/ (Crash /\ Process)
    BY <2>6 DEF Die, Crash
  <2>7. CASE ExitMain
    <3>1. pc = "sent"
      BY <1>1, <2>7 DEF ExitMain, EndOK
    <3> QED BY <1>1, <1>4, <2>7, <3>1 DEF ExitMain, EndOK
  <2>8. CASE PrintDone \/ UNCHANGED vars
    BY <1>1, <1>4, <2>8 DEF PrintDone, vars, batchVars, EndOK
  <2> QED
    BY <2>1, <2>2, <2>3, <2>4, <2>5, <2>6, <2>7, <2>8
    DEF Next, Get_IP, Update, Connect
<1> QED BY <1>1, <1>3, <1>5, CounterStep DEF EndOK

-----------------------------------------------------------------------------
(* Theorems.                                                               *)

LEMMA InitInvariant == Init => IInv
<1> SUFFICES ASSUME Init PROVE IInv
  OBVIOUS
<1>1. /\ Lines \in Nat /\ MaxRuns \in Nat /\ Budget \in [Mishaps -> Nat]
      /\ pc = "off" /\ at = 1 /\ status = "none" /\ main = "off"
      /\ committed = [i \in 1..Lines |-> 0] /\ before = committed
      /\ said = [i \in 1..Lines |-> "nothing"]
      /\ run = 0 /\ budget = Budget
  BY BatchAssumption DEF Init, BatchInit
<1>2. TypeOK
  BY <1>1 DEF TypeOK, BatchTypeOK, Running
<1>3. LineOK /\ ProgressOK /\ EndOK
  BY <1>1 DEF LineOK, ProgressOK, EndOK
<1> QED BY <1>2, <1>3 DEF IInv

\* Wherever a run is, the lines before are done and reported and those behind are
\* not; and main is woken by nothing but the end of Get_IP.
THEOREM InvariantHolds == Spec => []IInv
<1>1. IInv /\ [Next]_vars => IInv'
  BY TypeStep, LineStep, ProgressStep, EndStep DEF IInv
<1> QED BY InitInvariant, <1>1, PTL DEF Spec

\* The variables keep their types: in particular the run never gets past the end
\* of the file, and the process is there as long as its main goroutine.
THEOREM TypeCorrect == Spec => []TypeOK
<1>1. IInv => TypeOK
  BY DEF IInv
<1> QED BY <1>1, InvariantHolds, PTL

\* What a run has printed is what is in the table.
THEOREM ReportsAreTrueHolds == Spec => []ReportsAreTrue
<1>1. IInv => ReportsAreTrue
  <2> SUFFICES ASSUME IInv, NEW i \in 1..Lines
               PROVE  /\ said[i] = "success" => committed[i] = before[i] + 1
                      /\ said[i] = "failure" => committed[i] = before[i]
                      /\ said[i] = "nothing" =>
                            \/ committed[i] = before[i]
                            \/ /\ committed[i] = before[i] + 1
                               /\ i = at /\ status = "failed"
    BY DEF ReportsAreTrue
  <2>1. i < at \/ i >= at
    BY BatchAssumption DEF IInv, TypeOK, BatchTypeOK
  <2> QED BY <2>1 DEF IInv, ProgressOK
<1> QED BY <1>1, InvariantHolds, PTL

\* What a run has found was a prefix, too.
BeforeOK == \A i, j \in 1..Lines : i < j => before[j] <= before[i]

LEMMA PrefixFollows ==
    ASSUME IInv, BeforeOK
    PROVE  UpdatedIsPrefix
<1> SUFFICES ASSUME NEW i \in 1..Lines, NEW j \in 1..Lines, i < j
             PROVE  committed[j] <= committed[i]
  BY DEF UpdatedIsPrefix
<1>1. /\ at \in Nat /\ before[i] \in Nat /\ before[j] \in Nat
      /\ committed[i] \in Nat /\ committed[j] \in Nat
      /\ before[j] <= before[i]
  BY BatchAssumption DEF IInv, TypeOK, BatchTypeOK, BeforeOK
<1>2. committed[i] >= before[i] /\ committed[j] <= before[j] + 1
  BY <1>1 DEF IInv, ProgressOK
<1>3. i < at => committed[i] = before[i] + 1
  BY DEF IInv, ProgressOK
<1>4. i >= at => committed[j] = before[j]
  BY <1>1 DEF IInv, ProgressOK
<1>5. i < at \/ i >= at
  BY <1>1
<1> QED BY <1>1, <1>2, <1>3, <1>4, <1>5

\* The lines that were updated are always a prefix of the file, whatever any of the
\* runs came to.
THEOREM UpdatedIsPrefixHolds == Spec => []UpdatedIsPrefix
<1>1. Init => BeforeOK
  BY DEF Init, BatchInit, BeforeOK
<1>2. IInv /\ BeforeOK /\ [Next]_vars => BeforeOK'
  <2> SUFFICES ASSUME IInv, BeforeOK, [Next]_vars PROVE BeforeOK'
    OBVIOUS
  <2>1. CASE StartRun
    BY <2>1, PrefixFollows DEF StartRun, BeforeOK, UpdatedIsPrefix
  <2>2. CASE UNCHANGED before
    BY <2>2 DEF BeforeOK
  <2> QED
    BY <2>1, <2>2, StepCases DEF IInv, Moves, Ends, Done, DoneUnsaid, Rests, Kept
<1>3. IInv /\ BeforeOK => UpdatedIsPrefix
  BY PrefixFollows
<1> QED BY <1>1, <1>2, <1>3, InvariantHolds, PTL DEF Spec

\* Status 0 means that every line was updated that could be read.
THEOREM ExitZeroMeansAllHolds == Spec => []ExitZeroMeansAll
<1>1. IInv => ExitZeroMeansAll
  <2> SUFFICES ASSUME IInv, status = "ok" PROVE ExitZeroMeansAll
    BY DEF ExitZeroMeansAll
  <2>1. at \in 1..(Lines + 1) /\ Lines \in Nat /\ AtEnd
    BY BatchAssumption DEF IInv, TypeOK, BatchTypeOK, EndOK
  <2>2. \A i \in 1..(at - 1) : i \in 1..Lines /\ i < at
    BY <2>1
  <2> QED BY <2>1, <2>2 DEF IInv, ProgressOK, ExitZeroMeansAll, AtEnd
<1> QED BY <1>1, InvariantHolds, PTL

\* The programs implement FileRun: lines are taken in their order, once a run, and
\* none behind one that failed.
THEOREM InFileOrderHolds == Spec => InFileOrder
<1>1. Init => F!Init
  BY DEF Init, BatchInit, F!Init, Running
<1>2. IInv /\ [Next]_vars => [F!Next]_(F!vars)
  <2> SUFFICES ASSUME IInv, [Next]_vars PROVE [F!Next]_(F!vars)
    OBVIOUS
  <2>1. TypeOK /\ LineOK /\ at \in 1..(Lines + 1) /\ Lines \in Nat
    BY BatchAssumption DEF IInv, TypeOK, BatchTypeOK
  <2>2. CASE StartRun
    BY <2>2 DEF StartRun, Running, F!Next, F!Start
  <2>3. CASE Moves \/ Rests
    BY <2>3 DEF Moves, Rests, Kept, Running, F!vars
  <2>4. CASE Ends
    BY <2>1, <2>4 DEF Ends, Kept, F!Next, F!Stop
  <2>5. CASE Done \/ DoneUnsaid
    <3>1. Running /\ at \in 1..Lines
      BY <2>1, <2>5 DEF Done, DoneUnsaid, LineOK, Running
    <3>2. Effect /\ (Running' => at' = at + 1)
      BY <2>5 DEF Done, DoneUnsaid, Report
    <3>3. F!Take
      BY <3>1, <3>2 DEF Effect, F!Take
    <3> QED BY <3>3 DEF F!Next
  <2> QED BY <2>1, <2>2, <2>3, <2>4, <2>5, StepCases
<1> QED BY <1>1, <1>2, InvariantHolds, PTL DEF Spec, InFileOrder, F!Spec
=============================================================================
