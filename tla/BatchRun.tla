------------------------------ MODULE BatchRun ------------------------------
(***************************************************************************)
(* What the batch programs, in Go and in Python, have in common: a file    *)
(* read line by line, a transaction with one statement for each line, what *)
(* is printed about it, and a process that may end at any point and be     *)
(* started again.  The table is abstracted to the transactions MySQL has   *)
(* committed: an update is there when its line was committed at least      *)
(* once, an insert leaves a row each time.  What an open transaction did   *)
(* is lost with its connection.                                            *)
(***************************************************************************)
EXTENDS Naturals

CONSTANTS Lines,    (* the number of lines of the file                      *)
          MaxRuns,  (* how often somebody starts the program                *)
          Budget    (* how often each kind of mishap may happen             *)

Mishaps == {"refuse",  (* the server refuses a statement                    *)
            "lose",    (* the connection is lost in a call, or not made     *)
            "read",    (* a file cannot be opened, or read to its end       *)
            "crash"}   (* the process is killed                             *)

ASSUME BatchAssumption ==
    /\ Lines \in Nat
    /\ MaxRuns \in Nat
    /\ Budget \in [Mishaps -> Nat]

VARIABLES pc,         (* the call the program is about to make for the line *)
                      (* it is at; "off" if the program is not running      *)
          at,         (* the line the run is at                             *)
          committed,  (* committed[i]: how often line i was committed       *)
          before,     (* ... and how often when this run started            *)
          said,       (* said[i]: what this run printed about line i        *)
          run,        (* how many runs there were                           *)
          status,     (* how the last run ended                             *)
          budget      (* the mishaps that are left                          *)

batchVars == <<pc, at, committed, before, said, run, status, budget>>

Running == pc # "off"

BatchTypeOK ==
    /\ at \in 1..(Lines + 1)
    /\ committed \in [1..Lines -> Nat]
    /\ before \in [1..Lines -> Nat]
    /\ said \in [1..Lines -> {"nothing", "success", "failure"}]
    /\ run \in 0..MaxRuns
    /\ status \in {"none", "ok", "failed"}
    /\ (Running => status = "none")
    /\ budget \in [Mishaps -> Nat]

BatchInit ==
    /\ pc = "off"
    /\ at = 1
    /\ committed = [i \in 1..Lines |-> 0]
    /\ before = committed
    /\ said = [i \in 1..Lines |-> "nothing"]
    /\ run = 0
    /\ status = "none"
    /\ budget = Budget

-----------------------------------------------------------------------------

Spend(m) ==
    /\ budget[m] > 0
    /\ budget' = [budget EXCEPT ![m] = @ - 1]

\* Mutant of StartRun: it goes on where the last run stopped.
StartRunBehind ==
    /\ ~Running
    /\ run < MaxRuns
    /\ pc' = "open"
    /\ before' = committed
    /\ said' = [i \in 1..Lines |-> "nothing"]
    /\ run' = run + 1
    /\ status' = "none"
    /\ UNCHANGED <<at, committed, budget>>

\* Somebody starts the program on the whole file.
StartRun ==
    /\ ~Running
    /\ run < MaxRuns
    /\ pc' = "open"
    /\ at' = 1
    /\ before' = committed
    /\ said' = [i \in 1..Lines |-> "nothing"]
    /\ run' = run + 1
    /\ status' = "none"
    /\ UNCHANGED <<committed, budget>>

GoOn(step) == pc' = step /\ UNCHANGED status

\* The process ends with status 0 or another one.
Exit(s) == pc' = "off" /\ status' = s

\* Mutant of Report: the loop steps over the next line.
ReportSkipsOne(word) ==
    /\ said' = [said EXCEPT ![at] = word]
    /\ at' = at + 2

Report(word) ==
    /\ said' = [said EXCEPT ![at] = word]
    /\ at' = at + 1

Effect == committed' = [committed EXCEPT ![at] = @ + 1]

\* Mutant of Commit: its error is not looked at.
CommitUnchecked(next) ==
    /\ pc = "commit"
    /\ Report("success")
    /\ GoOn(next)
    /\ \/ Effect /\ UNCHANGED budget
       \/ Spend("lose") /\ UNCHANGED committed
    /\ UNCHANGED <<before, run>>

\* All programs end when a commit fails; it may have taken effect all the same.
\* If the process is killed between the commit and the report, it did.
Commit(next) ==
    /\ pc = "commit"
    /\ \/ Effect /\ Report("success") /\ GoOn(next) /\ UNCHANGED budget
       \/ /\ Exit("failed")
          /\ UNCHANGED <<at, said>>
          /\ \/ Spend("lose") /\ (Effect \/ UNCHANGED committed)
             \/ Spend("crash") /\ Effect
    /\ UNCHANGED <<before, run>>

Crash ==
    /\ Running
    /\ Spend("crash")
    /\ Exit("failed")
    /\ UNCHANGED <<at, committed, before, said, run>>

-----------------------------------------------------------------------------

\* Safety.  What a run prints is what is in the table: a line reported as done
\* was committed by this run, once, whatever became of the run; one reported as
\* failed was not; and of a line that was not reported the table has changed
\* only if the program ended right there.
ReportsAreTrue ==
    \A i \in 1..Lines :
        /\ said[i] = "success" => committed[i] = before[i] + 1
        /\ said[i] = "failure" => committed[i] = before[i]
        /\ said[i] = "nothing" =>
              \/ committed[i] = before[i]
              \/ committed[i] = before[i] + 1 /\ i = at /\ status = "failed"

AllDone == \A i \in 1..Lines : said[i] = "success"

MishapsLeft == \E m \in Mishaps : budget[m] > 0
=============================================================================
