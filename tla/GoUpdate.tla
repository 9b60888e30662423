------------------------------ MODULE GoUpdate ------------------------------
(***************************************************************************)
(* The Go programs of Automation-IP-Handle that update a row for each line *)
(* of a file.  ip-permission-revice-1.go reads the file in a goroutine and *)
(* waits for it on a channel; iph/ip-permission.go has the same functions  *)
(* without the two.  In the first a panic of the goroutine runs the        *)
(* deferred send, and wakes the main goroutine, before it ends the process.*)
(***************************************************************************)
EXTENDS BatchRun

VARIABLE main  (* the main goroutine in Connect: "receiving" from the       *)
               (* channel, or "calling" Get_IP itself in the other program; *)
               (* "woken"; having "printed" that everything is done         *)

vars == <<batchVars, main>>

\* Type invariant.
TypeOK ==
    /\ BatchTypeOK
    /\ pc \in {"off", "open", "scan", "begin", "prepare", "exec", "commit",
               "send", "unwind", "sent", "dying"}
    /\ main \in {"off", "receiving", "calling", "woken", "printed"}
    /\ main = "off" <=> ~Running

Init == BatchInit /\ main = "off"

-----------------------------------------------------------------------------

\* Mutant of Start: Connect receives before it starts the goroutine.
StartReceiving ==
    /\ ~Running
    /\ run < MaxRuns
    /\ pc' = "sent"
    /\ main' = "receiving"
    /\ status' = "none"
    /\ run' = run + 1
    /\ UNCHANGED <<at, committed, before, said, budget>>

\* Get_DB and Connect of either program.  sql.Open does not talk to the server.
Start == StartRun /\ main' \in {"receiving", "calling"}

\* The main goroutine is gone when the process is.
Process == main' = IF pc' = "off" THEN "off" ELSE main

\* A configuration that cannot be read panics, an input file is fatal.
Open ==
    /\ pc = "open"
    /\ \/ GoOn("scan") /\ UNCHANGED budget
       \/ Spend("read") /\ Exit("failed")
    /\ UNCHANGED <<at, committed, before, said, run>>
    /\ Process

\* An error of the scanner ends the loop like the end of the file: inside of
\* the loop, where the code looks for one, there never is any.
Scan ==
    /\ pc = "scan"
    /\ \/ at <= Lines /\ GoOn("begin") /\ UNCHANGED budget
       \/ /\ (at > Lines /\ UNCHANGED budget) \/ Spend("read")
          /\ GoOn("send")
    /\ UNCHANGED <<at, committed, before, said, run>>
    /\ Process

\* Begin's error is not the one that is looked at: without a transaction the
\* next call panics.
Begin ==
    /\ pc = "begin"
    /\ \/ GoOn("prepare") /\ UNCHANGED budget
       \/ Spend("lose") /\ GoOn("unwind")
    /\ UNCHANGED <<at, committed, before, said, run>>
    /\ Process

\* A statement that fails is rolled back and ends the program.
Statement(step, next) ==
    /\ pc = step
    /\ \/ GoOn(next) /\ UNCHANGED budget
       \/ (Spend("lose") \/ Spend("refuse")) /\ Exit("failed")
    /\ UNCHANGED <<at, committed, before, said, run>>
    /\ Process

Prepare == Statement("prepare", "exec")

\* Mutant of Exec: the failure is printed and the loop goes on.
ExecGoesOn ==
    /\ pc = "exec"
    /\ \/ GoOn("commit") /\ UNCHANGED <<at, said, budget>>
       \/ (Spend("lose") \/ Spend("refuse")) /\ Report("failure") /\ GoOn("scan")
    /\ UNCHANGED <<committed, before, run, main>>

Exec == Statement("exec", "commit")

Update == Begin \/ Prepare \/ Exec \/ (Commit("scan") /\ Process)

\* The end of Get_IP.  The channel has no buffer: its deferred send, which also
\* a panic runs, and the receive in Connect are one step.  Without a channel
\* Get_IP returns to Connect, and a panic does not.
Return ==
    /\ \/ pc = "send" /\ main \in {"receiving", "calling"}
       \/ pc = "unwind" /\ main = "receiving"
    /\ main' = "woken"
    /\ GoOn(IF pc = "send" THEN "sent" ELSE "dying")
    /\ UNCHANGED <<at, committed, before, said, run, budget>>

Get_IP == Open \/ Scan \/ Update \/ Return

\* Connect prints that the processing is complete.
PrintDone ==
    /\ main = "woken"
    /\ main' = "printed"
    /\ UNCHANGED batchVars

\* The panic ends the process.
Die ==
    /\ pc = "dying" \/ (pc = "unwind" /\ main = "calling")
    /\ Exit("failed")
    /\ Process
    /\ UNCHANGED <<at, committed, before, said, run, budget>>

\* main returns; while a goroutine panics the runtime holds that up.
ExitMain ==
    /\ main = "printed"
    /\ pc # "dying"
    /\ Exit("ok")
    /\ Process
    /\ UNCHANGED <<at, committed, before, said, run, budget>>

Connect == PrintDone \/ Die \/ ExitMain

Next == Start \/ Get_IP \/ Connect \/ (Crash /\ Process)

Spec == Init /\ [][Next]_vars

\* Each goroutine that can run is run.
FairSpec == Spec /\ WF_vars(Get_IP) /\ WF_vars(Connect)

-----------------------------------------------------------------------------

\* Refinement.  A run takes the lines in their order and stops at the first one
\* that fails, whichever call that is; no run takes a line twice.
F == INSTANCE FileRun WITH next    <- IF Running THEN at ELSE 0,
                           effects <- committed,
                           MaySkip <- FALSE
InFileOrder == F!Spec

\* Safety.  The lines that were updated are a prefix of the file, and so are those
\* that were updated a second time: however many runs were cut off, and wherever,
\* no line is ahead of one before it.
UpdatedIsPrefix ==
    \A i, j \in 1..Lines : i < j => committed[j] <= committed[i]

\* Safety.  Status 0 means that every line was updated, unless the file could
\* not be read to its end; and even then that every line before that one was.
ExitZeroMeansAll ==
    status = "ok" =>
        /\ \A i \in 1..(at - 1) : said[i] = "success"
        /\ at = Lines + 1 \/ budget["read"] < Budget["read"]

\* Liveness.  Every run ends: the goroutines do not wait for each other for ever,
\* also if one panics.  And whatever earlier runs left behind, one to which
\* nothing happens does all lines.
RunsEnd ==
    /\ Running ~> ~Running
    /\ (pc = "open" /\ ~MishapsLeft) ~> (status = "ok" /\ AllDone)

\* Safety.  "处理完成" (processing complete): when it is printed, every line that
\* could be read has been processed.
DoneMeansAll ==
    main = "printed" =>
        AllDone \/ budget["read"] < Budget["read"]
=============================================================================
