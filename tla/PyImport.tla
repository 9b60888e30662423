------------------------------ MODULE PyImport ------------------------------
(***************************************************************************)
(* The Python programs of Automation_Agent_Handle: ip-not.py inserts a row *)
(* with a fresh id for each line of a file, ip-permission.py updates one.  *)
(* Both skip a line whose statement is refused.  ip-permission.py has no   *)
(* arguments that can be mistyped: it is the case Calls = {"right"}.       *)
(***************************************************************************)
EXTENDS BatchRun, Sequences

CONSTANTS Calls,  (* how the arguments of ip-not.py may be given: "right",  *)
                  (* or with an environment or a system it does not know    *)
          Padded  (* the lines with a blank behind the address              *)

ASSUME PyAssumption ==
    /\ Calls \subseteq {"right", "noEnv", "noOs"}
    /\ Padded \subseteq 1..Lines

VARIABLE call  (* the arguments of this run                                 *)

vars == <<batchVars, call>>

\* Type invariant.
TypeOK ==
    /\ BatchTypeOK
    /\ pc \in {"off", "open", "next", "execute", "commit"}
    /\ call \in Calls

Init == BatchInit /\ call \in Calls

-----------------------------------------------------------------------------

Start == StartRun /\ call' \in Calls

\* connect, and the call of insert: an unknown environment is reported but only
\* the use of the variable it should have set ends the program.
Connect ==
    /\ pc = "open"
    /\ \/ call # "noEnv" /\ GoOn("next") /\ UNCHANGED budget
       \/ /\ (call = "noEnv" /\ UNCHANGED budget) \/ Spend("lose") \/ Spend("read")
          /\ Exit("failed")
    /\ UNCHANGED <<at, committed, before, said, run, call>>

\* Mutant of NextLine: at the end of the file it waits for more.
NextLineTail ==
    /\ pc = "next"
    /\ \/ at <= Lines /\ GoOn("execute") /\ UNCHANGED budget
       \/ Spend("read") /\ Exit("failed")
    /\ UNCHANGED <<at, committed, before, said, run, call>>

NextLine ==
    /\ pc = "next"
    /\ \/ at <= Lines /\ GoOn("execute") /\ UNCHANGED budget
       \/ at > Lines /\ Exit("ok") /\ UNCHANGED budget
       \/ Spend("read") /\ Exit("failed")
    /\ UNCHANGED <<at, committed, before, said, run, call>>

\* get_sql splits "address system environment" at the blanks.  An unknown system
\* leaves the variable os with the module of that name: <module 'os' from ...>.
Words(i) ==
    (IF i \in Padded THEN <<"">> ELSE <<>>)
        \o (IF call = "noOs" THEN <<"<module", "'os'", "from">> ELSE <<"Linux">>)
        \o <<"BRN_PRODUCTION">>

\* Mutant of Malformed: the name of the module is put in like any other word.
NeverMalformed(i) == FALSE

\* The quotes about 'os' end the literal it is put into.
Malformed(i) == "'os'" \in {Words(i)[1], Words(i)[2]}

\* Mutant of Execute: the failure is swallowed without a rollback or a word.
ExecuteSilently ==
    /\ pc = "execute"
    /\ \/ ~Malformed(at) /\ GoOn("commit") /\ UNCHANGED <<at, said, budget>>
       \/ /\ (Malformed(at) /\ UNCHANGED budget) \/ Spend("refuse")
          /\ GoOn("next")
          /\ at' = at + 1
          /\ UNCHANGED said
       \/ Spend("lose") /\ Exit("failed") /\ UNCHANGED <<at, said>>
    /\ UNCHANGED <<committed, before, run, call>>

\* A refused statement is rolled back and reported.  Without a connection the
\* rollback fails too, and its exception ends the program.
Execute ==
    /\ pc = "execute"
    /\ \/ ~Malformed(at) /\ GoOn("commit") /\ UNCHANGED <<at, said, budget>>
       \/ /\ (Malformed(at) /\ UNCHANGED budget) \/ Spend("refuse")
          /\ Report("failure")
          /\ GoOn("next")
       \/ Spend("lose") /\ Exit("failed") /\ UNCHANGED <<at, said>>
    /\ UNCHANGED <<committed, before, run, call>>

\* insert of ip-not.py, update of ip-permission.py.
Loop == NextLine \/ Execute \/ (Commit("next") /\ UNCHANGED call)

Next == Start \/ Connect \/ Loop \/ (Crash /\ UNCHANGED call)

Spec == Init /\ [][Next]_vars

\* The program runs on.
FairSpec == Spec /\ WF_vars(Connect \/ Loop)

-----------------------------------------------------------------------------

\* Refinement.  A run takes the lines in their order and none twice; it may skip.
F == INSTANCE FileRun WITH next    <- IF Running THEN at ELSE 0,
                           effects <- committed,
                           MaySkip <- TRUE
InFileOrder == F!Spec

\* Safety.  A run that ends by itself has said of every line what became of it.
Accounted == status = "ok" => \A i \in 1..Lines : said[i] # "nothing"

\* Action property.  With mistyped arguments nothing gets into the table, although
\* the program only prints an error and goes on (lines with a trailing blank
\* excepted: in theirs the quotes end up behind the columns that are used).
MistypedInsertsNothing ==
    [][committed' # committed => call = "right" \/ at \in Padded]_vars

\* Liveness.  Every run ends, and whatever earlier ones left behind, one with the
\* right arguments to which nothing happens does all lines.
RunsEnd ==
    /\ Running ~> ~Running
    /\ (pc = "open" /\ ~MishapsLeft /\ call = "right") ~> (status = "ok" /\ AllDone)
=============================================================================
