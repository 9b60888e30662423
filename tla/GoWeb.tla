------------------------------- MODULE GoWeb -------------------------------
(***************************************************************************)
(* go-web: the handlers UserAdd (api/v1/user.go), ResetPassword and        *)
(* InformationCommit (api/v1/change_pass.go) with the functions of model/  *)
(* they call, one action per call.  gin runs each request in a goroutine   *)
(* of its own; the handlers share the package-level record user, into      *)
(* which UserAdd binds its request, and the Redis pool, which only         *)
(* ResetPassword creates.                                                  *)
(***************************************************************************)
EXTENDS WebBackends, Sequences, FiniteSets

CONSTANTS Handlers,     (* the requests clients make in all                 *)
          Concurrency,  (* how many of them they have in flight at once     *)
          Bodies,       (* the bodies of their requests to add a user       *)
          Rune          (* Rune[n]: the character whose code point n says   *)

Fields == {"username", "phone"}   (* the strings of a User, and what it has  *)
ModelFields == {"id", "deletedAt"} (* of gorm.Model: all can be in a body    *)
Wrong  == "wrong"   (* a value that is no string                            *)
Nul    == "nul"     (* the character of a name that is not a number        *)

ASSUME WebAssumption ==
    /\ IsFiniteSet(Handlers)
    /\ Concurrency \in Nat
    /\ \A b \in Bodies : \A f \in DOMAIN b :
           \/ f = "username" /\ b[f] \in Names \cup {Wrong}
           \/ f = "phone" /\ b[f] \in Phones \cup {Wrong}
           \/ f = "id" /\ b[f] \in Nat
           \/ f = "deletedAt" /\ b[f] \in Times
    /\ Rune \in [Names -> Names \cup {Nul}]
    /\ {Wrong, Nul} \cap (Names \cup Phones) = {}

VARIABLES user,    (* the strings of user, as the two words of their header *)
          userId,  (* its primary key                                       *)
          userDel, (* its DeletedAt                                         *)
          pool,    (* _pool is not nil                                      *)
          job      (* what each handler is doing, with its locals           *)

memory == <<user, userId, userDel, pool>>
vars == <<backendVars, memory, job>>

-----------------------------------------------------------------------------

Words == {"ptr", "len"}

\* A string whose header was written half by one request and half by another is
\* neither's.
Value(f) == IF user[f]["ptr"] = user[f]["len"] THEN user[f]["ptr"] ELSE Torn

Fresh == [pc |-> "new", kind |-> "none", body |-> <<>>, todo |-> {},
          name |-> Blank, phone |-> Blank, code |-> Blank,
          status |-> "SUCCESS", row |-> <<>>, answers |-> <<>>]

At(h, step) == job[h].pc = step
InFlight    == {h \in Handlers : ~At(h, "new") /\ ~At(h, "done")}

Goto(h, step) == job' = [job EXCEPT ![h].pc = step]
Answer(h, statuses) ==
    job' = [job EXCEPT ![h].pc = "done", ![h].answers = statuses]

\* gin's recovery middleware answers for a handler that panics.
Panic(h) == ~pool /\ Answer(h, <<"PANIC">>)

TypeOK ==
    /\ BackendTypeOK
    /\ user \in [Fields -> [Words -> Names \cup Phones \cup {Blank}]]
    /\ userId \in Nat
    /\ userDel \in Times
    /\ pool \in BOOLEAN
    /\ Cardinality(InFlight) <= Concurrency

BlankUser == [f \in Fields |-> [w \in Words |-> Blank]]

Init ==
    /\ BackendInit
    /\ user = BlankUser
    /\ userId = 0
    /\ userDel = "null"
    /\ pool = FALSE
    /\ job = [h \in Handlers |-> Fresh]

-----------------------------------------------------------------------------
(* UserAdd.                                                                *)

Arrive(h) == At(h, "new") /\ Cardinality(InFlight) < Concurrency

\* The words in which a field of the body is written to user.
Parts(f) == {f} \X (IF f \in Fields THEN Words ELSE {"word"})

Mistyped(b) == \E f \in Fields \cap DOMAIN b : b[f] = Wrong

\* Mutant of AddRequest: a value of the wrong type is bound as well.
AddRequestUntyped(h) ==
    /\ Arrive(h)
    /\ \E b \in Bodies :
           job' = [job EXCEPT ![h] = [Fresh EXCEPT !.pc = "bind", !.kind = "add",
                                                   !.body = b,
                                                   !.todo = UNION {Parts(f) : f \in DOMAIN b}]]
    /\ UNCHANGED <<backendVars, memory>>

AddRequest(h) ==
    /\ Arrive(h)
    /\ \E b \in Bodies :
           LET given == {f \in DOMAIN b : f \in Fields => b[f] # Wrong} IN
           job' = [job EXCEPT ![h] = [Fresh EXCEPT !.pc = "bind", !.kind = "add",
                                                   !.body = b,
                                                   !.todo = UNION {Parts(f) : f \in given}]]
    /\ UNCHANGED <<backendVars, memory>>

\* ShouldBindJSON writes the fields the body has, in the body's order, over what
\* earlier requests left there.
Bind(h) ==
    /\ At(h, "bind")
    /\ \E w \in job[h].todo :
           LET f == w[1] IN
           /\ \A g \in (Fields \cup ModelFields) \ {f} :
                  Parts(g) \cap job[h].todo \in {{}, Parts(g)}
           /\ job' = [job EXCEPT ![h].todo = @ \ {w}]
           /\ \/ /\ f \in Fields
                 /\ user' = [user EXCEPT ![f][w[2]] = job[h].body[f]]
                 /\ UNCHANGED <<userId, userDel>>
              \/ /\ f = "id"
                 /\ userId' = job[h].body[f]
                 /\ UNCHANGED <<user, userDel>>
              \/ /\ f = "deletedAt"
                 /\ userDel' = job[h].body[f]
                 /\ UNCHANGED <<user, userId>>
    /\ UNCHANGED <<backendVars, pool>>

\* A field of the wrong type ends the handler, after the others were written.
Bound(h) ==
    /\ At(h, "bind")
    /\ job[h].todo = {}
    /\ \/ Mistyped(job[h].body) /\ Answer(h, <<>>)
       \/ ~Mistyped(job[h].body) /\ Goto(h, "check")
    /\ UNCHANGED <<backendVars, memory>>

\* An error of the query leaves the result empty: the name counts as free.
CheckUser(h) ==
    /\ At(h, "check")
    /\ \/ /\ RowsNamed(Value("username")) # {}
          /\ UNCHANGED budget
          /\ Answer(h, <<"USER_EXIST">>)
       \/ /\ \/ RowsNamed(Value("username")) = {} /\ UNCHANGED budget
             \/ Spend("fault")
          /\ Goto(h, "phone")
    /\ UNCHANGED <<rows, lastId, redis, texts, memory>>

ReadPhone(h) ==
    /\ At(h, "phone")
    /\ \E c \in Codes :
           job' = [job EXCEPT ![h].pc = "save", ![h].phone = Value("phone"),
                              ![h].code = c]
    /\ UNCHANGED <<backendVars, memory>>

\* Where the code cannot be saved, the last answer still is that of the check.
SaveCode(h) ==
    /\ At(h, "save")
    /\ \/ Panic(h) /\ UNCHANGED <<redis, budget>>
       \/ /\ pool
          /\ LET name == Value("username") IN
             Store(name, job[h].code,
                   job' = [job EXCEPT ![h].pc = "send", ![h].name = name],
                   Answer(h, <<"SUCCESS">>))
    /\ UNCHANGED <<rows, lastId, texts, memory>>

\* Mutant of SendCode: its error is not looked at.
SendCodeUnchecked(h) ==
    /\ At(h, "send")
    /\ Send(job[h].phone, job[h].code, Goto(h, "read"), Goto(h, "read"))
    /\ UNCHANGED <<rows, lastId, redis, memory>>

SendCode(h) ==
    /\ At(h, "send")
    /\ Send(job[h].phone, job[h].code, Goto(h, "read"),
            job' = [job EXCEPT ![h].pc = "read", ![h].status = "ERROR"])
    /\ UNCHANGED <<rows, lastId, redis, memory>>

\* Create takes the fields of user as they are now, its primary key included.
ReadUser(h) ==
    /\ At(h, "read")
    /\ job' = [job EXCEPT ![h].pc = "insert",
                          ![h].row = [id        |-> userId,
                                      username  |-> Value("username"),
                                      phone     |-> Value("phone"),
                                      deletedAt |-> userDel]]
    /\ UNCHANGED <<backendVars, memory>>

\* The transaction.  A blank key makes AUTO_INCREMENT give one out, which gorm
\* writes back to user before it commits; a key that is taken is refused, and one
\* that is not moves AUTO_INCREMENT past it.
Insert(h) ==
    /\ At(h, "insert")
    /\ LET auto == job[h].row.id = 0
           row  == [job[h].row EXCEPT !.id = IF auto THEN lastId + 1 ELSE @]
           free == \A r \in rows : r.id # row.id
           Finish(status) ==
               job' = [job EXCEPT ![h].pc = "done", ![h].row = row,
                                  ![h].answers = <<status, "SUCCESS">>]
           Numbered ==
               /\ lastId' = IF row.id > lastId THEN row.id ELSE lastId
               /\ userId' = IF auto THEN row.id ELSE userId
       IN  \/ /\ free
              /\ rows' = rows \cup {row}
              /\ Numbered
              /\ Finish(job[h].status)
              /\ UNCHANGED budget
           \/ /\ ~free
              /\ Finish("ERROR")
              /\ UNCHANGED <<rows, lastId, userId, budget>>
           \/ /\ Spend("fault")
              /\ \/ UNCHANGED <<rows, lastId, userId>>
                 \/ UNCHANGED rows /\ free /\ Numbered
                 \/ free /\ rows' = rows \cup {row} /\ Numbered
              /\ Finish("ERROR")
    /\ UNCHANGED <<redis, texts, user, userDel, pool>>

-----------------------------------------------------------------------------
(* ResetPassword.                                                          *)

\* RedisInit puts a new pool in the place of the old one.
ResetRequest(h) ==
    /\ Arrive(h)
    /\ pool' = TRUE
    /\ \E n \in Names :
           job' = [job EXCEPT ![h] = [Fresh EXCEPT !.pc = "lookup",
                                                   !.kind = "reset",
                                                   !.name = n]]
    /\ UNCHANGED <<backendVars, user, userId, userDel>>

\* Mutant of LookupPhone: the number comes from the shared record.
LookupSharedPhone(h) ==
    /\ At(h, "lookup")
    /\ \E c \in Codes :
           job' = [job EXCEPT ![h].pc = "resave", ![h].phone = Value("phone"),
                              ![h].code = c]
    /\ UNCHANGED <<backendVars, memory>>

\* An unknown name, and an error of the query, leave the number blank.
LookupPhone(h) ==
    /\ At(h, "lookup")
    /\ \E c \in Codes, p \in Phones \cup {Blank, Torn} :
           /\ \/ /\ \E r \in RowsNamed(job[h].name) : r.phone = p
                 /\ UNCHANGED budget
              \/ p = Blank /\ RowsNamed(job[h].name) = {} /\ UNCHANGED budget
              \/ p = Blank /\ Spend("fault")
           /\ job' = [job EXCEPT ![h].pc = "resave", ![h].phone = p,
                                 ![h].code = c]
    /\ UNCHANGED <<rows, lastId, redis, texts, memory>>

SaveResetCode(h) ==
    /\ At(h, "resave")
    /\ Store(job[h].name, job[h].code, Goto(h, "resend"),
             Answer(h, <<"REDIS_ERROR_SAVE">>))
    /\ UNCHANGED <<rows, lastId, texts, memory>>

SendResetCode(h) ==
    /\ At(h, "resend")
    /\ Send(job[h].phone, job[h].code, Answer(h, <<"SUCCESS">>),
            Answer(h, <<"ERROR">>))
    /\ UNCHANGED <<rows, lastId, redis, memory>>

-----------------------------------------------------------------------------
(* InformationCommit.                                                      *)

CommitRequest(h) ==
    /\ Arrive(h)
    /\ \E n \in Names, c \in Codes :
           job' = [job EXCEPT ![h] = [Fresh EXCEPT !.pc = "get",
                                                   !.kind = "commit",
                                                   !.name = n, !.code = c]]
    /\ UNCHANGED <<backendVars, memory>>

\* Name and code go through Atoi and string(int), which makes a character of
\* them.  The code is then compared, as a string, with the bytes Redis returns:
\* values of different types, which never are equal.
GetCode(h) ==
    /\ At(h, "get")
    /\ LET key  == Rune[job[h].name]
           data == IF key = Nul THEN Blank ELSE redis[key] IN
       \/ Panic(h) /\ UNCHANGED budget
       \/ /\ pool
          /\ \/ data = Blank /\ UNCHANGED budget
             \/ Spend("fault")
          /\ Answer(h, <<"ERR_TOKEN_RUNTIME">>)
       \/ /\ pool
          /\ data # Blank
          /\ Answer(h, <<"ERR_TOKEN_WRONG">>)
          /\ UNCHANGED budget
    /\ UNCHANGED <<rows, lastId, redis, texts, memory>>

-----------------------------------------------------------------------------

\* The process dies and is started again: requests under way get no answer.
Restart ==
    /\ Spend("crash")
    /\ user' = BlankUser
    /\ userId' = 0
    /\ userDel' = "null"
    /\ pool' = FALSE
    /\ job' = [h \in Handlers |->
                  IF h \in InFlight THEN [job[h] EXCEPT !.pc = "done"]
                                    ELSE job[h]]
    /\ UNCHANGED <<rows, lastId, redis, texts>>

UserAdd(h) ==
    \/ AddRequest(h) \/ Bind(h) \/ Bound(h) \/ CheckUser(h) \/ ReadPhone(h)
    \/ SaveCode(h) \/ SendCode(h) \/ ReadUser(h) \/ Insert(h)

ResetPassword(h) ==
    \/ ResetRequest(h) \/ LookupPhone(h) \/ SaveResetCode(h)
    \/ SendResetCode(h)

InformationCommit(h) == CommitRequest(h) \/ GetCode(h)

Next ==
    \/ \E h \in Handlers : UserAdd(h) \/ ResetPassword(h) \/ InformationCommit(h)
    \/ Expire /\ UNCHANGED <<memory, job>>
    \/ Restart

Spec == Init /\ [][Next]_vars

-----------------------------------------------------------------------------

Done(h, kind) == At(h, "done") /\ job[h].kind = kind

Texted(h) == [phone |-> job[h].phone, code |-> job[h].code] \in texts

\* What a body asks for, if it is complete.
Complete(b) == Fields \subseteq DOMAIN b /\ ~Mistyped(b)

\* Safety.  What may be concluded from an answer, whatever failed before it and
\* whatever other requests did to the shared record.  A reset answered with
\* SUCCESS has sent its code to the number of a user of that name.  An addition
\* answered twice, with SUCCESS first, has sent its code and has its row in the
\* table.  An addition answered once promises nothing: that answer is SUCCESS also
\* where the code could not be saved, and then nobody was added.
AnswersTrue ==
    \A h \in Handlers :
        /\ (Done(h, "reset") /\ job[h].answers = <<"SUCCESS">>) =>
               /\ Texted(h)
               /\ \E r \in RowsNamed(job[h].name) : r.phone = job[h].phone
        /\ (Done(h, "add") /\ job[h].answers = <<"SUCCESS", "SUCCESS">>) =>
               Texted(h) /\ job[h].row \in rows
        /\ (Done(h, "add") /\ job[h].answers = <<"SUCCESS">>) =>
               job[h].row = <<>>

\* Safety.  No code reaches a number it was not drawn for: a text that was
\* delivered belongs to a request that drew its code for that number, and the
\* number a reset sent to is that of a user of the name it was asked for.  This
\* is so too where the request failed afterwards, died with the process or was
\* answered with an error, and whatever additions bind to the shared record.
TextsOwned ==
    \A t \in texts : \E h \in Handlers :
        /\ [phone |-> job[h].phone, code |-> job[h].code] = t
        /\ job[h].kind = "reset" =>
               \E r \in RowsNamed(job[h].name) : r.phone = t.phone

\* Safety.  A name is taken once.
NameOnce ==
    \A r, s \in rows :
        r \in RowsNamed(s.username) /\ s \in RowsNamed(r.username) => r = s

\* Safety.  A complete request to add a user that gets an answer from the handler
\* ends with the user in the table.
Added ==
    \A h \in Handlers :
        (/\ Done(h, "add")
         /\ Complete(job[h].body)
         /\ job[h].answers \notin {<<"PANIC">>, <<>>}) =>
            RowsNamed(job[h].body["username"]) # {}
=============================================================================
