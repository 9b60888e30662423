----------------------------- MODULE WebProofs -----------------------------
(***************************************************************************)
(* Theorems about go-web, for any requests, any number of them at once and *)
(* any number of failed calls and crashes.                                 *)
(***************************************************************************)
EXTENDS GoWeb, FiniteSetTheorems, TLAPS

USE DEF Mishaps, Fields, ModelFields, Words, Times

-----------------------------------------------------------------------------
(* The inductive invariant.                                                *)

Numbers == Phones \cup {Blank, Torn}

Steps == {"new", "get", "done", "bind", "check", "phone", "save", "send", "read",
          "insert", "lookup", "resave", "resend"}

AddSteps   == {"bind", "check", "phone", "save", "send", "read", "insert"}
ResetSteps == {"lookup", "resave", "resend"}

\* The answers that promise nothing, and those that do.
Empty   == {<<>>, <<"ERROR">>, <<"PANIC">>, <<"USER_EXIST">>,
            <<"REDIS_ERROR_SAVE">>, <<"ERR_TOKEN_RUNTIME">>, <<"ERR_TOKEN_WRONG">>,
            <<"ERROR", "SUCCESS">>}
Answers == Empty \cup {<<"SUCCESS">>, <<"SUCCESS", "SUCCESS">>}

Rows == [id: Nat, username: Keys, phone: Numbers, deletedAt: Times]

Pieces == (Fields \cup ModelFields) \X (Words \cup {"word"})

Job == [pc      : Steps,
        kind    : {"none", "add", "reset", "commit"},
        body    : Bodies \cup {<<>>},
        todo    : SUBSET Pieces,
        name    : Keys,
        phone   : Numbers,
        code    : Codes \cup {Blank},
        status  : {"SUCCESS", "ERROR"},
        row     : Rows \cup {<<>>},
        answers : Answers]

DataOK ==
    /\ BackendTypeOK
    /\ user \in [Fields -> [Words -> Names \cup Phones \cup {Blank}]]
    /\ \A w \in Words : /\ user["username"][w] \in Names \cup {Blank}
                       /\ user["phone"][w] \in Phones \cup {Blank}
    /\ userId \in Nat
    /\ userDel \in Times
    /\ pool \in BOOLEAN

\* What is left to bind is in the body and has the right type.
TodoOK(j) ==
    \A w \in j.todo : /\ w[1] \in DOMAIN j.body
                      /\ j.body \in Bodies
                      /\ w[1] \in Fields => j.body[w[1]] # Wrong

\* Which locals a request has set at which of its calls.
LocalsOK(j) ==
    /\ j.pc \in AddSteps => j.kind = "add"
    /\ j.pc \in ResetSteps => j.kind = "reset"
    /\ j.pc # "done" => j.answers = <<>>
    /\ j.pc \in {"save", "send", "resave", "resend"} => j.code \in Codes
    /\ j.pc = "insert" <=> j.pc \in AddSteps /\ j.row # <<>>
    /\ TodoOK(j)

\* R and T are the rows of the table and the texts that were delivered.
HasNumber(j, R) ==
    \E r \in R : /\ r.username = j.name /\ r.deletedAt = "null"
                 /\ r.phone = j.phone

Sent(j, T) == [phone |-> j.phone, code |-> j.code] \in T

\* A reset has looked its number up, and SUCCESS is only answered for a code that
\* was sent.
ResetOK(j, R, T) ==
    j.kind = "reset" =>
        /\ j.pc \in {"resave", "resend"} => j.phone \notin Phones \/ HasNumber(j, R)
        /\ j.answers = <<"SUCCESS">> => Sent(j, T) /\ HasNumber(j, R)

\* An addition still has the status SUCCESS only if its code was sent.
AddOK(j, R, T) ==
    j.kind = "add" =>
        /\ j.pc \in {"read", "insert"} /\ j.status = "SUCCESS" => Sent(j, T)
        /\ j.answers = <<"SUCCESS", "SUCCESS">> => Sent(j, T) /\ j.row \in R
        /\ j.answers = <<"SUCCESS">> => j.row = <<>>

JobOK(j, R, T) == LocalsOK(j) /\ ResetOK(j, R, T) /\ AddOK(j, R, T)

FlightOK == Cardinality(InFlight) <= Concurrency

IInv ==
    /\ DataOK
    /\ FlightOK
    /\ job \in [Handlers -> Job]
    /\ \A h \in Handlers : JobOK(job[h], rows, texts)

-----------------------------------------------------------------------------
(* What a call of one handler does.                                        *)

\* Nothing is taken back from the table or from the phones, and only this
\* handler's locals change.
StepOK(h) ==
    /\ DataOK'
    /\ rows \subseteq rows' /\ texts \subseteq texts'
    /\ \E j \in Job : /\ job' = [job EXCEPT ![h] = j]
                      /\ JobOK(j, rows', texts')
    /\ h \in InFlight \/ Arrive(h)

\* What was sent stays sent, and who was found stays in the table.
LEMMA JobKept ==
    ASSUME NEW j, JobOK(j, rows, texts), rows \subseteq rows', texts \subseteq texts'
    PROVE  JobOK(j, rows', texts')
BY DEF JobOK, ResetOK, AddOK, HasNumber, Sent

LEMMA SpendType ==
    ASSUME budget \in [Mishaps -> Nat], NEW m \in Mishaps, Spend(m)
    PROVE  budget' \in [Mishaps -> Nat]
BY DEF Spend

\* A string of the shared record is one that was bound, or torn.
LEMMA ValueType ==
    ASSUME DataOK
    PROVE  Value("username") \in Keys /\ Value("phone") \in Numbers
BY DEF DataOK, Value, Keys, Numbers

\* Storing a code and sending one.
LEMMA StoreStep ==
    ASSUME DataOK, NEW name \in Keys, NEW code \in Codes, NEW D, NEW F,
           Store(name, code, D, F), UNCHANGED <<rows, lastId, texts, memory>>
    PROVE  DataOK' /\ (D \/ F)
<1>1. budget' \in [Mishaps -> Nat]
  BY SpendType DEF Store, DataOK, BackendTypeOK
<1>2. redis' \in [Keys -> Codes \cup {Blank}]
  BY DEF Store, DataOK, BackendTypeOK
<1> QED BY <1>1, <1>2 DEF Store, DataOK, BackendTypeOK, memory

LEMMA SendStep ==
    ASSUME DataOK, NEW phone \in Numbers, NEW code \in Codes,
           UNCHANGED texts \/ Deliver(phone, code),
           UNCHANGED budget \/ Spend("fault"),
           UNCHANGED <<rows, lastId, redis, memory>>
    PROVE  /\ DataOK' /\ texts \subseteq texts'
           /\ Deliver(phone, code) => [phone |-> phone, code |-> code] \in texts'
<1>1. budget' \in [Mishaps -> Nat]
  BY SpendType DEF DataOK, BackendTypeOK
<1>2. texts' \subseteq [phone: Phones, code: Codes] /\ texts \subseteq texts'
  BY DEF Deliver, DataOK, BackendTypeOK
<1> QED BY <1>1, <1>2 DEF Deliver, DataOK, BackendTypeOK, memory

\* The actions that leave the table, Redis and the phones alone.
LEMMA QuietData ==
    ASSUME DataOK, UNCHANGED <<rows, lastId, redis, texts, memory>>,
           UNCHANGED budget \/ Spend("fault")
    PROVE  DataOK'
<1>1. budget' \in [Mishaps -> Nat]
  BY SpendType DEF DataOK, BackendTypeOK
<1> QED BY <1>1 DEF DataOK, BackendTypeOK, memory

\* The updates the handlers make of their locals keep the types.
LEMMA JobPc ==
    ASSUME NEW j \in Job, NEW p \in Steps
    PROVE  [j EXCEPT !.pc = p] \in Job
BY DEF Job

LEMMA JobName ==
    ASSUME NEW j \in Job, NEW p \in Steps, NEW n \in Keys
    PROVE  [j EXCEPT !.pc = p, !.name = n] \in Job
BY DEF Job

LEMMA JobPhone ==
    ASSUME NEW j \in Job, NEW p \in Steps, NEW q \in Numbers, NEW c \in Codes
    PROVE  [j EXCEPT !.pc = p, !.phone = q, !.code = c] \in Job
BY DEF Job

LEMMA JobStatus ==
    ASSUME NEW j \in Job, NEW p \in Steps, NEW s \in {"SUCCESS", "ERROR"}
    PROVE  [j EXCEPT !.pc = p, !.status = s] \in Job
BY DEF Job

LEMMA JobRow ==
    ASSUME NEW j \in Job, NEW p \in Steps, NEW r \in Rows
    PROVE  [j EXCEPT !.pc = p, !.row = r] \in Job
BY DEF Job

LEMMA JobRowEnds ==
    ASSUME NEW j \in Job, NEW r \in Rows, NEW a \in Answers
    PROVE  [j EXCEPT !.pc = "done", !.row = r, !.answers = a] \in Job
BY DEF Job, Steps

\* A handler that ends with an answer that promises nothing, or with the one
\* answer of an addition whose code could not be saved.
LEMMA JobEnds ==
    ASSUME NEW j \in Job, NEW R, NEW T, JobOK(j, R, T), NEW a \in Answers,
           a \in Empty \/ (j.kind = "add" /\ j.row = <<>> /\ a = <<"SUCCESS">>)
    PROVE  LET e == [j EXCEPT !.pc = "done", !.answers = a]
           IN  e \in Job /\ JobOK(e, R, T)
<1> DEFINE e == [j EXCEPT !.pc = "done", !.answers = a]
<1>1. e \in Job
  BY DEF Job, Steps
<1>2. /\ e.pc = "done" /\ e.answers = a /\ e.kind = j.kind /\ e.todo = j.todo
      /\ e.body = j.body /\ e.row = j.row
  BY DEF Job
<1>3. LocalsOK(e)
  BY <1>2 DEF JobOK, LocalsOK, TodoOK, AddSteps, ResetSteps
<1>4. a \in Empty => a # <<"SUCCESS">> /\ a # <<"SUCCESS", "SUCCESS">>
  BY DEF Empty
<1>5. <<"SUCCESS">> # <<"SUCCESS", "SUCCESS">>
  OBVIOUS
<1> QED BY <1>1, <1>2, <1>3, <1>4, <1>5 DEF JobOK, ResetOK, AddOK

\* A request under way has no answer yet.
LEMMA AddGoesOn ==
    ASSUME NEW j \in Job, NEW R, NEW T,
           j.kind = "add", j.pc \in AddSteps, j.answers = <<>>,
           j.pc \in {"save", "send"} => j.code \in Codes,
           j.pc = "insert" <=> j.row # <<>>,
           TodoOK(j),
           j.pc \in {"read", "insert"} /\ j.status = "SUCCESS" => Sent(j, T)
    PROVE  JobOK(j, R, T)
<1>1. <<>> # <<"SUCCESS">> /\ <<>> # <<"SUCCESS", "SUCCESS">>
  OBVIOUS
<1> QED BY <1>1 DEF JobOK, LocalsOK, TodoOK, ResetOK, AddOK, AddSteps, ResetSteps

LEMMA ResetGoesOn ==
    ASSUME NEW j \in Job, NEW R, NEW T,
           j.kind = "reset", j.pc \in ResetSteps, j.answers = <<>>,
           TodoOK(j),
           j.pc \in {"resave", "resend"} =>
               j.code \in Codes /\ (j.phone \notin Phones \/ HasNumber(j, R))
    PROVE  JobOK(j, R, T)
<1>1. <<>> # <<"SUCCESS">> /\ <<>> # <<"SUCCESS", "SUCCESS">>
  OBVIOUS
<1> QED BY <1>1 DEF JobOK, LocalsOK, TodoOK, ResetOK, AddOK, AddSteps, ResetSteps

\* What is known of a request to add a user that is under way.
LEMMA AddKnown ==
    ASSUME IInv, NEW h \in Handlers, job[h].pc \in AddSteps
    PROVE  /\ job[h] \in Job /\ JobOK(job[h], rows, texts) /\ h \in InFlight
           /\ job[h].kind = "add" /\ job[h].answers = <<>>
           /\ TodoOK(job[h])
           /\ job[h].code \in Codes \cup {Blank}
           /\ job[h].pc \in {"save", "send"} => job[h].code \in Codes
           /\ job[h].pc = "insert" <=> job[h].row # <<>>
BY DEF IInv, JobOK, LocalsOK, InFlight, At, AddSteps, Job

\* What stays of a handler's locals until the end.
Moved(j, h) ==
    /\ j.kind = job[h].kind /\ j.answers = job[h].answers
    /\ j.todo = job[h].todo /\ j.body = job[h].body /\ j.row = job[h].row

LEMMA AddMoves ==
    ASSUME IInv, NEW h \in Handlers, job[h].pc \in AddSteps \ {"insert"}, NEW T,
           NEW j \in Job, Moved(j, h), j.pc \in AddSteps \ {"insert"},
           j.pc \in {"save", "send"} => j.code \in Codes,
           j.pc = "read" /\ j.status = "SUCCESS" => Sent(j, T)
    PROVE  \A R : JobOK(j, R, T)
<1>1. TodoOK(j)
  BY AddKnown DEF Moved, TodoOK
<1> QED BY <1>1, AddKnown, AddGoesOn DEF Moved

-----------------------------------------------------------------------------
(* UserAdd.                                                                *)

\* A request that has just arrived.
LEMMA FreshType == Fresh \in Job /\ Fresh.answers = <<>> /\ Fresh.todo = {}
                   /\ Fresh.row = <<>>
BY DEF Fresh, Job, Keys, Numbers, Answers, Empty, Steps

LEMMA AddRequestStep ==
    ASSUME IInv, NEW h \in Handlers, AddRequest(h)
    PROVE  StepOK(h)
<1>1. PICK b \in Bodies :
          job' = [job EXCEPT ![h] =
                     [Fresh EXCEPT !.pc = "bind", !.kind = "add", !.body = b,
                                   !.todo = UNION {Parts(f) : f \in
                                      {g \in DOMAIN b : g \in Fields => b[g] # Wrong}}]]
  BY DEF AddRequest
<1> DEFINE t == UNION {Parts(f) : f \in
                          {g \in DOMAIN b : g \in Fields => b[g] # Wrong}}
           j == [Fresh EXCEPT !.pc = "bind", !.kind = "add", !.body = b,
                              !.todo = t]
<1>2. /\ t \in SUBSET Pieces
      /\ \A w \in t : w[1] \in DOMAIN b /\ (w[1] \in Fields => b[w[1]] # Wrong)
  <2>1. DOMAIN b \subseteq Fields \cup ModelFields
    BY WebAssumption
  <2> QED BY <2>1 DEF Parts, Pieces
<1>3. /\ j \in Job /\ j.pc = "bind" /\ j.kind = "add" /\ j.body = b
      /\ j.todo = t /\ j.answers = <<>> /\ j.row = <<>>
  <2>1. t \in SUBSET Pieces
    BY <1>2
  <2> HIDE DEF t
  <2> QED BY <2>1, FreshType DEF Job, Steps
<1>4. JobOK(j, rows', texts')
  <2> HIDE DEF t, j
  <2> QED BY <1>2, <1>3, AddGoesOn DEF AddSteps, TodoOK
<1>5. DataOK' /\ Arrive(h) /\ UNCHANGED <<rows, texts>>
  BY DEF AddRequest, IInv, DataOK, BackendTypeOK, backendVars, memory
<1> QED BY <1>1, <1>3, <1>4, <1>5 DEF StepOK

LEMMA BindStep ==
    ASSUME IInv, NEW h \in Handlers, Bind(h)
    PROVE  StepOK(h)
<1>1. PICK w \in job[h].todo :
          /\ job' = [job EXCEPT ![h].todo = @ \ {w}]
          /\ \/ /\ w[1] \in Fields
                /\ user' = [user EXCEPT ![w[1]][w[2]] = job[h].body[w[1]]]
                /\ UNCHANGED <<userId, userDel>>
             \/ /\ w[1] = "id"
                /\ userId' = job[h].body[w[1]]
                /\ UNCHANGED <<user, userDel>>
             \/ /\ w[1] = "deletedAt"
                /\ userDel' = job[h].body[w[1]]
                /\ UNCHANGED <<user, userId>>
  BY DEF Bind
<1> DEFINE j == [job[h] EXCEPT !.todo = @ \ {w}]
<1>2. /\ job[h] \in Job /\ JobOK(job[h], rows, texts) /\ DataOK
      /\ job[h].pc = "bind"
  BY DEF IInv, Bind, At
<1>3. /\ w[1] \in Fields \cup ModelFields /\ job[h].body \in Bodies
      /\ w[1] \in DOMAIN job[h].body
      /\ w[1] \in Fields => job[h].body[w[1]] # Wrong
  BY <1>2 DEF JobOK, LocalsOK, TodoOK, Job, Pieces
<1>4. \/ w[1] = "username" /\ job[h].body[w[1]] \in Names
      \/ w[1] = "phone" /\ job[h].body[w[1]] \in Phones
      \/ w[1] = "id" /\ job[h].body[w[1]] \in Nat
      \/ w[1] = "deletedAt" /\ job[h].body[w[1]] \in Times
  BY <1>3, WebAssumption
<1>5. DataOK'
  <2>1. /\ user' \in [Fields -> [Words -> Names \cup Phones \cup {Blank}]]
        /\ \A v \in Words : /\ user'["username"][v] \in Names \cup {Blank}
                           /\ user'["phone"][v] \in Phones \cup {Blank}
    BY <1>1, <1>2, <1>4 DEF DataOK
  <2>2. userId' \in Nat /\ userDel' \in Times
    BY <1>1, <1>2, <1>4 DEF DataOK
  <2> QED BY <1>2, <2>1, <2>2 DEF Bind, DataOK, BackendTypeOK, backendVars
<1>6. j \in Job
  BY <1>2 DEF Job
<1>7. JobOK(j, rows, texts)
  BY <1>2 DEF JobOK, LocalsOK, TodoOK, ResetOK, AddOK, HasNumber, Sent, Job, AddSteps
<1>8. job' = [job EXCEPT ![h] = j] /\ UNCHANGED <<rows, texts>> /\ h \in InFlight
  BY <1>1, <1>2 DEF Bind, backendVars, InFlight, At
<1> QED BY <1>5, <1>6, <1>7, <1>8 DEF StepOK

\* A call that only moves its handler on, or ends it with another answer than
\* SUCCESS.
LEMMA QuietStep ==
    ASSUME IInv, NEW h \in Handlers, h \in InFlight,
           UNCHANGED <<rows, lastId, redis, texts, memory>>,
           UNCHANGED budget \/ Spend("fault"),
           NEW j \in Job, JobOK(j, rows, texts), job' = [job EXCEPT ![h] = j]
    PROVE  StepOK(h)
BY QuietData DEF StepOK, IInv

LEMMA BoundStep ==
    ASSUME IInv, NEW h \in Handlers, Bound(h)
    PROVE  StepOK(h)
<1> DEFINE bad  == [job[h] EXCEPT !.pc = "done", !.answers = <<>>]
           good == [job[h] EXCEPT !.pc = "check"]
<1>1. job[h].pc = "bind" /\ job[h].pc \in AddSteps
  BY DEF Bound, At, AddSteps
<1>2. bad \in Job /\ JobOK(bad, rows, texts)
  BY <1>1, AddKnown, JobEnds DEF Empty, Answers
<1>3. good \in Job /\ Moved(good, h) /\ good.pc = "check"
  <2>1. job[h] \in Job /\ "check" \in Steps
    BY <1>1, AddKnown DEF Steps
  <2> QED BY <2>1, JobPc DEF Moved, Job
<1>4. JobOK(good, rows, texts)
  <2> HIDE DEF good
  <2> QED BY <1>1, <1>3, AddMoves DEF AddSteps
<1>5. job' = [job EXCEPT ![h] = good] \/ job' = [job EXCEPT ![h] = bad]
  BY DEF Bound, Answer, Goto
<1> HIDE DEF good, bad
<1> QED
  BY <1>1, <1>2, <1>3, <1>4, <1>5, AddKnown, QuietStep DEF Bound, backendVars

LEMMA CheckUserStep ==
    ASSUME IInv, NEW h \in Handlers, CheckUser(h)
    PROVE  StepOK(h)
<1> DEFINE found == [job[h] EXCEPT !.pc = "done", !.answers = <<"USER_EXIST">>]
           free  == [job[h] EXCEPT !.pc = "phone"]
<1>1. job[h].pc = "check" /\ job[h].pc \in AddSteps
  BY DEF CheckUser, At, AddSteps
<1>2. found \in Job /\ JobOK(found, rows, texts)
  BY <1>1, AddKnown, JobEnds DEF Empty, Answers
<1>3. free \in Job /\ Moved(free, h) /\ free.pc = "phone"
  <2>1. job[h] \in Job /\ "phone" \in Steps
    BY <1>1, AddKnown DEF Steps
  <2> QED BY <2>1, JobPc DEF Moved, Job
<1>4. JobOK(free, rows, texts)
  <2> HIDE DEF free
  <2> QED BY <1>1, <1>3, AddMoves DEF AddSteps
<1>5. job' = [job EXCEPT ![h] = free] \/ job' = [job EXCEPT ![h] = found]
  BY DEF CheckUser, Answer, Goto
<1> HIDE DEF free, found
<1> QED BY <1>1, <1>2, <1>3, <1>4, <1>5, AddKnown, QuietStep DEF CheckUser

LEMMA ReadPhoneStep ==
    ASSUME IInv, NEW h \in Handlers, ReadPhone(h)
    PROVE  StepOK(h)
<1>1. job[h].pc = "phone" /\ job[h].pc \in AddSteps
  BY DEF ReadPhone, At, AddSteps
<1>2. PICK c \in Codes :
          job' = [job EXCEPT ![h].pc = "save", ![h].phone = Value("phone"),
                             ![h].code = c]
  BY DEF ReadPhone
<1> DEFINE j == [job[h] EXCEPT !.pc = "save", !.phone = Value("phone"), !.code = c]
<1>3. j \in Job /\ Moved(j, h) /\ j.pc = "save" /\ j.code \in Codes
  <2>1. job[h] \in Job /\ Value("phone") \in Numbers /\ c \in Codes
        /\ "save" \in Steps
    BY <1>1, AddKnown, ValueType DEF IInv, Steps
  <2>2. j \in Job
    BY <2>1, JobPhone
  <2> QED BY <2>1, <2>2 DEF Moved, Job
<1>4. JobOK(j, rows, texts)
  <2> HIDE DEF j
  <2> QED BY <1>1, <1>3, AddMoves DEF AddSteps
<1>5. job' = [job EXCEPT ![h] = j]
  BY <1>2
<1> HIDE DEF j
<1> QED
  BY <1>1, <1>3, <1>4, <1>5, AddKnown, QuietStep DEF ReadPhone, backendVars

LEMMA SaveCodeStep ==
    ASSUME IInv, NEW h \in Handlers, SaveCode(h)
    PROVE  StepOK(h)
<1>1. job[h].pc = "save" /\ job[h].pc \in AddSteps
  BY DEF SaveCode, At, AddSteps
<1> DEFINE name   == Value("username")
           sent   == [job[h] EXCEPT !.pc = "send", !.name = name]
           panics == [job[h] EXCEPT !.pc = "done", !.answers = <<"PANIC">>]
           fails  == [job[h] EXCEPT !.pc = "done", !.answers = <<"SUCCESS">>]
<1>2. /\ panics \in Job /\ JobOK(panics, rows, texts)
      /\ fails \in Job /\ JobOK(fails, rows, texts)
  BY <1>1, AddKnown, JobEnds DEF Empty, Answers
<1>3. name \in Keys /\ DataOK
  BY ValueType DEF IInv
<1>4. /\ sent \in Job /\ Moved(sent, h) /\ sent.pc = "send"
      /\ sent.code = job[h].code
  <2>1. job[h] \in Job /\ "send" \in Steps
    BY <1>1, AddKnown DEF Steps
  <2>2. sent \in Job
    BY <1>3, <2>1, JobName
  <2> QED BY <2>1, <2>2 DEF Moved, Job
<1>5. JobOK(sent, rows, texts)
  <2> HIDE DEF sent
  <2> QED BY <1>1, <1>4, AddKnown, AddMoves DEF AddSteps
<1>6. CASE Panic(h) /\ UNCHANGED <<redis, budget>>
  <2>1. job' = [job EXCEPT ![h] = panics]
    BY <1>6 DEF Panic, Answer
  <2> HIDE DEF panics
  <2> QED BY <1>1, <1>2, <1>6, <2>1, AddKnown, QuietStep DEF SaveCode
<1>7. CASE Store(name, job[h].code,
                 job' = [job EXCEPT ![h].pc = "send", ![h].name = name],
                 Answer(h, <<"SUCCESS">>))
  <2>1. /\ job[h].code \in Codes
        /\ UNCHANGED <<rows, lastId, texts, memory>>
    BY <1>1, AddKnown DEF SaveCode
  <2>2. DataOK'
    BY <1>3, <1>7, <2>1, StoreStep
  <2>3. job' = [job EXCEPT ![h] = sent] \/ job' = [job EXCEPT ![h] = fails]
    BY <1>7 DEF Store, Answer
  <2> HIDE DEF sent, fails
  <2> QED BY <1>1, <1>2, <1>4, <1>5, <2>1, <2>2, <2>3, AddKnown DEF StepOK
<1> QED BY <1>6, <1>7 DEF SaveCode

LEMMA SendCodeStep ==
    ASSUME IInv, NEW h \in Handlers, SendCode(h)
    PROVE  StepOK(h)
<1>1. job[h].pc = "send" /\ job[h].pc \in AddSteps
  BY DEF SendCode, At, AddSteps
<1>2. /\ DataOK /\ job[h].code \in Codes /\ job[h].phone \in Numbers
      /\ UNCHANGED <<rows, lastId, redis, memory>>
  BY <1>1, AddKnown DEF IInv, Job, SendCode
<1> DEFINE good == [job[h] EXCEPT !.pc = "read"]
           bad  == [job[h] EXCEPT !.pc = "read", !.status = "ERROR"]
<1>3. /\ DataOK' /\ texts \subseteq texts'
      /\ \/ Goto(h, "read") /\ [phone |-> job[h].phone, code |-> job[h].code] \in texts'
         \/ job' = [job EXCEPT ![h].pc = "read", ![h].status = "ERROR"]
  <2>1. \/ Goto(h, "read") /\ Deliver(job[h].phone, job[h].code) /\ UNCHANGED budget
        \/ /\ job' = [job EXCEPT ![h].pc = "read", ![h].status = "ERROR"]
           /\ UNCHANGED texts \/ Deliver(job[h].phone, job[h].code)
           /\ UNCHANGED budget \/ Spend("fault")
    BY DEF SendCode, Send
  <2> QED BY <1>2, <2>1, SendStep
<1>4. /\ good \in Job /\ Moved(good, h) /\ good.pc = "read"
      /\ good.phone = job[h].phone /\ good.code = job[h].code
      /\ bad \in Job /\ Moved(bad, h) /\ bad.pc = "read" /\ bad.status = "ERROR"
  <2>1. job[h] \in Job /\ "read" \in Steps
    BY <1>1, AddKnown DEF Steps
  <2>2. good \in Job /\ bad \in Job
    BY <2>1, JobPc, JobStatus
  <2> QED BY <2>1, <2>2 DEF Moved, Job
<1>5. JobOK(bad, rows', texts')
  <2> HIDE DEF bad
  <2> QED BY <1>1, <1>4, AddMoves DEF AddSteps
<1>6. ASSUME Goto(h, "read"),
             [phone |-> job[h].phone, code |-> job[h].code] \in texts'
      PROVE  JobOK(good, rows', texts') /\ job' = [job EXCEPT ![h] = good]
  <2>1. job' = [job EXCEPT ![h] = good]
    BY <1>6 DEF Goto
  <2> HIDE DEF good
  <2>2. Sent(good, texts')
    BY <1>4, <1>6 DEF Sent
  <2> QED BY <1>1, <1>4, <2>1, <2>2, AddMoves DEF AddSteps
<1>7. CASE job' = [job EXCEPT ![h] = bad]
  <2> HIDE DEF bad
  <2> QED BY <1>1, <1>2, <1>3, <1>4, <1>5, <1>7, AddKnown DEF StepOK
<1>8. CASE Goto(h, "read") /\ [phone |-> job[h].phone, code |-> job[h].code] \in texts'
  <2> HIDE DEF good
  <2> QED BY <1>1, <1>2, <1>3, <1>4, <1>6, <1>8, AddKnown DEF StepOK
<1> QED BY <1>3, <1>7, <1>8

LEMMA ReadUserStep ==
    ASSUME IInv, NEW h \in Handlers, ReadUser(h)
    PROVE  StepOK(h)
<1>1. job[h].pc = "read" /\ job[h].pc \in AddSteps
  BY DEF ReadUser, At, AddSteps
<1> DEFINE row == [id |-> userId, username |-> Value("username"),
                   phone |-> Value("phone"), deletedAt |-> userDel]
           j   == [job[h] EXCEPT !.pc = "insert", !.row = row]
<1>2. row \in Rows /\ row # <<>>
  <2>1. row \in Rows
    BY ValueType DEF IInv, DataOK, BackendTypeOK, Rows
  <2>2. DOMAIN row = {"id", "username", "phone", "deletedAt"} /\ DOMAIN <<>> = {}
    OBVIOUS
  <2> QED BY <2>1, <2>2
<1>3. /\ j.pc = "insert" /\ j.row = row /\ j.kind = "add" /\ j.answers = <<>>
      /\ j.todo = job[h].todo /\ j.body = job[h].body /\ j.status = job[h].status
      /\ j.phone = job[h].phone /\ j.code = job[h].code
      /\ job' = [job EXCEPT ![h] = j]
  BY <1>1, AddKnown DEF Job, ReadUser
<1>4. j \in Job
  <2> HIDE DEF row
  <2>1. job[h] \in Job /\ "insert" \in Steps
    BY <1>1, AddKnown DEF Steps
  <2> QED BY <1>2, <2>1, JobRow
<1>5. j.status = "SUCCESS" => Sent(j, texts)
  BY <1>1, <1>3, AddKnown DEF JobOK, AddOK, Sent
<1> HIDE DEF j, row
<1>6. JobOK(j, rows, texts)
  BY <1>1, <1>2, <1>3, <1>4, <1>5, AddKnown, AddGoesOn DEF AddSteps, TodoOK
<1> QED
  BY <1>1, <1>3, <1>4, <1>6, AddKnown, QuietStep DEF ReadUser, backendVars

LEMMA InsertStep ==
    ASSUME IInv, NEW h \in Handlers, Insert(h)
    PROVE  StepOK(h)
<1>1. job[h].pc = "insert" /\ job[h].pc \in AddSteps
  BY DEF Insert, At, AddSteps
<1> DEFINE old  == job[h].row
           auto == old.id = 0
           row  == [old EXCEPT !.id = IF auto THEN lastId + 1 ELSE @]
           Numbered == /\ lastId' = IF row.id > lastId THEN row.id ELSE lastId
                       /\ userId' = IF auto THEN row.id ELSE userId
           e(s) == [job[h] EXCEPT !.pc = "done", !.row = row,
                                  !.answers = <<s, "SUCCESS">>]
<1>2. DataOK /\ job[h] \in Job /\ JobOK(job[h], rows, texts) /\ h \in InFlight
  BY <1>1, AddKnown DEF IInv
<1>3. row \in Row /\ row \in Rows
  <2>1. old \in Rows /\ lastId \in Nat
    BY <1>1, <1>2 DEF JobOK, LocalsOK, Job, DataOK, BackendTypeOK
  <2> QED BY <2>1 DEF Row, Rows, Numbers
<1>4. PICK s \in {"SUCCESS", "ERROR"} :
          /\ job' = [job EXCEPT ![h].pc = "done", ![h].row = row,
                                ![h].answers = <<s, "SUCCESS">>]
          /\ s = "SUCCESS" => row \in rows' /\ job[h].status = "SUCCESS"
          /\ rows' = rows \/ rows' = rows \cup {row}
          /\ Numbered \/ UNCHANGED <<lastId, userId>>
          /\ UNCHANGED budget \/ Spend("fault")
          /\ UNCHANGED <<redis, texts, user, userDel, pool>>
  <2>1. job[h].status \in {"SUCCESS", "ERROR"}
    BY <1>2 DEF Job
  <2> HIDE DEF row, auto
  <2> QED BY <2>1 DEF Insert, row, auto
<1>5. DataOK'
  <2>1. budget' \in [Mishaps -> Nat]
    BY <1>2, <1>4, SpendType DEF DataOK, BackendTypeOK
  <2>2. rows' \subseteq Row
    BY <1>2, <1>3, <1>4 DEF DataOK, BackendTypeOK
  <2>3. lastId' \in Nat /\ userId' \in Nat
    <3> HIDE DEF row, auto
    <3>1. lastId \in Nat /\ userId \in Nat /\ row.id \in Nat
      BY <1>2, <1>3 DEF DataOK, BackendTypeOK, Rows
    <3> QED BY <1>4, <3>1
  <2> QED BY <1>2, <1>4, <2>1, <2>2, <2>3 DEF DataOK, BackendTypeOK
<1>6. /\ e(s) \in Job /\ e(s).pc = "done" /\ e(s).kind = "add"
      /\ e(s).todo = job[h].todo /\ e(s).body = job[h].body
      /\ e(s).phone = job[h].phone /\ e(s).code = job[h].code
      /\ e(s).row = row /\ e(s).answers = <<s, "SUCCESS">>
      /\ job' = [job EXCEPT ![h] = e(s)]
  <2>1. <<s, "SUCCESS">> \in Answers
    BY DEF Answers, Empty
  <2>2. job[h].kind = "add"
    BY <1>1, AddKnown
  <2> HIDE DEF row
  <2>3. e(s) \in Job
    BY <1>2, <1>3, <2>1, JobRowEnds
  <2> QED BY <1>2, <1>4, <2>2, <2>3 DEF Job
<1>7. JobOK(e(s), rows', texts')
  <2> HIDE DEF row, e
  <2>1. s = "SUCCESS" => Sent(e(s), texts')
    BY <1>1, <1>2, <1>4, <1>6, AddKnown DEF JobOK, AddOK, Sent
  <2>2. e(s).answers = <<"SUCCESS", "SUCCESS">> => s = "SUCCESS"
    BY <1>6
  <2>3. LocalsOK(e(s))
    BY <1>1, <1>2, <1>6, AddKnown DEF JobOK, LocalsOK, TodoOK, AddSteps, ResetSteps
  <2>4. e(s).answers # <<"SUCCESS">>
    BY <1>6
  <2> QED BY <1>4, <1>6, <2>1, <2>2, <2>3, <2>4 DEF JobOK, ResetOK, AddOK
<1> HIDE DEF row, e
<1>8. rows \subseteq rows' /\ texts \subseteq texts'
  BY <1>4
<1> QED BY <1>2, <1>5, <1>6, <1>7, <1>8 DEF StepOK

LEMMA UserAddStep ==
    ASSUME IInv, NEW h \in Handlers, UserAdd(h)
    PROVE  StepOK(h)
BY AddRequestStep, BindStep, BoundStep, CheckUserStep, ReadPhoneStep, SaveCodeStep,
   SendCodeStep, ReadUserStep, InsertStep DEF UserAdd

-----------------------------------------------------------------------------
(* ResetPassword.                                                          *)

\* What is known of a reset that is under way.
LEMMA ResetKnown ==
    ASSUME IInv, NEW h \in Handlers, job[h].pc \in ResetSteps
    PROVE  /\ job[h] \in Job /\ JobOK(job[h], rows, texts) /\ h \in InFlight
           /\ job[h].kind = "reset" /\ job[h].answers = <<>> /\ DataOK
           /\ TodoOK(job[h])
           /\ job[h].pc \in {"resave", "resend"} =>
                  job[h].code \in Codes
                  /\ (job[h].phone \notin Phones \/ HasNumber(job[h], rows))
BY DEF IInv, JobOK, LocalsOK, ResetOK, InFlight, At, ResetSteps

LEMMA ResetRequestStep ==
    ASSUME IInv, NEW h \in Handlers, ResetRequest(h)
    PROVE  StepOK(h)
<1>1. PICK n \in Names :
          job' = [job EXCEPT ![h] = [Fresh EXCEPT !.pc = "lookup",
                                                  !.kind = "reset", !.name = n]]
  BY DEF ResetRequest
<1> DEFINE j == [Fresh EXCEPT !.pc = "lookup", !.kind = "reset", !.name = n]
<1>2. /\ j \in Job /\ j.pc = "lookup" /\ j.kind = "reset" /\ j.answers = <<>>
      /\ j.todo = {}
  BY FreshType DEF Job, Steps, Keys
<1>3. JobOK(j, rows', texts')
  <2> HIDE DEF j
  <2> QED BY <1>2 DEF JobOK, LocalsOK, TodoOK, ResetOK, AddOK, AddSteps, ResetSteps
<1>4. DataOK' /\ Arrive(h) /\ UNCHANGED <<rows, texts>>
  BY DEF ResetRequest, IInv, DataOK, BackendTypeOK, backendVars
<1> QED BY <1>1, <1>2, <1>3, <1>4 DEF StepOK

LEMMA LookupPhoneStep ==
    ASSUME IInv, NEW h \in Handlers, LookupPhone(h)
    PROVE  StepOK(h)
<1>1. job[h].pc = "lookup" /\ job[h].pc \in ResetSteps
  BY DEF LookupPhone, At, ResetSteps
<1>2. PICK c \in Codes, p \in Numbers :
          /\ (\E r \in RowsNamed(job[h].name) : r.phone = p) \/ p = Blank
          /\ job' = [job EXCEPT ![h].pc = "resave", ![h].phone = p, ![h].code = c]
          /\ UNCHANGED budget \/ Spend("fault")
  BY DEF LookupPhone, Numbers
<1> DEFINE j == [job[h] EXCEPT !.pc = "resave", !.phone = p, !.code = c]
<1>3. /\ j \in Job /\ j.pc = "resave" /\ j.kind = "reset" /\ j.answers = <<>>
      /\ j.phone = p /\ j.code = c /\ j.name = job[h].name /\ j.todo = job[h].todo
      /\ j.body = job[h].body /\ job' = [job EXCEPT ![h] = j]
  <2>1. /\ job[h] \in Job /\ "resave" \in Steps
        /\ job[h].kind = "reset" /\ job[h].answers = <<>>
    BY <1>1, ResetKnown DEF Steps
  <2>2. j \in Job
    BY <2>1, JobPhone
  <2> QED BY <1>2, <2>1, <2>2 DEF Job
<1> HIDE DEF j
<1>4. j.phone \notin Phones \/ HasNumber(j, rows)
  BY <1>2, <1>3, BackendAssumption DEF HasNumber, RowsNamed
<1>5. JobOK(j, rows, texts)
  BY <1>1, <1>3, <1>4, ResetKnown, ResetGoesOn DEF ResetSteps, TodoOK
<1> QED BY <1>1, <1>2, <1>3, <1>5, ResetKnown, QuietStep DEF LookupPhone

LEMMA SaveResetCodeStep ==
    ASSUME IInv, NEW h \in Handlers, SaveResetCode(h)
    PROVE  StepOK(h)
<1>1. job[h].pc = "resave" /\ job[h].pc \in ResetSteps
  BY DEF SaveResetCode, At, ResetSteps
<1> DEFINE good == [job[h] EXCEPT !.pc = "resend"]
           bad  == [job[h] EXCEPT !.pc = "done", !.answers = <<"REDIS_ERROR_SAVE">>]
<1>2. bad \in Job /\ JobOK(bad, rows, texts)
  BY <1>1, ResetKnown, JobEnds DEF Empty, Answers
<1>3. /\ good \in Job /\ good.pc = "resend" /\ good.kind = "reset"
      /\ good.answers = <<>> /\ good.phone = job[h].phone /\ good.code = job[h].code
      /\ good.name = job[h].name /\ good.todo = job[h].todo
      /\ good.body = job[h].body
  <2>1. /\ job[h] \in Job /\ "resend" \in Steps
        /\ job[h].kind = "reset" /\ job[h].answers = <<>>
    BY <1>1, ResetKnown DEF Steps
  <2>2. good \in Job
    BY <2>1, JobPc
  <2> QED BY <2>1, <2>2 DEF Job
<1>4. JobOK(good, rows, texts)
  <2> HIDE DEF good
  <2>1. good.phone \notin Phones \/ HasNumber(good, rows)
    BY <1>1, <1>3, ResetKnown DEF HasNumber
  <2> QED BY <1>1, <1>3, <2>1, ResetKnown, ResetGoesOn DEF ResetSteps, TodoOK
<1>5. job' = [job EXCEPT ![h] = good] \/ job' = [job EXCEPT ![h] = bad]
  BY DEF SaveResetCode, Store, Goto, Answer
<1>6. DataOK'
  <2>1. job[h].code \in Codes /\ job[h].name \in Keys /\ DataOK
    BY <1>1, ResetKnown DEF Job
  <2> QED BY <2>1, StoreStep DEF SaveResetCode
<1>7. UNCHANGED <<rows, texts>>
  BY DEF SaveResetCode
<1> HIDE DEF good, bad
<1> QED BY <1>1, <1>2, <1>3, <1>4, <1>5, <1>6, <1>7, ResetKnown DEF StepOK

LEMMA SendResetCodeStep ==
    ASSUME IInv, NEW h \in Handlers, SendResetCode(h)
    PROVE  StepOK(h)
<1>1. job[h].pc = "resend" /\ job[h].pc \in ResetSteps
  BY DEF SendResetCode, At, ResetSteps
<1> DEFINE good == [job[h] EXCEPT !.pc = "done", !.answers = <<"SUCCESS">>]
           bad  == [job[h] EXCEPT !.pc = "done", !.answers = <<"ERROR">>]
<1>2. /\ DataOK /\ job[h].code \in Codes /\ job[h].phone \in Numbers
      /\ UNCHANGED <<rows, lastId, redis, memory>>
  BY <1>1, ResetKnown DEF Job, SendResetCode
<1>3. /\ UNCHANGED texts \/ Deliver(job[h].phone, job[h].code)
      /\ UNCHANGED budget \/ Spend("fault")
      /\ \/ job' = [job EXCEPT ![h] = good] /\ Deliver(job[h].phone, job[h].code)
         \/ job' = [job EXCEPT ![h] = bad]
  BY DEF SendResetCode, Send, Answer
<1>4. /\ DataOK' /\ texts \subseteq texts'
      /\ Deliver(job[h].phone, job[h].code) =>
             [phone |-> job[h].phone, code |-> job[h].code] \in texts'
  BY <1>2, <1>3, SendStep
<1>5. bad \in Job /\ JobOK(bad, rows, texts)
  BY <1>1, ResetKnown, JobEnds DEF Empty, Answers
<1>6. JobOK(bad, rows', texts')
  <2> HIDE DEF bad
  <2> QED BY <1>2, <1>4, <1>5, JobKept
<1>7. /\ good \in Job /\ good.pc = "done" /\ good.kind = "reset"
      /\ good.phone = job[h].phone /\ good.code = job[h].code
      /\ good.name = job[h].name /\ good.todo = job[h].todo
      /\ good.body = job[h].body
  BY <1>1, ResetKnown DEF Job, Steps, Answers
<1>8. ASSUME Deliver(job[h].phone, job[h].code)
      PROVE  JobOK(good, rows', texts')
  <2> HIDE DEF good
  <2>1. Sent(good, texts')
    BY <1>4, <1>7, <1>8 DEF Sent
  <2>2. HasNumber(good, rows')
    BY <1>1, <1>2, <1>7, <1>8, ResetKnown DEF HasNumber, Deliver
  <2>3. LocalsOK(good)
    BY <1>1, <1>7, ResetKnown DEF JobOK, LocalsOK, TodoOK, AddSteps, ResetSteps
  <2> QED BY <1>7, <2>1, <2>2, <2>3 DEF JobOK, ResetOK, AddOK
<1> HIDE DEF good, bad
<1> QED
  BY <1>1, <1>2, <1>3, <1>4, <1>5, <1>6, <1>7, <1>8, ResetKnown DEF StepOK

LEMMA ResetPasswordStep ==
    ASSUME IInv, NEW h \in Handlers, ResetPassword(h)
    PROVE  StepOK(h)
BY ResetRequestStep, LookupPhoneStep, SaveResetCodeStep, SendResetCodeStep
   DEF ResetPassword

-----------------------------------------------------------------------------
(* InformationCommit.                                                      *)

LEMMA CommitRequestStep ==
    ASSUME IInv, NEW h \in Handlers, CommitRequest(h)
    PROVE  StepOK(h)
<1>1. PICK n \in Names, c \in Codes :
          job' = [job EXCEPT ![h] = [Fresh EXCEPT !.pc = "get", !.kind = "commit",
                                                  !.name = n, !.code = c]]
  BY DEF CommitRequest
<1> DEFINE j == [Fresh EXCEPT !.pc = "get", !.kind = "commit", !.name = n, !.code = c]
<1>2. /\ j \in Job /\ j.pc = "get" /\ j.kind = "commit" /\ j.answers = <<>>
      /\ j.todo = {}
  BY FreshType DEF Job, Steps, Keys
<1>3. JobOK(j, rows', texts')
  <2> HIDE DEF j
  <2> QED BY <1>2 DEF JobOK, LocalsOK, TodoOK, ResetOK, AddOK, AddSteps, ResetSteps
<1>4. DataOK' /\ Arrive(h) /\ UNCHANGED <<rows, texts>>
  BY DEF CommitRequest, IInv, DataOK, BackendTypeOK, backendVars, memory
<1> QED BY <1>1, <1>2, <1>3, <1>4 DEF StepOK

LEMMA GetCodeStep ==
    ASSUME IInv, NEW h \in Handlers, GetCode(h)
    PROVE  StepOK(h)
<1>1. /\ job[h].pc = "get" /\ h \in InFlight
      /\ job[h] \in Job /\ JobOK(job[h], rows, texts)
  BY DEF GetCode, IInv, InFlight, At
<1>2. PICK a \in Empty : job' = [job EXCEPT ![h].pc = "done", ![h].answers = a]
  BY DEF GetCode, Panic, Answer, Empty
<1> DEFINE e == [job[h] EXCEPT !.pc = "done", !.answers = a]
<1>3. a \in Answers
  BY DEF Answers
<1>4. e \in Job /\ JobOK(e, rows, texts)
  BY <1>1, <1>3, JobEnds
<1>5. /\ UNCHANGED budget \/ Spend("fault")
      /\ UNCHANGED <<rows, lastId, redis, texts, memory>>
  BY DEF GetCode
<1>6. job' = [job EXCEPT ![h] = e]
  BY <1>2
<1> HIDE DEF e
<1> QED BY <1>1, <1>4, <1>5, <1>6, QuietStep

LEMMA InformationCommitStep ==
    ASSUME IInv, NEW h \in Handlers, InformationCommit(h)
    PROVE  StepOK(h)
BY CommitRequestStep, GetCodeStep DEF InformationCommit

-----------------------------------------------------------------------------
(* The invariant is kept.                                                  *)

LEMMA InFlightFinite == IsFiniteSet(InFlight) /\ Cardinality(InFlight) \in Nat
<1>1. InFlight \subseteq Handlers
  BY DEF InFlight
<1>2. IsFiniteSet(InFlight)
  BY <1>1, FS_Subset, WebAssumption
<1> QED BY <1>2, FS_CardinalityType

\* A request arrives only while fewer than Concurrency are under way.
LEMMA FlightStep ==
    ASSUME IInv, NEW h \in Handlers, h \in InFlight \/ Arrive(h),
           NEW j, job' = [job EXCEPT ![h] = j]
    PROVE  FlightOK'
<1>1. InFlight' \subseteq InFlight \cup {h}
  BY DEF InFlight, At, IInv
<1>2. /\ IsFiniteSet(InFlight \cup {h})
      /\ Cardinality(InFlight \cup {h}) =
             IF h \in InFlight THEN Cardinality(InFlight)
                               ELSE Cardinality(InFlight) + 1
  BY InFlightFinite, FS_AddElement
<1>3. Cardinality(InFlight') <= Cardinality(InFlight \cup {h})
  BY <1>1, <1>2, FS_Subset
<1>4. Cardinality(InFlight \cup {h}) <= Concurrency
  BY <1>2, InFlightFinite, WebAssumption DEF Arrive, IInv, FlightOK
<1>5. /\ Cardinality(InFlight') \in Nat
      /\ Cardinality(InFlight \cup {h}) \in Nat
  BY <1>1, <1>2, FS_Subset, FS_CardinalityType
<1> QED BY <1>3, <1>4, <1>5, WebAssumption DEF FlightOK

LEMMA StepKeeps ==
    ASSUME IInv, NEW h \in Handlers, StepOK(h)
    PROVE  IInv'
<1>1. PICK j \in Job : job' = [job EXCEPT ![h] = j] /\ JobOK(j, rows', texts')
  BY DEF StepOK
<1>2. FlightOK'
  BY <1>1, FlightStep DEF StepOK
<1>3. job' \in [Handlers -> Job]
  BY <1>1 DEF IInv
<1>4. ASSUME NEW g \in Handlers
      PROVE  JobOK(job[g], rows, texts)' 
  <2>1. JobOK(job[g], rows', texts')
    BY JobKept DEF IInv, StepOK
  <2>2. job'[g] = IF g = h THEN j ELSE job[g]
    BY <1>1 DEF IInv
  <2> QED BY <1>1, <2>1, <2>2
<1> QED BY <1>2, <1>3, <1>4 DEF IInv, StepOK

LEMMA ExpireStep ==
    ASSUME IInv, Expire, UNCHANGED <<memory, job>>
    PROVE  IInv'
<1>1. DataOK'
  BY DEF IInv, DataOK, BackendTypeOK, Expire, memory
<1>2. InFlight' = InFlight /\ UNCHANGED <<job, rows, texts>>
  BY DEF InFlight, At, Expire
<1> QED BY <1>1, <1>2 DEF IInv, FlightOK

LEMMA BlankUserType ==
    /\ BlankUser \in [Fields -> [Words -> Names \cup Phones \cup {Blank}]]
    /\ \A w \in Words : BlankUser["username"][w] = Blank
                       /\ BlankUser["phone"][w] = Blank
BY DEF BlankUser

\* The requests under way end without an answer.
LEMMA RestartStep ==
    ASSUME IInv, Restart
    PROVE  IInv'
<1>1. DataOK'
  <2>1. budget' \in [Mishaps -> Nat]
    BY SpendType DEF IInv, DataOK, BackendTypeOK, Restart
  <2>2. userId' \in Nat /\ userDel' \in Times
    BY DEF Restart
  <2> QED BY <2>1, <2>2, BlankUserType DEF IInv, DataOK, BackendTypeOK, Restart
<1>2. ASSUME NEW h \in Handlers
      PROVE  /\ job'[h] \in Job /\ JobOK(job'[h], rows, texts)
             /\ job'[h].pc \in {"new", "done"}
  <2>1. job[h] \in Job /\ JobOK(job[h], rows, texts)
    BY DEF IInv
  <2>2. CASE h \in InFlight
    <3> DEFINE e == [job[h] EXCEPT !.pc = "done"]
    <3>1. job'[h] = e
      BY <2>2 DEF Restart
    <3>2. job[h].answers = <<>>
      BY <2>1, <2>2 DEF JobOK, LocalsOK, InFlight, At
    <3>3. /\ e \in Job /\ e.pc = "done" /\ e.answers = <<>>
          /\ e.todo = job[h].todo /\ e.body = job[h].body
      BY <2>1, <3>2 DEF Job, Steps
    <3> HIDE DEF e
    <3>4. <<>> # <<"SUCCESS">> /\ <<>> # <<"SUCCESS", "SUCCESS">>
      OBVIOUS
    <3>5. JobOK(e, rows, texts)
      BY <2>1, <3>3, <3>4 DEF JobOK, LocalsOK, TodoOK, ResetOK, AddOK, AddSteps, ResetSteps
    <3> QED BY <3>1, <3>3, <3>5
  <2>3. CASE h \notin InFlight
    BY <2>1, <2>3 DEF Restart, InFlight, At
  <2> QED BY <2>2, <2>3
<1>3. job' = [h \in Handlers |-> job'[h]]
  BY DEF Restart
<1>4. InFlight' = {}
  BY <1>2 DEF InFlight, At
<1>5. FlightOK'
  BY <1>4, FS_EmptySet, WebAssumption DEF FlightOK
<1>6. UNCHANGED <<rows, texts>>
  BY DEF Restart
<1> QED BY <1>1, <1>2, <1>3, <1>5, <1>6 DEF IInv

LEMMA InitOK == Init => IInv
<1> SUFFICES ASSUME Init PROVE IInv
  OBVIOUS
<1>1. DataOK
  <2>1. BackendTypeOK
    BY BackendAssumption DEF Init, BackendInit, BackendTypeOK
  <2>2. userId \in Nat /\ userDel \in Times /\ user = BlankUser
    BY DEF Init
  <2>3. pool \in BOOLEAN
    BY Zenon DEF Init
  <2> QED BY <2>1, <2>2, <2>3, BlankUserType DEF DataOK
<1>2. job = [h \in Handlers |-> Fresh]
  BY DEF Init
<1>3. Fresh.pc = "new" /\ Fresh.kind = "none"
  BY DEF Fresh
<1>4. FlightOK
  <2>1. InFlight = {}
    BY <1>2, <1>3 DEF InFlight, At
  <2> QED BY <2>1, FS_EmptySet, WebAssumption DEF FlightOK
<1>5. <<>> # <<"SUCCESS">> /\ <<>> # <<"SUCCESS", "SUCCESS">>
  OBVIOUS
<1>6. JobOK(Fresh, rows, texts)
  BY <1>3, <1>5, FreshType DEF JobOK, LocalsOK, TodoOK, ResetOK, AddOK, AddSteps, ResetSteps
<1> QED BY <1>1, <1>2, <1>4, <1>6, FreshType DEF IInv

LEMMA NextOK == IInv /\ [Next]_vars => IInv'
<1> SUFFICES ASSUME IInv, [Next]_vars PROVE IInv'
  OBVIOUS
<1>1. ASSUME NEW h \in Handlers,
             UserAdd(h) \/ ResetPassword(h) \/ InformationCommit(h)
      PROVE  IInv'
  BY <1>1, UserAddStep, ResetPasswordStep, InformationCommitStep, StepKeeps
<1>2. CASE Expire /\ UNCHANGED <<memory, job>>
  BY <1>2, ExpireStep
<1>3. CASE Restart
  BY <1>3, RestartStep
<1>4. CASE UNCHANGED vars
  BY <1>4 DEF vars, backendVars, memory, IInv, DataOK, BackendTypeOK, FlightOK,
              InFlight, At
<1> QED BY <1>1, <1>2, <1>3, <1>4 DEF Next

-----------------------------------------------------------------------------
(* The theorems.                                                           *)

\* The invariant: a request that reports success carries with it that its code
\* was sent, and a reset that has found a number that it is that of a row.
THEOREM InvariantHolds == Spec => []IInv
BY InitOK, NextOK, PTL DEF Spec

LEMMA TypeImplied == IInv => TypeOK
<1> SUFFICES ASSUME IInv PROVE TypeOK
  OBVIOUS
<1> QED BY DEF IInv, DataOK, FlightOK, TypeOK

LEMMA TrueImplied == IInv => AnswersTrue
<1> SUFFICES ASSUME IInv, NEW h \in Handlers
             PROVE  /\ (Done(h, "reset") /\ job[h].answers = <<"SUCCESS">>) =>
                           /\ Texted(h)
                           /\ \E r \in RowsNamed(job[h].name) :
                                  r.phone = job[h].phone
                    /\ (Done(h, "add")
                        /\ job[h].answers = <<"SUCCESS", "SUCCESS">>) =>
                           Texted(h) /\ job[h].row \in rows
                    /\ (Done(h, "add") /\ job[h].answers = <<"SUCCESS">>) =>
                           job[h].row = <<>>
  BY DEF AnswersTrue
<1>1. JobOK(job[h], rows, texts)
  BY DEF IInv
<1> QED BY <1>1 DEF JobOK, ResetOK, AddOK, HasNumber, Sent, Texted, Done,
                    RowsNamed

\* The shared record, the table, the codes, the texts and the number of requests
\* under way stay within their types.
THEOREM TypeCorrect == Spec => []TypeOK
BY InvariantHolds, TypeImplied, PTL

\* What an answer tells holds: a reset that answers SUCCESS has sent its code to a
\* user of the name, an addition that answers twice and SUCCESS first has sent its
\* code and has its row in the table, and one whose only answer is SUCCESS has
\* added nobody.
THEOREM AnswersTrueHolds == Spec => []AnswersTrue
BY InvariantHolds, TrueImplied, PTL
=============================================================================
