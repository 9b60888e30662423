--------------------------- MODULE WebTextProofs ---------------------------
(***************************************************************************)
(* Whom the verification codes reach: TextsOwned, for any requests, any    *)
(* number of them at once and any number of failed calls and crashes.      *)
(***************************************************************************)
EXTENDS WebProofs

\* The steps at which a request has not drawn a code yet.
Codeless == {"new", "bind", "check", "phone", "lookup", "get"}

\* A request without a code has no number either: no text is its.
NumberLater == \A h \in Handlers : job[h].pc \in Codeless => job[h].phone = Blank

\* R are the rows of the table.
Owns(j, t, R) ==
    /\ [phone |-> j.phone, code |-> j.code] = t
    /\ j.kind = "reset" => HasNumber(j, R)

AllOwned == \A t \in texts : \E h \in Handlers : Owns(job[h], t, rows)

TextInv == IInv /\ NumberLater /\ AllOwned

LEMMA OwnsKept ==
    ASSUME NEW j, NEW t, NEW R, NEW S, R \subseteq S, Owns(j, t, R)
    PROVE  Owns(j, t, S)
BY DEF Owns, HasNumber

LEMMA TextNumbers ==
    ASSUME IInv, NEW t \in texts
    PROVE  t.phone \in Phones /\ t.phone # Blank
BY BackendAssumption DEF IInv, DataOK, BackendTypeOK

-----------------------------------------------------------------------------
(* The two ways in which a handler's call goes.                            *)

\* The call of a request that has no code yet and sends nothing.
QuietCall(h, j) ==
    /\ job[h].pc \in Codeless
    /\ job' = [job EXCEPT ![h] = j]
    /\ j.pc \in Codeless => j.phone = Blank
    /\ UNCHANGED <<rows, texts>>

\* The call of a request that keeps its number and its code, and if it is a reset
\* its name.
CodeCall(h, j) ==
    /\ job' = [job EXCEPT ![h] = j]
    /\ j.pc \notin Codeless
    /\ j.phone = job[h].phone /\ j.code = job[h].code /\ j.kind = job[h].kind
    /\ j.kind = "reset" => j.name = job[h].name
    /\ rows \subseteq rows'
    /\ \A t \in texts' : t \in texts \/ Owns(j, t, rows')

LEMMA QuietCallKeeps ==
    ASSUME TextInv, NEW h \in Handlers, NEW j, QuietCall(h, j)
    PROVE  (NumberLater /\ AllOwned)'
<1>1. \A g \in Handlers : job'[g] = IF g = h THEN j ELSE job[g]
  BY DEF TextInv, IInv, QuietCall
<1>2. NumberLater'
  BY <1>1 DEF TextInv, NumberLater, QuietCall
<1>3. ASSUME NEW t \in texts
      PROVE  \E g \in Handlers : Owns(job'[g], t, rows)
  <2>1. PICK g \in Handlers : Owns(job[g], t, rows)
    BY DEF TextInv, AllOwned
  <2>2. g # h
    <3>1. t.phone = job[g].phone
      BY <2>1 DEF Owns
    <3> QED BY <3>1, TextNumbers DEF TextInv, NumberLater, QuietCall
  <2> QED BY <1>1, <2>1, <2>2
<1>4. AllOwned'
  BY <1>3 DEF AllOwned, QuietCall
<1> QED BY <1>2, <1>4

LEMMA CodeCallKeeps ==
    ASSUME TextInv, NEW h \in Handlers, NEW j, CodeCall(h, j)
    PROVE  (NumberLater /\ AllOwned)'
<1>1. \A g \in Handlers : job'[g] = IF g = h THEN j ELSE job[g]
  BY DEF TextInv, IInv, CodeCall
<1>2. NumberLater'
  BY <1>1 DEF TextInv, NumberLater, CodeCall
<1>3. ASSUME NEW t \in texts'
      PROVE  \E g \in Handlers : Owns(job'[g], t, rows')
  <2>1. CASE Owns(j, t, rows')
    BY <1>1, <2>1
  <2>2. CASE t \in texts
    <3>1. PICK g \in Handlers : Owns(job[g], t, rows)
      BY <2>2 DEF TextInv, AllOwned
    <3>2. Owns(job[g], t, rows')
      BY <3>1, OwnsKept DEF CodeCall
    <3>3. Owns(job'[g], t, rows')
      BY <1>1, <3>2 DEF CodeCall, Owns, HasNumber
    <3> QED BY <3>3
  <2> QED BY <2>1, <2>2 DEF CodeCall
<1>4. AllOwned'
  BY <1>3 DEF AllOwned
<1> QED BY <1>2, <1>4

-----------------------------------------------------------------------------
(* The calls of requests that have no code yet.                            *)

LEMMA Arrivals ==
    ASSUME TextInv, NEW h \in Handlers,
           AddRequest(h) \/ ResetRequest(h) \/ CommitRequest(h)
    PROVE  \E j : QuietCall(h, j)
<1>1. job[h].pc \in Codeless /\ UNCHANGED <<rows, texts>>
  BY DEF AddRequest, ResetRequest, CommitRequest, Arrive, At, Codeless,
         backendVars
<1>2. CASE AddRequest(h)
  <2>1. PICK b \in Bodies :
            job' = [job EXCEPT ![h] =
                       [Fresh EXCEPT !.pc = "bind", !.kind = "add", !.body = b,
                                     !.todo = UNION {Parts(f) : f \in
                                        {g \in DOMAIN b :
                                            g \in Fields => b[g] # Wrong}}]]
    BY <1>2 DEF AddRequest
  <2> QED BY <1>1, <2>1 DEF QuietCall, Fresh
<1>3. CASE ResetRequest(h)
  <2>1. PICK n \in Names :
            job' = [job EXCEPT ![h] = [Fresh EXCEPT !.pc = "lookup",
                                                    !.kind = "reset", !.name = n]]
    BY <1>3 DEF ResetRequest
  <2> QED BY <1>1, <2>1 DEF QuietCall, Fresh
<1>4. CASE CommitRequest(h)
  <2>1. PICK n \in Names, c \in Codes :
            job' = [job EXCEPT ![h] = [Fresh EXCEPT !.pc = "get",
                                                    !.kind = "commit",
                                                    !.name = n, !.code = c]]
    BY <1>4 DEF CommitRequest
  <2> QED BY <1>1, <2>1 DEF QuietCall, Fresh
<1> QED BY <1>2, <1>3, <1>4

LEMMA Quiet ==
    ASSUME TextInv, NEW h \in Handlers,
           Bind(h) \/ Bound(h) \/ CheckUser(h) \/ GetCode(h)
    PROVE  \E j : QuietCall(h, j)
<1>1. /\ job[h].pc \in Codeless /\ UNCHANGED <<rows, texts>>
      /\ job[h] \in Job /\ job[h].phone = Blank
  BY DEF Bind, Bound, CheckUser, GetCode, At, Codeless, backendVars, TextInv,
         NumberLater, IInv
<1>2. \/ \E w : job' = [job EXCEPT ![h].todo = @ \ {w}]
      \/ \E p : job' = [job EXCEPT ![h].pc = p]
      \/ \E a : job' = [job EXCEPT ![h].pc = "done", ![h].answers = a]
  BY DEF Bind, Bound, CheckUser, GetCode, Panic, Answer, Goto
<1>3. CASE \E w : job' = [job EXCEPT ![h].todo = @ \ {w}]
  <2>1. PICK w : job' = [job EXCEPT ![h].todo = @ \ {w}]
    BY <1>3
  <2> DEFINE j == [job[h] EXCEPT !.todo = @ \ {w}]
  <2>2. job' = [job EXCEPT ![h] = j] /\ j.phone = Blank
    BY <1>1, <2>1 DEF Job
  <2> QED BY <1>1, <2>2 DEF QuietCall
<1>4. CASE \E p : job' = [job EXCEPT ![h].pc = p]
  <2>1. PICK p : job' = [job EXCEPT ![h].pc = p]
    BY <1>4
  <2> DEFINE j == [job[h] EXCEPT !.pc = p]
  <2>2. job' = [job EXCEPT ![h] = j] /\ j.phone = Blank
    BY <1>1, <2>1 DEF Job
  <2> QED BY <1>1, <2>2 DEF QuietCall
<1>5. CASE \E a : job' = [job EXCEPT ![h].pc = "done", ![h].answers = a]
  <2>1. PICK a : job' = [job EXCEPT ![h].pc = "done", ![h].answers = a]
    BY <1>5
  <2> DEFINE j == [job[h] EXCEPT !.pc = "done", !.answers = a]
  <2>2. job' = [job EXCEPT ![h] = j] /\ j.phone = Blank
    BY <1>1, <2>1 DEF Job
  <2> QED BY <1>1, <2>2 DEF QuietCall
<1> QED BY <1>2, <1>3, <1>4, <1>5

\* A code is drawn in the same call in which the number is read.
LEMMA Draws ==
    ASSUME TextInv, NEW h \in Handlers, ReadPhone(h) \/ LookupPhone(h)
    PROVE  \E j : QuietCall(h, j)
<1>1. /\ job[h].pc \in Codeless /\ UNCHANGED <<rows, texts>> /\ job[h] \in Job
  BY DEF ReadPhone, LookupPhone, At, Codeless, backendVars, TextInv, IInv
<1>2. PICK p \in {"save", "resave"} :
          \E q, c : job' = [job EXCEPT ![h].pc = p, ![h].phone = q, ![h].code = c]
  BY DEF ReadPhone, LookupPhone
<1>3. PICK q, c : job' = [job EXCEPT ![h].pc = p, ![h].phone = q, ![h].code = c]
  BY <1>2
<1> DEFINE j == [job[h] EXCEPT !.pc = p, !.phone = q, !.code = c]
<1>4. job' = [job EXCEPT ![h] = j] /\ j.pc \notin Codeless
  BY <1>1, <1>3 DEF Job, Codeless
<1> QED BY <1>1, <1>4 DEF QuietCall

-----------------------------------------------------------------------------
(* The calls of requests that have one.                                    *)

LEMMA Saves ==
    ASSUME TextInv, NEW h \in Handlers, SaveCode(h) \/ SaveResetCode(h)
    PROVE  \E j : CodeCall(h, j)
<1>1. /\ UNCHANGED <<rows, texts>> /\ job[h] \in Job
      /\ job[h].kind = IF SaveCode(h) THEN "add" ELSE "reset"
  BY DEF SaveCode, SaveResetCode, At, TextInv, IInv, JobOK, LocalsOK, AddSteps,
         ResetSteps
<1>2. \/ \E a : job' = [job EXCEPT ![h].pc = "done", ![h].answers = a]
      \/ job' = [job EXCEPT ![h].pc = "resend"]
      \/ /\ job[h].kind = "add"
         /\ \E n : job' = [job EXCEPT ![h].pc = "send", ![h].name = n]
  BY <1>1 DEF SaveCode, SaveResetCode, Store, Panic, Answer, Goto
<1>3. CASE \E a : job' = [job EXCEPT ![h].pc = "done", ![h].answers = a]
  <2>1. PICK a : job' = [job EXCEPT ![h].pc = "done", ![h].answers = a]
    BY <1>3
  <2> DEFINE j == [job[h] EXCEPT !.pc = "done", !.answers = a]
  <2>2. /\ job' = [job EXCEPT ![h] = j] /\ j.pc = "done" /\ j.phone = job[h].phone
        /\ j.code = job[h].code /\ j.kind = job[h].kind /\ j.name = job[h].name
    BY <1>1, <2>1 DEF Job
  <2> QED BY <1>1, <2>2 DEF CodeCall, Codeless
<1>4. CASE job' = [job EXCEPT ![h].pc = "resend"]
  <2> DEFINE j == [job[h] EXCEPT !.pc = "resend"]
  <2>1. /\ job' = [job EXCEPT ![h] = j] /\ j.pc = "resend"
        /\ j.phone = job[h].phone
        /\ j.code = job[h].code /\ j.kind = job[h].kind /\ j.name = job[h].name
    BY <1>1, <1>4 DEF Job
  <2> QED BY <1>1, <2>1 DEF CodeCall, Codeless
<1>5. CASE /\ job[h].kind = "add"
           /\ \E n : job' = [job EXCEPT ![h].pc = "send", ![h].name = n]
  <2>1. PICK n : job' = [job EXCEPT ![h].pc = "send", ![h].name = n]
    BY <1>5
  <2> DEFINE j == [job[h] EXCEPT !.pc = "send", !.name = n]
  <2>2. /\ job' = [job EXCEPT ![h] = j] /\ j.pc = "send" /\ j.phone = job[h].phone
        /\ j.code = job[h].code /\ j.kind = "add" /\ job[h].kind = "add"
    BY <1>1, <1>5, <2>1 DEF Job
  <2> QED BY <1>1, <2>2 DEF CodeCall, Codeless
<1> QED BY <1>2, <1>3, <1>4, <1>5

\* The number that a reset sends to is that of a row.
LEMMA Sends ==
    ASSUME TextInv, NEW h \in Handlers, SendCode(h) \/ SendResetCode(h)
    PROVE  \E j : CodeCall(h, j)
<1> DEFINE t == [phone |-> job[h].phone, code |-> job[h].code]
<1>1. /\ UNCHANGED rows /\ job[h] \in Job
      /\ job[h].kind = "reset" => job[h].phone \notin Phones
                                  \/ HasNumber(job[h], rows)
  BY DEF SendCode, SendResetCode, At, TextInv, IInv, JobOK, LocalsOK, ResetOK,
         AddSteps, ResetSteps
<1>2. \A s \in texts' : s \in texts \/ (s = t /\ job[h].phone \in Phones)
  BY DEF SendCode, SendResetCode, Send, Deliver
<1>3. \/ job' = [job EXCEPT ![h].pc = "read"]
      \/ job' = [job EXCEPT ![h].pc = "read", ![h].status = "ERROR"]
      \/ \E a : job' = [job EXCEPT ![h].pc = "done", ![h].answers = a]
  BY DEF SendCode, SendResetCode, Send, Answer, Goto
<1>4. PICK j : /\ job' = [job EXCEPT ![h] = j] /\ j.pc \in {"read", "done"}
               /\ j.phone = job[h].phone /\ j.code = job[h].code
               /\ j.kind = job[h].kind /\ j.name = job[h].name
  <2>1. CASE job' = [job EXCEPT ![h].pc = "read"]
    <3> DEFINE j == [job[h] EXCEPT !.pc = "read"]
    <3>1. /\ job' = [job EXCEPT ![h] = j] /\ j.pc = "read" /\ j.phone = job[h].phone
          /\ j.code = job[h].code /\ j.kind = job[h].kind /\ j.name = job[h].name
      BY <1>1, <2>1 DEF Job
    <3> QED BY <3>1
  <2>2. CASE job' = [job EXCEPT ![h].pc = "read", ![h].status = "ERROR"]
    <3> DEFINE j == [job[h] EXCEPT !.pc = "read", !.status = "ERROR"]
    <3>1. /\ job' = [job EXCEPT ![h] = j] /\ j.pc = "read" /\ j.phone = job[h].phone
          /\ j.code = job[h].code /\ j.kind = job[h].kind /\ j.name = job[h].name
      BY <1>1, <2>2 DEF Job
    <3> QED BY <3>1
  <2>3. CASE \E a : job' = [job EXCEPT ![h].pc = "done", ![h].answers = a]
    <3>1. PICK a : job' = [job EXCEPT ![h].pc = "done", ![h].answers = a]
      BY <2>3
    <3> DEFINE j == [job[h] EXCEPT !.pc = "done", !.answers = a]
    <3>2. /\ job' = [job EXCEPT ![h] = j] /\ j.pc = "done" /\ j.phone = job[h].phone
          /\ j.code = job[h].code /\ j.kind = job[h].kind /\ j.name = job[h].name
      BY <1>1, <3>1 DEF Job
    <3> QED BY <3>2
  <2> QED BY <1>3, <2>1, <2>2, <2>3
<1>5. \A s \in texts' : s \in texts \/ Owns(j, s, rows')
  <2> SUFFICES ASSUME job[h].phone \in Phones PROVE Owns(j, t, rows')
    BY <1>2
  <2>1. j.kind = "reset" => HasNumber(j, rows')
    BY <1>1, <1>4 DEF HasNumber
  <2> QED BY <1>4, <2>1 DEF Owns
<1> QED BY <1>1, <1>4, <1>5 DEF CodeCall, Codeless

LEMMA Adds ==
    ASSUME TextInv, NEW h \in Handlers, ReadUser(h) \/ Insert(h)
    PROVE  \E j : CodeCall(h, j)
<1>1. rows \subseteq rows' /\ UNCHANGED texts /\ job[h] \in Job
  BY DEF ReadUser, Insert, backendVars, TextInv, IInv
<1>2. \/ \E r : job' = [job EXCEPT ![h].pc = "insert", ![h].row = r]
      \/ \E r, a : job' = [job EXCEPT ![h].pc = "done", ![h].row = r,
                                      ![h].answers = a]
  <2>1. CASE ReadUser(h)
    BY <2>1 DEF ReadUser
  <2>2. CASE Insert(h)
    <3> DEFINE row == [job[h].row EXCEPT !.id =
                          IF job[h].row.id = 0 THEN lastId + 1 ELSE @]
    <3>1. \E s : job' = [job EXCEPT ![h].pc = "done", ![h].row = row,
                                   ![h].answers = <<s, "SUCCESS">>]
      BY <2>2 DEF Insert
    <3> HIDE DEF row
    <3> QED BY <3>1
  <2> QED BY <2>1, <2>2
<1>3. CASE \E r : job' = [job EXCEPT ![h].pc = "insert", ![h].row = r]
  <2>1. PICK r : job' = [job EXCEPT ![h].pc = "insert", ![h].row = r]
    BY <1>3
  <2> DEFINE j == [job[h] EXCEPT !.pc = "insert", !.row = r]
  <2>2. /\ job' = [job EXCEPT ![h] = j] /\ j.pc = "insert"
        /\ j.phone = job[h].phone
        /\ j.code = job[h].code /\ j.kind = job[h].kind /\ j.name = job[h].name
    BY <1>1, <2>1 DEF Job
  <2> QED BY <1>1, <2>2 DEF CodeCall, Codeless
<1>4. CASE \E r, a : job' = [job EXCEPT ![h].pc = "done", ![h].row = r,
                                        ![h].answers = a]
  <2>1. PICK r, a : job' = [job EXCEPT ![h].pc = "done", ![h].row = r,
                                       ![h].answers = a]
    BY <1>4
  <2> DEFINE j == [job[h] EXCEPT !.pc = "done", !.row = r, !.answers = a]
  <2>2. /\ job' = [job EXCEPT ![h] = j] /\ j.pc = "done" /\ j.phone = job[h].phone
        /\ j.code = job[h].code /\ j.kind = job[h].kind /\ j.name = job[h].name
    BY <1>1, <2>1 DEF Job
  <2> QED BY <1>1, <2>2 DEF CodeCall, Codeless
<1> QED BY <1>2, <1>3, <1>4

-----------------------------------------------------------------------------
(* The invariant is kept.                                                  *)

\* A crash leaves every request its number, its code and its name.
LEMMA TextRestart ==
    ASSUME TextInv, Restart
    PROVE  (NumberLater /\ AllOwned)'
<1>1. ASSUME NEW h \in Handlers
      PROVE  /\ job'[h].pc \in {"new", "done"}
             /\ job'[h].pc = "new" => job'[h] = job[h]
             /\ job'[h].phone = job[h].phone /\ job'[h].code = job[h].code
             /\ job'[h].kind = job[h].kind /\ job'[h].name = job[h].name
  BY DEF Restart, InFlight, At, TextInv, IInv, Job
<1>2. NumberLater'
  BY <1>1 DEF TextInv, NumberLater, Codeless
<1>3. ASSUME NEW t \in texts
      PROVE  \E h \in Handlers : Owns(job'[h], t, rows)
  <2>1. PICK h \in Handlers : Owns(job[h], t, rows)
    BY DEF TextInv, AllOwned
  <2>2. Owns(job'[h], t, rows)
    BY <1>1, <2>1 DEF Owns, HasNumber
  <2> QED BY <2>2
<1>4. AllOwned'
  BY <1>3 DEF AllOwned, Restart
<1> QED BY <1>2, <1>4

LEMMA TextStutter ==
    ASSUME TextInv, UNCHANGED job, UNCHANGED rows, UNCHANGED texts
    PROVE  (NumberLater /\ AllOwned)'
<1>1. NumberLater'
  BY DEF TextInv, NumberLater
<1>2. \A t \in texts : \E h \in Handlers : Owns(job'[h], t, rows')
  BY DEF TextInv, AllOwned
<1>3. AllOwned'
  BY <1>2 DEF AllOwned
<1> QED BY <1>1, <1>3

LEMMA TextInit == Init => TextInv
<1> SUFFICES ASSUME Init PROVE TextInv
  OBVIOUS
<1>1. NumberLater
  BY DEF Init, NumberLater, Fresh
<1>2. AllOwned
  BY DEF Init, BackendInit, AllOwned
<1> QED BY <1>1, <1>2, InitOK DEF TextInv

LEMMA TextNext == TextInv /\ [Next]_vars => TextInv'
<1> SUFFICES ASSUME TextInv, [Next]_vars PROVE TextInv'
  OBVIOUS
<1>1. IInv'
  BY NextOK DEF TextInv
<1>2. ASSUME NEW h \in Handlers,
             UserAdd(h) \/ ResetPassword(h) \/ InformationCommit(h)
      PROVE  (NumberLater /\ AllOwned)'
  <2>1. (\E j : QuietCall(h, j)) \/ (\E j : CodeCall(h, j))
    BY <1>2, Arrivals, Quiet, Draws, Saves, Sends, Adds
       DEF UserAdd, ResetPassword, InformationCommit
  <2> QED BY <2>1, QuietCallKeeps, CodeCallKeeps
<1>3. CASE Expire /\ UNCHANGED <<memory, job>>
  <2>1. UNCHANGED job /\ UNCHANGED rows /\ UNCHANGED texts
    BY <1>3 DEF Expire
  <2> QED BY <1>1, <2>1, TextStutter DEF TextInv
<1>4. CASE Restart
  BY <1>1, <1>4, TextRestart DEF TextInv
<1>5. CASE UNCHANGED vars
  <2>1. UNCHANGED job /\ UNCHANGED rows /\ UNCHANGED texts
    BY <1>5 DEF vars, backendVars
  <2> QED BY <1>1, <2>1, TextStutter DEF TextInv
<1> QED BY <1>1, <1>2, <1>3, <1>4, <1>5 DEF Next, TextInv

LEMMA OwnedImplied == TextInv => TextsOwned
<1> SUFFICES ASSUME TextInv, NEW t \in texts
             PROVE  \E h \in Handlers :
                        /\ [phone |-> job[h].phone, code |-> job[h].code] = t
                        /\ job[h].kind = "reset" =>
                               \E r \in RowsNamed(job[h].name) : r.phone = t.phone
  BY DEF TextsOwned
<1>1. PICK h \in Handlers : Owns(job[h], t, rows)
  BY DEF TextInv, AllOwned
<1>2. job[h].phone = t.phone
  BY <1>1 DEF Owns
<1> QED BY <1>1, <1>2 DEF Owns, HasNumber, RowsNamed

\* Every text that was delivered belongs to a request that drew its code for its
\* number, and a reset's to a user of the name it was asked for: whatever other
\* requests bound to the shared record, whatever failed after the message and
\* whenever the process was started again.
THEOREM TextsOwnedHolds == Spec => []TextsOwned
<1>1. Spec => []TextInv
  BY TextInit, TextNext, PTL DEF Spec
<1> QED BY <1>1, OwnedImplied, PTL
=============================================================================
