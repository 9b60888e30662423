---------------------------- MODULE WebBackends ----------------------------
(***************************************************************************)
(* What the handlers of go-web talk to: the MySQL table of users, the      *)
(* Redis keys that hold verification codes, and the SMS service.  None of  *)
(* it is under src/; it is modelled from how go-web/model uses it.         *)
(***************************************************************************)
EXTENDS Naturals

CONSTANTS Names,    (* the user names and the phone numbers clients send    *)
          Phones,
          Codes,    (* the codes the random generator may draw              *)
          Budget    (* how often each kind of mishap may happen             *)

Blank   == ""       (* a string nobody has set                              *)
Torn    == "torn"   (* what a read that races with a write may return       *)
Times   == {"null", "time"}   (* a DeletedAt: none, or a time               *)
Mishaps == {"fault", "crash"}

ASSUME BackendAssumption ==
    /\ {Blank, Torn} \cap (Names \cup Phones) = {}
    /\ Blank \notin Codes
    /\ Budget \in [Mishaps -> Nat]

VARIABLES rows,    (* the committed rows of table user                      *)
          lastId,  (* the last key AUTO_INCREMENT gave out                  *)
          redis,   (* redis[name]: the code stored under name, if any       *)
          texts,   (* the messages the SMS service delivered                *)
          budget   (* the mishaps that are left                             *)

backendVars == <<rows, lastId, redis, texts, budget>>

-----------------------------------------------------------------------------

Keys == Names \cup {Blank, Torn}

Row == [id: Nat \ {0}, username: Keys, phone: Phones \cup {Blank, Torn},
        deletedAt: Times]

\* gorm's queries pass over the rows that have a time of deletion.
RowsNamed(name) == {r \in rows : r.username = name /\ r.deletedAt = "null"}

Spend(m) ==
    /\ budget[m] > 0
    /\ budget' = [budget EXCEPT ![m] = @ - 1]

\* A store, or a failure that may still have stored the code.
Store(name, code, Done, Failed) ==
    \/ redis' = [redis EXCEPT ![name] = code] /\ Done /\ UNCHANGED budget
    \/ /\ Spend("fault")
       /\ UNCHANGED redis \/ redis' = [redis EXCEPT ![name] = code]
       /\ Failed

\* No message can be delivered to a number that is not one.
Deliver(phone, code) ==
    /\ phone \in Phones
    /\ texts' = texts \cup {[phone |-> phone, code |-> code]}

\* A message and its record, or a failure of either: the message may still have
\* been delivered.
Send(phone, code, Done, Failed) ==
    \/ Deliver(phone, code) /\ Done /\ UNCHANGED budget
    \/ /\ (phone \notin Phones /\ UNCHANGED budget) \/ Spend("fault")
       /\ UNCHANGED texts \/ Deliver(phone, code)
       /\ Failed

\* A code's time to live ends.
Expire ==
    \E name \in Keys :
        /\ redis[name] # Blank
        /\ redis' = [redis EXCEPT ![name] = Blank]
        /\ UNCHANGED <<rows, lastId, texts, budget>>

BackendTypeOK ==
    /\ rows \subseteq Row
    /\ lastId \in Nat
    /\ redis \in [Keys -> Codes \cup {Blank}]
    /\ texts \subseteq [phone: Phones, code: Codes]
    /\ budget \in [Mishaps -> Nat]

BackendInit ==
    /\ rows = {}
    /\ lastId = 0
    /\ redis = [name \in Keys |-> Blank]
    /\ texts = {}
    /\ budget = Budget
=============================================================================
