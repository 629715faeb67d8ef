------------------------------- MODULE Payment -------------------------------
(***************************************************************************)
(* QR payments across three services: the payment service's handlers with  *)
(* their sessions in Redis, the oracle's rate, and the debit in core's     *)
(* ledger.  Every payQR request is an attempt (a payer may send several,   *)
(* and several payers may scan one code); attempts interleave between      *)
(* their remote calls, the debit call can time out and be carried out all  *)
(* the same, sessions expire at any moment, and the service crashes.       *)
(*                                                                         *)
(* Core's ledger is AtomicLedger (which Ledger implements); only its check *)
(* for a known reference, made before its transaction, is a step apart.    *)
(*                                                                         *)
(*   pc       where each attempt stands                                    *)
(*   status   the HTTP status each attempt was answered with, 0 before     *)
(*   req      the ledger row (user and currency) and token of each attempt *)
(*   coins    the coin amount computed from the rate read                  *)
(*   core     core's side of the attempt's debit call                      *)
(*   result   the transaction id core answered with                        *)
(*   session  the QR sessions by token                                     *)
(*   created  history: the tokens handed out                               *)
(*   balance, txs, deposits   core's books, see AtomicLedger               *)
(***************************************************************************)
EXTENDS Sums

CONSTANTS Attempts, \* payQR requests, each made once
          Rows,     \* (user, currency) pairs
          Tokens,   \* QR tokens: fresh UUIDs
          Amounts,  \* coin amounts a session's KRW amount comes to
          Opening,  \* what every row holds at the start
          Nobody

ASSUME PaymentAssumption ==
    /\ Nobody \notin Rows \cup Attempts
    /\ Amounts \subseteq Nat \ {0}
    /\ Opening \in Nat

VARIABLES pc, status, req, coins, core, result, session, created,
          balance, txs, deposits

attempts == <<pc, status, req, coins, core, result>>
sessions == <<session, created>>
books == <<balance, txs, deposits>>
vars == <<attempts, sessions, books>>

Books == INSTANCE AtomicLedger
           WITH Ids <- Attempts, DepositKeys <- {},
                OpeningBalance <- [r \in Rows |-> Opening]

-----------------------------------------------------------------------------
(* Sessions and answers                                                    *)

NoSession == [status |-> "NONE", row |-> Nobody, tx |-> Nobody]
Pending == [status |-> "PENDING", row |-> Nobody, tx |-> Nobody]
Completed(row, tx) == [status |-> "COMPLETED", row |-> row, tx |-> tx]

Row(a) == req[a].row
Token(a) == req[a].token
SessionOf(a) == session[Token(a)]

Ref_PerAttempt(a) == a

\* The payment_ref of the debit, core's idempotency key: the session's token,
\* the same for every attempt on the session.
Ref(a) == Token(a)

Booked(t) == \E x \in txs : x.ref = t

Goto(a, l) == pc' = [pc EXCEPT ![a] = l]

Reply(a, code) ==
    /\ Goto(a, "done")
    /\ status' = [status EXCEPT ![a] = code]
    /\ UNCHANGED <<req, coins, core, result>>

-----------------------------------------------------------------------------
(* The payment service                                                     *)

\* createQR: a fresh token with a pending session.
CreateQR(t) ==
    /\ t \notin created
    /\ session' = [session EXCEPT ![t] = Pending]
    /\ created' = created \cup {t}
    /\ UNCHANGED <<attempts, books>>

\* Redis drops the session: 10 minutes after its creation, one minute after
\* its completion.
Expire(t) ==
    /\ session[t] # NoSession
    /\ session' = [session EXCEPT ![t] = NoSession]
    /\ UNCHANGED <<attempts, created, books>>

\* payQR reads the session; one that is gone, or that Redis does not give,
\* answers 404, one that is completed 409.
GetSession(a) ==
    /\ pc[a] = "get"
    /\ \/ SessionOf(a).status = "PENDING"
          /\ Goto(a, "rate") /\ UNCHANGED <<status, req, coins, core, result>>
       \/ SessionOf(a).status = "COMPLETED" /\ Reply(a, 409)
       \/ Reply(a, 404)
    /\ UNCHANGED <<sessions, books>>

\* GetRate, the division of the KRW amount by it, and the debit request to
\* core.  An unavailable rate answers 503, an amount that rounds to zero 500.
GetRate(a) ==
    /\ pc[a] = "rate"
    /\ \/ \E coin \in Amounts :
            /\ coins' = [coins EXCEPT ![a] = coin]
            /\ core' = [core EXCEPT ![a] = "sent"]
            /\ Goto(a, "debit")
            /\ UNCHANGED <<status, req, result>>
       \/ \E code \in {500, 503} : Reply(a, code)
    /\ UNCHANGED <<sessions, books>>

DebitAnswer_IgnoreError(a) ==
    /\ pc[a] = "debit"
    /\ core[a] \in {"ok", "error"} /\ Goto(a, "complete")
    /\ UNCHANGED <<status, req, coins, core, result, sessions, books>>

\* Core's answer arrives.
DebitAnswer(a) ==
    /\ pc[a] = "debit"
    /\ \/ core[a] = "ok"
          /\ Goto(a, "complete") /\ UNCHANGED <<status, req, coins, core, result>>
       \/ core[a] = "insufficient" /\ Reply(a, 402)
       \/ core[a] = "error" /\ Reply(a, 500)
    /\ UNCHANGED <<sessions, books>>

DebitTimeout_Refused(a) ==
    /\ pc[a] = "debit"
    /\ Reply(a, 402)
    /\ UNCHANGED <<sessions, books>>

\* The client's 10 seconds are over, or the connection broke: 500.  Core may
\* not have seen the request, be working on it, or have carried it out.
DebitTimeout(a) ==
    /\ pc[a] = "debit"
    /\ Reply(a, 500)
    /\ UNCHANGED <<sessions, books>>

\* Complete reads the session again; if it is gone or no longer pending, the
\* payment is answered all the same (a failed Complete is only logged).
CompleteGet(a) ==
    /\ pc[a] = "complete"
    /\ \/ /\ SessionOf(a).status = "PENDING"
          /\ Goto(a, "set")
          /\ UNCHANGED <<status, req, coins, core, result>>
       \/ Reply(a, 200)
    /\ UNCHANGED <<sessions, books>>

\* The SET of the completed session: unconditional, whatever happened to the
\* session since it was read, and possibly lost.
CompleteSet(a) ==
    /\ pc[a] = "set"
    /\ session' \in {session, [session EXCEPT ![Token(a)] = Completed(Row(a), result[a])]}
    /\ Reply(a, 200)
    /\ UNCHANGED <<created, books>>

Running(a) == pc[a] \notin {"get", "done", "gone"}

\* The payment service dies; core keeps what it was sent.
Crash ==
    /\ \E a \in Attempts : Running(a)
    /\ pc' = [a \in Attempts |-> IF Running(a) THEN "gone" ELSE pc[a]]
    /\ UNCHANGED <<status, req, coins, core, result, sessions, books>>

-----------------------------------------------------------------------------
(* Core                                                                    *)

Answer(a, outcome, tx) ==
    /\ core' = [core EXCEPT ![a] = outcome]
    /\ result' = [result EXCEPT ![a] = tx]
    /\ UNCHANGED <<pc, status, req, coins, sessions>>

CorePreCheck_OwnId(a) ==
    /\ core[a] = "sent"
    /\ IF Booked(Ref(a)) THEN Answer(a, "ok", a) ELSE Answer(a, "checked", Nobody)
    /\ UNCHANGED books

\* FindByInternalRef: a reference that is booked is answered with its
\* transaction, whoever asks and whatever the amount.
CorePreCheck(a) ==
    /\ core[a] = "sent"
    /\ \/ \E x \in txs : x.ref = Ref(a) /\ Answer(a, "ok", x.id)
       \/ ~Booked(Ref(a)) /\ Answer(a, "checked", Nobody)
    /\ UNCHANGED books

\* The debit itself.  A reference booked since the check is an error.
CoreDebit(a) ==
    /\ core[a] = "checked"
    /\ \/ /\ Books!Pay(a, Row(a), Ref(a), coins[a])
          /\ \E outcome \in {"ok", "error"} :
               Answer(a, outcome, IF outcome = "ok" THEN a ELSE Nobody)
       \/ /\ balance[Row(a)] < coins[a]
          /\ Answer(a, "insufficient", Nobody)
          /\ UNCHANGED books
       \/ /\ Booked(Ref(a))
          /\ Answer(a, "error", Nobody)
          /\ UNCHANGED books

\* The database fails, core dies, or the caller is gone and its context ended.
CoreFails(a) ==
    /\ core[a] \in {"sent", "checked"}
    /\ Answer(a, "error", Nobody)
    /\ UNCHANGED books

-----------------------------------------------------------------------------
Init ==
    /\ pc = [a \in Attempts |-> "get"]
    /\ status = [a \in Attempts |-> 0]
    /\ req \in [Attempts -> [row : Rows, token : Tokens]]
    /\ coins = [a \in Attempts |-> 0]
    /\ core = [a \in Attempts |-> "none"]
    /\ result = [a \in Attempts |-> Nobody]
    /\ session = [t \in Tokens |-> NoSession]
    /\ created = {}
    /\ Books!Init

Handle(a) ==
    \/ GetSession(a)
    \/ GetRate(a)
    \/ DebitAnswer(a)
    \/ DebitTimeout(a)
    \/ CompleteGet(a)
    \/ CompleteSet(a)

Core(a) == CorePreCheck(a) \/ CoreDebit(a) \/ CoreFails(a)

Next ==
    \/ \E t \in Tokens : CreateQR(t) \/ Expire(t)
    \/ \E a \in Attempts : Handle(a) \/ Core(a)
    \/ Crash

Spec == Init /\ [][Next]_vars

-----------------------------------------------------------------------------
(* Properties                                                              *)

Codes == {0, 200, 402, 404, 409, 500, 503}

Sessions ==
    {NoSession, Pending} \cup {Completed(row, tx) : row \in Rows, tx \in Attempts}

TypeOK ==
    /\ pc \in [Attempts -> {"get", "rate", "debit", "complete", "set", "done", "gone"}]
    /\ status \in [Attempts -> Codes]
    /\ req \in [Attempts -> [row : Rows, token : Tokens]]
    /\ coins \in [Attempts -> Amounts \cup {0}]
    /\ core \in [Attempts -> {"none", "sent", "checked", "ok", "insufficient", "error"}]
    /\ result \in [Attempts -> Attempts \cup {Nobody}]
    /\ session \in [Tokens -> Sessions]
    /\ created \subseteq Tokens
    /\ balance \in [Rows -> Nat]
    /\ \A x \in txs : x.id \in Attempts

\* What a session records as its payment is booked in core, under the session's
\* token: the terminal never shows a payment that was not made, however the
\* debit, the completion and the expiry race.
CompletedMeansPaid ==
    \A t \in Tokens : session[t].status = "COMPLETED" =>
        \E x \in txs : x.ref = t /\ x.id = session[t].tx

\* An answer tells the truth about money: 200 only if the token is paid, a
\* refusal (402, 404, 409, 503) only if this attempt charged nothing and can no
\* longer do so.  (500 promises neither: the debit may still be carried out.)
AnswerSound ==
    \A a \in Attempts :
        /\ status[a] = 200 => Booked(Token(a))
        /\ status[a] \in {402, 404, 409, 503} =>
             core[a] \in {"none", "insufficient"} /\ \A x \in txs : x.id # a

\* A completed session never falls back to pending and never comes to name
\* another transaction, even when two attempts have both read it as pending
\* and both write it.
SessionSettled ==
    \A t \in Tokens : session[t].status = "COMPLETED" =>
        \/ session'[t] = NoSession
        \/ session'[t].status = "COMPLETED" /\ session'[t].tx = session[t].tx

SessionsStaySettled == [][SessionSettled]_sessions

\* Charges match what payers asked for: of all the attempts on one session, by
\* whichever payers, retried, timed out or crashed and at whatever rates, at most
\* one is charged, only for a session that was created, the amount of its own
\* rate; and a row has lost the charges of its own attempts, and no more.
ChargesMatchAttempts ==
    /\ \A x \in txs : Token(x.id) \in created /\ x.amount = coins[x.id]
    /\ \A x, y \in txs : Token(x.id) = Token(y.id) => x = y
    /\ \A r \in Rows : balance[r] = Opening - Total({x \in txs : Row(x.id) = r})

\* 02_ARCHITECTURE.md, payment flow: the payer's ledger is debited, and when
\* that has succeeded the payment is completed.  So a session is completed for
\* the one who was charged.
CompletedForTheOneCharged ==
    \A t \in Tokens : session[t].status = "COMPLETED" =>
        \E x \in txs : x.ref = t /\ x.row = session[t].row

-----------------------------------------------------------------------------
(* The inductive invariant                                                 *)

\* One transaction per token.
UniqueRef == \A x, y \in txs : x.ref = y.ref => x = y

\* A debit that core answered with a transaction is booked under the token; one
\* that it has not carried out has charged nothing; it is asked only after the
\* rate has been read.
CoreSound ==
    \A a \in Attempts :
        /\ core[a] = "ok" => \E x \in txs : x.ref = Token(a) /\ x.id = result[a]
        /\ core[a] \in {"none", "sent", "checked", "insufficient"} =>
             \A x \in txs : x.id # a
        /\ core[a] \in {"sent", "checked"} => coins[a] \in Amounts
        /\ pc[a] \in {"get", "rate"} => core[a] = "none"
        /\ status[a] # 0 => pc[a] = "done"
        /\ pc[a] \in {"complete", "set"} => core[a] = "ok"

\* Only a token that was handed out has a session, an attempt under way or a
\* debit asked for.
TokensCreated ==
    /\ \A t \in Tokens : session[t] # NoSession => t \in created
    /\ \A a \in Attempts : Running(a) \/ core[a] # "none" => Token(a) \in created

\* What core booked for an attempt is what the attempt asked for.
BookedAsAsked ==
    \A x \in txs :
        /\ core[x.id] # "none" /\ x.kind = "PAYMENT"
        /\ x.ref = Token(x.id) /\ x.row = Row(x.id) /\ x.amount = coins[x.id]

IInv ==
    /\ TypeOK
    /\ TokensCreated
    /\ UniqueRef
    /\ BookedAsAsked
    /\ CoreSound
    /\ CompletedMeansPaid
    /\ AnswerSound
=============================================================================
