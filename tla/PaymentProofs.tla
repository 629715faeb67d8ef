---------------------------- MODULE PaymentProofs ----------------------------
(***************************************************************************)
(* Theorems about Payment and the terminal on top of it, for every number  *)
(* of requests, payers, tokens, scans and amounts.  Payment's invariant    *)
(* says what core's side of each request implies for the books; completed  *)
(* sessions and answers then follow core's answers.  A terminal's          *)
(* behaviour is one of Payment, so what is proved of Payment holds under   *)
(* it; its own invariant relates calls and screens to the services.        *)
(***************************************************************************)
EXTENDS PosTerminal, TLAPS

LEMMA InitInvariant == Init => IInv
<1> SUFFICES ASSUME Init PROVE IInv
  OBVIOUS
<1> USE DEF Init, Books!Init
<1>1. TypeOK
  BY PaymentAssumption DEF TypeOK, Codes, Sessions
<1>2. UniqueRef /\ BookedAsAsked /\ CoreSound /\ AnswerSound /\ TokensCreated
  BY DEF UniqueRef, BookedAsAsked, CoreSound, AnswerSound, TokensCreated, Running
<1>3. CompletedMeansPaid
  BY DEF CompletedMeansPaid, NoSession
<1> QED
  BY <1>1, <1>2, <1>3 DEF IInv

-----------------------------------------------------------------------------
(* Steps that leave the books alone                                        *)

\* An answer to the payer changes nothing but where the attempt stands.
LEMMA ReplyKeeps ==
    ASSUME IInv, NEW a \in Attempts, NEW code \in Codes, Reply(a, code),
           pc[a] # "done", UNCHANGED books,
           code = 200 => core[a] = "ok",
           code \in {402, 404, 409, 503} => core[a] \in {"none", "insufficient"}
    PROVE  /\ UniqueRef' /\ BookedAsAsked' /\ CoreSound' /\ AnswerSound'
           /\ core' = core
           /\ \A b \in Attempts : Token(b)' = Token(b) /\ (Running(b)' => Running(b))
           /\ (TypeOK' <=> session' \in [Tokens -> Sessions] /\ created' \subseteq Tokens)
<1> USE DEF Reply, Goto, books
<1>1. TypeOK' <=> session' \in [Tokens -> Sessions] /\ created' \subseteq Tokens
  BY DEF IInv, TypeOK
<1>2. UniqueRef' /\ BookedAsAsked' /\ CoreSound'
  BY DEF IInv, TypeOK, UniqueRef, BookedAsAsked, CoreSound, Token, Row
<1>3. AnswerSound'
  BY DEF IInv, TypeOK, AnswerSound, CoreSound, Booked, Token
<1>4. /\ core' = core
      /\ \A b \in Attempts : Token(b)' = Token(b) /\ (Running(b)' => Running(b))
  BY DEF IInv, TypeOK, Running, Token
<1> QED
  BY <1>1, <1>2, <1>3, <1>4

LEMMA CreateQRKeeps ==
    ASSUME IInv, NEW t \in Tokens, CreateQR(t) PROVE IInv'
<1> USE DEF CreateQR, attempts, books
<1>1. TypeOK'
  BY DEF IInv, TypeOK, Sessions
<1>2. UniqueRef' /\ BookedAsAsked' /\ CoreSound' /\ AnswerSound'
  BY DEF IInv, UniqueRef, BookedAsAsked, CoreSound, AnswerSound, Token, Row, Booked
<1>3. CompletedMeansPaid'
  BY DEF IInv, TypeOK, CompletedMeansPaid, Pending
<1>4. TokensCreated'
  BY DEF IInv, TypeOK, TokensCreated, Running, Token
<1> QED
  BY <1>1, <1>2, <1>3, <1>4 DEF IInv

LEMMA ExpireKeeps ==
    ASSUME IInv, NEW t \in Tokens, Expire(t) PROVE IInv'
<1> USE DEF Expire, attempts, books
<1>1. TypeOK'
  BY DEF IInv, TypeOK, Sessions
<1>2. UniqueRef' /\ BookedAsAsked' /\ CoreSound' /\ AnswerSound'
  BY DEF IInv, UniqueRef, BookedAsAsked, CoreSound, AnswerSound, Token, Row, Booked
<1>3. CompletedMeansPaid'
  BY DEF IInv, TypeOK, CompletedMeansPaid, NoSession
<1>4. TokensCreated'
  BY DEF IInv, TypeOK, TokensCreated, Running, Token
<1> QED
  BY <1>1, <1>2, <1>3, <1>4 DEF IInv

\* The attempt moves on without an answer; neither sessions nor books change.
LEMMA MoveKeeps ==
    ASSUME IInv, NEW a \in Attempts,
           NEW l \in {"rate", "complete", "set"}, Goto(a, l),
           UNCHANGED <<status, req, coins, core, result, sessions, books>>,
           pc[a] # "done", Token(a) \in created,
           l = "rate" => core[a] = "none",
           l \in {"complete", "set"} => core[a] = "ok"
    PROVE  IInv'
<1> USE DEF Goto, sessions, books
<1>1. TypeOK'
  BY DEF IInv, TypeOK
<1>2. UniqueRef' /\ BookedAsAsked' /\ CompletedMeansPaid' /\ AnswerSound'
  BY DEF IInv, UniqueRef, BookedAsAsked, CompletedMeansPaid, AnswerSound, Token, Row, Booked
<1>3. CoreSound'
  BY DEF IInv, TypeOK, CoreSound, Token
<1>4. TokensCreated'
  BY DEF IInv, TypeOK, TokensCreated, Running, Token
<1> QED
  BY <1>1, <1>2, <1>3, <1>4 DEF IInv

LEMMA ReplyInPlaceKeeps ==
    ASSUME IInv, NEW a \in Attempts, NEW code \in Codes, Reply(a, code),
           pc[a] # "done", UNCHANGED <<sessions, books>>,
           code = 200 => core[a] = "ok",
           code \in {402, 404, 409, 503} => core[a] \in {"none", "insufficient"}
    PROVE  IInv'
<1>1. UniqueRef' /\ BookedAsAsked' /\ CoreSound' /\ AnswerSound' /\ TypeOK'
  BY ReplyKeeps DEF IInv, TypeOK, sessions
<1>2. CompletedMeansPaid'
  BY DEF IInv, CompletedMeansPaid, sessions, books
<1>3. TokensCreated'
  BY ReplyKeeps DEF IInv, TokensCreated, sessions
<1> QED
  BY <1>1, <1>2, <1>3 DEF IInv

LEMMA GetSessionKeeps ==
    ASSUME IInv, NEW a \in Attempts, GetSession(a) PROVE IInv'
<1> USE DEF GetSession
<1>1. pc[a] = "get" /\ core[a] = "none" /\ UNCHANGED <<sessions, books>>
  BY DEF IInv, CoreSound
<1>2. CASE /\ SessionOf(a).status = "PENDING" /\ Goto(a, "rate")
           /\ UNCHANGED <<status, req, coins, core, result>>
  <2>1. Token(a) \in created
    BY <1>1, <1>2 DEF IInv, TypeOK, TokensCreated, NoSession, SessionOf, Token, Pending
  <2> QED
    BY <1>1, <1>2, <2>1, MoveKeeps
<1>3. CASE Reply(a, 409) \/ Reply(a, 404)
  BY <1>1, <1>3, ReplyInPlaceKeeps DEF Codes
<1> QED
  BY <1>2, <1>3

LEMMA GetRateKeeps ==
    ASSUME IInv, NEW a \in Attempts, GetRate(a) PROVE IInv'
<1> USE DEF GetRate
<1>1. pc[a] = "rate" /\ core[a] = "none" /\ UNCHANGED <<sessions, books>>
  BY DEF IInv, CoreSound
<1>2. CASE Reply(a, 500) \/ Reply(a, 503)
  BY <1>1, <1>2, ReplyInPlaceKeeps DEF Codes
<1>3. ASSUME NEW coin \in Amounts,
             coins' = [coins EXCEPT ![a] = coin],
             core' = [core EXCEPT ![a] = "sent"],
             Goto(a, "debit"), UNCHANGED <<status, req, result>>
      PROVE  IInv'
  <2> USE <1>1, <1>3 DEF Goto, sessions, books
  <2>1. TypeOK'
    BY DEF IInv, TypeOK
  <2>2. UniqueRef' /\ CompletedMeansPaid'
    BY DEF IInv, UniqueRef, CompletedMeansPaid
  <2>7. BookedAsAsked'
    BY DEF IInv, TypeOK, BookedAsAsked, CoreSound, Token, Row
  <2>3. status[a] = 0
    BY DEF IInv, TypeOK, CoreSound, Codes
  <2>4. CoreSound'
    BY <2>3 DEF IInv, TypeOK, CoreSound, Token
  <2>5. AnswerSound'
    BY <2>3 DEF IInv, TypeOK, AnswerSound, Token, Booked
  <2>6. TokensCreated'
    BY DEF IInv, TypeOK, TokensCreated, Running, Token
  <2> QED
    BY <2>1, <2>2, <2>4, <2>5, <2>6, <2>7 DEF IInv
<1> QED
  BY <1>2, <1>3

LEMMA DebitAnswerKeeps ==
    ASSUME IInv, NEW a \in Attempts, DebitAnswer(a) \/ DebitTimeout(a) PROVE IInv'
<1>1. pc[a] = "debit" /\ UNCHANGED <<sessions, books>> /\ Token(a) \in created
  BY DEF DebitAnswer, DebitTimeout, IInv, TokensCreated, Running
<1>2. CASE core[a] = "ok" /\ Goto(a, "complete") /\ UNCHANGED <<status, req, coins, core, result>>
  BY <1>1, <1>2, MoveKeeps
<1>3. CASE core[a] = "insufficient" /\ Reply(a, 402)
  BY <1>1, <1>3, ReplyInPlaceKeeps DEF Codes
<1>4. CASE Reply(a, 500)
  BY <1>1, <1>4, ReplyInPlaceKeeps DEF Codes
<1> QED
  BY <1>2, <1>3, <1>4 DEF DebitAnswer, DebitTimeout

LEMMA CompleteGetKeeps ==
    ASSUME IInv, NEW a \in Attempts, CompleteGet(a) PROVE IInv'
<1> USE DEF CompleteGet
<1>1. /\ pc[a] = "complete" /\ core[a] = "ok" /\ UNCHANGED <<sessions, books>>
      /\ Token(a) \in created
  BY DEF IInv, CoreSound, TokensCreated, Running
<1>2. CASE Goto(a, "set") /\ UNCHANGED <<status, req, coins, core, result>>
  BY <1>1, <1>2, MoveKeeps
<1>3. CASE Reply(a, 200)
  BY <1>1, <1>3, ReplyInPlaceKeeps DEF Codes
<1> QED
  BY <1>2, <1>3

\* The one step that completes a session: core has answered with a transaction
\* of the session's token.
LEMMA CompleteSetKeeps ==
    ASSUME IInv, NEW a \in Attempts, CompleteSet(a) PROVE IInv'
<1> USE DEF CompleteSet
<1>1. pc[a] = "set" /\ core[a] = "ok" /\ Token(a) \in Tokens /\ Row(a) \in Rows
  BY DEF IInv, CoreSound, TypeOK, Token, Row
<1>2. PICK x \in txs : x.ref = Token(a) /\ x.id = result[a]
  BY <1>1 DEF IInv, CoreSound
<1>3. result[a] \in Attempts
  BY <1>2 DEF IInv, TypeOK
<1>4. Completed(Row(a), result[a]) \in Sessions
  BY <1>1, <1>3 DEF Sessions
<1>5. session' \in [Tokens -> Sessions] /\ created' \subseteq Tokens
  BY <1>1, <1>4 DEF IInv, TypeOK
<1>6. UniqueRef' /\ BookedAsAsked' /\ CoreSound' /\ AnswerSound' /\ TypeOK'
  BY <1>1, <1>5, ReplyKeeps DEF Codes
<1>7. CompletedMeansPaid'
  BY <1>1, <1>2 DEF IInv, TypeOK, CompletedMeansPaid, Completed, books
<1>8. Token(a) \in created
  BY <1>1 DEF IInv, TokensCreated, Running
<1>9. TokensCreated'
  BY <1>1, <1>8, ReplyKeeps DEF IInv, TypeOK, Codes, TokensCreated
<1> QED
  BY <1>6, <1>7, <1>9 DEF IInv

LEMMA CrashKeeps ==
    ASSUME IInv, Crash PROVE IInv'
<1> USE DEF Crash, Running, sessions, books
<1>4. TokensCreated'
  BY DEF IInv, TypeOK, TokensCreated, Token
<1>1. TypeOK'
  BY DEF IInv, TypeOK
<1>2. UniqueRef' /\ BookedAsAsked' /\ CompletedMeansPaid' /\ AnswerSound'
  BY DEF IInv, UniqueRef, BookedAsAsked, CompletedMeansPaid, AnswerSound, Token, Row, Booked
<1>3. CoreSound'
  BY DEF IInv, TypeOK, CoreSound, Token
<1> QED
  BY <1>1, <1>2, <1>3, <1>4 DEF IInv

-----------------------------------------------------------------------------
(* Core                                                                    *)

\* Core answers without touching the books.
LEMMA CoreAnswerKeeps ==
    ASSUME IInv, NEW a \in Attempts, core[a] \in {"sent", "checked"},
           NEW outcome \in {"ok", "checked", "insufficient", "error"},
           NEW tx \in Attempts \cup {Nobody}, Answer(a, outcome, tx), UNCHANGED books,
           outcome = "ok" => \E x \in txs : x.ref = Token(a) /\ x.id = tx
    PROVE  IInv'
<1> USE DEF Answer, sessions, books
<1>1. TypeOK'
  BY DEF IInv, TypeOK
<1>2. UniqueRef' /\ BookedAsAsked' /\ CompletedMeansPaid'
  BY DEF IInv, TypeOK, UniqueRef, BookedAsAsked, CompletedMeansPaid, Token, Row
<1>3. CoreSound'
  BY DEF IInv, TypeOK, CoreSound, Token
<1>4. AnswerSound'
  BY DEF IInv, TypeOK, AnswerSound, Token, Booked
<1>5. TokensCreated'
  BY DEF IInv, TypeOK, TokensCreated, Running, Token
<1> QED
  BY <1>1, <1>2, <1>3, <1>4, <1>5 DEF IInv

\* Core books the payment; its answer may be lost.
LEMMA CorePaysKeeps ==
    ASSUME IInv, NEW a \in Attempts, core[a] = "checked",
           Books!Pay(a, Row(a), Ref(a), coins[a]),
           NEW outcome \in {"ok", "error"},
           Answer(a, outcome, IF outcome = "ok" THEN a ELSE Nobody)
    PROVE  IInv' /\ Books!PayStep
<1> DEFINE new == [id |-> a, kind |-> "PAYMENT", ref |-> Token(a),
                   row |-> Row(a), amount |-> coins[a]]
<1>1. /\ Row(a) \in Rows /\ Token(a) \in Tokens /\ coins[a] \in Amounts
      /\ coins[a] \in Nat /\ balance \in [Rows -> Nat]
  BY PaymentAssumption DEF IInv, TypeOK, CoreSound, Row, Token
<1>2. /\ txs' = txs \cup {new} /\ \A t \in txs : t.ref # Token(a)
      /\ balance[Row(a)] >= coins[a]
      /\ balance' = [balance EXCEPT ![Row(a)] = balance[Row(a)] - coins[a]]
  BY DEF Books!Pay, Ref
<1>3. /\ new.id = a /\ new.ref = Token(a) /\ new.kind = "PAYMENT"
      /\ new.row = Row(a) /\ new.amount = coins[a]
  OBVIOUS
<1> HIDE DEF new
<1>4. \A x \in txs : x.id # a
  BY DEF IInv, CoreSound
<1> USE DEF Answer, sessions
<1>5. TypeOK'
  <2>1. balance' \in [Rows -> Nat]
    BY <1>1, <1>2
  <2> QED
    BY <1>2, <1>3, <2>1 DEF IInv, TypeOK
<1>6. UniqueRef'
  BY <1>2, <1>3 DEF IInv, UniqueRef
<1>7. CompletedMeansPaid'
  BY <1>2 DEF IInv, CompletedMeansPaid
<1>8. CoreSound'
  BY <1>2, <1>3 DEF IInv, TypeOK, CoreSound, Token
<1>9. AnswerSound'
  BY <1>2, <1>3 DEF IInv, TypeOK, AnswerSound, Token, Booked
<1>10. Books!PayStep
  BY <1>1 DEF Books!PayStep, Ref
<1>11. TokensCreated'
  BY DEF IInv, TypeOK, TokensCreated, Running, Token
<1>12. BookedAsAsked'
  BY <1>2, <1>3 DEF IInv, TypeOK, BookedAsAsked, Token, Row
<1> QED
  BY <1>5, <1>6, <1>7, <1>8, <1>9, <1>10, <1>11, <1>12 DEF IInv

LEMMA CoreKeeps ==
    ASSUME IInv, NEW a \in Attempts, Core(a)
    PROVE  IInv' /\ (Books!PayStep \/ UNCHANGED books)
<1>1. CASE CorePreCheck(a)
  BY <1>1, CoreAnswerKeeps DEF CorePreCheck, IInv, TypeOK, Ref
<1>2. CASE CoreFails(a)
  BY <1>2, CoreAnswerKeeps DEF CoreFails
<1>3. CASE CoreDebit(a)
  <2>1. CASE balance[Row(a)] < coins[a] /\ Answer(a, "insufficient", Nobody) /\ UNCHANGED books
    BY <1>3, <2>1, CoreAnswerKeeps DEF CoreDebit
  <2>2. CASE Booked(Ref(a)) /\ Answer(a, "error", Nobody) /\ UNCHANGED books
    BY <1>3, <2>2, CoreAnswerKeeps DEF CoreDebit
  <2>3. ASSUME Books!Pay(a, Row(a), Ref(a), coins[a]),
               NEW outcome \in {"ok", "error"},
               Answer(a, outcome, IF outcome = "ok" THEN a ELSE Nobody)
        PROVE  IInv' /\ Books!PayStep
    BY <1>3, <2>3, CorePaysKeeps DEF CoreDebit
  <2> QED
    BY <1>3, <2>1, <2>2, <2>3 DEF CoreDebit
<1> QED
  BY <1>1, <1>2, <1>3 DEF Core

-----------------------------------------------------------------------------
(* The theorems                                                            *)

LEMMA NextKeeps ==
    ASSUME IInv, [Next]_vars
    PROVE  IInv' /\ [Books!PayStep]_(Books!books)
<1>1. ASSUME NEW t \in Tokens, CreateQR(t) \/ Expire(t)
      PROVE  IInv' /\ UNCHANGED books
  BY <1>1, CreateQRKeeps, ExpireKeeps DEF CreateQR, Expire
<1>2. ASSUME NEW a \in Attempts, Handle(a)
      PROVE  IInv' /\ UNCHANGED books
  <2>1. IInv'
    BY <1>2, GetSessionKeeps, GetRateKeeps, DebitAnswerKeeps, CompleteGetKeeps,
       CompleteSetKeeps DEF Handle
  <2>2. UNCHANGED books
    BY <1>2 DEF Handle, GetSession, GetRate, DebitAnswer, DebitTimeout, CompleteGet, CompleteSet
  <2> QED
    BY <2>1, <2>2
<1>3. ASSUME NEW a \in Attempts, Core(a)
      PROVE  IInv' /\ (Books!PayStep \/ UNCHANGED books)
  BY <1>3, CoreKeeps
<1>4. ASSUME Crash
      PROVE  IInv' /\ UNCHANGED books
  BY <1>4, CrashKeeps DEF Crash
<1>5. ASSUME UNCHANGED vars
      PROVE  IInv' /\ UNCHANGED books
  <2> USE <1>5 DEF vars, attempts, sessions, books
  <2>1. TypeOK'
    BY DEF IInv, TypeOK
  <2>2. UniqueRef' /\ CompletedMeansPaid' /\ AnswerSound' /\ CoreSound'
      /\ TokensCreated' /\ BookedAsAsked'
    BY DEF IInv, UniqueRef, CompletedMeansPaid, AnswerSound, CoreSound, TokensCreated,
           BookedAsAsked, Running, Token, Row, Booked
  <2> QED
    BY <2>1, <2>2 DEF IInv
<1> QED
  BY <1>1, <1>2, <1>3, <1>4, <1>5 DEF Next, books, Books!books

\* The whole invariant.
THEOREM PaymentInvariant == Spec => []IInv
<1>1. Init => IInv
  BY InitInvariant
<1>2. IInv /\ [Next]_vars => IInv'
  BY NextKeeps
<1> QED
  BY <1>1, <1>2, PTL DEF Spec

\* A completed session names a booked payment of its own token.
THEOREM CompletedIsPaid == Spec => []CompletedMeansPaid
<1>1. IInv => CompletedMeansPaid
  BY DEF IInv
<1> QED
  BY <1>1, PaymentInvariant, PTL

\* Answers to payers are true of core's books, and refusals stay true.
THEOREM PayersAreToldTheTruth == Spec => []AnswerSound
<1>1. IInv => AnswerSound
  BY DEF IInv
<1> QED
  BY <1>1, PaymentInvariant, PTL

\* A completed session stays completed under its transaction until it expires:
\* a second writer writes the same transaction, for a token has only one.
THEOREM SessionsSettle == Spec => SessionsStaySettled
<1>1. ASSUME IInv, [Next]_vars
      PROVE  [SessionSettled]_sessions
  <2>1. ASSUME session' = session
        PROVE  SessionSettled
    BY <2>1 DEF SessionSettled
  <2>2. ASSUME NEW t \in Tokens, CreateQR(t)
        PROVE  SessionSettled
    <3>1. session[t].status # "COMPLETED"
      BY <1>1, <2>2 DEF CreateQR, IInv, TokensCreated, NoSession
    <3> QED
      BY <1>1, <2>2, <3>1 DEF CreateQR, IInv, TypeOK, SessionSettled
  <2>3. ASSUME NEW t \in Tokens, Expire(t)
        PROVE  SessionSettled
    BY <1>1, <2>3 DEF Expire, IInv, TypeOK, SessionSettled
  <2>4. ASSUME NEW a \in Attempts, CompleteSet(a)
        PROVE  SessionSettled
    <3> DEFINE new == Completed(Row(a), result[a])
    <3>1. PICK x \in txs : x.ref = Token(a) /\ x.id = result[a]
      BY <1>1, <2>4 DEF CompleteSet, IInv, CoreSound
    <3>2. ASSUME session[Token(a)].status = "COMPLETED"
          PROVE  session[Token(a)].tx = result[a]
      <4>1. PICK y \in txs : y.ref = Token(a) /\ y.id = session[Token(a)].tx
        BY <1>1, <3>2 DEF IInv, TypeOK, CompletedMeansPaid, Token
      <4> QED
        BY <1>1, <3>1, <4>1 DEF IInv, UniqueRef
    <3>3. new.status = "COMPLETED" /\ new.tx = result[a]
      BY DEF Completed
    <3> HIDE DEF new
    <3>4. CASE session' = [session EXCEPT ![Token(a)] = new]
      BY <1>1, <3>2, <3>3, <3>4 DEF IInv, TypeOK, SessionSettled
    <3> QED
      BY <2>1, <2>4, <3>4 DEF CompleteSet, new
  <2>5. ASSUME NEW a \in Attempts,
               GetSession(a) \/ GetRate(a) \/ DebitAnswer(a) \/ DebitTimeout(a)
                 \/ CompleteGet(a) \/ Core(a)
        PROVE  session' = session
    BY <2>5 DEF GetSession, GetRate, DebitAnswer, DebitTimeout, CompleteGet, Core,
       CorePreCheck, CoreDebit, CoreFails, Answer, sessions
  <2>6. ASSUME Crash \/ UNCHANGED vars
        PROVE  session' = session
    BY <2>6 DEF Crash, vars, sessions
  <2> QED
    BY <1>1, <2>1, <2>2, <2>3, <2>4, <2>5, <2>6 DEF Next, Handle
<1> QED
  BY <1>1, PaymentInvariant, PTL DEF Spec, SessionsStaySettled

\* The books move by payments of the atomic ledger only, whose facts follow.
LEMMA PaymentsOnlyMoveBooks == Spec => Books!PaymentsOnly
<1>1. Init => Books!Init
  BY DEF Init
<1>2. IInv /\ [Next]_vars => [Books!PayStep]_(Books!books)
  BY NextKeeps
<1> QED
  BY <1>1, <1>2, PaymentInvariant, PTL DEF Spec, Books!PaymentsOnly

BooksFacts == INSTANCE AtomicLedgerProofs
                WITH Ids <- Attempts, DepositKeys <- {},
                     OpeningBalance <- [r \in Rows |-> Opening]

\* One charge at most over all the attempts on a session, for the amount its own
\* attempt computed, and no row loses a coin that none of its attempts explains,
\* whatever is retried, times out or crashes.
THEOREM ChargesAreAsked == Spec => []ChargesMatchAttempts
<1>1. Books!Init => BooksFacts!Init
  BY DEF Books!Init, BooksFacts!Init
<1>2. [Books!PayStep]_(Books!books) => [BooksFacts!PayStep]_(BooksFacts!books)
  BY DEF Books!PayStep, Books!Pay, Books!books,
     BooksFacts!PayStep, BooksFacts!Pay, BooksFacts!books
<1>3. BooksFacts!PaymentsOnly => [](BooksFacts!Accounted /\ BooksFacts!ChargesAddUp)
  <2>1. Amounts \subseteq Nat /\ [r \in Rows |-> Opening] \in [Rows -> Int]
    BY PaymentAssumption
  <2> QED
    BY <2>1, BooksFacts!PaymentsAddUp
<1>4. ASSUME IInv, BooksFacts!ChargesAddUp
      PROVE  ChargesMatchAttempts
  <2>1. \A x \in txs : Token(x.id) \in created /\ x.amount = coins[x.id]
    BY <1>4 DEF IInv, TypeOK, TokensCreated, BookedAsAsked
  <2>2. \A x, y \in txs : Token(x.id) = Token(y.id) => x = y
    BY <1>4 DEF IInv, BookedAsAsked, UniqueRef
  <2>3. ASSUME NEW r \in Rows
        PROVE  balance[r] = Opening - Total({x \in txs : Row(x.id) = r})
    <3>1. BooksFacts!ChargesOf(r) = {x \in txs : Row(x.id) = r}
      BY <1>4 DEF IInv, BookedAsAsked, BooksFacts!ChargesOf
    <3>2. balance[r] = Opening - BooksFacts!Total(BooksFacts!ChargesOf(r))
      BY <1>4 DEF BooksFacts!ChargesAddUp
    <3>3. \A T : BooksFacts!Total(T) = Total(T)
      BY DEF BooksFacts!Total, BooksFacts!Coins, BooksFacts!Cardinality, Total, Coins,
             Cardinality
    <3> QED
      BY <3>1, <3>2, <3>3
  <2> QED
    BY <2>1, <2>2, <2>3 DEF ChargesMatchAttempts
<1>5. IInv /\ BooksFacts!ChargesAddUp => ChargesMatchAttempts
  BY <1>4
<1> QED
  BY <1>1, <1>2, <1>3, <1>5, PaymentsOnlyMoveBooks, PaymentInvariant, PTL
     DEF Books!PaymentsOnly, BooksFacts!PaymentsOnly

-----------------------------------------------------------------------------
(* The terminal                                                            *)

LEMMA PosInitInvariant == PosInit => IInv /\ PosIInv
<1> SUFFICES ASSUME PosInit PROVE IInv /\ PosIInv
  OBVIOUS
<1> USE DEF PosInit
<1>1. IInv
  BY InitInvariant
<1>2. PosTypeOK
  BY DEF PosTypeOK
<1>3. OwnTokens /\ CallSound
  BY DEF OwnTokens, CallSound, Init, Books!Init
<1>4. ScanSound /\ ScreenSound /\ NeverStuck
  BY DEF ScanSound, ScreenSound, NeverStuck, Calling
<1> QED
  BY <1>1, <1>2, <1>3, <1>4 DEF PosIInv

-----------------------------------------------------------------------------
(* Every step is one of Payment, or none                                   *)

LEMMA StepImplements ==
    ASSUME PosIInv, [PosNext]_posVars PROVE [Next]_vars
<1>1. ASSUME NEW a \in Attempts PROVE Token(a) \in Tokens
  BY PosAssumption DEF PosIInv, OwnTokens
<1>2. ASSUME NEW a \in Attempts, CreateAnswered(a) \/ CreateFails(a)
      PROVE  [Next]_vars
  BY <1>1, <1>2 DEF CreateAnswered, CreateFails, Next
<1>3. CASE Services
  BY <1>3 DEF Services, Next
<1>4. ASSUME NEW a \in Attempts,
             PayButton(a) \/ PayEnter(a) \/ TimerFires(a) \/ PayAnswered(a) \/ ConnectionLost(a)
      PROVE  UNCHANGED vars
  BY <1>4 DEF PayButton, PayEnter, HandlePay, TimerFires, PayAnswered, ConnectionLost
<1>5. CASE BadScan \/ Reset \/ Leave \/ (\E r \in Rows : Scan(r)) \/ UNCHANGED posVars
  BY <1>5 DEF BadScan, Reset, ResetScreen, Leave, Scan, posVars
<1> QED
  BY <1>2, <1>3, <1>4, <1>5 DEF PosNext

-----------------------------------------------------------------------------
(* What the services do to a request and to the books                      *)

LEMMA ReplyFrame ==
    ASSUME IInv, NEW a \in Attempts, NEW code \in Codes \ {0}, Reply(a, code)
    PROVE  /\ UNCHANGED <<req, core>>
           /\ status'[a] # 0
           /\ \A b \in Attempts \ {a} : UNCHANGED <<pc[b], status[b]>>
  BY DEF Reply, Goto, IInv, TypeOK

LEMMA HandleFrame ==
    ASSUME IInv, NEW a \in Attempts, Handle(a)
    PROVE  /\ UNCHANGED <<req, txs>>
           /\ pc'[a] = "done" => status'[a] # 0
           /\ \A b \in Attempts \ {a} : UNCHANGED <<pc[b], status[b], core[b]>>
<1>1. UNCHANGED txs
  BY DEF Handle, GetSession, GetRate, DebitAnswer, DebitTimeout, CompleteGet, CompleteSet, books
<1>2. ASSUME NEW code \in {200, 402, 404, 409, 500, 503}, Reply(a, code)
      PROVE  /\ UNCHANGED <<req, core>> /\ status'[a] # 0
             /\ \A b \in Attempts \ {a} : UNCHANGED <<pc[b], status[b]>>
  BY <1>2, ReplyFrame DEF Codes
<1>3. ASSUME NEW l \in {"rate", "debit", "complete", "set"}, Goto(a, l), UNCHANGED <<req, status>>,
             \/ UNCHANGED core
             \/ core' = [core EXCEPT ![a] = "sent"]
      PROVE  /\ UNCHANGED req /\ pc'[a] # "done"
             /\ \A b \in Attempts \ {a} : UNCHANGED <<pc[b], status[b], core[b]>>
  BY <1>3 DEF Goto, IInv, TypeOK
<1>4. CASE \E code \in {200, 402, 404, 409, 500, 503} : Reply(a, code)
  BY <1>1, <1>2, <1>4
<1>5. CASE \E l \in {"rate", "debit", "complete", "set"} :
             /\ Goto(a, l) /\ UNCHANGED <<req, status>>
             /\ UNCHANGED core \/ core' = [core EXCEPT ![a] = "sent"]
  BY <1>1, <1>3, <1>5
<1> QED
  BY <1>4, <1>5 DEF Handle, GetSession, GetRate, DebitAnswer, DebitTimeout, CompleteGet,
     CompleteSet

LEMMA CoreFrame ==
    ASSUME IInv, NEW a \in Attempts, Core(a)
    PROVE  /\ UNCHANGED <<req, pc, status>>
           /\ \A b \in Attempts \ {a} : UNCHANGED core[b]
           /\ \/ UNCHANGED txs
              \/ txs' = txs \cup {[id |-> a, kind |-> "PAYMENT", ref |-> Token(a),
                                   row |-> Row(a), amount |-> coins[a]]}
<1>1. \E outcome, tx : Answer(a, outcome, tx)
  BY DEF Core, CorePreCheck, CoreDebit, CoreFails
<1>2. UNCHANGED <<req, pc, status>> /\ \A b \in Attempts \ {a} : UNCHANGED core[b]
  BY <1>1 DEF Answer, IInv, TypeOK
<1>3. UNCHANGED txs \/ Books!Pay(a, Row(a), Ref(a), coins[a])
  BY DEF Core, CorePreCheck, CoreDebit, CoreFails, books
<1> QED
  BY <1>2, <1>3 DEF Books!Pay, Ref

-----------------------------------------------------------------------------
(* The services keep the terminal's invariant                              *)

LEMMA ServicesKeep ==
    ASSUME IInv, PosIInv, Services PROVE PosIInv'
<1>1. UNCHANGED <<req, scan, call, scanOf, left, overlap, stage, scanned, paying, shown,
                  timers, autoReset>>
  BY HandleFrame, CoreFrame
     DEF Services, terminal, calls, screen, Expire, attempts, Crash
<1>2. /\ \A a \in Attempts :
           /\ pc'[a] = "done" => status'[a] # 0
           /\ ~ Asked(a) => core'[a] = core[a] /\ status'[a] = status[a]
           /\ call[a] \in {"none", "create"} => pc'[a] = pc[a]
      /\ \A x \in txs' : x \in txs \/ \E a \in Attempts : x.id = a /\ x.ref = Token(a) /\ x.row = Row(a)
  <2>1. CASE \E t \in Tokens : Expire(t)
    BY <2>1 DEF Expire, attempts, books, PosIInv, OwnTokens
  <2>2. CASE Crash
    <3>1. \A a \in Attempts : call[a] \in {"none", "create"} => pc[a] = "get"
      BY DEF PosIInv, CallSound
    <3> QED
      BY <2>2, <3>1 DEF Crash, Running, books, PosIInv, OwnTokens
  <2>3. ASSUME NEW a \in Attempts, Asked(a), Handle(a)
        PROVE  <1>2
    BY <2>3, HandleFrame DEF Asked, PosIInv, OwnTokens
  <2>4. ASSUME NEW a \in Attempts, Asked(a), Core(a)
        PROVE  <1>2
    BY <2>4, CoreFrame DEF Asked, PosIInv, OwnTokens
  <2> QED
    BY <2>1, <2>2, <2>3, <2>4 DEF Services
<1>3. \A a : Token(a)' = Token(a) /\ Row(a)' = Row(a) /\ Calling(a)' = Calling(a)
  BY <1>1 DEF Token, Row, Calling
<1>4. PosTypeOK'
  BY <1>1 DEF PosIInv, PosTypeOK
<1>5. OwnTokens'
  BY <1>2, <1>3 DEF PosIInv, OwnTokens
<1>6. CallSound'
  BY <1>1, <1>2 DEF PosIInv, CallSound, Asked
<1>7. ScanSound'
  BY <1>1 DEF PosIInv, ScanSound
<1>8. ScreenSound'
  BY <1>1, <1>3 DEF PosIInv, ScreenSound
<1>9. NeverStuck'
  BY <1>1, <1>3 DEF PosIInv, NeverStuck
<1> QED
  BY <1>4, <1>5, <1>6, <1>7, <1>8, <1>9 DEF PosIInv
-----------------------------------------------------------------------------
(* The merchant's steps                                                    *)

\* Steps that leave requests and books alone keep what relates them.
LEMMA OwnTokensStay ==
    ASSUME OwnTokens, UNCHANGED <<attempts, txs>> PROVE OwnTokens'
  BY DEF OwnTokens, attempts, Token, Row

LEMMA ScanKeeps ==
    ASSUME PosIInv, NEW r \in Rows, Scan(r) PROVE PosIInv'
<1> USE DEF PosIInv, Scan, calls, vars, attempts, books
<1>1. PosTypeOK'
  BY DEF PosTypeOK
<1>2. OwnTokens'
  BY OwnTokensStay
<1>3. CallSound'
  BY DEF CallSound, PosTypeOK
<1>4. ScanSound'
  BY DEF ScanSound, CallSound, PosTypeOK
<1>5. ScreenSound'
  BY DEF ScreenSound, Calling, Row
<1>6. NeverStuck'
  BY DEF NeverStuck, Calling
<1> QED
  BY <1>1, <1>2, <1>3, <1>4, <1>5, <1>6

LEMMA BadScanKeeps ==
    ASSUME PosIInv, BadScan PROVE PosIInv'
<1> USE DEF PosIInv, BadScan, calls, vars, attempts, books
<1>1. PosTypeOK' /\ CallSound' /\ ScanSound'
  BY DEF PosTypeOK, CallSound, ScanSound
<1>2. OwnTokens'
  BY OwnTokensStay
<1>3. ScreenSound'
  BY DEF ScreenSound, Calling, Row
<1>4. NeverStuck'
  BY DEF NeverStuck, Calling
<1> QED
  BY <1>1, <1>2, <1>3, <1>4

\* A call begins; unless it overlaps another, it is the only one of its scan.
LEMMA HandlePayKeeps ==
    ASSUME PosIInv, NEW a \in Attempts, HandlePay(a) PROVE PosIInv'
<1> USE DEF PosIInv, HandlePay, Become, vars, attempts, books
<1>1. PosTypeOK'
  BY DEF PosTypeOK
<1>2. OwnTokens'
  BY OwnTokensStay
<1>3. CallSound'
  BY DEF CallSound, ScanSound, PosTypeOK
<1>4. ScanSound'
  BY DEF ScanSound, CallSound, PosTypeOK
<1>5. ScreenSound'
  <2> SUFFICES ASSUME overlap' = {} PROVE ScreenSound'
    BY DEF ScreenSound, PosTypeOK
  <2>1. overlap = {} /\ ~ paying
    OBVIOUS
  <2>2. \A b \in Attempts \ left : ~ Calling(b)
    BY <2>1 DEF ScreenSound
  <2> QED
    BY <2>1, <2>2 DEF ScreenSound, PosTypeOK, Calling, Row
<1>6. NeverStuck'
  BY DEF NeverStuck, Calling, PosTypeOK
<1> QED
  BY <1>1, <1>2, <1>3, <1>4, <1>5, <1>6

\* Whatever empties the screen keeps the invariant when it disarms the timer
\* that is armed and no call of the page is under way.
LEMMA ClearKeeps ==
    ASSUME PosIInv, ClearScreen, UNCHANGED <<scan, calls, vars>>,
           timers' \subseteq timers, autoReset' = Nobody,
           overlap = {} => stage # "amount" /\ timers' = {}
    PROVE  PosIInv'
<1> USE DEF PosIInv, ClearScreen, calls, vars, attempts, books
<1>1. PosTypeOK' /\ CallSound' /\ ScanSound'
  BY DEF PosTypeOK, CallSound, ScanSound
<1>2. OwnTokens'
  BY OwnTokensStay
<1>3. ScreenSound'
  BY DEF ScreenSound, Calling, Row
<1>4. NeverStuck'
  BY DEF NeverStuck, Calling
<1> QED
  BY <1>1, <1>2, <1>3, <1>4

LEMMA ResetKeeps ==
    ASSUME PosIInv, Reset PROVE PosIInv'
<1>1. overlap = {} => timers' = {}
  BY DEF Reset, ResetScreen, PosIInv, ScreenSound
<1> QED
  BY <1>1, ClearKeeps DEF Reset, ResetScreen

LEMMA TimerFiresKeeps ==
    ASSUME PosIInv, NEW a \in Attempts, TimerFires(a) PROVE PosIInv'
<1>1. overlap = {} => stage = "success" /\ timers' = {}
  BY DEF TimerFires, PosIInv, ScreenSound
<1> QED
  BY <1>1, ClearKeeps DEF TimerFires

LEMMA LeaveKeeps ==
    ASSUME PosIInv, Leave PROVE PosIInv'
<1> USE DEF PosIInv, Leave, ClearScreen, vars, attempts, books
<1>1. PosTypeOK'
  BY DEF PosTypeOK, Calling
<1>2. OwnTokens'
  BY OwnTokensStay
<1>3. CallSound'
  BY DEF CallSound, PosTypeOK
<1>4. ScanSound'
  BY DEF ScanSound
<1>5. ScreenSound'
  BY DEF ScreenSound, PosTypeOK, Calling
<1>6. NeverStuck'
  BY DEF NeverStuck, Calling, PosTypeOK
<1> QED
  BY <1>1, <1>2, <1>3, <1>4, <1>5, <1>6

-----------------------------------------------------------------------------
(* The answers                                                             *)

\* A call ends on the error screen, or unseen.
LEMMA ErrorKeeps ==
    ASSUME PosIInv, NEW a \in Attempts, Calling(a), ShowError(a),
           NEW c \in {"refused", "unknown"}, Become(a, c), UNCHANGED <<attempts, txs>>,
           c = "refused" => core[a] \in {"none", "insufficient"}
    PROVE  PosIInv'
<1> USE DEF PosIInv, ShowError, Become, Calling, attempts
<1>1. PosTypeOK'
  BY DEF PosTypeOK
<1>2. OwnTokens'
  BY OwnTokensStay
<1>3. CallSound'
  BY DEF CallSound, PosTypeOK
<1>4. ScanSound'
  BY DEF ScanSound
<1>5. ScreenSound'
  BY DEF ScreenSound, PosTypeOK, Row
<1>6. NeverStuck'
  BY DEF NeverStuck, PosTypeOK
<1> QED
  BY <1>1, <1>2, <1>3, <1>4, <1>5, <1>6

LEMMA PaidKeeps ==
    ASSUME PosIInv, NEW a \in Attempts, Calling(a), status[a] = 200, ShowPaid(a), UNCHANGED vars
    PROVE  PosIInv'
<1> USE DEF PosIInv, ShowPaid, Become, Calling, screen, vars, attempts, books
<1>1. PosTypeOK'
  <2>1. call' \in [Attempts -> {"none", "create", "pay", "paid", "refused", "unknown"}]
    BY DEF PosTypeOK
  <2>2. timers' \subseteq Attempts /\ shown' \in Attempts \cup {Nobody}
    BY DEF PosTypeOK
  <2>3. /\ stage' \in {"scanning", "amount", "success", "error"}
        /\ autoReset' \in Attempts \cup {Nobody}
    BY DEF PosTypeOK
  <2>4. paying' \in BOOLEAN
    <3>1. CASE a \in left
      BY <3>1 DEF PosTypeOK
    <3>2. CASE a \notin left
      BY <3>2
    <3> QED
      BY <3>1, <3>2
  <2> QED
    BY <2>1, <2>2, <2>3, <2>4 DEF PosTypeOK
<1>2. OwnTokens'
  BY OwnTokensStay
<1>3. CallSound'
  BY DEF CallSound, PosTypeOK
<1>4. ScanSound'
  BY DEF ScanSound
<1>5. ScreenSound'
  <2>1. CASE a \in left
    BY <2>1 DEF ScreenSound, PosTypeOK, Row
  <2>2. CASE a \notin left
    BY <2>2 DEF ScreenSound, PosTypeOK, Row
  <2> QED
    BY <2>1, <2>2
<1>6. NeverStuck'
  <2>1. CASE a \in left
    BY <2>1 DEF NeverStuck, PosTypeOK
  <2>2. CASE a \notin left
    BY <2>2 DEF NeverStuck, PosTypeOK
  <2> QED
    BY <2>1, <2>2
<1> QED
  BY <1>1, <1>2, <1>3, <1>4, <1>5, <1>6

LEMMA CreateKeeps ==
    ASSUME PosIInv, NEW a \in Attempts, CreateAnswered(a) \/ CreateFails(a) PROVE PosIInv'
<1>1. UNCHANGED <<attempts, txs>> /\ call[a] = "create"
  BY DEF CreateAnswered, CreateFails, CreateQR, vars, books
<1>2. CASE CreateFails(a)
  BY <1>1, <1>2, ErrorKeeps DEF CreateFails, Calling, PosIInv, CallSound
<1>3. CASE CreateAnswered(a)
  <2> USE <1>1, <1>3 DEF PosIInv, CreateAnswered, Become, screen, attempts
  <2>1. PosTypeOK' /\ CallSound' /\ ScanSound'
    BY DEF PosTypeOK, CallSound, ScanSound
  <2>2. OwnTokens'
    BY OwnTokensStay
  <2>3. ScreenSound'
    BY DEF ScreenSound, PosTypeOK, Calling, Row
  <2>4. NeverStuck'
    BY DEF PosTypeOK, NeverStuck, Calling
  <2> QED
    BY <2>1, <2>2, <2>3, <2>4
<1> QED
  BY <1>2, <1>3

\* What the service answered is true, so what the terminal takes from it is.
LEMMA AnswersKeep ==
    ASSUME IInv, PosIInv, NEW a \in Attempts, PayAnswered(a) \/ ConnectionLost(a)
    PROVE  PosIInv'
<1>1. UNCHANGED <<attempts, txs>> /\ Calling(a) /\ UNCHANGED vars
  BY DEF PayAnswered, ConnectionLost, vars, books, Calling
<1>2. CASE ConnectionLost(a)
  BY <1>1, <1>2, ErrorKeeps DEF ConnectionLost
<1>3. CASE PayAnswered(a) /\ status[a] = 200
  BY <1>1, <1>3, PaidKeeps DEF PayAnswered
<1>4. CASE PayAnswered(a) /\ status[a] = 500
  BY <1>1, <1>4, ErrorKeeps DEF PayAnswered
<1>5. CASE PayAnswered(a) /\ status[a] \notin {200, 500}
  <2>1. status[a] \in {402, 404, 409, 503}
    BY <1>5 DEF PayAnswered, IInv, TypeOK, Codes, PosIInv, OwnTokens
  <2>2. core[a] \in {"none", "insufficient"}
    BY <2>1 DEF IInv, AnswerSound
  <2> QED
    BY <1>1, <1>5, <2>2, ErrorKeeps DEF PayAnswered
<1> QED
  BY <1>2, <1>3, <1>4, <1>5

-----------------------------------------------------------------------------
(* The theorems                                                            *)

LEMMA PosNextKeeps ==
    ASSUME IInv, PosIInv, [PosNext]_posVars PROVE PosIInv'
<1>1. CASE UNCHANGED posVars
  <2> USE <1>1 DEF posVars, terminal, screen, calls, vars, attempts, books, PosIInv
  <2>1. PosTypeOK' /\ CallSound' /\ ScanSound'
    BY DEF PosTypeOK, CallSound, ScanSound
  <2>2. OwnTokens' /\ ScreenSound'
    BY OwnTokensStay DEF ScreenSound, Calling, Row
  <2>3. NeverStuck'
    BY DEF NeverStuck, Calling
  <2> QED
    BY <2>1, <2>2, <2>3
<1>2. CASE PosNext
  BY <1>2, ScanKeeps, BadScanKeeps, ResetKeeps, LeaveKeeps, HandlePayKeeps, TimerFiresKeeps,
     CreateKeeps, AnswersKeep, ServicesKeep DEF PosNext, PayButton, PayEnter
<1> QED
  BY <1>1, <1>2

\* Under the terminal, too, Payment's invariant and the terminal's own hold.
THEOREM TerminalInvariant == PosSpec => [](IInv /\ PosIInv)
<1>1. PosInit => IInv /\ PosIInv
  BY PosInitInvariant
<1>2. IInv /\ PosIInv /\ [PosNext]_posVars => (IInv /\ PosIInv)'
  BY StepImplements, NextKeeps, PosNextKeeps
<1> QED
  BY <1>1, <1>2, PTL DEF PosSpec

\* A terminal, with all its failures, asks of the services only what Payment
\* allows: every theorem about Payment is one about the terminal's payments.
THEOREM TerminalImplementsPayment == PosSpec => Spec
<1>1. PosInit => Init
  BY DEF PosInit
<1>2. PosIInv /\ [PosNext]_posVars => [Next]_vars
  BY StepImplements
<1> QED
  BY <1>1, <1>2, TerminalInvariant, PTL DEF PosSpec, Spec

\* A customer scanned once is charged once, unless calls overlap.
THEOREM ScansAreChargedOnce == PosSpec => []OneChargePerScan
<1>1. ASSUME IInv, PosIInv, NEW a \in Attempts, Booked(Token(a)) PROVE scanOf[a] # 0
  <2>1. PICK x \in txs : x.ref = Token(a)
    BY <1>1 DEF Booked
  <2>2. x.id = a
    BY <1>1, <2>1 DEF IInv, TypeOK, PosIInv, OwnTokens
  <2>3. core[a] # "none"
    BY <1>1, <2>1, <2>2 DEF IInv, CoreSound
  <2> QED
    BY <1>1, <2>3 DEF PosIInv, CallSound
<1>2. IInv /\ PosIInv => OneChargePerScan
  BY <1>1 DEF OneChargePerScan, PosIInv, ScanSound
<1> QED
  BY <1>2, TerminalInvariant, PTL

\* The success screen and the refusals of the terminal are true of core's books.
THEOREM TerminalTellsTheTruth == PosSpec => []ScreenTellsTheTruth
<1>1. ASSUME IInv, PosIInv, NEW a \in Attempts, NEW x \in txs, x.ref = Token(a)
      PROVE  x.id = a /\ x.row = Row(a)
  BY <1>1 DEF IInv, TypeOK, PosIInv, OwnTokens
<1>2. ASSUME IInv, PosIInv, stage = "success"
      PROVE  /\ \E x \in txs : x.id = shown /\ x.ref = Token(shown) /\ x.row = Row(shown)
             /\ overlap = {} => Row(shown) = scanned
  <2>1. shown \in Attempts /\ status[shown] = 200
    BY <1>2 DEF PosIInv, ScreenSound, CallSound
  <2>2. Booked(Token(shown))
    BY <1>2, <2>1 DEF IInv, AnswerSound
  <2> QED
    BY <1>1, <1>2, <2>1, <2>2 DEF Booked, PosIInv, ScreenSound
<1>3. ASSUME IInv, PosIInv, NEW a \in Attempts, call[a] = "refused"
      PROVE  ~ Booked(Token(a)) /\ core[a] \notin {"sent", "checked"}
  <2>1. core[a] \in {"none", "insufficient"}
    BY <1>3 DEF PosIInv, CallSound
  <2> QED
    BY <1>1, <1>3, <2>1 DEF Booked, IInv, CoreSound
<1>4. IInv /\ PosIInv => ScreenTellsTheTruth
  BY <1>2, <1>3 DEF ScreenTellsTheTruth
<1> QED
  BY <1>4, TerminalInvariant, PTL

\* The timer of a success screen never fires into another sale.
THEOREM TimersWipeNoSale == PosSpec => []NoSaleIsWiped
<1>1. PosIInv => NoSaleIsWiped
  BY DEF PosIInv, ScreenSound, NoSaleIsWiped
<1> QED
  BY <1>1, TerminalInvariant, PTL

\* The terminal never shows a disabled button without a call whose answer is
\* still awaited, nor a success screen without its timer.
THEOREM TerminalIsNeverStuck == PosSpec => []NeverStuck
<1>1. PosIInv => NeverStuck
  BY DEF PosIInv
<1> QED
  BY <1>1, TerminalInvariant, PTL
=============================================================================
