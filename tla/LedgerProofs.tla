---------------------------- MODULE LedgerProofs ----------------------------
(***************************************************************************)
(* Proofs about Ledger for every set of calls, rows, tokens, deposit keys  *)
(* and amounts, and every number of faults.                                *)
(***************************************************************************)
EXTENDS Ledger, FiniteSetTheorems, TLAPS

\* What a committing call writes is a well-formed record.
LEMMA RecordsTyped ==
    ASSUME TypeOK, NEW c \in Calls
    PROVE  /\ TxOf(c) \in TxRecords
           /\ c \in CreditCalls => DepositOf(c) \in DepositRecords
           /\ Row(c) \in Rows /\ Amount(c) \in Amounts /\ Amount(c) \in Nat
<1>1. /\ Row(c) \in Rows /\ Amount(c) \in Amounts /\ Amount(c) \in Nat
      /\ req[c] \in Requests(Tokens \cup DepositKeys)
  BY LedgerAssumption DEF LedgerAssumption, TypeOK, Requests, Row, Amount
<1>2. RefOf(c) \in Tokens \cup {DepositRef(key) : key \in DepositKeys}
  BY DEF TypeOK, RefOf, Calls
<1>3. TxOf(c) \in TxRecords
  BY <1>1, <1>2 DEF TxOf, TxRecords, KindOf
<1>4. ASSUME c \in CreditCalls PROVE DepositOf(c) \in DepositRecords
  BY <1>1, <1>4 DEF DepositOf, DepositRecords, TypeOK
<1>5. QED
  BY <1>1, <1>3, <1>4

\* A rolled-back call leaves the types alone.
LEMMA AbortTyped ==
    ASSUME TypeOK, NEW c \in Calls, NEW a \in Answers, Abort(c, a),
           faults' \in 0..MaxFaults
    PROVE  TypeOK'
BY DEF TypeOK, Abort, Answer, Goto, Unlocked, tables, Labels, Requests

LEMMA InstallTyped ==
    ASSUME TypeOK, NEW c \in Calls, Install(c)
    PROVE  /\ rows' \subseteq Rows
           /\ balance' \in [Rows -> Nat]
           /\ lock' \in [Rows -> Calls \cup {NoCall}]
           /\ txs' \subseteq TxRecords
           /\ deposits' \subseteq DepositRecords
BY RecordsTyped DEF TypeOK, Install, Unlocked

\* A call that locks its row and reads or writes it keeps the types.
LEMMA RowStepTyped ==
    ASSUME TypeOK, NEW c \in Calls, NEW l \in Labels, NEW v \in Nat,
           Goto(c, l), version' = [version EXCEPT ![c] = v],
           lock' = [lock EXCEPT ![Row(c)] = c],
           reply' \in [Calls -> Answers],
           UNCHANGED <<req, tables, published, toppedUp, faults>>
    PROVE  TypeOK'
<1>1. pc' \in [Calls -> Labels] /\ version' \in [Calls -> Nat]
  BY DEF TypeOK, Goto
<1>2. lock' \in [Rows -> Calls \cup {NoCall}]
  BY RecordsTyped DEF TypeOK
<1>3. QED BY <1>1, <1>2 DEF TypeOK, tables

LEMMA FaultTyped ==
    ASSUME TypeOK, Fault
    PROVE  faults' \in 0..MaxFaults
BY LedgerAssumption DEF LedgerAssumption, Fault, TypeOK

LEMMA TypeStep ==
    ASSUME TypeOK, [Next]_vars
    PROVE  TypeOK'
<1> USE DEF tables, calls, Goto, Answer
<1>1. ASSUME NEW c \in Calls, PreCheckDebit(c) PROVE TypeOK'
  BY <1>1 DEF PreCheckDebit, TypeOK, Labels, Answers
<1>2. ASSUME NEW c \in Calls, FindForUpdate(c) PROVE TypeOK'
  <2>1. CASE Row(c) \notin rows
    BY <1>2, <2>1, AbortTyped DEF FindForUpdate, Answers, TypeOK
  <2>2. CASE Row(c) \in rows
    <3>1. balance[Row(c)] \in Nat
      BY RecordsTyped DEF TypeOK
    <3>2. reply' \in [Calls -> Answers]
      BY <1>2, <2>2 DEF FindForUpdate, TypeOK, Answers
    <3>3. QED BY <1>2, <2>2, <3>1, <3>2, RowStepTyped DEF FindForUpdate, Labels
  <2>3. QED BY <2>1, <2>2
<1>3. ASSUME NEW c \in Calls, Debit(c) PROVE TypeOK'
  <2>1. CASE balance[Row(c)] < Amount(c)
    BY <1>3, <2>1, AbortTyped DEF Debit, Answers, TypeOK
  <2>2. CASE ~(balance[Row(c)] < Amount(c))
    <3>1. balance[Row(c)] \in Nat /\ Amount(c) \in Nat
      BY RecordsTyped DEF TypeOK
    <3>2. Debited(c) \in Nat
      BY <2>2, <3>1 DEF Debited
    <3>3. reply' \in [Calls -> Answers]
      BY <1>3, <2>2 DEF Debit, TypeOK
    <3>4. QED BY <1>3, <2>2, <3>2, <3>3, RowStepTyped DEF Debit, Labels
  <2>3. QED BY <2>1, <2>2
<1>4. ASSUME NEW c \in Calls, ReleaseAbandoned(c) PROVE TypeOK'
  BY <1>4 DEF ReleaseAbandoned, TypeOK, Labels, Unlocked
<1>5. ASSUME NEW c \in Calls, PreCheckDeposit(c) PROVE TypeOK'
  BY <1>5 DEF PreCheckDeposit, TypeOK, Labels, Answers
<1>6. ASSUME NEW c \in Calls, CreateDeposit(c) PROVE TypeOK'
  <2>1. CASE KeyCommitted(req[c].ref)
    BY <1>6, <2>1, AbortTyped DEF CreateDeposit, Answers, TypeOK
  <2>2. CASE ~KeyCommitted(req[c].ref)
    BY <1>6, <2>2 DEF CreateDeposit, TypeOK, Labels
  <2>3. QED BY <2>1, <2>2
<1>7. ASSUME NEW c \in Calls, EnsureExists(c) PROVE TypeOK'
  BY <1>7, RecordsTyped DEF EnsureExists, TypeOK, Labels
<1>8. ASSUME NEW c \in Calls, Credit(c) PROVE TypeOK'
  <2>1. balance[Row(c)] \in Nat /\ Amount(c) \in Nat
    BY RecordsTyped DEF TypeOK
  <2>2. balance[Row(c)] + Amount(c) \in Nat
    BY <2>1
  <2>3. reply' \in [Calls -> Answers]
    BY <1>8 DEF Credit, TypeOK
  <2>4. QED BY <1>8, <2>2, <2>3, RowStepTyped DEF Credit, Labels
<1>9. ASSUME NEW c \in Calls, MarkCredited(c) PROVE TypeOK'
  BY <1>9 DEF MarkCredited, TypeOK, Labels
<1>10. ASSUME NEW c \in Calls, InsertTx(c) PROVE TypeOK'
  <2>1. CASE RefCommitted(RefOf(c))
    BY <1>10, <2>1, AbortTyped DEF InsertTx, Answers, TypeOK
  <2>2. CASE ~RefCommitted(RefOf(c))
    BY <1>10, <2>2 DEF InsertTx, TypeOK, Labels
  <2>3. QED BY <2>1, <2>2
<1>11. ASSUME NEW c \in Calls, Commit(c) PROVE TypeOK'
  BY <1>11, InstallTyped DEF Commit, TypeOK, Labels
<1>12. ASSUME NEW c \in Calls, Publish(c) PROVE TypeOK'
  BY <1>12 DEF Publish, TypeOK, Labels, Answers
<1>13. ASSUME NEW c \in Calls, DbError(c) PROVE TypeOK'
  <2>1. Fault /\ Abort(c, "error")
    BY <1>13 DEF DbError
  <2>2. QED BY <2>1, AbortTyped, FaultTyped DEF Answers
<1>14. ASSUME NEW c \in Calls, CommitAnswerLost(c) PROVE TypeOK'
  BY <1>14, InstallTyped, FaultTyped DEF CommitAnswerLost, TypeOK, Labels, Answers
<1>15. ASSUME NEW r \in Rows, NEW a \in Amounts, AdminDeposit(r, a) PROVE TypeOK'
  <2>1. a \in Nat
    BY LedgerAssumption DEF LedgerAssumption
  <2>2. balance[r] + a \in Nat /\ toppedUp[r] + a \in Nat
    BY <2>1 DEF TypeOK
  <2>3. QED BY <1>15, <2>2 DEF AdminDeposit, TypeOK
<1>16. CASE Crash
  BY <1>16, FaultTyped DEF Crash, TypeOK, Labels
<1>17. CASE UNCHANGED vars
  BY <1>17 DEF vars, TypeOK
<1>18. QED
  BY <1>1, <1>2, <1>3, <1>4, <1>5, <1>6, <1>7, <1>8, <1>9, <1>10, <1>11, <1>12,
     <1>13, <1>14, <1>15, <1>16, <1>17 DEF Next, Serve

\* The types of all variables, and with them that no committed balance and no
\* row version is ever negative, hold in every behaviour of the ledger.
THEOREM LedgerTypeOK == Spec => []TypeOK
<1>1. Init => TypeOK
  BY LedgerAssumption DEF LedgerAssumption, Init, TypeOK, Labels, Answers, Requests, Calls
<1>2. TypeOK /\ [Next]_vars => TypeOK'
  BY TypeStep
<1>3. QED
  BY <1>1, <1>2, PTL DEF Spec

-----------------------------------------------------------------------------
\* Nobody changes what a call asks for.
LEMMA RequestsFixed ==
    ASSUME [Next]_vars
    PROVE  req' = req
BY DEF Next, Serve, vars, calls, tables, PreCheckDebit, FindForUpdate, Debit,
   ReleaseAbandoned, PreCheckDeposit, CreateDeposit, EnsureExists, Credit,
   MarkCredited, InsertTx, Commit, Publish, DbError, CommitAnswerLost, Crash,
   AdminDeposit, Abort, Answer, Goto

\* Every call stays on the path of its kind.
LEMMA PathStep ==
    ASSUME TypeOK, OnOwnPath, [Next]_vars
    PROVE  OnOwnPath'
<1> USE DEF OnOwnPath, TypeOK, Goto, Answer, Abort, Calls
<1>1. ASSUME NEW c \in Calls, Serve(c) PROVE OnOwnPath'
  <2>1. CASE PreCheckDebit(c) BY <2>1 DEF PreCheckDebit
  <2>2. CASE FindForUpdate(c) BY <2>2 DEF FindForUpdate
  <2>3. CASE Debit(c) BY <2>3 DEF Debit
  <2>4. CASE ReleaseAbandoned(c) BY <2>4 DEF ReleaseAbandoned
  <2>5. CASE PreCheckDeposit(c) BY <2>5 DEF PreCheckDeposit
  <2>6. CASE CreateDeposit(c) BY <2>6 DEF CreateDeposit
  <2>7. CASE EnsureExists(c) BY <2>7 DEF EnsureExists
  <2>8. CASE Credit(c) BY <2>8 DEF Credit
  <2>9. CASE MarkCredited(c) BY <2>9 DEF MarkCredited
  <2>10. CASE InsertTx(c) BY <2>10 DEF InsertTx
  <2>11. CASE Commit(c) BY <2>11 DEF Commit
  <2>12. CASE Publish(c) BY <2>12 DEF Publish
  <2>13. QED
    BY <1>1, <2>1, <2>2, <2>3, <2>4, <2>5, <2>6, <2>7, <2>8, <2>9, <2>10, <2>11,
       <2>12 DEF Serve
<1>2. ASSUME NEW c \in Calls, DbError(c) PROVE OnOwnPath'
  BY <1>2 DEF DbError
<1>3. ASSUME NEW c \in Calls, CommitAnswerLost(c) PROVE OnOwnPath'
  BY <1>3 DEF CommitAnswerLost
<1>4. ASSUME NEW r \in Rows, NEW a \in Amounts, AdminDeposit(r, a) PROVE OnOwnPath'
  BY <1>4 DEF AdminDeposit, calls
<1>5. CASE Crash
  BY <1>5 DEF Crash
<1>6. CASE UNCHANGED vars
  BY <1>6 DEF vars, calls
<1>7. QED
  BY <1>1, <1>2, <1>3, <1>4, <1>5, <1>6 DEF Next

\* A call that gives its lock back keeps the discipline, wherever it goes next.
LEMMA UnlockDiscipline ==
    ASSUME TypeOK, LockDiscipline, NEW c \in Calls, NEW l \in {"publish", "done"},
           Goto(c, l), lock' = Unlocked(c), req' = req
    PROVE  LockDiscipline'
<1>1. \A d \in Calls : Row(d) \in Rows /\ Row(d)' = Row(d)
  BY RecordsTyped DEF Row
<1>2. \A d \in Calls : pc'[d] = IF d = c THEN l ELSE pc[d]
  BY DEF TypeOK, Goto
<1>3. \A r \in Rows : lock'[r] = IF lock[r] = c THEN NoCall ELSE lock[r]
  BY DEF Unlocked
<1>4. \A r \in Rows : lock[r] \in Calls \cup {NoCall}
  BY DEF TypeOK
<1>5. QED
  BY <1>1, <1>2, <1>3, <1>4, LedgerAssumption
  DEF LedgerAssumption, LockDiscipline

\* A call that takes a free row lock keeps it as well.
LEMMA RelockDiscipline ==
    ASSUME TypeOK, LockDiscipline, NEW c \in Calls,
           NEW l \in {"debit", "abandoned", "credit", "insert"},
           Goto(c, l), RowFree(c, Row(c)),
           lock' = [lock EXCEPT ![Row(c)] = c], req' = req
    PROVE  LockDiscipline'
<1>1. \A d \in Calls : Row(d) \in Rows /\ Row(d)' = Row(d)
  BY RecordsTyped DEF Row
<1>2. \A d \in Calls : pc'[d] = IF d = c THEN l ELSE pc[d]
  BY DEF TypeOK, Goto
<1>3. \A r \in Rows : lock'[r] = IF r = Row(c) THEN c ELSE lock[r]
  BY <1>1 DEF TypeOK
<1>4. lock[Row(c)] \in {NoCall, c}
  BY <1>1 DEF RowFree, Excludes, TypeOK
<1>5. \A r \in Rows : lock[r] \in Calls \cup {NoCall}
  BY DEF TypeOK
<1>6. QED
  BY <1>1, <1>2, <1>3, <1>4, <1>5, LedgerAssumption
  DEF LedgerAssumption, LockDiscipline

LEMMA LockStep ==
    ASSUME TypeOK, OnOwnPath, LockDiscipline, [Next]_vars
    PROVE  LockDiscipline'
<1> USE RequestsFixed
<1>1. ASSUME NEW c \in Calls, Serve(c) PROVE LockDiscipline'
  <2> Row(c) \in Rows
    BY RecordsTyped
  <2>1. CASE PreCheckDebit(c)
    BY <2>1 DEF PreCheckDebit, LockDiscipline, TypeOK, Goto, Answer, Row
  <2>2. CASE FindForUpdate(c)
    <3>1. CASE Row(c) \notin rows
      BY <2>2, <3>1, UnlockDiscipline DEF FindForUpdate, Abort, Answer
    <3>2. CASE Row(c) \in rows
      BY <2>2, <3>2, RelockDiscipline DEF FindForUpdate
    <3>3. QED BY <3>1, <3>2
  <2>3. CASE Debit(c)
    <3>1. CASE balance[Row(c)] < Amount(c)
      BY <2>3, <3>1, UnlockDiscipline DEF Debit, Abort, Answer
    <3>2. CASE ~(balance[Row(c)] < Amount(c))
      BY <2>3, <3>2, RelockDiscipline DEF Debit
    <3>3. QED BY <3>1, <3>2
  <2>4. CASE ReleaseAbandoned(c)
    BY <2>4, UnlockDiscipline DEF ReleaseAbandoned
  <2>5. CASE PreCheckDeposit(c)
    BY <2>5 DEF PreCheckDeposit, LockDiscipline, TypeOK, Goto, Answer, Row
  <2>6. CASE CreateDeposit(c)
    <3>1. CASE KeyCommitted(req[c].ref)
      BY <2>6, <3>1, UnlockDiscipline DEF CreateDeposit, Abort, Answer
    <3>2. CASE ~KeyCommitted(req[c].ref)
      BY <2>6, <3>2 DEF CreateDeposit, LockDiscipline, TypeOK, Goto, Row
    <3>3. QED BY <3>1, <3>2
  <2>7. CASE EnsureExists(c)
    <3>1. CASE Row(c) \in rows
      BY <2>7, <3>1 DEF EnsureExists, LockDiscipline, TypeOK, Goto, Row
    <3>2. CASE Row(c) \notin rows
      BY <2>7, <3>2, RelockDiscipline DEF EnsureExists
    <3>3. QED BY <3>1, <3>2
  <2>8. CASE Credit(c)
    BY <2>8, RelockDiscipline DEF Credit
  <2>9. CASE MarkCredited(c)
    BY <2>9 DEF MarkCredited, LockDiscipline, TypeOK, Goto, Row
  <2>10. CASE InsertTx(c)
    <3>1. CASE RefCommitted(RefOf(c))
      BY <2>10, <3>1, UnlockDiscipline DEF InsertTx, Abort, Answer
    <3>2. CASE ~RefCommitted(RefOf(c))
      BY <2>10, <3>2 DEF InsertTx, LockDiscipline, TypeOK, Goto, Row
    <3>3. QED BY <3>1, <3>2
  <2>11. CASE Commit(c)
    BY <2>11, UnlockDiscipline DEF Commit, Install
  <2>12. CASE Publish(c)
    BY <2>12 DEF Publish, LockDiscipline, TypeOK, Goto, Answer, Row
  <2>13. QED
    BY <1>1, <2>1, <2>2, <2>3, <2>4, <2>5, <2>6, <2>7, <2>8, <2>9, <2>10, <2>11,
       <2>12 DEF Serve
<1>2. ASSUME NEW c \in Calls, DbError(c) PROVE LockDiscipline'
  BY <1>2, UnlockDiscipline DEF DbError, Abort, Answer
<1>3. ASSUME NEW c \in Calls, CommitAnswerLost(c) PROVE LockDiscipline'
  BY <1>3, UnlockDiscipline DEF CommitAnswerLost, Install, Answer
<1>4. ASSUME NEW r \in Rows, NEW a \in Amounts, AdminDeposit(r, a)
      PROVE LockDiscipline'
  BY <1>4 DEF AdminDeposit, calls, LockDiscipline, Row
<1>5. CASE Crash
  BY <1>5 DEF Crash, Running, LockDiscipline, TypeOK, Row
<1>6. CASE UNCHANGED vars
  BY <1>6 DEF vars, calls, LockDiscipline, Row
<1>7. QED
  BY <1>1, <1>2, <1>3, <1>4, <1>5, <1>6 DEF Next

-----------------------------------------------------------------------------
(* No update is lost                                                       *)

\* A commit touches only the row its call has locked, so no other call's
\* uncommitted version goes stale.
LEMMA InstallKeepsVersions ==
    ASSUME TypeOK, LockDiscipline, NoLostUpdate, NEW c \in Calls, pc[c] = "commit",
           NEW l \in {"publish", "done"}, Goto(c, l), Install(c),
           req' = req, version' = version
    PROVE  NoLostUpdate'
<1> USE DEF NoLostUpdate
<1> SUFFICES ASSUME NEW d \in Calls, pc'[d] \in {"insert", "mark", "commit"}
             PROVE  NoLostUpdate!(d)'
  OBVIOUS
<1>1. d # c /\ pc[d] = pc'[d]
  BY DEF Goto, TypeOK
<1>2. lock[Row(c)] = c /\ lock[Row(d)] = d
  BY <1>1 DEF LockDiscipline
<1>3. Row(c) \in Rows /\ Row(d) \in Rows
  BY RecordsTyped
<1>4. balance'[Row(d)] = balance[Row(d)]
  BY <1>1, <1>2, <1>3 DEF Install, TypeOK
<1>5. QED
  BY <1>1, <1>4 DEF Row, Amount

\* Steps that leave the books and the versions alone, and send no call to
\* "insert", keep every version fresh.
LEMMA IdleKeepsVersions ==
    ASSUME TypeOK, NoLostUpdate, req' = req, version' = version, balance' = balance,
           \A d \in Calls : pc'[d] \in {"insert", "mark", "commit"} =>
                             pc[d] \in {"insert", "mark", "commit"}
    PROVE  NoLostUpdate'
BY DEF NoLostUpdate, Row, Amount

LEMMA VersionStep ==
    ASSUME TypeOK, OnOwnPath, LockDiscipline, NoLostUpdate, [Next]_vars
    PROVE  NoLostUpdate'
<1> USE RequestsFixed DEF tables, calls
<1>1. ASSUME NEW c \in Calls, Serve(c) PROVE NoLostUpdate'
  <2> Row(c) \in Rows /\ Amount(c) \in Nat
    BY RecordsTyped
  <2>1. CASE PreCheckDebit(c)
    BY <2>1, IdleKeepsVersions DEF PreCheckDebit, TypeOK, Goto, Answer
  <2>2. CASE FindForUpdate(c)
    <3>1. CASE Row(c) \notin rows
      BY <2>2, <3>1, IdleKeepsVersions DEF FindForUpdate, Abort, Answer, Goto, TypeOK
    <3>2. CASE Row(c) \in rows
      BY <2>2, <3>2 DEF FindForUpdate, Goto, TypeOK, NoLostUpdate, Row, Amount
    <3>3. QED BY <3>1, <3>2
  <2>3. CASE Debit(c)
    <3>1. CASE balance[Row(c)] < Amount(c)
      BY <2>3, <3>1, IdleKeepsVersions DEF Debit, Abort, Answer, Goto, TypeOK
    <3>2. CASE ~(balance[Row(c)] < Amount(c))
      <4>1. c \in DebitCalls
        BY <2>3 DEF Debit, OnOwnPath
      <4>2. QED
        BY <2>3, <3>2, <4>1 DEF Debit, Debited, Goto, TypeOK, NoLostUpdate, Row, Amount
    <3>3. QED BY <3>1, <3>2
  <2>4. CASE ReleaseAbandoned(c)
    BY <2>4, IdleKeepsVersions DEF ReleaseAbandoned, TypeOK, Goto
  <2>5. CASE PreCheckDeposit(c)
    BY <2>5, IdleKeepsVersions DEF PreCheckDeposit, TypeOK, Goto, Answer
  <2>6. CASE CreateDeposit(c)
    BY <2>6, IdleKeepsVersions DEF CreateDeposit, Abort, Answer, Goto, TypeOK
  <2>7. CASE EnsureExists(c)
    BY <2>7, IdleKeepsVersions DEF EnsureExists, Goto, TypeOK
  <2>8. CASE Credit(c)
    <3>1. c \notin DebitCalls
      BY <2>8, LedgerAssumption DEF LedgerAssumption, Credit, OnOwnPath
    <3>2. QED
      BY <2>8, <3>1 DEF Credit, Goto, TypeOK, NoLostUpdate, Row, Amount
  <2>9. CASE MarkCredited(c)
    BY <2>9, IdleKeepsVersions DEF MarkCredited, Goto, TypeOK
  <2>10. CASE InsertTx(c)
    BY <2>10, IdleKeepsVersions DEF InsertTx, Abort, Answer, Goto, TypeOK
  <2>11. CASE Commit(c)
    BY <2>11, InstallKeepsVersions DEF Commit
  <2>12. CASE Publish(c)
    BY <2>12, IdleKeepsVersions DEF Publish, Answer, Goto, TypeOK
  <2>13. QED
    BY <1>1, <2>1, <2>2, <2>3, <2>4, <2>5, <2>6, <2>7, <2>8, <2>9, <2>10, <2>11,
       <2>12 DEF Serve
<1>2. ASSUME NEW c \in Calls, DbError(c) PROVE NoLostUpdate'
  BY <1>2, IdleKeepsVersions DEF DbError, Abort, Answer, Goto, TypeOK
<1>3. ASSUME NEW c \in Calls, CommitAnswerLost(c) PROVE NoLostUpdate'
  BY <1>3, InstallKeepsVersions DEF CommitAnswerLost, Answer
<1>4. ASSUME NEW r \in Rows, NEW a \in Amounts, AdminDeposit(r, a)
      PROVE  NoLostUpdate'
  <2> SUFFICES ASSUME NEW d \in Calls, pc[d] \in {"insert", "mark", "commit"}
               PROVE  balance'[Row(d)] = balance[Row(d)]
    BY <1>4 DEF AdminDeposit, NoLostUpdate, Row, Amount
  <2>1. lock[Row(d)] = d /\ lock[r] = NoCall
    BY <1>4 DEF AdminDeposit, LockDiscipline
  <2>2. Row(d) \in Rows /\ Row(d) # r
    BY <2>1, RecordsTyped, LedgerAssumption DEF LedgerAssumption
  <2>3. QED BY <1>4, <2>2 DEF AdminDeposit, TypeOK
<1>5. CASE Crash
  BY <1>5, IdleKeepsVersions DEF Crash
<1>6. CASE UNCHANGED vars
  BY <1>6, IdleKeepsVersions DEF vars
<1>7. QED
  BY <1>1, <1>2, <1>3, <1>4, <1>5, <1>6 DEF Next

-----------------------------------------------------------------------------
(* Nobody waits in a circle                                                *)

\* How far a call has come in the order in which locks are taken.
Rank(c) == IF HoldsRef(c) THEN 3
           ELSE IF lock[Row(c)] = c THEN 2
           ELSE IF pc[c] = "deposit" THEN 0 ELSE 1

LEMMA WaitsUpwards ==
    ASSUME TypeOK, OnOwnPath, LockDiscipline, NEW c \in Calls, NEW d \in Calls,
           WaitsFor(c, d)
    PROVE  Rank(c) < Rank(d)
<1>1. Row(c) \in Rows /\ Row(d) \in Rows
  BY RecordsTyped
<1>2. CASE pc[c] \in {"lock", "ensure", "debit", "credit"}
  <2>1. d # c /\ d = lock[Row(c)]
    BY <1>2 DEF WaitsFor, Excludes
  <2>2. lock[Row(d)] = d
    BY <1>1, <2>1, LedgerAssumption DEF LedgerAssumption, LockDiscipline
  <2>3. QED BY <1>2, <2>1, <2>2 DEF Rank, HoldsRef
<1>3. CASE pc[c] = "insert"
  <2>1. HoldsRef(d) /\ lock[Row(c)] = c
    BY <1>3 DEF WaitsFor, LockDiscipline
  <2>2. QED BY <1>3, <2>1 DEF Rank, HoldsRef
<1>4. CASE pc[c] = "deposit"
  <2>1. HoldsKey(d)
    BY <1>4 DEF WaitsFor
  <2>2. lock[Row(c)] # c
    BY <1>1, <1>4, LedgerAssumption DEF LedgerAssumption, LockDiscipline
  <2>3. QED BY <1>4, <2>1, <2>2 DEF Rank, HoldsRef, HoldsKey
<1>5. QED
  BY <1>2, <1>3, <1>4 DEF WaitsFor

LEMMA RankedNoCycle ==
    ASSUME TypeOK, OnOwnPath, LockDiscipline
    PROVE  NoWaitCycle
<1> SUFFICES ASSUME NEW S \in SUBSET Calls, S # {}
             PROVE  \E c \in S : \A d \in S : ~WaitsFor(c, d)
  BY DEF NoWaitCycle
<1>1. \A c \in S : Rank(c) \in 0..3
  BY DEF Rank
<1>2. PICK c \in S : \A d \in S : ~(Rank(c) < Rank(d))
  <2>1. CASE \E c \in S : Rank(c) = 3
    BY <1>1, <2>1
  <2>2. CASE (\A c \in S : Rank(c) # 3) /\ \E c \in S : Rank(c) = 2
    BY <1>1, <2>2
  <2>3. CASE (\A c \in S : Rank(c) \notin {2, 3}) /\ \E c \in S : Rank(c) = 1
    BY <1>1, <2>3
  <2>4. CASE \A c \in S : Rank(c) = 0
    BY <1>1, <2>4
  <2>5. QED BY <1>1, <2>1, <2>2, <2>3, <2>4
<1>3. QED
  BY <1>2, WaitsUpwards

-----------------------------------------------------------------------------
(* What a step does to the tables and to the reservations of keys and      *)
(* references: nothing, or it reserves a reference, reserves a key,        *)
(* or commits.                                                             *)

Committing(c) ==
    /\ pc[c] = "commit"
    /\ pc' = [pc EXCEPT ![c] = IF pc'[c] = "publish" THEN "publish" ELSE "done"]
    /\ Install(c)

Quiet ==
    /\ txs' = txs /\ deposits' = deposits
    /\ \A d \in Calls : (HoldsRef(d)' => HoldsRef(d)) /\ (HoldsKey(d)' => HoldsKey(d))

LEMMA CommitIsCommitting ==
    ASSUME TypeOK, NEW c \in Calls, Commit(c) \/ CommitAnswerLost(c)
    PROVE  Committing(c)
BY DEF Commit, CommitAnswerLost, Committing, Goto, Answer, TypeOK

LEMMA StepShape ==
    ASSUME TypeOK, OnOwnPath, [Next]_vars
    PROVE  \/ Quiet
           \/ \E c \in Calls : InsertTx(c) /\ ~RefCommitted(RefOf(c))
           \/ \E c \in Calls : CreateDeposit(c) /\ ~KeyCommitted(req[c].ref)
           \/ \E c \in Calls : Committing(c)
<1> USE DEF Quiet, HoldsRef, HoldsKey, TypeOK, Goto, Answer, tables
<1>1. ASSUME NEW c \in Calls, Abort(c, "error") \/ Abort(c, "insufficient")
                               \/ Abort(c, "already") \/ Abort(c, "duplicate")
      PROVE Quiet
  BY <1>1 DEF Abort
<1>2. ASSUME NEW c \in Calls, PreCheckDebit(c) PROVE Quiet
  BY <1>2 DEF PreCheckDebit
<1>3. ASSUME NEW c \in Calls, FindForUpdate(c) PROVE Quiet
  <2>1. CASE Row(c) \notin rows
    BY <1>1, <1>3, <2>1 DEF FindForUpdate
  <2>2. CASE Row(c) \in rows
    BY <1>3, <2>2 DEF FindForUpdate
  <2>3. QED BY <2>1, <2>2
<1>4. ASSUME NEW c \in Calls, Debit(c) PROVE Quiet
  <2>1. CASE balance[Row(c)] < Amount(c)
    BY <1>1, <1>4, <2>1 DEF Debit
  <2>2. CASE ~(balance[Row(c)] < Amount(c))
    <3>1. c \notin CreditCalls
      BY <1>4, LedgerAssumption DEF LedgerAssumption, Debit, OnOwnPath
    <3>2. QED BY <1>4, <2>2, <3>1 DEF Debit
  <2>3. QED BY <2>1, <2>2
<1>5. ASSUME NEW c \in Calls, ReleaseAbandoned(c) PROVE Quiet
  BY <1>5 DEF ReleaseAbandoned
<1>6. ASSUME NEW c \in Calls, PreCheckDeposit(c) PROVE Quiet
  BY <1>6 DEF PreCheckDeposit
<1>7. ASSUME NEW c \in Calls, CreateDeposit(c), KeyCommitted(req[c].ref) PROVE Quiet
  BY <1>1, <1>7 DEF CreateDeposit
<1>8. ASSUME NEW c \in Calls, EnsureExists(c) PROVE Quiet
  BY <1>8 DEF EnsureExists
<1>9. ASSUME NEW c \in Calls, Credit(c) PROVE Quiet
  BY <1>9 DEF Credit
<1>10. ASSUME NEW c \in Calls, MarkCredited(c) PROVE Quiet
  BY <1>10 DEF MarkCredited
<1>11. ASSUME NEW c \in Calls, InsertTx(c), RefCommitted(RefOf(c)) PROVE Quiet
  BY <1>1, <1>11 DEF InsertTx
<1>12. ASSUME NEW c \in Calls, Publish(c) PROVE Quiet
  BY <1>12 DEF Publish
<1>13. ASSUME NEW c \in Calls, DbError(c) PROVE Quiet
  BY <1>1, <1>13 DEF DbError
<1>14. ASSUME NEW r \in Rows, NEW a \in Amounts, AdminDeposit(r, a) PROVE Quiet
  BY <1>14 DEF AdminDeposit, calls
<1>15. CASE Crash
  BY <1>15 DEF Crash
<1>16. CASE UNCHANGED vars
  BY <1>16 DEF vars, calls
<1>17. QED
  BY <1>2, <1>3, <1>4, <1>5, <1>6, <1>7, <1>8, <1>9, <1>10, <1>11, <1>12, <1>13,
     <1>14, <1>15, <1>16, CommitIsCommitting DEF Next, Serve

\* Requests never change, so a call's reference, key and record never do.
LEMMA RecordsFixed ==
    ASSUME [Next]_vars, NEW c
    PROVE  RefOf(c)' = RefOf(c) /\ TxOf(c)' = TxOf(c) /\ DepositOf(c)' = DepositOf(c)
BY RequestsFixed DEF RefOf, TxOf, DepositOf, Row, Amount, KindOf

-----------------------------------------------------------------------------
(* References are unique                                                   *)

RefInv == RefReserved /\ UniqueRef

LEMMA RefStep ==
    ASSUME TypeOK, OnOwnPath, RefInv, [Next]_vars
    PROVE  RefInv'
<1> USE RecordsFixed DEF RefInv, RefReserved, UniqueRef, RefCommitted
<1>1. CASE Quiet
  BY <1>1 DEF Quiet
<1>2. ASSUME NEW c \in Calls, InsertTx(c), ~RefCommitted(RefOf(c))
      PROVE  RefInv'
  <2>1. txs' = txs /\ \A d \in Calls : HoldsRef(d)' => d = c \/ HoldsRef(d)
    BY <1>2 DEF InsertTx, Goto, HoldsRef, TypeOK, tables
  <2>2. \A d \in Calls : d # c /\ HoldsRef(d) => RefOf(d) # RefOf(c)
    BY <1>2 DEF InsertTx, RefInFlight
  <2>3. QED BY <1>2, <2>1, <2>2
<1>3. ASSUME NEW c \in Calls, CreateDeposit(c), ~KeyCommitted(req[c].ref)
      PROVE  RefInv'
  <2>1. txs' = txs /\ \A d \in Calls : HoldsRef(d)' => HoldsRef(d)
    BY <1>3 DEF CreateDeposit, Goto, HoldsRef, TypeOK, tables
  <2>2. QED BY <2>1
<1>4. ASSUME NEW c \in Calls, Committing(c) PROVE RefInv'
  <2>1. txs' = txs \cup {TxOf(c)} /\ TxOf(c).ref = RefOf(c)
    BY <1>4 DEF Committing, Install, TxOf
  <2>2. HoldsRef(c) /\ \A d \in Calls : HoldsRef(d)' => d # c /\ HoldsRef(d)
    BY <1>4 DEF Committing, HoldsRef, TypeOK
  <2>3. QED BY <2>1, <2>2
<1>5. QED
  BY <1>1, <1>2, <1>3, <1>4, StepShape

-----------------------------------------------------------------------------
(* Deposits are booked once                                                *)

KeyInv == KeyReserved /\ DepositBookedOnce

LEMMA KeyStep ==
    ASSUME TypeOK, OnOwnPath, KeyInv, [Next]_vars
    PROVE  KeyInv'
<1> USE RecordsFixed, RequestsFixed DEF KeyInv, KeyReserved, KeyCommitted
<1>1. CASE Quiet
  BY <1>1 DEF Quiet, DepositBookedOnce
<1>2. ASSUME NEW c \in Calls, InsertTx(c), ~RefCommitted(RefOf(c))
      PROVE  KeyInv'
  <2>1. /\ txs' = txs /\ deposits' = deposits
        /\ \A d \in Calls : HoldsKey(d)' => HoldsKey(d)
    BY <1>2 DEF InsertTx, Goto, HoldsKey, TypeOK, tables
  <2>2. QED BY <2>1 DEF DepositBookedOnce
<1>3. ASSUME NEW c \in Calls, CreateDeposit(c), ~KeyCommitted(req[c].ref)
      PROVE  KeyInv'
  <2>1. /\ txs' = txs /\ deposits' = deposits
        /\ \A d \in Calls : HoldsKey(d)' => d = c \/ HoldsKey(d)
    BY <1>3 DEF CreateDeposit, Goto, HoldsKey, TypeOK, tables
  <2>2. \A d \in Calls : d # c /\ HoldsKey(d) => req[d].ref # req[c].ref
    BY <1>3 DEF CreateDeposit, KeyInFlight, HoldsKey
  <2>3. DepositBookedOnce'
    BY <2>1 DEF DepositBookedOnce
  <2>4. QED BY <1>3, <2>1, <2>2, <2>3
<1>4. ASSUME NEW c \in Calls, Committing(c) PROVE KeyInv'
  <2>1. txs' = txs \cup {TxOf(c)}
    BY <1>4 DEF Committing, Install
  <2>2. \A d \in Calls : HoldsKey(d)' => d # c /\ HoldsKey(d)
    BY <1>4 DEF Committing, HoldsKey, TypeOK
  <2>3. CASE c \in CreditCalls
    <3>1. /\ deposits' = deposits \cup {DepositOf(c)}
          /\ HoldsKey(c)
      BY <1>4, <2>3 DEF Committing, Install, HoldsKey
    <3>2. c \notin DebitCalls
      BY <2>3, LedgerAssumption DEF LedgerAssumption
    <3>3. /\ DepositOf(c).key = req[c].ref /\ DepositOf(c).id = c /\ TxOf(c).id = c
          /\ TxOf(c).ref = DepositRef(req[c].ref)
          /\ TxOf(c).row = DepositOf(c).row /\ TxOf(c).amount = DepositOf(c).amount
      BY <3>2 DEF DepositOf, TxOf, RefOf
    <3>4. KeyReserved'
      BY <2>2, <3>1, <3>3
    <3>5. DepositBookedOnce'
      BY <2>1, <3>1, <3>3 DEF DepositBookedOnce
    <3>6. QED BY <3>4, <3>5
  <2>4. CASE c \notin CreditCalls
    <3>1. deposits' = deposits /\ TxOf(c).kind # "DEPOSIT"
      BY <1>4, <2>4 DEF Committing, Install, TxOf, KindOf, Calls
    <3>2. QED BY <2>1, <2>2, <3>1 DEF DepositBookedOnce
  <2>5. QED BY <2>3, <2>4
<1>5. QED
  BY <1>1, <1>2, <1>3, <1>4, StepShape

-----------------------------------------------------------------------------
(* Answers and events tell the truth                                       *)

AnswerInv == CommittedCalls /\ AnswerSound /\ PublishedAfterCommit

\* A call that ends without committing may answer anything its books allow.
LEMMA EndWithoutCommit ==
    ASSUME TypeOK, AnswerInv, [Next]_vars, NEW c \in Calls,
           pc[c] \notin {"publish", "done", "gone", "abandoned"},
           NEW l \in {"abandoned", "done"}, NEW a \in Answers,
           Goto(c, l), reply' = [reply EXCEPT ![c] = a],
           a # "ok", a = "already" => RefCommitted(RefOf(c)),
           txs' = txs, published' = published
    PROVE  AnswerInv'
<1> USE RecordsFixed DEF AnswerInv
<1>1. \A d \in Calls : /\ pc'[d] = IF d = c THEN l ELSE pc[d]
                       /\ reply'[d] = IF d = c THEN a ELSE reply[d]
  BY DEF TypeOK, Goto
<1>2. \A t \in txs : t.id \in Calls /\ t.id # c
  BY DEF CommittedCalls, TypeOK, TxRecords
<1>3. CommittedCalls'
  BY <1>1, <1>2 DEF CommittedCalls
<1>4. AnswerSound'
  BY <1>1, <1>2 DEF AnswerSound, RefCommitted
<1>5. PublishedAfterCommit'
  BY DEF PublishedAfterCommit
<1>6. QED BY <1>3, <1>4, <1>5

\* Nor does a call on its way disturb anything.
LEMMA OnTheWay ==
    ASSUME TypeOK, AnswerInv, [Next]_vars, NEW c \in Calls,
           pc[c] \notin {"publish", "done", "gone", "abandoned"},
           NEW l \in Labels \ {"publish"}, Goto(c, l),
           reply' = reply, txs' = txs, published' = published
    PROVE  AnswerInv'
<1> USE RecordsFixed DEF AnswerInv
<1>1. \A d \in Calls : pc'[d] = IF d = c THEN l ELSE pc[d]
  BY DEF TypeOK, Goto
<1>2. /\ \A t \in txs : t.id \in Calls /\ t.id # c
      /\ reply[c] = "none"
  BY DEF CommittedCalls, TypeOK, TxRecords
<1>3. CommittedCalls'
  BY <1>1, <1>2 DEF CommittedCalls
<1>4. QED
  BY <1>3 DEF AnswerSound, PublishedAfterCommit

\* A commit adds the record of the committing call only.
LEMMA CommitAnswers ==
    ASSUME TypeOK, AnswerInv, [Next]_vars, NEW c \in Calls, pc[c] = "commit", Install(c),
           published' = published,
           \/ Goto(c, "publish") /\ reply' = reply
           \/ Goto(c, "done") /\ reply' = [reply EXCEPT ![c] = "error"]
    PROVE  AnswerInv'
<1> USE RecordsFixed DEF AnswerInv
<1>1. txs' = txs \cup {TxOf(c)} /\ TxOf(c).id = c
  BY DEF Install, TxOf
<1>2. \A d \in Calls : /\ d # c => pc'[d] = pc[d] /\ reply'[d] = reply[d]
                       /\ pc'[c] \in {"publish", "done"}
                       /\ reply[c] = "none" /\ reply'[c] \in {"none", "error"}
                       /\ pc'[c] = "publish" => reply'[c] = "none"
  BY DEF TypeOK, Goto, CommittedCalls
<1>3. \A t \in txs : t.id \in Calls /\ t.id # c
  BY DEF CommittedCalls, TypeOK, TxRecords
<1>4. CommittedCalls'
  BY <1>1, <1>2, <1>3 DEF CommittedCalls
<1>5. AnswerSound'
  BY <1>1, <1>2 DEF AnswerSound
<1>6. PublishedAfterCommit'
  BY <1>1 DEF PublishedAfterCommit
<1>7. QED BY <1>4, <1>5, <1>6

LEMMA AnswerStep ==
    ASSUME TypeOK, OnOwnPath, DepositBookedOnce, AnswerInv, [Next]_vars
    PROVE  AnswerInv'
<1> USE DEF tables
<1>1. ASSUME NEW c \in Calls, Serve(c) PROVE AnswerInv'
  <2>1. CASE PreCheckDebit(c)
    BY <2>1, EndWithoutCommit, OnTheWay DEF PreCheckDebit, Answer, Answers, Labels
  <2>2. CASE FindForUpdate(c)
    <3>1. CASE Row(c) \notin rows
      BY <2>2, <3>1, EndWithoutCommit DEF FindForUpdate, Abort, Answer, Answers
    <3>2. CASE Row(c) \in rows
      BY <2>2, <3>2, EndWithoutCommit, OnTheWay DEF FindForUpdate, Answers, Labels
    <3>3. QED BY <3>1, <3>2
  <2>3. CASE Debit(c)
    BY <2>3, EndWithoutCommit, OnTheWay DEF Debit, Abort, Answer, Answers, Labels
  <2>4. CASE ReleaseAbandoned(c)
    BY <2>4, RecordsFixed DEF ReleaseAbandoned, Goto, TypeOK, AnswerInv, CommittedCalls,
       AnswerSound, PublishedAfterCommit
  <2>5. CASE PreCheckDeposit(c)
    <3>1. CASE \E d \in deposits : d.key = req[c].ref /\ d.credited
      <4>1. RefCommitted(RefOf(c))
        BY <2>5, <3>1, LedgerAssumption
        DEF LedgerAssumption, PreCheckDeposit, DepositBookedOnce, RefCommitted, RefOf
      <4>2. QED BY <2>5, <3>1, <4>1, EndWithoutCommit DEF PreCheckDeposit, Answer, Answers
    <3>2. CASE ~\E d \in deposits : d.key = req[c].ref /\ d.credited
      BY <2>5, <3>2, OnTheWay DEF PreCheckDeposit, Labels
    <3>3. QED BY <3>1, <3>2
  <2>6. CASE CreateDeposit(c)
    <3>1. CASE KeyCommitted(req[c].ref)
      <4>1. RefCommitted(RefOf(c))
        BY <2>6, <3>1, LedgerAssumption
        DEF LedgerAssumption, CreateDeposit, OnOwnPath, DepositBookedOnce, KeyCommitted,
            RefCommitted, RefOf
      <4>2. QED BY <2>6, <3>1, <4>1, EndWithoutCommit DEF CreateDeposit, Abort, Answer, Answers
    <3>2. CASE ~KeyCommitted(req[c].ref)
      BY <2>6, <3>2, OnTheWay DEF CreateDeposit, Labels
    <3>3. QED BY <3>1, <3>2
  <2>7. CASE EnsureExists(c)
    BY <2>7, OnTheWay DEF EnsureExists, Labels
  <2>8. CASE Credit(c)
    BY <2>8, OnTheWay DEF Credit, Labels
  <2>9. CASE MarkCredited(c)
    BY <2>9, OnTheWay DEF MarkCredited, Labels
  <2>10. CASE InsertTx(c)
    <3>1. CASE RefCommitted(RefOf(c))
      BY <2>10, <3>1, EndWithoutCommit DEF InsertTx, Abort, Answer, Answers
    <3>2. CASE ~RefCommitted(RefOf(c))
      BY <2>10, <3>2, OnTheWay DEF InsertTx, Labels
    <3>3. QED BY <3>1, <3>2
  <2>11. CASE Commit(c)
    BY <2>11, CommitAnswers DEF Commit
  <2>12. CASE Publish(c)
    <3>1. TxOf(c) \in txs /\ reply[c] = "none"
      BY <2>12 DEF Publish, AnswerInv, CommittedCalls
    <3>2. QED
      BY <2>12, <3>1, RecordsFixed DEF Publish, Answer, Goto, TypeOK, TxRecords,
         AnswerInv, CommittedCalls, AnswerSound, PublishedAfterCommit
  <2>13. QED
    BY <1>1, <2>1, <2>2, <2>3, <2>4, <2>5, <2>6, <2>7, <2>8, <2>9, <2>10, <2>11,
       <2>12 DEF Serve
<1>2. ASSUME NEW c \in Calls, DbError(c) PROVE AnswerInv'
  BY <1>2, EndWithoutCommit DEF DbError, Abort, Answer, Answers
<1>3. ASSUME NEW c \in Calls, CommitAnswerLost(c) PROVE AnswerInv'
  BY <1>3, CommitAnswers DEF CommitAnswerLost, Answer
<1>4. ASSUME NEW r \in Rows, NEW a \in Amounts, AdminDeposit(r, a) PROVE AnswerInv'
  BY <1>4, RecordsFixed DEF AdminDeposit, calls, AnswerInv, CommittedCalls,
     AnswerSound, PublishedAfterCommit
<1>5. CASE Crash
  BY <1>5, RecordsFixed DEF Crash, Running, TypeOK, TxRecords, AnswerInv,
     CommittedCalls, AnswerSound, PublishedAfterCommit
<1>6. CASE UNCHANGED vars
  BY <1>6, RecordsFixed DEF vars, calls, AnswerInv, CommittedCalls, AnswerSound,
     PublishedAfterCommit
<1>7. QED
  BY <1>1, <1>2, <1>3, <1>4, <1>5, <1>6 DEF Next

-----------------------------------------------------------------------------
(* The theorems                                                            *)

LEMMA InitIInv ==
    ASSUME Init
    PROVE  IInv
<1>1. TypeOK
  BY LedgerAssumption DEF LedgerAssumption, Init, TypeOK, Labels, Answers, Requests, Calls
<1>2. QED
  BY <1>1 DEF Init, IInv, OnOwnPath, LockDiscipline, NoLostUpdate, RefReserved,
     HoldsRef, UniqueRef, KeyReserved, HoldsKey, DepositBookedOnce, CommittedCalls,
     AnswerSound, PublishedAfterCommit

LEMMA StepIInv ==
    ASSUME IInv, [Next]_vars
    PROVE  IInv'
BY TypeStep, PathStep, LockStep, VersionStep, RefStep, KeyStep, AnswerStep
DEF IInv, RefInv, KeyInv, AnswerInv

\* The inductive invariant holds in every behaviour of the ledger.
THEOREM LedgerInvariant == Spec => []IInv
<1>1. Init => IInv
  BY InitIInv
<1>2. IInv /\ [Next]_vars => IInv'
  BY StepIInv
<1>3. QED
  BY <1>1, <1>2, PTL DEF Spec

\* No payment reference is charged twice and no deposit reference credited
\* twice, for any number of concurrent calls, errors and crashes.
THEOREM ReferencesUnique == Spec => []UniqueRef
BY LedgerInvariant, PTL DEF IInv

\* Deposit events and their transaction records are booked together, once.
THEOREM DepositsBookedOnce == Spec => []DepositBookedOnce
BY LedgerInvariant, PTL DEF IInv

\* No balance update is lost between a row's lock and its commit.
THEOREM UpdatesNotLost == Spec => []NoLostUpdate
BY LedgerInvariant, PTL DEF IInv

\* Whatever a call answers about the books is true.
THEOREM AnswersSound == Spec => []AnswerSound
BY LedgerInvariant, PTL DEF IInv

\* The ledger's locks and unique keys never make calls wait in a circle.
THEOREM DeadlockFree == Spec => []NoWaitCycle
<1>1. IInv => NoWaitCycle
  BY RankedNoCycle DEF IInv
<1>2. QED
  BY <1>1, LedgerInvariant, PTL

\* Whoever is waited for is under way itself: what a call that has ended held is
\* free.  So the whole ledger never stands still behind its locks.
THEOREM LedgerNeverStandsStill == Spec => []SomeCallMoves
<1>1. ASSUME IInv, \E c \in Calls : Running(c)
      PROVE  \E c \in Calls : Running(c) /\ \A d \in Calls : ~WaitsFor(c, d)
  <2> DEFINE S == {c \in Calls : Running(c)}
  <2>1. PICK c \in S : \A d \in S : ~WaitsFor(c, d)
    BY <1>1, RankedNoCycle DEF IInv, NoWaitCycle
  <2>2. ASSUME NEW d \in Calls, WaitsFor(c, d) PROVE Running(d)
    <3>1. CASE Excludes(d, c, Row(c))
      BY <1>1, <3>1, RecordsTyped, LedgerAssumption
         DEF LedgerAssumption, Excludes, IInv, LockDiscipline, Running
    <3>2. CASE HoldsRef(d) \/ HoldsKey(d)
      BY <3>2 DEF HoldsRef, HoldsKey, Running
    <3>3. QED BY <2>2, <3>1, <3>2 DEF WaitsFor
  <2>3. QED BY <2>1, <2>2
<1>2. IInv => SomeCallMoves
  BY <1>1 DEF SomeCallMoves
<1>3. QED
  BY <1>2, LedgerInvariant, PTL

-----------------------------------------------------------------------------
(* Ledger implements AtomicLedger                                          *)

LEMMA CommitIsAtomic ==
    ASSUME IInv, NEW c \in Calls, pc[c] = "commit", Install(c)
    PROVE  Atomic!Next
<1> USE DEF IInv
<1>1. /\ Row(c) \in Rows /\ Amount(c) \in Amounts
      /\ version[c] \in Nat /\ balance[Row(c)] \in Nat /\ Amount(c) \in Nat
  BY RecordsTyped DEF TypeOK
<1>2. \A t \in txs : t.ref # RefOf(c)
  BY DEF RefReserved, HoldsRef, RefCommitted
<1>3. CASE c \in DebitCalls
  <2>1. c \notin CreditCalls
    BY <1>3, LedgerAssumption DEF LedgerAssumption
  <2>2. req[c].ref \in Tokens /\ RefOf(c) = req[c].ref
    BY <1>3 DEF TypeOK, RefOf
  <2>3. version[c] = balance[Row(c)] - Amount(c)
    BY <1>3 DEF NoLostUpdate
  <2>4. Atomic!Pay(c, Row(c), req[c].ref, Amount(c))
    BY <1>1, <1>2, <1>3, <2>1, <2>2, <2>3 DEF Atomic!Pay, Install, TxOf, KindOf
  <2>5. QED BY <1>1, <2>2, <2>4 DEF Atomic!Next, Atomic!PayStep
<1>4. CASE c \in CreditCalls
  <2>1. c \notin DebitCalls
    BY <1>4, LedgerAssumption DEF LedgerAssumption
  <2>2. req[c].ref \in DepositKeys /\ RefOf(c) = DepositRef(req[c].ref)
    BY <1>4, <2>1 DEF TypeOK, RefOf
  <2>3. version[c] = balance[Row(c)] + Amount(c)
    BY <2>1 DEF NoLostUpdate
  <2>4. \A d \in deposits : d.key # req[c].ref
    BY <1>4 DEF KeyReserved, HoldsKey, KeyCommitted
  <2>5. Atomic!Deposit(c, Row(c), req[c].ref, Amount(c))
    BY <1>1, <1>4, <2>1, <2>2, <2>3, <2>4
    DEF Atomic!Deposit, Atomic!DepositRef, DepositRef, Install, TxOf, KindOf, DepositOf
  <2>6. QED BY <1>1, <2>2, <2>5 DEF Atomic!Next, Atomic!DepositStep
<1>5. QED
  BY <1>3, <1>4 DEF Calls

LEMMA StepIsAtomic ==
    ASSUME IInv, [Next]_vars
    PROVE  [Atomic!Next]_(Atomic!books)
<1> USE DEF tables, calls, Answer, Abort, Atomic!books
<1>1. ASSUME NEW c \in Calls, Commit(c) \/ CommitAnswerLost(c)
      PROVE  Atomic!Next
  BY <1>1, CommitIsAtomic DEF Commit, CommitAnswerLost
<1>2. ASSUME NEW r \in Rows, NEW a \in Amounts, AdminDeposit(r, a)
      PROVE  Atomic!Next
  BY <1>2 DEF AdminDeposit, Atomic!Next, Atomic!TopUpStep, Atomic!TopUp
<1>3. ASSUME NEW c \in Calls, Serve(c) \/ DbError(c), ~Commit(c)
      PROVE  UNCHANGED Atomic!books
  BY <1>3 DEF Serve, DbError, PreCheckDebit, FindForUpdate, Debit, ReleaseAbandoned,
     PreCheckDeposit, CreateDeposit, EnsureExists, Credit, MarkCredited, InsertTx, Publish
<1>4. CASE Crash \/ UNCHANGED vars
  BY <1>4 DEF Crash, vars
<1>5. QED
  BY <1>1, <1>2, <1>3, <1>4 DEF Next, Serve

\* The concurrent, failing ledger is a correct implementation of the atomic one.
THEOREM LedgerImplementsAtomicLedger == Spec => ImplementsAtomicLedger
<1>1. Init => Atomic!Init
  BY DEF Init, Atomic!Init
<1>2. IInv /\ [Next]_vars => [Atomic!Next]_(Atomic!books)
  BY StepIsAtomic
<1>3. QED
  BY <1>1, <1>2, LedgerInvariant, PTL DEF Spec, ImplementsAtomicLedger, Atomic!Spec

\* ledger.debited and ledger.credited announce committed transactions only.
THEOREM EventsAfterCommit == Spec => []PublishedAfterCommit
<1>1. IInv => PublishedAfterCommit
  BY DEF IInv
<1>2. QED
  BY <1>1, LedgerInvariant, PTL

-----------------------------------------------------------------------------
(* Every move of a balance is recorded                                     *)

LEMMA CommitRecordsMove ==
    ASSUME IInv, NEW c \in Calls, pc[c] = "commit", Install(c)
    PROVE  MoveIsRecorded
<1> USE DEF IInv
<1> SUFFICES ASSUME NEW r \in Rows, balance'[r] # balance[r]
             PROVE  \E t \in txs' \ txs :
                      /\ t.row = r
                      /\ balance'[r] - balance[r] =
                           IF t.kind = "PAYMENT" THEN -t.amount ELSE t.amount
  BY DEF MoveIsRecorded
<1>1. r = Row(c) /\ balance'[r] = version[c]
  BY RecordsTyped DEF Install, TypeOK
<1>2. TxOf(c) \in txs' \ txs
  BY DEF Install, RefReserved, HoldsRef, RefCommitted, TxOf
<1>3. balance[r] \in Nat /\ Amount(c) \in Nat
  BY RecordsTyped DEF TypeOK
<1>4. version[c] = IF c \in DebitCalls THEN balance[r] - Amount(c)
                                       ELSE balance[r] + Amount(c)
  BY <1>1 DEF NoLostUpdate
<1>5. /\ TxOf(c).row = r /\ TxOf(c).amount = Amount(c)
      /\ TxOf(c).kind = IF c \in DebitCalls THEN "PAYMENT" ELSE "DEPOSIT"
  BY <1>1 DEF TxOf, KindOf
<1>6. balance'[r] - balance[r] =
        IF TxOf(c).kind = "PAYMENT" THEN -TxOf(c).amount ELSE TxOf(c).amount
  BY <1>1, <1>3, <1>4, <1>5
<1>7. QED BY <1>2, <1>5, <1>6

\* A balance moves only with the record that explains it, or with an
\* administrator's deposit.
THEOREM MovesRecorded == Spec => MovesAreRecorded
<1>1. ASSUME IInv, [Next]_vars PROVE [MoveIsRecorded]_vars
  <2> USE DEF tables, calls, Answer, Abort
  <2>1. ASSUME NEW c \in Calls, Commit(c) \/ CommitAnswerLost(c)
        PROVE  MoveIsRecorded
    BY <1>1, <2>1, CommitRecordsMove DEF Commit, CommitAnswerLost
  <2>2. ASSUME NEW r \in Rows, NEW a \in Amounts, AdminDeposit(r, a)
        PROVE  MoveIsRecorded
    <3>1. a \in Nat /\ balance \in [Rows -> Nat] /\ toppedUp \in [Rows -> Nat]
      BY <1>1, LedgerAssumption DEF LedgerAssumption, IInv, TypeOK
    <3>2. QED BY <2>2, <3>1 DEF AdminDeposit, MoveIsRecorded
  <2>3. ASSUME NEW c \in Calls, Serve(c) \/ DbError(c), ~Commit(c)
        PROVE  MoveIsRecorded
    BY <2>3 DEF Serve, DbError, PreCheckDebit, FindForUpdate, Debit, ReleaseAbandoned,
       PreCheckDeposit, CreateDeposit, EnsureExists, Credit, MarkCredited, InsertTx,
       Publish, MoveIsRecorded
  <2>4. CASE Crash
    BY <2>4 DEF Crash, MoveIsRecorded
  <2>5. QED
    BY <1>1, <2>1, <2>2, <2>3, <2>4 DEF Next, Serve
<1>2. IInv /\ [Next]_vars => [MoveIsRecorded]_vars
  BY <1>1
<1>3. QED
  BY <1>2, LedgerInvariant, PTL DEF Spec, MovesAreRecorded

-----------------------------------------------------------------------------
(* Money is conserved                                                      *)

\* The facts about sums, which the atomic ledger's proofs hold.
AtomicFacts == INSTANCE AtomicLedgerProofs
                 WITH Ids <- Calls,
                      OpeningBalance <- [r \in Rows |-> IF r \in OpenRows THEN Opening ELSE 0]

\* A sum of amounts grows by the amount of a record it did not have.
LEMMA TotalOfOneMore ==
    ASSUME NEW T, NEW t, t \notin T, t.amount \in Nat, IsFiniteSet(Coins(T))
    PROVE  /\ IsFiniteSet(Coins(T \cup {t}))
           /\ Total(T \cup {t}) = Total(T) + t.amount
<1>1. \A S : /\ AtomicFacts!Coins(S) = Coins(S)
            /\ AtomicFacts!IsFiniteSet(S) = IsFiniteSet(S)
            /\ AtomicFacts!Cardinality(S) = Cardinality(S)
  BY DEF AtomicFacts!Coins, Coins, AtomicFacts!IsFiniteSet, IsFiniteSet,
         AtomicFacts!Cardinality, Cardinality
<1>2. QED
  BY <1>1, AtomicFacts!TotalOfOneMore DEF AtomicFacts!Total, Total

\* The coins of some of the records are finitely many, as those of all are.
LEMMA BookedFinite ==
    ASSUME IsFiniteSet(Coins(txs)), NEW kind, NEW r
    PROVE  /\ IsFiniteSet(Coins(Booked(kind, r)))
           /\ Total(Booked(kind, r)) \in Nat
<1>1. Coins(Booked(kind, r)) \in SUBSET Coins(txs)
  BY DEF Coins, Booked
<1>2. IsFiniteSet(Coins(Booked(kind, r)))
  BY <1>1, FS_Subset
<1>3. QED
  BY <1>2, FS_CardinalityType DEF Total

\* Sums make sense, and money is conserved.
ConservationInv == IsFiniteSet(Coins(txs)) /\ Conservation

\* A step that neither commits nor tops up leaves all of it alone.
LEMMA BooksKept ==
    ASSUME ConservationInv, txs' = txs, balance' = balance, toppedUp' = toppedUp
    PROVE  ConservationInv'
BY DEF ConservationInv, Conservation, Booked, Total, Coins

\* A commit moves the balance of its row by the amount it books there.
LEMMA CommitConserves ==
    ASSUME IInv, ConservationInv, NEW c \in Calls, pc[c] = "commit", Install(c),
           toppedUp' = toppedUp
    PROVE  ConservationInv'
<1> USE DEF IInv
<1> DEFINE t == TxOf(c)
<1>1. t \notin txs /\ txs' = txs \cup {t}
  BY DEF Install, RefReserved, HoldsRef, RefCommitted, TxOf
<1>2. /\ t.row = Row(c) /\ t.amount = Amount(c) /\ t.amount \in Nat
      /\ t.kind = IF c \in DebitCalls THEN "PAYMENT" ELSE "DEPOSIT"
  BY RecordsTyped DEF TxOf, KindOf
<1> HIDE DEF t
<1>3. IsFiniteSet(Coins(txs'))
  BY <1>1, <1>2, TotalOfOneMore DEF ConservationInv
<1>4. ASSUME NEW kind, NEW r
      PROVE  /\ Total(Booked(kind, r)) \in Nat
             /\ Total(Booked(kind, r)') = IF kind = t.kind /\ r = t.row
                                          THEN Total(Booked(kind, r)) + t.amount
                                          ELSE Total(Booked(kind, r))
  <2>1. Booked(kind, r)' = IF kind = t.kind /\ r = t.row
                           THEN Booked(kind, r) \cup {t} ELSE Booked(kind, r)
    BY <1>1 DEF Booked
  <2>2. t \notin Booked(kind, r)
    BY <1>1 DEF Booked
  <2>3. QED
    BY <1>2, <2>1, <2>2, BookedFinite, TotalOfOneMore DEF ConservationInv
<1>5. ASSUME NEW r \in Rows
      PROVE  balance'[r] = (IF r \in OpenRows THEN Opening ELSE 0) + toppedUp'[r]
               + Total(Booked("DEPOSIT", r)') - Total(Booked("PAYMENT", r)')
  <2> DEFINE start == IF r \in OpenRows THEN Opening ELSE 0
             dep == Total(Booked("DEPOSIT", r))
             pay == Total(Booked("PAYMENT", r))
  <2>1. /\ start \in Nat /\ toppedUp[r] \in Nat /\ balance[r] \in Nat
        /\ dep \in Nat /\ pay \in Nat
    BY <1>4, LedgerAssumption DEF LedgerAssumption, TypeOK
  <2>2. balance[r] = start + toppedUp[r] + dep - pay
    BY DEF ConservationInv, Conservation
  <2>3. CASE r # t.row
    <3>1. balance'[r] = balance[r]
      BY <1>2, <2>3 DEF Install, TypeOK
    <3>2. /\ Total(Booked("DEPOSIT", r)') = dep
          /\ Total(Booked("PAYMENT", r)') = pay
      BY <1>4, <2>3
    <3>3. QED BY <2>2, <3>1, <3>2
  <2>4. CASE r = t.row
    <3>1. balance'[r] = IF c \in DebitCalls THEN balance[r] - t.amount
                                            ELSE balance[r] + t.amount
      BY <1>2, <2>4 DEF Install, TypeOK, NoLostUpdate
    <3>2. CASE c \in DebitCalls
      <4>1. /\ Total(Booked("DEPOSIT", r)') = dep
            /\ Total(Booked("PAYMENT", r)') = pay + t.amount
        BY <1>2, <1>4, <2>4, <3>2
      <4> HIDE DEF start, dep, pay
      <4>2. balance'[r] = start + toppedUp'[r] + dep - (pay + t.amount)
        BY <1>2, <2>1, <2>2, <3>1, <3>2
      <4>3. QED BY <4>1, <4>2 DEF start
    <3>3. CASE c \notin DebitCalls
      <4>1. /\ Total(Booked("DEPOSIT", r)') = dep + t.amount
            /\ Total(Booked("PAYMENT", r)') = pay
        BY <1>2, <1>4, <2>4, <3>3
      <4> HIDE DEF start, dep, pay
      <4>2. balance'[r] = start + toppedUp'[r] + (dep + t.amount) - pay
        BY <1>2, <2>1, <2>2, <3>1, <3>3
      <4>3. QED BY <4>1, <4>2 DEF start
    <3>4. QED BY <3>2, <3>3
  <2>5. QED BY <2>3, <2>4
<1>6. Conservation'
  BY <1>5 DEF Conservation, Total, Coins
<1>7. QED
  BY <1>3, <1>6 DEF ConservationInv, Coins

\* What an administrator adds to a row is added to the history as well.
LEMMA TopUpConserves ==
    ASSUME IInv, ConservationInv, NEW r \in Rows, NEW a \in Amounts, AdminDeposit(r, a)
    PROVE  ConservationInv'
<1>1. a \in Nat /\ txs' = txs
  BY LedgerAssumption DEF LedgerAssumption, AdminDeposit
<1>2. ASSUME NEW s \in Rows
      PROVE  balance'[s] = (IF s \in OpenRows THEN Opening ELSE 0) + toppedUp'[s]
               + Total(Booked("DEPOSIT", s)) - Total(Booked("PAYMENT", s))
  <2> DEFINE start == IF s \in OpenRows THEN Opening ELSE 0
             dep == Total(Booked("DEPOSIT", s))
             pay == Total(Booked("PAYMENT", s))
  <2>1. /\ start \in Nat /\ toppedUp[s] \in Nat /\ balance[s] \in Nat
        /\ dep \in Nat /\ pay \in Nat
    BY BookedFinite, LedgerAssumption DEF LedgerAssumption, IInv, TypeOK, ConservationInv
  <2>2. balance[s] = start + toppedUp[s] + dep - pay
    BY DEF ConservationInv, Conservation
  <2>3. \/ balance'[s] = balance[s] /\ toppedUp'[s] = toppedUp[s]
        \/ balance'[s] = balance[s] + a /\ toppedUp'[s] = toppedUp[s] + a
    BY DEF AdminDeposit, IInv, TypeOK
  <2> HIDE DEF start, dep, pay
  <2>4. balance'[s] = start + toppedUp'[s] + dep - pay
    BY <1>1, <2>1, <2>2, <2>3
  <2>5. QED BY <2>4 DEF start, dep, pay
<1>3. QED
  BY <1>1, <1>2 DEF ConservationInv, Conservation, Booked, Total, Coins

LEMMA ConservationStep ==
    ASSUME IInv, ConservationInv, [Next]_vars
    PROVE  ConservationInv'
<1> USE DEF tables, calls, Answer, Abort
<1>1. ASSUME NEW c \in Calls, Commit(c) \/ CommitAnswerLost(c)
      PROVE  ConservationInv'
  BY <1>1, CommitConserves DEF Commit, CommitAnswerLost
<1>2. ASSUME NEW c \in Calls, Serve(c) \/ DbError(c), ~Commit(c)
      PROVE  ConservationInv'
  BY <1>2, BooksKept DEF Serve, DbError, PreCheckDebit, FindForUpdate, Debit,
     ReleaseAbandoned, PreCheckDeposit, CreateDeposit, EnsureExists, Credit, MarkCredited,
     InsertTx, Publish
<1>3. CASE Crash \/ UNCHANGED vars
  BY <1>3, BooksKept DEF Crash, vars
<1>4. QED
  BY <1>1, <1>2, <1>3, TopUpConserves DEF Next, Serve

LEMMA ConservationHolds == Spec => []ConservationInv
<1>1. Init => ConservationInv
  <2> SUFFICES ASSUME Init PROVE ConservationInv
    OBVIOUS
  <2>1. Coins({}) = {} /\ IsFiniteSet({}) /\ Cardinality({}) = 0
    BY FS_EmptySet DEF Coins
  <2>2. \A kind, r : Booked(kind, r) = {}
    BY DEF Init, Booked
  <2>3. \A kind, r : Total(Booked(kind, r)) = 0
    BY <2>1, <2>2 DEF Total
  <2>4. Conservation
    BY <2>3, LedgerAssumption DEF LedgerAssumption, Init, Conservation
  <2>5. QED BY <2>1, <2>4 DEF Init, ConservationInv
<1>2. IInv /\ ConservationInv /\ [Next]_vars => ConservationInv'
  BY ConservationStep
<1>3. QED
  BY <1>1, <1>2, LedgerInvariant, PTL DEF Spec

\* Money is conserved: at every commit, and whatever is interleaved, fails or
\* crashes, a row holds its opening balance, what administrators added and its
\* deposits, less its payments.
THEOREM MoneyConserved == Spec => []Conservation
BY ConservationHolds, PTL DEF ConservationInv

\* Nobody spends what they do not have: the payments ever booked on a row are
\* covered by its opening balance, its top-ups and its deposits.
SpentWithinMeans ==
    \A r \in Rows :
        Total(Booked("PAYMENT", r)) <=
            (IF r \in OpenRows THEN Opening ELSE 0) + toppedUp[r]
              + Total(Booked("DEPOSIT", r))

\* Every payment was covered when it was booked, and stays so.
THEOREM NeverOverspent == Spec => []SpentWithinMeans
<1>1. ASSUME TypeOK, ConservationInv PROVE SpentWithinMeans
  <2> SUFFICES ASSUME NEW r \in Rows
               PROVE  Total(Booked("PAYMENT", r)) <=
                        (IF r \in OpenRows THEN Opening ELSE 0) + toppedUp[r]
                          + Total(Booked("DEPOSIT", r))
    BY DEF SpentWithinMeans
  <2>1. /\ balance[r] \in Nat /\ toppedUp[r] \in Nat /\ Opening \in Nat
        /\ Total(Booked("PAYMENT", r)) \in Nat /\ Total(Booked("DEPOSIT", r)) \in Nat
    BY <1>1, BookedFinite, LedgerAssumption DEF LedgerAssumption, TypeOK, ConservationInv
  <2>2. balance[r] = (IF r \in OpenRows THEN Opening ELSE 0) + toppedUp[r]
          + Total(Booked("DEPOSIT", r)) - Total(Booked("PAYMENT", r))
    BY <1>1 DEF ConservationInv, Conservation
  <2>3. QED BY <2>1, <2>2
<1>2. TypeOK /\ ConservationInv => SpentWithinMeans
  BY <1>1
<1>3. QED
  BY <1>2, LedgerTypeOK, ConservationHolds, PTL
=============================================================================
