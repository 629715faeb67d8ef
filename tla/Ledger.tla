------------------------------- MODULE Ledger -------------------------------
(***************************************************************************)
(* The ledger service of core and the PostgreSQL tables it works on.       *)
(* Every DebitForPayment (an HTTP handler's goroutine) and every           *)
(* CreditDeposit (the deposit consumer of some core instance) is a process *)
(* that issues one database statement per step; calls interleave between   *)
(* statements, statements fail, and the service crashes.                   *)
(*                                                                         *)
(*   pc        where each call stands, named for the statement it issues   *)
(*             next; "done" when it has answered, "gone" when the service  *)
(*             crashed under it                                            *)
(*   reply     what the call answered                                      *)
(*   req       what each call asks for: a row, a reference (a payment      *)
(*             token or a deposit key) and an amount                       *)
(*   version   the row version the call's transaction has read or written, *)
(*             visible to nobody else until it commits                     *)
(*   rows      the rows of core.offchain_ledger that exist (committed)     *)
(*   balance   their committed balance, 0 where the row does not exist     *)
(*   lock      the transaction that holds each row's lock; for a row that  *)
(*             does not exist, the transaction that is inserting it        *)
(*   txs       committed core.transactions                                 *)
(*   deposits  committed core.deposit_events                               *)
(*   published the calls whose ledger event reached Kafka                  *)
(*   toppedUp  history: what administrators added to each row              *)
(*   faults    database errors and crashes so far, at most MaxFaults       *)
(*                                                                         *)
(* locked_balance is 0 in every row (no statement of the repository        *)
(* changes it), so the available balance is the balance.                   *)
(***************************************************************************)
EXTENDS Sums

CONSTANTS DebitCalls, CreditCalls, \* the calls, each made once
          Rows,                    \* (user, currency) pairs
          Tokens,                  \* payment references (QR session tokens)
          DepositKeys,             \* (chain_tx_hash, network) pairs
          Amounts,                 \* amounts, already validated as positive
          OpenRows, Opening,       \* rows that exist at the start, their balance
          MaxFaults,               \* bound on database errors and crashes
          MaxTopUp,                \* bound on what is topped up per row
          NoCall

Calls == DebitCalls \cup CreditCalls

\* fmt.Sprintf("deposit:%s:%s", network, hash): injective, never a token.
DepositRef(key) == <<"deposit", key>>

ASSUME LedgerAssumption ==
    /\ DebitCalls \cap CreditCalls = {}
    /\ NoCall \notin Calls
    /\ Amounts \subseteq Nat \ {0}
    /\ OpenRows \subseteq Rows
    /\ Opening \in Nat
    /\ MaxFaults \in Nat
    /\ MaxTopUp \in Nat
    /\ \A key \in DepositKeys : DepositRef(key) \notin Tokens

VARIABLES pc, reply, req, version, rows, balance, lock, txs, deposits,
          published, toppedUp, faults

calls == <<pc, reply, req, version>>
tables == <<rows, balance, txs, deposits>>
vars == <<calls, tables, lock, published, toppedUp, faults>>

-----------------------------------------------------------------------------
(* A call's own data, and what the database makes it wait for.             *)

Row(c) == req[c].row
Amount(c) == req[c].amount
RefOf(c) == IF c \in DebitCalls THEN req[c].ref ELSE DepositRef(req[c].ref)
KindOf(c) == IF c \in DebitCalls THEN "PAYMENT" ELSE "DEPOSIT"

Requests(refs) == [row : Rows, ref : refs, amount : Amounts]

Excludes_ForShare(d, c, r) ==
    /\ d # c /\ Row(d) = r
    /\ pc[d] \in {"debit", "abandoned", "insert", "mark", "commit"}
    /\ pc[c] = "lock" => pc[d] \notin {"debit", "abandoned"}

\* d's transaction keeps c from reading row r FOR UPDATE, and from writing it:
\* row locks are exclusive, and a transaction's own lock does not hold it up.
Excludes(d, c, r) == lock[r] = d /\ d # c

RowFree_OtherConnection(c, r) == lock[r] = NoCall

\* A row lock is free for c when nobody else holds it.
RowFree(c, r) == \A d \in Calls : ~Excludes(d, c, r)

Unlocked(c) == [r \in Rows |-> IF lock[r] = c THEN NoCall ELSE lock[r]]

\* internal_ref is UNIQUE: an insert sees committed records, and waits while
\* another transaction holds the same reference uncommitted.
RefCommitted(ref) == \E t \in txs : t.ref = ref

HoldsRef(c) == pc[c] \in {"mark", "commit"}

RefInFlight(c) == \E d \in Calls \ {c} : HoldsRef(d) /\ RefOf(d) = RefOf(c)

\* The same for UNIQUE (chain_tx_hash, network) of core.deposit_events.
KeyCommitted(key) == \E d \in deposits : d.key = key

HoldsKey(c) ==
    c \in CreditCalls /\ pc[c] \in {"ensure", "credit", "insert", "mark", "commit"}

KeyInFlight(c) == \E d \in CreditCalls \ {c} : HoldsKey(d) /\ req[d].ref = req[c].ref

\* The records a call's transaction leaves behind when it commits.
TxOf(c) == [id |-> c, kind |-> KindOf(c), ref |-> RefOf(c),
            row |-> Row(c), amount |-> Amount(c)]

DepositOf(c) == [id |-> c, key |-> req[c].ref, row |-> Row(c),
                 amount |-> Amount(c), credited |-> TRUE]

Goto(c, l) == pc' = [pc EXCEPT ![c] = l]

Answer(c, a) ==
    /\ Goto(c, "done")
    /\ reply' = [reply EXCEPT ![c] = a]

\* dbTx.Rollback by the deferred function, or no transaction begun yet.
Abort(c, a) ==
    /\ Answer(c, a)
    /\ lock' = Unlocked(c)
    /\ UNCHANGED <<req, version, tables, published, toppedUp>>

-----------------------------------------------------------------------------
(* DebitForPayment                                                         *)

\* FindByInternalRef before any transaction: a known reference answers
\* ErrAlreadyProcessed.
PreCheckDebit(c) ==
    /\ c \in DebitCalls /\ pc[c] = "idle"
    /\ IF RefCommitted(RefOf(c))
       THEN Answer(c, "already")
       ELSE Goto(c, "lock") /\ UNCHANGED reply
    /\ UNCHANGED <<req, version, tables, lock, published, toppedUp, faults>>

\* BeginTx, SELECT ... FOR UPDATE, and the check of the available balance.  An
\* insufficient balance returns without setting err: the deferred Rollback does
\* not run and the transaction keeps its row lock after the call has answered.
FindForUpdate(c) ==
    /\ pc[c] = "lock"
    /\ Row(c) \in rows => RowFree(c, Row(c))
    /\ UNCHANGED faults
    /\ IF Row(c) \notin rows
       THEN Abort(c, "error")
       ELSE /\ lock' = [lock EXCEPT ![Row(c)] = c]
            /\ version' = [version EXCEPT ![c] = balance[Row(c)]]
            /\ IF balance[Row(c)] < Amount(c)
               THEN /\ Goto(c, "abandoned")
                    /\ reply' = [reply EXCEPT ![c] = "insufficient"]
               ELSE Goto(c, "debit") /\ UNCHANGED reply
            /\ UNCHANGED <<req, tables, published, toppedUp>>

Debited(c) == balance[Row(c)] - Amount(c)

Debit_Autocommit(c) ==
    /\ pc[c] = "debit"
    /\ balance[Row(c)] >= Amount(c)
    /\ balance' = [balance EXCEPT ![Row(c)] = Debited(c)]
    /\ version' = [version EXCEPT ![c] = Debited(c)]
    /\ Goto(c, "insert")
    /\ UNCHANGED <<reply, req, rows, txs, deposits, lock, published, toppedUp, faults>>

\* UPDATE ... SET balance = balance - amount WHERE balance - locked >= amount;
\* no row updated is ErrInsufficientFunds, and this path does roll back.
Debit(c) ==
    /\ pc[c] = "debit"
    /\ RowFree(c, Row(c))
    /\ UNCHANGED faults
    /\ IF balance[Row(c)] < Amount(c)
       THEN Abort(c, "insufficient")
       ELSE /\ lock' = [lock EXCEPT ![Row(c)] = c]
            /\ version' = [version EXCEPT ![c] = Debited(c)]
            /\ Goto(c, "insert")
            /\ UNCHANGED <<reply, req, tables, published, toppedUp>>

\* The request's context ends after the handler returns: database/sql rolls the
\* abandoned transaction back.
ReleaseAbandoned_Background(c) == FALSE /\ pc[c] = "abandoned" /\ UNCHANGED vars

ReleaseAbandoned(c) ==
    /\ pc[c] = "abandoned"
    /\ Goto(c, "done")
    /\ lock' = Unlocked(c)
    /\ UNCHANGED <<reply, req, version, tables, published, toppedUp, faults>>

-----------------------------------------------------------------------------
(* CreditDeposit                                                           *)

\* FindByTxHash: a deposit already credited is answered as such.
PreCheckDeposit(c) ==
    /\ c \in CreditCalls /\ pc[c] = "idle"
    /\ IF \E d \in deposits : d.key = req[c].ref /\ d.credited
       THEN Answer(c, "already")
       ELSE Goto(c, "deposit") /\ UNCHANGED reply
    /\ UNCHANGED <<req, version, tables, lock, published, toppedUp, faults>>

\* INSERT INTO core.deposit_events ... ON CONFLICT DO NOTHING: no row returned
\* is ErrDepositAlreadyCredited.
CreateDeposit(c) ==
    /\ pc[c] = "deposit"
    /\ ~KeyInFlight(c)
    /\ UNCHANGED faults
    /\ IF KeyCommitted(req[c].ref)
       THEN Abort(c, "already")
       ELSE /\ Goto(c, "ensure")
            /\ UNCHANGED <<reply, req, version, tables, lock, published, toppedUp>>

\* INSERT INTO core.offchain_ledger ... ON CONFLICT DO NOTHING: an existing row
\* is left alone; a row another transaction is inserting is waited for.
EnsureExists(c) ==
    /\ pc[c] = "ensure"
    /\ Row(c) \in rows \/ RowFree(c, Row(c))
    /\ lock' = IF Row(c) \in rows THEN lock ELSE [lock EXCEPT ![Row(c)] = c]
    /\ Goto(c, "credit")
    /\ UNCHANGED <<reply, req, version, tables, published, toppedUp, faults>>

\* UPDATE ... SET balance = balance + amount.
Credit(c) ==
    /\ pc[c] = "credit"
    /\ RowFree(c, Row(c))
    /\ lock' = [lock EXCEPT ![Row(c)] = c]
    /\ version' = [version EXCEPT ![c] = balance[Row(c)] + Amount(c)]
    /\ Goto(c, "insert")
    /\ UNCHANGED <<reply, req, tables, published, toppedUp, faults>>

\* The deposit event gets credited_at and user_id.
MarkCredited(c) ==
    /\ pc[c] = "mark"
    /\ Goto(c, "commit")
    /\ UNCHANGED <<reply, req, version, tables, lock, published, toppedUp, faults>>

-----------------------------------------------------------------------------
(* Steps both calls end with                                               *)

InsertTx_NoUnique(c) ==
    /\ pc[c] = "insert"
    /\ Goto(c, IF c \in DebitCalls THEN "commit" ELSE "mark")
    /\ UNCHANGED <<reply, req, version, tables, lock, published, toppedUp, faults>>

InsertTx_PublishEarly(c) ==
    /\ pc[c] = "insert"
    /\ ~RefInFlight(c) /\ ~RefCommitted(RefOf(c))
    /\ Goto(c, IF c \in DebitCalls THEN "commit" ELSE "mark")
    /\ published' = published \cup {c}
    /\ UNCHANGED <<reply, req, version, tables, lock, toppedUp, faults>>

\* INSERT INTO core.transactions: a duplicate internal_ref is SQLSTATE 23505,
\* turned into transaction.ErrNotFound, and the transaction is rolled back.
InsertTx(c) ==
    /\ pc[c] = "insert"
    /\ ~RefInFlight(c)
    /\ UNCHANGED faults
    /\ IF RefCommitted(RefOf(c))
       THEN Abort(c, "duplicate")
       ELSE /\ Goto(c, IF c \in DebitCalls THEN "commit" ELSE "mark")
            /\ UNCHANGED <<reply, req, version, tables, lock, published, toppedUp>>

Install_NoEvent(c) ==
    /\ balance' = [balance EXCEPT ![Row(c)] = version[c]]
    /\ rows' = rows \cup {Row(c)}
    /\ txs' = txs \cup {TxOf(c)}
    /\ lock' = Unlocked(c)
    /\ UNCHANGED deposits

\* What a commit makes visible, in one step.
Install(c) ==
    /\ balance' = [balance EXCEPT ![Row(c)] = version[c]]
    /\ rows' = rows \cup {Row(c)}
    /\ txs' = txs \cup {TxOf(c)}
    /\ deposits' = IF c \in CreditCalls THEN deposits \cup {DepositOf(c)} ELSE deposits
    /\ lock' = Unlocked(c)

Commit(c) ==
    /\ pc[c] = "commit"
    /\ Install(c)
    /\ Goto(c, "publish")
    /\ UNCHANGED <<reply, req, version, published, toppedUp, faults>>

\* The event is published after the commit; an error of the publisher is
\* dropped and the call answers success all the same.
Publish(c) ==
    /\ pc[c] = "publish"
    /\ published' \in {published, published \cup {c}}
    /\ Answer(c, "ok")
    /\ UNCHANGED <<req, version, tables, lock, toppedUp, faults>>

-----------------------------------------------------------------------------
(* What goes wrong, and who else writes the rows                           *)

Fault == faults < MaxFaults /\ faults' = faults + 1

DbError_Swallowed(c) ==
    /\ pc[c] \in {"lock", "debit", "ensure", "credit", "insert", "mark", "commit"}
    /\ Fault
    /\ Abort(c, "ok")

\* A statement fails (lost connection, context cancelled because the client
\* went away or timed out): the error is returned and the transaction undone.
DbError(c) ==
    /\ pc[c] \in {"idle", "lock", "debit", "deposit", "ensure", "credit",
                  "insert", "mark", "commit"}
    /\ Fault
    /\ Abort(c, "error")

\* The server commits but its answer is lost: the call reports an error and
\* publishes nothing.
CommitAnswerLost(c) ==
    /\ pc[c] = "commit"
    /\ Fault
    /\ Install(c)
    /\ Answer(c, "error")
    /\ UNCHANGED <<req, version, published, toppedUp>>

Running(c) == pc[c] \notin {"idle", "done", "gone"}

\* The service dies: every open transaction is rolled back by the server when
\* its connection drops, and the calls in progress are never answered.
Crash ==
    /\ \E c \in Calls : Running(c)
    /\ Fault
    /\ pc' = [c \in Calls |-> IF Running(c) THEN "gone" ELSE pc[c]]
    /\ lock' = [r \in Rows |-> NoCall]
    /\ UNCHANGED <<reply, req, version, tables, published, toppedUp>>

AdminDeposit_NoLock(r, a) ==
    /\ toppedUp[r] + a <= MaxTopUp
    /\ balance' = [balance EXCEPT ![r] = balance[r] + a]
    /\ rows' = rows \cup {r}
    /\ toppedUp' = [toppedUp EXCEPT ![r] = toppedUp[r] + a]
    /\ UNCHANGED <<calls, txs, deposits, lock, published, faults>>

\* AdminService.deposit in the auth service upserts the same row in one
\* statement of its own, which waits for the row lock; no record is written.
AdminDeposit(r, a) ==
    /\ lock[r] = NoCall
    /\ toppedUp[r] + a <= MaxTopUp
    /\ balance' = [balance EXCEPT ![r] = balance[r] + a]
    /\ rows' = rows \cup {r}
    /\ toppedUp' = [toppedUp EXCEPT ![r] = toppedUp[r] + a]
    /\ UNCHANGED <<calls, txs, deposits, lock, published, faults>>

-----------------------------------------------------------------------------
Init ==
    /\ pc = [c \in Calls |-> "idle"]
    /\ reply = [c \in Calls |-> "none"]
    /\ req \in [Calls -> Requests(Tokens \cup DepositKeys)]
    /\ \A c \in Calls : req[c].ref \in IF c \in DebitCalls THEN Tokens ELSE DepositKeys
    /\ version = [c \in Calls |-> 0]
    /\ rows = OpenRows
    /\ balance = [r \in Rows |-> IF r \in OpenRows THEN Opening ELSE 0]
    /\ lock = [r \in Rows |-> NoCall]
    /\ txs = {}
    /\ deposits = {}
    /\ published = {}
    /\ toppedUp = [r \in Rows |-> 0]
    /\ faults = 0

\* The statements of one call, in its own time.
Serve(c) ==
    \/ PreCheckDebit(c)
    \/ FindForUpdate(c)
    \/ Debit(c)
    \/ ReleaseAbandoned(c)
    \/ PreCheckDeposit(c)
    \/ CreateDeposit(c)
    \/ EnsureExists(c)
    \/ Credit(c)
    \/ MarkCredited(c)
    \/ InsertTx(c)
    \/ Commit(c)
    \/ Publish(c)

Next ==
    \/ \E c \in Calls : Serve(c) \/ DbError(c) \/ CommitAnswerLost(c)
    \/ \E r \in Rows, a \in Amounts : AdminDeposit(r, a)
    \/ Crash

Spec == Init /\ [][Next]_vars

\* A goroutine that can run does run, and PostgreSQL grants a free lock.
FairSpec == Spec /\ \A c \in Calls : WF_vars(Serve(c))

-----------------------------------------------------------------------------
(* Properties                                                              *)

Labels == {"idle", "lock", "debit", "abandoned", "deposit", "ensure", "credit",
           "insert", "mark", "commit", "publish", "done", "gone"}

Answers == {"none", "ok", "already", "insufficient", "duplicate", "error"}

TxRecords ==
    [id : Calls, kind : {"PAYMENT", "DEPOSIT"},
     ref : Tokens \cup {DepositRef(key) : key \in DepositKeys},
     row : Rows, amount : Amounts]

DepositRecords ==
    [id : CreditCalls, key : DepositKeys, row : Rows, amount : Amounts,
     credited : {TRUE}]

\* Every variable has its type; that no committed balance and no row version
\* is ever negative (CHECK (balance >= 0)) is part of it.
TypeOK ==
    /\ pc \in [Calls -> Labels]
    /\ reply \in [Calls -> Answers]
    /\ req \in [Calls -> Requests(Tokens \cup DepositKeys)]
    /\ \A c \in DebitCalls : req[c].ref \in Tokens
    /\ \A c \in CreditCalls : req[c].ref \in DepositKeys
    /\ version \in [Calls -> Nat]
    /\ rows \subseteq Rows
    /\ balance \in [Rows -> Nat]
    /\ lock \in [Rows -> Calls \cup {NoCall}]
    /\ txs \subseteq TxRecords
    /\ deposits \subseteq DepositRecords
    /\ published \subseteq Calls
    /\ toppedUp \in [Rows -> Nat]
    /\ faults \in 0..MaxFaults

\* However many calls race with one payment reference or one deposit, the
\* reference is charged or credited at most once (service.go: "internal_ref").
UniqueRef == \A t, u \in txs : t.ref = u.ref => t = u

\* The records of a row.
Booked(kind, r) == {t \in txs : t.kind = kind /\ t.row = r}

\* Money is conserved: a row holds its opening balance, what administrators
\* added and its deposits, less its payments, at every commit and whatever fails.
Conservation ==
    \A r \in Rows :
        balance[r] = (IF r \in OpenRows THEN Opening ELSE 0) + toppedUp[r]
                       + Total(Booked("DEPOSIT", r)) - Total(Booked("PAYMENT", r))

\* A deposit event and its transaction record are written together or not at
\* all, agree on row and amount, and a deposit never stays uncredited.
DepositBookedOnce ==
    /\ \A d \in deposits :
         \E t \in txs : /\ t.id = d.id /\ t.ref = DepositRef(d.key)
                        /\ t.row = d.row /\ t.amount = d.amount
    /\ \A t \in txs : t.kind = "DEPOSIT" =>
         \E d \in deposits : d.id = t.id /\ DepositRef(d.key) = t.ref
    /\ \A d, e \in deposits : d.key = e.key => d = e

\* A transaction that has changed its row but not committed has computed the
\* new balance from the balance that is still committed: no update is lost
\* between FOR UPDATE and COMMIT, whoever else writes the row.
NoLostUpdate ==
    \A c \in Calls :
        pc[c] \in {"insert", "mark", "commit"} =>
            version[c] = IF c \in DebitCalls THEN balance[Row(c)] - Amount(c)
                                             ELSE balance[Row(c)] + Amount(c)

\* d holds what the next statement of c waits for.
WaitsFor(c, d) ==
    \/ /\ \/ pc[c] = "lock" /\ Row(c) \in rows
          \/ pc[c] = "ensure" /\ Row(c) \notin rows
          \/ pc[c] \in {"debit", "credit"}
       /\ Excludes(d, c, Row(c))
    \/ /\ pc[c] = "insert"
       /\ d # c /\ HoldsRef(d) /\ RefOf(d) = RefOf(c)
    \/ /\ pc[c] = "deposit"
       /\ d # c /\ HoldsKey(d) /\ req[d].ref = req[c].ref

\* Payments lock row then reference, deposits lock key, row, reference: there
\* is never a set of calls in which everyone waits for someone of the set.
NoWaitCycle ==
    \A S \in SUBSET Calls :
        S # {} => \E c \in S : \A d \in S : ~WaitsFor(c, d)

\* What EveryCallAnswers rests on: while calls are under way, abandoned
\* transactions included, one of them waits for nobody, neither for another
\* under way nor for one that has ended.
SomeCallMoves ==
    (\E c \in Calls : Running(c)) =>
        \E c \in Calls : Running(c) /\ \A d \in Calls : ~WaitsFor(c, d)

\* Answers tell the truth about the books: success means this call's record is
\* there, "already processed" that the reference is booked by another call, a
\* refusal that this call charged nothing.  ("error" promises neither.)
AnswerSound ==
    \A c \in Calls :
        /\ reply[c] = "ok" => TxOf(c) \in txs
        /\ reply[c] = "already" => \E t \in txs : t.ref = RefOf(c) /\ t.id # c
        /\ reply[c] \in {"insufficient", "duplicate"} => \A t \in txs : t.id # c

\* ledger.debited and ledger.credited are never seen for a transaction that
\* does not exist (yet): they are published after the commit.
PublishedAfterCommit == \A c \in published : TxOf(c) \in txs

\* A balance moves only in the commit that also writes the record explaining
\* the move, or by an administrator's deposit, which leaves none.
MoveIsRecorded ==
    \A r \in Rows :
        balance'[r] # balance[r] =>
            \/ toppedUp'[r] - toppedUp[r] = balance'[r] - balance[r]
            \/ \E t \in txs' \ txs :
                 /\ t.row = r
                 /\ balance'[r] - balance[r] =
                      IF t.kind = "PAYMENT" THEN -t.amount ELSE t.amount

MovesAreRecorded == [][MoveIsRecorded]_vars

\* The whole of it: the concurrent ledger implements the atomic one.
Atomic == INSTANCE AtomicLedger
            WITH Ids <- Calls,
                 OpeningBalance <- [r \in Rows |-> IF r \in OpenRows THEN Opening ELSE 0]

ImplementsAtomicLedger == Atomic!Spec

\* Every call that has begun answers, unless the service crashes under it: no
\* lock wait is for ever, not even behind an abandoned transaction.
EveryCallAnswers ==
    \A c \in Calls : Running(c) ~> (pc[c] \in {"abandoned", "done", "gone"})

\* Every row lock is given back again and again, those of transactions left
\* open by an insufficient balance included.
RowsComeFree == \A r \in Rows : []<>(lock[r] = NoCall)

-----------------------------------------------------------------------------
(* The inductive invariant behind the properties                           *)

\* Debits and credits stay on their own paths.
OnOwnPath ==
    \A c \in Calls :
        /\ pc[c] \in {"lock", "debit", "abandoned"} => c \in DebitCalls
        /\ pc[c] \in {"deposit", "ensure", "credit", "mark"} => c \in CreditCalls

\* Only the call that asks for a row locks it, only between its row statement
\* and the end of its transaction, and there it does hold it.
LockDiscipline ==
    /\ \A c \in Calls :
         pc[c] \in {"debit", "abandoned", "insert", "mark", "commit"} => lock[Row(c)] = c
    /\ \A r \in Rows : lock[r] # NoCall =>
         /\ Row(lock[r]) = r
         /\ pc[lock[r]] \in {"debit", "abandoned", "credit", "insert", "mark", "commit"}

\* An uncommitted reference is nobody else's, committed or not.
RefReserved ==
    /\ \A c \in Calls : HoldsRef(c) => ~RefCommitted(RefOf(c))
    /\ \A c, d \in Calls :
         (HoldsRef(c) /\ HoldsRef(d) /\ RefOf(c) = RefOf(d)) => c = d

\* The same for an uncommitted deposit event.
KeyReserved ==
    /\ \A c \in Calls : HoldsKey(c) => ~KeyCommitted(req[c].ref)
    /\ \A c, d \in Calls :
         (HoldsKey(c) /\ HoldsKey(d) /\ req[c].ref = req[d].ref) => c = d

\* A record belongs to a call that has committed; a call that is about to
\* publish has its record; an answer is given at the end.
CommittedCalls ==
    /\ \A t \in txs : pc[t.id] \in {"publish", "done", "gone"}
    /\ \A c \in Calls : pc[c] = "publish" => TxOf(c) \in txs
    /\ \A c \in Calls : reply[c] # "none" => pc[c] \in {"abandoned", "done", "gone"}

IInv ==
    /\ TypeOK
    /\ OnOwnPath
    /\ LockDiscipline
    /\ NoLostUpdate
    /\ RefReserved
    /\ UniqueRef
    /\ KeyReserved
    /\ DepositBookedOnce
    /\ CommittedCalls
    /\ AnswerSound
    /\ PublishedAfterCommit
=============================================================================
