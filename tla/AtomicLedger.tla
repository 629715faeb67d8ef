---------------------------- MODULE AtomicLedger ----------------------------
(***************************************************************************)
(* What the core ledger promises its callers: a payment, a deposit and an  *)
(* administrator's top-up are each ONE step on the books.  A payment is    *)
(* charged at most once per payment reference and only against a balance   *)
(* that covers it; a deposit is credited at most once per (chain hash,     *)
(* network).  There are no calls, locks, crashes or half-done transactions *)
(* here: module Ledger, which has them, is shown to implement this one.    *)
(*                                                                         *)
(*   balance   core.offchain_ledger.balance of every (user, currency)      *)
(*   txs       core.transactions, a set of records                         *)
(*   deposits  core.deposit_events, a set of records                       *)
(***************************************************************************)
EXTENDS Sums

CONSTANTS Ids,           \* identities of transaction records
          Rows,          \* (user, currency) pairs
          Tokens,        \* payment references
          DepositKeys,   \* (chain_tx_hash, network) pairs
          Amounts,       \* amounts that can be paid or deposited
          OpeningBalance \* what every row holds at the start

VARIABLES balance, txs, deposits

\* The internal_ref under which a deposit is booked.
DepositRef(key) == <<"deposit", key>>

books == <<balance, txs, deposits>>

Init ==
    /\ balance = OpeningBalance
    /\ txs = {}
    /\ deposits = {}

Pay(id, row, token, amount) ==
    /\ \A t \in txs : t.ref # token
    /\ balance[row] >= amount
    /\ balance' = [balance EXCEPT ![row] = balance[row] - amount]
    /\ txs' = txs \cup {[id |-> id, kind |-> "PAYMENT", ref |-> token,
                         row |-> row, amount |-> amount]}
    /\ UNCHANGED deposits

Deposit(id, row, key, amount) ==
    /\ \A d \in deposits : d.key # key
    /\ balance' = [balance EXCEPT ![row] = balance[row] + amount]
    /\ txs' = txs \cup {[id |-> id, kind |-> "DEPOSIT", ref |-> DepositRef(key),
                         row |-> row, amount |-> amount]}
    /\ deposits' = deposits \cup {[id |-> id, key |-> key, row |-> row,
                                   amount |-> amount, credited |-> TRUE]}

TopUp(row, amount) ==
    /\ balance' = [balance EXCEPT ![row] = balance[row] + amount]
    /\ UNCHANGED <<txs, deposits>>

PayStep ==
    \E id \in Ids, row \in Rows, token \in Tokens, amount \in Amounts :
        Pay(id, row, token, amount)

DepositStep ==
    \E id \in Ids, row \in Rows, key \in DepositKeys, amount \in Amounts :
        Deposit(id, row, key, amount)

TopUpStep == \E row \in Rows, amount \in Amounts : TopUp(row, amount)

Next == PayStep \/ DepositStep \/ TopUpStep

Spec == Init /\ [][Next]_books

\* The books as seen by a caller that only deposits, or only pays.
DepositsOnly == Init /\ [][DepositStep]_books
PaymentsOnly == Init /\ [][PayStep]_books

\* What was credited to a row, and what was charged to it.
CreditsOf(row) == {d \in deposits : d.row = row}
ChargesOf(row) == {t \in txs : t.kind = "PAYMENT" /\ t.row = row}

\* Every balance is accounted for, record by record, as long as no
\* administrator tops a row up, which leaves no record.
CreditsAddUp ==
    \A row \in Rows : balance[row] = OpeningBalance[row] + Total(CreditsOf(row))

ChargesAddUp ==
    \A row \in Rows : balance[row] = OpeningBalance[row] - Total(ChargesOf(row))
=============================================================================
