--------------------------- MODULE DepositConsumer ---------------------------
(***************************************************************************)
(* How detected deposits reach the books: the chain watchers append to the *)
(* topic deposit.detected, and the deposit consumers of the core instances *)
(* read it, resolve the address to a user and credit the ledger.           *)
(*                                                                         *)
(* Crediting is one step of AtomicLedger (which Ledger implements), taken  *)
(* whole or not at all; the consumer may be told that it failed although   *)
(* it was committed.                                                       *)
(*                                                                         *)
(*   log       the partition: a sequence of messages                       *)
(*   balance, txs, deposits   the books, see AtomicLedger                  *)
(*   failed    history: the offsets whose processing returned an error     *)
(*   faults    errors, crashes and rebalances so far, at most MaxFaults    *)
(***************************************************************************)
EXTENDS KafkaGroup, Sequences, Sums

CONSTANTS Rows,        \* (user, currency) pairs; a wallet address stands for one
          Outsider,    \* any address that is no wallet of the platform
          DepositKeys, \* (chain_tx_hash, network) pairs
          Amounts,
          MaxLog,      \* bound on the length of the log
          MaxFaults    \* bound on errors, crashes and rebalances

ASSUME DepositAssumption ==
    /\ Outsider \notin Rows
    /\ Amounts \subseteq Nat \ {0}
    /\ MaxLog \in Nat
    /\ MaxFaults \in Nat

VARIABLES log, balance, txs, deposits, failed, faults

books == <<balance, txs, deposits>>
vars == <<group, log, books, failed, faults>>

Books == INSTANCE AtomicLedger
           WITH Ids <- 1..MaxLog, Tokens <- {},
                OpeningBalance <- [r \in Rows |-> 0]

-----------------------------------------------------------------------------
(* Messages                                                                *)

\* "malformed" stands for everything that does not parse and for amounts that
\* are not positive; "dust" is a positive amount below 10^-8, which the column
\* NUMERIC(30,8) rounds to the 0 its CHECK forbids.
Kinds == {"deposit", "dust", "malformed"}

\* (A malformed message names nobody, and dust for an outsider is skipped like
\* any deposit for one.)
Messages ==
    {m \in [kind : Kinds, key : DepositKeys, to : Rows \cup {Outsider}, amount : Amounts] :
       /\ m.kind = "malformed" => m.to = Outsider
       /\ m.kind = "dust" => m.to \in Rows}

Msg(c) == log[held[c]]

\* processMessage returns nil without calling CreditDeposit.
Skipped(m) == m.kind = "malformed" \/ m.to = Outsider

Booked(key) == \E d \in deposits : d.key = key

\* There is nothing left to do for a message.
Settled(o) == Skipped(log[o]) \/ Booked(log[o].key)

-----------------------------------------------------------------------------
(* Steps                                                                   *)

\* A chain watcher publishes a deposit.
Detect(m) ==
    /\ Len(log) < MaxLog
    /\ log' = Append(log, m)
    /\ UNCHANGED <<group, books, failed, faults>>

Fault == faults < MaxFaults /\ faults' = faults + 1

Join_Latest(c) ==
    /\ owner = NoConsumer
    /\ owner' = c
    /\ position' = [position EXCEPT ![c] = IF committed = 1 THEN Len(log) + 1 ELSE committed]
    /\ UNCHANGED <<committed, held, stage, log, books, failed, faults>>

\* The group's first assignment, or the one after the owner has left.
Join(c) ==
    /\ owner = NoConsumer
    /\ Assign(c)
    /\ UNCHANGED <<log, books, failed, faults>>

\* The partition is taken from a consumer that still runs.
Rebalance(c) ==
    /\ owner # NoConsumer
    /\ Assign(c)
    /\ Fault
    /\ UNCHANGED <<log, books, failed>>

Read_AutoCommit(c) ==
    /\ stage[c] = "poll" /\ owner = c
    /\ position[c] <= Len(log)
    /\ held' = [held EXCEPT ![c] = position[c]]
    /\ position' = [position EXCEPT ![c] = position[c] + 1]
    /\ committed' = position[c] + 1
    /\ stage' = [stage EXCEPT ![c] = "process"]
    /\ UNCHANGED <<owner, log, books, failed, faults>>

Read(c) ==
    /\ ReadMessage(c, Len(log))
    /\ UNCHANGED <<log, books, failed, faults>>

\* CreditDeposit for the message c holds, if its key is not booked yet.
CreditHeld(c) ==
    /\ Msg(c).kind = "deposit"
    /\ Books!Deposit(held[c], Msg(c).to, Msg(c).key, Msg(c).amount)

\* processMessage returns nil: skipped, credited before, or credited now.
Process(c) ==
    /\ stage[c] = "process"
    /\ IF Settled(held[c]) THEN UNCHANGED books ELSE CreditHeld(c)
    /\ ToCommit(c)
    /\ UNCHANGED <<log, failed, faults>>

ProcessFails_Retry(c) ==
    /\ stage[c] = "process"
    /\ Msg(c).kind = "dust" /\ ~Settled(held[c])
    /\ UNCHANGED vars

\* processMessage returns an error: the database fails before or after the
\* commit, or refuses dust every time.  The loop goes on with the next message.
ProcessFails(c) ==
    /\ stage[c] = "process"
    /\ Msg(c).kind # "malformed"
    /\ \/ /\ Msg(c).kind = "dust" /\ ~Settled(held[c])
          /\ UNCHANGED <<books, faults>>
       \/ Fault /\ UNCHANGED books
       \/ Fault /\ ~Settled(held[c]) /\ CreditHeld(c)
    /\ failed' = failed \cup {held[c]}
    /\ GiveUp(c)
    /\ UNCHANGED log

Commit(c) ==
    /\ CommitMessage(c)
    /\ UNCHANGED <<log, books, failed, faults>>

CommitLost(c) ==
    /\ CommitFails(c)
    /\ Fault
    /\ UNCHANGED <<log, books, failed>>

\* The core instance stops or dies with the message it holds.
Stop(c) ==
    /\ owner = c \/ stage[c] # "poll"
    /\ Leave(c)
    /\ Fault
    /\ UNCHANGED <<log, books, failed>>

-----------------------------------------------------------------------------
Init ==
    /\ GroupInit
    /\ Books!Init
    /\ log = <<>>
    /\ failed = {}
    /\ faults = 0

\* One turn of a consumer's loop.
Loop(c) == Read(c) \/ Process(c) \/ ProcessFails(c) \/ Commit(c)

Next ==
    \/ \E m \in Messages : Detect(m)
    \/ \E c \in Consumers :
         Loop(c) \/ Join(c) \/ Rebalance(c) \/ CommitLost(c) \/ Stop(c)

Spec == Init /\ [][Next]_vars

\* The loop keeps turning, and a partition nobody owns is assigned to somebody.
FairSpec ==
    /\ Spec
    /\ \A c \in Consumers : WF_vars(Loop(c))
    /\ WF_vars(\E c \in Consumers : Join(c))

-----------------------------------------------------------------------------
(* Properties                                                              *)

TypeOK ==
    /\ GroupTypeOK
    /\ log \in Seq(Messages) /\ Len(log) <= MaxLog
    /\ balance \in [Rows -> Nat]
    /\ failed \subseteq 1..Len(log)
    /\ faults \in 0..MaxFaults
    /\ \A c \in Consumers :
         IF stage[c] = "poll" THEN held[c] = 0 ELSE held[c] \in 1..Len(log)

\* Nothing is passed over in silence: whatever lies behind the committed
\* offset is dealt with, or its processing did return an error (and was
\* logged), through any rebalance, crash and lost commit.
NothingSkipped ==
    \A o \in 1..(committed - 1) : Settled(o) \/ o \in failed

Covered(o) == Settled(o) \/ o \in failed

\* Deposits are credited in the order of the partition: one is booked only when
\* everything before it has been dealt with or has failed, also by a consumer
\* that has lost the partition and finishes what it holds beside the new owner.
CreditedInOrder ==
    \A d \in deposits : \A o \in 1..(d.id - 1) : Covered(o)

\* The owner waits at the end of the log.
CaughtUp(c) == owner = c /\ stage[c] = "poll" /\ position[c] > Len(log)

\* The messages that pay a wallet, and those of a set that pay row r.
Payable == {o \in 1..Len(log) : log[o].kind = "deposit" /\ log[o].to # Outsider}

SentTo(r, offsets) ==
    {[offset |-> o, amount |-> log[o].amount] : o \in {p \in offsets : log[p].to = r}}

\* Exactly once, from the log to the balances: at any time users hold the sum
\* of the messages credited, one for each chain transaction; and when the owner
\* has caught up none is missing but those whose processing returned an error.
ExactlyOnce ==
    \E credited \in SUBSET Payable :
        /\ \A o, p \in credited : log[o].key = log[p].key => o = p
        /\ \A r \in Rows : balance[r] = Total(SentTo(r, credited))
        /\ (\E c \in Consumers : CaughtUp(c)) =>
             \A o \in Payable \ failed : \E p \in credited : log[p].key = log[o].key

\* What is booked is what the log says, to the wallet's owner, once per key.
BookedFromLog ==
    \A d \in deposits :
        /\ d.id \in 1..Len(log) /\ d.row \in Rows
        /\ log[d.id] = [kind |-> "deposit", key |-> d.key, to |-> d.row,
                        amount |-> d.amount]
        /\ \A e \in deposits : d.key = e.key => d = e

\* Every message of the log is dealt with or fails: no poisonous one, no lost
\* commit and no change of owner stops the partition for good.
EveryMessageAttempted ==
    \A o \in 1..MaxLog :
        o <= Len(log) ~> (o <= Len(log) /\ (Settled(o) \/ o \in failed))

\* Comment in consumer.go: a failed message is not committed, which guarantees
\* that it is processed again.  So the committed offset may not move past it.
FailureIsReprocessed ==
    \A o \in failed : Settled(o) \/ committed <= o

-----------------------------------------------------------------------------
(* The inductive invariant behind NothingSkipped                           *)

\* The owner's position has passed nothing but what is covered and what it
\* holds; a message ready to be committed is settled.
PositionsCovered ==
    \A c \in Consumers :
        /\ position[c] <= Len(log) + 1
        /\ owner = c => \A o \in 1..(position[c] - 1) : Covered(o) \/ o = held[c]
        /\ stage[c] # "poll" => \A o \in 1..(held[c] - 1) : Covered(o)
        /\ stage[c] = "commit" => Settled(held[c])

\* What EveryMessageAttempted rests on: an owner that waits at the end of the log
\* has left nothing behind.
IdleMeansAttempted ==
    \A c \in Consumers : CaughtUp(c) => \A o \in 1..Len(log) : Covered(o)

IInv ==
    /\ TypeOK
    /\ committed <= Len(log) + 1
    /\ NothingSkipped
    /\ PositionsCovered
    /\ BookedFromLog
    /\ CreditedInOrder
=============================================================================
