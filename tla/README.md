# TLA+ specifications of crypto2krw

crypto2krw lets a user pay a Korean merchant in won out of a crypto balance.
This directory holds TLA+ modules for the parts of the system where money or
identity can go wrong, the TLC models that check them, and TLAPS proofs.

Paths are relative to the repository's root. Section 1 describes the system,
2 the modules, 3 the runs and findings, 4 the bounds, 5 the fairness, 6 the
proofs, 7 the plan and what is not modelled.

    tlc -config Ledger_pay.cfg MCLedger       # a run: module and cfg of section 3
    tlapm LedgerProofs.tla                    # a proof module

## 1. The system

### Components

| Component | Code | State it keeps | Operations |
|---|---|---|---|
| core: ledger | `services/core/internal/domain/ledger`, `infrastructure/postgres/{ledger,transaction}_repo.go` | PostgreSQL: `offchain_ledger` (balance per user and currency), `transactions` (unique `internal_ref`), `deposit_events` (unique chain hash and network) | `DebitForPayment`, `CreditDeposit`, `GetUserBalances` |
| core: deposit consumer | `infrastructure/kafka/consumer.go` | consumer position, committed offset of `deposit.detected` | `Run`, `processMessage` |
| core: wallets | `domain/wallet`, `infrastructure/kafka/user_consumer.go`, `wallet_repo.go` | `user_wallets` (unique user/currency and address/currency) | `AllocateDepositAddresses`, `ResolveAddressToUser`, `SetPaymentPriority` |
| core: accounts | `domain/account`, `account_repo.go` | `users`, `merchants` | registration, suspension, KYC; wired to no transport |
| payment | `services/payment` | Redis: QR sessions with a TTL | `createQR`, `getQR`, `payQR` |
| oracle | `services/oracle` | Redis: rate per currency, TTL 60 s; the feed's mode and failure counter | WebSocket feed, REST polling, `GetRate`, `GetAll` |
| chain watchers | `services/chain` | Redis: watched addresses, seen keys (30 days), last signature; the last block in memory | one poller per chain, registry subscriber, publisher |
| auth | `services/channel/auth` | `users`, `merchants`, `refresh_tokens` | `register`, `login`, `refresh`, `logout`, administrator's deposit, priorities |
| gateway | `services/channel/gateway` | none | verifies the JWT, forwards |
| MerchantWeb POS | `apps/MerchantWeb` | the screen shown, the customer scanned, calls and timers under way | scan a customer, create a QR session, pay, reset, log out |
| UserApp | `apps/UserApp` | the token pair and the account shown | requests with refresh and retry, login, logout, polling for payments |

### Interactions

A chain watcher publishes `deposit.detected`; the deposit
consumer resolves the address and calls `CreditDeposit`. The POS or the app
calls payment over the gateway; payment reads a rate from the oracle and calls
core's `/internal/debit`, whose `payment_ref` is the session token. Auth
publishes `user.registered`; core allocates wallets and publishes
`wallet.created`; the chain registry starts watching the addresses.

### What is hard, and what correct means

- **Core ledger.** Payments and deposits are database transactions of several
  statements, run by many goroutines and instances at once, beside an
  administrator's tool that writes the same rows from another service. The
  idempotency check is outside the transaction; the unique keys of PostgreSQL
  are the last line. Statements fail, a commit's answer can be lost, the
  service dies, and the early return for an insufficient balance leaves its
  transaction open until the request's context ends. *Correct*: each payment
  token and each deposit is booked at most once; no update is lost; a balance
  moves only together with the record that explains it; answers are true; the
  lock orders of the two operations never deadlock; every lock comes free.
- **Deposit consumer.** At-least-once delivery in a consumer group: messages
  come twice, owners change in the middle of a message, commits are lost.
  *Correct*: nothing is passed over in silence, and redelivery never credits
  twice.
- **Payment.** `payQR` reads the session, the rate and core in turn, with
  other requests in between; the debit can time out and happen all the same.
  *Correct*: a token is charged at most once over all retries and payers, a
  completed session is paid, and what the payer is told is true.
- **Wallet provisioning.** Four processes and three topics between a
  registration and a watched address; two core instances may allocate for one
  user at once. *Correct*: the address that is announced (and shown, and
  watched) is the one core resolves, and every user gets there.
- **Oracle.** Rates live 60 s; polls come every 30 s plus their own duration;
  the WebSocket side may hang for a read deadline. *Correct*: no stale rate is
  served, steady polling leaves no gap, and failures heal.
- **Chain watchers.** A pull of an append-only but, on Ethereum, revisable
  log, with positions and seen keys in Redis that are written before the work
  is done and expire. *Correct*: a transfer is published once, only when it is
  final, and none is missed without a failure.
- **Auth, gateway, UserApp.** A refresh replaces the user's refresh tokens by a
  DELETE and an INSERT outside a transaction; UserApp sends requests side by
  side, and each one that meets a 401 refreshes and tries again; a logout
  goes on whether or not auth answered. *Correct*: refreshes at once do not log
  a user out, a refusal has a cause, the tokens on a device are those
  of the account it shows, and no request goes round in circles.
- **POS.** Every attempt to pay opens a new session, so core cannot tell a retry
  from another sale; answers and timers meet a screen that may have moved on.
  *Correct*: a customer scanned once is charged once, what is shown as paid or
  refused is so in core's books, no timer wipes a sale, and the terminal comes
  back from every call.

## 2. The modules

| Module | Models | Built on |
|---|---|---|
| `Sums` | sums of amounts as cardinalities, so that they need no recursion and can be proved about | |
| `AtomicLedger` | abstract specification: what core's ledger promises, one step per payment, deposit and top-up | extends `Sums` |
| `Ledger` | `DebitForPayment`, `CreditDeposit` and `AdminService.deposit`, one action per SQL statement | refines `AtomicLedger` |
| `KafkaGroup` | the consume loop shared by core's consumers, and the broker's assignment | |
| `DepositConsumer` | `Consumer.Run`/`processMessage` on `deposit.detected`; crediting is `AtomicLedger`'s step | extends `KafkaGroup`, uses `AtomicLedger` |
| `Payment` | payment's handlers and sessions, the oracle's rate, core's `debitHandler` | uses `AtomicLedger` |
| `WalletProvisioning` | auth's `register`, core's `UserConsumer` and `AllocateDepositAddresses`, the chain registry | extends `KafkaGroup` |
| `OracleFeed` | `RunUpbit`, `runRestPolling`, `connectAndConsume`, the rate store | |
| `ChainWatcher` | the Solana, Ethereum and Tron watchers, the seen keys, the publisher, beside the growing chain | |
| `AuthTokens` | auth's `login`, `refresh`, `logout` on `refresh_tokens`, the gateway's check, UserApp's requests, token store and restarts | |
| `PosTerminal` | `POSPage` of MerchantWeb: screens, `handlePay`, timers, logout and reload, lost answers | extends and refines `Payment` |
| `MC...` | values of the constants for TLC | the module of that name |
| `...Proofs` | theorems and proofs | the module of that name; `PaymentProofs` holds those of `PosTerminal` too |

`AtomicLedger` is the joint between the modules: `Ledger` shows that core keeps
its promise under concurrency, and `DepositConsumer` and `Payment` use the
promise in place of the statements, so each can be checked alone. That their
steps on the books are steps of `AtomicLedger` is therefore no result about them;
what they show is what becomes of messages, attempts and answers around it. In
`Payment` only core's pre-check of the reference is apart from the atomic
step, because another attempt's debit may come between. `PosTerminal` sits on
`Payment` in turn: its calls start Payment's actions, and a terminal's behaviour is
shown to be one of `Payment`.

The operators named `X_Something` are not part of the models: each is `X` with a
plausible programming error, used to see that a property notices it.

### State and actions

- **`Ledger`.** `rows`/`balance`/`lock` are `core.offchain_ledger` with its row
  locks (for a row that does not exist, `lock` is the transaction inserting it);
  `txs` and `deposits` are the committed `core.transactions` and
  `core.deposit_events`. A call's `pc` names its next statement, `version` is
  the row version of its transaction, invisible to others until `Commit`.
  `FindForUpdate` waits for the lock and reads; `Debit`, `EnsureExists`,
  `Credit` write; `CreateDeposit` and `InsertTx` wait for, and then collide
  with, an equal key; `ReleaseAbandoned` is the end of the context of a call
  that returned without rolling back. `DbError` (any statement),
  `CommitAnswerLost` and `Crash` are the faults. `locked_balance` is left out:
  no statement in the repository changes it from 0. Amounts are whole numbers;
  the code's decimals are exact.
- **`KafkaGroup`, `DepositConsumer`, `WalletProvisioning`.** Offsets start at 1.
  `Assign` moves the partition to a consumer, which resumes at `committed`; the
  old owner is *not* interrupted, finishes its message and commits (auto commit
  is off and the code has no rebalance callback). That late commit may be refused,
  or accepted if the consumer has joined the group again, and then moves the
  committed offset, backwards too. A message that does not parse,
  pays nothing or names an unknown address is skipped; "dust" parses and fails
  in the database each time. In `WalletProvisioning` an address is told apart
  by the consumer that generated it. `Register` is auth's INSERT and publish
  in one step, with the failed publish (a user without event) as an
  alternative; nobody else sees the row between the two.
- **`Payment`.** An attempt is one `payQR` request: read session, read rate,
  send debit, core's two steps, take or miss the answer, complete the session.
  Completion reads and overwrites the Redis value without a guard, as
  `store.go` does. Sessions expire at any moment, rates are chosen anew at each
  read.
- **`OracleFeed`.** A `Tick` is one unit of time (5 s in the run); a timer that
  has run out must be handled before the next. Redis calls take no time.
- **`ChainWatcher`.** A block's height names its only transaction of interest.
  The three watchers share nothing (Redis keys carry the network), so a
  behaviour has one of them, chosen in `Init`. `Mark` is `SET NX`, `Publish` is
  the rest of the transfer's handling; a poll is one step, in which Solana
  stores its newest signature before anything of the batch is looked at.
  Failed transactions, which are passed over, are not on the chain of the
  model; Solana's and Tron's answers are taken as final (the code asks Solana
  for finalized ones and asks nothing of Tron).
- **`AuthTokens`.** A pair (access and refresh token) is named by the order of
  signing and its user; `stale` and `dead` say up to which pair access and
  refresh tokens have expired. `ended` says up to which pair a user's session
  was ended by a logout, or by a refresh that failed after its DELETE. A request
  is one `APIClient.request`, followed through the gateway's check, a refresh
  (`select`, `delete`, `sign`, `insert`, `answer`: auth's statements) and the
  second try. `adrift` are requests whose client has timed out or was killed
  while the server goes on. `refresh` looks for *any* live row of the user (the
  rows hold hashes it does not compare), as `auth.service.ts` does. The
  gateway's verification and the one of auth's own guard, which use the same
  secret, are one step.
- **`PosTerminal`.** An attempt is one `handlePay`, with a session token of its
  own. `call` is what the terminal knows of it, `pc`, `core`, `txs` of `Payment`
  what really became of it; the two meet in `CreateAnswered`, `PayAnswered` and
  `ConnectionLost`. The pay button is disabled during a call and the Enter key
  is not: calls begun by Enter during another are in `overlap`. `Leave` is a
  logout, which unmounts the page while its calls go on, or a reload, which ends
  them.

## 3. The runs

| Run | Module, cfg | What it shows |
|---|---|---|
| `ledger_pay` | `MCLedger`, `Ledger_pay` | Two payments (same or different token), a deposit and an administrator on one row, one fault: money is conserved, no double charge, no lost update, true answers; every call answers and every lock comes free |
| `ledger_deposit` | `MCLedger`, `Ledger_deposit` | Two deposits with equal or different keys and two payments of one token on an existing and a new row, one fault: `IInv`, atomic and unique booking, no wait cycle over keys, rows and references, refinement of `AtomicLedger` |
| `deposit_consumer` | `MCDepositConsumer`, `DepositConsumer` | Two instances, three messages, two errors, crashes, lost commits or rebalances: nothing behind the committed offset was passed over in silence, credits follow the log's order, balances are the sum of the messages credited, each chain transaction once and none missing once an owner has caught up, every message is attempted |
| `payment` | `MCPayment`, `Payment` | Three requests of two payers on two tokens, at changing rates: at most one attempt per token is charged, its own amount and its own payer; completed means paid, true answers, settled sessions |
| `provisioning` | `MCWalletProvisioning`, `Provisioning` | Two users, two currencies, two instances, one fault and one rebalance: announced is stored, stored is final, provisioned is complete, everybody whom the fault did not hit ends up watched |
| `oracle` | `MCOracleFeed`, `Oracle` | The code's own timeouts, two faults: freshness, no gap, recovery |
| `chain_watcher` | `MCChainWatcher`, `ChainWatcher` | Each watcher, two addresses joining at any time, full pages, reorganisations, expiring keys, one error or restart: published once, final, nothing missed that was mined after the failure |
| `tokens` | `MCAuthTokens`, `Tokens` | Two devices, two users, three requests, two of them side by side, tokens that expire, two errors, time-outs or restarts: sessions survive concurrent refreshes, refusals have a cause, devices hold their account's tokens, every request ends |
| `pos` | `MCPosTerminal`, `Pos` | Two calls of two customers and two scans over the payment service, with the Enter key, late debits, lost connections, crashes, logouts and reloads: one charge per scan, true screens, no sale wiped, a terminal that comes free |

Three further runs each check one statement of the repository's own comments or
documents, and find it violated by the code:

| Run | Statement | What happens |
|---|---|---|
| `deposit_consumer_retry` | `consumer.go:86`: a failed message is not committed, so it is processed again | the loop goes on, and the commit behind the next message covers the failed one; it is never read again |
| `payment_payer` | `docs/02_ARCHITECTURE.md:37-38`: a session is completed when the paying user's ledger was debited | core answers a second payer with the first one's transaction; the session is completed in the name of the payer who was not charged |
| `provisioning_retry` | `wallet/service.go:69`: a `wallet.created` that could not be published is recovered by the Kafka retry | the retry finds the stored wallet and passes on without publishing; the address is never watched |

Further disagreements between the code and what is said of it, which the models
show and no run is spent on:

- `transaction_repo.go:40` says that a duplicate `internal_ref` is handled above
  as already processed, and `main.go:189` that it answers 200. That is what the
  pre-check does; a call that passes the pre-check and loses the race on the
  unique key gets a wrapped `ErrNotFound`, and `debitHandler` answers 500 for a
  payment that is booked (`InsertTx` of `Ledger`, the last alternative of
  `CoreDebit` in `Payment`).
- `upbit.go:37` promises REST polling after three failures in a row. `wsFails`
  is never reset while the process lives (`upbit.go:51`), so any three
  disconnects count (`Disconnect` of `OracleFeed`).
- `service.go:163` calls the ledger event at-least-once; the publisher's error is
  dropped after the commit (`Publish` of `Ledger`).
- `AuthManager.swift:86` logs out locally even when the request fails. A refresh
  under way then stores its pair afterwards, and the tokens of the account that
  was left are back (`overtaken` of `AuthTokens`; `AccountOwnsTokens` excepts
  those devices). A refresh that meets another one between DELETE and INSERT is
  answered 401 although its session is good (the last cause of
  `RefusedForCause`).
- The Enter key of the POS charges again while a call is under way (`overlap` of
  `PosTerminal`, excepted in `OneChargePerScan`), also from the open settings sheet.
  When both calls succeed, the second timer overwrites the first in `autoReset`;
  a reset clears only the second, and the first fires up to five seconds later into
  the next sale and wipes it (excepted in `NoSaleIsWiped`). With the run's two
  calls any overlap leaves nothing of these two properties to check: they say that
  nothing *but* overlapping calls does this.

## 4. Bounds

Calls, attempts and registrations are each made once; the chain and the logs
end. The bounds are `MaxFaults` (errors, crashes, lost answers), `MaxTopUp`
(what an administrator adds), `MaxLog`, `MaxRebalances`, and in `ChainWatcher`
`MaxHeight`, `MaxPaying`, `MaxJoin` and `MaxGrowth`; `MaxAtOnce`, `MaxRequests` and
`MaxExpiries` in `AuthTokens`; `MaxScans` in `PosTerminal`.

- *Ledger*: two calls are enough for every race on one token, key or row. In
  `Ledger_pay` two amounts and an opening balance of 1 make some payments fit only
  after a deposit. `Ledger_deposit` has four calls, two rows, two keys and one
  token, so that all three kinds of lock are waited for at once: a deposit
  waits for the other's key, which waits for the row of a payment, which waits for
  the other payment's reference. A call that took two of these locks in another
  order could close a circle. One fault may strike at any statement.
- *Deposit consumer*: three messages let a failed one be followed by a committed
  one with one to come; `MaxFaults` counts rebalances too. Two keys for three
  messages make one transaction come twice in the log, next to the redelivery of
  one message.
- *Payment*: three attempts are a payer, his retry and a second payer, on one token
  or two. Amounts 1 and 3 with an opening balance of 2 make a later rate refuse
  what an earlier one would have charged.
- *Provisioning*: two currencies suffice for "the first stored, the second
  failed"; two users for a message behind the one being handled, and for a user
  whom the other's fault must not cost anything.
- *Oracle*: the unit is 5 s. `RateTTL` 12, `PollInterval` 6, `HttpTimeout` 2,
  `ReconnectDelay` 1, `ReadDeadline` 6, `DialTimeout` 9, `MaxWsFails` 3 are the
  code's values. Failed dials and disconnects are free; the two faults are errors
  of Redis or REST and restarts, so two polls in a row may fail.
- *Tokens*: every hazard is a race of two requests, on one device or two, and
  the third request meets what they leave, or is the second device's login.
  Expiry strikes once, at any pair. A fault lets a refresh fail halfway, a
  second one lets the logout beside it be late or fail too. The three safety
  properties are proved for any number of requests at once and in all; the run
  adds that every request ends.
- *POS*: two calls are a failed one and its retry, two overlapping ones, or
  sales to two customers; two scans are the retry's or the next customer's. The
  opening balance pays for both, so that a double charge would be booked.
  Customers are interchangeable, so the first call is taken to be alice's
  (`MCSpec`).
- *Chain*: pages, confirmations and the life of keys are scaled down (2, 1, 3
  blocks) so that a page overflows, a block is reorganised and a key expires
  within four blocks. Three of the four may hold a transaction of interest
  (`MaxPaying`), one more than a page: on Tron a transfer then drops off the
  first page, and on Solana off the page that is read after a failed poll.
  Addresses join while the chain has at most one block (`MaxJoin`).
  `WatcherAssumption` keeps what relates the code's values: an Ethereum transfer
  that could be read again is far younger than its key, and between two rounds
  fewer blocks are mined than half a page holds. The latter is taken for a
  restart too: while the service is down no more than `MaxGrowth` blocks are
  mined. What Ethereum mines during a longer downtime is not looked at, since
  the last block is kept in memory only (`Crash`); for Tron and Solana it may
  exceed a page.

Symmetry reduction is used only in runs that check safety (`ledger_deposit`,
`payment`, `provisioning_retry`). The theorems of section 6 hold for every
value of the constants.

`CHECK_DEADLOCK FALSE` stands in the cfgs of models that may stop because calls are
made once and logs and chains end; the oracle's feed never may, and its run checks
deadlock.

## 5. Fairness

- `Ledger`: weak fairness of each call's next statement. A goroutine that can run
  does, PostgreSQL grants a free lock, and the context of an abandoned
  transaction ends (the handler has returned). Nothing is assumed of faults or
  administrators.
- `DepositConsumer`, `WalletProvisioning`: each consumer's loop keeps turning, and a
  partition nobody owns is assigned to somebody; the registry handles what it
  was sent. Rebalances themselves are not fair.
- `OracleFeed`: time passes, and what the feed does when a timer runs out is done.
  No fairness of the good outcomes alone: polls end in answers or in failures, of
  which there are finitely many (`MaxFaults`).
- `ChainWatcher`: the watcher's task runs on. Blocks, addresses and expiry of
  keys come or not.

- `AuthTokens`: auth and the gateway go on with a request, and the app handles
  what it is answered. Faults, restarts and new requests are not fair.
- `PosTerminal`: calls end. Creating a session answers or fails, the payment
  service's handler runs on (each of its remote calls has a time-out), the
  answer of a finished handler arrives, and the connection to one that died
  breaks (nothing else of `ConnectionLost` is fair). Timers fire.

`Payment` by itself is checked for safety only; its handler's progress matters
to the terminal that waits for it.

## 6. Proofs

Each proof module shows an inductive invariant `IInv` of its module by one lemma
per action, for all values of the constants that satisfy the named assumption
(`LedgerAssumption`, `GroupAssumption`, ...). The theorems then follow from it.

- **`LedgerProofs`** (`LedgerInvariant`). `UniqueRef` alone is not inductive: what
  keeps two equal references apart is that an uncommitted one is reserved
  (`RefReserved`, `KeyReserved`), and what keeps `NoLostUpdate` is that the row
  is locked from its first statement to the end (`LockDiscipline`).
  `CommittedCalls` ties records to calls. `DeadlockFree` gives each call a rank by
  what it waits for (deposit key, row, reference): whoever is waited for stands
  further on. `LedgerImplementsAtomicLedger`: the commit of a payment or deposit
  maps to `Pay` or `Deposit`, an administrator's upsert to `TopUp`, every other
  statement to a stutter. `LedgerNeverStandsStill` adds to `DeadlockFree` that
  whoever is waited for is under way itself, so that of the calls under way
  one always waits for nobody. `MoneyConserved`: a record of amount n
  is n coins of its own (`Sums`), so a sum is the cardinality of a set, and
  one more record adds its amount to it (`TotalOfOneMore`). A commit writes a
  record that was not there (`RefReserved`) and moves the balance of its row,
  which nobody else has moved since it was read (`NoLostUpdate`), by as much;
  an administrator's upsert moves balance and history together. `NeverOverspent`
  follows: the payments booked on a row are covered by what it opened with,
  its top-ups and its deposits.
- **`AtomicLedgerProofs`.** `DepositsAddUp` and `PaymentsAddUp` are facts about the
  abstract specification: where it only takes deposits (or payments), a balance is
  what the row opened with plus its deposits (less its payments). They hold of the
  users of `AtomicLedger` by construction, so they are no theorems there; the proof
  modules of `Payment` and `DepositConsumer` instantiate this one for
  `PaymentsAddUp` and for the sums of one record more.
- **`DepositConsumerProofs`.** `PositionsCovered`: only the owner's position is
  bound by what has been dealt with, and any consumer that holds a message has
  all before it covered, even one that lost the partition. This is why a late commit
  of a former owner, which the broker may accept (`CommitMessage`), skips
  nothing: it moves the committed offset to a place behind which all is covered,
  or back, and then messages come again. `CreditsFollowTheLog`: a deposit is
  booked only when all before it in the log has been dealt with or has failed,
  whoever books it. `CreditedExactlyOnce` goes from the log to the balances: the
  messages credited are of different chain transactions (`CreditedOffsets`), a
  user holds the sum of those that pay him, and with `NothingLeftBehind`
  (an owner that waits at the end of the log has dealt with all of it, or has seen
  it fail) no transaction is missing once an owner has caught up.
- **`PaymentProofs`.** The invariant says for every attempt what core's side
  implies for the books and what the answer implies for core's side.
  `ChargesAreAsked` needs more of it: a debit that is under way still has the
  amount its rate came to, so what is booked is what the attempt asked for
  (`BookedAsAsked`), and with the reference being the session's token
  (`UniqueRef`, `TokensCreated`) at most one of the attempts on a session is
  charged. With `PaymentsAddUp` a row has lost exactly the charges of its own
  attempts: no retry, time-out or crash takes a coin that no payment explains.
  `SessionsSettle` is an action property.
- **`WalletProvisioningProofs`.** `LoopSound`: behind a loop's place in the list
  are stored wallets, and the address about to be announced is stored as its own
  (`StoredInv`). `NobodyForgotten` is the last part of `IInv`, for every user
  whom no fault has hit (`struck` remembers the others: the user whose event
  could not be published, whose message was in hand when a statement failed or
  the service died, or whose address the registry lost). A registered user is in
  the log; for every offset that is committed, left behind by the owner, or
  reached by an instance at work (`Passed`), each wallet is stored or some
  instance still has it ahead of it (`Covered`); and every stored address is
  announced or about to be (`Told`). So a fault costs at most the user it hits.
  An instance that loses the race for a wallet gives up its message, and the
  winner is the one that has the rest ahead of it. `NobodyIsForgotten`
  (`IdleMeansServed`) is what is left of this when nobody has anything to do:
  every registered user whom no fault has hit has all his addresses watched.
- **`OracleFeedProofs`.** Age and remaining life of a stored rate share the budget
  `RateTTL + HttpTimeout`. `PollingKeepsRates` needs `PollInterval + HttpTimeout <
  RateTTL`, which the code's 30 + 10 < 60 satisfies.
- **`ChainWatcherProofs`.** `TransfersPublishedOnce` has an argument for each
  network. Solana: what is queued or after the last signature was never
  published (`SignaturesCover`). Ethereum: what is scanned again after a restart
  is not deeper than the confirmations and the growth since the round began, and
  so is younger than its seen key (`RangesCover`, with `Confirmations +
  MaxGrowth < KeyLife`). Tron: only the seen key protects, hence the exception
  in the theorem. `PublishedFinal`: what is queued on Ethereum has as many
  successors as a reorganisation may not reach (`ScannedAreFinal`).
  `NoTransferIsLost` (`NothingLost`, the last part of the invariant) looks the
  other way. A transfer that is still on the chain, that was mined after the
  last fault (`spoiled`), that pays an address watched before it was mined, and
  whose transaction concerns no other address of the platform under the same key
  (`Rivals`), has been published, or is in hand, or its key is free and it is
  queued or a poll to come will find it (`StillAhead`). What an error or a
  restart costs is thus bound to what was mined before it. That poll finds it
  because addresses leave the round's scope as they are polled
  (`ScopeBelongsToRound`), stored positions and keys belong to settled blocks
  (`ShownIsSettled`), and on Ethereum an address that the round does not know
  has joined since it began, or the last block was forgotten by a restart not
  longer ago than that (`NewcomersAreRecent`).

- **`AuthTokensProofs`.** `SessionSurvives` is the strengthening: whatever a
  device or a request in a refresh holds is `Backed` by a row as new as itself
  or by a refresh that is about to insert a newer pair, or its session has
  ended. The DELETE of one refresh removes rows of all, and is backed by its own
  INSERT to come. `RefusalsHaveACause` follows, and `AccountsOwnTheirTokens`
  with what each request carries (`RequestsSound`). `RequestsComeToAnEnd` gives
  every request a variant, its place on the way and a round of refreshing if
  the access token it carries has expired: while no token expires, every step
  lowers it or leaves the request where it is. What makes it work is that a
  pair is signed newer than all that has expired (`Numbered`), so the second
  try passes the gate.
- **`PaymentProofs`, the terminal.** `TerminalImplementsPayment` makes every
  theorem about `Payment` one about the terminal's payments; with Payment's own
  invariant, `CallSound` relates what the terminal knows of a call to core's
  side, and `ScanSound` says that the button is enabled only for a scan that
  nobody has charged. `ScansAreChargedOnce`, `TerminalTellsTheTruth` and
  `TimersWipeNoSale` follow. `TerminalIsNeverStuck`: a disabled button has a
  call under way whose answer enables it, and a success screen has its timer,
  with overlapping calls, logouts and reloads too.

Proved and not among the runs' properties: `LedgerTypeOK`, `EventsAfterCommit` and
`AnnouncedStored`, which `IInv` holds; `MovesRecorded` (a balance moves only
with the record that explains it), which the refinement of `AtomicLedger` says too;
and the theorems that follow from an invariant or a refinement as told above
(`NeverOverspent`, `TerminalImplementsPayment`, those of `AtomicLedgerProofs` and
those of the next table).

Only model-checked: liveness, which the prover does not reach (its rules need
ENABLED). Every safety property of the passing runs is proved. For most liveness
properties the safety that they rest on is proved as well; what is left to TLC is
that the steps in question are taken:

| Liveness, checked by TLC | Its safety, proved |
|---|---|
| `EveryCallAnswers`, `RowsComeFree` | `LedgerNeverStandsStill`: some call under way waits for nobody |
| `EveryMessageAttempted` | `NothingLeftBehind`: an owner at the end of the log has attempted all of it |
| `EveryUserIsWatched` | `NobodyIsForgotten`: once consumers and registry are idle, nobody is unserved but whom a fault has hit |
| `WatcherCatchesUp` | `NoTransferIsLost`: what is owed and was mined after the last fault is published, in hand or ahead |
| `EveryRequestEnds` | `RequestsComeToAnEnd`: no step takes a request back |
| `TerminalComesFree` | `TerminalIsNeverStuck`: somebody is left to free the terminal |
| `PollingRestoresRates` | none: a poll that succeeds restores all rates in one step |

## 7. What is left

All modules planned for money and identity are there: ledger, deposit consumer,
payment, provisioning, oracle, chain watchers, refresh tokens, the terminal. In
the order of what they would add, these are left:

1. **Payment detection** in UserApp (`HomeView.swift` 293-351): the app polls
   balances every second and takes a fall for a payment. Polls overlap and their
   answers may come out of order, and a deposit between two polls can hide a
   payment. A module of the poller beside `AtomicLedger`; the property: every
   payment during the card's display is noticed unless a deposit came between.
2. **Watcher and consumer composed**: `ChainWatcher` feeding `DepositConsumer`,
   with two transfers of one transaction (which core tells apart by hash and
   network only), from a transfer on the chain to the books.
3. **Amounts**: lamports and wei to `NUMERIC(30,8)`, the coin amount of a KRW
   price; rounding to zero and the sums of what was rounded, against a
   reference definition over bounded inputs; lemmas on single conversions.
4. **More proofs**: the facts of the shared `KafkaGroup` stated once for both
   consumers.

Not modelled: the gateway beyond its check of the access token (it forwards), core's
gRPC server (it registers no service), core's accounts (no transport calls
them), `UpdatePaymentPriorities` of core (nothing calls it), auth's
`updatePaymentPriority` (one transaction that rewrites a user's own rows,
`users.service.ts` 119-141), MerchantWeb's `useQRPayment` hook (nothing
uses it), reading endpoints, forms of one request, deployment files and
generated code.
