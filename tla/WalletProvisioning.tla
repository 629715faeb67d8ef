------------------------- MODULE WalletProvisioning -------------------------
(***************************************************************************)
(* How a registered user gets deposit addresses that the chain watchers    *)
(* watch: auth inserts the user and publishes user.registered; the user    *)
(* consumers of the core instances allocate one wallet per currency,       *)
(* statement by statement, and publish wallet.created for each new one;    *)
(* the chain service's registry adds the addresses to the watched set.     *)
(*                                                                         *)
(*   registered  the users in core.users                                   *)
(*   log         the topic user.registered: a sequence of users            *)
(*   cursor      where each consumer stands in AllCurrencies               *)
(*   step        the statement each consumer issues next for that currency *)
(*   wallet      core.user_wallets: who generated the stored address of    *)
(*               each user and currency, NoConsumer if there is none       *)
(*   announced   history: addresses for which wallet.created was delivered *)
(*   unread      announced addresses the registry has not handled          *)
(*   watched     the addresses in Redis                                    *)
(*   provisioned history: the users a consumer has reported as provisioned *)
(*   refused     history: the addresses whose publication returned an error *)
(*   struck      history: the users a fault has hit, in whosever hands     *)
(*   faults, rebalances   so far, at most MaxFaults and MaxRebalances      *)
(***************************************************************************)
EXTENDS KafkaGroup, Sequences

CONSTANTS Users,
          AllCurrencies, \* a sequence of distinct currencies
          MaxFaults,     \* bound on errors, lost events and crashes
          MaxRebalances  \* bound on changes of the partition's owner

ASSUME ProvisioningAssumption ==
    /\ AllCurrencies \in Seq(STRING)
    /\ \A i, j \in 1..Len(AllCurrencies) :
         AllCurrencies[i] = AllCurrencies[j] => i = j
    /\ MaxFaults \in Nat
    /\ MaxRebalances \in Nat

VARIABLES registered, log, cursor, step, wallet, announced, unread, watched,
          provisioned, refused, struck, faults, rebalances

chain == <<announced, unread, watched>>
history == <<provisioned, refused>>
mishaps == <<struck, faults, rebalances>>
vars == <<group, registered, log, cursor, step, wallet, chain, history, mishaps>>

Currencies == {AllCurrencies[i] : i \in 1..Len(AllCurrencies)}

\* Every call of generateAddress gives a fresh address: it is told apart by the
\* consumer that generated it, which stores at most one per user and currency.
Addresses == [user : Users, currency : Currencies, by : Consumers]

StoredAddress(u, k) == [user |-> u, currency |-> k, by |-> wallet[u][k]]

UserOf(c) == log[held[c]]
CurrencyOf(c) == AllCurrencies[cursor[c]]
NewAddress(c) == [user |-> UserOf(c), currency |-> CurrencyOf(c), by |-> c]

At(c, s) ==
    /\ stage[c] = "process"
    /\ cursor[c] <= Len(AllCurrencies)
    /\ step[c] = s

\* Something goes wrong for the users of hit.
Fault(hit) ==
    /\ faults < MaxFaults
    /\ faults' = faults + 1
    /\ struck' = struck \cup hit
    /\ UNCHANGED rebalances

\* The users a consumer is at work for.
AtWork(c) == IF stage[c] = "process" THEN {UserOf(c)} ELSE {}

-----------------------------------------------------------------------------
(* Auth                                                                    *)

\* register inserts the user, then publishes; when the publication fails the
\* user stays, and registering again answers 409.
Register(u) ==
    /\ u \notin registered
    /\ registered' = registered \cup {u}
    /\ \/ log' = Append(log, u) /\ UNCHANGED mishaps
       \/ UNCHANGED log /\ Fault({u})
    /\ UNCHANGED <<group, cursor, step, wallet, chain, history>>

-----------------------------------------------------------------------------
(* The user consumers of core                                              *)

Join(c) ==
    /\ owner = NoConsumer
    /\ Assign(c)
    /\ UNCHANGED <<registered, log, cursor, step, wallet, chain, history, mishaps>>

Rebalance(c) ==
    /\ owner # NoConsumer
    /\ Assign(c)
    /\ rebalances < MaxRebalances
    /\ rebalances' = rebalances + 1
    /\ UNCHANGED <<registered, log, cursor, step, wallet, chain, history, struck, faults>>

Read(c) ==
    /\ ReadMessage(c, Len(log))
    /\ cursor' = [cursor EXCEPT ![c] = 1]
    /\ step' = [step EXCEPT ![c] = "find"]
    /\ UNCHANGED <<registered, log, wallet, chain, history, mishaps>>

NextCurrency(c) ==
    /\ cursor' = [cursor EXCEPT ![c] = cursor[c] + 1]
    /\ step' = [step EXCEPT ![c] = "find"]

FindWallet_Break(c) ==
    /\ At(c, "find")
    /\ IF wallet[UserOf(c)][CurrencyOf(c)] # NoConsumer
       THEN cursor' = [cursor EXCEPT ![c] = Len(AllCurrencies) + 1] /\ UNCHANGED step
       ELSE step' = [step EXCEPT ![c] = "create"] /\ UNCHANGED cursor
    /\ UNCHANGED <<group, registered, log, wallet, chain, history, mishaps>>

\* FindByUserAndCurrency: an existing wallet is passed over.
FindWallet(c) ==
    /\ At(c, "find")
    /\ IF wallet[UserOf(c)][CurrencyOf(c)] # NoConsumer
       THEN NextCurrency(c)
       ELSE step' = [step EXCEPT ![c] = "create"] /\ UNCHANGED cursor
    /\ UNCHANGED <<group, registered, log, wallet, chain, history, mishaps>>

Store(c) == wallet' = [wallet EXCEPT ![UserOf(c)][CurrencyOf(c)] = c]

\* processMessage returns an error: the loop goes on, nothing is committed.
Fail(c) == GiveUp(c) /\ UNCHANGED <<registered, log, cursor, step, provisioned>>

CreateWallet_Upsert(c) ==
    /\ At(c, "create")
    /\ Store(c)
    /\ step' = [step EXCEPT ![c] = "publish"]
    /\ UNCHANGED <<group, registered, log, cursor, chain, history, mishaps>>

\* generateAddress and INSERT INTO core.user_wallets.
CreateWallet(c) ==
    /\ At(c, "create")
    /\ wallet[UserOf(c)][CurrencyOf(c)] = NoConsumer
    /\ Store(c)
    /\ step' = [step EXCEPT ![c] = "publish"]
    /\ UNCHANGED <<group, registered, log, cursor, chain, history, mishaps>>

\* UNIQUE (user_id, currency): another consumer was faster.
CreateConflicts(c) ==
    /\ At(c, "create")
    /\ wallet[UserOf(c)][CurrencyOf(c)] # NoConsumer
    /\ Fail(c)
    /\ UNCHANGED <<wallet, chain, refused, mishaps>>

\* A statement fails; an INSERT may have been carried out all the same.
DbError(c) ==
    /\ At(c, "find") \/ At(c, "create")
    /\ Fault(AtWork(c))
    /\ \/ UNCHANGED wallet
       \/ At(c, "create") /\ wallet[UserOf(c)][CurrencyOf(c)] = NoConsumer /\ Store(c)
    /\ Fail(c)
    /\ UNCHANGED <<chain, refused>>

\* Produce only enqueues; the delivery report is thrown away, so a wallet.created
\* that is not delivered goes unnoticed.
PublishWalletCreated(c) ==
    /\ At(c, "publish")
    /\ \/ /\ announced' = announced \cup {NewAddress(c)}
          /\ unread' = unread \cup {NewAddress(c)}
          /\ UNCHANGED mishaps
       \/ Fault(AtWork(c)) /\ UNCHANGED <<announced, unread>>
    /\ NextCurrency(c)
    /\ UNCHANGED <<group, registered, log, wallet, watched, history>>

\* Produce returns an error (local queue full): the message fails, the wallet
\* stays.
PublishFails(c) ==
    /\ At(c, "publish")
    /\ Fault(AtWork(c))
    /\ refused' = refused \cup {NewAddress(c)}
    /\ Fail(c)
    /\ UNCHANGED <<wallet, chain>>

\* All currencies done: processMessage returns nil.
Finish(c) ==
    /\ stage[c] = "process"
    /\ cursor[c] > Len(AllCurrencies)
    /\ provisioned' = provisioned \cup {UserOf(c)}
    /\ ToCommit(c)
    /\ UNCHANGED <<registered, log, cursor, step, wallet, chain, refused, mishaps>>

Commit(c) ==
    /\ CommitMessage(c)
    /\ UNCHANGED <<registered, log, cursor, step, wallet, chain, history, mishaps>>

CommitLost(c) ==
    /\ CommitFails(c)
    /\ Fault({})
    /\ UNCHANGED <<registered, log, cursor, step, wallet, chain, history>>

Stop(c) ==
    /\ owner = c \/ stage[c] # "poll"
    /\ Leave(c)
    /\ Fault(AtWork(c))
    /\ UNCHANGED <<registered, log, cursor, step, wallet, chain, history>>

-----------------------------------------------------------------------------
(* The chain service's registry                                            *)

AddAddress_Drop(a) ==
    /\ a \in unread
    /\ unread' = unread \ {a}
    /\ UNCHANGED <<group, registered, log, cursor, step, wallet, announced, watched,
                   history, mishaps>>

\* SADD of an announced address.
AddAddress(a) ==
    /\ a \in unread
    /\ unread' = unread \ {a}
    /\ watched' = watched \cup {a}
    /\ UNCHANGED <<group, registered, log, cursor, step, wallet, announced,
                   history, mishaps>>

\* Redis fails and the error is only logged, or the service dies after the
\* automatic commit of the message: the address is never added.
AddressLost(a) ==
    /\ a \in unread
    /\ Fault({a.user})
    /\ unread' = unread \ {a}
    /\ UNCHANGED <<group, registered, log, cursor, step, wallet, announced, watched,
                   history>>

-----------------------------------------------------------------------------
Init ==
    /\ GroupInit
    /\ registered = {}
    /\ log = <<>>
    /\ cursor = [c \in Consumers |-> 1]
    /\ step = [c \in Consumers |-> "find"]
    /\ wallet = [u \in Users |-> [k \in Currencies |-> NoConsumer]]
    /\ announced = {} /\ unread = {} /\ watched = {}
    /\ provisioned = {} /\ refused = {}
    /\ struck = {} /\ faults = 0 /\ rebalances = 0

Loop(c) ==
    \/ Read(c)
    \/ FindWallet(c)
    \/ CreateWallet(c)
    \/ CreateConflicts(c)
    \/ PublishWalletCreated(c)
    \/ Finish(c)
    \/ Commit(c)

Next ==
    \/ \E u \in Users : Register(u)
    \/ \E c \in Consumers :
         \/ Loop(c) \/ Join(c) \/ Rebalance(c)
         \/ DbError(c) \/ PublishFails(c) \/ CommitLost(c) \/ Stop(c)
    \/ \E a \in unread : AddAddress(a) \/ AddressLost(a)

Spec == Init /\ [][Next]_vars

\* The loops keep turning, somebody gets a partition nobody owns, and the
\* registry handles what it receives.
FairSpec ==
    /\ Spec
    /\ \A c \in Consumers : WF_vars(Loop(c))
    /\ WF_vars(\E c \in Consumers : Join(c))
    /\ \A a \in Addresses : WF_vars(AddAddress(a))

-----------------------------------------------------------------------------
(* Properties                                                              *)

TypeOK ==
    /\ GroupTypeOK
    /\ registered \subseteq Users
    /\ log \in Seq(registered)
    /\ \A c \in Consumers : stage[c] # "poll" => held[c] \in 1..Len(log)
    /\ cursor \in [Consumers -> 1..(Len(AllCurrencies) + 1)]
    /\ step \in [Consumers -> {"find", "create", "publish"}]
    /\ wallet \in [Users -> [Currencies -> Consumers \cup {NoConsumer}]]
    /\ announced \subseteq Addresses
    /\ unread \subseteq announced
    /\ watched \subseteq announced
    /\ provisioned \subseteq registered
    /\ refused \subseteq Addresses
    /\ struck \subseteq Users
    /\ faults \in 0..MaxFaults
    /\ rebalances \in 0..MaxRebalances

\* An address that is announced, and so the one that is watched and shown to
\* be paid to, is the one stored for its user: what arrives there resolves.
\* Two consumers that allocate for one user at once cannot break it.
AnnouncedAreStored ==
    \A a \in announced : wallet[a.user][a.currency] = a.by

\* A user is reported as provisioned only with a wallet in every currency.
ProvisionedHaveWallets ==
    \A u \in provisioned, k \in Currencies : wallet[u][k] # NoConsumer

\* Where a loop stands in the list of currencies: behind it are stored wallets,
\* and the address it is about to announce is the stored one.
LoopSound(c) ==
    /\ stage[c] = "process" =>
         \A i \in 1..(cursor[c] - 1) : wallet[UserOf(c)][AllCurrencies[i]] # NoConsumer
    /\ At(c, "publish") => wallet[UserOf(c)][CurrencyOf(c)] = c

\* What is stored and announced agrees, through every fault.
StoredInv ==
    /\ TypeOK
    /\ \A c \in Consumers : LoopSound(c)
    /\ AnnouncedAreStored
    /\ ProvisionedHaveWallets

OffsetsInLog ==
    /\ committed <= Len(log) + 1
    /\ \A c \in Consumers : position[c] <= Len(log) + 1

\* c's loop has u's n-th currency still before it, and no other loop was faster
\* with the wallet it is about to store.
Carries(c, u, n) ==
    /\ stage[c] = "process" /\ UserOf(c) = u /\ cursor[c] <= n
    /\ step[c] = "create" => wallet[u][CurrencyOf(c)] = NoConsumer

\* An offset that the group, its owner or a loop at work has behind it.
Passed(o) ==
    \/ o < committed
    \/ \E c \in Consumers : \/ owner = c /\ o < position[c]
                            \/ stage[c] # "poll" /\ o <= held[c]

\* Every wallet of the user in message o is stored, or some loop is to see to it.
Covered(o) ==
    \A n \in 1..Len(AllCurrencies) :
        \/ wallet[log[o]][AllCurrencies[n]] # NoConsumer
        \/ \E c \in Consumers : Carries(c, log[o], n)

\* A stored address is announced, or the loop that stored it is to announce it.
Told(u, k) ==
    wallet[u][k] # NoConsumer =>
        \/ StoredAddress(u, k) \in announced
        \/ \E c \in Consumers : At(c, "publish") /\ NewAddress(c) = StoredAddress(u, k)

\* The safety that EveryUserIsWatched rests on: no user drops out between auth,
\* the consumers and the registry but one whom a fault has hit.  No offset is
\* passed whose user no loop sees to, though loops that lose the race for a
\* wallet give their message up, and others fail.
NobodyForgotten ==
    /\ \A u \in registered \ struck : \E o \in 1..Len(log) : log[o] = u
    /\ \A o \in 1..Len(log) : Passed(o) => log[o] \in struck \/ Covered(o)
    /\ \A u \in Users \ struck, k \in Currencies : Told(u, k)
    /\ \A a \in announced : a.user \in struck \/ a \in unread \cup watched

\* The consumers and the registry have nothing to do.
Idle ==
    /\ \A c \in Consumers : stage[c] = "poll"
    /\ owner # NoConsumer /\ position[owner] > Len(log)
    /\ unread = {}

\* Once they have nothing left to do, every user whom no fault has hit has all
\* his addresses watched.
IdleMeansServed ==
    Idle =>
        \A u \in registered \ struck, k \in Currencies : StoredAddress(u, k) \in watched

\* The inductive invariant.
IInv ==
    /\ StoredInv
    /\ OffsetsInLog
    /\ NobodyForgotten

\* A wallet, once stored, keeps its address (deposits to it may be under way).
AddressesAreFinal ==
    [][\A u \in Users, k \in Currencies :
         wallet[u][k] # NoConsumer => wallet'[u][k] = wallet[u][k]]_wallet

\* Every registered user ends up with all his addresses watched, unless a fault
\* hits this very user: whatever rebalances make two consumers allocate for the
\* same user at once, one of them gets every wallet stored and announced, and a
\* fault costs nobody else his addresses.
EveryUserIsWatched ==
    \A u \in Users :
        u \in registered ~>
            \/ \A k \in Currencies : StoredAddress(u, k) \in watched
            \/ u \in struck

\* Comment in wallet/service.go: a wallet whose wallet.created could not be
\* published is kept, the retry of the Kafka message recovers.  So when the
\* retry has reported the user as provisioned, the event has been published.
RetryRecoversEvents ==
    \A a \in refused : a.user \in provisioned => a \in announced
=============================================================================
