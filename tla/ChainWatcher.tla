----------------------------- MODULE ChainWatcher -----------------------------
(***************************************************************************)
(* The chain service: it polls a blockchain for transfers to the watched   *)
(* addresses and publishes each as deposit.detected.  Its three watchers   *)
(* are tasks that share nothing (their Redis keys carry the network), so a *)
(* behaviour is that of one of them, on the network chosen at the start,   *)
(* beside the registry's task that adds addresses.                         *)
(*                                                                         *)
(*   network    "SOLANA", "ETHEREUM" or "TRON"                             *)
(*   chain, tip the blockchain up to its tip.  A block holds at most one   *)
(*              transaction of interest (not a failed one, which is passed *)
(*              over without a trace), and its height names it            *)
(*   grown      blocks since the watcher's round began                     *)
(*   watched    the addresses in Redis                                     *)
(*   lastSig    Redis: height of the last signature of each address, 0 if  *)
(*              there is none                                              *)
(*   seen       Redis: the keys marked as seen                             *)
(*   pc         "sleep", "poll", "scan" or "publish"                       *)
(*   scope      the addresses of this round that are still to be polled    *)
(*   queue      the transfers that the scan has still to look at           *)
(*   item       the transfer that is being looked at                       *)
(*   upto       the last block of the range being scanned                  *)
(*   lastBlock  last_processed_block, in memory; NoBlock is None           *)
(*   sent       history: how often each transfer was published (0, 1, or 2 *)
(*              for twice and more)                                       *)
(*   spoiled    history: the tip when something last failed                *)
(*   faults     errors and crashes so far, at most MaxFaults               *)
(***************************************************************************)
EXTENDS Integers, FiniteSets

CONSTANTS Networks,      \* the networks to look at
          Addresses,
          Transactions,  \* the transactions that can be mined
          MaxSigs,       \* signatures asked for at once, 100
          TronLimit,     \* transfers asked for at once, 50
          Confirmations, \* 12
          KeyLife,       \* blocks in the life of a seen key (30 days)
          MaxGrowth,     \* blocks from one round of the watcher to the next
          MaxHeight,     \* bound on the height of the chain
          MaxPaying,     \* bound on the blocks that are not empty
          MaxJoin,       \* bound on the height at which an address joins
          MaxFaults      \* bound on errors and crashes

\* Who is paid in the coin and in the token, and who takes part at all (also
\* as the sender).
Shapes == [coin : SUBSET Addresses, token : SUBSET Addresses, parties : SUBSET Addresses]

Assets == {"coin", "token"}

Empty == [coin |-> {}, token |-> {}, parties |-> {}]

ASSUME WatcherAssumption ==
    /\ Networks \subseteq {"SOLANA", "ETHEREUM", "TRON"}
    /\ Transactions \subseteq Shapes
    /\ \A x \in Transactions : x.coin \cup x.token \subseteq x.parties
    /\ {MaxSigs, TronLimit, Confirmations, KeyLife, MaxGrowth, MaxHeight, MaxPaying,
        MaxJoin, MaxFaults} \subseteq Nat
    /\ 2 * MaxGrowth <= Confirmations + 1 /\ Confirmations + MaxGrowth < KeyLife
    /\ 2 * MaxGrowth <= MaxSigs /\ 2 * MaxGrowth <= TronLimit

VARIABLES network, chain, tip, grown, joined, lastSig, seen,
          pc, scope, queue, item, upto, lastBlock, sent, spoiled, faults

blocks == <<network, chain, tip>>
redis == <<joined, lastSig, seen>>
loop == <<pc, scope, queue, item, upto, lastBlock>>
mishaps == <<spoiled, faults>>
vars == <<blocks, grown, redis, loop, sent, mishaps>>

NoBlock == -1

watched == {a \in Addresses : joined[a] # NoBlock}

Heights == 1..MaxHeight

\* One transfer; its chain_tx_hash is the height.
Transfers == [tx : Heights, asset : Assets, to : Addresses]

NoItem == [tx |-> 0, asset |-> "coin", to |-> "none"]

-----------------------------------------------------------------------------
(* The blockchain and the passage of time                                  *)

\* Solana's watcher looks at SOL only, Tron's at USDT only; on Ethereum the
\* coin goes to one address, and only who receives matters.
Possible(x) ==
    /\ network = "SOLANA" => x.token = {}
    /\ network = "TRON" => x.coin = {}
    /\ network = "ETHEREUM" =>
         Cardinality(x.coin) <= 1 /\ x.parties = x.coin \cup x.token

Paid(t) == t.to \in chain[t.tx][t.asset]

Bounded == Cardinality({h \in Heights : chain'[h] # Empty}) <= MaxPaying

Mine(x) ==
    /\ tip < MaxHeight /\ grown < MaxGrowth
    /\ Possible(x)
    /\ tip' = tip + 1
    /\ grown' = grown + 1
    /\ chain' = [chain EXCEPT ![tip + 1] = x] /\ Bounded
    /\ UNCHANGED <<network, redis, loop, sent, mishaps>>

\* Ethereum replaces a block that has fewer than Confirmations successors.
\* (Solana is asked for finalized transactions; Tron's answers are taken as
\* final.)
Reorganise(h, x) ==
    /\ network = "ETHEREUM"
    /\ h \in 1..tip /\ tip - h < Confirmations
    /\ Possible(x) /\ x # chain[h]
    /\ chain' = [chain EXCEPT ![h] = x] /\ Bounded
    /\ UNCHANGED <<network, tip, grown, redis, loop, sent, mishaps>>

\* The registry's task adds the address of a new wallet.
AddAddress(a) ==
    /\ a \notin watched /\ tip <= MaxJoin
    /\ joined' = [joined EXCEPT ![a] = tip]
    /\ UNCHANGED <<blocks, grown, lastSig, seen, loop, sent, mishaps>>

\* The Redis key of idempotency::Store: on Ethereum a token's key ends in
\* ":usdt".
Key(t) == [tx |-> t.tx, asset |-> t.asset]

\* Redis drops a seen key after 30 days.
ExpireKey(k) ==
    /\ k \in seen /\ tip >= k.tx + KeyLife
    /\ seen' = seen \ {k}
    /\ UNCHANGED <<blocks, grown, joined, lastSig, loop, sent, mishaps>>

\* Something goes wrong.
Fault ==
    /\ faults < MaxFaults
    /\ faults' = faults + 1
    /\ spoiled' = tip

-----------------------------------------------------------------------------
(* A round                                                                 *)

\* SMEMBERS of the watched addresses; without any the watcher sleeps on.
StartRound ==
    /\ pc = "sleep"
    /\ scope' = watched
    /\ pc' = IF watched = {} THEN "sleep" ELSE "poll"
    /\ grown' = 0
    /\ UNCHANGED <<blocks, redis, queue, item, upto, lastBlock, sent, mishaps>>

\* SMEMBERS fails, which is taken for an empty answer.
RoundSkipped ==
    /\ pc = "sleep"
    /\ Fault
    /\ grown' = 0
    /\ UNCHANGED <<blocks, redis, loop, sent>>

\* The newest n heights of a set.
Newest(S, n) == {h \in S : Cardinality({g \in S : g > h}) < n}

\* The transactions getSignaturesForAddress returns: those of the address after
\* the last signature, the newest MaxSigs of them.
Signatures(a) ==
    Newest({h \in 1..tip : h > lastSig[a] /\ a \in chain[h].parties}, MaxSigs)

StoreLastSig_Skip(a) == UNCHANGED lastSig

\* The newest signature, if there is one, is stored before the batch is looked at.
StoreLastSig(a) ==
    IF Signatures(a) = {}
    THEN UNCHANGED lastSig
    ELSE \E h \in Signatures(a) :
           /\ \A g \in Signatures(a) : g <= h
           /\ lastSig' = [lastSig EXCEPT ![a] = h]

PollSolana(a) ==
    /\ network = "SOLANA" /\ pc = "poll" /\ a \in scope
    /\ queue' = {[tx |-> h, asset |-> "coin", to |-> a] : h \in Signatures(a)}
    /\ StoreLastSig(a)
    /\ scope' = scope \ {a}
    /\ pc' = "scan"
    /\ UNCHANGED <<blocks, grown, joined, seen, item, upto, lastBlock, sent, mishaps>>

\* The TRC20 transfers TronGrid returns, sent or received, whatever was handled
\* before.
PollTron(a) ==
    /\ network = "TRON" /\ pc = "poll" /\ a \in scope
    /\ LET page == Newest({h \in 1..tip : a \in chain[h].parties}, TronLimit)
       IN queue' = {[tx |-> h, asset |-> "token", to |-> a] :
                      h \in {g \in page : a \in chain[g].token}}
    /\ scope' = scope \ {a}
    /\ pc' = "scan"
    /\ UNCHANGED <<blocks, grown, redis, item, upto, lastBlock, sent, mishaps>>

SafeBlock_OneLess == IF tip >= Confirmations THEN tip - Confirmations + 1 ELSE 0

SafeBlock == IF tip >= Confirmations THEN tip - Confirmations ELSE 0

FromBlock == IF lastBlock = NoBlock THEN SafeBlock ELSE lastBlock + 1

\* eth_blockNumber, and the range of blocks that are new and confirmed: the
\* USDT logs and the transactions that pay a watched address.
PollEthereum ==
    /\ network = "ETHEREUM" /\ pc = "poll"
    /\ scope' = {}
    /\ IF FromBlock <= SafeBlock
       THEN /\ queue' = {t \in Transfers : /\ t.tx \in FromBlock..SafeBlock
                                           /\ Paid(t) /\ t.to \in scope}
            /\ upto' = SafeBlock
            /\ pc' = "scan"
       ELSE pc' = "sleep" /\ UNCHANGED <<queue, upto>>
    /\ UNCHANGED <<blocks, grown, redis, item, lastBlock, sent, mishaps>>

\* The first request of a poll fails.  Solana's last signature may have been
\* stored all the same; Ethereum's range is left for the next round.
PollFails(a) ==
    /\ pc = "poll" /\ a \in scope
    /\ Fault
    /\ UNCHANGED lastSig \/ (network = "SOLANA" /\ StoreLastSig(a))
    /\ scope' = IF network = "ETHEREUM" THEN {} ELSE scope \ {a}
    /\ pc' = IF scope' = {} THEN "sleep" ELSE "poll"
    /\ UNCHANGED <<blocks, grown, joined, seen, queue, item, upto, lastBlock, sent>>

-----------------------------------------------------------------------------
(* One transfer after the other                                            *)

\* Solana's batch is read from the oldest, Tron's from the newest; Ethereum's
\* logs come first, then its blocks.
Before(t, u) ==
    IF network = "TRON" THEN t.tx > u.tx
    ELSE \/ t.asset = "token" /\ u.asset = "coin"
         \/ t.asset = u.asset /\ t.tx < u.tx

First(t) == t \in queue /\ \A u \in queue : ~Before(u, t)

\* What is left when a transfer is given up with an error: on Ethereum the
\* others (the rest of its block has none), elsewhere nothing of this address.
AfterError(t) == IF network = "ETHEREUM" THEN queue \ {t} ELSE {}

Mark_Always(t) ==
    /\ pc = "scan" /\ First(t)
    /\ seen' = seen \cup {Key(t)}
    /\ item' = t /\ pc' = "publish" /\ UNCHANGED queue
    /\ UNCHANGED <<blocks, grown, joined, lastSig, scope, upto, lastBlock, sent, mishaps>>

\* try_mark_seen: SET NX.  A key that exists makes the watcher pass on.
Mark(t) ==
    /\ pc = "scan" /\ First(t)
    /\ seen' = seen \cup {Key(t)}
    /\ IF Key(t) \in seen
       THEN queue' = queue \ {t} /\ UNCHANGED <<item, pc>>
       ELSE item' = t /\ pc' = "publish" /\ UNCHANGED queue
    /\ UNCHANGED <<blocks, grown, joined, lastSig, scope, upto, lastBlock, sent, mishaps>>

\* Redis fails, whether or not it set the key; or the block cannot be fetched.
MarkFails(t) ==
    /\ pc = "scan" /\ First(t)
    /\ Fault
    /\ seen' \in {seen, seen \cup {Key(t)}}
    /\ queue' = AfterError(t)
    /\ UNCHANGED <<blocks, grown, joined, lastSig, pc, scope, item, upto, lastBlock,
                   sent>>

Finished == pc' = "scan" /\ item' = NoItem

Deliver(t) == sent' = [sent EXCEPT ![t] = IF @ = 0 THEN 1 ELSE 2]

\* The transfer is published, unless it pays the address nothing.
Publish ==
    /\ pc = "publish"
    /\ IF Paid(item) THEN Deliver(item) ELSE UNCHANGED sent
    /\ queue' = queue \ {item}
    /\ Finished
    /\ UNCHANGED <<blocks, grown, redis, scope, upto, lastBlock, mishaps>>

\* get_transaction fails: the next one, and this one stays marked.
FetchFails ==
    /\ network = "SOLANA" /\ pc = "publish"
    /\ Fault
    /\ queue' = queue \ {item}
    /\ Finished
    /\ UNCHANGED <<blocks, grown, redis, scope, upto, lastBlock, sent>>

\* Kafka does not acknowledge the message, which may be in the topic or not.
PublishFails ==
    /\ pc = "publish" /\ Paid(item)
    /\ Fault
    /\ UNCHANGED sent \/ Deliver(item)
    /\ queue' = AfterError(item)
    /\ Finished
    /\ UNCHANGED <<blocks, grown, redis, scope, upto, lastBlock>>

EndScan_Latest ==
    /\ pc = "scan" /\ queue = {}
    /\ lastBlock' = IF network = "ETHEREUM" THEN tip ELSE lastBlock
    /\ pc' = IF scope = {} THEN "sleep" ELSE "poll"
    /\ UNCHANGED <<blocks, grown, redis, scope, queue, item, upto, sent, mishaps>>

\* The batch or the range is done.
EndScan ==
    /\ pc = "scan" /\ queue = {}
    /\ lastBlock' = IF network = "ETHEREUM" THEN upto ELSE lastBlock
    /\ pc' = IF scope = {} THEN "sleep" ELSE "poll"
    /\ UNCHANGED <<blocks, grown, redis, scope, queue, item, upto, sent, mishaps>>

\* The service dies and starts anew: what is in Redis is kept.
Crash ==
    /\ Fault
    /\ pc' = "sleep" /\ scope' = {} /\ queue' = {} /\ item' = NoItem
    /\ upto' = NoBlock /\ lastBlock' = NoBlock
    /\ UNCHANGED <<blocks, grown, redis, sent>>

-----------------------------------------------------------------------------
Init ==
    /\ network \in Networks
    /\ chain = [h \in Heights |-> Empty]
    /\ tip = 0 /\ grown = 0
    /\ joined = [a \in Addresses |-> NoBlock] /\ seen = {}
    /\ lastSig = [a \in Addresses |-> 0]
    /\ pc = "sleep" /\ scope = {} /\ queue = {} /\ item = NoItem
    /\ upto = NoBlock /\ lastBlock = NoBlock
    /\ sent = [t \in Transfers |-> 0]
    /\ spoiled = 0 /\ faults = 0

Watch ==
    \/ StartRound
    \/ \E a \in Addresses : PollSolana(a) \/ PollTron(a)
    \/ PollEthereum
    \/ \E t \in queue : Mark(t)
    \/ Publish
    \/ EndScan

Next ==
    \/ \E x \in Transactions : Mine(x) \/ \E h \in Heights : Reorganise(h, x)
    \/ \E a \in Addresses : AddAddress(a) \/ PollFails(a)
    \/ \E k \in seen : ExpireKey(k)
    \/ Watch
    \/ \E t \in queue : MarkFails(t)
    \/ RoundSkipped \/ FetchFails \/ PublishFails \/ Crash

Spec == Init /\ [][Next]_vars

\* The watcher's task runs on.
FairSpec == Spec /\ WF_vars(Watch)

-----------------------------------------------------------------------------
(* Properties                                                              *)

TypeOK ==
    /\ network \in Networks
    /\ chain \in [Heights -> Shapes]
    /\ tip \in 0..MaxHeight /\ grown \in 0..MaxGrowth
    /\ joined \in [Addresses -> 0..MaxHeight \cup {NoBlock}]
    /\ lastSig \in [Addresses -> 0..MaxHeight]
    /\ seen \subseteq [tx : Heights, asset : Assets]
    /\ pc \in {"sleep", "poll", "scan", "publish"}
    /\ scope \subseteq Addresses
    /\ queue \subseteq Transfers
    /\ IF pc = "publish" THEN item \in queue ELSE item = NoItem
    /\ {upto, lastBlock} \subseteq 0..MaxHeight \cup {NoBlock}
    /\ sent \in [Transfers -> 0..2]
    /\ spoiled \in 0..MaxHeight
    /\ faults \in 0..MaxFaults

\* The life of t's seen key is over.
Old(t) == tip >= t.tx + KeyLife

\* idempotency/store.rs: the watcher is the first line of defence against
\* duplicates.  No transfer is published twice, through errors, restarts and
\* repeated polls; only on Tron, which stores no position, may one that is still
\* on the first page come again when its key has expired.
PublishedOnce ==
    \A t \in Transfers : sent[t] > 1 => (network = "TRON" /\ Old(t))

\* What is published is on the chain for good, at the published place: no
\* reorganisation of Ethereum takes back a deposit that was announced.
PublishedAreFinal == \A t \in Transfers : sent[t] > 0 => Paid(t)

\* The addresses for which a transfer with t's seen key is looked at, and those
\* of them that compete with t for it.
Concerned(t) == IF network = "SOLANA" THEN chain[t.tx].parties ELSE chain[t.tx][t.asset]

Rivals(t) == Concerned(t) \ {t.to}

\* t pays an address that was watched before t was mined, and nobody else of the
\* platform takes part (one seen key for all); nothing has failed since it was
\* mined (a marked transfer is not tried again).
Due(t) ==
    /\ Paid(t) /\ t.to \in watched /\ t.tx > joined[t.to]
    /\ Rivals(t) = {}
    /\ t.tx > spoiled

Confirmed(t) == network = "ETHEREUM" => tip >= t.tx + Confirmations

\* Again and again the watcher has caught up: every confirmed transfer that is
\* due is published, also the first one to an address that joins in the middle of
\* a round, and the first one after an error or a restart: what fails costs no
\* transfer that was mined later.
Missed(t) == Due(t) /\ Confirmed(t) /\ sent[t] = 0

WatcherCatchesUp == []<>(\A t \in Transfers : ~Missed(t))

-----------------------------------------------------------------------------
(* The inductive invariant                                                 *)

\* Between rounds and polls nothing is queued.
QueueBelongsToScan == pc \in {"sleep", "poll"} => queue = {}

\* A published transfer has its key, as long as keys live; a transfer about to
\* be published was not published before, unless its key has expired.
SeenCovers ==
    /\ \A t \in Transfers : sent[t] > 0 => (Key(t) \in seen \/ Old(t))
    /\ pc = "publish" => /\ Key(item) \in seen \/ Old(item)
                         /\ sent[item] > 0 => Old(item)

\* Solana: nothing after the last signature and nothing queued was published.
SignaturesCover ==
    network = "SOLANA" =>
        \A t \in Transfers :
            /\ t \in queue => t.tx <= lastSig[t.to]
            /\ (t \in queue \/ t.tx > lastSig[t.to]) => sent[t] = 0

\* Ethereum: nothing after the scanned range was published; what is scanned
\* again after a restart is younger than the life of a key.
RangesCover ==
    network = "ETHEREUM" =>
        /\ \A t \in Transfers : sent[t] > 0 =>
             IF pc \in {"scan", "publish"} THEN t.tx <= upto
                                          ELSE lastBlock = NoBlock \/ t.tx <= lastBlock
        /\ \A t \in queue :
             /\ t.tx <= upto
             /\ sent[t] = 0 \/ tip <= t.tx + Confirmations + grown

\* Above the tip there is nothing; what is published is there; on Ethereum what
\* is queued or published is confirmed.
ScannedAreFinal ==
    /\ \A h \in Heights : h > tip => chain[h] = Empty
    /\ \A t \in Transfers :
         /\ sent[t] > 0 => Paid(t)
         /\ (network = "ETHEREUM" /\ (sent[t] > 0 \/ t \in queue)) =>
              t.tx + Confirmations <= tip /\ Paid(t)

\* Together these say what was published; they hold through errors and crashes.
SentInv ==
    /\ TypeOK
    /\ QueueBelongsToScan
    /\ SeenCovers
    /\ SignaturesCover
    /\ RangesCover
    /\ ScannedAreFinal
    /\ PublishedOnce

\* An address is taken from the round's scope when it is polled; Ethereum's are
\* taken together.
ScopeBelongsToRound ==
    /\ pc = "sleep" => scope = {}
    /\ (network = "ETHEREUM" /\ pc \in {"scan", "publish"}) => scope = {} /\ upto # NoBlock

\* What the watcher was shown of a block, its addresses, keys and positions, is
\* in a block that is there, on Ethereum a confirmed one.
Settled(h) == h <= IF network = "ETHEREUM" THEN SafeBlock ELSE tip

ShownIsSettled ==
    /\ \A h \in Heights :
         /\ chain[h].coin \cup chain[h].token \subseteq chain[h].parties
         /\ network = "SOLANA" => chain[h].token = {}
         /\ network = "TRON" => chain[h].coin = {}
    /\ \A a \in Addresses : lastSig[a] <= tip
    /\ network = "ETHEREUM" => Settled(lastBlock) /\ Settled(upto)
    /\ \A k \in seen : Settled(k.tx)
    /\ \A t \in queue : t.to \in Concerned(t)

\* An address that Ethereum's round does not know has joined since the round
\* began; and as long as no block was scanned since the start, every address has
\* joined, or something has failed, in this round or, if the round knows the
\* address, since the one before it.
Since(a) == tip - grown - (IF a \in scope THEN MaxGrowth ELSE 0)

NewcomersAreRecent ==
    network = "ETHEREUM" =>
        \A a \in watched :
            /\ pc = "poll" /\ a \notin scope => joined[a] >= Since(a)
            /\ lastBlock = NoBlock /\ pc \in {"sleep", "poll"} =>
                 joined[a] >= Since(a) \/ spoiled >= Since(a)

\* A poll to come hands t to the watcher: t is after the stored position, and
\* recent enough for the page.
StillAhead(t) ==
    /\ network = "SOLANA" => t.tx > lastSig[t.to]
    /\ network # "ETHEREUM" => t.tx > Since(t.to)
    /\ network = "ETHEREUM" =>
         t.tx > IF pc \in {"scan", "publish"} THEN upto ELSE lastBlock

\* t is in hand, or its key is free and it is queued or to come.
Accounted(t) ==
    \/ pc = "publish" /\ t = item
    \/ Key(t) \notin seen /\ (t \in queue \/ StillAhead(t))

\* The safety that catching up rests on: no cut-off page, stored position, marked
\* key or skipped block drops a transfer that is due, and a restart that forgets
\* the last block drops none that is mined after it.
NothingLost == \A t \in Transfers : (Due(t) /\ sent[t] = 0) => Accounted(t)

IInv ==
    /\ SentInv
    /\ ScopeBelongsToRound
    /\ ShownIsSettled
    /\ NewcomersAreRecent
    /\ NothingLost
=============================================================================
