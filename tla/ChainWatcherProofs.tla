-------------------------- MODULE ChainWatcherProofs --------------------------
(***************************************************************************)
(* Theorems about ChainWatcher, for all addresses, transactions and bounds *)
(* that satisfy WatcherAssumption.                                         *)
(***************************************************************************)
EXTENDS ChainWatcher, FiniteSetTheorems, TLAPS

LEMMA Constants ==
    /\ Transactions \subseteq Shapes
    /\ Confirmations \in Nat /\ KeyLife \in Nat /\ MaxGrowth \in Nat
    /\ MaxHeight \in Nat /\ MaxFaults \in Nat
    /\ MaxSigs \in Nat /\ TronLimit \in Nat
    /\ Confirmations + MaxGrowth < KeyLife
    /\ 2 * MaxGrowth <= Confirmations + 1
    /\ 2 * MaxGrowth <= MaxSigs /\ 2 * MaxGrowth <= TronLimit
    /\ \A x \in Transactions : x.coin \cup x.token \subseteq x.parties
BY WatcherAssumption

\* The parts of the invariant, by what they speak of: the keys, and each
\* network's own argument.
SafetyParts ==
    QueueBelongsToScan /\ SeenCovers /\ SignaturesCover /\ RangesCover /\ ScannedAreFinal

LEMMA PartsTyped ==
    ASSUME TypeOK, NEW t \in Transfers
    PROVE  /\ t.tx \in Nat /\ t.tx >= 1 /\ t.tx \in Heights
           /\ t.asset \in Assets /\ t.to \in Addresses
           /\ sent[t] \in 0..2 /\ lastSig[t.to] \in Nat /\ tip \in Nat
           /\ grown \in 0..MaxGrowth
<1>1. t.tx \in Heights /\ t.asset \in Assets /\ t.to \in Addresses
  BY DEF Transfers
<1> QED
  BY <1>1, Constants DEF TypeOK, Heights

\* What pays somebody is not above the tip.
LEMMA PaidBelowTip ==
    ASSUME TypeOK, ScannedAreFinal, NEW t \in Transfers, Paid(t)
    PROVE  t.tx <= tip
<1>1. SUFFICES ASSUME t.tx > tip PROVE FALSE
  BY PartsTyped
<1>2. chain[t.tx] = Empty
  BY <1>1, PartsTyped DEF ScannedAreFinal
<1>3. Empty[t.asset] = {}
  BY PartsTyped DEF Empty, Assets
<1> QED
  BY <1>2, <1>3 DEF Paid

\* The watcher's positions only move up, over everything it was handed.
LEMMA StoreLastSigCovers ==
    ASSUME TypeOK, NEW a \in Addresses, StoreLastSig(a)
    PROVE  /\ lastSig' \in [Addresses -> 0..MaxHeight]
           /\ \A b \in Addresses : lastSig[b] <= lastSig'[b]
           /\ \A h \in Signatures(a) : h <= lastSig'[a]
           /\ \A h \in Signatures(a) : h \in Heights /\ h > lastSig[a]
           /\ \A b \in Addresses : lastSig'[b] = lastSig[b] \/ lastSig'[b] \in 1..tip
           /\ \A b \in Addresses \ {a} : lastSig'[b] = lastSig[b]
<1> USE Constants
<1>1. \A h \in Signatures(a) : h \in 1..tip /\ h > lastSig[a]
  BY DEF Signatures, Newest
<1>2. \A h \in 1..tip : h \in Heights /\ h \in 0..MaxHeight
  BY DEF TypeOK, Heights
<1>3. CASE Signatures(a) = {}
  BY <1>1, <1>2, <1>3 DEF StoreLastSig, TypeOK
<1>4. CASE Signatures(a) # {}
  <2>1. PICK h \in Signatures(a) :
          /\ \A g \in Signatures(a) : g <= h
          /\ lastSig' = [lastSig EXCEPT ![a] = h]
    BY <1>4 DEF StoreLastSig
  <2> QED
    BY <1>1, <1>2, <2>1 DEF TypeOK
<1> QED
  BY <1>3, <1>4

\* A transfer the watcher is about to publish was not published before, unless
\* Tron's key has expired.
LEMMA ItemIsNew ==
    ASSUME TypeOK, SafetyParts, pc = "publish", sent[item] > 0
    PROVE  network = "TRON" /\ Old(item)
<1> USE Constants
<1>1. item \in queue /\ item \in Transfers
  BY DEF TypeOK
<1>2. Old(item)
  BY DEF SafetyParts, SeenCovers
<1>3. network # "SOLANA"
  BY <1>1, PartsTyped DEF SafetyParts, SignaturesCover
<1>4. network # "ETHEREUM"
  <2>1. SUFFICES ASSUME network = "ETHEREUM" PROVE FALSE
    OBVIOUS
  <2>2. tip <= item.tx + Confirmations + grown
    BY <1>1, <2>1, PartsTyped DEF SafetyParts, RangesCover
  <2> QED
    BY <1>1, <1>2, <2>2, PartsTyped DEF Old
<1> QED
  BY <1>2, <1>3, <1>4, WatcherAssumption DEF TypeOK

-----------------------------------------------------------------------------
(* Every step keeps the invariant                                          *)

LEMMA InitInvariant == Init => SentInv
<1> SUFFICES ASSUME Init PROVE SentInv
  OBVIOUS
<1> USE Constants
<1>1. Empty \in Shapes
  BY DEF Empty, Shapes
<1>2. TypeOK
  BY <1>1 DEF Init, TypeOK, NoBlock, Transfers, Heights
<1>3. \A t \in Transfers : sent[t] = 0
  BY DEF Init
<1>4. QueueBelongsToScan /\ SeenCovers /\ SignaturesCover /\ RangesCover
  BY <1>3 DEF Init, QueueBelongsToScan, SeenCovers, SignaturesCover, RangesCover
<1>5. ScannedAreFinal /\ PublishedOnce
  BY <1>3 DEF Init, ScannedAreFinal, PublishedOnce, Heights
<1> QED
  BY <1>2, <1>4, <1>5 DEF SentInv

\* Steps of the chain and of time: nothing of the watcher changes.
LEMMA MineKeeps ==
    ASSUME SentInv, NEW x \in Transactions, Mine(x) PROVE SentInv'
<1> USE Constants DEF blocks, mishaps, redis, loop
<1> SUFFICES ASSUME TypeOK, ScannedAreFinal
             PROVE  SentInv'
  BY DEF SentInv
<1>1. TypeOK'
  <2>1. chain' \in [Heights -> Shapes]
    BY DEF TypeOK, Mine
  <2>2. tip' \in 0..MaxHeight /\ grown' \in 0..MaxGrowth
    BY DEF TypeOK, Mine
  <2> QED
    BY <2>1, <2>2 DEF TypeOK, Mine
<1>2. ASSUME NEW t \in Transfers, Paid(t)
      PROVE  Paid(t)'
  BY <1>2, PaidBelowTip, PartsTyped DEF TypeOK, Mine, Paid
<1>3. ASSUME NEW t \in Transfers
      PROVE  Old(t) => Old(t)'
  BY PartsTyped DEF Old, Mine
<1>4. SeenCovers'
  BY <1>3 DEF SentInv, TypeOK, SeenCovers, Key, Mine, Old
<1>5. RangesCover'
  <2>1. ASSUME NEW t \in queue
        PROVE  tip <= t.tx + Confirmations + grown
                 => tip' <= t.tx + Confirmations + grown'
    BY PartsTyped DEF TypeOK, Mine
  <2> QED
    BY <2>1 DEF SentInv, RangesCover, Mine
<1>6. ScannedAreFinal'
  <2>1. \A h \in Heights : h > tip' => chain'[h] = Empty
    <3>1. /\ tip' = tip + 1 /\ tip \in Nat
          /\ chain' = [chain EXCEPT ![tip + 1] = x]
          /\ chain \in [Heights -> Shapes]
          /\ \A h \in Heights : h > tip => chain[h] = Empty
      BY DEF TypeOK, ScannedAreFinal, Mine
    <3>2. \A h \in Heights : h \in Nat
      BY DEF Heights
    <3> QED
      BY <3>1, <3>2
  <2>2. ASSUME NEW t \in Transfers, t.tx + Confirmations <= tip
        PROVE  t.tx + Confirmations <= tip'
    BY <2>2, PartsTyped DEF Mine
  <2> QED
    BY <1>2, <2>1, <2>2 DEF ScannedAreFinal, Mine
<1>7. QueueBelongsToScan' /\ SignaturesCover' /\ PublishedOnce'
  BY <1>3 DEF SentInv, QueueBelongsToScan, SignaturesCover, PublishedOnce, Mine
<1> QED
  BY <1>1, <1>4, <1>5, <1>6, <1>7 DEF SentInv

LEMMA ReorganiseKeeps ==
    ASSUME SentInv, NEW x \in Transactions, NEW h \in Heights, Reorganise(h, x)
    PROVE  SentInv'
<1> USE Constants DEF blocks, mishaps, redis, loop
<1>1. TypeOK'
  <2>1. chain' \in [Heights -> Shapes]
    BY DEF SentInv, TypeOK, Reorganise
  <2> QED
    BY <2>1 DEF SentInv, TypeOK, Reorganise
<1>2. ASSUME NEW t \in Transfers, t.tx + Confirmations <= tip, Paid(t)
      PROVE  Paid(t)'
  <2>1. t.tx # h
    BY <1>2, PartsTyped DEF SentInv, Reorganise, Heights
  <2> QED
    BY <1>2, <2>1, PartsTyped DEF SentInv, TypeOK, Reorganise, Paid
<1>3. ScannedAreFinal'
  <2>1. \A g \in Heights : g > tip' => chain'[g] = Empty
    BY DEF SentInv, TypeOK, ScannedAreFinal, Reorganise, Heights
  <2> QED
    BY <1>2, <2>1 DEF SentInv, ScannedAreFinal, Reorganise
<1>4. SeenCovers'
  BY DEF SentInv, SeenCovers, Old, Key, Reorganise
<1>5. QueueBelongsToScan' /\ SignaturesCover' /\ RangesCover' /\ PublishedOnce'
  BY DEF SentInv, QueueBelongsToScan, SignaturesCover, RangesCover, PublishedOnce, Old,
         Reorganise
<1> QED
  BY <1>1, <1>3, <1>4, <1>5 DEF SentInv

LEMMA AddAddressKeeps ==
    ASSUME SentInv, NEW a \in Addresses, AddAddress(a) PROVE SentInv'
<1> USE Constants DEF blocks, mishaps, loop
<1>1. TypeOK'
  BY DEF SentInv, TypeOK, AddAddress
<1>2. SeenCovers' /\ SignaturesCover' /\ RangesCover'
  BY DEF SentInv, SeenCovers, SignaturesCover, RangesCover, Old, AddAddress
<1>3. QueueBelongsToScan' /\ ScannedAreFinal' /\ PublishedOnce'
  BY DEF SentInv, QueueBelongsToScan, ScannedAreFinal, PublishedOnce, Old, Paid,
         AddAddress
<1> QED
  BY <1>1, <1>2, <1>3 DEF SentInv

LEMMA ExpireKeyKeeps ==
    ASSUME SentInv, NEW k \in seen, ExpireKey(k) PROVE SentInv'
<1> USE Constants DEF blocks, mishaps, loop
<1>1. TypeOK'
  BY DEF SentInv, TypeOK, ExpireKey
<1>2. ASSUME NEW t \in Transfers
      PROVE  Key(t) \in seen => Key(t) \in seen' \/ Old(t)'
  BY DEF Key, Old, ExpireKey
<1>3. ASSUME NEW t \in Transfers
      PROVE  Old(t) => Old(t)'
  BY DEF Old, ExpireKey
<1>4. SeenCovers'
  <2>1. pc = "publish" => item \in Transfers
    BY DEF SentInv, TypeOK
  <2> QED
    BY <1>2, <1>3, <2>1 DEF SentInv, SeenCovers, Key, Old, ExpireKey
<1>5. SignaturesCover' /\ RangesCover'
  BY DEF SentInv, SignaturesCover, RangesCover, ExpireKey
<1>6. QueueBelongsToScan' /\ ScannedAreFinal' /\ PublishedOnce'
  BY <1>3 DEF SentInv, QueueBelongsToScan, ScannedAreFinal, PublishedOnce, Paid,
              ExpireKey
<1> QED
  BY <1>1, <1>4, <1>5, <1>6 DEF SentInv

\* Steps that begin or skip a round, fail to poll, end a scan or restart the
\* service: nothing is published and nothing is queued.
LEMMA IdleStepKeeps ==
    ASSUME SentInv, TypeOK', UNCHANGED <<network, chain, tip, seen, sent>>,
           queue' = {}, pc' \in {"sleep", "poll"},
           \A a \in Addresses : lastSig[a] <= lastSig'[a],
           network = "ETHEREUM" =>
             \A t \in Transfers :
               sent[t] > 0 => lastBlock' = NoBlock \/ t.tx <= lastBlock'
    PROVE  SentInv'
<1> USE Constants
<1>1. QueueBelongsToScan' /\ RangesCover'
  BY DEF QueueBelongsToScan, RangesCover
<1>2. SignaturesCover'
  <2>1. ASSUME NEW t \in Transfers, t.tx > lastSig'[t.to]
        PROVE  t.tx > lastSig[t.to]
    <3>1. t.to \in Addresses /\ lastSig'[t.to] \in Nat
      BY PartsTyped DEF SentInv, TypeOK
    <3> QED
      BY <2>1, <3>1, PartsTyped DEF SentInv
  <2> QED
    BY <2>1 DEF SentInv, SignaturesCover
<1>3. SeenCovers'
  BY DEF SentInv, SeenCovers, Key, Old
<1>4. ScannedAreFinal' /\ PublishedOnce'
  BY DEF SentInv, ScannedAreFinal, PublishedOnce, Paid, Old
<1> QED
  BY <1>1, <1>2, <1>3, <1>4 DEF SentInv

LEMMA RoundKeeps ==
    ASSUME SentInv, StartRound \/ RoundSkipped PROVE SentInv'
<1> USE Constants DEF blocks, mishaps, redis, loop
<1>1. TypeOK'
  BY DEF SentInv, TypeOK, StartRound, RoundSkipped, Fault, watched
<1>2. UNCHANGED <<network, chain, tip, seen, sent, lastSig, lastBlock>>
  BY DEF StartRound, RoundSkipped
<1>3. pc' \in {"sleep", "poll"} /\ queue' = {}
  BY DEF SentInv, QueueBelongsToScan, StartRound, RoundSkipped
<1>4. \A a \in Addresses : lastSig[a] <= lastSig'[a]
  BY <1>2 DEF SentInv, TypeOK
<1>5. pc = "sleep"
  BY DEF StartRound, RoundSkipped
<1> QED
  BY <1>1, <1>2, <1>3, <1>4, <1>5, IdleStepKeeps DEF SentInv, RangesCover

LEMMA PollFailsKeeps ==
    ASSUME SentInv, NEW a \in Addresses, PollFails(a) PROVE SentInv'
<1> USE Constants DEF blocks, mishaps, redis, loop
<1>1. /\ lastSig' \in [Addresses -> 0..MaxHeight]
      /\ \A b \in Addresses : lastSig[b] <= lastSig'[b]
  <2>1. CASE UNCHANGED lastSig
    BY <2>1 DEF SentInv, TypeOK
  <2>2. CASE StoreLastSig(a)
    BY <2>2, StoreLastSigCovers DEF SentInv
  <2> QED
    BY <2>1, <2>2 DEF PollFails
<1>2. pc' \in {"sleep", "poll"} /\ scope' \subseteq Addresses
  BY DEF SentInv, TypeOK, PollFails
<1>3. TypeOK'
  BY <1>1, <1>2 DEF SentInv, TypeOK, PollFails, Fault
<1>4. queue' = {} /\ pc = "poll"
  BY DEF SentInv, QueueBelongsToScan, PollFails
<1> QED
  BY <1>1, <1>2, <1>3, <1>4, IdleStepKeeps DEF SentInv, RangesCover, PollFails

LEMMA EndScanKeeps ==
    ASSUME SentInv, EndScan PROVE SentInv'
<1> USE Constants DEF blocks, mishaps, redis, loop
<1>1. TypeOK'
  BY DEF SentInv, TypeOK, EndScan
<1>2. \A a \in Addresses : lastSig[a] <= lastSig'[a]
  BY DEF SentInv, TypeOK, EndScan
<1>3. network = "ETHEREUM" => \A t \in Transfers : sent[t] > 0 => t.tx <= lastBlock'
  BY DEF SentInv, RangesCover, EndScan
<1> QED
  BY <1>1, <1>2, <1>3, IdleStepKeeps DEF EndScan

LEMMA CrashKeeps ==
    ASSUME SentInv, Crash PROVE SentInv'
<1> USE Constants DEF blocks, mishaps, redis
<1>1. TypeOK'
  BY DEF SentInv, TypeOK, Crash, Fault
<1>2. \A a \in Addresses : lastSig[a] <= lastSig'[a]
  BY DEF SentInv, TypeOK, Crash
<1> QED
  BY <1>1, <1>2, IdleStepKeeps DEF Crash

-----------------------------------------------------------------------------
(* Polls                                                                   *)

LEMMA PollSolanaKeeps ==
    ASSUME SentInv, NEW a \in Addresses, PollSolana(a) PROVE SentInv'
<1> USE Constants DEF blocks, mishaps
<1>1. /\ lastSig' \in [Addresses -> 0..MaxHeight]
      /\ \A b \in Addresses : lastSig[b] <= lastSig'[b]
      /\ \A h \in Signatures(a) : h <= lastSig'[a]
      /\ \A h \in Signatures(a) : h \in Heights /\ h > lastSig[a]
  BY StoreLastSigCovers DEF SentInv, PollSolana
<1>2. ASSUME NEW t \in queue'
      PROVE  t \in Transfers /\ t.to = a /\ t.tx \in Signatures(a)
  BY <1>1 DEF PollSolana, Transfers, Assets
<1>3. TypeOK'
  BY <1>1, <1>2 DEF SentInv, TypeOK, PollSolana
<1>4. SignaturesCover'
  <2>1. ASSUME NEW t \in Transfers, t.tx > lastSig'[t.to] \/ t \in queue'
        PROVE  t.tx > lastSig[t.to]
    <3>1. t.to \in Addresses /\ lastSig'[t.to] \in Nat
      BY <1>1, PartsTyped DEF SentInv
    <3> QED
      BY <1>1, <1>2, <2>1, <3>1, PartsTyped DEF SentInv
  <2>2. \A t \in queue' : t.tx <= lastSig'[t.to]
    BY <1>1, <1>2
  <2> QED
    BY <2>1, <2>2 DEF SentInv, SignaturesCover, PollSolana
<1>5. SeenCovers' /\ QueueBelongsToScan' /\ RangesCover'
  BY DEF SentInv, SeenCovers, QueueBelongsToScan, RangesCover, Key, Old, PollSolana
<1>6. ScannedAreFinal' /\ PublishedOnce'
  BY DEF SentInv, ScannedAreFinal, PublishedOnce, Paid, Old, PollSolana
<1> QED
  BY <1>3, <1>4, <1>5, <1>6 DEF SentInv

LEMMA PollTronKeeps ==
    ASSUME SentInv, NEW a \in Addresses, PollTron(a) PROVE SentInv'
<1> USE Constants DEF blocks, mishaps, redis
<1>1. queue' \subseteq Transfers
  <2>1. \A h \in 1..tip : h \in Heights
    BY DEF SentInv, TypeOK, Heights
  <2>2. ASSUME NEW t \in queue'
        PROVE  \E h \in 1..tip : t = [tx |-> h, asset |-> "token", to |-> a]
    BY <2>2 DEF PollTron, Newest
  <2> QED
    BY <2>1, <2>2 DEF Transfers, Assets
<1>2. TypeOK'
  BY <1>1 DEF SentInv, TypeOK, PollTron
<1>3. SeenCovers' /\ QueueBelongsToScan' /\ SignaturesCover' /\ RangesCover'
  BY DEF SentInv, SeenCovers, QueueBelongsToScan, SignaturesCover, RangesCover, Key, Old,
         PollTron
<1>4. ScannedAreFinal' /\ PublishedOnce'
  BY DEF SentInv, ScannedAreFinal, PublishedOnce, Paid, Old, PollTron
<1> QED
  BY <1>2, <1>3, <1>4 DEF SentInv

LEMMA PollEthereumKeeps ==
    ASSUME SentInv, PollEthereum PROVE SentInv'
<1> USE Constants DEF blocks, mishaps, redis
<1>1. CASE FromBlock <= SafeBlock
  <2>1. SafeBlock \in 0..MaxHeight
    BY DEF SentInv, TypeOK, SafeBlock
  <2>2. TypeOK'
    BY <1>1, <2>1 DEF SentInv, TypeOK, PollEthereum
  <2>3. ASSUME NEW t \in queue'
        PROVE  /\ t \in Transfers /\ Paid(t) /\ t.tx <= SafeBlock /\ FromBlock <= t.tx
               /\ t.tx + Confirmations <= tip
    <3>1. t \in Transfers /\ Paid(t) /\ t.tx \in FromBlock..SafeBlock
      BY <1>1, <2>3 DEF PollEthereum
    <3> QED
      BY <3>1, PartsTyped DEF SentInv, SafeBlock
  <2>4. ASSUME NEW t \in queue'
        PROVE  sent[t] = 0 \/ tip <= t.tx + Confirmations + grown
    <3>1. CASE lastBlock = NoBlock
      BY <2>3, <3>1, PartsTyped DEF SentInv, FromBlock, SafeBlock
    <3>2. CASE lastBlock # NoBlock
      BY <2>3, <3>2, PartsTyped DEF SentInv, TypeOK, RangesCover, FromBlock, PollEthereum
    <3> QED
      BY <3>1, <3>2
  <2>5. ASSUME NEW t \in Transfers, sent[t] > 0
        PROVE  t.tx <= SafeBlock
    BY <2>5, PartsTyped DEF SentInv, ScannedAreFinal, SafeBlock, PollEthereum
  <2>6. RangesCover'
    BY <1>1, <2>3, <2>4, <2>5 DEF RangesCover, PollEthereum
  <2>7. ScannedAreFinal' /\ PublishedOnce'
    BY <2>3 DEF SentInv, ScannedAreFinal, PublishedOnce, Paid, Old, PollEthereum
  <2>8. SeenCovers' /\ QueueBelongsToScan' /\ SignaturesCover'
    BY <1>1 DEF SentInv, SeenCovers, QueueBelongsToScan, SignaturesCover, Key, Old,
                PollEthereum
  <2> QED
    BY <2>2, <2>6, <2>7, <2>8 DEF SentInv
<1>2. CASE ~(FromBlock <= SafeBlock)
  <2>1. TypeOK'
    BY <1>2 DEF SentInv, TypeOK, PollEthereum
  <2>2. \A a \in Addresses : lastSig[a] <= lastSig'[a]
    BY DEF SentInv, TypeOK, PollEthereum
  <2> QED
    BY <1>2, <2>1, <2>2, IdleStepKeeps
       DEF SentInv, QueueBelongsToScan, RangesCover, PollEthereum
<1> QED
  BY <1>1, <1>2

-----------------------------------------------------------------------------
(* Steps of a scan                                                         *)

\* A transfer leaves the queue, published or not.
LEMMA ScanStepKeeps ==
    ASSUME SentInv, TypeOK', UNCHANGED <<network, chain, tip, grown, lastSig, upto, lastBlock>>,
           pc \in {"scan", "publish"}, pc' = "scan",
           queue' \subseteq queue, seen \subseteq seen',
           \/ UNCHANGED sent
           \/ pc = "publish" /\ Paid(item) /\ item \notin queue' /\ Deliver(item)
    PROVE  SentInv'
<1> USE Constants
<1>1. pc = "publish" => item \in queue /\ item \in Transfers
  BY DEF SentInv, TypeOK
<1>2. ASSUME NEW t \in Transfers
      PROVE  \/ sent'[t] = sent[t]
             \/ /\ pc = "publish" /\ t = item /\ Paid(t) /\ t \notin queue'
                /\ sent'[t] = IF sent[t] = 0 THEN 1 ELSE 2
  BY <1>1 DEF SentInv, TypeOK, Deliver
<1>3. SeenCovers'
  BY <1>1, <1>2 DEF SentInv, SeenCovers, Key, Old
<1>4. SignaturesCover'
  <2>1. SUFFICES ASSUME network = "SOLANA", NEW t \in Transfers
                 PROVE  /\ t \in queue' => t.tx <= lastSig[t.to]
                        /\ (t \in queue' \/ t.tx > lastSig[t.to]) => sent'[t] = 0
    BY DEF SignaturesCover
  <2>2. sent'[t] = sent[t] \/ (t \in queue /\ t \notin queue')
    BY <1>1, <1>2
  <2> QED
    BY <2>1, <2>2, PartsTyped DEF SentInv, SignaturesCover
<1>5. RangesCover'
  <2>1. SUFFICES ASSUME network = "ETHEREUM"
                 PROVE  /\ \A t \in Transfers : sent'[t] > 0 => t.tx <= upto
                        /\ \A t \in queue' : /\ t.tx <= upto
                                             /\ \/ sent'[t] = 0
                                                \/ tip <= t.tx + Confirmations + grown
    BY DEF RangesCover
  <2>2. ASSUME NEW t \in Transfers, sent'[t] > 0
        PROVE  t.tx <= upto
    BY <1>1, <1>2, <2>1, <2>2 DEF SentInv, RangesCover
  <2>3. ASSUME NEW t \in queue'
        PROVE  t.tx <= upto /\ (sent'[t] = 0 \/ tip <= t.tx + Confirmations + grown)
    <3>1. t \in Transfers /\ t \in queue
      BY DEF SentInv, TypeOK
    <3> QED
      BY <1>2, <2>1, <3>1 DEF SentInv, RangesCover
  <2> QED
    BY <2>2, <2>3
<1>6. ScannedAreFinal'
  <2>1. ASSUME NEW t \in Transfers
        PROVE  /\ sent'[t] > 0 => Paid(t)
               /\ (network = "ETHEREUM" /\ (sent'[t] > 0 \/ t \in queue')) =>
                    t.tx + Confirmations <= tip /\ Paid(t)
    BY <1>1, <1>2 DEF SentInv, ScannedAreFinal
  <2> QED
    BY <2>1 DEF SentInv, ScannedAreFinal, Paid
<1>7. PublishedOnce'
  <2>1. SUFFICES ASSUME NEW t \in Transfers, sent'[t] > 1
                 PROVE  network = "TRON" /\ Old(t)
    BY DEF PublishedOnce, Old
  <2>2. CASE sent'[t] = sent[t]
    BY <2>1, <2>2 DEF SentInv, PublishedOnce
  <2>3. CASE sent'[t] # sent[t]
    <3>1. t = item /\ pc = "publish" /\ sent[item] > 0
      BY <1>2, <2>1, <2>3, PartsTyped DEF SentInv
    <3> QED
      BY <3>1, ItemIsNew DEF SentInv, SafetyParts
  <2> QED
    BY <2>2, <2>3
<1>8. QueueBelongsToScan'
  BY DEF QueueBelongsToScan
<1> QED
  BY <1>3, <1>4, <1>5, <1>6, <1>7, <1>8 DEF SentInv

LEMMA MarkKeeps ==
    ASSUME SentInv, NEW t \in queue, Mark(t) PROVE SentInv'
<1> USE Constants DEF blocks, mishaps
<1>1. t \in Transfers /\ Key(t) \in [tx : Heights, asset : Assets]
  BY PartsTyped DEF SentInv, TypeOK, Key
<1>2. TypeOK'
  BY <1>1 DEF SentInv, TypeOK, Mark
<1>3. CASE Key(t) \in seen
  <2>1. UNCHANGED <<pc, sent>> /\ queue' \subseteq queue /\ seen \subseteq seen'
    BY <1>3 DEF Mark
  <2> QED
    BY <1>2, <2>1, ScanStepKeeps DEF Mark
<1>4. CASE Key(t) \notin seen
  <2>1. sent[t] > 0 => Old(t)
    BY <1>1, <1>4 DEF SentInv, SeenCovers
  <2>2. SeenCovers'
    BY <1>4, <2>1 DEF SentInv, SeenCovers, Key, Old, Mark
  <2>3. RangesCover'
    BY <1>4 DEF SentInv, RangesCover, Mark
  <2>4. QueueBelongsToScan' /\ SignaturesCover'
    BY <1>4 DEF QueueBelongsToScan, SentInv, SignaturesCover, Mark
  <2>5. ScannedAreFinal' /\ PublishedOnce'
    BY <1>4 DEF SentInv, ScannedAreFinal, PublishedOnce, Paid, Old, Mark
  <2> QED
    BY <1>2, <2>2, <2>3, <2>4, <2>5 DEF SentInv
<1> QED
  BY <1>3, <1>4

LEMMA MarkFailsKeeps ==
    ASSUME SentInv, NEW t \in queue, MarkFails(t) PROVE SentInv'
<1> USE Constants DEF blocks, mishaps
<1>1. Key(t) \in [tx : Heights, asset : Assets]
  BY PartsTyped DEF SentInv, TypeOK, Key
<1>2. queue' \subseteq queue /\ seen \subseteq seen'
  BY DEF MarkFails, AfterError
<1>3. faults' \in 0..MaxFaults /\ spoiled' \in 0..MaxHeight
  BY DEF SentInv, TypeOK, MarkFails, Fault
<1>4. TypeOK'
  BY <1>1, <1>2, <1>3 DEF SentInv, TypeOK, MarkFails
<1> QED
  BY <1>2, <1>4, ScanStepKeeps DEF MarkFails

\* The item leaves the queue, published or given up.
LEMMA PublishKeeps ==
    ASSUME SentInv, Publish \/ FetchFails \/ PublishFails PROVE SentInv'
<1> USE Constants DEF blocks, mishaps, redis
<1>1. pc = "publish" /\ item \in Transfers
  BY DEF SentInv, TypeOK, Publish, FetchFails, PublishFails
<1>2. queue' \subseteq queue /\ item \notin queue' /\ Finished
  BY DEF Publish, FetchFails, PublishFails, AfterError
<1>3. UNCHANGED sent \/ (Paid(item) /\ Deliver(item))
  BY DEF Publish, FetchFails, PublishFails
<1>4. faults' \in 0..MaxFaults /\ spoiled' \in 0..MaxHeight
  BY DEF SentInv, TypeOK, Publish, FetchFails, PublishFails, Fault
<1>5. sent' \in [Transfers -> 0..2]
  BY <1>3 DEF SentInv, TypeOK, Deliver
<1>6. UNCHANGED <<blocks, grown, redis, scope, upto, lastBlock>>
  BY DEF Publish, FetchFails, PublishFails
<1>7. TypeOK'
  BY <1>2, <1>4, <1>5, <1>6 DEF SentInv, TypeOK, Finished
<1> QED
  BY <1>1, <1>2, <1>3, <1>6, <1>7, ScanStepKeeps DEF Finished

LEMMA NextKeeps == SentInv /\ [Next]_vars => SentInv'
<1> SUFFICES ASSUME SentInv, [Next]_vars PROVE SentInv'
  OBVIOUS
<1>1. ASSUME NEW x \in Transactions, Mine(x) PROVE SentInv'
  BY <1>1, MineKeeps
<1>2. ASSUME NEW x \in Transactions, NEW h \in Heights, Reorganise(h, x) PROVE SentInv'
  BY <1>2, ReorganiseKeeps
<1>3. ASSUME NEW a \in Addresses, AddAddress(a) \/ PollFails(a) PROVE SentInv'
  BY <1>3, AddAddressKeeps, PollFailsKeeps
<1>4. ASSUME NEW k \in seen, ExpireKey(k) PROVE SentInv'
  BY <1>4, ExpireKeyKeeps
<1>5. ASSUME Watch PROVE SentInv'
  <2>1. ASSUME NEW a \in Addresses, PollSolana(a) \/ PollTron(a) PROVE SentInv'
    BY <2>1, PollSolanaKeeps, PollTronKeeps
  <2>2. ASSUME NEW t \in queue, Mark(t) PROVE SentInv'
    BY <2>2, MarkKeeps
  <2> QED
    BY <1>5, <2>1, <2>2, RoundKeeps, PollEthereumKeeps, PublishKeeps, EndScanKeeps DEF Watch
<1>6. ASSUME NEW t \in queue, MarkFails(t) PROVE SentInv'
  BY <1>6, MarkFailsKeeps
<1>7. CASE RoundSkipped \/ FetchFails \/ PublishFails \/ Crash
  BY <1>7, RoundKeeps, PublishKeeps, CrashKeeps
<1>8. CASE UNCHANGED vars
  <2>1. TypeOK' /\ QueueBelongsToScan'
    BY <1>8 DEF SentInv, TypeOK, QueueBelongsToScan, vars, blocks, redis, loop,
       mishaps
  <2>2. SeenCovers' /\ SignaturesCover' /\ RangesCover'
    BY <1>8 DEF SentInv, SeenCovers, SignaturesCover, RangesCover, Old, vars, blocks, redis, loop
  <2>3. ScannedAreFinal' /\ PublishedOnce'
    BY <1>8 DEF SentInv, ScannedAreFinal, PublishedOnce, Paid, Old, vars, blocks, redis, loop
  <2> QED
    BY <2>1, <2>2, <2>3 DEF SentInv
<1> QED
  BY <1>1, <1>2, <1>3, <1>4, <1>5, <1>6, <1>7, <1>8 DEF Next

-----------------------------------------------------------------------------
(* What the watcher was shown is settled                                   *)

\* What a Settled height says in numbers.
LEMMA SettledMeans ==
    ASSUME TypeOK, NEW h \in Nat
    PROVE  Settled(h) <=> \/ network # "ETHEREUM" /\ h <= tip
                          \/ network = "ETHEREUM" /\ (h = 0 \/ h + Confirmations <= tip)
BY Constants DEF TypeOK, Settled, SafeBlock

\* Nobody is concerned by a transfer above the tip.
LEMMA ConcernedBelowTip ==
    ASSUME TypeOK, ScannedAreFinal, NEW t \in Transfers, Concerned(t) # {}
    PROVE  t.tx <= tip
<1>1. SUFFICES ASSUME t.tx > tip PROVE FALSE
  BY PartsTyped
<1>2. chain[t.tx] = Empty
  BY <1>1, PartsTyped DEF ScannedAreFinal
<1>3. Empty.parties = {} /\ Empty[t.asset] = {}
  BY PartsTyped DEF Empty, Assets
<1> QED
  BY <1>2, <1>3 DEF Concerned

\* What is queued is in a settled block.
LEMMA QueueSettled ==
    ASSUME SentInv, ShownIsSettled, NEW t \in queue
    PROVE  t \in Transfers /\ t.tx <= tip /\ Settled(t.tx)
<1>1. t \in Transfers
  BY DEF SentInv, TypeOK
<1>2. t.tx <= tip
  BY <1>1, ConcernedBelowTip DEF SentInv, ShownIsSettled
<1>3. network = "ETHEREUM" => t.tx + Confirmations <= tip
  BY <1>1 DEF SentInv, ScannedAreFinal
<1> QED
  BY <1>1, <1>2, <1>3, SettledMeans, PartsTyped DEF SentInv

\* The parts of ShownIsSettled.
BlocksMatch ==
    \A h \in Heights :
        /\ chain[h].coin \cup chain[h].token \subseteq chain[h].parties
        /\ network = "SOLANA" => chain[h].token = {}
        /\ network = "TRON" => chain[h].coin = {}

PositionsSettled ==
    /\ \A a \in Addresses : lastSig[a] <= tip
    /\ network = "ETHEREUM" => Settled(lastBlock) /\ Settled(upto)
    /\ \A k \in seen : Settled(k.tx)

QueueConcerns == \A t \in queue : t.to \in Concerned(t)

LEMMA BlocksMatchStep ==
    ASSUME SentInv, BlocksMatch, [Next]_vars PROVE BlocksMatch'
<1> USE DEF BlocksMatch, blocks, mishaps
<1>1. ASSUME NEW x \in Transactions, NEW h \in Heights,
             Possible(x), network' = network, chain' = [chain EXCEPT ![h] = x]
      PROVE  BlocksMatch'
  BY <1>1, Constants DEF SentInv, TypeOK, Possible
<1>2. ASSUME NEW x \in Transactions, Mine(x) PROVE BlocksMatch'
  <2>1. tip + 1 \in Heights
    BY <1>2, Constants DEF SentInv, TypeOK, Mine, Heights
  <2> QED
    BY <1>1, <1>2, <2>1 DEF Mine
<1>3. ASSUME NEW x \in Transactions, NEW h \in Heights, Reorganise(h, x)
      PROVE  BlocksMatch'
  <2>1. Possible(x) /\ network' = network /\ chain' = [chain EXCEPT ![h] = x]
    BY <1>3 DEF Reorganise
  <2> QED
    BY <1>1, <2>1
<1>4. CASE UNCHANGED <<network, chain>>
  BY <1>4
<1> QED
  BY <1>2, <1>3, <1>4 DEF Next, Watch, vars, AddAddress, PollFails, ExpireKey, StartRound,
     PollSolana, PollTron, PollEthereum, Mark, MarkFails, Publish, EndScan, RoundSkipped,
     FetchFails, PublishFails, Crash

\* Settled heights stay settled as the chain grows.
LEMMA SettledStays ==
    ASSUME tip \in Nat, tip' \in Nat, network' = network, tip' >= tip
    PROVE  /\ \A h \in Nat : Settled(h) => Settled(h)'
           /\ SafeBlock \in Nat /\ SafeBlock' \in Nat /\ SafeBlock <= SafeBlock'
<1>1. PICK n \in Nat : n = tip'
  OBVIOUS
<1>2. /\ SafeBlock = IF tip >= Confirmations THEN tip - Confirmations ELSE 0
      /\ SafeBlock' = IF n >= Confirmations THEN n - Confirmations ELSE 0
  BY <1>1 DEF SafeBlock
<1>3. n >= tip /\ Confirmations \in Nat
  BY <1>1, Constants
<1>4. SafeBlock \in Nat /\ SafeBlock' \in Nat /\ SafeBlock <= SafeBlock'
  BY <1>2, <1>3
<1> QED
  BY <1>4 DEF Settled

LEMMA PositionsSettledStep ==
    ASSUME SentInv, SentInv', ShownIsSettled, [Next]_vars PROVE PositionsSettled'
<1> USE DEF PositionsSettled, blocks, mishaps, redis, loop
<1> USE Constants
<1>1. /\ TypeOK /\ TypeOK' /\ PositionsSettled
      /\ network' = network /\ tip' >= tip /\ tip \in Nat /\ tip' \in Nat
  <2>1. network' = network
    BY DEF Next, Watch, vars, Mine, Reorganise, AddAddress, PollFails, ExpireKey,
       StartRound, PollSolana, PollTron, PollEthereum, Mark, MarkFails, Publish, EndScan,
       RoundSkipped, FetchFails, PublishFails, Crash
  <2>2. tip' = tip \/ tip' = tip + 1
    BY DEF Next, Watch, vars, Mine, Reorganise, AddAddress, PollFails, ExpireKey,
       StartRound, PollSolana, PollTron, PollEthereum, Mark, MarkFails, Publish, EndScan,
       RoundSkipped, FetchFails, PublishFails, Crash
  <2> QED
    BY <2>1, <2>2 DEF SentInv, TypeOK, ShownIsSettled
<1>2. \A h \in Nat : Settled(h) => Settled(h)'
  BY <1>1, SettledStays
<1>3. \A a \in Addresses : lastSig'[a] <= tip'
  <2>1. ASSUME NEW a \in Addresses, StoreLastSig(a)
        PROVE  \A b \in Addresses : lastSig'[b] = lastSig[b] \/ lastSig'[b] \in 1..tip
    BY <1>1, <2>1, StoreLastSigCovers
  <2>2. \/ lastSig' = lastSig
        \/ \E a \in Addresses : StoreLastSig(a)
    BY DEF Next, Watch, vars, Mine, Reorganise, AddAddress, PollFails, ExpireKey,
       StartRound, PollSolana, PollTron, PollEthereum, Mark, MarkFails, Publish, EndScan,
       RoundSkipped, FetchFails, PublishFails, Crash
  <2>3. \A b \in Addresses : lastSig'[b] = lastSig[b] \/ lastSig'[b] \in 1..tip
    BY <2>1, <2>2
  <2>4. \A b \in Addresses : lastSig[b] \in Nat /\ lastSig'[b] \in Nat
    BY <1>1 DEF TypeOK
  <2> QED
    BY <1>1, <2>3, <2>4
<1>4. ASSUME network = "ETHEREUM" PROVE (Settled(lastBlock) /\ Settled(upto))'
  <2>1. {lastBlock', upto'} \subseteq {lastBlock, upto, NoBlock, SafeBlock}
    <3>1. CASE PollEthereum \/ EndScan \/ Crash
      BY <1>4, <3>1 DEF PollEthereum, EndScan, Crash
    <3>2. CASE UNCHANGED <<lastBlock, upto>>
      BY <3>2
    <3>3. ASSUME NEW a \in Addresses,
                 AddAddress(a) \/ PollFails(a) \/ PollSolana(a) \/ PollTron(a)
          PROVE  UNCHANGED <<lastBlock, upto>>
      BY <3>3 DEF AddAddress, PollFails, PollSolana, PollTron
    <3>4. ASSUME NEW x \in Transactions, Mine(x) \/ \E h \in Heights : Reorganise(h, x)
          PROVE  UNCHANGED <<lastBlock, upto>>
      BY <3>4 DEF Mine, Reorganise
    <3>5. ASSUME NEW t \in queue, Mark(t) \/ MarkFails(t)
          PROVE  UNCHANGED <<lastBlock, upto>>
      BY <3>5 DEF Mark, MarkFails
    <3>6. CASE \/ StartRound \/ RoundSkipped \/ Publish \/ FetchFails \/ PublishFails
               \/ UNCHANGED vars \/ \E k \in seen : ExpireKey(k)
      BY <3>2, <3>6 DEF StartRound, RoundSkipped, Publish, FetchFails, PublishFails, vars,
         ExpireKey
    <3> QED
      BY <3>1, <3>2, <3>3, <3>4, <3>5, <3>6 DEF Next, Watch
  <2>2. lastBlock <= SafeBlock /\ upto <= SafeBlock
    BY <1>1, <1>4 DEF Settled
  <2>3. SafeBlock \in Nat /\ SafeBlock' \in Nat /\ SafeBlock <= SafeBlock'
    BY <1>1, SettledStays
  <2>4. lastBlock \in Int /\ upto \in Int /\ NoBlock \in Int /\ NoBlock < 0
    BY <1>1 DEF TypeOK, NoBlock
  <2>5. \A p \in {lastBlock, upto, NoBlock, SafeBlock} : p \in Int /\ p <= SafeBlock'
    BY <2>2, <2>3, <2>4
  <2> QED
    BY <1>1, <1>4, <2>1, <2>5 DEF Settled
<1>5. ASSUME NEW k \in seen' PROVE Settled(k.tx)'
  <2>1. k \in seen \/ \E t \in queue : k = Key(t)
    BY DEF Next, Watch, vars, Mine, Reorganise, AddAddress, PollFails, ExpireKey,
       StartRound, PollSolana, PollTron, PollEthereum, Mark, MarkFails, Publish, EndScan,
       RoundSkipped, FetchFails, PublishFails, Crash
  <2>2. Settled(k.tx)
    BY <1>1, <2>1, QueueSettled DEF Key
  <2>3. k.tx \in Nat
    BY <1>1 DEF TypeOK, Heights
  <2> QED
    BY <1>2, <2>2, <2>3
<1> QED
  BY <1>1, <1>3, <1>4, <1>5

LEMMA QueueConcernsStep ==
    ASSUME SentInv, ShownIsSettled, [Next]_vars PROVE QueueConcerns'
<1> USE DEF QueueConcerns, blocks, mishaps, redis, loop
<1> USE Constants
<1>1. TypeOK /\ QueueConcerns
  BY DEF SentInv, ShownIsSettled
<1>2. CASE UNCHANGED <<network, chain>> /\ queue' \subseteq queue
  BY <1>1, <1>2 DEF Concerned
<1>3. ASSUME NEW x \in Transactions, Mine(x) PROVE QueueConcerns'
  <2>1. \A t \in queue : t \in Transfers /\ t.tx <= tip
    BY QueueSettled
  <2>2. \A t \in queue : chain'[t.tx] = chain[t.tx]
    BY <1>1, <1>3, <2>1, PartsTyped DEF Mine, TypeOK
  <2>3. queue' = queue /\ network' = network
    BY <1>3 DEF Mine
  <2>4. \A t \in queue : Concerned(t)' = Concerned(t)
    BY <2>2, <2>3 DEF Concerned
  <2> QED
    BY <1>1, <2>3, <2>4
<1>4. ASSUME NEW x \in Transactions, NEW h \in Heights, Reorganise(h, x)
      PROVE  QueueConcerns'
  <2>1. \A t \in queue : t \in Transfers /\ t.tx + Confirmations <= tip
    BY <1>1, <1>4 DEF TypeOK, SentInv, ScannedAreFinal, Reorganise
  <2>2. h \in Nat /\ tip - h < Confirmations /\ tip \in Nat
    BY <1>1, <1>4 DEF Reorganise, TypeOK, Heights
  <2>3. \A t \in queue : t.tx # h
    BY <2>1, <2>2, <1>1, PartsTyped
  <2>4. \A t \in queue : chain'[t.tx] = chain[t.tx]
    BY <1>1, <1>4, <2>1, <2>3, PartsTyped DEF Reorganise, TypeOK
  <2> QED
    BY <1>1, <1>4, <2>4 DEF Reorganise, Concerned
<1>5. ASSUME NEW a \in Addresses, PollSolana(a) PROVE QueueConcerns'
  <2>1. UNCHANGED <<network, chain>> /\ network = "SOLANA"
    BY <1>5 DEF PollSolana
  <2>2. ASSUME NEW t \in queue' PROVE t.to \in chain[t.tx].parties
    <3>1. PICK h \in Signatures(a) : t = [tx |-> h, asset |-> "coin", to |-> a]
      BY <1>5, <2>2 DEF PollSolana
    <3>2. a \in chain[h].parties
      BY <3>1 DEF Signatures, Newest
    <3> QED
      BY <3>1, <3>2
  <2> QED
    BY <2>1, <2>2 DEF Concerned
<1>6. ASSUME NEW a \in Addresses, PollTron(a) PROVE QueueConcerns'
  <2>1. UNCHANGED <<network, chain>> /\ network = "TRON"
    BY <1>6 DEF PollTron
  <2>2. ASSUME NEW t \in queue' PROVE t.to \in chain[t.tx][t.asset]
    <3>1. PICK h : t = [tx |-> h, asset |-> "token", to |-> a] /\ a \in chain[h].token
      BY <1>6, <2>2 DEF PollTron
    <3>2. t.tx = h /\ t.asset = "token" /\ t.to = a
      BY <3>1
    <3> QED
      BY <3>1, <3>2
  <2> QED
    BY <2>1, <2>2 DEF Concerned
<1>7. CASE PollEthereum
  BY <1>1, <1>7 DEF PollEthereum, Paid, Concerned
<1>8. CASE UNCHANGED vars
  BY <1>2, <1>8 DEF vars
<1>9. ASSUME NEW a \in Addresses, AddAddress(a) \/ PollFails(a) PROVE QueueConcerns'
  BY <1>2, <1>9 DEF AddAddress, PollFails
<1>10. ASSUME NEW t \in queue, Mark(t) \/ MarkFails(t) PROVE QueueConcerns'
  BY <1>2, <1>10 DEF Mark, MarkFails, AfterError
<1>11. CASE StartRound \/ Publish \/ EndScan \/ RoundSkipped \/ FetchFails
            \/ PublishFails \/ Crash \/ \E k \in seen : ExpireKey(k)
  BY <1>2, <1>11 DEF StartRound, Publish, EndScan, RoundSkipped, FetchFails, PublishFails,
     Crash, ExpireKey, AfterError
<1> QED
  BY <1>3, <1>4, <1>5, <1>6, <1>7, <1>8, <1>9, <1>10, <1>11 DEF Next, Watch

LEMMA ShownIsSettledStep ==
    ASSUME SentInv, SentInv', ShownIsSettled, [Next]_vars PROVE ShownIsSettled'
BY BlocksMatchStep, PositionsSettledStep, QueueConcernsStep
DEF ShownIsSettled, BlocksMatch, PositionsSettled, QueueConcerns

LEMMA ScopeStep ==
    ASSUME SentInv, ScopeBelongsToRound, [Next]_vars PROVE ScopeBelongsToRound'
<1> USE DEF ScopeBelongsToRound, blocks, mishaps, redis, loop
<1>1. SafeBlock # NoBlock
  BY Constants DEF SentInv, TypeOK, SafeBlock, NoBlock
<1>2. \A a : (PollSolana(a) \/ PollTron(a)) => network # "ETHEREUM"
  BY DEF PollSolana, PollTron
<1> QED
  BY <1>1, <1>2 DEF Next, Watch, vars, Mine, Reorganise, AddAddress, PollFails, ExpireKey,
     StartRound, PollSolana, PollTron, PollEthereum, Mark, MarkFails, Publish, EndScan,
     RoundSkipped, FetchFails, PublishFails, Crash, Finished
-----------------------------------------------------------------------------
(* Addresses that no scan was made for have joined lately                  *)

\* The numbers of a state.
LEMMA Numbers ==
    ASSUME TypeOK
    PROVE  /\ tip \in Nat /\ grown \in Nat /\ grown <= MaxGrowth
           /\ MaxGrowth \in Nat
           /\ \A a \in Addresses : /\ joined[a] \in Int
                                   /\ lastSig[a] \in Nat
                                   /\ Since(a) \in Int /\ Since(a) <= tip
                                   /\ a \in scope => Since(a) = tip - grown - MaxGrowth
                                   /\ a \notin scope => Since(a) = tip - grown
           /\ lastBlock \in Int /\ upto \in Int
BY Constants DEF TypeOK, Since, NoBlock

\* Nothing is said of an address that was or is being scanned for.
LEMMA NothingToSay ==
    ASSUME network' = network,
           network = "ETHEREUM" =>
             \/ pc' \in {"scan", "publish"}
             \/ pc' = "sleep" /\ lastBlock' # NoBlock
             \/ pc' = "sleep" /\ \A a \in Addresses : spoiled' >= Since(a)'
    PROVE  NewcomersAreRecent'
BY DEF NewcomersAreRecent, watched

LEMMA NewcomersStep ==
    ASSUME SentInv, ScopeBelongsToRound, NewcomersAreRecent, [Next]_vars
    PROVE  NewcomersAreRecent'
<1> USE DEF blocks, mishaps, redis, loop
<1> USE Constants
<1>1. TypeOK
  BY DEF SentInv
<1>2. ASSUME UNCHANGED <<network, tip, grown, joined, scope, pc, lastBlock, spoiled>>
      PROVE  NewcomersAreRecent'
  BY <1>2 DEF NewcomersAreRecent, watched, Since
<1>3. ASSUME NEW x \in Transactions, Mine(x) PROVE NewcomersAreRecent'
  <2>1. \A a \in Addresses : Since(a)' = Since(a)
    <3>1. tip' = tip + 1 /\ grown' = grown + 1 /\ scope' = scope
      BY <1>3 DEF Mine
    <3> QED
      BY <1>1, <3>1, Numbers DEF Since
  <2> QED
    BY <1>3, <2>1 DEF Mine, NewcomersAreRecent, watched
<1>4. ASSUME NEW a \in Addresses, AddAddress(a) PROVE NewcomersAreRecent'
  <2>1. \A b \in Addresses : joined'[b] = IF b = a THEN tip ELSE joined[b]
    BY <1>1, <1>4 DEF AddAddress, TypeOK
  <2>2. /\ UNCHANGED <<network, tip, grown, scope, pc, lastBlock, spoiled>>
        /\ \A b \in Addresses : Since(b)' = Since(b)
    BY <1>4 DEF AddAddress, Since
  <2>3. Since(a) <= tip
    BY <1>1, Numbers
  <2> QED
    BY <2>1, <2>2, <2>3 DEF NewcomersAreRecent, watched
<1>5. CASE StartRound
  <2>1. /\ pc = "sleep" /\ scope = {} /\ scope' = watched /\ grown' = 0
        /\ UNCHANGED <<network, tip, joined, lastBlock, spoiled>>
    BY <1>5 DEF StartRound, ScopeBelongsToRound
  <2>2. SUFFICES ASSUME network = "ETHEREUM", NEW a \in watched, lastBlock = NoBlock
                 PROVE  joined[a] >= Since(a)' \/ spoiled >= Since(a)'
    BY <2>1 DEF NewcomersAreRecent, watched
  <2>3. joined[a] >= Since(a) \/ spoiled >= Since(a)
    BY <2>1, <2>2 DEF NewcomersAreRecent
  <2>4. a \in Addresses /\ spoiled \in Int
    BY <1>1 DEF watched, TypeOK
  <2>5. Since(a)' = tip - 0 - MaxGrowth
    BY <2>1 DEF Since
  <2>6. Since(a) = tip - grown
    BY <1>1, <2>1, <2>4, Numbers
  <2> QED
    BY <1>1, <2>3, <2>4, <2>5, <2>6, Numbers
<1>6. CASE PollEthereum
  <2>1. SafeBlock \in Nat
    BY <1>1 DEF TypeOK, SafeBlock
  <2>2. lastBlock = NoBlock => FromBlock <= SafeBlock
    BY <2>1 DEF FromBlock
  <2> QED
    BY <1>6, <2>2, NothingToSay DEF PollEthereum
<1>7. CASE EndScan
  BY <1>7, NothingToSay DEF EndScan, ScopeBelongsToRound
<1>8. ASSUME NEW t \in queue, Mark(t) \/ MarkFails(t) PROVE NewcomersAreRecent'
  BY <1>8, NothingToSay DEF Mark, MarkFails
<1>9. CASE Publish \/ FetchFails \/ PublishFails
  BY <1>9, NothingToSay DEF Publish, FetchFails, PublishFails, Finished
<1>10. ASSUME NEW a \in Addresses, PollSolana(a) \/ PollTron(a) PROVE NewcomersAreRecent'
  BY <1>10, NothingToSay DEF PollSolana, PollTron
<1>11. CASE Fault /\ (RoundSkipped \/ Crash \/ \E a \in Addresses : PollFails(a))
  <2>1. tip' = tip /\ spoiled' = tip /\ grown' \in Nat
    BY <1>1, <1>11 DEF Fault, TypeOK, RoundSkipped, Crash, PollFails
  <2>2. \A a \in Addresses : Since(a)' <= tip
    BY <1>1, <2>1, Numbers DEF Since
  <2>3. \A a \in Addresses : spoiled' >= Since(a)'
    <3>1. \A a \in Addresses : Since(a)' \in Int
      BY <1>1, <2>1, Numbers DEF Since
    <3> QED
      BY <1>1, <2>1, <2>2, <3>1, Numbers
  <2> QED
    BY <1>11, <2>3, NothingToSay DEF RoundSkipped, Crash, PollFails
<1>12. CASE UNCHANGED vars \/ (\E k \in seen : ExpireKey(k))
            \/ \E x \in Transactions, h \in Heights : Reorganise(h, x)
  BY <1>2, <1>12 DEF vars, ExpireKey, Reorganise
<1> QED
  BY <1>3, <1>4, <1>5, <1>6, <1>7, <1>8, <1>9, <1>10, <1>11, <1>12
  DEF Next, Watch, RoundSkipped, Crash, PollFails
-----------------------------------------------------------------------------
(* Nothing is lost but what was mined before something failed              *)

\* A transfer that is to be published.
Owed(t) == Due(t) /\ sent[t] = 0

\* An owed transfer is in a block that is there.
LEMMA OwedBelowTip ==
    ASSUME SentInv, NEW t \in Transfers, Owed(t)
    PROVE  /\ Paid(t) /\ t.tx <= tip /\ t.to \in Addresses /\ t.to \in watched
           /\ t.tx > joined[t.to] /\ t.tx > spoiled
BY PaidBelowTip DEF SentInv, Owed, Due, watched

\* Nobody else has t's key in the queue.
LEMMA OwnKey ==
    ASSUME SentInv, ShownIsSettled, NEW t \in Transfers, Owed(t),
           NEW u \in queue, Key(u) = Key(t)
    PROVE  u = t
<1>1. u \in Transfers /\ u.to \in Concerned(u)
  BY QueueSettled DEF ShownIsSettled
<1>2. u.tx = t.tx /\ u.asset = t.asset
  BY DEF Key
<1>3. u.to = t.to
  BY <1>1, <1>2 DEF Owed, Due, Rivals, Concerned
<1> QED
  BY <1>1, <1>2, <1>3 DEF Transfers

\* What a page holds: the newest n of S are all of S that have fewer than n
\* blocks above them.
LEMMA OnPage ==
    ASSUME NEW m \in Nat, NEW n \in Nat, NEW S \in SUBSET (1 .. m), NEW h \in S, m - h < n
    PROVE  h \in Newest(S, n)
<1> DEFINE above == {g \in S : g > h}
           room == h + 1 .. m
<1>1. h \in Int /\ h <= m /\ h + 1 \in Int
  OBVIOUS
<1>2. above \subseteq room
  <2>1. ASSUME NEW g \in S, g > h PROVE g \in h + 1 .. m
    <3>1. g \in Int /\ g <= m
      OBVIOUS
    <3> QED
      BY <1>1, <2>1, <3>1
  <2> QED
    BY <2>1
<1>3. /\ IsFiniteSet(room)
      /\ Cardinality(room) = IF h + 1 > m THEN 0 ELSE m - (h + 1) + 1
  BY <1>1, FS_Interval
<1>4. Cardinality(room) \in Int /\ Cardinality(room) < n
  <2> HIDE DEF room
  <2> QED
    BY <1>1, <1>3
<1>5. IsFiniteSet(above) /\ Cardinality(above) <= Cardinality(room)
  <2> HIDE DEF room, above
  <2> QED
    BY <1>2, <1>3, FS_Subset
<1>6. Cardinality(above) \in Nat
  <2> HIDE DEF above
  <2> QED
    BY <1>5, FS_CardinalityType
<1>7. Cardinality(above) < n
  <2> HIDE DEF room, above
  <2> QED
    BY <1>4, <1>5, <1>6
<1> QED
  BY <1>7 DEF Newest

\* A step that changes nothing of an owed transfer keeps account of it.
LEMMA AccountKept ==
    ASSUME NEW t \in Transfers, Accounted(t), TypeOK,
           UNCHANGED <<network, pc, item, queue, lastSig, upto, lastBlock>>,
           seen' \subseteq seen, Since(t.to)' = Since(t.to)
    PROVE  Accounted(t)'
BY DEF Accounted, StillAhead, Key

LEMMA MineLosesNothing ==
    ASSUME IInv, NEW x \in Transactions, Mine(x) PROVE NothingLost'
<1> USE Constants DEF blocks, mishaps, redis, loop, IInv
<1> SUFFICES ASSUME NEW t \in Transfers, Owed(t)' PROVE Accounted(t)'
  BY DEF NothingLost, Owed, Mine
<1>1. TypeOK /\ t.tx \in Heights /\ t.to \in Addresses
  BY PartsTyped DEF SentInv
<1>2. /\ UNCHANGED <<network, spoiled, joined, lastSig, seen, pc, scope, queue, item, upto,
                     lastBlock, sent>>
      /\ tip' = tip + 1 /\ grown' = grown + 1
  BY DEF Mine
<1>3. Since(t.to)' = Since(t.to) /\ Since(t.to) \in Int
  BY <1>1, <1>2, Numbers DEF Since
<1>4. CASE t.tx # tip + 1
  <2>1. chain'[t.tx] = chain[t.tx]
    BY <1>1, <1>4 DEF Mine, TypeOK
  <2>2. Owed(t)
    BY <1>2, <2>1 DEF Owed, Due, Paid, Rivals, Concerned, watched
  <2> QED
    BY <1>1, <1>2, <1>3, <2>2, AccountKept DEF NothingLost, Owed
<1>5. CASE t.tx = tip + 1
  <2>1. \A k \in seen : k.tx <= tip
    <3>1. ASSUME NEW k \in seen PROVE k.tx <= tip
      <4>1. Settled(k.tx) /\ k.tx \in Nat /\ k.tx >= 1
        BY <1>1 DEF ShownIsSettled, TypeOK, Heights
      <4> QED
        BY <1>1, <4>1, SettledMeans, Numbers
    <3> QED
      BY <3>1
  <2>2. Key(t) \notin seen
    BY <1>1, <1>5, <2>1, Numbers DEF Key
  <2>3. t.tx > lastSig[t.to]
    BY <1>1, <1>5, Numbers DEF ShownIsSettled
  <2>4. Since(t.to) <= tip
    BY <1>1, Numbers
  <2>5. network = "ETHEREUM" => t.tx > lastBlock /\ t.tx > upto
    <3>1. SafeBlock \in Int /\ SafeBlock <= tip
      BY <1>1, Numbers DEF SafeBlock
    <3> QED
      BY <1>1, <1>5, <3>1, Numbers DEF ShownIsSettled, Settled
  <2>6. StillAhead(t)'
    BY <1>1, <1>2, <1>3, <1>5, <2>3, <2>4, <2>5, Numbers DEF StillAhead
  <2> QED
    BY <1>2, <2>2, <2>6 DEF Accounted, Key
<1> QED
  BY <1>4, <1>5

LEMMA ReorganiseLosesNothing ==
    ASSUME IInv, NEW x \in Transactions, NEW h \in Heights, Reorganise(h, x)
    PROVE  NothingLost'
<1> USE Constants DEF blocks, mishaps, redis, loop, IInv
<1> SUFFICES ASSUME NEW t \in Transfers, Owed(t)' PROVE Accounted(t)'
  BY DEF NothingLost, Owed, Reorganise
<1>1. TypeOK /\ t.tx \in Heights /\ t.to \in Addresses
  BY PartsTyped DEF SentInv
<1>2. /\ UNCHANGED <<network, spoiled, joined, lastSig, seen, pc, scope, queue, item, upto,
                     lastBlock, sent, tip, grown>>
      /\ network = "ETHEREUM" /\ h \in Nat /\ h >= 1 /\ h + Confirmations > tip
  BY <1>1, Numbers DEF Reorganise, Heights
<1>3. Since(t.to)' = Since(t.to)
  BY <1>2 DEF Since
<1>4. CASE t.tx # h
  <2>1. chain'[t.tx] = chain[t.tx]
    BY <1>1, <1>4 DEF Reorganise, TypeOK
  <2>2. Owed(t)
    BY <1>2, <2>1 DEF Owed, Due, Paid, Rivals, Concerned, watched
  <2> QED
    BY <1>1, <1>2, <1>3, <2>2, AccountKept DEF NothingLost, Owed
<1>5. CASE t.tx = h
  <2>1. ~Settled(h)
    BY <1>1, <1>2, SettledMeans, Numbers
  <2>2. Key(t) \notin seen
    BY <1>5, <2>1 DEF ShownIsSettled, Key
  <2>3. SafeBlock \in Int /\ h > SafeBlock
    BY <1>1, <1>2, <2>1, Numbers DEF Settled, SafeBlock
  <2>4. h > lastBlock /\ h > upto
    BY <1>1, <1>2, <2>3, Numbers DEF ShownIsSettled, Settled
  <2>5. StillAhead(t)'
    BY <1>2, <1>5, <2>4 DEF StillAhead
  <2> QED
    BY <1>2, <2>2, <2>5 DEF Accounted, Key
<1> QED
  BY <1>4, <1>5

LEMMA JoinLosesNothing ==
    ASSUME IInv, NEW a \in Addresses, AddAddress(a) PROVE NothingLost'
<1> USE Constants DEF blocks, mishaps, redis, loop, IInv
<1> SUFFICES ASSUME NEW t \in Transfers, Owed(t)' PROVE Accounted(t)'
  BY DEF NothingLost, Owed, AddAddress
<1>1. TypeOK /\ t.tx \in Heights /\ t.to \in Addresses
  BY PartsTyped DEF SentInv
<1>2. /\ UNCHANGED <<network, spoiled, chain, lastSig, seen, pc, scope, queue, item, upto,
                     lastBlock, sent, tip, grown>>
      /\ joined' = [joined EXCEPT ![a] = tip]
  BY DEF AddAddress
<1>3. Paid(t) /\ t.tx <= tip
  BY <1>2, PaidBelowTip DEF Owed, Due, Paid, SentInv
<1>4. t.to # a
  <2>1. SUFFICES ASSUME t.to = a PROVE FALSE
    OBVIOUS
  <2>2. t.tx > tip
    BY <1>1, <1>2, <2>1 DEF Owed, Due, TypeOK
  <2> QED
    BY <1>1, <1>3, <2>2, PartsTyped, Numbers
<1>5. joined'[t.to] = joined[t.to]
  BY <1>1, <1>2, <1>4 DEF TypeOK
<1>6. Owed(t)
  BY <1>1, <1>2, <1>5 DEF Owed, Due, Paid, Rivals, Concerned, watched
<1>7. Since(t.to)' = Since(t.to)
  BY <1>2 DEF Since
<1> QED
  BY <1>1, <1>2, <1>6, <1>7, AccountKept DEF NothingLost, Owed

\* A transfer that is owed between rounds or before a poll is still to come.
LEMMA OwedIsAhead ==
    ASSUME IInv, pc \in {"sleep", "poll"}, NEW t \in Transfers, Owed(t)
    PROVE  Key(t) \notin seen /\ StillAhead(t)
BY DEF IInv, SentInv, QueueBelongsToScan, NothingLost, Owed, Accounted

LEMMA RoundLosesNothing ==
    ASSUME IInv, StartRound PROVE NothingLost'
<1> USE Constants DEF blocks, mishaps, redis, loop
<1> SUFFICES ASSUME NEW t \in Transfers, Owed(t)' PROVE Accounted(t)'
  BY DEF NothingLost, Owed, StartRound
<1>1. TypeOK /\ t.tx \in Nat /\ t.to \in Addresses
  BY PartsTyped DEF IInv, SentInv
<1>2. /\ UNCHANGED <<network, spoiled, chain, tip, joined, lastSig, seen, queue, upto, lastBlock,
                     sent>>
      /\ pc = "sleep" /\ pc' \in {"sleep", "poll"} /\ scope' = watched /\ grown' = 0
      /\ scope = {}
  BY DEF StartRound, IInv, ScopeBelongsToRound
<1>3. Owed(t)
  BY <1>2 DEF Owed, Due, Paid, Rivals, Concerned, watched
<1>4. Key(t) \notin seen /\ StillAhead(t)
  BY <1>2, <1>3, OwedIsAhead
<1>5. t.to \in watched
  BY <1>3, OwedBelowTip DEF IInv
<1>6. Since(t.to)' = tip - 0 - MaxGrowth
  BY <1>2, <1>5 DEF Since
<1>7. Since(t.to) = tip - grown
  BY <1>1, <1>2, Numbers
<1>8. network # "ETHEREUM" => t.tx > Since(t.to)'
  BY <1>1, <1>4, <1>6, <1>7, Numbers DEF StillAhead
<1> QED
  BY <1>2, <1>4, <1>8 DEF Accounted, StillAhead, Key

\* What is owed to a polled address is among the newest of its blocks.
LEMMA PageReaches ==
    ASSUME TypeOK, NEW t \in Transfers, t.tx <= tip, t.to \in scope, t.tx > Since(t.to),
           NEW n \in Nat, 2 * MaxGrowth <= n,
           NEW S \in SUBSET (1 .. tip), t.tx \in S
    PROVE  t.tx \in Newest(S, n)
<1>1. t.tx \in Nat /\ t.to \in Addresses
  BY PartsTyped
<1>2. Since(t.to) = tip - grown - MaxGrowth
  BY <1>1, Numbers
<1>3. tip - t.tx < n
  BY <1>1, <1>2, Numbers
<1> QED
  BY <1>3, OnPage, Numbers

LEMMA PollSolanaLosesNothing ==
    ASSUME IInv, NEW a \in Addresses, PollSolana(a) PROVE NothingLost'
<1> USE Constants DEF blocks, mishaps, redis, loop
<1> SUFFICES ASSUME NEW t \in Transfers, Owed(t)' PROVE Accounted(t)'
  BY DEF NothingLost, Owed, PollSolana
<1>1. TypeOK /\ t.tx \in Heights /\ t.to \in Addresses /\ t.asset \in Assets
  BY PartsTyped DEF IInv, SentInv
<1>2. /\ UNCHANGED <<network, spoiled, chain, tip, grown, joined, seen, upto, lastBlock, sent>>
      /\ network = "SOLANA" /\ pc = "poll" /\ pc' = "scan"
      /\ a \in scope /\ scope' = scope \ {a} /\ StoreLastSig(a)
      /\ queue' = {[tx |-> h, asset |-> "coin", to |-> a] : h \in Signatures(a)}
  BY DEF PollSolana
<1>3. Owed(t)
  BY <1>2 DEF Owed, Due, Paid, Rivals, Concerned, watched
<1>4. Key(t) \notin seen /\ StillAhead(t) /\ Paid(t) /\ t.tx <= tip
  BY <1>2, <1>3, OwedIsAhead, OwedBelowTip DEF IInv
<1>5. CASE t.to = a
  <2> DEFINE S == {h \in 1..tip : h > lastSig[a] /\ a \in chain[h].parties}
  <2>1. t.asset = "coin" /\ a \in chain[t.tx].parties
    BY <1>1, <1>2, <1>4, <1>5 DEF Paid, Assets, IInv, ShownIsSettled
  <2>2. t.tx \in S
    BY <1>1, <1>2, <1>4, <1>5, <2>1, Numbers DEF StillAhead, Heights
  <2>3. t.tx \in Signatures(a)
    <3>1. t.tx > Since(t.to) /\ t.to \in scope
      BY <1>2, <1>4, <1>5 DEF StillAhead
    <3>2. S \in SUBSET (1 .. tip)
      OBVIOUS
    <3> HIDE DEF S
    <3>3. t.tx \in Newest(S, MaxSigs)
      BY <1>1, <1>4, <2>2, <3>1, <3>2, PageReaches
    <3> QED
      BY <3>3 DEF S, Signatures
  <2>4. t = [tx |-> t.tx, asset |-> "coin", to |-> a]
    BY <1>5, <2>1 DEF Transfers
  <2>5. t \in queue'
    BY <1>2, <2>3, <2>4
  <2> QED
    BY <1>2, <1>4, <2>5 DEF Accounted, Key
<1>6. CASE t.to # a
  <2>1. Since(t.to)' = Since(t.to)
    BY <1>2, <1>6 DEF Since
  <2>2. lastSig'[t.to] = lastSig[t.to]
    BY <1>1, <1>2, <1>6 DEF StoreLastSig, TypeOK
  <2> QED
    BY <1>2, <1>4, <2>1, <2>2 DEF Accounted, StillAhead, Key
<1> QED
  BY <1>5, <1>6

LEMMA PollTronLosesNothing ==
    ASSUME IInv, NEW a \in Addresses, PollTron(a) PROVE NothingLost'
<1> USE Constants DEF blocks, mishaps, redis, loop
<1> SUFFICES ASSUME NEW t \in Transfers, Owed(t)' PROVE Accounted(t)'
  BY DEF NothingLost, Owed, PollTron
<1>1. TypeOK /\ t.tx \in Heights /\ t.to \in Addresses /\ t.asset \in Assets
  BY PartsTyped DEF IInv, SentInv
<1> DEFINE S == {h \in 1..tip : a \in chain[h].parties}
<1>2. /\ UNCHANGED <<network, spoiled, chain, tip, grown, joined, seen, lastSig, upto, lastBlock,
                     sent>>
      /\ network = "TRON" /\ pc = "poll" /\ pc' = "scan"
      /\ a \in scope /\ scope' = scope \ {a}
      /\ queue' = {[tx |-> h, asset |-> "token", to |-> a] :
                     h \in {g \in Newest(S, TronLimit) : a \in chain[g].token}}
  BY DEF PollTron
<1>3. Owed(t)
  BY <1>2 DEF Owed, Due, Paid, Rivals, Concerned, watched
<1>4. Key(t) \notin seen /\ StillAhead(t) /\ Paid(t) /\ t.tx <= tip
  BY <1>2, <1>3, OwedIsAhead, OwedBelowTip DEF IInv
<1>5. CASE t.to = a
  <2>1. t.asset = "token" /\ a \in chain[t.tx].token /\ a \in chain[t.tx].parties
    BY <1>1, <1>2, <1>4, <1>5 DEF Paid, Assets, IInv, ShownIsSettled
  <2>2. t.tx \in S
    BY <1>1, <1>4, <2>1, Numbers DEF Heights
  <2>3. t.tx \in Newest(S, TronLimit)
    <3>1. t.tx > Since(t.to) /\ t.to \in scope
      BY <1>2, <1>4, <1>5 DEF StillAhead
    <3>2. S \in SUBSET (1 .. tip)
      OBVIOUS
    <3> HIDE DEF S
    <3> QED
      BY <1>1, <1>4, <2>2, <3>1, <3>2, PageReaches
  <2>4. t = [tx |-> t.tx, asset |-> "token", to |-> a]
    BY <1>5, <2>1 DEF Transfers
  <2>5. t \in queue'
    <3> HIDE DEF S
    <3> QED
      BY <1>2, <2>1, <2>3, <2>4
  <2> QED
    BY <1>2, <1>4, <2>5 DEF Accounted, Key
<1>6. CASE t.to # a
  <2>1. Since(t.to)' = Since(t.to)
    BY <1>2, <1>6 DEF Since
  <2> QED
    BY <1>2, <1>4, <2>1 DEF Accounted, StillAhead, Key
<1> QED
  BY <1>5, <1>6

\* Ethereum: a confirmed transfer that is owed and was not scanned is in the range
\* to scan, and its address is known to the round.
LEMMA RangeReaches ==
    ASSUME IInv, network = "ETHEREUM", pc = "poll",
           NEW t \in Transfers, Owed(t), t.tx <= SafeBlock
    PROVE  t.tx \in FromBlock .. SafeBlock /\ t.to \in scope
<1> USE Constants
<1>1. TypeOK /\ t.tx \in Nat /\ t.tx >= 1 /\ t.to \in Addresses
  BY PartsTyped DEF IInv, SentInv, Heights
<1>2. t.tx > lastBlock /\ t.tx > joined[t.to] /\ t.tx <= tip /\ t.to \in watched
  BY OwedIsAhead, OwedBelowTip DEF IInv, StillAhead
<1>3. SafeBlock \in Nat /\ t.tx + Confirmations <= tip
  BY <1>1, Numbers DEF SafeBlock
<1>4. t.to \in scope
  <2>1. SUFFICES ASSUME t.to \notin scope PROVE FALSE
    OBVIOUS
  <2>2. joined[t.to] >= tip - grown
    BY <1>1, <1>2, <2>1, Numbers DEF IInv, NewcomersAreRecent
  <2>3. t.tx > tip - grown
    BY <1>1, <1>2, <2>2, Numbers
  <2> QED
    BY <1>1, <1>2, <1>3, <2>3, Numbers
<1>5. t.tx >= FromBlock
  <2>1. CASE lastBlock # NoBlock
    BY <1>1, <1>2, <2>1, Numbers DEF FromBlock
  <2>2. CASE lastBlock = NoBlock
    <3>1. \/ joined[t.to] >= tip - grown - MaxGrowth
          \/ spoiled >= tip - grown - MaxGrowth
      BY <1>1, <1>2, <1>4, <2>2, Numbers DEF IInv, NewcomersAreRecent
    <3>2. t.tx + Confirmations >= tip
      <4>1. t.tx > spoiled /\ spoiled \in Int
        BY <1>1 DEF Owed, Due, TypeOK
      <4> QED
        BY <1>1, <1>2, <3>1, <4>1, Numbers
    <3> QED
      BY <1>1, <2>2, <3>2, Numbers DEF FromBlock, SafeBlock
  <2> QED
    BY <2>1, <2>2
<1>6. FromBlock \in Int
  BY <1>1, <1>3, Numbers DEF FromBlock
<1> QED
  BY <1>1, <1>3, <1>4, <1>5, <1>6

LEMMA PollEthereumLosesNothing ==
    ASSUME IInv, PollEthereum PROVE NothingLost'
<1> USE Constants DEF blocks, mishaps, redis, loop
<1> SUFFICES ASSUME NEW t \in Transfers, Owed(t)' PROVE Accounted(t)'
  BY DEF NothingLost, Owed, PollEthereum
<1>1. TypeOK /\ t.tx \in Nat
  BY PartsTyped DEF IInv, SentInv
<1>2. /\ UNCHANGED <<network, spoiled, chain, tip, joined, seen, lastSig, lastBlock, sent>>
      /\ network = "ETHEREUM" /\ pc = "poll"
  BY DEF PollEthereum
<1>3. Owed(t)
  BY <1>2 DEF Owed, Due, Paid, Rivals, Concerned, watched
<1>4. Key(t) \notin seen /\ StillAhead(t) /\ Paid(t)
  BY <1>2, <1>3, OwedIsAhead, OwedBelowTip DEF IInv
<1>5. CASE FromBlock <= SafeBlock
  <2>1. /\ pc' = "scan" /\ upto' = SafeBlock
        /\ queue' = {u \in Transfers : /\ u.tx \in FromBlock..SafeBlock
                                       /\ Paid(u) /\ u.to \in scope}
    BY <1>5 DEF PollEthereum
  <2>2. CASE t.tx <= SafeBlock
    <3>1. t \in queue'
      BY <1>2, <1>3, <1>4, <2>1, <2>2, RangeReaches
    <3> QED
      BY <1>2, <1>4, <3>1 DEF Accounted, Key
  <2>3. CASE t.tx > SafeBlock
    BY <1>2, <1>4, <2>1, <2>3 DEF Accounted, StillAhead, Key
  <2>4. SafeBlock \in Nat
    BY <1>1, Numbers DEF SafeBlock
  <2> QED
    BY <1>1, <2>2, <2>3, <2>4
<1>6. CASE ~(FromBlock <= SafeBlock)
  <2>1. pc' = "sleep" /\ queue' = queue /\ upto' = upto
    BY <1>6 DEF PollEthereum
  <2> QED
    BY <1>2, <1>4, <2>1 DEF Accounted, StillAhead, Key
<1> QED
  BY <1>5, <1>6

LEMMA MarkLosesNothing ==
    ASSUME IInv, NEW u \in queue, Mark(u) PROVE NothingLost'
<1> USE Constants DEF blocks, mishaps, redis, loop
<1> SUFFICES ASSUME NEW t \in Transfers, Owed(t)' PROVE Accounted(t)'
  BY DEF NothingLost, Owed, Mark
<1>1. /\ UNCHANGED <<network, spoiled, chain, tip, grown, joined, lastSig, scope, upto, lastBlock,
                     sent>>
      /\ pc = "scan" /\ pc' \in {"scan", "publish"} /\ seen' = seen \cup {Key(u)}
  BY DEF Mark
<1>2. Owed(t)
  BY <1>1 DEF Owed, Due, Paid, Rivals, Concerned, watched
<1>3. Key(t) \notin seen /\ (t \in queue \/ StillAhead(t))
  BY <1>1, <1>2 DEF IInv, NothingLost, Owed, Accounted
<1>4. StillAhead(t)' <=> StillAhead(t)
  BY <1>1 DEF StillAhead, Since
<1>5. CASE Key(u) \in seen
  <2>1. queue' = queue \ {u} /\ seen' = seen /\ t # u
    BY <1>1, <1>3, <1>5 DEF Mark
  <2> QED
    BY <1>3, <1>4, <2>1 DEF Accounted, Key
<1>6. CASE Key(u) \notin seen
  <2>1. item' = u /\ pc' = "publish" /\ queue' = queue
    BY <1>6 DEF Mark
  <2>2. CASE t = u
    BY <2>1, <2>2 DEF Accounted
  <2>3. CASE t # u
    <3>1. Key(t) # Key(u)
      BY <1>2, <2>3, OwnKey DEF IInv
    <3> QED
      BY <1>1, <1>3, <1>4, <2>1, <3>1 DEF Accounted, Key
  <2> QED
    BY <2>2, <2>3
<1> QED
  BY <1>5, <1>6

LEMMA PublishLosesNothing ==
    ASSUME IInv, Publish PROVE NothingLost'
<1> USE Constants DEF blocks, mishaps, redis, loop
<1> SUFFICES ASSUME NEW t \in Transfers, Owed(t)' PROVE Accounted(t)'
  BY DEF NothingLost, Owed, Publish
<1>1. /\ UNCHANGED <<network, spoiled, chain, tip, grown, joined, lastSig, seen, scope, upto,
                     lastBlock>>
      /\ pc = "publish" /\ pc' = "scan" /\ queue' = queue \ {item}
      /\ item \in Transfers /\ sent \in [Transfers -> 0..2]
  BY DEF Publish, Finished, IInv, SentInv, TypeOK
<1>2. Paid(t) /\ sent'[t] = 0
  BY <1>1 DEF Owed, Due, Paid
<1>3. t # item /\ sent[t] = 0
  <2>1. CASE Paid(item)
    <3>1. sent' = [sent EXCEPT ![item] = IF @ = 0 THEN 1 ELSE 2]
      BY <2>1 DEF Publish, Deliver
    <3> QED
      BY <1>1, <1>2, <3>1
  <2>2. CASE ~Paid(item)
    BY <1>2, <2>2 DEF Publish
  <2> QED
    BY <2>1, <2>2
<1>4. Owed(t)
  BY <1>1, <1>3 DEF Owed, Due, Paid, Rivals, Concerned, watched
<1>5. Key(t) \notin seen /\ (t \in queue \/ StillAhead(t))
  BY <1>3, <1>4 DEF IInv, NothingLost, Owed, Accounted
<1>6. StillAhead(t)' <=> StillAhead(t)
  BY <1>1 DEF StillAhead, Since
<1> QED
  BY <1>1, <1>3, <1>5, <1>6 DEF Accounted, Key

LEMMA EndScanLosesNothing ==
    ASSUME IInv, EndScan PROVE NothingLost'
<1> USE Constants DEF blocks, mishaps, redis, loop
<1> SUFFICES ASSUME NEW t \in Transfers, Owed(t)' PROVE Accounted(t)'
  BY DEF NothingLost, Owed, EndScan
<1>1. /\ UNCHANGED <<network, spoiled, chain, tip, grown, joined, lastSig, seen, scope, queue, upto,
                     sent>>
      /\ pc = "scan" /\ queue = {}
      /\ lastBlock' = IF network = "ETHEREUM" THEN upto ELSE lastBlock
      /\ pc' = IF scope = {} THEN "sleep" ELSE "poll"
  BY DEF EndScan
<1>2. Owed(t)
  BY <1>1 DEF Owed, Due, Paid, Rivals, Concerned, watched
<1>3. Key(t) \notin seen /\ StillAhead(t)
  BY <1>1, <1>2 DEF IInv, NothingLost, Owed, Accounted
<1>4. StillAhead(t)'
  BY <1>1, <1>3 DEF StillAhead, Since
<1> QED
  BY <1>1, <1>3, <1>4 DEF Accounted, Key

\* A key that expires and a step that does nothing disturb no account.
LEMMA QuietStepLosesNothing ==
    ASSUME IInv, UNCHANGED vars \/ \E k \in seen : ExpireKey(k) PROVE NothingLost'
<1> USE DEF blocks, mishaps, redis, loop
<1>1. /\ UNCHANGED <<network, spoiled, chain, tip, grown, joined, lastSig, scope, pc, item, queue,
                     upto, lastBlock, sent>>
      /\ seen' \subseteq seen
  BY DEF vars, ExpireKey
<1> SUFFICES ASSUME NEW t \in Transfers, Owed(t)' PROVE Accounted(t)'
  BY <1>1 DEF NothingLost, Owed
<1>2. Owed(t)
  BY <1>1 DEF Owed, Due, Paid, Rivals, Concerned, watched
<1>3. Accounted(t)
  BY <1>1, <1>2 DEF IInv, NothingLost, Owed
<1>4. Since(t.to)' = Since(t.to)
  BY <1>1 DEF Since
<1> QED
  BY <1>1, <1>3, <1>4, AccountKept DEF IInv, SentInv

\* Of what was mined before a fault nothing is promised, and nothing else is there.
LEMMA FaultLosesNothing ==
    ASSUME SentInv, Fault, UNCHANGED chain PROVE NothingLost'
<1>1. ASSUME NEW t \in Transfers, Due(t)' PROVE FALSE
  <2>1. Paid(t) /\ t.tx > tip
    BY <1>1 DEF Due, Paid, Fault
  <2> QED
    BY <2>1, PaidBelowTip, PartsTyped, Numbers DEF SentInv
<1> QED
  BY <1>1 DEF NothingLost

LEMMA StepLosesNothing ==
    ASSUME IInv, [Next]_vars PROVE NothingLost'
<1>1. ASSUME NEW x \in Transactions, Mine(x) PROVE NothingLost'
  BY <1>1, MineLosesNothing
<1>2. ASSUME NEW x \in Transactions, NEW h \in Heights, Reorganise(h, x)
      PROVE  NothingLost'
  BY <1>2, ReorganiseLosesNothing
<1>3. ASSUME NEW a \in Addresses, AddAddress(a) PROVE NothingLost'
  BY <1>3, JoinLosesNothing
<1>4. ASSUME NEW a \in Addresses, PollSolana(a) \/ PollTron(a) PROVE NothingLost'
  BY <1>4, PollSolanaLosesNothing, PollTronLosesNothing
<1>5. ASSUME NEW t \in queue, Mark(t) PROVE NothingLost'
  BY <1>5, MarkLosesNothing
<1>6. CASE StartRound \/ PollEthereum \/ Publish \/ EndScan
  BY <1>6, RoundLosesNothing, PollEthereumLosesNothing, PublishLosesNothing,
     EndScanLosesNothing
<1>7. CASE UNCHANGED vars \/ \E k \in seen : ExpireKey(k)
  BY <1>7, QuietStepLosesNothing
<1>8. ASSUME Fault, UNCHANGED chain PROVE NothingLost'
  BY <1>8, FaultLosesNothing DEF IInv
<1>9. CASE \/ \E a \in Addresses : PollFails(a)
           \/ \E t \in queue : MarkFails(t)
           \/ RoundSkipped \/ FetchFails \/ PublishFails \/ Crash
  BY <1>8, <1>9
  DEF PollFails, MarkFails, RoundSkipped, FetchFails, PublishFails, Crash, blocks
<1> QED
  BY <1>1, <1>2, <1>3, <1>4, <1>5, <1>6, <1>7, <1>9 DEF Next, Watch
-----------------------------------------------------------------------------
(* The theorems                                                            *)

\* The inductive invariant of the watchers.  SentInv: what is queued and
\* published agrees with the stored positions, the seen keys and their age.  The
\* rest: what the watcher was shown is settled, and what it has still to publish
\* is ahead of it or in its hands.
THEOREM WatcherInvariant == Spec => []IInv
<1>1. Init => IInv
  <2> SUFFICES ASSUME Init PROVE IInv
    OBVIOUS
  <2> USE Constants
  <2>1. SentInv
    BY InitInvariant
  <2>2. ScopeBelongsToRound /\ watched = {}
    BY DEF Init, ScopeBelongsToRound, watched
  <2>3. ShownIsSettled
    <3>1. \A h \in Heights : chain[h] = Empty
      BY DEF Init
    <3>2. Settled(NoBlock)
      BY DEF Init, Settled, SafeBlock, NoBlock
    <3> QED
      BY <3>1, <3>2 DEF Init, Empty, ShownIsSettled
  <2>4. NewcomersAreRecent
    BY <2>2 DEF NewcomersAreRecent
  <2>5. NothingLost
    BY <2>2 DEF NothingLost, Due
  <2> QED
    BY <2>1, <2>2, <2>3, <2>4, <2>5 DEF IInv
<1>2. IInv /\ [Next]_vars => IInv'
  <2> SUFFICES ASSUME IInv, [Next]_vars PROVE IInv'
    OBVIOUS
  <2>1. SentInv'
    BY NextKeeps DEF IInv
  <2>2. ScopeBelongsToRound' /\ ShownIsSettled' /\ NewcomersAreRecent'
    BY <2>1, ScopeStep, ShownIsSettledStep, NewcomersStep DEF IInv
  <2>3. NothingLost'
    BY StepLosesNothing
  <2> QED
    BY <2>1, <2>2, <2>3 DEF IInv
<1> QED
  BY <1>1, <1>2, PTL DEF Spec

\* No transfer is published twice, through errors, restarts and repeated polls,
\* for all page sizes, confirmations and lives of keys that WatcherAssumption
\* admits; on Tron it may be, when its key has expired.
THEOREM TransfersPublishedOnce == Spec => []PublishedOnce
<1>1. IInv => PublishedOnce
  BY DEF IInv, SentInv
<1> QED
  BY <1>1, WatcherInvariant, PTL

\* What is published stays on the chain, however Ethereum reorganises blocks with
\* fewer successors than the watcher waits for.
THEOREM PublishedFinal == Spec => []PublishedAreFinal
<1>1. IInv => PublishedAreFinal
  BY DEF IInv, SentInv, ScannedAreFinal, PublishedAreFinal
<1> QED
  BY <1>1, WatcherInvariant, PTL

\* No transfer that is owed to a watched address alone is dropped: not by the
\* cut-off of a page, the position stored before the batch is looked at, a key
\* marked before it is published, the range of blocks of the first round, or an
\* address that joins in the middle of one; and an error or a crash drops none that
\* is mined after it.  The watcher's rounds publish it then, which the run checks.
THEOREM NoTransferIsLost == Spec => []NothingLost
<1>1. IInv => NothingLost
  BY DEF IInv
<1> QED
  BY <1>1, WatcherInvariant, PTL
=============================================================================
