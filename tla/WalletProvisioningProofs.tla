---------------------- MODULE WalletProvisioningProofs ----------------------
(***************************************************************************)
(* Theorems about WalletProvisioning, for every number of core instances,  *)
(* users, currencies, failures and rebalances.                             *)
(***************************************************************************)
EXTENDS WalletProvisioning, TLAPS

\* What every step does: a stored wallet stays as it is.
WalletsStay ==
    \A u \in Users, k \in Currencies :
        wallet[u][k] # NoConsumer => wallet'[u][k] = wallet[u][k]

\* The currency a loop stands at is one of the list's, the user one of Users.
LEMMA WorkIsTyped ==
    ASSUME TypeOK, NEW c \in Consumers, stage[c] # "poll"
    PROVE  /\ held[c] \in 1..Len(log)
           /\ UserOf(c) \in registered /\ UserOf(c) \in Users
           /\ cursor[c] <= Len(AllCurrencies) =>
                /\ CurrencyOf(c) \in Currencies
                /\ NewAddress(c) \in Addresses
<1>1. held[c] \in 1..Len(log) /\ log \in Seq(registered)
  BY DEF TypeOK
<1>2. UserOf(c) \in registered /\ UserOf(c) \in Users
  BY <1>1 DEF UserOf, TypeOK
<1>3. ASSUME cursor[c] <= Len(AllCurrencies)
      PROVE  CurrencyOf(c) \in Currencies
  BY <1>3 DEF CurrencyOf, Currencies, TypeOK
<1> QED
  BY <1>1, <1>2, <1>3 DEF NewAddress, Addresses

LEMMA AtWorkIsTyped ==
    ASSUME TypeOK, NEW c \in Consumers PROVE AtWork(c) \subseteq Users
  BY WorkIsTyped DEF AtWork

\* Storing a wallet where there was none keeps every stored one.
LEMMA StoringKeeps ==
    ASSUME TypeOK, NEW c \in Consumers, stage[c] # "poll",
           cursor[c] <= Len(AllCurrencies),
           wallet[UserOf(c)][CurrencyOf(c)] = NoConsumer, Store(c)
    PROVE  /\ wallet' \in [Users -> [Currencies -> Consumers \cup {NoConsumer}]]
           /\ wallet'[UserOf(c)][CurrencyOf(c)] = c
           /\ WalletsStay
<1> DEFINE u0 == UserOf(c)
           k0 == CurrencyOf(c)
<1>1. u0 \in Users /\ k0 \in Currencies
  BY WorkIsTyped
<1>2. wallet \in [Users -> [Currencies -> Consumers \cup {NoConsumer}]]
  BY DEF TypeOK
<1>3. wallet' = [wallet EXCEPT ![u0][k0] = c] /\ wallet[u0][k0] = NoConsumer
  BY DEF Store
<1> HIDE DEF u0, k0
<1>4. /\ wallet' \in [Users -> [Currencies -> Consumers \cup {NoConsumer}]]
      /\ wallet'[u0][k0] = c
      /\ \A u \in Users, k \in Currencies :
           wallet[u][k] # NoConsumer => wallet'[u][k] = wallet[u][k]
  BY <1>1, <1>2, <1>3
<1> QED
  BY <1>4 DEF u0, k0, WalletsStay

\* A step keeps what a loop it does not touch relies on.
LEMMA OthersKeep ==
    ASSUME StoredInv, WalletsStay,
           log' = log \/ \E u \in Users : log' = Append(log, u),
           NEW d \in Consumers,
           held'[d] = held[d], stage'[d] = stage[d],
           cursor'[d] = cursor[d], step'[d] = step[d]
    PROVE  LoopSound(d)'
<1>1. CASE stage[d] # "process"
  BY <1>1 DEF LoopSound, At
<1>2. CASE stage[d] = "process"
  <2> DEFINE u == UserOf(d)
  <2>1. /\ held[d] \in 1..Len(log) /\ log \in Seq(registered)
        /\ u \in Users
    BY <1>2, WorkIsTyped DEF StoredInv, TypeOK
  <2>2. UserOf(d)' = u
    BY <2>1 DEF UserOf
  <2>3. ASSUME NEW i \in 1..(cursor[d] - 1)
        PROVE  wallet'[u][AllCurrencies[i]] # NoConsumer
    <3>1. wallet[u][AllCurrencies[i]] # NoConsumer
      BY <1>2 DEF StoredInv, LoopSound
    <3>2. AllCurrencies[i] \in Currencies
      BY ProvisioningAssumption DEF StoredInv, TypeOK, Currencies
    <3> QED
      BY <2>1, <3>1, <3>2 DEF WalletsStay
  <2>4. ASSUME At(d, "publish")
        PROVE  wallet'[u][CurrencyOf(d)] = d
    <3>1. /\ wallet[u][CurrencyOf(d)] = d
          /\ cursor[d] <= Len(AllCurrencies)
      BY <2>4 DEF StoredInv, LoopSound, At
    <3>2. CurrencyOf(d) \in Currencies /\ d # NoConsumer
      BY <1>2, <3>1, WorkIsTyped, GroupAssumption DEF StoredInv
    <3> QED
      BY <2>1, <3>1, <3>2 DEF WalletsStay
  <2>5. /\ CurrencyOf(d)' = CurrencyOf(d)
        /\ At(d, "publish")' => At(d, "publish")
    BY DEF CurrencyOf, At
  <2> QED
    BY <2>2, <2>3, <2>4, <2>5 DEF LoopSound
<1> QED
  BY <1>1, <1>2

\* A step that announces and reports nothing keeps what was announced and
\* reported.
LEMMA HistoryKeeps ==
    ASSUME StoredInv, WalletsStay, announced' = announced, provisioned' = provisioned
    PROVE  AnnouncedAreStored' /\ ProvisionedHaveWallets'
<1>1. AnnouncedAreStored'
  <2> SUFFICES ASSUME NEW a \in announced
      PROVE  wallet'[a.user][a.currency] = a.by
    BY DEF AnnouncedAreStored
  <2>1. a.user \in Users /\ a.currency \in Currencies /\ a.by \in Consumers
    BY DEF StoredInv, TypeOK, Addresses
  <2> QED
    BY <2>1, GroupAssumption DEF StoredInv, AnnouncedAreStored, WalletsStay
<1>2. ProvisionedHaveWallets'
  <2> SUFFICES ASSUME NEW u \in provisioned, NEW k \in Currencies
      PROVE  wallet'[u][k] # NoConsumer
    BY DEF ProvisionedHaveWallets
  <2>1. u \in Users /\ wallet[u][k] # NoConsumer
    BY DEF StoredInv, TypeOK, ProvisionedHaveWallets
  <2> QED
    BY <2>1 DEF WalletsStay
<1> QED
  BY <1>1, <1>2

-----------------------------------------------------------------------------
(* Every step keeps the invariant                                          *)

LEMMA InitInvariant == Init => StoredInv
<1> SUFFICES ASSUME Init PROVE StoredInv
  OBVIOUS
<1> USE DEF Init, GroupInit
<1>1. TypeOK
  BY ProvisioningAssumption DEF TypeOK, GroupTypeOK
<1>2. \A c \in Consumers : LoopSound(c)
  BY DEF LoopSound, At
<1> QED
  BY <1>1, <1>2 DEF StoredInv, AnnouncedAreStored, ProvisionedHaveWallets

LEMMA RegisterKeeps ==
    ASSUME StoredInv, NEW u \in Users, Register(u) PROVE StoredInv'
<1> USE DEF Register, group, loops, chain, history, mishaps, Fault
<1>1. /\ registered \subseteq registered' /\ u \in registered'
      /\ registered' \subseteq Users
      /\ log \in Seq(registered)
  BY DEF StoredInv, TypeOK
<1>2. log' \in Seq(registered') /\ Len(log) <= Len(log')
  <2>1. log \in Seq(registered')
    BY <1>1
  <2> QED
    BY <1>1, <2>1
<1>3. TypeOK'
  <2>1. GroupTypeOK'
    BY DEF StoredInv, TypeOK, GroupTypeOK
  <2>2. \A c \in Consumers : stage[c] # "poll" => held[c] \in 1..Len(log')
    BY <1>1, <1>2 DEF StoredInv, TypeOK
  <2>3. faults' \in 0..MaxFaults /\ rebalances' \in 0..MaxRebalances
    BY ProvisioningAssumption DEF StoredInv, TypeOK
  <2>4. struck' \subseteq Users
    BY DEF StoredInv, TypeOK
  <2> QED
    BY <1>1, <1>2, <2>1, <2>2, <2>3, <2>4 DEF StoredInv, TypeOK
<1>4. WalletsStay
  BY DEF WalletsStay
<1>5. \A c \in Consumers : LoopSound(c)'
  BY <1>4, OthersKeep
<1> QED
  BY <1>3, <1>4, <1>5, HistoryKeeps DEF StoredInv

\* The broker's steps and the ends of a loop's turn touch only the group.
LEMMA GroupStepKeeps ==
    ASSUME StoredInv, NEW c \in Consumers,
           Join(c) \/ Rebalance(c) \/ Commit(c) \/ CommitLost(c) \/ Stop(c)
    PROVE  StoredInv' /\ WalletsStay
<1>1. /\ UNCHANGED <<registered, log, cursor, step, wallet, chain, history>>
      /\ faults' \in 0..MaxFaults /\ rebalances' \in 0..MaxRebalances
      /\ struck' \subseteq Users
  BY ProvisioningAssumption, AtWorkIsTyped
  DEF StoredInv, TypeOK, Join, Rebalance, Commit, CommitLost, Stop, Fault, mishaps
<1>2. GroupTypeOK'
  <2> USE DEF StoredInv, TypeOK, GroupTypeOK
  <2>1. CASE Join(c) \/ Rebalance(c)
    BY <2>1 DEF Join, Rebalance, Assign
  <2>2. CASE Commit(c)
    BY <2>2 DEF Commit, CommitMessage, BackToPoll
  <2>3. CASE CommitLost(c)
    BY <2>3 DEF CommitLost, CommitFails, GiveUp, BackToPoll
  <2>4. CASE Stop(c)
    BY <2>4 DEF Stop, Leave, BackToPoll
  <2> QED
    BY <2>1, <2>2, <2>3, <2>4
<1>3. \A d \in Consumers :
        \/ stage'[d] = "poll"
        \/ stage'[d] = stage[d] /\ held'[d] = held[d]
  BY DEF StoredInv, TypeOK, GroupTypeOK, Join, Rebalance, Commit, CommitLost, Stop,
         Assign, CommitMessage, CommitFails, GiveUp, Leave, BackToPoll
<1>4. TypeOK'
  BY <1>1, <1>2, <1>3 DEF StoredInv, TypeOK, chain, history
<1>5. WalletsStay
  BY <1>1 DEF WalletsStay
<1>6. ASSUME NEW d \in Consumers
      PROVE  LoopSound(d)'
  <2>1. CASE stage'[d] = "poll"
    BY <2>1 DEF LoopSound, At
  <2>2. CASE stage'[d] = stage[d] /\ held'[d] = held[d]
    BY <1>1, <1>5, <2>2, OthersKeep
  <2> QED
    BY <1>3, <2>1, <2>2
<1> QED
  BY <1>1, <1>4, <1>5, <1>6, HistoryKeeps DEF StoredInv, chain, history

LEMMA ReadKeeps ==
    ASSUME StoredInv, NEW c \in Consumers, Read(c) PROVE StoredInv'
<1> USE DEF Read, ReadMessage, chain, history, mishaps
<1>1. position[c] \in 1..Len(log)
  BY DEF StoredInv, TypeOK, GroupTypeOK
<1>2. TypeOK'
  BY <1>1, ProvisioningAssumption DEF StoredInv, TypeOK, GroupTypeOK
<1>3. WalletsStay
  BY DEF WalletsStay
<1>4. ASSUME NEW d \in Consumers
      PROVE  LoopSound(d)'
  <2>1. CASE d = c
    BY <2>1 DEF StoredInv, TypeOK, GroupTypeOK, LoopSound, At
  <2>2. CASE d # c
    BY <1>3, <2>2, OthersKeep DEF StoredInv, TypeOK, GroupTypeOK
  <2> QED
    BY <2>1, <2>2
<1> QED
  BY <1>2, <1>3, <1>4, HistoryKeeps DEF StoredInv

LEMMA FindWalletKeeps ==
    ASSUME StoredInv, NEW c \in Consumers, FindWallet(c) PROVE StoredInv'
<1> USE DEF FindWallet, NextCurrency, group, loops, chain, history, mishaps
<1>1. TypeOK'
  <2>1. cursor' \in [Consumers -> 1..(Len(AllCurrencies) + 1)]
    <3>1. /\ cursor \in [Consumers -> 1..(Len(AllCurrencies) + 1)]
          /\ Len(AllCurrencies) \in Nat /\ cursor[c] <= Len(AllCurrencies)
      BY ProvisioningAssumption DEF StoredInv, TypeOK, At
    <3> QED
      BY <3>1
  <2>2. step' \in [Consumers -> {"find", "create", "publish"}]
    BY DEF StoredInv, TypeOK
  <2> QED
    BY <2>1, <2>2 DEF StoredInv, TypeOK, GroupTypeOK
<1>2. WalletsStay
  BY DEF WalletsStay
<1>3. ASSUME NEW d \in Consumers, d # c
      PROVE  LoopSound(d)'
  BY <1>2, <1>3, OthersKeep DEF StoredInv, TypeOK
<1>4. LoopSound(c)'
  <2>1. /\ stage[c] = "process" /\ UserOf(c)' = UserOf(c)
        /\ ~At(c, "publish")'
    BY DEF At, UserOf, StoredInv, TypeOK
  <2>2. ASSUME NEW i \in 1..(cursor'[c] - 1)
        PROVE  wallet[UserOf(c)][AllCurrencies[i]] # NoConsumer
    <3>1. CASE i \in 1..(cursor[c] - 1)
      BY <2>1, <3>1 DEF StoredInv, LoopSound
    <3>2. CASE i = cursor[c] /\ cursor'[c] = cursor[c] + 1
      BY <3>2 DEF CurrencyOf, StoredInv, TypeOK
    <3>3. cursor[c] \in Nat /\ cursor'[c] \in {cursor[c], cursor[c] + 1}
      BY DEF StoredInv, TypeOK
    <3> QED
      BY <3>1, <3>2, <3>3
  <2> QED
    BY <2>1, <2>2 DEF LoopSound
<1> QED
  BY <1>1, <1>2, <1>3, <1>4, HistoryKeeps DEF StoredInv

LEMMA CreateWalletKeeps ==
    ASSUME StoredInv, NEW c \in Consumers, CreateWallet(c)
    PROVE  StoredInv' /\ WalletsStay
<1> USE DEF CreateWallet, group, loops, chain, history, mishaps
<1>1. /\ stage[c] = "process" /\ cursor[c] <= Len(AllCurrencies)
      /\ WalletsStay
      /\ wallet' \in [Users -> [Currencies -> Consumers \cup {NoConsumer}]]
      /\ wallet'[UserOf(c)][CurrencyOf(c)] = c
  BY StoringKeeps DEF At, StoredInv
<1>2. TypeOK'
  BY <1>1 DEF StoredInv, TypeOK, GroupTypeOK
<1>3. ASSUME NEW d \in Consumers, d # c
      PROVE  LoopSound(d)'
  BY <1>1, <1>3, OthersKeep DEF StoredInv, TypeOK
<1>4. LoopSound(c)'
  <2>1. UserOf(c)' = UserOf(c) /\ CurrencyOf(c)' = CurrencyOf(c)
    BY DEF UserOf, CurrencyOf
  <2>2. ASSUME NEW i \in 1..(cursor[c] - 1)
        PROVE  wallet'[UserOf(c)][AllCurrencies[i]] # NoConsumer
    <3>1. /\ wallet[UserOf(c)][AllCurrencies[i]] # NoConsumer
          /\ UserOf(c) \in Users
      BY <1>1, WorkIsTyped DEF StoredInv, LoopSound
    <3>2. AllCurrencies[i] \in Currencies
      BY ProvisioningAssumption DEF StoredInv, TypeOK, Currencies
    <3> QED
      BY <1>1, <3>1, <3>2 DEF WalletsStay
  <2> QED
    BY <1>1, <2>1, <2>2 DEF LoopSound
<1> QED
  BY <1>1, <1>2, <1>3, <1>4, HistoryKeeps DEF StoredInv

\* A statement that fails ends the loop's turn; a wallet may have been stored.
LEMMA FailKeeps ==
    ASSUME StoredInv, NEW c \in Consumers,
           CreateConflicts(c) \/ DbError(c) \/ PublishFails(c)
    PROVE  StoredInv' /\ WalletsStay
<1>1. /\ stage[c] = "process" /\ cursor[c] <= Len(AllCurrencies)
      /\ UNCHANGED <<registered, log, cursor, step, chain, provisioned>>
      /\ GiveUp(c)
  BY DEF CreateConflicts, DbError, PublishFails, At, Fail
<1>2. /\ WalletsStay
      /\ wallet' \in [Users -> [Currencies -> Consumers \cup {NoConsumer}]]
  <2>1. CASE UNCHANGED wallet
    BY <2>1 DEF WalletsStay, StoredInv, TypeOK
  <2>2. CASE wallet[UserOf(c)][CurrencyOf(c)] = NoConsumer /\ Store(c)
    BY <1>1, <2>2, StoringKeeps DEF StoredInv
  <2> QED
    BY <2>1, <2>2 DEF CreateConflicts, DbError, PublishFails
<1>3. /\ faults' \in 0..MaxFaults /\ rebalances' \in 0..MaxRebalances
      /\ refused' \subseteq Addresses
      /\ struck' \subseteq Users
  BY <1>1, WorkIsTyped, AtWorkIsTyped, ProvisioningAssumption
  DEF StoredInv, TypeOK, CreateConflicts, DbError, PublishFails, Fault, mishaps
<1>4. /\ GroupTypeOK'
      /\ stage'[c] = "poll"
      /\ \A d \in Consumers : d # c => stage'[d] = stage[d] /\ held'[d] = held[d]
  BY <1>1 DEF StoredInv, TypeOK, GroupTypeOK, GiveUp, BackToPoll
<1>5. TypeOK'
  BY <1>1, <1>2, <1>3, <1>4 DEF StoredInv, TypeOK, chain
<1>6. ASSUME NEW d \in Consumers
      PROVE  LoopSound(d)'
  <2>1. CASE d = c
    BY <1>4, <2>1 DEF LoopSound, At
  <2>2. CASE d # c
    BY <1>1, <1>2, <1>4, <2>2, OthersKeep
  <2> QED
    BY <2>1, <2>2
<1> QED
  BY <1>1, <1>2, <1>5, <1>6, HistoryKeeps DEF StoredInv, chain

LEMMA PublishKeeps ==
    ASSUME StoredInv, NEW c \in Consumers, PublishWalletCreated(c) PROVE StoredInv'
<1> USE DEF PublishWalletCreated, NextCurrency, group, loops, history
<1>1. /\ stage[c] = "process" /\ cursor[c] <= Len(AllCurrencies)
      /\ wallet[UserOf(c)][CurrencyOf(c)] = c
  BY DEF At, StoredInv, LoopSound
<1>2. /\ NewAddress(c) \in Addresses
      /\ NewAddress(c).user = UserOf(c) /\ NewAddress(c).by = c
      /\ NewAddress(c).currency = CurrencyOf(c)
      /\ announced' = announced \/ announced' = announced \cup {NewAddress(c)}
  BY <1>1, WorkIsTyped DEF StoredInv, NewAddress
<1>3. TypeOK'
  <2>1. cursor' \in [Consumers -> 1..(Len(AllCurrencies) + 1)]
    <3>1. /\ cursor \in [Consumers -> 1..(Len(AllCurrencies) + 1)]
          /\ Len(AllCurrencies) \in Nat
      BY ProvisioningAssumption DEF StoredInv, TypeOK
    <3> QED
      BY <1>1, <3>1
  <2>2. step' \in [Consumers -> {"find", "create", "publish"}]
    BY DEF StoredInv, TypeOK
  <2>3. /\ faults' \in 0..MaxFaults /\ rebalances' \in 0..MaxRebalances
        /\ struck' \subseteq Users
    BY ProvisioningAssumption, AtWorkIsTyped DEF StoredInv, TypeOK, Fault, mishaps
  <2>4. announced' \subseteq Addresses /\ unread' \subseteq announced'
        /\ watched' \subseteq announced'
    BY <1>2 DEF StoredInv, TypeOK
  <2> QED
    BY <2>1, <2>2, <2>3, <2>4 DEF StoredInv, TypeOK, GroupTypeOK
<1>4. WalletsStay
  BY DEF WalletsStay
<1>5. ASSUME NEW d \in Consumers, d # c
      PROVE  LoopSound(d)'
  BY <1>4, <1>5, OthersKeep DEF StoredInv, TypeOK
<1>6. LoopSound(c)'
  <2>1. UserOf(c)' = UserOf(c) /\ ~At(c, "publish")'
    BY DEF UserOf, At, StoredInv, TypeOK
  <2>2. ASSUME NEW i \in 1..cursor[c]
        PROVE  wallet[UserOf(c)][AllCurrencies[i]] # NoConsumer
    <3>1. CASE i \in 1..(cursor[c] - 1)
      BY <1>1, <3>1 DEF StoredInv, LoopSound
    <3>2. CASE i = cursor[c]
      BY <1>1, <3>2, GroupAssumption DEF CurrencyOf
    <3>3. cursor[c] \in Nat
      BY DEF StoredInv, TypeOK
    <3> QED
      BY <3>1, <3>2, <3>3
  <2>3. cursor[c] \in Nat /\ cursor'[c] - 1 = cursor[c]
    BY DEF StoredInv, TypeOK
  <2> QED
    BY <2>1, <2>2, <2>3 DEF LoopSound
<1>7. AnnouncedAreStored'
  BY <1>1, <1>2 DEF StoredInv, AnnouncedAreStored
<1>8. ProvisionedHaveWallets'
  BY DEF StoredInv, ProvisionedHaveWallets
<1> QED
  BY <1>3, <1>5, <1>6, <1>7, <1>8 DEF StoredInv

LEMMA FinishKeeps ==
    ASSUME StoredInv, NEW c \in Consumers, Finish(c) PROVE StoredInv'
<1> USE DEF Finish, ToCommit, chain, mishaps
<1>1. UserOf(c) \in registered /\ provisioned' = provisioned \cup {UserOf(c)}
  BY WorkIsTyped DEF StoredInv
<1>2. TypeOK'
  BY <1>1 DEF StoredInv, TypeOK, GroupTypeOK
<1>3. WalletsStay
  BY DEF WalletsStay
<1>4. ASSUME NEW d \in Consumers
      PROVE  LoopSound(d)'
  <2>1. CASE d = c
    BY <2>1 DEF LoopSound, At, StoredInv, TypeOK, GroupTypeOK
  <2>2. CASE d # c
    BY <1>3, <2>2, OthersKeep DEF StoredInv, TypeOK, GroupTypeOK
  <2> QED
    BY <2>1, <2>2
<1>5. ProvisionedHaveWallets'
  <2> SUFFICES ASSUME NEW k \in Currencies
      PROVE  wallet[UserOf(c)][k] # NoConsumer
    BY <1>1 DEF StoredInv, ProvisionedHaveWallets
  <2>1. PICK i \in 1..Len(AllCurrencies) : k = AllCurrencies[i]
    BY DEF Currencies
  <2>2. i \in 1..(cursor[c] - 1)
    BY <2>1 DEF StoredInv, TypeOK
  <2> QED
    BY <2>1, <2>2 DEF StoredInv, LoopSound
<1>6. AnnouncedAreStored'
  BY DEF StoredInv, AnnouncedAreStored
<1> QED
  BY <1>2, <1>4, <1>5, <1>6 DEF StoredInv

LEMMA RegistryKeeps ==
    ASSUME StoredInv, NEW a \in unread, AddAddress(a) \/ AddressLost(a) PROVE StoredInv'
<1> USE DEF AddAddress, AddressLost, Fault, group, loops, history, mishaps
<1>1. TypeOK'
  <2>1. /\ faults' \in 0..MaxFaults /\ rebalances' \in 0..MaxRebalances
        /\ struck' \subseteq Users
    BY ProvisioningAssumption DEF StoredInv, TypeOK, Addresses
  <2>2. unread' \subseteq announced /\ watched' \subseteq announced
    BY DEF StoredInv, TypeOK
  <2> QED
    BY <2>1, <2>2 DEF StoredInv, TypeOK, GroupTypeOK
<1>2. WalletsStay
  BY DEF WalletsStay
<1>3. \A c \in Consumers : LoopSound(c)'
  BY <1>2, OthersKeep
<1> QED
  BY <1>1, <1>2, <1>3, HistoryKeeps DEF StoredInv

LEMMA StutterKeeps ==
    ASSUME StoredInv, UNCHANGED vars PROVE StoredInv'
<1> USE DEF vars, group, loops, chain, history, mishaps
<1>1. TypeOK'
  BY DEF StoredInv, TypeOK, GroupTypeOK
<1>2. WalletsStay
  BY DEF WalletsStay
<1>3. \A c \in Consumers : LoopSound(c)'
  BY <1>2, OthersKeep
<1> QED
  BY <1>1, <1>2, <1>3, HistoryKeeps DEF StoredInv

LEMMA StepKeeps == StoredInv /\ [Next]_vars => StoredInv' /\ WalletsStay
<1> SUFFICES ASSUME StoredInv, [Next]_vars PROVE StoredInv' /\ WalletsStay
  OBVIOUS
<1>1. ASSUME NEW u \in Users, Register(u)
      PROVE  StoredInv' /\ WalletsStay
  BY <1>1, RegisterKeeps DEF Register, WalletsStay
<1>2. ASSUME NEW c \in Consumers,
             Join(c) \/ Rebalance(c) \/ Commit(c) \/ CommitLost(c) \/ Stop(c)
      PROVE  StoredInv' /\ WalletsStay
  BY <1>2, GroupStepKeeps
<1>3. ASSUME NEW c \in Consumers, Read(c)
      PROVE  StoredInv' /\ WalletsStay
  BY <1>3, ReadKeeps DEF Read, WalletsStay
<1>4. ASSUME NEW c \in Consumers, FindWallet(c)
      PROVE  StoredInv' /\ WalletsStay
  BY <1>4, FindWalletKeeps DEF FindWallet, WalletsStay
<1>5. ASSUME NEW c \in Consumers, CreateWallet(c)
      PROVE  StoredInv' /\ WalletsStay
  BY <1>5, CreateWalletKeeps
<1>6. ASSUME NEW c \in Consumers, CreateConflicts(c) \/ DbError(c) \/ PublishFails(c)
      PROVE  StoredInv' /\ WalletsStay
  BY <1>6, FailKeeps
<1>7. ASSUME NEW c \in Consumers, PublishWalletCreated(c)
      PROVE  StoredInv' /\ WalletsStay
  BY <1>7, PublishKeeps DEF PublishWalletCreated, WalletsStay
<1>8. ASSUME NEW c \in Consumers, Finish(c)
      PROVE  StoredInv' /\ WalletsStay
  BY <1>8, FinishKeeps DEF Finish, WalletsStay
<1>9. ASSUME NEW a \in unread, AddAddress(a) \/ AddressLost(a)
      PROVE  StoredInv' /\ WalletsStay
  BY <1>9, RegistryKeeps DEF AddAddress, AddressLost, WalletsStay
<1>10. CASE UNCHANGED vars
  BY <1>10, StutterKeeps DEF vars, WalletsStay
<1> QED
  BY <1>1, <1>2, <1>3, <1>4, <1>5, <1>6, <1>7, <1>8, <1>9, <1>10 DEF Next, Loop

-----------------------------------------------------------------------------
(* Nobody is forgotten but whom a fault has hit                            *)

\* The parts of NobodyForgotten.
EveryoneIsInLog == \A u \in registered \ struck : \E o \in 1..Len(log) : log[o] = u

PassedAreCovered ==
    \A o \in 1..Len(log) : Passed(o) => log[o] \in struck \/ Covered(o)

StoredAreTold == \A u \in Users \ struck, k \in Currencies : Told(u, k)

AnnouncedArrive == \A a \in announced : a.user \in struck \/ a \in unread \cup watched

\* c's turn ends without an answer to its message.
BreaksOff(c) == DbError(c) \/ PublishFails(c) \/ CommitLost(c) \/ Stop(c)

\* Who was struck stays so.
LEMMA StruckStay == ASSUME [Next]_vars PROVE struck \subseteq struck'
  BY DEF Next, Loop, vars, mishaps, Fault, Register, Join, Rebalance, Read, FindWallet,
     CreateWallet, CreateConflicts, DbError, PublishWalletCreated, PublishFails, Finish,
     Commit, CommitLost, Stop, AddAddress, AddressLost

\* A turn that breaks off strikes the user it was for; nobody else's wallets and
\* no other loop are touched.
LEMMA BreaksOffAlone ==
    ASSUME TypeOK, NEW c \in Consumers, BreaksOff(c)
    PROVE  /\ UNCHANGED <<registered, log, announced, unread, watched, cursor, step, position>>
           /\ stage[c] = "process" => UserOf(c) \in struck'
           /\ \A d \in Consumers : d # c => held'[d] = held[d] /\ stage'[d] = stage[d]
           /\ stage'[c] = "poll" /\ committed' = committed
           /\ owner' = owner \/ owner' = NoConsumer
           /\ \A u \in Users \ struck' : wallet'[u] = wallet[u]
<1>1. /\ UNCHANGED <<registered, log, announced, unread, watched, cursor, step, position>>
      /\ \A d \in Consumers : d # c => held'[d] = held[d] /\ stage'[d] = stage[d]
      /\ stage'[c] = "poll" /\ committed' = committed
      /\ owner' = owner \/ owner' = NoConsumer
  BY DEF BreaksOff, TypeOK, GroupTypeOK, DbError, PublishFails, CommitLost, Stop, chain,
     Fail, GiveUp, CommitFails, Leave, BackToPoll
<1>2. ASSUME stage[c] = "process" PROVE UserOf(c) \in struck'
  BY <1>2 DEF BreaksOff, DbError, PublishFails, CommitLost, CommitFails, Stop, Fault, AtWork
<1>3. ASSUME NEW u \in Users \ struck' PROVE wallet'[u] = wallet[u]
  <2>1. CASE UNCHANGED wallet
    BY <2>1
  <2>2. CASE stage[c] = "process" /\ Store(c)
    BY <1>2, <2>2 DEF Store, TypeOK
  <2> QED
    BY <2>1, <2>2 DEF BreaksOff, DbError, At, PublishFails, CommitLost, Stop
<1> QED
  BY <1>1, <1>2, <1>3

\* A turn of c's loop changes nothing of the other loops.
LEMMA LoopTouchesItsOwn ==
    ASSUME TypeOK, NEW c \in Consumers, Loop(c)
    PROVE  /\ UNCHANGED <<registered, log, owner, watched>>
           /\ \A d \in Consumers : d # c =>
                /\ position'[d] = position[d] /\ held'[d] = held[d] /\ stage'[d] = stage[d]
                /\ cursor'[d] = cursor[d] /\ step'[d] = step[d]
<1> USE DEF TypeOK, GroupTypeOK, group, loops, chain
<1>1. CASE Read(c) \/ Finish(c) \/ Commit(c)
  BY <1>1 DEF Read, ReadMessage, Finish, ToCommit, Commit, CommitMessage, BackToPoll
<1>2. CASE FindWallet(c) \/ PublishWalletCreated(c)
  BY <1>2 DEF FindWallet, PublishWalletCreated, NextCurrency
<1>3. CASE CreateWallet(c) \/ CreateConflicts(c)
  BY <1>3 DEF CreateWallet, CreateConflicts, Fail, GiveUp, BackToPoll
<1> QED
  BY <1>1, <1>2, <1>3 DEF Loop

LEMMA LogStep ==
    ASSUME TypeOK, [Next]_vars
    PROVE  log' = log \/ \E u \in Users : log' = Append(log, u) /\ Register(u)
<1>1. ASSUME NEW c \in Consumers, Loop(c) \/ BreaksOff(c) PROVE log' = log
  BY <1>1, LoopTouchesItsOwn, BreaksOffAlone
<1> QED
  BY <1>1 DEF Next, vars, Register, Join, Rebalance, AddAddress, AddressLost, BreaksOff

LEMMA OffsetsStep ==
    ASSUME StoredInv, OffsetsInLog, [Next]_vars PROVE OffsetsInLog'
<1> USE DEF OffsetsInLog, group, loops
<1>1. /\ GroupTypeOK /\ Len(log) \in Nat
      /\ \A c \in Consumers : stage[c] # "poll" => held[c] \in 1..Len(log)
  BY DEF StoredInv, TypeOK
<1>2. CASE UNCHANGED <<committed, position>> /\ Len(log') >= Len(log)
  <2>1. Len(log') \in Int
    BY <1>2
  <2> QED
    BY <1>1, <1>2, <2>1 DEF GroupTypeOK
<1>3. ASSUME NEW u \in Users, Register(u) PROVE OffsetsInLog'
  <2>1. log \in Seq(Users)
    BY DEF StoredInv, TypeOK
  <2>2. Len(log') >= Len(log) /\ Len(log') \in Nat
    BY <1>3, <2>1 DEF Register
  <2> QED
    BY <1>1, <1>3, <2>2 DEF Register, GroupTypeOK
<1>4. ASSUME NEW c \in Consumers, Join(c) \/ Rebalance(c) PROVE OffsetsInLog'
  BY <1>1, <1>4 DEF Join, Rebalance, Assign, GroupTypeOK
<1>5. ASSUME NEW c \in Consumers, Read(c) PROVE OffsetsInLog'
  BY <1>1, <1>5 DEF Read, ReadMessage, GroupTypeOK
<1>6. ASSUME NEW c \in Consumers, Commit(c) PROVE OffsetsInLog'
  BY <1>1, <1>6 DEF Commit, CommitMessage, BackToPoll, GroupTypeOK
<1>7. ASSUME UNCHANGED <<committed, position, log>> PROVE OffsetsInLog'
  BY <1>7
<1>8. ASSUME NEW c \in Consumers,
             \/ FindWallet(c) \/ CreateWallet(c) \/ CreateConflicts(c) \/ Finish(c)
             \/ PublishWalletCreated(c) \/ DbError(c) \/ PublishFails(c)
             \/ CommitLost(c) \/ Stop(c)
      PROVE  UNCHANGED <<committed, position, log>>
  BY <1>8 DEF FindWallet, CreateWallet, CreateConflicts, PublishWalletCreated, Finish,
     DbError, PublishFails, CommitLost, Stop, Fail, GiveUp, BackToPoll, ToCommit,
     CommitFails, Leave
<1>9. CASE UNCHANGED vars \/ \E a \in unread : AddAddress(a) \/ AddressLost(a)
  BY <1>7, <1>9 DEF vars, AddAddress, AddressLost
<1> QED
  BY <1>3, <1>4, <1>5, <1>6, <1>7, <1>8, <1>9 DEF Next, Loop

\* A wallet somebody sees to is seen to until it is stored: the loop that loses
\* the race for it, or for an earlier one, hands it to the one that wins.
LEMMA LoopCarriesOn ==
    ASSUME StoredInv, NEW c \in Consumers, Loop(c),
           NEW u \in Users, NEW n \in 1..Len(AllCurrencies),
           wallet[u][AllCurrencies[n]] = NoConsumer,
           NEW d \in Consumers, Carries(d, u, n)
    PROVE  \E e \in Consumers : Carries(e, u, n)'
<1>1. /\ TypeOK /\ Len(AllCurrencies) \in Nat /\ cursor[d] \in Nat \ {0}
      /\ cursor[d] <= Len(AllCurrencies)
      /\ stage[d] = "process" /\ UserOf(d) = u /\ cursor[d] <= n
      /\ cursor \in [Consumers -> 1..(Len(AllCurrencies) + 1)]
      /\ step \in [Consumers -> {"find", "create", "publish"}]
      /\ wallet \in [Users -> [Currencies -> Consumers \cup {NoConsumer}]]
  BY ProvisioningAssumption DEF StoredInv, TypeOK, Carries
<1>2. UNCHANGED log
  BY <1>1, LoopTouchesItsOwn
<1> USE DEF group, loops
<1>3. CASE c = d
  <2>1. ~Read(c) /\ ~Commit(c) /\ ~CreateConflicts(c) /\ ~Finish(c)
    BY <1>1, <1>3 DEF Carries, Read, ReadMessage, Commit, CommitMessage, CreateConflicts,
       Finish, At
  <2>2. CASE FindWallet(c)
    <3>1. CASE wallet[u][CurrencyOf(d)] # NoConsumer
      <4>1. cursor[d] # n
        BY <3>1 DEF CurrencyOf
      <4>2. /\ stage'[d] = "process" /\ held'[d] = held[d]
            /\ cursor'[d] = cursor[d] + 1 /\ step'[d] = "find"
        BY <1>1, <1>3, <2>2, <3>1 DEF FindWallet, NextCurrency
      <4>3. cursor'[d] <= n
        BY <1>1, <4>1, <4>2
      <4> QED
        BY <1>1, <1>2, <4>2, <4>3 DEF Carries, UserOf
    <3>2. CASE wallet[u][CurrencyOf(d)] = NoConsumer
      <4>1. UNCHANGED <<stage, held, cursor, wallet>>
        BY <1>1, <1>3, <2>2, <3>2 DEF FindWallet
      <4> QED
        BY <1>1, <1>2, <3>2, <4>1 DEF Carries, UserOf, CurrencyOf
    <3> QED
      BY <3>1, <3>2
  <2>3. CASE CreateWallet(c)
    <3>1. UNCHANGED <<stage, held, cursor>> /\ step'[d] = "publish"
      BY <1>1, <1>3, <2>3 DEF CreateWallet
    <3> QED
      BY <1>1, <1>2, <3>1 DEF Carries, UserOf
  <2>4. CASE PublishWalletCreated(c)
    <3>1. wallet[u][CurrencyOf(d)] = d
      BY <1>1, <1>3, <2>4 DEF StoredInv, LoopSound, PublishWalletCreated
    <3>2. cursor[d] # n
      BY <3>1, GroupAssumption DEF CurrencyOf
    <3>3. /\ stage'[d] = "process" /\ held'[d] = held[d]
          /\ cursor'[d] = cursor[d] + 1 /\ step'[d] = "find"
      BY <1>1, <1>3, <2>4 DEF PublishWalletCreated, NextCurrency
    <3>4. cursor'[d] <= n
      BY <1>1, <3>2, <3>3
    <3> QED
      BY <1>1, <1>2, <3>3, <3>4 DEF Carries, UserOf
  <2> QED
    BY <2>1, <2>2, <2>3, <2>4 DEF Loop
<1>4. CASE c # d
  <2>1. /\ stage'[d] = stage[d] /\ held'[d] = held[d]
        /\ cursor'[d] = cursor[d] /\ step'[d] = step[d]
    BY <1>1, <1>4, LoopTouchesItsOwn
  <2>2. UserOf(d)' = u /\ CurrencyOf(d)' = CurrencyOf(d)
    BY <1>1, <1>2, <2>1 DEF UserOf, CurrencyOf
  <2>3. CASE wallet'[u][CurrencyOf(d)] = wallet[u][CurrencyOf(d)]
    BY <1>1, <2>1, <2>2, <2>3 DEF Carries
  <2>4. CASE wallet'[u][CurrencyOf(d)] # wallet[u][CurrencyOf(d)]
    <3>1. CreateWallet(c)
      BY <2>4 DEF Loop, Read, FindWallet, CreateConflicts, PublishWalletCreated, Finish,
         Commit
    <3>2. /\ stage[c] = "process" /\ cursor[c] <= Len(AllCurrencies)
          /\ wallet' = [wallet EXCEPT ![UserOf(c)][CurrencyOf(c)] = c]
          /\ UNCHANGED <<stage, held, cursor>> /\ step'[c] = "publish"
      BY <1>1, <3>1 DEF CreateWallet, At, Store
    <3>3. UserOf(c) \in Users /\ CurrencyOf(c) \in Currencies /\ CurrencyOf(d) \in Currencies
      BY <1>1, <3>2, WorkIsTyped
    <3>4. UserOf(c) = u /\ CurrencyOf(c) = CurrencyOf(d)
      BY <1>1, <2>4, <3>2, <3>3
    <3>5. cursor[c] = cursor[d]
      <4>1. cursor[c] \in 1..Len(AllCurrencies) /\ cursor[d] \in 1..Len(AllCurrencies)
        BY <1>1, <3>2
      <4> QED
        BY <3>4, <4>1, ProvisioningAssumption DEF CurrencyOf
    <3> QED
      BY <1>1, <1>2, <3>2, <3>4, <3>5 DEF Carries, UserOf
  <2> QED
    BY <2>3, <2>4
<1> QED
  BY <1>3, <1>4

\* What is covered stays covered, unless a fault hits the user.
LEMMA CoveredStays ==
    ASSUME StoredInv, [Next]_vars, NEW o \in 1..Len(log), Covered(o), log[o] \notin struck'
    PROVE  Covered(o)'
<1>1. TypeOK /\ log \in Seq(Users) /\ log[o] \in Users /\ WalletsStay
  BY StepKeeps DEF StoredInv, TypeOK
<1>2. log' = log \/ \E u \in Users : log' = Append(log, u)
  BY <1>1, LogStep
<1>3. log'[o] = log[o] /\ \A c \in Consumers : stage[c] = "process" => log'[held[c]] = log[held[c]]
  BY <1>1, <1>2, WorkIsTyped
<1> SUFFICES ASSUME NEW n \in 1..Len(AllCurrencies)
             PROVE  \/ wallet'[log[o]][AllCurrencies[n]] # NoConsumer
                    \/ \E c \in Consumers : Carries(c, log[o], n)'
  BY <1>3 DEF Covered, Carries, UserOf, CurrencyOf
<1>4. AllCurrencies[n] \in Currencies
  BY DEF Currencies
<1>5. CASE wallet[log[o]][AllCurrencies[n]] # NoConsumer
  BY <1>1, <1>4, <1>5 DEF WalletsStay
<1>6. CASE wallet[log[o]][AllCurrencies[n]] = NoConsumer
  <2>1. PICK d \in Consumers : Carries(d, log[o], n)
    BY <1>6 DEF Covered
  <2>2. ASSUME NEW c \in Consumers, Loop(c)
        PROVE  \E e \in Consumers : Carries(e, log[o], n)'
    <3>1. log' = log
      BY <1>1, <2>2, LoopTouchesItsOwn
    <3> DEFINE u == log[o]
    <3>2. u \in Users /\ u' = u /\ wallet[u][AllCurrencies[n]] = NoConsumer /\ Carries(d, u, n)
      BY <1>1, <1>6, <2>1, <3>1
    <3>3. PICK v \in Users : v = u
      BY <3>2
    <3>4. \E e \in Consumers : Carries(e, v, n)'
      BY <2>2, <3>2, <3>3, LoopCarriesOn
    <3> QED
      BY <3>1, <3>3, <3>4 DEF Carries
  <2>3. ASSUME NEW c \in Consumers, BreaksOff(c) PROVE Carries(d, log[o], n)'
    <3>1. /\ UNCHANGED <<log, cursor, step>> /\ wallet'[log[o]] = wallet[log[o]]
          /\ stage[c] = "process" => UserOf(c) \in struck'
          /\ d # c => held'[d] = held[d] /\ stage'[d] = stage[d]
      BY <1>1, <2>3, BreaksOffAlone
    <3>2. d # c
      BY <2>1, <3>1 DEF Carries
    <3> QED
      BY <2>1, <3>1, <3>2 DEF Carries, UserOf, CurrencyOf
  <2>4. CASE UNCHANGED <<held, stage, cursor, step, wallet>>
    BY <1>3, <2>1, <2>4 DEF Carries, UserOf, CurrencyOf
  <2> QED
    BY <2>2, <2>3, <2>4
    DEF Next, vars, group, loops, Register, Join, Rebalance, Assign, AddAddress,
        AddressLost, BreaksOff
<1> QED
  BY <1>5, <1>6

\* What is passed has just been read, or was passed before; a new message is not.
LEMMA PassedStep ==
    ASSUME StoredInv, OffsetsInLog, [Next]_vars, NEW o \in 1..Len(log'),
           Passed(o)'
    PROVE  /\ o \in 1..Len(log)
           /\ Passed(o) \/ \E c \in Consumers : Read(c) /\ o = position[c]
<1>1. /\ TypeOK /\ GroupTypeOK /\ Len(log) \in Nat /\ log \in Seq(Users)
      /\ \A c \in Consumers : stage[c] # "poll" => held[c] \in 1..Len(log)
  BY DEF StoredInv, TypeOK
<1> USE DEF Passed, OffsetsInLog, group, loops, GroupTypeOK
<1>2. CASE log' = log /\ (Passed(o)' => Passed(o) \/ \E c \in Consumers : Read(c) /\ o = position[c])
  BY <1>1, <1>2
<1>3. ASSUME NEW u \in Users, Register(u), log' = Append(log, u)
      PROVE  o \in 1..Len(log) /\ Passed(o)
  <2>1. o \in 1..(Len(log) + 1) /\ UNCHANGED group
    BY <1>1, <1>3 DEF Register
  <2> QED
    BY <1>1, <2>1
<1>4. ASSUME NEW c \in Consumers, Join(c) \/ Rebalance(c) PROVE log' = log /\ Passed(o)
  BY <1>1, <1>4 DEF Join, Rebalance, Assign
<1>5. ASSUME NEW c \in Consumers, Loop(c)
      PROVE  /\ log' = log
             /\ Passed(o) \/ \E d \in Consumers : Read(d) /\ o = position[d]
  <2>1. CASE Read(c)
    <3>1. /\ log' = log /\ owner' = owner /\ committed' = committed /\ owner = c
          /\ \A d \in Consumers : d # c => position'[d] = position[d]
                                           /\ held'[d] = held[d] /\ stage'[d] = stage[d]
          /\ position'[c] = position[c] + 1 /\ held'[c] = position[c]
      BY <1>1, <2>1 DEF Read, ReadMessage
    <3>2. CASE o = position[c]
      BY <2>1, <3>1, <3>2
    <3>3. CASE o # position[c]
      <4>1. /\ o < position[c] + 1 => o < position[c]
            /\ o <= position[c] => o < position[c]
        BY <1>1, <3>3
      <4> QED
        BY <3>1, <4>1
    <3> QED
      BY <3>2, <3>3
  <2>2. CASE Commit(c)
    BY <1>1, <2>2 DEF Commit, CommitMessage, BackToPoll
  <2>3. CASE FindWallet(c) \/ CreateWallet(c) \/ PublishWalletCreated(c)
    BY <1>1, <2>3 DEF FindWallet, CreateWallet, PublishWalletCreated
  <2>4. CASE CreateConflicts(c)
    BY <1>1, <2>4 DEF CreateConflicts, Fail, GiveUp, BackToPoll
  <2>5. CASE Finish(c)
    BY <1>1, <2>5 DEF Finish, ToCommit
  <2> QED
    BY <1>5, <2>1, <2>2, <2>3, <2>4, <2>5 DEF Loop
<1>6. ASSUME NEW c \in Consumers, BreaksOff(c) PROVE log' = log /\ Passed(o)
  <2>1. /\ log' = log /\ UNCHANGED <<position, committed>> /\ stage'[c] = "poll"
        /\ \A d \in Consumers : d # c => held'[d] = held[d] /\ stage'[d] = stage[d]
        /\ owner' = owner \/ owner' = NoConsumer
    BY <1>1, <1>6, BreaksOffAlone
  <2> QED
    BY <2>1, GroupAssumption
<1>7. ASSUME UNCHANGED <<group, log>> PROVE Passed(o)
  BY <1>7
<1>8. CASE UNCHANGED <<group, log>>
  BY <1>1, <1>7, <1>8
<1> QED
  BY <1>1, <1>3, <1>4, <1>5, <1>6, <1>8
  DEF Next, vars, Register, AddAddress, AddressLost, BreaksOff

\* A message that was read is its reader's from the first currency on.
LEMMA ReaderCarries ==
    ASSUME TypeOK, NEW c \in Consumers, Read(c), NEW o \in Nat, o = position[c]
    PROVE  Covered(o)'
<1>1. /\ cursor'[c] = 1 /\ step'[c] = "find" /\ stage'[c] = "process" /\ held'[c] = o
  BY DEF Read, ReadMessage, TypeOK, GroupTypeOK
<1>2. UserOf(c)' = log'[o]
  BY <1>1 DEF UserOf
<1> QED
  BY <1>1, <1>2 DEF Covered, Carries

LEMMA PassedAreCoveredStep ==
    ASSUME StoredInv, OffsetsInLog, PassedAreCovered, [Next]_vars
    PROVE  PassedAreCovered'
<1> SUFFICES ASSUME NEW o \in 1..Len(log'), Passed(o)', log'[o] \notin struck'
             PROVE  Covered(o)'
  BY DEF PassedAreCovered
<1>1. o \in 1..Len(log) /\ log[o] \notin struck'
  <2>1. o \in 1..Len(log) /\ TypeOK /\ log \in Seq(Users)
    BY PassedStep DEF StoredInv, TypeOK
  <2> QED
    BY <2>1, LogStep
<1>2. CASE Passed(o)
  BY <1>1, <1>2, StruckStay, CoveredStays DEF PassedAreCovered
<1>3. ASSUME NEW c \in Consumers, Read(c), o = position[c] PROVE Covered(o)'
  <2>1. o \in Nat
    BY <1>1
  <2> QED
    BY <1>3, <2>1, ReaderCarries DEF StoredInv
<1> QED
  BY <1>2, <1>3, PassedStep

\* Whoever is about to announce an address stays so until he has, unless a fault
\* hits the user.
LEMMA StoredAreToldStep ==
    ASSUME StoredInv, StoredAreTold, [Next]_vars
    PROVE  StoredAreTold'
<1> SUFFICES ASSUME NEW u \in Users, u \notin struck', NEW k \in Currencies,
                    wallet'[u][k] # NoConsumer
             PROVE  Told(u, k)'
  BY DEF StoredAreTold, Told
<1>1. /\ TypeOK /\ WalletsStay /\ u \notin struck
      /\ wallet \in [Users -> [Currencies -> Consumers \cup {NoConsumer}]]
      /\ step \in [Consumers -> {"find", "create", "publish"}]
      /\ stage \in [Consumers -> {"poll", "process", "commit"}]
  BY StepKeeps, StruckStay DEF StoredInv, TypeOK, GroupTypeOK
<1>2. /\ log' = log \/ \E v \in Users : log' = Append(log, v)
      /\ announced \subseteq announced'
  <2>1. ASSUME NEW c \in Consumers, Loop(c) PROVE announced \subseteq announced'
    BY <2>1 DEF Loop, Read, FindWallet, CreateWallet, CreateConflicts,
       PublishWalletCreated, Finish, Commit, chain
  <2>2. ASSUME NEW c \in Consumers, BreaksOff(c) PROVE announced' = announced
    BY <1>1, <2>2, BreaksOffAlone
  <2>3. announced \subseteq announced'
    BY <2>1, <2>2
    DEF Next, vars, chain, Register, Join, Rebalance, AddAddress, AddressLost, BreaksOff
  <2> QED
    BY <1>1, <2>3, LogStep
<1>3. CASE wallet[u][k] = NoConsumer
  <2>1. ASSUME NEW c \in Consumers, BreaksOff(c) PROVE FALSE
    BY <1>1, <1>3, <2>1, BreaksOffAlone
  <2>2. PICK c \in Consumers : Loop(c)
    BY <1>3, <2>1
    DEF Next, vars, Register, Join, Rebalance, AddAddress, AddressLost, BreaksOff
  <2>3. CreateWallet(c)
    BY <1>3, <2>2 DEF Loop, Read, FindWallet, CreateConflicts, PublishWalletCreated,
       Finish, Commit
  <2>4. /\ stage[c] = "process" /\ cursor[c] <= Len(AllCurrencies)
        /\ UNCHANGED <<stage, held, cursor, log>> /\ step'[c] = "publish"
        /\ wallet' = [wallet EXCEPT ![UserOf(c)][CurrencyOf(c)] = c]
    BY <1>1, <2>3 DEF CreateWallet, At, Store, group, loops
  <2>5. UserOf(c) \in Users /\ CurrencyOf(c) \in Currencies
    BY <1>1, <2>4, WorkIsTyped
  <2>6. u = UserOf(c) /\ k = CurrencyOf(c) /\ wallet'[u][k] = c
    BY <1>1, <1>3, <2>4, <2>5
  <2>7. At(c, "publish")' /\ NewAddress(c)' = StoredAddress(u, k)'
    BY <2>4, <2>6 DEF At, NewAddress, StoredAddress, UserOf, CurrencyOf
  <2> QED
    BY <2>7 DEF Told
<1>4. CASE wallet[u][k] # NoConsumer
  <2>1. StoredAddress(u, k)' = StoredAddress(u, k)
    BY <1>1, <1>4 DEF WalletsStay, StoredAddress
  <2>2. CASE StoredAddress(u, k) \in announced
    BY <1>2, <2>1, <2>2 DEF Told
  <2>3. ASSUME NEW c \in Consumers, At(c, "publish"), NewAddress(c) = StoredAddress(u, k)
        PROVE  Told(u, k)'
    <3>1. /\ held[c] \in 1..Len(log) /\ log \in Seq(Users)
          /\ stage[c] = "process" /\ UserOf(c) = u
      BY <1>1, <2>3 DEF TypeOK, At, NewAddress, StoredAddress
    <3>2. log'[held[c]] = log[held[c]]
      BY <1>2, <3>1
    <3>3. CASE PublishWalletCreated(c)
      <4>1. announced' = announced \cup {NewAddress(c)}
        BY <3>1, <3>3 DEF PublishWalletCreated, Fault, AtWork
      <4> QED
        BY <1>1, <2>1, <2>3, <4>1 DEF Told
    <3>4. CASE UNCHANGED <<stage[c], held[c], cursor[c], step[c]>>
      <4>1. At(c, "publish")' /\ NewAddress(c)' = NewAddress(c)
        BY <2>3, <3>2, <3>4 DEF At, NewAddress, UserOf, CurrencyOf
      <4> QED
        BY <2>1, <2>3, <4>1 DEF Told
    <3>5. ASSUME NEW d \in Consumers, Loop(d), d # c
          PROVE  UNCHANGED <<stage[c], held[c], cursor[c], step[c]>>
      BY <1>1, <3>5, LoopTouchesItsOwn
    <3>6. ASSUME NEW d \in Consumers, BreaksOff(d)
          PROVE  UNCHANGED <<stage[c], held[c], cursor[c], step[c]>>
      BY <1>1, <3>1, <3>6, BreaksOffAlone
    <3>7. Loop(c) => PublishWalletCreated(c)
      <4>1. stage[c] = "process" /\ step[c] = "publish" /\ ~(cursor[c] > Len(AllCurrencies))
        BY <1>1, <2>3, ProvisioningAssumption DEF At, TypeOK
      <4> QED
        BY <4>1 DEF Loop, At, Read, ReadMessage, FindWallet, CreateWallet, CreateConflicts,
           Finish, Commit, CommitMessage
    <3> QED
      BY <3>3, <3>4, <3>5, <3>6, <3>7
      DEF Next, vars, group, loops, Register, Join, Rebalance, Assign, AddAddress,
          AddressLost, BreaksOff
  <2> QED
    BY <1>1, <1>4, <2>2, <2>3 DEF StoredAreTold, Told
<1> QED
  BY <1>3, <1>4

\* The log holds every registered user, and the registry every announced address.
LEMMA EndsStep ==
    ASSUME StoredInv, EveryoneIsInLog, AnnouncedArrive, [Next]_vars
    PROVE  EveryoneIsInLog' /\ AnnouncedArrive'
<1>1. TypeOK /\ log \in Seq(Users) /\ struck \subseteq struck'
  BY StruckStay DEF StoredInv, TypeOK
<1>2. ASSUME NEW u \in Users, Register(u), log' = Append(log, u)
      PROVE  EveryoneIsInLog' /\ AnnouncedArrive'
  <2>1. /\ Len(log') = Len(log) + 1 /\ log'[Len(log) + 1] = u /\ Len(log) \in Nat
        /\ \A o \in 1..Len(log) : log'[o] = log[o]
    BY <1>1, <1>2
  <2>2. \E o \in 1..Len(log') : log'[o] = u
    BY <2>1
  <2>3. ASSUME NEW v \in registered, v \notin struck
        PROVE  \E o \in 1..Len(log') : log'[o] = v
    <3>1. PICK o \in 1..Len(log) : log[o] = v
      BY <2>3 DEF EveryoneIsInLog
    <3> QED
      BY <2>1, <3>1
  <2> QED
    BY <1>1, <1>2, <2>2, <2>3 DEF Register, EveryoneIsInLog, AnnouncedArrive, chain
<1>3. ASSUME NEW u \in Users, Register(u), log' = log
      PROVE  EveryoneIsInLog' /\ AnnouncedArrive'
  <2>1. u \in struck' /\ registered' = registered \cup {u} /\ UNCHANGED chain
    <3>1. log' # Append(log, u)
      BY <1>1, <1>3
    <3> QED
      BY <1>3, <3>1 DEF Register, Fault
  <2> QED
    BY <1>1, <1>3, <2>1 DEF EveryoneIsInLog, AnnouncedArrive, chain
<1>4. ASSUME NEW c \in Consumers, Loop(c)
      PROVE  EveryoneIsInLog' /\ AnnouncedArrive'
  <2>1. EveryoneIsInLog'
    BY <1>1, <1>4, LoopTouchesItsOwn DEF EveryoneIsInLog
  <2>2. /\ watched' = watched
        /\ \/ announced' = announced /\ unread' = unread
           \/ /\ announced' = announced \cup {NewAddress(c)}
              /\ unread' = unread \cup {NewAddress(c)}
    BY <1>4 DEF Loop, Read, FindWallet, CreateWallet, CreateConflicts,
       PublishWalletCreated, Finish, Commit, chain
  <2> QED
    BY <1>1, <2>1, <2>2 DEF AnnouncedArrive
<1>5. CASE UNCHANGED <<registered, log, chain>>
  BY <1>1, <1>5 DEF EveryoneIsInLog, AnnouncedArrive, chain
<1>6. ASSUME NEW c \in Consumers, BreaksOff(c) PROVE UNCHANGED <<registered, log, chain>>
  BY <1>1, <1>6, BreaksOffAlone DEF chain
<1>7. ASSUME NEW a \in unread, AddAddress(a) \/ AddressLost(a)
      PROVE  EveryoneIsInLog' /\ AnnouncedArrive'
  BY <1>1, <1>7 DEF AddAddress, AddressLost, Fault, EveryoneIsInLog, AnnouncedArrive
<1>8. ASSUME NEW u \in Users, Register(u) PROVE log' = log \/ log' = Append(log, u)
  BY <1>8 DEF Register
<1> QED
  BY <1>2, <1>3, <1>4, <1>5, <1>6, <1>7, <1>8
  DEF Next, vars, Join, Rebalance, BreaksOff

LEMMA NobodyForgottenStep ==
    ASSUME IInv, [Next]_vars PROVE NobodyForgotten'
<1>1. EveryoneIsInLog /\ PassedAreCovered /\ StoredAreTold /\ AnnouncedArrive
  BY DEF IInv, NobodyForgotten, EveryoneIsInLog, PassedAreCovered, StoredAreTold,
     AnnouncedArrive
<1>2. EveryoneIsInLog' /\ PassedAreCovered' /\ StoredAreTold' /\ AnnouncedArrive'
  BY <1>1, PassedAreCoveredStep, StoredAreToldStep, EndsStep DEF IInv
<1> QED
  BY <1>2 DEF NobodyForgotten, EveryoneIsInLog, PassedAreCovered, StoredAreTold,
     AnnouncedArrive

-----------------------------------------------------------------------------
(* The theorems                                                            *)

\* The invariant of allocateDepositAddresses run by any number of consumers at
\* once: what each loop has passed over or stored is there, and its own; and some
\* loop sees to every missing wallet of a user whom no fault has hit.
THEOREM ProvisioningInvariant == Spec => []IInv
<1>1. Init => IInv
  <2> SUFFICES ASSUME Init PROVE IInv
    OBVIOUS
  <2>1. StoredInv
    BY InitInvariant
  <2>2. OffsetsInLog
    BY DEF Init, GroupInit, OffsetsInLog
  <2>3. NobodyForgotten
    BY DEF Init, GroupInit, NobodyForgotten, Told
  <2> QED
    BY <2>1, <2>2, <2>3 DEF IInv
<1>2. IInv /\ [Next]_vars => IInv'
  BY StepKeeps, OffsetsStep, NobodyForgottenStep DEF IInv
<1> QED
  BY <1>1, <1>2, PTL DEF Spec

\* The addresses wallet.created announces are those core.user_wallets resolves.
THEOREM AnnouncedStored == Spec => []AnnouncedAreStored
<1>1. IInv => AnnouncedAreStored
  BY DEF IInv, StoredInv
<1> QED
  BY <1>1, ProvisioningInvariant, PTL

\* A user whose message was processed without an error has all his wallets.
THEOREM ProvisionedComplete == Spec => []ProvisionedHaveWallets
<1>1. IInv => ProvisionedHaveWallets
  BY DEF IInv, StoredInv
<1> QED
  BY <1>1, ProvisioningInvariant, PTL

\* A stored deposit address is never replaced.
THEOREM AddressesFinal == Spec => AddressesAreFinal
<1>1. IInv /\ [Next]_vars =>
        [\A u \in Users, k \in Currencies :
           wallet[u][k] # NoConsumer => wallet'[u][k] = wallet[u][k]]_wallet
  BY StepKeeps DEF IInv, WalletsStay
<1> QED
  BY <1>1, ProvisioningInvariant, PTL DEF Spec, AddressesAreFinal

\* Whatever rebalances, races between the consumers and faults there were: when
\* the consumers and the registry have nothing left to do, every registered user
\* whom no fault has hit has all his addresses watched.  Nobody drops out because
\* of a fault that hit somebody else.
THEOREM NobodyIsForgotten == Spec => []IdleMeansServed
<1>1. IInv => IdleMeansServed
  <2> SUFFICES ASSUME IInv, Idle, NEW u \in registered, u \notin struck, NEW k \in Currencies
               PROVE  StoredAddress(u, k) \in watched
    BY DEF IdleMeansServed
  <2>1. PICK o \in 1..Len(log) : log[o] = u
    BY DEF IInv, NobodyForgotten
  <2>2. PICK n \in 1..Len(AllCurrencies) : k = AllCurrencies[n]
    BY DEF Currencies
  <2>3. Passed(o)
    <3>1. owner \in Consumers /\ position[owner] > Len(log) /\ position[owner] \in Nat
      BY DEF Idle, IInv, StoredInv, TypeOK, GroupTypeOK
    <3>2. o < position[owner]
      BY <3>1
    <3> QED
      BY <3>1, <3>2 DEF Passed
  <2>4. wallet[u][k] # NoConsumer
    BY <2>1, <2>2, <2>3 DEF IInv, NobodyForgotten, Covered, Carries, Idle
  <2>5. Told(u, k) /\ u \in Users
    BY DEF IInv, NobodyForgotten, StoredInv, TypeOK
  <2>6. StoredAddress(u, k) \in announced
    BY <2>4, <2>5 DEF Told, At, Idle
  <2> QED
    BY <2>6 DEF Idle, IInv, NobodyForgotten, StoredAddress
<1> QED
  BY <1>1, ProvisioningInvariant, PTL
=============================================================================
