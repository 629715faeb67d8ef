-------------------------- MODULE OracleFeedProofs --------------------------
(***************************************************************************)
(* Theorems about OracleFeed, for all markets, failures and timeouts with  *)
(* a poll interval and an HTTP timeout that fit into the time to live.     *)
(***************************************************************************)
EXTENDS OracleFeed, TLAPS

\* The parts of the invariant.
Fresh(k) == ttl[k] > 0 => age[k] + ttl[k] <= RateTTL + HttpTimeout
Lasts(k) == ttl[k] > timer + (IF phase = "wait" THEN HttpTimeout ELSE 0)

Timers ==
    /\ phase = "wait" => timer <= PollInterval
    /\ phase = "fetch" => timer <= HttpTimeout

LEMMA Constants ==
    /\ MaxWsFails \in Nat /\ HttpTimeout \in Nat /\ ReconnectDelay \in Nat
    /\ ReadDeadline \in Nat /\ DialTimeout \in Nat
    /\ PollInterval \in Nat /\ RateTTL \in Nat /\ MaxFaults \in Nat
    /\ PollInterval + HttpTimeout < RateTTL
BY FeedAssumption

\* What is written to Redis starts within the budget; the rest stays.
LEMMA SetRatesSound ==
    ASSUME TypeOK, \A k \in Currencies : Fresh(k),
           NEW stored \in SUBSET Currencies, NEW quoted \in 0..HttpTimeout,
           SetRates(stored, quoted)
    PROVE  /\ ttl' \in [Currencies -> 0..RateTTL]
           /\ age' \in [Currencies -> Nat]
           /\ \A k \in Currencies : Fresh(k)'
           /\ \A k \in stored : ttl'[k] = RateTTL
<1> USE Constants
<1>1. ttl' \in [Currencies -> 0..RateTTL] /\ age' \in [Currencies -> Nat]
  BY DEF TypeOK, SetRates
<1>2. ASSUME NEW k \in Currencies
      PROVE  Fresh(k)'
  <2>1. CASE k \in stored
    BY <2>1 DEF SetRates, Fresh
  <2>2. CASE k \notin stored
    BY <2>2 DEF SetRates, Fresh
  <2> QED
    BY <2>1, <2>2
<1> QED
  BY <1>1, <1>2 DEF SetRates

-----------------------------------------------------------------------------
(* Every step keeps the invariant                                          *)

LEMMA InitInvariant == Init => IInv
<1> SUFFICES ASSUME Init PROVE IInv
  OBVIOUS
<1>1. TypeOK
  <2>1. steady \in BOOLEAN
    BY DEF Init
  <2> QED
    BY <2>1, Constants DEF Init, TypeOK
<1> QED
  BY <1>1 DEF Init, IInv

LEMMA ConnectKeeps ==
    ASSUME IInv, Connect \/ Reconnect \/ StartPoll PROVE IInv'
<1> USE Constants DEF Enter, rates
<1>1. TypeOK' /\ Timers'
  BY DEF IInv, TypeOK, Timers, Connect, Reconnect, StartPoll
<1>2. \A k \in Currencies : Fresh(k)'
  BY DEF IInv, Fresh, Connect, Reconnect, StartPoll
<1>3. ASSUME steady'
      PROVE  Polling' /\ \A k \in Currencies : Lasts(k)'
  <2>1. StartPoll
    BY <1>3 DEF IInv, Polling, Connect, Reconnect, StartPoll
  <2> QED
    BY <1>3, <2>1 DEF IInv, TypeOK, Polling, Lasts, StartPoll
<1> QED
  BY <1>1, <1>2, <1>3 DEF IInv, Timers, Fresh, Lasts

LEMMA TickerKeeps ==
    ASSUME IInv, NEW m \in Currencies, Ticker(m) PROVE IInv'
<1> USE Constants DEF Enter, rates
<1>1. ~steady /\ steady' = steady
  BY DEF IInv, Polling, Ticker
<1>2. /\ ttl' \in [Currencies -> 0..RateTTL]
      /\ age' \in [Currencies -> Nat]
      /\ \A k \in Currencies : Fresh(k)'
  <2>1. CASE SetRates({m}, 0)
    BY <2>1, SetRatesSound DEF IInv, Fresh
  <2>2. CASE UNCHANGED rates
    BY <2>2 DEF IInv, TypeOK, Fresh
  <2> QED
    BY <2>1, <2>2 DEF Ticker
<1>3. TypeOK' /\ Timers'
  BY <1>2 DEF IInv, TypeOK, Timers, Ticker, Fault
<1> QED
  BY <1>1, <1>2, <1>3 DEF IInv, Timers, Fresh

\* Steps that end an attempt and store nothing.
LEMMA AttemptEndsKeeps ==
    ASSUME IInv, Disconnect \/ PollFails \/ Restart PROVE IInv'
<1> USE Constants DEF Enter, rates
<1>1. ~steady'
  BY DEF IInv, Polling, Disconnect, PollFails, Restart
<1>2. TypeOK' /\ Timers'
  <2>1. faults' \in 0..MaxFaults
    BY DEF IInv, TypeOK, Disconnect, PollFails, Restart, Fault
  <2>2. CASE Disconnect
    BY <2>1, <2>2 DEF IInv, TypeOK, Timers, Disconnect
  <2>3. CASE PollFails
    <3>1. steady' \in BOOLEAN
      BY <2>3 DEF PollFails
    <3>2. phase' = "wait" /\ timer' = PollInterval
      BY <2>3 DEF IInv, TypeOK, PollFails
    <3> QED
      BY <2>1, <2>3, <3>1, <3>2 DEF IInv, TypeOK, Timers, PollFails
  <2>4. CASE Restart
    BY <2>1, <2>4 DEF IInv, TypeOK, Timers, Restart
  <2> QED
    BY <2>2, <2>3, <2>4
<1>3. \A k \in Currencies : Fresh(k)'
  BY DEF IInv, Fresh, Disconnect, PollFails, Restart
<1> QED
  BY <1>1, <1>2, <1>3 DEF IInv, Timers, Fresh

LEMMA PollAnswersKeeps ==
    ASSUME IInv, PollAnswers PROVE IInv'
<1> USE Constants DEF Enter
<1>1. PICK quoted \in 0..(HttpTimeout - timer), stored \in SUBSET Currencies :
        /\ SetRates(stored, quoted)
        /\ \/ stored = Currencies /\ steady' = TRUE /\ UNCHANGED faults
           \/ steady' = FALSE /\ Fault
  BY DEF PollAnswers
<1>2. quoted \in 0..HttpTimeout
  BY DEF IInv, TypeOK
<1>3. /\ ttl' \in [Currencies -> 0..RateTTL]
      /\ age' \in [Currencies -> Nat]
      /\ \A k \in Currencies : Fresh(k)'
      /\ \A k \in stored : ttl'[k] = RateTTL
  BY <1>1, <1>2, SetRatesSound DEF IInv, Fresh
<1>4. TypeOK' /\ Timers'
  <2>1. faults' \in 0..MaxFaults
    BY <1>1 DEF IInv, TypeOK, Fault
  <2>2. steady' \in BOOLEAN
    BY <1>1
  <2> QED
    BY <1>3, <2>1, <2>2 DEF IInv, TypeOK, Timers, PollAnswers
<1>5. steady' => Polling' /\ \A k \in Currencies : Lasts(k)'
  BY <1>1, <1>3 DEF PollAnswers, Polling, Lasts
<1> QED
  BY <1>3, <1>4, <1>5 DEF IInv, Timers, Fresh, Lasts

LEMMA TickKeeps ==
    ASSUME IInv, Tick PROVE IInv'
<1> USE Constants
<1>1. /\ timer \in Nat /\ timer > 0 /\ timer' = timer - 1 /\ phase' = phase
      /\ steady' = steady
  BY DEF IInv, TypeOK, Tick
<1>2. ASSUME NEW k \in Currencies
      PROVE  /\ ttl'[k] \in 0..RateTTL /\ age'[k] \in Nat
             /\ Fresh(k)'
             /\ Lasts(k) => Lasts(k)'
  <2>1. /\ ttl[k] \in 0..RateTTL /\ age[k] \in Nat
        /\ ttl'[k] = IF ttl[k] > 0 THEN ttl[k] - 1 ELSE 0
        /\ age'[k] = IF ttl[k] > 1 THEN age[k] + 1 ELSE 0
    BY DEF IInv, TypeOK, Tick
  <2>2. Fresh(k)
    BY DEF IInv, Fresh
  <2> QED
    BY <1>1, <2>1, <2>2 DEF Fresh, Lasts
<1>3. TypeOK'
  BY <1>1, <1>2 DEF IInv, TypeOK, Tick
<1>4. Timers'
  BY <1>1 DEF IInv, Timers
<1>5. steady' => Polling' /\ \A k \in Currencies : Lasts(k)'
  BY <1>1, <1>2 DEF IInv, Lasts, Polling
<1> QED
  BY <1>2, <1>3, <1>4, <1>5 DEF IInv, Timers, Fresh, Lasts

LEMMA StepKeeps == IInv /\ [Next]_vars => IInv'
<1> SUFFICES ASSUME IInv, [Next]_vars PROVE IInv'
  OBVIOUS
<1>1. CASE Connect \/ Reconnect \/ StartPoll
  BY <1>1, ConnectKeeps
<1>2. ASSUME NEW k \in Currencies, Ticker(k)
      PROVE  IInv'
  BY <1>2, TickerKeeps
<1>3. CASE Disconnect \/ PollFails \/ Restart
  BY <1>3, AttemptEndsKeeps
<1>4. CASE PollAnswers
  BY <1>4, PollAnswersKeeps
<1>5. CASE Tick
  BY <1>5, TickKeeps
<1>6. CASE UNCHANGED vars
  BY <1>6 DEF vars, rates, IInv, TypeOK, Polling
<1> QED
  BY <1>1, <1>2, <1>3, <1>4, <1>5, <1>6 DEF Next, WebSocket, Rest

-----------------------------------------------------------------------------
(* The theorems                                                            *)

\* Age and remaining time of every stored rate stay within the budget of the
\* time to live and the HTTP timeout, in both modes and across restarts.
THEOREM FeedInvariant == Spec => []IInv
<1>1. Init => IInv
  BY InitInvariant
<1>2. IInv /\ [Next]_vars => IInv'
  BY StepKeeps
<1> QED
  BY <1>1, <1>2, PTL DEF Spec

\* No rate is handed out that is older than the time to live and one timeout.
THEOREM ServedRatesAreFresh == Spec => []RatesAreFresh
<1>1. IInv => RatesAreFresh
  <2> SUFFICES ASSUME IInv, NEW k \in Currencies, ttl[k] > 0
      PROVE  age[k] < RateTTL + HttpTimeout
    BY DEF RatesAreFresh
  <2>1. ttl[k] \in Nat /\ age[k] \in Nat /\ age[k] + ttl[k] <= RateTTL + HttpTimeout
    BY Constants DEF IInv, TypeOK
  <2> QED
    BY <2>1, Constants
<1> QED
  BY <1>1, FeedInvariant, PTL

\* With polls that succeed, every rate is in Redis all the time.
THEOREM PollingKeepsRates == Spec => []SteadyPollingKeepsRates
<1>1. IInv => SteadyPollingKeepsRates
  <2> SUFFICES ASSUME IInv, steady, NEW k \in Currencies
      PROVE  ttl[k] > 0
    BY DEF SteadyPollingKeepsRates
  <2>1. /\ ttl[k] \in Nat /\ timer \in Nat
        /\ ttl[k] > timer + (IF phase = "wait" THEN HttpTimeout ELSE 0)
    BY Constants DEF IInv, TypeOK
  <2> QED
    BY <2>1, Constants
<1> QED
  BY <1>1, FeedInvariant, PTL
=============================================================================
