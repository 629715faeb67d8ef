----------------------------- MODULE OracleFeed -----------------------------
(***************************************************************************)
(* The price feed of the oracle service: RunUpbit reads tickers from a     *)
(* WebSocket and, once three attempts have failed, polls over REST for     *)
(* ever after; every price goes to Redis under a time to live.             *)
(*                                                                         *)
(* Time passes in Ticks of one unit.  No step is longer than its timeout,  *)
(* and a timeout that has run out lets no time pass until it is handled.   *)
(* A call of Redis takes no time.                                          *)
(*                                                                         *)
(*   phase   "dial", "read", "pause" on the WebSocket side, "wait" and     *)
(*           "fetch" on the REST side                                      *)
(*   timer   the time the phase has left                                   *)
(*   wsFails the variable of RunUpbit                                      *)
(*   ttl     time each stored rate has left in Redis, 0 if there is none   *)
(*   age     history: the time since Upbit quoted the stored rate          *)
(*   steady  history: the last poll stored every rate, no fault since      *)
(*   faults  errors and restarts so far, at most MaxFaults                 *)
(***************************************************************************)
EXTENDS Integers

CONSTANTS Currencies,
          MaxWsFails,      \* 3
          RateTTL,         \* 60 s
          PollInterval,    \* 30 s
          HttpTimeout,     \* 10 s
          ReconnectDelay,  \* 5 s
          ReadDeadline,    \* 30 s
          DialTimeout,     \* of websocket.DefaultDialer
          MaxFaults        \* bound on errors of Redis and REST, and restarts

ASSUME FeedAssumption ==
    /\ {MaxWsFails, HttpTimeout, ReconnectDelay, ReadDeadline, DialTimeout} \subseteq Nat
    /\ PollInterval \in Nat /\ RateTTL \in Nat
    /\ PollInterval + HttpTimeout < RateTTL
    /\ MaxFaults \in Nat

VARIABLES phase, timer, wsFails, ttl, age, steady, faults

rates == <<ttl, age>>
vars == <<phase, timer, wsFails, rates, steady, faults>>

Enter(p, t) == phase' = p /\ timer' = t

Fault == faults < MaxFaults /\ faults' = faults + 1

-----------------------------------------------------------------------------
(* Redis                                                                   *)

SetRates_LongTtl(stored, quoted) ==
    /\ ttl' = [k \in Currencies |-> IF k \in stored THEN 2 * RateTTL ELSE ttl[k]]
    /\ age' = [k \in Currencies |-> IF k \in stored THEN quoted ELSE age[k]]

SetRates_Existing(stored, quoted) ==
    /\ ttl' = [k \in Currencies |-> IF k \in stored /\ ttl[k] > 0 THEN RateTTL ELSE ttl[k]]
    /\ age' = [k \in Currencies |-> IF k \in stored /\ ttl[k] > 0 THEN quoted ELSE age[k]]

\* SetRate of each currency in `stored', at prices Upbit quoted some time ago.
SetRates(stored, quoted) ==
    /\ ttl' = [k \in Currencies |-> IF k \in stored THEN RateTTL ELSE ttl[k]]
    /\ age' = [k \in Currencies |-> IF k \in stored THEN quoted ELSE age[k]]

-----------------------------------------------------------------------------
(* WebSocket                                                               *)

Connect ==
    /\ phase = "dial"
    /\ Enter("read", ReadDeadline)
    /\ UNCHANGED <<wsFails, rates, steady, faults>>

\* A ticker of one market; when SetRate fails the loop only goes on.  Every
\* message moves the read deadline.
Ticker(k) ==
    /\ phase = "read"
    /\ Enter("read", ReadDeadline)
    /\ \/ SetRates({k}, 0) /\ UNCHANGED faults
       \/ Fault /\ UNCHANGED rates
    /\ UNCHANGED <<wsFails, steady>>

\* Dialling, subscribing or reading fails, or its time is up.  Only a shutdown
\* makes connectAndConsume return nil, so wsFails is never reset.
Disconnect ==
    /\ phase \in {"dial", "read"}
    /\ Enter("pause", ReconnectDelay)
    /\ wsFails' = wsFails + 1
    /\ UNCHANGED <<rates, steady, faults>>

Reconnect ==
    /\ phase = "pause" /\ timer = 0
    /\ IF wsFails >= MaxWsFails THEN Enter("wait", PollInterval)
                                ELSE Enter("dial", DialTimeout)
    /\ UNCHANGED <<wsFails, rates, steady, faults>>

-----------------------------------------------------------------------------
(* REST                                                                    *)

StartPoll ==
    /\ phase = "wait" /\ timer = 0
    /\ Enter("fetch", HttpTimeout)
    /\ UNCHANGED <<wsFails, rates, steady, faults>>

PollAnswers_WaitTtl ==
    /\ phase = "fetch"
    /\ Enter("wait", RateTTL)
    /\ SetRates(Currencies, 0)
    /\ steady' = TRUE
    /\ UNCHANGED <<wsFails, faults>>

\* Upbit quoted the prices at some moment of the request.  Each SetRate may fail
\* on its own.
PollAnswers ==
    /\ phase = "fetch"
    /\ Enter("wait", PollInterval)
    /\ \E quoted \in 0..(HttpTimeout - timer) :
         \/ SetRates(Currencies, quoted) /\ steady' = TRUE /\ UNCHANGED faults
         \/ /\ \E stored \in SUBSET Currencies : SetRates(stored, quoted)
            /\ steady' = FALSE /\ Fault
    /\ UNCHANGED wsFails

\* The request fails or times out, or the answer does not parse.
PollFails ==
    /\ phase = "fetch"
    /\ Enter("wait", PollInterval)
    /\ steady' = FALSE
    /\ Fault
    /\ UNCHANGED <<wsFails, rates>>

-----------------------------------------------------------------------------
\* The process is started anew; Redis keeps the rates.
Restart ==
    /\ Enter("dial", DialTimeout)
    /\ wsFails' = 0
    /\ steady' = FALSE
    /\ Fault
    /\ UNCHANGED rates

Tick ==
    /\ timer > 0
    /\ timer' = timer - 1
    /\ ttl' = [k \in Currencies |-> IF ttl[k] > 0 THEN ttl[k] - 1 ELSE 0]
    /\ age' = [k \in Currencies |-> IF ttl[k] > 1 THEN age[k] + 1 ELSE 0]
    /\ UNCHANGED <<phase, wsFails, steady, faults>>

Init ==
    /\ phase = "dial" /\ timer = DialTimeout
    /\ wsFails = 0
    /\ ttl = [k \in Currencies |-> 0]
    /\ age = [k \in Currencies |-> 0]
    /\ steady = FALSE
    /\ faults = 0

WebSocket == Connect \/ Disconnect \/ Reconnect \/ \E k \in Currencies : Ticker(k)
Rest == StartPoll \/ PollAnswers \/ PollFails

Next == WebSocket \/ Rest \/ Restart \/ Tick

Spec == Init /\ [][Next]_vars

\* Time passes, and what is due is done.
FairSpec ==
    /\ Spec
    /\ WF_vars(Tick)
    /\ WF_vars(Reconnect)
    /\ WF_vars(StartPoll)
    /\ WF_vars(PollAnswers)

-----------------------------------------------------------------------------
(* Properties                                                              *)

Polling == phase \in {"wait", "fetch"}

TypeOK ==
    /\ phase \in {"dial", "read", "pause", "wait", "fetch"}
    /\ timer \in Nat
    /\ wsFails \in Nat
    /\ ttl \in [Currencies -> 0..RateTTL]
    /\ age \in [Currencies -> Nat]
    /\ steady \in BOOLEAN
    /\ faults \in 0..MaxFaults

\* A rate the service hands out was quoted by Upbit less than the time to live
\* and one HTTP timeout ago, whichever way it came and whatever failed since.
RatesAreFresh ==
    \A k \in Currencies : ttl[k] > 0 => age[k] < RateTTL + HttpTimeout

\* While polls succeed no rate lapses between two of them, even when a poll
\* takes all the time the client gives it.
SteadyPollingKeepsRates ==
    steady => \A k \in Currencies : ttl[k] > 0

\* A stored rate and its age share the budget; what is left of it outlasts the
\* wait for the next poll and the poll itself.
IInv ==
    /\ TypeOK
    /\ phase = "wait" => timer <= PollInterval
    /\ phase = "fetch" => timer <= HttpTimeout
    /\ \A k \in Currencies : ttl[k] > 0 => age[k] + ttl[k] <= RateTTL + HttpTimeout
    /\ steady => /\ Polling
                 /\ \A k \in Currencies :
                      ttl[k] > timer + (IF phase = "wait" THEN HttpTimeout ELSE 0)

\* Failed polls are tried again: as long as the process lives, all rates come
\* back.
PollingRestoresRates ==
    Polling ~> (~Polling \/ \A k \in Currencies : ttl[k] > 0)
=============================================================================
