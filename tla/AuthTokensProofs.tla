-------------------------- MODULE AuthTokensProofs --------------------------
(***************************************************************************)
(* Theorems about AuthTokens, for every number of devices, users and       *)
(* requests.  The invariant is about what is carried: every pair a device  *)
(* or a request holds is backed by a row or by a refresh that will insert  *)
(* a newer one, and what a request holds belongs to the account shown.     *)
(***************************************************************************)
EXTENDS AuthTokens, TLAPS

USE DEF Requests, Pairs, NoPair, User, Goto

LEMMA InitInvariant == Init => IInv
<1> SUFFICES ASSUME Init PROVE IInv
  OBVIOUS
<1> USE TokensAssumption DEF Init, Registered
<1>1. TypeOK
  BY DEF TypeOK
<1>2. Numbered
  BY DEF Numbered
<1>3. RequestsSound
  BY DEF RequestsSound, RequestSound, UnderWay, Refreshing
<1>4. SessionSurvives
  <2>1. Backed(Registered)
    BY DEF Backed
  <2>2. \A d \in Devices : store[d] # NoPair => store[d] = Registered
    OBVIOUS
  <2> QED
    BY <2>1, <2>2 DEF SessionSurvives
<1>5. AccountOwnsTokens
  BY DEF AccountOwnsTokens
<1> QED
  BY <1>1, <1>2, <1>3, <1>4, <1>5 DEF IInv

-----------------------------------------------------------------------------
(* What the end of a request does                                          *)

\* The app's side of an end: the store is kept or cleared, store and account
\* still agree, and who is refreshing keeps his account or is overtaken.
LEMMA SettleApp ==
    ASSUME IInv, NEW q \in Requests, Settle(q)
    PROVE  /\ store' \in [Devices -> Pairs]
           /\ account' \in [Devices -> Users \cup {Nobody}]
           /\ overtaken \subseteq overtaken' /\ overtaken' \subseteq Devices
           /\ \A d \in Devices : store'[d] \in {store[d], NoPair}
           /\ \A d \in Devices \ overtaken' : store'[d].user = account'[d]
           /\ \A o \in Requests \ {q} :
                UnderWay(o) /\ device[o] \notin overtaken' =>
                    \/ account'[device[o]] = account[device[o]]
                    \/ account'[device[o]] = Nobody /\ pc[o] \notin Refreshing
<1>1. CASE kind[q] = "logout" /\ q \notin adrift
  <2> DEFINE d == device[q]
  <2>1. d \in Devices
    BY DEF IInv, TypeOK
  <2>2. /\ store' = [store EXCEPT ![d] = NoPair]
        /\ account' = [account EXCEPT ![d] = Nobody]
        /\ overtaken' \in {overtaken, overtaken \cup {d}}
        /\ d \notin overtaken' => InFlight(d) \ {q} = {}
    BY <1>1 DEF Settle
  <2>3. \A o \in Requests \ {q} : UnderWay(o) /\ device[o] = d /\ d \notin overtaken' =>
            pc[o] \notin Refreshing
    BY <2>2 DEF InFlight
  <2>4. \A e \in Devices \ overtaken' : store'[e].user = account'[e]
    BY <2>1, <2>2 DEF IInv, TypeOK, AccountOwnsTokens
  <2>5. \A o \in Requests : device[o] \in Devices
    BY DEF IInv, TypeOK
  <2> HIDE DEF d
  <2> QED
    BY <2>1, <2>2, <2>3, <2>4, <2>5 DEF IInv, TypeOK
<1>2. CASE ~ (kind[q] = "logout" /\ q \notin adrift)
  BY <1>2 DEF Settle, app, IInv, TypeOK, AccountOwnsTokens
<1> QED
  BY <1>1, <1>2

\* A pair stays backed when rows are only added, sessions do not end and those
\* who are about to insert still are.
LEMMA BackedStays ==
    ASSUME NEW p, Backed(p), rows \subseteq rows',
           ended'[p.user] = ended[p.user],
           \A q \in Requests : Rotating(q, p.user, p.number) => Rotating(q, p.user, p.number)'
    PROVE  Backed(p)'
BY DEF Backed

\* What an end leaves of the requests, whatever it does to the rows.
LEMMA EndRequests ==
    ASSUME IInv, NEW q \in Requests, End(q), pc[q] # "idle",
           rows' \subseteq [number : Nat, user : Users], issued' = issued,
           ended' \in [Users -> Nat], faults' \in Nat, UNCHANGED time
    PROVE  TypeOK' /\ RequestsSound' /\ AccountOwnsTokens'
<1> USE DEF End, Forget
<1>1. TypeOK'
  BY SettleApp, TokensAssumption DEF IInv, TypeOK, time
<1>2. AccountOwnsTokens'
  BY SettleApp DEF AccountOwnsTokens
<1>3. RequestsSound'
  <2> SUFFICES ASSUME NEW o \in Requests PROVE RequestSound(o)'
    BY DEF RequestsSound
  <2>1. CASE o = q
    BY <2>1 DEF IInv, TypeOK, UnderWay, Refreshing, RequestSound
  <2>2. CASE o # q
    <3>1. /\ pc'[o] = pc[o] /\ kind'[o] = kind[o] /\ token'[o] = token[o]
          /\ device'[o] = device[o] /\ (UnderWay(o)' <=> UnderWay(o))
      BY <2>2 DEF IInv, TypeOK, UnderWay
    <3>2. \A x \in Requests : UnderWay(x)' =>
            UnderWay(x) /\ kind'[x] = kind[x] /\ device'[x] = device[x]
      BY DEF IInv, TypeOK, UnderWay
    <3>3. UnderWay(o)' /\ device'[o] \notin overtaken' =>
            /\ UnderWay(o) /\ device[o] \notin overtaken
            /\ \/ account'[device[o]] = account[device[o]]
               \/ account'[device[o]] = Nobody /\ pc[o] \notin Refreshing
      BY <2>2, <3>1, SettleApp
    <3> QED
      BY <3>1, <3>2, <3>3 DEF IInv, RequestsSound, RequestSound
  <2> QED
    BY <2>1, <2>2
<1> QED
  BY <1>1, <1>2, <1>3

\* What is held is the pair of a user, signed by now.
Held(p) == p \in Pairs /\ p.user \in Users /\ p.number <= issued

LEMMA HeldByNow ==
    ASSUME IInv
    PROVE  /\ \A d \in Devices : store[d] # NoPair => Held(store[d])
           /\ \A q \in Requests : token[q].number > 0 => Held(token[q])
           /\ \A q \in Requests : pc[q] \in {"select", "delete", "insert", "answer"} =>
                token[q].number > 0
<1>1. \A d \in Devices : store[d] # NoPair => Held(store[d])
  BY DEF IInv, TypeOK, Numbered, Held
<1>2. \A q \in Requests : token[q].number > 0 => Held(token[q])
  BY DEF IInv, TypeOK, Numbered, RequestsSound, RequestSound, Held
<1>3. \A q \in Requests : pc[q] \in {"select", "delete", "insert", "answer"} =>
        token[q].number > 0
  BY DEF IInv, RequestsSound, RequestSound
<1> QED
  BY <1>1, <1>2, <1>3

\* A request ends, and whatever was backed still is.
LEMMA EndKeepsBacked ==
    ASSUME IInv, NEW q \in Requests, End(q), pc[q] # "idle",
           rows' \subseteq rows \cup {token[q]},
           token[q] \in rows' \ rows => Held(token[q]) /\ token[q].number > 0,
           issued' = issued, ended' \in [Users -> Nat], faults' \in Nat, UNCHANGED time,
           \A p : Held(p) /\ Backed(p) => Backed(p)'
    PROVE  IInv'
<1>1. TypeOK' /\ RequestsSound' /\ AccountOwnsTokens'
  <2>1. rows' \subseteq [number : Nat, user : Users]
    BY DEF IInv, TypeOK, Held
  <2> QED
    BY <2>1, EndRequests
<1> USE DEF End, Forget, time
<1>2. Numbered'
  <2>1. \A d \in Devices : store'[d] \in {store[d], NoPair}
    BY SettleApp
  <2>2. \A o \in Requests : token'[o] \in {token[o], NoPair}
    BY DEF IInv, TypeOK
  <2>3. issued \in Nat
    BY DEF IInv, TypeOK
  <2>4. \A r \in rows' : r.number > 0 /\ r.number <= issued
    BY DEF IInv, Numbered, Held
  <2> QED
    BY <2>1, <2>2, <2>3, <2>4 DEF IInv, Numbered
<1>3. SessionSurvives'
  <2>1. \A d \in Devices : store'[d] \in {store[d], NoPair}
    BY SettleApp
  <2>2. \A o \in Requests : pc'[o] \in {"select", "delete", "answer"} =>
            pc[o] = pc'[o] /\ token'[o] = token[o]
    BY DEF IInv, TypeOK
  <2> QED
    BY <2>1, <2>2, HeldByNow DEF IInv, SessionSurvives
<1> QED
  BY <1>1, <1>2, <1>3 DEF IInv

\* A request ends that was not about to insert a row.
LEMMA EndKeeps ==
    ASSUME IInv, NEW q \in Requests, End(q), UNCHANGED <<server, time>>, faults' \in Nat,
           pc[q] \notin {"idle", "insert"}, pc[q] = "sign" => kind[q] = "login"
    PROVE  IInv'
<1> USE DEF server, time
<1>1. \A p : Backed(p) => Backed(p)'
  <2>1. \A o \in Requests : \A u, n : Rotating(o, u, n) => Rotating(o, u, n)'
    BY DEF Rotating, End, Forget, IInv, TypeOK
  <2> QED
    BY <2>1, BackedStays
<1> QED
  BY <1>1, EndKeepsBacked DEF IInv, TypeOK

-----------------------------------------------------------------------------
(* The actions                                                             *)

\* A request moves on, with all it carries, and nothing else happens.
LEMMA MoveKeeps ==
    ASSUME IInv, NEW q \in Requests, NEW l, Goto(q, l),
           UNCHANGED <<server, app, requests, time, faults>>,
           \/ pc[q] = "gate" /\ l = "refused"
           \/ pc[q] = "gate" /\ l = "logout" /\ token[q].number > stale
           \/ pc[q] = "login" /\ l = "sign" /\ kind[q] = "login"
           \/ pc[q] = "select" /\ l = "delete"
    PROVE  IInv'
<1> USE DEF server, app, requests, time
<1>1. TypeOK' /\ Numbered' /\ AccountOwnsTokens'
  <2>1. TypeOK'
    BY DEF IInv, TypeOK, Refreshing
  <2>2. Numbered'
    BY DEF IInv, Numbered
  <2>3. AccountOwnsTokens'
    BY DEF IInv, AccountOwnsTokens
  <2> QED
    BY <2>1, <2>2, <2>3
<1>2. RequestsSound'
  <2> SUFFICES ASSUME NEW o \in Requests PROVE RequestSound(o)'
    BY DEF RequestsSound
  <2>1. \A x \in Requests : /\ (UnderWay(x)' <=> UnderWay(x))
                            /\ pc'[x] = IF x = q THEN l ELSE pc[x]
    BY DEF IInv, TypeOK, UnderWay
  <2>2. RequestSound(o)
    BY DEF IInv, RequestsSound
  <2>3. pc[q] # "login" => kind[q] # "login"
    BY DEF IInv, RequestsSound, RequestSound
  <2>4. token[q].number > stale => token[q].number > 0
    <3>1. token[q].number \in Nat /\ stale \in Nat
      BY DEF IInv, TypeOK
    <3> QED
      BY <3>1
  <2>5. CASE o = q
    <3>1. /\ pc'[q] = l /\ kind'[q] = kind[q] /\ token'[q] = token[q]
          /\ device'[q] = device[q] /\ (UnderWay(q)' <=> UnderWay(q))
      BY <2>1
    <3>2. UnderWay(q)' /\ device[q] \notin overtaken /\ kind[q] = "login" => \A x \in Requests :
            UnderWay(x)' /\ kind'[x] = "login" /\ device'[x] = device[q] => x = q
      BY <2>1, <2>2, <2>5 DEF RequestSound
    <3> QED
      BY <3>1, <3>2, <2>2, <2>3, <2>4, <2>5 DEF RequestSound, Refreshing
  <2>6. CASE o # q
    BY <2>1, <2>2, <2>6 DEF RequestSound
  <2> QED
    BY <2>5, <2>6
<1>3. SessionSurvives'
  BY BackedStays DEF IInv, TypeOK, SessionSurvives, Rotating
<1> QED
  BY <1>1, <1>2, <1>3 DEF IInv

LEMMA GateKeeps ==
    ASSUME IInv, NEW q \in Requests, Gate(q)
    PROVE  IInv'
<1>1. CASE pc[q] = "gate" /\ Goto(q, "refused") /\ UNCHANGED <<app, requests>>
  BY <1>1, MoveKeeps DEF Gate
<1>2. CASE /\ pc[q] = "gate" /\ token[q].number > stale
           /\ Goto(q, "logout") /\ UNCHANGED <<app, requests>>
  BY <1>2, MoveKeeps DEF Gate
<1>3. CASE pc[q] = "gate" /\ End(q)
  BY <1>3, EndKeeps DEF Gate, IInv, TypeOK
<1> QED
  BY <1>1, <1>2, <1>3 DEF Gate

LEMMA LogoutAnswerKeeps ==
    ASSUME IInv, NEW q \in Requests, LogoutAnswer(q)
    PROVE  IInv'
BY EndKeeps DEF LogoutAnswer, IInv, TypeOK

LEMMA SelectTokenKeeps ==
    ASSUME IInv, NEW q \in Requests, SelectToken(q)
    PROVE  IInv'
<1>1. CASE pc[q] = "select" /\ Goto(q, "delete") /\ UNCHANGED <<app, requests>>
  BY <1>1, MoveKeeps DEF SelectToken
<1>2. CASE pc[q] = "select" /\ End(q)
  BY <1>2, EndKeeps DEF SelectToken, IInv, TypeOK
<1> QED
  BY <1>1, <1>2 DEF SelectToken

LEMMA LoginKeeps ==
    ASSUME IInv, NEW q \in Requests, Login(q)
    PROVE  IInv'
<1>1. CASE pc[q] = "login" /\ Goto(q, "sign") /\ UNCHANGED <<app, requests>>
  <2>1. kind[q] = "login"
    BY <1>1 DEF IInv, RequestsSound, RequestSound
  <2> QED
    BY <1>1, <2>1, MoveKeeps DEF Login
<1>2. CASE pc[q] = "login" /\ End(q)
  BY <1>2, EndKeeps DEF Login, IInv, TypeOK
<1> QED
  BY <1>1, <1>2 DEF Login

LEMMA ExpireKeeps ==
    ASSUME IInv, Expire
    PROVE  IInv'
<1> USE DEF Expire, server, app, requests
<1>1. TypeOK'
  BY DEF IInv, TypeOK
<1>2. Numbered'
  BY DEF IInv, TypeOK, Numbered
<1>3. RequestsSound' /\ AccountOwnsTokens'
  BY DEF IInv, RequestsSound, RequestSound, UnderWay, AccountOwnsTokens
<1>4. SessionSurvives'
  BY BackedStays DEF IInv, SessionSurvives, Rotating
<1> QED
  BY <1>1, <1>2, <1>3, <1>4 DEF IInv

LEMMA RestartKeeps ==
    ASSUME IInv, NEW d \in Devices, Restart(d)
    PROVE  IInv'
<1> USE DEF Restart, server, time
<1>1. TypeOK' /\ Numbered'
  <2>1. store[d].user \in Users \cup {Nobody}
    BY DEF IInv, TypeOK
  <2>2. faults' \in Nat
    BY DEF IInv, TypeOK
  <2>3. TypeOK'
    BY <2>1, <2>2 DEF IInv, TypeOK
  <2>4. Numbered'
    BY DEF IInv, Numbered
  <2> QED
    BY <2>3, <2>4
<1>2. AccountOwnsTokens'
  BY DEF IInv, TypeOK, AccountOwnsTokens
<1>3. RequestsSound'
  <2>1. \A o \in Requests : UnderWay(o)' => UnderWay(o) /\ device[o] # d
    BY DEF UnderWay
  <2>2. \A o \in Requests : device[o] # d => account'[device[o]] = account[device[o]]
    BY DEF IInv, TypeOK
  <2>3. \A o \in Requests : RequestSound(o)
    BY DEF IInv, RequestsSound
  <2> SUFFICES ASSUME NEW o \in Requests PROVE RequestSound(o)'
    BY DEF RequestsSound
  <2>4. UnderWay(o)' /\ kind[o] = "login" /\ device[o] \notin overtaken =>
          \A x \in Requests :
            UnderWay(x)' /\ kind[x] = "login" /\ device[x] = device[o] => x = o
    BY <2>1, <2>3 DEF RequestSound
  <2>5. RequestSound(o)
    BY <2>3
  <2> QED
    BY <2>1, <2>2, <2>4, <2>5 DEF RequestSound
<1>4. SessionSurvives'
  BY BackedStays DEF IInv, SessionSurvives, Rotating
<1> QED
  BY <1>1, <1>2, <1>3, <1>4 DEF IInv

\* What other requests hold is backed as before, when q only moves before it
\* rotates and rows and sessions are as they were.
LEMMA HeldStays ==
    ASSUME IInv, NEW q \in Requests, rows' = rows, ended' = ended,
           \A o \in Requests \ {q} :
               pc'[o] = pc[o] /\ kind'[o] = kind[o] /\ token'[o] = token[o],
           pc[q] \notin {"sign", "insert"}
    PROVE  \A p : Backed(p) => Backed(p)'
<1>1. \A o \in Requests : \A u, n : Rotating(o, u, n) => Rotating(o, u, n)'
  BY DEF Rotating
<1> QED
  BY <1>1, BackedStays

LEMMA StartKeeps ==
    ASSUME IInv, NEW q \in Requests, Start(q)
    PROVE  IInv'
<1> USE DEF Start, server, app, time
<1>1. PICK d \in Devices :
        /\ device' = [device EXCEPT ![q] = d]
        /\ \/ /\ kind' \in {[kind EXCEPT ![q] = k] : k \in {"api", "logout"}}
              /\ pc' = [pc EXCEPT ![q] = "gate"]
              /\ token' = [token EXCEPT ![q] = store[d]]
           \/ /\ account[d] = Nobody
              /\ ~ \E o \in Requests : /\ UnderWay(o) /\ kind[o] = "login"
                                       /\ device[o] = d
              /\ kind' = [kind EXCEPT ![q] = "login"]
              /\ pc' = [pc EXCEPT ![q] = "login"]
              /\ \E u \in Users :
                   token' = [token EXCEPT ![q] = [number |-> 0, user |-> u]]
  OBVIOUS
<1>2. \A o \in Requests \ {q} :
         /\ pc'[o] = pc[o] /\ kind'[o] = kind[o] /\ token'[o] = token[o]
         /\ device'[o] = device[o] /\ (UnderWay(o)' <=> UnderWay(o))
  BY <1>1 DEF IInv, TypeOK, UnderWay
<1>3. /\ device'[q] = d /\ pc[q] = "idle"
      /\ \/ kind'[q] \in {"api", "logout"} /\ pc'[q] = "gate" /\ token'[q] = store[d]
         \/ /\ account[d] = Nobody
            /\ \A o \in Requests : ~ (UnderWay(o) /\ kind[o] = "login" /\ device[o] = d)
            /\ kind'[q] = "login" /\ pc'[q] = "login"
            /\ token'[q] \in Pairs /\ token'[q].number = 0 /\ token'[q].user \in Users
  <2>1. \A u \in Users : /\ [number |-> 0, user |-> u] \in Pairs
                         /\ [number |-> 0, user |-> u].number = 0
                         /\ [number |-> 0, user |-> u].user = u
    OBVIOUS
  <2>2. device'[q] = d /\ pc[q] = "idle"
    BY <1>1 DEF IInv, TypeOK
  <2>3. CASE token' = [token EXCEPT ![q] = store[d]] /\ pc' = [pc EXCEPT ![q] = "gate"]
               /\ kind' \in {[kind EXCEPT ![q] = k] : k \in {"api", "logout"}}
    BY <2>2, <2>3 DEF IInv, TypeOK
  <2>4. ASSUME NEW u \in Users, token' = [token EXCEPT ![q] = [number |-> 0, user |-> u]]
        PROVE  token'[q] = [number |-> 0, user |-> u]
    BY <2>4 DEF IInv, TypeOK
  <2>5. pc' = [pc EXCEPT ![q] = "login"] => pc'[q] = "login"
    BY DEF IInv, TypeOK
  <2>6. kind' = [kind EXCEPT ![q] = "login"] => kind'[q] = "login"
    BY DEF IInv, TypeOK
  <2>7. ASSUME \E u \in Users : token' = [token EXCEPT ![q] = [number |-> 0, user |-> u]]
        PROVE  token'[q] \in Pairs /\ token'[q].number = 0 /\ token'[q].user \in Users
    <3>1. PICK u \in Users : token' = [token EXCEPT ![q] = [number |-> 0, user |-> u]]
      BY <2>7
    <3>2. token'[q] = [number |-> 0, user |-> u]
      BY <3>1, <2>4
    <3> QED
      BY <3>2, <2>1
  <2> QED
    BY <1>1, <2>2, <2>3, <2>5, <2>6, <2>7
<1>4. TypeOK'
  <2>1. store[d] \in Pairs /\ token'[q] \in Pairs
    <3>1. store[d] \in Pairs
      BY DEF IInv, TypeOK
    <3> QED
      BY <1>3, <3>1
  <2>2. token' \in [Requests -> Pairs]
    <3>1. CASE token' = [token EXCEPT ![q] = store[d]]
      BY <3>1 DEF IInv, TypeOK
    <3>2. CASE \E u \in Users : token' = [token EXCEPT ![q] = [number |-> 0, user |-> u]]
      BY <3>2 DEF IInv, TypeOK
    <3> QED
      BY <1>1, <3>1, <3>2
  <2>3. kind' \in [Requests -> {"none", "api", "login", "logout"}]
    BY <1>1 DEF IInv, TypeOK
  <2>4. made' \in Nat
    BY DEF Start, IInv, TypeOK
  <2> QED
    BY <1>1, <2>1, <2>2, <2>3, <2>4 DEF IInv, TypeOK
<1>5. Numbered'
  <2>1. token'[q].number <= issued
    <3>1. issued \in Nat /\ store[d].number <= issued
      BY DEF IInv, TypeOK, Numbered
    <3> QED
      BY <1>3, <3>1
  <2> QED
    BY <1>2, <2>1 DEF IInv, Numbered
<1>6. RequestsSound'
  <2> SUFFICES ASSUME NEW o \in Requests PROVE RequestSound(o)'
    BY DEF RequestsSound
  <2>1. RequestSound(o)
    BY DEF IInv, RequestsSound
  <2>2. CASE o = q
    <3>1. token'[q].number > 0 => token'[q].user \in Users
      <4>1. store[d].number > 0 => store[d].user \in Users
        BY DEF IInv, Numbered
      <4> QED
        BY <1>3, <4>1
    <3>2. pc'[q] = "login" => token'[q].user \in Users
      BY <1>3
    <3>3. pc'[q] = "login" => \A x \in Requests :
            UnderWay(x)' /\ kind'[x] = "login" /\ device'[x] = d => x = q
      BY <1>2, <1>3
    <3> QED
      BY <1>3, <2>2, <3>1, <3>2, <3>3 DEF RequestSound, Refreshing
  <2>3. CASE o # q
    <3>1. UnderWay(o) /\ kind[o] = "login" /\ device[o] \notin overtaken =>
            \A x \in Requests :
              UnderWay(x)' /\ kind'[x] = "login" /\ device'[x] = device[o] => x = o
      BY <1>2, <1>3, <2>1 DEF RequestSound
    <3> QED
      BY <1>2, <2>1, <2>3, <3>1 DEF RequestSound
  <2> QED
    BY <2>2, <2>3
<1>7. SessionSurvives'
  BY <1>2, <1>3, HeldStays DEF IInv, SessionSurvives
<1> QED
  BY <1>4, <1>5, <1>6, <1>7 DEF IInv, AccountOwnsTokens

LEMMA TryRefreshKeeps ==
    ASSUME IInv, NEW q \in Requests, TryRefresh(q)
    PROVE  IInv'
<1> DEFINE d == device[q]
<1>1. d \in Devices /\ pc[q] = "refused" /\ q \notin adrift /\ UnderWay(q)
  BY DEF TryRefresh, IInv, TypeOK, UnderWay
<1>2. CASE /\ store[d] # NoPair
           /\ Goto(q, "select") /\ token' = [token EXCEPT ![q] = store[d]]
           /\ UNCHANGED <<app, kind, device, adrift>>
  <2> USE DEF server, app, time
  <2>1. UNCHANGED <<server, app, time, faults, kind, device, adrift>>
    BY <1>2 DEF TryRefresh
  <2>2. \A o \in Requests \ {q} : pc'[o] = pc[o] /\ token'[o] = token[o]
    BY <1>2 DEF IInv, TypeOK
  <2>3. \A o \in Requests : UnderWay(o)' <=> UnderWay(o)
    BY <1>1, <1>2, <2>1, <2>2 DEF IInv, TypeOK, UnderWay
  <2>4. pc'[q] = "select" /\ token'[q] = store[d] /\ Held(store[d])
    BY <1>1, <1>2, HeldByNow DEF IInv, TypeOK
  <2>5. /\ store[d].number > 0 /\ store[d].user \in Users
        /\ d \notin overtaken => store[d].user = account[d]
    BY <1>1, <1>2 DEF IInv, Numbered, AccountOwnsTokens
  <2> HIDE DEF d
  <2>6. TypeOK'
    BY <1>1, <1>2, <2>1, <2>4 DEF IInv, TypeOK, Refreshing, Held
  <2>7. Numbered'
    BY <2>1, <2>2, <2>4 DEF IInv, Numbered, Held
  <2>8. RequestsSound'
    <3> SUFFICES ASSUME NEW o \in Requests PROVE RequestSound(o)'
      BY DEF RequestsSound
    <3>1. RequestSound(o)
      BY DEF IInv, RequestsSound
    <3>2. CASE o = q
      BY <1>1, <2>1, <2>3, <2>4, <2>5, <3>1, <3>2 DEF RequestSound, Refreshing, d
    <3>3. CASE o # q
      BY <2>1, <2>2, <2>3, <3>1, <3>3 DEF RequestSound
    <3> QED
      BY <3>2, <3>3
  <2>9. SessionSurvives'
    <3>1. \A p : Backed(p) => Backed(p)'
      BY <1>1, <2>1, <2>2, HeldStays
    <3>2. Backed(store[d])
      BY <1>1, <1>2 DEF IInv, SessionSurvives
    <3> QED
      BY <2>1, <2>2, <2>4, <3>1, <3>2 DEF IInv, SessionSurvives
  <2> QED
    BY <2>1, <2>6, <2>7, <2>8, <2>9 DEF IInv, AccountOwnsTokens
<1>3. CASE End(q)
  BY <1>1, <1>3, EndKeeps DEF TryRefresh, IInv, TypeOK
<1> QED
  BY <1>2, <1>3 DEF TryRefresh

\* A new pair arrives: a login takes the device over, a refresh renews the pair
\* of the account shown.
LEMMA AnswerKeeps ==
    ASSUME IInv, NEW q \in Requests, Answer(q)
    PROVE  IInv'
<1> USE DEF server, time, Forget
<1> DEFINE d == device[q]
<1>1. /\ d \in Devices /\ pc[q] = "answer" /\ q \notin adrift /\ UnderWay(q)
      /\ Held(token[q]) /\ token[q].number > 0
  BY HeldByNow DEF Answer, IInv, TypeOK, UnderWay
<1>2. /\ store' = [store EXCEPT ![d] = token[q]]
      /\ UNCHANGED <<overtaken, server, time, faults>>
      /\ \/ kind[q] = "login" /\ account' = [account EXCEPT ![d] = User(q)] /\ Forget(q)
            /\ Goto(q, "idle")
         \/ kind[q] # "login" /\ account' = account /\ UNCHANGED requests
            /\ Goto(q, "gate")
  BY DEF Answer
<1>3. \A o \in Requests \ {q} :
         /\ pc'[o] = pc[o] /\ kind'[o] = kind[o] /\ token'[o] = token[o]
         /\ device'[o] = device[o] /\ (UnderWay(o)' <=> UnderWay(o))
  BY <1>2 DEF IInv, TypeOK, UnderWay, requests
<1>4. /\ pc'[q] \in {"idle", "gate"} /\ token'[q] \in {token[q], NoPair}
      /\ UnderWay(q)' => kind[q] # "login" /\ kind'[q] = kind[q]
      /\ kind'[q] # "login" /\ device'[q] \in Devices
  BY <1>2, TokensAssumption DEF IInv, TypeOK, UnderWay, requests
<1>5. TypeOK'
  <2>1. token[q] \in Pairs /\ User(q) \in Users
    BY <1>1 DEF Held
  <2>2. store' \in [Devices -> Pairs] /\ account' \in [Devices -> Users \cup {Nobody}]
    BY <1>1, <1>2, <2>1 DEF IInv, TypeOK
  <2> HIDE DEF d
  <2>3. pc' \in [Requests -> Refreshing \cup {"idle", "gate", "refused", "login", "logout",
                                              "left"}]
    BY <1>2 DEF IInv, TypeOK
  <2>4. /\ kind' \in [Requests -> {"none", "api", "login", "logout"}]
        /\ device' \in [Requests -> Devices]
        /\ token' \in [Requests -> Pairs] /\ adrift' \subseteq Requests
    <3>1. CASE Forget(q)
      BY <3>1, TokensAssumption DEF IInv, TypeOK
    <3>2. CASE UNCHANGED requests
      BY <3>2 DEF IInv, TypeOK, requests
    <3> QED
      BY <1>2, <3>1, <3>2
  <2> QED
    BY <1>2, <2>2, <2>3, <2>4 DEF IInv, TypeOK
<1>6. Numbered'
  <2>1. issued \in Nat
    BY DEF IInv, TypeOK
  <2>2. \A e \in Devices : store'[e] \in {store[e], token[q]}
    BY <1>2 DEF IInv, TypeOK
  <2>3. \A o \in Requests : token'[o] \in {token[o], NoPair}
    BY <1>3, <1>4
  <2> QED
    BY <1>1, <1>2, <2>1, <2>2, <2>3 DEF IInv, Numbered, Held
<1>7. d \notin overtaken /\ kind[q] # "login" => User(q) = account[d]
  BY <1>1 DEF IInv, RequestsSound, RequestSound, Refreshing
<1>8. AccountOwnsTokens'
  <2> HIDE DEF d
  <2> QED
    BY <1>1, <1>2, <1>7 DEF IInv, TypeOK, AccountOwnsTokens
<1>9. RequestsSound'
  <2> SUFFICES ASSUME NEW o \in Requests PROVE RequestSound(o)'
    BY DEF RequestsSound
  <2>1. RequestSound(o) /\ RequestSound(q)
    BY DEF IInv, RequestsSound
  <2>2. CASE o = q
    BY <1>1, <1>4, <2>1, <2>2 DEF RequestSound, Refreshing, Held
  <2>3. CASE o # q
    <3>1. \A x \in Requests : UnderWay(x)' /\ kind'[x] = "login" =>
            UnderWay(x) /\ kind[x] = "login" /\ device'[x] = device[x]
      BY <1>3, <1>4
    <3>2. /\ UnderWay(o)' => UnderWay(o)
          /\ pc'[o] = pc[o] /\ kind'[o] = kind[o] /\ token'[o] = token[o]
          /\ device'[o] = device[o] /\ overtaken' = overtaken
      BY <1>2, <1>3, <2>3
    <3>3. CASE account'[device[o]] = account[device[o]]
      BY <2>1, <3>1, <3>2, <3>3 DEF RequestSound
    <3>4. CASE account'[device[o]] # account[device[o]]
      <4>1. kind[q] = "login" /\ device[o] = d
        <5>1. device[o] \in Devices /\ account \in [Devices -> Users \cup {Nobody}]
          BY DEF IInv, TypeOK
        <5> HIDE DEF d
        <5> QED
          BY <1>2, <3>4, <5>1
      <4>2. UnderWay(o) /\ d \notin overtaken =>
              kind[o] # "login" /\ pc[o] \notin Refreshing
        BY <1>1, <2>1, <2>3, <4>1, TokensAssumption DEF RequestSound
      <4> QED
        BY <2>1, <3>1, <3>2, <4>1, <4>2 DEF RequestSound
    <3> QED
      BY <3>3, <3>4
  <2> QED
    BY <2>2, <2>3
<1>10. SessionSurvives'
  <2>1. \A p : Backed(p) => Backed(p)'
    BY <1>1, <1>2, <1>3, HeldStays
  <2>2. Backed(token[q])
    BY <1>1 DEF IInv, SessionSurvives
  <2>3. \A e \in Devices : store'[e] \in {store[e], token[q]}
    BY <1>2 DEF IInv, TypeOK
  <2> QED
    BY <1>3, <1>4, <2>1, <2>2, <2>3 DEF IInv, SessionSurvives
<1> QED
  BY <1>5, <1>6, <1>8, <1>9, <1>10 DEF IInv

LEMMA TimeOutKeeps ==
    ASSUME IInv, NEW q \in Requests, TimeOut(q)
    PROVE  IInv'
<1> USE DEF TimeOut, server, time
<1>1. \A o \in Requests : UnderWay(o)' => UnderWay(o) /\ o # q
  BY DEF UnderWay
<1>2. TypeOK' /\ AccountOwnsTokens'
  <2>1. faults' \in Nat
    BY DEF IInv, TypeOK
  <2>2. TypeOK'
    BY <2>1, SettleApp DEF IInv, TypeOK
  <2>3. AccountOwnsTokens'
    BY SettleApp DEF AccountOwnsTokens
  <2> QED
    BY <2>2, <2>3
<1>3. Numbered'
  <2>1. \A d \in Devices : store'[d] \in {store[d], NoPair}
    BY SettleApp
  <2>2. issued \in Nat
    BY DEF IInv, TypeOK
  <2> QED
    BY <2>1, <2>2 DEF IInv, Numbered
<1>4. RequestsSound'
  <2> SUFFICES ASSUME NEW o \in Requests PROVE RequestSound(o)'
    BY DEF RequestsSound
  <2>1. RequestSound(o)
    BY DEF IInv, RequestsSound
  <2>2. UnderWay(o)' /\ device[o] \notin overtaken' =>
          /\ UnderWay(o) /\ device[o] \notin overtaken
          /\ \/ account'[device[o]] = account[device[o]]
             \/ account'[device[o]] = Nobody /\ pc[o] \notin Refreshing
    BY <1>1, SettleApp
  <2> QED
    BY <1>1, <2>1, <2>2 DEF RequestSound
<1>5. SessionSurvives'
  <2>1. \A d \in Devices : store'[d] \in {store[d], NoPair}
    BY SettleApp
  <2>2. \A p : Backed(p) => Backed(p)'
    BY BackedStays DEF Rotating
  <2> QED
    BY <2>1, <2>2 DEF IInv, SessionSurvives
<1> QED
  BY <1>2, <1>3, <1>4, <1>5 DEF IInv

\* Only rows, numbers and sessions change, and the place of one request that
\* stays among those at work for its user.
LEMMA ServerKeeps ==
    ASSUME IInv, NEW q \in Requests, NEW l, Goto(q, l),
           UNCHANGED <<app, kind, device, adrift, time, faults>>,
           rows' \subseteq rows \cup {token[q]}, pc[q] # "insert" => rows' \subseteq rows,
           ended' \in [Users -> Nat], issued' \in Nat, issued <= issued',
           \A o \in Requests \ {q} : token'[o] = token[o],
           token' \in [Requests -> Pairs], token'[q].number <= issued',
           User(q)' = User(q), l = "insert" \/ token' = token,
           l = "insert" => token'[q].number > 0,
           \/ pc[q] = "logout" /\ l = "left"
           \/ pc[q] = "delete" /\ l = "sign"
           \/ pc[q] = "sign" /\ l = "insert"
           \/ pc[q] = "insert" /\ l = "answer",
           \A p : Held(p) /\ Backed(p) => Backed(p)',
           l = "answer" => Backed(token[q])'
    PROVE  IInv'
<1> USE DEF app, time
<1>1. \A o \in Requests : /\ (UnderWay(o)' <=> UnderWay(o))
                          /\ pc'[o] = IF o = q THEN l ELSE pc[o]
  BY DEF IInv, TypeOK, UnderWay
<1>2. RequestSound(q) /\ (pc[q] = "insert" => Held(token[q]))
  BY HeldByNow DEF IInv, RequestsSound
<1>3. TypeOK'
  <2>1. rows' \subseteq [number : Nat, user : Users]
    BY <1>2 DEF IInv, TypeOK, Held
  <2> QED
    BY <2>1 DEF IInv, TypeOK, Refreshing
<1>4. Numbered'
  <2>1. issued \in Nat /\ stale \in Nat /\ dead \in Nat
    BY DEF IInv, TypeOK
  <2>2. \A r \in rows' : r.number > 0 /\ r.number <= issued'
    <3>1. pc[q] = "insert" => token[q].number > 0 /\ token[q].number <= issued
      BY <1>2, HeldByNow DEF Held
    <3>2. rows' \subseteq [number : Nat, user : Users]
      BY <1>3 DEF TypeOK
    <3> QED
      BY <2>1, <3>1, <3>2 DEF IInv, Numbered
  <2>3. \A d \in Devices : store[d].number \in Nat /\ store[d].number <= issued
    BY DEF IInv, TypeOK, Numbered
  <2>4. \A o \in Requests : token[o].number \in Nat /\ token[o].number <= issued
    BY DEF IInv, TypeOK, Numbered
  <2> QED
    BY <2>1, <2>2, <2>3, <2>4 DEF IInv, Numbered
<1>5. RequestsSound'
  <2> SUFFICES ASSUME NEW o \in Requests PROVE RequestSound(o)'
    BY DEF RequestsSound
  <2>1. RequestSound(o)
    BY DEF IInv, RequestsSound
  <2>2. UnderWay(o) /\ device[o] \notin overtaken /\ kind[o] = "login" =>
          \A x \in Requests :
            UnderWay(x)' /\ kind'[x] = "login" /\ device'[x] = device[o] => x = o
    BY <1>1, <2>1 DEF RequestSound
  <2>3. CASE o = q
    <3>1. User(q) \in Users
      BY <1>2 DEF RequestSound, Refreshing
    <3>2. /\ l \in {"insert", "answer"} => token'[q].number > 0
          /\ l # "login" /\ (l = "left" => kind[q] # "login")
      BY <1>2 DEF RequestSound
    <3>3. l # "left" => pc[q] \in Refreshing /\ l \notin {"gate", "refused", "select", "delete",
                                                        "logout", "left"}
      BY DEF Refreshing
    <3>4. l = "left" => l \notin Refreshing
      BY DEF Refreshing
    <3> QED
      BY <1>1, <2>1, <2>2, <2>3, <3>1, <3>2, <3>3, <3>4 DEF RequestSound
  <2>4. CASE o # q
    BY <1>1, <2>1, <2>2, <2>4 DEF RequestSound
  <2> QED
    BY <2>3, <2>4
<1>6. SessionSurvives'
  <2>1. \A o \in Requests : pc'[o] \in {"select", "delete", "answer"} =>
          token'[o] = token[o] /\ (o = q => l = "answer")
                              /\ (o # q => pc[o] \in {"select", "delete", "answer"})
    BY <1>1
  <2> QED
    BY <2>1, HeldByNow DEF IInv, SessionSurvives
<1> QED
  BY <1>3, <1>4, <1>5, <1>6 DEF IInv, AccountOwnsTokens

\* A session ends for one user: his pairs rely on nothing, the others' on what
\* they did.
LEMMA EndedIsBacked ==
    ASSUME IInv, NEW u \in Users, ended' = [ended EXCEPT ![u] = issued],
           rows \ RowsOf(u) \subseteq rows',
           \A q \in Requests : \A v, n : v # u /\ Rotating(q, v, n) => Rotating(q, v, n)'
    PROVE  \A p : Held(p) /\ Backed(p) => Backed(p)'
<1> SUFFICES ASSUME NEW p, Held(p), Backed(p) PROVE Backed(p)'
  OBVIOUS
<1>1. CASE p.user = u
  BY <1>1 DEF Held, Backed, IInv, TypeOK
<1>2. CASE p.user # u
  <2>1. ended'[p.user] = ended[p.user]
    BY <1>2 DEF IInv, TypeOK, Held
  <2>2. \A r \in rows : r.user = p.user => r \in rows'
    BY <1>2 DEF RowsOf
  <2> QED
    BY <1>2, <2>1, <2>2 DEF Backed
<1> QED
  BY <1>1, <1>2

LEMMA LogoutDeleteKeeps ==
    ASSUME IInv, NEW q \in Requests, LogoutDelete(q)
    PROVE  IInv'
<1> USE DEF LogoutDelete, Close, requests
<1>1. User(q) \in Users
  BY DEF IInv, RequestsSound, RequestSound
<1>2. \A p : Held(p) /\ Backed(p) => Backed(p)'
  <2>1. \A o \in Requests : \A v, n : Rotating(o, v, n) => Rotating(o, v, n)'
    BY DEF Rotating, IInv, TypeOK
  <2> QED
    BY <1>1, <2>1, EndedIsBacked
<1>3. /\ ended' \in [Users -> Nat] /\ issued \in Nat /\ token \in [Requests -> Pairs]
      /\ token[q].number <= issued
  BY <1>1 DEF IInv, TypeOK, Numbered
<1>4. /\ Goto(q, "left") /\ UNCHANGED <<app, kind, device, adrift, time, faults>>
      /\ rows' \subseteq rows \cup {token[q]} /\ (pc[q] # "insert" => rows' \subseteq rows)
      /\ ended' \in [Users -> Nat] /\ issued' \in Nat /\ issued <= issued'
      /\ \A o \in Requests \ {q} : token'[o] = token[o]
      /\ token' \in [Requests -> Pairs] /\ token'[q].number <= issued'
      /\ token' = token
  BY <1>2, <1>3
<1> QED
  BY <1>4, <1>2, <1>3, ServerKeeps

\* Whoever deletes the rows for a refresh is about to insert a newer one.
LEMMA DeleteTokensKeeps ==
    ASSUME IInv, NEW q \in Requests, DeleteTokens(q)
    PROVE  IInv'
<1> USE DEF DeleteTokens, requests
<1>1. \A p : Backed(p) => Backed(p)'
  <2>1. kind[q] # "login" /\ pc'[q] = "sign" /\ User(q)' = User(q) /\ kind' = kind
    BY DEF IInv, TypeOK, RequestsSound, RequestSound
  <2>2. \A n : Rotating(q, User(q), n)'
    BY <2>1 DEF Rotating
  <2>3. \A o \in Requests : \A v, n : Rotating(o, v, n) => Rotating(o, v, n)'
    BY DEF Rotating, IInv, TypeOK
  <2> QED
    BY <2>2, <2>3 DEF Backed, RowsOf
<1>2. /\ ended \in [Users -> Nat] /\ issued \in Nat /\ token \in [Requests -> Pairs]
      /\ token[q].number <= issued
  BY DEF IInv, TypeOK, Numbered
<1>3. /\ Goto(q, "sign") /\ UNCHANGED <<app, kind, device, adrift, time, faults>>
      /\ rows' \subseteq rows \cup {token[q]} /\ (pc[q] # "insert" => rows' \subseteq rows)
      /\ ended' \in [Users -> Nat] /\ issued' \in Nat /\ issued <= issued'
      /\ \A o \in Requests \ {q} : token'[o] = token[o]
      /\ token' \in [Requests -> Pairs] /\ token'[q].number <= issued'
      /\ token' = token
  BY <1>1, <1>2
<1> QED
  BY <1>3, <1>1, <1>2, ServerKeeps

\* What is signed is newer than all that is held.
LEMMA SignKeeps ==
    ASSUME IInv, NEW q \in Requests, Sign(q)
    PROVE  IInv'
<1> USE DEF Sign
<1>1. /\ ended \in [Users -> Nat] /\ issued \in Nat /\ token \in [Requests -> Pairs]
      /\ User(q) \in Users
  BY DEF IInv, TypeOK, RequestsSound, RequestSound, Refreshing
<1>2. /\ token'[q] = [number |-> issued + 1, user |-> User(q)]
      /\ \A o \in Requests \ {q} : token'[o] = token[o]
      /\ pc'[q] = "insert"
      /\ \A o \in Requests \ {q} : pc'[o] = pc[o]
  BY DEF IInv, TypeOK
<1>3. token'[q].number = issued + 1 /\ User(q)' = User(q)
  BY <1>2
<1>4. token' \in [Requests -> Pairs]
  <2>1. [number |-> issued + 1, user |-> User(q)] \in Pairs
    BY <1>1
  <2> QED
    BY <1>1, <2>1
<1>5. \A p : Held(p) /\ Backed(p) => Backed(p)'
  <2> SUFFICES ASSUME NEW p, Held(p), Backed(p) PROVE Backed(p)'
    OBVIOUS
  <2>1. \A o \in Requests : Rotating(o, p.user, p.number) => Rotating(o, p.user, p.number)'
    <3>1. issued + 1 > p.number
      BY <1>1 DEF Held
    <3> QED
      BY <1>2, <1>3, <3>1 DEF Rotating
  <2> QED
    BY <2>1, BackedStays
<1>6. /\ Goto(q, "insert") /\ UNCHANGED <<app, kind, device, adrift, time, faults>>
      /\ rows' \subseteq rows \cup {token[q]} /\ (pc[q] # "insert" => rows' \subseteq rows)
      /\ ended' \in [Users -> Nat] /\ issued' \in Nat /\ issued <= issued'
      /\ \A o \in Requests \ {q} : token'[o] = token[o]
      /\ token' \in [Requests -> Pairs] /\ token'[q].number <= issued'
      /\ User(q)' = User(q) /\ token'[q].number > 0
  BY <1>1, <1>2, <1>3, <1>4, <1>5
<1> QED
  BY <1>6, <1>1, <1>2, <1>3, <1>4, <1>5, ServerKeeps

LEMMA InsertKeeps ==
    ASSUME IInv, NEW q \in Requests, Insert(q)
    PROVE  IInv'
<1> USE DEF Insert, requests
<1>1. /\ ended \in [Users -> Nat] /\ issued \in Nat /\ token \in [Requests -> Pairs]
      /\ token[q].number <= issued /\ token[q].number \in Nat
  BY DEF IInv, TypeOK, Numbered
<1>2. \A p : Held(p) /\ Backed(p) => Backed(p)'
  <2> SUFFICES ASSUME NEW p, Held(p), Backed(p) PROVE Backed(p)'
    OBVIOUS
  <2>1. CASE Rotating(q, p.user, p.number)
    <3>1. token[q].user = p.user /\ token[q].number > p.number /\ p.number \in Nat
      BY <2>1 DEF Rotating, Held
    <3>2. token[q] \in rows' /\ token[q].number >= p.number
      BY <1>1, <3>1
    <3> QED
      BY <3>1, <3>2 DEF Backed
  <2>2. CASE ~ Rotating(q, p.user, p.number)
    <3>1. \A o \in Requests :
            Rotating(o, p.user, p.number) => Rotating(o, p.user, p.number)'
      BY <2>2 DEF Rotating, IInv, TypeOK
    <3> QED
      BY <3>1, BackedStays
  <2> QED
    BY <2>1, <2>2
<1>3. Backed(token[q])'
  BY <1>1 DEF Backed
<1>4. /\ Goto(q, "answer") /\ UNCHANGED <<app, kind, device, adrift, time, faults>>
      /\ rows' \subseteq rows \cup {token[q]} /\ (pc[q] # "insert" => rows' \subseteq rows)
      /\ ended' \in [Users -> Nat] /\ issued' \in Nat /\ issued <= issued'
      /\ \A o \in Requests \ {q} : token'[o] = token[o]
      /\ token' \in [Requests -> Pairs] /\ token'[q].number <= issued'
      /\ token' = token
  BY <1>1, <1>2, <1>3
<1> QED
  BY <1>4, <1>1, <1>2, <1>3, ServerKeeps

\* A failed statement ends a session where it deletes the rows or keeps a refresh
\* from inserting; an INSERT that comes through backs what relied on it.
LEMMA DbFailsKeeps ==
    ASSUME IInv, NEW q \in Requests, DbFails(q)
    PROVE  IInv'
<1>1. /\ End(q) /\ issued' = issued /\ UNCHANGED time /\ faults' \in Nat
      /\ pc[q] \in {"login", "select", "sign", "delete", "logout", "insert"}
      /\ rows' \subseteq rows \cup {token[q]} /\ (pc[q] # "insert" => rows' \subseteq rows)
      /\ rows \ RowsOf(User(q)) \subseteq rows'
      /\ ended' = ended \/ Close(q)
  BY DEF DbFails, IInv, TypeOK
<1>2. User(q) \in Users /\ (pc[q] = "insert" => Held(token[q]) /\ token[q].number > 0)
  BY <1>1, HeldByNow DEF IInv, RequestsSound, RequestSound, Refreshing
<1>3. ended' \in [Users -> Nat]
  BY <1>1, <1>2 DEF Close, IInv, TypeOK
<1>4. \A o \in Requests : \A v, n : Rotating(o, v, n) =>
        \/ Rotating(o, v, n)'
        \/ o = q /\ v = User(q) /\ kind[q] # "login" /\ pc[q] \in {"sign", "insert"}
  BY <1>1 DEF Rotating, End, Forget, IInv, TypeOK
<1>5. \A p : Held(p) /\ Backed(p) => Backed(p)'
  <2>1. CASE Close(q)
    BY <1>1, <1>2, <1>4, <2>1, EndedIsBacked DEF Close
  <2>2. CASE ended' = ended /\ ~Close(q)
    <3>1. /\ rows \subseteq rows'
          /\ kind[q] # "login" /\ pc[q] \in {"sign", "insert"} =>
               pc[q] = "insert" /\ token[q] \in rows'
      BY <2>2 DEF DbFails
    <3> SUFFICES ASSUME NEW p, Held(p), Backed(p) PROVE Backed(p)'
      OBVIOUS
    <3>2. CASE \E o \in Requests : Rotating(o, p.user, p.number)
      <4>1. PICK o \in Requests : Rotating(o, p.user, p.number)
        BY <3>2
      <4>2. CASE Rotating(o, p.user, p.number)'
        BY <4>2 DEF Backed
      <4>3. CASE ~Rotating(o, p.user, p.number)'
        <5>1. /\ o = q /\ p.user = User(q) /\ token[q] \in rows'
              /\ pc[q] = "insert" /\ token[q].number > p.number
          BY <1>4, <3>1, <4>1, <4>3 DEF Rotating
        <5>2. token[q].number \in Nat /\ p.number \in Nat
          BY DEF Held, IInv, TypeOK, Pairs
        <5> QED
          BY <5>1, <5>2 DEF Backed, User
      <4> QED
        BY <4>2, <4>3
    <3>3. CASE ~ \E o \in Requests : Rotating(o, p.user, p.number)
      BY <2>2, <3>1, <3>3 DEF Backed
    <3> QED
      BY <3>2, <3>3
  <2> QED
    BY <1>1, <2>1, <2>2
<1> QED
  BY <1>1, <1>2, <1>3, <1>5, EndKeepsBacked

-----------------------------------------------------------------------------
(* Every step                                                              *)

LEMMA NextKeepsInvariant == IInv /\ [Next]_vars => IInv'
<1> SUFFICES ASSUME IInv, [Next]_vars PROVE IInv'
  OBVIOUS
<1>1. ASSUME NEW q \in Requests, Client(q) PROVE IInv'
  BY <1>1, TryRefreshKeeps, AnswerKeeps DEF Client
<1>2. ASSUME NEW q \in Requests, Server(q) PROVE IInv'
  BY <1>2, GateKeeps, LogoutDeleteKeeps, LogoutAnswerKeeps, LoginKeeps, SelectTokenKeeps,
     DeleteTokensKeeps, SignKeeps, InsertKeeps DEF Server
<1>3. ASSUME NEW q \in Requests, Start(q) \/ TimeOut(q) \/ DbFails(q) PROVE IInv'
  BY <1>3, StartKeeps, TimeOutKeeps, DbFailsKeeps
<1>4. ASSUME NEW d \in Devices, Restart(d) PROVE IInv'
  BY <1>4, RestartKeeps
<1>5. CASE Expire
  BY <1>5, ExpireKeeps
<1>6. CASE UNCHANGED vars
  <2> USE <1>6 DEF vars, server, app, requests, time
  <2>1. TypeOK' /\ Numbered' /\ AccountOwnsTokens'
    BY DEF IInv, TypeOK, Numbered, AccountOwnsTokens
  <2>2. RequestsSound'
    BY DEF IInv, RequestsSound, RequestSound, UnderWay
  <2>3. SessionSurvives'
    BY DEF IInv, SessionSurvives, Backed, Rotating
  <2> QED
    BY <2>1, <2>2, <2>3 DEF IInv
<1> QED
  BY <1>1, <1>2, <1>3, <1>4, <1>5, <1>6 DEF Next

-----------------------------------------------------------------------------
(* A request advances                                                      *)

Nearer(q) == ToGo(q)' < ToGo(q)

\* The end is the nearest place of all.
LEMMA EndIsNearer ==
    ASSUME TypeOK, NEW q \in Requests, pc[q] # "idle", End(q) PROVE Nearer(q)
<1>1. pc'[q] = "idle" /\ pc[q] \in DOMAIN Places
  BY DEF End, TypeOK, Places, Refreshing
<1>2. ToGo(q)' = 0
  BY <1>1 DEF ToGo, Places
<1>3. ToGo(q) \in Nat /\ ToGo(q) > 0
  BY <1>1 DEF ToGo, Places
<1> QED
  BY <1>2, <1>3 DEF Nearer

LEMMA ClientAdvances ==
    ASSUME TypeOK, NEW q \in Requests, Client(q) PROVE Nearer(q)
<1> USE DEF time
<1>1. CASE TryRefresh(q)
  <2>1. CASE End(q)
    BY <1>1, <2>1, EndIsNearer DEF TryRefresh
  <2>2. CASE Goto(q, "select")
    <3>1. pc[q] = "refused" /\ pc'[q] = "select"
      BY <1>1, <2>2 DEF TryRefresh, TypeOK
    <3> QED
      BY <3>1 DEF Nearer, ToGo, Places
  <2> QED
    BY <1>1, <2>1, <2>2 DEF TryRefresh
<1>2. CASE Answer(q)
  <2>1. pc[q] = "answer" /\ stale' = stale
    BY <1>2 DEF Answer
  <2>2. CASE pc'[q] = "idle"
    BY <2>1, <2>2 DEF Nearer, ToGo, Places
  <2>3. CASE pc'[q] = "gate" /\ token' = token
    BY <2>1, <2>3 DEF Nearer, ToGo, Places
  <2> QED
    BY <1>2, <2>2, <2>3 DEF Answer, TypeOK, requests
<1> QED
  BY <1>1, <1>2 DEF Client

LEMMA ServerAdvances ==
    ASSUME TypeOK, Numbered, NEW q \in Requests, Server(q) PROVE Nearer(q)
<1> USE DEF time, requests
<1>1. pc \in [Requests -> Refreshing \cup {"idle", "gate", "refused", "login", "logout",
                                          "left"}]
  BY DEF TypeOK
<1>2. CASE End(q)
  <2>1. pc[q] # "idle"
    BY DEF Server, Gate, LogoutDelete, LogoutAnswer, Login, SelectToken, DeleteTokens,
       Sign, Insert
  <2> QED
    BY <1>2, <2>1, EndIsNearer
<1>3. CASE Gate(q) /\ ~ End(q)
  <2>1. /\ pc[q] = "gate" /\ stale' = stale
        /\ \/ pc'[q] = "refused" /\ token[q].number <= stale
           \/ pc'[q] = "logout"
    BY <1>1, <1>3 DEF Gate
  <2> QED
    BY <2>1 DEF Nearer, ToGo, Places
<1>4. CASE LogoutDelete(q)
  <2>1. pc[q] = "logout" /\ pc'[q] = "left"
    BY <1>1, <1>4 DEF LogoutDelete
  <2> QED
    BY <2>1 DEF Nearer, ToGo, Places
<1>5. CASE (Login(q) \/ DeleteTokens(q)) /\ ~ End(q)
  <2>1. pc[q] \in {"login", "delete"} /\ pc'[q] = "sign"
    BY <1>1, <1>5 DEF Login, DeleteTokens
  <2> QED
    BY <2>1 DEF Nearer, ToGo, Places
<1>6. CASE SelectToken(q) /\ ~ End(q)
  <2>1. pc[q] = "select" /\ pc'[q] = "delete"
    BY <1>1, <1>6 DEF SelectToken
  <2> QED
    BY <2>1 DEF Nearer, ToGo, Places
<1>7. CASE Sign(q)
  <2>1. /\ pc[q] = "sign" /\ pc'[q] = "insert" /\ stale' = stale
        /\ token'[q].number = issued + 1
    BY <1>1, <1>7 DEF Sign, TypeOK
  <2>2. stale <= issued /\ stale \in Nat /\ issued \in Nat
    BY DEF TypeOK, Numbered
  <2>3. ~(token'[q].number <= stale')
    BY <2>1, <2>2
  <2> QED
    BY <2>1, <2>3 DEF Nearer, ToGo, Places
<1>8. CASE Insert(q)
  <2>1. pc[q] = "insert" /\ pc'[q] = "answer" /\ stale' = stale /\ token' = token
    BY <1>1, <1>8 DEF Insert
  <2> QED
    BY <2>1 DEF Nearer, ToGo, Places
<1> QED
  BY <1>2, <1>3, <1>4, <1>5, <1>6, <1>7, <1>8 DEF Server, LogoutAnswer

\* What other requests do, the app's end of them included, leaves a request
\* where it is.
LEMMA OthersLeaveIt ==
    ASSUME NEW q \in Requests, stale' = stale, pc'[q] = pc[q], token'[q] = token[q]
    PROVE  ToGo(q)' = ToGo(q)
BY DEF ToGo

LEMMA StepAdvances ==
    ASSUME IInv, [Next]_vars, expiries' = expiries, NEW q \in Requests, pc[q] # "idle"
    PROVE  Nearer(q) \/ (ToGo(q)' = ToGo(q) /\ pc'[q] = pc[q])
<1> USE DEF time, requests
<1>1. TypeOK /\ Numbered
  BY DEF IInv
<1>2. CASE Client(q) \/ Server(q)
  BY <1>1, <1>2, ClientAdvances, ServerAdvances
<1>3. CASE DbFails(q)
  BY <1>1, <1>3, EndIsNearer DEF DbFails
<1>4. stale' = stale
  BY <1>1 DEF Next, vars, Expire, TypeOK, Start, Client, TryRefresh, Answer, Server, Gate,
     LogoutDelete, LogoutAnswer, Login, SelectToken, DeleteTokens, Sign, Insert, TimeOut,
     DbFails, Restart
<1>5. ASSUME NEW o \in Requests, o # q,
             Start(o) \/ Client(o) \/ Server(o) \/ TimeOut(o) \/ DbFails(o)
      PROVE  pc'[q] = pc[q] /\ token'[q] = token[q]
  BY <1>1, <1>5 DEF TypeOK, Start, Client, TryRefresh, Answer, Server, Gate,
     LogoutDelete, LogoutAnswer, Login, SelectToken, DeleteTokens, Sign, Insert, TimeOut,
     DbFails, End, Forget
<1>6. CASE Start(q) \/ TimeOut(q)
  BY <1>4, <1>6, OthersLeaveIt DEF Start, TimeOut
<1>7. CASE UNCHANGED vars \/ \E d \in Devices : Restart(d)
  <2>1. pc' = pc /\ token' = token
    BY <1>7 DEF vars, Restart
  <2> QED
    BY <1>4, <2>1, OthersLeaveIt
<1>8. ~ Expire
  BY <1>1 DEF Expire, TypeOK
<1> QED
  BY <1>2, <1>3, <1>4, <1>5, <1>6, <1>7, <1>8, OthersLeaveIt DEF Next

-----------------------------------------------------------------------------
(* The theorems                                                            *)

\* Whatever refreshes, logouts, logins, errors and expiries interleave on any
\* number of devices, auth's rows back every session that has not ended, and
\* what a device holds is its account's.
THEOREM TokensInvariant == Spec => []IInv
<1>1. Init => IInv
  BY InitInvariant
<1>2. IInv /\ [Next]_vars => IInv'
  BY NextKeepsInvariant
<1> QED
  BY <1>1, <1>2, PTL DEF Spec

\* TokenStore never holds tokens of another account than AuthManager shows,
\* unless a logout has overtaken a refresh on that device.
THEOREM AccountsOwnTheirTokens == Spec => []AccountOwnsTokens
<1>1. IInv => AccountOwnsTokens
  BY DEF IInv
<1> QED
  BY <1>1, TokensInvariant, PTL

\* auth's refresh answers 401 only to a token that has expired, to a session
\* that has ended, and between another refresh's DELETE and INSERT.
THEOREM RefusalsHaveACause == Spec => RefusedForCause
<1>1. IInv /\ [Next]_vars => [RefusalHasCause]_vars
  <2> SUFFICES ASSUME IInv, Next, NEW q \in Requests,
                      pc[q] = "select", pc'[q] = "idle", faults' = faults
               PROVE  \/ token[q].number <= dead
                      \/ token[q].number <= ended[User(q)]
                      \/ \E o \in Requests : Rotating(o, User(q), dead)
    BY DEF RefusalHasCause
  <2>1. SelectToken(q)
    <3>1. /\ pc \in [Requests -> Refreshing \cup {"idle", "gate", "refused", "login",
                                     "logout", "left"}]
          /\ pc' # pc
      BY DEF IInv, TypeOK
    <3>2. ASSUME NEW o \in Requests, Start(o) \/ Client(o) PROVE FALSE
      BY <3>1, <3>2 DEF Client, Start, TryRefresh, Answer, End
    <3>3. ASSUME NEW o \in Requests, Server(o) PROVE SelectToken(q)
      BY <3>1, <3>3 DEF Server, Gate, LogoutDelete, LogoutAnswer, Login, SelectToken,
                        DeleteTokens, Sign, Insert, End
    <3>4. ASSUME NEW o \in Requests, TimeOut(o) \/ DbFails(o) PROVE FALSE
      <4>1. faults' = faults + 1 /\ faults \in Nat
        BY <3>4 DEF TimeOut, DbFails, IInv, TypeOK
      <4> QED
        BY <4>1
    <3>5. ~ (\E d \in Devices : Restart(d)) /\ ~ Expire
      BY <3>1 DEF Restart, Expire
    <3> QED
      BY <3>2, <3>3, <3>4, <3>5 DEF Next
  <2>2. ~ Valid(q)
    BY <2>1 DEF SelectToken, IInv, TypeOK
  <2>3. Backed(token[q])
    BY DEF IInv, SessionSurvives
  <2>4. token[q].number \in Nat /\ dead \in Nat
    BY DEF IInv, TypeOK
  <2>5. \A r \in rows : r.number \in Nat
    BY DEF IInv, TypeOK
  <2>6. ASSUME NEW o \in Requests, Rotating(o, User(q), token[q].number), token[q].number > dead
        PROVE  Rotating(o, User(q), dead)
    <3>1. token[o].number \in Nat
      BY DEF IInv, TypeOK
    <3> QED
      BY <2>4, <2>6, <3>1 DEF Rotating
  <2> QED
    BY <2>2, <2>3, <2>4, <2>5, <2>6 DEF Backed, Valid, RowsOf
<1> QED
  BY <1>1, TokensInvariant, PTL DEF Spec, RefusedForCause

\* The safety core of EveryRequestEnds: as long as no token expires, every step
\* takes a request nearer to its end or leaves it where it is.  A 401 leads to
\* one refresh, and the pair that refresh brings back passes the gate.
THEOREM RequestsComeToAnEnd == Spec => RequestsAdvance
<1> DEFINE Advance ==
      \A q \in Requests :
         pc[q] # "idle" /\ expiries' = expiries =>
             \/ ToGo(q)' < ToGo(q)
             \/ ToGo(q)' = ToGo(q) /\ pc'[q] = pc[q]
<1>1. IInv /\ [Next]_vars => [Advance]_vars
  BY StepAdvances DEF Nearer
<1> QED
  BY <1>1, TokensInvariant, PTL DEF Spec, RequestsAdvance
=============================================================================
