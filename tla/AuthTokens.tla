----------------------------- MODULE AuthTokens -----------------------------
(***************************************************************************)
(* Sessions of the app's users: auth's login, refresh and logout on        *)
(* core.refresh_tokens, statement by statement, the gateway that verifies  *)
(* access tokens, and UserApp, whose requests run side by side, refresh    *)
(* on a 401 and try again.                                                 *)
(*                                                                         *)
(* A pair is an access and a refresh token signed together, numbered in    *)
(* the order of signing.  Time is what has expired: access tokens up to    *)
(* `stale', refresh tokens (and their rows) up to `dead'.                  *)
(*                                                                         *)
(*   rows      core.refresh_tokens: the pairs stored                       *)
(*   issued    how many pairs have been signed                             *)
(*   store     each device's TokenStore                                    *)
(*   account   whom each device shows as logged in                         *)
(*   pc, kind, device   the requests at work; "idle" where there is none   *)
(*   token     the pair a request carries, or, later, was signed for it    *)
(*   adrift    requests whose client has given up or died                  *)
(*   ended     history: the last pair signed when each user last logged    *)
(*             out, or lost his rows to a refresh that failed halfway      *)
(*   overtaken history: devices whose logout overtook a refresh            *)
(***************************************************************************)
EXTENDS Integers

CONSTANTS Devices, Users,
          MaxAtOnce,    \* bound: requests at work at once
          MaxRequests,  \* bound: requests made
          First,        \* the device on which FirstUser has registered
          FirstUser,
          MaxExpiries,  \* bound: how often time passes
          MaxFaults,    \* bound: errors, time-outs, restarts of the app
          Nobody

ASSUME TokensAssumption ==
    /\ First \in Devices /\ FirstUser \in Users
    /\ Nobody \notin Users
    /\ MaxAtOnce \in Nat /\ MaxRequests \in Nat
    /\ MaxExpiries \in Nat /\ MaxFaults \in Nat

VARIABLES rows, issued, stale, dead, store, account, pc, kind, device, token,
          adrift, ended, overtaken, expiries, made, faults

server == <<rows, issued, ended>>
app == <<store, account, overtaken>>
requests == <<kind, device, token, adrift>>
time == <<stale, dead, expiries, made>>
vars == <<server, app, requests, pc, time, faults>>

Requests == 1 .. MaxAtOnce

Pairs == [number : Nat, user : Users \cup {Nobody}]
NoPair == [number |-> 0, user |-> Nobody]

Refreshing == {"select", "delete", "sign", "insert", "answer"}

User(q) == token[q].user
UnderWay(q) == pc[q] # "idle" /\ q \notin adrift

Goto(q, l) == pc' = [pc EXCEPT ![q] = l]

RowsOf(u) == {r \in rows : r.user = u}

-----------------------------------------------------------------------------
(* UserApp                                                                 *)

\* What the end of a request does to the app: a logout, however it went, clears
\* the store.
Settle_KeepTokens(q) ==
    IF kind[q] = "logout" /\ q \notin adrift
    THEN /\ account' = [account EXCEPT ![device[q]] = Nobody]
         /\ UNCHANGED <<store, overtaken>>
    ELSE UNCHANGED app

Forget(q) ==
    /\ kind' = [kind EXCEPT ![q] = "none"]
    /\ device' = [device EXCEPT ![q] = First]
    /\ token' = [token EXCEPT ![q] = NoPair]
    /\ adrift' = adrift \ {q}

InFlight(d) ==
    {q \in Requests : device[q] = d /\ UnderWay(q) /\ pc[q] \in Refreshing}

Settle(q) ==
    IF kind[q] = "logout" /\ q \notin adrift
    THEN LET d == device[q] IN
         /\ store' = [store EXCEPT ![d] = NoPair]
         /\ account' = [account EXCEPT ![d] = Nobody]
         /\ overtaken' = IF InFlight(d) \ {q} = {} THEN overtaken ELSE overtaken \cup {d}
    ELSE UNCHANGED app

\* The session of the request's user is over, with all pairs signed so far.
Close(q) == ended' = [ended EXCEPT ![User(q)] = issued]

\* The request is over, well or badly, and what it carried is gone.
End(q) ==
    /\ Goto(q, "idle")
    /\ Forget(q)
    /\ Settle(q)

\* A view starts a request with the stored access token, or the login screen
\* its one login.
Start(q) ==
    /\ pc[q] = "idle"
    /\ \A o \in Requests : o < q => pc[o] # "idle"
    /\ \E d \in Devices :
         /\ device' = [device EXCEPT ![q] = d]
         /\ \/ /\ account[d] # Nobody
               /\ \E k \in {"api", "logout"} : kind' = [kind EXCEPT ![q] = k]
               /\ Goto(q, "gate")
               /\ token' = [token EXCEPT ![q] = store[d]]
            \/ /\ account[d] = Nobody
               /\ ~ \E o \in Requests : /\ UnderWay(o) /\ kind[o] = "login"
                                        /\ device[o] = d
               /\ kind' = [kind EXCEPT ![q] = "login"]
               /\ Goto(q, "login")
               /\ \E u \in Users :
                    token' = [token EXCEPT ![q] = [number |-> 0, user |-> u]]
    /\ made < MaxRequests /\ made' = made + 1
    /\ UNCHANGED <<adrift, server, app, stale, dead, expiries, faults>>

\* The 401 of the gateway: with a refresh token in the store, refresh.
TryRefresh(q) ==
    /\ pc[q] = "refused" /\ q \notin adrift
    /\ LET stored == store[device[q]] IN
       \/ /\ stored # NoPair
          /\ Goto(q, "select")
          /\ token' = [token EXCEPT ![q] = stored]
          /\ UNCHANGED <<app, kind, device, adrift>>
       \/ stored = NoPair /\ End(q)
    /\ UNCHANGED <<server, time, faults>>

\* A new pair arrives and is stored, whatever the store holds by now; a login
\* is over, a refreshed request goes out again.
Answer(q) ==
    /\ pc[q] = "answer" /\ q \notin adrift
    /\ store' = [store EXCEPT ![device[q]] = token[q]]
    /\ \/ /\ kind[q] = "login"
          /\ account' = [account EXCEPT ![device[q]] = User(q)]
          /\ Goto(q, "idle") /\ Forget(q)
       \/ /\ kind[q] # "login"
          /\ Goto(q, "gate")
          /\ UNCHANGED <<account, requests>>
    /\ UNCHANGED <<overtaken, server, time, faults>>

\* The client's patience is over; the server goes on.
TimeOut(q) ==
    /\ faults < MaxFaults /\ faults' = faults + 1
    /\ UnderWay(q)
    /\ Settle(q)
    /\ adrift' = adrift \cup {q}
    /\ UNCHANGED <<kind, device, token, pc, server, time>>

\* The app is started anew: it is logged in if the store holds a token.
Restart(d) ==
    /\ faults < MaxFaults /\ faults' = faults + 1
    /\ account' = [account EXCEPT ![d] = store[d].user]
    /\ adrift' = adrift \cup {q \in Requests : device[q] = d /\ UnderWay(q)}
    /\ UNCHANGED <<store, overtaken, kind, device, token, pc, server, time>>

-----------------------------------------------------------------------------
(* The gateway and auth                                                    *)

\* The gateway verifies the access token; a request of the api is answered.
Gate(q) ==
    /\ pc[q] = "gate"
    /\ \/ /\ token[q].number <= stale
          /\ Goto(q, "refused") /\ UNCHANGED <<app, requests>>
       \/ /\ token[q].number > stale /\ kind[q] = "logout"
          /\ Goto(q, "logout") /\ UNCHANGED <<app, requests>>
       \/ token[q].number > stale /\ kind[q] = "api" /\ End(q)
    /\ UNCHANGED <<server, time, faults>>

LogoutDelete_All(q) ==
    /\ pc[q] = "logout"
    /\ rows' = {}
    /\ Close(q)
    /\ Goto(q, "left")
    /\ UNCHANGED <<issued, app, requests, time, faults>>

LogoutDelete(q) ==
    /\ pc[q] = "logout"
    /\ rows' = rows \ RowsOf(User(q))
    /\ Close(q)
    /\ Goto(q, "left")
    /\ UNCHANGED <<issued, app, requests, time, faults>>

LogoutAnswer(q) ==
    /\ pc[q] = "left" /\ End(q)
    /\ UNCHANGED <<server, time, faults>>

\* The password is compared; a suspended user is refused too.
Login(q) ==
    /\ pc[q] = "login"
    /\ \/ Goto(q, "sign") /\ UNCHANGED <<app, requests>>
       \/ End(q)
    /\ UNCHANGED <<server, time, faults>>

SelectToken_OwnRow(q) ==
    /\ pc[q] = "select"
    /\ LET valid == token[q].number > dead /\ token[q] \in rows
       IN  \/ valid /\ Goto(q, "delete") /\ UNCHANGED <<app, requests>>
           \/ ~valid /\ End(q)
    /\ UNCHANGED <<server, time, faults>>

Valid(q) ==
    /\ token[q].number > dead
    /\ \E r \in RowsOf(User(q)) : r.number > dead

SelectToken_Retried(q) ==
    /\ pc[q] = "select"
    /\ \/ Valid(q) /\ Goto(q, "delete")
       \/ ~ Valid(q) /\ Goto(q, "refused")
    /\ UNCHANGED <<app, requests, server, time, faults>>

\* The refresh token must be valid, and any row of the user unexpired.
SelectToken(q) ==
    /\ pc[q] = "select"
    /\ \/ Valid(q) /\ Goto(q, "delete") /\ UNCHANGED <<app, requests>>
       \/ ~ Valid(q) /\ End(q)
    /\ UNCHANGED <<server, time, faults>>

DeleteTokens(q) ==
    /\ pc[q] = "delete"
    /\ rows' = rows \ RowsOf(User(q))
    /\ Goto(q, "sign")
    /\ UNCHANGED <<issued, ended, app, requests, time, faults>>

\* issueTokenPair signs, and then hashes and inserts.
Sign(q) ==
    /\ pc[q] = "sign"
    /\ issued' = issued + 1
    /\ token' = [token EXCEPT ![q] = [number |-> issued + 1, user |-> User(q)]]
    /\ Goto(q, "insert")
    /\ UNCHANGED <<rows, ended, app, kind, device, adrift, time, faults>>

Insert(q) ==
    /\ pc[q] = "insert"
    /\ rows' = rows \cup {token[q]}
    /\ Goto(q, "answer")
    /\ UNCHANGED <<issued, ended, app, requests, time, faults>>

\* A statement fails, with or without effect, or auth dies: the client sees an
\* error.  A refresh that has deleted and not inserted leaves the user none.
DbFails(q) ==
    /\ faults < MaxFaults /\ faults' = faults + 1
    /\ \/ pc[q] \in {"login", "select", "delete", "logout"} /\ UNCHANGED <<rows, ended>>
       \/ pc[q] \in {"delete", "logout"} /\ rows' = rows \ RowsOf(User(q)) /\ Close(q)
       \/ pc[q] \in {"sign", "insert"} /\ kind[q] = "login" /\ UNCHANGED <<rows, ended>>
       \/ pc[q] \in {"sign", "insert"} /\ kind[q] # "login" /\ UNCHANGED rows /\ Close(q)
       \/ pc[q] = "insert" /\ rows' = rows \cup {token[q]} /\ UNCHANGED ended
    /\ End(q)
    /\ UNCHANGED <<issued, time>>

-----------------------------------------------------------------------------
(* Time                                                                    *)

\* Time passes: access tokens live 15 minutes, refresh tokens and their rows 7
\* days, and the older a pair the sooner it expires.
Expire ==
    /\ expiries < MaxExpiries /\ expiries' = expiries + 1
    /\ stale' \in stale .. issued
    /\ dead' \in dead .. stale'
    /\ UNCHANGED <<server, app, requests, pc, made, faults>>

-----------------------------------------------------------------------------
Registered == [number |-> 1, user |-> FirstUser]

Init ==
    /\ rows = {Registered} /\ issued = 1
    /\ stale = 0 /\ dead = 0 /\ expiries = 0 /\ made = 0
    /\ store = [d \in Devices |-> IF d = First THEN Registered ELSE NoPair]
    /\ account = [d \in Devices |-> IF d = First THEN FirstUser ELSE Nobody]
    /\ pc = [q \in Requests |-> "idle"]
    /\ kind = [q \in Requests |-> "none"]
    /\ device = [q \in Requests |-> First]
    /\ token = [q \in Requests |-> NoPair]
    /\ adrift = {} /\ overtaken = {} /\ faults = 0
    /\ ended = [u \in Users |-> 0]

Client(q) == TryRefresh(q) \/ Answer(q)

Server(q) ==
    \/ Gate(q)
    \/ LogoutDelete(q)
    \/ LogoutAnswer(q)
    \/ Login(q)
    \/ SelectToken(q)
    \/ DeleteTokens(q)
    \/ Sign(q)
    \/ Insert(q)

Next ==
    \/ \E q \in Requests : \/ Start(q) \/ Client(q) \/ Server(q)
                           \/ TimeOut(q) \/ DbFails(q)
    \/ \E d \in Devices : Restart(d)
    \/ Expire

Spec == Init /\ [][Next]_vars

\* The server handles what it was sent and the app what it is answered.
FairSpec ==
    Spec /\ \A q \in Requests : WF_vars(Client(q)) /\ WF_vars(Server(q))

-----------------------------------------------------------------------------
(* Properties                                                              *)

TypeOK ==
    /\ rows \subseteq [number : Nat, user : Users]
    /\ issued \in Nat /\ stale \in Nat /\ dead \in Nat
    /\ store \in [Devices -> Pairs]
    /\ account \in [Devices -> Users \cup {Nobody}]
    /\ pc \in [Requests -> Refreshing \cup {"idle", "gate", "refused", "login", "logout",
                                        "left"}]
    /\ kind \in [Requests -> {"none", "api", "login", "logout"}]
    /\ device \in [Requests -> Devices]
    /\ token \in [Requests -> Pairs]
    /\ adrift \subseteq Requests /\ overtaken \subseteq Devices
    /\ ended \in [Users -> Nat]
    /\ expiries \in Nat /\ made \in Nat /\ faults \in Nat

\* A refresh of user u that has deleted the rows and will insert a pair newer
\* than number n.
Rotating(q, u, n) ==
    /\ kind[q] # "login" /\ User(q) = u
    /\ \/ pc[q] = "sign"
       \/ pc[q] = "insert" /\ token[q].number > n

\* What a pair can rely on: a row of its user as new as itself, or a refresh
\* about to insert one, unless the session has ended since it was signed.
Backed(p) ==
    \/ p.number <= ended[p.user]
    \/ \E r \in rows : r.user = p.user /\ r.number >= p.number
    \/ \E q \in Requests : Rotating(q, p.user, p.number)

\* A session survives any number of refreshes at once, of one device or of
\* several, although each deletes the rows of all: whatever a device holds is
\* backed, until the user logs out or a refresh fails halfway.
SessionSurvives ==
    /\ \A d \in Devices : store[d] # NoPair => Backed(store[d])
    /\ \A q \in Requests : pc[q] \in {"select", "delete", "answer"} => Backed(token[q])

\* A refresh is refused for a cause: its token has expired, its session has
\* ended, or it met another refresh of the user between DELETE and INSERT.
RefusalHasCause ==
    \A q \in Requests :
        pc[q] = "select" /\ pc'[q] = "idle" /\ faults' = faults =>
            \/ token[q].number <= dead
            \/ token[q].number <= ended[User(q)]
            \/ \E o \in Requests : Rotating(o, User(q), dead)

RefusedForCause == [][RefusalHasCause]_vars

\* The tokens of a device are those of the account it shows, through logins of
\* different users, restarts and refreshes in flight; only where a logout has
\* overtaken a refresh may tokens come back that nobody is shown for.
AccountOwnsTokens ==
    \A d \in Devices \ overtaken : store[d].user = account[d]

\* Every request ends (or is given up): a 401 leads to a refresh and the refresh
\* to one more try, never to a circle of the two.
EveryRequestEnds ==
    []<>(\A q \in Requests : ~ UnderWay(q))

\* How many steps a request has still to go at most: its place on the way, and a
\* round of refreshing if its access token has expired before the next try.
Places == [idle |-> 0, left |-> 1, logout |-> 2, gate |-> 3, answer |-> 4, insert |-> 5,
           sign |-> 6, login |-> 7, delete |-> 7, select |-> 8, refused |-> 9]

ToGo(q) ==
    Places[pc[q]] +
      IF pc[q] \in {"gate", "answer", "insert"} /\ token[q].number <= stale THEN 7 ELSE 0

\* The safety that EveryRequestEnds rests on: while no token expires, nothing
\* takes a request back, not the other requests, nor its own refresh: what it is
\* handed passes the gate.
RequestsAdvance ==
    [][\A q \in Requests :
         pc[q] # "idle" /\ expiries' = expiries =>
             \/ ToGo(q)' < ToGo(q)
             \/ ToGo(q)' = ToGo(q) /\ pc'[q] = pc[q]]_vars

-----------------------------------------------------------------------------
(* The inductive invariant                                                 *)

\* Pairs are numbered in the order of signing, and expire in that order.
Numbered ==
    /\ dead <= stale /\ stale <= issued
    /\ \A r \in rows : r.number > 0 /\ r.number <= issued
    /\ \A d \in Devices : store[d].number <= issued
    /\ \A d \in Devices :
         store[d] = NoPair \/ (store[d].number > 0 /\ store[d].user \in Users)
    /\ \A q \in Requests : token[q].number <= issued

\* What a request carries where: a user's pair while a refresh or a login is at
\* work, the account's own before a logout has overtaken it.
RequestSound(q) ==
    /\ pc[q] \in Refreshing \cup {"login", "logout"} => User(q) \in Users
    /\ token[q].number > 0 => User(q) \in Users
    /\ pc[q] \in {"select", "delete", "insert", "answer"} => token[q].number > 0
    /\ pc[q] \in {"gate", "refused", "select", "delete", "logout", "left"} =>
         kind[q] # "login"
    /\ pc[q] = "login" => kind[q] = "login"
    /\ UnderWay(q) /\ device[q] \notin overtaken =>
         IF kind[q] = "login"
         THEN /\ account[device[q]] = Nobody
              /\ \A o \in Requests :
                   UnderWay(o) /\ kind[o] = "login" /\ device[o] = device[q] => o = q
         ELSE pc[q] \in Refreshing => User(q) = account[device[q]]

RequestsSound == \A q \in Requests : RequestSound(q)

IInv ==
    /\ TypeOK
    /\ Numbered
    /\ RequestsSound
    /\ SessionSurvives
    /\ AccountOwnsTokens
=============================================================================
