----------------------------- MODULE PosTerminal -----------------------------
(***************************************************************************)
(* The merchant's terminal (POSPage) on top of Payment: a customer's code  *)
(* is scanned, an amount entered, and handlePay creates a session and pays *)
(* it with the customer's token.  Every handlePay is an attempt of Payment *)
(* with a token of its own.  The button is disabled while `paying'; the    *)
(* Enter key is not, so calls can overlap.  A success screen arms a timer  *)
(* that resets the terminal; the page can be left with calls under way.    *)
(*                                                                         *)
(*   stage      which screen is shown                                      *)
(*   scanned    the ledger row of the customer scanned                     *)
(*   paying     the flag that disables the button                          *)
(*   shown      the attempt whose result is on the success screen          *)
(*   timers     the attempts whose timer is armed                          *)
(*   autoReset  the last one armed, the only one the page can clear        *)
(*   scan       how many customers were scanned                            *)
(*   call       each handlePay: waiting for a session ("create"), for the  *)
(*              payment ("pay"), or over: "paid", "refused", "unknown"     *)
(*   scanOf     the scan each attempt belongs to, 0 before                 *)
(*   left       calls under way whose page was left                        *)
(*   overlap    history: attempts made while another was under way         *)
(***************************************************************************)
EXTENDS Payment

CONSTANT MaxScans   \* bound: customers scanned

\* A session's token is fresh: it is named after the attempt that asks for it.
ASSUME PosAssumption == MaxScans \in Nat /\ Attempts \subseteq Tokens

VARIABLES stage, scanned, paying, shown, timers, autoReset, scan, call, scanOf,
          left, overlap

screen == <<stage, scanned, paying, shown, timers, autoReset>>
calls == <<call, scanOf, left, overlap>>
terminal == <<screen, scan, calls>>
posVars == <<vars, terminal>>

Calling(a) == call[a] \in {"create", "pay"}

Become(a, c) == call' = [call EXCEPT ![a] = c]

-----------------------------------------------------------------------------
(* The merchant                                                            *)

\* A customer's code is recognized.
Scan(r) ==
    /\ stage = "scanning" /\ scan < MaxScans
    /\ scan' = scan + 1
    /\ stage' = "amount" /\ scanned' = r
    /\ UNCHANGED <<paying, shown, timers, autoReset, calls, vars>>

\* Another code: no coin in it.
BadScan ==
    /\ stage = "scanning"
    /\ stage' = "error"
    /\ UNCHANGED <<scanned, paying, shown, timers, autoReset, scan, calls, vars>>

\* handlePay, for the customer scanned and an amount that is large enough.
HandlePay(a) ==
    /\ stage = "amount" /\ call[a] = "none" /\ Row(a) = scanned
    /\ paying' = TRUE
    /\ Become(a, "create")
    /\ scanOf' = [scanOf EXCEPT ![a] = scan]
    /\ overlap' = IF paying THEN overlap \cup {a} ELSE overlap
    /\ UNCHANGED <<stage, scanned, shown, timers, autoReset, scan, left, vars>>

PayButton(a) == ~ paying /\ HandlePay(a)

\* The Enter key asks nothing.
PayEnter(a) == HandlePay(a)

ClearScreen ==
    /\ stage' = "scanning" /\ scanned' = Nobody
    /\ paying' = FALSE /\ shown' = Nobody

ResetScreen_KeepTimer ==
    /\ ClearScreen
    /\ UNCHANGED <<timers, autoReset, scan, calls, vars>>

\* reset: also clears the last timer.
ResetScreen ==
    /\ ClearScreen
    /\ timers' = timers \ {autoReset} /\ autoReset' = Nobody
    /\ UNCHANGED <<scan, calls, vars>>

\* The buttons for the next payment and for another scan.
Reset == stage \in {"success", "error"} /\ ResetScreen

\* Five seconds after a success, if nobody has cleared the timer.
TimerFires(a) ==
    /\ a \in timers
    /\ ClearScreen
    /\ timers' = timers \ {a, autoReset} /\ autoReset' = Nobody
    /\ UNCHANGED <<scan, calls, vars>>

\* The page is left and opened anew: by a logout, after which its calls go on
\* unseen, or by a reload, which ends them.
Leave ==
    /\ ClearScreen
    /\ timers' = {} /\ autoReset' = Nobody
    /\ \/ left' = left \cup {a \in Attempts : Calling(a)} /\ UNCHANGED call
       \/ /\ call' = [a \in Attempts |-> IF call[a] = "create" THEN "refused"
                                         ELSE IF call[a] = "pay" THEN "unknown"
                                         ELSE call[a]]
          /\ left' = {}
    /\ UNCHANGED <<scan, scanOf, overlap, vars>>

-----------------------------------------------------------------------------
(* The answers                                                             *)

ShowError_StayAtAmount(a) ==
    /\ IF a \in left THEN UNCHANGED paying ELSE paying' = FALSE
    /\ left' = left \ {a}
    /\ UNCHANGED <<stage, scanned, shown, timers, autoReset, scan, scanOf, overlap>>

\* The error screen; on a page that was left, nothing.
ShowError(a) ==
    /\ IF a \in left THEN UNCHANGED <<stage, paying>>
       ELSE stage' = "error" /\ paying' = FALSE
    /\ left' = left \ {a}
    /\ UNCHANGED <<scanned, shown, timers, autoReset, scan, scanOf, overlap>>

ShowPaid_NoTimer(a) ==
    /\ IF a \in left
       THEN Become(a, "unknown") /\ UNCHANGED screen
       ELSE /\ Become(a, "paid")
            /\ stage' = "success" /\ shown' = a /\ paying' = FALSE
            /\ UNCHANGED <<scanned, timers, autoReset>>
    /\ left' = left \ {a}
    /\ UNCHANGED <<scan, scanOf, overlap>>

\* The success screen, whatever is shown by now, with its timer.
ShowPaid(a) ==
    /\ IF a \in left
       THEN Become(a, "unknown") /\ UNCHANGED screen
       ELSE /\ Become(a, "paid")
            /\ stage' = "success" /\ shown' = a /\ paying' = FALSE
            /\ timers' = timers \cup {a} /\ autoReset' = a
            /\ UNCHANGED scanned
    /\ left' = left \ {a}
    /\ UNCHANGED <<scan, scanOf, overlap>>

\* The session is created and its token sent on with the customer's.
CreateAnswered(a) ==
    /\ call[a] = "create"
    /\ CreateQR(Token(a))
    /\ Become(a, "pay")
    /\ UNCHANGED <<screen, scan, scanOf, left, overlap>>

\* No session, or none that the terminal hears of: nothing is paid.
CreateFails(a) ==
    /\ call[a] = "create"
    /\ CreateQR(Token(a)) \/ UNCHANGED vars
    /\ Become(a, "refused")
    /\ ShowError(a)

PayAnswered(a) ==
    /\ call[a] = "pay" /\ pc[a] = "done"
    /\ \/ status[a] = 200 /\ ShowPaid(a)
       \/ /\ status[a] # 200
          /\ Become(a, IF status[a] = 500 THEN "unknown" ELSE "refused")
          /\ ShowError(a)
    /\ UNCHANGED vars

\* The connection breaks, before or after the payment, or the gateway refuses
\* the customer's token: the terminal cannot say what became of it.
ConnectionLost(a) ==
    /\ call[a] = "pay"
    /\ Become(a, "unknown")
    /\ ShowError(a)
    /\ UNCHANGED vars

-----------------------------------------------------------------------------
(* The services, as in Payment; a payment is asked for once its session is *)
(* known, and may arrive after the terminal has given up.                  *)

Asked(a) == call[a] \in {"pay", "unknown"}

Services ==
    /\ \/ \E t \in Tokens : Expire(t)
       \/ \E a \in Attempts : Asked(a) /\ (Handle(a) \/ Core(a))
       \/ Crash
    /\ UNCHANGED terminal

-----------------------------------------------------------------------------
PosInit ==
    /\ Init
    /\ \A a \in Attempts : Token(a) = a
    /\ stage = "scanning" /\ scanned = Nobody /\ paying = FALSE /\ shown = Nobody
    /\ timers = {} /\ autoReset = Nobody /\ scan = 0
    /\ call = [a \in Attempts |-> "none"]
    /\ scanOf = [a \in Attempts |-> 0]
    /\ left = {} /\ overlap = {}

PosNext ==
    \/ \E r \in Rows : Scan(r)
    \/ BadScan \/ Reset \/ Leave
    \/ \E a \in Attempts :
         \/ PayButton(a) \/ PayEnter(a) \/ TimerFires(a)
         \/ CreateAnswered(a) \/ CreateFails(a)
         \/ PayAnswered(a) \/ ConnectionLost(a)
    \/ Services

PosSpec == PosInit /\ [][PosNext]_posVars

\* Calls come to an end: every handler's own calls have time-outs, and with a
\* dead service the connection is gone.  Timers fire.
PosFairness ==
    \A a \in Attempts :
        /\ WF_posVars(CreateAnswered(a) \/ CreateFails(a))
        /\ WF_posVars(PayAnswered(a))
        /\ WF_posVars(pc[a] = "gone" /\ ConnectionLost(a))
        /\ WF_posVars(Asked(a) /\ Handle(a) /\ UNCHANGED terminal)
        /\ WF_posVars(TimerFires(a))

PosFairSpec == PosSpec /\ PosFairness

-----------------------------------------------------------------------------
(* Properties                                                              *)

PosTypeOK ==
    /\ stage \in {"scanning", "amount", "success", "error"}
    /\ scanned \in Rows \cup {Nobody}
    /\ paying \in BOOLEAN
    /\ shown \in Attempts \cup {Nobody} /\ autoReset \in Attempts \cup {Nobody}
    /\ timers \subseteq Attempts /\ left \subseteq Attempts /\ overlap \subseteq Attempts
    /\ scan \in Nat
    /\ call \in [Attempts -> {"none", "create", "pay", "paid", "refused", "unknown"}]
    /\ scanOf \in [Attempts -> Nat]

\* A customer who was scanned once is charged once, although every attempt has
\* a session and a token of its own, that core cannot tell for a retry: when a
\* call fails, however late core carries it out, the next needs another scan.
\* Only the Enter key, pressed while a call is under way, charges again.
OneChargePerScan ==
    \A a, b \in Attempts \ overlap :
        scanOf[a] = scanOf[b] /\ Booked(Token(a)) /\ Booked(Token(b)) => a = b

\* The terminal tells the truth about money: what it shows as paid is booked for
\* that very attempt, from the row of the customer in front of it; what it shows
\* as refused is not booked and, unless the answer was lost, never will be.
ScreenTellsTheTruth ==
    /\ stage = "success" =>
         /\ \E x \in txs : x.id = shown /\ x.ref = Token(shown) /\ x.row = Row(shown)
         /\ overlap = {} => Row(shown) = scanned
    /\ \A a \in Attempts :
         call[a] = "refused" => ~ Booked(Token(a)) /\ core[a] \notin {"sent", "checked"}

\* A timer never interrupts the next sale: the only one armed belongs to the
\* success screen that is shown, unless calls overlapped.
NoSaleIsWiped ==
    overlap = {} => \A a \in timers : stage = "success" /\ shown = a

\* The terminal comes back: no call keeps the button disabled for ever, and no
\* success screen stays.
TerminalComesFree == []<>(~ paying /\ stage # "success")
-----------------------------------------------------------------------------
(* The inductive invariant                                                 *)

\* A token is its attempt's own, and what is booked under it is that attempt's.
OwnTokens ==
    /\ \A a \in Attempts : Token(a) = a /\ (pc[a] = "done" => status[a] # 0)
    /\ \A x \in txs : x.ref = Token(x.id) /\ x.row = Row(x.id)

\* What the terminal knows of a call holds in the services.
CallSound ==
    \A a \in Attempts :
        /\ call[a] \in {"none", "create"} => pc[a] = "get" /\ core[a] = "none"
        /\ call[a] = "refused" => core[a] \in {"none", "insufficient"}
        /\ call[a] = "paid" => status[a] = 200
        /\ call[a] = "none" <=> scanOf[a] = 0
        /\ scanOf[a] <= scan

\* The button is enabled for a customer nobody has charged yet.
ScanSound ==
    /\ stage = "amount" => scan > 0
    /\ stage = "amount" /\ ~ paying => \A a \in Attempts : scanOf[a] # scan
    /\ \A a, b \in Attempts \ overlap : scanOf[a] = scanOf[b] /\ scanOf[a] # 0 => a = b

\* Without overlaps one call at most is under way for the page shown, and the
\* timer armed is the one of the success screen shown.
ScreenSound ==
    /\ stage = "success" => shown \in Attempts /\ call[shown] = "paid"
    /\ overlap = {} =>
         /\ \A a \in Attempts \ left : Calling(a) =>
              /\ stage = "amount" /\ paying /\ Row(a) = scanned
              /\ \A b \in Attempts \ left : Calling(b) => b = a
         /\ \A a \in timers : stage = "success" /\ shown = a /\ autoReset = a
         /\ stage = "success" => Row(shown) = scanned

\* What TerminalComesFree rests on: somebody is still there to take the terminal
\* out of where it is.  The button is disabled only while a call is under way
\* whose answer enables it, and a success screen has its timer, even where calls
\* overlap, the page is left or one answer covers another.
NeverStuck ==
    /\ paying => \E a \in Attempts \ left : Calling(a)
    /\ stage = "success" => shown \in timers
    /\ \A a \in left : Calling(a)

PosIInv ==
    /\ PosTypeOK
    /\ OwnTokens
    /\ CallSound
    /\ ScanSound
    /\ ScreenSound
    /\ NeverStuck
=============================================================================
