------------------------- MODULE AtomicLedgerProofs -------------------------
(***************************************************************************)
(* What every system that moves the books by AtomicLedger's payments and   *)
(* deposits inherits: its balances are accounted for, record by record.    *)
(* The modules of those systems' proofs instantiate this one.              *)
(***************************************************************************)
EXTENDS AtomicLedger, FiniteSetTheorems, TLAPS

\* A sum of amounts grows by the amount of a record it did not have.
LEMMA TotalOfOneMore ==
    ASSUME NEW T, NEW t, t \notin T, t.amount \in Nat, IsFiniteSet(Coins(T))
    PROVE  /\ IsFiniteSet(Coins(T \cup {t}))
           /\ Total(T) \in Nat
           /\ Total(T \cup {t}) = Total(T) + t.amount
<1> DEFINE own == {t} \X (1 .. t.amount)
<1>1. Coins(T \cup {t}) = Coins(T) \cup own
  BY DEF Coins
<1>2. Coins(T) \cap own = {}
  BY DEF Coins
<1>3. IsFiniteSet({t}) /\ Cardinality({t}) = 1
  BY FS_Singleton
<1>4. IsFiniteSet(1 .. t.amount) /\ Cardinality(1 .. t.amount) = t.amount
  BY FS_Interval
<1>5. IsFiniteSet(own) /\ Cardinality(own) = t.amount
  <2>1. /\ IsFiniteSet(own)
        /\ Cardinality(own) = Cardinality({t}) * Cardinality(1 .. t.amount)
    BY <1>3, <1>4, FS_Product, Zenon
  <2>2. QED BY <1>3, <1>4, <2>1
<1>6. Cardinality(Coins(T)) \in Nat /\ Cardinality({}) = 0
  BY FS_CardinalityType, FS_EmptySet
<1> HIDE DEF own
<1>7. /\ IsFiniteSet(Coins(T) \cup own)
      /\ Cardinality(Coins(T) \cup own) =
           Cardinality(Coins(T)) + Cardinality(own) - Cardinality(Coins(T) \cap own)
  BY <1>5, FS_Union, Zenon
<1>8. Cardinality(Coins(T) \cap own) = 0
  BY <1>2, <1>6, Zenon
<1>9. Cardinality(Coins(T) \cup own) = Cardinality(Coins(T)) + t.amount
  BY <1>5, <1>6, <1>7, <1>8
<1>10. QED
  BY <1>1, <1>6, <1>7, <1>9, Zenon DEF Total

\* A balance is what the row opened with and was credited, less what it was
\* charged, and the sums that say so make sense.
Balanced ==
    \A row \in Rows :
        balance[row] = OpeningBalance[row] + Total(CreditsOf(row)) - Total(ChargesOf(row))

Accounted ==
    /\ OpeningBalance \in [Rows -> Int]
    /\ balance \in [Rows -> Int]
    /\ \A row \in Rows :
         IsFiniteSet(Coins(CreditsOf(row))) /\ IsFiniteSet(Coins(ChargesOf(row)))
    /\ Balanced

LEMMA InitAccounted ==
    ASSUME OpeningBalance \in [Rows -> Int], Init PROVE Accounted
<1>1. \A row : CreditsOf(row) = {} /\ ChargesOf(row) = {}
  BY DEF Init, CreditsOf, ChargesOf
<1>2. Coins({}) = {}
  BY DEF Coins
<1>3. IsFiniteSet(Coins({})) /\ Total({}) = 0
  BY <1>2, FS_EmptySet DEF Total
<1>4. ASSUME NEW row \in Rows
      PROVE  balance[row] = OpeningBalance[row] + Total(CreditsOf(row))
                              - Total(ChargesOf(row))
  <2>1. Total(CreditsOf(row)) = 0 /\ Total(ChargesOf(row)) = 0
    BY <1>1, <1>3
  <2>2. balance[row] = OpeningBalance[row] /\ OpeningBalance[row] \in Int
    BY DEF Init
  <2> QED
    BY <2>1, <2>2
<1> QED
  BY <1>1, <1>3, <1>4 DEF Init, Accounted, Balanced

\* A payment books on its row what it takes from it.
LEMMA PayAccounted ==
    ASSUME Accounted, NEW id, NEW row \in Rows, NEW token, NEW amount \in Nat,
           Pay(id, row, token, amount)
    PROVE  Accounted'
<1> DEFINE t == [id |-> id, kind |-> "PAYMENT", ref |-> token, row |-> row,
                 amount |-> amount]
<1>1. /\ t \notin txs /\ txs' = txs \cup {t} /\ deposits' = deposits
      /\ t.kind = "PAYMENT" /\ t.row = row /\ t.amount = amount
      /\ balance' = [balance EXCEPT ![row] = balance[row] - amount]
  BY DEF Pay
<1> HIDE DEF t
<1>2. \A r : CreditsOf(r)' = CreditsOf(r)
  BY <1>1 DEF CreditsOf
<1>3. \A r : ChargesOf(r)' = IF r = row THEN ChargesOf(r) \cup {t} ELSE ChargesOf(r)
  BY <1>1 DEF ChargesOf
<1>4. t \notin ChargesOf(row)
  BY <1>1 DEF ChargesOf
<1>5. /\ IsFiniteSet(Coins(ChargesOf(row) \cup {t}))
      /\ Total(ChargesOf(row)) \in Nat
      /\ Total(ChargesOf(row) \cup {t}) = Total(ChargesOf(row)) + amount
  BY <1>1, <1>4, TotalOfOneMore DEF Accounted
<1>6. ASSUME NEW r \in Rows
      PROVE  /\ IsFiniteSet(Coins(CreditsOf(r)')) /\ IsFiniteSet(Coins(ChargesOf(r)'))
             /\ balance'[r] = OpeningBalance[r] + Total(CreditsOf(r)')
                                - Total(ChargesOf(r)')
  <2>1. IsFiniteSet(Coins(CreditsOf(r)')) /\ IsFiniteSet(Coins(ChargesOf(r)'))
    BY <1>2, <1>3, <1>5 DEF Accounted
  <2>2. Total(CreditsOf(r)') = Total(CreditsOf(r))
    BY <1>2
  <2>3. /\ OpeningBalance[r] \in Int /\ balance[r] \in Int
        /\ Total(CreditsOf(r)) \in Nat /\ Total(ChargesOf(r)) \in Nat
    BY FS_CardinalityType DEF Accounted, Total
  <2>4. balance[r] = OpeningBalance[r] + Total(CreditsOf(r)) - Total(ChargesOf(r))
    BY DEF Accounted, Balanced
  <2>5. CASE r = row
    <3>1. balance'[r] = balance[r] - amount
      BY <1>1, <2>5 DEF Accounted
    <3>2. Total(ChargesOf(r)') = Total(ChargesOf(r)) + amount
      BY <1>3, <1>5, <2>5
    <3> QED
      BY <2>1, <2>2, <2>3, <2>4, <3>1, <3>2
  <2>6. CASE r # row
    <3>1. balance'[r] = balance[r]
      BY <1>1, <2>6 DEF Accounted
    <3>2. Total(ChargesOf(r)') = Total(ChargesOf(r))
      BY <1>3, <2>6
    <3> QED
      BY <2>1, <2>2, <2>4, <3>1, <3>2
  <2> QED
    BY <2>5, <2>6
<1>7. balance' \in [Rows -> Int]
  BY <1>1 DEF Accounted
<1>8. Balanced'
  BY <1>6 DEF Balanced, Total, Coins
<1> QED
  BY <1>6, <1>7, <1>8 DEF Accounted, Coins

\* A deposit books on its row what it adds to it.
LEMMA DepositAccounted ==
    ASSUME Accounted, NEW id, NEW row \in Rows, NEW key, NEW amount \in Nat,
           Deposit(id, row, key, amount)
    PROVE  Accounted'
<1> DEFINE d == [id |-> id, key |-> key, row |-> row, amount |-> amount,
                 credited |-> TRUE]
           t == [id |-> id, kind |-> "DEPOSIT", ref |-> DepositRef(key), row |-> row,
                 amount |-> amount]
<1>1. /\ d \notin deposits /\ deposits' = deposits \cup {d}
      /\ d.row = row /\ d.amount = amount
      /\ txs' = txs \cup {t} /\ t.kind = "DEPOSIT"
      /\ balance' = [balance EXCEPT ![row] = balance[row] + amount]
  BY DEF Deposit
<1> HIDE DEF d, t
<1>2. \A r : ChargesOf(r)' = ChargesOf(r)
  BY <1>1 DEF ChargesOf
<1>3. \A r : CreditsOf(r)' = IF r = row THEN CreditsOf(r) \cup {d} ELSE CreditsOf(r)
  BY <1>1 DEF CreditsOf
<1>4. d \notin CreditsOf(row)
  BY <1>1 DEF CreditsOf
<1>5. /\ IsFiniteSet(Coins(CreditsOf(row) \cup {d}))
      /\ Total(CreditsOf(row)) \in Nat
      /\ Total(CreditsOf(row) \cup {d}) = Total(CreditsOf(row)) + amount
  BY <1>1, <1>4, TotalOfOneMore DEF Accounted
<1>6. ASSUME NEW r \in Rows
      PROVE  /\ IsFiniteSet(Coins(CreditsOf(r)')) /\ IsFiniteSet(Coins(ChargesOf(r)'))
             /\ balance'[r] = OpeningBalance[r] + Total(CreditsOf(r)')
                                - Total(ChargesOf(r)')
  <2>1. IsFiniteSet(Coins(CreditsOf(r)')) /\ IsFiniteSet(Coins(ChargesOf(r)'))
    BY <1>2, <1>3, <1>5 DEF Accounted
  <2>2. Total(ChargesOf(r)') = Total(ChargesOf(r))
    BY <1>2
  <2>3. /\ OpeningBalance[r] \in Int /\ balance[r] \in Int
        /\ Total(CreditsOf(r)) \in Nat /\ Total(ChargesOf(r)) \in Nat
    BY FS_CardinalityType DEF Accounted, Total
  <2>4. balance[r] = OpeningBalance[r] + Total(CreditsOf(r)) - Total(ChargesOf(r))
    BY DEF Accounted, Balanced
  <2>5. CASE r = row
    <3>1. balance'[r] = balance[r] + amount
      BY <1>1, <2>5 DEF Accounted
    <3>2. Total(CreditsOf(r)') = Total(CreditsOf(r)) + amount
      BY <1>3, <1>5, <2>5
    <3> QED
      BY <2>1, <2>2, <2>3, <2>4, <3>1, <3>2
  <2>6. CASE r # row
    <3>1. balance'[r] = balance[r]
      BY <1>1, <2>6 DEF Accounted
    <3>2. Total(CreditsOf(r)') = Total(CreditsOf(r))
      BY <1>3, <2>6
    <3> QED
      BY <2>1, <2>2, <2>4, <3>1, <3>2
  <2> QED
    BY <2>5, <2>6
<1>7. balance' \in [Rows -> Int]
  BY <1>1 DEF Accounted
<1>8. Balanced'
  BY <1>6 DEF Balanced, Total, Coins
<1> QED
  BY <1>6, <1>7, <1>8 DEF Accounted, Coins

LEMMA StepAccounted ==
    ASSUME Amounts \subseteq Nat, Accounted, [PayStep \/ DepositStep]_books
    PROVE  Accounted'
<1>1. CASE PayStep
  BY <1>1, PayAccounted DEF PayStep
<1>2. CASE DepositStep
  BY <1>2, DepositAccounted DEF DepositStep
<1>3. CASE UNCHANGED books
  BY <1>3 DEF books, Accounted, Balanced, CreditsOf, ChargesOf
<1> QED
  BY <1>1, <1>2, <1>3

\* Nothing sums up to nothing.
LEMMA TotalOfNone == Total({}) = 0
<1>1. Coins({}) = {}
  BY DEF Coins
<1> QED
  BY <1>1, FS_EmptySet DEF Total

LEMMA SumsAreNumbers ==
    ASSUME Accounted, NEW row \in Rows
    PROVE  /\ OpeningBalance[row] \in Int
           /\ Total(CreditsOf(row)) \in Nat /\ Total(ChargesOf(row)) \in Nat
BY FS_CardinalityType DEF Accounted, Total

-----------------------------------------------------------------------------
(* The theorems                                                            *)

\* Where the books move by deposits only, every balance is what the row opened
\* with and was credited.
THEOREM DepositsAddUp ==
    ASSUME Amounts \subseteq Nat, OpeningBalance \in [Rows -> Int]
    PROVE  DepositsOnly => [](Accounted /\ CreditsAddUp)
<1> DEFINE NoPayments == \A t \in txs : t.kind = "DEPOSIT"
<1>1. Init => Accounted /\ NoPayments
  BY InitAccounted DEF Init
<1>2. Accounted /\ NoPayments /\ [DepositStep]_books => (Accounted /\ NoPayments)'
  BY StepAccounted DEF DepositStep, Deposit, books
<1>3. Accounted /\ NoPayments => CreditsAddUp
  <2> SUFFICES ASSUME Accounted, NoPayments, NEW row \in Rows
               PROVE  balance[row] = OpeningBalance[row] + Total(CreditsOf(row))
    BY DEF CreditsAddUp
  <2>1. ChargesOf(row) = {}
    BY DEF ChargesOf
  <2> QED
    BY <2>1, TotalOfNone, SumsAreNumbers DEF Accounted, Balanced
<1> QED
  BY <1>1, <1>2, <1>3, PTL DEF DepositsOnly

\* Where they move by payments only, it is what the row opened with less what it
\* was charged.
THEOREM PaymentsAddUp ==
    ASSUME Amounts \subseteq Nat, OpeningBalance \in [Rows -> Int]
    PROVE  PaymentsOnly => [](Accounted /\ ChargesAddUp)
<1> DEFINE NoDeposits == deposits = {}
<1>1. Init => Accounted /\ NoDeposits
  BY InitAccounted DEF Init
<1>2. Accounted /\ NoDeposits /\ [PayStep]_books => (Accounted /\ NoDeposits)'
  BY StepAccounted DEF PayStep, Pay, books
<1>3. Accounted /\ NoDeposits => ChargesAddUp
  <2> SUFFICES ASSUME Accounted, NoDeposits, NEW row \in Rows
               PROVE  balance[row] = OpeningBalance[row] - Total(ChargesOf(row))
    BY DEF ChargesAddUp
  <2>1. CreditsOf(row) = {}
    BY DEF CreditsOf
  <2> QED
    BY <2>1, TotalOfNone, SumsAreNumbers DEF Accounted, Balanced
<1> QED
  BY <1>1, <1>2, <1>3, PTL DEF PaymentsOnly
=============================================================================
