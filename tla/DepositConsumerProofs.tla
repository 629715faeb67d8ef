------------------------ MODULE DepositConsumerProofs ------------------------
(***************************************************************************)
(* Theorems about DepositConsumer, for every number of consumers,          *)
(* rebalances, failures and messages.                                      *)
(***************************************************************************)
EXTENDS DepositConsumer, FiniteSetTheorems, TLAPS

\* The message a consumer works on is one of the log's.
LEMMA HeldMessage ==
    ASSUME TypeOK, NEW c \in Consumers, stage[c] # "poll"
    PROVE  held[c] \in 1..Len(log) /\ Msg(c) \in Messages
<1>1. held[c] \in 1..Len(log)
  BY DEF TypeOK
<1> QED
  BY <1>1 DEF TypeOK, Msg

\* What is dealt with stays so: the log, the books and the failures only grow.
LEMMA StaysCovered ==
    ASSUME log \in Seq(Messages), NEW m,
           log' = log \/ log' = Append(log, m),
           deposits \subseteq deposits', failed \subseteq failed',
           NEW o \in 1..Len(log)
    PROVE  /\ Settled(o) => Settled(o)'
           /\ Covered(o) => Covered(o)'
<1>1. log'[o] = log[o]
  OBVIOUS
<1>2. Settled(o) => Settled(o)'
  BY <1>1 DEF Settled, Booked
<1> QED
  BY <1>2 DEF Covered

\* What was booked in order stays so, when nothing is booked but a message some
\* consumer holds.
LEMMA OrderKept ==
    ASSUME IInv, NEW m, log' = log \/ log' = Append(log, m),
           deposits \subseteq deposits', failed \subseteq failed',
           NEW c \in Consumers, stage[c] # "poll" \/ deposits' = deposits,
           \A d \in deposits' : d \in deposits \/ d.id = held[c]
    PROVE  CreditedInOrder'
<1>1. /\ log \in Seq(Messages) /\ Len(log) \in Nat
      /\ stage[c] # "poll" => held[c] \in 1..Len(log)
  BY DEF IInv, TypeOK
<1>2. ASSUME NEW d \in deposits', NEW o \in 1..(d.id - 1)
      PROVE  Covered(o)'
  <2>1. CASE d \in deposits
    <3>1. d.id \in 1..Len(log) /\ Covered(o)
      BY <1>2, <2>1 DEF IInv, BookedFromLog, CreditedInOrder
    <3>2. o \in 1..Len(log)
      BY <1>1, <3>1
    <3> QED
      BY <1>1, <3>1, <3>2, StaysCovered
  <2>2. CASE d \notin deposits
    <3>1. d.id = held[c] /\ stage[c] # "poll"
      BY <2>2
    <3>2. Covered(o)
      BY <1>2, <3>1 DEF IInv, PositionsCovered
    <3>3. o \in 1..Len(log)
      BY <1>1, <3>1
    <3> QED
      BY <1>1, <3>2, <3>3, StaysCovered
  <2> QED
    BY <2>1, <2>2
<1> QED
  BY <1>2 DEF CreditedInOrder

\* A credit of the held message books what the log says, and settles the
\* message.
LEMMA CreditBooksMessage ==
    ASSUME IInv, NEW c \in Consumers, stage[c] = "process",
           NEW o, o = held[c], ~Settled(o), CreditHeld(c), log' = log
    PROVE  /\ balance' \in [Rows -> Nat]
           /\ deposits \subseteq deposits'
           /\ BookedFromLog'
           /\ Settled(o)'
           /\ \A d \in deposits' : d \in deposits \/ d.id = held[c]
<1> DEFINE m == Msg(c)
<1>1. /\ TypeOK /\ BookedFromLog
      /\ held[c] \in 1..Len(log) /\ m \in Messages /\ m = log[held[c]]
  BY HeldMessage DEF IInv, Msg
<1>2. /\ m.to \in Rows /\ m.key \in DepositKeys /\ m.amount \in Amounts
      /\ m.kind = "deposit"
  BY <1>1 DEF Settled, Skipped, Messages, CreditHeld
<1>3. Books!Deposit(held[c], m.to, m.key, m.amount)
  BY DEF CreditHeld
<1> DEFINE new == [id |-> held[c], key |-> m.key, row |-> m.to,
                   amount |-> m.amount, credited |-> TRUE]
<1>4. deposits' = deposits \cup {new} /\ \A d \in deposits : d.key # m.key
  BY <1>3 DEF Books!Deposit
<1>5. balance' = [balance EXCEPT ![m.to] = balance[m.to] + m.amount]
  BY <1>3 DEF Books!Deposit
<1>6. balance' \in [Rows -> Nat]
  <2>1. m.amount \in Nat /\ balance \in [Rows -> Nat]
    BY <1>1, <1>2, DepositAssumption DEF TypeOK
  <2> HIDE DEF m
  <2> QED
    BY <1>2, <1>5, <2>1
<1>7. BookedFromLog'
  <2>1. m = [kind |-> "deposit", key |-> m.key, to |-> m.to, amount |-> m.amount]
    BY <1>1, <1>2 DEF Messages
  <2>2. /\ new.id = held[c] /\ new.key = m.key
        /\ new.row = m.to /\ new.amount = m.amount
    OBVIOUS
  <2> HIDE DEF m, new
  <2>3. ASSUME NEW d \in deposits'
        PROVE  /\ d.id \in 1..Len(log) /\ d.row \in Rows
               /\ log[d.id] = [kind |-> "deposit", key |-> d.key, to |-> d.row,
                               amount |-> d.amount]
    <3>1. CASE d \in deposits
      BY <1>1, <3>1 DEF BookedFromLog
    <3>2. CASE d = new
      BY <1>1, <1>2, <2>1, <2>2, <3>2
    <3> QED
      BY <1>4, <2>3, <3>1, <3>2
  <2>4. ASSUME NEW d \in deposits', NEW e \in deposits', d.key = e.key
        PROVE  d = e
    BY <1>1, <1>4, <2>2, <2>4 DEF BookedFromLog
  <2> QED
    BY <2>3, <2>4 DEF BookedFromLog
<1>8. Settled(o)'
  <2>1. new \in deposits' /\ new.key = log'[o].key
    BY <1>1, <1>4
  <2> QED
    BY <2>1 DEF Settled, Booked
<1>9. \A d \in deposits' : d \in deposits \/ d.id = held[c]
  BY <1>4
<1> QED
  BY <1>4, <1>6, <1>7, <1>8, <1>9

-----------------------------------------------------------------------------
(* The invariant                                                           *)

LEMMA InitInvariant == Init => IInv
<1> SUFFICES ASSUME Init PROVE IInv
  OBVIOUS
<1> USE DEF Init, GroupInit, Books!Init
<1>1. TypeOK
  BY DepositAssumption DEF TypeOK, GroupTypeOK
<1>2. /\ committed <= Len(log) + 1 /\ NothingSkipped
      /\ PositionsCovered /\ BookedFromLog /\ CreditedInOrder
  BY DEF NothingSkipped, PositionsCovered, BookedFromLog, CreditedInOrder
<1> QED
  BY <1>1, <1>2 DEF IInv

LEMMA DetectKeeps ==
    ASSUME IInv, NEW m \in Messages, Detect(m) PROVE IInv'
<1> USE DEF Detect, group, loops, books
<1>1. /\ log \in Seq(Messages) /\ log' \in Seq(Messages)
      /\ Len(log') = Len(log) + 1 /\ Len(log) \in Nat
      /\ \A o \in 1..Len(log) : log'[o] = log[o]
  BY DEF IInv, TypeOK
<1>2. TypeOK'
  BY <1>1, DepositAssumption DEF IInv, TypeOK, GroupTypeOK
<1>3. \A o \in 1..Len(log) : (Settled(o) => Settled(o)') /\ (Covered(o) => Covered(o)')
  BY <1>1, StaysCovered
<1>4. (committed <= Len(log) + 1)'
  BY <1>1 DEF IInv, TypeOK, GroupTypeOK
<1>5. NothingSkipped'
  BY <1>1, <1>3 DEF IInv, TypeOK, GroupTypeOK, NothingSkipped, Covered
<1>6. PositionsCovered'
  <2> SUFFICES ASSUME NEW c \in Consumers
      PROVE  /\ position[c] <= Len(log') + 1
             /\ owner = c => \A o \in 1..(position[c] - 1) : Covered(o)' \/ o = held[c]
             /\ stage[c] # "poll" => \A o \in 1..(held[c] - 1) : Covered(o)'
             /\ stage[c] = "commit" => Settled(held[c])'
    BY DEF PositionsCovered
  <2>1. /\ position[c] \in Nat /\ position[c] <= Len(log) + 1
        /\ stage[c] # "poll" => held[c] \in 1..Len(log)
    BY DEF IInv, TypeOK, GroupTypeOK, PositionsCovered
  <2>2. owner = c => \A o \in 1..(position[c] - 1) : Covered(o)' \/ o = held[c]
    BY <1>1, <1>3, <2>1 DEF IInv, PositionsCovered
  <2>3. stage[c] # "poll" => \A o \in 1..(held[c] - 1) : Covered(o)'
    BY <1>1, <1>3, <2>1 DEF IInv, PositionsCovered
  <2>4. stage[c] = "commit" => Settled(held[c])'
    <3>1. held' = held
      OBVIOUS
    <3>2. stage[c] = "commit" => held[c] \in 1..Len(log) /\ Settled(held[c])
      BY <2>1 DEF IInv, PositionsCovered
    <3>3. ASSUME NEW o, o = held[c], stage[c] = "commit" PROVE Settled(o)'
      BY <1>3, <3>2, <3>3
    <3> QED
      BY <3>1, <3>3 DEF Settled, Booked
  <2> QED
    BY <1>1, <2>1, <2>2, <2>3, <2>4
<1>7. BookedFromLog'
  <2>1. deposits' = deposits
    OBVIOUS
  <2>2. ASSUME NEW d \in deposits
        PROVE  /\ d.id \in 1..Len(log') /\ log'[d.id] = log[d.id]
               /\ d.row \in Rows
               /\ log[d.id] = [kind |-> "deposit", key |-> d.key, to |-> d.row,
                               amount |-> d.amount]
               /\ \A e \in deposits : d.key = e.key => d = e
    BY <1>1 DEF IInv, BookedFromLog
  <2> QED
    BY <2>1, <2>2 DEF BookedFromLog
<1>8. CreditedInOrder'
  <2> SUFFICES ASSUME NEW d \in deposits, NEW o \in 1..(d.id - 1) PROVE Covered(o)'
    BY DEF CreditedInOrder
  <2>1. d.id \in 1..Len(log) /\ Covered(o)
    BY DEF IInv, BookedFromLog, CreditedInOrder
  <2> QED
    BY <1>1, <1>3, <2>1
<1> QED
  BY <1>2, <1>4, <1>5, <1>6, <1>7, <1>8 DEF IInv

\* Steps that only move the group.
LEMMA AssignKeeps ==
    ASSUME IInv, NEW c \in Consumers, Assign(c),
           UNCHANGED <<log, books, failed>>, faults' \in 0..MaxFaults
    PROVE  IInv'
<1> USE DEF Assign, books
<1>1. TypeOK'
  BY DEF IInv, TypeOK, GroupTypeOK
<1>2. \A o : Settled(o)' = Settled(o) /\ Covered(o)' = Covered(o)
  BY DEF Settled, Covered, Booked
<1>3. /\ NothingSkipped' /\ BookedFromLog' /\ (committed <= Len(log) + 1)'
      /\ CreditedInOrder'
  BY DEF IInv, NothingSkipped, BookedFromLog, CreditedInOrder, Covered, Settled, Booked
<1>4. PositionsCovered'
  BY <1>2 DEF IInv, TypeOK, GroupTypeOK, PositionsCovered, NothingSkipped, Covered
<1> QED
  BY <1>1, <1>3, <1>4 DEF IInv

LEMMA ReadKeeps ==
    ASSUME IInv, NEW c \in Consumers, Read(c) PROVE IInv'
<1> USE DEF Read, ReadMessage, books
<1>0. /\ position \in [Consumers -> Nat \ {0}] /\ held \in [Consumers -> Nat]
      /\ stage \in [Consumers -> {"poll", "process", "commit"}]
      /\ Len(log) \in Nat /\ committed \in Nat /\ held[c] = 0
  BY DEF IInv, TypeOK, GroupTypeOK
<1>1. TypeOK'
  BY <1>0 DEF IInv, TypeOK, GroupTypeOK
<1>2. \A o : Settled(o)' = Settled(o) /\ Covered(o)' = Covered(o)
  BY DEF Settled, Covered, Booked
<1>3. /\ NothingSkipped' /\ BookedFromLog' /\ (committed <= Len(log) + 1)'
      /\ CreditedInOrder'
  BY DEF IInv, NothingSkipped, BookedFromLog, CreditedInOrder, Covered, Settled, Booked
<1>4. PositionsCovered'
  BY <1>0, <1>2 DEF IInv, PositionsCovered
<1> QED
  BY <1>1, <1>3, <1>4 DEF IInv

\* processMessage returned nil.
LEMMA ProcessKeeps ==
    ASSUME IInv, NEW c \in Consumers, Process(c)
    PROVE  IInv'
<1> USE DEF Process, ToCommit
<1>1. /\ GroupTypeOK /\ log \in Seq(Messages) /\ Len(log) \in Nat
      /\ held[c] \in 1..Len(log)
  BY DEF IInv, TypeOK
<1>2. /\ balance' \in [Rows -> Nat] /\ deposits \subseteq deposits'
      /\ BookedFromLog' /\ Settled(held[c])'
      /\ \A d \in deposits' : d \in deposits \/ d.id = held[c]
  <2> DEFINE o == held[c]
  <2>1. CASE Settled(o)
    BY <2>1 DEF IInv, TypeOK, BookedFromLog, Settled, Booked, books
  <2>2. CASE ~Settled(o)
    <3>1. CreditHeld(c) /\ stage[c] = "process" /\ log' = log
      BY <2>2
    <3>2. /\ balance' \in [Rows -> Nat] /\ deposits \subseteq deposits'
          /\ BookedFromLog' /\ \A d \in deposits' : d \in deposits \/ d.id = held[c]
      BY <2>2, <3>1, CreditBooksMessage
    <3>3. ASSUME NEW q, q = held[c] PROVE Settled(q)'
      BY <2>2, <3>1, <3>3, CreditBooksMessage
    <3> QED
      BY <3>2, <3>3 DEF Settled, Booked
  <2> QED
    BY <2>1, <2>2
<1>3. TypeOK'
  BY <1>1, <1>2 DEF IInv, TypeOK, GroupTypeOK
<1>4. \A o \in 1..Len(log) : (Settled(o) => Settled(o)') /\ (Covered(o) => Covered(o)')
  BY <1>1, <1>2, StaysCovered
<1>5. NothingSkipped' /\ (committed <= Len(log) + 1)'
  BY <1>1, <1>4 DEF IInv, NothingSkipped, Covered, GroupTypeOK
<1>6. PositionsCovered'
  <2> SUFFICES ASSUME NEW d \in Consumers
      PROVE  /\ position[d] <= Len(log) + 1
             /\ owner = d => \A o \in 1..(position[d] - 1) : Covered(o)' \/ o = held[d]
             /\ stage'[d] # "poll" => \A o \in 1..(held[d] - 1) : Covered(o)'
             /\ stage'[d] = "commit" => Settled(held[d])'
    BY DEF PositionsCovered
  <2>1. /\ position[d] \in Nat /\ position[d] <= Len(log) + 1
        /\ stage[d] # "poll" => held[d] \in 1..Len(log)
        /\ stage'[d] = IF d = c THEN "commit" ELSE stage[d]
    BY DEF IInv, TypeOK, GroupTypeOK, PositionsCovered
  <2>2. owner = d => \A o \in 1..(position[d] - 1) : Covered(o)' \/ o = held[d]
    BY <1>1, <1>4, <2>1 DEF IInv, PositionsCovered
  <2>3. stage'[d] # "poll" => \A o \in 1..(held[d] - 1) : Covered(o)'
    BY <1>1, <1>4, <2>1 DEF IInv, PositionsCovered
  <2>4. stage'[d] = "commit" => Settled(held[d])'
    <3>1. CASE d = c
      BY <1>2, <3>1
    <3>2. CASE d # c
      <4>1. ASSUME NEW o, o = held[d], stage[d] = "commit" PROVE Settled(o)'
        BY <1>4, <2>1, <4>1 DEF IInv, PositionsCovered
      <4> QED
        BY <2>1, <3>2, <4>1 DEF Settled, Booked
    <3> QED
      BY <3>1, <3>2
  <2> QED
    BY <2>1, <2>2, <2>3, <2>4
<1>7. CreditedInOrder'
  BY <1>1, <1>2, OrderKept
<1> QED
  BY <1>2, <1>3, <1>5, <1>6, <1>7 DEF IInv

\* A consumer goes back to polling.  What it held is covered now, or it gives
\* the partition up.
LEMMA BackToPollKeeps ==
    ASSUME IInv, NEW c \in Consumers, BackToPoll(c), log' = log,
           balance' \in [Rows -> Nat], deposits \subseteq deposits', BookedFromLog',
           \A d \in deposits' : d \in deposits \/ d.id = held[c],
           stage[c] # "poll" \/ deposits' = deposits,
           failed \subseteq failed', failed' \subseteq 1..Len(log),
           faults' \in 0..MaxFaults,
           committed' = committed \/ (stage[c] = "commit" /\ committed' = held[c] + 1),
           owner' \in {owner, NoConsumer},
           owner' = c => stage[c] # "poll" /\ \A o \in Nat : o = held[c] => Covered(o)'
    PROVE  IInv'
<1> USE DEF BackToPoll
<1>1. /\ GroupTypeOK /\ log \in Seq(Messages) /\ Len(log) \in Nat
      /\ stage[c] # "poll" => held[c] \in 1..Len(log)
  BY DEF IInv, TypeOK
<1>2. \A o \in 1..Len(log) : (Settled(o) => Settled(o)') /\ (Covered(o) => Covered(o)')
  BY <1>1, StaysCovered
<1>3. TypeOK'
  BY <1>1 DEF IInv, TypeOK, GroupTypeOK
<1>4. NothingSkipped' /\ (committed <= Len(log) + 1)'
  <2>1. CASE committed' = committed
    BY <1>1, <1>2, <2>1 DEF IInv, NothingSkipped, Covered, GroupTypeOK
  <2>2. CASE stage[c] = "commit" /\ committed' = held[c] + 1
    <3>1. Settled(held[c]) /\ \A o \in 1..(held[c] - 1) : Covered(o)
      BY <2>2 DEF IInv, PositionsCovered
    <3>2. \A o \in 1..held[c] : Covered(o)
      BY <1>1, <2>2, <3>1 DEF Covered
    <3>3. \A o \in 1..held[c] : Covered(o)'
      BY <1>1, <1>2, <2>2, <3>2
    <3>4. /\ 1..(committed' - 1) = 1..held[c]
          /\ committed' <= Len(log) + 1
      BY <1>1, <2>2
    <3> QED
      BY <3>3, <3>4 DEF NothingSkipped, Covered
  <2> QED
    BY <2>1, <2>2
<1>5. PositionsCovered'
  <2> SUFFICES ASSUME NEW d \in Consumers
      PROVE  /\ position[d] <= Len(log) + 1
             /\ owner' = d => \A o \in 1..(position[d] - 1) : Covered(o)' \/ o = held'[d]
             /\ stage'[d] # "poll" => \A o \in 1..(held'[d] - 1) : Covered(o)'
             /\ stage'[d] = "commit" => Settled(held[d])'
    BY DEF PositionsCovered
  <2>1. /\ position[d] \in Nat /\ position[d] <= Len(log) + 1
        /\ stage[d] # "poll" => held[d] \in 1..Len(log)
        /\ held'[d] = IF d = c THEN 0 ELSE held[d]
        /\ stage'[d] = IF d = c THEN "poll" ELSE stage[d]
        /\ owner' = d => owner = d
    BY <1>1, GroupAssumption DEF IInv, TypeOK, GroupTypeOK, PositionsCovered
  <2>2. owner' = d => \A o \in 1..(position[d] - 1) : Covered(o)' \/ o = held'[d]
    <3>1. ASSUME owner' = d, NEW o \in 1..(position[d] - 1)
          PROVE  Covered(o)' \/ o = held'[d]
      <4>1. /\ o \in 1..Len(log)
            /\ Covered(o) \/ o = held[d]
        BY <1>1, <2>1, <3>1 DEF IInv, PositionsCovered
      <4>2. CASE Covered(o)
        BY <1>2, <4>1, <4>2
      <4>3. CASE o = held[d] /\ d = c
        BY <3>1, <4>1, <4>3
      <4> QED
        BY <2>1, <4>1, <4>2, <4>3
    <3> QED
      BY <3>1
  <2>3. stage'[d] # "poll" => \A o \in 1..(held'[d] - 1) : Covered(o)'
    BY <1>1, <1>2, <2>1 DEF IInv, PositionsCovered
  <2>4. stage'[d] = "commit" => Settled(held[d])'
    <3>1. ASSUME NEW o, o = held[d], stage[d] = "commit" PROVE Settled(o)'
      BY <1>2, <2>1, <3>1 DEF IInv, PositionsCovered
    <3> QED
      BY <2>1, <3>1 DEF Settled, Booked
  <2> QED
    BY <2>1, <2>2, <2>3, <2>4
<1>6. CreditedInOrder'
  BY OrderKept
<1> QED
  BY <1>3, <1>4, <1>5, <1>6 DEF IInv

LEMMA ProcessFailsKeeps ==
    ASSUME IInv, NEW c \in Consumers, ProcessFails(c)
    PROVE  IInv'
<1> USE DEF ProcessFails, GiveUp
<1>1. held[c] \in 1..Len(log) /\ TypeOK
  BY HeldMessage DEF IInv
<1>2. /\ balance' \in [Rows -> Nat] /\ deposits \subseteq deposits' /\ BookedFromLog'
      /\ faults' \in 0..MaxFaults
      /\ \A d \in deposits' : d \in deposits \/ d.id = held[c]
  <2>1. CASE UNCHANGED books /\ (UNCHANGED faults \/ Fault)
    BY <2>1, DepositAssumption DEF IInv, TypeOK, BookedFromLog, books, Fault
  <2>2. CASE Fault /\ ~Settled(held[c]) /\ CreditHeld(c)
    <3>1. faults' \in 0..MaxFaults
      BY <2>2, DepositAssumption DEF Fault, IInv, TypeOK
    <3> DEFINE o == held[c]
    <3>2. stage[c] = "process" /\ log' = log /\ ~Settled(o)
      BY <2>2
    <3> QED
      BY <2>2, <3>1, <3>2, CreditBooksMessage
  <2> QED
    BY <2>1, <2>2
<1>3. /\ failed \subseteq failed' /\ failed' \subseteq 1..Len(log)
      /\ stage[c] # "poll" /\ \A o \in Nat : o = held[c] => Covered(o)'
  BY <1>1 DEF TypeOK, Covered
<1> QED
  BY <1>2, <1>3, BackToPollKeeps

LEMMA CommitKeeps ==
    ASSUME IInv, NEW c \in Consumers, Commit(c) PROVE IInv'
<1> USE DEF Commit, CommitMessage
<1>1. UNCHANGED <<log, books, failed, faults>> /\ owner' = owner /\ stage[c] = "commit"
  OBVIOUS
<1>2. /\ balance' \in [Rows -> Nat] /\ deposits' = deposits /\ BookedFromLog'
      /\ failed' \subseteq 1..Len(log) /\ faults' \in 0..MaxFaults
  BY <1>1 DEF IInv, TypeOK, BookedFromLog, books
<1>3. \A o \in Nat : o = held[c] => Covered(o)'
  BY <1>1 DEF IInv, PositionsCovered, Covered, Settled, Booked, books
<1> QED
  BY <1>1, <1>2, <1>3, BackToPollKeeps

LEMMA CommitLostKeeps ==
    ASSUME IInv, NEW c \in Consumers, CommitLost(c) PROVE IInv'
<1> USE DEF CommitLost, CommitFails, GiveUp
<1>1. UNCHANGED <<log, books, failed, committed, owner>> /\ stage[c] = "commit" /\ Fault
  OBVIOUS
<1>2. /\ balance' \in [Rows -> Nat] /\ deposits' = deposits /\ BookedFromLog'
      /\ failed' \subseteq 1..Len(log) /\ faults' \in 0..MaxFaults
  BY <1>1, DepositAssumption DEF IInv, TypeOK, BookedFromLog, books, Fault
<1>3. \A o \in Nat : o = held[c] => Covered(o)'
  BY <1>1 DEF IInv, PositionsCovered, Covered, Settled, Booked, books
<1> QED
  BY <1>1, <1>2, <1>3, BackToPollKeeps

LEMMA StopKeeps ==
    ASSUME IInv, NEW c \in Consumers, Stop(c) PROVE IInv'
<1> USE DEF Stop, Leave
<1>1. /\ UNCHANGED <<log, books, failed, committed>> /\ Fault
      /\ owner' \in {owner, NoConsumer} /\ owner' # c
  BY GroupAssumption
<1>2. /\ balance' \in [Rows -> Nat] /\ deposits' = deposits /\ BookedFromLog'
      /\ failed' \subseteq 1..Len(log) /\ faults' \in 0..MaxFaults
  BY <1>1, DepositAssumption DEF IInv, TypeOK, BookedFromLog, books, Fault
<1> QED
  BY <1>1, <1>2, BackToPollKeeps

LEMMA NextKeeps == IInv /\ [Next]_vars => IInv'
<1> SUFFICES ASSUME IInv, [Next]_vars PROVE IInv'
  OBVIOUS
<1>1. ASSUME NEW m \in Messages, Detect(m) PROVE IInv'
  BY <1>1, DetectKeeps
<1>2. ASSUME NEW c \in Consumers, Loop(c) PROVE IInv'
  BY <1>2, ReadKeeps, ProcessKeeps, ProcessFailsKeeps, CommitKeeps DEF Loop
<1>3. ASSUME NEW c \in Consumers, CommitLost(c) \/ Stop(c) PROVE IInv'
  BY <1>3, CommitLostKeeps, StopKeeps
<1>4. ASSUME NEW c \in Consumers, Join(c) \/ Rebalance(c) PROVE IInv'
  <2>1. /\ Assign(c) /\ UNCHANGED <<log, books, failed>>
        /\ UNCHANGED faults \/ Fault
    BY <1>4 DEF Join, Rebalance
  <2>2. faults' \in 0..MaxFaults
    BY <2>1, DepositAssumption DEF IInv, TypeOK, Fault
  <2> QED
    BY <2>1, <2>2, AssignKeeps
<1>5. ASSUME UNCHANGED vars PROVE IInv'
  <2> USE <1>5 DEF vars, group, loops, books
  <2>1. TypeOK' /\ (committed <= Len(log) + 1)'
    BY DEF IInv, TypeOK, GroupTypeOK
  <2>2. NothingSkipped' /\ BookedFromLog' /\ CreditedInOrder'
    BY DEF IInv, NothingSkipped, BookedFromLog, CreditedInOrder, Covered, Settled, Booked
  <2>3. PositionsCovered'
    BY DEF IInv, PositionsCovered, Covered, Settled, Booked
  <2> QED
    BY <2>1, <2>2, <2>3 DEF IInv
<1> QED
  BY <1>1, <1>2, <1>3, <1>4, <1>5 DEF Next

-----------------------------------------------------------------------------
(* The theorems                                                            *)

\* The whole invariant: in particular the owner's position never runs ahead of
\* what has been dealt with, has failed, or is in its hands.
THEOREM ConsumerInvariant == Spec => []IInv
<1>1. Init => IInv
  BY InitInvariant
<1>2. IInv /\ [Next]_vars => IInv'
  BY NextKeeps
<1> QED
  BY <1>1, <1>2, PTL DEF Spec

\* No message behind the committed offset was passed over in silence.
THEOREM NothingIsSkipped == Spec => []NothingSkipped
<1>1. IInv => NothingSkipped
  BY DEF IInv
<1> QED
  BY <1>1, ConsumerInvariant, PTL

\* Deposits are booked in the order of the partition, also by a consumer that
\* has lost the partition and finishes what it holds beside the new owner.
THEOREM CreditsFollowTheLog == Spec => []CreditedInOrder
<1>1. IInv => CreditedInOrder
  BY DEF IInv
<1> QED
  BY <1>1, ConsumerInvariant, PTL

\* An owner that has come to the end of the log has dealt with all of it, or
\* has seen it fail: nothing was passed over on the way.
THEOREM NothingLeftBehind == Spec => []IdleMeansAttempted
<1>1. ASSUME IInv, NEW c \in Consumers,
             owner = c, stage[c] = "poll", position[c] > Len(log), NEW o \in 1..Len(log)
      PROVE  Covered(o)
  <2>1. held[c] = 0
    BY <1>1 DEF IInv, TypeOK
  <2>2. o \in 1..(position[c] - 1) /\ o # 0
    BY <1>1 DEF IInv, TypeOK, GroupTypeOK
  <2> QED
    BY <1>1, <2>1, <2>2 DEF IInv, PositionsCovered
<1>2. IInv => IdleMeansAttempted
  BY <1>1 DEF IdleMeansAttempted, CaughtUp
<1> QED
  BY <1>2, ConsumerInvariant, PTL

-----------------------------------------------------------------------------
(* From the log to the balances                                            *)

\* The facts about sums of amounts.
BooksFacts == INSTANCE AtomicLedgerProofs
                WITH Ids <- 1..MaxLog, Tokens <- {},
                     OpeningBalance <- [r \in Rows |-> 0]

\* A sum of amounts grows by the amount of a record it did not have.
LEMMA TotalOfOneMore ==
    ASSUME NEW T, NEW t, t \notin T, t.amount \in Nat, IsFiniteSet(Coins(T))
    PROVE  /\ IsFiniteSet(Coins(T \cup {t}))
           /\ Total(T \cup {t}) = Total(T) + t.amount
<1>1. \A S : /\ BooksFacts!Coins(S) = Coins(S)
            /\ BooksFacts!IsFiniteSet(S) = IsFiniteSet(S)
            /\ BooksFacts!Cardinality(S) = Cardinality(S)
  BY DEF BooksFacts!Coins, Coins, BooksFacts!IsFiniteSet, IsFiniteSet,
         BooksFacts!Cardinality, Cardinality
<1> QED
  BY <1>1, BooksFacts!TotalOfOneMore DEF BooksFacts!Total, Total

\* The messages that have been credited: the set ExactlyOnce speaks of.
CreditedOffsets == {d.id : d \in deposits}

SumsHeld ==
    \A r \in Rows :
        /\ IsFiniteSet(Coins(SentTo(r, CreditedOffsets)))
        /\ balance[r] = Total(SentTo(r, CreditedOffsets))

\* What a step does to the books: nothing, or the credit of a held message that
\* nobody has settled before.
LEMMA StepOnBooks ==
    ASSUME [Next]_vars
    PROVE  \/ UNCHANGED <<balance, deposits, log>>
           \/ UNCHANGED <<balance, deposits>> /\ \E m \in Messages : log' = Append(log, m)
           \/ \E c \in Consumers :
                /\ stage[c] = "process" /\ ~Settled(held[c])
                /\ CreditHeld(c) /\ log' = log
<1>1. ASSUME NEW c \in Consumers, Process(c) \/ ProcessFails(c)
      PROVE  \/ UNCHANGED <<balance, deposits, log>>
             \/ /\ stage[c] = "process" /\ ~Settled(held[c])
                /\ CreditHeld(c) /\ log' = log
  BY <1>1 DEF Process, ProcessFails, books
<1>2. ASSUME NEW c \in Consumers,
             Read(c) \/ Commit(c) \/ CommitLost(c) \/ Stop(c) \/ Join(c) \/ Rebalance(c)
      PROVE  UNCHANGED <<balance, deposits, log>>
  BY <1>2 DEF Read, Commit, CommitLost, Stop, Join, Rebalance, books
<1>3. ASSUME NEW m \in Messages, Detect(m)
      PROVE  UNCHANGED <<balance, deposits>> /\ log' = Append(log, m)
  BY <1>3 DEF Detect, books
<1>4. ASSUME UNCHANGED vars PROVE UNCHANGED <<balance, deposits, log>>
  BY <1>4 DEF vars, books
<1> QED
  BY <1>1, <1>2, <1>3, <1>4 DEF Next, Loop

\* What is booked is what its message says.
LEMMA BookedMessage ==
    ASSUME BookedFromLog, NEW d \in deposits
    PROVE  /\ d.id \in 1..Len(log) /\ d.row \in Rows
           /\ log[d.id].kind = "deposit" /\ log[d.id].to = d.row
           /\ log[d.id].key = d.key
<1>1. log[d.id] = [kind |-> "deposit", key |-> d.key, to |-> d.row,
                   amount |-> d.amount]
  BY DEF BookedFromLog
<1>2. d.id \in 1..Len(log) /\ d.row \in Rows
  BY DEF BookedFromLog
<1> QED
  BY <1>1, <1>2

LEMMA SentToOneMore ==
    ASSUME NEW r, NEW offsets, NEW o, o \notin offsets,
           NEW sent, sent = [offset |-> o, amount |-> log[o].amount]
    PROVE  /\ log[o].to = r => SentTo(r, offsets \cup {o}) = SentTo(r, offsets) \cup {sent}
           /\ log[o].to # r => SentTo(r, offsets \cup {o}) = SentTo(r, offsets)
           /\ sent \notin SentTo(r, offsets)
<1>1. sent \notin SentTo(r, offsets)
  <2> SUFFICES ASSUME NEW p \in offsets, sent = [offset |-> p, amount |-> log[p].amount]
               PROVE  FALSE
    BY DEF SentTo
  <2>1. sent.offset = o /\ sent.offset = p
    OBVIOUS
  <2> QED
    BY <2>1
<1> DEFINE own == {p \in offsets : log[p].to = r}
           all == {p \in offsets \cup {o} : log[p].to = r}
<1>2. CASE log[o].to = r
  <2>1. all = own \cup {o}
    BY <1>2
  <2>2. SentTo(r, offsets) = {[offset |-> p, amount |-> log[p].amount] : p \in own}
    BY DEF SentTo
  <2>3. SentTo(r, offsets \cup {o}) = {[offset |-> p, amount |-> log[p].amount] : p \in all}
    BY DEF SentTo
  <2> HIDE DEF own, all
  <2> QED
    BY <1>1, <1>2, <2>1, <2>2, <2>3
<1>3. CASE log[o].to # r
  <2>1. all = own
    BY <1>3
  <2> QED
    BY <1>1, <1>3, <2>1 DEF SentTo
<1> QED
  BY <1>2, <1>3

\* A credit adds to its row the amount of one message not credited before.
LEMMA CreditAddsOneMessage ==
    ASSUME IInv, SumsHeld, NEW c \in Consumers, stage[c] = "process",
           ~Settled(held[c]), CreditHeld(c), log' = log
    PROVE  SumsHeld'
<1> DEFINE o == held[c]
           m == log[o]
           new == [id |-> o, key |-> m.key, row |-> m.to,
                   amount |-> m.amount, credited |-> TRUE]
           sent == [offset |-> o, amount |-> m.amount]
<1>1. o \in 1..Len(log) /\ m \in Messages /\ TypeOK /\ BookedFromLog
  BY HeldMessage DEF IInv, Msg
<1>2. m.to \in Rows /\ m.amount \in Nat
  BY <1>1, DepositAssumption DEF Settled, Skipped, Messages, CreditHeld, Msg
<1>3. /\ deposits' = deposits \cup {new} /\ \A d \in deposits : d.key # m.key
      /\ balance' = [balance EXCEPT ![m.to] = balance[m.to] + m.amount]
  BY DEF CreditHeld, Books!Deposit, Msg
<1>4. o \notin CreditedOffsets
  <2> SUFFICES ASSUME NEW d \in deposits, d.id = o PROVE FALSE
    BY DEF CreditedOffsets
  <2>1. m.key = d.key
    BY <1>1, BookedMessage
  <2> QED
    BY <1>3, <2>1
<1>5. CreditedOffsets' = CreditedOffsets \cup {o}
  <2>1. new.id = o
    OBVIOUS
  <2> HIDE DEF o, m, new
  <2> QED
    BY <1>3, <2>1 DEF CreditedOffsets
<1>6. \A r : SentTo(r, CreditedOffsets)' = SentTo(r, CreditedOffsets \cup {o})
  BY <1>5 DEF SentTo
<1>7. sent.amount = m.amount
  OBVIOUS
<1>8. sent = [offset |-> o, amount |-> log[o].amount] /\ log[o].to = m.to
  OBVIOUS
<1> HIDE DEF o, m, new, sent
<1>9. ASSUME NEW r \in Rows
      PROVE  /\ IsFiniteSet(Coins(SentTo(r, CreditedOffsets)'))
             /\ balance'[r] = Total(SentTo(r, CreditedOffsets)')
  <2> DEFINE T == SentTo(r, CreditedOffsets)
             T2 == SentTo(r, CreditedOffsets \cup {o})
  <2>1. /\ IsFiniteSet(Coins(T)) /\ balance[r] = Total(T)
        /\ balance \in [Rows -> Nat]
    BY <1>1 DEF SumsHeld, TypeOK
  <2>2. /\ m.to = r => T2 = T \cup {sent}
        /\ m.to # r => T2 = T
        /\ sent \notin T
    BY <1>4, <1>8, SentToOneMore
  <2> HIDE DEF T, T2
  <2>3. IsFiniteSet(Coins(T2)) /\ balance'[r] = Total(T2)
    <3>1. CASE m.to = r
      <4>1. sent.amount \in Nat
        BY <1>2, <1>7
      <4>2. /\ IsFiniteSet(Coins(T \cup {sent}))
            /\ Total(T \cup {sent}) = Total(T) + sent.amount
        BY <2>1, <2>2, <4>1, TotalOfOneMore
      <4>3. balance'[r] = balance[r] + m.amount
        BY <1>3, <2>1, <3>1
      <4> QED
        BY <1>7, <2>1, <2>2, <3>1, <4>2, <4>3
    <3>2. CASE m.to # r
      <4>1. balance'[r] = balance[r]
        BY <1>3, <2>1, <3>2
      <4> QED
        BY <2>1, <2>2, <3>2, <4>1
    <3> QED
      BY <3>1, <3>2
  <2> QED
    BY <1>6, <2>3 DEF T2
<1> QED
  BY <1>9 DEF SumsHeld, Coins, Total

LEMMA NextKeepsSums == IInv /\ SumsHeld /\ [Next]_vars => SumsHeld'
<1> SUFFICES ASSUME IInv, SumsHeld, [Next]_vars PROVE SumsHeld'
  OBVIOUS
<1>1. ASSUME UNCHANGED <<balance, deposits>>,
             log' = log \/ \E m \in Messages : log' = Append(log, m)
      PROVE  SumsHeld'
  <2>1. CreditedOffsets' = CreditedOffsets
    BY <1>1 DEF CreditedOffsets
  <2>2. \A o \in CreditedOffsets : log'[o] = log[o]
    <3>1. CreditedOffsets \subseteq 1..Len(log) /\ log \in Seq(Messages)
      BY BookedMessage DEF IInv, CreditedOffsets, TypeOK
    <3> QED
      BY <1>1, <3>1
  <2>3. \A r : SentTo(r, CreditedOffsets)' = SentTo(r, CreditedOffsets)
    BY <2>1, <2>2 DEF SentTo
  <2> QED
    BY <1>1, <2>3 DEF SumsHeld, Coins, Total
<1>2. ASSUME NEW c \in Consumers, stage[c] = "process", ~Settled(held[c]),
             CreditHeld(c), log' = log
      PROVE  SumsHeld'
  BY <1>2, CreditAddsOneMessage
<1> QED
  BY <1>1, <1>2, StepOnBooks

LEMMA InitSums == Init => SumsHeld
<1> SUFFICES ASSUME Init, NEW r \in Rows
             PROVE  /\ IsFiniteSet(Coins(SentTo(r, CreditedOffsets)))
                    /\ balance[r] = Total(SentTo(r, CreditedOffsets))
  BY DEF SumsHeld
<1>1. SentTo(r, CreditedOffsets) = {} /\ balance[r] = 0
  BY DEF Init, Books!Init, CreditedOffsets, SentTo
<1>2. Coins({}) = {}
  BY DEF Coins
<1>3. IsFiniteSet({}) /\ Cardinality({}) = 0
  BY FS_EmptySet
<1> QED
  BY <1>1, <1>2, <1>3 DEF Total

\* Exactly once, from the log to the balances: users hold the sum of the
\* messages credited, one for each chain transaction, and when an owner has
\* caught up none is missing but those whose processing failed.
THEOREM CreditedExactlyOnce == Spec => []ExactlyOnce
<1>1. ASSUME IInv, SumsHeld, IdleMeansAttempted PROVE ExactlyOnce
  <2>1. CreditedOffsets \in SUBSET Payable
    <3> SUFFICES ASSUME NEW d \in deposits PROVE d.id \in Payable
      BY DEF CreditedOffsets
    <3> QED
      BY <1>1, BookedMessage, DepositAssumption DEF IInv, Payable
  <2>2. \A o, p \in CreditedOffsets : log[o].key = log[p].key => o = p
    <3> SUFFICES ASSUME NEW d \in deposits, NEW e \in deposits,
                        log[d.id].key = log[e.id].key
                 PROVE  d.id = e.id
      BY DEF CreditedOffsets
    <3>1. log[d.id].key = d.key /\ log[e.id].key = e.key
      BY <1>1, BookedMessage DEF IInv
    <3>2. d.key = e.key /\ BookedFromLog
      BY <1>1, <3>1 DEF IInv
    <3>3. d = e
      BY <3>2, Zenon DEF BookedFromLog
    <3> QED
      BY <3>3
  <2>3. \A r \in Rows : balance[r] = Total(SentTo(r, CreditedOffsets))
    BY <1>1 DEF SumsHeld
  <2>4. ASSUME NEW c \in Consumers, CaughtUp(c), NEW o \in Payable \ failed
        PROVE  \E p \in CreditedOffsets : log[p].key = log[o].key
    <3>1. o \in 1..Len(log) /\ ~Skipped(log[o]) /\ Covered(o)
      BY <1>1, <2>4 DEF Payable, Skipped, IdleMeansAttempted
    <3>2. PICK d \in deposits : d.key = log[o].key
      BY <2>4, <3>1 DEF Covered, Settled, Booked
    <3>3. d.id \in CreditedOffsets /\ log[d.id].key = d.key
      BY <1>1, <3>2, BookedMessage DEF IInv, CreditedOffsets
    <3> QED
      BY <3>2, <3>3
  <2> QED
    BY <2>1, <2>2, <2>3, <2>4 DEF ExactlyOnce
<1>2. Init => SumsHeld
  BY InitSums
<1>3. IInv /\ SumsHeld /\ [Next]_vars => SumsHeld'
  BY NextKeepsSums
<1>4. IInv /\ SumsHeld /\ IdleMeansAttempted => ExactlyOnce
  BY <1>1
<1> QED
  BY <1>2, <1>3, <1>4, ConsumerInvariant, NothingLeftBehind, PTL DEF Spec
=============================================================================
