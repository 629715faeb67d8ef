----------------------------- MODULE KafkaGroup -----------------------------
(***************************************************************************)
(* The consume loop that DepositConsumer.Run and UserConsumer.Run share:   *)
(* a consumer group with automatic commits disabled reads one partition,   *)
(* processes a message, and commits the offset behind it.  A message whose *)
(* processing fails is left uncommitted and the loop goes on with the next *)
(* one.  The broker's side (who is assigned the partition, and from where  *)
(* it resumes) is modelled from what the loops rely on.                    *)
(*                                                                         *)
(*   committed  the group's committed offset: where the next owner resumes *)
(*   owner      the consumer the partition is assigned to                  *)
(*   position   the offset each consumer reads next                        *)
(*   held       the offset each consumer has read and not finished, 0 if   *)
(*              it is polling                                              *)
(*   stage      "poll", "process" or "commit": where each loop stands      *)
(*                                                                         *)
(* Offsets start at 1 ("auto.offset.reset": "earliest").                   *)
(***************************************************************************)
EXTENDS Integers

CONSTANTS Consumers, NoConsumer

ASSUME GroupAssumption == NoConsumer \notin Consumers

VARIABLES committed, owner, position, held, stage

loops == <<position, held, stage>>
group == <<committed, owner, loops>>

GroupInit ==
    /\ committed = 1
    /\ owner = NoConsumer
    /\ position = [c \in Consumers |-> 1]
    /\ held = [c \in Consumers |-> 0]
    /\ stage = [c \in Consumers |-> "poll"]

GroupTypeOK ==
    /\ committed \in Nat \ {0}
    /\ owner \in Consumers \cup {NoConsumer}
    /\ position \in [Consumers -> Nat \ {0}]
    /\ held \in [Consumers -> Nat]
    /\ stage \in [Consumers -> {"poll", "process", "commit"}]

Assign_KeepPosition(c) ==
    /\ owner # c
    /\ owner' = c
    /\ UNCHANGED <<committed, position, held, stage>>

\* The broker assigns the partition to c, which resumes at the committed
\* offset.  The old owner is not interrupted: it still holds its message.
Assign(c) ==
    /\ owner # c
    /\ owner' = c
    /\ position' = [position EXCEPT ![c] = committed]
    /\ UNCHANGED <<committed, held, stage>>

\* ReadMessage returns the next message of a log that ends at `end'.
ReadMessage(c, end) ==
    /\ stage[c] = "poll" /\ owner = c
    /\ position[c] <= end
    /\ held' = [held EXCEPT ![c] = position[c]]
    /\ position' = [position EXCEPT ![c] = position[c] + 1]
    /\ stage' = [stage EXCEPT ![c] = "process"]
    /\ UNCHANGED <<committed, owner>>

\* processMessage returned nil: the offset is to be committed.
ToCommit(c) ==
    /\ stage' = [stage EXCEPT ![c] = "commit"]
    /\ UNCHANGED <<committed, owner, position, held>>

BackToPoll(c) ==
    /\ held' = [held EXCEPT ![c] = 0]
    /\ stage' = [stage EXCEPT ![c] = "poll"]
    /\ UNCHANGED position

\* processMessage returned an error: `continue', nothing is committed.
GiveUp(c) == BackToPoll(c) /\ UNCHANGED <<committed, owner>>

\* CommitMessage commits the offset behind the message, wherever the group
\* stood: it can move the committed offset back.  The commit of a consumer that
\* has lost the partition is refused with an error, which is only logged, or,
\* if the consumer has joined the group anew since, accepted all the same.
CommitMessage(c) ==
    /\ stage[c] = "commit"
    /\ \/ committed' = held[c] + 1
       \/ owner # c /\ UNCHANGED committed
    /\ BackToPoll(c)
    /\ UNCHANGED owner

\* The commit request fails; the loop logs it and goes on.
CommitFails(c) == stage[c] = "commit" /\ GiveUp(c)

Leave_CommitPosition(c) ==
    /\ BackToPoll(c)
    /\ owner' = IF owner = c THEN NoConsumer ELSE owner
    /\ committed' = IF owner = c THEN position[c] ELSE committed

\* The process stops or dies, and leaves the group.
Leave(c) ==
    /\ BackToPoll(c)
    /\ owner' = IF owner = c THEN NoConsumer ELSE owner
    /\ UNCHANGED committed
=============================================================================
