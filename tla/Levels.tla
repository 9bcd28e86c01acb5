------------------------------- MODULE Levels -------------------------------
(***************************************************************************)
(* The level of the member of CommunityPoints.  Every award and every      *)
(* reversal writes an integration event in its transaction; the levels     *)
(* consumer reads the balance and the thresholds, then records the         *)
(* crossings from the last recorded level to the level of that balance in  *)
(* one transaction.  Every entry is worth one point.                       *)
(*                                                                         *)
(* The balance is read before the transaction and its lock, so that of two *)
(* overlapping deliveries the second to commit may record the older        *)
(* balance.  The transition that was written last is taken for the latest  *)
(* one, as it is by createdAt unless two fall into one millisecond.        *)
(***************************************************************************)
EXTENDS CommunityPoints

CONSTANTS
  Consumers,    \* deliveries of the levels consumer that may run at once
  Thresholds    \* LevelDefinition: level n needs Thresholds[n] points

ASSUME ThresholdsAssumption ==
  \A n \in DOMAIN Thresholds :
    /\ Thresholds[n] \in Nat \ {0}
    /\ n > 1 => n - 1 \in DOMAIN Thresholds /\ Thresholds[n - 1] < Thresholds[n]

VARIABLES
  level,        \* toLevel of the latest LevelTransition, 0 without one
  synced,       \* ProcessedEvent of the levels consumer
  sync,         \* what each delivery handles and will record, NoSync without one;
                \* history: whether another one has recorded since it read (late)
  overtaken     \* history: the last recording was made by a late delivery

levelVars == <<level, synced, sync, overtaken>>
allVars == <<vars, levelVars>>

NoSync == [event |-> <<"NONE">>, target |-> 0, late |-> FALSE]

(* Variant: a reversal appends no evidence. *)
EmittedAwards == {<<"AWARDED", e>> : e \in entries}

(* What appendEvidence has put into the outbox. *)
Emitted == {<<"AWARDED", e>> : e \in entries} \cup {<<"REVERSED", e>> : e \in reversed}

(* The sum of the ledger: a reversal entry holds the negated points.       *)
Balance == Cardinality(entries) - Cardinality(reversed)

(* LevelsService.calculate: the last definition within the balance.        *)
LevelFor(balance) ==
  Cardinality({n \in DOMAIN Thresholds : Thresholds[n] <= balance})

Init ==
  /\ PointsInit
  /\ level = 0 /\ synced = {}
  /\ sync = [c \in Consumers |-> NoSync]
  /\ overtaken = FALSE

(* LevelsService.consume up to the transaction.                            *)
ReadBalance(c, event) ==
  /\ sync[c] = NoSync
  /\ event \in Emitted
  /\ sync' = [sync EXCEPT ![c] =
                 [event |-> event, target |-> LevelFor(Balance), late |-> FALSE]]
  /\ UNCHANGED <<level, synced, overtaken, vars>>

(* What becomes of the running deliveries when that of c records.          *)
Recorded(c) ==
  [d \in Consumers |->
     IF d = c \/ sync[d] = NoSync THEN NoSync ELSE [sync[d] EXCEPT !.late = TRUE]]

(* PrismaLevelsRepository.sync: one transition for each level between the  *)
(* last recorded one and the target, upwards or downwards.                 *)
Sync(c) ==
  /\ sync[c] # NoSync
  /\ sync[c].event \notin synced
  /\ level' = sync[c].target
  /\ synced' = synced \cup {sync[c].event}
  /\ overtaken' = sync[c].late
  /\ sync' = Recorded(c)
  /\ UNCHANGED vars

(* A repeated event records nothing, and a delivery that fails before its  *)
(* commit is repeated later.                                               *)
EndSync(c) ==
  /\ sync[c] # NoSync
  /\ sync' = [sync EXCEPT ![c] = NoSync]
  /\ UNCHANGED <<level, synced, overtaken, vars>>

LevelNext ==
  \E c \in Consumers :
    \/ \E event \in Emitted : ReadBalance(c, event)
    \/ Sync(c)
    \/ EndSync(c)

Next == (PointsNext /\ UNCHANGED levelVars) \/ LevelNext

Spec == Init /\ [][Next]_allVars

-----------------------------------------------------------------------------
LevelTypeOK ==
  /\ level \in 0 .. Cardinality(DOMAIN Thresholds)
  /\ synced \subseteq Emitted
  /\ \A c \in Consumers :
       sync[c] = NoSync \/ (sync[c].event \in Emitted /\ sync[c].target \in Nat)
  /\ overtaken \in BOOLEAN

(* Once every ledger event has been consumed, in whatever order, with      *)
(* whatever repetitions and overlaps, the recorded level is that of the    *)
(* balance, unless the delivery that recorded last had been overtaken by   *)
(* another one since it read: the next delivery that is not puts it right. *)
LevelFollowsBalance ==
  (Emitted \subseteq synced /\ ~overtaken) => level = LevelFor(Balance)
=============================================================================
