----------------------------- MODULE LevelsProofs -----------------------------
(***************************************************************************)
(* Proofs about CommunityPoints and Levels, for any events and days, any   *)
(* number of workers and moderators, any limits and any thresholds.        *)
(***************************************************************************)
EXTENDS Levels, FiniteSetTheorems, TLAPS

-----------------------------------------------------------------------------
(* An event that has an entry has been marked in the same commit.          *)
EntriesAreProcessed == entries \subseteq processed

(* Past the look for its mark, an award holds its event alone.             *)
EventIsHeldAlone ==
  \A w \in Workers, e \in Events :
    HoldsEvent(w, e) =>
      /\ e \notin processed
      /\ \A o \in Workers : HoldsEvent(o, e) => o = w

(* Past its count, a limited award holds its day alone.                    *)
DayIsHeldAlone ==
  \A w, o \in Workers :
    (HoldsCap(w, DayOf[worker[w].event]) /\ HoldsCap(o, DayOf[worker[w].event])) => o = w

(* Past its count, a limited award has a place on its day, or an unlimited *)
(* one has been awarded there.                                             *)
Unlimited(day) == \E e \in OnDay(day) : limitOf[e] = NoLimit

PlaceIsFree ==
  \A w \in Workers :
    (worker[w].pc = "COUNTED" /\ worker[w].limit # NoLimit) =>
      \/ Unlimited(DayOf[worker[w].event])
      \/ Cardinality(OnDay(DayOf[worker[w].event])) < worker[w].limit

(* What is about to be reversed is an entry.                               *)
OriginalsExist ==
  /\ \A a \in Admins : admin[a].pc # Idle => admin[a].event \in entries
  /\ \A w \in Workers :
       (worker[w].pc = "REVERSING" /\ worker[w].found) => worker[w].event \in entries

IInv ==
  /\ TypeOK
  /\ OriginalsExist
  /\ EntriesAreProcessed
  /\ EventIsHeldAlone
  /\ DayIsHeldAlone
  /\ PlaceIsFree
  /\ DailyCapIsKept

-----------------------------------------------------------------------------
LEMMA RestingType ==
  /\ Resting \in [pc : {Idle}, event : Events, limit : {NoLimit}, found : BOOLEAN]
  /\ AtDesk \in [pc : {Idle}, event : Events]
  BY EventsAssumption DEF Resting, AtDesk

LEMMA InitIInv == PointsInit => IInv
  BY RestingType DEF PointsInit, IInv, TypeOK, EntriesAreProcessed, EventIsHeldAlone,
     DayIsHeldAlone, PlaceIsFree, OriginalsExist, DailyCapIsKept, HoldsEvent, HoldsCap, OnDay,
     Idle, Rules,
     AwardSteps, RevokeSteps

(* What keeps the entries and lets no further award hold a lock keeps the  *)
(* invariant.                                                              *)
LEMMA NoNewHolder ==
  ASSUME IInv, TypeOK', OriginalsExist', UNCHANGED <<entries, limitOf, processed>>,
         \A w \in Workers : \/ worker'[w] = worker[w]
                            \/ worker'[w].pc \notin {"LOCKED", "CLEARED", "COUNTED"}
  PROVE  IInv'
  <1>1. \A w \in Workers, e \in Events : HoldsEvent(w, e)' => HoldsEvent(w, e)
    BY DEF HoldsEvent
  <1>2. EventIsHeldAlone'
    BY <1>1 DEF IInv, EventIsHeldAlone
  <1>3. DayIsHeldAlone'
    BY DEF IInv, DayIsHeldAlone, HoldsCap
  <1>4. PlaceIsFree'
    BY DEF IInv, PlaceIsFree, Unlimited, OnDay
  <1>5. EntriesAreProcessed' /\ DailyCapIsKept'
    BY DEF IInv, EntriesAreProcessed, DailyCapIsKept, OnDay
  <1> QED  BY <1>2, <1>3, <1>4, <1>5 DEF IInv

LEMMA QuietStep ==
  ASSUME IInv, NEW w \in Workers,
         \/ \E e \in Events : Take(w, e) \/ LockSource(w, e)
         \/ FindOriginals(w) \/ Revoke(w) \/ Fail(w)
  PROVE  IInv'
  <1> USE DEF IInv
  <1>1. UNCHANGED <<entries, limitOf, processed>>
    BY DEF Take, LockSource, FindOriginals, Revoke, Fail
  <1>2. ASSUME TypeOK', OriginalsExist', NEW r, worker' = [worker EXCEPT ![w] = r],
               r.pc \notin {"LOCKED", "CLEARED", "COUNTED"}
        PROVE  IInv'
    <2>1. \A o \in Workers : \/ worker'[o] = worker[o]
                             \/ worker'[o].pc \notin {"LOCKED", "CLEARED", "COUNTED"}
      BY <1>2 DEF TypeOK
    <2> QED  BY <1>1, <1>2, <2>1, NoNewHolder
  <1>3. CASE \E e \in Events : Take(w, e)
    <2>1. PICK e \in Events : Take(w, e)
      BY <1>3
    <2> DEFINE r == [pc |-> "TAKEN", event |-> e, limit |-> rule.limit, found |-> FALSE]
    <2>2. worker' = [worker EXCEPT ![w] = r]
      BY <2>1 DEF Take
    <2>3. TypeOK' /\ OriginalsExist'
      BY <2>1 DEF TypeOK, OriginalsExist, Take, AwardSteps, Rules
    <2> QED  BY <1>2, <2>2, <2>3
  <1>4. CASE \E e \in Events : LockSource(w, e)
    <2>1. PICK e \in Events : LockSource(w, e)
      BY <1>4
    <2> DEFINE r == [pc |-> "REVOKING", event |-> e, limit |-> NoLimit, found |-> FALSE]
    <2>2. worker' = [worker EXCEPT ![w] = r]
      BY <2>1 DEF LockSource
    <2>3. TypeOK' /\ OriginalsExist'
      BY <2>1 DEF TypeOK, OriginalsExist, LockSource, RevokeSteps
    <2> QED  BY <1>2, <2>2, <2>3
  <1>5. CASE FindOriginals(w)
    <2> DEFINE f == worker[w].event \in entries \ reversed
    <2>1. f \in BOOLEAN /\ (f => worker[w].event \in entries)
      OBVIOUS
    <2> HIDE DEF f
    <2> DEFINE r == [pc |-> "REVERSING", event |-> worker[w].event, limit |-> NoLimit, found |-> f]
    <2>2. worker' = [worker EXCEPT ![w] = r]
      BY <1>5 DEF FindOriginals, f
    <2>3. worker[w].event \in Events /\ (f => worker[w].event \in entries)
      BY <2>1 DEF TypeOK
    <2>4. TypeOK' /\ OriginalsExist'
      BY <1>1, <1>5, <2>2, <2>3 DEF TypeOK, OriginalsExist, FindOriginals, RevokeSteps
    <2> QED  BY <1>2, <2>2, <2>4
  <1>6. CASE Revoke(w) \/ Fail(w)
    <2>1. worker' = [worker EXCEPT ![w] = Resting]
      BY <1>6 DEF Revoke, Fail
    <2>2. reversed' \subseteq entries /\ revoked' \subseteq Events
      BY <1>6 DEF TypeOK, OriginalsExist, Revoke, Fail
    <2>3. TypeOK' /\ OriginalsExist'
      BY <1>6, <2>1, <2>2, RestingType DEF TypeOK, OriginalsExist, Revoke, Fail, Idle
    <2> QED  BY <1>2, <2>1, <2>3, RestingType DEF Idle
  <1> QED  BY <1>3, <1>4, <1>5, <1>6

LEMMA DeskStep ==
  ASSUME IInv,
         \/ \E a \in Admins : AdminNext(a)
         \/ \E new \in Rules : UpdateRule(new)
  PROVE  IInv'
  <1>1. TypeOK'
    <2>1. CASE \E a \in Admins, e \in Events : AskReversal(a, e)
      BY <2>1 DEF IInv, TypeOK, AskReversal
    <2>2. CASE \E a \in Admins : CheckReversal(a)
      BY <2>2, RestingType DEF IInv, TypeOK, CheckReversal
    <2>3. CASE \E a \in Admins : Reverse(a)
      <3>1. PICK a \in Admins : Reverse(a)
        BY <2>3
      <3>2. admin[a].event \in entries
        BY <3>1 DEF IInv, OriginalsExist, Reverse, Idle
      <3> QED  BY <3>1, <3>2, RestingType DEF IInv, TypeOK, Reverse
    <2>4. CASE \E new \in Rules : UpdateRule(new)
      BY <2>4 DEF IInv, TypeOK, UpdateRule
    <2> QED  BY <2>1, <2>2, <2>3, <2>4 DEF AdminNext
  <1>2. UNCHANGED <<entries, limitOf, processed, worker>>
    BY DEF AdminNext, AskReversal, CheckReversal, Reverse, UpdateRule
  <1>3. OriginalsExist'
    BY RestingType DEF IInv, TypeOK, OriginalsExist, AdminNext, AskReversal, CheckReversal,
       Reverse, UpdateRule, Idle
  <1> QED  BY <1>1, <1>2, <1>3, NoNewHolder

LEMMA LockEventStep ==
  ASSUME IInv, NEW w \in Workers, LockEvent(w)
  PROVE  IInv'
  <1> DEFINE e == worker[w].event
  <1>1. CASE e \in processed
    <2>1. worker' = [worker EXCEPT ![w] = Resting]
      BY <1>1 DEF LockEvent
    <2>2. TypeOK' /\ OriginalsExist'
      BY <2>1, RestingType DEF IInv, TypeOK, OriginalsExist, LockEvent, Idle
    <2> QED  BY <2>1, <2>2, RestingType, NoNewHolder DEF IInv, TypeOK, LockEvent, Idle
  <1>2. CASE e \notin processed
    <2>1. worker' = [worker EXCEPT ![w].pc = "LOCKED"]
      BY <1>2 DEF LockEvent
    <2>2. TypeOK' /\ OriginalsExist'
      BY <2>1 DEF IInv, TypeOK, OriginalsExist, LockEvent, AwardSteps
    <2>3. \A o \in Workers : ~HoldsEvent(o, e)
      BY DEF LockEvent
    <2>4. e \in Events
      BY DEF IInv, TypeOK
    <2>5. EventIsHeldAlone'
      BY <1>2, <2>1, <2>3, <2>4 DEF IInv, TypeOK, EventIsHeldAlone, HoldsEvent, LockEvent
    <2>6. DayIsHeldAlone' /\ PlaceIsFree'
      BY <2>1 DEF IInv, TypeOK, DayIsHeldAlone, PlaceIsFree, Unlimited, OnDay, HoldsCap, LockEvent
    <2> QED  BY <2>2, <2>5, <2>6 DEF IInv, EntriesAreProcessed, DailyCapIsKept, OnDay, LockEvent
  <1> QED  BY <1>1, <1>2

(* An award that marks its event and pays nothing gives up its locks.      *)
LEMMA MarkedOnly ==
  ASSUME IInv, NEW w \in Workers, HoldsEvent(w, worker[w].event),
         processed' = processed \cup {worker[w].event},
         worker' = [worker EXCEPT ![w] = Resting],
         UNCHANGED <<rule, entries, reversed, limitOf, revoked, admin>>
  PROVE  IInv'
  <1>1. TypeOK' /\ OriginalsExist'
    BY RestingType DEF IInv, TypeOK, OriginalsExist, Idle
  <1>2. worker[w].event \in Events
    BY DEF IInv, TypeOK
  <1>3. \A o \in Workers, e \in Events :
          HoldsEvent(o, e)' => HoldsEvent(o, e) /\ o # w
    BY RestingType DEF IInv, TypeOK, HoldsEvent, Idle
  <1>4. EventIsHeldAlone'
    BY <1>2, <1>3 DEF IInv, EventIsHeldAlone
  <1>5. DayIsHeldAlone' /\ PlaceIsFree'
    BY RestingType DEF IInv, TypeOK, DayIsHeldAlone, PlaceIsFree, Unlimited, OnDay, HoldsCap, Idle
  <1> QED  BY <1>1, <1>4, <1>5 DEF IInv, EntriesAreProcessed, DailyCapIsKept, OnDay

LEMMA CheckSourceStep ==
  ASSUME IInv, NEW w \in Workers, CheckSource(w)
  PROVE  IInv'
  <1>1. CASE IsRevoked(worker[w].event)
    BY <1>1, MarkedOnly DEF CheckSource, HoldsEvent
  <1>2. CASE ~IsRevoked(worker[w].event)
    <2>1. worker' = [worker EXCEPT ![w].pc = "CLEARED"] /\ UNCHANGED processed
      BY <1>2 DEF CheckSource
    <2>2. TypeOK' /\ OriginalsExist'
      BY <2>1 DEF IInv, TypeOK, OriginalsExist, CheckSource, AwardSteps
    <2>3. EventIsHeldAlone'
      BY <2>1 DEF IInv, TypeOK, EventIsHeldAlone, HoldsEvent, CheckSource
    <2>4. DayIsHeldAlone' /\ PlaceIsFree'
      BY <2>1 DEF IInv, TypeOK, DayIsHeldAlone, PlaceIsFree, Unlimited, OnDay, HoldsCap, CheckSource
    <2> QED  BY <2>1, <2>2, <2>3, <2>4
             DEF IInv, EntriesAreProcessed, DailyCapIsKept, OnDay, CheckSource
  <1> QED  BY <1>1, <1>2

LEMMA DaysAreFinite ==
  ASSUME TypeOK, NEW day
  PROVE  IsFiniteSet(OnDay(day)) /\ Cardinality(OnDay(day)) \in Nat
  <1>1. OnDay(day) \subseteq Events
    BY DEF TypeOK, OnDay
  <1> QED  BY <1>1, EventsAssumption, FS_Subset, FS_CardinalityType

LEMMA CountStep ==
  ASSUME IInv, NEW w \in Workers, Count(w)
  PROVE  IInv'
  <1> DEFINE e == worker[w].event
             day == DayOf[e]
             limit == worker[w].limit
  <1>1. CASE limit # NoLimit /\ Cardinality(OnDay(day)) >= limit
    BY <1>1, MarkedOnly DEF Count, HoldsEvent
  <1>2. CASE ~(limit # NoLimit /\ Cardinality(OnDay(day)) >= limit)
    <2>1. worker' = [worker EXCEPT ![w].pc = "COUNTED"] /\ UNCHANGED processed
      BY <1>2 DEF Count
    <2>2. TypeOK' /\ OriginalsExist'
      BY <2>1 DEF IInv, TypeOK, OriginalsExist, Count, AwardSteps
    <2>3. EventIsHeldAlone'
      BY <2>1 DEF IInv, TypeOK, EventIsHeldAlone, HoldsEvent, Count
    <2>4. limit # NoLimit => \A o \in Workers : ~HoldsCap(o, day)
      BY DEF Count, CapIsFree
    <2>5. DayIsHeldAlone'
      BY <2>1, <2>4 DEF IInv, TypeOK, DayIsHeldAlone, HoldsCap, Count
    <2>6. limit # NoLimit => Cardinality(OnDay(day)) < limit
      <3>1. limit # NoLimit => limit \in Nat
        BY LimitsAssumption DEF IInv, TypeOK
      <3>2. Cardinality(OnDay(day)) \in Nat
        BY DaysAreFinite DEF IInv
      <3> QED  BY <1>2, <3>1, <3>2
    <2>7. PlaceIsFree'
      BY <2>1, <2>6 DEF IInv, TypeOK, PlaceIsFree, Unlimited, OnDay, Count
    <2> QED  BY <2>1, <2>2, <2>3, <2>5, <2>7
             DEF IInv, EntriesAreProcessed, DailyCapIsKept, OnDay, Count
  <1> QED  BY <1>1, <1>2

LEMMA AwardStep ==
  ASSUME IInv, NEW w \in Workers, Award(w)
  PROVE  IInv'
  <1> USE DEF IInv
  <1>1. PICK e \in Events, limit \in Limits \cup {NoLimit} :
          worker[w].event = e /\ worker[w].limit = limit
    BY DEF TypeOK
  <1> DEFINE day == DayOf[e]
  <1>2. /\ worker[w].pc = "COUNTED"
        /\ worker' = [worker EXCEPT ![w] = Resting]
        /\ entries' = entries \cup {e}
        /\ limitOf' = [limitOf EXCEPT ![e] = limit]
        /\ processed' = processed \cup {e}
        /\ UNCHANGED <<rule, reversed, revoked, admin>>
    BY <1>1 DEF Award
  <1>3. HoldsEvent(w, e) /\ e \notin processed /\ e \notin entries
    BY <1>1, <1>2 DEF HoldsEvent, EventIsHeldAlone, EntriesAreProcessed
  <1>4. TypeOK'
    BY <1>2, RestingType DEF TypeOK
  <1>5. OriginalsExist' /\ EntriesAreProcessed'
    BY <1>2, RestingType DEF TypeOK, OriginalsExist, EntriesAreProcessed, Idle
  <1>6. /\ \A o \in Workers : o # w => worker'[o] = worker[o]
        /\ worker'[w].pc = Idle
    BY <1>2, RestingType DEF TypeOK
  <1>7. \A o \in Workers, x \in Events : HoldsEvent(o, x)' => HoldsEvent(o, x) /\ o # w
    BY <1>6 DEF HoldsEvent, Idle
  <1>8. EventIsHeldAlone'
    <2> SUFFICES ASSUME NEW o \in Workers, NEW x \in Events, HoldsEvent(o, x)'
                 PROVE  x \notin processed' /\ \A p \in Workers : HoldsEvent(p, x)' => p = o
      BY DEF EventIsHeldAlone
    <2>1. HoldsEvent(o, x) /\ o # w
      BY <1>7
    <2>2. x # e /\ x \notin processed
      BY <1>3, <2>1 DEF EventIsHeldAlone
    <2> QED  BY <1>2, <1>7, <2>1, <2>2 DEF EventIsHeldAlone
  <1>9. DayIsHeldAlone'
    BY <1>6 DEF DayIsHeldAlone, HoldsCap, Idle
  <1>10. /\ limitOf'[e] = limit
         /\ \A x \in entries : limitOf'[x] = limitOf[x]
    BY <1>2, <1>3 DEF TypeOK
  <1>11. OnDay(day)' = OnDay(day) \cup {e} /\ e \notin OnDay(day)
    BY <1>2, <1>3 DEF OnDay
  <1>12. \A d : d # day => OnDay(d)' = OnDay(d)
    BY <1>2 DEF OnDay
  <1>13. \A d : Unlimited(d) => Unlimited(d)'
    BY <1>2, <1>10 DEF Unlimited, OnDay
  <1>14. Cardinality(OnDay(day)') = Cardinality(OnDay(day)) + 1
    BY <1>11, DaysAreFinite, FS_AddElement
  <1>15. PlaceIsFree'
    <2> SUFFICES ASSUME NEW o \in Workers, worker'[o].pc = "COUNTED", worker'[o].limit # NoLimit
                 PROVE  \/ Unlimited(DayOf[worker[o].event])'
                        \/ Cardinality(OnDay(DayOf[worker[o].event]))' < worker'[o].limit
      BY DEF PlaceIsFree
    <2>1. o # w /\ worker'[o] = worker[o]
      BY <1>6 DEF Idle
    <2>2. PICK d : d = DayOf[worker[o].event]
      OBVIOUS
    <2>3. d = DayOf[worker'[o].event]
      BY <2>1, <2>2
    <2>4. Unlimited(d) \/ Cardinality(OnDay(d)) < worker[o].limit
      BY <2>1, <2>2 DEF PlaceIsFree
    <2>5. d = day => Unlimited(d)'
      <3> SUFFICES ASSUME d = day PROVE Unlimited(d)'
        OBVIOUS
      <3>1. limit = NoLimit
        BY <1>1, <1>2, <2>1, <2>2 DEF HoldsCap, DayIsHeldAlone
      <3> QED  BY <1>10, <1>11, <3>1 DEF Unlimited
    <2>6. Unlimited(d)' \/ Cardinality(OnDay(d)') < worker[o].limit
      BY <1>12, <1>13, <2>4, <2>5
    <2> QED  BY <2>1, <2>3, <2>6
  <1>16. DailyCapIsKept'
    <2> SUFFICES ASSUME NEW x \in Events, OnDay(DayOf[x])' # {}
                 PROVE  \E y \in OnDay(DayOf[x])' :
                          limitOf'[y] = NoLimit \/ Cardinality(OnDay(DayOf[x])') <= limitOf'[y]
      BY DEF DailyCapIsKept
    <2> DEFINE d == DayOf[x]
    <2>1. CASE d # day
      <3>1. OnDay(d)' = OnDay(d) /\ OnDay(d) \subseteq entries
        BY <1>12, <2>1 DEF OnDay
      <3> QED  BY <1>10, <3>1 DEF DailyCapIsKept
    <2>2. CASE d = day
      <3>1. e \in OnDay(d)'
        BY <1>11, <2>2
      <3>2. CASE limit = NoLimit
        BY <1>10, <3>1, <3>2
      <3>3. CASE Unlimited(day)
        BY <1>13, <2>2, <3>3 DEF Unlimited
      <3>4. CASE limit # NoLimit /\ ~Unlimited(day)
        <4>1. Cardinality(OnDay(day)) < limit
          BY <1>1, <1>2, <3>4 DEF PlaceIsFree
        <4>2. limit \in Nat /\ Cardinality(OnDay(day)) \in Nat
          BY <3>4, LimitsAssumption, DaysAreFinite
        <4>3. Cardinality(OnDay(day)') <= limit
          BY <1>14, <4>1, <4>2
        <4> QED  BY <1>10, <2>2, <3>1, <4>3
      <3> QED  BY <3>2, <3>3, <3>4
    <2> QED  BY <2>1, <2>2
  <1> QED  BY <1>4, <1>5, <1>8, <1>9, <1>15, <1>16

(* The inductive invariant of the ledger.                                  *)
THEOREM Inductive == PointsSpec => []IInv
  <1>1. IInv /\ [PointsNext]_vars => IInv'
    <2> SUFFICES ASSUME IInv, [PointsNext]_vars PROVE IInv'
      OBVIOUS
    <2>1. CASE UNCHANGED vars
      BY <2>1, NoNewHolder DEF vars, IInv, TypeOK, OriginalsExist
    <2>2. ASSUME NEW w \in Workers, WorkerNext(w) PROVE IInv'
      BY <2>2, QuietStep, LockEventStep, CheckSourceStep, CountStep, AwardStep DEF WorkerNext
    <2> QED  BY <2>1, <2>2, DeskStep DEF PointsNext
  <1> QED  BY <1>1, InitIInv, PTL DEF PointsSpec

-----------------------------------------------------------------------------
(* The levels only read the ledger.                                        *)
LEMMA LevelsUseTheLedger == Spec => PointsSpec
  <1>1. Init => PointsInit
    BY DEF Init
  <1>2. [Next]_allVars => [PointsNext]_vars
    BY DEF Next, LevelNext, ReadBalance, Sync, EndSync, allVars, vars
  <1> QED  BY <1>1, <1>2, PTL DEF Spec, PointsSpec

(* Type correctness of the ledger.                                         *)
THEOREM TypeCorrect == Spec => []TypeOK
  <1>1. IInv => TypeOK
    BY DEF IInv
  <1> QED  BY <1>1, Inductive, LevelsUseTheLedger, PTL

(* However deliveries overlap and whenever the rule changes, the awards of *)
(* a day stay within the daily limit.                                      *)
THEOREM CapHolds == Spec => []DailyCapIsKept
  <1>1. IInv => DailyCapIsKept
    BY DEF IInv
  <1> QED  BY <1>1, Inductive, LevelsUseTheLedger, PTL

(* Withdrawn points stay withdrawn on every delivery of their award.       *)
THEOREM WithdrawalIsFinal == Spec => WithdrawnStaysWithdrawn
  <1>1. TypeOK /\ [PointsNext]_vars => \A e \in Events : Withdrawn(e) => Withdrawn(e)'
    <2> SUFFICES ASSUME TypeOK, [PointsNext]_vars, NEW e \in Events, Withdrawn(e)
                 PROVE  Withdrawn(e)'
      OBVIOUS
    <2> USE DEF Withdrawn, TypeOK
    <2>1. CASE UNCHANGED vars
      BY <2>1 DEF vars
    <2>2. ASSUME NEW w \in Workers, WorkerNext(w) PROVE Withdrawn(e)'
      <3>1. CASE \E x \in Events : Take(w, x)
        BY <3>1 DEF Take
      <3>2. CASE \E x \in Events : LockSource(w, x)
        BY <3>2, RestingType DEF LockSource
      <3>3. CASE LockEvent(w)
        BY <3>3, RestingType DEF LockEvent, Idle
      <3>4. CASE CheckSource(w)
        BY <3>4, RestingType DEF CheckSource, IsRevoked, Idle
      <3>5. CASE Count(w)
        BY <3>5, RestingType DEF Count, Idle
      <3>6. CASE Award(w)
        BY <3>6, RestingType DEF Award, Idle
      <3>7. CASE FindOriginals(w)
        BY <3>7 DEF FindOriginals
      <3>8. CASE Revoke(w)
        BY <3>8, RestingType DEF Revoke, Idle
      <3>9. CASE Fail(w)
        BY <3>9, RestingType DEF Fail, Idle
      <3> QED  BY <2>2, <3>1, <3>2, <3>3, <3>4, <3>5, <3>6, <3>7, <3>8, <3>9 DEF WorkerNext
    <2>3. CASE (\E a \in Admins : AdminNext(a)) \/ (\E new \in Rules : UpdateRule(new))
      BY <2>3 DEF AdminNext, AskReversal, CheckReversal, Reverse, UpdateRule
    <2> QED  BY <2>1, <2>2, <2>3 DEF PointsNext
  <1>2. TypeOK /\ [PointsNext]_vars => [\A e \in Events : Withdrawn(e) => Withdrawn(e)']_vars
    BY <1>1
  <1> QED  BY <1>2, TypeCorrect, LevelsUseTheLedger, PTL DEF PointsSpec, WithdrawnStaysWithdrawn

-----------------------------------------------------------------------------
Targets == {0} \cup {LevelFor(b) : b \in Int}
SyncRows == [event : Emitted \cup {NoSync.event}, target : Targets, late : BOOLEAN]

(* A delivery that is not late and handles the last event left has read    *)
(* the present balance: whatever changes the balance emits another event.  *)
LevelInv ==
  /\ synced \subseteq Emitted
  /\ sync \in [Consumers -> SyncRows]
  /\ \A c \in Consumers : sync[c] # NoSync =>
       /\ sync[c].event \in Emitted
       /\ (~sync[c].late /\ Emitted \subseteq synced \cup {sync[c].event})
            => sync[c].target = LevelFor(Balance)
  /\ (Emitted \subseteq synced /\ ~overtaken) => level = LevelFor(Balance)

(* A change of the ledger emits an event that no delivery has seen.        *)
LEMMA ChangesAreEmitted ==
  ASSUME TypeOK, [PointsNext]_vars
  PROVE  \/ UNCHANGED <<entries, reversed>>
         \/ Emitted \subseteq Emitted' /\ Emitted' # Emitted
  <1>1. entries \subseteq entries' /\ reversed \subseteq reversed'
    BY DEF vars, PointsNext, WorkerNext, Take, LockSource, LockEvent, CheckSource, Count, Award,
       FindOriginals, Revoke, Fail, AdminNext, AskReversal, CheckReversal, Reverse, UpdateRule
  <1>2. Emitted \subseteq Emitted'
    BY <1>1 DEF Emitted
  <1>3. CASE entries' # entries
    <2>1. PICK e \in entries' : e \notin entries
      BY <1>1, <1>3
    <2>2. <<"AWARDED", e>> \in Emitted' /\ <<"AWARDED", e>> \notin Emitted
      BY <2>1 DEF Emitted
    <2> QED  BY <1>2, <2>2
  <1>4. CASE reversed' # reversed
    <2>1. PICK e \in reversed' : e \notin reversed
      BY <1>1, <1>4
    <2>2. <<"REVERSED", e>> \in Emitted' /\ <<"REVERSED", e>> \notin Emitted
      BY <2>1 DEF Emitted
    <2> QED  BY <1>2, <2>2
  <1> QED  BY <1>3, <1>4

LEMMA PointsKeepLevels ==
  ASSUME LevelInv, TypeOK, [PointsNext]_vars, UNCHANGED levelVars
  PROVE  LevelInv'
  <1>1. CASE UNCHANGED <<entries, reversed>>
    <2>1. Emitted' = Emitted /\ LevelFor(Balance)' = LevelFor(Balance)
      BY <1>1 DEF Emitted, LevelFor, Balance
    <2> QED  BY <2>1 DEF LevelInv, SyncRows, levelVars, NoSync
  <1>2. CASE Emitted \subseteq Emitted' /\ Emitted' # Emitted
    <2>1. PICK new \in Emitted' : new \notin Emitted
      BY <1>2
    <2>2. ~(Emitted' \subseteq synced)
          /\ \A c \in Consumers : sync[c] # NoSync => ~(Emitted' \subseteq synced \cup {sync[c].event})
      BY <2>1 DEF LevelInv
    <2> QED  BY <1>2, <2>2 DEF LevelInv, SyncRows, levelVars, NoSync
  <1> QED  BY <1>1, <1>2, ChangesAreEmitted

LEMMA LevelStep ==
  ASSUME LevelInv, TypeOK, LevelNext
  PROVE  LevelInv'
  <1>1. UNCHANGED vars
    BY DEF LevelNext, ReadBalance, Sync, EndSync
  <1>2. Emitted' = Emitted /\ LevelFor(Balance)' = LevelFor(Balance)
    BY <1>1 DEF vars, Emitted, LevelFor, Balance
  <1>3. LevelFor(Balance) \in Targets
    <2>1. IsFiniteSet(entries) /\ IsFiniteSet(reversed)
      BY EventsAssumption, FS_Subset DEF TypeOK
    <2>2. Balance \in Int
      BY <2>1, FS_CardinalityType DEF Balance
    <2> QED  BY <2>2 DEF Targets
  <1>4. SyncRows' = SyncRows /\ NoSync \in SyncRows
    BY <1>2 DEF SyncRows, NoSync, Targets
  <1>5. \A event \in Emitted, target \in Targets, late \in BOOLEAN :
          [event |-> event, target |-> target, late |-> late] \in SyncRows
    BY DEF SyncRows
  <1>6. \A x \in SyncRows : [x EXCEPT !.late = TRUE] \in SyncRows
                           /\ [x EXCEPT !.late = TRUE].event = x.event
                           /\ [x EXCEPT !.late = TRUE].late
    BY DEF SyncRows
  <1>7. ASSUME NEW c \in Consumers, NEW event \in Emitted, ReadBalance(c, event)
        PROVE  LevelInv'
    <2>1. sync' \in [Consumers -> SyncRows]
      BY <1>3, <1>5, <1>7 DEF LevelInv, ReadBalance
    <2> QED  BY <1>2, <1>4, <1>7, <2>1 DEF LevelInv, ReadBalance
  <1>8. ASSUME NEW c \in Consumers, Sync(c)
        PROVE  LevelInv'
    <2>1. sync' \in [Consumers -> SyncRows]
      BY <1>4, <1>6, <1>8 DEF LevelInv, Sync, Recorded
    <2>2. \A d \in Consumers : sync'[d] # NoSync =>
            sync[d] # NoSync /\ sync'[d].event = sync[d].event /\ sync'[d].late
      BY <1>6, <1>8 DEF LevelInv, Sync, Recorded
    <2>3. Emitted \subseteq synced' /\ ~overtaken' => level' = LevelFor(Balance)
      BY <1>8 DEF LevelInv, Sync
    <2>4. synced' \subseteq Emitted
      BY <1>8 DEF LevelInv, Sync
    <2> QED  BY <1>2, <1>4, <2>1, <2>2, <2>3, <2>4 DEF LevelInv
  <1>9. ASSUME NEW c \in Consumers, EndSync(c)
        PROVE  LevelInv'
    <2>1. sync' \in [Consumers -> SyncRows]
      BY <1>4, <1>9 DEF LevelInv, EndSync
    <2> QED  BY <1>2, <1>4, <1>9, <2>1 DEF LevelInv, EndSync
  <1> QED  BY <1>7, <1>8, <1>9 DEF LevelNext

LEMMA LevelInitially == Init => LevelInv
  <1> SUFFICES ASSUME Init PROVE LevelInv
    OBVIOUS
  <1>1. /\ Emitted = {} /\ synced = {} /\ level = 0
        /\ sync = [c \in Consumers |-> NoSync]
    BY DEF Init, PointsInit, Emitted
  <1>2. Balance = 0
    BY FS_EmptySet DEF Init, PointsInit, Balance
  <1>3. {n \in DOMAIN Thresholds : Thresholds[n] <= 0} = {}
    BY ThresholdsAssumption
  <1>4. LevelFor(Balance) = 0
    BY <1>2, <1>3, FS_EmptySet DEF LevelFor
  <1> QED  BY <1>1, <1>4 DEF LevelInv, SyncRows, NoSync, Targets

(* In whatever order, with whatever repetitions and however overlapped the *)
(* events of the ledger are consumed, the last recording leaves the level  *)
(* of the balance, unless another delivery recorded between its reading    *)
(* and its commit.                                                         *)
THEOREM LevelIsFollowed == Spec => []LevelFollowsBalance
  <1>1. LevelInv /\ TypeOK /\ [Next]_allVars => LevelInv'
    <2> SUFFICES ASSUME LevelInv, TypeOK, [Next]_allVars PROVE LevelInv'
      OBVIOUS
    <2>1. CASE UNCHANGED allVars
      BY <2>1, PointsKeepLevels DEF allVars
    <2>2. CASE PointsNext /\ UNCHANGED levelVars
      BY <2>2, PointsKeepLevels
    <2> QED  BY <2>1, <2>2, LevelStep DEF Next
  <1>2. LevelInv => LevelFollowsBalance
    BY DEF LevelInv, LevelFollowsBalance
  <1> QED  BY <1>1, <1>2, LevelInitially, TypeCorrect, PTL DEF Spec
=============================================================================
