------------------------- MODULE CommentDraftsProofs -------------------------
(***************************************************************************)
(* Proofs about CommentDrafts, and the EditorAutosave it extends, for any  *)
(* number of tabs, edits and drafts.                                       *)
(***************************************************************************)
EXTENDS CommentDrafts, TLAPS

(* The newest text of a tab is the first of these that there is: what      *)
(* waits to be saved, what is being saved, what was acknowledged last.     *)
NewestIsHeld ==
  \A t \in Tabs :
    Latest(t) = IF tab[t].pending # None THEN tab[t].pending
                ELSE IF tab[t].saving # None THEN tab[t].saving
                ELSE tab[t].acked

(* A tab is saving exactly while its request is on its way.                *)
SavingIsRequested ==
  \A t \in Tabs : request[t].did = "NONE" <=> tab[t].saving = None

(* Nothing is typed before a tab is edited; its last flush leaves nothing  *)
(* behind, and after it nothing is saved.                                  *)
PhasesOfATab ==
  \A t \in Tabs :
    /\ tab[t].mounted \in {"NO", "ASKING"} => tab[t].edits = 0 /\ tab[t].version = 0
    /\ tab[t].mounted = "FLUSHING" => tab[t].pending = None /\ tab[t].saving # None
    /\ tab[t].mounted = "GONE" => tab[t].saving = None

(* A text that a tab has sent is its own and no newer than the one it is   *)
(* saving.                                                                 *)
NoNewerThan(t, text) ==
  /\ text[2] <= tab[t].edits
  /\ tab[t].saving # None => text[2] <= tab[t].saving[2]

SentAreOlder ==
  /\ \A t \in Tabs : tab[t].saving # None =>
       tab[t].saving[1] = t /\ tab[t].saving[2] <= tab[t].edits
  /\ \A t \in Tabs : draft # NoDraft /\ draft.text[1] = t => NoNewerThan(t, draft.text)
  /\ \A call \in late : call.text[1] = call.tab /\ NoNewerThan(call.tab, call.text)

(* A given-up save is the only one, has a version its tab already knew,    *)
(* and finds the draft with a later one if its tab has saved again.        *)
LateAreBehind ==
  /\ \A a, b \in late : a = b
  /\ \A call \in late :
       /\ call.base <= tab[call.tab].version
       /\ (draft # NoDraft /\ draft.text[1] = call.tab) =>
            draft.text[2] <= call.text[2] \/ call.base < draft.version

(* The versions a tab has, or is about to have.                            *)
Knows(t, version) ==
  \/ version = tab[t].version
  \/ request[t].did = "SAVED" /\ version = request[t].version
  \/ tab[t].mounted = "ASKING" /\ version = seen[t].version

(* Of the draft that a tab has seen it knows no version to come, and with  *)
(* the present version it has seen the present text.                       *)
KnownIsSeen ==
  /\ \A t \in Tabs : seen[t].id <= drafts
  /\ draft.id <= drafts
  /\ \A t \in Tabs : request[t].did = "SAVED" => tab[t].version < request[t].version
  /\ \A t \in Tabs : \A version \in Nat :
       (draft # NoDraft /\ seen[t].id = draft.id /\ Knows(t, version)) =>
         /\ version <= draft.version
         /\ version = draft.version => draft.text \in seen[t].texts

IInv ==
  /\ TypeOK
  /\ NewestIsHeld
  /\ SavingIsRequested
  /\ PhasesOfATab
  /\ UnmountedHasSaved
  /\ SentAreOlder
  /\ LateAreBehind
  /\ KnownIsSeen

-----------------------------------------------------------------------------
LEMMA TextFacts ==
    ASSUME NEW text \in Texts
    PROVE  /\ text # None
           /\ text[1] \in Tabs /\ text[2] \in 1 .. MaxEdits
  BY NoneAssumption DEF Texts

LEMMA NewestText ==
    ASSUME NEW t \in Tabs, NEW n \in 1 .. MaxEdits
    PROVE  /\ <<t, n>> \in Texts /\ <<t, n>> # None
           /\ <<t, n>>[1] = t /\ <<t, n>>[2] = n
  BY NoneAssumption DEF Texts

(* What the parts of the invariant say of the texts of one tab.            *)
LEMMA HeldFacts ==
    ASSUME IInv, NEW t \in Tabs
    PROVE  /\ tab[t] \in Coordinators
           /\ tab[t].edits = 0 => tab[t].pending = None /\ tab[t].saving = None
           /\ tab[t].pending # None => tab[t].pending = <<t, tab[t].edits>>
           /\ tab[t].pending = None /\ tab[t].saving # None =>
                tab[t].saving = <<t, tab[t].edits>>
  <1>1. tab[t] \in Coordinators
    BY DEF IInv, TypeOK, TabTypeOK
  <1>2. tab[t].edits = 0 => Latest(t) = None
    BY DEF Latest
  <1>3. tab[t].edits # 0 => Latest(t) = <<t, tab[t].edits>>
    BY DEF Latest
  <1>4. Latest(t) = IF tab[t].pending # None THEN tab[t].pending
                    ELSE IF tab[t].saving # None THEN tab[t].saving
                    ELSE tab[t].acked
    BY DEF IInv, NewestIsHeld
  <1>5. tab[t].saving # None =>
          tab[t].saving[2] \in 1 .. MaxEdits /\ tab[t].saving[2] <= tab[t].edits
    BY <1>1, TextFacts DEF Coordinators, IInv, SentAreOlder
  <1>6. tab[t].edits = 0 => tab[t].saving = None
    BY <1>1, <1>5, EditsAssumption DEF Coordinators
  <1> QED  BY <1>1, <1>2, <1>3, <1>4, <1>6

(* A tab takes the state s, perhaps with a request begun or ended, and     *)
(* perhaps giving up its save: what all its own steps have in common.      *)
Follows(t, s) ==
  LET old == tab[t]
      did == request'[t].did
  IN  /\ s \in Coordinators
      /\ s.edits \in old.edits .. MaxEdits /\ s.version >= old.version
      /\ (IF s.edits = 0 THEN None ELSE <<t, s.edits>>) =
           IF s.pending # None THEN s.pending
           ELSE IF s.saving # None THEN s.saving ELSE s.acked
      /\ s.saving \in {None, old.saving, <<t, s.edits>>}
      /\ s.saving # None => s.edits # 0
      /\ s.mounted \in {"NO", "ASKING"} => s.edits = 0 /\ s.version = 0
      /\ s.mounted = "FLUSHING" => s.pending = None /\ s.saving # None
      /\ s.mounted = "GONE" =>
           s.saving = None /\ (s.pending = None \/ s.phase \in {"CONFLICT", "ERROR"})

Requests(t, s) ==
  /\ request' \in [Tabs -> [did : {"NONE", "SENT", "SAVED", "REFUSED"}, version : Nat]]
  /\ \A u \in Tabs \ {t} : request'[u] = request[u]
  /\ request'[t].did = "NONE" <=> s.saving = None
  /\ request'[t].did = "SAVED" => request'[t] = request[t] /\ s.version = tab[t].version
  /\ Knows(t, s.version)
  /\ s.mounted = "ASKING" => tab[t].mounted = "ASKING"

GivesUp(t, s) ==
  \/ late' = late
  \/ /\ late = {} /\ tab[t].saving # None /\ s.saving = None
     /\ late' = {[tab |-> t, base |-> tab[t].version, text |-> tab[t].saving]}

LEMMA TabStep ==
    ASSUME IInv, NEW t \in Tabs, NEW s, tab' = [tab EXCEPT ![t] = s],
           Follows(t, s), Requests(t, s), GivesUp(t, s), UNCHANGED <<draft, drafts, seen>>
    PROVE  IInv'
  <1>1. /\ tab \in [Tabs -> Coordinators] /\ tab' \in [Tabs -> Coordinators]
        /\ tab'[t] = s /\ \A u \in Tabs \ {t} : tab'[u] = tab[u]
    BY DEF Follows, IInv, TypeOK, TabTypeOK
  <1>2. tab[t].saving # None => tab[t].saving \in Texts
    BY <1>1 DEF Coordinators
  <1>3. late' \subseteq Calls
    <2>1. CASE late' = late
      BY <2>1 DEF IInv, TypeOK
    <2>2. CASE late' # late
      BY <1>1, <1>2, <2>2 DEF GivesUp, Calls, Coordinators
    <2> QED  BY <2>1, <2>2
  <1>4. TypeOK'
    BY <1>1, <1>3 DEF IInv, TypeOK, TabTypeOK, Requests
  <1>5. NewestIsHeld'
    BY <1>1 DEF IInv, NewestIsHeld, Latest, Follows
  <1>6. SavingIsRequested'
    BY <1>1 DEF IInv, SavingIsRequested, Requests
  <1>7. PhasesOfATab'
    BY <1>1 DEF IInv, PhasesOfATab, Follows
  <1>8. UnmountedHasSaved'
    BY <1>1 DEF IInv, UnmountedHasSaved, Latest, Follows
  <1>9. /\ s.saving # None => s.saving[1] = t /\ s.saving[2] <= s.edits
        /\ \A text \in Texts : NoNewerThan(t, text) => NoNewerThan(t, text)'
    <2>1. /\ s.edits \in 0 .. MaxEdits /\ tab[t].edits \in 0 .. MaxEdits
          /\ tab[t].edits <= s.edits
      BY <1>1, EditsAssumption DEF Follows, Coordinators
    <2>2. CASE s.saving = None
      BY <1>1, <2>1, <2>2, TextFacts DEF NoNewerThan
    <2>3. CASE s.saving = tab[t].saving /\ s.saving # None
      <3>1. s.saving[1] = t /\ s.saving[2] <= tab[t].edits /\ s.saving[2] \in 1 .. MaxEdits
        BY <1>2, <2>3, TextFacts DEF IInv, SentAreOlder
      <3> QED  BY <1>1, <2>1, <2>3, <3>1, TextFacts, EditsAssumption DEF NoNewerThan
    <2>4. CASE s.saving = <<t, s.edits>> /\ s.saving # None
      <3>1. s.saving[1] = t /\ s.saving[2] = s.edits
        BY <2>4
      <3> QED  BY <1>1, <2>1, <2>4, <3>1, TextFacts, EditsAssumption DEF NoNewerThan
    <2> QED  BY <2>2, <2>3, <2>4 DEF Follows
  <1>10. \A u \in Tabs, text \in Texts : NoNewerThan(u, text) => NoNewerThan(u, text)'
    BY <1>1, <1>9 DEF NoNewerThan
  <1>11. ASSUME NEW call \in late', call \notin late
         PROVE  /\ call.tab = t /\ call.text[1] = t /\ NoNewerThan(t, call.text)'
                /\ call.base = tab[t].version
                /\ (draft # NoDraft /\ draft.text[1] = t) => draft.text[2] <= call.text[2]
    <2>1. /\ call = [tab |-> t, base |-> tab[t].version, text |-> tab[t].saving]
          /\ tab[t].saving # None /\ s.saving = None
      BY <1>11 DEF GivesUp
    <2>2. tab[t].saving[1] = t /\ tab[t].saving[2] <= tab[t].edits
      BY <2>1 DEF IInv, SentAreOlder
    <2>3. NoNewerThan(t, call.text)'
      <3>1. call.text = tab[t].saving /\ call.text \in Texts
        BY <1>2, <2>1
      <3> QED  BY <1>1, <2>1, <2>2, <3>1, TextFacts, EditsAssumption
               DEF NoNewerThan, Follows, Coordinators
    <2>4. (draft # NoDraft /\ draft.text[1] = t) => draft.text[2] <= tab[t].saving[2]
      BY <2>1 DEF IInv, SentAreOlder, NoNewerThan
    <2> QED  BY <2>1, <2>2, <2>3, <2>4
  <1>12. draft # NoDraft => draft.text \in Texts /\ draft.version \in Nat
    BY DEF IInv, TypeOK, Drafts
  <1>13. \A call \in late : call \in Calls
    BY DEF IInv, TypeOK
  <1>14. SentAreOlder'
    BY <1>1, <1>9, <1>10, <1>11, <1>12, <1>13 DEF IInv, SentAreOlder, Calls
  <1>15. LateAreBehind'
    <2>1. \A a, b \in late' : a = b
      BY DEF GivesUp, IInv, LateAreBehind
    <2>2. tab[t].version \in Nat /\ s.version \in Nat /\ tab[t].version <= s.version
      BY <1>1 DEF Follows, Coordinators
    <2>3. \A call \in late : call.base <= tab'[call.tab].version
      BY <1>1, <1>13, <2>2 DEF IInv, LateAreBehind, Calls, Coordinators
    <2>4. \A call \in late' : call.base <= tab'[call.tab].version
      BY <1>1, <1>11, <2>2, <2>3
    <2> QED  BY <1>11, <2>1, <2>4 DEF IInv, LateAreBehind
  <1>16. KnownIsSeen'
    <2>1. \A u \in Tabs, version \in Nat : Knows(u, version)' => Knows(u, version)
      BY <1>1 DEF Requests, Knows
    <2>2. \A u \in Tabs : request'[u].did = "SAVED" => tab'[u].version < request'[u].version
      BY <1>1 DEF IInv, KnownIsSeen, Requests
    <2> QED  BY <2>1, <2>2 DEF IInv, KnownIsSeen
  <1> QED  BY <1>4, <1>5, <1>6, <1>7, <1>8, <1>14, <1>15, <1>16 DEF IInv

-----------------------------------------------------------------------------
(* The steps of a tab.                                                     *)

LEMMA EditStep ==
    ASSUME IInv, NEW t \in Tabs, Edit(t), UNCHANGED <<draft, drafts, request, late, seen>>
    PROVE  IInv'
  <1> DEFINE n == tab[t].edits + 1
             text == <<t, n>>
             timer == tab[t].saving = None
             s == [tab[t] EXCEPT !.edits = n, !.pending = text,
                                 !.phase = "DIRTY", !.timer = timer]
  <1>1. tab[t] \in Coordinators /\ tab[t].mounted = "EDITING"
    BY HeldFacts DEF Edit
  <1>2. text \in Texts /\ text # None
    BY <1>1, NewestText, EditsAssumption DEF Edit, Coordinators
  <1>3. tab' = [tab EXCEPT ![t] = s]
    BY DEF Edit
  <1>4. /\ n \in 0 .. MaxEdits /\ n # 0 /\ n \in tab[t].edits .. MaxEdits
        /\ text = <<t, n>> /\ timer \in BOOLEAN
    BY <1>1, EditsAssumption DEF Coordinators, Edit
  <1> HIDE DEF n, text, timer
  <1>5. /\ s \in Coordinators /\ s.mounted = "EDITING" /\ s.version = tab[t].version
        /\ s.edits = n /\ s.pending = text /\ s.saving = tab[t].saving
    BY <1>1, <1>2, <1>4 DEF Coordinators, Phases
  <1> HIDE DEF s
  <1>6. Follows(t, s)
    BY <1>1, <1>2, <1>4, <1>5, EditsAssumption DEF Follows, Coordinators
  <1>7. Requests(t, s)
    BY <1>5 DEF Requests, Knows, IInv, TypeOK, SavingIsRequested
  <1>8. GivesUp(t, s)
    BY DEF GivesUp
  <1> QED  BY <1>3, <1>6, <1>7, <1>8, TabStep

(* Steps that change where a tab is, and nothing that it holds.            *)
LEMMA MountStep ==
    ASSUME IInv, NEW t \in Tabs, UNCHANGED <<draft, drafts, request, late, seen>>,
           Unmount(t) \/ Restore(t)
    PROVE  IInv'
  <1>1. tab[t] \in Coordinators
    BY HeldFacts
  <1>2. PICK s \in Coordinators :
          /\ tab' = [tab EXCEPT ![t] = s]
          /\ s.mounted \in {"EDITING", "CLOSING"}
          /\ s.edits = tab[t].edits /\ s.pending = tab[t].pending
          /\ s.saving = tab[t].saving /\ s.acked = tab[t].acked
          /\ s.version >= tab[t].version /\ Knows(t, s.version)
          /\ s.version # tab[t].version => tab[t].saving = None
    <2>1. CASE Unmount(t)
      <3> DEFINE s == [tab[t] EXCEPT !.mounted = "CLOSING", !.timer = FALSE]
      <3>1. /\ s \in Coordinators /\ s.mounted = "CLOSING" /\ s.edits = tab[t].edits
            /\ s.pending = tab[t].pending /\ s.saving = tab[t].saving
            /\ s.acked = tab[t].acked /\ s.version = tab[t].version
        BY <1>1 DEF Coordinators
      <3>2. tab' = [tab EXCEPT ![t] = s]
        BY <2>1 DEF Unmount
      <3>3. s.version >= tab[t].version /\ Knows(t, s.version)
        BY <1>1, <3>1 DEF Knows, Coordinators
      <3> HIDE DEF s
      <3> QED  BY <3>1, <3>2, <3>3
    <2>2. CASE Restore(t)
      <3> DEFINE s == [tab[t] EXCEPT !.mounted = "EDITING", !.version = seen[t].version]
      <3>1. seen[t].version \in Nat /\ tab[t].mounted = "ASKING"
        BY <2>2 DEF IInv, TypeOK, Restore
      <3>2. /\ s \in Coordinators /\ s.mounted = "EDITING" /\ s.edits = tab[t].edits
            /\ s.pending = tab[t].pending /\ s.saving = tab[t].saving
            /\ s.acked = tab[t].acked /\ s.version = seen[t].version
        BY <1>1, <3>1 DEF Coordinators
      <3>3. tab' = [tab EXCEPT ![t] = s]
        BY <2>2 DEF Restore
      <3>4. tab[t].edits = 0 /\ tab[t].version = 0
        BY <3>1 DEF IInv, PhasesOfATab
      <3>5. tab[t].saving = None /\ s.version >= tab[t].version /\ Knows(t, s.version)
        BY <3>1, <3>2, <3>4, HeldFacts DEF Knows
      <3> HIDE DEF s
      <3> QED  BY <3>2, <3>3, <3>5
    <2> QED  BY <2>1, <2>2
  <1>3. Follows(t, s)
    BY <1>1, <1>2, HeldFacts, EditsAssumption
       DEF Follows, Coordinators, IInv, NewestIsHeld, Latest
  <1>4. Requests(t, s)
    BY <1>2 DEF Requests, IInv, TypeOK, SavingIsRequested
  <1>5. GivesUp(t, s)
    BY DEF GivesUp
  <1> QED  BY <1>2, <1>3, <1>4, <1>5, TabStep

LEMMA StartSaveStep ==
    ASSUME IInv, NEW t \in Tabs, StartSave(t)
    PROVE  IInv'
  <1>1. /\ tab[t] \in Coordinators /\ tab[t].saving = None
        /\ tab[t].mounted \in {"EDITING", "CLOSING"}
    BY HeldFacts DEF StartSave, Flush, FinalFlush
  <1>2. PICK s \in Coordinators :
          /\ tab' = [tab EXCEPT ![t] = s]
          /\ s.edits = tab[t].edits /\ s.version = tab[t].version /\ s.acked = tab[t].acked
          /\ \/ /\ s.mounted \in {"EDITING", "FLUSHING"} /\ tab[t].pending # None
                /\ s.saving = tab[t].pending /\ s.pending = None
             \/ /\ s.mounted = "GONE" /\ tab[t].pending = None
                /\ s.saving = None /\ s.pending = None
    <2>1. /\ Running(tab[t]) \in Coordinators /\ Running(tab[t]).mounted = tab[t].mounted
          /\ Running(tab[t]).edits = tab[t].edits /\ Running(tab[t]).version = tab[t].version
          /\ Running(tab[t]).acked = tab[t].acked
          /\ Running(tab[t]).saving = tab[t].pending /\ Running(tab[t]).pending = None
      BY <1>1 DEF Running, Coordinators, Phases
    <2>2. CASE Flush(t)
      BY <2>1, <2>2 DEF Flush
    <2>3. CASE FinalFlush(t) /\ tab[t].pending # None
      <3> DEFINE s == [Running(tab[t]) EXCEPT !.mounted = "FLUSHING"]
      <3>1. /\ s \in Coordinators /\ s.mounted = "FLUSHING" /\ s.edits = tab[t].edits
            /\ s.version = tab[t].version /\ s.acked = tab[t].acked
            /\ s.saving = tab[t].pending /\ s.pending = None
        BY <2>1 DEF Coordinators
      <3>2. tab' = [tab EXCEPT ![t] = s]
        BY <2>3 DEF FinalFlush, NeedsFinalSave
      <3> HIDE DEF s
      <3> QED  BY <2>3, <3>1, <3>2
    <2>4. CASE FinalFlush(t) /\ tab[t].pending = None
      <3> DEFINE s == [tab[t] EXCEPT !.mounted = "GONE"]
      <3>1. /\ s \in Coordinators /\ s.mounted = "GONE" /\ s.edits = tab[t].edits
            /\ s.version = tab[t].version /\ s.acked = tab[t].acked
            /\ s.saving = None /\ s.pending = None
        BY <1>1, <2>4 DEF Coordinators
      <3>2. tab' = [tab EXCEPT ![t] = s]
        BY <2>4 DEF FinalFlush, NeedsFinalSave
      <3> HIDE DEF s
      <3> QED  BY <2>4, <3>1, <3>2
    <2> QED  BY <2>2, <2>3, <2>4 DEF StartSave
  <1>3. Follows(t, s)
    BY <1>1, <1>2, HeldFacts, EditsAssumption
       DEF Follows, Coordinators, IInv, NewestIsHeld, Latest
  <1>4. tab'[t].saving = s.saving
    BY <1>2 DEF IInv, TypeOK, TabTypeOK
  <1>5. Requests(t, s)
    BY <1>1, <1>2, <1>4 DEF Requests, Knows, StartSave, IInv, TypeOK, SavingIsRequested
  <1>6. GivesUp(t, s)
    BY DEF GivesUp, StartSave
  <1> QED  BY <1>2, <1>3, <1>5, <1>6, TabStep DEF StartSave

(* The end of a save: a reply of the host, or an error in its place.       *)
LEMMA SaveEnds ==
    ASSUME IInv, NEW t \in Tabs, Reply(t) \/ LoseCall(t)
    PROVE  IInv'
  <1>1. /\ tab[t] \in Coordinators /\ tab[t].saving # None
        /\ tab[t].mounted \notin {"NO", "ASKING", "GONE"}
    BY HeldFacts DEF Reply, LoseCall, IInv, SavingIsRequested, PhasesOfATab
  <1>2. PICK s \in Coordinators :
          /\ tab' = [tab EXCEPT ![t] = s]
          /\ s.saving = None /\ s.edits = tab[t].edits
          /\ s.mounted = AfterSave(tab[t])
          /\ \/ /\ s.pending = tab[t].pending /\ s.acked = tab[t].saving
                /\ s.version = request[t].version /\ request[t].did = "SAVED"
             \/ /\ s.pending = Kept(tab[t]) /\ s.acked = tab[t].acked
                /\ s.version = tab[t].version /\ s.phase \in {"CONFLICT", "ERROR"}
    <2>1. AfterSave(tab[t]) \in {"NO", "ASKING", "EDITING", "CLOSING", "FLUSHING", "GONE"}
      BY <1>1 DEF AfterSave, Coordinators
    <2>2. CASE request[t].did = "SAVED" /\ Acknowledge(t, request[t].version)
      <3> DEFINE phase == IF tab[t].pending = None THEN "SAVED" ELSE "DIRTY"
                 s == [tab[t] EXCEPT !.phase = phase, !.version = request[t].version,
                                     !.acked = tab[t].saving, !.saving = None,
                                     !.mounted = AfterSave(tab[t])]
      <3>1. request[t].version \in Nat /\ phase \in Phases
        BY DEF IInv, TypeOK, Phases
      <3>2. tab' = [tab EXCEPT ![t] = s]
        BY <2>2 DEF Acknowledge
      <3> HIDE DEF phase
      <3>3. /\ s \in Coordinators /\ s.saving = None /\ s.edits = tab[t].edits
            /\ s.mounted = AfterSave(tab[t]) /\ s.pending = tab[t].pending
            /\ s.acked = tab[t].saving /\ s.version = request[t].version
        BY <1>1, <2>1, <3>1 DEF Coordinators
      <3> HIDE DEF s
      <3> QED  BY <2>2, <3>2, <3>3
    <2>3. ASSUME NEW phase \in {"CONFLICT", "ERROR"}, Refuse(t, phase)
          PROVE  \E s \in Coordinators :
                   /\ tab' = [tab EXCEPT ![t] = s]
                   /\ s.saving = None /\ s.edits = tab[t].edits
                   /\ s.mounted = AfterSave(tab[t])
                   /\ s.pending = Kept(tab[t]) /\ s.acked = tab[t].acked
                   /\ s.version = tab[t].version /\ s.phase \in {"CONFLICT", "ERROR"}
      <3> DEFINE s == [tab[t] EXCEPT !.phase = phase, !.pending = Kept(tab[t]),
                                     !.saving = None, !.mounted = AfterSave(tab[t])]
      <3>1. Kept(tab[t]) \in Texts \cup {None}
        BY <1>1 DEF Kept, Coordinators
      <3>2. tab' = [tab EXCEPT ![t] = s]
        BY <2>3 DEF Refuse
      <3>3. /\ s \in Coordinators /\ s.saving = None /\ s.edits = tab[t].edits
            /\ s.mounted = AfterSave(tab[t]) /\ s.pending = Kept(tab[t])
            /\ s.acked = tab[t].acked /\ s.version = tab[t].version /\ s.phase = phase
        BY <1>1, <2>1, <3>1 DEF Coordinators, Phases
      <3> HIDE DEF s
      <3> QED  BY <3>2, <3>3
    <2> QED  BY <2>2, <2>3 DEF Reply, LoseCall
  <1>3. s.version >= tab[t].version /\ Knows(t, s.version)
    <2>1. CASE s.version = tab[t].version
      BY <1>1, <2>1 DEF Knows, Coordinators
    <2>2. CASE s.version = request[t].version /\ request[t].did = "SAVED"
      BY <1>1, <2>2 DEF Knows, Coordinators, IInv, KnownIsSeen, TypeOK
    <2> QED  BY <1>2, <2>1, <2>2
  <1>4. Follows(t, s)
    <2>1. /\ tab[t].mounted = "FLUSHING" => tab[t].pending = None
          /\ s.mounted \notin {"NO", "ASKING", "FLUSHING"}
          /\ s.mounted = "GONE" => tab[t].mounted = "FLUSHING"
      BY <1>1, <1>2 DEF AfterSave, IInv, PhasesOfATab
    <2>2. tab[t].edits # 0
      BY <1>1, HeldFacts
    <2> QED  BY <1>1, <1>2, <1>3, <2>1, <2>2, HeldFacts, EditsAssumption
             DEF Follows, Coordinators, Kept
  <1>5. Requests(t, s)
    <2>1. request' = [request EXCEPT ![t] = NoRequest]
      BY DEF Reply, LoseCall
    <2>2. s.mounted # "ASKING"
      BY <1>1, <1>2 DEF AfterSave
    <2> QED  BY <1>2, <1>3, <2>1, <2>2 DEF Requests, NoRequest, IInv, TypeOK
  <1>6. GivesUp(t, s)
    BY <1>1, <1>2 DEF GivesUp, Reply, LoseCall
  <1> QED  BY <1>2, <1>4, <1>5, <1>6, TabStep DEF Reply, LoseCall

-----------------------------------------------------------------------------
(* The steps of the page and of the host.                                  *)

(* What no step of the page or of the host changes in a tab.               *)
SameTexts ==
  /\ tab' \in [Tabs -> Coordinators]
  /\ \A t \in Tabs : /\ tab'[t].pending = tab[t].pending /\ tab'[t].saving = tab[t].saving
                     /\ tab'[t].acked = tab[t].acked /\ tab'[t].edits = tab[t].edits
                     /\ tab'[t].version = tab[t].version

LEMMA SameTextsKeep ==
    ASSUME IInv, SameTexts
    PROVE  /\ NewestIsHeld'
           /\ \A t \in Tabs, text \in Texts : NoNewerThan(t, text) => NoNewerThan(t, text)'
  BY DEF IInv, NewestIsHeld, Latest, SameTexts, NoNewerThan

LEMMA MountOnly ==
    ASSUME IInv, NEW t \in Tabs, NEW mounted \in {"ASKING", "EDITING"},
           tab[t].mounted \in {"NO", "ASKING"},
           tab' = [tab EXCEPT ![t].mounted = mounted]
    PROVE  /\ SameTexts /\ PhasesOfATab' /\ UnmountedHasSaved'
           /\ \A u \in Tabs : tab'[u].mounted = IF u = t THEN mounted ELSE tab[u].mounted
  <1>1. tab \in [Tabs -> Coordinators]
    BY DEF IInv, TypeOK, TabTypeOK
  <1>2. tab' = [tab EXCEPT ![t] = [tab[t] EXCEPT !.mounted = mounted]]
    OBVIOUS
  <1>3. SameTexts
    BY <1>1, <1>2 DEF SameTexts, Coordinators
  <1>4. \A u \in Tabs : /\ tab'[u].mounted = IF u = t THEN mounted ELSE tab[u].mounted
                        /\ tab'[u].phase = tab[u].phase
    BY <1>1, <1>2 DEF Coordinators
  <1> QED  BY <1>3, <1>4 DEF IInv, PhasesOfATab, UnmountedHasSaved, Latest, SameTexts

LEMMA OpenStep ==
    ASSUME IInv, NEW t \in Tabs, Open(t)
    PROVE  IInv'
  <1>1. PICK mounted \in {"ASKING", "EDITING"} :
          /\ tab' = [tab EXCEPT ![t].mounted = mounted]
          /\ mounted = "ASKING" => draft # NoDraft
    BY DEF Open
  <1>2. /\ SameTexts /\ PhasesOfATab' /\ UnmountedHasSaved'
        /\ \A u \in Tabs : tab'[u].mounted = IF u = t THEN mounted ELSE tab[u].mounted
    BY <1>1, MountOnly DEF Open
  <1>3. draft \in Drafts \cup {NoDraft} /\ drafts \in 0 .. MaxDrafts
    BY DEF IInv, TypeOK
  <1> DEFINE shown == [id |-> draft.id, version |-> draft.version,
                       texts |-> {draft.text} \ {None}]
  <1>4. /\ shown \in [id : 0 .. MaxDrafts, version : Nat, texts : SUBSET Texts]
        /\ shown.id = draft.id /\ shown.version = draft.version
        /\ draft # NoDraft => draft.text \in shown.texts /\ draft.id # 0
    BY <1>3, TextFacts, DraftsAssumption DEF Drafts, NoDraft
  <1>5. seen' = [seen EXCEPT ![t] = shown] /\ UNCHANGED <<draft, drafts, request, late>>
    BY DEF Open
  <1> HIDE DEF shown
  <1>6. /\ seen' \in [Tabs -> [id : 0 .. MaxDrafts, version : Nat, texts : SUBSET Texts]]
        /\ seen'[t] = shown /\ \A u \in Tabs \ {t} : seen'[u] = seen[u]
    BY <1>4, <1>5 DEF IInv, TypeOK
  <1>7. TypeOK'
    BY <1>2, <1>5, <1>6 DEF IInv, TypeOK, TabTypeOK, SameTexts
  <1>8. NewestIsHeld' /\ SavingIsRequested' /\ SentAreOlder' /\ LateAreBehind'
    <2>1. draft # NoDraft => draft.text \in Texts
      BY <1>3 DEF Drafts
    <2>2. \A call \in late : call.tab \in Tabs /\ call.text \in Texts
      BY DEF IInv, TypeOK, Calls
    <2> QED  BY <1>2, <1>5, <2>1, <2>2, SameTextsKeep
             DEF IInv, SavingIsRequested, SentAreOlder, LateAreBehind, SameTexts
  <1>9. KnownIsSeen'
    <2>1. tab[t].version = 0 /\ request[t].did # "SAVED" /\ tab[t].mounted = "NO"
      <3>1. tab[t].mounted = "NO" /\ tab[t].edits = 0 /\ tab[t].version = 0
        BY DEF Open, IInv, PhasesOfATab
      <3>2. tab[t].saving = None
        BY <3>1, HeldFacts
      <3> QED  BY <3>1, <3>2 DEF IInv, SavingIsRequested
    <2>2. \A u \in Tabs \ {t}, version \in Nat : Knows(u, version)' => Knows(u, version)
      BY <1>2, <1>5, <1>6 DEF Knows, SameTexts
    <2>3. ASSUME NEW version \in Nat, Knows(t, version)', draft # NoDraft
          PROVE  /\ version <= draft.version
                 /\ version = draft.version => draft.text \in shown.texts
      <3>1. version = 0 \/ version = shown.version
        BY <1>2, <1>5, <1>6, <2>1, <2>3 DEF Knows, SameTexts
      <3>2. draft.version \in Nat \ {0}
        BY <1>3, <2>3 DEF Drafts
      <3> QED  BY <1>4, <2>3, <3>1, <3>2
    <2>4. /\ \A u \in Tabs : seen'[u].id <= drafts
          /\ \A u \in Tabs : request'[u].did = "SAVED" => tab'[u].version < request'[u].version
      BY <1>2, <1>4, <1>5, <1>6 DEF IInv, KnownIsSeen, SameTexts
    <2> QED  BY <1>5, <1>6, <2>2, <2>3, <2>4 DEF IInv, KnownIsSeen
  <1> QED  BY <1>2, <1>7, <1>8, <1>9 DEF IInv

LEMMA DiscardStep ==
    ASSUME IInv, NEW t \in Tabs, Discard(t)
    PROVE  IInv'
  <1>1. tab' = [tab EXCEPT ![t].mounted = "EDITING"] /\ tab[t].mounted = "ASKING"
    BY DEF Discard
  <1>2. /\ SameTexts /\ PhasesOfATab' /\ UnmountedHasSaved'
        /\ \A u \in Tabs : tab'[u].mounted = IF u = t THEN "EDITING" ELSE tab[u].mounted
    BY <1>1, MountOnly
  <1>3. draft' = NoDraft /\ UNCHANGED <<drafts, request, late, seen>>
    BY DEF Discard
  <1>4. TypeOK'
    BY <1>2, <1>3 DEF IInv, TypeOK, TabTypeOK, SameTexts
  <1>5. NewestIsHeld' /\ SavingIsRequested' /\ SentAreOlder' /\ LateAreBehind'
    <2>1. \A call \in late : call.tab \in Tabs /\ call.text \in Texts
      BY DEF IInv, TypeOK, Calls
    <2> QED  BY <1>2, <1>3, <2>1, SameTextsKeep
             DEF IInv, SavingIsRequested, SentAreOlder, LateAreBehind, SameTexts
  <1>6. KnownIsSeen'
    BY <1>2, <1>3 DEF IInv, KnownIsSeen, SameTexts, NoDraft, TypeOK
  <1> QED  BY <1>2, <1>4, <1>5, <1>6 DEF IInv

(* A save that the host carries out: the draft it makes or advances.       *)
LEMMA StoreFacts ==
    ASSUME IInv, NEW base \in Nat, NEW text \in Texts, Store(base, text)
    PROVE  /\ draft' \in Drafts /\ draft' # NoDraft
           /\ draft'.text = text /\ draft'.version = base + 1
           /\ drafts' \in 0 .. MaxDrafts /\ drafts <= drafts' /\ draft'.id <= drafts'
           /\ \/ draft = NoDraft /\ draft'.id = drafts + 1
              \/ draft # NoDraft /\ draft.version = base /\ draft'.id = draft.id
  <1>1. draft \in Drafts \cup {NoDraft} /\ drafts \in 0 .. MaxDrafts /\ draft.id <= drafts
    BY DEF IInv, TypeOK, KnownIsSeen
  <1>2. CASE base = 0
    <2>1. draft = NoDraft /\ drafts < MaxDrafts
      BY <1>2 DEF Store, Refuses
    <2>2. draft' = [id |-> drafts + 1, version |-> 1, text |-> text] /\ drafts' = drafts + 1
      BY <1>2 DEF Store
    <2> QED  BY <1>1, <1>2, <2>1, <2>2, DraftsAssumption DEF Drafts, NoDraft
  <1>3. CASE base # 0
    <2>1. draft # NoDraft /\ draft.version = base
      BY <1>3 DEF Store, Refuses, Matches
    <2>2. /\ draft' = [id |-> draft.id, version |-> draft.version + 1, text |-> text]
          /\ drafts' = drafts
      BY <1>3 DEF Store
    <2> QED  BY <1>1, <1>3, <2>1, <2>2, DraftsAssumption DEF Drafts, NoDraft
  <1> QED  BY <1>2, <1>3

(* What a save of tab u leaves behind, by which road it came: in the tab's *)
(* history, in its request, and among the saves that are still to arrive.  *)
SavesFor(u, base, text) ==
  /\ UNCHANGED tab /\ late' \subseteq late
  /\ text[1] = u /\ NoNewerThan(u, text)
  /\ \A call \in late' : call.tab = u => call.base <= base
  /\ seen' \in [Tabs -> [id : 0 .. MaxDrafts, version : Nat, texts : SUBSET Texts]]
  /\ \A v \in Tabs \ {u} : seen'[v] = seen[v] /\ request'[v] = request[v]
  /\ text \in seen'[u].texts /\ seen'[u].version = seen[u].version
  /\ request' \in [Tabs -> [did : {"NONE", "SENT", "SAVED", "REFUSED"}, version : Nat]]
  /\ \/ request'[u] = request[u] /\ seen'[u].id = seen[u].id
     \/ /\ request[u].did = "SENT" /\ request'[u] = [did |-> "SAVED", version |-> base + 1]
        /\ base = tab[u].version /\ tab[u].mounted # "ASKING" /\ seen'[u].id = draft'.id

LEMMA StoreStep ==
    ASSUME IInv, NEW u \in Tabs, NEW base \in Nat, NEW text \in Texts,
           Store(base, text), SavesFor(u, base, text)
    PROVE  IInv'
  <1>1. /\ draft' \in Drafts /\ draft' # NoDraft
        /\ draft'.text = text /\ draft'.version = base + 1
        /\ drafts' \in 0 .. MaxDrafts /\ drafts <= drafts' /\ draft'.id <= drafts'
        /\ \/ draft = NoDraft /\ draft'.id = drafts + 1
           \/ draft # NoDraft /\ draft.version = base /\ draft'.id = draft.id
    BY StoreFacts
  <1>2. TypeOK'
    BY <1>1 DEF SavesFor, IInv, TypeOK, TabTypeOK
  <1>3. NewestIsHeld' /\ PhasesOfATab' /\ UnmountedHasSaved'
    BY DEF SavesFor, IInv, NewestIsHeld, PhasesOfATab, UnmountedHasSaved, Latest
  <1>4. SavingIsRequested'
    BY DEF SavesFor, IInv, SavingIsRequested
  <1>5. SentAreOlder'
    BY <1>1 DEF SavesFor, IInv, SentAreOlder, NoNewerThan
  <1>6. LateAreBehind'
    <2>1. \A call \in late' : call.base \in Nat /\ call \in late
      BY DEF SavesFor, IInv, TypeOK, Calls
    <2>2. \A call \in late' : call.tab = u => call.base < draft'.version
      BY <1>1, <2>1 DEF SavesFor
    <2>3. \A call \in late' : call.base <= tab'[call.tab].version
      BY <2>1 DEF SavesFor, IInv, LateAreBehind
    <2>4. \A a, b \in late' : a = b
      BY <2>1 DEF IInv, LateAreBehind
    <2>5. draft'.text[1] = u
      BY <1>1 DEF SavesFor
    <2> QED  BY <2>2, <2>3, <2>4, <2>5 DEF LateAreBehind
  <1>7. KnownIsSeen'
    <2>1. drafts \in Nat /\ drafts' \in Nat /\ \A v \in Tabs : seen[v].id \in Nat /\ seen[v].id <= drafts
      BY <1>1, DraftsAssumption DEF IInv, TypeOK, KnownIsSeen
    <2>2. \A v \in Tabs : seen'[v].id = seen[v].id \/ (v = u /\ seen'[v].id = draft'.id)
      BY DEF SavesFor
    <2>3. \A v \in Tabs : seen'[v].id <= drafts'
      BY <1>1, <2>1, <2>2
    <2>4. \A v \in Tabs : request'[v].did = "SAVED" => tab'[v].version < request'[v].version
      BY DEF SavesFor, IInv, KnownIsSeen
    <2>5. ASSUME NEW v \in Tabs, NEW version \in Nat, seen[v].id = draft'.id, Knows(v, version)
          PROVE  version <= base
      <3>1. draft # NoDraft /\ draft.version = base /\ seen[v].id = draft.id
        BY <1>1, <2>1, <2>5
      <3> QED  BY <2>5, <3>1 DEF IInv, KnownIsSeen
    <2>6. ASSUME NEW v \in Tabs, NEW version \in Nat, seen'[v].id = draft'.id,
                 Knows(v, version)'
          PROVE  /\ version <= base + 1
                 /\ version = base + 1 => draft'.text \in seen'[v].texts
      <3>1. CASE request'[v] = request[v] /\ seen'[v].id = seen[v].id
        <4>1. Knows(v, version)
          BY <2>6, <3>1 DEF Knows, SavesFor
        <4> QED  BY <2>5, <2>6, <3>1, <4>1
      <3>2. CASE v = u /\ base = tab[u].version /\ tab[u].mounted # "ASKING"
                 /\ request'[u] = [did |-> "SAVED", version |-> base + 1]
        <4>1. version = base \/ version = base + 1
          BY <2>6, <3>2 DEF Knows, SavesFor
        <4> QED  BY <1>1, <3>2, <4>1 DEF SavesFor
      <3> QED  BY <3>1, <3>2 DEF SavesFor
    <2> QED  BY <1>1, <2>3, <2>4, <2>6 DEF KnownIsSeen
  <1> QED  BY <1>2, <1>3, <1>4, <1>5, <1>6, <1>7 DEF IInv

LEMMA ServeStep ==
    ASSUME IInv, NEW t \in Tabs, Serve(t)
    PROVE  IInv'
  <1>1. /\ tab[t] \in Coordinators /\ tab[t].saving # None /\ request[t].did = "SENT"
        /\ tab[t].mounted \notin {"NO", "ASKING", "GONE"}
    BY HeldFacts DEF Serve, IInv, SavingIsRequested, PhasesOfATab
  <1> DEFINE base == tab[t].version
             text == tab[t].saving
  <1>2. base \in Nat /\ text \in Texts
    BY <1>1 DEF Coordinators
  <1>3. UNCHANGED <<tab, late>>
    BY DEF Serve
  <1>4. CASE Store(base, text)
             /\ seen' = [seen EXCEPT ![t].id = draft'.id, ![t].texts = @ \cup {text}]
             /\ request' = [request EXCEPT ![t] = [did |-> "SAVED", version |-> draft'.version]]
    <2>1. draft'.version = base + 1 /\ draft'.id \in 0 .. MaxDrafts
      BY <1>2, <1>4, StoreFacts DEF Drafts
    <2>2. text[1] = t /\ NoNewerThan(t, text)
      BY <1>1, <1>2, TextFacts DEF IInv, SentAreOlder, NoNewerThan
    <2> DEFINE now == [seen[t] EXCEPT !.id = draft'.id, !.texts = seen[t].texts \cup {text}]
    <2>3. seen' = [seen EXCEPT ![t] = now]
      BY <1>4
    <2>4. /\ now \in [id : 0 .. MaxDrafts, version : Nat, texts : SUBSET Texts]
          /\ now.id = draft'.id /\ now.version = seen[t].version /\ text \in now.texts
      BY <1>2, <2>1 DEF IInv, TypeOK
    <2> HIDE DEF now
    <2>5. \A call \in late : call.tab = t => call.base <= base
      BY DEF IInv, LateAreBehind
    <2>6. /\ seen' \in [Tabs -> [id : 0 .. MaxDrafts, version : Nat, texts : SUBSET Texts]]
          /\ seen'[t] = now /\ \A v \in Tabs \ {t} : seen'[v] = seen[v]
      BY <2>3, <2>4 DEF IInv, TypeOK
    <2>7. request' = [request EXCEPT ![t] = [did |-> "SAVED", version |-> base + 1]]
      BY <1>4, <2>1
    <2>8. /\ request' \in [Tabs -> [did : {"NONE", "SENT", "SAVED", "REFUSED"}, version : Nat]]
          /\ request'[t] = [did |-> "SAVED", version |-> base + 1]
          /\ \A v \in Tabs \ {t} : request'[v] = request[v]
      BY <1>2, <2>7 DEF IInv, TypeOK
    <2>9. SavesFor(t, base, text)
      BY <1>1, <1>3, <2>2, <2>4, <2>5, <2>6, <2>8 DEF SavesFor
    <2> HIDE DEF base, text
    <2> QED  BY <1>2, <1>4, <2>9, StoreStep
  <1>5. CASE request' = [request EXCEPT ![t].did = "REFUSED"] /\ UNCHANGED <<draft, drafts, seen>>
    <2>1. tab' = [tab EXCEPT ![t] = tab[t]]
      BY <1>3 DEF IInv, TypeOK, TabTypeOK
    <2>2. Follows(t, tab[t])
      BY <1>1, HeldFacts, EditsAssumption DEF Follows, Coordinators, IInv, NewestIsHeld, Latest,
                                              PhasesOfATab
    <2>3. Requests(t, tab[t])
      BY <1>1, <1>5 DEF Requests, Knows, IInv, TypeOK
    <2>4. GivesUp(t, tab[t])
      BY <1>3 DEF GivesUp
    <2> QED  BY <1>5, <2>1, <2>2, <2>3, <2>4, TabStep
  <1> QED  BY <1>4, <1>5 DEF Serve

LEMMA ServeLateStep ==
    ASSUME IInv, NEW call \in late, ServeLate(call)
    PROVE  IInv'
  <1>1. /\ call.tab \in Tabs /\ call.base \in Nat /\ call.text \in Texts
        /\ call.text[1] = call.tab /\ NoNewerThan(call.tab, call.text)
    BY DEF IInv, TypeOK, Calls, SentAreOlder
  <1>2. late' = {} /\ UNCHANGED <<tab, request>>
    BY DEF ServeLate, IInv, LateAreBehind
  <1>3. CASE Store(call.base, call.text)
             /\ seen' = [seen EXCEPT ![call.tab].texts = @ \cup {call.text}]
    <2> DEFINE now == [seen[call.tab] EXCEPT !.texts = seen[call.tab].texts \cup {call.text}]
    <2>1. seen' = [seen EXCEPT ![call.tab] = now]
      BY <1>3
    <2>2. /\ now \in [id : 0 .. MaxDrafts, version : Nat, texts : SUBSET Texts]
          /\ now.id = seen[call.tab].id /\ now.version = seen[call.tab].version
          /\ call.text \in now.texts
      BY <1>1 DEF IInv, TypeOK
    <2> HIDE DEF now
    <2>3. SavesFor(call.tab, call.base, call.text)
      BY <1>1, <1>2, <2>1, <2>2 DEF SavesFor, IInv, TypeOK
    <2> QED  BY <1>1, <1>3, <2>3, StoreStep
  <1>4. CASE UNCHANGED <<draft, drafts, seen>>
    BY <1>2, <1>4 DEF IInv, TypeOK, TabTypeOK, NewestIsHeld, Latest, SavingIsRequested,
                      PhasesOfATab, UnmountedHasSaved, SentAreOlder, NoNewerThan,
                      LateAreBehind, KnownIsSeen, Knows
  <1> QED  BY <1>3, <1>4 DEF ServeLate

-----------------------------------------------------------------------------
LEMMA InitIInv == Init => IInv
  <1> SUFFICES ASSUME Init PROVE IInv
    OBVIOUS
  <1>1. Unmounted \in Coordinators
    BY EditsAssumption DEF Unmounted, Coordinators, Phases
  <1>2. TypeOK
    BY <1>1, DraftsAssumption DEF Init, TypeOK, TabTypeOK, NoDraft, NoRequest
  <1>3. /\ NewestIsHeld /\ SavingIsRequested /\ PhasesOfATab /\ UnmountedHasSaved
        /\ SentAreOlder /\ LateAreBehind /\ KnownIsSeen
    BY DEF Init, Unmounted, NoDraft, NoRequest, NewestIsHeld, Latest, SavingIsRequested,
           PhasesOfATab, UnmountedHasSaved, SentAreOlder, LateAreBehind, KnownIsSeen
  <1> QED  BY <1>2, <1>3 DEF IInv

LEMMA NextIInv == IInv /\ [Next]_vars => IInv'
  <1> SUFFICES ASSUME IInv, [Next]_vars PROVE IInv'
    OBVIOUS
  <1>1. ASSUME NEW call \in late, ServeLate(call) PROVE IInv'
    BY <1>1, ServeLateStep
  <1>2. ASSUME NEW t \in Tabs, Open(t) \/ Discard(t) PROVE IInv'
    BY <1>2, OpenStep, DiscardStep
  <1>3. ASSUME NEW t \in Tabs, Restore(t) \/ TabOnly(t) PROVE IInv'
    BY <1>3, EditStep, MountStep DEF Restore, TabOnly
  <1>4. ASSUME NEW t \in Tabs, StartSave(t) PROVE IInv'
    BY <1>4, StartSaveStep
  <1>5. ASSUME NEW t \in Tabs, Serve(t) PROVE IInv'
    BY <1>5, ServeStep
  <1>6. ASSUME NEW t \in Tabs, Reply(t) \/ LoseCall(t) PROVE IInv'
    BY <1>6, SaveEnds
  <1>7. CASE UNCHANGED vars
    BY <1>7 DEF vars, IInv, TypeOK, TabTypeOK, NewestIsHeld, Latest, SavingIsRequested,
                PhasesOfATab, UnmountedHasSaved, SentAreOlder, NoNewerThan,
                LateAreBehind, KnownIsSeen, Knows
  <1> QED  BY <1>1, <1>2, <1>3, <1>4, <1>5, <1>6, <1>7 DEF Next

(* The inductive invariant holds in every behaviour.                       *)
THEOREM Inductive == Spec => []IInv
  BY InitIInv, NextIInv, PTL DEF Spec

(* Tabs, requests, late saves and the draft keep their types.              *)
THEOREM TypeCorrect == Spec => []TypeOK
  <1>1. IInv => TypeOK
    BY DEF IInv
  <1> QED  BY <1>1, Inductive, PTL

(* The text typed last is not lost while its tab is open, whatever fails,  *)
(* is refused or is typed during a save.                                   *)
THEOREM TypedTextIsKept == Spec => []EditIsKept
  <1>1. IInv => EditIsKept
    BY DEF IInv, NewestIsHeld, EditIsKept
  <1> QED  BY <1>1, Inductive, PTL

(* An editor goes with its last text acknowledged, or with its last save   *)
(* refused.                                                                *)
THEOREM ClosingSaves == Spec => []UnmountedHasSaved
  <1>1. IInv => UnmountedHasSaved
    BY DEF IInv
  <1> QED  BY <1>1, Inductive, PTL

(* What a step that writes to a draft has to be.                           *)
LEMMA Writes ==
    ASSUME IInv, Next, draft # NoDraft, draft'.id = draft.id, draft' # draft
    PROVE  \/ \E t \in Tabs : /\ Store(tab[t].version, tab[t].saving)
                              /\ tab[t].saving \in Texts /\ tab[t].version \in Nat
           \/ \E call \in late : /\ Store(call.base, call.text) /\ call \in Calls
  <1>1. draft.id # 0
    BY DEF IInv, TypeOK, Drafts
  <1>2. \A t \in Tabs : ~Discard(t)
    BY <1>1 DEF Discard, NoDraft
  <1>3. ASSUME NEW t \in Tabs, Serve(t)
        PROVE  /\ Store(tab[t].version, tab[t].saving)
               /\ tab[t].saving \in Texts /\ tab[t].version \in Nat
    <2>1. tab[t] \in Coordinators /\ tab[t].saving # None
      BY <1>3, HeldFacts DEF Serve, IInv, SavingIsRequested
    <2> QED  BY <1>3, <2>1 DEF Serve, Coordinators
  <1>4. ASSUME NEW call \in late, ServeLate(call)
        PROVE  Store(call.base, call.text) /\ call \in Calls
    BY <1>4 DEF ServeLate, IInv, TypeOK
  <1>5. ASSUME NEW t \in Tabs,
               \/ Open(t) \/ Restore(t) \/ TabOnly(t) \/ StartSave(t) \/ Reply(t) \/ LoseCall(t)
        PROVE  FALSE
    BY <1>5 DEF Open, Restore, TabOnly, StartSave, Reply, LoseCall
  <1> QED  BY <1>2, <1>3, <1>4, <1>5 DEF Next

(* A write with the version of the draft comes from a tab that has seen,   *)
(* or written, the text it replaces; conflicts stop every other.           *)
THEOREM ReplacedTextWasSeen == Spec => OnlySeenTextIsReplaced
  <1> DEFINE Seen == \A t \in Tabs :
               (/\ draft # NoDraft /\ draft'.id = draft.id /\ draft'.text # draft.text
                /\ draft'.text[1] = t /\ seen[t].id = draft.id)
                 => draft.text \in seen[t].texts
  <1>1. IInv /\ [Next]_vars => [Seen]_vars
    <2> SUFFICES ASSUME IInv, Next, NEW t \in Tabs,
                        draft # NoDraft, draft'.id = draft.id, draft'.text # draft.text,
                        draft'.text[1] = t, seen[t].id = draft.id
                 PROVE  draft.text \in seen[t].texts
      OBVIOUS
    <2>1. draft.version \in Nat
      BY DEF IInv, TypeOK, Drafts
    <2>2. ASSUME tab[t].version = draft.version
          PROVE  draft.text \in seen[t].texts
      BY <2>1, <2>2 DEF IInv, KnownIsSeen, Knows
    <2>3. ASSUME NEW u \in Tabs, Store(tab[u].version, tab[u].saving),
                 tab[u].saving \in Texts, tab[u].version \in Nat
          PROVE  draft.text \in seen[t].texts
      <3>1. draft'.text = tab[u].saving /\ tab[u].version = draft.version
        BY <2>3, StoreFacts
      <3>2. u = t
        BY <2>3, <3>1, TextFacts DEF IInv, SentAreOlder
      <3> QED  BY <2>2, <3>1, <3>2
    <2>4. ASSUME NEW call \in late, Store(call.base, call.text), call \in Calls
          PROVE  draft.text \in seen[t].texts
      <3>1. draft'.text = call.text /\ call.base = draft.version
        BY <2>4, StoreFacts DEF Calls
      <3>2. call.tab = t /\ call.base <= tab[t].version
        BY <3>1 DEF IInv, SentAreOlder, LateAreBehind
      <3>3. tab[t].version \in Nat /\ tab[t].version <= draft.version
        BY HeldFacts DEF Coordinators, IInv, KnownIsSeen, Knows
      <3>4. tab[t].version = draft.version
        BY <2>1, <3>1, <3>2, <3>3
      <3> QED  BY <2>2, <3>4
    <2> QED  BY <2>3, <2>4, Writes
  <1> QED  BY <1>1, Inductive, PTL DEF Spec, OnlySeenTextIsReplaced

(* The save that a tab gave up does not undo its later ones.               *)
THEOREM OlderTextStaysAway == Spec => NoTextComesBack
  <1> DEFINE Onward == (draft # NoDraft /\ draft'.id = draft.id /\ draft'.text[1] = draft.text[1])
                         => draft'.text[2] >= draft.text[2]
  <1>1. IInv /\ [Next]_vars => [Onward]_vars
    <2> SUFFICES ASSUME IInv, Next, draft # NoDraft, draft'.id = draft.id,
                        draft'.text[1] = draft.text[1]
                 PROVE  draft'.text[2] >= draft.text[2]
      OBVIOUS
    <2>1. draft.text \in Texts /\ draft.version \in Nat
      BY DEF IInv, TypeOK, Drafts
    <2>2. CASE draft' = draft
      BY <2>1, <2>2, TextFacts
    <2>3. ASSUME NEW u \in Tabs, Store(tab[u].version, tab[u].saving),
                 tab[u].saving \in Texts, tab[u].version \in Nat
          PROVE  draft'.text[2] >= draft.text[2]
      <3>1. draft'.text = tab[u].saving
        BY <2>3, StoreFacts
      <3>2. draft.text[1] = u /\ tab[u].saving # None
        BY <2>3, <3>1, TextFacts DEF IInv, SentAreOlder
      <3>3. draft.text[2] <= tab[u].saving[2]
        BY <3>2 DEF IInv, SentAreOlder, NoNewerThan
      <3> QED  BY <2>1, <2>3, <3>1, <3>3, TextFacts
    <2>4. ASSUME NEW call \in late, Store(call.base, call.text), call \in Calls
          PROVE  draft'.text[2] >= draft.text[2]
      <3>1. draft'.text = call.text /\ call.base = draft.version
        BY <2>4, StoreFacts DEF Calls
      <3>2. draft.text[2] <= call.text[2]
        BY <2>1, <3>1 DEF IInv, SentAreOlder, LateAreBehind
      <3> QED  BY <2>1, <2>4, <3>1, <3>2, TextFacts DEF Calls
    <2> QED  BY <2>2, <2>3, <2>4, Writes
  <1> QED  BY <1>1, Inductive, PTL DEF Spec, NoTextComesBack
=============================================================================
