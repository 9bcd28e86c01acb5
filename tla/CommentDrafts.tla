---------------------------- MODULE CommentDrafts ----------------------------
(***************************************************************************)
(* The private comment draft of one author in one scope (a target and a    *)
(* reply parent), edited in several tabs: CommentDraftsService and         *)
(* PrismaCommentDraftsRepository as the host of EditorAutosave, and the    *)
(* recovery prompt of CommentDraftEditor.  A reply of the server may be    *)
(* lost, a request may fail before it reaches the draft, and one request   *)
(* at a time may reach it after its tab has given it up.                   *)
(***************************************************************************)
EXTENDS EditorAutosave

CONSTANTS
  MaxDrafts   \* bound: drafts created in the scope, one after the other

ASSUME DraftsAssumption == MaxDrafts \in Nat

VARIABLES
  draft,      \* CommentDraft: [id, version, text], NoDraft without a row
  drafts,     \* the number of drafts created so far, which names them
  request,    \* the save of each tab on its way: what the server did with it
  late,       \* a save that its tab has given up and the server has not seen
  seen        \* [id, version, texts]: the draft a tab was shown by the prompt
              \* or has saved to, and the texts it has shown or written

vars == <<tab, draft, drafts, request, late, seen>>

NoDraft == [id |-> 0, version |-> 0, text |-> None]
NoRequest == [did |-> "NONE", version |-> 0]

Drafts == [id : 1 .. MaxDrafts, version : Nat \ {0}, text : Texts]
Calls == [tab : Tabs, base : Nat, text : Texts]

TypeOK ==
  /\ TabTypeOK
  /\ draft \in Drafts \cup {NoDraft}
  /\ drafts \in 0 .. MaxDrafts
  /\ request \in [Tabs -> [did : {"NONE", "SENT", "SAVED", "REFUSED"}, version : Nat]]
  /\ late \subseteq Calls
  /\ seen \in [Tabs -> [id : 0 .. MaxDrafts, version : Nat, texts : SUBSET Texts]]

Init ==
  /\ tab = [t \in Tabs |-> Unmounted]
  /\ draft = NoDraft /\ drafts = 0
  /\ request = [t \in Tabs |-> NoRequest] /\ late = {}
  /\ seen = [t \in Tabs |-> [id |-> 0, version |-> 0, texts |-> {}]]

-----------------------------------------------------------------------------
(* The page is loaded with the draft of the scope, if there is one.        *)
Open(t) ==
  /\ tab[t].mounted = "NO"
  /\ tab' = [tab EXCEPT ![t].mounted = IF draft = NoDraft THEN "EDITING" ELSE "ASKING"]
  /\ seen' = [seen EXCEPT ![t] =
       [id |-> draft.id, version |-> draft.version, texts |-> {draft.text} \ {None}]]
  /\ UNCHANGED <<draft, drafts, request, late>>

(* onRestore: the editor starts from the draft the page was loaded with.   *)
Restore(t) ==
  /\ tab[t].mounted = "ASKING"
  /\ tab' = [tab EXCEPT ![t].mounted = "EDITING", ![t].version = seen[t].version]
  /\ UNCHANGED <<draft, drafts, request, late, seen>>

(* onDiscard: the row is deleted by its id, whatever its version is now,   *)
(* and the editor starts empty.  A row that is gone is an error, and the   *)
(* prompt stays.                                                           *)
Discard(t) ==
  /\ tab[t].mounted = "ASKING"
  /\ draft.id = seen[t].id
  /\ draft' = NoDraft
  /\ tab' = [tab EXCEPT ![t].mounted = "EDITING"]
  /\ UNCHANGED <<drafts, request, late, seen>>

(* The coordinator calls the host whenever it starts a save.               *)
StartSave(t) ==
  /\ Flush(t) \/ FinalFlush(t)
  /\ request' = IF tab'[t].saving = None THEN request ELSE [request EXCEPT ![t].did = "SENT"]
  /\ UNCHANGED <<draft, drafts, late, seen>>

TabOnly(t) ==
  /\ Edit(t) \/ Unmount(t)
  /\ UNCHANGED <<draft, drafts, request, late, seen>>

-----------------------------------------------------------------------------
(* Variant: the update does not compare the version. *)
MatchesAnyVersion(base) == draft # NoDraft

(* The updateMany finds the row of the scope with the base version.        *)
Matches(base) == draft # NoDraft /\ draft.version = base

Refuses(base) == IF base = 0 THEN draft # NoDraft ELSE ~Matches(base)

(* save: base version 0 inserts, and the unique (author, scope) refuses a  *)
(* second row; a later one advances the row that has it.                   *)
Store(base, text) ==
  /\ ~Refuses(base)
  /\ base = 0 => drafts < MaxDrafts
  /\ draft' = [id |-> IF base = 0 THEN drafts + 1 ELSE draft.id,
               version |-> IF base = 0 THEN 1 ELSE draft.version + 1,
               text |-> text]
  /\ drafts' = IF base = 0 THEN drafts + 1 ELSE drafts

Serve(t) ==
  /\ request[t].did = "SENT"
  /\ \/ /\ Store(tab[t].version, tab[t].saving)
        /\ seen' = [seen EXCEPT ![t].id = draft'.id, ![t].texts = @ \cup {tab[t].saving}]
        /\ request' = [request EXCEPT ![t] = [did |-> "SAVED", version |-> draft'.version]]
     \/ /\ Refuses(tab[t].version)
        /\ request' = [request EXCEPT ![t].did = "REFUSED"]
        /\ UNCHANGED <<draft, drafts, seen>>
  /\ UNCHANGED <<tab, late>>

(* A save arrives whose tab has given it up; its base version is of the    *)
(* draft the tab has seen, whichever draft it meets.                       *)
ServeLate(call) ==
  /\ \/ /\ Store(call.base, call.text)
        /\ seen' = [seen EXCEPT ![call.tab].texts = @ \cup {call.text}]
     \/ Refuses(call.base) /\ UNCHANGED <<draft, drafts, seen>>
  /\ late' = late \ {call}
  /\ UNCHANGED <<tab, request>>

(* The reply reaches the tab.                                              *)
Reply(t) ==
  /\ \/ request[t].did = "SAVED" /\ Acknowledge(t, request[t].version)
     \/ request[t].did = "REFUSED" /\ Refuse(t, "CONFLICT")
  /\ request' = [request EXCEPT ![t] = NoRequest]
  /\ UNCHANGED <<draft, drafts, late, seen>>

(* The call fails in the tab: before the server acts, after it, or while   *)
(* the request is still on its way.                                        *)
LoseCall(t) ==
  /\ request[t].did # "NONE"
  /\ Refuse(t, "ERROR")
  /\ request' = [request EXCEPT ![t] = NoRequest]
  /\ \/ UNCHANGED late
     \/ /\ request[t].did = "SENT" /\ late = {}
        /\ late' = {[tab |-> t, base |-> tab[t].version, text |-> tab[t].saving]}
  /\ UNCHANGED <<draft, drafts, seen>>

Next ==
  \/ \E call \in late : ServeLate(call)
  \/ \E t \in Tabs :
      \/ Open(t) \/ Restore(t) \/ Discard(t)
      \/ TabOnly(t) \/ StartSave(t)
      \/ Serve(t) \/ Reply(t) \/ LoseCall(t)

Spec == Init /\ [][Next]_vars

-----------------------------------------------------------------------------
(* Whoever writes to a draft has seen the text the write replaces: a tab   *)
(* that fell behind gets a conflict, also when its own replies were lost   *)
(* (PHASE_9_DSS_EDITOR_FOUNDATION.md lines 94-95).  Spared is the tab      *)
(* whose draft was discarded and replaced by another with its version.     *)
OnlySeenTextIsReplaced ==
  [][\A t \in Tabs :
       (/\ draft # NoDraft /\ draft'.id = draft.id /\ draft'.text # draft.text
        /\ draft'.text[1] = t /\ seen[t].id = draft.id)
         => draft.text \in seen[t].texts]_vars

(* A draft never goes back to an older text of the same tab: the save that *)
(* a tab gave up and sent again, with what was typed since, is refused     *)
(* when it arrives after all.                                              *)
NoTextComesBack ==
  [][(draft # NoDraft /\ draft'.id = draft.id /\ draft'.text[1] = draft.text[1])
       => draft'.text[2] >= draft.text[2]]_vars
=============================================================================
