---------------------------- MODULE EditorAutosave ----------------------------
(***************************************************************************)
(* EditorAutosaveCoordinator of the editor package, one in every open tab, *)
(* with the React hook that owns it: edits are debounced, one save is in   *)
(* flight at a time, a failed save leaves its text for a retry, and an     *)
(* unmount flushes before it disposes.                                     *)
(*                                                                         *)
(* The host answers a save with a version, a conflict or an error; the     *)
(* module that extends this one supplies the host.                         *)
(***************************************************************************)
EXTENDS Naturals

CONSTANTS
  Tabs,       \* the browser tabs of one author
  MaxEdits,   \* bound: edits typed in one tab
  None

(* A text is told by the tab that typed it and its number there.           *)
Texts == Tabs \X (1 .. MaxEdits)

ASSUME EditsAssumption == MaxEdits \in Nat
ASSUME NoneAssumption == None \notin Texts

VARIABLES
  tab         \* the coordinator and its history in each tab

Phases == {"IDLE", "DIRTY", "SAVING", "SAVED", "CONFLICT", "ERROR"}

(* mounted: "NO", "ASKING" (the recovery prompt), "EDITING", "CLOSING"     *)
(* (the unmount's flush waits for the save in flight), "FLUSHING" (its own *)
(* save is in flight), "GONE".  pending is pendingDocument, saving the     *)
(* document of activeSave, version the one of the snapshot.  edits and     *)
(* acked are history: what was typed, and what the host has acknowledged.  *)
Unmounted == [mounted |-> "NO", phase |-> "IDLE", version |-> 0, timer |-> FALSE,
              pending |-> None, saving |-> None, edits |-> 0, acked |-> None]

Coordinators ==
  [mounted : {"NO", "ASKING", "EDITING", "CLOSING", "FLUSHING", "GONE"},
   phase : Phases, version : Nat, timer : BOOLEAN,
   pending : Texts \cup {None}, saving : Texts \cup {None},
   edits : 0 .. MaxEdits, acked : Texts \cup {None}]

TabTypeOK == tab \in [Tabs -> Coordinators]

Latest(t) == IF tab[t].edits = 0 THEN None ELSE <<t, tab[t].edits>>

-----------------------------------------------------------------------------
(* update: the newest document replaces the pending one; schedule restarts *)
(* the timer, unless a save is in flight.                                  *)
Edit(t) ==
  /\ tab[t].mounted = "EDITING"
  /\ tab[t].edits < MaxEdits
  /\ tab' = [tab EXCEPT ![t].edits = @ + 1,
                        ![t].pending = <<t, tab[t].edits + 1>>,
                        ![t].phase = "DIRTY",
                        ![t].timer = tab[t].saving = None]

(* runSave up to the call of the host: the pending document is taken.      *)
Running(s) == [s EXCEPT !.saving = s.pending, !.pending = None,
                        !.phase = "SAVING", !.timer = FALSE]

(* flush from the timer, or from retry after a failure.                    *)
Flush(t) ==
  /\ tab[t].mounted = "EDITING"
  /\ tab[t].timer \/ tab[t].phase \in {"CONFLICT", "ERROR"}
  /\ tab[t].saving = None /\ tab[t].pending # None
  /\ tab' = [tab EXCEPT ![t] = Running(tab[t])]

(* The effect's cleanup: flush, then dispose.  A save in flight is awaited *)
(* first.                                                                  *)
Unmount(t) ==
  /\ tab[t].mounted = "EDITING"
  /\ tab' = [tab EXCEPT ![t].mounted = "CLOSING", ![t].timer = FALSE]

(* Variant: the cleanup flushes only what an earlier save had failed on.   *)
NeedsFinalSaveUnlessSaved(s) == s.pending # None /\ s.phase # "DIRTY"

NeedsFinalSave(s) == s.pending # None

FinalFlush(t) ==
  /\ tab[t].mounted = "CLOSING" /\ tab[t].saving = None
  /\ tab' = [tab EXCEPT ![t] =
               IF NeedsFinalSave(tab[t])
               THEN [Running(tab[t]) EXCEPT !.mounted = "FLUSHING"]
               ELSE [tab[t] EXCEPT !.mounted = "GONE"]]

(* An editor whose last flush has ended is disposed.                       *)
AfterSave(s) == IF s.mounted = "FLUSHING" THEN "GONE" ELSE s.mounted

(* The host answers.  The schedule() of line 168 finds activeSave still    *)
(* set, since the finally of flush has yet to run, and starts no timer.    *)
Acknowledge(t, version) ==
  tab' = [tab EXCEPT ![t].phase = IF tab[t].pending = None THEN "SAVED" ELSE "DIRTY",
                     ![t].version = version,
                     ![t].acked = tab[t].saving,
                     ![t].saving = None,
                     ![t].mounted = AfterSave(tab[t])]

(* Variant: the failed document replaces a newer one. *)
KeptOlder(s) == s.saving

(* pendingDocument ??= document                                            *)
Kept(s) == IF s.pending = None THEN s.saving ELSE s.pending

Refuse(t, phase) ==
  tab' = [tab EXCEPT ![t].phase = phase,
                     ![t].pending = Kept(tab[t]),
                     ![t].saving = None,
                     ![t].mounted = AfterSave(tab[t])]

-----------------------------------------------------------------------------
(* What was typed last is never lost while its editor is there, through    *)
(* failures, conflicts and edits during a save: it waits to be saved, is   *)
(* being saved, or has been acknowledged ("preserves unsaved content after *)
(* failures for an explicit retry", autosave.ts line 15).                  *)
EditIsKept ==
  \A t \in Tabs :
    tab[t].mounted \in {"EDITING", "CLOSING", "FLUSHING"} =>
      Latest(t) \in {tab[t].pending, tab[t].saving, tab[t].acked}

(* An editor that was unmounted has saved what was typed last, also what   *)
(* was typed while a save was in flight, unless its last save failed.  (A  *)
(* browser tab that is closed runs no cleanup and is not meant.)           *)
UnmountedHasSaved ==
  \A t \in Tabs :
    tab[t].mounted = "GONE" =>
      tab[t].acked = Latest(t) \/ tab[t].phase \in {"CONFLICT", "ERROR"}
=============================================================================
