\* Two tabs of two edits each, and a draft that may be discarded and created again.
SPECIFICATION Spec
CONSTANTS
  Tabs = {t1, t2}
  MaxEdits = 2
  MaxDrafts = 2
  None = None
SYMMETRY Symmetry
INVARIANTS
  EditIsKept
  UnmountedHasSaved
PROPERTIES
  OnlySeenTextIsReplaced
  NoTextComesBack

\* Editors are unmounted and not mounted again.
CHECK_DEADLOCK FALSE
