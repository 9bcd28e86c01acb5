--------------------------- MODULE MCCommentDrafts ---------------------------
(* A small instance of CommentDrafts; its tabs are alike.                  *)
EXTENDS CommentDrafts, TLC

Symmetry == Permutations(Tabs)
=============================================================================
