------------------------------ MODULE MCLevels ------------------------------
(* Every event on one day, and levels at 1 and 2 points. *)
EXTENDS Levels, TLC

MCDayOf == [e \in Events |-> "day"]
MCThresholds == <<1, 2>>
Symmetry == Permutations(Workers) \cup Permutations(Consumers)

(* The interleavings of the ledger's own transactions are explored before  *)
(* the first delivery of the levels consumer, which sees of them only what *)
(* has committed; from then on one transaction runs at a time.             *)
OneTransaction ==
  (synced # {} \/ \E c \in Consumers : sync[c] # NoSync) =>
    Cardinality({w \in Workers : worker[w].pc # Idle} \cup {a \in Admins : admin[a].pc # Idle}) <= 1
=============================================================================
