---------------------------- MODULE MCAccountAuth ----------------------------
(* Small instances of AccountAuth.  Requests, addresses and recovery codes *)
(* are interchangeable; mail jobs are numbered by their age.               *)
EXTENDS AccountAuth, TLC

Symmetry == Permutations(Requests) \cup Permutations(Emails) \cup Permutations(Codes)
=============================================================================
