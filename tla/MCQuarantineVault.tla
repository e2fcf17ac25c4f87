-------------------------- MODULE MCQuarantineVault --------------------------
(* The concurrent instances of QuarantineVault: threads, ids, paths and     *)
(* contents are interchangeable, and the properties checked are invariants. *)
EXTENDS QuarantineVault, TLC

Symmetry == Permutations(Actors) \cup Permutations(Ids)
              \cup Permutations(Files) \cup Permutations(Contents)
===============================================================================
