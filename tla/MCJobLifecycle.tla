--------------------------- MODULE MCJobLifecycle ---------------------------
(* Instances of JobLifecycle for TLC. *)
EXTENDS JobLifecycle, TLC

OneSession == [j \in Jobs |-> "s1"]
SlotSymmetry == Permutations(Workers)
=============================================================================
