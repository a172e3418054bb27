--------------------------- MODULE MCCleanupOutbox ---------------------------
(* Instances of CleanupOutbox for TLC. *)
EXTENDS CleanupOutbox, TLC

CONSTANTS s1, u1

OneSession == [j \in Jobs |-> s1]
OneUser    == [s \in Sessions |-> u1]

CleanerSymmetry == Permutations(Cleaners)
=============================================================================
