-------------------------- MODULE MCReleasePointer --------------------------
(* Instances of ReleasePointer for TLC. *)
EXTENDS ReleasePointer, TLC

AnyOf == Permutations(Built) \cup Permutations(Releases \ Built) \cup Permutations(Bindings)
         \cup Permutations(Workers)
=============================================================================
