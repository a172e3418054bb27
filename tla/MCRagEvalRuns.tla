--------------------------- MODULE MCRagEvalRuns ----------------------------
(* Instances of RagEvalRuns for TLC. *)
EXTENDS RagEvalRuns, TLC

CONSTANTS i0, e0, r1, r2

(* A staged ingestion and an evaluation of it have ended before. *)
TwoEnded     == [g \in {i0, e0} |-> IF g = i0 THEN "ingestion" ELSE "evaluation"]
TwoEndedBase == [g \in {i0, e0} |-> IF g = i0 THEN None ELSE i0]

(* One run, of a kind that needs no evaluation; tuning is left to the slots. *)
Once == [r \in Runs |-> IF r = r1 THEN {"ingestion", "candidate_generation", "rag_query",
                                        "evaluation"} ELSE {}]

(* One staged ingestion.                                                   *)
OneOld     == [g \in {i0} |-> "ingestion"]
OneOldBase == [g \in {i0} |-> None]

(* Governances of the evaluation, or one of them a tuning.                 *)
Governances == [r \in Runs |-> CASE r \in Given -> {}
                                  [] r = r1 -> {"dataset_governance"}
                                  [] OTHER -> {"dataset_governance", "tuning_dataset_governance"}]

OneOfAKind == [k \in Kinds |-> 1]
AnySlot    == Permutations(Slots)
=============================================================================
