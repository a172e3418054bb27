------------------------------- MODULE MCMcp -------------------------------
(* An instance of McpCalls for TLC. *)
EXTENDS McpCalls, TLC

OneAndTwo == [lane \in Lanes |-> IF lane = "execute" THEN 1 ELSE 2]
One == [s \in Semaphores |-> 1]
AnyCaller == Permutations(Callers)
=============================================================================
