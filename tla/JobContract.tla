---------------------------- MODULE JobContract -----------------------------
(***************************************************************************)
(* What the job API promises about one job (app/agent/routes.py, GET and   *)
(* the event stream, Document/api/agent-jobs.md): a status, and an event   *)
(* log a client replays by id.  Leases, attempts, recoveries and crashes   *)
(* are invisible here: a client cannot tell a job that ran once from one   *)
(* that was recovered.                                                     *)
(***************************************************************************)
EXTENDS Naturals, Sequences

CONSTANT Questions   \* the questions the analysis may ask

ASSUME QuestionsAssumption == Questions \subseteq Nat \ {0}

VARIABLES
    status,   \* status of the job as GET /api/agent/jobs/<id> reports it
    log       \* its public events [type, question] in id order

contractVars == <<status, log>>

Active   == {"queued", "running", "waiting_input"}
Finished == {"succeeded", "failed", "canceled"}

PublicEvent == [type : {"progress", "interrupt", "final_result", "error", "canceled"},
                question : Questions \cup {0}]

Plain(type) == [type |-> type, question |-> 0]
Question(q) == [type |-> "interrupt", question |-> q]

ContractTypeOK == /\ status \in {"absent"} \cup Active \cup Finished
                  /\ log \in Seq(PublicEvent)

ContractInit == status = "absent" /\ log = << >>

Submit == status = "absent" /\ status' = "queued" /\ UNCHANGED log

Begin == status = "queued" /\ status' = "running" /\ UNCHANGED log

Report == /\ status = "running"
          /\ log' = Append(log, Plain("progress"))
          /\ UNCHANGED status

(* A question that has been published is not published again when the job *)
(* returns to it.                                                          *)
Ask(q) == /\ status = "running"
          /\ status' = "waiting_input"
          /\ log' = IF \E i \in DOMAIN log : log[i] = Question(q)
                    THEN log ELSE Append(log, Question(q))

Answer == status = "waiting_input" /\ status' = "queued" /\ UNCHANGED log

Finish(result, type) == /\ status = "running"
                        /\ status' = result
                        /\ log' = Append(log, Plain(type))

CancelJob == /\ status \in Active
             /\ status' = "canceled"
             /\ log' = Append(log, Plain("canceled"))

ContractNext ==
    \/ Submit \/ Begin \/ Report \/ Answer \/ CancelJob
    \/ \E q \in Questions : Ask(q)
    \/ Finish("succeeded", "final_result")
    \/ Finish("failed", "error")

ContractSpec == ContractInit /\ [][ContractNext]_contractVars
=============================================================================
