--------------------------- MODULE AnalysisGraph ---------------------------
(***************************************************************************)
(* The jobs of one chat session, one after the other, in the graph of      *)
(* Agent/causal_agent (build_deep_agent_parent_graph) and the analysis     *)
(* contexts of Database/analysis_contexts.py that outlive them.            *)
(*                                                                         *)
(* Four records have to agree about which file and which target and        *)
(* treatment a job analyses: the job's row, the session's active context,  *)
(* the state of the graph, which is saved after each node, and the state   *)
(* of the deep agent's own thread.  A node works in memory, calls MySQL in *)
(* a thread that its timeout does not stop, and is run again by a retry or *)
(* by the next lease.                                                      *)
(***************************************************************************)
EXTENDS Naturals, Sequences, FiniteSets

CONSTANTS
    Files,       \* files the user has uploaded
    Params,      \* pairs of target and treatment
    None,        \* no file; neither target nor treatment
    MaxContexts, \* bound: contexts of the session
    MaxLeases,   \* bound: jobs created, resumed or taken over
    MaxVisits,   \* visits of agent in an invocation: the graph's recursion limit
    MaxResults,  \* bound: algorithm results of a job
    MaxLate      \* bound: nodes given up while their transaction goes on

ASSUME GraphAssumption ==
    /\ None \notin Files /\ None \notin Params
    /\ MaxContexts \in Nat /\ MaxLeases \in Nat /\ MaxVisits \in Nat
    /\ MaxResults \in Nat /\ MaxLate \in Nat

VARIABLES
    contexts,  \* Seq(Context): analysis_contexts, by age
    active,    \* active_analysis_context_id: an index of contexts, or 0
    library,   \* the files of Files that are still there
    job,       \* the row of the session's latest job
    graph,     \* the saved state of that job's graph
    child,     \* the results in the saved state of its deep agent's thread
    run,       \* the invocation that works on the node graph.node, in memory
    pending,   \* the transaction of a node that was given up
    late,      \* such a transaction was committed while its lease still held
    timeouts   \* nodes given up with an open transaction so far

mysql == <<contexts, active, library, job>>
saved == <<graph, child>>
fault == <<pending, late, timeouts>>
vars  == <<mysql, saved, run, fault>>

Nodes == {"agent", "switch", "fold", "preprocess", "deep_agent", "gate", "report",
          "answer", "end"}       \* answer: inquiry_answer or normal_chat

Analysis == [file : Files, params : Params \cup {None}, ok : BOOLEAN]
Context  == [file    : Files \cup {None},
             params  : Params \cup {None},
             summary : Analysis \cup {None},   \* latest_algorithm_summary
             report  : BOOLEAN]                \* latest_report_id is set

(* lease counts the leases of all jobs of the session.                     *)
Job == [status : {"running", "waiting", "ended"},
        file   : Files \cup {None}, bound : Nat, lease : Nat]

Result == [id : 1..MaxResults, lease : Nat, file : Files, ok : BOOLEAN]

(* fits: every other thing the gate asks for (one assessment per valid     *)
(* result, known references, a search of the Web where it is on) is there. *)
Decision == [outcome : {"missing", "algorithm_supported", "evidence_only",
                        "no_valid_algorithm"},
             primary : 0..MaxResults, fits : BOOLEAN]

Graph == [node : Nodes, ctx : Nat, file : Files \cup {None},
          params : Params \cup {None},
          rerun : BOOLEAN,                   \* switch is to rerun the analysis
          answer : BOOLEAN,                  \* the resume value of an interrupt
          results : SUBSET Result, decision : Decision,
          retries : Nat,                     \* finalization_retry_count
          fin : {"none", "valid", "degraded"}, report : BOOLEAN]

Tx == [kind : {"fold", "switch", "file"}, lease : Nat,
       params : Params \cup {None}, ctx : Nat, file : Files \cup {None}]
Run == [phase : {"start", "bind", "bound"}, tries : 0..1, visits : Nat,
        tx : Tx \cup {None}, ctx : Nat]

NoDecision == [outcome |-> "missing", primary |-> 0, fits |-> FALSE]
Started(f, c) == [node |-> "agent", ctx |-> c, file |-> f, params |-> None,
                  rerun |-> FALSE, answer |-> FALSE, results |-> {},
                  decision |-> NoDecision, retries |-> 0, fin |-> "none", report |-> FALSE]
Entered == [phase |-> "start", tries |-> 0, visits |-> 0, tx |-> None, ctx |-> 0]

Init ==
    /\ contexts = <<>> /\ active = 0 /\ library = Files
    /\ job = [status |-> "ended", file |-> None, bound |-> 0, lease |-> 0]
    /\ graph = Started(None, 0) /\ child = {} /\ run = Entered
    /\ pending = None /\ late = FALSE /\ timeouts = 0

-----------------------------------------------------------------------------
(* The transactions of Database/analysis_contexts.py.  Each gives the set  *)
(* of pairs of the contexts after it and the context it leads to.          *)

New(f, p) == [file |-> f, params |-> p, summary |-> None, report |-> FALSE]
Created(f, p) ==
    IF Len(contexts) < MaxContexts
    THEN {<<Append(contexts, New(f, p)), Len(contexts) + 1>>} ELSE {}

Where(P(_)) == {c \in DOMAIN contexts : P(contexts[c])}
Found(cs) == {<<contexts, c>> : c \in cs}

(* create_or_reuse_context_for_frozen_file                                 *)
ForFrozenFile(f) ==
    IF active \in Where(LAMBDA x : x.file = f) THEN Found({active}) ELSE Created(f, None)

(* Mutant: the parameters are written over those of the bound context.     *)
FoldOverwrites(p) ==
    {<<[contexts EXCEPT ![job.bound].params = p], job.bound>>}

(* apply_fold_context: fill in the bound context's parameters, keep it when *)
(* they agree, or else use or make another context of the file.            *)
FoldContext(p) ==
    LET same == Where(LAMBDA x : x.file = job.file /\ x.params = p)
    IN  IF job.bound # 0 /\ contexts[job.bound].params \in {None, p}
        THEN {<<[contexts EXCEPT ![job.bound].params = p], job.bound>>}
        ELSE IF same # {} THEN Found(same) ELSE Created(job.file, p)

(* create_context_for_new_file: a context of the file, or a new one.       *)
FileContext(f) ==
    LET same == Where(LAMBDA x : x.file = f)
    IN  IF same # {} THEN Found(same) ELSE Created(f, None)

Outcomes(tx) ==
    CASE tx.kind = "fold"   -> FoldContext(tx.params)
      [] tx.kind = "switch" -> Found({tx.ctx})
      [] tx.kind = "file"   -> FileContext(tx.file)

(* _refreeze_job_input                                                     *)
Frozen(tx, cs, c) == IF tx.kind = "fold" THEN job.file ELSE cs[c].file

(* _activate_context: the session, the row and its input follow.           *)
Activate(tx, cs, c) ==
    /\ contexts' = cs
    /\ active' = c
    /\ job' = [job EXCEPT !.bound = c, !.file = Frozen(tx, cs, c)]

(* _read_valid_file_snapshot                                               *)
FileIsThere(tx) ==
    CASE tx.kind = "fold"   -> TRUE
      [] tx.kind = "switch" -> contexts[tx.ctx].file \in library
      [] tx.kind = "file"   -> tx.file \in library

(* Mutant: a worker that runs the job, under whatever lease, may write.    *)
HoldsUnfenced(tx) == job.status = "running"

(* _lock_running_job                                                       *)
Holds(tx) == job.status = "running" /\ job.lease = tx.lease

-----------------------------------------------------------------------------
(* Jobs and files *)

(* create_job and the first claim: the graph's state is built from the     *)
(* row and the session's active context.                                   *)
CreateJob ==
    /\ job.status = "ended" /\ job.lease < MaxLeases
    /\ \/ /\ job' = [status |-> "running", file |-> None, bound |-> 0, lease |-> job.lease + 1]
          /\ graph' = Started(None, active)
          /\ UNCHANGED <<contexts, active>>
       \/ \E f \in library : \E o \in ForFrozenFile(f) :
             /\ contexts' = o[1] /\ active' = o[2]
             /\ job' = [status |-> "running", file |-> f, bound |-> o[2],
                        lease |-> job.lease + 1]
             /\ graph' = Started(f, o[2])
    /\ UNCHANGED <<library, child, run, fault>>

Ends(cs) ==
    /\ job' = [job EXCEPT !.status = "ended", !.file = None, !.bound = 0]
    /\ contexts' = cs
    /\ graph' = Started(None, 0) /\ child' = {} /\ run' = Entered
    /\ UNCHANGED <<active, library>>

(* A transaction that is still open when its node is given up goes on:     *)
(* asyncio.to_thread cannot be stopped.                                    *)
GivesUp ==
    \/ UNCHANGED fault
    \/ /\ job.status = "running" /\ run.phase = "bind"
       /\ timeouts < MaxLate /\ pending = None
       /\ pending' = run.tx /\ timeouts' = timeouts + 1
       /\ UNCHANGED late

(* A cancellation, an error event, or no recovery left.                    *)
JobIsLost == job.status \in {"running", "waiting"} /\ Ends(contexts) /\ GivesUp

(* The invocation is gone; the job is claimed again and goes on from what  *)
(* is saved.                                                               *)
TakeOver ==
    /\ job.status = "running" /\ job.lease < MaxLeases
    /\ job' = [job EXCEPT !.lease = @ + 1]
    /\ run' = Entered
    /\ GivesUp
    /\ UNCHANGED <<contexts, active, library, saved>>

(* The user answers; the node that asked is run again from its beginning.  *)
Resume ==
    /\ job.status = "waiting" /\ job.lease < MaxLeases
    /\ job' = [job EXCEPT !.status = "running", !.lease = @ + 1]
    /\ graph' = [graph EXCEPT !.answer = TRUE]
    /\ run' = Entered
    /\ UNCHANGED <<contexts, active, library, child, fault>>

(* delete_file: not under an active job.  The contexts lose their          *)
(* references (ON DELETE SET NULL).                                        *)
DeleteFile(f) ==
    /\ f \in library
    /\ ~(job.status # "ended" /\ job.file = f)
    /\ library' = library \ {f}
    /\ contexts' = [c \in DOMAIN contexts |->
                      [contexts[c] EXCEPT !.file = IF @ = f THEN None ELSE @]]
    /\ UNCHANGED <<active, job, saved, run, fault>>

-----------------------------------------------------------------------------
(* Nodes *)

At(n, p) == job.status = "running" /\ graph.node = n /\ run.phase = p
Keeps == UNCHANGED <<contexts, active, library, job, child, fault>>

(* The node's update is saved with the node to go to.                      *)
Saves(g, n) ==
    /\ graph' = [g EXCEPT !.node = n]
    /\ run' = [Entered EXCEPT !.visits = run.visits]
GoesTo(n) == Saves(graph, n)

(* agent_node and decision_router                                          *)
HasReport == graph.ctx # 0 /\ contexts[graph.ctx].report

Agent ==
    /\ At("agent", "start") /\ run.visits < MaxVisits
    /\ \/ graph' = [graph EXCEPT !.node = "fold", !.rerun = FALSE]
       \/ graph' = [graph EXCEPT !.node = "answer"]
       \/ HasReport /\ graph' = [graph EXCEPT !.node = "report"]
       \/ \E again \in BOOLEAN :
             graph' = [graph EXCEPT !.node = "switch", !.rerun = again]
    /\ run' = [Entered EXCEPT !.visits = run.visits + 1]
    /\ Keeps

RecursionLimit ==
    At("agent", "start") /\ run.visits = MaxVisits /\ Ends(contexts) /\ UNCHANGED fault

Opens(tx) == run' = [run EXCEPT !.phase = "bind", !.tx = tx]
EmptyTx(kind) == [kind |-> kind, lease |-> job.lease, params |-> None, ctx |-> 0,
                  file |-> None]

(* context_switch_node: one context, one file of the library, or neither.  *)
SwitchTo ==
    /\ At("switch", "start")
    /\ \/ \E c \in DOMAIN contexts : Opens([EmptyTx("switch") EXCEPT !.ctx = c])
       \/ \E f \in library : Opens([EmptyTx("file") EXCEPT !.file = f])
    /\ UNCHANGED graph /\ Keeps

Clarify ==
    /\ \/ At("switch", "start")
       \/ At("switch", "bind") /\ ~FileIsThere(run.tx)
    /\ Saves([graph EXCEPT !.rerun = FALSE], "answer") /\ Keeps

(* The transaction commits; what comes after it in the node may be lost.   *)
Commit ==
    /\ job.status = "running" /\ run.phase = "bind" /\ FileIsThere(run.tx)
    /\ \E o \in Outcomes(run.tx) :
          /\ Activate(run.tx, o[1], o[2])
          /\ run' = [run EXCEPT !.phase = "bound", !.ctx = o[2]]
    /\ UNCHANGED <<library, saved, fault>>

(* _switch_followup_route                                                  *)
AfterSwitch(c) ==
    IF run.tx.kind = "file" \/ graph.rerun THEN "fold"
    ELSE IF contexts[c].summary # None \/ contexts[c].report THEN "answer"
    ELSE "fold"

(* _switched_context_state: only confirmed facts of the target are kept.   *)
Switched ==
    /\ At("switch", "bound")
    /\ Saves([Started(contexts[run.ctx].file, run.ctx) EXCEPT !.answer = graph.answer],
             AfterSwitch(run.ctx))
    /\ Keeps

(* fold_node *)
FoldWithoutFile ==
    /\ At("fold", "start") /\ graph.file = None
    /\ GoesTo("answer") /\ Keeps

(* require_frozen_file_for_job                                             *)
Readable == graph.file # None /\ job.file = graph.file /\ graph.file \in library

FoldIsReady ==
    /\ At("fold", "start") /\ Readable
    /\ \E p \in Params \cup {None} : Opens([EmptyTx("fold") EXCEPT !.params = p])
    /\ UNCHANGED graph /\ Keeps

(* interrupt: an answer that was given is returned, or the user is asked.  *)
FoldAsks ==
    /\ At("fold", "start") /\ graph.file # None
    /\ ~graph.answer
    /\ job' = [job EXCEPT !.status = "waiting"]
    /\ run' = Entered
    /\ UNCHANGED <<contexts, active, library, saved, fault>>

FoldTakesAnswer ==
    /\ At("fold", "start") /\ graph.file # None
    /\ graph.answer
    /\ Saves([graph EXCEPT !.answer = FALSE], "agent") /\ Keeps

FoldIsBound ==
    /\ At("fold", "bound")
    /\ Saves([graph EXCEPT !.ctx = run.ctx, !.params = run.tx.params, !.answer = FALSE],
             "preprocess")
    /\ Keeps

Preprocess ==
    /\ At("preprocess", "start") /\ Readable
    /\ GoesTo("deep_agent") /\ Keeps

-----------------------------------------------------------------------------
(* The deep agent, the gate and the report *)

(* _deep_agent_parent_node: a run of the same lease and input goes on from *)
(* the thread's state.  Any other gets a new input, but the reducer of the *)
(* results keeps those the thread has.                                     *)
RunAlgorithm ==
    /\ At("deep_agent", "start") /\ job.file # None
    /\ Cardinality(child) < MaxResults
    /\ \E ok \in BOOLEAN :
          child' = child \cup {[id |-> Cardinality(child) + 1, lease |-> job.lease,
                               file |-> job.file, ok |-> ok]}
    /\ UNCHANGED <<mysql, graph, run, fault>>

(* Only algorithm_supported has a primary result (FinalAnalysisDecision).  *)
Decisions(results) ==
    {d \in Decision :
        IF d.outcome = "algorithm_supported" THEN d.primary \in {r.id : r \in results}
        ELSE d.primary = 0 /\ (d.outcome = "missing" => ~d.fits)}

LeaveChild ==
    /\ At("deep_agent", "start")
    /\ \E d \in Decisions(child) :
          Saves([graph EXCEPT !.results = child, !.decision = d], "gate")
    /\ Keeps

(* Mutant: the primary result only has to be known.                        *)
AcceptableIfKnown(d) ==
    /\ d.fits
    /\ d.outcome = "algorithm_supported" =>
          \E r \in graph.results : r.lease = job.lease /\ r.id = d.primary
    /\ graph.results # {}

(* FinalizationGate.validate.  Results of other leases only count where it *)
(* asks that there are results at all.                                     *)
Acceptable(d) ==
    LET own   == {r \in graph.results : r.lease = job.lease}
        valid == {r \in own : r.ok}
    IN  /\ d.fits
        /\ \A r \in own : r.file = job.file
        /\ d.outcome = "algorithm_supported" => \E r \in valid : r.id = d.primary
        /\ d.outcome = "no_valid_algorithm" => valid = {} /\ own # {}
        /\ d.outcome # "algorithm_supported" => graph.results # {}

GateAccepts ==
    /\ At("gate", "start") /\ Acceptable(graph.decision)
    /\ Saves([graph EXCEPT !.fin = "valid"], "report") /\ Keeps

(* One correction; the count is saved and outlives the lease.              *)
GateRefuses ==
    /\ At("gate", "start") /\ ~Acceptable(graph.decision)
    /\ \/ /\ graph.retries < 1
          /\ Saves([graph EXCEPT !.retries = @ + 1], "deep_agent")
       \/ /\ graph.retries >= 1
          /\ Saves([graph EXCEPT !.fin = "degraded"], "report")
    /\ Keeps

Report ==
    /\ At("report", "start")
    /\ Saves([graph EXCEPT !.report = TRUE], "end") /\ Keeps

Answer == At("answer", "start") /\ GoesTo("end") /\ Keeps

-----------------------------------------------------------------------------
(* Failing nodes *)

(* The error handlers.  recover_report puts a degraded document in place   *)
(* of the report.                                                          *)
Handled ==
    CASE graph.node \in {"agent", "switch"}    -> GoesTo("answer")
      [] graph.node \in {"fold", "preprocess"} -> GoesTo("agent")
      [] graph.node = "report" -> Saves([graph EXCEPT !.report = TRUE], "end")
      [] graph.node = "answer" -> GoesTo("end")

(* A node raises or times out: short_retry, then the handler.              *)
NodeFails ==
    /\ job.status = "running"
    /\ graph.node \in {"agent", "switch", "fold", "preprocess", "report", "answer"}
    /\ \/ /\ run.tries < 1
          /\ run' = [Entered EXCEPT !.tries = 1, !.visits = run.visits]
          /\ UNCHANGED graph
       \/ run.tries = 1 /\ Handled
    /\ GivesUp
    /\ UNCHANGED <<mysql, child>>

(* The transaction of a node that was given up reaches its end.            *)
LateCommit ==
    /\ pending # None
    /\ pending' = None
    /\ IF Holds(pending) /\ FileIsThere(pending)
       THEN \E o \in Outcomes(pending) :
               /\ Activate(pending, o[1], o[2])
               /\ late' = (late \/ pending.lease = job.lease)
       ELSE UNCHANGED <<contexts, active, job, late>>
    /\ UNCHANGED <<library, saved, run, timeouts>>

-----------------------------------------------------------------------------
(* The end of the job *)

(* _primary_algorithm_summary: the result the decision names, or else the  *)
(* only valid one.                                                         *)
Primary(results, d) ==
    LET named == {r \in results : r.id = d.primary}
        valid == {r \in results : r.ok}
    IN  IF named # {} THEN named
        ELSE IF Cardinality(valid) = 1 THEN valid ELSE {}

(* _commit_context_results: the context of the row.                        *)
RecordedIn(c) == c = job.bound

(* record_analysis_results: what is not there does not erase what is.      *)
Record ==
    LET found == Primary(graph.results, graph.decision)
    IN  [c \in DOMAIN contexts |->
            IF ~RecordedIn(c) THEN contexts[c]
            ELSE [contexts[c] EXCEPT
                    !.report = @ \/ graph.report,
                    !.summary = IF found = {} THEN @
                                ELSE LET r == CHOOSE r \in found : TRUE
                                     IN  [file |-> r.file, params |-> graph.params,
                                      ok |-> r.ok]]]

Finish == At("end", "start") /\ Ends(Record) /\ UNCHANGED fault

NodeStep ==
    \/ Agent \/ RecursionLimit
    \/ SwitchTo \/ Clarify \/ Commit \/ Switched
    \/ FoldWithoutFile \/ FoldIsReady \/ FoldAsks \/ FoldTakesAnswer \/ FoldIsBound
    \/ Preprocess \/ RunAlgorithm \/ LeaveChild
    \/ GateAccepts \/ GateRefuses \/ Report \/ Answer \/ NodeFails \/ Finish

Next ==
    \/ CreateJob \/ JobIsLost \/ TakeOver \/ Resume
    \/ \E f \in Files : DeleteFile(f)
    \/ NodeStep \/ LateCommit

Spec == Init /\ [][Next]_vars

-----------------------------------------------------------------------------
(* Properties *)

AgentTypeOK ==
    /\ contexts \in Seq(Context) /\ Len(contexts) <= MaxContexts
    /\ active \in 0..Len(contexts) /\ library \subseteq Files
    /\ job \in Job /\ job.bound \in 0..Len(contexts) /\ job.lease \in 0..MaxLeases
    /\ graph \in Graph /\ graph.ctx \in 0..Len(contexts) /\ graph.retries \in 0..1
    /\ child \subseteq Result
    /\ run \in Run /\ run.visits \in 0..MaxVisits
    /\ pending \in Tx \cup {None} /\ late \in BOOLEAN /\ timeouts \in 0..MaxLate

(* Once the parameters are bound, the state the nodes work on, the row the *)
(* results are written by and the context they are written to name the     *)
(* same file, target and treatment, whatever was retried, taken over or    *)
(* deleted on the way.                                                     *)
Analysing ==
    /\ job.status = "running"
    /\ \/ graph.node \in {"preprocess", "deep_agent", "gate"}
       \/ graph.node = "report" /\ graph.fin # "none"

StateFollowsRow ==
    Analysing /\ ~late =>
        /\ job.bound # 0 /\ graph.ctx = job.bound /\ active = job.bound
        /\ graph.file = job.file
        /\ contexts[job.bound].file = job.file
        /\ contexts[job.bound].params = graph.params

(* No context shows the result of an analysis of another file, or of       *)
(* another target and treatment.  Without a target an analysis may be      *)
(* recorded, and the first target that is named is filled in afterwards.   *)
RecordedWhereComputed ==
    ~late => \A c \in DOMAIN contexts :
        LET x == contexts[c]
        IN  x.summary # None =>
                /\ x.file \in {None, x.summary.file}
                /\ x.summary.params \in {None, x.params}

(* A conclusion the gate has let pass ends up, as a valid result, in the   *)
(* context of the file, target and treatment it was computed on.           *)
Concludes ==
    /\ graph.node = "end" /\ graph.fin = "valid" /\ ~late
    /\ graph.decision.outcome = "algorithm_supported" /\ Finish

AcceptedIsRecorded ==
    [][Concludes => contexts'[graph.ctx].summary =
                       [file |-> graph.file, params |-> graph.params, ok |-> TRUE]]_vars

=============================================================================
