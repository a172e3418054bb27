---------------------------- MODULE JobLifecycle ----------------------------
(***************************************************************************)
(* The analysis jobs of app/agent/job_service.py and the worker slots of   *)
(* app/agent/worker/ that execute them.                                    *)
(*                                                                         *)
(* A job is a row of MySQL's analysis_jobs with its input ledger, its      *)
(* event log and its chat messages.  Every transaction of job_service      *)
(* locks the row with SELECT ... FOR UPDATE, so a transaction is one       *)
(* action.  Worker slots claim jobs under a lease (worker_id,              *)
(* attempt_count, lease_epoch) and run the graph.  The graph's checkpoints *)
(* live in PostgreSQL and are written without a fence; events and results  *)
(* go to MySQL, where every write is fenced by the lease.                  *)
(*                                                                         *)
(* attempt_count and lease_epoch start at 0 and are only incremented, both *)
(* by claim_next_job: the field epoch stands for the two.                  *)
(***************************************************************************)
EXTENDS Naturals, Sequences, FiniteSets

CONSTANTS
    Jobs,             \* jobs a client may create, one per idempotency key
    Workers,          \* worker slots, each named hostname:slot_index
    SessionOf,        \* the chat session each job belongs to
    None,             \* SQL NULL in worker_id, and no job in a slot
    MaxAttempts,      \* analysis_jobs.max_attempts (settings.JOB_MAX_ATTEMPTS)
    LeftToRightSet,   \* UPDATE ... SET reads columns it has already assigned
    PgMayFail,        \* PostgreSQL may become unreachable, and come back
    MaxQuestions,     \* bound: interrupts the graph raises in one job
    MaxInputs,        \* bound: input ledger rows of one job
    MaxProgress       \* bound: progress events of one job

ASSUME NoneAssumption == None \notin Jobs /\ None \notin Workers
ASSUME BoundsAssumption ==
    /\ MaxAttempts \in Nat /\ MaxQuestions \in Nat
    /\ MaxInputs \in Nat /\ MaxProgress \in Nat
    /\ LeftToRightSet \in BOOLEAN /\ PgMayFail \in BOOLEAN

VARIABLES
    job,      \* [Jobs -> Row]: analysis_jobs
    inputs,   \* [Jobs -> Seq(question)]: analysis_job_inputs; 0 = initial
    events,   \* [Jobs -> Seq(Event)]: analysis_job_events in id order
    chat,     \* [Jobs -> Seq(Message)]: chat_messages of the job
    ckpt,     \* [Jobs -> Checkpoint]: the job's root thread in PostgreSQL
    pgUp,     \* PostgreSQL answers
    slot      \* [Workers -> Slot]: the memory of each worker slot

dbVars == <<job, inputs, events, chat>>
pgVars == <<ckpt, pgUp>>
vars == <<dbVars, pgVars, slot>>

-----------------------------------------------------------------------------
(* Types *)

ActiveStatus   == {"queued", "running", "waiting_input"}
TerminalStatus == {"succeeded", "failed", "canceled"}
TerminalType   == {"final_result", "error", "canceled"}

Row == [status    : {"absent"} \cup ActiveStatus \cup TerminalStatus,
        execution : {"null", "leased", "draining"},
        worker    : Workers \cup {None},
        epoch     : Nat,
        recovery  : Nat,           \* recovery_count: stale claims
        resumes   : Nat,           \* resume_count: accepted answers
        question  : Nat,           \* current_question_id; 0 = NULL
        active    : BOOLEAN,       \* active_session_key IS NOT NULL
        heartbeat : {"null", "fresh", "stale", "expired"},
        release   : {"null", "worker_confirmed", "lease_expired"}]

(* question is 0 unless the event is an interrupt; epoch is the attempt of *)
(* the worker that wrote it (the payload's "attempt"), 0 for an event      *)
(* written on behalf of no attempt: cancel, stale repair, exhaustion.      *)
Event == [type     : {"progress", "interrupt"} \cup TerminalType,
          question : Nat,
          epoch    : Nat]

(* ref is the index of the input (user) or of the event (assistant).       *)
Message == [role : {"user", "assistant"}, ref : Nat]

(* asked numbers the interrupts raised along the thread's lineage: the id  *)
(* LangGraph gives an interrupt depends only on the checkpoint it is       *)
(* raised from, so two executions from one checkpoint ask one question.    *)
Checkpoint == [saved : BOOLEAN, asked : Nat, pending : BOOLEAN]

Slot == [phase   : {"idle", "claimed", "loaded", "ready", "node", "emit",
                    "write", "failing", "abort", "dead"},
         job     : Jobs \cup {None},
         epoch   : Nat,
         kind    : {"initial", "user_resume", "stale_recovery"},
         input   : Nat,            \* question the latest input answers
         asked   : Nat,            \* lineage position of the running graph
         out     : {"none", "progress", "interrupt", "final_result", "error"},
         revoked : BOOLEAN,        \* JobExecutionGuard.revoked
         beating : BOOLEAN]        \* the heartbeat task is still looping

TypeOK ==
    /\ job \in [Jobs -> Row]
    /\ inputs \in [Jobs -> Seq(Nat)]
    /\ events \in [Jobs -> Seq(Event)]
    /\ chat \in [Jobs -> Seq(Message)]
    /\ ckpt \in [Jobs -> Checkpoint]
    /\ pgUp \in BOOLEAN
    /\ slot \in [Workers -> Slot]

AbsentRow == [status |-> "absent", execution |-> "null", worker |-> None,
              epoch |-> 0, recovery |-> 0, resumes |-> 0, question |-> 0,
              active |-> FALSE, heartbeat |-> "null", release |-> "null"]

IdleSlot == [phase |-> "idle", job |-> None, epoch |-> 0, kind |-> "initial",
             input |-> 0, asked |-> 0, out |-> "none",
             revoked |-> FALSE, beating |-> FALSE]

Init ==
    /\ job = [j \in Jobs |-> AbsentRow]
    /\ inputs = [j \in Jobs |-> << >>]
    /\ events = [j \in Jobs |-> << >>]
    /\ chat = [j \in Jobs |-> << >>]
    /\ ckpt = [j \in Jobs |-> [saved |-> FALSE, asked |-> 0, pending |-> FALSE]]
    /\ pgUp = TRUE
    /\ slot = [w \in Workers |-> IdleSlot]

-----------------------------------------------------------------------------
(* The event log and the chat *)

(* uq (job_id, event_key): lifecycle events have a key, progress has none. *)
SameKey(e, f) == /\ e.type = f.type /\ e.question = f.question
                 /\ e.type # "progress"

Holds(log, e)     == \E i \in DOMAIN log : SameKey(log[i], e)
Conflicts(log, e) == \E i \in DOMAIN log : SameKey(log[i], e) /\ log[i] # e

(* Mutant: the replayed event is inserted again.                           *)
WithEventAgain(log, e) == Append(log, e)

(* _insert_event for a payload that does not conflict.                     *)
WithEvent(log, e) == IF Holds(log, e) THEN log ELSE Append(log, e)
EventId(log, e)   == CHOOSE i \in DOMAIN log : log[i] = e

(* Mutant: the source event is not looked up before the insert.            *)
WithReplyAgain(msgs, id) == Append(msgs, [role |-> "assistant", ref |-> id])

(* save_assistant_for_job_in_transaction: one message per source event.    *)
WithReply(msgs, id) ==
    LET reply == [role |-> "assistant", ref |-> id]
    IN  IF \E i \in DOMAIN msgs : msgs[i] = reply
        THEN msgs ELSE Append(msgs, reply)

(* One lifecycle transaction: in each job of lifecycle (a partial function *)
(* from jobs to events) store the event and the assistant message.         *)
Publish(lifecycle) ==
    LET log(j) == WithEvent(events[j], lifecycle[j])
    IN  /\ events' = [j \in Jobs |->
              IF j \in DOMAIN lifecycle THEN log(j) ELSE events[j]]
        /\ chat' = [j \in Jobs |->
              IF j \in DOMAIN lifecycle
              THEN WithReply(chat[j], EventId(log(j), lifecycle[j]))
              ELSE chat[j]]

PublishOne(j, e) == Publish([k \in {j} |-> e])

-----------------------------------------------------------------------------
(* Rows *)

Released(r, reason) ==
    [r EXCEPT !.execution = "null", !.worker = None, !.heartbeat = "null",
              !.release = reason]

(* heartbeat_at of a finished row is written but never read again: the     *)
(* model keeps "null" in it.                                               *)
WaitingRow(r, q) ==
    [Released(r, "worker_confirmed") EXCEPT !.status = "waiting_input",
                                            !.question = q]
FinishedRow(r, status) ==
    [Released(r, "worker_confirmed") EXCEPT !.status = status,
                                            !.active = FALSE, !.question = 0]

(* Mutants: an answered job's claim counts as a recovery; recovery_count   *)
(* counts down.                                                            *)
LeasedRowAlwaysRecovery(r, w) ==
    [r EXCEPT !.status = "running", !.execution = "leased", !.worker = w,
              !.epoch = @ + 1, !.heartbeat = "fresh", !.release = "null",
              !.recovery = IF r.epoch > 0 THEN @ + 1 ELSE @]
LeasedRow(r, w) ==
    [r EXCEPT !.status = "running", !.execution = "leased", !.worker = w,
              !.epoch = @ + 1, !.heartbeat = "fresh", !.release = "null",
              !.recovery = IF r.status = "running" THEN @ + 1 ELSE @]

(* cancel_job's UPDATE assigns status first and then tests status in the   *)
(* CASE expressions of execution_state, worker_id and heartbeat_at.  MySQL *)
(* evaluates the assignments of a single-table UPDATE from left to right   *)
(* on the values already assigned, so the tests see 'canceled'.            *)
CanceledRow(r) ==
    LET keep == r.status = "running" /\ ~LeftToRightSet
    IN  [r EXCEPT !.status = "canceled", !.active = FALSE, !.question = 0,
                  !.execution = IF keep THEN "draining" ELSE "null",
                  !.worker = IF keep THEN @ ELSE None,
                  !.heartbeat = IF keep THEN @ ELSE "null"]

Stale(r) == /\ r.status = "running" /\ r.execution = "leased"
            /\ r.heartbeat = "stale"

(* Mutant: nobody reaps.                                                   *)
NotReaped(r) == r

Reaped(r) ==
    IF r.status = "canceled" /\ r.execution = "draining" /\ r.heartbeat = "expired"
    THEN Released(r, "lease_expired")
    ELSE r

(* The lease of slot w on the job it runs, as the database sees it.        *)
Owns(w) ==
    LET r == job[slot[w].job]
    IN  r.worker = w /\ r.epoch = slot[w].epoch

(* Mutants: the fence compares only the status; only the epoch.            *)
HasAuthorityStatusOnly(w) ==
    /\ job[slot[w].job].status = "running"
    /\ job[slot[w].job].execution = "leased"
HasAuthorityEpochOnly(w) == job[slot[w].job].epoch = slot[w].epoch

HasAuthority(w) ==
    /\ Owns(w)
    /\ job[slot[w].job].status = "running"
    /\ job[slot[w].job].execution = "leased"

IsDraining(w) ==
    /\ Owns(w)
    /\ job[slot[w].job].status = "canceled"
    /\ job[slot[w].job].execution = "draining"

-----------------------------------------------------------------------------
(* The web routes: create, resume, cancel *)

(* Mutant: a job that waits for an answer does not hold its session.       *)
SessionFreeButWaiting(j) ==
    \A k \in Jobs : SessionOf[k] = SessionOf[j]
                      => job[k].status \notin {"queued", "running"}

SessionFree(j) ==
    \A k \in Jobs : SessionOf[k] = SessionOf[j]
                      => job[k].status \notin ActiveStatus

(* create_job.  A replayed idempotency key returns the stored job, an      *)
(* active job in the session or a missing session refuses: none of these   *)
(* changes anything.                                                       *)
Create(j) ==
    /\ job[j].status = "absent"
    /\ MaxInputs > 0
    /\ SessionFree(j)
    /\ job' = [job EXCEPT ![j].status = "queued", ![j].active = TRUE]
    /\ inputs' = [inputs EXCEPT ![j] = <<0>>]
    /\ chat' = [chat EXCEPT ![j] = <<[role |-> "user", ref |-> 1]>>]
    /\ UNCHANGED <<events, pgVars, slot>>

(* resume_job with a new idempotency key; a repeated key is a replay that  *)
(* changes nothing, so MaxInputs bounds the keys the client uses.          *)
Resume(j, q) ==
    /\ job[j].status = "waiting_input"
    /\ job[j].question = q
    /\ Len(inputs[j]) < MaxInputs
    /\ job' = [job EXCEPT ![j].status = "queued", ![j].question = 0,
                          ![j].resumes = @ + 1]
    /\ inputs' = [inputs EXCEPT ![j] = Append(@, q)]
    /\ chat' = [chat EXCEPT ![j] =
                    Append(@, [role |-> "user", ref |-> Len(inputs[j]) + 1])]
    /\ UNCHANGED <<events, pgVars, slot>>

CanceledEvent == [type |-> "canceled", question |-> 0, epoch |-> 0]

(* cancel_job; every replay and every conflict leaves the row alone.       *)
Cancel(j) ==
    /\ job[j].status \in ActiveStatus
    /\ job[j].status = "running" => job[j].execution = "leased"
    /\ ~Holds(events[j], CanceledEvent)
    /\ job' = [job EXCEPT ![j] = CanceledRow(@)]
    /\ PublishOne(j, CanceledEvent)
    /\ UNCHANGED <<inputs, pgVars, slot>>

-----------------------------------------------------------------------------
(* claim_next_job *)

(* _repair_pending_interrupt's event: its payload has no "attempt".        *)
RepairEvent(j) ==
    [type |-> "interrupt", question |-> ckpt[j].asked, epoch |-> 0]

ExhaustedEvent == [type |-> "error", question |-> 0, epoch |-> 0]

(* Mutant: > for >=.                                                       *)
ExhaustedLate(rows) == {j \in Jobs : Stale(rows[j]) /\ rows[j].recovery > MaxAttempts}

Exhausted(rows) == {j \in Jobs : Stale(rows[j]) /\ rows[j].recovery >= MaxAttempts}

Claimable(rows) ==
    LET queued == {j \in Jobs : rows[j].status = "queued"}
    IN  IF queued # {} THEN queued
        ELSE {j \in Jobs : Stale(rows[j]) /\ rows[j].recovery < MaxAttempts}

OneOf(set) == IF set = {} THEN {None} ELSE set

(* What one call does: reap expired draining rows, finalize one exhausted  *)
(* job x (None if there is none), then take job y.  x and a stale y are    *)
(* repaired when their checkpoint has an interrupt nobody has answered.    *)
(* Row order within a class (heartbeat_at, created_at) is left open.       *)
ClaimChoices(rows) ==
    {c \in [x : Jobs \cup {None}, y : Jobs \cup {None}] :
        c.x \in OneOf(Exhausted(rows)) /\ c.y \in OneOf(Claimable(rows))}

(* The jobs of a choice whose checkpoint must be read, and those repaired. *)
Inspected(c) == {c.x} \cup {j \in {c.y} \ {None} : job[j].status = "running"}
ToRepair(c)  == {j \in Inspected(c) \ {None} : ckpt[j].pending}

(* Mutant: the repair moves the row but stores no interrupt event.         *)
ClaimEventsNoRepair(c) ==
    [j \in {c.x} \ ({None} \cup ToRepair(c)) |-> ExhaustedEvent]

(* Events the transaction stores.                                          *)
ClaimEvents(c) ==
    [j \in ToRepair(c) \cup ({c.x} \ {None}) |->
        IF ckpt[j].pending THEN RepairEvent(j) ELSE ExhaustedEvent]

ClaimRow(c, w, j, r) ==
    IF j \in ToRepair(c) THEN WaitingRow(r, ckpt[j].asked)
    ELSE IF j = c.x THEN FinishedRow(r, "failed")
    ELSE IF j = c.y THEN LeasedRow(r, w)
    ELSE r

ClaimKind(r) == IF r.status = "running" THEN "stale_recovery"
                ELSE IF r.resumes > 0 THEN "user_resume" ELSE "initial"

(* The slot keeps the lease it reads back after the commit.                *)
ClaimedSlot(c) ==
    IF c.y = None \/ c.y \in ToRepair(c)
    THEN IdleSlot
    ELSE [IdleSlot EXCEPT !.phase = "claimed", !.job = c.y,
                          !.epoch = job[c.y].epoch + 1,
                          !.kind = ClaimKind(job[c.y]), !.beating = TRUE]

(* Without PostgreSQL an inspection raises _CheckpointRecoveryBlocked: the *)
(* whole transaction rolls back and the slot polls again.                  *)
Claim(w) ==
    LET rows == [j \in Jobs |-> Reaped(job[j])]
    IN  /\ slot[w].phase = "idle"
        /\ \E c \in ClaimChoices(rows) :
              /\ Inspected(c) \ {None} # {} => pgUp
              /\ \A j \in ToRepair(c) : ~Conflicts(events[j], RepairEvent(j))
              /\ job' = [j \in Jobs |-> ClaimRow(c, w, j, rows[j])]
              /\ Publish(ClaimEvents(c))
              /\ slot' = [slot EXCEPT ![w] = ClaimedSlot(c)]
        /\ UNCHANGED <<inputs, pgVars>>

(* The interrupt is already in the log with another payload: _insert_event *)
(* raises IdempotencyConflictError, claim_next_job rolls back and raises,  *)
(* run_slot re-raises and the worker process exits.                        *)
ClaimRaises(w) ==
    /\ slot[w].phase = "idle"
    /\ pgUp
    /\ \E c \in ClaimChoices([j \in Jobs |-> Reaped(job[j])]) :
          \E j \in ToRepair(c) : Conflicts(events[j], RepairEvent(j))
    /\ slot' = [slot EXCEPT ![w] = [IdleSlot EXCEPT !.phase = "dead"]]
    /\ UNCHANGED <<dbVars, pgVars>>

(* The supervisor restarts a worker process that exited.                   *)
Restart(w) ==
    /\ slot[w].phase = "dead"
    /\ slot' = [slot EXCEPT ![w] = IdleSlot]
    /\ UNCHANGED <<dbVars, pgVars>>

-----------------------------------------------------------------------------
(* A slot executes a job: _run_job, ai_call_stream, OrderedEventWriter *)

(* JobExecutionGuard.ensure_active, and the two ways it ends.              *)
Active(w) == ~slot[w].revoked /\ HasAuthority(w)
GoTo(w, s) == slot' = [slot EXCEPT ![w] = s]
Revoke(w) == GoTo(w, [slot[w] EXCEPT !.phase = "abort", !.revoked = TRUE])

(* ensure_active, then read the latest ledger input.                       *)
Start(w) ==
    /\ slot[w].phase = "claimed"
    /\ IF Active(w)
       THEN GoTo(w, [slot[w] EXCEPT !.phase = "loaded",
                        !.input = inputs[slot[w].job][Len(inputs[slot[w].job])]])
       ELSE Revoke(w)
    /\ UNCHANGED <<dbVars, pgVars>>

(* ai_call_stream reads the checkpoint and picks the graph's input; the    *)
(* four combinations it refuses raise into _run_job.                       *)
Resumable(w) ==
    LET s == slot[w]  c == ckpt[slot[w].job]
    IN  IF c.pending THEN s.input > 0
        ELSE \/ s.kind = "stale_recovery"
             \/ s.input = 0 /\ s.kind = "initial" /\ ~c.saved

Inspect(w) ==
    /\ slot[w].phase = "loaded"
    /\ IF ~Active(w) THEN Revoke(w)
       ELSE IF pgUp /\ Resumable(w)
       THEN GoTo(w, [slot[w] EXCEPT !.phase = "ready",
                                    !.asked = ckpt[slot[w].job].asked])
       ELSE GoTo(w, [slot[w] EXCEPT !.phase = "failing"])
    /\ UNCHANGED <<dbVars, pgVars>>

(* bind_node: the guard is asked before the node runs ...                  *)
NodeStart(w) ==
    /\ slot[w].phase = "ready"
    /\ IF Active(w) THEN GoTo(w, [slot[w] EXCEPT !.phase = "node"]) ELSE Revoke(w)
    /\ UNCHANGED <<dbVars, pgVars>>

(* ... and LangGraph saves what the node did, whoever owns the job by now. *)
NodeCommit(w, out) ==
    LET s == slot[w]
        asked == IF out = "interrupt" THEN s.asked + 1 ELSE s.asked
        past(type) == {i \in DOMAIN events[s.job] : events[s.job][i].type = type}
    IN  /\ s.phase = "node"
        /\ out = "progress" => Cardinality(past("progress")) < MaxProgress
        /\ asked <= MaxQuestions
        /\ out # "error" => pgUp
        /\ ckpt' = IF out = "error" THEN ckpt
                   ELSE [ckpt EXCEPT ![s.job] = [saved |-> TRUE, asked |-> asked,
                                                 pending |-> out = "interrupt"]]
        /\ GoTo(w, [s EXCEPT !.phase = "emit", !.out = out, !.asked = asked])
        /\ UNCHANGED <<dbVars, pgUp>>

(* When the graph has ended, ai_call_stream reads the thread again: it     *)
(* reports the interrupt it finds there, whoever saved it, then one it     *)
(* streamed, then the result.  A failed read is an error of the graph.     *)
Outcome(w) ==
    LET s == slot[w]  c == ckpt[slot[w].job]
    IN  IF s.out \notin {"interrupt", "final_result"} THEN s
        ELSE IF ~pgUp THEN [s EXCEPT !.out = "error"]
        ELSE IF c.pending THEN [s EXCEPT !.out = "interrupt", !.asked = c.asked]
        ELSE s

(* ai_call_stream and OrderedEventWriter._persist ask the guard first.     *)
Emit(w) ==
    /\ slot[w].phase = "emit"
    /\ IF Active(w) THEN GoTo(w, [Outcome(w) EXCEPT !.phase = "write"])
       ELSE Revoke(w)
    /\ UNCHANGED <<dbVars, pgVars>>

OutEvent(w) ==
    [type |-> slot[w].out, epoch |-> slot[w].epoch,
     question |-> IF slot[w].out = "interrupt" THEN slot[w].asked ELSE 0]

(* write_event of a progress event.                                        *)
WriteProgress(w) ==
    /\ slot[w].phase = "write" /\ slot[w].out = "progress"
    /\ IF HasAuthority(w)
       THEN /\ events' = [events EXCEPT ![slot[w].job] = Append(@, OutEvent(w))]
            /\ GoTo(w, [slot[w] EXCEPT !.phase = "ready", !.out = "none"])
       ELSE Revoke(w) /\ UNCHANGED events
    /\ UNCHANGED <<job, inputs, chat, pgVars>>

OutRow(w, r) == IF slot[w].out = "interrupt" THEN WaitingRow(r, slot[w].asked)
                ELSE FinishedRow(r, "succeeded")

(* _complete_job_lifecycle for an interrupt or a final result: a stored    *)
(* event with the same payload is a replay that succeeds without a fence,  *)
(* with another payload it raises into _run_job, and only then comes the   *)
(* fence.                                                                  *)
Complete(w) ==
    LET j == slot[w].job  e == OutEvent(w)
    IN  /\ slot[w].phase = "write" /\ slot[w].out \in {"interrupt", "final_result"}
        /\ IF Conflicts(events[j], e)
           THEN GoTo(w, [slot[w] EXCEPT !.phase = "failing"]) /\ UNCHANGED dbVars
           ELSE IF Holds(events[j], e)
           THEN GoTo(w, IdleSlot) /\ UNCHANGED dbVars
           ELSE IF HasAuthority(w)
           THEN /\ job' = [job EXCEPT ![j] = OutRow(w, @)]
                /\ PublishOne(j, e)
                /\ GoTo(w, IdleSlot)
                /\ UNCHANGED inputs
           ELSE Revoke(w) /\ UNCHANGED dbVars
        /\ UNCHANGED pgVars

(* fail_job, for an error event of the graph or an exception in _run_job.  *)
Fail(w) ==
    LET j == slot[w].job
        e == [type |-> "error", question |-> 0, epoch |-> slot[w].epoch]
    IN  /\ \/ slot[w].phase = "write" /\ slot[w].out = "error"
           \/ slot[w].phase = "failing"
        /\ IF HasAuthority(w)
           THEN /\ job' = [job EXCEPT ![j] = FinishedRow(@, "failed")]
                /\ PublishOne(j, e)
                /\ GoTo(w, IdleSlot)
                /\ UNCHANGED inputs
           ELSE Revoke(w) /\ UNCHANGED dbVars
        /\ UNCHANGED pgVars

(* The clean-up of a revoked invocation, complete: release_execution_      *)
(* ownership frees a canceled row that still drains under this lease.      *)
Release(w) ==
    LET j == slot[w].job
    IN  /\ slot[w].phase = "abort"
        /\ job' = IF IsDraining(w)
                  THEN [job EXCEPT ![j] = Released(@, "worker_confirmed")]
                  ELSE job
        /\ GoTo(w, IdleSlot)
        /\ UNCHANGED <<inputs, events, chat, pgVars>>

-----------------------------------------------------------------------------
(* Heartbeats, time and failures *)

(* refresh_execution_lease, then the authority it reads back.              *)
Heartbeat(w) ==
    LET j == slot[w].job
    IN  /\ slot[w].beating
        /\ IF HasAuthority(w)
           THEN job[j].heartbeat # "fresh" /\ UNCHANGED slot
           ELSE GoTo(w, [slot[w] EXCEPT !.revoked = TRUE, !.beating = FALSE])
        /\ job' = IF HasAuthority(w) \/ IsDraining(w)
                  THEN [job EXCEPT ![j].heartbeat = "fresh"] ELSE job
        /\ UNCHANGED <<inputs, events, chat, pgVars>>

(* Time passes: the age of heartbeat_at crosses JOB_STALE_AFTER_SECONDS,   *)
(* and for a draining row JOB_DRAINING_STALE_AFTER_SECONDS.                *)
Age(j) ==
    /\ \/ /\ job[j].heartbeat = "fresh"
          /\ job' = [job EXCEPT ![j].heartbeat = "stale"]
       \/ /\ job[j].heartbeat = "stale" /\ job[j].execution = "draining"
          /\ job' = [job EXCEPT ![j].heartbeat = "expired"]
    /\ UNCHANGED <<inputs, events, chat, pgVars, slot>>

(* MySQL does not answer the guard, or the process shuts down and cancels  *)
(* the slot: the invocation is revoked and cleans up.                      *)
Abandon(w) ==
    /\ slot[w].phase \in {"claimed", "loaded", "ready", "node", "emit", "write"}
    /\ Revoke(w)
    /\ UNCHANGED <<dbVars, pgVars>>

(* The process dies, or its clean-up is incomplete and releases nothing.   *)
Crash(w) ==
    /\ slot[w].job # None
    /\ GoTo(w, IdleSlot)
    /\ UNCHANGED <<dbVars, pgVars>>

PgToggle ==
    /\ PgMayFail
    /\ pgUp' = ~pgUp
    /\ UNCHANGED <<dbVars, ckpt, slot>>

-----------------------------------------------------------------------------
WorkerStep(w) ==
    \/ Start(w) \/ Inspect(w) \/ NodeStart(w)
    \/ \E out \in {"progress", "interrupt", "final_result", "error"} :
          NodeCommit(w, out)
    \/ Emit(w) \/ WriteProgress(w) \/ Complete(w) \/ Fail(w) \/ Release(w)

Next ==
    \/ \E j \in Jobs : \/ Create(j) \/ Cancel(j) \/ Age(j)
                       \/ \E q \in 1..MaxQuestions : Resume(j, q)
    \/ \E w \in Workers : \/ Claim(w) \/ ClaimRaises(w) \/ Restart(w)
                          \/ WorkerStep(w)
                          \/ Heartbeat(w) \/ Abandon(w) \/ Crash(w)
    \/ PgToggle

Spec == Init /\ [][Next]_vars

(* Slots keep taking steps (a graph node ends: LLM and MCP calls have       *)
(* timeouts), idle slots keep polling, clocks advance, exited processes    *)
(* are restarted.  Crashes, cancellations and answers owe nothing.         *)
Fairness ==
    /\ \A w \in Workers : /\ WF_vars(WorkerStep(w)) /\ WF_vars(Claim(w))
                          /\ WF_vars(Restart(w))
    /\ \A j \in Jobs : WF_vars(Age(j))

FairSpec == Spec /\ Fairness

-----------------------------------------------------------------------------
(* Safety *)

RowOK(r) ==
    /\ r.active <=> r.status \in ActiveStatus
    /\ r.execution = "leased" <=> r.status = "running"
    /\ r.execution = "draining" => r.status = "canceled"
    /\ r.worker # None <=> r.execution # "null"
    /\ r.heartbeat # "null" <=> r.execution # "null"
    /\ r.execution # "null" => r.release = "null"
    /\ r.question > 0 <=> r.status = "waiting_input"

(* A row's columns agree with its status, so that no transaction is        *)
(* refused by the table's CHECK constraints: the active session key is     *)
(* held exactly by unfinished jobs, a lease exactly by running ones, a     *)
(* waiting job names its question, only a canceled job drains, and an      *)
(* occupied row has no release reason.                                     *)
RowConsistent == \A j \in Jobs : RowOK(job[j])

(* A chat session has at most one unfinished job, through creation, the    *)
(* wait for an answer and the return to the queue.                         *)
OneActiveJobPerSession ==
    \A j, k \in Jobs :
        /\ job[j].status \in ActiveStatus
        /\ job[k].status \in ActiveStatus
        /\ SessionOf[j] = SessionOf[k]
        => j = k

Accounted(j) ==
    LET r == job[j] IN
    /\ r.status = "queued" => r.epoch = r.resumes + r.recovery
    /\ r.status \in {"running", "waiting_input", "succeeded", "failed"}
          => r.epoch = r.resumes + r.recovery + 1
    /\ r.recovery <= MaxAttempts
    /\ r.status # "absent" => Len(inputs[j]) = r.resumes + 1

(* Every claim is accounted for: the epoch counts the initial claim, one   *)
(* claim per accepted answer and one per recovery.                         *)
ClaimsAccountedFor == \A j \in Jobs : Accounted(j)

LeaseOrdered(j) ==
    \A i, k \in DOMAIN events[j] :
        i < k /\ events[j][k].epoch # 0
        => events[j][i].epoch <= events[j][k].epoch

(* Worker events appear in lease order: once a later attempt has written,  *)
(* nothing an earlier attempt still tries to write gets into the log.      *)
EventsInLeaseOrder == \A j \in Jobs : LeaseOrdered(j)

StatusOf(type) == CASE type = "final_result" -> "succeeded"
                    [] type = "error" -> "failed"
                    [] type = "canceled" -> "canceled"

LogClosed(j) ==
    /\ job[j].status \in TerminalStatus => events[j] # << >>
    /\ \A i \in DOMAIN events[j] :
          events[j][i].type \in TerminalType
          <=> i = Len(events[j]) /\ job[j].status \in TerminalStatus
    /\ \A i \in DOMAIN events[j] :
          events[j][i].type \in TerminalType
          => job[j].status = StatusOf(events[j][i].type)

(* A job's log has a terminal event exactly when the job is finished, it   *)
(* is the one its status names, and nothing comes after it.                *)
TerminalClosesLog == \A j \in Jobs : LogClosed(j)

AskedIn(log, q) == \E i \in DOMAIN log : log[i].question = q

(* A waiting job's question, and the question of every answer in the       *)
(* ledger, was asked by an interrupt event in the log.                     *)
AnswersWereAsked ==
    \A j \in Jobs :
        /\ job[j].status = "waiting_input" => AskedIn(events[j], job[j].question)
        /\ \A i \in DOMAIN inputs[j] :
              inputs[j][i] # 0 => AskedIn(events[j], inputs[j][i])

(* The chat shows each input once and each lifecycle event once, however   *)
(* often a lifecycle write is replayed, and shows nothing else.            *)
ChatMirrorsLedgers ==
    \A j \in Jobs :
        LET shown(role) == {i \in DOMAIN chat[j] : chat[j][i].role = role}
            lifecycle == {i \in DOMAIN events[j] : events[j][i].type # "progress"}
        IN  /\ {chat[j][i].ref : i \in shown("user")} = DOMAIN inputs[j]
            /\ {chat[j][i].ref : i \in shown("assistant")} = lifecycle
            /\ Len(chat[j]) = Len(inputs[j]) + Cardinality(lifecycle)

(* A finished job never changes its status, its log or its inputs again.   *)
FinishedForGood ==
    [][\A j \in Jobs : job[j].status \in TerminalStatus
         => /\ job'[j].status = job[j].status
            /\ events'[j] = events[j] /\ inputs'[j] = inputs[j]]_vars

(* A job canceled while it ran stays occupied, as draining under the same  *)
(* lease, for as long as the invocation that ran it is still at work: only *)
(* that invocation's clean-up or an expired heartbeat ends the occupation  *)
(* (cancel_job's docstring, Document/architecture/job-file-lifecycle.md).  *)
(* Deleting the session or the file relies on it.                          *)
CanceledJobStaysOccupied ==
    \A w \in Workers : slot[w].job # None =>
        LET r == job[slot[w].job] IN
        /\ r.status = "canceled" /\ r.epoch = slot[w].epoch /\ r.release = "null"
        => IsDraining(w)

(* _repair_pending_interrupt can be repeated (its docstring): a claim      *)
(* never finds the interrupt it must repair logged with another payload.   *)
RepairIsIdempotent ==
    \A j \in Jobs : Stale(job[j]) /\ ckpt[j].pending
        => ~Conflicts(events[j], RepairEvent(j))

-----------------------------------------------------------------------------
(* Liveness *)

(* A job that is queued or running is not left there: whatever crashes and *)
(* lost leases happen, it is recovered until it finishes, asks, or has     *)
(* used up its recoveries and fails.  The one excuse is a repair that the  *)
(* log refuses, which stops every claim (see RepairIsIdempotent).          *)
JobSettles ==
    \A j \in Jobs : job[j].status \in {"queued", "running"}
                    ~> \/ job[j].status \notin {"queued", "running"}
                       \/ ~RepairIsIdempotent

(* A draining occupation ends, also when the worker it waits for is gone.  *)
DrainingEnds ==
    \A j \in Jobs : job[j].execution = "draining"
                    ~> \/ job[j].execution # "draining"
                       \/ ~RepairIsIdempotent

-----------------------------------------------------------------------------
(* Refinement *)

PublicLog(j) == [i \in DOMAIN events[j] |->
                    [type |-> events[j][i].type,
                     question |-> events[j][i].question]]

Contract(j) == INSTANCE JobContract WITH Questions <- 1..MaxQuestions,
                                         status <- job[j].status,
                                         log <- PublicLog(j)

(* Each job keeps the API's contract: leases, recoveries, repairs, late    *)
(* workers and crashes are stutters or contract steps.  (Written as one    *)
(* box, equivalent to \A j \in Jobs : Contract(j)!ContractSpec.)           *)
KeepsContract ==
    /\ \A j \in Jobs : Contract(j)!ContractInit
    /\ [][\A j \in Jobs :
            [Contract(j)!ContractNext]_(Contract(j)!contractVars)]_vars
=============================================================================
