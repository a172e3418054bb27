------------------------------ MODULE McpCalls ------------------------------
(***************************************************************************)
(* Algorithm calls from a worker's job to the causal-mcp service and back. *)
(* On the worker, every invocation is executed by a coroutine that retries *)
(* with the same invocation_id and cancels the remote side when the job is *)
(* revoked (Agent/deep_agent_tools/mcp_algorithm_executor.py); its calls   *)
(* go through the clients of McpClientPool.  On the service, a request     *)
(* passes three reads of the job's lease, three semaphores and a process   *)
(* of its own (Agent/CausalAgentMCP/service.py, executor_pool.py).  A      *)
(* request may arrive late, its connection may break, and the service may  *)
(* restart and forget.                                                     *)
(***************************************************************************)
EXTENDS McpClientPool, SequencesExt

CONSTANTS
    MaxRetries,     \* max_retries of the executor
    Running,        \* the semaphores passed one after the other: 3 in the code
                    \* (capability, admission, running)
    Permits,        \* permits of each
    Remembered,     \* ended invocations the service remembers (1024)
    MaxFaults       \* bound: broken connections, restarts, unreadable leases, processes that
                    \* die, runners that raise, cancelled coroutines, stops that are cut short,
                    \* permits granted to a request that has just ended

Invocations == Callers
Requests == Invocations \X (0 .. MaxRetries)
Semaphores == 1 .. Running

ASSUME CallsAssumption ==
    /\ MaxRetries \in Nat /\ Running \in Nat \ {0} /\ Permits \in [Semaphores -> Nat \ {0}]
    /\ Remembered \in Nat /\ MaxFaults \in Nat

VARIABLES
    leased,      \* the lease of the job in MySQL
    revoked,     \* the guard of the job knows that it was lost
    exec,        \* [Invocations -> Exec]: _execute_bound
    req,         \* [Requests -> Request]: execute_payload, per retry_ordinal
    proc,        \* [Requests -> Process]: the process of its own
    handle,      \* [Invocations -> the retry_ordinal registered, or None]
    cancelSet,   \* invocations whose handle has its cancel_event set
    terminal,    \* sequence of the ended invocations and their states
    free,        \* [Semaphores -> Nat]
    lostPermits, \* [Semaphores -> Nat]: taken by nobody and never given back
    cancelReq,   \* [Invocations -> CancelState]: cancel_payload
    faults

workerVars == <<revoked, exec>>
queueVars == <<handle, cancelSet, terminal, free, lostPermits>>
serviceVars == <<req, proc, queueVars>>
vars == <<poolVars, leased, workerVars, serviceVars, cancelReq, faults>>

ExecPhase == {"check", "call", "confirmed", "cancel", "end"}
Answers == {"result", "stale", "canceled", "exhausted", "duplicate"}
Exec == [at : ExecPhase, ordinal : 0 .. MaxRetries, answer : Answers \cup {"none"},
         result : BOOLEAN,                     \* it returns a result
         late   : BOOLEAN]                     \* history: its answer came after the lease was lost

ReqPhase == {"none", "sent", "register", "wait", "go", "running", "killed", "closing",
             "post", "answered", "gone"}
Request == [at     : ReqPhase,
            stage  : 0 .. Running,                   \* semaphores it knows it holds
            answer : Answers \cup {"none", "disconnected"}]

(* ended: it has given its value or its exception, and has not yet exited. *)
(* stopping: a thread of the service has it terminated, and killed.        *)
Process == {"none", "computing", "ended", "stopping"}
CancelStatus == {"canceled", "cancel_pending", "already_canceled", "already_finished", "not_found"}
CancelState == CancelStatus \cup {"none", "sent", "waiting", "gone"}

NewExec == [at |-> "check", ordinal |-> 0, answer |-> "none", result |-> FALSE,
            late |-> FALSE]
NewRequest == [at |-> "none", stage |-> 0, answer |-> "none"]

Init ==
    /\ PoolInit
    /\ leased = TRUE /\ revoked = FALSE
    /\ exec = [i \in Invocations |-> NewExec]
    /\ req = [q \in Requests |-> NewRequest]
    /\ proc = [q \in Requests |-> "none"]
    /\ handle = [i \in Invocations |-> None]
    /\ cancelSet = {} /\ terminal = <<>>
    /\ free = Permits /\ lostPermits = [s \in Semaphores |-> 0]
    /\ cancelReq = [i \in Invocations |-> "none"]
    /\ faults = 0

Fault == faults < MaxFaults /\ faults' = faults + 1

-----------------------------------------------------------------------------
(* The executor *)

ExecGoes(i, at) == exec' = [exec EXCEPT ![i].at = at]
ExecEnds(i) == exec' = [exec EXCEPT ![i] = [NewExec EXCEPT !.at = "end"]]
ExecReturns(i) == exec' = [exec EXCEPT ![i] = [NewExec EXCEPT !.at = "end", !.result = TRUE]]

(* ensure_active: the lease is read from the primary; what cannot be read  *)
(* is lost.                                                                *)
Active == leased /\ ~revoked
Inactive ==
    /\ revoked' = TRUE
    /\ IF Active THEN Fault ELSE UNCHANGED faults

CheckAndCall(i) ==
    /\ exec[i].at = "check"
    /\ \/ Active /\ StartCall(i, "execute") /\ ExecGoes(i, "call") /\ UNCHANGED <<revoked, faults>>
       \/ Inactive /\ ExecEnds(i) /\ UNCHANGED poolVars
    /\ UNCHANGED <<leased, serviceVars, cancelReq>>

Mine(i) == <<i, exec[i].ordinal>>

(* A place in the pool is there: the request goes out.                     *)
SendRequest(i) ==
    /\ exec[i].at = "call" /\ Acquire(i)
    /\ req' = [req EXCEPT ![Mine(i)].at = "sent"]
    /\ UNCHANGED <<leased, workerVars, proc, queueVars, cancelReq, faults>>

ReceiveAnswer(i) ==
    /\ exec[i].at = "call" /\ req[Mine(i)].at = "answered"
    /\ Answer(i)
    /\ exec' = [exec EXCEPT ![i].answer = req[Mine(i)].answer, ![i].late = ~leased]
    /\ req' = [req EXCEPT ![Mine(i)] = [NewRequest EXCEPT !.at = "gone"]]
    /\ UNCHANGED <<leased, revoked, proc, queueVars, cancelReq, faults>>

Forgotten(i) ==
    \/ exec[i].at = "call" /\ req[Mine(i)].at = "gone"
    \/ exec[i].at = "cancel" /\ cancelReq[i] = "gone"

(* The connection breaks, or nothing comes back from a service that has    *)
(* restarted.                                                              *)
Breaks(i) ==
    /\ CallFails(i)
    /\ IF Forgotten(i) THEN UNCHANGED faults ELSE Fault
    /\ UNCHANGED <<leased, workerVars, serviceVars, cancelReq>>

PoolWaits(i) ==
    /\ AcquireTimesOut(i) \/ Repair(i)
    /\ UNCHANGED <<leased, workerVars, serviceVars, cancelReq, faults>>

HandshakeFails(i) ==
    /\ CreateFails(i)
    /\ UNCHANGED <<leased, workerVars, serviceVars, cancelReq, faults>>

(* Before another attempt the lease is looked at once more.                *)
Retries(i) ==
    IF exec[i].ordinal = MaxRetries
    THEN ExecEnds(i) /\ UNCHANGED <<revoked, faults>>
    ELSE \/ Inactive /\ ExecEnds(i)
         \/ /\ Active /\ UNCHANGED <<revoked, faults>>
            /\ exec' = [exec EXCEPT ![i] = [NewExec EXCEPT !.ordinal = exec[i].ordinal + 1]]

(* Mutant: an answer is taken without another look at the lease.           *)
ConfirmUnread(i) == ~revoked /\ ExecGoes(i, "confirmed") /\ UNCHANGED <<revoked, faults>>

(* check_after_call: a thread reads the lease for the coroutine ...        *)
Confirm(i) ==
    \/ Inactive /\ ExecEnds(i)
    \/ Active /\ ExecGoes(i, "confirmed") /\ UNCHANGED <<revoked, faults>>

CallIsOver(i) ==
    /\ exec[i].at = "call" /\ CallReturns(i)
    /\ \/ call[i].outcome = "reply" /\ Confirm(i)
       \/ call[i].outcome \in {"exhausted", "transport"} /\ Retries(i)
       \/ call[i].outcome = "raised" /\ ExecEnds(i) /\ UNCHANGED <<revoked, faults>>
    /\ UNCHANGED <<leased, serviceVars, cancelReq>>

(* ... which then takes the answer, and does not look again: neither at    *)
(* the lease nor at what the heartbeat has found out since.                *)
Accept(i) ==
    /\ exec[i].at = "confirmed"
    /\ \/ exec[i].answer = "result" /\ ExecReturns(i) /\ UNCHANGED <<revoked, faults>>
       \/ /\ exec[i].answer \in {"stale", "canceled", "duplicate"} /\ ExecEnds(i)
          /\ UNCHANGED <<revoked, faults>>
       \/ exec[i].answer = "exhausted" /\ Retries(i)
    /\ UNCHANGED <<poolVars, leased, serviceVars, cancelReq>>

(* The guard is revoked, or the coroutine cancelled, during a call: the    *)
(* call is given up and the service asked to cancel the invocation, on the *)
(* control lane and for a limited time.                                    *)
GivesUp(i) == AbandonCall(i, Waiting("control")) /\ ExecGoes(i, "cancel")

Revoke(i) ==
    /\ exec[i].at = "call" /\ revoked /\ GivesUp(i)
    /\ UNCHANGED <<leased, revoked, serviceVars, cancelReq, faults>>

(* Between two calls there is nothing to give up, and nothing is cancelled.*)
CancelTask(i) ==
    /\ \/ exec[i].at = "call" /\ GivesUp(i)
       \/ /\ exec[i].at = "confirmed"
          /\ StartCall(i, "control") /\ ExecGoes(i, "cancel")
       \/ exec[i].at = "check" /\ ExecEnds(i) /\ UNCHANGED poolVars
    /\ Fault
    /\ UNCHANGED <<leased, revoked, serviceVars, cancelReq>>

SendCancel(i) ==
    /\ exec[i].at = "cancel" /\ Acquire(i)
    /\ cancelReq' = [cancelReq EXCEPT ![i] = "sent"]
    /\ UNCHANGED <<leased, workerVars, serviceVars, faults>>

ReceiveStatus(i) ==
    /\ exec[i].at = "cancel" /\ cancelReq[i] \in CancelStatus
    /\ Answer(i)
    /\ UNCHANGED <<leased, workerVars, serviceVars, cancelReq, faults>>

CancelIsOver(i) ==
    /\ exec[i].at = "cancel"
    /\ AbandonCall(i, Idle)
    /\ ExecEnds(i)
    /\ cancelReq' = [cancelReq EXCEPT ![i] = IF @ = "sent" THEN @ ELSE "none"]
    /\ UNCHANGED <<leased, revoked, serviceVars, faults>>

-----------------------------------------------------------------------------
(* The job *)

(* It is cancelled, or claimed by another worker ...                       *)
LoseLease ==
    /\ leased /\ leased' = FALSE
    /\ UNCHANGED <<poolVars, workerVars, serviceVars, cancelReq, faults>>

(* ... and the heartbeat notices.                                          *)
Heartbeat ==
    /\ ~leased /\ ~revoked /\ revoked' = TRUE
    /\ UNCHANGED <<poolVars, leased, exec, serviceVars, cancelReq, faults>>

-----------------------------------------------------------------------------
(* The service: a request until it is registered *)

Inv(q) == q[1]
ReqGoes(q, at) == req' = [req EXCEPT ![q].at = at]
ReqAnswers(q, answer) == req' = [req EXCEPT ![q] = [at |-> "answered", stage |-> 0, answer |-> answer]]
ReqIsGone(q) == req' = [req EXCEPT ![q] = [NewRequest EXCEPT !.at = "gone"]]
InService(q) == UNCHANGED <<poolVars, leased, workerVars, faults>>
Becomes(q, p) == proc' = [proc EXCEPT ![q] = p]

(* It arrives, and the input and the lease are read together.              *)
ReadAuthority(q) ==
    /\ req[q].at = "sent"
    /\ IF leased THEN ReqGoes(q, "register") ELSE ReqAnswers(q, "stale")
    /\ InService(q) /\ UNCHANGED <<proc, queueVars, cancelReq>>

StateOf(i) == {r[2] : r \in {t \in ToSet(terminal) : t[1] = i}}

(* Mutant: an attempt that is still there is not looked for.               *)
DuplicateIfCanceled(i) == "canceled" \in StateOf(i)

(* Mutant: only an attempt that is still there counts.                     *)
DuplicateIfThere(i) == handle[i] # None

(* _register refuses a second attempt while the first is there, and every  *)
(* attempt after a cancellation.                                           *)
Duplicate(i) == handle[i] # None \/ "canceled" \in StateOf(i)

Register(q) ==
    /\ req[q].at = "register"
    /\ IF Duplicate(Inv(q))
       THEN ReqAnswers(q, "duplicate") /\ UNCHANGED handle
       ELSE ReqGoes(q, "wait") /\ handle' = [handle EXCEPT ![Inv(q)] = q[2]]
    /\ InService(q) /\ UNCHANGED <<proc, cancelSet, terminal, free, lostPermits, cancelReq>>

-----------------------------------------------------------------------------
(* The service: the end of an attempt *)

(* Mutant: the running semaphore is not released.                          *)
FreedBelow(held) == [s \in Semaphores |-> IF s < held THEN free[s] + 1 ELSE free[s]]

(* The semaphores an attempt knows it holds.                               *)
Freed(held) == [s \in Semaphores |-> IF s <= held THEN free[s] + 1 ELSE free[s]]

Remember(i, state) ==
    LET before == {n \in DOMAIN terminal : terminal[n][1] = i}
        others == IF before = {} THEN terminal
                  ELSE RemoveAt(terminal, CHOOSE n \in before : TRUE)
        all == Append(others, <<i, state>>)
    IN  SubSeq(all, IF Len(all) > Remembered THEN Len(all) - Remembered + 1 ELSE 1, Len(all))

(* _finish: the registration goes, an attempt that was started is          *)
(* remembered, and whoever waits in cancel is told.                        *)
Finish(q, held, state) ==
    /\ handle' = [handle EXCEPT ![Inv(q)] = None]
    /\ cancelSet' = cancelSet \ {Inv(q)}
    /\ terminal' = IF state = "not_started" THEN terminal ELSE Remember(Inv(q), state)
    /\ free' = Freed(held)
    /\ cancelReq' = [cancelReq EXCEPT ![Inv(q)] = IF @ = "waiting" THEN "canceled" ELSE @]

FinishLosing(q) ==
    LET s == req[q].stage + 1
    IN  /\ handle' = [handle EXCEPT ![Inv(q)] = None]
        /\ cancelSet' = cancelSet \ {Inv(q)}
        /\ terminal' = Remember(Inv(q), "canceled")
        /\ free' = [Freed(req[q].stage) EXCEPT ![s] = @ - 1]
        /\ lostPermits' = [lostPermits EXCEPT ![s] = @ + 1]
        /\ cancelReq' = [cancelReq EXCEPT ![Inv(q)] = IF @ = "waiting" THEN "canceled" ELSE @]

Ends(q, state, answer) == Finish(q, req[q].stage, state) /\ ReqAnswers(q, answer) /\ UNCHANGED lostPermits

-----------------------------------------------------------------------------
(* The service: semaphores and the process *)

Grant(q) ==
    /\ req[q].at = "wait" /\ req[q].stage < Running
    /\ LET s == req[q].stage + 1
       IN  /\ free[s] > 0
           /\ free' = [free EXCEPT ![s] = @ - 1]
    /\ req' = [req EXCEPT ![q].stage = @ + 1]
    /\ InService(q) /\ UNCHANGED <<proc, handle, cancelSet, terminal, lostPermits, cancelReq>>

(* What was granted to a request that is cancelled is given back.          *)
CanceledInQueue(q) ==
    /\ req[q].at = "wait" /\ Inv(q) \in cancelSet
    /\ Ends(q, "canceled", "canceled")
    /\ InService(q) /\ UNCHANGED proc

(* All but the last are waited for during enqueue_timeout.                 *)
WaitTimesOut(q) ==
    /\ req[q].at = "wait" /\ req[q].stage < Running - 1 /\ free[req[q].stage + 1] = 0
    /\ Ends(q, "not_started", "exhausted")
    /\ InService(q) /\ UNCHANGED proc

(* With the last, before_start  reads the lease once more ...              *)
Begin(q) ==
    /\ req[q].at = "wait" /\ req[q].stage = Running
    /\ \/ leased /\ ReqGoes(q, "go") /\ UNCHANGED <<queueVars, cancelReq>>
       \/ ~leased /\ Ends(q, "not_started", "stale")
    /\ InService(q) /\ UNCHANGED proc

(* ... and unless it was cancelled meanwhile, the process starts.          *)
Go(q) ==
    /\ req[q].at = "go"
    /\ \/ /\ Inv(q) \notin cancelSet
          /\ ReqGoes(q, "running") /\ Becomes(q, "computing") /\ UNCHANGED <<queueVars, cancelReq>>
       \/ Inv(q) \in cancelSet /\ Ends(q, "canceled", "canceled") /\ UNCHANGED proc
    /\ InService(q)

(* The process gives its value or its exception, or dies ...               *)
Computes(q) ==
    /\ proc[q] = "computing"
    /\ \/ Becomes(q, "ended") /\ UNCHANGED faults
       \/ Becomes(q, "none") /\ Fault
    /\ UNCHANGED <<poolVars, leased, workerVars, req, queueVars, cancelReq>>

(* ... and is gone when it is stopped, joined, or its executor collected.  *)
Exits(q) ==
    /\ proc[q] = "stopping" \/ (proc[q] = "ended" /\ req[q].at # "running")
    /\ Becomes(q, "none")
    /\ InService(q) /\ UNCHANGED <<req, queueVars, cancelReq>>

(* It succeeds, and is joined; or it fails, and nobody stops its executor. *)
ProcessEnds(q) ==
    /\ req[q].at = "running"
    /\ \/ proc[q] = "ended" /\ ReqGoes(q, "closing") /\ UNCHANGED <<queueVars, cancelReq>>
             /\ UNCHANGED faults
       \/ /\ proc[q] # "computing" /\ Ends(q, "finished", "result")
          /\ IF proc[q] = "none" THEN UNCHANGED faults ELSE Fault
    /\ UNCHANGED <<poolVars, leased, workerVars, proc>>

Closed(q) ==
    /\ req[q].at = "closing" /\ proc[q] = "none"
    /\ Finish(q, req[q].stage, "finished")
    /\ req' = [req EXCEPT ![q].at = "post", ![q].stage = 0]
    /\ InService(q) /\ UNCHANGED <<proc, lostPermits>>

Stopped(q) == IF proc[q] = "none" THEN "none" ELSE "stopping"

(* Mutant: the attempt is over before its process was stopped.             *)
KillAfterwards(q) ==
    /\ req[q].at = "running"
    /\ \/ /\ Inv(q) \in cancelSet
          /\ Finish(q, req[q].stage, "canceled")
          /\ req' = [req EXCEPT ![q] = [at |-> "killed", stage |-> 0, answer |-> "canceled"]]
          /\ UNCHANGED lostPermits
       \/ /\ proc[q] = "computing"
          /\ req' = [req EXCEPT ![q].at = "killed", ![q].answer = "result"]
          /\ UNCHANGED <<queueVars, cancelReq>>
    /\ Becomes(q, Stopped(q)) /\ InService(q)

(* A cancellation, or the deadline, has the process stopped.               *)
Kill(q) ==
    /\ req[q].at = "running"
    /\ \E answer \in (IF proc[q] = "computing" THEN {"result"} ELSE {})
                    \cup (IF Inv(q) \in cancelSet THEN {"canceled"} ELSE {}) :
          req' = [req EXCEPT ![q].at = "killed", ![q].answer = answer]
    /\ Becomes(q, Stopped(q))
    /\ InService(q) /\ UNCHANGED <<queueVars, cancelReq>>

(* The thread that stops it waits until it is gone.                        *)
Killed(q) ==
    /\ req[q].at = "killed" /\ proc[q] = "none"
    /\ \/ req[q].answer = "result" /\ Ends(q, "finished", "result")
       \/ req[q].answer = "canceled" /\ Ends(q, "canceled", "canceled")
       \/ req[q].answer = "disconnected" /\ Finish(q, req[q].stage, "canceled") /\ ReqIsGone(q)
                                         /\ UNCHANGED lostPermits
    /\ InService(q) /\ UNCHANGED proc

(* The lease is read a third time before the result is returned.           *)
PostCheck(q) ==
    /\ req[q].at = "post"
    /\ ReqAnswers(q, IF leased THEN "result" ELSE "stale")
    /\ InService(q) /\ UNCHANGED <<proc, queueVars, cancelReq>>

(* A database that does not answer ends each of the three reads with a     *)
(* failed result.                                                          *)
Unreadable(q) ==
    /\ \/ req[q].at \in {"sent", "post"} /\ ReqAnswers(q, "result") /\ UNCHANGED <<queueVars, cancelReq>>
       \/ req[q].at = "wait" /\ req[q].stage = Running /\ Ends(q, "not_started", "result")
    /\ Fault
    /\ UNCHANGED <<poolVars, leased, workerVars, proc>>

(* Nobody waits for the answer any more, and the service is told so.  A    *)
(* permit granted in the turn in which the coroutine is cancelled is not   *)
(* given back: it was not seen.                                            *)
Unwanted(q) == ~(call[Inv(q)].phase = "calling" /\ exec[Inv(q)].at = "call" /\ Mine(Inv(q)) = q)

(* While a process is stopped, or joined, its thread goes on, but what     *)
(* waits for it does not: a second cancellation ends the attempt at once.  *)
Disconnect(q) ==
    /\ Unwanted(q)
    /\ \/ /\ req[q].at \in {"sent", "register", "post", "answered"}
          /\ ReqIsGone(q)
          /\ UNCHANGED <<proc, queueVars, cancelReq, faults>>
       \/ /\ \/ req[q].at \in {"wait", "go", "closing"} /\ UNCHANGED faults
             \/ req[q].at = "killed" /\ Fault
             \/ req[q].at = "running" /\ proc[q] # "computing" /\ UNCHANGED faults
          /\ ReqIsGone(q) /\ Finish(q, req[q].stage, "canceled")
          /\ UNCHANGED <<proc, lostPermits>>
       \/ /\ req[q].at = "wait" /\ req[q].stage < Running /\ free[req[q].stage + 1] > 0 /\ Fault
          /\ ReqIsGone(q) /\ FinishLosing(q)
          /\ UNCHANGED proc
       \/ /\ req[q].at = "running"
          /\ req' = [req EXCEPT ![q].at = "killed", ![q].answer = "disconnected"]
          /\ Becomes(q, Stopped(q))
          /\ cancelSet' = cancelSet \cup {Inv(q)}
          /\ UNCHANGED <<handle, terminal, free, lostPermits, cancelReq, faults>>
    /\ UNCHANGED <<poolVars, leased, workerVars>>

-----------------------------------------------------------------------------
(* The service: cancel, and a restart *)

CancelArrives(i) ==
    /\ cancelReq[i] = "sent"
    /\ \/ /\ handle[i] # None
          /\ cancelSet' = cancelSet \cup {i}
          /\ cancelReq' = [cancelReq EXCEPT ![i] = "waiting"]
       \/ /\ handle[i] = None
          /\ cancelReq' = [cancelReq EXCEPT ![i] =
                IF StateOf(i) = {} THEN "not_found"
                ELSE IF "canceled" \in StateOf(i) THEN "already_canceled" ELSE "already_finished"]
          /\ UNCHANGED cancelSet
    /\ UNCHANGED <<poolVars, leased, workerVars, req, proc, handle, terminal, free, lostPermits, faults>>

CancelTimesOut(i) ==
    /\ cancelReq[i] = "waiting"
    /\ cancelReq' = [cancelReq EXCEPT ![i] = "cancel_pending"]
    /\ UNCHANGED <<poolVars, leased, workerVars, serviceVars, faults>>

(* Its processes end with it.                                              *)
Restart ==
    /\ Fault
    /\ proc' = [q \in Requests |-> "none"]
    /\ req' = [q \in Requests |-> IF req[q].at \in {"none", "sent"} THEN req[q]
                                  ELSE [NewRequest EXCEPT !.at = "gone"]]
    /\ handle' = [i \in Invocations |-> None]
    /\ cancelSet' = {} /\ terminal' = <<>>
    /\ free' = Permits /\ lostPermits' = [s \in Semaphores |-> 0]
    /\ cancelReq' = [i \in Invocations |-> IF cancelReq[i] \in {"none", "sent"} THEN cancelReq[i]
                                           ELSE "gone"]
    /\ UNCHANGED <<poolVars, leased, workerVars>>

-----------------------------------------------------------------------------
WorkerStep(i) ==
    \/ CheckAndCall(i) \/ SendRequest(i) \/ ReceiveAnswer(i) \/ PoolWaits(i) \/ CallIsOver(i)
    \/ Accept(i) \/ Revoke(i) \/ SendCancel(i) \/ ReceiveStatus(i) \/ CancelIsOver(i)

ServiceStep(q) ==
    \/ ReadAuthority(q) \/ Register(q) \/ Grant(q)
    \/ CanceledInQueue(q) \/ WaitTimesOut(q) \/ Begin(q) \/ Go(q) \/ ProcessEnds(q) \/ Closed(q)
    \/ Kill(q) \/ Killed(q) \/ PostCheck(q) \/ Computes(q) \/ Exits(q)

Next ==
    \/ \E i \in Invocations :
          \/ WorkerStep(i) \/ Breaks(i) \/ HandshakeFails(i) \/ CancelTask(i)
          \/ CancelArrives(i) \/ CancelTimesOut(i)
    \/ \E q \in Requests : ServiceStep(q) \/ Unreadable(q) \/ Disconnect(q)
    \/ LoseLease \/ Heartbeat \/ Restart

Spec == Init /\ [][Next]_vars

-----------------------------------------------------------------------------
(* Properties *)

Admitted(q) == req[q].at \in {"wait", "go", "running", "killed", "closing"}
HeldBy(q, s) == req[q].stage >= s

(* The calls and the service keep their types.                             *)
CallsTypeOK ==
    /\ PoolTypeOK
    /\ leased \in BOOLEAN /\ revoked \in BOOLEAN
    /\ exec \in [Invocations -> Exec]
    /\ req \in [Requests -> Request] /\ proc \in [Requests -> Process]
    /\ handle \in [Invocations -> 0 .. MaxRetries \cup {None}]
    /\ cancelSet \subseteq Invocations
    /\ terminal \in Seq(Invocations \X {"canceled", "finished"})
    /\ free \in [Semaphores -> Nat] /\ lostPermits \in [Semaphores -> Nat]
    /\ cancelReq \in [Invocations -> CancelState]
    /\ faults \in Nat

(* Every permit is free or held by one attempt, but for those granted to a *)
(* coroutine that was cancelled before it saw them.                        *)
CapacityKept ==
    \A s \in Semaphores :
        free[s] + lostPermits[s] + Cardinality({q \in Requests : HeldBy(q, s)}) = Permits[s]

(* However its attempts are retried, delayed and broken, an invocation has *)
(* one of them in the queue or in a process at a time.  (A process that an *)
(* attempt has left behind does not count: see LeftOver.)                  *)
OneAttemptPerInvocation ==
    \A i \in Invocations : Cardinality({n \in 0 .. MaxRetries : Admitted(<<i, n>>)}) <= 1

(* A cancelled invocation is not run again by a late attempt, as long as   *)
(* the service remembers it.                                               *)
CanceledStaysCanceled ==
    \A i \in Invocations : "canceled" \in StateOf(i) => handle[i] = None

(* What may be left of a process when its attempt is over: it has ended,   *)
(* and was not stopped because its runner failed, or not joined because    *)
(* the coroutine was cancelled; or it is being stopped, and the coroutine  *)
(* that waited for that was cancelled as well.                             *)
LeftOver(q) ==
    \/ proc[q] = "ended" /\ req[q].at \in {"answered", "gone"}
    \/ proc[q] = "stopping" /\ req[q].at = "gone"

(* Whoever is told "canceled" or "already_canceled" is told when every     *)
(* process of the invocation is gone, but for what is left over: each of   *)
(* those has ended, or is being terminated by a thread of the service.     *)
CanceledIsStopped ==
    [][\A i \in Invocations :
          cancelReq'[i] # cancelReq[i] /\ cancelReq'[i] \in {"canceled", "already_canceled"}
          => \A n \in 0 .. MaxRetries : (proc[<<i, n>>] = "none" \/ LeftOver(<<i, n>>))']_cancelReq

(* An answer that comes after the job has lost its lease is never taken,   *)
(* whatever the service had read of the lease, and whenever the loss is    *)
(* noticed.  One that came before may be, though the lease is lost between *)
(* the last look at it and its use.                                        *)
LateAnswersAreDropped ==
    [][\A i \in Invocations : exec'[i].result /\ ~exec[i].result => ~exec[i].late]_exec
=============================================================================
