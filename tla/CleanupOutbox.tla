---------------------------- MODULE CleanupOutbox ----------------------------
(***************************************************************************)
(* What a deletion leaves behind in PostgreSQL, and who removes it: the    *)
(* deletion of a session (app/chat/routes.py) and of a user                *)
(* (app/admin/write_service.py), the two outboxes of                       *)
(* app/agent/persistence_cleanup.py, the processes of                      *)
(* Database/agent_persistence_cleanup_worker.py that empty them and        *)
(* Database/lifecycle_repair.py.                                           *)
(*                                                                         *)
(* MySQL and PostgreSQL share no transaction.  A deletion commits its      *)
(* business rows and one outbox row per job thread, and per user memory;   *)
(* a cleaner claims a row under a lease, deletes the data, then reports.   *)
(* Every MySQL transaction locks the rows it reads, so it is one action;   *)
(* every deletion in PostgreSQL is an action of its own.                   *)
(*                                                                         *)
(* Jobs appear as what a deletion asks of them (JobLifecycle has the       *)
(* rest): whether they are unfinished, and whether a slot occupies them.   *)
(***************************************************************************)
EXTENDS Naturals, FiniteSets

CONSTANTS
    Jobs, Sessions, Users,
    SessionOf,      \* the session of each job
    OwnerOf,        \* the user of each session
    Cleaners,       \* cleanup processes
    None,           \* SQL NULL in operation_id, no task in a cleaner
    MaxAttempts,    \* MAX_CLEANUP_ATTEMPTS
    MaxRepairs,     \* bound: runs of lifecycle_repair --apply
    LeftToRightSet  \* cancel_job's UPDATE tests the status it has just set

Tasks == Jobs \cup Users   \* a thread is named by its job, a memory by its user

ASSUME NamesAssumption == /\ Jobs \cap Users = {} /\ None \notin Tasks
                          /\ SessionOf \in [Jobs -> Sessions]
                          /\ OwnerOf \in [Sessions -> Users]
ASSUME LimitsAssumption == /\ MaxAttempts \in Nat \ {0} /\ MaxRepairs \in Nat
                           /\ LeftToRightSet \in BOOLEAN

VARIABLES
    sessions,   \* rows of sessions
    users,      \* rows of users
    job,        \* [Jobs -> Job]: analysis_jobs
    item,       \* [Tasks -> Item]: the rows of both outboxes
    operation,  \* [Users -> status]: admin_operations of user.delete
    thread,     \* [Jobs -> SUBSET Threads]: PostgreSQL checkpoints
    memory,     \* users with a memory in the PostgreSQL Store
    cleaner,    \* [Cleaners -> Cleaner]: the memory of each process
    repairs

businessVars == <<sessions, users, job>>
outboxVars   == <<item, operation>>
pgVars       == <<thread, memory>>
vars == <<businessVars, outboxVars, pgVars, cleaner, repairs>>

Threads == {"parent", "child"}

(* outlived: some slot lost this job's lease while it may still run.       *)
Job == [status : {"absent", "active", "ended", "deleted"},
        occupied : BOOLEAN, outlived : BOOLEAN]

Item == [status    : {"none", "pending", "processing", "succeeded", "failed"},
         attempts  : Nat,
         due       : BOOLEAN,
         lease     : {"null", "live", "expired"},
         operation : Users \cup {None}]

Phases == {"idle", "parent", "child", "memory", "cleaned", "error"}

Cleaner == [phase : Phases, task : Tasks \cup {None}]

Owner(j) == OwnerOf[SessionOf[j]]

NoItem == [status |-> "none", attempts |-> 0, due |-> FALSE, lease |-> "null",
           operation |-> None]

Started == [phase |-> "idle", task |-> None]

Init ==
    /\ sessions = Sessions /\ users = Users
    /\ job = [j \in Jobs |-> [status |-> "absent", occupied |-> FALSE, outlived |-> FALSE]]
    /\ item = [t \in Tasks |-> NoItem]
    /\ operation = [u \in Users |-> "none"]
    /\ thread = [j \in Jobs |-> {}]
    /\ memory = {}
    /\ cleaner = [c \in Cleaners |-> Started]
    /\ repairs = 0

-----------------------------------------------------------------------------
(* Jobs and the slots that run them *)

JobBecomes(j, r) == /\ job' = [job EXCEPT ![j] = r]
                    /\ UNCHANGED <<sessions, users, outboxVars, pgVars, cleaner, repairs>>

Create(j) ==
    /\ job[j].status = "absent" /\ SessionOf[j] \in sessions
    /\ JobBecomes(j, [job[j] EXCEPT !.status = "active"])

(* claim_next_job: a free job, or one whose lease went stale and whose     *)
(* slot may still be running.                                              *)
Take(j) ==
    /\ job[j].status = "active"
    /\ JobBecomes(j, [job[j] EXCEPT !.occupied = TRUE, !.outlived = @ \/ job[j].occupied])

(* complete_job with a question: the job waits without a slot.             *)
Wait(j) ==
    /\ job[j].status = "active" /\ job[j].occupied
    /\ JobBecomes(j, [job[j] EXCEPT !.occupied = FALSE])

(* complete_job and fail_job.                                              *)
Finish(j) ==
    /\ job[j].status = "active" /\ job[j].occupied
    /\ JobBecomes(j, [job[j] EXCEPT !.status = "ended", !.occupied = FALSE])

(* cancel_job: a running job stays occupied, it drains; in MySQL, which    *)
(* assigns from left to right, it is let go while its slot still runs.     *)
Cancel(j) ==
    /\ job[j].status = "active"
    /\ JobBecomes(j, [job[j] EXCEPT !.status = "ended", !.occupied = @ /\ ~LeftToRightSet,
                                    !.outlived = @ \/ (LeftToRightSet /\ job[j].occupied)])

(* release_execution_ownership by the slot itself (worker_confirmed), or   *)
(* by claim_next_job for a slot it has not heard of (lease_expired).       *)
Release(j, reason) ==
    /\ job[j].status = "ended" /\ job[j].occupied
    /\ JobBecomes(j, [job[j] EXCEPT !.occupied = FALSE,
                                    !.outlived = @ \/ reason = "lease_expired"])

(* The saver and the Store write for whichever slot runs the job.          *)
MayWrite(j) == job[j].occupied \/ job[j].outlived

SaveThread(j, t) ==
    /\ MayWrite(j)
    /\ thread' = [thread EXCEPT ![j] = @ \cup {t}]
    /\ UNCHANGED <<businessVars, outboxVars, memory, cleaner, repairs>>

SaveMemory(j) ==
    /\ MayWrite(j)
    /\ memory' = memory \cup {Owner(j)}
    /\ UNCHANGED <<businessVars, outboxVars, thread, cleaner, repairs>>

-----------------------------------------------------------------------------
(* Deletion *)

(* _enqueue: a row that exists is asked for again unless it has succeeded. *)
Enqueued(r, op) ==
    IF r.status = "none"
    THEN [status |-> "pending", attempts |-> 0, due |-> TRUE, lease |-> "null",
          operation |-> op]
    ELSE [r EXCEPT !.operation = IF @ = None THEN op ELSE @,
                   !.status = IF @ = "succeeded" THEN @ ELSE "pending",
                   !.due = @ \/ r.status # "succeeded",
                   !.lease = "null"]

Exists(j) == job[j].status \in {"active", "ended"}

Blocks(j) == job[j].status = "active" \/ job[j].occupied

(* Mutant: every deletion takes the memory along.                          *)
EnqueueWithMemory(tasks, op) ==
    item' = [t \in Tasks |-> IF t \in tasks \cup {Owner(j) : j \in tasks \cap Jobs}
                             THEN Enqueued(item[t], op) ELSE item[t]]

Enqueue(tasks, op) ==
    item' = [t \in Tasks |-> IF t \in tasks THEN Enqueued(item[t], op) ELSE item[t]]

DropJobs(js) ==
    job' = [j \in Jobs |-> IF j \in js THEN [job[j] EXCEPT !.status = "deleted"]
                                       ELSE job[j]]

(* Refused while a job of the session is unfinished or occupied.           *)
DeleteSession(s) ==
    LET js == {j \in Jobs : SessionOf[j] = s /\ Exists(j)}
    IN  /\ s \in sessions
        /\ \A j \in js : ~Blocks(j)
        /\ Enqueue(js, None)
        /\ DropJobs(js)
        /\ sessions' = sessions \ {s}
        /\ UNCHANGED <<users, operation, pgVars, cleaner, repairs>>

(* The user's row takes its sessions and jobs with it.                     *)
DeleteUser(u) ==
    LET js == {j \in Jobs : Owner(j) = u /\ Exists(j)}
    IN  /\ u \in users
        /\ \A j \in js : ~Blocks(j)
        /\ Enqueue(js \cup {u}, u)
        /\ operation' = [operation EXCEPT ![u] = "running"]
        /\ DropJobs(js)
        /\ users' = users \ {u}
        /\ sessions' = {s \in sessions : OwnerOf[s] # u}
        /\ UNCHANGED <<pgVars, cleaner, repairs>>

-----------------------------------------------------------------------------
(* The outbox *)

(* _update_operation_aggregate, from the outbox rows.                      *)
(* Mutant: the memories' outbox is not counted.                            *)
StatusInThreads(rows, u) == {rows[t].status : t \in {k \in Jobs : rows[k].operation = u}}

StatusIn(rows, u) == {rows[t].status : t \in {k \in Tasks : rows[k].operation = u}}

Aggregate(rows, u) ==
    IF "failed" \in StatusIn(rows, u) THEN "failed"
    ELSE IF StatusIn(rows, u) \subseteq {"succeeded"} THEN "succeeded"
    ELSE "running"

Update(rows, ops) ==
    /\ item' = rows
    /\ operation' = [u \in Users |-> IF u \in ops THEN Aggregate(rows, u)
                                     ELSE operation[u]]

Expired(t) == item[t].status = "processing" /\ item[t].lease = "expired"

GiveBack(r) == [r EXCEPT !.status = IF r.attempts >= MaxAttempts THEN "failed" ELSE "pending",
                         !.lease = "null"]

(* Mutant: the expired rows' operations are not counted again.             *)
ExpiredOperationsUncounted == {}

(* _release_expired_leases, and the operations it counts again.            *)
ExpiredOperations == {item[t].operation : t \in {k \in Tasks : Expired(k)}}

Released == [t \in Tasks |-> IF Expired(t) THEN GiveBack(item[t]) ELSE item[t]]

(* claim_cleanup_item asks the two outboxes in turns (_claim_order), which *)
(* decides only what goes first, and SKIP LOCKED may pass over rows: any   *)
(* due row may be taken.                                                   *)
DueTasks(rows) ==
    {t \in Tasks : rows[t].status = "pending" /\ rows[t].attempts < MaxAttempts /\ rows[t].due}

Leased(r) == [r EXCEPT !.status = "processing", !.attempts = @ + 1, !.lease = "live"]

FirstPhase(t) == IF t \in Jobs THEN "parent" ELSE "memory"

Claim(c) ==
    LET rows == Released
        ops  == ExpiredOperations
    IN  /\ cleaner[c].phase = "idle"
        /\ \/ \E t \in DueTasks(rows) :
                 /\ Update([rows EXCEPT ![t] = Leased(@)], ops)
                 /\ cleaner' = [cleaner EXCEPT ![c] = [phase |-> FirstPhase(t), task |-> t]]
           \/ /\ DueTasks(rows) = {}
              /\ Update(rows, ops)
              /\ UNCHANGED cleaner
        /\ UNCHANGED <<businessVars, pgVars, repairs>>

Idle(c) == cleaner' = [cleaner EXCEPT ![c] = Started]

GoTo(c, phase) == cleaner' = [cleaner EXCEPT ![c].phase = phase]

(* _cleanup_checkpoint_task: the parent's thread, then the child's; the    *)
(* first that fails fails the attempt.                                     *)
DeleteThread(c, t, next) ==
    /\ cleaner[c].phase = t
    /\ \/ /\ thread' = [thread EXCEPT ![cleaner[c].task] = @ \ {t}]
          /\ GoTo(c, next)
       \/ GoTo(c, "error") /\ UNCHANGED thread
    /\ UNCHANGED <<businessVars, outboxVars, memory, repairs>>

(* Mutant: the child's thread is forgotten.                                *)
DeleteParentOnly(c) == DeleteThread(c, "parent", "cleaned")

DeleteParent(c) == DeleteThread(c, "parent", "child")
DeleteChild(c)  == DeleteThread(c, "child", "cleaned")

(* purge_store_namespace succeeds when it has found the namespace empty;   *)
(* it may fail before and after its deletions.                             *)
PurgeMemory(c) ==
    /\ cleaner[c].phase = "memory"
    /\ \/ memory' = memory \ {cleaner[c].task} /\ GoTo(c, "cleaned")
       \/ memory' \in {memory, memory \ {cleaner[c].task}} /\ GoTo(c, "error")
    /\ UNCHANGED <<businessVars, outboxVars, thread, repairs>>

(* mark_cleanup_succeeded and mark_cleanup_failed: whoever holds the row,  *)
(* if anyone still processes it.  The operation is counted in any case.    *)
Report(c, r) ==
    LET t == cleaner[c].task
    IN  /\ Update([item EXCEPT ![t] = IF @.status = "processing" THEN r ELSE @],
                  {item[t].operation})
        /\ Idle(c)
        /\ UNCHANGED <<businessVars, pgVars, repairs>>

MarkSucceeded(c) ==
    /\ cleaner[c].phase = "cleaned"
    /\ Report(c, [item[cleaner[c].task] EXCEPT !.status = "succeeded", !.lease = "null"])

MarkFailed(c) ==
    /\ cleaner[c].phase = "error"
    /\ Report(c, [GiveBack(item[cleaner[c].task]) EXCEPT !.due = FALSE])

(* MySQL does not take the report, or the process ends and is started      *)
(* again: the row is left to its lease.                                    *)
Restart(c) ==
    /\ cleaner[c].phase # "idle"
    /\ Idle(c)
    /\ UNCHANGED <<businessVars, outboxVars, pgVars, repairs>>

(* Time passes: a lease ends, whether its holder works or not ...          *)
LeaseExpires(t) ==
    /\ item[t].lease = "live"
    /\ item' = [item EXCEPT ![t].lease = "expired"]
    /\ UNCHANGED <<businessVars, operation, pgVars, cleaner, repairs>>

(* ... and available_at is reached.                                        *)
BecomesDue(t) ==
    /\ item[t].status = "pending" /\ ~item[t].due
    /\ item' = [item EXCEPT ![t].due = TRUE]
    /\ UNCHANGED <<businessVars, operation, pgVars, cleaner, repairs>>

(* apply_repair_plan: the rows go back, the operations are not counted.    *)
Repairable(t) == item[t].status = "failed" \/ Expired(t)

Repair ==
    /\ repairs < MaxRepairs
    /\ \E t \in Tasks : Repairable(t)
    /\ item' = [t \in Tasks |->
          IF Repairable(t)
          THEN [item[t] EXCEPT !.status = "pending", !.attempts = 0, !.due = TRUE,
                               !.lease = "null"]
          ELSE item[t]]
    /\ repairs' = repairs + 1
    /\ UNCHANGED <<businessVars, operation, pgVars, cleaner>>

-----------------------------------------------------------------------------
JobStep(j) ==
    \/ Create(j) \/ Take(j) \/ Wait(j) \/ Finish(j) \/ Cancel(j)
    \/ \E reason \in {"worker_confirmed", "lease_expired"} : Release(j, reason)
    \/ \E t \in Threads : SaveThread(j, t)
    \/ SaveMemory(j)

Work(c) == Claim(c) \/ DeleteParent(c) \/ DeleteChild(c) \/ PurgeMemory(c)
           \/ MarkSucceeded(c) \/ MarkFailed(c)

Next ==
    \/ \E j \in Jobs : JobStep(j)
    \/ \E s \in Sessions : DeleteSession(s)
    \/ \E u \in Users : DeleteUser(u)
    \/ \E c \in Cleaners : Work(c) \/ Restart(c)
    \/ \E t \in Tasks : LeaseExpires(t) \/ BecomesDue(t)
    \/ Repair

Spec == Init /\ [][Next]_vars
(* A cleaner's process runs and is restarted (restart: unless-stopped),    *)
(* and time passes; deletions, repairs and jobs owe nothing.               *)
Fairness == /\ \A c \in Cleaners : WF_vars(Work(c))
            /\ \A t \in Tasks : WF_vars(LeaseExpires(t)) /\ WF_vars(BecomesDue(t))

FairSpec == Spec /\ Fairness

-----------------------------------------------------------------------------
(* Properties *)

(* The rows and the cleaners' memory keep their types.                     *)
CleanupTypeOK ==
    /\ sessions \subseteq Sessions /\ users \subseteq Users
    /\ job \in [Jobs -> Job]
    /\ item \in [Tasks -> Item]
    /\ operation \in [Users -> {"none", "running", "succeeded", "failed"}]
    /\ thread \in [Jobs -> SUBSET Threads] /\ memory \subseteq Users
    /\ cleaner \in [Cleaners -> Cleaner]
    /\ repairs \in Nat

Owed(t) == item[t].status \in {"pending", "processing", "failed"}

(* Data of a deleted job or user that is still in PostgreSQL is still owed *)
(* by the outbox, unless a slot outlived its lease: a deletion waits until *)
(* the slots of its jobs have let go, it registers every thread and the    *)
(* memory, and a row succeeds only after all its data has been deleted,    *)
(* whatever leases expire and whoever reports.                             *)
NothingOrphaned ==
    /\ \A j \in Jobs : job[j].status = "deleted" /\ thread[j] # {}
                         => Owed(j) \/ job[j].outlived
    /\ \A u \in Users : u \in memory \ users
          => Owed(u) \/ \E j \in Jobs : Owner(j) = u /\ job[j].outlived

Counted(u) == {t \in Tasks : item[t].operation = u}

(* A user's deletion shows success exactly when the memory and every       *)
(* thread it registered have been cleaned, and failure as soon as one was  *)
(* given up, for every order of claims, reports, expiries and restarts:    *)
(* it is never left running.  Only after a repair may it still show the    *)
(* failure while its rows are being tried again.                           *)
OperationTracksItems ==
    \A u \in Users \ users :
        /\ u \in Counted(u)
        /\ operation[u] = "succeeded" <=> \A t \in Counted(u) : item[t].status = "succeeded"
        /\ (\E t \in Counted(u) : item[t].status = "failed") => operation[u] = "failed"
        /\ operation[u] = "failed" =>
              \E t \in Counted(u) : \/ item[t].status = "failed"
                                    \/ repairs > 0 /\ Owed(t)

(* A row is given up only after MAX_CLEANUP_ATTEMPTS attempts, and no row  *)
(* is attempted more often: late reports do not use up or return attempts. *)
RetriesAreCounted ==
    \A t \in Tasks : /\ item[t].attempts <= MaxAttempts
                     /\ item[t].status = "failed" => item[t].attempts = MaxAttempts
                     /\ item[t].status = "pending" => item[t].attempts < MaxAttempts

(* A cleaner never touches the thread of a job that exists, nor the memory *)
(* of a user that exists; deleting a session leaves the memory alone.      *)
SparesTheLiving ==
    [][/\ \A j \in Jobs : Exists(j) => thread[j] \subseteq thread'[j]
       /\ memory \cap users \subseteq memory']_vars

(* Done is done: no late report, expired lease or repair takes a success   *)
(* back, neither of a row nor of an operation.                             *)
SuccessIsFinal ==
    [][/\ \A t \in Tasks : item[t].status = "succeeded" => item'[t].status = "succeeded"
       /\ \A u \in Users : operation[u] = "succeeded" => operation'[u] = "succeeded"]_vars

(* The deletion of a user ends for its administrator as well.              *)
OperationEnds == \A u \in Users : operation[u] = "running" ~> operation[u] # "running"
=============================================================================
