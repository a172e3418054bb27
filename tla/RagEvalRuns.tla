---------------------------- MODULE RagEvalRuns -----------------------------
(***************************************************************************)
(* The RAG evaluation runs of app/rag_eval: the Web process starts,        *)
(* cancels, reads and deletes them (isolated_runs.py, routes.py), a MySQL  *)
(* queue hands them to worker slots (job_service.py), and the slots of one *)
(* worker process execute them (worker.py, the executors of                *)
(* isolated_runs.py).                                                      *)
(*                                                                         *)
(* A run is kept twice.  Its row in rag_eval_jobs decides who executes it, *)
(* its file run.json is what users, the event stream and the other runs    *)
(* see.  Each read-modify-write of the file (_set_status, _emit) holds the *)
(* run's file lock and is one action, as is each SQL transaction; nothing  *)
(* holds the two together, so everything else is a sequence of actions.    *)
(***************************************************************************)
EXTENDS Naturals, FiniteSets

CONSTANTS
    Runs,         \* run ids
    Slots,        \* worker slots; worker_id is hostname:rag-eval:slot
    Clients,      \* Web requests that may be served at a time
    None,         \* no run, no slot
    Given,        \* runs of Runs that have ended before: staged, succeeded
    GivenKind,    \* [Given -> Kinds]
    GivenBase,    \* [Given -> Runs \cup {None}]
    Offered,      \* [Runs -> SUBSET Kinds]: what a run may be started as
    Limit,        \* [Kinds -> Nat]: job_limits()
    MaxAsked,     \* bound: cancellations, reads of stale runs and deletions
    MaxFaults     \* bound: crashes, dying threads, unsure enqueues, late heartbeats
                  \* and database errors of a worker that lives on

Kinds == {"ingestion", "candidate_generation", "rag_query", "evaluation",
          "dataset_governance", "tuning_dataset_governance"}

ASSUME RagAssumption ==
    /\ None \notin Runs /\ None \notin Slots
    /\ Given \subseteq Runs
    /\ GivenKind \in [Given -> Kinds]
    /\ GivenBase \in [Given -> Runs \cup {None}]
    /\ Offered \in [Runs -> SUBSET Kinds]
    /\ Limit \in [Kinds -> Nat]
    /\ MaxAsked \in Nat /\ MaxFaults \in Nat

VARIABLES
    file,      \* [Runs -> File]: run.json
    sql,       \* [Runs -> Row]: rag_eval_jobs
    slot,      \* [Slots -> Slot]: the slot threads
    beat,      \* [Slots -> Beat]: the heartbeat thread of each slot's run
    claimLock, \* the holder of the named lock rag_eval_job_claim
    web,       \* [Clients -> Request]
    source,    \* the uploaded source of the ingestions exists
    asked,     \* such requests so far
    faults,    \* crashes, dead threads, unsure enqueues and database errors so far
    slow       \* times a heartbeat that goes on was late

storeVars  == <<file, sql, source>>
workerVars == <<slot, beat, claimLock>>
bounded    == <<asked, faults, slow>>
vars == <<file, sql, slot, beat, claimLock, web, source, bounded>>

ActiveStatus   == {"queued", "running", "cancelling"}
TerminalStatus == {"staged", "succeeded", "cancelled", "failed"}

(* kind and base (ingestion_run_id or evaluation_run_id) outlive the file: *)
(* they are also in the memory of whoever has loaded it.                   *)
File == [state  : {"absent"} \cup ActiveStatus \cup TerminalStatus,
         kind   : Kinds \cup {"none"},
         base   : Runs \cup {None},
         cancel : BOOLEAN,       \* cancel_requested
         quiet  : BOOLEAN]       \* no activity for EVALUATION_STALE_AFTER

Row == [status : {"none", "queued", "running", "succeeded", "failed", "cancelled"},
        slot   : Slots \cup {None},    \* worker_id
        stale  : BOOLEAN,              \* heartbeat_at is too old
        claims : Nat]                  \* attempt_count

(* Where a slot thread is in _run_slot.  "dead": the thread has raised.    *)
SlotPhase == {"idle", "sweep", "poll", "counted", "claimed", "starting", "begin",
              "open", "work", "clear", "stopping", "ended", "settle", "realign",
              "raised", "mark", "fail", "done", "dead"}

Slot == [phase : SlotPhase,
         run   : Runs \cup {None},
         full  : SUBSET Kinds,         \* claim_next_job's blocked_kinds
         todo  : SUBSET Runs,          \* reconciled runs whose file is to be marked
         seen  : BOOLEAN,              \* cancel_requested as last loaded
         found : {"none"} \cup ActiveStatus \cup TerminalStatus,
                                       \* the status as last loaded, or to write
         next  : {"idle", "sweep", "ended", "fail", "done"},
                                       \* where to go on after the mark
         lost  : BOOLEAN]              \* the Event lease_lost

(* The heartbeat thread: running; lease_lost set; about to write the abort. *)
Beat == {"off", "on", "lost", "abort"}

RequestPhase == {"none", "start", "enqueue", "cancel", "cancelSql", "cancelled",
                 "stale", "staleLoad", "staleMark", "delete"}
Request == [phase : RequestPhase,
            runs  : SUBSET Runs,       \* the runs the request is about
            kind  : Kinds \cup {"none"},
            base  : Runs \cup {None}]

IdleSlot == [phase |-> "idle", run |-> None, full |-> {}, todo |-> {}, seen |-> FALSE,
             found |-> "none", next |-> "idle", lost |-> FALSE]
NoRequest == [phase |-> "none", runs |-> {}, kind |-> "none", base |-> None]

Done(kind) == IF kind = "ingestion" THEN "staged" ELSE "succeeded"

Init ==
    /\ file = [r \in Runs |->
                  IF r \in Given
                  THEN [state |-> Done(GivenKind[r]), kind |-> GivenKind[r],
                        base |-> GivenBase[r], cancel |-> FALSE, quiet |-> FALSE]
                  ELSE [state |-> "absent", kind |-> "none", base |-> None,
                        cancel |-> FALSE, quiet |-> FALSE]]
    /\ sql = [r \in Runs |->
                 [status |-> IF r \in Given THEN "succeeded" ELSE "none",
                  slot |-> None, stale |-> FALSE,
                  claims |-> IF r \in Given THEN 1 ELSE 0]]
    /\ slot = [w \in Slots |-> IdleSlot]
    /\ beat = [w \in Slots |-> "off"]
    /\ claimLock = None
    /\ web = [c \in Clients |-> NoRequest]
    /\ source = TRUE
    /\ asked = 0 /\ faults = 0 /\ slow = 0

-----------------------------------------------------------------------------
(* The stores *)

Active(r)   == file[r].state \in ActiveStatus
Terminal(r) == file[r].state \in TerminalStatus
Present(r)  == file[r].state # "absent"

(* _set_status: an unconditional overwrite.  A writer that has loaded the  *)
(* run before writes it back even when the file is gone, because _load     *)
(* falls back to the memory of its manager.                                *)
SetStatus(r, s) == file' = [file EXCEPT ![r].state = s, ![r].quiet = FALSE]
SetCancelling(r) == file' = [file EXCEPT ![r].state = "cancelling",
                                         ![r].cancel = TRUE, ![r].quiet = FALSE]

(* _is_stale_evaluation *)
IsStale(r) == Active(r) /\ file[r].quiet

(* job_service: each is one guarded UPDATE. *)
Ended(row, s) == [row EXCEPT !.status = s, !.slot = None, !.stale = FALSE]

(* Mutant: a job may be completed whatever has become of it.               *)
CompletesUnguarded(row) == row.status \in {"running", "cancelled", "failed"}

Completes(row) == row.status = "running"
MayEnd(row) == row.status \in {"queued", "running"}

CompleteJob(r) ==
    sql' = [sql EXCEPT ![r] = IF Completes(@) THEN Ended(@, "succeeded") ELSE @]
FailJob(r) ==
    sql' = [sql EXCEPT ![r] = IF MayEnd(@) THEN Ended(@, "failed") ELSE @]
CancelJob(r) ==
    sql' = [sql EXCEPT ![r] = IF MayEnd(@) THEN Ended(@, "cancelled") ELSE @]

-----------------------------------------------------------------------------
(* Starting a run *)

Request0(c) == web[c].phase = "none"
ReqEnds(c) == web' = [web EXCEPT ![c] = NoRequest]
ReqGoes(c, p) == web' = [web EXCEPT ![c].phase = p]
Requested == asked < MaxAsked /\ asked' = asked + 1
Asked(c) == CHOOSE r \in web[c].runs : TRUE

(* run ids are fresh: no file, no row, no request has used this one.       *)
Fresh(r) == /\ file[r].kind = "none" /\ sql[r].status = "none"
            /\ \A c \in Clients : r \notin web[c].runs

Created(r, kind, base) ==
    file' = [file EXCEPT ![r] = [state |-> "queued", kind |-> kind, base |-> base,
                                 cancel |-> FALSE, quiet |-> FALSE]]

(* Sources are looked up and run.json is written under .lifecycle.lock.    *)
StartIngestion(c, r) ==
    /\ Request0(c) /\ Fresh(r)
    /\ "ingestion" \in Offered[r]
    /\ source
    /\ Created(r, "ingestion", None)
    /\ web' = [web EXCEPT ![c] = [phase |-> "enqueue", runs |-> {r},
                                  kind |-> "ingestion", base |-> None]]
    /\ UNCHANGED <<sql, source, workerVars, bounded>>

(* The other runs check what they are based on, and write later.           *)
Starts(c, r, kind, base) ==
    /\ Request0(c) /\ Fresh(r)
    /\ kind \in Offered[r]
    /\ web' = [web EXCEPT ![c] = [phase |-> "start", runs |-> {r},
                                  kind |-> kind, base |-> base]]
    /\ UNCHANGED <<storeVars, workerVars, bounded>>

IsStaged(i)    == file[i].kind = "ingestion" /\ file[i].state = "staged"
IsEvaluated(e) == file[e].kind = "evaluation" /\ file[e].state = "succeeded"

StartQuery(c, r)      == \E i \in Runs : IsStaged(i) /\ Starts(c, r, "rag_query", i)
StartCandidates(c, r) == \E i \in Runs : IsStaged(i) /\ Starts(c, r, "candidate_generation", i)
StartTuning(c, r)     == \E i \in Runs : IsStaged(i) /\ Starts(c, r, "tuning_dataset_governance", i)
StartEvaluation(c, r) == \E i \in Runs : IsStaged(i) /\ Starts(c, r, "evaluation", i)
StartGovernance(c, r) == \E e \in Runs : IsEvaluated(e) /\ Starts(c, r, "dataset_governance", e)

StartWrites(c) ==
    /\ web[c].phase = "start"
    /\ Created(Asked(c), web[c].kind, web[c].base)
    /\ ReqGoes(c, "enqueue")
    /\ UNCHANGED <<sql, source, workerVars, bounded>>

Queued(row) == [row EXCEPT !.status = "queued"]

Enqueue(c) ==
    /\ web[c].phase = "enqueue"
    /\ sql' = [sql EXCEPT ![Asked(c)] = Queued(@)]
    /\ ReqEnds(c)
    /\ UNCHANGED <<file, source, workerVars, bounded>>

(* enqueue_job raises; the INSERT may have been committed all the same.    *)
EnqueueRaises(c) ==
    /\ web[c].phase = "enqueue"
    /\ faults + slow < MaxFaults
    /\ faults' = faults + 1
    /\ sql' = sql \/ sql' = [sql EXCEPT ![Asked(c)] = Queued(@)]
    /\ IF Present(Asked(c)) THEN SetStatus(Asked(c), "failed") ELSE UNCHANGED file
    /\ ReqEnds(c)
    /\ UNCHANGED <<source, workerVars, asked, slow>>

(* The rebound candidates of the repository are put down as an ended run.  *)
ImportReboundCandidate(c, r) ==
    /\ Request0(c) /\ Fresh(r)
    /\ "candidate_generation" \in Offered[r]
    /\ \E i \in Runs :
          /\ IsStaged(i)
          /\ file' = [file EXCEPT ![r] = [state |-> "succeeded", base |-> i, cancel |-> FALSE,
                                         kind |-> "candidate_generation", quiet |-> FALSE]]
    /\ UNCHANGED <<sql, source, workerVars, web, bounded>>

-----------------------------------------------------------------------------
(* Canceling a run: load, write the file, cancel the row, write the file *)

Cancel(c, r) ==
    /\ Request0(c) /\ Requested
    /\ Active(r)
    /\ web' = [web EXCEPT ![c] = [NoRequest EXCEPT !.phase = "cancel", !.runs = {r}]]
    /\ UNCHANGED <<storeVars, workerVars, faults, slow>>

(* A step of a request finds the run deleted: _load raises, the reply is 404. *)
RunIsGone(c) ==
    /\ web[c].phase \in {"cancel", "cancelled", "staleLoad", "staleMark"}
    /\ ~Present(Asked(c))
    /\ ReqEnds(c)
    /\ UNCHANGED <<storeVars, workerVars, bounded>>

CancelMarks(c) ==
    /\ web[c].phase = "cancel"
    /\ Present(Asked(c))
    /\ SetCancelling(Asked(c))
    /\ ReqGoes(c, "cancelSql")
    /\ UNCHANGED <<sql, source, workerVars, bounded>>

CancelSql(c) ==
    /\ web[c].phase = "cancelSql"
    /\ CancelJob(Asked(c))
    /\ IF sql'[Asked(c)].status = "cancelled" THEN ReqGoes(c, "cancelled") ELSE ReqEnds(c)
    /\ UNCHANGED <<file, source, workerVars, bounded>>

CancelEnds(c) ==
    /\ web[c].phase = "cancelled"
    /\ Present(Asked(c))
    /\ SetStatus(Asked(c), "cancelled")
    /\ ReqEnds(c)
    /\ UNCHANGED <<sql, source, workerVars, bounded>>

-----------------------------------------------------------------------------
(* Reading a run: get fails one that shows no activity *)

Read(c, r) ==
    /\ Request0(c) /\ Requested
    /\ IsStale(r)
    /\ web' = [web EXCEPT ![c] = [NoRequest EXCEPT !.phase = "stale", !.runs = {r}]]
    /\ UNCHANGED <<storeVars, workerVars, faults, slow>>

StaleSql(c) ==
    /\ web[c].phase = "stale"
    /\ FailJob(Asked(c))
    /\ ReqGoes(c, "staleLoad")
    /\ UNCHANGED <<file, source, workerVars, bounded>>

(* mark_worker_timeout: only an active run is marked.                      *)
StaleLoad(c) ==
    /\ web[c].phase = "staleLoad"
    /\ Present(Asked(c))
    /\ IF Active(Asked(c)) THEN ReqGoes(c, "staleMark") ELSE ReqEnds(c)
    /\ UNCHANGED <<storeVars, workerVars, bounded>>

StaleMark(c) ==
    /\ web[c].phase = "staleMark"
    /\ Present(Asked(c))
    /\ SetStatus(Asked(c), "failed")
    /\ ReqEnds(c)
    /\ UNCHANGED <<sql, source, workerVars, bounded>>

-----------------------------------------------------------------------------
(* Deleting runs and sources *)

(* The runs r is built on.  A governance names its evaluation and the      *)
(* ingestion of that evaluation.                                           *)
Bases(r) == ({file[r].base} \cup (IF file[r].kind = "dataset_governance"
                                 THEN {file[file[r].base].base} ELSE {})) \ {None}

(* _collect_run_references                                                 *)
References(r) == {s \in Runs \ {r} : Present(s) /\ r \in Bases(s)}

Deletes(c, runs) ==
    web' = [web EXCEPT ![c] = [NoRequest EXCEPT !.phase = "delete", !.runs = runs]]

(* A stale evaluation may be forced: its row is failed first.              *)
DeleteEvaluation(c, r) ==
    /\ Request0(c) /\ Requested
    /\ file[r].kind = "evaluation" /\ Present(r)
    /\ \/ ~Active(r) /\ UNCHANGED sql
       \/ IsStale(r) /\ FailJob(r)
    /\ Deletes(c, {r})
    /\ UNCHANGED <<file, source, workerVars, faults, slow>>

(* With cascade the ended runs that refer to it go as well.                *)
DeleteIngestion(c, r) ==
    /\ Request0(c) /\ Requested
    /\ file[r].kind = "ingestion" /\ Terminal(r)
    /\ \/ References(r) = {} /\ Deletes(c, {r})
       \/ /\ \A s \in References(r) : ~Active(s) /\ file[s].kind # "ingestion"
          /\ Deletes(c, {r} \cup References(r))
    /\ UNCHANGED <<storeVars, workerVars, faults, slow>>

DeleteDerived(c, r) ==
    /\ Request0(c) /\ Requested
    /\ file[r].kind \notin {"none", "ingestion", "evaluation"} /\ Terminal(r)
    /\ References(r) = {}
    /\ Deletes(c, {r})
    /\ UNCHANGED <<storeVars, workerVars, faults, slow>>

(* rmtree of what was looked at; a directory already gone ends the request.*)
RemoveDirectories(c) ==
    /\ web[c].phase = "delete"
    /\ file' = IF \A r \in web[c].runs : Present(r)
               THEN [r \in Runs |-> IF r \in web[c].runs
                                    THEN [file[r] EXCEPT !.state = "absent"] ELSE file[r]]
               ELSE file
    /\ ReqEnds(c)
    /\ UNCHANGED <<sql, source, workerVars, bounded>>

NamedByIngestion(r) == file[r].kind = "ingestion" /\ Active(r)

(* delete_uploaded_source, under .lifecycle.lock.                          *)
DeleteSource ==
    /\ source /\ Requested
    /\ \A r \in Runs : ~NamedByIngestion(r)
    /\ source' = FALSE
    /\ UNCHANGED <<file, sql, workerVars, web, faults, slow>>

-----------------------------------------------------------------------------
(* A slot thread between two runs: _reconcile_stale_runs, claim_next_job *)

GoTo(w, p) == slot' = [slot EXCEPT ![w].phase = p]
Run(w)  == slot[w].run
Kind(w) == IF Run(w) = None THEN "none" ELSE file[Run(w)].kind

(* Mutant: stale rows are handed out again.                                *)
ReconcileRequeues(w) ==
    /\ slot[w].phase = "idle"
    /\ LET old == {r \in Runs : sql[r].status = "running" /\ sql[r].stale}
       IN  sql' = [r \in Runs |-> IF r \in old THEN Ended(sql[r], "queued") ELSE sql[r]]
    /\ GoTo(w, "poll")
    /\ UNCHANGED <<file, source, beat, claimLock, web, bounded>>

(* Mutant: a row is given up only while its file shows activity.           *)
ReconcileShown(w) ==
    /\ slot[w].phase = "idle"
    /\ LET old == {r \in Runs : sql[r].status = "running" /\ sql[r].stale /\ Active(r)}
       IN  /\ sql' = [r \in Runs |-> IF r \in old THEN Ended(sql[r], "failed") ELSE sql[r]]
           /\ slot' = [slot EXCEPT ![w] = [IdleSlot EXCEPT !.todo = old,
                                            !.phase = IF old = {} THEN "poll" ELSE "sweep"]]
    /\ UNCHANGED <<file, source, beat, claimLock, web, bounded>>

(* Every stale row fails, in one transaction; the files are marked later.  *)
Reconcile(w) ==
    /\ slot[w].phase = "idle"
    /\ LET old == {r \in Runs : sql[r].status = "running" /\ sql[r].stale}
       IN  /\ sql' = [r \in Runs |-> IF r \in old THEN Ended(sql[r], "failed") ELSE sql[r]]
           /\ slot' = [slot EXCEPT ![w] = [IdleSlot EXCEPT !.todo = old,
                                            !.phase = IF old = {} THEN "poll" ELSE "sweep"]]
    /\ UNCHANGED <<file, source, beat, claimLock, web, bounded>>

(* mark_worker_timeout's load, for the next reconciled run; a run that has *)
(* been deleted is logged and skipped.                                     *)
Sweep(w) ==
    /\ slot[w].phase = "sweep"
    /\ \/ slot[w].todo = {} /\ GoTo(w, "poll")
       \/ \E r \in slot[w].todo :
             slot' = [slot EXCEPT ![w] =
                        [@ EXCEPT !.todo  = slot[w].todo \ {r},
                                  !.run   = IF Active(r) THEN r ELSE None,
                                  !.phase = IF Active(r) THEN "mark" ELSE "sweep",
                                  !.found = IF Active(r) THEN "failed" ELSE "none",
                                  !.seen = file[r].cancel,
                                  !.next = "sweep"]]
    /\ UNCHANGED <<storeVars, beat, claimLock, web, bounded>>

Running(k) == {r \in Runs : sql[r].status = "running" /\ file[r].kind = k}

(* Mutant: the counts are read without the lock.                           *)
CountKindsUnlocked(w) ==
    /\ slot[w].phase = "poll"
    /\ slot' = [slot EXCEPT ![w].phase = "counted",
                            ![w].full = {k \in Kinds : Cardinality(Running(k)) >= Limit[k]}]
    /\ UNCHANGED <<storeVars, beat, claimLock, web, bounded>>

(* GET_LOCK, then the running rows are counted by kind.  A slot that does  *)
(* not get the lock within two seconds has no job this time.               *)
CountKinds(w) ==
    /\ slot[w].phase = "poll"
    /\ \/ /\ claimLock = None
          /\ claimLock' = w
          /\ slot' = [slot EXCEPT ![w].phase = "counted",
                        ![w].full = {k \in Kinds : Cardinality(Running(k)) >= Limit[k]}]
       \/ /\ claimLock # None
          /\ slot' = [slot EXCEPT ![w] = IdleSlot]
          /\ UNCHANGED claimLock
    /\ UNCHANGED <<storeVars, beat, web, bounded>>

Priority == [rag_query |-> 60, evaluation |-> 50, dataset_governance |-> 40,
             tuning_dataset_governance |-> 30, candidate_generation |-> 20, ingestion |-> 10]

Claimable(full) == {r \in Runs : sql[r].status = "queued" /\ file[r].kind \notin full}
First(rs) == {r \in rs : \A q \in rs : Priority[file[r].kind] >= Priority[file[q].kind]}

(* The best queued row of a kind that is not full is taken, the lock freed. *)
TakeJob(w) ==
    /\ slot[w].phase = "counted"
    /\ LET queue == First(Claimable(slot[w].full))
       IN  \/ \E r \in queue :
                /\ sql' = [sql EXCEPT ![r] = [status |-> "running", slot |-> w, stale |-> FALSE,
                                              claims |-> @.claims + 1]]
                /\ slot' = [slot EXCEPT ![w] = [IdleSlot EXCEPT !.phase = "claimed", !.run = r]]
           \/ /\ queue = {}
              /\ slot' = [slot EXCEPT ![w] = IdleSlot]
              /\ UNCHANGED sql
    /\ claimLock' = IF claimLock = w THEN None ELSE claimLock
    /\ UNCHANGED <<file, source, beat, web, bounded>>

-----------------------------------------------------------------------------
(* _run_one *)

(* What the slot's manager finds: the file, or what it remembers of it.    *)
Flag(w) == IF Present(Run(w)) THEN file[Run(w)].cancel ELSE slot[w].seen
State(w) == IF Present(Run(w)) THEN file[Run(w)].state ELSE slot[w].found

(* A write of the slot puts a deleted run back, with the flag it remembers. *)
Writes(w, s) ==
    file' = [file EXCEPT ![Run(w)].state = s, ![Run(w)].cancel = Flag(w),
                         ![Run(w)].quiet = FALSE]
(* Every access refreshes the manager's memory.  Of the status it keeps    *)
(* what the slot has written or loaded to act upon.                        *)
Moves(w, p, s) ==
    slot' = [slot EXCEPT ![w] = [@ EXCEPT !.phase = p, !.seen = Flag(w), !.found = s]]
Looks(w, p) == Moves(w, p, slot[w].found)
Leaves(w) ==
    slot' = [slot EXCEPT ![w] = [IdleSlot EXCEPT !.phase = "done", !.run = Run(w)]]

(* _load raises for a run that has no file: the thread ends.  A run that   *)
(* was canceled meanwhile is not started.                                  *)
OpenRun(w) ==
    /\ slot[w].phase = "claimed"
    /\ LET r == Run(w)
           canceled == file[r].state = "cancelled" \/ file[r].cancel
       IN  /\ IF Present(r) /\ canceled THEN CancelJob(r) ELSE UNCHANGED sql
           /\ slot' = [slot EXCEPT ![w] =
                         IF ~Present(r) THEN [IdleSlot EXCEPT !.phase = "dead"]
                         ELSE IF canceled THEN IdleSlot
                         ELSE [@ EXCEPT !.phase = "starting", !.found = file[r].state]]
    /\ UNCHANGED <<file, source, beat, claimLock, web, bounded>>

MarkStarted(w) ==
    /\ slot[w].phase = "starting"
    /\ Writes(w, "running")
    /\ Moves(w, "begin", "running")
    /\ beat' = [beat EXCEPT ![w] = "on"]
    /\ UNCHANGED <<sql, source, claimLock, web, bounded>>

-----------------------------------------------------------------------------
(* The executors.  Each writes "running", does its work under checks of    *)
(* cancel_requested, and writes how it ended.                              *)

execUnchanged == <<sql, source, beat, claimLock, web, bounded>>

Begin(w, p) ==
    /\ slot[w].phase = "begin"
    /\ Writes(w, "running")
    /\ Moves(w, p, "running")
    /\ UNCHANGED execUnchanged

(* The staged index of the base is opened, or the run fails.               *)
OpenIndex(w) ==
    /\ slot[w].phase = "open"
    /\ IF \A b \in Bases(Run(w)) : Present(b)
       THEN UNCHANGED file /\ Looks(w, "work")
       ELSE Writes(w, "failed") /\ Moves(w, "ended", "failed")
    /\ UNCHANGED execUnchanged

(* cancel_checker.  After one that found nothing the work may end.         *)
Check(w) ==
    /\ slot[w].phase \in {"work", "clear"}
    /\ Looks(w, IF Flag(w) THEN "stopping" ELSE "clear")
    /\ UNCHANGED <<file, execUnchanged>>

(* except InterruptedError.                                                *)
Stop(w) ==
    /\ slot[w].phase = "stopping"
    /\ Writes(w, "cancelled")
    /\ Moves(w, "ended", "cancelled")
    /\ UNCHANGED execUnchanged

(* The next stage or question is announced: "running" once more.           *)
Announce(w) ==
    /\ slot[w].phase = "clear"
    /\ Writes(w, "running")
    /\ Moves(w, "clear", "running")
    /\ UNCHANGED execUnchanged

Finish(w, s) ==
    /\ slot[w].phase = "clear"
    /\ Writes(w, s)
    /\ Moves(w, "ended", s)
    /\ UNCHANGED execUnchanged

(* except Exception.                                                       *)
Break(w) ==
    /\ slot[w].phase \in {"work", "clear"}
    /\ Writes(w, "failed")
    /\ Moves(w, "ended", "failed")
    /\ UNCHANGED execUnchanged

Works(w) == Check(w) \/ Stop(w) \/ Break(w)

(* The sources are resolved before the executor's try block.               *)
RunIngestion(w) ==
    /\ Kind(w) = "ingestion"
    /\ \/ source /\ Begin(w, "work")
       \/ /\ ~source /\ slot[w].phase = "begin"
          /\ GoTo(w, "raised") /\ UNCHANGED <<file, execUnchanged>>
       \/ Works(w) \/ Finish(w, "staged")

RunQuery(w) ==
    /\ Kind(w) = "rag_query"
    /\ Begin(w, "open") \/ OpenIndex(w) \/ Works(w) \/ Announce(w) \/ Finish(w, "succeeded")

RunEvaluation(w) ==
    /\ Kind(w) = "evaluation"
    /\ Begin(w, "open") \/ OpenIndex(w) \/ Works(w) \/ Finish(w, "succeeded")

RunGovernance(w) ==
    /\ Kind(w) = "dataset_governance"
    /\ Begin(w, "open") \/ OpenIndex(w) \/ Works(w) \/ Announce(w) \/ Finish(w, "succeeded")

RunTuning(w) ==
    /\ Kind(w) = "tuning_dataset_governance"
    /\ Begin(w, "open") \/ OpenIndex(w) \/ Works(w) \/ Announce(w) \/ Finish(w, "succeeded")

(* The candidates are generated in a forked child, which the slot ends as  *)
(* soon as it sees the run canceled in either store.                       *)
RunCandidates(w) ==
    /\ Kind(w) = "candidate_generation"
    /\ \/ Begin(w, "open") \/ OpenIndex(w) \/ Works(w) \/ Finish(w, "succeeded")
       \/ /\ slot[w].phase \in {"begin", "open", "work", "clear", "stopping"}
          /\ Flag(w) \/ sql[Run(w)].status = "cancelled"
          /\ slot' = [slot EXCEPT ![w].phase = "mark", ![w].found = "cancelled",
                                  ![w].next = "ended"]
          /\ UNCHANGED <<file, execUnchanged>>

Execute(w) == \/ RunIngestion(w) \/ RunQuery(w) \/ RunEvaluation(w)
              \/ RunGovernance(w) \/ RunTuning(w) \/ RunCandidates(w)

-----------------------------------------------------------------------------
(* The end of _run_one: what the file says is taken over into the row *)

Load(w) ==
    /\ slot[w].phase = "ended"
    /\ Moves(w, "settle", State(w))
    /\ UNCHANGED <<file, execUnchanged>>

Settle(w) ==
    LET r == Run(w)
        s == slot[w].found
    IN  /\ slot[w].phase = "settle"
        /\ ~slot[w].lost
        /\ \/ s = "cancelled" /\ CancelJob(r) /\ Leaves(w)
           \/ /\ s = Done(Kind(w))
              /\ CompleteJob(r)
              /\ IF Completes(sql[r]) THEN Leaves(w) ELSE GoTo(w, "realign")
           \/ s = "failed" /\ FailJob(r) /\ Leaves(w)
           \/ /\ s \in ActiveStatus
              /\ GoTo(w, "raised") /\ UNCHANGED sql
        /\ UNCHANGED <<file, source, beat, claimLock, web, bounded>>

(* The lease was lost: the row decides.                                    *)
SettleLost(w) ==
    /\ slot[w].phase \in {"settle", "raised"} /\ slot[w].lost
    /\ GoTo(w, "realign")
    /\ UNCHANGED <<file, execUnchanged>>

(* Mutant: a row that is not running any more is taken for a success.      *)
RealignTrusting(w) ==
    /\ slot[w].phase = "realign"
    /\ Leaves(w)
    /\ UNCHANGED <<file, execUnchanged>>

(* _reconcile_terminal_state: read the row, then mark the file.            *)
Realign(w) ==
    /\ slot[w].phase = "realign"
    /\ IF sql[Run(w)].status = "succeeded" THEN Leaves(w)
       ELSE slot' = [slot EXCEPT ![w] =
                       [@ EXCEPT !.phase = "mark", !.next = "done",
                                 !.found = IF sql[Run(w)].status = "cancelled"
                                           THEN "cancelled" ELSE "failed"]]
    /\ UNCHANGED <<file, execUnchanged>>

(* mark_worker_timeout's load, after an exception or an odd end; then the  *)
(* row is failed.                                                          *)
Raised(w) ==
    /\ slot[w].phase = "raised" /\ ~slot[w].lost
    /\ slot' = [slot EXCEPT ![w] =
                  [@ EXCEPT !.phase = IF State(w) \in ActiveStatus THEN "mark" ELSE "fail",
                            !.found = "failed", !.next = "fail"]]
    /\ UNCHANGED <<file, execUnchanged>>

FailRow(w) ==
    /\ slot[w].phase = "fail"
    /\ FailJob(Run(w))
    /\ Leaves(w)
    /\ UNCHANGED <<file, source, beat, claimLock, web, bounded>>

(* The write of mark_worker_timeout, _fenced and _cancelled.               *)
Mark(w) ==
    /\ slot[w].phase = "mark"
    /\ Writes(w, slot[w].found)
    /\ IF slot[w].next = "done" THEN Leaves(w)
       ELSE Moves(w, slot[w].next, slot[w].found)
    /\ UNCHANGED execUnchanged

(* The heartbeat thread is stopped and joined; the slot looks for more.    *)
Join(w) ==
    /\ slot[w].phase = "done"
    /\ beat[w] \in {"on", "off"}
    /\ beat' = [beat EXCEPT ![w] = "off"]
    /\ slot' = [slot EXCEPT ![w] = IdleSlot]
    /\ UNCHANGED <<storeVars, claimLock, web, bounded>>

SlotStep(w) ==
    \/ Reconcile(w) \/ Sweep(w) \/ CountKinds(w) \/ TakeJob(w)
    \/ OpenRun(w) \/ MarkStarted(w) \/ Execute(w)
    \/ Load(w) \/ Settle(w) \/ SettleLost(w) \/ Realign(w) \/ Raised(w)
    \/ FailRow(w) \/ Mark(w) \/ Join(w)

-----------------------------------------------------------------------------
(* _heartbeat_loop *)

HasLease(w) == sql[Run(w)].status = "running" /\ sql[Run(w)].slot = w

Heartbeat(w) ==
    /\ beat[w] = "on" /\ HasLease(w)
    /\ sql' = [sql EXCEPT ![Run(w)].stale = FALSE]
    /\ file' = [file EXCEPT ![Run(w)].quiet = FALSE]
    /\ UNCHANGED <<source, workerVars, web, bounded>>

LoseLease(w) ==
    /\ beat[w] = "on" /\ ~HasLease(w)
    /\ beat' = [beat EXCEPT ![w] = "lost"]
    /\ slot' = [slot EXCEPT ![w].lost = TRUE]
    /\ UNCHANGED <<storeVars, claimLock, web, bounded>>

(* request_lease_abort: an active run is asked to stop.                    *)
AbortLoad(w) ==
    /\ beat[w] = "lost"
    /\ beat' = [beat EXCEPT ![w] = IF State(w) \in ActiveStatus THEN "abort" ELSE "off"]
    /\ UNCHANGED <<storeVars, slot, claimLock, web, bounded>>

AbortMark(w) ==
    /\ beat[w] = "abort"
    /\ SetCancelling(Run(w))
    /\ slot' = [slot EXCEPT ![w].seen = TRUE]
    /\ beat' = [beat EXCEPT ![w] = "off"]
    /\ UNCHANGED <<sql, source, claimLock, web, bounded>>

HeartbeatStep(w) == Heartbeat(w) \/ LoseLease(w) \/ AbortLoad(w) \/ AbortMark(w)

-----------------------------------------------------------------------------
(* Time and faults *)

(* A heartbeat thread is at work for r; it may be late all the same.       *)
Beats(r) == \E w \in Slots : Run(w) = r /\ beat[w] = "on"
Late(r) == IF Beats(r) THEN faults + slow < MaxFaults /\ slow' = slow + 1 ELSE UNCHANGED slow

(* No heartbeat got through for JOB_STALE_AFTER_SECONDS.                   *)
RowAges(r) ==
    /\ sql[r].status = "running" /\ ~sql[r].stale
    /\ sql' = [sql EXCEPT ![r].stale = TRUE]
    /\ Late(r)
    /\ UNCHANGED <<file, source, workerVars, web, asked, faults>>

(* Nothing happened to the run for EVALUATION_STALE_AFTER_SECONDS.         *)
FileAges(r) ==
    /\ Active(r) /\ ~file[r].quiet
    /\ file' = [file EXCEPT ![r].quiet = TRUE]
    /\ Late(r)
    /\ UNCHANGED <<sql, source, workerVars, web, asked, faults>>

AllIdle == /\ slot' = [w \in Slots |-> IdleSlot]
           /\ beat' = [w \in Slots |-> "off"]
           /\ claimLock' = None

(* The worker process dies and is started again.                           *)
Crash ==
    /\ faults + slow < MaxFaults
    /\ faults' = faults + 1
    /\ AllIdle
    /\ UNCHANGED <<storeVars, web, asked, slow>>

(* The statement that takes an end over into the row raises; its commit    *)
(* may have come through.  _run_one catches it as an error of the run.     *)
SettleRaises(w) ==
    LET r == Run(w)
        s == slot[w].found
    IN  /\ slot[w].phase = "settle" /\ ~slot[w].lost
        /\ s \notin ActiveStatus
        /\ \/ UNCHANGED sql
           \/ s = "cancelled" /\ CancelJob(r)
           \/ s = Done(Kind(w)) /\ CompleteJob(r)
           \/ s = "failed" /\ FailJob(r)
        /\ GoTo(w, "raised")
        /\ UNCHANGED beat

(* _reconcile_terminal_state cannot read the row: the file is failed.      *)
RealignBlindly(w) ==
    /\ slot[w].phase = "realign"
    /\ slot' = [slot EXCEPT ![w] = [@ EXCEPT !.phase = "mark", !.next = "done",
                                             !.found = "failed"]]
    /\ UNCHANGED <<sql, beat>>

(* The last fail_job raises: the heartbeat is joined, the thread ends.     *)
FailRowRaises(w) ==
    /\ slot[w].phase = "fail" /\ beat[w] \in {"on", "off"}
    /\ FailJob(Run(w)) \/ UNCHANGED sql
    /\ slot' = [slot EXCEPT ![w] = [IdleSlot EXCEPT !.phase = "dead"]]
    /\ beat' = [beat EXCEPT ![w] = "off"]

DatabaseFails(w) ==
    /\ faults + slow < MaxFaults
    /\ faults' = faults + 1
    /\ SettleRaises(w) \/ RealignBlindly(w) \/ FailRowRaises(w)
    /\ UNCHANGED <<file, source, claimLock, web, asked, slow>>

(* An exception outside _run_one's try block ends the slot's thread.       *)
ThreadDies(w) ==
    /\ slot[w].phase \in {"idle", "sweep", "poll", "counted", "claimed", "starting"}
    /\ faults + slow < MaxFaults
    /\ faults' = faults + 1
    /\ slot' = [slot EXCEPT ![w] = [IdleSlot EXCEPT !.phase = "dead"]]
    /\ claimLock' = IF claimLock = w THEN None ELSE claimLock
    /\ UNCHANGED <<storeVars, beat, web, asked, slow>>

(* main() returns when its last thread has ended; the container restarts.  *)
Restart ==
    /\ \A w \in Slots : slot[w].phase = "dead"
    /\ AllIdle
    /\ UNCHANGED <<storeVars, web, bounded>>

-----------------------------------------------------------------------------
RequestStep(c) ==
    \/ StartWrites(c) \/ Enqueue(c) \/ EnqueueRaises(c)
    \/ RunIsGone(c) \/ CancelMarks(c) \/ CancelSql(c) \/ CancelEnds(c)
    \/ StaleSql(c) \/ StaleLoad(c) \/ StaleMark(c) \/ RemoveDirectories(c)

Next ==
    \/ \E c \in Clients, r \in Runs :
          \/ StartIngestion(c, r) \/ StartQuery(c, r) \/ StartCandidates(c, r)
          \/ StartTuning(c, r) \/ StartEvaluation(c, r) \/ StartGovernance(c, r)
          \/ ImportReboundCandidate(c, r)
          \/ Cancel(c, r) \/ Read(c, r)
          \/ DeleteEvaluation(c, r) \/ DeleteIngestion(c, r) \/ DeleteDerived(c, r)
    \/ \E c \in Clients : RequestStep(c)
    \/ DeleteSource
    \/ \E w \in Slots : SlotStep(w) \/ HeartbeatStep(w) \/ ThreadDies(w) \/ DatabaseFails(w)
    \/ \E r \in Runs : RowAges(r) \/ FileAges(r)
    \/ Crash \/ Restart

Spec == Init /\ [][Next]_vars

(* The worker's threads go on, its container is restarted (restart:        *)
(* unless-stopped), Web requests are served to their end, and heartbeats   *)
(* that no longer come grow old.  Users owe nothing, except that a page    *)
(* shows the run: it polls its state.                                      *)
Fairness ==
    /\ \A w \in Slots : WF_vars(SlotStep(w)) /\ WF_vars(HeartbeatStep(w))
    /\ WF_vars(Restart)
    /\ \A c \in Clients : WF_vars(RequestStep(c))
    /\ \A r \in Runs : WF_vars(RowAges(r) /\ ~Beats(r))

FairSpec == Spec /\ Fairness

-----------------------------------------------------------------------------
(* Properties *)

(* The files, rows, slots and requests keep their types.                   *)
RagTypeOK ==
    /\ file \in [Runs -> File]
    /\ sql \in [Runs -> Row]
    /\ slot \in [Slots -> Slot]
    /\ beat \in [Slots -> Beat]
    /\ claimLock \in Slots \cup {None}
    /\ web \in [Clients -> Request]
    /\ source \in BOOLEAN
    /\ asked \in Nat /\ faults \in Nat /\ slow \in Nat

Holding == {"claimed", "starting", "begin", "open", "work", "clear", "stopping", "ended",
            "settle", "realign", "raised", "fail", "done"}
Holds(w, r) == /\ slot[w].run = r
               /\ \/ slot[w].phase \in Holding
                  \/ slot[w].phase = "mark" /\ slot[w].next # "sweep"

(* A run is handed out once and worked on by one slot, whatever dies or    *)
(* goes stale: model calls are never silently repeated.                    *)
NeverRerun ==
    \A r \in Runs : /\ sql[r].claims <= 1
                    /\ \A v, w \in Slots : Holds(v, r) /\ Holds(w, r) => v = w

(* No more rows of a kind run than its limit, however claims interleave.   *)
KindsWithinLimit == \A k \in Kinds : Cardinality(Running(k)) <= Limit[k]

(* A result whose lease was lost or whose run was canceled is discarded:   *)
(* once nobody holds the run, its file does not show a success its row     *)
(* has not.  (A worker that dies between the two writes leaves such a run,  *)
(* and so does a database error of the second one.)                        *)
NoFencedSuccess ==
    \A r \in Runs :
        /\ sql[r].status \in {"failed", "cancelled"} /\ faults = 0
        /\ \A w \in Slots : ~Holds(w, r)
        => file[r].state \notin {"staged", "succeeded"}

(* Rows end once: no late worker, reader or cancellation changes an end.   *)
RowsEndOnce ==
    [][\A r \in Runs : sql[r].status \in {"succeeded", "failed", "cancelled"}
                       => sql'[r] = sql[r]]_vars

(* A run in the queue or in a slot comes to an end.                        *)
RowsSettle ==
    \A r \in Runs : sql[r].status \in {"queued", "running"}
                    ~> sql[r].status \in {"succeeded", "failed", "cancelled"}

=============================================================================
