---------------------------- MODULE AdminWrites ----------------------------
(***************************************************************************)
(* The accounts and what hangs on them: the controlled writes of           *)
(* administrators (app/admin/write_service.py), logins and session cookies *)
(* (app/auth), the file library (app/files/routes.py) and the part of      *)
(* create_job (app/agent/job_service.py) that freezes a file.              *)
(*                                                                         *)
(* A request is one HTTP call.  It reads, then opens one transaction that  *)
(* locks rows one by one, in the order of the code, and sees at each       *)
(* statement what others have committed (READ COMMITTED).  Two requests    *)
(* may wait for one another: InnoDB then rolls one of them back, or its    *)
(* lock wait times out, and the caller may try again with the same         *)
(* Idempotency-Key.                                                        *)
(***************************************************************************)
EXTENDS Naturals, Sequences, FiniteSets

CONSTANTS
    Users,        \* ids of users, numbers: rows are locked in their order
    FirstAdmins,  \* the users that are administrators at first
    Files,        \* ids of logical files, numbers as well
    OwnerOf,      \* [Files -> Users]; the files of a user share one content ...
    ObjectOf,     \* [Users -> Nat]: ... with this file_objects row
    SessionOf,    \* [Users -> Nat]: the row of the user's one chat session
    Requests,     \* calls, each with its own retries
    Keys,         \* Idempotency-Keys
    Bodies,       \* what is asked for
    None,
    MaxTries,     \* bound: times a call is tried
    MaxFaults,    \* bound: lost connections
    MaxLogins     \* bound: logins and promotions

Objects == {ObjectOf[u] : u \in Users}
Sessions == {SessionOf[u] : u \in Users}
Rows == Users \cup Files \cup Objects \cup Sessions

Batch == {"set_active", "set_role", "set_password"}
Kinds == Batch \cup {"delete_user", "delete_file", "own_delete", "upload", "create_job"}
AdminKinds == Batch \cup {"delete_user", "delete_file"}

NamesFile == {"delete_file", "own_delete", "upload"}

(* to: the new is_active, or whether the new role is admin.                *)
Body == [kind : Kinds, targets : SUBSET Users, to : BOOLEAN, file : Files \cup {None}]

ASSUME AdminAssumption ==
    /\ Users \subseteq Nat \ {0} /\ Files \subseteq Nat \ {0}
    /\ FirstAdmins \subseteq Users /\ FirstAdmins # {}
    /\ OwnerOf \in [Files -> Users]
    /\ ObjectOf \in [Users -> Nat \ {0}] /\ SessionOf \in [Users -> Nat \ {0}]
    /\ \A u, v \in Users : ObjectOf[u] = ObjectOf[v] => u = v
    /\ None \notin Nat \cup Requests \cup Keys
    /\ \A b \in Bodies : /\ b \in Body
                         /\ b.kind = "delete_user" => \E u \in Users : b.targets = {u}
                         /\ b.kind \in NamesFile => b.file \in Files
    /\ MaxTries \in Nat /\ MaxFaults \in Nat /\ MaxLogins \in Nat

VARIABLES
    users,    \* [Users -> User]: the rows of users (and user_roles)
    files,    \* the rows of user_files
    objects,  \* the rows of file_objects
    job,      \* [Users -> SUBSET Job]: the user's unfinished or draining jobs
    ops,      \* the rows of admin_operations
    audit,    \* how often each operation is in the audit
    lock,     \* [Rows -> Requests \cup {None}]
    req,      \* [Requests -> Request]
    cookie,   \* [Users -> Cookie \cup {None}]: the session cookie in the user's browser
    login,    \* [Users -> Cookie \cup {None}]: a login that has read the row
    logins, faults

rowVars     == <<users, files, objects, job, ops, audit>>
sessionVars == <<cookie, login, logins>>
vars        == <<rowVars, lock, req, sessionVars, faults>>

(* password counts the changes of the password: it stands for the password *)
(* itself, and for what someone knows who knew it then.  user_roles is     *)
(* replaced with users.role in one transaction and is not kept apart.      *)
User == [exists : BOOLEAN, admin : BOOLEAN, active : BOOLEAN, password : Nat, version : Nat]
Cookie == [version : Nat, password : Nat]

(* open: queued, running or waiting_input; a job that is not open is over  *)
(* and drains, which means that its execution has not ended.               *)
Job == [open : BOOLEAN, file : Files \cup {None}]
Operation == [actor : Users \cup {None}, key : Keys, body : Bodies]

Phases == {"idle", "look", "prove", "actor", "admins", "targets", "safety", "find", "owner",
           "file", "jobs", "object", "files", "session", "count", "write", "over"}
Answers == {"none", "done", "replayed", "refused", "retry", "unsure"}
Request == [at       : Phases,
            actor    : Users \cup {None},
            key      : Keys \cup {None},
            body     : Bodies \cup {None},
            password : Nat,            \* reauth_password
            pos      : Nat,            \* the last row this statement has locked
            admins   : SUBSET Users,   \* enabled_admin_ids
            last     : BOOLEAN,        \* reference_count = 0
            answer   : Answers,
            tries    : Nat]

Idle == [at |-> "idle", actor |-> None, key |-> None, body |-> None, password |-> 0, pos |-> 0,
         admins |-> {}, last |-> FALSE, answer |-> "none", tries |-> 0]
Gone == [exists |-> FALSE, admin |-> FALSE, active |-> FALSE, password |-> 0, version |-> 0]

Init ==
    /\ users = [u \in Users |-> [exists |-> TRUE, admin |-> u \in FirstAdmins, active |-> TRUE,
                                 password |-> 0, version |-> 1]]
    /\ files = Files /\ objects = {ObjectOf[OwnerOf[f]] : f \in Files}
    /\ job = [u \in Users |-> {}]
    /\ ops = {} /\ audit = [o \in Users \X Keys |-> 0]
    /\ lock = [x \in Rows |-> None]
    /\ req = [r \in Requests |-> Idle]
    /\ cookie = [u \in Users |-> [version |-> 1, password |-> 0]]
    /\ login = [u \in Users |-> None]
    /\ logins = 0 /\ faults = 0

-----------------------------------------------------------------------------
(* Sessions *)

EnabledAdmin(u) == users[u].exists /\ users[u].admin /\ users[u].active

(* _resolve_session_user                                                   *)
Valid(u) == /\ cookie[u] # None /\ users[u].exists /\ users[u].active
            /\ cookie[u].version = users[u].version

(* handle_login: find_user reads the row, the password is checked against  *)
(* it, and the cookie gets the auth_version of that row.                   *)
LoginRead(u) ==
    /\ login[u] = None /\ logins < MaxLogins
    /\ users[u].exists /\ users[u].active
    /\ login' = [login EXCEPT ![u] = [version |-> users[u].version, password |-> users[u].password]]
    /\ logins' = logins + 1
    /\ UNCHANGED <<rowVars, lock, req, cookie, faults>>

(* Mutant: the login takes the auth_version of the moment it ends.         *)
LoggedInAfresh(u) == [login[u] EXCEPT !.version = users[u].version]

LoggedIn(u) == login[u]

LoginDone(u) ==
    /\ login[u] # None
    /\ cookie' = [cookie EXCEPT ![u] = LoggedIn(u)]
    /\ login' = [login EXCEPT ![u] = None]
    /\ UNCHANGED <<rowVars, lock, req, logins, faults>>

(* promote_user_to_admin of the command line.                              *)
Promote(u) ==
    /\ logins < MaxLogins /\ logins' = logins + 1
    /\ lock[u] = None /\ users[u].exists /\ users[u].active /\ ~users[u].admin
    /\ users' = [users EXCEPT ![u].admin = TRUE]
    /\ UNCHANGED <<files, objects, job, ops, audit, lock, req, cookie, login, faults>>

(* A job ends, and nothing occupies it any more.                           *)
JobEnds(u) ==
    /\ \E j \in job[u] : job' = [job EXCEPT ![u] = @ \ {j}]
    /\ UNCHANGED <<users, files, objects, ops, audit, lock, req, sessionVars, faults>>

(* A job is canceled while it is executed, and the UPDATE keeps the        *)
(* occupation, as intended; with MySQL's SET (JobLifecycle.CanceledRow) it *)
(* is JobEnds.  At most one job of a user drains at a time (a bound).      *)
JobDrains(u) ==
    /\ \A j \in job[u] : j.open
    /\ \E j \in job[u] : job' = [job EXCEPT ![u] = (@ \ {j}) \cup {[j EXCEPT !.open = FALSE]}]
    /\ UNCHANGED <<users, files, objects, ops, audit, lock, req, sessionVars, faults>>

(* _refreeze_job_input: a running job turns to another file of its user,   *)
(* under the locks of its session, the file and the content.  It is one    *)
(* step: until it commits nobody else can see or write what it has locked. *)
Refreeze(u, f) ==
    /\ f \in files /\ OwnerOf[f] = u
    /\ \A x \in {SessionOf[u], f, ObjectOf[u]} : lock[x] = None
    /\ \E j \in job[u] : j.open /\ job' = [job EXCEPT ![u] = (@ \ {j}) \cup {[j EXCEPT !.file = f]}]
    /\ UNCHANGED <<users, files, objects, ops, audit, lock, req, sessionVars, faults>>

-----------------------------------------------------------------------------
(* Requests and their transactions *)

(* Mutant: the user is not locked.                                         *)
OwnDeletePathUnlocked == <<"file", "jobs", "count", "object", "write">>

OwnDeletePath == <<"owner", "file", "jobs", "count", "object", "write">>

(* The statements of each transaction, in their order.                     *)
Path(kind) ==
    CASE kind \in Batch       -> <<"look", "prove", "actor", "admins", "targets", "safety", "write">>
      [] kind = "delete_user" -> <<"look", "prove", "actor", "admins", "targets", "safety", "jobs",
                                   "object", "files", "session", "write">>
      [] kind = "delete_file" -> <<"look", "prove", "actor", "find", "owner", "file", "object", "jobs",
                                   "count", "write">>
      [] kind = "own_delete"  -> OwnDeletePath
      [] kind = "upload"      -> <<"owner", "object", "write">>
      [] kind = "create_job"  -> <<"look", "session", "file", "object", "write">>

After(r) == LET path == Path(req[r].body.kind)
                i    == CHOOSE i \in DOMAIN path : path[i] = req[r].at
            IN path[i + 1]

Advance(r)     == req' = [req EXCEPT ![r].at = After(r), ![r].pos = 0]
Freed(r)       == [x \in Rows |-> IF lock[x] = r THEN None ELSE lock[x]]
End(r, answer) == /\ req' = [req EXCEPT ![r] = [@ EXCEPT !.at = "over", !.pos = 0, !.admins = {},
                                                         !.last = FALSE, !.answer = answer]]
                  /\ lock' = Freed(r)
RollBack(r, answer) == End(r, answer) /\ UNCHANGED <<rowVars, sessionVars, faults>>

(* The row is locked by nobody else.                                       *)
MayLock(r, x) == lock[x] \in {None, r}

(* The guard of the route, before anything else of the call.               *)
Admitted(u, kind) == Valid(u) /\ (kind \in AdminKinds => users[u].admin)

Open(r, u, k, b) ==
    /\ req[r].at = "idle" /\ Admitted(u, b.kind)
    /\ b.kind \notin AdminKinds => (b.file # None => OwnerOf[b.file] = u)
    /\ req' = [req EXCEPT ![r] = [Idle EXCEPT !.at = Head(Path(b.kind)), !.actor = u, !.key = k,
                                              !.body = b, !.password = users[u].password,
                                              !.tries = 1]]
    /\ UNCHANGED <<rowVars, lock, sessionVars, faults>>

KeysOf(b) == IF b.kind \in AdminKinds THEN Keys ELSE {None}

(* The caller tries again, with the same key and body.                     *)
Retry(r) ==
    /\ req[r].at = "over" /\ req[r].answer \in {"retry", "unsure"}
    /\ req[r].tries < MaxTries /\ Admitted(req[r].actor, req[r].body.kind)
    /\ req' = [req EXCEPT ![r] = [@ EXCEPT !.at = Head(Path(req[r].body.kind)), !.answer = "none",
                                           !.tries = req[r].tries + 1]]
    /\ UNCHANGED <<rowVars, lock, sessionVars, faults>>

Known(r) == {o \in ops : o.actor = req[r].actor /\ o.key = req[r].key}

(* _decode_existing_operation: the same body replays, another conflicts.   *)
Replay(r) == RollBack(r, IF \E o \in Known(r) : o.body = req[r].body THEN "replayed" ELSE "refused")

Going(r) == Advance(r) /\ UNCHANGED <<rowVars, lock, sessionVars, faults>>

(* A job that only drains does not keep the session from a new one.        *)
Unfinished(u) == \E j \in job[u] : j.open

(* _load_existing_operation, before the transaction; for a job, the        *)
(* session's unfinished one.                                               *)
Look(r) ==
    /\ req[r].at = "look"
    /\ IF Known(r) # {} THEN Replay(r)
       ELSE IF req[r].body.kind = "create_job" /\ Unfinished(req[r].actor) THEN RollBack(r, "refused")
       ELSE Going(r)

Proves(r) == LET u == req[r].actor IN EnabledAdmin(u) /\ users[u].password = req[r].password

(* _validate_reauthentication, before the transaction                      *)
Prove(r) ==
    /\ req[r].at = "prove"
    /\ IF Proves(r) THEN Going(r) ELSE RollBack(r, "refused")

(* Mutant: the transaction trusts the check made before it.                *)
ProvedBefore(r) == TRUE

StillProves(r) == Proves(r)

(* _lock_and_reauthenticate_actor and _load_existing_operation_for_update: *)
(* nobody else writes this actor's operations while the row is locked.     *)
LockActor(r) ==
    /\ req[r].at = "actor" /\ MayLock(r, req[r].actor)
    /\ CASE ~StillProves(r) -> RollBack(r, "refused")
         [] StillProves(r) /\ Known(r) # {} -> Replay(r)
         [] StillProves(r) /\ Known(r) = {} ->
                /\ Advance(r) /\ lock' = [lock EXCEPT ![req[r].actor] = r]
                /\ UNCHANGED <<rowVars, sessionVars, faults>>

(* The rows that the statements of a phase lock, in the order of their ids.*)
OwnerId(r) == IF req[r].body.file = None THEN req[r].actor ELSE OwnerOf[req[r].body.file]
Victim(r)  == CHOOSE u \in req[r].body.targets : TRUE
Library(r) == IF req[r].body.kind = "delete_user" THEN Victim(r) ELSE OwnerId(r)

RowsOf(r) ==
    CASE req[r].at = "admins"  -> {u \in Users : users[u].exists}
      [] req[r].at = "targets" -> req[r].body.targets
      [] req[r].at = "owner"   -> {OwnerId(r)}
      [] req[r].at = "file"    -> {req[r].body.file} \ {None}
      [] req[r].at = "object"  -> {ObjectOf[Library(r)]} \cap objects
      [] req[r].at = "files"   -> {f \in files : OwnerOf[f] = Victim(r)}
      [] req[r].at = "session" -> {SessionOf[Library(r)]}
      [] OTHER                 -> {}

Rest(r) == {x \in RowsOf(r) : x > req[r].pos}
Wanted(r) == {x \in Rest(r) : \A y \in Rest(r) : x <= y}

Locking == {"admins", "targets", "owner", "file", "object", "files", "session"}

(* own_delete deletes the object only when it was the last file; a job     *)
(* need not have a file.                                                   *)
Skipped(r) == /\ req[r].at = "object"
              /\ \/ req[r].body.kind = "own_delete" /\ ~req[r].last
                 \/ req[r].body.kind = "create_job" /\ req[r].body.file = None

Missing(r, x) == \/ x \in Users /\ ~users[x].exists
                 \/ x \in Files /\ x \notin files
                 \/ x = SessionOf[Library(r)] /\ ~users[Library(r)].exists

(* The scan for enabled administrators waits for every row that somebody   *)
(* has locked, and keeps the rows that match.                              *)
Kept(r, x) == req[r].at = "admins" => EnabledAdmin(x)

LockRow(r) ==
    /\ req[r].at \in Locking /\ ~Skipped(r)
    /\ \E x \in Wanted(r) :
           /\ MayLock(r, x)
           /\ IF req[r].at # "admins" /\ Missing(r, x) THEN RollBack(r, "refused")
              ELSE /\ req' = [req EXCEPT ![r].pos = x,
                                         ![r].admins = IF req[r].at = "admins" /\ EnabledAdmin(x)
                                                       THEN @ \cup {x} ELSE @]
                   /\ lock' = IF Kept(r, x) THEN [lock EXCEPT ![x] = r] ELSE lock
                   /\ UNCHANGED <<rowVars, sessionVars, faults>>

Locked(r) ==
    /\ req[r].at \in Locking /\ (Skipped(r) \/ Rest(r) = {})
    /\ Going(r)

(* The jobs that forbid a deletion.                                        *)
InUse(r) == \E u \in Users : \E j \in job[u] :
                IF req[r].body.kind = "delete_user" THEN u = Victim(r) ELSE j.file = req[r].body.file

CheckJobs(r) ==
    /\ req[r].at = "jobs"
    /\ IF InUse(r) THEN RollBack(r, "refused") ELSE Going(r)

(* The file is deleted, not yet committed; the references that are left.   *)
Count(r) ==
    /\ req[r].at = "count"
    /\ req' = [req EXCEPT ![r].at = After(r), ![r].pos = 0,
                          ![r].last = ~\E f \in files \ {req[r].body.file} : OwnerOf[f] = OwnerId(r)]
    /\ UNCHANGED <<rowVars, lock, sessionVars, faults>>

(* The owner is read before the row is locked (write_service.delete_file). *)
Find(r) ==
    /\ req[r].at = "find"
    /\ IF req[r].body.file \notin files THEN RollBack(r, "refused") ELSE Going(r)

(* Mutant: the rule looks at disabled accounts and forgets demoted ones.   *)
RemovesByDisabling(b) == b.kind = "delete_user" \/ (b.kind = "set_active" /\ ~b.to)

(* _assert_admin_safety, and the same of delete_user, over the rows locked *)
Removes(b) == \/ b.kind = "delete_user"
              \/ b.kind \in {"set_active", "set_role"} /\ ~b.to
Unsafe(r) ==
    LET b    == req[r].body
        lost == {u \in b.targets : EnabledAdmin(u)}
    IN  /\ Removes(b)
        /\ \/ req[r].actor \in b.targets
           \/ b.kind \in Batch /\ req[r].admins \subseteq lost
           \/ b.kind = "delete_user" /\ lost # {} /\ Cardinality(req[r].admins) <= 1

Safety(r) ==
    /\ req[r].at = "safety"
    /\ IF Unsafe(r) THEN RollBack(r, "refused") ELSE Going(r)

-----------------------------------------------------------------------------
(* What the transactions write, and commit at once *)

Changed(row, b) ==
    CASE b.kind = "set_active"   -> IF row.active = b.to THEN row
                                    ELSE [row EXCEPT !.active = b.to, !.version = @ + 1]
      [] b.kind = "set_role"     -> IF row.admin = b.to THEN row
                                    ELSE [row EXCEPT !.admin = b.to, !.version = @ + 1]
      [] b.kind = "set_password" -> [row EXCEPT !.password = @ + 1, !.version = @ + 1]

(* The deleted user's operations stay, with actor_user_id NULL.            *)
Orphaned(set, u) == {IF o.actor = u THEN [o EXCEPT !.actor = None] ELSE o : o \in set}

(* Mutant: a batch that sets passwords is not registered.                  *)
RegisteredUnlessPassword(r) ==
    IF req[r].body.kind = "set_password" THEN ops
    ELSE ops \cup {[actor |-> req[r].actor, key |-> req[r].key, body |-> req[r].body]}

Registered(r) == ops \cup {[actor |-> req[r].actor, key |-> req[r].key, body |-> req[r].body]}
Audited(r) == audit' = [audit EXCEPT ![<<req[r].actor, req[r].key>>] = @ + 1]

WriteBatch(r) ==
    LET b == req[r].body IN
    /\ b.kind \in Batch
    /\ users' = [u \in Users |-> IF u \in b.targets THEN Changed(users[u], b) ELSE users[u]]
    /\ ops' = Registered(r) /\ Audited(r)
    /\ UNCHANGED <<files, objects, job>>

(* Everything of the user goes, by DELETE or by its cascades; a job that   *)
(* somebody still works on would stay without its user.                    *)
WriteDeletedUser(r) ==
    LET u == Victim(r) IN
    /\ req[r].body.kind = "delete_user"
    /\ users' = [users EXCEPT ![u] = Gone]
    /\ files' = {f \in files : OwnerOf[f] # u}
    /\ objects' = objects \ {ObjectOf[u]}
    /\ ops' = Orphaned(Registered(r), u) /\ Audited(r)
    /\ UNCHANGED job

WithoutObject(r) == IF req[r].last THEN objects \ {ObjectOf[OwnerId(r)]} ELSE objects

WriteDeletedFile(r) ==
    /\ req[r].body.kind \in {"delete_file", "own_delete"}
    /\ files' = files \ {req[r].body.file}
    /\ objects' = WithoutObject(r)
    /\ IF req[r].body.kind = "delete_file" THEN ops' = Registered(r) /\ Audited(r)
       ELSE UNCHANGED <<ops, audit>>
    /\ UNCHANGED <<users, job>>

WriteUpload(r) ==
    /\ req[r].body.kind = "upload"
    /\ objects' = objects \cup {ObjectOf[OwnerId(r)]}
    /\ files' = files \cup {req[r].body.file}
    /\ UNCHANGED <<users, job, ops, audit>>

(* The foreign key of analysis_jobs.user_id takes a shared lock.           *)
MayReference(r) == MayLock(r, req[r].actor) /\ users[req[r].actor].exists

WriteJob(r) ==
    LET b == req[r].body IN
    /\ b.kind = "create_job" /\ MayReference(r) /\ ~Unfinished(req[r].actor)
    /\ job' = [job EXCEPT ![req[r].actor] = @ \cup {[open |-> TRUE, file |-> b.file]}]
    /\ UNCHANGED <<users, files, objects, ops, audit>>

(* The reply of the commit may be lost.                                    *)
Write(r) ==
    /\ req[r].at = "write"
    /\ \/ WriteBatch(r) \/ WriteDeletedUser(r) \/ WriteDeletedFile(r) \/ WriteUpload(r) \/ WriteJob(r)
    /\ \/ End(r, "done") /\ UNCHANGED faults
       \/ End(r, "unsure") /\ faults < MaxFaults /\ faults' = faults + 1
    /\ UNCHANGED sessionVars

(* The session has an unfinished job already.                              *)
JobRefused(r) ==
    /\ req[r].at = "write" /\ req[r].body.kind = "create_job" /\ Unfinished(req[r].actor)
    /\ RollBack(r, "refused")

InTransaction == Phases \ {"idle", "look", "prove", "over"}

(* The row that r waits for is locked by s.                                *)
WaitsFor(r, s) ==
    \/ req[r].at = "actor" /\ lock[req[r].actor] = s
    \/ req[r].at \in Locking /\ ~Skipped(r) /\ \E x \in Wanted(r) : lock[x] = s
    \/ req[r].at = "write" /\ req[r].body.kind = "create_job" /\ lock[req[r].actor] = s

(* InnoDB has found a deadlock, or innodb_lock_wait_timeout is over.       *)
GiveUp(r) ==
    /\ \E s \in Requests \ {r} : WaitsFor(r, s)
    /\ RollBack(r, "retry")

(* The connection breaks before the commit.                                *)
Broken(r) ==
    /\ req[r].at \in InTransaction /\ faults < MaxFaults
    /\ faults' = faults + 1
    /\ End(r, "unsure") /\ UNCHANGED <<rowVars, sessionVars>>

-----------------------------------------------------------------------------
Work(r) ==
    \/ Look(r) \/ Prove(r) \/ LockActor(r) \/ LockRow(r) \/ Locked(r) \/ Find(r)
    \/ CheckJobs(r) \/ Count(r) \/ Safety(r) \/ Write(r) \/ JobRefused(r)

Next ==
    \/ \E r \in Requests :
          \/ \E u \in Users, b \in Bodies : \E k \in KeysOf(b) : Open(r, u, k, b)
          \/ Work(r) \/ Retry(r) \/ GiveUp(r) \/ Broken(r)
    \/ \E u \in Users :
          \/ LoginRead(u) \/ LoginDone(u) \/ Promote(u) \/ JobEnds(u) \/ JobDrains(u)
          \/ \E f \in Files : Refreeze(u, f)

Spec == Init /\ [][Next]_vars

-----------------------------------------------------------------------------
(* Properties *)

AdminTypeOK ==
    /\ users \in [Users -> User]
    /\ files \subseteq Files /\ objects \subseteq Objects
    /\ job \in [Users -> SUBSET Job]
    /\ ops \subseteq Operation /\ audit \in [Users \X Keys -> Nat]
    /\ lock \in [Rows -> Requests \cup {None}] /\ req \in [Requests -> Request]
    /\ cookie \in [Users -> Cookie] /\ login \in [Users -> Cookie \cup {None}]
    /\ logins \in Nat /\ faults \in Nat

(* However administrators disable, demote and delete one another at the    *)
(* same time, one that is enabled remains (_assert_admin_safety).          *)
AdminRemains == \E u \in Users : EnabledAdmin(u)

(* An operation is done once for its Idempotency-Key, however often it is  *)
(* sent, at the same time, after a deadlock or after a lost reply; and who *)
(* is told that it is done is told the truth.                              *)
AppliedOnce ==
    /\ \A o \in Users \X Keys : audit[o] <= 1
    /\ \A r \in Requests :
          req[r].answer \in {"done", "replayed"} /\ req[r].body.kind \in AdminKinds
              => audit[<<req[r].actor, req[r].key>>] = 1

(* A cookie that the guard accepts was got with the password of today,     *)
(* also if the password was changed while the login went on.               *)
LiveSessionsAreProved ==
    \A u \in Users : Valid(u) => cookie[u].password = users[u].password

(* Who changes something is at that moment an enabled administrator, and   *)
(* has given the password of that moment.                                  *)
ChangesAreAuthorised ==
    [][\A r \in Requests :
          req[r].at = "write" /\ req[r].body.kind \in AdminKinds /\ audit' # audit
              /\ req'[r].at = "over" => Proves(r)]_vars

(* The library is whole: a content is kept exactly as long as a file names *)
(* it, files and jobs have a living owner, and a job that is not over has  *)
(* its file, whoever deletes at the same time.                             *)
LibraryIsWhole ==
    /\ objects = {ObjectOf[OwnerOf[f]] : f \in files}
    /\ \A f \in files : users[OwnerOf[f]].exists
    /\ \A u \in Users : \A j \in job[u] :
          users[u].exists /\ (j.file # None => j.file \in files)
=============================================================================
