---------------------------- MODULE CleanupProofs ----------------------------
(***************************************************************************)
(* Theorems about CleanupOutbox, for every number of jobs, sessions, users *)
(* and cleaners and every limit.                                           *)
(*                                                                         *)
(* The invariant CleanupInv has one part per question:                     *)
(*   CleanupTypeOK      the types                                          *)
(*   DeadAreFree        what is deleted is not occupied and stays deleted  *)
(*   RowsOfTheDead      the outbox has a row for exactly what is deleted   *)
(*   RetriesAreCounted  the attempts                                       *)
(*   CleanersHaveRows   a cleaner works on a task of its kind that has one *)
(*   CleanedIsGone      what a cleaner has deleted so far is gone          *)
(*   SucceededIsGone    and so is what a succeeded row stands for          *)
(*   OperationTracksItems                                                  *)
(***************************************************************************)
EXTENDS CleanupOutbox, TLAPS

DeadAreFree ==
    /\ \A j \in Jobs : ~Exists(j) => ~job[j].occupied
    /\ \A u \in Users \ users :
          /\ \A s \in sessions : OwnerOf[s] # u
          /\ \A j \in Jobs : Owner(j) = u => ~Exists(j)

RowsOfTheDead ==
    /\ \A j \in Jobs : item[j].status # "none" <=> job[j].status = "deleted"
    /\ \A u \in Users : item[u].status # "none" <=> u \notin users
    /\ \A t \in Tasks : /\ item[t].status = "none" => item[t].operation = None
                        /\ item[t].operation \notin users
    /\ \A u \in Users \ users : item[u].operation = u

CleanersHaveRows ==
    \A c \in Cleaners : cleaner[c].phase # "idle" =>
        /\ cleaner[c].task \in Tasks
        /\ item[cleaner[c].task].status # "none"
        /\ cleaner[c].phase \in {"parent", "child"} => cleaner[c].task \in Jobs
        /\ cleaner[c].phase = "memory" => cleaner[c].task \in Users

(* No data of t is left, unless a slot that may still write it.            *)
NoThread(j, kinds) == thread[j] \cap kinds = {} \/ job[j].outlived
NoMemory(u) == u \notin memory \/ \E j \in Jobs : Owner(j) = u /\ job[j].outlived
Gone(t) == /\ t \in Jobs => NoThread(t, Threads)
           /\ t \in Users => NoMemory(t)

CleanedIsGone ==
    \A c \in Cleaners :
        /\ cleaner[c].phase = "child" => NoThread(cleaner[c].task, {"parent"})
        /\ cleaner[c].phase = "cleaned" => Gone(cleaner[c].task)

SucceededIsGone == \A t \in Tasks : item[t].status = "succeeded" => Gone(t)

(* What OperationTracksItems says of one user.                             *)
Honest(u) ==
    /\ u \in Counted(u)
    /\ operation[u] = "succeeded" <=> \A t \in Counted(u) : item[t].status = "succeeded"
    /\ (\E t \in Counted(u) : item[t].status = "failed") => operation[u] = "failed"
    /\ operation[u] = "failed" =>
          \E t \in Counted(u) : \/ item[t].status = "failed"
                                \/ repairs > 0 /\ Owed(t)

CleanupInv ==
    /\ CleanupTypeOK /\ DeadAreFree /\ RowsOfTheDead /\ RetriesAreCounted
    /\ CleanersHaveRows /\ CleanedIsGone /\ SucceededIsGone
    /\ OperationTracksItems
-----------------------------------------------------------------------------
(* The initial state, and the steps of the jobs *)

(* Every session and every job has an owner.                               *)
LEMMA OwnersExist == /\ \A s \in Sessions : OwnerOf[s] \in Users
                     /\ \A j \in Jobs : SessionOf[j] \in Sessions /\ Owner(j) \in Users
  BY NamesAssumption DEF Owner

(* Nothing is deleted at first, and nothing is registered.                 *)
LEMMA InitCleanupInv == Init => CleanupInv
  <1> SUFFICES ASSUME Init PROVE CleanupInv
    OBVIOUS
  <1> USE DEF Init, NoItem, Started
  <1>1. CleanupTypeOK
    BY DEF CleanupTypeOK, Job, Item, Cleaner, Phases
  <1>2. DeadAreFree /\ CleanersHaveRows /\ CleanedIsGone /\ SucceededIsGone
    BY DEF DeadAreFree, CleanersHaveRows, CleanedIsGone, SucceededIsGone, Tasks
  <1>3. RowsOfTheDead
    BY NamesAssumption DEF RowsOfTheDead, Tasks
  <1>4. RetriesAreCounted /\ OperationTracksItems
    BY LimitsAssumption DEF RetriesAreCounted, OperationTracksItems
  <1> QED BY <1>1, <1>2, <1>3, <1>4 DEF CleanupInv

(* A job that still may have outlived slots has them whatever it becomes:  *)
(* data that a late slot may write is excused for good.                    *)
LEMMA GoneStays ==
    ASSUME CleanupTypeOK, CleanupTypeOK',
           \A j \in Jobs : job[j].outlived => job'[j].outlived,
           \A j \in Jobs : thread'[j] \subseteq thread[j] \/ job'[j].outlived,
           \A u \in memory' : u \in memory \/ \E j \in Jobs : Owner(j) = u /\ job'[j].outlived
    PROVE  /\ \A j \in Jobs : \A kinds : NoThread(j, kinds) => NoThread(j, kinds)'
           /\ \A t \in Tasks : Gone(t) => Gone(t)'
  <1>1. \A j \in Jobs : \A kinds : NoThread(j, kinds) => NoThread(j, kinds)'
    BY DEF NoThread
  <1>2. \A u \in Users : NoMemory(u) => NoMemory(u)'
    BY DEF NoMemory, Owner
  <1> QED BY <1>1, <1>2 DEF Gone

(* create_job, claim_next_job, complete_job, fail_job, cancel_job and the  *)
(* releases preserve the invariant: a job stays what it is for deletions.  *)
LEMMA JobMoveInv ==
    ASSUME CleanupInv, NEW j \in Jobs, NEW r \in Job, JobBecomes(j, r),
           job[j].outlived => r.outlived,
           job[j].status # "deleted", r.status # "deleted",
           r.status = "absent" => ~r.occupied,
           r.status # "absent" => Owner(j) \in users
    PROVE  CleanupInv'
  <1> USE DEF CleanupInv, JobBecomes, outboxVars, pgVars
  <1>1. CleanupTypeOK'
    BY DEF CleanupTypeOK
  <1>2. \A k \in Jobs : k # j => job'[k] = job[k]
    BY DEF CleanupTypeOK
  <1>3. job'[j] = r
    BY DEF CleanupTypeOK
  <1>4. DeadAreFree'
    BY <1>2, <1>3 DEF DeadAreFree, Exists, Owner, Job
  <1>5. RowsOfTheDead' /\ RetriesAreCounted' /\ CleanersHaveRows'
    BY <1>2, <1>3 DEF RowsOfTheDead, RetriesAreCounted, CleanersHaveRows
  <1>6. \A k \in Jobs : job[k].outlived => job'[k].outlived
    BY <1>2, <1>3
  <1>7. CleanedIsGone' /\ SucceededIsGone'
    BY <1>1, <1>6, GoneStays DEF CleanedIsGone, SucceededIsGone, CleanersHaveRows, CleanupTypeOK
  <1>8. OperationTracksItems'
    BY DEF OperationTracksItems, Counted, Owed
  <1> QED BY <1>1, <1>4, <1>5, <1>7, <1>8

(* A slot saves a thread or the memory: of a deleted job only a slot that  *)
(* outlived its lease can.                                                 *)
LEMMA SaveInv ==
    ASSUME CleanupInv, NEW j \in Jobs,
           SaveMemory(j) \/ \E t \in Threads : SaveThread(j, t)
    PROVE  CleanupInv'
  <1> USE DEF CleanupInv, businessVars, outboxVars
  <1>0. MayWrite(j) /\ UNCHANGED <<job, users, sessions, item, operation, cleaner, repairs>>
    BY DEF SaveMemory, SaveThread
  <1>1. CleanupTypeOK'
    <2>1. CASE SaveMemory(j)
      BY <1>0, <2>1, OwnersExist DEF SaveMemory, CleanupTypeOK
    <2>2. ASSUME NEW t \in Threads, SaveThread(j, t) PROVE CleanupTypeOK'
      BY <1>0, <2>2 DEF SaveThread, CleanupTypeOK
    <2> QED BY <2>1, <2>2
  <1>2. \A k \in Jobs : thread'[k] \subseteq thread[k] \/ k = j
    BY DEF SaveMemory, SaveThread, CleanupTypeOK
  <1>3. \A u \in memory' : u \in memory \/ u = Owner(j)
    BY DEF SaveMemory, SaveThread
  <1>4. DeadAreFree' /\ RowsOfTheDead' /\ RetriesAreCounted' /\ CleanersHaveRows'
    BY <1>0 DEF DeadAreFree, RowsOfTheDead, RetriesAreCounted, CleanersHaveRows, Exists
  <1>5. OperationTracksItems'
    BY <1>0 DEF OperationTracksItems, Counted, Owed
  <1>6. CASE job[j].outlived
    BY <1>0, <1>1, <1>2, <1>3, <1>4, <1>5, <1>6, GoneStays
       DEF CleanedIsGone, SucceededIsGone, CleanersHaveRows
  <1>7. CASE ~job[j].outlived
    <2>1. Exists(j) /\ Owner(j) \in users
      BY <1>0, <1>7, OwnersExist DEF MayWrite, DeadAreFree
    <2>2. item[j].status = "none" /\ item[Owner(j)].status = "none"
      BY <2>1, OwnersExist DEF RowsOfTheDead, Exists
    <2>3. \A t \in Tasks : item[t].status # "none" => t # j /\ t # Owner(j)
      BY <2>2
    <2>4. \A k \in Jobs : \A kinds : k # j /\ NoThread(k, kinds) => NoThread(k, kinds)'
      BY <1>0, <1>2 DEF NoThread
    <2>5. \A u \in Users : u # Owner(j) /\ NoMemory(u) => NoMemory(u)'
      BY <1>0, <1>3 DEF NoMemory, Owner
    <2>6. \A t \in Tasks : item[t].status # "none" /\ Gone(t) => Gone(t)'
      BY <2>3, <2>4, <2>5 DEF Gone
    <2>7. CleanedIsGone'
      BY <1>0, <2>3, <2>4, <2>6 DEF CleanedIsGone, CleanersHaveRows
    <2>8. SucceededIsGone'
      BY <1>0, <2>6 DEF SucceededIsGone
    <2> QED BY <1>1, <1>4, <1>5, <2>7, <2>8
  <1> QED BY <1>6, <1>7

(* Every step of a job preserves the invariant.                            *)
LEMMA JobStepInv ==
    ASSUME CleanupInv, NEW j \in Jobs, JobStep(j)
    PROVE  CleanupInv'
  <1> USE DEF CleanupInv
  <1>0. job[j] \in Job
    BY DEF CleanupTypeOK
  <1>1. job[j].status # "absent" /\ job[j].status # "deleted" => Owner(j) \in users
    BY <1>0, OwnersExist DEF DeadAreFree, Exists, Job
  <1>2. CASE Create(j)
    <2>1. Owner(j) \in users
      BY <1>2, OwnersExist DEF Create, DeadAreFree, Owner
    <2> QED BY <1>0, <1>2, <2>1, JobMoveInv DEF Create, Job
  <1>3. CASE Take(j)
    BY <1>0, <1>1, <1>3, JobMoveInv DEF Take, Job
  <1>4. CASE Wait(j)
    BY <1>0, <1>1, <1>4, JobMoveInv DEF Wait, Job
  <1>5. CASE Finish(j)
    BY <1>0, <1>1, <1>5, JobMoveInv DEF Finish, Job
  <1>6. CASE Cancel(j)
    BY <1>0, <1>1, <1>6, JobMoveInv, LimitsAssumption DEF Cancel, Job
  <1>7. ASSUME NEW reason, Release(j, reason)
        PROVE  CleanupInv'
    BY <1>0, <1>1, <1>7, JobMoveInv DEF Release, Job
  <1> QED BY <1>2, <1>3, <1>4, <1>5, <1>6, <1>7, SaveInv DEF JobStep
-----------------------------------------------------------------------------
(* The operations *)

(* The invariant holds of every user that was deleted.                     *)
LEMMA HonestForAll == CleanupInv => \A u \in Users \ users : Honest(u)
  BY DEF CleanupInv, OperationTracksItems, Honest

(* An operation stays honest when its rows neither succeed, fail nor leave. *)
LEMMA HonestKept ==
    ASSUME NEW u, Honest(u), Counted(u)' = Counted(u), operation'[u] = operation[u],
           repairs' = repairs,
           \A t \in Counted(u) :
              /\ item'[t].status = "succeeded" <=> item[t].status = "succeeded"
              /\ item'[t].status = "failed" <=> item[t].status = "failed"
              /\ Owed(t) => Owed(t)'
    PROVE  Honest(u)'
  BY DEF Honest

(* An operation that has just been counted is honest.                      *)
LEMMA HonestCounted ==
    ASSUME NEW u, u \in Counted(u)', operation'[u] = Aggregate(item', u)
    PROVE  Honest(u)'
  <1>1. StatusIn(item', u) = {item'[t].status : t \in Counted(u)'}
    BY DEF StatusIn, Counted
  <1>2. "failed" \in StatusIn(item', u) <=> \E t \in Counted(u)' : item'[t].status = "failed"
    BY <1>1
  <1>3. StatusIn(item', u) \subseteq {"succeeded"}
          <=> \A t \in Counted(u)' : item'[t].status = "succeeded"
    BY <1>1
  <1> QED BY <1>2, <1>3 DEF Honest, Aggregate
-----------------------------------------------------------------------------
(* The deletions *)

(* What a deletion registers: a row for each of its tasks, none of which   *)
(* had one, and nothing else.                                              *)
LEMMA EnqueueFacts ==
    ASSUME CleanupInv, NEW tasks \in SUBSET Tasks, NEW op \in Users \cup {None},
           \A t \in tasks : item[t].status = "none",
           Enqueue(tasks, op)
    PROVE  /\ item' \in [Tasks -> Item]
           /\ \A t \in tasks : /\ item'[t].status = "pending" /\ item'[t].attempts = 0
                               /\ item'[t].operation = op
           /\ \A t \in Tasks \ tasks : item'[t] = item[t]
  <1>1. \A t \in tasks : item'[t] = [status |-> "pending", attempts |-> 0, due |-> TRUE,
                                     lease |-> "null", operation |-> op]
    BY DEF Enqueue, Enqueued
  <1>2. \A t \in Tasks \ tasks : item'[t] = item[t]
    BY DEF Enqueue
  <1>3. \A t \in tasks : item'[t] \in Item
    <2>1. [status |-> "pending", attempts |-> 0, due |-> TRUE, lease |-> "null",
           operation |-> op] \in Item
      BY DEF Item
    <2> QED BY <1>1, <2>1
  <1>4. \A t \in Tasks \ tasks : item'[t] \in Item
    BY <1>2 DEF CleanupInv, CleanupTypeOK
  <1> QED BY <1>1, <1>2, <1>3, <1>4 DEF Enqueue

(* Either deletion: the jobs js were free, each of them and, with its      *)
(* owner, the memory get a row.                                            *)
LEMMA DeletionInv ==
    ASSUME CleanupInv, NEW js \in SUBSET Jobs, NEW us \in SUBSET users,
           NEW op \in us \cup {None},
           \A j \in js : Exists(j) /\ ~Blocks(j),
           \A u \in us : op = u,
           \A j \in Jobs : Owner(j) \in us /\ Exists(j) => j \in js,
           Enqueue(js \cup us, op), DropJobs(js),
           users' = users \ us, sessions' \subseteq sessions,
           \A s \in sessions' : OwnerOf[s] \notin us,
           operation' = [u \in Users |-> IF u \in us THEN "running" ELSE operation[u]],
           UNCHANGED <<pgVars, cleaner, repairs>>
    PROVE  CleanupInv'
  <1> USE DEF CleanupInv, pgVars
  <1>0. us \subseteq Users /\ users \subseteq Users /\ None \notin Users
    BY NamesAssumption DEF CleanupTypeOK, Tasks
  <1>1. \A t \in js \cup us : item[t].status = "none"
    BY <1>0 DEF RowsOfTheDead, Exists
  <1>2. /\ item' \in [Tasks -> Item]
        /\ \A t \in js \cup us : /\ item'[t].status = "pending" /\ item'[t].attempts = 0
                                 /\ item'[t].operation = op
        /\ \A t \in Tasks \ (js \cup us) : item'[t] = item[t]
    <2>1. js \cup us \in SUBSET Tasks /\ op \in Users \cup {None}
      BY <1>0 DEF Tasks
    <2> QED BY <1>1, <2>1, EnqueueFacts
  <1>3. /\ \A j \in js : job'[j].status = "deleted" /\ ~job'[j].occupied
        /\ \A j \in Jobs \ js : job'[j] = job[j]
        /\ \A j \in Jobs : job'[j] \in Job /\ job'[j].outlived = job[j].outlived
    <2>1. ASSUME NEW j \in js
          PROVE  /\ job'[j].status = "deleted" /\ ~job'[j].occupied
                 /\ job'[j] \in Job /\ job'[j].outlived = job[j].outlived
      <3>1. job[j] \in Job /\ job'[j] = [job[j] EXCEPT !.status = "deleted"]
        BY DEF DropJobs, CleanupTypeOK
      <3>2. ~job[j].occupied
        BY DEF Blocks
      <3> QED BY <3>1, <3>2 DEF Job
    <2>2. \A j \in Jobs \ js : job'[j] = job[j] /\ job[j] \in Job
      BY DEF DropJobs, CleanupTypeOK
    <2> QED BY <2>1, <2>2
  <1>4. CleanupTypeOK'
    BY <1>0, <1>2, <1>3 DEF CleanupTypeOK, DropJobs
  <1>5. DeadAreFree'
    <2>1. ASSUME NEW j \in Jobs, ~Exists(j)' PROVE ~job'[j].occupied
      BY <1>3, <2>1 DEF DeadAreFree, Exists
    <2>2. ASSUME NEW u \in Users \ users' PROVE \A s \in sessions' : OwnerOf[s] # u
      BY <2>2 DEF DeadAreFree
    <2>3. ASSUME NEW u \in Users \ users', NEW j \in Jobs, Owner(j) = u
          PROVE  ~Exists(j)'
      <3>1. CASE j \in js
        BY <1>3, <3>1 DEF Exists
      <3>2. CASE j \notin js
        BY <1>3, <2>3, <3>2 DEF Exists, DeadAreFree
      <3> QED BY <3>1, <3>2
    <2> QED BY <2>1, <2>2, <2>3 DEF DeadAreFree, Owner
  <1>6. RowsOfTheDead'
    <2>1. \A j \in Jobs : item'[j].status # "none" <=> job'[j].status = "deleted"
      <3> SUFFICES ASSUME NEW j \in Jobs
                   PROVE  item'[j].status # "none" <=> job'[j].status = "deleted"
        OBVIOUS
      <3>1. j \in Tasks /\ j \notin us
        BY <1>0, NamesAssumption DEF Tasks
      <3>2. CASE j \in js
        BY <1>2, <1>3, <3>2
      <3>3. CASE j \notin js
        BY <1>2, <1>3, <3>1, <3>3 DEF RowsOfTheDead
      <3> QED BY <3>2, <3>3
    <2>2. \A u \in Users : item'[u].status # "none" <=> u \notin users'
      BY <1>0, <1>2, NamesAssumption DEF RowsOfTheDead, Tasks
    <2>3. \A t \in Tasks : /\ item'[t].status = "none" => item'[t].operation = None
                           /\ item'[t].operation \notin users'
      BY <1>0, <1>2 DEF RowsOfTheDead
    <2>4. \A u \in Users \ users' : item'[u].operation = u
      BY <1>0, <1>2, NamesAssumption DEF RowsOfTheDead, Tasks
    <2> QED BY <2>1, <2>2, <2>3, <2>4 DEF RowsOfTheDead
  <1>7. RetriesAreCounted'
    BY <1>2, LimitsAssumption DEF RetriesAreCounted
  <1>8. CleanersHaveRows'
    BY <1>2 DEF CleanersHaveRows
  <1>9. /\ \A j \in Jobs : \A kinds : NoThread(j, kinds) => NoThread(j, kinds)'
        /\ \A t \in Tasks : Gone(t) => Gone(t)'
    BY <1>3, <1>4, GoneStays
  <1>10. CleanedIsGone' /\ SucceededIsGone'
    BY <1>2, <1>9 DEF CleanedIsGone, SucceededIsGone, CleanersHaveRows
  <1>11. ASSUME NEW u \in Users \ users' PROVE Honest(u)'
    <2>1. CASE u \in us
      <3>1. op = u /\ u \in users
        BY <2>1
      <3>2. \A t \in Tasks : item'[t].operation = u <=> t \in js \cup us
        BY <1>2, <3>1 DEF RowsOfTheDead
      <3>3. operation'[u] = "running" /\ \A t \in Counted(u)' : item'[t].status = "pending"
        BY <1>2, <2>1, <3>2 DEF Counted
      <3>4. u \in Counted(u)'
        BY <2>1, <3>2 DEF Counted, Tasks
      <3> QED BY <3>3, <3>4 DEF Honest
    <2>2. CASE u \notin us
      <3>1. u \in Users \ users /\ op # u /\ u # None
        BY <1>0, <2>2
      <3>2. \A t \in js \cup us : item[t].operation # u /\ item'[t].operation # u
        BY <1>0, <1>1, <1>2, <3>1 DEF RowsOfTheDead, Tasks
      <3>3. Counted(u)' = Counted(u) /\ \A t \in Counted(u) : item'[t] = item[t]
        BY <1>2, <3>2 DEF Counted
      <3>4. operation'[u] = operation[u] /\ Honest(u)
        BY <2>2, <3>1, HonestForAll
      <3> QED BY <3>3, <3>4, HonestKept DEF Owed
    <2> QED BY <2>1, <2>2
  <1>12. OperationTracksItems'
    BY <1>11 DEF OperationTracksItems, Honest
  <1> QED BY <1>4, <1>5, <1>6, <1>7, <1>8, <1>10, <1>12

(* delete_session registers the threads of a session's jobs, and leaves    *)
(* its owner's memory.                                                     *)
LEMMA DeleteSessionInv ==
    ASSUME CleanupInv, NEW s \in Sessions, DeleteSession(s)
    PROVE  CleanupInv'
  <1> DEFINE js == {j \in Jobs : SessionOf[j] = s /\ Exists(j)}
             us == {}
  <1>1. /\ Enqueue(js \cup us, None) /\ DropJobs(js)
        /\ \A j \in js : Exists(j) /\ ~Blocks(j)
        /\ users' = users \ us /\ sessions' \subseteq sessions
        /\ UNCHANGED <<pgVars, cleaner, repairs>>
    BY DEF DeleteSession
  <1>2. operation' = [u \in Users |-> IF u \in us THEN "running" ELSE operation[u]]
    BY DEF DeleteSession, CleanupInv, CleanupTypeOK
  <1>3. /\ js \in SUBSET Jobs /\ us \in SUBSET users /\ None \in us \cup {None}
        /\ \A u \in us : None = u
        /\ \A j \in Jobs : Owner(j) \in us /\ Exists(j) => j \in js
        /\ \A t \in sessions' : OwnerOf[t] \notin us
    OBVIOUS
  <1> HIDE DEF js, us
  <1> QED BY <1>1, <1>2, <1>3, DeletionInv

(* delete_user registers the memory and the thread of every job left.      *)
LEMMA DeleteUserInv ==
    ASSUME CleanupInv, NEW u \in Users, DeleteUser(u)
    PROVE  CleanupInv'
  <1> DEFINE js == {j \in Jobs : Owner(j) = u /\ Exists(j)}
             us == {u}
  <1>1. /\ Enqueue(js \cup us, u) /\ DropJobs(js) /\ u \in users
        /\ \A j \in js : Exists(j) /\ ~Blocks(j)
        /\ \A j \in Jobs : Owner(j) \in us /\ Exists(j) => j \in js
        /\ users' = users \ us /\ sessions' \subseteq sessions
        /\ \A s \in sessions' : OwnerOf[s] \notin us
        /\ UNCHANGED <<pgVars, cleaner, repairs>>
    BY DEF DeleteUser
  <1>2. operation' = [v \in Users |-> IF v \in us THEN "running" ELSE operation[v]]
    BY DEF DeleteUser, CleanupInv, CleanupTypeOK
  <1>3. /\ js \in SUBSET Jobs /\ us \in SUBSET users /\ u \in us \cup {None}
        /\ \A v \in us : u = v
    BY <1>1
  <1> HIDE DEF js, us
  <1> QED BY <1>1, <1>2, <1>3, DeletionInv
-----------------------------------------------------------------------------
(* The outbox *)

(* What every step of the outbox has in common: rows move between pending, *)
(* processing, succeeded and failed, and keep their operation.             *)
RowsMove ==
    /\ UNCHANGED <<businessVars, pgVars>>
    /\ \A t \in Tasks : /\ item'[t].operation = item[t].operation
                        /\ item'[t].status = "none" <=> item[t].status = "none"
                        /\ item'[t].status = "succeeded"
                              => item[t].status = "succeeded" \/ Gone(t)

(* Such a step preserves the invariant if it counts the attempts, leaves   *)
(* its cleaner with a row, and keeps every operation honest.               *)
LEMMA RowsMoveInv ==
    ASSUME CleanupInv, CleanupTypeOK', RowsMove, RetriesAreCounted', CleanersHaveRows',
           CleanedIsGone', \A u \in Users \ users : Honest(u)'
    PROVE  CleanupInv'
  <1> USE DEF CleanupInv, RowsMove, businessVars, pgVars
  <1>1. DeadAreFree'
    BY DEF DeadAreFree, Exists
  <1>2. RowsOfTheDead'
    <2>1. \A t \in Tasks : /\ item'[t].operation = item[t].operation
                           /\ item'[t].status = "none" <=> item[t].status = "none"
      OBVIOUS
    <2> QED BY <2>1 DEF RowsOfTheDead, Tasks
  <1>3. \A t \in Tasks : Gone(t) => Gone(t)'
    BY DEF Gone, NoThread, NoMemory, Owner
  <1>4. SucceededIsGone'
    BY <1>3 DEF SucceededIsGone
  <1>5. OperationTracksItems'
    BY DEF OperationTracksItems, Honest
  <1> QED BY <1>1, <1>2, <1>4, <1>5

(* Rows that change do so without a change of who counts them.             *)
LEMMA CountedStays ==
    ASSUME \A t \in Tasks : item'[t].operation = item[t].operation, NEW u
    PROVE  Counted(u)' = Counted(u)
  BY DEF Counted

(* A row is given back pending or, after its last attempt, failed.         *)
LEMMA GiveBackFacts ==
    ASSUME NEW k \in Item
    PROVE  /\ GiveBack(k) \in Item
           /\ GiveBack(k).status = IF k.attempts >= MaxAttempts THEN "failed" ELSE "pending"
           /\ GiveBack(k).attempts = k.attempts /\ GiveBack(k).operation = k.operation
  <1>1. CASE k.attempts >= MaxAttempts
    <2>1. GiveBack(k) = [k EXCEPT !.status = "failed", !.lease = "null"]
      BY <1>1 DEF GiveBack
    <2> QED BY <1>1, <2>1 DEF Item
  <1>2. CASE ~(k.attempts >= MaxAttempts)
    <2>1. GiveBack(k) = [k EXCEPT !.status = "pending", !.lease = "null"]
      BY <1>2 DEF GiveBack
    <2> QED BY <1>2, <2>1 DEF Item
  <1> QED BY <1>1, <1>2

(* What an expired lease makes of a row.                                   *)
LEMMA ReleasedFacts ==
    ASSUME CleanupInv
    PROVE  /\ Released \in [Tasks -> Item]
           /\ \A t \in Tasks :
                 /\ Released[t].operation = item[t].operation
                 /\ Released[t].status = "none" <=> item[t].status = "none"
                 /\ Released[t].status = "succeeded" <=> item[t].status = "succeeded"
                 /\ Released[t].attempts <= MaxAttempts
                 /\ Released[t].status = "failed" => Released[t].attempts = MaxAttempts
                 /\ Released[t].status = "pending" => Released[t].attempts < MaxAttempts
                 /\ ~Expired(t) => Released[t] = item[t]
  <1> USE LimitsAssumption DEF CleanupInv
  <1> SUFFICES ASSUME NEW t \in Tasks
               PROVE  /\ Released[t] \in Item
                      /\ Released[t].operation = item[t].operation
                      /\ Released[t].status = "none" <=> item[t].status = "none"
                      /\ Released[t].status = "succeeded" <=> item[t].status = "succeeded"
                      /\ Released[t].attempts <= MaxAttempts
                      /\ Released[t].status = "failed" => Released[t].attempts = MaxAttempts
                      /\ Released[t].status = "pending" => Released[t].attempts < MaxAttempts
                      /\ ~Expired(t) => Released[t] = item[t]
    BY DEF Released
  <1>1. item[t] \in Item /\ item[t].attempts \in Nat
    BY DEF CleanupTypeOK, Item
  <1>2. /\ item[t].attempts <= MaxAttempts
        /\ item[t].status = "failed" => item[t].attempts = MaxAttempts
        /\ item[t].status = "pending" => item[t].attempts < MaxAttempts
    BY DEF RetriesAreCounted
  <1>3. CASE ~Expired(t)
    <2>1. Released[t] = item[t]
      BY <1>3 DEF Released
    <2> QED BY <1>1, <1>2, <2>1
  <1>4. CASE Expired(t)
    <2>1. Released[t] = GiveBack(item[t]) /\ item[t].status = "processing"
      BY <1>4 DEF Released, Expired
    <2> QED BY <1>1, <1>2, <1>4, <2>1, GiveBackFacts
  <1> QED BY <1>3, <1>4

(* Operations are counted with exactly the rows of an expired lease.       *)
LEMMA ClaimIsHonest ==
    ASSUME CleanupInv, NEW rows, Update(rows, ExpiredOperations),
           \A t \in Tasks :
              /\ item'[t].operation = item[t].operation
              /\ item'[t].status = "succeeded" <=> item[t].status = "succeeded"
              /\ ~Expired(t) => /\ item'[t].status = "failed" <=> item[t].status = "failed"
                                /\ Owed(t) => Owed(t)',
           repairs' = repairs,
           NEW u \in Users \ users
    PROVE  Honest(u)'
  <1>1. Counted(u)' = Counted(u) /\ u \in Counted(u) /\ Honest(u)
    BY CountedStays, HonestForAll DEF Honest
  <1>2. CASE u \in ExpiredOperations
    <2>1. operation'[u] = Aggregate(item', u)
      BY <1>2 DEF Update
    <2> QED BY <1>1, <2>1, HonestCounted
  <1>3. CASE u \notin ExpiredOperations
    <2>1. operation'[u] = operation[u]
      BY <1>3 DEF Update
    <2>2. \A t \in Counted(u) : t \in Tasks /\ ~Expired(t)
      BY <1>3 DEF ExpiredOperations, Counted
    <2> QED BY <1>1, <2>1, <2>2, HonestKept
  <1> QED BY <1>2, <1>3

(* A claim that found nothing due has only released the expired rows.      *)
LEMMA IdleClaimInv ==
    ASSUME CleanupInv, NEW c \in Cleaners, cleaner[c].phase = "idle",
           Update(Released, ExpiredOperations),
           UNCHANGED <<businessVars, pgVars, cleaner, repairs>>
    PROVE  CleanupInv'
  <1> USE DEF CleanupInv, businessVars, pgVars
  <1>1. item' = Released
    BY DEF Update
  <1>2. CleanupTypeOK'
    <2>1. operation' \in [Users -> {"none", "running", "succeeded", "failed"}]
      BY DEF Update, Aggregate, CleanupTypeOK
    <2> QED BY <1>1, <2>1, ReleasedFacts DEF CleanupTypeOK
  <1>3. \A b \in Cleaners : /\ cleaner'[b].phase = cleaner[b].phase
                            /\ cleaner'[b].task = cleaner[b].task
    BY DEF CleanupTypeOK, Cleaner
  <1>4. RowsMove /\ RetriesAreCounted'
    BY <1>1, ReleasedFacts DEF RowsMove, RetriesAreCounted
  <1>5. CleanersHaveRows'
    BY <1>3, <1>4 DEF CleanersHaveRows, RowsMove
  <1>6. CleanedIsGone'
    BY <1>3 DEF CleanedIsGone, Gone, NoThread, NoMemory, Owner
  <1>7. \A t \in Tasks :
              /\ item'[t].operation = item[t].operation
              /\ item'[t].status = "succeeded" <=> item[t].status = "succeeded"
              /\ ~Expired(t) => /\ item'[t].status = "failed" <=> item[t].status = "failed"
                                /\ Owed(t) => Owed(t)'
    BY <1>1, ReleasedFacts DEF Owed
  <1>8. \A u \in Users \ users : Honest(u)'
    BY <1>7, ClaimIsHonest
  <1> QED BY <1>2, <1>4, <1>5, <1>6, <1>8, RowsMoveInv

(* A claim leases one due row to this process.                             *)
LEMMA TakingClaimInv ==
    ASSUME CleanupInv, NEW c \in Cleaners, cleaner[c].phase = "idle",
           NEW t \in DueTasks(Released),
           Update([Released EXCEPT ![t] = Leased(@)], ExpiredOperations),
           cleaner' = [cleaner EXCEPT ![c] = [phase |-> FirstPhase(t), task |-> t]],
           UNCHANGED <<businessVars, pgVars, repairs>>
    PROVE  CleanupInv'
  <1> USE DEF CleanupInv, businessVars, pgVars
  <1>1. /\ t \in Tasks /\ Released[t].status = "pending"
        /\ Released[t].attempts < MaxAttempts
    BY DEF DueTasks, Tasks
  <1>2. /\ \A k \in Tasks \ {t} : item'[k] = Released[k]
        /\ item'[t] = Leased(Released[t])
    BY <1>1, ReleasedFacts DEF Update
  <1>3. /\ item'[t] \in Item /\ item'[t].status = "processing"
        /\ item'[t].operation = Released[t].operation
        /\ item'[t].attempts <= MaxAttempts
    <2>1. Released[t] \in Item /\ Released[t].attempts \in Nat /\ MaxAttempts \in Nat
      BY <1>1, ReleasedFacts, LimitsAssumption DEF Item
    <2>2. item'[t] = [Released[t] EXCEPT !.status = "processing", !.attempts = @ + 1,
                                         !.lease = "live"]
      BY <1>2 DEF Leased
    <2> DEFINE r == Released[t]
               n == r.attempts + 1
    <2>3. n \in Nat /\ n <= MaxAttempts
      BY <1>1, <2>1
    <2> HIDE DEF n
    <2>4. item'[t] = [status |-> "processing", attempts |-> n, due |-> r.due,
                      lease |-> "live", operation |-> r.operation]
      BY <2>1, <2>2 DEF Item, n
    <2>5. r.due \in BOOLEAN /\ r.operation \in Users \cup {None}
      BY <2>1 DEF Item
    <2>6. item'[t] \in Item
      BY <2>3, <2>4, <2>5 DEF Item
    <2> QED BY <2>3, <2>4, <2>6
  <1>4. CleanupTypeOK'
    <2>1. operation' \in [Users -> {"none", "running", "succeeded", "failed"}]
      BY DEF Update, Aggregate, CleanupTypeOK
    <2>2. cleaner' \in [Cleaners -> Cleaner]
      BY <1>1 DEF CleanupTypeOK, Cleaner, Phases, FirstPhase
    <2>3. item' \in [Tasks -> Item]
      <3>1. \A k \in Tasks : item'[k] \in Item
        BY <1>2, <1>3, ReleasedFacts
      <3>2. item' = [Released EXCEPT ![t] = Leased(@)]
        BY DEF Update
      <3> QED BY <3>1, <3>2, ReleasedFacts
    <2> QED BY <2>1, <2>2, <2>3 DEF CleanupTypeOK
  <1>5. \A k \in Tasks : /\ item'[k].operation = item[k].operation
                         /\ item'[k].status = "none" <=> item[k].status = "none"
                         /\ item'[k].status = "succeeded" <=> item[k].status = "succeeded"
    BY <1>1, <1>2, <1>3, ReleasedFacts
  <1>6. RowsMove /\ RetriesAreCounted'
    BY <1>2, <1>3, <1>5, ReleasedFacts DEF RowsMove, RetriesAreCounted
  <1>7. /\ \A b \in Cleaners \ {c} : cleaner'[b] = cleaner[b]
        /\ cleaner'[c].phase = FirstPhase(t) /\ cleaner'[c].task = t
    BY DEF CleanupTypeOK
  <1>8. CleanersHaveRows'
    BY <1>1, <1>3, <1>5, <1>7 DEF CleanersHaveRows, FirstPhase, Tasks
  <1>9. CleanedIsGone'
    BY <1>7 DEF CleanedIsGone, Gone, NoThread, NoMemory, Owner, FirstPhase
  <1>10. \A k \in Tasks : ~Expired(k) =>
              /\ item'[k].status = "failed" <=> item[k].status = "failed"
              /\ Owed(k) => Owed(k)'
    BY <1>1, <1>2, <1>3, ReleasedFacts DEF Owed
  <1>11. \A u \in Users \ users : Honest(u)'
    BY <1>5, <1>10, ClaimIsHonest
  <1> QED BY <1>4, <1>6, <1>8, <1>9, <1>11, RowsMoveInv

(* claim_cleanup_item                                                      *)
LEMMA ClaimInv ==
    ASSUME CleanupInv, NEW c \in Cleaners, Claim(c)
    PROVE  CleanupInv'
  BY IdleClaimInv, TakingClaimInv DEF Claim

(* mark_cleanup_succeeded and mark_cleanup_failed.  The row may by now be  *)
(* pending, given up or with another process: a report that comes late may *)
(* say success of it, and the data is gone all the same.                   *)
LEMMA ReportInv ==
    ASSUME CleanupInv, NEW c \in Cleaners, NEW r \in Item, Report(c, r),
           cleaner[c].phase # "idle",
           LET k == item[cleaner[c].task]
           IN  k.status = "processing" =>
                 /\ r.status # "none" /\ r.operation = k.operation
                 /\ r.attempts <= MaxAttempts
                 /\ r.status = "failed" => r.attempts = MaxAttempts
                 /\ r.status = "pending" => r.attempts < MaxAttempts,
           r.status = "succeeded" => Gone(cleaner[c].task)
    PROVE  CleanupInv'
  <1> USE DEF CleanupInv, businessVars, pgVars
  <1> DEFINE t == cleaner[c].task
             ops == {item[t].operation}
  <1>1. t \in Tasks /\ item[t].status # "none"
    BY DEF CleanersHaveRows
  <1>2. /\ \A k \in Tasks \ {t} : item'[k] = item[k]
        /\ item'[t] = IF item[t].status = "processing" THEN r ELSE item[t]
        /\ operation' = [u \in Users |-> IF u \in ops THEN Aggregate(item', u)
                                         ELSE operation[u]]
        /\ Idle(c)
        /\ item' \in [Tasks -> Item]
        /\ UNCHANGED <<businessVars, pgVars, repairs>>
    BY <1>1 DEF Report, Update, CleanupTypeOK
  <1>3. \A b \in Cleaners : \/ cleaner'[b].phase = "idle"
                            \/ cleaner'[b] = cleaner[b]
    BY <1>2 DEF CleanupTypeOK, Cleaner, Idle, Started
  <1>4. CleanupTypeOK'
    <2>1. operation' \in [Users -> {"none", "running", "succeeded", "failed"}]
      BY <1>2 DEF Aggregate, CleanupTypeOK
    <2>2. cleaner' \in [Cleaners -> Cleaner]
      BY <1>2 DEF CleanupTypeOK, Cleaner, Phases, Idle, Started
    <2> QED BY <1>2, <2>1, <2>2 DEF CleanupTypeOK
  <1>5. RowsMove /\ RetriesAreCounted'
    BY <1>1, <1>2 DEF RowsMove, RetriesAreCounted
  <1>6. CleanersHaveRows'
    BY <1>3, <1>5 DEF CleanersHaveRows, RowsMove
  <1>7. CleanedIsGone'
    <2>1. UNCHANGED <<job, thread, memory>>
      BY <1>2
    <2>2. SUFFICES ASSUME NEW b \in Cleaners, cleaner'[b] = cleaner[b]
                   PROVE  /\ cleaner'[b].phase = "child" => NoThread(cleaner[b].task, {"parent"})'
                          /\ cleaner'[b].phase = "cleaned" => Gone(cleaner[b].task)'
      BY <1>3 DEF CleanedIsGone
    <2> QED BY <2>1, <2>2 DEF CleanedIsGone, Gone, NoThread, NoMemory, Owner
  <1>8. ASSUME NEW u \in Users \ users PROVE Honest(u)'
    <2>1. Counted(u)' = Counted(u) /\ u \in Counted(u) /\ Honest(u)
      BY <1>5, CountedStays, HonestForAll DEF Honest, RowsMove
    <2>2. CASE u = item[t].operation
      BY <1>2, <2>1, <2>2, HonestCounted
    <2>3. CASE u # item[t].operation
      <3>1. operation'[u] = operation[u]
        BY <1>2, <2>3
      <3>2. \A k \in Counted(u) : item'[k] = item[k]
        BY <1>2, <2>3 DEF Counted
      <3> QED BY <1>2, <2>1, <3>1, <3>2, HonestKept DEF Owed
    <2> QED BY <2>2, <2>3
  <1> QED BY <1>4, <1>5, <1>6, <1>7, <1>8, RowsMoveInv

(* A cleaner reports what CleanedIsGone says it has done.                  *)
LEMMA MarkInv ==
    ASSUME CleanupInv, NEW c \in Cleaners, MarkSucceeded(c) \/ MarkFailed(c)
    PROVE  CleanupInv'
  <1> USE DEF CleanupInv
  <1> DEFINE k == item[cleaner[c].task]
  <1>1. k \in Item /\ cleaner[c].phase # "idle"
    BY DEF MarkSucceeded, MarkFailed, CleanersHaveRows, CleanupTypeOK
  <1>2. k.attempts \in Nat /\ k.attempts <= MaxAttempts /\ MaxAttempts \in Nat
    BY <1>1, LimitsAssumption DEF CleanersHaveRows, RetriesAreCounted, Item
  <1>3. CASE MarkSucceeded(c)
    <2> DEFINE r == [k EXCEPT !.status = "succeeded", !.lease = "null"]
    <2>1. /\ r \in Item /\ r.status = "succeeded" /\ r.operation = k.operation
          /\ r.attempts = k.attempts
      BY <1>1 DEF Item
    <2>2. Report(c, r) /\ Gone(cleaner[c].task)
      BY <1>3 DEF MarkSucceeded, CleanedIsGone
    <2> HIDE DEF r
    <2> QED BY <1>1, <1>2, <2>1, <2>2, ReportInv
  <1>4. CASE MarkFailed(c)
    <2> DEFINE r == [GiveBack(k) EXCEPT !.due = FALSE]
               s == IF k.attempts >= MaxAttempts THEN "failed" ELSE "pending"
    <2>1. /\ GiveBack(k) \in Item /\ GiveBack(k).status = s
          /\ GiveBack(k).attempts = k.attempts /\ GiveBack(k).operation = k.operation
      BY <1>1, GiveBackFacts
    <2>2. /\ r \in Item /\ r.status = s /\ r.operation = k.operation
          /\ r.attempts = k.attempts
      BY <2>1 DEF Item
    <2>3. Report(c, r)
      BY <1>4 DEF MarkFailed
    <2>4. /\ s = "failed" => k.attempts = MaxAttempts
          /\ s = "pending" => k.attempts < MaxAttempts
          /\ s \in {"failed", "pending"}
      BY <1>2
    <2> HIDE DEF r, s
    <2> QED BY <1>1, <1>2, <2>2, <2>3, <2>4, ReportInv
  <1> QED BY <1>3, <1>4

(* Leases expire and available_at is reached: no row changes its status.   *)
LEMMA TimeInv ==
    ASSUME CleanupInv, NEW t \in Tasks, LeaseExpires(t) \/ BecomesDue(t)
    PROVE  CleanupInv'
  <1> USE DEF CleanupInv, businessVars, pgVars
  <1>1. \E l \in {"null", "live", "expired"}, d \in BOOLEAN :
           item' = [item EXCEPT ![t] = [@ EXCEPT !.lease = l, !.due = d]]
    <2>1. CASE LeaseExpires(t)
      <3>1. item' = [item EXCEPT ![t] = [@ EXCEPT !.lease = "expired", !.due = item[t].due]]
        BY <2>1 DEF LeaseExpires, CleanupTypeOK, Item
      <3>2. item[t].due \in BOOLEAN
        BY DEF CleanupTypeOK, Item
      <3> QED BY <3>1, <3>2
    <2>2. CASE BecomesDue(t)
      <3>1. item' = [item EXCEPT ![t] = [@ EXCEPT !.lease = item[t].lease, !.due = TRUE]]
        BY <2>2 DEF BecomesDue, CleanupTypeOK, Item
      <3>2. item[t].lease \in {"null", "live", "expired"}
        BY DEF CleanupTypeOK, Item
      <3> QED BY <3>1, <3>2
    <2> QED BY <2>1, <2>2
  <1>2. /\ item' \in [Tasks -> Item]
        /\ \A k \in Tasks : /\ item'[k].status = item[k].status
                            /\ item'[k].attempts = item[k].attempts
                            /\ item'[k].operation = item[k].operation
    <2>1. PICK l \in {"null", "live", "expired"}, d \in BOOLEAN :
             item' = [item EXCEPT ![t] = [@ EXCEPT !.lease = l, !.due = d]]
      BY <1>1
    <2>2. item \in [Tasks -> Item]
      BY DEF CleanupTypeOK
    <2> DEFINE r == [item[t] EXCEPT !.lease = l, !.due = d]
    <2>3. /\ r \in Item /\ r.status = item[t].status /\ r.attempts = item[t].attempts
          /\ r.operation = item[t].operation
      BY <2>2 DEF Item
    <2>4. item' = [item EXCEPT ![t] = r]
      BY <2>1
    <2> HIDE DEF r
    <2> QED BY <2>2, <2>3, <2>4
  <1>3. UNCHANGED <<businessVars, operation, pgVars, cleaner, repairs>>
    BY DEF LeaseExpires, BecomesDue
  <1>4. CleanupTypeOK' /\ RowsMove /\ RetriesAreCounted' /\ CleanersHaveRows'
    BY <1>2, <1>3 DEF CleanupTypeOK, RowsMove, RetriesAreCounted, CleanersHaveRows
  <1>5. CleanedIsGone'
    BY <1>3 DEF CleanedIsGone, Gone, NoThread, NoMemory, Owner
  <1>6. \A u \in Users \ users : Honest(u)'
    BY <1>2, <1>3, CountedStays, HonestForAll, HonestKept DEF Counted, Owed
  <1> QED BY <1>4, <1>5, <1>6, RowsMoveInv

(* apply_repair_plan: what was given up is tried again, and until then the *)
(* operation keeps showing the failure.                                    *)
LEMMA RepairInv ==
    ASSUME CleanupInv, Repair
    PROVE  CleanupInv'
  <1> USE DEF CleanupInv, businessVars, pgVars
  <1>1. UNCHANGED <<businessVars, operation, pgVars, cleaner>> /\ repairs' = repairs + 1
    BY DEF Repair
  <1>2. repairs \in Nat /\ repairs' \in Nat /\ repairs' > 0
    BY <1>1 DEF CleanupTypeOK
  <1>3. \A k \in Tasks :
           /\ ~Repairable(k) => item'[k] = item[k]
           /\ Repairable(k) => /\ item'[k].status = "pending" /\ item'[k].attempts = 0
                               /\ item[k].status \in {"failed", "processing"}
           /\ item'[k].operation = item[k].operation
           /\ item'[k] \in Item
    <2> SUFFICES ASSUME NEW k \in Tasks
                 PROVE  /\ ~Repairable(k) => item'[k] = item[k]
                        /\ Repairable(k) => /\ item'[k].status = "pending"
                                            /\ item'[k].attempts = 0
                                            /\ item[k].status \in {"failed", "processing"}
                        /\ item'[k].operation = item[k].operation
                        /\ item'[k] \in Item
      OBVIOUS
    <2>1. item[k] \in Item
      BY DEF CleanupTypeOK
    <2>2. CASE ~Repairable(k)
      BY <2>1, <2>2 DEF Repair
    <2>3. CASE Repairable(k)
      <3>1. item'[k] = [item[k] EXCEPT !.status = "pending", !.attempts = 0, !.due = TRUE,
                                       !.lease = "null"]
        BY <2>3 DEF Repair
      <3>2. /\ item'[k].status = "pending" /\ item'[k].attempts = 0
            /\ item'[k].operation = item[k].operation /\ item'[k] \in Item
        <4>1. item'[k] = [status |-> "pending", attempts |-> 0, due |-> TRUE,
                          lease |-> "null", operation |-> item[k].operation]
          BY <2>1, <3>1 DEF Item
        <4>2. item[k].operation \in Users \cup {None}
          BY <2>1 DEF Item
        <4> QED BY <4>1, <4>2 DEF Item
      <3> QED BY <2>3, <3>2 DEF Repairable, Expired
    <2> QED BY <2>2, <2>3
  <1>4. CleanupTypeOK'
    BY <1>1, <1>2, <1>3 DEF CleanupTypeOK, Repair
  <1>5. RowsMove /\ RetriesAreCounted'
    BY <1>1, <1>3, LimitsAssumption DEF RowsMove, RetriesAreCounted
  <1>6. CleanersHaveRows'
    BY <1>1, <1>5 DEF CleanersHaveRows, RowsMove
  <1>7. CleanedIsGone'
    BY <1>1 DEF CleanedIsGone, Gone, NoThread, NoMemory, Owner
  <1>8. ASSUME NEW u \in Users \ users PROVE Honest(u)'
    <2>1. Counted(u)' = Counted(u) /\ Honest(u)
      BY <1>5, CountedStays, HonestForAll DEF RowsMove
    <2>2. \A k \in Counted(u) :
             /\ item'[k].status = "succeeded" <=> item[k].status = "succeeded"
             /\ item'[k].status # "failed"
             /\ Owed(k) => Owed(k)'
      BY <1>3 DEF Counted, Owed, Repairable
    <2> QED BY <1>1, <1>2, <2>1, <2>2 DEF Honest, Owed
  <1> QED BY <1>4, <1>5, <1>6, <1>7, <1>8, RowsMoveInv
-----------------------------------------------------------------------------
(* The cleaners in PostgreSQL *)

(* What a cleaner does between claim and report: it removes data of its    *)
(* own task, or forgets it.                                                *)
LEMMA CleanerMoveInv ==
    ASSUME CleanupInv, NEW c \in Cleaners, NEW r \in Cleaner, NEW t, t = cleaner[c].task,
           cleaner' = [cleaner EXCEPT ![c] = r],
           thread' \in [Jobs -> SUBSET Threads], \A j \in Jobs : thread'[j] \subseteq thread[j],
           memory' \subseteq memory,
           UNCHANGED <<businessVars, outboxVars, repairs>>,
           r.phase # "idle" => /\ cleaner[c].phase # "idle" /\ r.task = t
                               /\ r.phase \in {"parent", "child"} => r.task \in Jobs
                               /\ r.phase = "memory" => r.task \in Users,
           r.phase = "child" => NoThread(t, {"parent"})',
           r.phase = "cleaned" => Gone(t)'
    PROVE  CleanupInv'
  <1> USE DEF CleanupInv, businessVars, outboxVars
  <1>1. CleanupTypeOK'
    BY DEF CleanupTypeOK
  <1>2. \A b \in Cleaners \ {c} : cleaner'[b] = cleaner[b]
    BY DEF CleanupTypeOK
  <1>3. cleaner'[c] = r
    BY DEF CleanupTypeOK
  <1>4. DeadAreFree' /\ RowsOfTheDead' /\ RetriesAreCounted'
    BY DEF DeadAreFree, RowsOfTheDead, RetriesAreCounted, Exists
  <1>5. CleanersHaveRows'
    BY <1>2, <1>3 DEF CleanersHaveRows
  <1>6. /\ \A j \in Jobs : \A kinds : NoThread(j, kinds) => NoThread(j, kinds)'
        /\ \A k \in Tasks : Gone(k) => Gone(k)'
    BY <1>1, GoneStays
  <1>7. SucceededIsGone'
    BY <1>6 DEF SucceededIsGone
  <1>8. CleanedIsGone'
    <2>1. ASSUME NEW b \in Cleaners, NEW k, k = cleaner'[b].task
          PROVE  /\ cleaner'[b].phase = "child" => NoThread(k, {"parent"})'
                 /\ cleaner'[b].phase = "cleaned" => Gone(k)'
      BY <1>2, <1>3, <1>6, <2>1 DEF CleanedIsGone, CleanersHaveRows
    <2> QED BY <2>1 DEF CleanedIsGone
  <1>9. OperationTracksItems'
    BY DEF OperationTracksItems, Counted, Owed
  <1> QED BY <1>1, <1>4, <1>5, <1>7, <1>8, <1>9

(* A row that has one belongs to what was deleted.                         *)
LEMMA TaskIsDead ==
    ASSUME CleanupInv, NEW c \in Cleaners, cleaner[c].phase # "idle"
    PROVE  /\ cleaner[c] \in Cleaner /\ cleaner[c].task \in Tasks
           /\ cleaner[c].task \in Jobs => ~Exists(cleaner[c].task)
           /\ cleaner[c].task \notin users
           /\ cleaner[c].phase \in {"parent", "child"} => cleaner[c].task \in Jobs
           /\ cleaner[c].phase = "memory" => cleaner[c].task \in Users
           /\ Jobs \cap Users = {}
  BY NamesAssumption DEF CleanupInv, CleanupTypeOK, CleanersHaveRows, RowsOfTheDead, Exists

(* _cleanup_checkpoint_task: only when the child's thread is gone as well  *)
(* is the task cleaned.                                                    *)
LEMMA DeleteThreadInv ==
    ASSUME CleanupInv, NEW c \in Cleaners, DeleteParent(c) \/ DeleteChild(c)
    PROVE  CleanupInv'
  <1>0. PICK j : j = cleaner[c].task
    OBVIOUS
  <1>1. /\ cleaner[c] \in Cleaner /\ j \in Jobs /\ cleaner[c].phase # "idle"
        /\ thread \in [Jobs -> SUBSET Threads] /\ Jobs \cap Users = {}
        /\ cleaner \in [Cleaners -> Cleaner]
    BY <1>0, TaskIsDead DEF DeleteParent, DeleteChild, DeleteThread, CleanupInv, CleanupTypeOK
  <1>2. UNCHANGED <<businessVars, outboxVars, memory, repairs>>
    BY DEF DeleteParent, DeleteChild, DeleteThread
  <1>3. ASSUME NEW p \in Phases,
               cleaner' = [cleaner EXCEPT ![c].phase = p]
        PROVE  /\ cleaner' = [cleaner EXCEPT ![c] = [cleaner[c] EXCEPT !.phase = p]]
               /\ [cleaner[c] EXCEPT !.phase = p] \in Cleaner
               /\ [cleaner[c] EXCEPT !.phase = p].phase = p
               /\ [cleaner[c] EXCEPT !.phase = p].task = j
    BY <1>0, <1>1, <1>3 DEF Cleaner
  <1>4. CASE GoTo(c, "error") /\ UNCHANGED thread
    BY <1>0, <1>1, <1>2, <1>3, <1>4, CleanerMoveInv DEF GoTo, Phases
  <1>5. CASE /\ cleaner[c].phase = "parent" /\ GoTo(c, "child")
             /\ thread' = [thread EXCEPT ![j] = @ \ {"parent"}]
    <2>1. NoThread(j, {"parent"})'
      BY <1>1, <1>5 DEF NoThread
    <2>2. thread' \in [Jobs -> SUBSET Threads] /\ \A k \in Jobs : thread'[k] \subseteq thread[k]
      BY <1>1, <1>5
    <2> QED BY <1>0, <1>1, <1>2, <1>3, <1>5, <2>1, <2>2, CleanerMoveInv DEF GoTo, Phases
  <1>6. CASE /\ cleaner[c].phase = "child" /\ GoTo(c, "cleaned")
             /\ thread' = [thread EXCEPT ![j] = @ \ {"child"}]
    <2>1. NoThread(j, {"parent"})
      BY <1>0, <1>6 DEF CleanupInv, CleanedIsGone
    <2>2. NoThread(j, Threads)'
      BY <1>1, <1>2, <1>6, <2>1 DEF NoThread, Threads, businessVars
    <2>3. Gone(j)'
      BY <1>1, <2>2 DEF Gone, NoThread
    <2>4. thread' \in [Jobs -> SUBSET Threads] /\ \A k \in Jobs : thread'[k] \subseteq thread[k]
      BY <1>1, <1>6
    <2> QED BY <1>0, <1>1, <1>2, <1>3, <1>6, <2>3, <2>4, CleanerMoveInv DEF GoTo, Phases
  <1> QED BY <1>0, <1>4, <1>5, <1>6 DEF DeleteParent, DeleteChild, DeleteThread

(* purge_store_namespace                                                   *)
LEMMA PurgeMemoryInv ==
    ASSUME CleanupInv, NEW c \in Cleaners, PurgeMemory(c)
    PROVE  CleanupInv'
  <1>0. PICK u : u = cleaner[c].task
    OBVIOUS
  <1>1. /\ cleaner[c] \in Cleaner /\ u \in Users /\ cleaner[c].phase # "idle"
        /\ cleaner \in [Cleaners -> Cleaner] /\ Jobs \cap Users = {}
        /\ thread \in [Jobs -> SUBSET Threads]
    BY <1>0, TaskIsDead DEF PurgeMemory, CleanupInv, CleanupTypeOK
  <1>2. UNCHANGED <<businessVars, outboxVars, thread, repairs>> /\ memory' \subseteq memory
    BY DEF PurgeMemory
  <1>3. PICK p \in {"cleaned", "error"} :
           /\ cleaner' = [cleaner EXCEPT ![c].phase = p]
           /\ p = "cleaned" => memory' = memory \ {u}
    BY <1>0 DEF PurgeMemory, GoTo
  <1> DEFINE r == [cleaner[c] EXCEPT !.phase = p]
  <1>4. r \in Cleaner /\ r.phase = p /\ r.task = u /\ cleaner' = [cleaner EXCEPT ![c] = r]
    BY <1>0, <1>1, <1>3 DEF Cleaner, Phases
  <1>5. p = "cleaned" => Gone(u)'
    BY <1>1, <1>3 DEF Gone, NoMemory
  <1> HIDE DEF r
  <1> QED BY <1>0, <1>1, <1>2, <1>3, <1>4, <1>5, CleanerMoveInv

(* A cleaner that cannot report or is started again forgets its task.      *)
LEMMA ForgetInv ==
    ASSUME CleanupInv, NEW c \in Cleaners, Restart(c)
    PROVE  CleanupInv'
  <1>1. cleaner[c] \in Cleaner /\ thread \in [Jobs -> SUBSET Threads]
    BY DEF CleanupInv, CleanupTypeOK
  <1>2. UNCHANGED <<businessVars, outboxVars, pgVars, repairs>>
    BY DEF Restart
  <1>3. Started \in Cleaner /\ Started.phase = "idle"
    BY DEF Started, Cleaner, Phases
  <1> QED BY <1>1, <1>2, <1>3, CleanerMoveInv DEF pgVars, Restart, Idle
-----------------------------------------------------------------------------
(* The theorems *)

(* Every step preserves the invariant.                                     *)
LEMMA NextCleanupInv == CleanupInv /\ [Next]_vars => CleanupInv'
  <1> SUFFICES ASSUME CleanupInv, [Next]_vars PROVE CleanupInv'
    OBVIOUS
  <1>1. ASSUME NEW j \in Jobs, JobStep(j) PROVE CleanupInv'
    BY <1>1, JobStepInv
  <1>2. ASSUME NEW s \in Sessions, DeleteSession(s) PROVE CleanupInv'
    BY <1>2, DeleteSessionInv
  <1>3. ASSUME NEW u \in Users, DeleteUser(u) PROVE CleanupInv'
    BY <1>3, DeleteUserInv
  <1>4. ASSUME NEW c \in Cleaners, Work(c) PROVE CleanupInv'
    BY <1>4, ClaimInv, DeleteThreadInv, PurgeMemoryInv, MarkInv DEF Work
  <1>5. ASSUME NEW c \in Cleaners, Restart(c) PROVE CleanupInv'
    BY <1>5, ForgetInv
  <1>6. ASSUME NEW t \in Tasks, LeaseExpires(t) \/ BecomesDue(t) PROVE CleanupInv'
    BY <1>6, TimeInv
  <1>7. CASE Repair
    BY <1>7, RepairInv
  <1>8. CASE UNCHANGED vars
    BY <1>8 DEF vars, businessVars, outboxVars, pgVars, CleanupInv, CleanupTypeOK, DeadAreFree,
       RowsOfTheDead, RetriesAreCounted, CleanersHaveRows, CleanedIsGone, SucceededIsGone,
       OperationTracksItems, Exists, NoThread, NoMemory, Gone, Counted, Owed, Owner
  <1> QED BY <1>1, <1>2, <1>3, <1>4, <1>5, <1>6, <1>7, <1>8 DEF Next

(* The invariant holds in every reachable state.                           *)
LEMMA AlwaysCleanupInv == Spec => []CleanupInv
  <1> QED BY InitCleanupInv, NextCleanupInv, PTL DEF Spec

(* The rows and the memory of the cleaners keep their types.               *)
THEOREM CleanupTypeCorrect == Spec => []CleanupTypeOK
  <1>1. CleanupInv => CleanupTypeOK
    BY DEF CleanupInv
  <1> QED BY <1>1, AlwaysCleanupInv, PTL

(* Whatever deletions, expiries, late reports, restarts and repairs do,    *)
(* data left of the deleted is registered, or a late slot wrote it.        *)
THEOREM OrphansAreOwed == Spec => []NothingOrphaned
  <1>1. CleanupInv => NothingOrphaned
    <2> SUFFICES ASSUME CleanupInv PROVE NothingOrphaned
      OBVIOUS
    <2> USE DEF CleanupInv
    <2>1. \A t \in Tasks : item[t].status = "none" \/ Owed(t) \/ Gone(t)
      <3>1. \A t \in Tasks : item[t].status \in {"none", "pending", "processing",
                                                  "succeeded", "failed"}
        BY DEF CleanupTypeOK, Item
      <3> QED BY <3>1 DEF Owed, SucceededIsGone
    <2>2. ASSUME NEW j \in Jobs, job[j].status = "deleted", thread[j] # {}
          PROVE  Owed(j) \/ job[j].outlived
      <3>1. Owed(j) \/ NoThread(j, Threads)
        BY <2>1, <2>2 DEF RowsOfTheDead, Gone, Tasks
      <3>2. thread[j] \subseteq Threads
        BY DEF CleanupTypeOK
      <3> QED BY <2>2, <3>1, <3>2 DEF NoThread
    <2>3. ASSUME NEW u \in Users, u \in memory \ users
          PROVE  Owed(u) \/ \E j \in Jobs : Owner(j) = u /\ job[j].outlived
      BY <2>1, <2>3 DEF RowsOfTheDead, Gone, NoMemory, Tasks
    <2> QED BY <2>2, <2>3 DEF NothingOrphaned
  <1> QED BY <1>1, AlwaysCleanupInv, PTL

(* The deletion of a user never shows more than its rows, nor less.        *)
THEOREM OperationsAreHonest == Spec => []OperationTracksItems
  <1>1. CleanupInv => OperationTracksItems
    BY DEF CleanupInv
  <1> QED BY <1>1, AlwaysCleanupInv, PTL

(* No row is attempted more often than MAX_CLEANUP_ATTEMPTS allows, nor    *)
(* given up before.                                                        *)
THEOREM AttemptsAreBounded == Spec => []RetriesAreCounted
  <1>1. CleanupInv => RetriesAreCounted
    BY DEF CleanupInv
  <1> QED BY <1>1, AlwaysCleanupInv, PTL

(* No step removes the thread of a job or the memory of a user that exists. *)
THEOREM LivingAreSpared == Spec => SparesTheLiving
  <1> DEFINE Spared == /\ \A j \in Jobs : Exists(j) => thread[j] \subseteq thread'[j]
                       /\ memory \cap users \subseteq memory'
  <1>1. CleanupInv /\ [Next]_vars => [Spared]_vars
    <2> SUFFICES ASSUME CleanupInv, Next PROVE Spared
      OBVIOUS
    <2>0. thread \in [Jobs -> SUBSET Threads]
      BY DEF CleanupInv, CleanupTypeOK
    <2>1. CASE UNCHANGED pgVars
      BY <2>1 DEF pgVars
    <2>2. ASSUME NEW j \in Jobs, SaveMemory(j) \/ \E t \in Threads : SaveThread(j, t)
          PROVE  Spared
      BY <2>0, <2>2 DEF SaveMemory, SaveThread
    <2>3. ASSUME NEW c \in Cleaners, NEW t \in Threads, NEW next, DeleteThread(c, t, next)
          PROVE  Spared
      <3>1. cleaner[c].task \in Jobs /\ ~Exists(cleaner[c].task)
        BY <2>3, TaskIsDead DEF DeleteThread, Threads
      <3> QED BY <2>0, <2>3, <3>1 DEF DeleteThread
    <2>4. ASSUME NEW c \in Cleaners, PurgeMemory(c) PROVE Spared
      <3>1. cleaner[c].task \notin users
        BY <2>4, TaskIsDead DEF PurgeMemory
      <3> QED BY <2>4, <3>1 DEF PurgeMemory
    <2>5. ASSUME NEW j \in Jobs, JobStep(j) PROVE Spared
      BY <2>1, <2>2, <2>5 DEF JobStep, JobBecomes, Create, Take, Wait, Finish, Cancel, Release
    <2>6. ASSUME NEW c \in Cleaners, Work(c) \/ Restart(c) PROVE Spared
      <3>1. CASE DeleteParent(c) \/ DeleteChild(c)
        BY <2>3, <3>1 DEF DeleteParent, DeleteChild, Threads
      <3> QED BY <2>1, <2>4, <2>6, <3>1
              DEF Work, Claim, MarkSucceeded, MarkFailed, Report, Restart
    <2>7. ASSUME NEW t \in Tasks, LeaseExpires(t) \/ BecomesDue(t) PROVE Spared
      BY <2>1, <2>7 DEF LeaseExpires, BecomesDue
    <2> QED BY <2>1, <2>5, <2>6, <2>7 DEF Next, DeleteSession, DeleteUser, Repair
  <1> QED BY <1>1, AlwaysCleanupInv, PTL DEF Spec, SparesTheLiving

(* An operation exists only for a user that was deleted.                   *)
LivingUnasked == \A u \in users : operation[u] = "none"

(* What a step may do to the rows and the operations, whoever takes it: a  *)
(* success stays, no row joins an operation that was begun before, and no  *)
(* operation of a living user is touched.                                  *)
StepKeeps ==
    /\ users' \subseteq users
    /\ \A t \in Tasks : item[t].status = "succeeded" => item'[t].status = "succeeded"
    /\ \A t \in Tasks, u \in Users \ users : item'[t].operation = u => item[t].operation = u
    /\ \A u \in users' : operation'[u] = operation[u]

(* Counting operations again leaves those of the living alone: no row has  *)
(* them.                                                                   *)
LEMMA UpdateSparesLiving ==
    ASSUME CleanupInv, NEW rows, NEW ops, Update(rows, ops),
           \A op \in ops : \E t \in Tasks : item[t].operation = op
    PROVE  \A u \in users : operation'[u] = operation[u]
  BY DEF CleanupInv, CleanupTypeOK, RowsOfTheDead, Update

(* Every step keeps successes.                                             *)
LEMMA StepsKeep == CleanupInv /\ [Next]_vars => StepKeeps
  <1> SUFFICES ASSUME CleanupInv, [Next]_vars PROVE StepKeeps
    OBVIOUS
  <1> USE DEF StepKeeps
  <1>0. item \in [Tasks -> Item] /\ users \subseteq Users /\ Users \subseteq Tasks
    BY DEF CleanupInv, CleanupTypeOK, Tasks
  <1>1. CASE UNCHANGED <<users, outboxVars>>
    BY <1>1 DEF outboxVars
  <1>2. ASSUME NEW tasks \in SUBSET Tasks, NEW op \in users \cup {None}, Enqueue(tasks, op),
               \A t \in tasks : item[t].status = "none", users' \subseteq users,
               \A u \in users' : operation'[u] = operation[u]
        PROVE  StepKeeps
    <2>1. op \in Users \cup {None}
      BY <1>0
    <2>2. \A t \in tasks : item[t].status = "none" /\ item'[t].operation = op
      BY <1>2, <2>1, EnqueueFacts
    <2>3. \A t \in Tasks \ tasks : item'[t] = item[t]
      BY <1>2, <2>1, EnqueueFacts
    <2>4. None \notin Users
      BY NamesAssumption DEF Tasks
    <2> QED BY <1>2, <2>2, <2>3, <2>4
  <1>3. ASSUME NEW s \in Sessions, DeleteSession(s) PROVE StepKeeps
    <2> DEFINE js == {j \in Jobs : SessionOf[j] = s /\ Exists(j)}
    <2>1. \A j \in js : item[j].status = "none"
      BY DEF CleanupInv, RowsOfTheDead, Exists
    <2>2. js \in SUBSET Tasks /\ Enqueue(js, None) /\ users' = users /\ operation' = operation
      BY <1>3 DEF DeleteSession, Tasks
    <2> HIDE DEF js
    <2> QED BY <1>2, <2>1, <2>2
  <1>4. ASSUME NEW u \in Users, DeleteUser(u) PROVE StepKeeps
    <2> DEFINE js == {j \in Jobs : Owner(j) = u /\ Exists(j)}
               ts == js \cup {u}
    <2>1. \A t \in ts : item[t].status = "none"
      BY <1>4 DEF CleanupInv, RowsOfTheDead, Exists, DeleteUser
    <2>2. /\ ts \in SUBSET Tasks /\ Enqueue(ts, u) /\ u \in users /\ users' \subseteq users
          /\ \A v \in users' : operation'[v] = operation[v]
      BY <1>0, <1>4 DEF DeleteUser, Tasks, CleanupInv, CleanupTypeOK
    <2> HIDE DEF ts
    <2> QED BY <1>2, <2>1, <2>2
  <1>5. ASSUME NEW c \in Cleaners, Claim(c) PROVE StepKeeps
    <2>1. /\ \A op \in ExpiredOperations : \E t \in Tasks : item[t].operation = op
          /\ users' = users
      BY <1>5 DEF ExpiredOperations, Claim, businessVars
    <2>2. /\ \A u \in users : operation'[u] = operation[u]
          /\ item' = Released \/ \E t \in DueTasks(Released) :
                                    item' = [Released EXCEPT ![t] = Leased(@)]
      <3>1. PICK rows : /\ Update(rows, ExpiredOperations)
                        /\ \/ rows = Released
                           \/ \E t \in DueTasks(Released) :
                                 rows = [Released EXCEPT ![t] = Leased(@)]
        BY <1>5 DEF Claim
      <3>2. \A u \in users : operation'[u] = operation[u]
        BY <2>1, <3>1, UpdateSparesLiving
      <3> QED BY <3>1, <3>2 DEF Update
    <2>3. CASE item' = Released
      BY <2>1, <2>2, <2>3, ReleasedFacts
    <2>4. ASSUME NEW t \in DueTasks(Released),
                 item' = [Released EXCEPT ![t] = Leased(@)]
          PROVE  StepKeeps
      <3>1. t \in Tasks /\ Released[t].status = "pending" /\ Released[t] \in Item
        BY ReleasedFacts DEF DueTasks, Tasks
      <3>2. item'[t].operation = Released[t].operation
        BY <2>4, <3>1, ReleasedFacts DEF Leased, Item
      <3>3. \A k \in Tasks \ {t} : item'[k] = Released[k]
        BY <2>4, ReleasedFacts
      <3> QED BY <2>1, <2>2, <3>1, <3>2, <3>3, ReleasedFacts
    <2> QED BY <2>2, <2>3, <2>4
  <1>6. ASSUME NEW c \in Cleaners, MarkSucceeded(c) \/ MarkFailed(c) PROVE StepKeeps
    <2>0. PICK t \in Tasks : \E r :
             /\ Update([item EXCEPT ![t] = IF @.status = "processing" THEN r ELSE @],
                       {item[t].operation})
             /\ users' = users /\ r.operation = item[t].operation
      <3>1. cleaner[c].task \in Tasks
        BY <1>6, TaskIsDead DEF MarkSucceeded, MarkFailed
      <3>2. item[cleaner[c].task] \in Item
        BY <1>0, <3>1
      <3>3. CASE MarkSucceeded(c)
        <4> DEFINE r == [item[cleaner[c].task] EXCEPT !.status = "succeeded", !.lease = "null"]
        <4>1. Report(c, r) /\ r.operation = item[cleaner[c].task].operation
          BY <3>2, <3>3 DEF MarkSucceeded, Item
        <4> HIDE DEF r
        <4> QED BY <3>1, <4>1 DEF Report, businessVars
      <3>4. CASE MarkFailed(c)
        <4> DEFINE r == [GiveBack(item[cleaner[c].task]) EXCEPT !.due = FALSE]
        <4>1. Report(c, r) /\ r.operation = item[cleaner[c].task].operation
          BY <3>2, <3>4, GiveBackFacts DEF MarkFailed, Item
        <4> HIDE DEF r
        <4> QED BY <3>1, <4>1 DEF Report, businessVars
      <3> QED BY <1>6, <3>3, <3>4
    <2>1. PICK r :
             /\ Update([item EXCEPT ![t] = IF @.status = "processing" THEN r ELSE @],
                       {item[t].operation})
             /\ users' = users /\ r.operation = item[t].operation
      BY <2>0
    <2>2. \A u \in users : operation'[u] = operation[u]
      BY <2>1, UpdateSparesLiving
    <2>3. /\ \A k \in Tasks \ {t} : item'[k] = item[k]
          /\ item'[t] = IF item[t].status = "processing" THEN r ELSE item[t]
      BY <1>0, <2>1 DEF Update
    <2> QED BY <2>1, <2>2, <2>3
  <1>7. ASSUME NEW t \in Tasks, LeaseExpires(t) \/ BecomesDue(t) PROVE StepKeeps
    <2>1. \A k \in Tasks : /\ item'[k].status = item[k].status
                           /\ item'[k].operation = item[k].operation
      BY <1>0, <1>7 DEF LeaseExpires, BecomesDue, Item
    <2> QED BY <1>7, <2>1 DEF LeaseExpires, BecomesDue, businessVars
  <1>8. CASE Repair
    <2>1. \A k \in Tasks : /\ item[k].status = "succeeded" => item'[k] = item[k]
                           /\ item'[k].operation = item[k].operation
      BY <1>0, <1>8 DEF Repair, Repairable, Expired, Item
    <2> QED BY <1>8, <2>1 DEF Repair, businessVars
  <1>9. ASSUME NEW j \in Jobs, JobStep(j) PROVE StepKeeps
    BY <1>1, <1>9 DEF JobStep, JobBecomes, Create, Take, Wait, Finish, Cancel, Release,
       SaveThread, SaveMemory, businessVars, outboxVars
  <1>10. ASSUME NEW c \in Cleaners, Work(c) \/ Restart(c) PROVE StepKeeps
    BY <1>1, <1>5, <1>6, <1>10 DEF Work, DeleteParent, DeleteChild, DeleteThread, PurgeMemory,
       Restart, businessVars
  <1> QED BY <1>1, <1>3, <1>4, <1>7, <1>8, <1>9, <1>10 DEF Next, vars, businessVars

(* Neither a late report nor an expired lease nor a repair takes back what *)
(* has succeeded, of a row or of an operation.                             *)
THEOREM SuccessStays == Spec => SuccessIsFinal
  <1> DEFINE Final == /\ \A t \in Tasks : item[t].status = "succeeded"
                                             => item'[t].status = "succeeded"
                      /\ \A u \in Users : operation[u] = "succeeded"
                                             => operation'[u] = "succeeded"
  <1>1. Init => LivingUnasked
    BY DEF Init, LivingUnasked
  <1>2. CleanupInv /\ LivingUnasked /\ [Next]_vars => LivingUnasked'
    BY StepsKeep DEF StepKeeps, LivingUnasked
  <1>3. CleanupInv /\ CleanupInv' /\ LivingUnasked /\ [Next]_vars => [Final]_vars
    <2> SUFFICES ASSUME CleanupInv, CleanupInv', LivingUnasked, [Next]_vars PROVE Final
      OBVIOUS
    <2>1. StepKeeps
      BY StepsKeep
    <2>2. ASSUME NEW u \in Users, operation[u] = "succeeded"
          PROVE  operation'[u] = "succeeded"
      <3>1. u \in Users \ users /\ u \in Users \ users'
        BY <2>1, <2>2 DEF LivingUnasked, StepKeeps
      <3>2. \A t \in Counted(u) : item[t].status = "succeeded"
        BY <2>2, <3>1 DEF CleanupInv, OperationTracksItems
      <3>3. \A t \in Counted(u)' : item'[t].status = "succeeded"
        BY <2>1, <3>1, <3>2 DEF StepKeeps, Counted
      <3> QED BY <3>1, <3>3 DEF CleanupInv, OperationTracksItems
    <2> QED BY <2>1, <2>2 DEF StepKeeps
  <1> QED BY <1>1, <1>2, <1>3, AlwaysCleanupInv, PTL DEF Spec, SuccessIsFinal
=============================================================================
