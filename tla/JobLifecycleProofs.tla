------------------------- MODULE JobLifecycleProofs -------------------------
(***************************************************************************)
(* Theorems about JobLifecycle, for every set of jobs, of worker slots and *)
(* of sessions, every retry limit, and both readings of an UPDATE's SET    *)
(* list.  After types, the steps are reduced: whatever the twenty actions  *)
(* do to slots, heartbeats and checkpoints, each job only ever makes one   *)
(* of the eight moves defined here (lemma StepMoves), and the safety       *)
(* theorems follow from the moves.                                         *)
(***************************************************************************)
EXTENDS JobLifecycle, SequenceTheorems, FiniteSetTheorems, TLAPS

-----------------------------------------------------------------------------
(* The inductive invariant behind type correctness: a slot that is at work *)
(* has a job, that job has an input, and only a finished job's log holds a *)
(* terminal event (so that a lifecycle transaction always finds the event  *)
(* it has just stored).                                                    *)

Busy(s) == s.phase \notin {"idle", "dead"}

SlotsHaveJobs ==
    \A w \in Workers : /\ Busy(slot[w]) => slot[w].job \in Jobs
                       /\ slot[w].beating => slot[w].job \in Jobs
                       /\ slot[w].job \in Jobs => inputs[slot[w].job] # << >>

JobsHaveInputs ==
    \A j \in Jobs : job[j].status # "absent" => inputs[j] # << >>

LogIsOpen ==
    \A j \in Jobs : job[j].status \notin TerminalStatus =>
        \A i \in DOMAIN events[j] : events[j][i].type \notin TerminalType

TypeInv == TypeOK /\ SlotsHaveJobs /\ JobsHaveInputs /\ LogIsOpen

-----------------------------------------------------------------------------
(* The operators on rows, logs and chats *)

(* The transitions of a job row (lease, wait, finish, release, cancel,     *)
(* reap) return rows.                                                      *)
LEMMA RowOpsType ==
    ASSUME NEW r \in Row
    PROVE  /\ \A w \in Workers : LeasedRow(r, w) \in Row
           /\ \A q \in Nat : WaitingRow(r, q) \in Row
           /\ \A st \in TerminalStatus : FinishedRow(r, st) \in Row
           /\ \A rs \in {"null", "worker_confirmed", "lease_expired"} :
                 Released(r, rs) \in Row
           /\ CanceledRow(r) \in Row
           /\ Reaped(r) \in Row
  <1>1. ASSUME NEW w \in Workers PROVE LeasedRow(r, w) \in Row
    <2>1. (IF r.status = "running" THEN r.recovery + 1 ELSE r.recovery) \in Nat
      BY DEF Row
    <2>2. "running" \in ActiveStatus /\ r.epoch + 1 \in Nat
      BY DEF Row, ActiveStatus
    <2> QED BY <1>1, <2>1, <2>2 DEF Row, LeasedRow
  <1>2. ASSUME NEW rs \in {"null", "worker_confirmed", "lease_expired"}
        PROVE  Released(r, rs) \in Row
    BY <1>2 DEF Row, Released
  <1>3. ASSUME NEW q \in Nat PROVE WaitingRow(r, q) \in Row
    <2> DEFINE free == Released(r, "worker_confirmed")
    <2>1. free \in Row /\ "waiting_input" \in ActiveStatus
      BY <1>2 DEF ActiveStatus
    <2> HIDE DEF free
    <2>2. [free EXCEPT !.status = "waiting_input", !.question = q] \in Row
      BY <1>3, <2>1 DEF Row
    <2> QED
      BY <2>2 DEF WaitingRow, free
  <1>4. ASSUME NEW st \in TerminalStatus PROVE FinishedRow(r, st) \in Row
    <2> DEFINE free == Released(r, "worker_confirmed")
    <2>1. free \in Row
      BY <1>2
    <2> HIDE DEF free
    <2>2. [free EXCEPT !.status = st, !.active = FALSE, !.question = 0] \in Row
      BY <1>4, <2>1 DEF Row
    <2> QED
      BY <2>2 DEF FinishedRow, free
  <1>5. CanceledRow(r) \in Row
    BY DEF Row, CanceledRow, TerminalStatus
  <1>6. Reaped(r) \in Row
    BY <1>2 DEF Reaped
  <1> QED BY <1>1, <1>2, <1>3, <1>4, <1>5, <1>6

(* Storing an event that does not conflict keeps the log typed, and the    *)
(* event's id is a position of the log.                                    *)
LEMMA WithEventFacts ==
    ASSUME NEW log \in Seq(Event), NEW e \in Event, ~Conflicts(log, e)
    PROVE  /\ WithEvent(log, e) \in Seq(Event)
           /\ EventId(WithEvent(log, e), e) \in DOMAIN WithEvent(log, e)
           /\ WithEvent(log, e)[EventId(WithEvent(log, e), e)] = e
  <1>1. WithEvent(log, e) \in Seq(Event)
    BY DEF WithEvent
  <1>2. \E i \in DOMAIN WithEvent(log, e) : WithEvent(log, e)[i] = e
    <2>1. CASE Holds(log, e)
      BY <2>1 DEF WithEvent, Holds, Conflicts
    <2>2. CASE ~Holds(log, e)
      <3>1. WithEvent(log, e) = Append(log, e)
        BY <2>2 DEF WithEvent
      <3>2. /\ Len(log) + 1 \in DOMAIN Append(log, e)
            /\ Append(log, e)[Len(log) + 1] = e
        OBVIOUS
      <3> QED BY <3>1, <3>2
    <2> QED BY <2>1, <2>2
  <1> QED BY <1>1, <1>2 DEF EventId

(* A reply inserted in the chat history leaves a sequence of messages.     *)
LEMMA WithReplyType ==
    ASSUME NEW msgs \in Seq(Message), NEW id \in Nat
    PROVE  WithReply(msgs, id) \in Seq(Message)
  <1>1. [role |-> "assistant", ref |-> id] \in Message
    BY DEF Message
  <1> QED BY <1>1 DEF WithReply

(* A lifecycle transaction keeps logs and chats typed, and touches only    *)
(* the jobs it publishes for.                                              *)
LEMMA PublishType ==
    ASSUME NEW lifecycle, DOMAIN lifecycle \subseteq Jobs,
           \A j \in DOMAIN lifecycle : /\ lifecycle[j] \in Event
                                       /\ ~Conflicts(events[j], lifecycle[j]),
           events \in [Jobs -> Seq(Event)], chat \in [Jobs -> Seq(Message)],
           Publish(lifecycle)
    PROVE  /\ events' \in [Jobs -> Seq(Event)]
           /\ chat' \in [Jobs -> Seq(Message)]
           /\ \A j \in Jobs : events'[j] = IF j \in DOMAIN lifecycle
                                           THEN WithEvent(events[j], lifecycle[j])
                                           ELSE events[j]
  <1> DEFINE log(j) == WithEvent(events[j], lifecycle[j])
             id(j) == EventId(log(j), lifecycle[j])
  <1>1. ASSUME NEW j \in DOMAIN lifecycle
        PROVE  log(j) \in Seq(Event) /\ id(j) \in Nat
    <2>1. log(j) \in Seq(Event) /\ id(j) \in DOMAIN log(j)
      BY <1>1, WithEventFacts
    <2> QED BY <2>1
  <1>2. ASSUME NEW j \in DOMAIN lifecycle
        PROVE  WithReply(chat[j], id(j)) \in Seq(Message)
    BY <1>1, <1>2, WithReplyType
  <1>3. /\ events' = [j \in Jobs |->
              IF j \in DOMAIN lifecycle THEN log(j) ELSE events[j]]
        /\ chat' = [j \in Jobs |->
              IF j \in DOMAIN lifecycle THEN WithReply(chat[j], id(j)) ELSE chat[j]]
    BY DEF Publish
  <1> HIDE DEF log, id
  <1>4. events' \in [Jobs -> Seq(Event)] /\ chat' \in [Jobs -> Seq(Message)]
    BY <1>1, <1>2, <1>3
  <1>5. \A j \in Jobs : events'[j] = IF j \in DOMAIN lifecycle
                                     THEN log(j) ELSE events[j]
    BY <1>3
  <1> QED BY <1>4, <1>5 DEF log

(* _publish_lifecycle for one job keeps logs and chats typed and touches   *)
(* no other log.                                                           *)
LEMMA PublishOneType ==
    ASSUME NEW j \in Jobs, NEW e \in Event, ~Conflicts(events[j], e),
           events \in [Jobs -> Seq(Event)], chat \in [Jobs -> Seq(Message)],
           PublishOne(j, e)
    PROVE  /\ events' \in [Jobs -> Seq(Event)]
           /\ chat' \in [Jobs -> Seq(Message)]
           /\ events'[j] = WithEvent(events[j], e)
           /\ \A k \in Jobs : k # j => events'[k] = events[k]
  <1> DEFINE one == [k \in {j} |-> e]
  <1>1. /\ DOMAIN one = {j}
        /\ one[j] = e
    OBVIOUS
  <1>2. Publish(one)
    BY DEF PublishOne
  <1> HIDE DEF one
  <1>3. /\ events' \in [Jobs -> Seq(Event)]
        /\ chat' \in [Jobs -> Seq(Message)]
        /\ \A k \in Jobs : events'[k] = IF k \in DOMAIN one
                                        THEN WithEvent(events[k], one[k])
                                        ELSE events[k]
    BY <1>1, <1>2, PublishType
  <1> QED BY <1>1, <1>3

(* In an open log no terminal event conflicts, whatever its payload.       *)
LEMMA OpenLogNoConflict ==
    ASSUME NEW log \in Seq(Event), NEW e,
           \A i \in DOMAIN log : log[i].type \notin TerminalType,
           e.type \in TerminalType
    PROVE  ~Conflicts(log, e) /\ ~Holds(log, e)
  BY DEF Conflicts, Holds, SameKey

(* A worker that holds its lease sees a running row; one that drains sees  *)
(* a canceled row.                                                         *)
LEMMA LeaseFacts ==
    ASSUME TypeInv, NEW w \in Workers, slot[w].job \in Jobs
    PROVE  /\ job[slot[w].job] \in Row
           /\ HasAuthority(w) => job[slot[w].job].status = "running"
           /\ IsDraining(w) => job[slot[w].job].status = "canceled"
  BY DEF TypeInv, TypeOK, HasAuthority, IsDraining

-----------------------------------------------------------------------------
(* Every action preserves the type invariant. *)

(* The initial state, no job and idle slots, satisfies the type            *)
(* invariant.                                                              *)
LEMMA InitTypeInv == Init => TypeInv
  <1> SUFFICES ASSUME Init PROVE TypeInv
    OBVIOUS
  <1>1. AbsentRow \in Row
    BY DEF AbsentRow, Row
  <1>2. IdleSlot \in Slot
    BY DEF IdleSlot, Slot
  <1>3. [saved |-> FALSE, asked |-> 0, pending |-> FALSE] \in Checkpoint
    BY DEF Checkpoint
  <1>4. TypeOK
    BY <1>1, <1>2, <1>3 DEF Init, TypeOK
  <1>5. SlotsHaveJobs
    BY NoneAssumption DEF Init, SlotsHaveJobs, Busy, IdleSlot
  <1>6. JobsHaveInputs
    BY DEF Init, JobsHaveInputs, AbsentRow
  <1>7. LogIsOpen
    BY DEF Init, LogIsOpen
  <1> QED BY <1>4, <1>5, <1>6, <1>7 DEF TypeInv

(* create_job preserves the type invariant.                                *)
LEMMA CreateTypeInv ==
    ASSUME TypeInv, NEW j \in Jobs, Create(j)
    PROVE  TypeInv'
  <1> USE DEF TypeInv
  <1>1. job' = [job EXCEPT ![j] = [job[j] EXCEPT !.status = "queued", !.active = TRUE]]
    BY DEF Create, TypeOK
  <1>r. job[j] \in Row
    BY DEF TypeOK
  <1>2. [job[j] EXCEPT !.status = "queued", !.active = TRUE] \in Row
    BY <1>r DEF Row, ActiveStatus
  <1>3. <<[role |-> "user", ref |-> 1]>> \in Seq(Message)
    BY DEF Message
  <1>4. TypeOK'
    BY <1>1, <1>2, <1>3 DEF TypeOK, Create, pgVars
  <1>5. SlotsHaveJobs'
    BY DEF SlotsHaveJobs, Create, TypeOK
  <1>6. JobsHaveInputs'
    BY <1>1 DEF JobsHaveInputs, Create, TypeOK
  <1>7. LogIsOpen'
    BY <1>1 DEF LogIsOpen, Create, TypeOK, TerminalStatus
  <1> QED BY <1>4, <1>5, <1>6, <1>7

(* resume_job preserves the type invariant.                                *)
LEMMA ResumeTypeInv ==
    ASSUME TypeInv, NEW j \in Jobs, NEW q \in 1..MaxQuestions, Resume(j, q)
    PROVE  TypeInv'
  <1> USE DEF TypeInv
  <1> DEFINE r == [job[j] EXCEPT !.status = "queued", !.question = 0,
                                 !.resumes = @ + 1]
  <1>1. job' = [job EXCEPT ![j] = r]
    BY DEF Resume, TypeOK
  <1>r. job[j] \in Row /\ job[j].status = "waiting_input"
    BY DEF Resume, TypeOK
  <1>2. r \in Row /\ r.status = "queued"
    <2>1. job[j].resumes + 1 \in Nat /\ 0 \in Nat /\ "queued" \in ActiveStatus
      BY <1>r DEF Row, ActiveStatus
    <2> QED BY <1>r, <2>1 DEF Row
  <1> HIDE DEF r
  <1>3. [role |-> "user", ref |-> Len(inputs[j]) + 1] \in Message
    BY DEF TypeOK, Message
  <1>4. q \in Nat
    BY BoundsAssumption
  <1>5. Append(inputs[j], q) \in Seq(Nat) /\ Append(inputs[j], q) # << >>
    <2>1. inputs[j] \in Seq(Nat)
      BY DEF TypeOK
    <2>2. Append(inputs[j], q) \in Seq(Nat) /\ Len(Append(inputs[j], q)) = Len(inputs[j]) + 1
      BY <1>4, <2>1
    <2>3. Len(<< >>) = 0 /\ Len(inputs[j]) \in Nat
      BY <2>1
    <2> QED BY <2>2, <2>3
  <1>6. TypeOK'
    <2>1. chat[j] \in Seq(Message)
      BY DEF TypeOK
    <2>2. Append(chat[j], [role |-> "user", ref |-> Len(inputs[j]) + 1]) \in Seq(Message)
      BY <2>1, <1>3
    <2> QED BY <1>1, <1>2, <2>2, <1>5 DEF TypeOK, Resume, pgVars
  <1>7. SlotsHaveJobs'
    BY <1>5 DEF SlotsHaveJobs, Resume, TypeOK
  <1>8. JobsHaveInputs'
    BY <1>1, <1>5 DEF JobsHaveInputs, Resume, TypeOK
  <1>9. LogIsOpen'
    BY <1>1, <1>2, <1>r DEF LogIsOpen, Resume, TypeOK, TerminalStatus
  <1> QED BY <1>6, <1>7, <1>8, <1>9

(* cancel_job preserves the type invariant, also when it publishes the     *)
(* canceled event.                                                         *)
LEMMA CancelTypeInv ==
    ASSUME TypeInv, NEW j \in Jobs, Cancel(j)
    PROVE  TypeInv'
  <1> USE DEF TypeInv
  <1>1. CanceledEvent \in Event
    BY DEF CanceledEvent, Event, TerminalType
  <1>2. ~Conflicts(events[j], CanceledEvent)
    BY DEF Cancel, Conflicts, Holds
  <1>3. /\ events' \in [Jobs -> Seq(Event)]
        /\ chat' \in [Jobs -> Seq(Message)]
        /\ \A k \in Jobs : k # j => events'[k] = events[k]
    BY <1>1, <1>2, PublishOneType DEF Cancel, TypeOK
  <1>4. CanceledRow(job[j]) \in Row /\ CanceledRow(job[j]).status = "canceled"
    <2>1. job[j] \in Row
      BY DEF TypeOK
    <2>2. CanceledRow(job[j]) \in Row
      BY <2>1, RowOpsType
    <2> QED BY <2>1, <2>2 DEF CanceledRow, Row
  <1>5. job' = [job EXCEPT ![j] = CanceledRow(job[j])]
    BY DEF Cancel
  <1>6. TypeOK'
    BY <1>3, <1>4, <1>5 DEF TypeOK, Cancel, pgVars
  <1>7. SlotsHaveJobs'
    BY DEF SlotsHaveJobs, Cancel
  <1>8. JobsHaveInputs'
    BY <1>5 DEF JobsHaveInputs, Cancel, TypeOK, ActiveStatus
  <1>9. LogIsOpen'
    BY <1>3, <1>4, <1>5 DEF LogIsOpen, TypeOK, TerminalStatus
  <1> QED BY <1>6, <1>7, <1>8, <1>9

(* A step of slot w that leaves MySQL alone.                               *)
SlotFine(s) == /\ s \in Slot
               /\ Busy(s) => s.job \in Jobs
               /\ s.beating => s.job \in Jobs

(* A slot that works has a job, that job exists and has an input.          *)
LEMMA BusySlot ==
    ASSUME TypeInv, NEW w \in Workers, slot[w].phase \notin {"idle", "dead"}
    PROVE  /\ slot[w] \in Slot
           /\ slot[w].job \in Jobs
           /\ inputs[slot[w].job] # << >>
           /\ inputs[slot[w].job] \in Seq(Nat)
  BY DEF TypeInv, TypeOK, SlotsHaveJobs, Busy

(* The slot of a worker without a job is well formed.                      *)
LEMMA IdleSlotFine == SlotFine(IdleSlot)
  BY DEF SlotFine, IdleSlot, Slot, Busy

(* A slot that lost its lease is still well formed.                        *)
LEMMA RevokeFine ==
    ASSUME TypeInv, NEW w \in Workers, slot[w].phase \notin {"idle", "dead"}
    PROVE  /\ SlotFine([slot[w] EXCEPT !.phase = "abort", !.revoked = TRUE])
           /\ [slot[w] EXCEPT !.phase = "abort", !.revoked = TRUE].job = slot[w].job
  BY BusySlot DEF SlotFine, Slot, Busy

(* Giving a slot a well formed value, whose job has an input, keeps the    *)
(* slots typed.                                                            *)
LEMMA SlotsStepTo ==
    ASSUME TypeInv, NEW w \in Workers, NEW s, SlotFine(s),
           s.job \in Jobs => inputs[s.job] # << >>,
           slot' = [slot EXCEPT ![w] = s], UNCHANGED inputs
    PROVE  slot' \in [Workers -> Slot] /\ SlotsHaveJobs'
  BY DEF TypeInv, TypeOK, SlotsHaveJobs, SlotFine

(* A slot that keeps its job, or drops it, stays well formed.              *)
LEMMA SlotsStep ==
    ASSUME TypeInv, NEW w \in Workers, NEW s, SlotFine(s),
           s.job \in {slot[w].job, None},
           slot' = [slot EXCEPT ![w] = s], UNCHANGED inputs
    PROVE  slot' \in [Workers -> Slot] /\ SlotsHaveJobs'
  <1>1. s.job \in Jobs => inputs[s.job] # << >>
    BY NoneAssumption DEF TypeInv, SlotsHaveJobs
  <1> QED BY <1>1, SlotsStepTo

(* A step of one slot that leaves the database alone preserves the type    *)
(* invariant.                                                              *)
LEMMA LocalStep ==
    ASSUME TypeInv, NEW w \in Workers, NEW s, SlotFine(s),
           s.job \in {slot[w].job, None},
           slot' = [slot EXCEPT ![w] = s],
           UNCHANGED dbVars,
           ckpt' \in [Jobs -> Checkpoint], pgUp' \in BOOLEAN
    PROVE  TypeInv'
  <1>1. UNCHANGED <<job, inputs, events, chat>>
    BY DEF dbVars
  <1>2. slot' \in [Workers -> Slot] /\ SlotsHaveJobs'
    BY <1>1, SlotsStep
  <1>3. TypeOK'
    BY <1>1, <1>2 DEF TypeInv, TypeOK
  <1>4. JobsHaveInputs' /\ LogIsOpen'
    BY <1>1 DEF TypeInv, JobsHaveInputs, LogIsOpen
  <1> QED BY <1>2, <1>3, <1>4 DEF TypeInv

(* Noticing the loss of the lease preserves the type invariant.            *)
LEMMA RevokeStep ==
    ASSUME TypeInv, NEW w \in Workers, slot[w].phase \notin {"idle", "dead"},
           Revoke(w), UNCHANGED <<dbVars, pgVars>>
    PROVE  TypeInv'
  <1>1. ckpt' \in [Jobs -> Checkpoint] /\ pgUp' \in BOOLEAN
    BY DEF TypeInv, TypeOK, pgVars
  <1> QED BY <1>1, RevokeFine, LocalStep DEF Revoke, GoTo

(* The steps of the worker that write nothing to the database preserve     *)
(* the type invariant.                                                     *)
LEMMA LocalTypeInv ==
    ASSUME TypeInv, NEW w \in Workers,
           \/ ClaimRaises(w) \/ Restart(w) \/ Start(w) \/ Inspect(w)
           \/ NodeStart(w) \/ Emit(w) \/ Abandon(w) \/ Crash(w)
    PROVE  TypeInv'
  <1>0. slot[w] \in Slot /\ ckpt \in [Jobs -> Checkpoint] /\ pgUp \in BOOLEAN
    BY DEF TypeInv, TypeOK
  <1>1. CASE ClaimRaises(w)
    <2> DEFINE s == [IdleSlot EXCEPT !.phase = "dead"]
    <2>1. SlotFine(s) /\ s.job = None
      BY IdleSlotFine DEF SlotFine, IdleSlot, Slot, Busy
    <2> QED BY <1>0, <1>1, <2>1, LocalStep DEF ClaimRaises, pgVars
  <1>2. CASE Restart(w)
    <2>1. IdleSlot.job = None
      BY DEF IdleSlot
    <2> QED BY <1>0, <1>2, <2>1, IdleSlotFine, LocalStep DEF Restart, pgVars
  <1>3. CASE Start(w)
    <2> DEFINE q == inputs[slot[w].job][Len(inputs[slot[w].job])]
               s == [slot[w] EXCEPT !.phase = "loaded", !.input = q]
    <2>1. slot[w].phase = "claimed" /\ UNCHANGED <<dbVars, pgVars>>
      BY <1>3 DEF Start
    <2>2. q \in Nat
      BY <2>1, BusySlot
    <2> HIDE DEF q
    <2>3. SlotFine(s) /\ s.job = slot[w].job
      BY <2>1, <2>2, BusySlot DEF SlotFine, Slot, Busy
    <2>4. Revoke(w) \/ slot' = [slot EXCEPT ![w] = s]
      BY <1>3 DEF Start, GoTo, q
    <2> HIDE DEF s
    <2> QED BY <1>0, <2>1, <2>3, <2>4, RevokeStep, LocalStep DEF pgVars
  <1>4. CASE Inspect(w)
    <2> DEFINE a == ckpt[slot[w].job].asked
               ready == [slot[w] EXCEPT !.phase = "ready", !.asked = a]
               failing == [slot[w] EXCEPT !.phase = "failing"]
    <2>1. slot[w].phase = "loaded" /\ UNCHANGED <<dbVars, pgVars>>
      BY <1>4 DEF Inspect
    <2>2. a \in Nat
      BY <1>0, <2>1, BusySlot DEF Checkpoint
    <2> HIDE DEF a
    <2>3. SlotFine(ready) /\ ready.job = slot[w].job
      BY <2>1, <2>2, BusySlot DEF SlotFine, Slot, Busy
    <2>4. SlotFine(failing) /\ failing.job = slot[w].job
      BY <2>1, BusySlot DEF SlotFine, Slot, Busy
    <2>5. \/ Revoke(w)
          \/ slot' = [slot EXCEPT ![w] = ready]
          \/ slot' = [slot EXCEPT ![w] = failing]
      BY <1>4 DEF Inspect, GoTo, a
    <2> HIDE DEF ready, failing
    <2> QED BY <1>0, <2>1, <2>3, <2>4, <2>5, RevokeStep, LocalStep DEF pgVars
  <1>5. CASE NodeStart(w)
    <2> DEFINE s == [slot[w] EXCEPT !.phase = "node"]
    <2>1. slot[w].phase = "ready" /\ UNCHANGED <<dbVars, pgVars>>
      BY <1>5 DEF NodeStart
    <2>2. SlotFine(s) /\ s.job = slot[w].job
      BY <2>1, BusySlot DEF SlotFine, Slot, Busy
    <2>3. Revoke(w) \/ slot' = [slot EXCEPT ![w] = s]
      BY <1>5 DEF NodeStart, GoTo
    <2> HIDE DEF s
    <2> QED BY <1>0, <2>1, <2>2, <2>3, RevokeStep, LocalStep DEF pgVars
  <1>6. CASE Emit(w)
    <2> DEFINE s == [Outcome(w) EXCEPT !.phase = "write"]
    <2>1. slot[w].phase = "emit" /\ UNCHANGED <<dbVars, pgVars>>
      BY <1>6 DEF Emit
    <2>2. slot[w].job \in Jobs /\ ckpt[slot[w].job].asked \in Nat
      BY <1>0, <2>1, BusySlot DEF Checkpoint
    <2>3. Outcome(w) \in Slot /\ Outcome(w).job = slot[w].job
      BY <1>0, <2>2 DEF Outcome, Slot
    <2>4. SlotFine(s) /\ s.job = slot[w].job
      BY <2>2, <2>3 DEF SlotFine, Slot, Busy
    <2>5. Revoke(w) \/ slot' = [slot EXCEPT ![w] = s]
      BY <1>6 DEF Emit, GoTo
    <2> HIDE DEF s
    <2> QED BY <1>0, <2>1, <2>4, <2>5, RevokeStep, LocalStep DEF pgVars
  <1>7. CASE Abandon(w)
    BY <1>7, RevokeStep DEF Abandon
  <1>8. CASE Crash(w)
    <2>1. IdleSlot.job = None
      BY DEF IdleSlot
    <2> QED BY <1>0, <1>8, <2>1, IdleSlotFine, LocalStep DEF Crash, GoTo, pgVars
  <1> QED BY <1>1, <1>2, <1>3, <1>4, <1>5, <1>6, <1>7, <1>8

OutTypes == {"progress", "interrupt", "final_result", "error"}

(* The checkpoint a graph node commits preserves the type invariant.       *)
LEMMA NodeCommitTypeInv ==
    ASSUME TypeInv, NEW w \in Workers, NEW out \in OutTypes, NodeCommit(w, out)
    PROVE  TypeInv'
  <1> DEFINE asked == IF out = "interrupt" THEN slot[w].asked + 1 ELSE slot[w].asked
             s == [slot[w] EXCEPT !.phase = "emit", !.out = out, !.asked = asked]
             c == [saved |-> TRUE, asked |-> asked, pending |-> out = "interrupt"]
  <1>1. slot[w].phase = "node"
    BY DEF NodeCommit
  <1>2. asked \in Nat
    BY <1>1, BusySlot DEF Slot
  <1>3. slot' = [slot EXCEPT ![w] = s] /\ UNCHANGED <<dbVars, pgUp>>
    BY DEF NodeCommit, GoTo
  <1>4. ckpt' = IF out = "error" THEN ckpt ELSE [ckpt EXCEPT ![slot[w].job] = c]
    BY DEF NodeCommit
  <1> HIDE DEF asked
  <1>5. SlotFine(s) /\ s.job = slot[w].job
    BY <1>1, <1>2, BusySlot DEF SlotFine, Slot, Busy, OutTypes
  <1>6. c \in Checkpoint
    BY <1>2 DEF Checkpoint
  <1> HIDE DEF s, c
  <1>7. ckpt' \in [Jobs -> Checkpoint] /\ pgUp' \in BOOLEAN
    BY <1>3, <1>4, <1>6 DEF TypeInv, TypeOK
  <1> QED BY <1>3, <1>5, <1>7, LocalStep

(* What a slot is about to write is an event.                              *)
LEMMA OutEventType ==
    ASSUME TypeInv, NEW w \in Workers, slot[w].phase = "write",
           slot[w].out \in OutTypes
    PROVE  OutEvent(w) \in Event
  <1>1. slot[w] \in Slot
    BY DEF TypeInv, TypeOK
  <1>2. /\ slot[w].epoch \in Nat
        /\ (IF slot[w].out = "interrupt" THEN slot[w].asked ELSE 0) \in Nat
    BY <1>1 DEF Slot
  <1> QED BY <1>2 DEF OutEvent, Event, OutTypes, TerminalType

(* append_job_event of a progress event preserves the type invariant.      *)
LEMMA WriteProgressTypeInv ==
    ASSUME TypeInv, NEW w \in Workers, WriteProgress(w)
    PROVE  TypeInv'
  <1> DEFINE j == slot[w].job
             s == [slot[w] EXCEPT !.phase = "ready", !.out = "none"]
  <1>1. /\ slot[w].phase = "write" /\ slot[w].out = "progress"
        /\ UNCHANGED <<job, inputs, chat, pgVars>>
    BY DEF WriteProgress
  <1>2. j \in Jobs /\ slot[w] \in Slot
    BY <1>1, BusySlot
  <1>3. CASE HasAuthority(w)
    <2>1. events' = [events EXCEPT ![j] = Append(events[j], OutEvent(w))]
      BY <1>3 DEF WriteProgress, TypeInv, TypeOK
    <2>2. slot' = [slot EXCEPT ![w] = s]
      BY <1>3 DEF WriteProgress, GoTo
    <2>3. SlotFine(s) /\ s.job = slot[w].job
      BY <1>2 DEF SlotFine, Slot, Busy
    <2>4. OutEvent(w) \in Event /\ OutEvent(w).type = "progress"
      BY <1>1, OutEventType DEF OutTypes, OutEvent
    <2> HIDE DEF s
    <2>5. slot' \in [Workers -> Slot] /\ SlotsHaveJobs'
      BY <1>1, <2>2, <2>3, SlotsStep
    <2>6. events' \in [Jobs -> Seq(Event)]
      BY <1>2, <2>1, <2>4 DEF TypeInv, TypeOK
    <2>7. TypeOK'
      BY <1>1, <2>5, <2>6 DEF TypeInv, TypeOK, pgVars
    <2>8. JobsHaveInputs'
      BY <1>1 DEF TypeInv, JobsHaveInputs
    <2>9. LogIsOpen'
      <3> SUFFICES ASSUME NEW k \in Jobs, job[k].status \notin TerminalStatus,
                          NEW i \in DOMAIN events'[k]
                   PROVE  events'[k][i].type \notin TerminalType
        BY <1>1 DEF LogIsOpen
      <3>1. CASE k # j
        BY <2>1, <3>1 DEF TypeInv, LogIsOpen, TypeOK
      <3>2. CASE k = j
        <4>1. events[j] \in Seq(Event)
          BY <1>2 DEF TypeInv, TypeOK
        <4>2. events'[j] = Append(events[j], OutEvent(w))
          BY <1>2, <2>1 DEF TypeInv, TypeOK
        <4>3. i \in DOMAIN events[j] \/ events'[j][i] = OutEvent(w)
          BY <3>2, <4>1, <4>2
        <4>4. i \in DOMAIN events[j] => events'[j][i] = events[j][i]
          BY <4>1, <4>2
        <4> QED BY <2>4, <3>2, <4>3, <4>4 DEF TypeInv, LogIsOpen, TerminalType
      <3> QED BY <3>1, <3>2
    <2> QED BY <2>5, <2>7, <2>8, <2>9 DEF TypeInv
  <1>4. CASE ~HasAuthority(w)
    <2>1. Revoke(w) /\ UNCHANGED <<dbVars, pgVars>>
      BY <1>1, <1>4 DEF WriteProgress, dbVars
    <2> QED BY <1>1, <2>1, RevokeStep
  <1> QED BY <1>3, <1>4

(* A lifecycle transaction on the job of slot w, which then goes idle.     *)
LEMMA LifecycleStep ==
    ASSUME TypeInv, NEW w \in Workers, NEW j \in Jobs, j = slot[w].job,
           NEW r \in Row, NEW e \in Event, ~Conflicts(events[j], e),
           r.status \in TerminalStatus \/ e.type \notin TerminalType,
           job[j].status = "running", job' = [job EXCEPT ![j] = r],
           PublishOne(j, e), GoTo(w, IdleSlot), UNCHANGED <<inputs, pgVars>>
    PROVE  TypeInv'
  <1>1. /\ events' \in [Jobs -> Seq(Event)]
        /\ chat' \in [Jobs -> Seq(Message)]
        /\ events'[j] = WithEvent(events[j], e)
        /\ \A k \in Jobs : k # j => events'[k] = events[k]
    BY PublishOneType DEF TypeInv, TypeOK
  <1>2. IdleSlot.job = None
    BY DEF IdleSlot
  <1>3. slot' \in [Workers -> Slot] /\ SlotsHaveJobs'
    BY <1>2, IdleSlotFine, SlotsStep DEF GoTo
  <1>4. TypeOK'
    BY <1>1, <1>3 DEF TypeInv, TypeOK, pgVars
  <1>5. JobsHaveInputs'
    BY DEF TypeInv, TypeOK, JobsHaveInputs
  <1>6. LogIsOpen'
    <2> SUFFICES ASSUME NEW k \in Jobs, job'[k].status \notin TerminalStatus,
                        NEW i \in DOMAIN events'[k]
                 PROVE  events'[k][i].type \notin TerminalType
      BY DEF LogIsOpen
    <2>1. CASE k # j
      BY <1>1, <2>1 DEF TypeInv, LogIsOpen, TypeOK
    <2>2. CASE k = j
      <3>1. events[j] \in Seq(Event)
        BY DEF TypeInv, TypeOK
      <3>2. e.type \notin TerminalType
        BY <2>2 DEF TypeInv, TypeOK
      <3>3. \A n \in DOMAIN events[j] : events[j][n].type \notin TerminalType
        BY DEF TypeInv, LogIsOpen, TerminalStatus
      <3>4. \/ events'[j] = events[j]
            \/ events'[j] = Append(events[j], e)
        BY <1>1 DEF WithEvent
      <3>5. CASE events'[j] = events[j]
        BY <2>2, <3>3, <3>5
      <3>6. CASE events'[j] = Append(events[j], e)
        <4>1. i \in DOMAIN events[j] \/ events'[j][i] = e
          BY <2>2, <3>1, <3>6
        <4>2. i \in DOMAIN events[j] => events'[j][i] = events[j][i]
          BY <3>1, <3>6
        <4> QED BY <2>2, <3>2, <3>3, <4>1, <4>2
      <3> QED BY <3>4, <3>5, <3>6
    <2> QED BY <2>1, <2>2
  <1> QED BY <1>3, <1>4, <1>5, <1>6 DEF TypeInv

(* complete_job, with a result or with a question, preserves the type      *)
(* invariant.                                                              *)
LEMMA CompleteTypeInv ==
    ASSUME TypeInv, NEW w \in Workers, Complete(w)
    PROVE  TypeInv'
  <1> DEFINE j == slot[w].job
             e == OutEvent(w)
             failing == [slot[w] EXCEPT !.phase = "failing"]
  <1>1. /\ slot[w].phase = "write" /\ slot[w].out \in {"interrupt", "final_result"}
        /\ UNCHANGED pgVars
    BY DEF Complete
  <1>2. j \in Jobs /\ slot[w] \in Slot
    BY <1>1, BusySlot
  <1>3. ckpt' \in [Jobs -> Checkpoint] /\ pgUp' \in BOOLEAN
    BY <1>1 DEF TypeInv, TypeOK, pgVars
  <1>4. CASE Conflicts(events[j], e)
    <2>1. slot' = [slot EXCEPT ![w] = failing] /\ UNCHANGED dbVars
      BY <1>4 DEF Complete, GoTo
    <2>2. SlotFine(failing) /\ failing.job = slot[w].job
      BY <1>2 DEF SlotFine, Slot, Busy
    <2> HIDE DEF failing
    <2> QED BY <1>3, <2>1, <2>2, LocalStep
  <1>5. CASE ~Conflicts(events[j], e) /\ Holds(events[j], e)
    <2>1. slot' = [slot EXCEPT ![w] = IdleSlot] /\ UNCHANGED dbVars
      BY <1>5 DEF Complete, GoTo
    <2>2. IdleSlot.job = None
      BY DEF IdleSlot
    <2> QED BY <1>3, <2>1, <2>2, IdleSlotFine, LocalStep
  <1>6. CASE ~Conflicts(events[j], e) /\ ~Holds(events[j], e) /\ HasAuthority(w)
    <2>1. /\ job' = [job EXCEPT ![j] = OutRow(w, job[j])]
          /\ PublishOne(j, e) /\ GoTo(w, IdleSlot) /\ UNCHANGED inputs
      BY <1>6 DEF Complete
    <2>2. job[j] \in Row /\ job[j].status = "running"
      BY <1>2, <1>6, LeaseFacts
    <2>3. e \in Event
      BY <1>1, OutEventType DEF OutTypes
    <2>4. OutRow(w, job[j]) \in Row
      BY <1>2, <2>2, RowOpsType DEF OutRow, Slot, TerminalStatus
    <2>5. OutRow(w, job[j]).status \in TerminalStatus \/ e.type \notin TerminalType
      BY <1>1, <2>2 DEF OutRow, OutEvent, FinishedRow, Released, Row,
                        TerminalStatus, TerminalType
    <2> QED BY <1>1, <1>2, <1>6, <2>1, <2>2, <2>3, <2>4, <2>5, LifecycleStep
  <1>7. CASE ~Conflicts(events[j], e) /\ ~Holds(events[j], e) /\ ~HasAuthority(w)
    <2>1. Revoke(w) /\ UNCHANGED <<dbVars, pgVars>>
      BY <1>1, <1>7 DEF Complete
    <2> QED BY <1>1, <2>1, RevokeStep
  <1> QED BY <1>4, <1>5, <1>6, <1>7

(* fail_job preserves the type invariant.                                  *)
LEMMA FailTypeInv ==
    ASSUME TypeInv, NEW w \in Workers, Fail(w)
    PROVE  TypeInv'
  <1> DEFINE j == slot[w].job
             e == [type |-> "error", question |-> 0, epoch |-> slot[w].epoch]
  <1>1. slot[w].phase \in {"write", "failing"} /\ UNCHANGED pgVars
    BY DEF Fail
  <1>2. j \in Jobs /\ slot[w] \in Slot
    BY <1>1, BusySlot
  <1>3. CASE HasAuthority(w)
    <2>1. /\ job' = [job EXCEPT ![j] = FinishedRow(job[j], "failed")]
          /\ PublishOne(j, e) /\ GoTo(w, IdleSlot) /\ UNCHANGED inputs
      BY <1>3 DEF Fail
    <2>2. job[j] \in Row /\ job[j].status = "running"
      BY <1>2, <1>3, LeaseFacts
    <2>3. e \in Event /\ e.type \in TerminalType
      BY <1>2 DEF Event, Slot, TerminalType
    <2>4. FinishedRow(job[j], "failed") \in Row
          /\ FinishedRow(job[j], "failed").status \in TerminalStatus
      <3>1. "failed" \in TerminalStatus
        BY DEF TerminalStatus
      <3>2. FinishedRow(job[j], "failed") \in Row
        BY <2>2, <3>1, RowOpsType
      <3>3. FinishedRow(job[j], "failed").status = "failed"
        BY <2>2 DEF FinishedRow, Released, Row
      <3> QED BY <3>1, <3>2, <3>3
    <2>5. ~Conflicts(events[j], e)
      <3>1. events[j] \in Seq(Event)
        BY <1>2 DEF TypeInv, TypeOK
      <3>2. \A i \in DOMAIN events[j] : events[j][i].type \notin TerminalType
        BY <1>2, <2>2 DEF TypeInv, LogIsOpen, TerminalStatus
      <3> QED BY <2>3, <3>1, <3>2, OpenLogNoConflict
    <2> HIDE DEF e
    <2> QED BY <1>1, <1>2, <2>1, <2>2, <2>3, <2>4, <2>5, LifecycleStep
  <1>4. CASE ~HasAuthority(w)
    <2>1. Revoke(w) /\ UNCHANGED <<dbVars, pgVars>>
      BY <1>1, <1>4 DEF Fail
    <2> QED BY <1>1, <2>1, RevokeStep
  <1> QED BY <1>3, <1>4

(* Releasing the lease of a canceled job preserves the type invariant.     *)
LEMMA ReleaseTypeInv ==
    ASSUME TypeInv, NEW w \in Workers, Release(w)
    PROVE  TypeInv'
  <1> DEFINE j == slot[w].job
  <1>1. /\ slot[w].phase = "abort" /\ slot' = [slot EXCEPT ![w] = IdleSlot]
        /\ UNCHANGED <<inputs, events, chat, pgVars>>
    BY DEF Release, GoTo
  <1>2. j \in Jobs /\ job[j] \in Row
    BY <1>1, BusySlot DEF TypeInv, TypeOK
  <1>3. IdleSlot.job = None
    BY DEF IdleSlot
  <1>4. slot' \in [Workers -> Slot] /\ SlotsHaveJobs'
    BY <1>1, <1>3, IdleSlotFine, SlotsStep
  <1>5. Released(job[j], "worker_confirmed") \in Row
    BY <1>2, RowOpsType
  <1>6. Released(job[j], "worker_confirmed").status = job[j].status
    BY <1>2 DEF Released, Row
  <1>7. job' \in [Jobs -> Row] /\ \A k \in Jobs : job'[k].status = job[k].status
    BY <1>2, <1>5, <1>6 DEF Release, TypeInv, TypeOK
  <1>8. TypeOK'
    BY <1>1, <1>4, <1>7 DEF TypeInv, TypeOK, pgVars
  <1>9. JobsHaveInputs' /\ LogIsOpen'
    BY <1>1, <1>7 DEF TypeInv, JobsHaveInputs, LogIsOpen
  <1> QED BY <1>4, <1>8, <1>9 DEF TypeInv

(* A row whose heartbeat alone changes.                                    *)
LEMMA BeatStep ==
    ASSUME TypeInv, NEW j \in Jobs, NEW h \in {"null", "fresh", "stale", "expired"},
           job' = [job EXCEPT ![j].heartbeat = h],
           UNCHANGED <<inputs, events, chat, pgVars>>,
           slot' \in [Workers -> Slot], SlotsHaveJobs'
    PROVE  TypeInv'
  <1>1. job[j] \in Row
    BY DEF TypeInv, TypeOK
  <1>2. [job[j] EXCEPT !.heartbeat = h] \in Row
        /\ [job[j] EXCEPT !.heartbeat = h].status = job[j].status
    BY <1>1 DEF Row
  <1>3. job' \in [Jobs -> Row] /\ \A k \in Jobs : job'[k].status = job[k].status
    BY <1>2 DEF TypeInv, TypeOK
  <1>4. TypeOK'
    BY <1>3 DEF TypeInv, TypeOK, pgVars
  <1>5. JobsHaveInputs' /\ LogIsOpen'
    BY <1>3 DEF TypeInv, JobsHaveInputs, LogIsOpen
  <1> QED BY <1>4, <1>5 DEF TypeInv

(* A heartbeat, answered or refused, preserves the type invariant.         *)
LEMMA HeartbeatTypeInv ==
    ASSUME TypeInv, NEW w \in Workers, Heartbeat(w)
    PROVE  TypeInv'
  <1> DEFINE j == slot[w].job
             s == [slot[w] EXCEPT !.revoked = TRUE, !.beating = FALSE]
  <1>1. slot[w].beating /\ UNCHANGED <<inputs, events, chat, pgVars>>
    BY DEF Heartbeat
  <1>2. slot[w] \in Slot /\ j \in Jobs
    BY <1>1 DEF TypeInv, TypeOK, SlotsHaveJobs
  <1>3. SlotFine(s) /\ s.job = slot[w].job
    BY <1>2 DEF SlotFine, Slot, Busy
  <1>4. slot' = slot \/ slot' = [slot EXCEPT ![w] = s]
    BY DEF Heartbeat, GoTo
  <1> HIDE DEF s
  <1>5. slot' \in [Workers -> Slot] /\ SlotsHaveJobs'
    <2>1. CASE slot' = slot
      BY <1>1, <2>1 DEF TypeInv, TypeOK, SlotsHaveJobs
    <2>2. CASE slot' = [slot EXCEPT ![w] = s]
      BY <1>1, <1>3, <2>2, SlotsStep
    <2> QED BY <1>4, <2>1, <2>2
  <1>6. CASE job' = [job EXCEPT ![j].heartbeat = "fresh"]
    BY <1>1, <1>2, <1>5, <1>6, BeatStep
  <1>7. CASE job' = job
    <2>1. TypeOK'
      BY <1>1, <1>5, <1>7 DEF TypeInv, TypeOK, pgVars
    <2>2. JobsHaveInputs' /\ LogIsOpen'
      BY <1>1, <1>7 DEF TypeInv, JobsHaveInputs, LogIsOpen
    <2> QED BY <1>5, <2>1, <2>2 DEF TypeInv
  <1> QED BY <1>6, <1>7 DEF Heartbeat

(* A heartbeat that grows old preserves the type invariant.                *)
LEMMA AgeTypeInv ==
    ASSUME TypeInv, NEW j \in Jobs, Age(j)
    PROVE  TypeInv'
  <1>1. UNCHANGED <<inputs, events, chat, pgVars, slot>>
    BY DEF Age
  <1>2. slot' \in [Workers -> Slot] /\ SlotsHaveJobs'
    BY <1>1 DEF TypeInv, TypeOK, SlotsHaveJobs
  <1>3. CASE job' = [job EXCEPT ![j].heartbeat = "stale"]
    BY <1>1, <1>2, <1>3, BeatStep
  <1>4. CASE job' = [job EXCEPT ![j].heartbeat = "expired"]
    BY <1>1, <1>2, <1>4, BeatStep
  <1> QED BY <1>3, <1>4 DEF Age

-----------------------------------------------------------------------------
(* claim_next_job *)

(* Reaping changes canceled rows only, and makes no row stale.             *)
LEMMA ReapedFacts ==
    ASSUME NEW r \in Row
    PROVE  /\ Reaped(r).status = r.status
           /\ r.status # "canceled" => Reaped(r) = r
           /\ Stale(Reaped(r)) => Stale(r)
  BY DEF Reaped, Released, Row, Stale

(* What a claim may choose: it gives up or recovers stale running jobs, it *)
(* takes a queued or stale one, and it repairs stale ones.                 *)
LEMMA ChoiceFacts ==
    ASSUME TypeInv,
           NEW c \in ClaimChoices([j \in Jobs |-> Reaped(job[j])])
    PROVE  /\ c.x \in Jobs \cup {None} /\ c.y \in Jobs \cup {None}
           /\ c.x # None => Stale(job[c.x])
           /\ c.y # None => job[c.y].status = "queued" \/ Stale(job[c.y])
           /\ ToRepair(c) \subseteq Jobs
           /\ \A j \in ToRepair(c) : Stale(job[j])
  <1> DEFINE rows == [j \in Jobs |-> Reaped(job[j])]
  <1>1. \A j \in Jobs : job[j] \in Row
    BY DEF TypeInv, TypeOK
  <1>2. \A j \in Jobs : /\ rows[j].status = job[j].status
                        /\ Stale(rows[j]) => Stale(job[j])
    BY <1>1, ReapedFacts
  <1>3. /\ c.x \in Jobs \cup {None} /\ c.y \in Jobs \cup {None}
        /\ c.x \in OneOf(Exhausted(rows)) /\ c.y \in OneOf(Claimable(rows))
    BY DEF ClaimChoices
  <1>4. c.x # None => c.x \in Exhausted(rows)
    BY <1>3 DEF OneOf
  <1>5. c.y # None => c.y \in Claimable(rows)
    BY <1>3 DEF OneOf
  <1>6. c.x # None => Stale(job[c.x])
    BY <1>2, <1>4 DEF Exhausted
  <1>7. c.y # None => job[c.y].status = "queued" \/ Stale(job[c.y])
    BY <1>2, <1>5 DEF Claimable
  <1>8. ToRepair(c) \subseteq Jobs
    BY <1>3 DEF ToRepair, Inspected
  <1>9. ASSUME NEW j \in ToRepair(c) PROVE Stale(job[j])
    BY <1>6, <1>7, <1>9 DEF ToRepair, Inspected
  <1> QED BY <1>3, <1>6, <1>7, <1>8, <1>9

(* claim_next_job, with its reaping, its repairs and its choice,           *)
(* preserves the type invariant.                                           *)
LEMMA ClaimTypeInv ==
    ASSUME TypeInv, NEW w \in Workers, Claim(w)
    PROVE  TypeInv'
  <1> DEFINE rows == [j \in Jobs |-> Reaped(job[j])]
  <1>1. PICK c \in ClaimChoices(rows) :
              /\ \A j \in ToRepair(c) : ~Conflicts(events[j], RepairEvent(j))
              /\ job' = [j \in Jobs |-> ClaimRow(c, w, j, rows[j])]
              /\ Publish(ClaimEvents(c))
              /\ slot' = [slot EXCEPT ![w] = ClaimedSlot(c)]
    BY DEF Claim
  <1>2. UNCHANGED <<inputs, pgVars>>
    BY DEF Claim
  <1>3. \A j \in Jobs : /\ job[j] \in Row /\ ckpt[j] \in Checkpoint
                        /\ events[j] \in Seq(Event)
    BY DEF TypeInv, TypeOK
  <1>4. /\ c.x \in Jobs \cup {None} /\ c.y \in Jobs \cup {None}
        /\ c.x # None => Stale(job[c.x])
        /\ c.y # None => job[c.y].status = "queued" \/ Stale(job[c.y])
        /\ ToRepair(c) \subseteq Jobs
        /\ \A j \in ToRepair(c) : Stale(job[j])
    BY ChoiceFacts
  <1>5. ASSUME NEW j \in Jobs
        PROVE  /\ job'[j] \in Row
               /\ job'[j].status \in TerminalStatus \/ job'[j].status = job[j].status
                  \/ job[j].status \in {"queued", "running"}
               /\ j \in {c.x} \ ToRepair(c) => job'[j].status = "failed"
    <2>1. rows[j] \in Row /\ rows[j].status = job[j].status
      BY <1>3, RowOpsType, ReapedFacts
    <2>2. job'[j] = ClaimRow(c, w, j, rows[j])
      BY <1>1
    <2> DEFINE r == rows[j]
    <2> HIDE DEF rows
    <2>3. /\ WaitingRow(r, ckpt[j].asked) \in Row
          /\ FinishedRow(r, "failed") \in Row
          /\ LeasedRow(r, w) \in Row
      BY <1>3, <2>1, RowOpsType DEF Checkpoint, TerminalStatus
    <2>4. FinishedRow(r, "failed").status = "failed"
      BY <2>1 DEF FinishedRow, Released, Row
    <2> HIDE DEF r
    <2>5. CASE j \in ToRepair(c)
      BY <1>4, <2>2, <2>3, <2>5 DEF ClaimRow, Stale, r
    <2>6. CASE j \notin ToRepair(c) /\ j = c.x
      BY <2>2, <2>3, <2>4, <2>6 DEF ClaimRow, TerminalStatus, r
    <2>7. CASE j \notin ToRepair(c) /\ j # c.x /\ j = c.y
      BY <1>4, <2>2, <2>3, <2>7, NoneAssumption DEF ClaimRow, Stale, r
    <2>8. CASE j \notin ToRepair(c) /\ j # c.x /\ j # c.y
      BY <2>1, <2>2, <2>8 DEF ClaimRow, r
    <2> QED BY <2>5, <2>6, <2>7, <2>8
  <1>6. /\ DOMAIN ClaimEvents(c) = ToRepair(c) \cup ({c.x} \ {None})
        /\ \A j \in DOMAIN ClaimEvents(c) : ClaimEvents(c)[j] =
                 IF ckpt[j].pending THEN RepairEvent(j) ELSE ExhaustedEvent
    BY DEF ClaimEvents
  <1>7. DOMAIN ClaimEvents(c) \subseteq Jobs
    BY <1>4, <1>6
  <1>8. ASSUME NEW j \in DOMAIN ClaimEvents(c)
        PROVE  /\ ClaimEvents(c)[j] \in Event
               /\ ~Conflicts(events[j], ClaimEvents(c)[j])
               /\ job'[j].status \in TerminalStatus
                  \/ ClaimEvents(c)[j].type \notin TerminalType
    <2>1. j \in Jobs /\ Stale(job[j])
      BY <1>4, <1>6, <1>7
    <2>2. CASE ckpt[j].pending
      <3>1. j \in ToRepair(c)
        BY <1>6, <2>1, <2>2, NoneAssumption DEF ToRepair, Inspected
      <3>2. ClaimEvents(c)[j] = RepairEvent(j)
        BY <1>6, <2>2
      <3>3. RepairEvent(j) \in Event /\ RepairEvent(j).type \notin TerminalType
        BY <1>3, <2>1 DEF RepairEvent, Event, Checkpoint, TerminalType
      <3> QED BY <1>1, <3>1, <3>2, <3>3
    <2>3. CASE ~ckpt[j].pending
      <3>1. ClaimEvents(c)[j] = ExhaustedEvent /\ j \notin ToRepair(c)
        BY <1>6, <2>3 DEF ToRepair
      <3>2. ExhaustedEvent \in Event /\ ExhaustedEvent.type \in TerminalType
        BY DEF ExhaustedEvent, Event, TerminalType
      <3>3. \A i \in DOMAIN events[j] : events[j][i].type \notin TerminalType
        BY <2>1 DEF TypeInv, LogIsOpen, Stale, TerminalStatus
      <3>4. ~Conflicts(events[j], ExhaustedEvent)
        BY <1>3, <2>1, <3>2, <3>3, OpenLogNoConflict
      <3>5. job'[j].status = "failed"
        BY <1>5, <1>6, <2>1, <3>1
      <3> QED BY <3>1, <3>2, <3>4, <3>5 DEF TerminalStatus
    <2> QED BY <2>2, <2>3
  <1>9. /\ events' \in [Jobs -> Seq(Event)] /\ chat' \in [Jobs -> Seq(Message)]
        /\ \A j \in Jobs : events'[j] = IF j \in DOMAIN ClaimEvents(c)
                                        THEN WithEvent(events[j], ClaimEvents(c)[j])
                                        ELSE events[j]
    BY <1>1, <1>7, <1>8, PublishType DEF TypeInv, TypeOK
  <1>10. SlotFine(ClaimedSlot(c))
         /\ (ClaimedSlot(c).job \in Jobs => inputs[ClaimedSlot(c).job] # << >>)
    <2>1. CASE c.y = None \/ c.y \in ToRepair(c)
      <3>1. ClaimedSlot(c) = IdleSlot /\ IdleSlot.job = None
        BY <2>1 DEF ClaimedSlot, IdleSlot
      <3> QED BY <3>1, IdleSlotFine, NoneAssumption
    <2>2. CASE ~(c.y = None \/ c.y \in ToRepair(c))
      <3>1. c.y \in Jobs /\ job[c.y].status # "absent"
        BY <1>4, <2>2 DEF Stale
      <3>2. job[c.y].epoch + 1 \in Nat
        BY <1>3, <3>1 DEF Row
      <3>3. ClaimKind(job[c.y]) \in {"initial", "user_resume", "stale_recovery"}
        BY DEF ClaimKind
      <3> DEFINE n == job[c.y].epoch + 1
                 kind == ClaimKind(job[c.y])
      <3>4. ClaimedSlot(c) = [IdleSlot EXCEPT !.phase = "claimed", !.job = c.y,
                                 !.epoch = n, !.kind = kind, !.beating = TRUE]
        BY <2>2 DEF ClaimedSlot
      <3> HIDE DEF n, kind
      <3> DEFINE s == [IdleSlot EXCEPT !.phase = "claimed", !.job = c.y,
                                 !.epoch = n, !.kind = kind, !.beating = TRUE]
      <3>n. n \in Nat /\ kind \in {"initial", "user_resume", "stale_recovery"}
        BY <3>2, <3>3 DEF n, kind
      <3>i. IdleSlot \in Slot
        BY IdleSlotFine DEF SlotFine
      <3>t. s \in Slot /\ s.job = c.y
        BY <3>1, <3>n, <3>i DEF Slot
      <3>5. SlotFine(s) /\ s.job = c.y
        BY <3>1, <3>t DEF SlotFine
      <3> QED BY <3>1, <3>4, <3>5 DEF TypeInv, JobsHaveInputs
    <2> QED BY <2>1, <2>2
  <1>11. slot' \in [Workers -> Slot] /\ SlotsHaveJobs'
    BY <1>1, <1>2, <1>10, SlotsStepTo
  <1>12. job' \in [Jobs -> Row]
    BY <1>1, <1>5
  <1>13. TypeOK'
    BY <1>2, <1>9, <1>11, <1>12 DEF TypeInv, TypeOK, pgVars
  <1>14. JobsHaveInputs'
    <2> SUFFICES ASSUME NEW j \in Jobs, job'[j].status # "absent"
                 PROVE  inputs[j] # << >>
      BY <1>2 DEF JobsHaveInputs
    <2>1. job[j].status # "absent"
      <3>1. rows[j].status = job[j].status /\ rows[j] \in Row
        BY <1>3, RowOpsType, ReapedFacts
      <3>2. CASE j \in ToRepair(c) \cup {c.x, c.y}
        BY <1>4, <3>2, NoneAssumption DEF Stale
      <3>3. CASE j \notin ToRepair(c) \cup {c.x, c.y}
        BY <1>1, <3>1, <3>3 DEF ClaimRow
      <3> QED BY <3>2, <3>3
    <2> QED BY <2>1 DEF TypeInv, JobsHaveInputs
  <1>15. LogIsOpen'
    <2> SUFFICES ASSUME NEW j \in Jobs, job'[j].status \notin TerminalStatus,
                        NEW i \in DOMAIN events'[j]
                 PROVE  events'[j][i].type \notin TerminalType
      BY DEF LogIsOpen
    <2>1. job[j].status \notin TerminalStatus
      BY <1>5 DEF TerminalStatus
    <2>2. \A n \in DOMAIN events[j] : events[j][n].type \notin TerminalType
      BY <2>1 DEF TypeInv, LogIsOpen
    <2>3. CASE events'[j] = events[j]
      BY <2>2, <2>3
    <2>4. CASE events'[j] # events[j]
      <3>1. j \in DOMAIN ClaimEvents(c)
            /\ events'[j] = WithEvent(events[j], ClaimEvents(c)[j])
        BY <1>9, <2>4
      <3>2. events'[j] = Append(events[j], ClaimEvents(c)[j])
        BY <2>4, <3>1 DEF WithEvent
      <3>3. ClaimEvents(c)[j].type \notin TerminalType
        BY <1>8, <3>1
      <3>4. /\ i \in DOMAIN events[j] \/ events'[j][i] = ClaimEvents(c)[j]
            /\ i \in DOMAIN events[j] => events'[j][i] = events[j][i]
        BY <1>3, <3>2
      <3> QED BY <2>2, <3>3, <3>4
    <2> QED BY <2>3, <2>4
  <1> QED BY <1>11, <1>13, <1>14, <1>15 DEF TypeInv

-----------------------------------------------------------------------------
(* Every step of job_service and of the worker preserves the type          *)
(* invariant.                                                              *)
LEMMA NextTypeInv == TypeInv /\ [Next]_vars => TypeInv'
  <1> SUFFICES ASSUME TypeInv, [Next]_vars PROVE TypeInv'
    OBVIOUS
  <1>1. ASSUME NEW j \in Jobs, Create(j) \/ Cancel(j) \/ Age(j)
        PROVE  TypeInv'
    BY <1>1, CreateTypeInv, CancelTypeInv, AgeTypeInv
  <1>2. ASSUME NEW j \in Jobs, NEW q \in 1..MaxQuestions, Resume(j, q)
        PROVE  TypeInv'
    BY <1>2, ResumeTypeInv
  <1>3. ASSUME NEW w \in Workers, WorkerStep(w)
        PROVE  TypeInv'
    BY <1>3, LocalTypeInv, NodeCommitTypeInv, WriteProgressTypeInv,
       CompleteTypeInv, FailTypeInv, ReleaseTypeInv DEF WorkerStep, OutTypes
  <1>4. ASSUME NEW w \in Workers,
               \/ Claim(w) \/ ClaimRaises(w) \/ Restart(w)
               \/ Heartbeat(w) \/ Abandon(w) \/ Crash(w)
        PROVE  TypeInv'
    BY <1>4, ClaimTypeInv, LocalTypeInv, HeartbeatTypeInv
  <1>5. CASE PgToggle
    <2>1. TypeOK'
      BY <1>5 DEF PgToggle, TypeInv, TypeOK, dbVars
    <2> QED BY <1>5, <2>1 DEF PgToggle, TypeInv, SlotsHaveJobs, JobsHaveInputs,
                              LogIsOpen, dbVars
  <1>6. CASE UNCHANGED vars
    <2>1. TypeOK'
      BY <1>6 DEF TypeInv, TypeOK, vars, dbVars, pgVars
    <2> QED BY <1>6, <2>1 DEF TypeInv, SlotsHaveJobs, JobsHaveInputs,
                              LogIsOpen, vars, dbVars, pgVars
  <1> QED BY <1>1, <1>2, <1>3, <1>4, <1>5, <1>6 DEF Next

(* Every reachable state satisfies TypeInv: the types, a job for each      *)
(* working slot, an input for each job, and an open log for each           *)
(* unfinished job of job_service.                                          *)
THEOREM TypeInvariant == Spec => []TypeInv
  BY InitTypeInv, NextTypeInv, PTL DEF Spec

(* Every reachable state is well typed: rows, ledgers, logs, checkpoints   *)
(* and slots of job_service and of the worker never leave their types.     *)
THEOREM TypeCorrect == Spec => []TypeOK
  <1>1. TypeInv => TypeOK
    BY DEF TypeInv
  <1> QED BY <1>1, TypeInvariant, PTL

-----------------------------------------------------------------------------
(* A question that is pending or about to be published has a number.       *)

SlotAsks(s) == /\ s.asked <= MaxQuestions
               /\ s.out = "interrupt" => s.asked > 0
               /\ s.phase \in {"claimed", "loaded"} => s.out = "none"

AskInv ==
    /\ \A j \in Jobs : /\ ckpt[j].asked <= MaxQuestions
                       /\ ckpt[j].pending => ckpt[j].asked > 0
    /\ \A w \in Workers : SlotAsks(slot[w])

(* At first no question is pending and no slot holds one.                  *)
LEMMA InitAskInv == Init => AskInv
  BY BoundsAssumption DEF Init, AskInv, SlotAsks, IdleSlot

(* Giving a slot a value with legal questions, the checkpoints unchanged,  *)
(* preserves AskInv.                                                       *)
LEMMA SlotAsksStep ==
    ASSUME TypeInv, AskInv, NEW w \in Workers, NEW s, SlotAsks(s),
           slot' = [slot EXCEPT ![w] = s], UNCHANGED ckpt
    PROVE  AskInv'
  BY DEF TypeInv, TypeOK, AskInv, SlotAsks

(* A slot that loses its lease keeps its questions legal.                  *)
LEMMA RevokeAsks ==
    ASSUME TypeInv, AskInv, NEW w \in Workers, Revoke(w), UNCHANGED ckpt
    PROVE  AskInv'
  <1>1. slot[w] \in Slot /\ SlotAsks(slot[w])
    BY DEF TypeInv, TypeOK, AskInv
  <1>2. SlotAsks([slot[w] EXCEPT !.phase = "abort", !.revoked = TRUE])
    BY <1>1 DEF SlotAsks, Slot
  <1> QED BY <1>2, SlotAsksStep DEF Revoke, GoTo

(* An idle slot holds no question.                                         *)
LEMMA IdleAsks == SlotAsks(IdleSlot)
  BY BoundsAssumption DEF SlotAsks, IdleSlot

(* Every step of a worker on its job, node commits included, preserves     *)
(* AskInv.                                                                 *)
LEMMA WorkerStepAskInv ==
    ASSUME TypeInv, AskInv, NEW w \in Workers, WorkerStep(w)
    PROVE  AskInv'
  <1>0. slot[w] \in Slot /\ SlotAsks(slot[w])
    BY DEF TypeInv, TypeOK, AskInv
  <1>1. CASE Start(w)
    <2> DEFINE q == inputs[slot[w].job][Len(inputs[slot[w].job])]
               s == [slot[w] EXCEPT !.phase = "loaded", !.input = q]
    <2>1. SlotAsks(s)
      BY <1>0, <1>1 DEF Start, SlotAsks, Slot
    <2>2. Revoke(w) \/ slot' = [slot EXCEPT ![w] = s]
      BY <1>1 DEF Start, GoTo
    <2>3. UNCHANGED ckpt
      BY <1>1 DEF Start, pgVars
    <2> HIDE DEF s
    <2> QED BY <2>1, <2>2, <2>3, RevokeAsks, SlotAsksStep
  <1>2. CASE Inspect(w)
    <2> DEFINE a == ckpt[slot[w].job].asked
               ready == [slot[w] EXCEPT !.phase = "ready", !.asked = a]
               failing == [slot[w] EXCEPT !.phase = "failing"]
    <2>1. slot[w].phase = "loaded" /\ slot[w].out = "none"
      BY <1>0, <1>2 DEF Inspect, SlotAsks
    <2>2. a <= MaxQuestions
      BY <2>1, BusySlot DEF AskInv
    <2> HIDE DEF a
    <2>3. SlotAsks(ready) /\ SlotAsks(failing)
      BY <1>0, <2>1, <2>2 DEF SlotAsks, Slot
    <2>4. \/ Revoke(w)
          \/ slot' = [slot EXCEPT ![w] = ready]
          \/ slot' = [slot EXCEPT ![w] = failing]
      BY <1>2 DEF Inspect, GoTo, a
    <2>5. UNCHANGED ckpt
      BY <1>2 DEF Inspect, pgVars
    <2> HIDE DEF ready, failing
    <2> QED BY <2>3, <2>4, <2>5, RevokeAsks, SlotAsksStep
  <1>3. CASE NodeStart(w)
    <2> DEFINE s == [slot[w] EXCEPT !.phase = "node"]
    <2>1. SlotAsks(s)
      BY <1>0 DEF SlotAsks, Slot
    <2>2. Revoke(w) \/ slot' = [slot EXCEPT ![w] = s]
      BY <1>3 DEF NodeStart, GoTo
    <2>3. UNCHANGED ckpt
      BY <1>3 DEF NodeStart, pgVars
    <2> HIDE DEF s
    <2> QED BY <2>1, <2>2, <2>3, RevokeAsks, SlotAsksStep
  <1>4. ASSUME NEW out \in OutTypes, NodeCommit(w, out) PROVE AskInv'
    <2> DEFINE asked == IF out = "interrupt" THEN slot[w].asked + 1 ELSE slot[w].asked
               s == [slot[w] EXCEPT !.phase = "emit", !.out = out, !.asked = asked]
               c == [saved |-> TRUE, asked |-> asked, pending |-> out = "interrupt"]
    <2>1. asked <= MaxQuestions /\ slot' = [slot EXCEPT ![w] = s]
      BY <1>4 DEF NodeCommit, GoTo
    <2>2. ckpt' = IF out = "error" THEN ckpt ELSE [ckpt EXCEPT ![slot[w].job] = c]
      BY <1>4 DEF NodeCommit
    <2>3. out = "interrupt" => asked > 0
      BY <1>0 DEF Slot
    <2> HIDE DEF asked
    <2>4. SlotAsks(s)
      BY <1>0, <2>1, <2>3 DEF SlotAsks, Slot
    <2>5. c.asked <= MaxQuestions /\ (c.pending => c.asked > 0)
      BY <2>1, <2>3
    <2> HIDE DEF s, c
    <2>6. \A v \in Workers : SlotAsks(slot'[v])
      BY <2>1, <2>4 DEF TypeInv, TypeOK, AskInv
    <2>7. \A j \in Jobs : /\ ckpt'[j].asked <= MaxQuestions
                          /\ ckpt'[j].pending => ckpt'[j].asked > 0
      BY <2>2, <2>5 DEF TypeInv, TypeOK, AskInv
    <2> QED BY <2>6, <2>7 DEF AskInv, SlotAsks
  <1>5. CASE Emit(w)
    <2> DEFINE s == [Outcome(w) EXCEPT !.phase = "write"]
               c == ckpt[slot[w].job]
    <2>1. slot[w].phase = "emit" /\ UNCHANGED ckpt
      BY <1>5 DEF Emit, pgVars
    <2>2. /\ c.asked <= MaxQuestions /\ (c.pending => c.asked > 0)
          /\ c.asked \in Nat
      BY <2>1, BusySlot DEF AskInv, TypeInv, TypeOK, Checkpoint
    <2>3. Outcome(w) \in Slot /\ SlotAsks([Outcome(w) EXCEPT !.phase = "write"])
      BY <1>0, <2>1, <2>2 DEF Outcome, SlotAsks, Slot
    <2>4. Revoke(w) \/ slot' = [slot EXCEPT ![w] = s]
      BY <1>5 DEF Emit, GoTo
    <2> HIDE DEF c
    <2> QED BY <2>1, <2>3, <2>4, RevokeAsks, SlotAsksStep
  <1>6. CASE WriteProgress(w)
    <2> DEFINE s == [slot[w] EXCEPT !.phase = "ready", !.out = "none"]
    <2>1. SlotAsks(s)
      BY <1>0 DEF SlotAsks, Slot
    <2>2. Revoke(w) \/ slot' = [slot EXCEPT ![w] = s]
      BY <1>6 DEF WriteProgress, GoTo
    <2>3. UNCHANGED ckpt
      BY <1>6 DEF WriteProgress, pgVars
    <2> HIDE DEF s
    <2> QED BY <2>1, <2>2, <2>3, RevokeAsks, SlotAsksStep
  <1>7. CASE Complete(w) \/ Fail(w) \/ Release(w)
    <2> DEFINE s == [slot[w] EXCEPT !.phase = "failing"]
    <2>1. SlotAsks(s)
      BY <1>0 DEF SlotAsks, Slot
    <2>2. \/ Revoke(w)
          \/ slot' = [slot EXCEPT ![w] = s]
          \/ slot' = [slot EXCEPT ![w] = IdleSlot]
      BY <1>7 DEF Complete, Fail, Release, GoTo
    <2>3. UNCHANGED ckpt
      BY <1>7 DEF Complete, Fail, Release, pgVars
    <2> HIDE DEF s
    <2> QED BY <2>1, <2>2, <2>3, IdleAsks, RevokeAsks, SlotAsksStep
  <1> QED BY <1>1, <1>2, <1>3, <1>4, <1>5, <1>6, <1>7 DEF WorkerStep, OutTypes

(* Every step preserves AskInv.                                            *)
LEMMA NextAskInv == TypeInv /\ AskInv /\ [Next]_vars => AskInv'
  <1> SUFFICES ASSUME TypeInv, AskInv, [Next]_vars PROVE AskInv'
    OBVIOUS
  <1>1. CASE UNCHANGED <<ckpt, slot>>
    BY <1>1 DEF AskInv, SlotAsks
  <1>2. ASSUME NEW w \in Workers, Claim(w)
        PROVE  AskInv'
    <2>1. PICK c : slot' = [slot EXCEPT ![w] = ClaimedSlot(c)]
      BY <1>2 DEF Claim
    <2>2. SlotAsks(ClaimedSlot(c))
      BY BoundsAssumption DEF ClaimedSlot, SlotAsks, IdleSlot
    <2>3. UNCHANGED ckpt
      BY <1>2 DEF Claim, pgVars
    <2> QED BY <2>1, <2>2, <2>3, SlotAsksStep
  <1>3. ASSUME NEW w \in Workers,
               ClaimRaises(w) \/ Restart(w) \/ Heartbeat(w) \/ Abandon(w) \/ Crash(w)
        PROVE  AskInv'
    <2> DEFINE dead == [IdleSlot EXCEPT !.phase = "dead"]
               lost == [slot[w] EXCEPT !.revoked = TRUE, !.beating = FALSE]
    <2>1. SlotAsks(dead)
      BY BoundsAssumption DEF SlotAsks, IdleSlot
    <2>2. SlotAsks(lost)
      BY DEF TypeInv, TypeOK, AskInv, SlotAsks, Slot
    <2>3. \/ Revoke(w) \/ UNCHANGED slot
          \/ slot' = [slot EXCEPT ![w] = IdleSlot]
          \/ slot' = [slot EXCEPT ![w] = dead]
          \/ slot' = [slot EXCEPT ![w] = lost]
      BY <1>3 DEF ClaimRaises, Restart, Heartbeat, Abandon, Crash, GoTo
    <2>4. UNCHANGED ckpt
      BY <1>3 DEF ClaimRaises, Restart, Heartbeat, Abandon, Crash, pgVars
    <2> HIDE DEF dead, lost
    <2> QED BY <1>1, <2>1, <2>2, <2>3, <2>4, IdleAsks, RevokeAsks, SlotAsksStep
  <1>4. ASSUME NEW j \in Jobs,
               \/ Create(j) \/ Cancel(j) \/ Age(j)
               \/ \E q \in 1..MaxQuestions : Resume(j, q)
        PROVE  AskInv'
    BY <1>1, <1>4 DEF Create, Cancel, Age, Resume, pgVars
  <1>5. CASE PgToggle
    BY <1>1, <1>5 DEF PgToggle
  <1>6. CASE UNCHANGED vars
    BY <1>1, <1>6 DEF vars, pgVars
  <1> QED BY <1>2, <1>3, <1>4, <1>5, <1>6, WorkerStepAskInv DEF Next

-----------------------------------------------------------------------------
(* The moves of one job *)

Rests(j) ==
    /\ job'[j].status = job[j].status
    /\ job'[j].epoch = job[j].epoch
    /\ job'[j].recovery = job[j].recovery
    /\ job'[j].resumes = job[j].resumes
    /\ job'[j].question = job[j].question
    /\ RowOK(job[j]) => RowOK(job'[j])
    /\ events'[j] = events[j] /\ inputs'[j] = inputs[j]

Submitted(j) ==
    /\ job[j].status = "absent" /\ SessionFree(j)
    /\ job'[j] = [job[j] EXCEPT !.status = "queued", !.active = TRUE]
    /\ events'[j] = events[j] /\ inputs'[j] = <<0>>
    /\ \A k \in Jobs : k # j => job'[k] = job[k]

Answered(j) ==
    /\ job[j].status = "waiting_input"
    /\ job'[j] = [job[j] EXCEPT !.status = "queued", !.question = 0,
                                !.resumes = @ + 1]
    /\ events'[j] = events[j]
    /\ inputs'[j] = Append(inputs[j], job[j].question)

CanceledBy(j) ==
    /\ job[j].status \in ActiveStatus
    /\ job'[j] = CanceledRow(job[j])
    /\ events'[j] = Append(events[j], CanceledEvent)
    /\ inputs'[j] = inputs[j]

Leased(j) ==
    /\ \/ job[j].status = "queued"
       \/ Stale(job[j]) /\ job[j].recovery < MaxAttempts
    /\ \E w \in Workers : job'[j] = LeasedRow(job[j], w)
    /\ events'[j] = events[j] /\ inputs'[j] = inputs[j]

Reported(j) ==
    /\ job[j].status = "running" /\ job'[j] = job[j]
    /\ events'[j] = Append(events[j], [type |-> "progress", question |-> 0,
                                       epoch |-> job[j].epoch])
    /\ inputs'[j] = inputs[j]

Interrupt(q, n) == [type |-> "interrupt", question |-> q, epoch |-> n]

Asked(j) ==
    /\ job[j].status = "running"
    /\ \E q \in 1..MaxQuestions, n \in {0, job[j].epoch} :
          /\ ~Conflicts(events[j], Interrupt(q, n))
          /\ job'[j] = WaitingRow(job[j], q)
          /\ events'[j] = WithEvent(events[j], Interrupt(q, n))
    /\ inputs'[j] = inputs[j]

Finished(j) ==
    /\ job[j].status = "running"
    /\ \E type \in {"final_result", "error"}, n \in {0, job[j].epoch} :
          /\ job'[j] = FinishedRow(job[j], StatusOf(type))
          /\ events'[j] = Append(events[j], [type |-> type, question |-> 0,
                                             epoch |-> n])
    /\ inputs'[j] = inputs[j]

Move(j) == \/ Rests(j) \/ Submitted(j) \/ Answered(j) \/ CanceledBy(j)
           \/ Leased(j) \/ Reported(j) \/ Asked(j) \/ Finished(j)

-----------------------------------------------------------------------------
(* Each transition of a row, from the status its guard asks for, returns   *)
(* a consistent row.                                                       *)
LEMMA RowOKOps ==
    ASSUME NEW r \in Row, RowOK(r)
    PROVE  /\ r.status \in {"queued", "running"} =>
                 \A w \in Workers : RowOK(LeasedRow(r, w))
           /\ r.status = "running" =>
                 /\ \A q \in Nat : q > 0 => RowOK(WaitingRow(r, q))
                 /\ \A st \in TerminalStatus : RowOK(FinishedRow(r, st))
           /\ r.status \in ActiveStatus => RowOK(CanceledRow(r))
           /\ r.status = "canceled" =>
                 \A rs \in {"worker_confirmed", "lease_expired"} :
                    RowOK(Released(r, rs))
           /\ RowOK(Reaped(r))
  <1>1. ASSUME NEW w \in Workers, r.status \in {"queued", "running"}
        PROVE  RowOK(LeasedRow(r, w))
    BY <1>1, NoneAssumption DEF Row, RowOK, LeasedRow, ActiveStatus
  <1>2. ASSUME r.status = "running", NEW q \in Nat, q > 0
        PROVE  RowOK(WaitingRow(r, q))
    BY <1>2 DEF Row, RowOK, WaitingRow, Released, ActiveStatus
  <1>3. ASSUME r.status = "running", NEW st \in TerminalStatus
        PROVE  RowOK(FinishedRow(r, st))
    BY <1>3 DEF Row, RowOK, FinishedRow, Released, ActiveStatus, TerminalStatus
  <1>4. ASSUME r.status \in ActiveStatus PROVE RowOK(CanceledRow(r))
    BY <1>4 DEF Row, RowOK, CanceledRow, ActiveStatus
  <1>5. ASSUME r.status = "canceled",
               NEW rs \in {"worker_confirmed", "lease_expired"}
        PROVE  RowOK(Released(r, rs))
    BY <1>5 DEF Row, RowOK, Released, ActiveStatus
  <1>6. RowOK(Reaped(r))
    BY <1>5 DEF Reaped
  <1> QED BY <1>1, <1>2, <1>3, <1>4, <1>5, <1>6

(* A job whose row, log and inputs do not change rests.                    *)
LEMMA SameRests ==
    ASSUME NEW j \in Jobs, job'[j] = job[j], events'[j] = events[j],
           inputs'[j] = inputs[j]
    PROVE  Rests(j)
  BY DEF Rests

(* When rows, logs and inputs do not change, every job rests.              *)
LEMMA UnchangedRests ==
    ASSUME UNCHANGED <<job, events, inputs>>
    PROVE  \A j \in Jobs : Rests(j)
  BY DEF Rests

(* A change of the lease columns alone.                                    *)
LEMMA LeaseColumnsRest ==
    ASSUME TypeInv, NEW j \in Jobs, NEW r \in Row,
           job' = [job EXCEPT ![j] = r], UNCHANGED <<events, inputs>>,
           r.status = job[j].status, r.epoch = job[j].epoch,
           r.recovery = job[j].recovery, r.resumes = job[j].resumes,
           r.question = job[j].question, RowOK(job[j]) => RowOK(r)
    PROVE  \A k \in Jobs : Rests(k)
  BY DEF Rests, TypeInv, TypeOK

(* create_job, cancel_job, resume_job and the ageing of a heartbeat are    *)
(* moves.                                                                  *)
LEMMA ApiMoves ==
    ASSUME TypeInv, NEW j \in Jobs,
           \/ Create(j) \/ Cancel(j) \/ Age(j)
           \/ \E q \in 1..MaxQuestions : Resume(j, q)
    PROVE  \A k \in Jobs : Move(k)
  <1>0. job[j] \in Row /\ events[j] \in Seq(Event)
    BY DEF TypeInv, TypeOK
  <1>1. CASE Create(j)
    <2>1. Submitted(j)
      BY <1>1 DEF Create, Submitted, TypeInv, TypeOK
    <2>2. \A k \in Jobs : k # j => Rests(k)
      BY <1>1, SameRests DEF Create, TypeInv, TypeOK
    <2> QED BY <2>1, <2>2 DEF Move
  <1>2. CASE Cancel(j)
    <2>1. CanceledEvent \in Event /\ ~Conflicts(events[j], CanceledEvent)
          /\ ~Holds(events[j], CanceledEvent)
      BY <1>2 DEF Cancel, CanceledEvent, Event, TerminalType, Conflicts, Holds
    <2>2. /\ events'[j] = WithEvent(events[j], CanceledEvent)
          /\ \A k \in Jobs : k # j => events'[k] = events[k]
      BY <1>2, <2>1, PublishOneType DEF Cancel, TypeInv, TypeOK
    <2>3. CanceledBy(j)
      BY <1>2, <2>1, <2>2 DEF Cancel, CanceledBy, WithEvent, TypeInv, TypeOK
    <2>4. \A k \in Jobs : k # j => Rests(k)
      BY <1>2, <2>2, SameRests DEF Cancel, TypeInv, TypeOK
    <2> QED BY <2>3, <2>4 DEF Move
  <1>3. CASE Age(j)
    <2>1. PICK h \in {"stale", "expired"} :
             /\ job' = [job EXCEPT ![j].heartbeat = h]
             /\ job[j].heartbeat # "null"
      BY <1>3 DEF Age
    <2> DEFINE r == [job[j] EXCEPT !.heartbeat = h]
    <2>2. r \in Row
      BY <1>0 DEF Row
    <2>3. /\ r.status = job[j].status /\ r.epoch = job[j].epoch
          /\ r.recovery = job[j].recovery /\ r.resumes = job[j].resumes
          /\ r.question = job[j].question
          /\ RowOK(job[j]) => RowOK(r)
      BY <1>0, <2>1 DEF Row, RowOK
    <2>4. job' = [job EXCEPT ![j] = r] /\ UNCHANGED <<events, inputs>>
      BY <1>3, <2>1 DEF Age, TypeInv, TypeOK
    <2> HIDE DEF r
    <2> QED BY <2>2, <2>3, <2>4, LeaseColumnsRest DEF Move
  <1>4. ASSUME NEW q \in 1..MaxQuestions, Resume(j, q)
        PROVE  \A k \in Jobs : Move(k)
    <2>1. Answered(j)
      BY <1>4 DEF Resume, Answered, TypeInv, TypeOK
    <2>2. \A k \in Jobs : k # j => Rests(k)
      BY <1>4, SameRests DEF Resume, TypeInv, TypeOK
    <2> QED BY <2>1, <2>2 DEF Move
  <1> QED BY <1>1, <1>2, <1>3, <1>4

(* append_job_event of a progress event is a move: it carries the epoch    *)
(* of the row.                                                             *)
LEMMA WriteProgressMoves ==
    ASSUME TypeInv, NEW w \in Workers, WriteProgress(w)
    PROVE  \A k \in Jobs : Move(k)
  <1> DEFINE j == slot[w].job
  <1>1. slot[w].phase = "write" /\ slot[w].out = "progress"
        /\ UNCHANGED <<job, inputs>>
    BY DEF WriteProgress
  <1>2. j \in Jobs /\ events[j] \in Seq(Event)
    BY <1>1, BusySlot DEF TypeInv, TypeOK
  <1>3. CASE HasAuthority(w)
    <2>1. events' = [events EXCEPT ![j] = Append(events[j], OutEvent(w))]
      BY <1>3 DEF WriteProgress
    <2>2. OutEvent(w) = [type |-> "progress", question |-> 0, epoch |-> job[j].epoch]
      BY <1>1, <1>3 DEF OutEvent, HasAuthority, Owns
    <2>3. Reported(j)
      BY <1>1, <1>2, <1>3, <2>1, <2>2 DEF Reported, HasAuthority, TypeInv, TypeOK
    <2>4. \A k \in Jobs : k # j => Rests(k)
      BY <1>1, <2>1, SameRests DEF TypeInv, TypeOK
    <2> QED BY <2>3, <2>4 DEF Move
  <1>4. CASE ~HasAuthority(w)
    BY <1>1, <1>4, UnchangedRests DEF WriteProgress, Move
  <1> QED BY <1>3, <1>4

(* complete_job is a move: with its result it finishes the job, with a     *)
(* question it asks.                                                       *)
LEMMA CompleteMoves ==
    ASSUME TypeInv, AskInv, NEW w \in Workers, Complete(w)
    PROVE  \A k \in Jobs : Move(k)
  <1> DEFINE j == slot[w].job
             e == OutEvent(w)
  <1>1. slot[w].phase = "write" /\ slot[w].out \in {"interrupt", "final_result"}
    BY DEF Complete
  <1>2. j \in Jobs /\ slot[w] \in Slot /\ events[j] \in Seq(Event)
    BY <1>1, BusySlot DEF TypeInv, TypeOK
  <1>3. CASE UNCHANGED dbVars
    BY <1>3, UnchangedRests DEF dbVars, Move
  <1>4. CASE ~Conflicts(events[j], e) /\ ~Holds(events[j], e) /\ HasAuthority(w)
    <2>1. /\ job' = [job EXCEPT ![j] = OutRow(w, job[j])]
          /\ PublishOne(j, e) /\ UNCHANGED inputs
      BY <1>4 DEF Complete
    <2>2. e \in Event
      BY <1>1, OutEventType DEF OutTypes
    <2>3. /\ events'[j] = WithEvent(events[j], e)
          /\ \A k \in Jobs : k # j => events'[k] = events[k]
      BY <1>2, <1>4, <2>1, <2>2, PublishOneType DEF TypeInv, TypeOK
    <2>4. job'[j] = OutRow(w, job[j]) /\ inputs'[j] = inputs[j]
      BY <1>2, <2>1 DEF TypeInv, TypeOK
    <2>5. job[j].status = "running" /\ slot[w].epoch = job[j].epoch
      BY <1>4 DEF HasAuthority, Owns
    <2>6. ASSUME slot[w].out = "interrupt" PROVE Asked(j)
      <3>1. slot[w].asked \in 1..MaxQuestions
        BY <1>2, <2>6 DEF AskInv, SlotAsks, Slot, BoundsAssumption
      <3>2. e = Interrupt(slot[w].asked, job[j].epoch)
        BY <2>5, <2>6 DEF OutEvent, Interrupt
      <3>3. OutRow(w, job[j]) = WaitingRow(job[j], slot[w].asked)
        BY <2>6 DEF OutRow
      <3> QED BY <1>2, <1>4, <2>3, <2>4, <2>5, <3>1, <3>2, <3>3 DEF Asked
    <2>7. ASSUME slot[w].out = "final_result" PROVE Finished(j)
      <3>1. e = [type |-> "final_result", question |-> 0, epoch |-> job[j].epoch]
        BY <2>5, <2>7 DEF OutEvent
      <3>2. OutRow(w, job[j]) = FinishedRow(job[j], StatusOf("final_result"))
        BY <2>7 DEF OutRow, StatusOf
      <3>3. events'[j] = Append(events[j], e)
        BY <1>4, <2>3 DEF WithEvent
      <3> QED BY <2>4, <2>5, <3>1, <3>2, <3>3 DEF Finished
    <2>8. Move(j)
      BY <1>1, <2>6, <2>7 DEF Move
    <2>9. \A k \in Jobs : k # j => Rests(k)
      BY <2>1, <2>3, SameRests DEF TypeInv, TypeOK
    <2> QED BY <2>8, <2>9 DEF Move
  <1> QED BY <1>3, <1>4 DEF Complete

(* fail_job is a move: the job finishes with an error event of the epoch   *)
(* of the row.                                                             *)
LEMMA FailMoves ==
    ASSUME TypeInv, NEW w \in Workers, Fail(w)
    PROVE  \A k \in Jobs : Move(k)
  <1> DEFINE j == slot[w].job
             e == [type |-> "error", question |-> 0, epoch |-> slot[w].epoch]
  <1>1. slot[w].phase \in {"write", "failing"}
    BY DEF Fail
  <1>2. j \in Jobs /\ slot[w] \in Slot /\ events[j] \in Seq(Event)
    BY <1>1, BusySlot DEF TypeInv, TypeOK
  <1>3. CASE ~HasAuthority(w)
    BY <1>3, UnchangedRests DEF Fail, dbVars, Move
  <1>4. CASE HasAuthority(w)
    <2>1. /\ job' = [job EXCEPT ![j] = FinishedRow(job[j], "failed")]
          /\ PublishOne(j, e) /\ UNCHANGED inputs
      BY <1>4 DEF Fail
    <2>2. e \in Event /\ e.type \in TerminalType
      BY <1>2 DEF Event, Slot, TerminalType
    <2>3. job[j].status = "running" /\ slot[w].epoch = job[j].epoch
      BY <1>4 DEF HasAuthority, Owns
    <2>4. \A i \in DOMAIN events[j] : events[j][i].type \notin TerminalType
      BY <1>2, <2>3 DEF TypeInv, LogIsOpen, TerminalStatus
    <2>e. e.type = "error" /\ e = [type |-> "error", question |-> 0, epoch |-> job[j].epoch]
      BY <2>3
    <2> HIDE DEF e
    <2>5. ~Conflicts(events[j], e) /\ ~Holds(events[j], e)
      BY <1>2, <2>2, <2>4, OpenLogNoConflict
    <2>6. /\ events'[j] = WithEvent(events[j], e)
          /\ \A k \in Jobs : k # j => events'[k] = events[k]
      BY <1>2, <2>1, <2>2, <2>5, PublishOneType DEF TypeInv, TypeOK
    <2>7. events'[j] = Append(events[j], e)
      BY <2>5, <2>6 DEF WithEvent
    <2>8. job'[j] = FinishedRow(job[j], StatusOf("error")) /\ inputs'[j] = inputs[j]
      BY <1>2, <2>1 DEF TypeInv, TypeOK, StatusOf
    <2>9. Finished(j)
      BY <2>3, <2>e, <2>7, <2>8 DEF Finished
    <2>10. \A k \in Jobs : k # j => Rests(k)
      BY <2>1, <2>6, SameRests DEF TypeInv, TypeOK
    <2> QED BY <2>9, <2>10 DEF Move
  <1> QED BY <1>3, <1>4

(* Releasing a canceled job and beating change the lease columns only.     *)
LEMMA LeaseMoves ==
    ASSUME TypeInv, NEW w \in Workers, Release(w) \/ Heartbeat(w)
    PROVE  \A k \in Jobs : Move(k)
  <1> DEFINE j == slot[w].job
             freed == Released(job[j], "worker_confirmed")
             beat == [job[j] EXCEPT !.heartbeat = "fresh"]
  <1>1. j \in Jobs /\ UNCHANGED <<events, inputs>>
    BY BusySlot DEF Release, Heartbeat, TypeInv, SlotsHaveJobs
  <1>2. job[j] \in Row
    BY <1>1 DEF TypeInv, TypeOK
  <1>3. CASE job' = job
    BY <1>1, <1>3, UnchangedRests DEF Move
  <1>4. CASE Release(w) /\ IsDraining(w)
    <2>1. job' = [job EXCEPT ![j] = freed]
      BY <1>4 DEF Release
    <2>2. freed \in Row
      BY <1>2, RowOpsType
    <2>3. RowOK(job[j]) => RowOK(freed)
      BY <1>2, <1>4, RowOKOps DEF IsDraining
    <2>4. /\ freed.status = job[j].status /\ freed.epoch = job[j].epoch
          /\ freed.recovery = job[j].recovery /\ freed.resumes = job[j].resumes
          /\ freed.question = job[j].question
      BY <1>2 DEF Released, Row
    <2> HIDE DEF freed
    <2> QED BY <1>1, <2>1, <2>2, <2>3, <2>4, LeaseColumnsRest DEF Move
  <1>5. CASE Heartbeat(w) /\ (HasAuthority(w) \/ IsDraining(w))
    <2>1. job' = [job EXCEPT ![j] = beat]
      BY <1>1, <1>5 DEF Heartbeat, TypeInv, TypeOK
    <2>2. beat \in Row
      BY <1>2 DEF Row
    <2>3. job[j].execution # "null"
      BY <1>5 DEF HasAuthority, IsDraining
    <2>4. /\ beat.status = job[j].status /\ beat.epoch = job[j].epoch
          /\ beat.recovery = job[j].recovery /\ beat.resumes = job[j].resumes
          /\ beat.question = job[j].question
          /\ RowOK(job[j]) => RowOK(beat)
      BY <1>2, <2>3 DEF Row, RowOK
    <2> HIDE DEF beat
    <2> QED BY <1>1, <2>1, <2>2, <2>4, LeaseColumnsRest DEF Move
  <1> QED BY <1>3, <1>4, <1>5 DEF Release, Heartbeat

(* What a claim publishes for a stale job does not conflict with its log:  *)
(* a repair, because claim_next_job raises otherwise, or the end of the    *)
(* job, which the open log does not hold.                                  *)
LEMMA ClaimPublishes ==
    ASSUME TypeInv, NEW c \in ClaimChoices([j \in Jobs |-> Reaped(job[j])]),
           \A j \in ToRepair(c) : ~Conflicts(events[j], RepairEvent(j)),
           NEW j \in DOMAIN ClaimEvents(c)
    PROVE  /\ j \in Jobs /\ Stale(job[j])
           /\ ClaimEvents(c)[j] \in Event
           /\ ~Conflicts(events[j], ClaimEvents(c)[j])
           /\ IF ckpt[j].pending
              THEN j \in ToRepair(c) /\ ClaimEvents(c)[j] = RepairEvent(j)
              ELSE /\ j \notin ToRepair(c) /\ j = c.x
                   /\ ClaimEvents(c)[j] = ExhaustedEvent
                   /\ ~Holds(events[j], ExhaustedEvent)
  <1>1. /\ c.x \in Jobs \cup {None}
        /\ c.x # None => Stale(job[c.x])
        /\ ToRepair(c) \subseteq Jobs
        /\ \A k \in ToRepair(c) : Stale(job[k])
    BY ChoiceFacts
  <1>2. \A k \in Jobs : ckpt[k] \in Checkpoint /\ events[k] \in Seq(Event)
    BY DEF TypeInv, TypeOK
  <1>3. /\ DOMAIN ClaimEvents(c) = ToRepair(c) \cup ({c.x} \ {None})
        /\ ClaimEvents(c)[j] = IF ckpt[j].pending THEN RepairEvent(j) ELSE ExhaustedEvent
    BY DEF ClaimEvents
  <1>4. j \in Jobs /\ Stale(job[j])
    BY <1>1, <1>3
  <1>5. CASE ckpt[j].pending
    <2>1. j \in ToRepair(c)
      BY <1>3, <1>4, <1>5, NoneAssumption DEF ToRepair, Inspected
    <2>2. ClaimEvents(c)[j] = RepairEvent(j) /\ RepairEvent(j) \in Event
      BY <1>2, <1>3, <1>4, <1>5 DEF RepairEvent, Event, Checkpoint
    <2> QED BY <1>4, <1>5, <2>1, <2>2
  <1>6. CASE ~ckpt[j].pending
    <2>1. ClaimEvents(c)[j] = ExhaustedEvent /\ j \notin ToRepair(c) /\ j = c.x
      BY <1>3, <1>6 DEF ToRepair
    <2>2. ExhaustedEvent \in Event /\ ExhaustedEvent.type \in TerminalType
      BY DEF ExhaustedEvent, Event, TerminalType
    <2>3. \A i \in DOMAIN events[j] : events[j][i].type \notin TerminalType
      BY <1>4 DEF TypeInv, LogIsOpen, Stale, TerminalStatus
    <2>4. ~Conflicts(events[j], ExhaustedEvent) /\ ~Holds(events[j], ExhaustedEvent)
      BY <1>2, <1>4, <2>2, <2>3, OpenLogNoConflict
    <2> QED BY <1>4, <1>6, <2>1, <2>2, <2>4
  <1> QED BY <1>5, <1>6

(* claim_next_job is a move of every job: it leases one, gives up others,  *)
(* reaps and repairs.                                                      *)
LEMMA ClaimMoves ==
    ASSUME TypeInv, AskInv, NEW w \in Workers, Claim(w)
    PROVE  \A k \in Jobs : Move(k)
  <1> DEFINE rows == [j \in Jobs |-> Reaped(job[j])]
  <1>1. PICK c \in ClaimChoices(rows) :
              /\ \A j \in ToRepair(c) : ~Conflicts(events[j], RepairEvent(j))
              /\ job' = [j \in Jobs |-> ClaimRow(c, w, j, rows[j])]
              /\ Publish(ClaimEvents(c))
    BY DEF Claim
  <1>2. UNCHANGED inputs
    BY DEF Claim
  <1>3. /\ c.x \in Jobs \cup {None} /\ c.y \in Jobs \cup {None}
        /\ c.x # None => Stale(job[c.x])
        /\ c.y # None => job[c.y].status = "queued" \/ Stale(job[c.y])
        /\ ToRepair(c) \subseteq Jobs
        /\ \A j \in ToRepair(c) : Stale(job[j])
    BY ChoiceFacts
  <1>4. \A j \in Jobs : /\ job[j] \in Row /\ ckpt[j] \in Checkpoint
                        /\ events[j] \in Seq(Event)
    BY DEF TypeInv, TypeOK
  <1>5. DOMAIN ClaimEvents(c) = ToRepair(c) \cup ({c.x} \ {None})
    BY DEF ClaimEvents
  <1>6. ASSUME NEW j \in DOMAIN ClaimEvents(c)
        PROVE  /\ j \in Jobs /\ Stale(job[j])
               /\ ClaimEvents(c)[j] \in Event
               /\ ~Conflicts(events[j], ClaimEvents(c)[j])
               /\ IF ckpt[j].pending
                  THEN j \in ToRepair(c) /\ ClaimEvents(c)[j] = RepairEvent(j)
                  ELSE /\ j \notin ToRepair(c) /\ j = c.x
                       /\ ClaimEvents(c)[j] = ExhaustedEvent
                       /\ ~Holds(events[j], ExhaustedEvent)
    BY <1>1, ClaimPublishes
  <1>7. \A j \in Jobs : events'[j] = IF j \in DOMAIN ClaimEvents(c)
                                     THEN WithEvent(events[j], ClaimEvents(c)[j])
                                     ELSE events[j]
    BY <1>1, <1>6, PublishType DEF TypeInv, TypeOK
  <1> SUFFICES ASSUME NEW j \in Jobs PROVE Move(j)
    OBVIOUS
  <1>8. job'[j] = ClaimRow(c, w, j, rows[j]) /\ inputs'[j] = inputs[j]
    BY <1>1, <1>2
  <1>9. /\ job[j].status # "canceled" => rows[j] = job[j]
        /\ rows[j] = Reaped(job[j])
    BY <1>4, ReapedFacts
  <1>10. CASE j \in ToRepair(c)
    <2>1. j \in DOMAIN ClaimEvents(c) /\ ckpt[j].pending
      BY <1>5, <1>10 DEF ToRepair
    <2>2. Stale(job[j]) /\ rows[j] = job[j]
      BY <1>6, <1>9, <2>1 DEF Stale
    <2>3. ckpt[j].asked \in 1..MaxQuestions
      BY <1>4, <2>1, BoundsAssumption DEF AskInv, Checkpoint
    <2>4. job'[j] = WaitingRow(job[j], ckpt[j].asked)
      BY <1>8, <1>10, <2>2 DEF ClaimRow
    <2>5. ~Conflicts(events[j], RepairEvent(j))
          /\ events'[j] = WithEvent(events[j], RepairEvent(j))
      BY <1>6, <1>7, <2>1
    <2>6. RepairEvent(j) = Interrupt(ckpt[j].asked, 0)
      BY DEF RepairEvent, Interrupt
    <2>7. Asked(j)
      BY <1>8, <2>2, <2>3, <2>4, <2>5, <2>6 DEF Asked, Stale
    <2> QED BY <2>7 DEF Move
  <1>11. CASE j \notin ToRepair(c) /\ j = c.x
    <2>1. j \in DOMAIN ClaimEvents(c)
      BY <1>5, <1>11, NoneAssumption
    <2>2. Stale(job[j]) /\ rows[j] = job[j]
      BY <1>6, <1>9, <2>1 DEF Stale
    <2>3. events'[j] = Append(events[j], ExhaustedEvent)
      BY <1>6, <1>7, <1>11, <2>1 DEF WithEvent
    <2>4. job'[j] = FinishedRow(job[j], StatusOf("error"))
      BY <1>8, <1>11, <2>2 DEF ClaimRow, StatusOf
    <2>5. Finished(j)
      BY <1>8, <2>2, <2>3, <2>4 DEF Finished, Stale, ExhaustedEvent
    <2> QED BY <2>5 DEF Move
  <1>12. CASE j \notin ToRepair(c) /\ j # c.x /\ j = c.y
    <2>1. job[j].status = "queued" \/ Stale(job[j])
      BY <1>3, <1>12, NoneAssumption
    <2>2. rows[j] = job[j]
      BY <1>9, <2>1 DEF Stale
    <2>3. \/ job[j].status = "queued"
          \/ Stale(job[j]) /\ job[j].recovery < MaxAttempts
      <3>1. c.y \in Claimable(rows)
        BY <1>12, NoneAssumption DEF ClaimChoices, OneOf
      <3> HIDE DEF rows
      <3>2. j \in Claimable(rows)
        BY <1>12, <3>1
      <3>3. \/ rows[j].status = "queued"
            \/ Stale(rows[j]) /\ rows[j].recovery < MaxAttempts
        BY <3>2 DEF Claimable
      <3> QED BY <2>2, <3>3
    <2>4. job'[j] = LeasedRow(job[j], w) /\ events'[j] = events[j]
      BY <1>5, <1>7, <1>8, <1>12, <2>2 DEF ClaimRow
    <2>5. Leased(j)
      BY <1>8, <2>3, <2>4 DEF Leased
    <2> QED BY <2>5 DEF Move
  <1>13. CASE j \notin ToRepair(c) /\ j # c.x /\ j # c.y
    <2>1. job'[j] = Reaped(job[j]) /\ events'[j] = events[j]
      BY <1>5, <1>7, <1>8, <1>9, <1>13 DEF ClaimRow
    <2>2. RowOK(job[j]) => RowOK(Reaped(job[j]))
      BY <1>4, RowOKOps
    <2>3. Rests(j)
      BY <1>4, <1>8, <2>1, <2>2 DEF Rests, Reaped, Released, Row
    <2> QED BY <2>3 DEF Move
  <1> QED BY <1>10, <1>11, <1>12, <1>13

(* Every step is a move of every job.                                      *)
LEMMA StepMoves ==
    ASSUME TypeInv, AskInv, [Next]_vars
    PROVE  \A j \in Jobs : Move(j)
  <1>1. CASE UNCHANGED dbVars
    BY <1>1, UnchangedRests DEF dbVars, Move
  <1>2. ASSUME NEW j \in Jobs,
               \/ Create(j) \/ Cancel(j) \/ Age(j)
               \/ \E q \in 1..MaxQuestions : Resume(j, q)
        PROVE  \A k \in Jobs : Move(k)
    BY <1>2, ApiMoves
  <1>3. ASSUME NEW w \in Workers,
               \/ ClaimRaises(w) \/ Restart(w) \/ Start(w) \/ Inspect(w)
               \/ NodeStart(w) \/ Emit(w) \/ Abandon(w) \/ Crash(w)
               \/ \E out \in OutTypes : NodeCommit(w, out)
        PROVE  \A k \in Jobs : Move(k)
    BY <1>1, <1>3 DEF ClaimRaises, Restart, Start, Inspect, NodeStart, Emit,
                      Abandon, Crash, NodeCommit
  <1>4. ASSUME NEW w \in Workers, WorkerStep(w)
        PROVE  \A k \in Jobs : Move(k)
    BY <1>3, <1>4, WriteProgressMoves, CompleteMoves, FailMoves, LeaseMoves
       DEF WorkerStep, OutTypes
  <1>5. CASE PgToggle \/ UNCHANGED vars
    BY <1>1, <1>5 DEF PgToggle, vars
  <1> QED BY <1>2, <1>3, <1>4, <1>5, ClaimMoves, LeaseMoves DEF Next

-----------------------------------------------------------------------------
(* What each invariant needs of a move *)

(* The domain and the values of an extended log.                           *)
LEMMA AppendFacts ==
    ASSUME NEW log \in Seq(Event), NEW e \in Event
    PROVE  /\ Append(log, e) \in Seq(Event)
           /\ Len(Append(log, e)) = Len(log) + 1
           /\ DOMAIN log = 1..Len(log)
           /\ DOMAIN Append(log, e) = 1..(Len(log) + 1)
           /\ \A i \in 1..Len(log) : Append(log, e)[i] = log[i]
           /\ Append(log, e)[Len(log) + 1] = e
  OBVIOUS

(* A move of a consistent row leads to a consistent row.                   *)
LEMMA MoveRowOK ==
    ASSUME TypeInv, NEW j \in Jobs, Move(j), RowOK(job[j])
    PROVE  RowOK(job'[j])
  <1>0. job[j] \in Row
    BY DEF TypeInv, TypeOK
  <1>1. CASE Rests(j)
    BY <1>1 DEF Rests
  <1>2. CASE Submitted(j)
    BY <1>0, <1>2 DEF Submitted, RowOK, Row, ActiveStatus
  <1>3. CASE Answered(j)
    BY <1>0, <1>3 DEF Answered, RowOK, Row, ActiveStatus
  <1>4. CASE CanceledBy(j)
    BY <1>0, <1>4, RowOKOps DEF CanceledBy
  <1>5. CASE Leased(j)
    BY <1>0, <1>5, RowOKOps DEF Leased, Stale
  <1>6. CASE Reported(j)
    BY <1>6 DEF Reported
  <1>7. CASE Asked(j)
    BY <1>0, <1>7, RowOKOps, BoundsAssumption DEF Asked
  <1>8. CASE Finished(j)
    BY <1>0, <1>8, RowOKOps DEF Finished, StatusOf, TerminalStatus
  <1> QED BY <1>1, <1>2, <1>3, <1>4, <1>5, <1>6, <1>7, <1>8 DEF Move

(* The columns of the moved row.                                           *)
SameCounts(j) == /\ job'[j].epoch = job[j].epoch
                 /\ job'[j].recovery = job[j].recovery
                 /\ job'[j].resumes = job[j].resumes

(* The status and the counters each move leads to.                         *)
LEMMA MoveStatus ==
    ASSUME TypeInv, NEW j \in Jobs
    PROVE  /\ Submitted(j) => job'[j].status = "queued" /\ SameCounts(j)
           /\ Answered(j) => /\ job'[j].status = "queued"
                             /\ job'[j].epoch = job[j].epoch
                             /\ job'[j].recovery = job[j].recovery
                             /\ job'[j].resumes = job[j].resumes + 1
           /\ CanceledBy(j) => job'[j].status = "canceled" /\ SameCounts(j)
           /\ Leased(j) => /\ job'[j].status = "running"
                           /\ job'[j].epoch = job[j].epoch + 1
                           /\ job'[j].recovery = IF job[j].status = "running"
                                THEN job[j].recovery + 1 ELSE job[j].recovery
                           /\ job'[j].resumes = job[j].resumes
           /\ Asked(j) => job'[j].status = "waiting_input" /\ SameCounts(j)
           /\ Finished(j) => /\ job'[j].status \in {"succeeded", "failed"}
                             /\ SameCounts(j)
  <1>0. job[j] \in Row
    BY DEF TypeInv, TypeOK
  <1>1. ASSUME Submitted(j) PROVE job'[j].status = "queued" /\ SameCounts(j)
    BY <1>0, <1>1 DEF Submitted, Row, SameCounts
  <1>2. ASSUME Answered(j)
        PROVE  /\ job'[j].status = "queued"
               /\ job'[j].epoch = job[j].epoch
               /\ job'[j].recovery = job[j].recovery
               /\ job'[j].resumes = job[j].resumes + 1
    BY <1>0, <1>2 DEF Answered, Row
  <1>3. ASSUME CanceledBy(j) PROVE job'[j].status = "canceled" /\ SameCounts(j)
    BY <1>0, <1>3 DEF CanceledBy, CanceledRow, Row, SameCounts
  <1>4. ASSUME Leased(j)
        PROVE  /\ job'[j].status = "running"
               /\ job'[j].epoch = job[j].epoch + 1
               /\ job'[j].recovery = IF job[j].status = "running"
                     THEN job[j].recovery + 1 ELSE job[j].recovery
               /\ job'[j].resumes = job[j].resumes
    BY <1>0, <1>4 DEF Leased, LeasedRow, Row
  <1>5. ASSUME Asked(j) PROVE job'[j].status = "waiting_input" /\ SameCounts(j)
    BY <1>0, <1>5 DEF Asked, WaitingRow, Released, Row, SameCounts
  <1>6. ASSUME Finished(j)
        PROVE  job'[j].status \in {"succeeded", "failed"} /\ SameCounts(j)
    BY <1>0, <1>6 DEF Finished, FinishedRow, Released, StatusOf, Row, SameCounts
  <1> QED BY <1>1, <1>2, <1>3, <1>4, <1>5, <1>6

(* A row nobody has created is blank.                                      *)
AbsentIsBlank ==
    \A j \in Jobs : job[j].status = "absent" =>
        job[j].epoch = 0 /\ job[j].recovery = 0 /\ job[j].resumes = 0

(* A move keeps the lease epochs accounted for by submissions, answers     *)
(* and recoveries.                                                         *)
LEMMA MoveAccounted ==
    ASSUME TypeInv, AbsentIsBlank, NEW j \in Jobs, Move(j), Accounted(j)
    PROVE  /\ Accounted(j)'
           /\ job'[j].status = "absent" => /\ job'[j].epoch = 0
                                           /\ job'[j].recovery = 0
                                           /\ job'[j].resumes = 0
  <1>0. /\ job[j].epoch \in Nat /\ job[j].recovery \in Nat /\ job[j].resumes \in Nat
        /\ inputs[j] \in Seq(Nat) /\ MaxAttempts \in Nat
        /\ job[j].question \in Nat
    BY BoundsAssumption DEF TypeInv, TypeOK, Row
  <1>1. CASE Rests(j)
    BY <1>1 DEF Rests, Accounted, AbsentIsBlank
  <1>2. CASE Submitted(j)
    <2>1. job[j].epoch = 0 /\ job[j].recovery = 0 /\ job[j].resumes = 0
      BY <1>2 DEF Submitted, AbsentIsBlank
    <2>2. Len(inputs'[j]) = 1
      BY <1>2 DEF Submitted
    <2> QED BY <1>0, <1>2, <2>1, <2>2, MoveStatus DEF Accounted, SameCounts
  <1>3. CASE Answered(j)
    <2>1. Len(inputs'[j]) = Len(inputs[j]) + 1
      BY <1>0, <1>3 DEF Answered
    <2>2. /\ job[j].epoch = job[j].resumes + job[j].recovery + 1
          /\ Len(inputs[j]) = job[j].resumes + 1
          /\ job[j].recovery <= MaxAttempts
      BY <1>3 DEF Accounted, Answered
    <2>3. /\ job'[j].status = "queued"
          /\ job'[j].epoch = job[j].epoch
          /\ job'[j].recovery = job[j].recovery
          /\ job'[j].resumes = job[j].resumes + 1
      BY <1>3, MoveStatus
    <2>4. /\ job'[j].epoch = job'[j].resumes + job'[j].recovery
          /\ Len(inputs'[j]) = job'[j].resumes + 1
          /\ job'[j].recovery <= MaxAttempts
      BY <1>0, <2>1, <2>2, <2>3
    <2> QED BY <2>3, <2>4 DEF Accounted
  <1>4. CASE CanceledBy(j)
    BY <1>0, <1>4, MoveStatus DEF Accounted, CanceledBy, ActiveStatus, SameCounts
  <1>5. CASE Leased(j)
    <2>1. job'[j].status = "running" /\ job'[j].epoch = job[j].epoch + 1
          /\ job'[j].resumes = job[j].resumes
      BY <1>5, MoveStatus
    <2>2. CASE job[j].status = "queued"
      <3>1. job'[j].recovery = job[j].recovery
        BY <1>5, <2>2, MoveStatus
      <3> QED BY <1>0, <1>5, <2>1, <2>2, <3>1 DEF Accounted, Leased
    <2>3. CASE job[j].status = "running"
      <3>1. job'[j].recovery = job[j].recovery + 1 /\ job[j].recovery < MaxAttempts
        BY <1>5, <2>3, MoveStatus DEF Leased
      <3>2. /\ job[j].epoch = job[j].resumes + job[j].recovery + 1
            /\ Len(inputs[j]) = job[j].resumes + 1 /\ inputs'[j] = inputs[j]
        BY <1>5, <2>3 DEF Accounted, Leased
      <3>3. /\ job'[j].epoch = job'[j].resumes + job'[j].recovery + 1
            /\ Len(inputs'[j]) = job'[j].resumes + 1
            /\ job'[j].recovery <= MaxAttempts
        <4>1. job'[j].epoch = job'[j].resumes + job'[j].recovery + 1
          BY <1>0, <2>1, <3>1, <3>2
        <4>2. Len(inputs'[j]) = job'[j].resumes + 1
          BY <2>1, <3>2
        <4>3. job'[j].recovery <= MaxAttempts
          BY <1>0, <3>1
        <4> QED BY <4>1, <4>2, <4>3
      <3> QED BY <2>1, <3>3 DEF Accounted
    <2> QED BY <1>5, <2>2, <2>3 DEF Leased, Stale
  <1>6. CASE Reported(j)
    BY <1>6 DEF Accounted, Reported
  <1>7. CASE Asked(j)
    BY <1>7, MoveStatus DEF Accounted, Asked, SameCounts
  <1>8. CASE Finished(j)
    BY <1>8, MoveStatus DEF Accounted, Finished, SameCounts
  <1> QED BY <1>1, <1>2, <1>3, <1>4, <1>5, <1>6, <1>7, <1>8 DEF Move

-----------------------------------------------------------------------------
(* The log grows by at most one event per move. *)

NewEvent(j, e) ==
    /\ e \in Event
    /\ events'[j] = Append(events[j], e)
    /\ e.epoch = 0 \/ e.epoch = job[j].epoch

(* A move leaves the log and the job's finality alone, or appends one      *)
(* event and closes the log exactly when it finishes the job.              *)
LEMMA MoveLog ==
    ASSUME TypeInv, NEW j \in Jobs, Move(j)
    PROVE  \/ /\ events'[j] = events[j]
              /\ \/ job'[j].status = job[j].status
                 \/ /\ job[j].status \notin TerminalStatus
                    /\ job'[j].status \notin TerminalStatus
           \/ \E e : /\ NewEvent(j, e) /\ e.type \notin TerminalType
                     /\ job[j].status \notin TerminalStatus
                     /\ job'[j].status \notin TerminalStatus
           \/ \E e : /\ NewEvent(j, e) /\ e.type \in TerminalType
                     /\ job[j].status \notin TerminalStatus
                     /\ job'[j].status = StatusOf(e.type)
  <1>0. job[j].epoch \in Nat
    BY DEF TypeInv, TypeOK, Row
  <1>1. CASE Rests(j)
    BY <1>1 DEF Rests
  <1>2. CASE Submitted(j) \/ Answered(j) \/ Leased(j)
    <2>1. job'[j].status \in {"queued", "running"}
      BY <1>2, MoveStatus
    <2> QED BY <1>2, <2>1 DEF Submitted, Answered, Leased, Stale, TerminalStatus
  <1>3. CASE CanceledBy(j)
    <2>1. NewEvent(j, CanceledEvent) /\ CanceledEvent.type = "canceled"
      BY <1>3 DEF CanceledBy, NewEvent, CanceledEvent, Event, TerminalType
    <2>2. job'[j].status = StatusOf("canceled")
      BY <1>3 DEF CanceledBy, CanceledRow, StatusOf, TypeInv, TypeOK, Row
    <2> QED BY <1>3, <2>1, <2>2 DEF CanceledBy, TerminalType, TerminalStatus, ActiveStatus
  <1>4. CASE Reported(j)
    <2> DEFINE e == [type |-> "progress", question |-> 0, epoch |-> job[j].epoch]
    <2>1. NewEvent(j, e) /\ e.type \notin TerminalType
      BY <1>0, <1>4 DEF Reported, NewEvent, Event, TerminalType
    <2> HIDE DEF e
    <2> QED BY <1>4, <2>1 DEF Reported, TerminalStatus
  <1>5. CASE Asked(j)
    <2>1. PICK q \in 1..MaxQuestions, n \in {0, job[j].epoch} :
             events'[j] = WithEvent(events[j], Interrupt(q, n))
      BY <1>5 DEF Asked
    <2>2. job[j].status = "running" /\ job'[j].status = "waiting_input"
      BY <1>5 DEF Asked, WaitingRow, Released, TypeInv, TypeOK, Row
    <2>3. Interrupt(q, n) \in Event /\ Interrupt(q, n).type \notin TerminalType
      BY <1>0, BoundsAssumption DEF Interrupt, Event, TerminalType
    <2>4. CASE events'[j] = events[j]
      BY <2>2, <2>4 DEF TerminalStatus
    <2>5. CASE events'[j] = Append(events[j], Interrupt(q, n))
      <3>1. NewEvent(j, Interrupt(q, n))
        BY <2>3, <2>5 DEF NewEvent, Interrupt
      <3> QED BY <2>2, <2>3, <3>1 DEF TerminalStatus
    <2> QED BY <2>1, <2>4, <2>5 DEF WithEvent
  <1>6. CASE Finished(j)
    <2>1. PICK type \in {"final_result", "error"}, n \in {0, job[j].epoch} :
          /\ job'[j] = FinishedRow(job[j], StatusOf(type))
          /\ events'[j] = Append(events[j], [type |-> type, question |-> 0,
                                             epoch |-> n])
      BY <1>6 DEF Finished
    <2> DEFINE e == [type |-> type, question |-> 0, epoch |-> n]
    <2>2. NewEvent(j, e) /\ e.type = type /\ type \in TerminalType
      BY <1>0, <2>1 DEF NewEvent, Event, TerminalType
    <2>3. job'[j].status = StatusOf(type)
      BY <2>1 DEF FinishedRow, Released, TypeInv, TypeOK, Row
    <2> HIDE DEF e
    <2> QED BY <1>6, <2>2, <2>3 DEF Finished, TerminalStatus
  <1> QED BY <1>1, <1>2, <1>3, <1>4, <1>5, <1>6 DEF Move

EpochsBounded(j) ==
    \A i \in DOMAIN events[j] : events[j][i].epoch <= job[j].epoch

(* A move keeps the epochs of a log in order and below that of the row.    *)
LEMMA MoveLeaseOrdered ==
    ASSUME TypeInv, NEW j \in Jobs, Move(j), EpochsBounded(j), LeaseOrdered(j)
    PROVE  EpochsBounded(j)' /\ LeaseOrdered(j)'
  <1>0. job[j].epoch \in Nat /\ events[j] \in Seq(Event)
    BY DEF TypeInv, TypeOK, Row
  <1>1. job'[j].epoch \in Nat /\ job[j].epoch <= job'[j].epoch
    BY <1>0, MoveStatus DEF Move, Rests, Reported, SameCounts
  <1>2. \A i \in DOMAIN events[j] : events[j][i].epoch \in Nat
    <2> SUFFICES ASSUME NEW i \in DOMAIN events[j] PROVE events[j][i].epoch \in Nat
      OBVIOUS
    <2>1. events[j][i] \in Event
      BY <1>0
    <2> QED BY <2>1 DEF Event
  <1>3. CASE events'[j] = events[j]
    BY <1>0, <1>1, <1>2, <1>3 DEF EpochsBounded, LeaseOrdered
  <1>4. ASSUME NEW e, NewEvent(j, e)
        PROVE  EpochsBounded(j)' /\ LeaseOrdered(j)'
    <2>1. /\ DOMAIN events[j] = 1..Len(events[j]) /\ Len(events[j]) \in Nat
          /\ DOMAIN events'[j] = 1..(Len(events[j]) + 1)
          /\ \A i \in 1..Len(events[j]) : events'[j][i] = events[j][i]
          /\ events'[j][Len(events[j]) + 1] = e
      BY <1>0, <1>4, AppendFacts DEF NewEvent
    <2>2. e.epoch \in Nat /\ (e.epoch = 0 \/ e.epoch = job[j].epoch)
      BY <1>4 DEF NewEvent, Event
    <2>3. EpochsBounded(j)'
      <3> SUFFICES ASSUME NEW i \in DOMAIN events'[j]
                   PROVE  events'[j][i].epoch <= job'[j].epoch
        BY DEF EpochsBounded
      <3>1. CASE i \in DOMAIN events[j]
        <4>1. events'[j][i] = events[j][i] /\ events[j][i].epoch <= job[j].epoch
          BY <2>1, <3>1 DEF EpochsBounded
        <4> QED BY <1>0, <1>1, <1>2, <3>1, <4>1
      <3>2. CASE i = Len(events[j]) + 1
        BY <1>0, <1>1, <2>1, <2>2, <3>2
      <3> QED BY <2>1, <3>1, <3>2
    <2>4. LeaseOrdered(j)'
      <3> SUFFICES ASSUME NEW i \in DOMAIN events'[j], NEW k \in DOMAIN events'[j],
                          i < k, events'[j][k].epoch # 0
                   PROVE  events'[j][i].epoch <= events'[j][k].epoch
        BY DEF LeaseOrdered
      <3>1. i \in DOMAIN events[j] /\ events'[j][i] = events[j][i]
        BY <2>1
      <3>2. CASE k \in DOMAIN events[j]
        BY <2>1, <3>1, <3>2 DEF LeaseOrdered
      <3>3. CASE k = Len(events[j]) + 1
        BY <2>1, <2>2, <3>1, <3>3 DEF EpochsBounded
      <3> QED BY <2>1, <3>2, <3>3
    <2> QED BY <2>3, <2>4
  <1> QED BY <1>3, <1>4, MoveLog

(* A move keeps the terminal event at the end of the log of a finished     *)
(* job.                                                                    *)
LEMMA MoveLogClosed ==
    ASSUME TypeInv, NEW j \in Jobs, Move(j), LogClosed(j)
    PROVE  LogClosed(j)'
  <1>0. events[j] \in Seq(Event)
    BY DEF TypeInv, TypeOK
  <1>1. CASE /\ events'[j] = events[j]
             /\ \/ job'[j].status = job[j].status
                \/ /\ job[j].status \notin TerminalStatus
                   /\ job'[j].status \notin TerminalStatus
    BY <1>0, <1>1 DEF LogClosed
  <1>2. ASSUME NEW e, NewEvent(j, e), job[j].status \notin TerminalStatus
        PROVE  /\ DOMAIN events'[j] = 1..(Len(events[j]) + 1)
               /\ Len(events'[j]) = Len(events[j]) + 1 /\ Len(events[j]) \in Nat
               /\ \A i \in 1..Len(events[j]) : events'[j][i].type \notin TerminalType
               /\ events'[j][Len(events[j]) + 1] = e
    <2>1. /\ DOMAIN events[j] = 1..Len(events[j])
          /\ DOMAIN events'[j] = 1..(Len(events[j]) + 1)
          /\ Len(events'[j]) = Len(events[j]) + 1 /\ Len(events[j]) \in Nat
          /\ \A i \in 1..Len(events[j]) : events'[j][i] = events[j][i]
          /\ events'[j][Len(events[j]) + 1] = e
      BY <1>0, <1>2, AppendFacts DEF NewEvent
    <2> QED BY <1>2, <2>1 DEF LogClosed
  <1>3. ASSUME NEW e, NewEvent(j, e), e.type \notin TerminalType,
               job[j].status \notin TerminalStatus,
               job'[j].status \notin TerminalStatus
        PROVE  LogClosed(j)'
    BY <1>2, <1>3 DEF LogClosed
  <1>4. ASSUME NEW e, NewEvent(j, e), e.type \in TerminalType,
               job[j].status \notin TerminalStatus,
               job'[j].status = StatusOf(e.type)
        PROVE  LogClosed(j)'
    <2>1. StatusOf(e.type) \in TerminalStatus
      BY <1>4 DEF StatusOf, TerminalType, TerminalStatus
    <2>2. /\ DOMAIN events'[j] = 1..(Len(events[j]) + 1)
          /\ Len(events'[j]) = Len(events[j]) + 1 /\ Len(events[j]) \in Nat
          /\ \A i \in 1..Len(events[j]) : events'[j][i].type \notin TerminalType
          /\ events'[j][Len(events[j]) + 1] = e
      BY <1>2, <1>4
    <2>3. \A i \in DOMAIN events'[j] :
             events'[j][i].type \in TerminalType <=> i = Len(events'[j])
      BY <1>4, <2>2
    <2>4. events'[j] # << >>
      BY <2>2
    <2> QED BY <1>4, <2>1, <2>2, <2>3, <2>4 DEF LogClosed
  <1> QED BY <1>1, <1>3, <1>4, MoveLog

(* A move keeps every answered and every awaited question in the log.      *)
LEMMA MoveAnswers ==
    ASSUME TypeInv, NEW j \in Jobs, Move(j),
           job[j].status = "waiting_input" => AskedIn(events[j], job[j].question),
           \A i \in DOMAIN inputs[j] :
              inputs[j][i] # 0 => AskedIn(events[j], inputs[j][i])
    PROVE  /\ job'[j].status = "waiting_input" => AskedIn(events'[j], job'[j].question)
           /\ \A i \in DOMAIN inputs'[j] :
                 inputs'[j][i] # 0 => AskedIn(events'[j], inputs'[j][i])
  <1>0. /\ job[j] \in Row /\ events[j] \in Seq(Event) /\ inputs[j] \in Seq(Nat)
        /\ job[j].epoch \in Nat
    BY DEF TypeInv, TypeOK, Row
  <1>1. ASSUME NEW q, AskedIn(events[j], q) PROVE AskedIn(events'[j], q)
    <2>1. ASSUME NEW e, NewEvent(j, e) PROVE AskedIn(events'[j], q)
      BY <1>0, <1>1, <2>1, AppendFacts DEF NewEvent, AskedIn
    <2>2. CASE events'[j] = events[j]
      BY <1>1, <2>2
    <2> QED BY <2>1, <2>2, MoveLog
  <1>2. CASE inputs'[j] = inputs[j]
    <2>1. \A i \in DOMAIN inputs'[j] :
             inputs'[j][i] # 0 => AskedIn(events'[j], inputs'[j][i])
      BY <1>1, <1>2
    <2>2. ASSUME job'[j].status = "waiting_input"
          PROVE  AskedIn(events'[j], job'[j].question)
      <3>1. CASE job[j].status = "waiting_input" /\ job'[j].question = job[j].question
        BY <1>1, <3>1
      <3>2. CASE Asked(j)
        <4>1. PICK q \in 1..MaxQuestions, n \in {0, job[j].epoch} :
                 /\ ~Conflicts(events[j], Interrupt(q, n))
                 /\ job'[j] = WaitingRow(job[j], q)
                 /\ events'[j] = WithEvent(events[j], Interrupt(q, n))
          BY <3>2 DEF Asked
        <4>2. Interrupt(q, n) \in Event /\ Interrupt(q, n).question = q
          BY <1>0, BoundsAssumption DEF Interrupt, Event, TerminalType
        <4>3. \E i \in DOMAIN events'[j] : events'[j][i] = Interrupt(q, n)
          BY <1>0, <4>1, <4>2, WithEventFacts
        <4>4. job'[j].question = q
          BY <1>0, <4>1 DEF WaitingRow, Released, Row
        <4> QED BY <4>2, <4>3, <4>4 DEF AskedIn
      <3>3. CASE Rests(j)
        BY <2>2, <3>1, <3>3 DEF Rests
      <3>4. ~Submitted(j) /\ ~Answered(j) /\ ~CanceledBy(j) /\ ~Leased(j) /\ ~Finished(j)
        BY <2>2, MoveStatus
      <3>5. ~Reported(j)
        BY <2>2 DEF Reported
      <3> QED BY <3>2, <3>3, <3>4, <3>5 DEF Move
    <2> QED BY <2>1, <2>2
  <1>3. CASE Submitted(j)
    <2>1. job'[j].status = "queued" /\ inputs'[j] = <<0>>
      BY <1>3, MoveStatus DEF Submitted
    <2>2. DOMAIN inputs'[j] = {1} /\ inputs'[j][1] = 0
      BY <2>1
    <2> QED BY <2>1, <2>2
  <1>4. CASE Answered(j)
    <2>1. /\ job'[j].status = "queued" /\ AskedIn(events[j], job[j].question)
          /\ inputs'[j] = Append(inputs[j], job[j].question)
      BY <1>4, MoveStatus DEF Answered
    <2>2. \A i \in DOMAIN inputs'[j] :
             \/ inputs'[j][i] = job[j].question
             \/ i \in DOMAIN inputs[j] /\ inputs'[j][i] = inputs[j][i]
      BY <1>0, <2>1
    <2> QED BY <1>1, <2>1, <2>2
  <1> QED BY <1>2, <1>3, <1>4 DEF Move, Rests, CanceledBy, Leased, Reported,
                                  Asked, Finished

(* Moves leave at most one active job in a session: a submission checks    *)
(* that it is free.                                                        *)
LEMMA MoveSession ==
    ASSUME TypeInv, OneActiveJobPerSession, \A j \in Jobs : Move(j)
    PROVE  OneActiveJobPerSession'
  <1> SUFFICES ASSUME NEW j \in Jobs, NEW k \in Jobs,
                      job'[j].status \in ActiveStatus,
                      job'[k].status \in ActiveStatus,
                      SessionOf[j] = SessionOf[k], j # k
               PROVE  FALSE
    BY DEF OneActiveJobPerSession
  <1>1. ASSUME NEW i \in Jobs, job'[i].status \in ActiveStatus
        PROVE  job[i].status \in ActiveStatus \/ Submitted(i)
    <2>1. ~CanceledBy(i) /\ ~Finished(i)
      BY <1>1, MoveStatus DEF ActiveStatus
    <2>2. Move(i)
      OBVIOUS
    <2> QED BY <1>1, <2>1, <2>2 DEF Move, Rests, Answered, Leased, Reported, Asked,
                                   Stale, ActiveStatus
  <1>2. CASE Submitted(j)
    <2>1. job'[k] = job[k]
      BY <1>2 DEF Submitted
    <2> QED BY <1>2, <2>1 DEF Submitted, SessionFree
  <1>3. CASE Submitted(k)
    <2>1. job'[j] = job[j]
      BY <1>3 DEF Submitted
    <2> QED BY <1>3, <2>1 DEF Submitted, SessionFree
  <1> QED BY <1>1, <1>2, <1>3 DEF OneActiveJobPerSession

-----------------------------------------------------------------------------
(* The invariant of all of it *)

SafetyInv ==
    /\ TypeInv /\ AskInv
    /\ RowConsistent /\ OneActiveJobPerSession
    /\ AbsentIsBlank /\ ClaimsAccountedFor
    /\ (\A j \in Jobs : EpochsBounded(j)) /\ EventsInLeaseOrder
    /\ TerminalClosesLog /\ AnswersWereAsked

(* The initial state satisfies the inductive invariant.                    *)
LEMMA InitSafetyInv == Init => SafetyInv
  <1> SUFFICES ASSUME Init PROVE SafetyInv
    OBVIOUS
  <1>1. RowConsistent /\ AbsentIsBlank /\ ClaimsAccountedFor
    BY BoundsAssumption DEF Init, RowConsistent, RowOK, AbsentIsBlank, AbsentRow,
       ClaimsAccountedFor, Accounted, ActiveStatus
  <1>2. OneActiveJobPerSession
    BY DEF Init, OneActiveJobPerSession, AbsentRow, ActiveStatus
  <1>3. /\ \A j \in Jobs : EpochsBounded(j)
        /\ EventsInLeaseOrder
    BY DEF Init, EpochsBounded, EventsInLeaseOrder, LeaseOrdered
  <1>4. TerminalClosesLog /\ AnswersWereAsked
    BY DEF Init, TerminalClosesLog, LogClosed, AnswersWereAsked, AbsentRow,
       TerminalStatus
  <1> QED BY <1>1, <1>2, <1>3, <1>4, InitTypeInv, InitAskInv DEF SafetyInv

(* Every step preserves the inductive invariant, move by move and          *)
(* conjunct by conjunct.                                                   *)
LEMMA NextSafetyInv == SafetyInv /\ [Next]_vars => SafetyInv'
  <1> SUFFICES ASSUME SafetyInv, [Next]_vars PROVE SafetyInv'
    OBVIOUS
  <1>1. TypeInv' /\ AskInv'
    BY NextTypeInv, NextAskInv DEF SafetyInv
  <1>2. \A j \in Jobs : Move(j)
    BY StepMoves DEF SafetyInv
  <1>3. RowConsistent'
    BY <1>2, MoveRowOK DEF SafetyInv, RowConsistent
  <1>4. OneActiveJobPerSession'
    BY <1>2, MoveSession DEF SafetyInv
  <1>5. AbsentIsBlank' /\ ClaimsAccountedFor'
    BY <1>2, MoveAccounted DEF SafetyInv, AbsentIsBlank, ClaimsAccountedFor
  <1>6. (\A j \in Jobs : EpochsBounded(j))' /\ EventsInLeaseOrder'
    BY <1>2, MoveLeaseOrdered DEF SafetyInv, EventsInLeaseOrder
  <1>7. TerminalClosesLog'
    BY <1>2, MoveLogClosed DEF SafetyInv, TerminalClosesLog
  <1>8. AnswersWereAsked'
    BY <1>2, MoveAnswers DEF SafetyInv, AnswersWereAsked
  <1> QED BY <1>1, <1>3, <1>4, <1>5, <1>6, <1>7, <1>8 DEF SafetyInv

(* The inductive invariant holds in every reachable state.                 *)
LEMMA SafetyInvariant == Spec => []SafetyInv
  BY InitSafetyInv, NextSafetyInv, PTL DEF Spec

(* The CHECK constraints of analysis_jobs never refuse a transaction of    *)
(* job_service: lease columns, session key, question and status agree.     *)
THEOREM RowsConsistent == Spec => []RowConsistent
  <1>1. SafetyInv => RowConsistent
    BY DEF SafetyInv
  <1> QED BY <1>1, SafetyInvariant, PTL

(* create_job's check is enough: no interleaving of creations, answers and *)
(* recoveries gives a chat session two unfinished jobs.                    *)
THEOREM SessionHasOneActiveJob == Spec => []OneActiveJobPerSession
  <1>1. SafetyInv => OneActiveJobPerSession
    BY DEF SafetyInv
  <1> QED BY <1>1, SafetyInvariant, PTL

(* attempt_count, recovery_count and resume_count agree, recoveries never  *)
(* exceed max_attempts, and the input ledger has one entry per answer.     *)
THEOREM ClaimsAreAccountedFor == Spec => []ClaimsAccountedFor
  <1>1. SafetyInv => ClaimsAccountedFor
    BY DEF SafetyInv
  <1> QED BY <1>1, SafetyInvariant, PTL

(* The fence holds: a worker that lost its lease never gets an event into  *)
(* the log behind one of a later attempt.                                  *)
THEOREM LogIsInLeaseOrder == Spec => []EventsInLeaseOrder
  <1>1. SafetyInv => EventsInLeaseOrder
    BY DEF SafetyInv
  <1> QED BY <1>1, SafetyInvariant, PTL

(* A finished job's log ends with the one terminal event its status names, *)
(* an unfinished job's log has none.                                       *)
THEOREM TerminalEventClosesLog == Spec => []TerminalClosesLog
  <1>1. SafetyInv => TerminalClosesLog
    BY DEF SafetyInv
  <1> QED BY <1>1, SafetyInvariant, PTL

(* Nobody is asked to answer, or answers, a question the log does not hold.*)
THEOREM AnsweredQuestionsWereAsked == Spec => []AnswersWereAsked
  <1>1. SafetyInv => AnswersWereAsked
    BY DEF SafetyInv
  <1> QED BY <1>1, SafetyInvariant, PTL

(* A job that has finished keeps its status, its log and its inputs,       *)
(* whatever late workers, cancellations and recoveries still try.          *)
THEOREM FinishedStaysFinished == Spec => FinishedForGood
  <1>1. ASSUME SafetyInv, [Next]_vars
        PROVE  [\A j \in Jobs : job[j].status \in TerminalStatus
                  => /\ job'[j].status = job[j].status
                     /\ events'[j] = events[j] /\ inputs'[j] = inputs[j]]_vars
    <2> SUFFICES ASSUME NEW j \in Jobs, job[j].status \in TerminalStatus
                 PROVE  Rests(j)
      BY DEF Rests
    <2>1. Move(j)
      BY <1>1, StepMoves DEF SafetyInv
    <2> QED BY <2>1 DEF Move, Submitted, Answered, CanceledBy, Leased, Reported,
                        Asked, Finished, Stale, TerminalStatus, ActiveStatus
  <1> QED BY <1>1, SafetyInvariant, PTL DEF Spec, FinishedForGood

-----------------------------------------------------------------------------
(***************************************************************************)
(* The chat: one message per input and one per lifecycle event.            *)
(***************************************************************************)

Shown(msgs, role) == {i \in DOMAIN msgs : msgs[i].role = role}
Refs(msgs, role)  == {msgs[i].ref : i \in Shown(msgs, role)}
Lifecycle(log) == {i \in DOMAIN log : log[i].type # "progress"}

Mirrors(ins, log, msgs) ==
    /\ Refs(msgs, "user") = DOMAIN ins
    /\ Refs(msgs, "assistant") = Lifecycle(log)
    /\ Len(msgs) = Len(ins) + Cardinality(Lifecycle(log))

Posts(m, msgs, role, ref) == m = Append(msgs, [role |-> role, ref |-> ref])

(* A message appended for one role adds its reference to those of the      *)
(* role.                                                                   *)
LEMMA AppendShows ==
    ASSUME NEW msgs \in Seq(Message), NEW role, NEW other, role # other, NEW ref \in Nat,
           NEW m, Posts(m, msgs, role, ref)
    PROVE  /\ Refs(m, role) = Refs(msgs, role) \cup {ref}
           /\ Refs(m, other) = Refs(msgs, other)
           /\ Len(m) = Len(msgs) + 1
  <1>1. /\ DOMAIN m = DOMAIN msgs \cup {Len(msgs) + 1}
        /\ \A i \in DOMAIN msgs : m[i] = msgs[i] /\ i # Len(msgs) + 1
        /\ m[Len(msgs) + 1].role = role /\ m[Len(msgs) + 1].ref = ref
        /\ Len(m) = Len(msgs) + 1
    BY DEF Posts
  <1>2. Shown(m, role) = Shown(msgs, role) \cup {Len(msgs) + 1}
    BY <1>1 DEF Shown
  <1>3. Shown(m, other) = Shown(msgs, other)
    BY <1>1 DEF Shown
  <1>4. \A r : \A i \in Shown(msgs, r) : m[i].ref = msgs[i].ref
    BY <1>1 DEF Shown
  <1>5. ASSUME NEW x PROVE x \in Refs(m, role) <=> x \in Refs(msgs, role) \cup {ref}
    <2>1. x \in Refs(m, role) <=> \E i \in Shown(m, role) : x = m[i].ref
      BY DEF Refs
    <2>2. x \in Refs(msgs, role) <=> \E i \in Shown(msgs, role) : x = msgs[i].ref
      BY DEF Refs
    <2>3. (\E i \in Shown(m, role) : x = m[i].ref)
          <=> (\E i \in Shown(msgs, role) : x = m[i].ref) \/ x = m[Len(msgs) + 1].ref
      BY <1>2
    <2>4. (\E i \in Shown(msgs, role) : x = m[i].ref)
          <=> (\E i \in Shown(msgs, role) : x = msgs[i].ref)
      BY <1>4
    <2> QED BY <1>1, <2>1, <2>2, <2>3, <2>4
  <1>6. Refs(m, other) = Refs(msgs, other)
    BY <1>3, <1>4 DEF Refs
  <1>7. Refs(m, role) = Refs(msgs, role) \cup {ref}
    BY <1>5
  <1> QED BY <1>1, <1>6, <1>7

(* The lifecycle events of a log are finitely many; a new one is the last. *)
LEMMA LifecycleGrows ==
    ASSUME NEW log \in Seq(Event), NEW e \in Event, NEW longer, longer = Append(log, e)
    PROVE  /\ IsFiniteSet(Lifecycle(log))
           /\ e.type = "progress" => Lifecycle(longer) = Lifecycle(log)
           /\ e.type # "progress"
              => /\ Lifecycle(longer) = Lifecycle(log) \cup {Len(log) + 1}
                 /\ Cardinality(Lifecycle(longer)) = Cardinality(Lifecycle(log)) + 1
  <1>1. /\ DOMAIN log = 1..Len(log) /\ Len(log) \in Nat
        /\ DOMAIN longer = 1..(Len(log) + 1)
        /\ \A i \in 1..Len(log) : longer[i] = log[i]
        /\ longer[Len(log) + 1] = e
    BY AppendFacts
  <1>2. IsFiniteSet(1..Len(log))
    BY <1>1, FS_Interval
  <1>3. Lifecycle(log) \subseteq 1..Len(log)
    BY <1>1 DEF Lifecycle
  <1>4. IsFiniteSet(Lifecycle(log))
    BY <1>2, <1>3, FS_Subset
  <1>5. ASSUME e.type = "progress" PROVE Lifecycle(longer) = Lifecycle(log)
    BY <1>1, <1>5 DEF Lifecycle
  <1>6. ASSUME e.type # "progress"
        PROVE  Lifecycle(longer) = Lifecycle(log) \cup {Len(log) + 1}
    BY <1>1, <1>6 DEF Lifecycle
  <1>7. Len(log) + 1 \notin Lifecycle(log)
    BY <1>1, <1>3
  <1>8. Cardinality(Lifecycle(log) \cup {Len(log) + 1}) = Cardinality(Lifecycle(log)) + 1
    BY <1>4, <1>7, FS_AddElement
  <1> QED BY <1>4, <1>5, <1>6, <1>8

(* A lifecycle event is shown when it is stored; when it is stored already *)
(* it is shown already, and nothing is added.                              *)
LEMMA PublishedIsShown ==
    ASSUME NEW ins \in Seq(Nat), NEW log \in Seq(Event), NEW msgs \in Seq(Message),
           Mirrors(ins, log, msgs),
           NEW e \in Event, e.type # "progress", ~Conflicts(log, e)
    PROVE  Mirrors(ins, WithEvent(log, e),
                   WithReply(msgs, EventId(WithEvent(log, e), e)))
  <1> DEFINE new == WithEvent(log, e)
             id  == EventId(new, e)
             reply == [role |-> "assistant", ref |-> id]
  <1>1. id \in DOMAIN new /\ new[id] = e
    BY WithEventFacts
  <1>2. CASE Holds(log, e)
    <2>1. new = log
      BY <1>2 DEF WithEvent
    <2>2. id \in Lifecycle(log)
      BY <1>1, <2>1 DEF Lifecycle
    <2>3. PICK i \in Shown(msgs, "assistant") : msgs[i].ref = id
      BY <2>2 DEF Mirrors, Refs
    <2>4. i \in DOMAIN msgs /\ msgs[i] = reply
      <3>1. i \in DOMAIN msgs /\ msgs[i] \in Message /\ msgs[i].role = "assistant"
        BY <2>3 DEF Shown
      <3> QED BY <2>3, <3>1 DEF Message
    <2>5. WithReply(msgs, id) = msgs
      BY <2>4 DEF WithReply
    <2> QED BY <2>1, <2>5
  <1>3. CASE ~Holds(log, e)
    <2>1. new = Append(log, e)
      BY <1>3 DEF WithEvent
    <2>2. /\ DOMAIN log = 1..Len(log) /\ Len(log) \in Nat
          /\ DOMAIN new = 1..(Len(log) + 1)
          /\ \A i \in 1..Len(log) : new[i] = log[i]
      BY <2>1, AppendFacts
    <2>3. id = Len(log) + 1
      <3>1. \A i \in DOMAIN log : log[i] # e
        BY <1>3 DEF Holds, SameKey
      <3> QED BY <1>1, <2>2, <3>1
    <2>4. /\ Lifecycle(new) = Lifecycle(log) \cup {Len(log) + 1}
          /\ Cardinality(Lifecycle(new)) = Cardinality(Lifecycle(log)) + 1
      BY <2>1, LifecycleGrows
    <2>5. id \notin Lifecycle(log) /\ id \in Nat
      BY <2>2, <2>3 DEF Lifecycle
    <2>6. \A i \in DOMAIN msgs : msgs[i] # reply
      BY <2>5 DEF Mirrors, Refs, Shown
    <2>7. WithReply(msgs, id) = Append(msgs, reply)
      BY <2>6 DEF WithReply
    <2> DEFINE m == Append(msgs, reply)
    <2> HIDE DEF new, id
    <2>8. /\ Refs(m, "assistant") = Refs(msgs, "assistant") \cup {id}
          /\ Refs(m, "user") = Refs(msgs, "user")
          /\ Len(m) = Len(msgs) + 1
      <3> HIDE DEF m
      <3>1. Posts(m, msgs, "assistant", id)
        BY DEF m, Posts
      <3>2. msgs \in Seq(Message) /\ id \in Nat /\ "assistant" # "user"
        BY <2>5
      <3> QED BY ONLY <3>1, <3>2, AppendShows
    <2> HIDE DEF m, reply
    <2>9. Len(msgs) = Len(ins) + Cardinality(Lifecycle(log))
          /\ Cardinality(Lifecycle(log)) \in Nat /\ Len(ins) \in Nat
      <3>1. IsFiniteSet(Lifecycle(log))
        BY LifecycleGrows
      <3> QED BY <3>1, FS_CardinalityType DEF Mirrors
    <2>10. Mirrors(ins, new, m)
      BY <2>3, <2>4, <2>8, <2>9 DEF Mirrors
    <2> QED BY <2>7, <2>10 DEF m, new, id, reply
  <1> QED BY <1>2, <1>3

(* An input is shown when it is stored.                                    *)
LEMMA InputIsShown ==
    ASSUME NEW ins \in Seq(Nat), NEW log \in Seq(Event), NEW msgs \in Seq(Message),
           Mirrors(ins, log, msgs), NEW x \in Nat
    PROVE  Mirrors(Append(ins, x), log,
                   Append(msgs, [role |-> "user", ref |-> Len(ins) + 1]))
  <1> DEFINE m == Append(msgs, [role |-> "user", ref |-> Len(ins) + 1])
             more == Append(ins, x)
  <1>1. /\ DOMAIN more = DOMAIN ins \cup {Len(ins) + 1}
        /\ Len(more) = Len(ins) + 1 /\ Len(ins) \in Nat
    OBVIOUS
  <1>2. /\ Refs(m, "user") = Refs(msgs, "user") \cup {Len(ins) + 1}
        /\ Refs(m, "assistant") = Refs(msgs, "assistant")
        /\ Len(m) = Len(msgs) + 1
    <2> DEFINE n == Len(ins) + 1
    <2>1. Posts(m, msgs, "user", n) /\ n \in Nat /\ "user" # "assistant"
      BY <1>1 DEF Posts
    <2> HIDE DEF m, n
    <2>2. /\ Refs(m, "user") = Refs(msgs, "user") \cup {n}
          /\ Refs(m, "assistant") = Refs(msgs, "assistant")
          /\ Len(m) = Len(msgs) + 1
      BY <2>1, AppendShows
    <2> QED BY <2>2 DEF n
  <1>3. Cardinality(Lifecycle(log)) \in Nat
    <2>1. CanceledEvent \in Event
      BY DEF CanceledEvent, Event, TerminalType
    <2>2. IsFiniteSet(Lifecycle(log))
      BY <2>1, LifecycleGrows
    <2> QED BY <2>2, FS_CardinalityType
  <1> HIDE DEF m, more
  <1>4. Mirrors(more, log, m)
    BY <1>1, <1>2, <1>3 DEF Mirrors
  <1> QED BY <1>4 DEF m, more

(* What a step does to the chat of a job: nothing, unless it stores an     *)
(* input or a lifecycle event, which it shows in the same transaction.     *)
ChatRests(j) ==
    /\ chat'[j] = chat[j] /\ inputs'[j] = inputs[j]
    /\ \/ events'[j] = events[j]
       \/ \E e \in Event : e.type = "progress" /\ events'[j] = Append(events[j], e)

Hears(j) ==
    /\ events'[j] = events[j]
    /\ \E x \in Nat : inputs'[j] = Append(inputs[j], x)
    /\ chat'[j] = Append(chat[j], [role |-> "user", ref |-> Len(inputs[j]) + 1])

Tells(j, e) ==
    /\ events'[j] = WithEvent(events[j], e)
    /\ chat'[j] = WithReply(chat[j], EventId(WithEvent(events[j], e), e))

Replies(j) ==
    /\ inputs'[j] = inputs[j]
    /\ \E e \in Event : e.type # "progress" /\ ~Conflicts(events[j], e) /\ Tells(j, e)

ChatMove(j) == ChatRests(j) \/ Hears(j) \/ Replies(j)

(* A job nobody has created has no input and no event.                     *)
Unborn == \A j \in Jobs : job[j].status = "absent" => inputs[j] = << >> /\ events[j] = << >>

ChatInv == ChatMirrorsLedgers /\ Unborn

(* The property is about each job's three sequences.                       *)
LEMMA ChatMirrors ==
    ChatMirrorsLedgers <=> \A j \in Jobs : Mirrors(inputs[j], events[j], chat[j])
  BY DEF ChatMirrorsLedgers, Mirrors, Refs, Shown, Lifecycle

(* A lifecycle transaction tells each of its jobs' chats, and no other.    *)
LEMMA PublishTells ==
    ASSUME NEW lifecycle, Publish(lifecycle), NEW j \in Jobs
    PROVE  /\ j \in DOMAIN lifecycle => Tells(j, lifecycle[j])
           /\ j \notin DOMAIN lifecycle => events'[j] = events[j] /\ chat'[j] = chat[j]
  BY DEF Publish, Tells

(* The same for the transaction of one job.                                *)
LEMMA PublishOneTells ==
    ASSUME NEW j \in Jobs, NEW e, PublishOne(j, e)
    PROVE  /\ Tells(j, e)
           /\ \A k \in Jobs \ {j} : events'[k] = events[k] /\ chat'[k] = chat[k]
  <1> DEFINE one == [k \in {j} |-> e]
  <1>1. DOMAIN one = {j} /\ one[j] = e /\ Publish(one)
    BY DEF PublishOne
  <1> HIDE DEF one
  <1> QED BY <1>1, PublishTells

(* A transaction that publishes for one job and leaves the inputs alone.   *)
LEMMA PublishReplies ==
    ASSUME NEW j \in Jobs, NEW e \in Event, e.type # "progress", ~Conflicts(events[j], e),
           PublishOne(j, e), UNCHANGED inputs
    PROVE  \A k \in Jobs : ChatMove(k)
  BY PublishOneTells DEF ChatMove, Replies, ChatRests

(* Every step moves every chat that way.                                   *)
LEMMA ChatMoves ==
    ASSUME TypeInv, Unborn, ChatMirrorsLedgers, [Next]_vars
    PROVE  \A j \in Jobs : ChatMove(j)
  <1>a. /\ inputs \in [Jobs -> Seq(Nat)] /\ events \in [Jobs -> Seq(Event)]
        /\ chat \in [Jobs -> Seq(Message)]
    BY DEF TypeInv, TypeOK
  <1>b. UNCHANGED <<inputs, events, chat>> => \A j \in Jobs : ChatMove(j)
    BY DEF ChatMove, ChatRests
  <1>1. ASSUME NEW j \in Jobs, Create(j) PROVE \A k \in Jobs : ChatMove(k)
    <2>1. inputs[j] = << >> /\ events[j] = << >>
      BY <1>1 DEF Create, Unborn
    <2>2. chat[j] = << >>
      <3>1. Mirrors(inputs[j], events[j], chat[j])
        BY ChatMirrors
      <3>2. Lifecycle(events[j]) = {}
        BY <2>1 DEF Lifecycle
      <3>3. Len(chat[j]) = 0
        <4>1. Cardinality(Lifecycle(events[j])) = 0
          BY <3>2, FS_EmptySet
        <4>2. Len(inputs[j]) = 0
          BY <2>1
        <4> QED BY <3>1, <4>1, <4>2 DEF Mirrors
      <3> QED BY <1>a, <3>3
    <2>3. /\ <<0>> = Append(<< >>, 0) /\ Len(<< >>) = 0
          /\ <<[role |-> "user", ref |-> 1]>> = Append(<< >>, [role |-> "user", ref |-> 1])
      OBVIOUS
    <2>4. Hears(j)
      BY <1>1, <1>a, <2>1, <2>2, <2>3 DEF Create, Hears
    <2>5. \A k \in Jobs \ {j} : ChatRests(k)
      BY <1>1, <1>a DEF Create, ChatRests
    <2> QED BY <2>4, <2>5 DEF ChatMove
  <1>2. ASSUME NEW j \in Jobs, NEW q \in 1..MaxQuestions, Resume(j, q)
        PROVE  \A k \in Jobs : ChatMove(k)
    <2>1. Hears(j)
      BY <1>2, <1>a DEF Resume, Hears
    <2>2. \A k \in Jobs \ {j} : ChatRests(k)
      BY <1>2, <1>a DEF Resume, ChatRests
    <2> QED BY <2>1, <2>2 DEF ChatMove
  <1>3. ASSUME NEW j \in Jobs, Cancel(j) PROVE \A k \in Jobs : ChatMove(k)
    <2>1. /\ CanceledEvent \in Event /\ CanceledEvent.type # "progress"
          /\ ~Conflicts(events[j], CanceledEvent)
      BY <1>3 DEF Cancel, CanceledEvent, Event, TerminalType, Conflicts, Holds
    <2> QED BY <1>3, <2>1, PublishReplies DEF Cancel
  <1>4. ASSUME NEW w \in Workers, WriteProgress(w) PROVE \A k \in Jobs : ChatMove(k)
    <2> DEFINE j == slot[w].job
    <2>1. slot[w].phase = "write" /\ slot[w].out = "progress"
      BY <1>4 DEF WriteProgress
    <2>2. CASE UNCHANGED events
      BY <1>4, <1>b, <2>2 DEF WriteProgress
    <2>3. CASE events' = [events EXCEPT ![j] = Append(events[j], OutEvent(w))]
      <3>1. OutEvent(w) \in Event /\ OutEvent(w).type = "progress"
        BY <2>1, OutEventType DEF OutEvent, OutTypes
      <3>2. j \in Jobs
        BY <2>1, BusySlot
      <3>3. \A k \in Jobs : ChatRests(k)
        BY <1>4, <1>a, <2>3, <3>1, <3>2 DEF WriteProgress, ChatRests
      <3> QED BY <3>3 DEF ChatMove
    <2> QED BY <1>4, <2>2, <2>3 DEF WriteProgress
  <1>5. ASSUME NEW w \in Workers, Complete(w) PROVE \A k \in Jobs : ChatMove(k)
    <2> DEFINE j == slot[w].job
               e == OutEvent(w)
    <2>1. slot[w].phase = "write" /\ slot[w].out \in {"interrupt", "final_result"}
      BY <1>5 DEF Complete
    <2>2. j \in Jobs
      BY <2>1, BusySlot
    <2>3. e \in Event /\ e.type # "progress"
      BY <2>1, OutEventType DEF OutEvent, OutTypes
    <2>4. CASE ~Conflicts(events[j], e) /\ PublishOne(j, e) /\ UNCHANGED inputs
      <3> HIDE DEF j, e
      <3> QED BY <2>2, <2>3, <2>4, PublishReplies
    <2> QED BY <1>5, <1>b, <2>4 DEF Complete, dbVars
  <1>6. ASSUME NEW w \in Workers, Fail(w) PROVE \A k \in Jobs : ChatMove(k)
    <2> DEFINE j == slot[w].job
               e == [type |-> "error", question |-> 0, epoch |-> slot[w].epoch]
    <2>1. slot[w].phase \in {"write", "failing"}
      BY <1>6 DEF Fail
    <2>2. j \in Jobs /\ slot[w] \in Slot /\ events[j] \in Seq(Event)
      BY <2>1, BusySlot DEF TypeInv, TypeOK
    <2>3. CASE UNCHANGED dbVars
      BY <1>b, <2>3 DEF dbVars
    <2>4. CASE HasAuthority(w) /\ PublishOne(j, e) /\ UNCHANGED inputs
      <3>1. e \in Event /\ e.type \in TerminalType /\ e.type # "progress"
        BY <2>2 DEF Event, Slot, TerminalType
      <3>2. \A i \in DOMAIN events[j] : events[j][i].type \notin TerminalType
        BY <2>2, <2>4 DEF TypeInv, LogIsOpen, TerminalStatus, HasAuthority
      <3> HIDE DEF j, e
      <3>3. ~Conflicts(events[j], e)
        BY <2>2, <3>1, <3>2, OpenLogNoConflict
      <3> QED BY <2>2, <2>4, <3>1, <3>3, PublishReplies
    <2> QED BY <1>6, <2>3, <2>4 DEF Fail
  <1>7. ASSUME NEW w \in Workers, Claim(w) PROVE \A k \in Jobs : ChatMove(k)
    <2>1. PICK c \in ClaimChoices([j \in Jobs |-> Reaped(job[j])]) :
             /\ \A j \in ToRepair(c) : ~Conflicts(events[j], RepairEvent(j))
             /\ Publish(ClaimEvents(c))
      BY <1>7 DEF Claim
    <2>2. UNCHANGED inputs
      BY <1>7 DEF Claim
    <2> SUFFICES ASSUME NEW j \in Jobs PROVE ChatMove(j)
      OBVIOUS
    <2>3. CASE j \in DOMAIN ClaimEvents(c)
      <3>1. /\ ClaimEvents(c)[j] \in Event /\ ~Conflicts(events[j], ClaimEvents(c)[j])
            /\ ClaimEvents(c)[j] \in {RepairEvent(j), ExhaustedEvent}
        BY <2>1, <2>3, ClaimPublishes
      <3>2. ClaimEvents(c)[j].type # "progress"
        BY <3>1 DEF RepairEvent, ExhaustedEvent
      <3>3. Tells(j, ClaimEvents(c)[j])
        BY <2>1, <2>3, PublishTells
      <3> QED BY <2>2, <3>1, <3>2, <3>3 DEF ChatMove, Replies
    <2>4. CASE j \notin DOMAIN ClaimEvents(c)
      <3>1. events'[j] = events[j] /\ chat'[j] = chat[j]
        BY <2>1, <2>4, PublishTells
      <3> QED BY <2>2, <3>1 DEF ChatMove, ChatRests
    <2> QED BY <2>3, <2>4
  <1>8. CASE UNCHANGED <<inputs, events, chat>>
    BY <1>8, <1>b
  <1> QED BY <1>1, <1>2, <1>3, <1>4, <1>5, <1>6, <1>7, <1>8
          DEF Next, WorkerStep, Age, ClaimRaises, Restart, Start, Inspect, NodeStart, NodeCommit,
              Emit, Release, Heartbeat, Abandon, Crash, PgToggle, dbVars, vars

(* Before anything is created the chats are empty.                         *)
LEMMA ChatInit == Init => ChatInv
  <1> SUFFICES ASSUME Init PROVE ChatInv
    OBVIOUS
  <1>1. \A j \in Jobs : Shown(chat[j], "user") = {} /\ Shown(chat[j], "assistant") = {}
    BY DEF Init, Shown
  <1>2. \A j \in Jobs : Lifecycle(events[j]) = {} /\ DOMAIN inputs[j] = {}
                        /\ Len(chat[j]) = 0 /\ Len(inputs[j]) = 0
    BY DEF Init, Lifecycle
  <1>3. \A j \in Jobs : Cardinality(Lifecycle(events[j])) = 0
    BY <1>2, FS_EmptySet
  <1>4. \A j \in Jobs : Refs(chat[j], "user") = {} /\ Refs(chat[j], "assistant") = {}
    BY <1>1 DEF Refs
  <1>5. \A j \in Jobs : Mirrors(inputs[j], events[j], chat[j])
    <2> SUFFICES ASSUME NEW j \in Jobs PROVE Mirrors(inputs[j], events[j], chat[j])
      OBVIOUS
    <2>1. /\ Cardinality(Lifecycle(events[j])) = 0 /\ Lifecycle(events[j]) = {}
          /\ DOMAIN inputs[j] = {} /\ Len(chat[j]) = 0 /\ Len(inputs[j]) = 0
          /\ Refs(chat[j], "user") = {} /\ Refs(chat[j], "assistant") = {}
      BY <1>2, <1>3, <1>4
    <2> QED BY <2>1 DEF Mirrors
  <1> QED BY <1>5, ChatMirrors DEF ChatInv, Unborn, Init

(* Every step keeps the chats in step with the inputs and the logs.        *)
LEMMA ChatStep ==
    ASSUME SafetyInv, ChatInv, [Next]_vars
    PROVE  ChatInv'
  <1>a. TypeInv /\ AskInv /\ Unborn /\ ChatMirrorsLedgers
    BY DEF SafetyInv, ChatInv
  <1>1. ASSUME NEW j \in Jobs PROVE Mirrors(inputs'[j], events'[j], chat'[j])
    <2>1. /\ inputs[j] \in Seq(Nat) /\ events[j] \in Seq(Event) /\ chat[j] \in Seq(Message)
          /\ Mirrors(inputs[j], events[j], chat[j])
      BY <1>a, ChatMirrors DEF TypeInv, TypeOK
    <2>2. CASE ChatRests(j)
      <3>1. ASSUME NEW e \in Event, e.type = "progress", events'[j] = Append(events[j], e)
            PROVE  Lifecycle(events'[j]) = Lifecycle(events[j])
        BY <2>1, <3>1, LifecycleGrows
      <3>2. Lifecycle(events'[j]) = Lifecycle(events[j])
        BY <2>2, <3>1 DEF ChatRests
      <3> QED BY <2>1, <2>2, <3>2 DEF ChatRests, Mirrors
    <2>3. CASE Hears(j)
      BY <2>1, <2>3, InputIsShown DEF Hears
    <2>4. CASE Replies(j)
      BY <2>1, <2>4, PublishedIsShown DEF Replies, Tells
    <2> QED BY <1>a, <2>2, <2>3, <2>4, ChatMoves DEF ChatMove
  <1>2. ChatMirrorsLedgers'
    BY <1>1 DEF ChatMirrorsLedgers, Mirrors, Refs, Shown, Lifecycle
  <1>3. ASSUME NEW j \in Jobs, job'[j].status = "absent"
        PROVE  inputs'[j] = << >> /\ events'[j] = << >>
    <2>1. Move(j) /\ job[j] \in Row
      BY <1>a, StepMoves DEF TypeInv, TypeOK
    <2>2. Rests(j)
      BY <1>3, <2>1, <1>a, MoveStatus DEF Move, Submitted, Answered, CanceledBy, Leased, Reported, Asked, Finished
    <2> QED BY <1>3, <1>a, <2>2 DEF Rests, Unborn
  <1> QED BY <1>2, <1>3 DEF ChatInv, Unborn

(* The chat history shows every input and every lifecycle event of a job   *)
(* exactly once, whatever transactions are replayed or recovered.          *)
THEOREM ChatShowsEverythingOnce == Spec => []ChatMirrorsLedgers
  <1>1. ChatInv => ChatMirrorsLedgers
    BY DEF ChatInv
  <1> QED BY <1>1, InitSafetyInv, NextSafetyInv, ChatInit, ChatStep, PTL DEF Spec

-----------------------------------------------------------------------------
(***************************************************************************)
(* The leased, crashing, recovered jobs of JobLifecycle implement the      *)
(* client contract of JobContract, job by job: every move of a job is one  *)
(* of the contract's steps, or invisible to the client.                    *)
(***************************************************************************)

-----------------------------------------------------------------------------
(* The public log *)

PublicOf(e) == [type |-> e.type, question |-> e.question]

(* What a client reads of a log is the log's events, one for one, without  *)
(* their epochs.                                                           *)
LEMMA PublicLogFacts ==
    ASSUME NEW j \in Jobs, events[j] \in Seq(Event)
    PROVE  /\ PublicLog(j) = [i \in 1..Len(events[j]) |-> PublicOf(events[j][i])]
           /\ Len(events[j]) \in Nat
           /\ PublicLog(j) \in Seq({PublicOf(e) : e \in Event})
           /\ Len(PublicLog(j)) = Len(events[j])
  <1>1. DOMAIN events[j] = 1..Len(events[j]) /\ Len(events[j]) \in Nat
    OBVIOUS
  <1>2. PublicLog(j) = [i \in 1..Len(events[j]) |-> PublicOf(events[j][i])]
    BY <1>1 DEF PublicLog, PublicOf
  <1>3. \A i \in 1..Len(events[j]) :
           PublicOf(events[j][i]) \in {PublicOf(e) : e \in Event}
    BY <1>1
  <1>4. PublicLog(j) \in Seq({PublicOf(e) : e \in Event})
    BY <1>1, <1>2, <1>3
  <1> QED BY <1>1, <1>2, <1>4

(* A log that does not change looks the same to its readers.               *)
LEMMA PublicLogSame ==
    ASSUME NEW j \in Jobs, events'[j] = events[j]
    PROVE  PublicLog(j)' = PublicLog(j)
  BY DEF PublicLog

(* An event appended to a log is appended to what its readers see.         *)
LEMMA PublicLogGrows ==
    ASSUME NEW j \in Jobs, events[j] \in Seq(Event), NEW e \in Event,
           events'[j] = Append(events[j], e)
    PROVE  PublicLog(j)' = Append(PublicLog(j), PublicOf(e))
  <1> DEFINE n == Len(events[j])
             P == {PublicOf(f) : f \in Event}
             next == [i \in 1..(n + 1) |-> PublicOf(events'[j][i])]
  <1>1. /\ PublicLog(j) = [i \in 1..n |-> PublicOf(events[j][i])]
        /\ n \in Nat /\ PublicLog(j) \in Seq(P) /\ Len(PublicLog(j)) = n
    BY PublicLogFacts
  <1>2. /\ DOMAIN events'[j] = 1..(n + 1)
        /\ \A i \in 1..n : events'[j][i] = events[j][i]
        /\ events'[j][n + 1] = e
    BY AppendFacts
  <1>3. PublicLog(j)' = next
    BY <1>2 DEF PublicLog, PublicOf
  <1>4. \A i \in 1..n : next[i] = PublicLog(j)[i]
    BY <1>1, <1>2
  <1>5. next[n + 1] = PublicOf(e)
    BY <1>1, <1>2
  <1>6. /\ Append(PublicLog(j), PublicOf(e)) \in Seq(P)
        /\ Len(Append(PublicLog(j), PublicOf(e))) = n + 1
        /\ \A i \in 1..n : Append(PublicLog(j), PublicOf(e))[i] = PublicLog(j)[i]
        /\ Append(PublicLog(j), PublicOf(e))[n + 1] = PublicOf(e)
    <2>1. PublicOf(e) \in P
      OBVIOUS
    <2> HIDE DEF P
    <2> QED BY <1>1, <2>1
  <1>7. next \in Seq(P) /\ Len(next) = n + 1
    <2>1. \A i \in 1..(n + 1) : next[i] \in P
      BY <1>1, <1>2
    <2> QED BY <1>1, <2>1
  <1> HIDE DEF next, P
  <1>8. \A i \in 1..(n + 1) : next[i] = Append(PublicLog(j), PublicOf(e))[i]
    <2> SUFFICES ASSUME NEW i \in 1..(n + 1)
                 PROVE  next[i] = Append(PublicLog(j), PublicOf(e))[i]
      OBVIOUS
    <2> HIDE DEF n
    <2>1. i \in 1..n \/ i = n + 1
      BY <1>1
    <2>2. CASE i \in 1..n
      BY <1>4, <1>6, <2>2
    <2>3. CASE i = n + 1
      BY <1>5, <1>6, <2>3
    <2> QED BY <2>1, <2>2, <2>3
  <1>9. next = Append(PublicLog(j), PublicOf(e))
    BY <1>6, <1>7, <1>8, SeqEqual
  <1> QED BY <1>3, <1>9

-----------------------------------------------------------------------------
(* Each move is a step of the contract. *)

ContractStep(j) == Contract(j)!ContractNext \/ UNCHANGED Contract(j)!contractVars

(* A step that leaves status and log of a job alone is a stutter of its    *)
(* contract.                                                               *)
LEMMA InvisibleStep ==
    ASSUME NEW j \in Jobs, job'[j].status = job[j].status, events'[j] = events[j]
    PROVE  ContractStep(j)
  BY PublicLogSame DEF ContractStep, Contract!contractVars

(* Every move of a job is a step of its contract or a stutter.             *)
LEMMA MoveContract ==
    ASSUME TypeInv, NEW j \in Jobs, Move(j)
    PROVE  ContractStep(j)
  <1>0. /\ events[j] \in Seq(Event) /\ job[j].epoch \in Nat
    BY DEF TypeInv, TypeOK, Row
  <1>1. CASE Rests(j)
    BY <1>1, InvisibleStep DEF Rests
  <1>2. CASE Submitted(j)
    <2>1. PublicLog(j)' = PublicLog(j) /\ job'[j].status = "queued"
      BY <1>2, PublicLogSame, MoveStatus DEF Submitted
    <2>2. Contract(j)!Submit
      BY <1>2, <2>1 DEF Submitted, Contract!Submit
    <2> QED BY <2>2 DEF ContractStep, Contract!ContractNext
  <1>3. CASE Answered(j)
    <2>1. PublicLog(j)' = PublicLog(j) /\ job'[j].status = "queued"
      BY <1>3, PublicLogSame, MoveStatus DEF Answered
    <2>2. Contract(j)!Answer
      BY <1>3, <2>1 DEF Answered, Contract!Answer
    <2> QED BY <2>2 DEF ContractStep, Contract!ContractNext
  <1>4. CASE CanceledBy(j)
    <2>1. CanceledEvent \in Event
          /\ PublicOf(CanceledEvent) = Contract(j)!Plain("canceled")
      BY DEF CanceledEvent, Event, TerminalType, PublicOf, Contract!Plain
    <2>2. PublicLog(j)' = Append(PublicLog(j), PublicOf(CanceledEvent))
      BY <1>0, <1>4, <2>1, PublicLogGrows DEF CanceledBy
    <2>3. job'[j].status = "canceled"
      BY <1>4, MoveStatus
    <2>4. Contract(j)!CancelJob
      BY <1>4, <2>1, <2>2, <2>3 DEF CanceledBy, ActiveStatus, Contract!CancelJob,
                                    Contract!Active
    <2> QED BY <2>4 DEF ContractStep, Contract!ContractNext
  <1>5. CASE Leased(j)
    <2>1. /\ PublicLog(j)' = PublicLog(j) /\ job'[j].status = "running"
          /\ events'[j] = events[j]
      BY <1>5, PublicLogSame, MoveStatus DEF Leased
    <2>2. CASE job[j].status = "queued"
      <3>1. Contract(j)!Begin
        BY <2>1, <2>2 DEF Contract!Begin
      <3> QED BY <3>1 DEF ContractStep, Contract!ContractNext
    <2>3. CASE job[j].status = "running"
      BY <2>1, <2>3, InvisibleStep
    <2> QED BY <1>5, <2>2, <2>3 DEF Leased, Stale
  <1>6. CASE Reported(j)
    <2> DEFINE e == [type |-> "progress", question |-> 0, epoch |-> job[j].epoch]
    <2>1. e \in Event /\ PublicOf(e) = Contract(j)!Plain("progress")
      BY <1>0 DEF Event, PublicOf, Contract!Plain
    <2>2. events'[j] = Append(events[j], e)
      BY <1>6 DEF Reported
    <2> HIDE DEF e
    <2>3. PublicLog(j)' = Append(PublicLog(j), PublicOf(e))
      BY <1>0, <2>1, <2>2, PublicLogGrows
    <2>4. Contract(j)!Report
      BY <1>6, <2>1, <2>3 DEF Reported, Contract!Report
    <2> QED BY <2>4 DEF ContractStep, Contract!ContractNext
  <1>7. CASE Asked(j)
    <2>1. PICK q \in 1..MaxQuestions, n \in {0, job[j].epoch} :
             events'[j] = WithEvent(events[j], Interrupt(q, n))
      BY <1>7 DEF Asked
    <2>2. /\ Interrupt(q, n) \in Event
          /\ PublicOf(Interrupt(q, n)) = Contract(j)!Question(q)
      BY <1>0, BoundsAssumption DEF Interrupt, Event, PublicOf, Contract!Question
    <2>3. job[j].status = "running" /\ job'[j].status = "waiting_input"
      BY <1>7, MoveStatus DEF Asked
    <2>4. Holds(events[j], Interrupt(q, n))
          <=> \E i \in DOMAIN PublicLog(j) : PublicLog(j)[i] = Contract(j)!Question(q)
      BY DEF Holds, SameKey, Interrupt, PublicLog, Contract!Question
    <2>5. PublicLog(j)' =
             IF \E i \in DOMAIN PublicLog(j) : PublicLog(j)[i] = Contract(j)!Question(q)
             THEN PublicLog(j) ELSE Append(PublicLog(j), Contract(j)!Question(q))
      <3>1. CASE Holds(events[j], Interrupt(q, n))
        BY <2>1, <2>4, <3>1, PublicLogSame DEF WithEvent
      <3>2. CASE ~Holds(events[j], Interrupt(q, n))
        <4>1. events'[j] = Append(events[j], Interrupt(q, n))
          BY <2>1, <3>2 DEF WithEvent
        <4>2. PublicLog(j)' = Append(PublicLog(j), PublicOf(Interrupt(q, n)))
          BY <1>0, <2>2, <4>1, PublicLogGrows
        <4> QED BY <2>2, <2>4, <3>2, <4>2
      <3> QED BY <3>1, <3>2
    <2>6. Contract(j)!Ask(q)
      BY <2>3, <2>5 DEF Contract!Ask
    <2> QED BY <2>6 DEF ContractStep, Contract!ContractNext
  <1>8. CASE Finished(j)
    <2>1. PICK type \in {"final_result", "error"}, n \in {0, job[j].epoch} :
          /\ job'[j] = FinishedRow(job[j], StatusOf(type))
          /\ events'[j] = Append(events[j], [type |-> type, question |-> 0,
                                             epoch |-> n])
      BY <1>8 DEF Finished
    <2> DEFINE e == [type |-> type, question |-> 0, epoch |-> n]
    <2>2. e \in Event /\ PublicOf(e) = Contract(j)!Plain(type)
      BY <1>0 DEF Event, TerminalType, PublicOf, Contract!Plain
    <2>3. events'[j] = Append(events[j], e)
      BY <2>1
    <2>4. job[j].status = "running" /\ job'[j].status = StatusOf(type)
      BY <1>8, <2>1 DEF Finished, FinishedRow, Released, TypeInv, TypeOK, Row
    <2> HIDE DEF e
    <2>5. PublicLog(j)' = Append(PublicLog(j), PublicOf(e))
      BY <1>0, <2>2, <2>3, PublicLogGrows
    <2>6. Contract(j)!Finish(StatusOf(type), type)
      BY <2>2, <2>4, <2>5 DEF Contract!Finish
    <2>7. \/ type = "final_result" /\ StatusOf(type) = "succeeded"
          \/ type = "error" /\ StatusOf(type) = "failed"
      BY DEF StatusOf
    <2>8. \/ Contract(j)!Finish("succeeded", "final_result")
          \/ Contract(j)!Finish("failed", "error")
      BY <2>6, <2>7
    <2> QED BY <2>8 DEF ContractStep, Contract!ContractNext
  <1> QED BY <1>1, <1>2, <1>3, <1>4, <1>5, <1>6, <1>7, <1>8 DEF Move

(* Each job keeps the contract of the job API: whatever happens to leases, *)
(* slots and checkpoints, a client that reads the status and the event log *)
(* sees a job that ran once.                                               *)
THEOREM JobsKeepTheContract == Spec => KeepsContract
  <1>1. Init => \A j \in Jobs : Contract(j)!ContractInit
    BY DEF Init, AbsentRow, PublicLog, Contract!ContractInit
  <1>2. SafetyInv /\ [Next]_vars =>
           [\A j \in Jobs :
              [Contract(j)!ContractNext]_(Contract(j)!contractVars)]_vars
    <2> SUFFICES ASSUME SafetyInv, [Next]_vars, NEW j \in Jobs
                 PROVE  ContractStep(j)
      BY DEF ContractStep
    <2> QED BY StepMoves, MoveContract DEF SafetyInv
  <1> QED BY <1>1, <1>2, SafetyInvariant, PTL DEF Spec, KeepsContract

=============================================================================
