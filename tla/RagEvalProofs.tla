---------------------------- MODULE RagEvalProofs ----------------------------
(***************************************************************************)
(* Theorems about RagEvalRuns, for every set of runs, slots and requests,  *)
(* every limit, and whatever is offered or was there before.               *)
(***************************************************************************)
EXTENDS RagEvalRuns, FiniteSetTheorems, TLAPS

-----------------------------------------------------------------------------
(* Type correctness.  A slot in the middle of a run has a run, so that     *)
(* what it reads of it is a flag and a status, and the status it is about  *)
(* to mark the run with is an end.                                         *)

Working == Holding \cup {"mark"}

SlotsHaveRuns ==
    \A w \in Slots : /\ slot[w].phase \in Working => slot[w].run \in Runs
                     /\ slot[w].phase = "mark" => slot[w].found \in TerminalStatus

TypeInv == RagTypeOK /\ SlotsHaveRuns

(* The updates of a row return rows.                                       *)
LEMMA RowUpdates ==
    ASSUME NEW row \in Row, NEW s \in {"none", "queued", "running", "succeeded", "failed", "cancelled"}
    PROVE  Ended(row, s) \in Row /\ Queued(row) \in Row
  BY DEF Row, Ended, Queued

(* complete_job, fail_job and cancel_job keep the table's type.            *)
LEMMA RowsTyped ==
    ASSUME RagTypeOK, NEW r, CompleteJob(r) \/ FailJob(r) \/ CancelJob(r)
    PROVE  sql' \in [Runs -> Row]
  BY RowUpdates DEF RagTypeOK, CompleteJob, FailJob, CancelJob

(* What a slot reads of its run, in the file or in its memory.             *)
LEMMA ReadsTyped ==
    ASSUME TypeInv, NEW w \in Slots, slot[w].phase \in Working
    PROVE  /\ Run(w) \in Runs
           /\ Flag(w) \in BOOLEAN
           /\ State(w) \in {"none"} \cup ActiveStatus \cup TerminalStatus
  BY DEF TypeInv, RagTypeOK, SlotsHaveRuns, Run, Flag, State, Present, File, Slot

(* The writes of a slot and of a request keep the files' type.             *)
LEMMA FilesTyped ==
    ASSUME RagTypeOK
    PROVE  /\ \A r, s : s \in ActiveStatus \cup TerminalStatus /\ SetStatus(r, s)
                 => file' \in [Runs -> File]
           /\ \A r : SetCancelling(r) => file' \in [Runs -> File]
           /\ \A r, k, b : k \in Kinds \cup {"none"} /\ b \in Runs \cup {None} /\ Created(r, k, b)
                 => file' \in [Runs -> File]
           /\ \A w, s : s \in ActiveStatus \cup TerminalStatus /\ Flag(w) \in BOOLEAN /\ Writes(w, s)
                 => file' \in [Runs -> File]
  <1>1. ASSUME NEW r, NEW s, s \in ActiveStatus \cup TerminalStatus, SetStatus(r, s)
        PROVE  file' \in [Runs -> File]
    <2>1. \A x \in File : [x EXCEPT !.state = s, !.quiet = FALSE] \in File
      BY <1>1 DEF File
    <2> QED BY <1>1, <2>1 DEF RagTypeOK, SetStatus
  <1>2. ASSUME NEW r, SetCancelling(r) PROVE file' \in [Runs -> File]
    <2>1. \A x \in File : [x EXCEPT !.state = "cancelling", !.cancel = TRUE, !.quiet = FALSE] \in File
      BY DEF File, ActiveStatus
    <2> QED BY <1>2, <2>1 DEF RagTypeOK, SetCancelling
  <1>3. ASSUME NEW r, NEW k, NEW b, k \in Kinds \cup {"none"}, b \in Runs \cup {None}, Created(r, k, b)
        PROVE  file' \in [Runs -> File]
    <2>1. [state |-> "queued", kind |-> k, base |-> b, cancel |-> FALSE, quiet |-> FALSE] \in File
      BY <1>3 DEF File, ActiveStatus
    <2> QED BY <1>3, <2>1 DEF RagTypeOK, Created
  <1>4. ASSUME NEW w, NEW s, s \in ActiveStatus \cup TerminalStatus, Flag(w) \in BOOLEAN, Writes(w, s)
        PROVE  file' \in [Runs -> File]
    <2>1. \A x \in File : [x EXCEPT !.state = s, !.cancel = Flag(w), !.quiet = FALSE] \in File
      BY <1>4 DEF File
    <2> QED BY <1>4, <2>1 DEF RagTypeOK, Writes
  <1> QED BY <1>1, <1>2, <1>3, <1>4

(* The moves of a slot keep its type.                                      *)
LEMMA SlotsTyped ==
    ASSUME RagTypeOK
    PROVE  /\ \A w, p : p \in SlotPhase /\ GoTo(w, p) => slot' \in [Slots -> Slot]
           /\ \A w, p, s : /\ p \in SlotPhase /\ Flag(w) \in BOOLEAN /\ Moves(w, p, s)
                           /\ s \in {"none"} \cup ActiveStatus \cup TerminalStatus
                 => slot' \in [Slots -> Slot]
           /\ \A w : Run(w) \in Runs /\ Leaves(w) => slot' \in [Slots -> Slot]
           /\ IdleSlot \in Slot
           /\ [IdleSlot EXCEPT !.phase = "dead"] \in Slot
  <1>1. ASSUME NEW w, NEW p, p \in SlotPhase, GoTo(w, p) PROVE slot' \in [Slots -> Slot]
    <2>1. \A x \in Slot : [x EXCEPT !.phase = p] \in Slot
      BY <1>1 DEF Slot
    <2>2. slot' = [slot EXCEPT ![w] = [slot[w] EXCEPT !.phase = p]]
      BY <1>1 DEF GoTo
    <2> QED BY <2>1, <2>2 DEF RagTypeOK
  <1>2. ASSUME NEW w, NEW p, NEW s, p \in SlotPhase, Flag(w) \in BOOLEAN, Moves(w, p, s),
               s \in {"none"} \cup ActiveStatus \cup TerminalStatus
        PROVE  slot' \in [Slots -> Slot]
    <2>1. \A x \in Slot : [x EXCEPT !.phase = p, !.seen = Flag(w), !.found = s] \in Slot
      BY <1>2 DEF Slot
    <2> QED BY <1>2, <2>1 DEF RagTypeOK, Moves
  <1>3. IdleSlot \in Slot
    BY DEF IdleSlot, Slot, SlotPhase
  <1>4. \A r \in Runs : [IdleSlot EXCEPT !.phase = "done", !.run = r] \in Slot
    BY <1>3 DEF Slot, SlotPhase
  <1>5. ASSUME NEW w, Run(w) \in Runs, Leaves(w) PROVE slot' \in [Slots -> Slot]
    BY <1>4, <1>5 DEF RagTypeOK, Leaves
  <1>6. [IdleSlot EXCEPT !.phase = "dead"] \in Slot
    BY <1>3 DEF Slot, SlotPhase
  <1> QED BY <1>1, <1>2, <1>3, <1>5, <1>6

(* The requests keep their type.                                           *)
LEMMA RequestsTyped ==
    ASSUME RagTypeOK, NEW c
    PROVE  /\ ReqEnds(c) => web' \in [Clients -> Request]
           /\ \A p \in RequestPhase : ReqGoes(c, p) => web' \in [Clients -> Request]
           /\ \A p \in RequestPhase, rs \in SUBSET Runs, k \in Kinds \cup {"none"}, b \in Runs \cup {None} :
                 web' = [web EXCEPT ![c] = [phase |-> p, runs |-> rs, kind |-> k, base |-> b]]
                 => web' \in [Clients -> Request]
           /\ \A p \in RequestPhase, rs \in SUBSET Runs :
                 web' = [web EXCEPT ![c] = [NoRequest EXCEPT !.phase = p, !.runs = rs]]
                 => web' \in [Clients -> Request]
  <1>1. NoRequest \in Request
    BY DEF NoRequest, Request, RequestPhase
  <1>2. ReqEnds(c) => web' \in [Clients -> Request]
    BY <1>1 DEF RagTypeOK, ReqEnds
  <1>3. ASSUME NEW p \in RequestPhase, ReqGoes(c, p) PROVE web' \in [Clients -> Request]
    <2>1. \A x \in Request : [x EXCEPT !.phase = p] \in Request
      BY DEF Request
    <2> QED BY <1>3, <2>1 DEF RagTypeOK, ReqGoes
  <1>4. ASSUME NEW p \in RequestPhase, NEW rs \in SUBSET Runs, NEW k \in Kinds \cup {"none"},
               NEW b \in Runs \cup {None},
               web' = [web EXCEPT ![c] = [phase |-> p, runs |-> rs, kind |-> k, base |-> b]]
        PROVE  web' \in [Clients -> Request]
    <2>1. [phase |-> p, runs |-> rs, kind |-> k, base |-> b] \in Request
      BY DEF Request
    <2> QED BY <1>4, <2>1 DEF RagTypeOK
  <1>5. ASSUME NEW p \in RequestPhase, NEW rs \in SUBSET Runs,
               web' = [web EXCEPT ![c] = [NoRequest EXCEPT !.phase = p, !.runs = rs]]
        PROVE  web' \in [Clients -> Request]
    <2>1. [NoRequest EXCEPT !.phase = p, !.runs = rs] \in Request
      BY <1>1 DEF Request
    <2> QED BY <1>5, <2>1 DEF RagTypeOK
  <1> QED BY <1>2, <1>3, <1>4, <1>5

(* At the start there are the given runs, and nobody works.                *)
LEMMA TypeInit == Init => TypeInv
  <1> SUFFICES ASSUME Init PROVE TypeInv
    OBVIOUS
  <1>1. file \in [Runs -> File]
    BY RagAssumption DEF Init, File, Done, ActiveStatus, TerminalStatus
  <1>2. sql \in [Runs -> Row]
    BY DEF Init, Row
  <1>3. slot \in [Slots -> Slot]
    BY DEF Init, IdleSlot, Slot, SlotPhase
  <1>4. /\ beat \in [Slots -> Beat] /\ claimLock \in Slots \cup {None}
        /\ source \in BOOLEAN /\ asked \in Nat /\ faults \in Nat /\ slow \in Nat
    BY DEF Init, Beat
  <1>5. web \in [Clients -> Request]
    BY DEF Init, NoRequest, Request, RequestPhase
  <1>6. SlotsHaveRuns
    BY DEF Init, SlotsHaveRuns, IdleSlot, Working, Holding
  <1> QED BY <1>1, <1>2, <1>3, <1>4, <1>5, <1>6 DEF TypeInv, RagTypeOK

(* Requests keep the types; they leave the worker alone.                   *)
LEMMA RequestTypeStep ==
    ASSUME TypeInv, NEW c \in Clients,
           \/ \E r \in Runs :
                 \/ StartIngestion(c, r) \/ StartQuery(c, r) \/ StartCandidates(c, r)
                 \/ StartTuning(c, r) \/ StartEvaluation(c, r) \/ StartGovernance(c, r)
                 \/ ImportReboundCandidate(c, r)
                 \/ Cancel(c, r) \/ Read(c, r)
                 \/ DeleteEvaluation(c, r) \/ DeleteIngestion(c, r) \/ DeleteDerived(c, r)
           \/ RequestStep(c)
    PROVE  TypeInv'
  <1> USE DEF storeVars, workerVars, bounded
  <1>a. RagTypeOK
    BY DEF TypeInv
  <1>b. asked + 1 \in Nat /\ faults + 1 \in Nat
    BY <1>a DEF RagTypeOK
  <1>c. UNCHANGED slot => SlotsHaveRuns'
    BY DEF TypeInv, SlotsHaveRuns
  <1> DEFINE Typed == /\ file' \in [Runs -> File]
                      /\ sql' \in [Runs -> Row]
                      /\ web' \in [Clients -> Request]
                      /\ UNCHANGED <<source, workerVars, slow>>
                      /\ asked' \in Nat /\ faults' \in Nat
  <1>d. Typed => TypeInv'
    BY <1>a, <1>c DEF TypeInv, RagTypeOK
  <1>e. /\ "start" \in RequestPhase /\ "enqueue" \in RequestPhase /\ "cancel" \in RequestPhase
        /\ "cancelSql" \in RequestPhase /\ "cancelled" \in RequestPhase /\ "stale" \in RequestPhase
        /\ "staleLoad" \in RequestPhase /\ "staleMark" \in RequestPhase /\ "delete" \in RequestPhase
    BY DEF RequestPhase
  <1>f. {"failed", "cancelled"} \subseteq ActiveStatus \cup TerminalStatus
    BY DEF TerminalStatus
  <1>1. ASSUME NEW r \in Runs, StartIngestion(c, r) PROVE Typed
    <2>1. file' \in [Runs -> File]
      BY <1>1, <1>a, FilesTyped DEF StartIngestion, Kinds
    <2>2. web' \in [Clients -> Request]
      BY <1>1, <1>a, <1>e, RequestsTyped DEF StartIngestion, Kinds
    <2> QED BY <1>1, <1>a, <2>1, <2>2 DEF StartIngestion, RagTypeOK
  <1>2. ASSUME NEW r \in Runs, NEW k \in Kinds, NEW b \in Runs, Starts(c, r, k, b) PROVE Typed
    <2>1. web' \in [Clients -> Request]
      BY <1>2, <1>a, <1>e, RequestsTyped DEF Starts
    <2> QED BY <1>2, <1>a, <2>1 DEF Starts, RagTypeOK
  <1>3. ASSUME NEW r \in Runs,
               \/ StartQuery(c, r) \/ StartCandidates(c, r) \/ StartTuning(c, r)
               \/ StartEvaluation(c, r) \/ StartGovernance(c, r)
        PROVE  Typed
    BY <1>2, <1>3 DEF StartQuery, StartCandidates, StartTuning, StartEvaluation, StartGovernance, Kinds
  <1>4. ASSUME NEW r \in Runs, ImportReboundCandidate(c, r) PROVE Typed
    <2>1. PICK i \in Runs :
             file' = [file EXCEPT ![r] = [state |-> "succeeded", base |-> i, cancel |-> FALSE,
                                         kind |-> "candidate_generation", quiet |-> FALSE]]
      BY <1>4 DEF ImportReboundCandidate
    <2>2. [state |-> "succeeded", base |-> i, cancel |-> FALSE,
           kind |-> "candidate_generation", quiet |-> FALSE] \in File
      BY DEF File, Kinds, TerminalStatus
    <2> QED BY <1>4, <1>a, <2>1, <2>2 DEF ImportReboundCandidate, RagTypeOK
  <1>5. ASSUME NEW r \in Runs, Cancel(c, r) \/ Read(c, r) PROVE Typed
    <2>0. {r} \in SUBSET Runs
      OBVIOUS
    <2>1. web' \in [Clients -> Request]
      BY <1>5, <1>a, <1>e, <2>0, RequestsTyped DEF Cancel, Read
    <2> QED BY <1>5, <1>a, <1>b, <2>1 DEF Cancel, Read, Requested, RagTypeOK
  <1>6. ASSUME NEW rs \in SUBSET Runs, Deletes(c, rs) PROVE web' \in [Clients -> Request]
    BY <1>6, <1>a, <1>e, RequestsTyped DEF Deletes
  <1>7. ASSUME NEW r \in Runs, DeleteEvaluation(c, r) PROVE Typed
    <2>1. sql' \in [Runs -> Row]
      BY <1>7, <1>a, RowsTyped DEF DeleteEvaluation, RagTypeOK
    <2> QED BY <1>7, <1>6, <1>a, <1>b, <2>1 DEF DeleteEvaluation, Requested, RagTypeOK
  <1>8. ASSUME NEW r \in Runs, DeleteIngestion(c, r) \/ DeleteDerived(c, r) PROVE Typed
    <2>1. {r} \cup References(r) \in SUBSET Runs
      BY DEF References
    <2> QED BY <1>8, <1>6, <1>a, <1>b, <2>1
            DEF DeleteIngestion, DeleteDerived, Requested, RagTypeOK
  <1>9. CASE StartWrites(c)
    <2>1. web[c].kind \in Kinds \cup {"none"} /\ web[c].base \in Runs \cup {None}
      BY <1>a DEF RagTypeOK, Request
    <2>2. file' \in [Runs -> File]
      BY <1>9, <1>a, <2>1, FilesTyped DEF StartWrites
    <2>3. web' \in [Clients -> Request]
      BY <1>9, <1>a, <1>e, RequestsTyped DEF StartWrites
    <2> QED BY <1>9, <1>a, <1>d, <2>2, <2>3 DEF StartWrites, RagTypeOK
  <1>10. CASE Enqueue(c) \/ EnqueueRaises(c)
    <2>1. sql' \in [Runs -> Row]
      BY <1>10, <1>a, RowUpdates DEF Enqueue, EnqueueRaises, RagTypeOK
    <2>2. file' \in [Runs -> File]
      BY <1>10, <1>a, <1>f, FilesTyped DEF Enqueue, EnqueueRaises, RagTypeOK
    <2>3. web' \in [Clients -> Request]
      BY <1>10, <1>a, RequestsTyped DEF Enqueue, EnqueueRaises
    <2> QED BY <1>10, <1>a, <1>d, <1>b, <2>1, <2>2, <2>3 DEF Enqueue, EnqueueRaises, RagTypeOK
  <1>11. CASE RunIsGone(c) \/ StaleLoad(c)
    <2>1. web' \in [Clients -> Request]
      BY <1>11, <1>a, <1>e, RequestsTyped DEF RunIsGone, StaleLoad
    <2> QED BY <1>11, <1>a, <1>d, <2>1 DEF RunIsGone, StaleLoad, RagTypeOK
  <1>12. CASE CancelMarks(c) \/ CancelEnds(c) \/ StaleMark(c)
    <2>1. file' \in [Runs -> File]
      BY <1>12, <1>a, <1>f, FilesTyped DEF CancelMarks, CancelEnds, StaleMark
    <2>2. web' \in [Clients -> Request]
      BY <1>12, <1>a, <1>e, RequestsTyped DEF CancelMarks, CancelEnds, StaleMark
    <2> QED BY <1>12, <1>a, <1>d, <2>1, <2>2 DEF CancelMarks, CancelEnds, StaleMark, RagTypeOK
  <1>13. CASE CancelSql(c) \/ StaleSql(c)
    <2>1. sql' \in [Runs -> Row]
      BY <1>13, <1>a, RowsTyped DEF CancelSql, StaleSql
    <2>2. web' \in [Clients -> Request]
      BY <1>13, <1>a, <1>e, RequestsTyped DEF CancelSql, StaleSql
    <2> QED BY <1>13, <1>a, <1>d, <2>1, <2>2 DEF CancelSql, StaleSql, RagTypeOK
  <1>14. CASE RemoveDirectories(c)
    <2>1. \A x \in File : [x EXCEPT !.state = "absent"] \in File
      BY DEF File
    <2>2. file' \in [Runs -> File]
      BY <1>14, <1>a, <2>1 DEF RemoveDirectories, RagTypeOK
    <2>3. web' \in [Clients -> Request]
      BY <1>14, <1>a, RequestsTyped DEF RemoveDirectories
    <2> QED BY <1>14, <1>a, <1>d, <2>2, <2>3 DEF RemoveDirectories, RagTypeOK
  <1> QED BY <1>d, <1>1, <1>3, <1>4, <1>5, <1>7, <1>8, <1>9, <1>10, <1>11, <1>12, <1>13, <1>14
          DEF RequestStep

(* A slot's thread and its heartbeat keep the types.                       *)
LEMMA SlotTypeStep ==
    ASSUME TypeInv, NEW w \in Slots, SlotStep(w) \/ HeartbeatStep(w)
    PROVE  TypeInv'
  <1> USE DEF storeVars, workerVars, bounded
  <1>a. RagTypeOK
    BY DEF TypeInv
  <1> DEFINE Typed == /\ file' \in [Runs -> File]
                      /\ sql' \in [Runs -> Row]
                      /\ slot' \in [Slots -> Slot]
                      /\ beat' \in [Slots -> Beat]
                      /\ claimLock' \in Slots \cup {None}
                      /\ UNCHANGED <<source, web, asked, faults, slow>>
  <1> DEFINE Others == /\ \A v \in Slots \ {w} : slot'[v] = slot[v]
                       /\ slot'[w].phase \in Working => slot'[w].run \in Runs
                       /\ slot'[w].phase = "mark" => slot'[w].found \in TerminalStatus
  <1>b. Typed /\ Others => TypeInv'
    BY <1>a DEF TypeInv, RagTypeOK, SlotsHaveRuns
  <1>c. RagTypeOK /\ UNCHANGED slot => Others
    BY DEF TypeInv, SlotsHaveRuns
  <1>d. slot \in [Slots -> Slot] /\ slot[w] \in Slot /\ slot[w].phase \in SlotPhase
    BY <1>a DEF RagTypeOK, Slot
  <1>e. slot[w].phase \in Working => Run(w) \in Runs /\ slot[w].run = Run(w)
    BY DEF TypeInv, SlotsHaveRuns, Run
  <1>f. \A p : GoTo(w, p) => /\ \A v \in Slots \ {w} : slot'[v] = slot[v]
                             /\ slot'[w].phase = p /\ slot'[w].run = slot[w].run
    BY <1>d DEF GoTo, Slot
  <1>g. \A p, s : Moves(w, p, s) => /\ \A v \in Slots \ {w} : slot'[v] = slot[v]
                                    /\ slot'[w].phase = p /\ slot'[w].run = slot[w].run
                                    /\ slot'[w].found = s
    BY <1>d DEF Moves, Slot
  <1>h. Leaves(w) => /\ \A v \in Slots \ {w} : slot'[v] = slot[v]
                     /\ slot'[w].phase = "done" /\ slot'[w].run = Run(w)
    BY <1>d DEF Leaves, IdleSlot
  <1>i. slot[w].phase \in Working => Flag(w) \in BOOLEAN
                                    /\ State(w) \in {"none"} \cup ActiveStatus \cup TerminalStatus
    BY ReadsTyped
  <1>j. slot[w].found \in {"none"} \cup ActiveStatus \cup TerminalStatus
    BY <1>a DEF RagTypeOK, Slot
  <1>1. CASE Reconcile(w)
    <2> DEFINE old == {r \in Runs : sql[r].status = "running" /\ sql[r].stale}
    <2>1. sql' \in [Runs -> Row]
      BY <1>1, <1>a, RowUpdates DEF Reconcile, RagTypeOK
    <2>2. [IdleSlot EXCEPT !.todo = old, !.phase = IF old = {} THEN "poll" ELSE "sweep"] \in Slot
      BY <1>a, SlotsTyped DEF Slot, SlotPhase
    <2>3. slot' \in [Slots -> Slot] /\ \A v \in Slots \ {w} : slot'[v] = slot[v]
      BY <1>1, <1>d, <2>2 DEF Reconcile
    <2>4. slot'[w].phase \in {"poll", "sweep"}
      BY <1>1, <1>d DEF Reconcile, IdleSlot
    <2>5. Others
      BY <2>3, <2>4 DEF Working, Holding
    <2> QED BY <1>1, <1>a, <1>b, <2>1, <2>3, <2>5 DEF Reconcile, RagTypeOK
  <1>2. CASE Sweep(w)
    <2>1. CASE slot[w].todo = {} /\ GoTo(w, "poll")
      <3>0. "poll" \in SlotPhase
        BY DEF SlotPhase
      <3>p. \A p : p \in SlotPhase /\ GoTo(w, p) => slot' \in [Slots -> Slot]
        BY <1>a, SlotsTyped
      <3>q. GoTo(w, "poll")
        BY <2>1
      <3>1. slot' \in [Slots -> Slot]
        BY <3>p, <3>q, <3>0
      <3>2. Others
        BY <2>1, <1>f DEF Working, Holding
      <3> QED BY <1>2, <1>a, <1>b, <3>1, <3>2 DEF Sweep, RagTypeOK
    <2>2. ASSUME NEW r \in slot[w].todo,
                 slot' = [slot EXCEPT ![w] =
                        [@ EXCEPT !.todo  = slot[w].todo \ {r},
                                  !.run   = IF Active(r) THEN r ELSE None,
                                  !.phase = IF Active(r) THEN "mark" ELSE "sweep",
                                  !.found = IF Active(r) THEN "failed" ELSE "none",
                                  !.seen = file[r].cancel,
                                  !.next = "sweep"]]
          PROVE  TypeInv'
      <3>1. r \in Runs /\ file[r].cancel \in BOOLEAN
        BY <1>a, <1>d DEF RagTypeOK, Slot, File
      <3>2. slot'[w] = [phase |-> IF Active(r) THEN "mark" ELSE "sweep",
                        run   |-> IF Active(r) THEN r ELSE None,
                        full  |-> slot[w].full,
                        todo  |-> slot[w].todo \ {r},
                        seen  |-> file[r].cancel,
                        found |-> IF Active(r) THEN "failed" ELSE "none",
                        next  |-> "sweep",
                        lost  |-> slot[w].lost]
        BY <2>2, <1>d DEF Slot
      <3>x. slot'[w] \in Slot
        BY <3>1, <3>2, <1>d DEF Slot, SlotPhase, TerminalStatus
      <3>y. \A v \in Slots : v # w => slot'[v] = slot[v]
        BY <2>2, <1>d
      <3>z. DOMAIN slot' = Slots /\ slot' = [v \in Slots |-> slot'[v]]
        BY <2>2, <1>d
      <3>3. slot' \in [Slots -> Slot] /\ \A v \in Slots \ {w} : slot'[v] = slot[v]
        <4>1. \A v \in Slots : slot'[v] \in Slot
          BY <1>d, <3>x, <3>y
        <4> QED BY <4>1, <3>y, <3>z
      <3>4. /\ slot'[w].phase \in Working => slot'[w].run \in Runs
            /\ slot'[w].phase = "mark" => slot'[w].found \in TerminalStatus
        BY <2>2, <1>d, <3>1 DEF Slot, Working, Holding, TerminalStatus
      <3> QED BY <1>2, <1>a, <1>b, <3>3, <3>4 DEF Sweep, RagTypeOK
    <2> QED BY <1>2, <2>1, <2>2 DEF Sweep
  <1>3. CASE CountKinds(w)
    <2>1. CASE slot' = [slot EXCEPT ![w] = IdleSlot]
      <3>1. slot' \in [Slots -> Slot] /\ Others
        BY <2>1, <1>a, <1>d, SlotsTyped DEF IdleSlot, Working, Holding
      <3> QED BY <1>3, <1>a, <1>b, <3>1 DEF CountKinds, RagTypeOK
    <2>2. CASE slot' = [slot EXCEPT ![w].phase = "counted",
                                    ![w].full = {k \in Kinds : Cardinality(Running(k)) >= Limit[k]}]
      <3> DEFINE full == {k \in Kinds : Cardinality(Running(k)) >= Limit[k]}
      <3>1. [slot[w] EXCEPT !.phase = "counted", !.full = full] \in Slot
        BY <1>d DEF Slot, SlotPhase
      <3>2. slot' = [slot EXCEPT ![w] = [slot[w] EXCEPT !.phase = "counted", !.full = full]]
        BY <2>2, <1>d
      <3> HIDE DEF full
      <3>3. slot' \in [Slots -> Slot] /\ Others
        BY <3>1, <3>2, <1>d DEF Slot, Working, Holding
      <3> QED BY <1>3, <1>a, <1>b, <3>3 DEF CountKinds, RagTypeOK
    <2> QED BY <1>3, <2>1, <2>2 DEF CountKinds
  <1>4. CASE TakeJob(w)
    <2>1. claimLock' \in Slots \cup {None}
      BY <1>4, <1>a DEF TakeJob, RagTypeOK
    <2>2. ASSUME NEW r \in First(Claimable(slot[w].full)),
                 sql' = [sql EXCEPT ![r] = [status |-> "running", slot |-> w, stale |-> FALSE,
                                            claims |-> @.claims + 1]],
                 slot' = [slot EXCEPT ![w] = [IdleSlot EXCEPT !.phase = "claimed", !.run = r]]
          PROVE  TypeInv'
      <3>1. r \in Runs
        BY <2>2 DEF First, Claimable
      <3>2. [status |-> "running", slot |-> w, stale |-> FALSE, claims |-> sql[r].claims + 1] \in Row
        BY <3>1, <1>a DEF RagTypeOK, Row
      <3>3. sql' \in [Runs -> Row]
        BY <2>2, <3>1, <3>2, <1>a DEF RagTypeOK
      <3>4. [IdleSlot EXCEPT !.phase = "claimed", !.run = r] \in Slot
        BY <3>1, <1>a, SlotsTyped DEF Slot, SlotPhase
      <3>5. slot' \in [Slots -> Slot] /\ Others
        BY <2>2, <3>1, <3>4, <1>d DEF IdleSlot
      <3> QED BY <1>4, <1>a, <1>b, <2>1, <3>3, <3>5 DEF TakeJob, RagTypeOK
    <2>3. CASE slot' = [slot EXCEPT ![w] = IdleSlot] /\ UNCHANGED sql
      <3>1. slot' \in [Slots -> Slot] /\ Others
        BY <2>3, <1>a, <1>d, SlotsTyped DEF IdleSlot, Working, Holding
      <3> QED BY <1>4, <1>a, <1>b, <2>1, <2>3, <3>1 DEF TakeJob, RagTypeOK
    <2> QED BY <1>4, <2>2, <2>3 DEF TakeJob
  <1>5. CASE OpenRun(w)
    <2>1. sql' \in [Runs -> Row]
      BY <1>5, <1>a, RowsTyped DEF OpenRun, RagTypeOK
    <2>2. Run(w) \in Runs
      BY <1>5, <1>e DEF OpenRun, Working, Holding
    <2>3. Present(Run(w)) => file[Run(w)].state \in ActiveStatus \cup TerminalStatus
      BY <2>2, <1>a DEF Present, RagTypeOK, File
    <2>4. Present(Run(w)) => [slot[w] EXCEPT !.phase = "starting", !.found = file[Run(w)].state] \in Slot
      BY <2>3, <1>d DEF Slot, SlotPhase
    <2>5. slot' \in [Slots -> Slot]
      BY <1>5, <1>a, <1>d, <2>4, SlotsTyped DEF OpenRun
    <2>6. /\ \A v \in Slots \ {w} : slot'[v] = slot[v]
          /\ slot'[w].phase \in {"dead", "idle", "starting"}
          /\ slot'[w].phase \in {"dead", "idle"} \/ slot'[w].run = Run(w)
      BY <1>5, <1>d DEF OpenRun, IdleSlot, Slot, Run
    <2>7. Others
      BY <2>2, <2>6 DEF Working, Holding
    <2> QED BY <1>5, <1>a, <1>b, <2>1, <2>5, <2>7 DEF OpenRun, RagTypeOK
  <1>6. CASE MarkStarted(w)
    <2>1. Flag(w) \in BOOLEAN /\ Run(w) \in Runs /\ slot[w].run = Run(w)
      BY <1>6, <1>e, <1>i DEF MarkStarted, Working, Holding
    <2>2. file' \in [Runs -> File]
      BY <1>6, <1>a, <2>1, FilesTyped DEF MarkStarted, ActiveStatus
    <2>3. slot' \in [Slots -> Slot] /\ Others
      BY <1>6, <1>a, <1>g, <2>1, SlotsTyped DEF MarkStarted, ActiveStatus, SlotPhase
    <2>4. beat' \in [Slots -> Beat]
      BY <1>6, <1>a DEF MarkStarted, RagTypeOK, Beat
    <2> QED BY <1>6, <1>a, <1>b, <2>2, <2>3, <2>4 DEF MarkStarted, RagTypeOK
  <1>7. ASSUME slot[w].phase \in Working, execUnchanged' = execUnchanged,
               UNCHANGED file \/ \E s \in ActiveStatus \cup TerminalStatus : Writes(w, s),
               \/ \E p \in SlotPhase \ {"mark"} : GoTo(w, p)
               \/ \E p \in SlotPhase \ {"mark"}, s \in {"none"} \cup ActiveStatus \cup TerminalStatus :
                     Moves(w, p, s)
               \/ Leaves(w)
        PROVE  TypeInv'
    <2>1. file' \in [Runs -> File]
      BY <1>7, <1>a, <1>i, FilesTyped DEF RagTypeOK
    <2>2. slot' \in [Slots -> Slot]
      BY <1>7, <1>a, <1>e, <1>i, SlotsTyped
    <2>3. Others
      BY <1>7, <1>e, <1>f, <1>g, <1>h
    <2> QED BY <1>7, <1>a, <1>b, <2>1, <2>2, <2>3 DEF execUnchanged, RagTypeOK
  <1>8. CASE Execute(w)
    <2>0. /\ {"begin", "open", "work", "clear", "stopping", "ended", "raised", "mark"} \subseteq SlotPhase
          /\ {"begin", "open", "work", "clear", "stopping"} \subseteq Working
      BY DEF SlotPhase, Working, Holding
    <2>s. {"running", "cancelled", "failed", "staged", "succeeded"} \subseteq ActiveStatus \cup TerminalStatus
      BY DEF ActiveStatus, TerminalStatus
    <2>1. ASSUME NEW p \in SlotPhase \ {"mark"}, Begin(w, p) PROVE TypeInv'
      BY <2>1, <2>0, <2>s, <1>7 DEF Begin
    <2>2. CASE OpenIndex(w)
      BY <2>2, <2>0, <2>s, <1>7, <1>j DEF OpenIndex, Looks
    <2>3. CASE Check(w)
      BY <2>3, <2>0, <1>7, <1>j DEF Check, Looks
    <2>4. CASE Stop(w) \/ Announce(w) \/ Break(w)
      BY <2>4, <2>0, <2>s, <1>7 DEF Stop, Announce, Break
    <2>5. ASSUME NEW s \in {"staged", "succeeded"}, Finish(w, s) PROVE TypeInv'
      BY <2>5, <2>0, <2>s, <1>7 DEF Finish
    <2>6. CASE slot[w].phase = "begin" /\ GoTo(w, "raised") /\ UNCHANGED <<file, execUnchanged>>
      BY <2>6, <2>0, <1>7
    <2>7. CASE /\ slot[w].phase \in {"begin", "open", "work", "clear", "stopping"}
               /\ slot' = [slot EXCEPT ![w].phase = "mark", ![w].found = "cancelled",
                                       ![w].next = "ended"]
               /\ UNCHANGED <<file, execUnchanged>>
      <3>1. [slot[w] EXCEPT !.phase = "mark", !.found = "cancelled", !.next = "ended"] \in Slot
        BY <1>d DEF Slot, SlotPhase, TerminalStatus
      <3>2. slot' = [slot EXCEPT ![w] = [slot[w] EXCEPT !.phase = "mark", !.found = "cancelled",
                                                        !.next = "ended"]]
        BY <2>7, <1>d
      <3>3. slot' \in [Slots -> Slot] /\ Others
        BY <3>1, <3>2, <2>7, <2>0, <1>d, <1>e DEF Slot, TerminalStatus
      <3> QED BY <2>7, <1>a, <1>b, <3>3 DEF execUnchanged, RagTypeOK
    <2>8. CASE Works(w)
      BY <2>3, <2>4, <2>8 DEF Works
    <2> QED BY <1>8, <2>0, <2>1, <2>2, <2>4, <2>5, <2>6, <2>7, <2>8
            DEF Execute, RunIngestion, RunQuery, RunEvaluation, RunGovernance, RunTuning, RunCandidates
  <1>9. CASE Load(w)
    BY <1>9, <1>7, <1>i DEF Load, SlotPhase, Working, Holding
  <1>10. CASE Settle(w)
    <2>1. sql' \in [Runs -> Row]
      BY <1>10, <1>a, RowsTyped DEF Settle, RagTypeOK
    <2>2. slot[w].phase \in Working
      BY <1>10 DEF Settle, Working, Holding
    <2>3. Leaves(w) \/ GoTo(w, "realign") \/ GoTo(w, "raised")
      BY <1>10 DEF Settle
    <2>4. slot' \in [Slots -> Slot]
      BY <2>2, <2>3, <1>a, <1>e, SlotsTyped DEF SlotPhase
    <2>5. Others
      BY <2>2, <2>3, <1>e, <1>f, <1>h
    <2> QED BY <1>10, <1>a, <1>b, <2>1, <2>4, <2>5 DEF Settle, RagTypeOK
  <1>11. CASE SettleLost(w)
    BY <1>11, <1>7 DEF SettleLost, SlotPhase, Working, Holding
  <1>12. ASSUME slot[w].phase \in Working, UNCHANGED <<file, execUnchanged>>,
                NEW p \in SlotPhase, NEW n \in {"ended", "fail", "done"}, NEW s \in TerminalStatus,
                slot' = [slot EXCEPT ![w] = [@ EXCEPT !.phase = p, !.next = n, !.found = s]]
         PROVE  TypeInv'
    <2>1. [slot[w] EXCEPT !.phase = p, !.next = n, !.found = s] \in Slot
      BY <1>12, <1>d DEF Slot
    <2>2. slot' \in [Slots -> Slot] /\ Others
      BY <1>12, <2>1, <1>d, <1>e DEF Slot
    <2> QED BY <1>12, <1>a, <1>b, <2>2 DEF execUnchanged, RagTypeOK
  <1>13. CASE Realign(w)
    <2> DEFINE s == IF sql[Run(w)].status = "cancelled" THEN "cancelled" ELSE "failed"
    <2>1. slot[w].phase \in Working /\ UNCHANGED <<file, execUnchanged>>
      BY <1>13 DEF Realign, Working, Holding
    <2>2. \/ Leaves(w)
          \/ slot' = [slot EXCEPT ![w] = [@ EXCEPT !.phase = "mark", !.next = "done", !.found = s]]
      BY <1>13 DEF Realign
    <2>3. s \in TerminalStatus /\ "mark" \in SlotPhase
      BY DEF TerminalStatus, SlotPhase
    <2> HIDE DEF s
    <2> QED BY <2>1, <2>2, <2>3, <1>7, <1>12
  <1>14. CASE Raised(w)
    <2> DEFINE p == IF State(w) \in ActiveStatus THEN "mark" ELSE "fail"
    <2>1. slot[w].phase \in Working /\ UNCHANGED <<file, execUnchanged>>
      BY <1>14 DEF Raised, Working, Holding
    <2>2. slot' = [slot EXCEPT ![w] = [@ EXCEPT !.phase = p, !.next = "fail", !.found = "failed"]]
      BY <1>14 DEF Raised
    <2>3. "failed" \in TerminalStatus /\ p \in SlotPhase
      BY DEF TerminalStatus, SlotPhase
    <2> HIDE DEF p
    <2> QED BY <2>1, <2>2, <2>3, <1>12
  <1>15. CASE FailRow(w)
    <2>1. sql' \in [Runs -> Row]
      BY <1>15, <1>a, RowsTyped DEF FailRow
    <2>2. slot[w].phase \in Working
      BY <1>15 DEF FailRow, Working, Holding
    <2>3. slot' \in [Slots -> Slot] /\ Others
      BY <1>15, <2>2, <1>a, <1>e, <1>h, SlotsTyped DEF FailRow
    <2> QED BY <1>15, <1>a, <1>b, <2>1, <2>3 DEF FailRow, RagTypeOK
  <1>16. CASE Mark(w)
    <2>1. slot[w].next \in SlotPhase \ {"mark"}
      BY <1>d DEF Slot, SlotPhase
    <2>2. slot[w].phase \in Working
      BY <1>16 DEF Mark, Working
    <2>3. slot[w].found \in TerminalStatus
      BY <1>16 DEF Mark, TypeInv, SlotsHaveRuns
    <2> QED BY <1>16, <2>1, <2>2, <2>3, <1>7 DEF Mark
  <1>17. CASE Join(w)
    <2>1. slot' \in [Slots -> Slot] /\ Others
      BY <1>17, <1>a, <1>d, SlotsTyped DEF Join, IdleSlot, Working, Holding
    <2>2. beat' \in [Slots -> Beat]
      BY <1>17, <1>a DEF Join, RagTypeOK, Beat
    <2> QED BY <1>17, <1>a, <1>b, <2>1, <2>2 DEF Join, RagTypeOK
  <1>18. CASE Heartbeat(w)
    <2>1. \A x \in Row : [x EXCEPT !.stale = FALSE] \in Row
      BY DEF Row
    <2>2. \A x \in File : [x EXCEPT !.quiet = FALSE] \in File
      BY DEF File
    <2>3. sql' \in [Runs -> Row] /\ file' \in [Runs -> File]
      BY <1>18, <1>a, <2>1, <2>2 DEF Heartbeat, RagTypeOK
    <2> QED BY <1>18, <1>a, <1>b, <1>c, <2>3 DEF Heartbeat, RagTypeOK
  <1>19. ASSUME \/ slot' = [slot EXCEPT ![w].lost = TRUE]
                \/ slot' = [slot EXCEPT ![w].seen = TRUE]
         PROVE  slot' \in [Slots -> Slot] /\ Others
    <2>1. /\ [slot[w] EXCEPT !.lost = TRUE] \in Slot
          /\ [slot[w] EXCEPT !.seen = TRUE] \in Slot
      BY <1>d DEF Slot
    <2>2. /\ \A v \in Slots \ {w} : slot'[v] = slot[v]
          /\ slot'[w] \in {[slot[w] EXCEPT !.lost = TRUE], [slot[w] EXCEPT !.seen = TRUE]}
      BY <1>19, <1>d
    <2>3. slot' \in [Slots -> Slot]
      BY <1>19, <1>d, <2>1
    <2>4. /\ slot'[w].phase = slot[w].phase /\ slot'[w].run = slot[w].run
          /\ slot'[w].found = slot[w].found
      BY <2>2, <1>d DEF Slot
    <2> QED BY <2>2, <2>3, <2>4 DEF TypeInv, SlotsHaveRuns
  <1>20. CASE LoseLease(w)
    <2>1. beat' \in [Slots -> Beat]
      BY <1>20, <1>a DEF LoseLease, RagTypeOK, Beat
    <2> QED BY <1>20, <1>19, <1>a, <1>b, <2>1 DEF LoseLease, RagTypeOK
  <1>21. CASE AbortLoad(w)
    <2>1. beat' \in [Slots -> Beat]
      BY <1>21, <1>a DEF AbortLoad, RagTypeOK, Beat
    <2> QED BY <1>21, <1>a, <1>b, <1>c, <2>1 DEF AbortLoad, RagTypeOK
  <1>22. CASE AbortMark(w)
    <2>1. beat' \in [Slots -> Beat]
      BY <1>22, <1>a DEF AbortMark, RagTypeOK, Beat
    <2>2. file' \in [Runs -> File]
      BY <1>22, <1>a, FilesTyped DEF AbortMark
    <2> QED BY <1>22, <1>19, <1>a, <1>b, <2>1, <2>2 DEF AbortMark, RagTypeOK
  <1> QED BY <1>1, <1>2, <1>3, <1>4, <1>5, <1>6, <1>8, <1>9, <1>10, <1>11, <1>13, <1>14, <1>15,
             <1>16, <1>17, <1>18, <1>20, <1>21, <1>22
          DEF SlotStep, HeartbeatStep

(* What a database error does to a slot: it goes on to raise or to mark a  *)
(* failure, or its thread ends; the row may have been ended all the same.  *)
LEMMA ErrorsMove ==
    ASSUME TypeInv, NEW w \in Slots, DatabaseFails(w)
    PROVE  /\ UNCHANGED <<file, source, claimLock, web, asked, slow>> /\ faults' = faults + 1
           /\ CompleteJob(Run(w)) \/ FailJob(Run(w)) \/ CancelJob(Run(w)) \/ UNCHANGED sql
           /\ slot' \in [Slots -> Slot] /\ beat' \in [Slots -> Beat]
           /\ \A v \in Slots \ {w} : slot'[v] = slot[v]
           /\ \/ slot'[w].phase = "dead"
              \/ /\ slot[w].phase \in {"settle", "realign"} /\ slot'[w].run = slot[w].run
                 /\ slot'[w].phase \in {"raised", "mark"}
                 /\ slot'[w].phase = "mark" => slot'[w].found = "failed"
  <1>a. slot \in [Slots -> Slot] /\ slot[w] \in Slot /\ RagTypeOK
    BY DEF TypeInv, RagTypeOK
  <1>1. UNCHANGED <<file, source, claimLock, web, asked, slow>> /\ faults' = faults + 1
    BY DEF DatabaseFails
  <1>2. CompleteJob(Run(w)) \/ FailJob(Run(w)) \/ CancelJob(Run(w)) \/ UNCHANGED sql
    BY DEF DatabaseFails, SettleRaises, RealignBlindly, FailRowRaises
  <1>3. beat' \in [Slots -> Beat]
    BY <1>a DEF DatabaseFails, SettleRaises, RealignBlindly, FailRowRaises, RagTypeOK, Beat
  <1>4. CASE SettleRaises(w)
    <2>1. slot[w].phase = "settle" /\ GoTo(w, "raised")
      BY <1>4 DEF SettleRaises
    <2>2. slot' \in [Slots -> Slot]
      BY <1>a, <2>1, SlotsTyped DEF SlotPhase
    <2>3. /\ slot'[w].phase = "raised" /\ slot'[w].run = slot[w].run
          /\ \A v \in Slots \ {w} : slot'[v] = slot[v]
      BY <1>a, <2>1 DEF GoTo, Slot
    <2> QED BY <1>1, <1>2, <1>3, <2>1, <2>2, <2>3
  <1>5. CASE RealignBlindly(w)
    <2> DEFINE x == [slot[w] EXCEPT !.phase = "mark", !.next = "done", !.found = "failed"]
    <2>1. slot[w].phase = "realign" /\ slot' = [slot EXCEPT ![w] = x]
      BY <1>5, <1>a DEF RealignBlindly
    <2>2. x \in Slot /\ x.phase = "mark" /\ x.run = slot[w].run /\ x.found = "failed"
      BY <1>a DEF Slot, SlotPhase, TerminalStatus
    <2> HIDE DEF x
    <2>3. /\ slot' \in [Slots -> Slot] /\ slot'[w] = x
          /\ \A v \in Slots \ {w} : slot'[v] = slot[v]
      BY <1>a, <2>1, <2>2
    <2> QED BY <1>1, <1>2, <1>3, <2>1, <2>2, <2>3
  <1>6. CASE FailRowRaises(w)
    <2> DEFINE x == [IdleSlot EXCEPT !.phase = "dead"]
    <2>1. slot' = [slot EXCEPT ![w] = x]
      BY <1>6 DEF FailRowRaises
    <2>2. x \in Slot /\ x.phase = "dead"
      BY <1>a, SlotsTyped DEF IdleSlot
    <2> HIDE DEF x
    <2>3. /\ slot' \in [Slots -> Slot] /\ slot'[w] = x
          /\ \A v \in Slots \ {w} : slot'[v] = slot[v]
      BY <1>a, <2>1, <2>2
    <2> QED BY <1>1, <1>2, <1>3, <2>2, <2>3
  <1> QED BY <1>4, <1>5, <1>6 DEF DatabaseFails

(* The other steps, those of time and of faults among them.                *)
LEMMA OtherTypeStep ==
    ASSUME TypeInv,
           \/ DeleteSource \/ Crash \/ Restart \/ UNCHANGED vars
           \/ \E w \in Slots : ThreadDies(w) \/ DatabaseFails(w)
           \/ \E r \in Runs : RowAges(r) \/ FileAges(r)
    PROVE  TypeInv'
  <1> USE DEF storeVars, workerVars, bounded
  <1>a. RagTypeOK
    BY DEF TypeInv
  <1>b. asked + 1 \in Nat /\ faults + 1 \in Nat /\ slow + 1 \in Nat
    BY <1>a DEF RagTypeOK
  <1>c. UNCHANGED slot => SlotsHaveRuns'
    BY DEF TypeInv, SlotsHaveRuns
  <1>1. CASE DeleteSource
    BY <1>1, <1>a, <1>b, <1>c DEF DeleteSource, Requested, TypeInv, RagTypeOK
  <1>2. CASE Crash \/ Restart
    <2>0. IdleSlot \in Slot /\ slot' = [v \in Slots |-> IdleSlot]
      BY <1>2, <1>a, SlotsTyped DEF Crash, Restart, AllIdle
    <2>1. slot' \in [Slots -> Slot] /\ SlotsHaveRuns'
      <3>1. slot' \in [Slots -> Slot]
        BY <2>0
      <3>2. \A v \in Slots : slot'[v].phase = "idle"
        BY <2>0 DEF IdleSlot
      <3> QED BY <3>1, <3>2 DEF SlotsHaveRuns, Working, Holding
    <2>2. beat' \in [Slots -> Beat] /\ claimLock' \in Slots \cup {None}
      BY <1>2 DEF Crash, Restart, AllIdle, Beat
    <2> QED BY <1>2, <1>a, <1>b, <2>1, <2>2 DEF Crash, Restart, TypeInv, RagTypeOK
  <1>3. CASE UNCHANGED vars
    BY <1>3, <1>a, <1>c DEF vars, TypeInv, RagTypeOK
  <1>4. ASSUME NEW w \in Slots, ThreadDies(w) PROVE TypeInv'
    <2>1. slot' \in [Slots -> Slot]
      BY <1>4, <1>a, SlotsTyped DEF ThreadDies, RagTypeOK
    <2>2. SlotsHaveRuns'
      BY <1>4, <1>a DEF ThreadDies, IdleSlot, TypeInv, RagTypeOK, SlotsHaveRuns, Working, Holding
    <2>3. claimLock' \in Slots \cup {None}
      BY <1>4, <1>a DEF ThreadDies, RagTypeOK
    <2> QED BY <1>4, <1>a, <1>b, <2>1, <2>2, <2>3 DEF ThreadDies, TypeInv, RagTypeOK
  <1>5. ASSUME NEW r \in Runs, RowAges(r) PROVE TypeInv'
    <2>1. \A x \in Row : [x EXCEPT !.stale = TRUE] \in Row
      BY DEF Row
    <2>2. sql' \in [Runs -> Row]
      BY <1>5, <1>a, <2>1 DEF RowAges, RagTypeOK
    <2> QED BY <1>5, <1>a, <1>b, <1>c, <2>2 DEF RowAges, Late, TypeInv, RagTypeOK
  <1>6. ASSUME NEW r \in Runs, FileAges(r) PROVE TypeInv'
    <2>1. \A x \in File : [x EXCEPT !.quiet = TRUE] \in File
      BY DEF File
    <2>2. file' \in [Runs -> File]
      BY <1>6, <1>a, <2>1 DEF FileAges, RagTypeOK
    <2> QED BY <1>6, <1>a, <1>b, <1>c, <2>2 DEF FileAges, Late, TypeInv, RagTypeOK
  <1>7. ASSUME NEW w \in Slots, DatabaseFails(w) PROVE TypeInv'
    <2>1. sql' \in [Runs -> Row]
      BY <1>7, <1>a, ErrorsMove, RowsTyped DEF RagTypeOK
    <2>2. SlotsHaveRuns'
      <3> SUFFICES ASSUME NEW v \in Slots
                   PROVE  /\ slot'[v].phase \in Working => slot'[v].run \in Runs
                          /\ slot'[v].phase = "mark" => slot'[v].found \in TerminalStatus
        BY DEF SlotsHaveRuns
      <3>1. CASE v # w
        BY <1>7, <3>1, ErrorsMove DEF TypeInv, SlotsHaveRuns
      <3>2. CASE v = w
        <4>1. CASE slot'[w].phase = "dead"
          BY <3>2, <4>1 DEF Working, Holding
        <4>2. CASE slot'[w].phase # "dead"
          <5>1. /\ slot[w].phase \in {"settle", "realign"} /\ slot'[w].run = slot[w].run
                /\ slot'[w].phase = "mark" => slot'[w].found = "failed"
            BY <1>7, <4>2, ErrorsMove
          <5>2. slot[w].run \in Runs
            BY <5>1 DEF TypeInv, SlotsHaveRuns, Working, Holding
          <5> QED BY <3>2, <5>1, <5>2 DEF TerminalStatus
        <4> QED BY <4>1, <4>2
      <3> QED BY <3>1, <3>2
    <2> QED BY <1>7, <1>a, <1>b, <2>1, <2>2, ErrorsMove DEF TypeInv, RagTypeOK
  <1> QED BY <1>1, <1>2, <1>3, <1>4, <1>5, <1>6, <1>7

(* Files, rows, slots, heartbeats and requests always have their types.    *)
THEOREM RagTypes == Spec => []RagTypeOK
  <1>1. Init => TypeInv
    BY TypeInit
  <1>2. TypeInv /\ [Next]_vars => TypeInv'
    BY RequestTypeStep, SlotTypeStep, OtherTypeStep DEF Next
  <1>3. TypeInv => RagTypeOK
    BY DEF TypeInv
  <1> QED BY <1>1, <1>2, <1>3, PTL DEF Spec

-----------------------------------------------------------------------------
(***************************************************************************)
(* How the rows of RagEvalRuns move, and from that: rows end once, a run   *)
(* is handed out once and worked on by one slot, and no more runs of a     *)
(* kind are being executed than its limit.                                 *)
(***************************************************************************)

-----------------------------------------------------------------------------
(* Rows are put in the queue by the request that made up the run id.  Each *)
(* such request has its own run, whose row is not there yet.               *)

Pending(c) == web[c].phase \in {"start", "enqueue"}

PendingApart ==
    /\ \A c \in Clients : Pending(c) =>
          \E r \in Runs : web[c].runs = {r} /\ sql[r].status = "none"
    /\ \A c, d \in Clients : Pending(c) /\ Pending(d) /\ c # d
                             => web[c].runs \cap web[d].runs = {}

EndStatus == {"succeeded", "failed", "cancelled"}

(* How a row may move in one step.                                         *)
Enqueued(r) == /\ sql[r].status = "none" /\ sql'[r].status = "queued"
               /\ sql'[r].claims = sql[r].claims
Taken(r)    == /\ sql[r].status = "queued" /\ sql'[r].status = "running"
               /\ sql'[r].claims = sql[r].claims + 1
Ending(r)   == /\ sql[r].status \in {"queued", "running"} /\ sql'[r].status \in EndStatus
               /\ sql'[r].claims = sql[r].claims
Beating(r)  == /\ sql[r].status = "running" /\ sql'[r].status = "running"
               /\ sql'[r].claims = sql[r].claims

(* A row that no request enqueues and no slot takes ends, beats or stays.  *)
Plain(r) == sql'[r] = sql[r] \/ Ending(r) \/ Beating(r)

(* complete_job, fail_job and cancel_job end queued and running rows only. *)
LEMMA EndingsArePlain ==
    ASSUME TypeInv, NEW x, CompleteJob(x) \/ FailJob(x) \/ CancelJob(x) \/ UNCHANGED sql
    PROVE  \A r \in Runs : Plain(r)
  <1> SUFFICES ASSUME NEW r \in Runs PROVE Plain(r)
    OBVIOUS
  <1>1. sql \in [Runs -> Row] /\ sql[r] \in Row
    BY DEF TypeInv, RagTypeOK
  <1>2. \A s : /\ Ended(sql[r], s).status = s
               /\ Ended(sql[r], s).claims = sql[r].claims
    BY <1>1 DEF Ended, Row
  <1>3. CASE UNCHANGED sql
    BY <1>3 DEF Plain
  <1>4. CASE x # r
    BY <1>1, <1>4 DEF CompleteJob, FailJob, CancelJob, Plain
  <1>5. CASE x = r /\ CompleteJob(x)
    <2>1. sql'[r] = IF Completes(sql[r]) THEN Ended(sql[r], "succeeded") ELSE sql[r]
      BY <1>1, <1>5 DEF CompleteJob
    <2> QED BY <1>2, <2>1 DEF Completes, Plain, Ending, EndStatus
  <1>6. CASE x = r /\ FailJob(x)
    <2>1. sql'[r] = IF MayEnd(sql[r]) THEN Ended(sql[r], "failed") ELSE sql[r]
      BY <1>1, <1>6 DEF FailJob
    <2> QED BY <1>2, <2>1 DEF MayEnd, Plain, Ending, EndStatus
  <1>7. CASE x = r /\ CancelJob(x)
    <2>1. sql'[r] = IF MayEnd(sql[r]) THEN Ended(sql[r], "cancelled") ELSE sql[r]
      BY <1>1, <1>7 DEF CancelJob
    <2> QED BY <1>2, <2>1 DEF MayEnd, Plain, Ending, EndStatus
  <1> QED BY <1>3, <1>4, <1>5, <1>6, <1>7

(* Requests that enqueue nothing.                                          *)
QuietRequest(c) ==
    \/ StartWrites(c) \/ RunIsGone(c) \/ CancelMarks(c) \/ CancelSql(c) \/ CancelEnds(c)
    \/ StaleSql(c) \/ StaleLoad(c) \/ StaleMark(c) \/ RemoveDirectories(c)

UserStep(c, r) ==
    \/ StartIngestion(c, r) \/ StartQuery(c, r) \/ StartCandidates(c, r)
    \/ StartTuning(c, r) \/ StartEvaluation(c, r) \/ StartGovernance(c, r)
    \/ ImportReboundCandidate(c, r)
    \/ Cancel(c, r) \/ Read(c, r)
    \/ DeleteEvaluation(c, r) \/ DeleteIngestion(c, r) \/ DeleteDerived(c, r)

(* Users, and the requests that enqueue nothing, move rows plainly.        *)
LEMMA RequestsArePlain ==
    ASSUME TypeInv, NEW c \in Clients, (\E r \in Runs : UserStep(c, r)) \/ QuietRequest(c)
    PROVE  \A r \in Runs : Plain(r)
  <1> USE DEF storeVars, workerVars, bounded
  <1>1. \/ \E x : CompleteJob(x) \/ FailJob(x) \/ CancelJob(x)
        \/ UNCHANGED sql
    <2>1. ASSUME NEW r \in Runs, UserStep(c, r)
          PROVE  FailJob(r) \/ UNCHANGED sql
      BY <2>1 DEF UserStep, Starts, StartIngestion, StartQuery, StartCandidates, StartTuning,
            StartEvaluation, StartGovernance, ImportReboundCandidate, Cancel, Read,
            DeleteEvaluation, DeleteIngestion, DeleteDerived
    <2>2. ASSUME QuietRequest(c)
          PROVE  CancelJob(Asked(c)) \/ FailJob(Asked(c)) \/ UNCHANGED sql
      BY <2>2 DEF QuietRequest, StartWrites, RunIsGone, CancelMarks, CancelSql, CancelEnds,
            StaleSql, StaleLoad, StaleMark, RemoveDirectories
    <2> QED BY <2>1, <2>2
  <1> QED BY <1>1, EndingsArePlain

(* A request enqueues its own run, and no other.                           *)
LEMMA EnqueueMoves ==
    ASSUME TypeInv, PendingApart, NEW c \in Clients, Enqueue(c) \/ EnqueueRaises(c)
    PROVE  \E q \in Runs : /\ web[c].runs = {q}
                           /\ sql'[q] = sql[q] \/ Enqueued(q)
                           /\ \A r \in Runs \ {q} : sql'[r] = sql[r]
  <1>1. PICK q \in Runs : web[c].runs = {q} /\ sql[q].status = "none"
    BY DEF PendingApart, Pending, Enqueue, EnqueueRaises
  <1>2. Asked(c) = q
    BY <1>1 DEF Asked
  <1>3. sql \in [Runs -> Row] /\ sql[q] \in Row
    BY DEF TypeInv, RagTypeOK
  <1>4. UNCHANGED sql \/ sql' = [sql EXCEPT ![q] = Queued(sql[q])]
    BY <1>2, <1>3 DEF Enqueue, EnqueueRaises
  <1>5. Queued(sql[q]).status = "queued" /\ Queued(sql[q]).claims = sql[q].claims
    BY <1>3 DEF Queued, Row
  <1> QED BY <1>1, <1>3, <1>4, <1>5 DEF Enqueued

(* A slot takes a run out of the queue, or moves rows plainly.  What it    *)
(* takes is the run it holds then.                                         *)
Takes(w, q) ==
    /\ TakeJob(w)
    /\ Taken(q) /\ file[q].kind \notin slot[w].full
    /\ slot' = [slot EXCEPT ![w] = [IdleSlot EXCEPT !.phase = "claimed", !.run = q]]
    /\ \A r \in Runs \ {q} : sql'[r] = sql[r]

(* A slot claims one run, or ends or refreshes the row of its own.         *)
LEMMA SlotMovesRows ==
    ASSUME TypeInv, NEW w \in Slots, SlotStep(w) \/ HeartbeatStep(w)
    PROVE  (\E q \in Runs : Takes(w, q)) \/ (\A r \in Runs : Plain(r))
  <1> USE DEF storeVars, workerVars, bounded, execUnchanged
  <1>a. sql \in [Runs -> Row]
    BY DEF TypeInv, RagTypeOK
  <1>b. UNCHANGED sql => \A r \in Runs : Plain(r)
    BY DEF Plain
  <1>1. CASE Reconcile(w)
    <2> SUFFICES ASSUME NEW r \in Runs PROVE Plain(r)
      OBVIOUS
    <2>1. /\ Ended(sql[r], "failed").status = "failed"
          /\ Ended(sql[r], "failed").claims = sql[r].claims
      BY <1>a DEF Ended, Row
    <2>2. \/ sql'[r] = sql[r]
          \/ sql[r].status = "running" /\ sql'[r] = Ended(sql[r], "failed")
      BY <1>1 DEF Reconcile
    <2> QED BY <2>1, <2>2 DEF Plain, Ending, EndStatus
  <1>2. CASE TakeJob(w)
    <2>1. CASE UNCHANGED sql
      BY <1>b, <2>1
    <2>2. ASSUME NEW q \in First(Claimable(slot[w].full)),
                 sql' = [sql EXCEPT ![q] = [status |-> "running", slot |-> w, stale |-> FALSE,
                                            claims |-> @.claims + 1]],
                 slot' = [slot EXCEPT ![w] = [IdleSlot EXCEPT !.phase = "claimed", !.run = q]]
          PROVE  q \in Runs /\ Takes(w, q)
      <3>1. q \in Runs /\ sql[q].status = "queued" /\ file[q].kind \notin slot[w].full
        BY <2>2 DEF First, Claimable
      <3>2. /\ sql'[q] = [status |-> "running", slot |-> w, stale |-> FALSE,
                          claims |-> sql[q].claims + 1]
            /\ \A r \in Runs \ {q} : sql'[r] = sql[r]
        BY <1>a, <2>2, <3>1
      <3> QED BY <1>2, <2>2, <3>1, <3>2 DEF Takes, Taken
    <2> QED BY <1>2, <2>1, <2>2 DEF TakeJob
  <1>3. CASE Heartbeat(w)
    <2>1. \A x \in Row : /\ [x EXCEPT !.stale = FALSE].status = x.status
                         /\ [x EXCEPT !.stale = FALSE].claims = x.claims
      BY DEF Row
    <2>2. sql' = [sql EXCEPT ![Run(w)] = [sql[Run(w)] EXCEPT !.stale = FALSE]]
      BY <1>3 DEF Heartbeat
    <2>3. sql[Run(w)].status = "running"
      BY <1>3 DEF Heartbeat, HasLease
    <2> QED BY <1>a, <2>1, <2>2, <2>3 DEF Plain, Beating
  <1>4. CASE OpenRun(w) \/ Settle(w) \/ FailRow(w)
    <2>1. CompleteJob(Run(w)) \/ FailJob(Run(w)) \/ CancelJob(Run(w)) \/ UNCHANGED sql
      BY <1>4 DEF OpenRun, Settle, FailRow
    <2> QED BY <2>1, EndingsArePlain
  <1>5. CASE Execute(w)
    BY <1>5, <1>b DEF Execute, RunIngestion, RunQuery, RunEvaluation, RunGovernance, RunTuning,
          RunCandidates, Begin, OpenIndex, Works, Check, Stop, Break, Announce, Finish
  <1>6. CASE \/ Sweep(w) \/ CountKinds(w) \/ MarkStarted(w) \/ Load(w) \/ SettleLost(w)
             \/ Realign(w) \/ Raised(w) \/ Mark(w) \/ Join(w)
             \/ LoseLease(w) \/ AbortLoad(w) \/ AbortMark(w)
    BY <1>6, <1>b DEF Sweep, CountKinds, MarkStarted, Load, SettleLost, Realign, Raised, Mark, Join,
          LoseLease, AbortLoad, AbortMark
  <1> QED BY <1>1, <1>2, <1>3, <1>4, <1>5, <1>6 DEF SlotStep, HeartbeatStep

(* Time and faults move rows plainly, if at all.                           *)
OtherStep ==
    \/ DeleteSource \/ Crash \/ Restart \/ UNCHANGED vars
    \/ \E w \in Slots : ThreadDies(w) \/ DatabaseFails(w)
    \/ \E r \in Runs : RowAges(r) \/ FileAges(r)

(* Restarts, dying threads and deleted sources leave the rows alone; a     *)
(* statement that raises may have ended one.                               *)
LEMMA OthersArePlain ==
    ASSUME TypeInv, OtherStep
    PROVE  \A r \in Runs : Plain(r)
  <1> USE DEF storeVars, workerVars, bounded
  <1>a. sql \in [Runs -> Row]
    BY DEF TypeInv, RagTypeOK
  <1>1. ASSUME NEW q \in Runs, RowAges(q) PROVE \A r \in Runs : Plain(r)
    <2>1. \A x \in Row : /\ [x EXCEPT !.stale = TRUE].status = x.status
                         /\ [x EXCEPT !.stale = TRUE].claims = x.claims
      BY DEF Row
    <2>2. sql' = [sql EXCEPT ![q] = [sql[q] EXCEPT !.stale = TRUE]] /\ sql[q].status = "running"
      BY <1>1 DEF RowAges
    <2> QED BY <1>a, <2>1, <2>2 DEF Plain, Beating
  <1>2. CASE UNCHANGED sql
    BY <1>2 DEF Plain
  <1>3. ASSUME NEW w \in Slots, DatabaseFails(w) PROVE \A r \in Runs : Plain(r)
    BY <1>3, ErrorsMove, EndingsArePlain
  <1> QED BY <1>1, <1>2, <1>3 DEF OtherStep, DeleteSource, Crash, Restart, vars, ThreadDies, FileAges

(* What a step is, seen from the rows.                                     *)
LEMMA StepCases ==
    ASSUME TypeInv, [Next]_vars
    PROVE  \/ \E c \in Clients : \/ (\E r \in Runs : UserStep(c, r)) \/ QuietRequest(c)
                                 \/ Enqueue(c) \/ EnqueueRaises(c)
           \/ \E w \in Slots : SlotStep(w) \/ HeartbeatStep(w)
           \/ OtherStep
  BY DEF Next, RequestStep, UserStep, QuietRequest, OtherStep

(* A step of request c that puts no run in two hands keeps them apart.     *)
LEMMA PendingKept ==
    ASSUME TypeInv, PendingApart, NEW c \in Clients,
           \A d \in Clients \ {c} : web'[d] = web[d],
           \/ web'[c].phase \notin {"start", "enqueue"}
           \/ Pending(c) /\ web'[c].runs = web[c].runs
           \/ \E r \in Runs : Fresh(r) /\ web'[c].runs = {r},
           \A r \in Runs : sql[r].status = "none"
               => \/ sql'[r].status = "none"
                  \/ Pending(c) /\ r \in web[c].runs /\ web'[c].phase \notin {"start", "enqueue"}
    PROVE  PendingApart'
  <1>1. ASSUME NEW d \in Clients, web'[d].phase \in {"start", "enqueue"}
        PROVE  \E r \in Runs : web'[d].runs = {r} /\ sql'[r].status = "none"
    <2>1. CASE d # c
      <3>1. web'[d] = web[d] /\ Pending(d)
        BY <1>1, <2>1 DEF Pending
      <3>2. PICK r \in Runs : web[d].runs = {r} /\ sql[r].status = "none"
        BY <3>1 DEF PendingApart
      <3>3. sql'[r].status = "none"
        <4>1. Pending(c) => r \notin web[c].runs
          BY <2>1, <3>1, <3>2 DEF PendingApart
        <4> QED BY <3>2, <4>1
      <3> QED BY <3>1, <3>2, <3>3
    <2>2. CASE d = c
      <3>1. CASE Pending(c) /\ web'[c].runs = web[c].runs
        BY <1>1, <2>2, <3>1 DEF PendingApart
      <3>2. CASE \E r \in Runs : Fresh(r) /\ web'[c].runs = {r}
        BY <1>1, <2>2, <3>2 DEF Fresh
      <3> QED BY <1>1, <2>2, <3>1, <3>2
    <2> QED BY <2>1, <2>2
  <1>2. ASSUME NEW d \in Clients, d # c, web'[c].phase \in {"start", "enqueue"},
               web'[d].phase \in {"start", "enqueue"}
        PROVE  web'[c].runs \cap web'[d].runs = {}
    <2>1. web'[d] = web[d] /\ Pending(d)
      BY <1>2 DEF Pending
    <2>2. CASE Pending(c) /\ web'[c].runs = web[c].runs
      BY <1>2, <2>1, <2>2 DEF PendingApart
    <2>3. CASE \E r \in Runs : Fresh(r) /\ web'[c].runs = {r}
      BY <2>1, <2>3 DEF Fresh
    <2> QED BY <1>2, <2>2, <2>3
  <1>3. ASSUME NEW d \in Clients, NEW e \in Clients, d # e,
               web'[d].phase \in {"start", "enqueue"}, web'[e].phase \in {"start", "enqueue"}
        PROVE  web'[d].runs \cap web'[e].runs = {}
    <2>1. CASE d = c \/ e = c
      BY <1>2, <1>3, <2>1
    <2>2. CASE d # c /\ e # c
      <3>1. web'[d] = web[d] /\ web'[e] = web[e] /\ Pending(d) /\ Pending(e)
        BY <1>3, <2>2 DEF Pending
      <3> QED BY <1>3, <3>1 DEF PendingApart
    <2> QED BY <2>1, <2>2
  <1> QED BY <1>1, <1>3 DEF PendingApart, Pending

(* Steps that leave the requests alone keep them apart as well.            *)
LEMMA PendingIdle ==
    ASSUME PendingApart, UNCHANGED web,
           \A r \in Runs : sql[r].status = "none" => sql'[r].status = "none"
    PROVE  PendingApart'
  BY DEF PendingApart, Pending

(* Slots know nothing of the requests.                                     *)
LEMMA SlotsLeaveRequests ==
    ASSUME NEW w \in Slots, SlotStep(w) \/ HeartbeatStep(w)
    PROVE  UNCHANGED <<web, faults>>
  BY DEF storeVars, workerVars, bounded, execUnchanged,
        SlotStep, HeartbeatStep, Reconcile, Sweep, CountKinds, TakeJob, OpenRun, MarkStarted,
        Execute, RunIngestion, RunQuery, RunEvaluation, RunGovernance, RunTuning, RunCandidates,
        Begin, OpenIndex, Works, Check, Stop, Break, Announce, Finish,
        Load, Settle, SettleLost, Realign, Raised, FailRow, Mark, Join,
        Heartbeat, LoseLease, AbortLoad, AbortMark

(* New requests take fresh runs.                                           *)
LEMMA PendingStep ==
    ASSUME TypeInv, PendingApart, [Next]_vars
    PROVE  PendingApart'
  <1> USE DEF storeVars, workerVars, bounded
  <1>a. web \in [Clients -> Request] /\ \A c \in Clients : web[c] \in Request
    BY DEF TypeInv, RagTypeOK
  <1>b. \A r \in Runs : Plain(r) /\ sql[r].status = "none" => sql'[r].status = "none"
    BY DEF Plain, Ending, Beating
  <1>c. ASSUME NEW c \in Clients
        PROVE  /\ ReqEnds(c) => web'[c].phase = "none"
               /\ \A p : ReqGoes(c, p) => web'[c].phase = p /\ web'[c].runs = web[c].runs
               /\ \A rs : Deletes(c, rs) => web'[c].phase = "delete"
    <2>1. ReqEnds(c) => web'[c].phase = "none"
      BY <1>a DEF ReqEnds, NoRequest
    <2>2. \A p : ReqGoes(c, p) => web'[c].phase = p /\ web'[c].runs = web[c].runs
      BY <1>a DEF ReqGoes, Request
    <2>3. ASSUME NEW rs, Deletes(c, rs) PROVE web'[c].phase = "delete"
      BY <1>a, <2>3 DEF Deletes, NoRequest
    <2> QED BY <2>1, <2>2, <2>3
  <1>d. \A c \in Clients :
           /\ ReqEnds(c) => \A d \in Clients \ {c} : web'[d] = web[d]
           /\ \A p : ReqGoes(c, p) => \A d \in Clients \ {c} : web'[d] = web[d]
           /\ \A rs : Deletes(c, rs) => \A d \in Clients \ {c} : web'[d] = web[d]
    BY <1>a DEF ReqEnds, ReqGoes, Deletes
  <1>1. ASSUME NEW c \in Clients, NEW r \in Runs, UserStep(c, r) PROVE PendingApart'
    <2>1. \A q \in Runs : Plain(q)
      BY <1>1, RequestsArePlain
    <2>2. CASE StartIngestion(c, r)
      <3>1. Fresh(r) /\ web'[c].runs = {r} /\ \A d \in Clients \ {c} : web'[d] = web[d]
        BY <1>a, <2>2 DEF StartIngestion
      <3> QED BY <1>b, <2>1, <3>1, PendingKept
    <2>3. ASSUME NEW k, NEW b, Starts(c, r, k, b) PROVE PendingApart'
      <3>1. Fresh(r) /\ web'[c].runs = {r} /\ \A d \in Clients \ {c} : web'[d] = web[d]
        BY <1>a, <2>3 DEF Starts
      <3> QED BY <1>b, <2>1, <3>1, PendingKept
    <2>4. CASE Cancel(c, r) \/ Read(c, r)
      <3>1. web'[c].phase \in {"cancel", "stale"} /\ \A d \in Clients \ {c} : web'[d] = web[d]
        BY <1>a, <2>4 DEF Cancel, Read, NoRequest
      <3> QED BY <1>b, <2>1, <3>1, PendingKept
    <2>5. CASE DeleteEvaluation(c, r) \/ DeleteIngestion(c, r) \/ DeleteDerived(c, r)
      <3>1. web'[c].phase = "delete" /\ \A d \in Clients \ {c} : web'[d] = web[d]
        BY <1>c, <1>d, <2>5 DEF DeleteEvaluation, DeleteIngestion, DeleteDerived
      <3> QED BY <1>b, <2>1, <3>1, PendingKept
    <2>6. CASE ImportReboundCandidate(c, r)
      BY <1>b, <2>1, <2>6, PendingIdle DEF ImportReboundCandidate
    <2> QED BY <1>1, <2>2, <2>3, <2>4, <2>5, <2>6
            DEF UserStep, StartQuery, StartCandidates, StartTuning, StartEvaluation, StartGovernance
  <1>2. ASSUME NEW c \in Clients, QuietRequest(c) PROVE PendingApart'
    <2>1. \A q \in Runs : Plain(q)
      BY <1>2, RequestsArePlain
    <2>2. CASE StartWrites(c)
      <3>1. /\ Pending(c) /\ web'[c].runs = web[c].runs
            /\ \A d \in Clients \ {c} : web'[d] = web[d]
        BY <1>c, <1>d, <2>2 DEF StartWrites, Pending
      <3> QED BY <1>b, <2>1, <3>1, PendingKept
    <2>3. CASE ~StartWrites(c)
      <3>1. /\ web'[c].phase \notin {"start", "enqueue"}
            /\ \A d \in Clients \ {c} : web'[d] = web[d]
        BY <1>2, <1>c, <1>d, <2>3 DEF QuietRequest, RunIsGone, CancelMarks, CancelSql, CancelEnds,
              StaleSql, StaleLoad, StaleMark, RemoveDirectories
      <3> QED BY <1>b, <2>1, <3>1, PendingKept
    <2> QED BY <2>2, <2>3
  <1>3. ASSUME NEW c \in Clients, Enqueue(c) \/ EnqueueRaises(c) PROVE PendingApart'
    <2>1. PICK q \in Runs : web[c].runs = {q} /\ \A r \in Runs \ {q} : sql'[r] = sql[r]
      BY <1>3, EnqueueMoves
    <2>2. /\ Pending(c) /\ web'[c].phase = "none"
          /\ \A d \in Clients \ {c} : web'[d] = web[d]
      BY <1>3, <1>c, <1>d DEF Enqueue, EnqueueRaises, Pending
    <2> QED BY <2>1, <2>2, PendingKept
  <1>4. ASSUME NEW w \in Slots, SlotStep(w) \/ HeartbeatStep(w) PROVE PendingApart'
    <2>1. \A r \in Runs : sql[r].status = "none" => sql'[r].status = "none"
      BY <1>4, <1>b, SlotMovesRows DEF Takes, Taken
    <2>2. UNCHANGED web
      BY <1>4, SlotsLeaveRequests
    <2> QED BY <2>1, <2>2, PendingIdle
  <1>5. CASE OtherStep
    <2>1. \A r \in Runs : sql[r].status = "none" => sql'[r].status = "none"
      BY <1>5, <1>b, OthersArePlain
    <2>2. UNCHANGED web
      BY <1>5, ErrorsMove DEF OtherStep, DeleteSource, Crash, Restart, vars, ThreadDies, RowAges,
            FileAges
    <2> QED BY <2>1, <2>2, PendingIdle
  <1> QED BY <1>1, <1>2, <1>3, <1>4, <1>5, StepCases

(* Rows move along one path: none, queued, running, ended.                 *)
RowMoves == \A r \in Runs : Plain(r) \/ Enqueued(r) \/ Taken(r)

(* Every step moves every row along that path, or not at all.              *)
LEMMA RowsMove ==
    ASSUME TypeInv, PendingApart, [Next]_vars
    PROVE  RowMoves
  <1>1. ASSUME NEW c \in Clients, Enqueue(c) \/ EnqueueRaises(c) PROVE RowMoves
    BY <1>1, EnqueueMoves DEF RowMoves, Plain
  <1>2. ASSUME NEW w \in Slots, SlotStep(w) \/ HeartbeatStep(w) PROVE RowMoves
    BY <1>2, SlotMovesRows DEF RowMoves, Takes, Plain
  <1> QED BY <1>1, <1>2, StepCases, RequestsArePlain, OthersArePlain DEF RowMoves

RowInv == TypeInv /\ PendingApart

(* At the start there are no requests.                                     *)
LEMMA RowInvInit == Init => RowInv
  <1> SUFFICES ASSUME Init PROVE PendingApart
    BY TypeInit DEF RowInv
  <1> QED BY DEF Init, NoRequest, PendingApart, Pending

(* Types, and the runs of the requests, are kept by every step.            *)
LEMMA RowInvStep == RowInv /\ [Next]_vars => RowInv'
  BY PendingStep, RequestTypeStep, SlotTypeStep, OtherTypeStep DEF RowInv, Next

(* A row that has ended stays as it is: no late worker, stale reader,      *)
(* cancellation or second enqueue of the run changes how it ended.         *)
THEOREM EndsAreFinal == Spec => RowsEndOnce
  <1>1. RowInv /\ [Next]_vars =>
           [\A r \in Runs : sql[r].status \in EndStatus => sql'[r] = sql[r]]_vars
    <2> SUFFICES ASSUME RowInv, [Next]_vars, NEW r \in Runs, sql[r].status \in EndStatus
                 PROVE  sql'[r] = sql[r]
      OBVIOUS
    <2>1. Plain(r) \/ Enqueued(r) \/ Taken(r)
      BY RowsMove DEF RowInv, RowMoves
    <2> QED BY <2>1 DEF Plain, Ending, Beating, Enqueued, Taken, EndStatus
  <1> QED BY <1>1, RowInvInit, RowInvStep, PTL DEF Spec, RowsEndOnce, EndStatus

-----------------------------------------------------------------------------
(* Who holds a run.  Nobody does while it waits, and then one slot.        *)

Busy(w) == slot[w].phase \in Holding \/ (slot[w].phase = "mark" /\ slot[w].next # "sweep")

HeldOnce ==
    /\ \A r \in Runs : /\ sql[r].status \in {"none", "queued"} => sql[r].claims = 0
                       /\ sql[r].claims <= 1
                       /\ \A w \in Slots : Holds(w, r) => sql[r].status \notin {"none", "queued"}
    /\ NeverRerun

(* A slot's step leaves the others where they are.                         *)
LEMMA OtherSlotsStay ==
    ASSUME TypeInv, NEW v \in Slots, NEW w \in Slots, v # w, SlotStep(v) \/ HeartbeatStep(v)
    PROVE  slot'[w] = slot[w]
  <1>a. slot \in [Slots -> Slot]
    BY DEF TypeInv, RagTypeOK
  <1> QED BY <1>a DEF storeVars, workerVars, bounded, execUnchanged,
        SlotStep, HeartbeatStep, Reconcile, Sweep, CountKinds, TakeJob, OpenRun,
        MarkStarted, Execute, RunIngestion, RunQuery, RunEvaluation, RunGovernance, RunTuning,
        RunCandidates, Begin, OpenIndex, Works, Check, Stop, Break, Announce, Finish,
        Load, Settle, SettleLost, Realign, Raised, FailRow, Mark, Join, GoTo, Moves, Looks, Leaves,
        Heartbeat, LoseLease, AbortLoad, AbortMark

(* So does everything users and requests do.                               *)
LEMMA RequestsLeaveSlots ==
    ASSUME NEW c \in Clients,
           (\E q \in Runs : UserStep(c, q)) \/ QuietRequest(c) \/ Enqueue(c) \/ EnqueueRaises(c)
    PROVE  UNCHANGED slot /\ (UNCHANGED faults \/ faults' = faults + 1)
  BY DEF storeVars, workerVars, bounded,
        UserStep, Starts, StartIngestion, StartQuery, StartCandidates, StartTuning,
        StartEvaluation, StartGovernance, ImportReboundCandidate, Cancel, Read, Requested,
        DeleteEvaluation, DeleteIngestion, DeleteDerived,
        QuietRequest, StartWrites, RunIsGone, CancelMarks, CancelSql, CancelEnds,
        StaleSql, StaleLoad, StaleMark, RemoveDirectories, Enqueue, EnqueueRaises

(* Only a claim puts a run into a slot.                                    *)
LEMMA HoldsMove ==
    ASSUME TypeInv, [Next]_vars, NEW w \in Slots, NEW r \in Runs, Holds(w, r)'
    PROVE  Holds(w, r) \/ Takes(w, r)
  <1> USE DEF storeVars, workerVars, bounded, execUnchanged
  <1>a. slot \in [Slots -> Slot] /\ \A v \in Slots : slot[v] \in Slot
    BY DEF TypeInv, RagTypeOK
  <1>b. slot'[w].run = r /\ Busy(w)'
    BY DEF Holds, Busy
  <1>c. UNCHANGED slot => Holds(w, r)
    BY DEF Holds
  <1>d. Busy(w) /\ slot'[w].run = slot[w].run => Holds(w, r)
    BY <1>b DEF Holds, Busy
  <1>e. slot'[w].phase \notin {"idle", "dead", "poll", "sweep", "counted"}
    BY <1>b DEF Busy, Holding
  <1>1. CASE UNCHANGED slot
    BY <1>1, <1>c
  <1>2. CASE OtherStep
    <2>1. CASE Crash \/ Restart
      <3>1. slot'[w] = IdleSlot
        BY <2>1 DEF Crash, Restart, AllIdle
      <3> QED BY <1>e, <3>1 DEF IdleSlot
    <2>2. ASSUME NEW v \in Slots, ThreadDies(v) PROVE Holds(w, r)
      <3>1. v = w => slot'[w].phase = "dead"
        BY <1>a, <2>2 DEF ThreadDies, IdleSlot
      <3>2. v # w => slot'[w] = slot[w]
        BY <1>a, <2>2 DEF ThreadDies
      <3> QED BY <1>e, <3>1, <3>2 DEF Holds
    <2>3. ASSUME NEW v \in Slots, DatabaseFails(v) PROVE Holds(w, r)
      <3>1. CASE v # w
        BY <2>3, <3>1, ErrorsMove, <1>b DEF Holds, Busy
      <3>2. CASE v = w
        <4>1. slot[w].phase \in {"settle", "realign"} /\ slot'[w].run = slot[w].run
          BY <2>3, <3>2, <1>e, ErrorsMove
        <4> QED BY <4>1, <1>d DEF Busy, Holding
      <3> QED BY <3>1, <3>2
    <2> QED BY <1>2, <1>c, <2>1, <2>2, <2>3 DEF OtherStep, DeleteSource, vars, RowAges, FileAges
  <1>3. ASSUME NEW v \in Slots, v # w, SlotStep(v) \/ HeartbeatStep(v) PROVE Holds(w, r)
    <2>1. slot'[w] = slot[w]
      BY <1>3, OtherSlotsStay
    <2> QED BY <2>1 DEF Holds
  <1>4. CASE Reconcile(w) \/ CountKinds(w) \/ Join(w)
    <2>1. slot'[w].phase \in {"idle", "poll", "sweep", "counted"}
      <3>1. CASE Reconcile(w)
        BY <3>1, <1>a DEF Reconcile, IdleSlot
      <3>2. CASE CountKinds(w)
        <4>1. ASSUME NEW f, slot' = [slot EXCEPT ![w].phase = "counted", ![w].full = f]
              PROVE  slot'[w].phase = "counted"
          BY <4>1, <1>a DEF Slot
        <4>2. slot' = [slot EXCEPT ![w] = IdleSlot] => slot'[w].phase = "idle"
          BY <1>a DEF IdleSlot
        <4> QED BY <3>2, <4>1, <4>2 DEF CountKinds
      <3>3. CASE Join(w)
        BY <3>3, <1>a DEF Join, IdleSlot
      <3> QED BY <1>4, <3>1, <3>2, <3>3
    <2> QED BY <1>e, <2>1
  <1>5. CASE Sweep(w)
    <2>1. ASSUME NEW q \in slot[w].todo,
                 slot' = [slot EXCEPT ![w] =
                        [@ EXCEPT !.todo  = slot[w].todo \ {q},
                                  !.run   = IF Active(q) THEN q ELSE None,
                                  !.phase = IF Active(q) THEN "mark" ELSE "sweep",
                                  !.found = IF Active(q) THEN "failed" ELSE "none",
                                  !.seen = file[q].cancel,
                                  !.next = "sweep"]]
          PROVE  FALSE
      <3>1. slot'[w].phase \in {"mark", "sweep"} /\ slot'[w].next = "sweep"
        BY <1>a, <2>1 DEF Slot
      <3> QED BY <1>b, <3>1 DEF Busy, Holding
    <2>2. CASE GoTo(w, "poll")
      BY <1>a, <1>e, <2>2 DEF GoTo, Slot
    <2> QED BY <1>5, <2>1, <2>2 DEF Sweep
  <1>6. CASE TakeJob(w)
    <2>1. ASSUME NEW q, slot' = [slot EXCEPT ![w] = [IdleSlot EXCEPT !.phase = "claimed", !.run = q]]
          PROVE  q = r
      BY <1>a, <1>b, <2>1 DEF IdleSlot
    <2>2. slot' # [slot EXCEPT ![w] = IdleSlot]
      BY <1>a, <1>e DEF IdleSlot
    <2>3. PICK q \in First(Claimable(slot[w].full)) :
             /\ sql' = [sql EXCEPT ![q] = [status |-> "running", slot |-> w, stale |-> FALSE,
                                           claims |-> @.claims + 1]]
             /\ slot' = [slot EXCEPT ![w] = [IdleSlot EXCEPT !.phase = "claimed", !.run = q]]
      BY <1>6, <2>2 DEF TakeJob
    <2>4. /\ q = r
          /\ sql[q].status = "queued" /\ file[q].kind \notin slot[w].full
      BY <2>1, <2>3 DEF First, Claimable
    <2>5. /\ sql'[q] = [status |-> "running", slot |-> w, stale |-> FALSE,
                        claims |-> sql[q].claims + 1]
          /\ \A x \in Runs \ {q} : sql'[x] = sql[x]
      BY <2>3, <2>4 DEF TypeInv, RagTypeOK
    <2> QED BY <1>6, <2>3, <2>4, <2>5 DEF Takes, Taken
  <1>7. CASE OpenRun(w)
    <2>1. slot'[w].run = slot[w].run
      BY <1>7, <1>a, <1>e DEF OpenRun, IdleSlot, Slot
    <2> QED BY <1>7, <1>d, <2>1 DEF OpenRun, Busy, Holding
  <1>8. ASSUME Busy(w),
               \/ \E p : GoTo(w, p)
               \/ \E p, s : Moves(w, p, s)
               \/ Leaves(w)
               \/ \E p, n, s : slot' = [slot EXCEPT ![w] = [@ EXCEPT !.phase = p, !.found = s, !.next = n]]
        PROVE  Holds(w, r)
    <2>1. slot'[w].run = slot[w].run
      BY <1>8, <1>a DEF GoTo, Moves, Leaves, Run, IdleSlot, Slot
    <2> QED BY <1>8, <1>d, <2>1
  <1>9. CASE MarkStarted(w) \/ Load(w) \/ Settle(w) \/ SettleLost(w) \/ FailRow(w)
    <2>1. Busy(w) /\ ((\E p : GoTo(w, p)) \/ (\E p, s : Moves(w, p, s)) \/ Leaves(w))
      BY <1>9 DEF MarkStarted, Load, Settle, SettleLost, FailRow, Busy, Holding
    <2> QED BY <1>8, <2>1
  <1>10. CASE Execute(w)
    <2>1. CASE /\ slot[w].phase \in {"begin", "open", "work", "clear", "stopping"}
               /\ slot' = [slot EXCEPT ![w].phase = "mark", ![w].found = "cancelled",
                                       ![w].next = "ended"]
      <3>1. slot'[w].run = slot[w].run
        BY <1>a, <2>1 DEF Slot
      <3> QED BY <1>d, <2>1, <3>1 DEF Busy, Holding
    <2>2. CASE Busy(w) /\ ((\E p : GoTo(w, p)) \/ (\E p, s : Moves(w, p, s)))
      BY <1>8, <2>2
    <2> QED BY <1>10, <2>1, <2>2 DEF Execute, RunIngestion, RunQuery, RunEvaluation, RunGovernance,
            RunTuning, RunCandidates, Begin, OpenIndex, Works, Check, Stop, Break, Announce, Finish,
            Looks, Busy, Holding
  <1>11. CASE Realign(w) \/ Raised(w)
    <2>1. slot'[w].run = slot[w].run
      <3>1. ASSUME NEW p, NEW n, NEW s,
                   slot' = [slot EXCEPT ![w] = [slot[w] EXCEPT !.phase = p, !.found = s, !.next = n]]
            PROVE  slot'[w].run = slot[w].run
        BY <1>a, <3>1 DEF Slot
      <3>2. CASE Leaves(w)
        BY <1>a, <3>2 DEF Leaves, Run, IdleSlot
      <3>3. CASE Raised(w)
        <4> DEFINE p == IF State(w) \in ActiveStatus THEN "mark" ELSE "fail"
        <4>1. slot' = [slot EXCEPT ![w] = [slot[w] EXCEPT !.phase = p, !.found = "failed", !.next = "fail"]]
          BY <1>a, <3>3 DEF Raised, Slot
        <4> QED BY <3>1, <4>1
      <3>4. CASE Realign(w) /\ ~Leaves(w)
        <4> DEFINE s == IF sql[Run(w)].status = "cancelled" THEN "cancelled" ELSE "failed"
        <4>1. slot' = [slot EXCEPT ![w] = [slot[w] EXCEPT !.phase = "mark", !.found = s, !.next = "done"]]
          BY <1>a, <3>4 DEF Realign, Slot
        <4> QED BY <3>1, <4>1
      <3> QED BY <1>11, <3>2, <3>3, <3>4
    <2> QED BY <1>11, <1>d, <2>1 DEF Realign, Raised, Busy, Holding
  <1>12. CASE Mark(w)
    <2>1. CASE slot[w].next = "sweep"
      <3>1. Moves(w, "sweep", slot[w].found)
        BY <1>12, <2>1 DEF Mark
      <3> QED BY <1>a, <1>e, <3>1 DEF Moves, Slot
    <2>2. CASE slot[w].next # "sweep"
      BY <1>12, <1>8, <2>2 DEF Mark, Busy
    <2> QED BY <2>1, <2>2
  <1>13. CASE HeartbeatStep(w)
    <2>1. slot'[w].phase = slot[w].phase /\ slot'[w].next = slot[w].next /\ slot'[w].run = slot[w].run
      BY <1>13, <1>a DEF HeartbeatStep, Heartbeat, LoseLease, AbortLoad, AbortMark, Slot
    <2> QED BY <1>b, <1>d, <2>1 DEF Busy
  <1>14. ASSUME NEW c \in Clients,
                (\E q \in Runs : UserStep(c, q)) \/ QuietRequest(c) \/ Enqueue(c) \/ EnqueueRaises(c)
         PROVE  UNCHANGED slot
    BY <1>14, RequestsLeaveSlots
  <1> QED BY <1>1, <1>2, <1>3, <1>4, <1>5, <1>6, <1>7, <1>9, <1>10, <1>11, <1>12, <1>13, <1>14,
             StepCases DEF SlotStep

(* At the start nobody holds a run, and the given ones were claimed once.  *)
LEMMA HeldInit == Init => HeldOnce
  BY DEF Init, HeldOnce, NeverRerun, Holds, IdleSlot, Holding

(* A claim finds the run in nobody's hands; nothing else hands runs out.   *)
LEMMA HeldStep ==
    ASSUME RowInv, HeldOnce, [Next]_vars
    PROVE  HeldOnce'
  <1>a. TypeInv /\ RowMoves
    BY RowsMove DEF RowInv
  <1>1. ASSUME NEW r \in Runs
        PROVE  /\ sql'[r].status \in {"none", "queued"} => sql'[r].claims = 0
               /\ sql'[r].claims <= 1
               /\ \A w \in Slots : Holds(w, r)' => sql'[r].status \notin {"none", "queued"}
    <2>1. Plain(r) \/ Enqueued(r) \/ Taken(r)
      BY <1>a DEF RowMoves
    <2>2. /\ sql'[r].status \in {"none", "queued"} => sql'[r].claims = 0
          /\ sql'[r].claims <= 1
      BY <2>1 DEF HeldOnce, Plain, Enqueued, Taken, Ending, Beating, EndStatus
    <2>3. ASSUME NEW w \in Slots, Holds(w, r)' PROVE sql'[r].status \notin {"none", "queued"}
      <3>1. CASE Holds(w, r)
        <4>1. sql[r].status \notin {"none", "queued"}
          BY <3>1 DEF HeldOnce
        <4> QED BY <2>1, <4>1 DEF Plain, Enqueued, Taken, Ending, Beating, EndStatus
      <3>2. CASE Takes(w, r)
        BY <3>2 DEF Takes, Taken
      <3> QED BY <1>a, <2>3, <3>1, <3>2, HoldsMove
    <2> QED BY <2>2, <2>3
  <1>2. ASSUME NEW r \in Runs, NEW v \in Slots, NEW w \in Slots, Holds(v, r)', Holds(w, r)'
        PROVE  v = w
    <2>1. Holds(v, r) \/ Takes(v, r)
      BY <1>a, <1>2, HoldsMove
    <2>2. Holds(w, r) \/ Takes(w, r)
      BY <1>a, <1>2, HoldsMove
    <2>3. ASSUME NEW x \in Slots, NEW y \in Slots, Takes(x, r), Holds(y, r)' PROVE y = x
      <3>1. sql[r].status = "queued"
        BY <2>3 DEF Takes, Taken
      <3>2. ~Holds(y, r)
        BY <3>1 DEF HeldOnce
      <3>3. SUFFICES ASSUME y # x PROVE Holds(y, r)
        BY <3>2
      <3>4. slot'[y] = slot[y]
        BY <2>3, <3>3, <1>a DEF Takes, TypeInv, RagTypeOK
      <3> QED BY <2>3, <3>4 DEF Holds
    <2>4. CASE Holds(v, r) /\ Holds(w, r)
      BY <2>4 DEF HeldOnce, NeverRerun
    <2> QED BY <1>2, <2>1, <2>2, <2>3, <2>4
  <1> QED BY <1>1, <1>2 DEF HeldOnce, NeverRerun

(* A run is handed out at most once and is in the hands of one slot at a   *)
(* time, however many slots there are and whatever dies or goes stale.     *)
THEOREM RunsAreHandedOutOnce == Spec => []NeverRerun
  <1>1. HeldOnce => NeverRerun
    BY DEF HeldOnce
  <1> QED BY <1>1, RowInvInit, RowInvStep, HeldInit, HeldStep, PTL DEF Spec

-----------------------------------------------------------------------------
(* The limits.  The slot that has counted holds the lock until it takes a  *)
(* run, so what it has counted is still true then.                         *)

CountsHold ==
    \A w \in Slots : slot[w].phase = "counted" =>
       /\ claimLock = w
       /\ \A k \in Kinds \ slot[w].full : Cardinality(Running(k)) < Limit[k]

WithinLimit ==
    \A k \in Kinds : IsFiniteSet(Running(k)) /\ Cardinality(Running(k)) <= Limit[k]

LimitInv == CountsHold /\ WithinLimit

(* A run has its kind for good once it has a row: only the request that    *)
(* made the run up writes a new file.                                      *)
LEMMA KindsAreFixed ==
    ASSUME RowInv, [Next]_vars, NEW r \in Runs, sql[r].status # "none"
    PROVE  file'[r].kind = file[r].kind
  <1> USE DEF storeVars, workerVars, bounded, execUnchanged
  <1>a. file \in [Runs -> File] /\ \A x \in Runs : file[x] \in File
    BY DEF RowInv, TypeInv, RagTypeOK
  <1>b. UNCHANGED file => file'[r].kind = file[r].kind
    OBVIOUS
  <1>c. \A x, s : SetStatus(x, s) => file'[r].kind = file[r].kind
    BY <1>a DEF SetStatus, File
  <1>d. \A x : SetCancelling(x) => file'[r].kind = file[r].kind
    BY <1>a DEF SetCancelling, File
  <1>e. \A w, s : Writes(w, s) => file'[r].kind = file[r].kind
    BY <1>a DEF Writes, File
  <1>f. \A x, k, b : x # r /\ Created(x, k, b) => file'[r].kind = file[r].kind
    BY <1>a DEF Created
  <1>1. ASSUME NEW c \in Clients, NEW q \in Runs, UserStep(c, q)
        PROVE  file'[r].kind = file[r].kind
    <2>1. CASE StartIngestion(c, q)
      BY <1>f, <2>1 DEF StartIngestion, Fresh
    <2>2. CASE ImportReboundCandidate(c, q)
      <3>1. q # r
        BY <2>2 DEF ImportReboundCandidate, Fresh
      <3> QED BY <1>a, <2>2, <3>1 DEF ImportReboundCandidate
    <2>3. CASE ~StartIngestion(c, q) /\ ~ImportReboundCandidate(c, q)
      BY <1>1, <1>b, <2>3 DEF UserStep, Starts, StartQuery, StartCandidates, StartTuning,
            StartEvaluation, StartGovernance, Cancel, Read,
            DeleteEvaluation, DeleteIngestion, DeleteDerived
    <2> QED BY <2>1, <2>2, <2>3
  <1>2. ASSUME NEW c \in Clients, QuietRequest(c) PROVE file'[r].kind = file[r].kind
    <2>1. CASE StartWrites(c)
      <3>1. PICK q \in Runs : web[c].runs = {q} /\ sql[q].status = "none"
        BY <2>1 DEF StartWrites, RowInv, PendingApart, Pending
      <3>2. Asked(c) # r
        BY <3>1 DEF Asked
      <3> QED BY <1>f, <2>1, <3>2 DEF StartWrites
    <2>2. CASE RemoveDirectories(c)
      <3>1. \A x \in File : [x EXCEPT !.state = "absent"].kind = x.kind
        BY DEF File
      <3> QED BY <1>a, <2>2, <3>1 DEF RemoveDirectories
    <2>3. CASE ~StartWrites(c) /\ ~RemoveDirectories(c)
      BY <1>2, <1>b, <1>c, <1>d, <2>3 DEF QuietRequest, RunIsGone, CancelMarks, CancelSql, CancelEnds,
            StaleSql, StaleLoad, StaleMark
    <2> QED BY <2>1, <2>2, <2>3
  <1>3. ASSUME NEW c \in Clients, Enqueue(c) \/ EnqueueRaises(c) PROVE file'[r].kind = file[r].kind
    BY <1>3, <1>b, <1>c DEF Enqueue, EnqueueRaises
  <1>4. ASSUME NEW w \in Slots, SlotStep(w) PROVE file'[r].kind = file[r].kind
    BY <1>4, <1>b, <1>e DEF SlotStep, Reconcile, Sweep, CountKinds, TakeJob, OpenRun, MarkStarted,
          Execute, RunIngestion, RunQuery, RunEvaluation, RunGovernance, RunTuning, RunCandidates,
          Begin, OpenIndex, Works, Check, Stop, Break, Announce, Finish,
          Load, Settle, SettleLost, Realign, Raised, FailRow, Mark, Join
  <1>5. ASSUME NEW w \in Slots, HeartbeatStep(w) PROVE file'[r].kind = file[r].kind
    <2>1. CASE Heartbeat(w)
      <3>1. file' = [file EXCEPT ![Run(w)] = [file[Run(w)] EXCEPT !.quiet = FALSE]]
        BY <2>1 DEF Heartbeat
      <3> QED BY <1>a, <3>1 DEF File
    <2> QED BY <1>5, <1>b, <1>d, <2>1 DEF HeartbeatStep, LoseLease, AbortLoad, AbortMark
  <1>6. ASSUME NEW q \in Runs, FileAges(q) PROVE file'[r].kind = file[r].kind
    <2>1. file' = [file EXCEPT ![q] = [file[q] EXCEPT !.quiet = TRUE]]
      BY <1>6 DEF FileAges
    <2> QED BY <1>a, <2>1 DEF File
  <1>7. TypeInv
    BY DEF RowInv
  <1>8. CASE OtherStep
    BY <1>7, <1>8, <1>b, <1>6, ErrorsMove
       DEF OtherStep, DeleteSource, Crash, Restart, vars, ThreadDies, RowAges
  <1> QED BY <1>1, <1>2, <1>3, <1>4, <1>5, <1>8, <1>7, StepCases

(* The runs of a kind that are running grow by claims only.                *)
LEMMA RunningGrows ==
    ASSUME RowInv, [Next]_vars, NEW k,
           NEW r \in Runs, sql'[r].status = "running", file'[r].kind = k
    PROVE  r \in Running(k) \/ (Taken(r) /\ file[r].kind = k)
  <1>1. Plain(r) \/ Enqueued(r) \/ Taken(r)
    BY RowsMove DEF RowInv, RowMoves
  <1>2. sql[r].status # "none"
    BY <1>1 DEF Plain, Enqueued, Taken, Ending, Beating
  <1>3. file[r].kind = k
    BY <1>2, KindsAreFixed
  <1> QED BY <1>1, <1>3 DEF Plain, Enqueued, Taken, Ending, Beating, EndStatus, Running

(* If anything is taken, it is taken by the one slot that has counted.     *)
LEMMA TakersMove ==
    ASSUME RowInv, [Next]_vars, NEW r \in Runs, Taken(r)
    PROVE  \E w \in Slots : Takes(w, r)
  <1>a. TypeInv
    BY DEF RowInv
  <1>b. ~Plain(r) /\ ~Enqueued(r)
    BY DEF Taken, Plain, Ending, Beating, Enqueued, EndStatus
  <1>1. ASSUME NEW c \in Clients, Enqueue(c) \/ EnqueueRaises(c) PROVE FALSE
    <2>1. sql'[r] = sql[r] \/ Enqueued(r)
      BY <1>1, EnqueueMoves DEF RowInv
    <2> QED BY <1>b, <2>1 DEF Plain
  <1>2. ASSUME NEW w \in Slots, SlotStep(w) \/ HeartbeatStep(w) PROVE Takes(w, r)
    <2>1. PICK q \in Runs : Takes(w, q)
      BY <1>2, <1>a, <1>b, SlotMovesRows
    <2>2. q = r
      BY <1>b, <2>1 DEF Takes, Plain
    <2> QED BY <2>1, <2>2
  <1> QED BY <1>1, <1>2, <1>a, <1>b, StepCases, RequestsArePlain, OthersArePlain

(* A claim of a kind that was not full keeps its limit, nothing else grows.*)
LEMMA WithinLimitStep ==
    ASSUME RowInv, LimitInv, [Next]_vars
    PROVE  WithinLimit'
  <1> SUFFICES ASSUME NEW k \in Kinds
               PROVE  IsFiniteSet(Running(k))' /\ Cardinality(Running(k))' <= Limit[k]
    BY DEF WithinLimit
  <1>a. /\ IsFiniteSet(Running(k)) /\ Cardinality(Running(k)) <= Limit[k]
        /\ Cardinality(Running(k)) \in Nat /\ Limit[k] \in Nat
    BY FS_CardinalityType, RagAssumption DEF LimitInv, WithinLimit
  <1>b. Running(k)' = {r \in Runs : sql'[r].status = "running" /\ file'[r].kind = k}
    BY DEF Running
  <1>1. CASE \E q \in Runs : Taken(q) /\ file[q].kind = k
    <2>1. PICK q \in Runs : Taken(q) /\ file[q].kind = k
      BY <1>1
    <2>2. PICK w \in Slots : Takes(w, q)
      BY <2>1, TakersMove
    <2>3. \A r \in Runs : Taken(r) => r = q
      BY <2>2 DEF Takes, Taken
    <2>4. Running(k)' \subseteq Running(k) \cup {q}
      BY <1>b, <2>3, RunningGrows
    <2>5. Cardinality(Running(k)) < Limit[k]
      BY <2>1, <2>2 DEF Takes, TakeJob, LimitInv, CountsHold
    <2>6. /\ IsFiniteSet(Running(k) \cup {q})
          /\ Cardinality(Running(k) \cup {q}) <= Cardinality(Running(k)) + 1
      <3> DEFINE S == Running(k)
      <3>1. /\ IsFiniteSet(S \cup {q})
            /\ Cardinality(S \cup {q}) = IF q \in S THEN Cardinality(S) ELSE Cardinality(S) + 1
        <4> HIDE DEF S
        <4>1. IsFiniteSet(S)
          BY <1>a DEF S
        <4> QED BY <4>1, FS_AddElement
      <3> QED BY <1>a, <3>1
    <2>7. /\ IsFiniteSet(Running(k))'
          /\ Cardinality(Running(k))' <= Cardinality(Running(k) \cup {q})
      BY <2>4, <2>6, FS_Subset
    <2>8. Cardinality(Running(k) \cup {q}) \in Nat /\ Cardinality(Running(k))' \in Nat
      BY <2>6, <2>7, FS_CardinalityType
    <2> QED BY <1>a, <2>5, <2>6, <2>7, <2>8
  <1>2. CASE ~\E q \in Runs : Taken(q) /\ file[q].kind = k
    <2>1. Running(k)' \subseteq Running(k)
      BY <1>b, <1>2, RunningGrows
    <2>2. IsFiniteSet(Running(k))' /\ Cardinality(Running(k))' <= Cardinality(Running(k))
      BY <1>a, <2>1, FS_Subset
    <2>3. Cardinality(Running(k))' \in Nat
      BY <2>2, FS_CardinalityType
    <2> QED BY <1>a, <2>2, <2>3
  <1> QED BY <1>1, <1>2

(* The lock keeps what a slot has counted true until the slot uses it.     *)
LEMMA CountsHoldStep ==
    ASSUME RowInv, LimitInv, [Next]_vars
    PROVE  CountsHold'
  <1> USE DEF storeVars, workerVars, bounded, execUnchanged
  <1>a. slot \in [Slots -> Slot] /\ \A v \in Slots : slot[v] \in Slot
    BY DEF RowInv, TypeInv, RagTypeOK
  <1>b. TypeInv
    BY DEF RowInv
  <1> SUFFICES ASSUME NEW w \in Slots, slot'[w].phase = "counted"
               PROVE  /\ claimLock' = w
                      /\ \A k \in Kinds \ slot'[w].full : Cardinality(Running(k))' < Limit[k]
    BY DEF CountsHold
  <1> DEFINE Counts == /\ UNCHANGED <<sql, file>>
                       /\ claimLock = None /\ claimLock' = w
                       /\ slot'[w].full = {k \in Kinds : Cardinality(Running(k)) >= Limit[k]}
  <1> DEFINE Stays == /\ slot[w].phase = "counted" /\ slot'[w].full = slot[w].full
                      /\ claimLock' = claimLock
                      /\ \A r \in Runs : ~Taken(r)
  <1>c. UNCHANGED sql => \A r \in Runs : ~Taken(r)
    BY DEF Taken
  <1>d. (\A r \in Runs : Plain(r) \/ Enqueued(r)) => \A r \in Runs : ~Taken(r)
    BY DEF Plain, Ending, Beating, Enqueued, EndStatus, Taken
  <1>1. CASE Counts
    <2>1. \A k \in Kinds : Running(k)' = Running(k)
      BY <1>1 DEF Running
    <2>2. \A k \in Kinds : Cardinality(Running(k)) \in Nat /\ Limit[k] \in Nat
      BY FS_CardinalityType, RagAssumption DEF LimitInv, WithinLimit
    <2> QED BY <1>1, <2>1, <2>2
  <1>2. CASE Stays
    <2>1. claimLock = w /\ \A k \in Kinds \ slot[w].full : Cardinality(Running(k)) < Limit[k]
      BY <1>2 DEF LimitInv, CountsHold
    <2>2. ASSUME NEW k \in Kinds PROVE Cardinality(Running(k))' <= Cardinality(Running(k))
      <3>1. Running(k)' \subseteq Running(k)
        BY <1>2, RunningGrows DEF Running
      <3> QED BY <3>1, FS_Subset DEF LimitInv, WithinLimit
    <2>3. ASSUME NEW k \in Kinds
          PROVE  /\ Cardinality(Running(k)) \in Nat /\ Cardinality(Running(k))' \in Nat
                 /\ Limit[k] \in Nat
      <3>1. IsFiniteSet(Running(k)) /\ IsFiniteSet(Running(k))'
        BY WithinLimitStep DEF LimitInv, WithinLimit
      <3> QED BY <3>1, FS_CardinalityType, RagAssumption
    <2> QED BY <1>2, <2>1, <2>2, <2>3
  <1>3. ASSUME NEW c \in Clients,
               (\E q \in Runs : UserStep(c, q)) \/ QuietRequest(c) \/ Enqueue(c) \/ EnqueueRaises(c)
        PROVE  Stays
    <2>1. UNCHANGED <<slot, claimLock>>
      BY <1>3 DEF UserStep, Starts, StartIngestion, StartQuery, StartCandidates, StartTuning,
            StartEvaluation, StartGovernance, ImportReboundCandidate, Cancel, Read,
            DeleteEvaluation, DeleteIngestion, DeleteDerived,
            QuietRequest, StartWrites, RunIsGone, CancelMarks, CancelSql, CancelEnds,
            StaleSql, StaleLoad, StaleMark, RemoveDirectories, Enqueue, EnqueueRaises
    <2>2. \A r \in Runs : Plain(r) \/ Enqueued(r)
      BY <1>3, <1>b, RequestsArePlain, EnqueueMoves DEF RowInv, Plain
    <2> QED BY <2>1, <2>2, <1>d
  <1>4. CASE OtherStep
    <2>1. \A r \in Runs : ~Taken(r)
      BY <1>4, <1>b, <1>d, OthersArePlain
    <2>2. CASE Crash \/ Restart
      <3>1. slot'[w] = IdleSlot
        BY <2>2 DEF Crash, Restart, AllIdle
      <3> QED BY <3>1 DEF IdleSlot
    <2>3. ASSUME NEW v \in Slots, ThreadDies(v) PROVE Stays
      <3>1. v # w
        BY <1>a, <2>3 DEF ThreadDies, IdleSlot
      <3>2. slot'[w] = slot[w]
        BY <1>a, <2>3, <3>1 DEF ThreadDies
      <3>3. claimLock = w
        BY <3>2 DEF LimitInv, CountsHold
      <3> QED BY <2>1, <2>3, <3>1, <3>2, <3>3 DEF ThreadDies
    <2>4. CASE UNCHANGED <<slot, claimLock>>
      <3>1. Stays
        BY <2>1, <2>4
      <3> QED BY <1>2, <3>1
    <2>5. \/ Crash \/ Restart \/ UNCHANGED <<slot, claimLock>>
          \/ \E v \in Slots : ThreadDies(v) \/ DatabaseFails(v)
      BY <1>4 DEF OtherStep, DeleteSource, vars, RowAges, FileAges
    <2>6. ASSUME NEW v \in Slots, DatabaseFails(v) PROVE Stays
      <3>1. slot'[w] = slot[w] /\ claimLock' = claimLock
        BY <1>b, <2>6, ErrorsMove
      <3>2. claimLock = w
        BY <3>1 DEF LimitInv, CountsHold
      <3> QED BY <2>1, <3>1, <3>2
    <2>7. (\E v \in Slots : ThreadDies(v) \/ DatabaseFails(v)) => Stays
      BY <2>3, <2>6
    <2> QED BY <1>2, <2>2, <2>4, <2>5, <2>7
  <1>5. ASSUME NEW v \in Slots, v # w, SlotStep(v) \/ HeartbeatStep(v) PROVE Stays
    <2>1. slot'[w] = slot[w]
      BY <1>5, <1>a DEF SlotStep, HeartbeatStep, Reconcile, Sweep, CountKinds, TakeJob, OpenRun,
            MarkStarted, Execute, RunIngestion, RunQuery, RunEvaluation, RunGovernance, RunTuning,
            RunCandidates, Begin, OpenIndex, Works, Check, Stop, Break, Announce, Finish,
            Load, Settle, SettleLost, Realign, Raised, FailRow, Mark, Join, GoTo, Moves, Looks, Leaves,
            Heartbeat, LoseLease, AbortLoad, AbortMark
    <2>2. claimLock = w /\ w # None
      BY <2>1, RagAssumption DEF LimitInv, CountsHold
    <2>3. ~TakeJob(v)
      BY <1>5, <2>2 DEF TakeJob, LimitInv, CountsHold
    <2>4. claimLock' = claimLock
      BY <1>5, <2>2, <2>3 DEF SlotStep, HeartbeatStep, Reconcile, Sweep, CountKinds, OpenRun,
            MarkStarted, Execute, RunIngestion, RunQuery, RunEvaluation, RunGovernance, RunTuning,
            RunCandidates, Begin, OpenIndex, Works, Check, Stop, Break, Announce, Finish,
            Load, Settle, SettleLost, Realign, Raised, FailRow, Mark, Join,
            Heartbeat, LoseLease, AbortLoad, AbortMark
    <2>5. \A r \in Runs : Plain(r)
      BY <1>5, <1>b, <2>3, SlotMovesRows DEF Takes
    <2> QED BY <2>1, <2>4, <2>5, <1>d
  <1>6. ASSUME SlotStep(w) PROVE Counts
    <2>1. CASE CountKinds(w)
      <3>1. slot' # [slot EXCEPT ![w] = IdleSlot]
        BY <1>a DEF IdleSlot
      <3> DEFINE f == {k \in Kinds : Cardinality(Running(k)) >= Limit[k]}
      <3>2. /\ claimLock = None /\ claimLock' = w /\ UNCHANGED <<sql, file>>
            /\ slot' = [slot EXCEPT ![w].phase = "counted", ![w].full = f]
        BY <2>1, <3>1 DEF CountKinds
      <3> HIDE DEF f
      <3>3. slot'[w].full = f
        BY <1>a, <3>2 DEF Slot
      <3> QED BY <3>2, <3>3 DEF f
    <2>2. CASE Reconcile(w)
      BY <1>a, <2>2 DEF Reconcile, IdleSlot
    <2>3. CASE Sweep(w)
      <3>1. CASE GoTo(w, "poll")
        BY <1>a, <3>1 DEF GoTo, Slot
      <3>2. ASSUME NEW q,
                   slot' = [slot EXCEPT ![w] =
                        [@ EXCEPT !.todo  = slot[w].todo \ {q},
                                  !.run   = IF Active(q) THEN q ELSE None,
                                  !.phase = IF Active(q) THEN "mark" ELSE "sweep",
                                  !.found = IF Active(q) THEN "failed" ELSE "none",
                                  !.seen = file[q].cancel,
                                  !.next = "sweep"]]
            PROVE  FALSE
        <4>1. slot'[w].phase \in {"mark", "sweep"}
          BY <1>a, <3>2 DEF Slot
        <4> QED BY <4>1
      <3> QED BY <2>3, <3>1, <3>2 DEF Sweep
    <2>4. CASE TakeJob(w) \/ Join(w)
      <3>1. slot' # [slot EXCEPT ![w] = IdleSlot]
        BY <1>a DEF IdleSlot
      <3>2. ASSUME NEW q, slot' = [slot EXCEPT ![w] = [IdleSlot EXCEPT !.phase = "claimed", !.run = q]]
            PROVE  FALSE
        BY <1>a, <3>2 DEF IdleSlot
      <3> QED BY <2>4, <3>1, <3>2 DEF TakeJob, Join
    <2>5. CASE OpenRun(w)
      BY <1>a, <2>5 DEF OpenRun, IdleSlot, Slot
    <2>6. ASSUME \/ \E p \in SlotPhase \ {"counted"} : GoTo(w, p)
                 \/ \E p \in SlotPhase \ {"counted"} : \E s : Moves(w, p, s)
                 \/ Leaves(w)
          PROVE  FALSE
      <3>1. \A p : GoTo(w, p) => slot'[w].phase = p
        BY <1>a DEF GoTo, Slot
      <3>2. \A p, s : Moves(w, p, s) => slot'[w].phase = p
        BY <1>a DEF Moves, Slot
      <3>3. Leaves(w) => slot'[w].phase = "done"
        BY <1>a DEF Leaves, IdleSlot
      <3> QED BY <2>6, <3>1, <3>2, <3>3
    <2>7. CASE MarkStarted(w) \/ Load(w) \/ Settle(w) \/ SettleLost(w) \/ FailRow(w)
      BY <2>6, <2>7 DEF MarkStarted, Load, Settle, SettleLost, FailRow, SlotPhase
    <2>8. CASE Mark(w)
      <3>1. slot[w].next \in SlotPhase \ {"counted"}
        BY <1>a DEF Slot, SlotPhase
      <3> QED BY <2>6, <2>8, <3>1 DEF Mark
    <2>9. ASSUME NEW p \in SlotPhase \ {"counted"}, NEW s, NEW n,
                 slot' = [slot EXCEPT ![w] = [slot[w] EXCEPT !.phase = p, !.found = s, !.next = n]]
          PROVE  FALSE
      BY <1>a, <2>9 DEF Slot
    <2>10. CASE Realign(w) \/ Raised(w)
      <3>1. {"mark", "fail"} \subseteq SlotPhase \ {"counted"}
        BY DEF SlotPhase
      <3>2. CASE Leaves(w)
        BY <2>6, <3>2
      <3>3. CASE Raised(w)
        <4> DEFINE p == IF State(w) \in ActiveStatus THEN "mark" ELSE "fail"
        <4>1. slot' = [slot EXCEPT ![w] = [slot[w] EXCEPT !.phase = p, !.found = "failed", !.next = "fail"]]
          BY <1>a, <3>3 DEF Raised, Slot
        <4>2. p \in SlotPhase \ {"counted"}
          BY <3>1
        <4> QED BY <2>9, <4>1, <4>2
      <3>4. CASE Realign(w) /\ ~Leaves(w)
        <4> DEFINE s == IF sql[Run(w)].status = "cancelled" THEN "cancelled" ELSE "failed"
        <4>1. slot' = [slot EXCEPT ![w] = [slot[w] EXCEPT !.phase = "mark", !.next = "done", !.found = s]]
          BY <3>4 DEF Realign
        <4> HIDE DEF s
        <4>2. slot'[w].phase = "mark"
          BY <1>a, <4>1 DEF Slot
        <4> QED BY <4>2
      <3> QED BY <2>10, <3>2, <3>3, <3>4
    <2>11. CASE Execute(w)
      <3>1. CASE slot' = [slot EXCEPT ![w].phase = "mark", ![w].found = "cancelled",
                                      ![w].next = "ended"]
        BY <1>a, <3>1 DEF Slot
      <3>2. CASE \/ \E p \in SlotPhase \ {"counted"} : GoTo(w, p)
                 \/ \E p \in SlotPhase \ {"counted"} : \E s : Moves(w, p, s)
        BY <2>6, <3>2
      <3> QED BY <2>11, <3>1, <3>2 DEF Execute, RunIngestion, RunQuery, RunEvaluation, RunGovernance,
              RunTuning, RunCandidates, Begin, OpenIndex, Works, Check, Stop, Break, Announce, Finish,
              Looks, SlotPhase
    <2> QED BY <1>6, <2>1, <2>2, <2>3, <2>4, <2>5, <2>7, <2>8, <2>10, <2>11 DEF SlotStep
  <1>7. ASSUME HeartbeatStep(w) PROVE Stays
    <2>1. slot'[w].phase = slot[w].phase /\ slot'[w].full = slot[w].full
      BY <1>7, <1>a DEF HeartbeatStep, Heartbeat, LoseLease, AbortLoad, AbortMark, Slot
    <2>2. UNCHANGED claimLock
      BY <1>7 DEF HeartbeatStep, Heartbeat, LoseLease, AbortLoad, AbortMark
    <2>3. \A r \in Runs : Plain(r)
      <3>1. ASSUME NEW q, Takes(w, q) PROVE slot'[w].phase = "claimed"
        BY <1>a, <3>1 DEF Takes, IdleSlot
      <3> QED BY <1>7, <1>b, <3>1, SlotMovesRows
    <2> QED BY <2>1, <2>2, <2>3, <1>d
  <1> QED BY <1>1, <1>2, <1>3, <1>4, <1>5, <1>6, <1>7, <1>b, StepCases

(* At the start nothing runs, and nobody has counted.                      *)
LEMMA LimitInit == Init => LimitInv
  <1> SUFFICES ASSUME Init PROVE LimitInv
    OBVIOUS
  <1>1. CountsHold
    BY DEF Init, IdleSlot, CountsHold
  <1>2. \A k : Running(k) = {}
    BY DEF Init, Running
  <1>3. WithinLimit
    <2>1. IsFiniteSet({}) /\ Cardinality({}) = 0
      BY FS_EmptySet
    <2>2. ASSUME NEW k \in Kinds
          PROVE  IsFiniteSet(Running(k)) /\ Cardinality(Running(k)) <= Limit[k]
      <3>1. Running(k) = {} /\ Limit[k] \in Nat
        BY <1>2, RagAssumption
      <3> QED BY <2>1, <3>1
    <2> QED BY <2>2 DEF WithinLimit
  <1> QED BY <1>1, <1>3 DEF LimitInv

(* Never are more rows of a kind running than its limit, however the       *)
(* claims of any number of slots interleave and wherever threads die.      *)
THEOREM LimitsHold == Spec => []KindsWithinLimit
  <1>1. RowInv /\ LimitInv /\ [Next]_vars => LimitInv'
    BY CountsHoldStep, WithinLimitStep DEF LimitInv
  <1>2. LimitInv => KindsWithinLimit
    BY DEF LimitInv, WithinLimit, KindsWithinLimit
  <1> QED BY <1>1, <1>2, RowInvInit, RowInvStep, LimitInit, PTL DEF Spec

-----------------------------------------------------------------------------
(***************************************************************************)
(* Results.  A file that shows a success is backed: by its row, by a slot  *)
(* on its way from the write of the file to the row, or because the run is *)
(* an import, which has no row.                                            *)
(***************************************************************************)

Success == {"staged", "succeeded"}
Shows(r) == file[r].state \in Success

Vouching == {"ended", "settle", "realign", "mark"}

(* Slot w has yet to take the file of r over into its row, or to mark the  *)
(* file because the row has another end.                                   *)
Vouches(w, r) ==
    /\ slot[w].run = r
    /\ \/ slot[w].phase \in {"ended", "realign"}
       \/ slot[w].phase = "settle" /\ slot[w].found = Done(file[r].kind)
       \/ slot[w].phase = "mark" /\ slot[w].next = "done"

Unasked(r) == \A c \in Clients : Pending(c) => r \notin web[c].runs

Backed(r) ==
    \/ sql[r].status = "succeeded"
    \/ sql[r].status = "none" /\ Unasked(r)
    \/ \E w \in Slots : Vouches(w, r)

DoneAsKind ==
    \A r \in Runs : Shows(r) => file[r].kind \in Kinds /\ file[r].state = Done(file[r].kind)

(* Runs are marked as failed or canceled, never as a success.              *)
MarksFail == \A w \in Slots : slot[w].phase = "mark" => slot[w].found \in {"failed", "cancelled"}

SuccessInv == /\ DoneAsKind
              /\ MarksFail
              /\ faults = 0 => \A r \in Runs : Shows(r) => Backed(r)

(* How file r may come to show a success in a step: it did before, the     *)
(* slot that works on r has finished, or a candidate is imported.          *)
Stays(r) == file'[r].state = file[r].state /\ file'[r].kind = file[r].kind
Finishes(w, r) == /\ slot[w].phase = "clear" /\ slot'[w].run = r /\ slot'[w].phase = "ended"
                  /\ file[r].kind \in Kinds
                  /\ file'[r].kind = file[r].kind /\ file'[r].state = Done(file[r].kind)
Imports(r) == /\ sql[r].status = "none" /\ UNCHANGED <<sql, web>> /\ Unasked(r)
              /\ file'[r].state = "succeeded" /\ file'[r].kind = "candidate_generation"

(* The four ways a file is written leave other files alone, and a success  *)
(* is not made of another status.                                          *)
LEMMA WritesHide ==
    ASSUME TypeInv, NEW r \in Runs, file'[r].state \in Success, NEW x, NEW s, s \notin Success,
           \/ SetStatus(x, s) \/ SetCancelling(x)
           \/ \E w \in Slots : Run(w) = x /\ Writes(w, s)
    PROVE  Stays(r)
  <1>a. file \in [Runs -> File] /\ file[r] \in File
    BY DEF TypeInv, RagTypeOK
  <1>1. CASE x # r
    BY <1>a, <1>1 DEF SetStatus, SetCancelling, Writes, Stays
  <1>2. CASE x = r
    <2>1. SetStatus(x, s) => file'[r].state = s
      BY <1>a, <1>2 DEF SetStatus, File
    <2>2. SetCancelling(x) => file'[r].state = "cancelling"
      BY <1>a, <1>2 DEF SetCancelling, File
    <2>3. ASSUME NEW w \in Slots, Run(w) = x, Writes(w, s) PROVE file'[r].state = s
      BY <1>a, <1>2, <2>3 DEF Writes, File
    <2> QED BY <2>1, <2>2, <2>3 DEF Success
  <1> QED BY <1>1, <1>2

(* Requests do not make a run a success, unless it is imported.            *)
LEMMA RequestsShowNothing ==
    ASSUME RowInv, NEW r \in Runs, file'[r].state \in Success, NEW c \in Clients,
           (\E q \in Runs : UserStep(c, q)) \/ QuietRequest(c) \/ Enqueue(c) \/ EnqueueRaises(c)
    PROVE  Stays(r) \/ Imports(r)
  <1> USE DEF storeVars, workerVars, bounded
  <1>a. TypeInv /\ file \in [Runs -> File] /\ file[r] \in File
    BY DEF RowInv, TypeInv, RagTypeOK
  <1>b. UNCHANGED file => Stays(r)
    BY DEF Stays
  <1>c. \A x, s : s \notin Success /\ SetStatus(x, s) => Stays(r)
    BY <1>a, WritesHide
  <1>d. \A x : SetCancelling(x) => Stays(r)
    <2>1. "failed" \notin Success
      BY DEF Success
    <2> QED BY <1>a, <2>1, WritesHide
  <1>e. \A x, k, b : Created(x, k, b) => Stays(r)
    BY <1>a DEF Created, Stays, Success
  <1>1. ASSUME NEW q \in Runs, UserStep(c, q) PROVE Stays(r) \/ Imports(r)
    <2>1. CASE ImportReboundCandidate(c, q)
      <3>1. CASE q # r
        BY <1>a, <2>1, <3>1 DEF ImportReboundCandidate, Stays
      <3>2. CASE q = r
        <4>1. Unasked(r) /\ sql[r].status = "none" /\ UNCHANGED <<sql, web>>
          BY <2>1, <3>2 DEF ImportReboundCandidate, Fresh, Unasked
        <4>2. file'[r].state = "succeeded" /\ file'[r].kind = "candidate_generation"
          BY <1>a, <2>1, <3>2 DEF ImportReboundCandidate
        <4> QED BY <4>1, <4>2 DEF Imports
      <3> QED BY <3>1, <3>2
    <2>2. CASE StartIngestion(c, q)
      BY <1>e, <2>2 DEF StartIngestion
    <2>3. CASE ~ImportReboundCandidate(c, q) /\ ~StartIngestion(c, q)
      BY <1>1, <1>b, <2>3 DEF UserStep, Starts, StartQuery, StartCandidates, StartTuning,
            StartEvaluation, StartGovernance, Cancel, Read,
            DeleteEvaluation, DeleteIngestion, DeleteDerived
    <2> QED BY <2>1, <2>2, <2>3
  <1>2. CASE RemoveDirectories(c)
    <2>1. CASE UNCHANGED file
      BY <1>b, <2>1
    <2>2. CASE file' = [x \in Runs |-> IF x \in web[c].runs
                                       THEN [file[x] EXCEPT !.state = "absent"] ELSE file[x]]
      <3>1. r \in web[c].runs => file'[r].state = "absent"
        BY <1>a, <2>2 DEF File
      <3>2. r \notin web[c].runs => file'[r] = file[r]
        BY <2>2
      <3> QED BY <3>1, <3>2 DEF Stays, Success
    <2> QED BY <1>2, <2>1, <2>2 DEF RemoveDirectories
  <1>3. CASE StartWrites(c)
    BY <1>e, <1>3 DEF StartWrites
  <1>4. CASE QuietRequest(c) /\ ~RemoveDirectories(c) /\ ~StartWrites(c)
    <2>1. UNCHANGED file \/ SetCancelling(Asked(c)) \/ SetStatus(Asked(c), "cancelled")
          \/ SetStatus(Asked(c), "failed")
      BY <1>4 DEF QuietRequest, RunIsGone, CancelMarks, CancelSql, CancelEnds,
            StaleSql, StaleLoad, StaleMark
    <2> QED BY <1>b, <1>c, <1>d, <2>1 DEF Success
  <1>5. CASE Enqueue(c) \/ EnqueueRaises(c)
    <2>1. UNCHANGED file \/ SetStatus(Asked(c), "failed")
      BY <1>5 DEF Enqueue, EnqueueRaises
    <2> QED BY <1>b, <1>c, <2>1 DEF Success
  <1> QED BY <1>1, <1>2, <1>3, <1>4, <1>5

(* A slot makes a run a success by finishing its work, and no other way.   *)
LEMMA SlotsShowResults ==
    ASSUME RowInv, MarksFail, NEW r \in Runs, file'[r].state \in Success, NEW v \in Slots, SlotStep(v)
    PROVE  Stays(r) \/ \E w \in Slots : Finishes(w, r)
  <1> USE DEF storeVars, workerVars, bounded, execUnchanged
  <1>a. TypeInv /\ file \in [Runs -> File] /\ file[r] \in File
    BY DEF RowInv, TypeInv, RagTypeOK
  <1>b. UNCHANGED file => Stays(r)
    BY DEF Stays
  <1>c. \A s : s \notin Success /\ Writes(v, s) => Stays(r)
    BY <1>a, WritesHide
  <1>d. \A s \in {"running", "failed", "cancelled"} : Writes(v, s) => Stays(r)
    BY <1>c DEF Success
  <1>1. ASSUME NEW s, Finish(v, s), Kind(v) \in Kinds, s = Done(Kind(v))
        PROVE  Stays(r) \/ Finishes(v, r)
    <2>a. slot \in [Slots -> Slot] /\ slot[v] \in Slot
      BY <1>a DEF TypeInv, RagTypeOK
    <2>b. Run(v) \in Runs
      BY <1>1, <1>a DEF Finish, TypeInv, SlotsHaveRuns, Working, Holding, Run
    <2>1. CASE Run(v) # r
      BY <1>1, <1>a, <2>1 DEF Finish, Writes, Stays
    <2>2. CASE Run(v) = r
      <3>1. file'[r].state = s /\ file'[r].kind = file[r].kind
        BY <1>1, <1>a, <2>2 DEF Finish, Writes, File
      <3>2. slot'[v].run = r /\ slot'[v].phase = "ended"
        BY <1>1, <2>a, <2>2 DEF Finish, Moves, Run, Slot
      <3>3. Kind(v) = file[r].kind
        BY <2>b, <2>2, RagAssumption DEF Kind
      <3> QED BY <1>1, <3>1, <3>2, <3>3 DEF Finishes, Finish
    <2> QED BY <2>1, <2>2
  <1>2. CASE Execute(v)
    <2>1. \/ UNCHANGED file
          \/ \E s \in {"running", "failed", "cancelled"} : Writes(v, s)
          \/ Finish(v, Done(Kind(v))) /\ Kind(v) \in Kinds
      BY <1>2 DEF Execute, RunIngestion, RunQuery, RunEvaluation, RunGovernance, RunTuning,
            RunCandidates, Begin, OpenIndex, Works, Check, Stop, Break, Announce, Done, Kinds
    <2> QED BY <1>b, <1>d, <1>1, <2>1
  <1>3. CASE Mark(v)
    BY <1>3, <1>d DEF Mark, MarksFail
  <1>4. CASE MarkStarted(v)
    BY <1>4, <1>d DEF MarkStarted
  <1>5. CASE ~Execute(v) /\ ~Mark(v) /\ ~MarkStarted(v)
    BY <1>5, <1>b DEF SlotStep, Reconcile, Sweep, CountKinds, TakeJob, OpenRun,
          Load, Settle, SettleLost, Realign, Raised, FailRow, Join
  <1> QED BY <1>2, <1>3, <1>4, <1>5

(* Seen from a file: a success stays, is a result, or is an import.        *)
LEMMA SuccessesMove ==
    ASSUME RowInv, MarksFail, [Next]_vars, NEW r \in Runs, file'[r].state \in Success
    PROVE  Stays(r) \/ Imports(r) \/ \E w \in Slots : Finishes(w, r)
  <1> USE DEF storeVars, workerVars, bounded
  <1>a. TypeInv /\ file \in [Runs -> File] /\ file[r] \in File
    BY DEF RowInv, TypeInv, RagTypeOK
  <1>b. UNCHANGED file => Stays(r)
    BY DEF Stays
  <1>1. ASSUME NEW w \in Slots, HeartbeatStep(w) PROVE Stays(r)
    <2>1. CASE Heartbeat(w)
      <3>1. file' = [file EXCEPT ![Run(w)] = [file[Run(w)] EXCEPT !.quiet = FALSE]]
        BY <2>1 DEF Heartbeat
      <3> QED BY <1>a, <3>1 DEF File, Stays
    <2>2. CASE AbortMark(w)
      <3>1. "failed" \notin Success
        BY DEF Success
      <3> QED BY <1>a, <2>2, <3>1, WritesHide DEF AbortMark
    <2> QED BY <1>1, <1>b, <2>1, <2>2 DEF HeartbeatStep, LoseLease, AbortLoad
  <1>2. ASSUME NEW q \in Runs, FileAges(q) PROVE Stays(r)
    <2>1. file' = [file EXCEPT ![q] = [file[q] EXCEPT !.quiet = TRUE]]
      BY <1>2 DEF FileAges
    <2> QED BY <1>a, <2>1 DEF File, Stays
  <1>3. CASE OtherStep
    BY <1>a, <1>3, <1>b, <1>2, ErrorsMove
       DEF OtherStep, DeleteSource, Crash, Restart, vars, ThreadDies, RowAges
  <1> QED BY <1>a, <1>1, <1>3, StepCases, RequestsShowNothing, SlotsShowResults

(* The phases of a slot that vouches are left in four ways: the rest of    *)
(* its steps begin elsewhere, and set out to mark failures only.           *)
Settling(w) == Load(w) \/ Settle(w) \/ SettleLost(w) \/ Realign(w) \/ Mark(w)

LEMMA SlotsSettle ==
    ASSUME TypeInv, NEW w \in Slots, SlotStep(w), ~Settling(w)
    PROVE  /\ slot[w].phase \notin Vouching
           /\ slot'[w].phase = "mark" => slot'[w].found \in {"failed", "cancelled"}
  <1> USE DEF storeVars, workerVars, bounded, execUnchanged
  <1>a. slot \in [Slots -> Slot] /\ slot[w] \in Slot
    BY DEF TypeInv, RagTypeOK
  <1>b. \A p : GoTo(w, p) => slot'[w].phase = p
    BY <1>a DEF GoTo, Slot
  <1>c. \A p, s : Moves(w, p, s) => slot'[w].phase = p
    BY <1>a DEF Moves, Slot
  <1>d. ASSUME Leaves(w) PROVE slot'[w].phase = "done"
    BY <1>a, <1>d DEF Leaves, IdleSlot
  <1>e. ASSUME slot' = [slot EXCEPT ![w] = IdleSlot] PROVE slot'[w].phase = "idle"
    BY <1>a, <1>e DEF IdleSlot
  <1>1. CASE Reconcile(w) \/ CountKinds(w) \/ TakeJob(w) \/ OpenRun(w) \/ Join(w)
    <2>1. slot'[w].phase # "mark"
      <3>1. CASE Reconcile(w)
        BY <3>1, <1>a DEF Reconcile, IdleSlot
      <3>2. CASE CountKinds(w)
        <4>1. ASSUME NEW f, slot' = [slot EXCEPT ![w].phase = "counted", ![w].full = f]
              PROVE  slot'[w].phase = "counted"
          BY <4>1, <1>a DEF Slot
        <4> QED BY <3>2, <1>e, <4>1 DEF CountKinds
      <3>3. CASE TakeJob(w)
        <4>1. ASSUME NEW q, slot' = [slot EXCEPT ![w] = [IdleSlot EXCEPT !.phase = "claimed", !.run = q]]
              PROVE  slot'[w].phase = "claimed"
          BY <4>1, <1>a DEF IdleSlot
        <4> QED BY <3>3, <1>e, <4>1 DEF TakeJob
      <3>4. CASE OpenRun(w)
        <4>1. slot'[w].phase \in {"dead", "idle", "starting"}
          BY <3>4, <1>a DEF OpenRun, IdleSlot, Slot
        <4> QED BY <4>1
      <3>5. CASE Join(w)
        BY <3>5, <1>e DEF Join
      <3> QED BY <1>1, <3>1, <3>2, <3>3, <3>4, <3>5
    <2> QED BY <1>1, <2>1 DEF Reconcile, CountKinds, TakeJob, OpenRun, Join, Vouching
  <1>2. CASE Sweep(w)
    <2>1. ASSUME NEW q \in slot[w].todo,
                 slot' = [slot EXCEPT ![w] =
                        [@ EXCEPT !.todo  = slot[w].todo \ {q},
                                  !.run   = IF Active(q) THEN q ELSE None,
                                  !.phase = IF Active(q) THEN "mark" ELSE "sweep",
                                  !.found = IF Active(q) THEN "failed" ELSE "none",
                                  !.seen = file[q].cancel,
                                  !.next = "sweep"]]
          PROVE  slot'[w].phase = "mark" => slot'[w].found = "failed"
      BY <1>a, <2>1 DEF Slot
    <2> QED BY <1>2, <1>b, <2>1 DEF Sweep, Vouching
  <1>3. CASE MarkStarted(w) \/ FailRow(w)
    BY <1>3, <1>c, <1>d DEF MarkStarted, FailRow, Vouching
  <1>4. CASE Raised(w)
    <2>1. slot'[w].found = "failed"
      BY <1>4, <1>a DEF Raised, Slot
    <2> QED BY <1>4, <2>1 DEF Raised, Vouching
  <1>5. CASE Execute(w)
    <2>1. CASE /\ slot[w].phase \in {"begin", "open", "work", "clear", "stopping"}
               /\ slot' = [slot EXCEPT ![w].phase = "mark", ![w].found = "cancelled",
                                       ![w].next = "ended"]
      <3>1. slot'[w].found = "cancelled"
        BY <1>a, <2>1 DEF Slot
      <3> QED BY <2>1, <3>1 DEF Vouching
    <2>2. CASE /\ slot[w].phase \in {"begin", "open", "work", "clear", "stopping"}
               /\ \E p \in {"raised", "open", "work", "ended", "stopping", "clear"} :
                     GoTo(w, p) \/ \E s : Moves(w, p, s)
      <3>1. slot'[w].phase # "mark"
        BY <2>2, <1>b, <1>c
      <3> QED BY <2>2, <3>1 DEF Vouching
    <2> QED BY <1>5, <2>1, <2>2 DEF Execute, RunIngestion, RunQuery, RunEvaluation, RunGovernance,
            RunTuning, RunCandidates, Begin, OpenIndex, Works, Check, Stop, Break, Announce, Finish, Looks
  <1> QED BY <1>1, <1>2, <1>3, <1>4, <1>5 DEF SlotStep, Settling

(* The heartbeat thread leaves the slot's run, phase and status alone.     *)
LEMMA BeatsLeaveSlots ==
    ASSUME TypeInv, NEW w \in Slots, HeartbeatStep(w)
    PROVE  /\ slot'[w].run = slot[w].run /\ slot'[w].phase = slot[w].phase
           /\ slot'[w].found = slot[w].found /\ slot'[w].next = slot[w].next
  <1>a. slot \in [Slots -> Slot] /\ slot[w] \in Slot
    BY DEF TypeInv, RagTypeOK
  <1> QED BY <1>a DEF HeartbeatStep, Heartbeat, LoseLease, AbortLoad, AbortMark, Slot, workerVars

(* Faults, time and restarts leave a slot alone or put it out of work, and *)
(* a database error sends it to raise or to mark a failure.                *)
LEMMA OthersLeaveSlots ==
    ASSUME TypeInv, NEW w \in Slots, OtherStep
    PROVE  \/ slot'[w] = slot[w] /\ (UNCHANGED faults \/ faults' = faults + 1)
           \/ slot'[w].phase \in {"idle", "dead"} /\ faults' = faults + 1
           \/ slot'[w].phase = "idle" /\ slot[w].phase = "dead"
           \/ /\ slot'[w].phase = "mark" => slot'[w].found = "failed"
              /\ faults' = faults + 1
  <1> USE DEF storeVars, workerVars, bounded
  <1>a. slot \in [Slots -> Slot]
    BY DEF TypeInv, RagTypeOK
  <1>1. CASE Crash \/ Restart
    <2>1. slot'[w].phase = "idle"
      BY <1>1 DEF Crash, Restart, AllIdle, IdleSlot
    <2> QED BY <1>1, <2>1 DEF Crash, Restart
  <1>2. ASSUME NEW v \in Slots, ThreadDies(v)
        PROVE  faults' = faults + 1 /\ (slot'[w] = slot[w] \/ slot'[w].phase = "dead")
    <2>1. v = w => slot'[w].phase = "dead"
      BY <1>a, <1>2 DEF ThreadDies, IdleSlot
    <2> QED BY <1>a, <1>2, <2>1 DEF ThreadDies
  <1>3. CASE UNCHANGED <<slot, faults>>
    BY <1>3
  <1>4. ASSUME NEW v \in Slots, DatabaseFails(v)
        PROVE  /\ faults' = faults + 1
               /\ slot'[w] = slot[w] \/ (slot'[w].phase = "mark" => slot'[w].found = "failed")
    BY <1>4, ErrorsMove
  <1> QED BY <1>1, <1>2, <1>3, <1>4 DEF OtherStep, DeleteSource, Requested, vars, RowAges, FileAges

(* Only failures are ever to be marked.                                    *)
LEMMA MarksFailStep ==
    ASSUME TypeInv, MarksFail, [Next]_vars
    PROVE  MarksFail'
  <1> SUFFICES ASSUME NEW w \in Slots, slot'[w].phase = "mark"
               PROVE  slot'[w].found \in {"failed", "cancelled"}
    BY DEF MarksFail
  <1> USE DEF storeVars, workerVars, bounded, execUnchanged
  <1>a. slot \in [Slots -> Slot] /\ slot[w] \in Slot
    BY DEF TypeInv, RagTypeOK
  <1>b. slot'[w] = slot[w] => slot'[w].found \in {"failed", "cancelled"}
    BY DEF MarksFail
  <1>1. ASSUME NEW c \in Clients,
               (\E q \in Runs : UserStep(c, q)) \/ QuietRequest(c) \/ Enqueue(c) \/ EnqueueRaises(c)
        PROVE  slot'[w].found \in {"failed", "cancelled"}
    BY <1>1, <1>b, RequestsLeaveSlots
  <1>2. CASE OtherStep
    BY <1>2, <1>b, OthersLeaveSlots
  <1>3. ASSUME NEW v \in Slots, SlotStep(v) \/ HeartbeatStep(v)
        PROVE  slot'[w].found \in {"failed", "cancelled"}
    <2>1. CASE v # w
      BY <1>3, <1>b, <2>1, OtherSlotsStay
    <2>2. CASE HeartbeatStep(w)
      BY <2>2, BeatsLeaveSlots DEF MarksFail
    <2>3. CASE SlotStep(w) /\ ~Settling(w)
      BY <2>3, SlotsSettle
    <2>4. CASE Load(w) \/ Settle(w) \/ SettleLost(w) \/ Mark(w)
      <3>1. \/ \E p \in {"settle", "realign", "raised"} : GoTo(w, p) \/ \E s : Moves(w, p, s)
            \/ Leaves(w)
            \/ \E s : Moves(w, slot[w].next, s)
        BY <2>4 DEF Load, Settle, SettleLost, Mark
      <3>2. slot[w].next # "mark"
        BY <1>a DEF Slot
      <3>3. \A p : GoTo(w, p) => slot'[w].phase = p
        BY <1>a DEF GoTo, Slot
      <3>4. \A p, s : Moves(w, p, s) => slot'[w].phase = p
        BY <1>a DEF Moves, Slot
      <3>5. ASSUME Leaves(w) PROVE slot'[w].phase = "done"
        BY <1>a, <3>5 DEF Leaves, IdleSlot
      <3> QED BY <3>1, <3>2, <3>3, <3>4, <3>5
    <2>5. CASE Realign(w)
      <3>1. CASE Leaves(w)
        BY <1>a, <3>1 DEF Leaves, IdleSlot
      <3>2. CASE slot' = [slot EXCEPT ![w] =
                       [@ EXCEPT !.phase = "mark", !.next = "done",
                                 !.found = IF sql[Run(w)].status = "cancelled"
                                           THEN "cancelled" ELSE "failed"]]
        BY <1>a, <3>2 DEF Slot
      <3> QED BY <2>5, <3>1, <3>2 DEF Realign
    <2> QED BY <1>3, <2>1, <2>2, <2>3, <2>4, <2>5 DEF Settling
  <1> QED BY <1>1, <1>2, <1>3, StepCases

(* The slot between a result and its row: it loads the file, completes the *)
(* row, and if it cannot, reads the row and marks the file accordingly.    *)
LEMMA SettlingVouches ==
    ASSUME RowInv, DoneAsKind, MarksFail, NEW w \in Slots, Settling(w), NEW r \in Runs,
           Vouches(w, r), Shows(r), file'[r].state \in Success, Stays(r)
    PROVE  Vouches(w, r)' \/ sql'[r].status = "succeeded"
  <1> USE DEF storeVars, workerVars, bounded, execUnchanged
  <1>a. /\ slot \in [Slots -> Slot] /\ slot[w] \in Slot
        /\ file \in [Runs -> File] /\ file[r] \in File
        /\ sql \in [Runs -> Row] /\ sql[r] \in Row
    BY DEF RowInv, TypeInv, RagTypeOK
  <1>b. Run(w) = r /\ slot[w].run = r /\ r # None
    BY RagAssumption DEF Vouches, Run
  <1>c. file'[r].kind = file[r].kind /\ file[r].state = Done(file[r].kind)
    BY DEF DoneAsKind, Stays
  <1>d. Kind(w) = file[r].kind
    BY <1>b DEF Kind
  <1>e. Done(file[r].kind) \in Success
    BY <1>c DEF Shows
  <1>1. CASE Load(w)
    <2>1. State(w) = file[r].state
      BY <1>b DEF State, Present, Shows, Success
    <2>2. /\ slot'[w].run = r /\ slot'[w].phase = "settle"
          /\ slot'[w].found = file[r].state
      BY <1>1, <1>a, <1>b, <2>1 DEF Load, Moves, Slot
    <2> QED BY <1>c, <2>2 DEF Vouches
  <1>2. CASE Settle(w)
    <2>1. slot[w].found = Done(Kind(w))
      BY <1>2, <1>d DEF Settle, Vouches
    <2>2. slot[w].found \notin {"cancelled", "failed"} \cup ActiveStatus
      BY <2>1, <1>d, <1>e DEF Success, ActiveStatus
    <2>3. CompleteJob(r) /\ (IF Completes(sql[r]) THEN Leaves(w) ELSE GoTo(w, "realign"))
      BY <1>2, <1>b, <2>2 DEF Settle
    <2>4. CASE Completes(sql[r])
      <3>1. sql'[r] = Ended(sql[r], "succeeded")
        BY <1>a, <2>3, <2>4 DEF CompleteJob
      <3> QED BY <1>a, <3>1 DEF Ended, Row
    <2>5. CASE ~Completes(sql[r])
      <3>1. slot'[w].run = r /\ slot'[w].phase = "realign"
        BY <1>a, <1>b, <2>3, <2>5 DEF GoTo, Slot
      <3> QED BY <3>1 DEF Vouches
    <2> QED BY <2>4, <2>5
  <1>3. CASE SettleLost(w)
    <2>1. slot'[w].run = r /\ slot'[w].phase = "realign"
      BY <1>3, <1>a, <1>b DEF SettleLost, GoTo, Slot
    <2> QED BY <2>1 DEF Vouches
  <1>4. CASE Realign(w)
    <2>1. CASE sql[r].status = "succeeded"
      BY <1>4, <2>1 DEF Realign
    <2>2. CASE sql[r].status # "succeeded"
      <3>1. slot' = [slot EXCEPT ![w] =
                       [@ EXCEPT !.phase = "mark", !.next = "done",
                                 !.found = IF sql[Run(w)].status = "cancelled"
                                           THEN "cancelled" ELSE "failed"]]
        BY <1>4, <1>b, <2>2 DEF Realign
      <3>2. slot'[w].run = r /\ slot'[w].phase = "mark" /\ slot'[w].next = "done"
        BY <1>a, <1>b, <3>1 DEF Slot
      <3> QED BY <3>2 DEF Vouches
    <2> QED BY <2>1, <2>2
  <1>5. CASE Mark(w)
    <2>1. file'[r].state = slot[w].found
      BY <1>5, <1>a, <1>b DEF Mark, Writes, File
    <2> QED BY <1>5, <2>1 DEF Mark, MarksFail, Success
  <1> QED BY <1>1, <1>2, <1>3, <1>4, <1>5 DEF Settling

(* A slot that vouches goes on to, or is put out of work by a fault.       *)
LEMMA VouchKept ==
    ASSUME RowInv, DoneAsKind, MarksFail, [Next]_vars, faults = 0, faults' = 0,
           NEW w \in Slots, NEW r \in Runs,
           Vouches(w, r), Shows(r), file'[r].state \in Success, Stays(r)
    PROVE  Vouches(w, r)' \/ sql'[r].status = "succeeded"
  <1>a. TypeInv /\ faults' # faults + 1
    BY DEF RowInv
  <1>b. /\ slot'[w].run = slot[w].run /\ slot'[w].phase = slot[w].phase
        /\ slot'[w].found = slot[w].found /\ slot'[w].next = slot[w].next
        => Vouches(w, r)'
    BY DEF Vouches, Stays
  <1>c. slot[w].phase \in Vouching
    BY DEF Vouches, Vouching
  <1>1. ASSUME NEW c \in Clients,
               (\E q \in Runs : UserStep(c, q)) \/ QuietRequest(c) \/ Enqueue(c) \/ EnqueueRaises(c)
        PROVE  Vouches(w, r)'
    BY <1>1, <1>b, RequestsLeaveSlots
  <1>2. CASE OtherStep
    <2>1. slot[w].phase # "dead"
      BY <1>c DEF Vouching
    <2> QED BY <1>a, <1>2, <1>b, <2>1, OthersLeaveSlots
  <1>3. ASSUME NEW v \in Slots, SlotStep(v) \/ HeartbeatStep(v)
        PROVE  Vouches(w, r)' \/ sql'[r].status = "succeeded"
    <2>1. CASE v # w
      BY <1>a, <1>3, <1>b, <2>1, OtherSlotsStay
    <2>2. CASE HeartbeatStep(w)
      BY <1>a, <1>b, <2>2, BeatsLeaveSlots
    <2>3. CASE SlotStep(w) /\ ~Settling(w)
      BY <1>a, <1>c, <2>3, SlotsSettle
    <2>4. CASE Settling(w)
      BY <2>4, SettlingVouches
    <2> QED BY <1>3, <2>1, <2>2, <2>3, <2>4
  <1> QED BY <1>a, <1>1, <1>2, <1>3, StepCases

(* Faults are counted up.                                                  *)
LEMMA FaultsGrow ==
    ASSUME TypeInv, [Next]_vars
    PROVE  UNCHANGED faults \/ faults' = faults + 1
  <1> USE DEF storeVars, workerVars, bounded, execUnchanged
  <1>1. ASSUME NEW w \in Slots, SlotStep(w) \/ HeartbeatStep(w) PROVE UNCHANGED faults
    BY <1>1, SlotsLeaveRequests
  <1>2. CASE OtherStep
    BY <1>2, ErrorsMove DEF OtherStep, DeleteSource, Requested, Crash, Restart, vars, ThreadDies,
          RowAges, FileAges
  <1> QED BY <1>1, <1>2, StepCases, RequestsLeaveSlots

(* A request that puts a run in the queue has made up its id.              *)
LEMMA UnaskedKept ==
    ASSUME TypeInv, [Next]_vars, NEW r \in Runs, Unasked(r), ~Fresh(r)
    PROVE  Unasked(r)'
  <1> USE DEF storeVars, workerVars, bounded
  <1> SUFFICES ASSUME NEW d \in Clients, web'[d].phase \in {"start", "enqueue"}, r \in web'[d].runs
               PROVE  FALSE
    BY DEF Unasked, Pending
  <1>a. web \in [Clients -> Request] /\ web[d] \in Request
    BY DEF TypeInv, RagTypeOK
  <1>b. web'[d] # web[d]
    BY DEF Unasked, Pending
  <1>1. ASSUME NEW c \in Clients
        PROVE  /\ ~ReqEnds(c)
               /\ \A p : ~(ReqGoes(c, p) /\ p \notin {"start", "enqueue"})
               /\ \A rs : ~Deletes(c, rs)
    <2>1. CASE c # d
      BY <1>a, <1>b, <2>1 DEF ReqEnds, ReqGoes, Deletes
    <2>2. CASE c = d
      <3>1. ReqEnds(d) => web'[d].phase = "none"
        BY <1>a DEF ReqEnds, NoRequest
      <3>2. \A p : ReqGoes(d, p) => web'[d].phase = p
        BY <1>a DEF ReqGoes, Request
      <3>3. ASSUME NEW rs, Deletes(d, rs) PROVE web'[d].phase = "delete"
        BY <1>a, <3>3 DEF Deletes, NoRequest
      <3> QED BY <2>2, <3>1, <3>2, <3>3
    <2> QED BY <2>1, <2>2
  <1>2. ASSUME NEW c \in Clients, NEW q \in Runs, UserStep(c, q) PROVE FALSE
    <2>1. ASSUME NEW k, NEW b, StartIngestion(c, q) \/ Starts(c, q, k, b) PROVE FALSE
      <3>1. Fresh(q) /\ web'[c].runs = {q} /\ (c # d => web'[d] = web[d])
        BY <1>a, <2>1 DEF StartIngestion, Starts
      <3> QED BY <1>b, <3>1
    <2>2. CASE Cancel(c, q) \/ Read(c, q)
      <3>1. web'[c].phase \in {"cancel", "stale"} /\ (c # d => web'[d] = web[d])
        BY <1>a, <2>2 DEF Cancel, Read, NoRequest
      <3> QED BY <1>b, <3>1
    <2>3. CASE DeleteEvaluation(c, q) \/ DeleteIngestion(c, q) \/ DeleteDerived(c, q)
      BY <1>1, <2>3 DEF DeleteEvaluation, DeleteIngestion, DeleteDerived
    <2>4. CASE ImportReboundCandidate(c, q)
      BY <1>b, <2>4 DEF ImportReboundCandidate
    <2> QED BY <1>2, <2>1, <2>2, <2>3, <2>4
            DEF UserStep, StartQuery, StartCandidates, StartTuning, StartEvaluation, StartGovernance
  <1>3. ASSUME NEW c \in Clients, QuietRequest(c) \/ Enqueue(c) \/ EnqueueRaises(c) PROVE FALSE
    <2>1. CASE StartWrites(c)
      <3>1. web'[c].runs = web[c].runs /\ (c # d => web'[d] = web[d])
        BY <1>a, <2>1 DEF StartWrites, ReqGoes, Request
      <3> QED BY <1>b, <2>1, <3>1 DEF StartWrites, Unasked, Pending
    <2> QED BY <1>1, <1>3, <2>1 DEF QuietRequest, RunIsGone, CancelMarks, CancelSql, CancelEnds,
              StaleSql, StaleLoad, StaleMark, RemoveDirectories, Enqueue, EnqueueRaises
  <1>4. ASSUME NEW w \in Slots, SlotStep(w) \/ HeartbeatStep(w) PROVE FALSE
    BY <1>4, <1>b, SlotsLeaveRequests
  <1>5. CASE OtherStep
    BY <1>5, <1>b, ErrorsMove DEF OtherStep, DeleteSource, Crash, Restart, vars, ThreadDies, RowAges,
          FileAges
  <1> QED BY <1>2, <1>3, <1>4, <1>5, StepCases

(* Only the run of a pending request is put in the queue.                  *)
LEMMA OnlyAskedAreQueued ==
    ASSUME RowInv, [Next]_vars, NEW r \in Runs, Unasked(r)
    PROVE  ~Enqueued(r)
  <1>a. TypeInv /\ PendingApart
    BY DEF RowInv
  <1>b. Plain(r) \/ Taken(r) => ~Enqueued(r)
    BY DEF Plain, Ending, Beating, Enqueued, Taken, EndStatus
  <1>1. ASSUME NEW c \in Clients, Enqueue(c) \/ EnqueueRaises(c) PROVE ~Enqueued(r)
    <2>1. PICK q \in Runs : web[c].runs = {q} /\ \A x \in Runs \ {q} : sql'[x] = sql[x]
      BY <1>a, <1>1, EnqueueMoves
    <2>2. q # r
      BY <1>1, <2>1 DEF Unasked, Pending, Enqueue, EnqueueRaises
    <2> QED BY <1>b, <2>1, <2>2 DEF Plain
  <1>2. ASSUME NEW w \in Slots, SlotStep(w) \/ HeartbeatStep(w) PROVE ~Enqueued(r)
    <2>1. CASE \E q \in Runs : Takes(w, q)
      BY <1>b, <2>1 DEF Takes, Plain
    <2> QED BY <1>a, <1>2, <1>b, <2>1, SlotMovesRows
  <1> QED BY <1>a, <1>b, <1>1, <1>2, StepCases, RequestsArePlain, OthersArePlain

(* At the start the given runs have ended as their kind ends.              *)
LEMMA SuccessInit == Init => SuccessInv
  BY RagAssumption DEF Init, SuccessInv, DoneAsKind, MarksFail, Shows, Success, Backed, IdleSlot

(* Results are written by the slot that vouches for them from then on.     *)
LEMMA SuccessStep ==
    ASSUME RowInv, SuccessInv, [Next]_vars
    PROVE  SuccessInv'
  <1>a. TypeInv /\ DoneAsKind /\ MarksFail
    BY DEF RowInv, SuccessInv
  <1>b. sql \in [Runs -> Row] /\ faults \in Nat
    BY <1>a DEF TypeInv, RagTypeOK
  <1>1. MarksFail'
    BY <1>a, MarksFailStep
  <1>2. ASSUME NEW r \in Runs, Shows(r)'
        PROVE  file'[r].kind \in Kinds /\ file'[r].state = Done(file'[r].kind)
    <2>1. file'[r].state \in Success
      BY <1>2 DEF Shows
    <2>2. Stays(r) \/ Imports(r) \/ \E w \in Slots : Finishes(w, r)
      BY <1>a, <2>1, SuccessesMove
    <2>3. CASE Stays(r)
      BY <1>a, <2>1, <2>3 DEF Stays, Shows, DoneAsKind
    <2>4. CASE Imports(r)
      BY <2>4 DEF Imports, Kinds, Done
    <2> QED BY <2>2, <2>3, <2>4 DEF Finishes
  <1>3. ASSUME faults' = 0, NEW r \in Runs, Shows(r)' PROVE Backed(r)'
    <2>1. file'[r].state \in Success
      BY <1>3 DEF Shows
    <2>2. faults = 0
      BY <1>a, <1>b, <1>3, FaultsGrow
    <2>3. Plain(r) \/ Enqueued(r) \/ Taken(r)
      BY <1>a, RowsMove DEF RowInv, RowMoves
    <2>4. CASE Stays(r)
      <3>1. Shows(r) /\ Backed(r)
        BY <2>1, <2>2, <2>4 DEF Stays, Shows, SuccessInv
      <3>2. CASE sql[r].status = "succeeded"
        BY <2>3, <3>2 DEF Backed, Plain, Ending, Beating, Enqueued, Taken
      <3>3. CASE sql[r].status = "none" /\ Unasked(r)
        <4>1. ~Fresh(r)
          BY <1>a, <3>1 DEF DoneAsKind, Fresh, Kinds
        <4>2. Unasked(r)'
          BY <1>a, <3>3, <4>1, UnaskedKept
        <4>3. ~Enqueued(r)
          BY <1>a, <3>3, OnlyAskedAreQueued DEF RowInv
        <4>4. sql'[r].status = "none"
          BY <2>3, <3>3, <4>3 DEF Plain, Ending, Beating, Taken
        <4> QED BY <4>2, <4>4 DEF Backed
      <3>4. ASSUME NEW w \in Slots, Vouches(w, r) PROVE Backed(r)'
        <4>1. Vouches(w, r)' \/ sql'[r].status = "succeeded"
          BY <1>a, <1>3, <2>1, <2>2, <2>4, <3>1, <3>4, VouchKept
        <4> QED BY <4>1 DEF Backed
      <3> QED BY <3>1, <3>2, <3>3, <3>4 DEF Backed
    <2>5. CASE Imports(r)
      <3>1. Unasked(r)' /\ sql'[r].status = "none"
        BY <2>5 DEF Imports, Unasked, Pending
      <3> QED BY <3>1 DEF Backed
    <2>6. ASSUME NEW w \in Slots, Finishes(w, r) PROVE Backed(r)'
      <3>1. Vouches(w, r)'
        BY <2>6 DEF Finishes, Vouches
      <3> QED BY <3>1 DEF Backed
    <2> QED BY <1>a, <2>1, <2>4, <2>5, <2>6, SuccessesMove
  <1>4. DoneAsKind'
    BY <1>2 DEF DoneAsKind
  <1>5. (faults = 0 => \A r \in Runs : Shows(r) => Backed(r))'
    BY <1>3
  <1> QED BY <1>1, <1>4, <1>5 DEF SuccessInv

(* While no process has died and no statement has raised, a run nobody     *)
(* holds whose row has failed or was canceled does not show a result: what *)
(* a slot writes after it lost its lease or its run was canceled, it takes *)
(* back.                                                                   *)
THEOREM FencedResultsAreTakenBack == Spec => []NoFencedSuccess
  <1>1. RowInv /\ SuccessInv => NoFencedSuccess
    <2> SUFFICES ASSUME SuccessInv, NEW r \in Runs,
                        sql[r].status \in {"failed", "cancelled"}, faults = 0, Shows(r)
                 PROVE  \E w \in Slots : Holds(w, r)
      BY DEF NoFencedSuccess, Shows, Success
    <2>1. PICK w \in Slots : Vouches(w, r)
      BY DEF SuccessInv, Backed
    <2> QED BY <2>1 DEF Vouches, Holds, Holding
  <1> QED BY <1>1, RowInvInit, RowInvStep, SuccessInit, SuccessStep, PTL DEF Spec

=============================================================================
