----------------------------- MODULE EventStream ------------------------------
(***************************************************************************)
(* A browser follows one analysis job: the chat client's subscription      *)
(* (chat-frontend/src/runtime/jobs) and the server's SSE generator         *)
(* (stream_analysis_job_events in app/agent/routes.py).  The job itself is *)
(* the abstract one of JobContract, which JobLifecycle implements.  An     *)
(* event's id is its position in the job's log: ids are unique and grow    *)
(* with the log, and nothing here tells more of them.                      *)
(***************************************************************************)
EXTENDS JobContract

CONSTANTS
    Page,            \* read_events_after's limit
    MaxReconnects,   \* maxReconnectAttempts of the transport
    MaxLog,          \* bound: length of the job's log
    MaxFailures,     \* bound: connections that fail and replies that are lost
    MaxOthers        \* bound: answers and cancellations from another tab

ASSUME StreamAssumption ==
    /\ Page \in Nat \ {0}
    /\ MaxReconnects \in Nat
    /\ MaxLog \in Nat
    /\ MaxFailures \in Nat
    /\ MaxOthers \in Nat

VARIABLES
    question,   \* current_question_id of the job, 0 when it is not waiting
    server,     \* the generator of the live connection
    wire,       \* ids of the events sent on it and not yet read by the client
    transport,  \* JobSseTransport.stream of the live subscription
    record,     \* the client's JobRecord
    failures,   \* connection failures and lost replies so far
    others      \* what the other tab has done so far

bounded == <<failures, others>>
vars == <<status, log, question, server, wire, transport, record, bounded>>
jobVars    == <<status, log, question>>
streamVars == <<server, wire, transport>>

UiDone == {"completed", "failed", "canceled"}
Settled == UiDone \cup {"waiting_input"}     \* the uiStates shouldStop accepts
UiOpen == {"queued", "waiting_input", "canceling"}

Server == [phase : {"none", "reading", "sending", "checking", "ended"},
           after : Nat, batch : Seq(Nat)]
Transport == [state : {"idle", "connecting", "open", "failed"}, attempts : Nat]
Record == [ui : {"none"} \cup UiOpen \cup UiDone, backend : {"none", "queued"} \cup Settled,
           cursor : Nat,       \* id of the last event taken from the stream
           cancel : {"none", "sent", "lost"} \cup Finished]
                               \* the cancel call: in flight, or its reply

NoServer == [phase |-> "none", after |-> 0, batch |-> << >>]

Init ==
    /\ ContractInit
    /\ question = 0
    /\ server = NoServer
    /\ wire = << >>
    /\ transport = [state |-> "idle", attempts |-> 0]
    /\ record = [ui |-> "none", backend |-> "none", cursor |-> 0, cancel |-> "none"]
    /\ failures = 0 /\ others = 0

-----------------------------------------------------------------------------
(* The job, as JobContract has it *)

LogHasRoom == Len(log) < MaxLog

(* What the workers do to the job. *)
JobRuns ==
    /\ \/ Begin /\ UNCHANGED question
       \/ Report /\ LogHasRoom /\ UNCHANGED question
       \/ \E q \in Questions : Ask(q) /\ question' = q
       \/ Finish("succeeded", "final_result") /\ UNCHANGED question
       \/ Finish("failed", "error") /\ UNCHANGED question
    /\ UNCHANGED <<streamVars, record, bounded>>

(* The same user in another tab. *)
OtherTabActs ==
    /\ others < MaxOthers
    /\ Answer \/ CancelJob
    /\ question' = 0
    /\ others' = others + 1
    /\ UNCHANGED <<streamVars, record, failures>>

-----------------------------------------------------------------------------
(* The subscription *)

(* Abort of the live connection: what is on the wire is never read. *)
Disconnect == server' = NoServer /\ wire' = << >>

Subscribe == transport' = [state |-> "connecting", attempts |-> 0] /\ Disconnect

Stop == transport' = [transport EXCEPT !.state = "idle"] /\ Disconnect

(* Mutant: the last attempt is not used. *)
RetryOneLess ==
    /\ transport' = IF transport.attempts + 1 >= MaxReconnects
                    THEN [transport EXCEPT !.state = "failed"]
                    ELSE [state |-> "connecting", attempts |-> transport.attempts + 1]
    /\ Disconnect

(* A connection ended too early: reconnect, up to the limit. *)
Retry ==
    /\ transport' = IF transport.attempts >= MaxReconnects
                    THEN [transport EXCEPT !.state = "failed"]
                    ELSE [state |-> "connecting", attempts |-> transport.attempts + 1]
    /\ Disconnect

(* Mutant: the stream starts at the job's latest event. *)
ConnectAtLatest ==
    /\ transport.state = "connecting"
    /\ transport' = [transport EXCEPT !.state = "open"]
    /\ server' = [phase |-> "reading", after |-> Len(log), batch |-> << >>]
    /\ wire' = << >>
    /\ UNCHANGED <<jobVars, record, bounded>>

(* The request arrives with the client's cursor; the generator starts. *)
Connect ==
    /\ transport.state = "connecting"
    /\ transport' = [transport EXCEPT !.state = "open"]
    /\ server' = [phase |-> "reading", after |-> record.cursor, batch |-> << >>]
    /\ wire' = << >>
    /\ UNCHANGED <<jobVars, record, bounded>>

(* The network fails before or during a connection. *)
ConnectionFails ==
    /\ transport.state \in {"connecting", "open"}
    /\ failures < MaxFailures
    /\ failures' = failures + 1
    /\ Retry
    /\ UNCHANGED <<jobVars, record, others>>

-----------------------------------------------------------------------------
(* The generator: read a page, send it event by event, look at the status *)

PageAfter(id) ==
    LET last == IF Len(log) - id <= Page THEN Len(log) ELSE id + Page
    IN  [i \in 1..(last - id) |-> id + i]

Read ==
    /\ server.phase = "reading"
    /\ server' = [server EXCEPT !.batch = PageAfter(server.after),
                                !.phase = IF PageAfter(server.after) = << >>
                                          THEN "checking" ELSE "sending"]
    /\ UNCHANGED <<jobVars, wire, transport, record, bounded>>

EndsStream(type) == type \in {"interrupt", "final_result", "error", "canceled"}

Send ==
    /\ server.phase = "sending"
    /\ LET id == Head(server.batch)
           rest == Tail(server.batch)
       IN  /\ wire' = Append(wire, id)
           /\ server' = [after |-> id, batch |-> rest,
                         phase |-> IF EndsStream(log[id].type) THEN "ended"
                                   ELSE IF rest = << >> THEN "checking"
                                   ELSE "sending"]
    /\ UNCHANGED <<jobVars, transport, record, bounded>>

Check ==
    /\ server.phase = "checking"
    /\ server' = [server EXCEPT !.phase = IF status \in Finished THEN "ended"
                                          ELSE "reading"]
    /\ UNCHANGED <<jobVars, wire, transport, record, bounded>>

-----------------------------------------------------------------------------
(* The client *)

Accepts(r, id) == id > r.cursor

(* What a terminal event or an interrupt makes of the record. *)
UiOf(type) == CASE type = "interrupt" -> "waiting_input"
                [] type = "final_result" -> "completed"
                [] type = "error" -> "failed"
                [] type = "canceled" -> "canceled"

Reduced(r, id) ==
    IF ~Accepts(r, id) THEN r
    ELSE LET moved == [r EXCEPT !.cursor = id]
         IN  IF EndsStream(log[id].type) /\ r.ui \notin UiDone
             THEN [moved EXCEPT !.ui = UiOf(log[id].type),
                                !.backend = UiOf(log[id].type)]
             ELSE moved

(* The next event is read and reduced; a terminal one aborts the stream. *)
Receive ==
    /\ transport.state = "open" /\ wire # << >>
    /\ LET id == Head(wire) IN
       /\ record' = Reduced(record, id)
       /\ IF Accepts(record, id) /\ EndsStream(log[id].type) /\ record.ui \notin UiDone
          THEN Stop
          ELSE /\ wire' = Tail(wire)
               /\ UNCHANGED <<server, transport>>
    /\ UNCHANGED <<jobVars, bounded>>

(* Mutant: the end of a response is not noticed before the record settles. *)
StreamEndsSettled ==
    /\ transport.state = "open" /\ wire = << >> /\ server.phase = "ended"
    /\ record.ui \in Settled
    /\ Stop
    /\ UNCHANGED <<jobVars, record, bounded>>

(* The response body ends: done if the record has settled, else too early. *)
StreamEnds ==
    /\ transport.state = "open" /\ wire = << >> /\ server.phase = "ended"
    /\ IF record.ui \in Settled THEN Stop ELSE Retry
    /\ UNCHANGED <<jobVars, record, bounded>>

(* send() of a new analysis: the job is created and followed from 0. *)
SendMessage ==
    /\ record.ui = "none"
    /\ Submit
    /\ record' = [record EXCEPT !.ui = "queued", !.backend = "queued"]
    /\ Subscribe
    /\ UNCHANGED <<question, bounded>>

ShownQuestion == log[record.cursor].question

(* Mutant: the answered job is followed from the start again. *)
SendAnswerAfresh ==
    /\ record.ui = "waiting_input"
    /\ ShownQuestion = question
    /\ Answer
    /\ question' = 0
    /\ record' = [record EXCEPT !.ui = "queued", !.backend = "queued", !.cursor = 0]
    /\ Subscribe
    /\ UNCHANGED bounded

(* send() while the job waits: the shown question is answered, and the     *)
(* record goes on from its cursor.  A conflict leaves everything as it is. *)
SendAnswer ==
    /\ record.ui = "waiting_input"
    /\ ShownQuestion = question
    /\ Answer
    /\ question' = 0
    /\ record' = [record EXCEPT !.ui = "queued", !.backend = "queued"]
    /\ Subscribe
    /\ UNCHANGED bounded

-----------------------------------------------------------------------------
(* Cancellation from the client: request, commit, reply *)

RequestCancel ==
    /\ record.ui \in UiOpen
    /\ record.cancel = "none"
    /\ record' = [record EXCEPT !.ui = "canceling", !.cancel = "sent"]
    /\ UNCHANGED <<jobVars, streamVars, bounded>>

(* Mutant: a 409 is taken for a cancellation. *)
CommitCancelAlways ==
    /\ record.cancel = "sent"
    /\ \/ CancelJob /\ question' = 0
       \/ status \in Finished /\ UNCHANGED jobVars
    /\ record' = [record EXCEPT !.cancel = "canceled"]
    /\ UNCHANGED <<streamVars, bounded>>

(* 202 if the job is canceled by it, 409 with the status if it was over. *)
CommitCancel ==
    /\ record.cancel = "sent"
    /\ \/ CancelJob /\ question' = 0
       \/ status \in Finished /\ UNCHANGED jobVars
    /\ record' = [record EXCEPT !.cancel = status']
    /\ UNCHANGED <<streamVars, bounded>>

(* Neither the request nor its one retry brings a reply; the job may or    *)
(* may not have been canceled.                                             *)
LoseCancel ==
    /\ record.cancel \in {"sent"} \cup Finished
    /\ failures < MaxFailures
    /\ failures' = failures + 1
    /\ record' = [record EXCEPT !.cancel = "lost"]
    /\ UNCHANGED <<jobVars, streamVars, others>>

UiOfStatus(s) == IF s = "succeeded" THEN "completed" ELSE s

(* The client is told how the job ended: the subscription is over. *)
CancelReply ==
    /\ record.cancel \in Finished
    /\ LET ui == UiOfStatus(record.cancel)
       IN  record' = [record EXCEPT !.ui = ui, !.backend = ui, !.cancel = "none"]
    /\ Stop
    /\ UNCHANGED <<jobVars, bounded>>

(* finishCancel after a lost reply: back to what the job last was known as. *)
CancelGivenUp ==
    /\ record.cancel = "lost"
    /\ record' = [record EXCEPT !.cancel = "none",
                                !.ui = IF record.backend \in UiDone THEN record.ui
                                       ELSE record.backend]
    /\ UNCHANGED <<jobVars, streamVars, bounded>>

-----------------------------------------------------------------------------
Next ==
    \/ JobRuns \/ OtherTabActs
    \/ Connect \/ ConnectionFails
    \/ Read \/ Send \/ Check
    \/ Receive \/ StreamEnds
    \/ SendMessage \/ SendAnswer
    \/ RequestCancel \/ CommitCancel \/ LoseCancel \/ CancelReply \/ CancelGivenUp

Spec == Init /\ [][Next]_vars

(* The browser's fetch, the generator's loop and the reader are scheduled; *)
(* the job, the user and the network owe nothing.                          *)
Fairness ==
    /\ WF_vars(Connect) /\ WF_vars(Read) /\ WF_vars(Send) /\ WF_vars(Check)
    /\ WF_vars(Receive) /\ WF_vars(StreamEnds)

FairSpec == Spec /\ Fairness

-----------------------------------------------------------------------------
(* Properties *)

(* The client takes every event of the job once and in the order of the    *)
(* log, across pages, reconnections, answers and cancellations.            *)
NoEventSkipped ==
    [][record'.cursor \in {record.cursor, record.cursor + 1}]_vars

(* The client, the server and the wire keep their types.                   *)
StreamTypeOK ==
    /\ ContractTypeOK
    /\ question \in Questions \cup {0}
    /\ server \in Server
    /\ wire \in Seq(Nat)
    /\ transport \in Transport
    /\ record \in Record
    /\ failures \in Nat /\ others \in Nat

(* What the client shows as the end of the job is how it ended. *)
ShownEndIsReal ==
    record.ui \in UiDone => status \in Finished /\ record.ui = UiOfStatus(status)

(* As long as no other tab acts, a question the client asks its user to    *)
(* answer is the one the job waits on, unless the job was canceled         *)
(* meanwhile: a replayed interrupt that has been answered is never shown   *)
(* as open.                                                                *)
NoStaleQuestion ==
    record.ui = "waiting_input" /\ others = 0
    => \/ status = "waiting_input" /\ ShownQuestion = question
       \/ status = "canceled"

(* Although the generator may end a stream before the job's last event,    *)
(* a client whose connections never fail gives up only on a log longer     *)
(* than the pages its reconnections can fetch.                             *)
ErrorNeedsLongLog ==
    transport.state = "failed" /\ failures = 0 => Len(log) > Page * MaxReconnects

(* A client that follows a finished job does not follow it for ever: it    *)
(* shows an end or an open question, or reports that it gave up.           *)
SubscriptionEnds ==
    transport.state \in {"connecting", "open"} /\ status \in Finished
    ~> record.ui \in Settled \/ transport.state = "failed"
=============================================================================
