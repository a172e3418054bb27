-------------------------- MODULE EventStreamProofs --------------------------
(***************************************************************************)
(* Theorems about EventStream: types, NoEventSkipped, ShownEndIsReal,      *)
(* NoStaleQuestion and ErrorNeedsLongLog, for any page, any number of      *)
(* reconnections and questions, and logs and failures without bound.       *)
(***************************************************************************)
EXTENDS EventStream, TLAPS

-----------------------------------------------------------------------------
(* The inductive invariant *)

Terminal == {"final_result", "error", "canceled"}

(* The log of the job tells how it ended, and its end tells how.           *)
LogTellsEnd ==
    /\ \A i \in DOMAIN log :
          /\ log[i].type = "final_result" => status = "succeeded"
          /\ log[i].type = "error" => status = "failed"
          /\ log[i].type = "canceled" => status = "canceled"
    /\ status \in Finished => Len(log) > 0 /\ log[Len(log)].type \in Terminal
    /\ status = "absent" => log = << >>

(* The wire and the page continue the client's cursor, id by id, and end   *)
(* within the log.                                                         *)
Continuous(srv, ids, at, upto) ==
    /\ srv.phase # "none" => srv.after = at + Len(ids)
    /\ \A i \in 1..Len(ids) : ids[i] = at + i
    /\ \A i \in 1..Len(srv.batch) : srv.batch[i] = srv.after + i
    /\ at <= upto /\ srv.after + Len(srv.batch) <= upto
    /\ srv.phase = "none" => srv = NoServer /\ ids = << >>
    /\ srv.phase = "sending" => srv.batch # << >>
    /\ srv.phase \in {"reading", "checking"} => srv.batch = << >>

Streaming ==
    /\ Continuous(server, wire, record.cursor, Len(log))
    /\ server.phase # "none" <=> transport.state = "open"

(* What the client shows comes from an event it took or a reply it got.    *)
RecordTellsEnd ==
    /\ record.ui \in UiDone \/ record.backend \in UiDone => record.ui = record.backend
    /\ record.ui = "waiting_input" => record.backend = "waiting_input"
    /\ record.cancel \in Finished => status = record.cancel
    /\ record.cursor \in DOMAIN log /\ log[record.cursor].type \in Terminal
          => record.ui \in UiDone

(* A question the client has not taken yet is the last event of a job that *)
(* waits for its answer, and so is the question the client has taken last. *)
QuestionIsOpen(i) ==
    /\ status = "waiting_input" /\ i = Len(log)
    /\ i \in DOMAIN log /\ log[i] = Question(question)

OneTab ==
    others = 0 =>
        /\ \A i \in DOMAIN log :
              i > record.cursor /\ log[i].type = "interrupt" =>
                  status = "canceled" \/ QuestionIsOpen(i)
        /\ record.backend = "waiting_input" =>
              status = "canceled" \/ QuestionIsOpen(record.cursor)

(* A stream is only ended by the job's end or by an event that ends it and *)
(* that the client has still to read, or has no use for.                   *)
EndedForCause ==
    server.phase = "ended" =>
        \/ server.batch = << >> /\ status \in Finished
        \/ wire # << >> /\ EndsStream(log[server.after].type)
        \/ record.ui \in UiDone

(* As long as no connection fails, the first reconnection tells that the   *)
(* job is finished, and each one that is followed by another has brought a *)
(* page.                                                                   *)
PagesTaken ==
    failures = 0 =>
        /\ transport.state \in {"connecting", "open"} /\ transport.attempts > 0 =>
              /\ status \in Finished
              /\ record.cursor >= Page * (transport.attempts - 1)
        /\ transport.state = "open" /\ transport.attempts > 0
              /\ server.phase \in {"sending", "checking", "ended"} =>
              \/ server.after + Len(server.batch) >= Page * transport.attempts
              \/ server.after + Len(server.batch) = Len(log)
        /\ transport.state = "failed" => Len(log) > Page * MaxReconnects

StreamInv ==
    /\ StreamTypeOK /\ LogTellsEnd /\ Streaming /\ RecordTellsEnd
    /\ ShownEndIsReal /\ OneTab /\ EndedForCause /\ PagesTaken

-----------------------------------------------------------------------------
(* The job *)

(* The acts of the job leave the stream and the client alone, and          *)
(* JobContract has it that a step appends at most one event.               *)
LogStep ==
    \/ log' = log
    \/ \E e \in PublicEvent : log' = Append(log, e)

(* An act of the job keeps its types and what its log tells of its end.    *)
LEMMA ContractStep ==
  ASSUME ContractTypeOK, LogTellsEnd, ContractNext
  PROVE  ContractTypeOK' /\ LogTellsEnd' /\ LogStep
PROOF
  <1> USE QuestionsAssumption DEF ContractTypeOK, LogTellsEnd, LogStep, Terminal,
                                  Active, Finished, PublicEvent, Plain, Question
  <1>1. CASE Submit
    BY <1>1 DEF Submit
  <1>2. CASE Begin
    BY <1>2 DEF Begin
  <1>3. CASE Report
    BY <1>3 DEF Report
  <1>4. CASE Answer
    BY <1>4 DEF Answer
  <1>5. CASE CancelJob
    BY <1>5 DEF CancelJob
  <1>6. ASSUME NEW q \in Questions, Ask(q)
        PROVE  ContractTypeOK' /\ LogTellsEnd' /\ LogStep
    <2> DEFINE e == [type |-> "interrupt", question |-> q]
    <2>1. e \in PublicEvent /\ e.type = "interrupt"
      OBVIOUS
    <2> HIDE DEF e
    <2>2. /\ status = "running" /\ status' = "waiting_input"
          /\ log' = log \/ log' = Append(log, e)
      BY <1>6 DEF Ask, e
    <2>3. CASE log' = log
      BY <2>2, <2>3
    <2>4. CASE log' = Append(log, e)
      BY <2>1, <2>2, <2>4
    <2> QED
      BY <2>2, <2>3, <2>4
  <1>7. CASE Finish("succeeded", "final_result")
    BY <1>7 DEF Finish
  <1>8. CASE Finish("failed", "error")
    BY <1>8 DEF Finish
  <1> QED
    BY <1>1, <1>2, <1>3, <1>4, <1>5, <1>6, <1>7, <1>8 DEF ContractNext

(* A step is one of the job, as its contract has it, or leaves it alone.   *)
LEMMA JobOrStream ==
  ASSUME [Next]_vars
  PROVE  ContractNext \/ UNCHANGED contractVars
PROOF
  <1> USE DEF contractVars, jobVars
  <1>1. CASE JobRuns
    BY <1>1 DEF JobRuns, ContractNext
  <1>2. CASE OtherTabActs
    BY <1>2 DEF OtherTabActs, ContractNext
  <1>3. CASE SendMessage \/ SendAnswer \/ CommitCancel
    BY <1>3 DEF SendMessage, SendAnswer, CommitCancel, ContractNext
  <1>4. CASE \/ Connect \/ ConnectionFails \/ Read \/ Send \/ Check
             \/ Receive \/ StreamEnds
             \/ RequestCancel \/ LoseCancel \/ CancelReply \/ CancelGivenUp
             \/ UNCHANGED vars
    BY <1>4 DEF Connect, ConnectionFails, Read, Send, Check, Receive, StreamEnds,
                RequestCancel, LoseCancel, CancelReply, CancelGivenUp, vars
  <1> QED
    BY <1>1, <1>2, <1>3, <1>4 DEF Next

(* What the job and its log are to every step of the system.               *)
LEMMA JobMoves ==
  ASSUME ContractTypeOK, LogTellsEnd, [Next]_vars
  PROVE  ContractTypeOK' /\ LogTellsEnd' /\ LogStep
PROOF
  <1>1. CASE ContractNext
    BY <1>1, ContractStep
  <1>2. CASE UNCHANGED contractVars
    BY <1>2 DEF contractVars, ContractTypeOK, LogTellsEnd, LogStep
  <1> QED
    BY <1>1, <1>2, JobOrStream

(* A finished job does not move any more.                                  *)
LEMMA FinishedRests ==
  ASSUME status \in Finished, [Next]_vars
  PROVE  UNCHANGED contractVars
PROOF
  BY JobOrStream DEF ContractNext, Finished, Active, Submit, Begin, Report, Ask,
                     Answer, Finish, CancelJob, contractVars

(* The log only grows at its end.                                          *)
LEMMA LogGrows ==
  ASSUME ContractTypeOK, LogStep
  PROVE  /\ Len(log) \in Nat /\ Len(log') \in Nat
         /\ Len(log) <= Len(log')
         /\ DOMAIN log = 1..Len(log) /\ DOMAIN log' = 1..Len(log')
         /\ \A i \in DOMAIN log : i \in DOMAIN log' /\ log'[i] = log[i]
PROOF
  BY DEF ContractTypeOK, LogStep

-----------------------------------------------------------------------------
(* Types *)

(* A page goes on from where the generator stands.                         *)
LEMMA PagesContinue ==
  ASSUME ContractTypeOK, NEW id \in Nat, id <= Len(log)
  PROVE  /\ PageAfter(id) \in Seq(Nat)
         /\ \A i \in 1..Len(PageAfter(id)) : PageAfter(id)[i] = id + i
         /\ id + Len(PageAfter(id)) <= Len(log)
         /\ \/ Len(PageAfter(id)) = Page
            \/ id + Len(PageAfter(id)) = Len(log)
PROOF
  <1> DEFINE last == IF Len(log) - id <= Page THEN Len(log) ELSE id + Page
  <1>1. Page \in Nat /\ Len(log) \in Nat
    BY StreamAssumption DEF ContractTypeOK
  <1>2. last \in Nat /\ id <= last /\ last <= Len(log)
        /\ (last - id = Page \/ last = Len(log))
    BY <1>1
  <1>3. PageAfter(id) = [i \in 1..(last - id) |-> id + i]
    BY DEF PageAfter
  <1> HIDE DEF last
  <1>4. last - id \in Nat
    BY <1>2
  <1>5. PageAfter(id) \in Seq(Nat) /\ Len(PageAfter(id)) = last - id
    BY <1>3, <1>4
  <1> QED
    BY <1>1, <1>2, <1>3, <1>4, <1>5

(* The initial state has the types.                                        *)
LEMMA InitTypes ==
  ASSUME Init
  PROVE  StreamTypeOK
PROOF
  BY DEF Init, ContractInit, StreamTypeOK, ContractTypeOK, Server, Transport, Record,
         NoServer

(* The id the client reads next is the one after its cursor, of the log.   *)
LEMMA NextIsRead ==
  ASSUME StreamTypeOK, Streaming, wire # << >>
  PROVE  /\ Head(wire) = record.cursor + 1 /\ Head(wire) \in DOMAIN log
         /\ server.phase # "none" /\ transport.state = "open"
         /\ Len(wire) > 0 /\ Tail(wire) \in Seq(Nat)
         /\ Len(Tail(wire)) = Len(wire) - 1
         /\ \A i \in 1..Len(Tail(wire)) : Tail(wire)[i] = wire[i + 1]
PROOF
  <1>1. /\ wire \in Seq(Nat) /\ Len(wire) \in Nat /\ Len(wire) > 0
        /\ Head(wire) = wire[1] /\ Tail(wire) \in Seq(Nat)
        /\ Len(Tail(wire)) = Len(wire) - 1
        /\ \A i \in 1..Len(Tail(wire)) : Tail(wire)[i] = wire[i + 1]
    BY DEF StreamTypeOK
  <1>2. /\ server.phase # "none" /\ transport.state = "open"
        /\ server.after = record.cursor + Len(wire)
        /\ \A i \in 1..Len(wire) : wire[i] = record.cursor + i
        /\ server.after + Len(server.batch) <= Len(log)
    BY DEF Streaming, Continuous
  <1>3. /\ record.cursor \in Nat /\ Len(server.batch) \in Nat
        /\ Len(log) \in Nat /\ DOMAIN log = 1..Len(log)
    BY DEF StreamTypeOK, Record, Server, ContractTypeOK
  <1> QED
    BY <1>1, <1>2, <1>3

(* The client's types through each of its acts and the generator's.        *)
LEMMA TypesStep ==
  ASSUME StreamTypeOK, LogTellsEnd, Streaming, [Next]_vars
  PROVE  StreamTypeOK'
PROOF
  <1>0. ContractTypeOK'
    BY JobMoves DEF StreamTypeOK
  <1>1. CASE JobRuns
    BY <1>0, <1>1 DEF JobRuns, StreamTypeOK, streamVars, bounded
  <1>2. CASE OtherTabActs
    BY <1>0, <1>2 DEF OtherTabActs, StreamTypeOK, streamVars
  <1>3. CASE Connect
    BY <1>0, <1>3 DEF Connect, StreamTypeOK, jobVars, bounded, Server, Transport, Record
  <1>4. ASSUME transport.state # "idle", Retry
        PROVE  transport' \in Transport /\ server' = NoServer /\ wire' = << >>
    BY <1>4 DEF Retry, Disconnect, StreamTypeOK, Transport
  <1>5. NoServer \in Server /\ << >> \in Seq(Nat)
    BY DEF NoServer, Server
  <1>6. Stop => transport' \in Transport /\ server' = NoServer /\ wire' = << >>
    BY DEF Stop, Disconnect, StreamTypeOK, Transport
  <1>7. CASE ConnectionFails
    <2>1. transport' \in Transport /\ server' \in Server /\ wire' \in Seq(Nat)
      BY <1>4, <1>5, <1>7 DEF ConnectionFails
    <2>2. failures' \in Nat
      BY <1>7 DEF ConnectionFails, StreamTypeOK
    <2> QED
      BY <1>0, <1>7, <2>1, <2>2 DEF ConnectionFails, StreamTypeOK, jobVars
  <1>8. CASE Read
    <2>1. /\ server \in Server /\ server.after \in Nat /\ server.batch = << >>
          /\ server.after <= Len(log)
      BY <1>8 DEF Read, StreamTypeOK, Server, Streaming, Continuous
    <2>2. PageAfter(server.after) \in Seq(Nat)
      BY <2>1, PagesContinue DEF StreamTypeOK
    <2>3. server' \in Server
      BY <1>8, <2>1, <2>2 DEF Read, Server
    <2> QED
      BY <1>0, <1>8, <2>3 DEF Read, StreamTypeOK, jobVars, bounded
  <1>9. CASE Send
    <2>1. /\ server.batch \in Seq(Nat) /\ server.batch # << >> /\ wire \in Seq(Nat)
      BY <1>9 DEF Send, StreamTypeOK, Server, Streaming, Continuous
    <2>2. Head(server.batch) \in Nat /\ Tail(server.batch) \in Seq(Nat)
      BY <2>1
    <2>3. server' \in Server
      BY <1>9, <2>2 DEF Send, Server
    <2>4. wire' \in Seq(Nat)
      BY <1>9, <2>1, <2>2 DEF Send
    <2> QED
      BY <1>0, <1>9, <2>3, <2>4 DEF Send, StreamTypeOK, jobVars, bounded
  <1>10. CASE Check
    BY <1>0, <1>10 DEF Check, StreamTypeOK, jobVars, bounded, Server
  <1>11. CASE Receive
    <2>1. /\ Head(wire) \in Nat /\ Head(wire) \in DOMAIN log
          /\ Tail(wire) \in Seq(Nat)
      BY <1>11, NextIsRead DEF Receive, StreamTypeOK, Record
    <2>2. record' \in Record
      BY <1>11, <2>1 DEF Receive, StreamTypeOK, Record, Reduced, UiOf, EndsStream,
                         UiOpen, UiDone, Settled
    <2>3. transport' \in Transport /\ server' \in Server /\ wire' \in Seq(Nat)
      <3>1. \/ Stop
            \/ wire' = Tail(wire) /\ UNCHANGED <<server, transport>>
        BY <1>11 DEF Receive
      <3> QED
        BY <1>5, <1>6, <2>1, <3>1 DEF StreamTypeOK
    <2> QED
      BY <1>0, <1>11, <2>2, <2>3 DEF Receive, StreamTypeOK, jobVars, bounded
  <1>12. CASE StreamEnds
    BY <1>0, <1>4, <1>5, <1>6, <1>12 DEF StreamEnds, StreamTypeOK, jobVars, bounded
  <1>13. ASSUME SendMessage \/ SendAnswer
         PROVE  StreamTypeOK'
    <2>1. record' \in Record /\ question' \in Questions \cup {0}
      BY <1>13 DEF SendMessage, SendAnswer, StreamTypeOK, Record, UiOpen
    <2>2. transport' \in Transport /\ server' \in Server /\ wire' \in Seq(Nat)
      <3>1. /\ transport' = [state |-> "connecting", attempts |-> 0]
            /\ server' = NoServer /\ wire' = << >>
        BY <1>13 DEF SendMessage, SendAnswer, Subscribe, Disconnect
      <3> QED
        BY <1>5, <3>1 DEF Transport
    <2> QED
      BY <1>0, <1>13, <2>1, <2>2 DEF SendMessage, SendAnswer, StreamTypeOK, bounded
  <1>14. CASE RequestCancel
    BY <1>0, <1>14 DEF RequestCancel, StreamTypeOK, jobVars, streamVars, bounded, Record,
                       UiOpen
  <1>15. CASE CommitCancel
    <2>1. status' \in Finished
      BY <1>15 DEF CommitCancel, CancelJob, Finished, jobVars
    <2>2. record' \in Record /\ question' \in Questions \cup {0}
      BY <1>15, <2>1 DEF CommitCancel, StreamTypeOK, Record, jobVars
    <2> QED
      BY <1>0, <1>15, <2>2 DEF CommitCancel, StreamTypeOK, streamVars, bounded
  <1>16. CASE LoseCancel
    BY <1>0, <1>16 DEF LoseCancel, StreamTypeOK, jobVars, streamVars, Record
  <1>17. CASE CancelReply
    <2>1. record' \in Record
      BY <1>17 DEF CancelReply, StreamTypeOK, Record, UiOfStatus, Finished, UiDone,
                   UiOpen, Settled
    <2> QED
      BY <1>0, <1>5, <1>6, <1>17, <2>1 DEF CancelReply, StreamTypeOK, jobVars, bounded
  <1>18. CASE CancelGivenUp
    <2>1. record' \in Record
      BY <1>18 DEF CancelGivenUp, StreamTypeOK, Record, UiDone, UiOpen, Settled
    <2> QED
      BY <1>0, <1>18, <2>1 DEF CancelGivenUp, StreamTypeOK, jobVars, streamVars, bounded
  <1>19. CASE UNCHANGED vars
    BY <1>0, <1>19 DEF vars, StreamTypeOK, bounded
  <1> QED
    BY <1>1, <1>2, <1>3, <1>7, <1>8, <1>9, <1>10, <1>11, <1>12, <1>13, <1>14, <1>15,
       <1>16, <1>17, <1>18, <1>19 DEF Next

-----------------------------------------------------------------------------
(* The wire and the page *)

(* The steps of which the stream and the client's cursor take no notice.   *)
Aside ==
    \/ JobRuns \/ OtherTabActs \/ RequestCancel \/ CommitCancel \/ LoseCancel
    \/ CancelGivenUp \/ UNCHANGED vars

(* The steps that cut the live connection, and a new one if it was made.   *)
Cuts ==
    /\ transport'.state # "open"
    /\ server' = NoServer /\ wire' = << >> /\ record'.cursor = record.cursor

(* The client accepts what it reads, and moves on by one.                  *)
LEMMA ReceiveMoves ==
  ASSUME StreamTypeOK, Streaming, Receive
  PROVE  record'.cursor = record.cursor + 1
PROOF
  <1>1. Head(wire) = record.cursor + 1 /\ record.cursor \in Nat
    BY NextIsRead DEF Receive, StreamTypeOK, Record
  <1> QED
    BY <1>1 DEF Receive, Reduced, Accepts, StreamTypeOK, Record

(* What a step may be to the stream.                                       *)
LEMMA StreamMoves ==
  ASSUME StreamTypeOK, Streaming, [Next]_vars
  PROVE  \/ Aside \/ Cuts \/ Connect \/ Read \/ Send \/ Check
         \/ /\ Receive
            /\ wire' = Tail(wire) /\ UNCHANGED <<server, transport>>
            /\ record'.cursor = record.cursor + 1
         \/ /\ Receive
            /\ Stop
            /\ record'.cursor = record.cursor + 1
PROOF
  <1>1. CASE Receive
    BY <1>1, ReceiveMoves DEF Receive
  <1>2. ASSUME Retry
        PROVE  transport'.state # "open" /\ server' = NoServer /\ wire' = << >>
    BY <1>2 DEF Retry, Disconnect, StreamTypeOK, Transport
  <1>3. ASSUME Stop
        PROVE  transport'.state # "open" /\ server' = NoServer /\ wire' = << >>
    BY <1>3 DEF Stop, Disconnect, StreamTypeOK, Transport
  <1>4. CASE ConnectionFails \/ StreamEnds
    BY <1>2, <1>3, <1>4 DEF ConnectionFails, StreamEnds, Cuts
  <1>5. CASE SendMessage \/ SendAnswer
    <2>1. /\ transport'.state # "open" /\ server' = NoServer /\ wire' = << >>
      BY <1>5 DEF SendMessage, SendAnswer, Subscribe, Disconnect
    <2>2. record'.cursor = record.cursor
      BY <1>5 DEF SendMessage, SendAnswer, StreamTypeOK, Record
    <2> QED
      BY <2>1, <2>2 DEF Cuts
  <1>6. CASE CancelReply
    BY <1>3, <1>6 DEF CancelReply, Cuts, StreamTypeOK, Record
  <1> QED
    BY <1>1, <1>4, <1>5, <1>6 DEF Next, Aside

(* To the steps aside the stream and the cursor stay as they are.          *)
LEMMA AsideStays ==
  ASSUME StreamTypeOK, Aside
  PROVE  UNCHANGED streamVars /\ record'.cursor = record.cursor
PROOF
  <1> USE DEF StreamTypeOK, Record, streamVars
  <1>1. CASE JobRuns \/ OtherTabActs \/ UNCHANGED vars
    BY <1>1 DEF JobRuns, OtherTabActs, vars
  <1>2. CASE RequestCancel \/ CommitCancel
    BY <1>2 DEF RequestCancel, CommitCancel
  <1>3. CASE LoseCancel \/ CancelGivenUp
    BY <1>3 DEF LoseCancel, CancelGivenUp
  <1> QED
    BY <1>1, <1>2, <1>3 DEF Aside

(* The first event of the page is sent: the wire ends and the rest of the  *)
(* page begins with it.                                                    *)
LEMMA SentInOrder ==
  ASSUME NEW ids \in Seq(Nat), NEW page \in Seq(Nat), page # << >>,
         NEW at \in Nat, \A i \in 1..Len(ids) : ids[i] = at + i,
         \A i \in 1..Len(page) : page[i] = at + Len(ids) + i
  PROVE  /\ Head(page) = at + Len(ids) + 1
         /\ Len(Tail(page)) = Len(page) - 1
         /\ \A i \in 1..Len(Tail(page)) : Tail(page)[i] = Head(page) + i
         /\ Len(Append(ids, Head(page))) = Len(ids) + 1
         /\ \A i \in 1..Len(Append(ids, Head(page))) :
               Append(ids, Head(page))[i] = at + i
PROOF
  <1>1. /\ Len(page) \in Nat /\ Len(page) > 0 /\ Head(page) = page[1]
        /\ Len(ids) \in Nat /\ Len(Tail(page)) = Len(page) - 1
        /\ \A i \in 1..Len(Tail(page)) : Tail(page)[i] = page[i + 1]
    OBVIOUS
  <1>2. Head(page) = at + Len(ids) + 1
    BY <1>1
  <1>3. \A i \in 1..Len(Tail(page)) : Tail(page)[i] = Head(page) + i
    <2> TAKE i \in 1..Len(Tail(page))
    <2>1. i \in Nat /\ i + 1 \in 1..Len(page)
      BY <1>1
    <2>2. page[i + 1] = at + Len(ids) + (i + 1)
      BY <2>1
    <2> QED
      BY <1>1, <1>2, <2>1, <2>2
  <1> QED
    BY <1>1, <1>2, <1>3

(* The wire and the page stay continuous.                                  *)
LEMMA StreamingStep ==
  ASSUME StreamTypeOK, LogTellsEnd, Streaming, [Next]_vars
  PROVE  Streaming'
PROOF
  <1>0. /\ Len(log) \in Nat /\ Len(log') \in Nat /\ Len(log) <= Len(log')
        /\ record.cursor \in Nat /\ record.cursor <= Len(log)
    BY JobMoves, LogGrows DEF StreamTypeOK, Record, Streaming, Continuous
  <1>1. CASE Aside
    <2>1. /\ server' = server /\ wire' = wire /\ transport' = transport
          /\ record'.cursor = record.cursor
      BY <1>1, AsideStays DEF streamVars
    <2>2. server.after \in Nat /\ Len(server.batch) \in Nat
      BY DEF StreamTypeOK, Server
    <2>3. Continuous(server, wire, record.cursor, Len(log'))
      BY <1>0, <2>2 DEF Streaming, Continuous
    <2> QED
      BY <2>1, <2>3 DEF Streaming
  <1>2. CASE Cuts
    BY <1>0, <1>2 DEF Cuts, Streaming, Continuous, NoServer
  <1>3. CASE Connect
    BY <1>0, <1>3 DEF Connect, Streaming, Continuous, StreamTypeOK, Transport, jobVars
  <1>4. CASE Read
    <2> DEFINE page == PageAfter(server.after)
    <2>1. /\ server.after \in Nat /\ server.after <= Len(log)
          /\ server \in Server /\ Len(wire) \in Nat
          /\ server.after = record.cursor + Len(wire)
          /\ \A i \in 1..Len(wire) : wire[i] = record.cursor + i
          /\ transport.state = "open"
      BY <1>4 DEF Read, StreamTypeOK, Server, Streaming, Continuous
    <2>2. /\ page \in Seq(Nat) /\ server.after + Len(page) <= Len(log)
          /\ \A i \in 1..Len(page) : page[i] = server.after + i
      BY <2>1, PagesContinue DEF StreamTypeOK
    <2> HIDE DEF page
    <2>3. /\ server'.after = server.after /\ server'.batch = page
          /\ server'.phase = IF page = << >> THEN "checking" ELSE "sending"
      BY <1>4, <2>1 DEF Read, Server, page
    <2>4. /\ wire' = wire /\ transport' = transport /\ record' = record /\ log' = log
      BY <1>4 DEF Read, jobVars
    <2> QED
      BY <1>0, <2>1, <2>2, <2>3, <2>4 DEF Streaming, Continuous
  <1>5. CASE Send
    <2>1. /\ server.batch \in Seq(Nat) /\ server.batch # << >> /\ wire \in Seq(Nat)
          /\ server.after \in Nat
          /\ server.after = record.cursor + Len(wire)
          /\ \A i \in 1..Len(wire) : wire[i] = record.cursor + i
          /\ \A i \in 1..Len(server.batch) : server.batch[i] = server.after + i
          /\ server.after + Len(server.batch) <= Len(log)
          /\ transport.state = "open"
      BY <1>5 DEF Send, StreamTypeOK, Server, Streaming, Continuous
    <2>a. PICK id, rest : id = Head(server.batch) /\ rest = Tail(server.batch)
      OBVIOUS
    <2>2. /\ id = server.after + 1
          /\ Len(rest) = Len(server.batch) - 1
          /\ \A i \in 1..Len(rest) : rest[i] = id + i
          /\ Len(Append(wire, id)) = Len(wire) + 1
          /\ \A i \in 1..Len(Append(wire, id)) : Append(wire, id)[i] = record.cursor + i
      <3>1. \A i \in 1..Len(server.batch) : server.batch[i] = record.cursor + Len(wire) + i
        BY <2>1
      <3> QED
        <4>0. /\ server.batch \in Seq(Nat) /\ server.batch # << >> /\ wire \in Seq(Nat)
              /\ \A i \in 1..Len(wire) : wire[i] = record.cursor + i
          BY <2>1
        <4>1. /\ Head(server.batch) = record.cursor + Len(wire) + 1
              /\ Len(Tail(server.batch)) = Len(server.batch) - 1
              /\ \A i \in 1..Len(Tail(server.batch)) :
                    Tail(server.batch)[i] = Head(server.batch) + i
              /\ Len(Append(wire, Head(server.batch))) = Len(wire) + 1
              /\ \A i \in 1..Len(Append(wire, Head(server.batch))) :
                    Append(wire, Head(server.batch))[i] = record.cursor + i
          BY <1>0, <3>1, <4>0, SentInOrder
        <4> QED
          BY <2>1, <2>a, <4>1
    <2>4. /\ server'.after = id /\ server'.batch = rest
          /\ server'.phase \in {"ended", "checking", "sending"}
          /\ server'.phase = "sending" => rest # << >>
          /\ server'.phase = "checking" => rest = << >>
      BY <1>5, <2>a DEF Send
    <2>5. /\ wire' = Append(wire, id)
          /\ transport' = transport /\ record' = record /\ log' = log
      BY <1>5, <2>a DEF Send, jobVars
    <2>6. /\ Len(wire') = Len(wire) + 1
          /\ \A i \in 1..Len(wire') : wire'[i] = record.cursor + i
      BY <2>2, <2>5
    <2>7. id + Len(rest) <= Len(log) /\ id = record.cursor + Len(wire')
      <3>1. /\ Len(server.batch) \in Nat /\ Len(wire) \in Nat /\ server.after \in Nat
            /\ server.after = record.cursor + Len(wire)
            /\ server.after + Len(server.batch) <= Len(log)
        BY <2>1
      <3>2. id = server.after + 1 /\ Len(rest) = Len(server.batch) - 1
        BY <2>2
      <3>3. Len(wire') = Len(wire) + 1
        BY <2>6
      <3>4. id = record.cursor + Len(wire')
        <4>1. record.cursor \in Nat
          BY <1>0
        <4> QED
          BY <3>1, <3>2, <3>3, <4>1
      <3>5. id + Len(rest) = server.after + Len(server.batch)
        BY <3>1, <3>2
      <3> QED
        BY <3>1, <3>4, <3>5
    <2> QED
      BY <1>0, <2>1, <2>2, <2>4, <2>5, <2>6, <2>7 DEF Streaming, Continuous
  <1>6. CASE Check
    BY <1>0, <1>6 DEF Check, Streaming, Continuous, StreamTypeOK, Server, jobVars
  <1>7. CASE /\ Receive
             /\ wire' = Tail(wire) /\ UNCHANGED <<server, transport>>
             /\ record'.cursor = record.cursor + 1
    <2>1. wire # << >> /\ log' = log
      BY <1>7 DEF Receive, jobVars
    <2>2. /\ Len(wire') = Len(wire) - 1 /\ Len(wire) \in Nat
          /\ \A i \in 1..Len(wire') : wire'[i] = wire[i + 1]
          /\ server.phase # "none" /\ record.cursor + 1 \in DOMAIN log
      BY <1>7, <2>1, NextIsRead DEF StreamTypeOK
    <2>3. /\ \A i \in 1..Len(wire') : wire'[i] = record'.cursor + i
          /\ record'.cursor <= Len(log)
      <3>1. /\ \A i \in 1..Len(wire) : wire[i] = record.cursor + i
            /\ record.cursor + 1 <= Len(log)
        BY <1>0, <2>2 DEF Streaming, Continuous, StreamTypeOK, ContractTypeOK
      <3>2. \A i \in 1..Len(wire') : wire'[i] = record.cursor + (i + 1)
        BY <2>2, <3>1
      <3> QED
        BY <1>0, <1>7, <2>2, <3>1, <3>2
    <2> QED
      BY <1>0, <1>7, <2>1, <2>2, <2>3 DEF Streaming, Continuous
  <1>8. CASE Receive /\ Stop /\ record'.cursor = record.cursor + 1
    <2>1. record.cursor + 1 \in DOMAIN log /\ log' = log
      BY <1>8, NextIsRead DEF Receive, jobVars
    <2>2. record'.cursor <= Len(log')
      BY <1>0, <1>8, <2>1 DEF StreamTypeOK, ContractTypeOK
    <2>3. transport'.state # "open" /\ server' = NoServer /\ wire' = << >>
      BY <1>8 DEF Stop, Disconnect, StreamTypeOK, Transport
    <2> QED
      BY <1>0, <1>8, <2>2, <2>3 DEF Streaming, Continuous, NoServer
  <1> QED
    BY <1>1, <1>2, <1>3, <1>4, <1>5, <1>6, <1>7, <1>8, StreamMoves

-----------------------------------------------------------------------------
(* The client's record *)

(* The event at the cursor is one of the log, and stays it.                *)
LEMMA CursorStays ==
  ASSUME StreamTypeOK, LogTellsEnd, Streaming, [Next]_vars
  PROVE  /\ record.cursor \in DOMAIN log' =>
               record.cursor \in DOMAIN log /\ log'[record.cursor] = log[record.cursor]
         /\ status \in Finished => status' = status /\ log' = log
PROOF
  <1>1. /\ record.cursor \in Nat /\ record.cursor <= Len(log)
        /\ Len(log) \in Nat /\ Len(log') \in Nat
        /\ DOMAIN log = 1..Len(log) /\ DOMAIN log' = 1..Len(log')
        /\ \A i \in DOMAIN log : log'[i] = log[i]
    BY JobMoves, LogGrows DEF StreamTypeOK, Record, Streaming, Continuous
  <1> QED
    BY <1>1, FinishedRests DEF contractVars

(* What the client shows stays what it has been told of the job.           *)
LEMMA RecordStep ==
  ASSUME StreamTypeOK, LogTellsEnd, Streaming, RecordTellsEnd, ShownEndIsReal,
         [Next]_vars
  PROVE  RecordTellsEnd' /\ ShownEndIsReal'
PROOF
  <1>0. /\ record.cursor \in DOMAIN log' =>
              record.cursor \in DOMAIN log /\ log'[record.cursor] = log[record.cursor]
        /\ status \in Finished => status' = status /\ log' = log
        /\ record \in Record
    BY CursorStays DEF StreamTypeOK
  <1> USE DEF RecordTellsEnd, ShownEndIsReal
  <1>1. CASE record' = record
    BY <1>0, <1>1
  <1>2. CASE SendMessage \/ SendAnswer
    <2>1. /\ record'.ui = "queued" /\ record'.backend = "queued"
          /\ record'.cancel = record.cancel /\ record'.cursor = record.cursor
          /\ record.ui \in {"none", "waiting_input"}
      BY <1>0, <1>2 DEF SendMessage, SendAnswer, Record
    <2>2. record.cursor \in DOMAIN log => log[record.cursor].type \notin Terminal
      BY <2>1 DEF UiDone
    <2> QED
      BY <1>0, <2>1, <2>2 DEF UiDone
  <1>3. CASE RequestCancel
    <2>1. /\ record'.ui = "canceling" /\ record'.backend = record.backend
          /\ record'.cancel = "sent" /\ record'.cursor = record.cursor
          /\ record.ui \notin UiDone
      BY <1>0, <1>3 DEF RequestCancel, Record, UiOpen, UiDone
    <2> QED
      BY <1>0, <2>1 DEF UiDone, Finished
  <1>4. CASE CommitCancel
    <2>1. /\ record'.ui = record.ui /\ record'.backend = record.backend
          /\ record'.cancel = status' /\ record'.cursor = record.cursor
      BY <1>0, <1>4 DEF CommitCancel, Record
    <2> QED
      BY <1>0, <2>1
  <1>5. CASE LoseCancel
    <2>1. /\ record'.ui = record.ui /\ record'.backend = record.backend
          /\ record'.cancel = "lost" /\ record'.cursor = record.cursor
      BY <1>0, <1>5 DEF LoseCancel, Record
    <2> QED
      BY <1>0, <2>1 DEF Finished
  <1>6. CASE CancelReply
    <2>1. /\ record'.ui = UiOfStatus(record.cancel) /\ record'.backend = record'.ui
          /\ record'.cancel = "none" /\ record'.cursor = record.cursor
          /\ record.cancel \in Finished /\ status = record.cancel
      BY <1>0, <1>6 DEF CancelReply, Record
    <2>2. record'.ui \in UiDone
      BY <2>1 DEF UiOfStatus, Finished, UiDone
    <2> QED
      BY <1>0, <2>1, <2>2 DEF UiDone, Finished
  <1>7. CASE CancelGivenUp
    <2>1. /\ record'.ui = IF record.backend \in UiDone THEN record.ui ELSE record.backend
          /\ record'.backend = record.backend
          /\ record'.cancel = "none" /\ record'.cursor = record.cursor
      BY <1>0, <1>7 DEF CancelGivenUp, Record
    <2>2. /\ record.ui \in UiDone => record'.ui = record.ui
          /\ record.backend \notin UiDone => record.ui \notin UiDone
      BY <2>1
    <2> QED
      BY <1>0, <2>1, <2>2 DEF UiDone, Finished
  <1>8. CASE Receive
    <2>1. PICK id : id = Head(wire)
      OBVIOUS
    <2>2. /\ id = record.cursor + 1 /\ id \in DOMAIN log /\ record.cursor \in Nat
          /\ log' = log /\ status' = status
      BY <1>8, <2>1, NextIsRead DEF Receive, jobVars, StreamTypeOK, Record
    <2>3. Accepts(record, id)
      BY <2>2 DEF Accepts
    <2>4. record' = IF EndsStream(log[id].type) /\ record.ui \notin UiDone
                    THEN [[record EXCEPT !.cursor = id] EXCEPT
                            !.ui = UiOf(log[id].type), !.backend = UiOf(log[id].type)]
                    ELSE [record EXCEPT !.cursor = id]
      BY <1>8, <2>1, <2>3 DEF Receive, Reduced
    <2>5. CASE EndsStream(log[id].type) /\ record.ui \notin UiDone
      <3>1. /\ record'.ui = UiOf(log[id].type) /\ record'.backend = record'.ui
            /\ record'.cancel = record.cancel /\ record'.cursor = id
        BY <1>0, <2>4, <2>5 DEF Record
      <3>2. record'.ui \in UiDone =>
               status \in Finished /\ record'.ui = UiOfStatus(status)
        BY <2>2, <2>5, <3>1 DEF LogTellsEnd, EndsStream, UiOf, UiDone, UiOfStatus, Finished
      <3>3. log[id].type \in Terminal => record'.ui \in UiDone
        BY <3>1 DEF Terminal, UiOf, UiDone
      <3> QED
        BY <2>2, <3>1, <3>2, <3>3
    <2>6. CASE ~(EndsStream(log[id].type) /\ record.ui \notin UiDone)
      <3>1. /\ record'.ui = record.ui /\ record'.backend = record.backend
            /\ record'.cancel = record.cancel /\ record'.cursor = id
        BY <1>0, <2>4, <2>6 DEF Record
      <3> QED
        BY <2>2, <2>6, <3>1 DEF Terminal, EndsStream
    <2> QED
      BY <2>5, <2>6
  <1>9. CASE \/ JobRuns \/ OtherTabActs \/ Connect \/ ConnectionFails \/ Read \/ Send
             \/ Check \/ StreamEnds \/ UNCHANGED vars
    BY <1>1, <1>9 DEF JobRuns, OtherTabActs, Connect, ConnectionFails, Read, Send, Check,
                      StreamEnds, vars
  <1> QED
    BY <1>2, <1>3, <1>4, <1>5, <1>6, <1>7, <1>8, <1>9 DEF Next

-----------------------------------------------------------------------------
(* Questions *)

(* While the job neither waits nor is canceled, the client has taken every *)
(* question and has none to show.                                          *)
LEMMA NothingIsAsked ==
  ASSUME OneTab, others = 0, status \notin {"waiting_input", "canceled"}
  PROVE  /\ record.backend # "waiting_input"
         /\ \A i \in DOMAIN log : i > record.cursor => log[i].type # "interrupt"
PROOF
  BY DEF OneTab, QuestionIsOpen

(* The job goes on under a client that has taken every question.           *)
LEMMA JobAsks ==
  ASSUME StreamTypeOK, OneTab, others' = 0, JobRuns
  PROVE  OneTab'
PROOF
  <1>1. /\ others = 0 /\ record' = record /\ record.cursor \in Nat
        /\ log \in Seq(PublicEvent) /\ Len(log) \in Nat
    BY DEF JobRuns, bounded, StreamTypeOK, ContractTypeOK, Record
  <1>2. status \notin {"waiting_input", "canceled"}
    BY DEF JobRuns, Begin, Report, Ask, Finish
  <1>3. /\ record.backend # "waiting_input"
        /\ \A i \in DOMAIN log : i > record.cursor => log[i].type # "interrupt"
    BY <1>1, <1>2, NothingIsAsked
  <1>4. CASE log' = log
    BY <1>1, <1>3, <1>4 DEF OneTab
  <1>5. ASSUME NEW e \in PublicEvent, log' = Append(log, e),
               e.type = "interrupt" =>
                  status' = "waiting_input" /\ e = Question(question')
        PROVE  OneTab'
    <2>1. /\ Len(log') = Len(log) + 1 /\ DOMAIN log' = 1..Len(log')
          /\ log'[Len(log')] = e /\ DOMAIN log = 1..Len(log)
          /\ \A i \in DOMAIN log : log'[i] = log[i]
      BY <1>1, <1>5
    <2>2. ASSUME NEW i \in DOMAIN log', i > record.cursor, log'[i].type = "interrupt"
          PROVE  QuestionIsOpen(i)'
      <3>1. i = Len(log')
        BY <1>1, <1>3, <2>1, <2>2
      <3> QED
        BY <1>5, <2>1, <2>2, <3>1 DEF QuestionIsOpen
    <2> QED
      BY <1>1, <1>3, <2>2 DEF OneTab
  <1>6. CASE Begin
    BY <1>4, <1>6 DEF Begin
  <1>7. CASE Report
    BY <1>5, <1>7 DEF Report, Plain, PublicEvent
  <1>8. ASSUME NEW q \in Questions, Ask(q), question' = q
        PROVE  OneTab'
    <2>1. log' = log \/ log' = Append(log, Question(q))
      BY <1>8 DEF Ask
    <2>2. Question(q) \in PublicEvent /\ status' = "waiting_input"
      BY <1>8 DEF Ask, Question, PublicEvent
    <2> QED
      BY <1>4, <1>5, <1>8, <2>1, <2>2
  <1>9. CASE Finish("succeeded", "final_result") \/ Finish("failed", "error")
    BY <1>5, <1>9 DEF Finish, Plain, PublicEvent
  <1> QED
    BY <1>6, <1>7, <1>8, <1>9 DEF JobRuns

(* A question is shown when it is the one the job waits on.                *)
LEMMA QuestionIsTaken ==
  ASSUME StreamTypeOK, Streaming, OneTab, others' = 0, Receive
  PROVE  OneTab'
PROOF
  <1>1. PICK id : id = Head(wire)
    OBVIOUS
  <1>2. /\ id = record.cursor + 1 /\ id \in DOMAIN log /\ record.cursor \in Nat
        /\ log' = log /\ status' = status /\ question' = question /\ others = 0
        /\ record \in Record /\ DOMAIN log = 1..Len(log) /\ Len(log) \in Nat
    BY <1>1, NextIsRead DEF Receive, jobVars, bounded, StreamTypeOK, Record,
                            ContractTypeOK
  <1>3. Accepts(record, id)
    BY <1>2 DEF Accepts
  <1>4. record' = IF EndsStream(log[id].type) /\ record.ui \notin UiDone
                  THEN [[record EXCEPT !.cursor = id] EXCEPT
                          !.ui = UiOf(log[id].type), !.backend = UiOf(log[id].type)]
                  ELSE [record EXCEPT !.cursor = id]
    BY <1>1, <1>3 DEF Receive, Reduced
  <1>5. /\ record'.cursor = id
        /\ \/ record'.backend = record.backend
           \/ EndsStream(log[id].type) /\ record'.backend = UiOf(log[id].type)
    BY <1>2, <1>4 DEF Record
  <1>6. ASSUME NEW i \in DOMAIN log
        PROVE  QuestionIsOpen(i) => QuestionIsOpen(i)'
    BY <1>2 DEF QuestionIsOpen
  <1>7. ASSUME record'.backend = "waiting_input", status # "canceled"
        PROVE  QuestionIsOpen(id)
    <2>1. record.backend # "waiting_input"
      BY <1>2, <1>7 DEF OneTab, QuestionIsOpen
    <2>2. log[id].type = "interrupt"
      BY <1>5, <1>7, <2>1 DEF EndsStream, UiOf
    <2> QED
      BY <1>2, <1>7, <2>2 DEF OneTab
  <1>8. ASSUME NEW i \in DOMAIN log', i > record'.cursor, log'[i].type = "interrupt"
        PROVE  status' = "canceled" \/ QuestionIsOpen(i)'
    BY <1>2, <1>5, <1>6, <1>8 DEF OneTab
  <1> QED
    BY <1>2, <1>5, <1>6, <1>7, <1>8 DEF OneTab

(* As long as no other tab acts, what the client takes for open is open.   *)
LEMMA OneTabStep ==
  ASSUME StreamTypeOK, LogTellsEnd, Streaming, RecordTellsEnd, OneTab, [Next]_vars
  PROVE  OneTab'
PROOF
  <1> SUFFICES ASSUME others' = 0 PROVE OneTab'
    BY DEF OneTab
  <1>0. record \in Record /\ others \in Nat
    BY DEF StreamTypeOK
  <1>1. CASE JobRuns
    BY <1>1, JobAsks
  <1>2. CASE Receive
    BY <1>2, QuestionIsTaken
  <1>3. CASE OtherTabActs
    BY <1>0, <1>3 DEF OtherTabActs
  <1>4. CASE SendMessage
    <2>1. /\ log' = << >> /\ record'.backend = "queued"
      BY <1>0, <1>4 DEF SendMessage, Submit, LogTellsEnd, Record
    <2> QED
      BY <2>1 DEF OneTab
  <1>5. CASE SendAnswer
    <2>1. /\ others = 0 /\ log' = log /\ status = "waiting_input"
          /\ record.backend = "waiting_input"
          /\ record'.backend = "queued" /\ record'.cursor = record.cursor
      BY <1>0, <1>5 DEF SendAnswer, Answer, RecordTellsEnd, bounded, Record
    <2>2. record.cursor = Len(log) /\ DOMAIN log = 1..Len(log) /\ Len(log) \in Nat
      BY <2>1 DEF OneTab, QuestionIsOpen, StreamTypeOK, ContractTypeOK
    <2> QED
      BY <2>1, <2>2 DEF OneTab
  <1>6. CASE CommitCancel
    <2>1. /\ others' = others
          /\ record'.backend = record.backend /\ record'.cursor = record.cursor
          /\ status' = "canceled" \/ UNCHANGED jobVars
      BY <1>0, <1>6 DEF CommitCancel, CancelJob, bounded, Record
    <2> QED
      BY <2>1 DEF OneTab, QuestionIsOpen, jobVars
  <1>7. CASE \/ Connect \/ ConnectionFails \/ Read \/ Send \/ Check \/ StreamEnds
             \/ RequestCancel \/ LoseCancel \/ CancelReply \/ CancelGivenUp
             \/ UNCHANGED vars
    <2>1. UNCHANGED jobVars /\ others' = others
      BY <1>7 DEF Connect, ConnectionFails, Read, Send, Check, StreamEnds,
                  RequestCancel, LoseCancel, CancelReply, CancelGivenUp, vars, bounded,
                  jobVars
    <2>2. CASE \/ Connect \/ ConnectionFails \/ Read \/ Send \/ Check \/ StreamEnds
               \/ UNCHANGED vars
      <3>1. record' = record
        BY <2>2 DEF Connect, ConnectionFails, Read, Send, Check, StreamEnds, vars
      <3> QED
        BY <2>1, <3>1 DEF OneTab, QuestionIsOpen, jobVars
    <2>3. CASE RequestCancel \/ LoseCancel \/ CancelReply \/ CancelGivenUp
      <3>1. /\ record'.cursor = record.cursor
            /\ record'.backend \in {record.backend} \cup UiDone
        BY <1>0, <2>3 DEF RequestCancel, LoseCancel, CancelReply, CancelGivenUp, Record,
                          UiOfStatus, UiDone, Finished
      <3> QED
        BY <2>1, <3>1 DEF OneTab, QuestionIsOpen, jobVars, UiDone
    <2> QED
      BY <1>7, <2>2, <2>3
  <1> QED
    BY <1>1, <1>2, <1>3, <1>4, <1>5, <1>6, <1>7 DEF Next

-----------------------------------------------------------------------------
(* Ends of a stream *)

(* A record that shows an end goes on to show one.                         *)
LEMMA DoneStays ==
  ASSUME StreamTypeOK, RecordTellsEnd, record.ui \in UiDone, [Next]_vars
  PROVE  record'.ui \in UiDone
PROOF
  <1>0. record \in Record
    BY DEF StreamTypeOK
  <1>1. CASE SendMessage \/ SendAnswer \/ RequestCancel
    BY <1>1 DEF SendMessage, SendAnswer, RequestCancel, UiDone, UiOpen
  <1>2. CASE CommitCancel \/ LoseCancel
    BY <1>0, <1>2 DEF CommitCancel, LoseCancel, Record
  <1>3. CASE CancelReply
    BY <1>0, <1>3 DEF CancelReply, Record, UiOfStatus, UiDone, Finished
  <1>4. CASE CancelGivenUp
    BY <1>0, <1>4 DEF CancelGivenUp, Record, RecordTellsEnd
  <1>5. CASE Receive
    BY <1>0, <1>5 DEF Receive, Reduced, Record
  <1>6. CASE \/ JobRuns \/ OtherTabActs \/ Connect \/ ConnectionFails \/ Read \/ Send
             \/ Check \/ StreamEnds \/ UNCHANGED vars
    BY <1>6 DEF JobRuns, OtherTabActs, Connect, ConnectionFails, Read, Send, Check,
                StreamEnds, vars
  <1> QED
    BY <1>1, <1>2, <1>3, <1>4, <1>5, <1>6 DEF Next

(* What was sent last is an event of the log, and stays it.                *)
LEMMA SentStays ==
  ASSUME StreamTypeOK, LogTellsEnd, Streaming, [Next]_vars, wire # << >>
  PROVE  server.after \in DOMAIN log /\ log'[server.after] = log[server.after]
PROOF
  <1>1. /\ server.phase # "none" /\ Len(wire) > 0 /\ Len(wire) \in Nat
        /\ record.cursor \in Nat /\ server.after \in Nat /\ Len(server.batch) \in Nat
    BY NextIsRead DEF StreamTypeOK, Record, Server
  <1>2. server.after = record.cursor + Len(wire)
        /\ server.after + Len(server.batch) <= Len(log)
    BY <1>1 DEF Streaming, Continuous
  <1>3. /\ DOMAIN log = 1..Len(log) /\ Len(log) \in Nat
        /\ \A i \in DOMAIN log : log'[i] = log[i]
    BY JobMoves, LogGrows DEF StreamTypeOK
  <1> QED
    BY <1>1, <1>2, <1>3

(* A stream still has a cause to be ended.                                 *)
LEMMA EndedStep ==
  ASSUME StreamTypeOK, LogTellsEnd, Streaming, RecordTellsEnd, EndedForCause,
         [Next]_vars
  PROVE  EndedForCause'
PROOF
  <1>0. /\ record.ui \in UiDone => record'.ui \in UiDone
        /\ status \in Finished => status' \in Finished
        /\ server \in Server
    BY DoneStays, CursorStays DEF StreamTypeOK
  <1>1. CASE Aside
    <2>1. server' = server /\ wire' = wire
      BY <1>1, AsideStays DEF streamVars
    <2> QED
      BY <1>0, <2>1, SentStays DEF EndedForCause, EndsStream
  <1>2. CASE Cuts
    BY <1>2 DEF Cuts, EndedForCause, NoServer
  <1>3. CASE Connect
    BY <1>3 DEF Connect, EndedForCause
  <1>4. CASE Read
    BY <1>0, <1>4 DEF Read, EndedForCause, Server
  <1>5. CASE Send
    <2>1. PICK id : id = Head(server.batch)
      OBVIOUS
    <2>2. /\ wire' = Append(wire, id) /\ log' = log
          /\ server'.after = id
          /\ server'.phase = "ended" => EndsStream(log[id].type)
      BY <1>5, <2>1 DEF Send, jobVars
    <2>3. wire' # << >>
      BY <2>2 DEF StreamTypeOK
    <2> QED
      BY <2>2, <2>3 DEF EndedForCause, EndsStream
  <1>6. CASE Check
    BY <1>0, <1>6 DEF Check, EndedForCause, Server, Streaming, Continuous, jobVars
  <1>7. CASE /\ Receive
             /\ wire' = Tail(wire) /\ UNCHANGED <<server, transport>>
             /\ record'.cursor = record.cursor + 1
    <2> SUFFICES ASSUME server.phase = "ended", wire' = << >>,
                        EndsStream(log[server.after].type)
                 PROVE  record'.ui \in UiDone
      <3>1. log' = log /\ status' = status
        BY <1>7 DEF Receive, jobVars
      <3> QED
        BY <1>0, <1>7, <3>1 DEF EndedForCause, EndsStream
    <2>1. /\ Head(wire) = record.cursor + 1 /\ record.cursor \in Nat
          /\ Len(wire) \in Nat /\ Len(Tail(wire)) = Len(wire) - 1
          /\ server.after = record.cursor + Len(wire)
      BY <1>7, NextIsRead DEF Receive, StreamTypeOK, Record, Streaming, Continuous
    <2>2. Head(wire) = server.after
      <3>1. Tail(wire) = << >>
        BY <1>7
      <3>2. Len(<< >>) = 0
        OBVIOUS
      <3>3. Len(Tail(wire)) = Len(<< >>)
        BY <3>1, Zenon
      <3>4. Len(wire) = 1
        BY <2>1, <3>2, <3>3
      <3> QED
        BY <2>1, <3>4
    <2>3. Accepts(record, Head(wire))
      BY <2>1 DEF Accepts
    <2>4. ~Stop
      BY <1>7 DEF Stop, Disconnect, NoServer
    <2> QED
      BY <1>0, <1>7, <2>2, <2>3, <2>4 DEF Receive
  <1>8. CASE Receive /\ Stop /\ record'.cursor = record.cursor + 1
    BY <1>8 DEF Stop, Disconnect, NoServer, EndedForCause
  <1> QED
    BY <1>1, <1>2, <1>3, <1>4, <1>5, <1>6, <1>7, <1>8, StreamMoves

-----------------------------------------------------------------------------
(* Reconnections and pages *)

(* More pages hold more events.                                            *)
LEMMA MorePages ==
  ASSUME NEW a \in Nat, NEW b \in Nat, a >= b
  PROVE  Page * a >= Page * b /\ Page * a \in Nat /\ Page * b \in Nat
PROOF
  <1>1. Page \in Nat
    BY StreamAssumption
  <1>2. a - b \in Nat /\ Page * (a - b) \in Nat
    BY <1>1
  <1>3. Page * a = Page * b + Page * (a - b)
    BY <1>1
  <1> QED
    BY <1>1, <1>2, <1>3

(* A stream that ends before its client is told the end of the job has     *)
(* brought a page for every earlier reconnection, and there is more.       *)
LEMMA EndedTooEarly ==
  ASSUME StreamTypeOK, LogTellsEnd, Streaming, RecordTellsEnd, EndedForCause,
         PagesTaken, failures = 0, StreamEnds, record.ui \notin Settled
  PROVE  /\ status \in Finished
         /\ record.cursor >= Page * transport.attempts
         /\ record.cursor < Len(log)
PROOF
  <1>1. /\ transport.state = "open" /\ wire = << >> /\ server.phase = "ended"
        /\ record.ui \notin UiDone
    BY DEF StreamEnds, Settled
  <1>2. status \in Finished /\ server.batch = << >>
    BY <1>1 DEF EndedForCause
  <1>3. /\ record.cursor \in Nat /\ Len(log) \in Nat /\ DOMAIN log = 1..Len(log)
        /\ transport.attempts \in Nat /\ server.after \in Nat
    BY DEF StreamTypeOK, Record, Transport, Server, ContractTypeOK
  <1>4. server.after = record.cursor /\ record.cursor <= Len(log)
    BY <1>1, <1>3 DEF Streaming, Continuous
  <1>5. record.cursor # Len(log)
    BY <1>1, <1>2, <1>3 DEF LogTellsEnd, RecordTellsEnd
  <1>6. CASE transport.attempts = 0
    <2>1. Page * transport.attempts = 0
      BY <1>6, StreamAssumption
    <2> QED
      BY <1>2, <1>3, <1>4, <1>5, <2>1
  <1>7. CASE transport.attempts > 0
    <2>1. \/ server.after + Len(server.batch) >= Page * transport.attempts
          \/ server.after + Len(server.batch) = Len(log)
      BY <1>1, <1>7 DEF PagesTaken
    <2>2. server.after + Len(server.batch) = record.cursor
      BY <1>2, <1>3, <1>4
    <2> QED
      BY <1>2, <1>3, <1>4, <1>5, <2>1, <2>2
  <1> QED
    BY <1>3, <1>6, <1>7

(* Each reconnection is paid for with a page.                              *)
LEMMA PagesStep ==
  ASSUME StreamTypeOK, LogTellsEnd, Streaming, RecordTellsEnd, EndedForCause,
         PagesTaken, [Next]_vars
  PROVE  PagesTaken'
PROOF
  <1> SUFFICES ASSUME failures' = 0 PROVE PagesTaken'
    BY DEF PagesTaken
  <1>0. /\ failures = 0 /\ ~ConnectionFails
        /\ record.cursor \in Nat /\ server.after \in Nat
        /\ transport \in Transport /\ server \in Server
        /\ Len(log) \in Nat /\ Len(log') \in Nat /\ Len(log) <= Len(log')
        /\ Page \in Nat /\ MaxReconnects \in Nat
    <2>1. failures \in Nat
      BY DEF StreamTypeOK
    <2>2. failures' = failures \/ failures' = failures + 1
      BY DEF Next, JobRuns, OtherTabActs, Connect, ConnectionFails, Read, Send, Check,
             Receive, StreamEnds, SendMessage, SendAnswer, RequestCancel, CommitCancel,
             LoseCancel, CancelReply, CancelGivenUp, vars, bounded
    <2>3. ~ConnectionFails
      BY <2>1 DEF ConnectionFails
    <2> QED
      BY <2>1, <2>2, <2>3, JobMoves, LogGrows, StreamAssumption
         DEF StreamTypeOK, Record, Transport, Server
  <1>1. ASSUME transport.state \in {"connecting", "open"}, transport.attempts > 0
        PROVE  /\ status \in Finished /\ status' = status /\ log' = log
               /\ record.cursor >= Page * (transport.attempts - 1)
    BY <1>0, <1>1, CursorStays DEF PagesTaken
  <1>2. CASE Aside
    <2>1. server' = server /\ transport' = transport /\ record'.cursor = record.cursor
      BY <1>2, AsideStays DEF streamVars
    <2>2. MaxReconnects \in Nat /\ Page * MaxReconnects \in Nat
      BY <1>0, MorePages
    <2>3. transport.state = "failed" => Len(log') > Page * MaxReconnects
      BY <1>0, <2>2 DEF PagesTaken
    <2> QED
      BY <1>0, <1>1, <2>1, <2>3 DEF PagesTaken
  <1>3. CASE Connect
    <2>1. /\ transport'.state = "open" /\ transport'.attempts = transport.attempts
          /\ transport.state = "connecting" /\ server'.phase = "reading"
          /\ record' = record
      BY <1>0, <1>3 DEF Connect, Transport
    <2> QED
      BY <1>1, <2>1 DEF PagesTaken
  <1>4. CASE Read
    <2>1. /\ transport' = transport /\ record' = record /\ log' = log
          /\ transport.state = "open"
          /\ server.after = record.cursor + Len(wire) /\ Len(wire) \in Nat
          /\ server.after <= Len(log)
      BY <1>0, <1>4 DEF Read, jobVars, Streaming, Continuous, StreamTypeOK
    <2>2. /\ server'.after = server.after /\ server'.batch = PageAfter(server.after)
      BY <1>0, <1>4 DEF Read, Server
    <2>3. \/ Len(server'.batch) = Page
          \/ server.after + Len(server'.batch) = Len(log)
      BY <1>0, <2>1, <2>2, PagesContinue DEF StreamTypeOK
    <2>4. ASSUME transport.attempts > 0, Len(server'.batch) = Page
          PROVE  server.after + Len(server'.batch) >= Page * transport.attempts
      <3>1. /\ transport.attempts \in Nat /\ Page \in Nat
            /\ server.after \in Nat /\ record.cursor \in Nat
        BY <1>0 DEF Transport
      <3>2. transport.attempts - 1 \in Nat
        BY <2>4, <3>1
      <3>3. Page * (transport.attempts - 1) \in Nat
        BY <3>2, MorePages
      <3>4. Page * transport.attempts = Page * (transport.attempts - 1) + Page
        BY <3>1
      <3>5. record.cursor >= Page * (transport.attempts - 1)
        BY <1>1, <2>1, <2>4
      <3>6. server.after >= record.cursor
        BY <2>1, <3>1
      <3> QED
        BY <2>4, <3>1, <3>3, <3>4, <3>5, <3>6
    <2> QED
      BY <1>1, <2>1, <2>2, <2>3, <2>4 DEF PagesTaken
  <1>5. CASE Send
    <2>1. /\ transport' = transport /\ record' = record /\ log' = log
          /\ transport.state = "open" /\ server.phase = "sending"
      BY <1>5 DEF Send, jobVars, Streaming
    <2>2. /\ server.batch \in Seq(Nat) /\ server.batch # << >>
          /\ Head(server.batch) = server.after + 1
      BY <1>0, <1>5 DEF Send, Streaming, Continuous, Server
    <2>3. server'.after = Head(server.batch) /\ server'.batch = Tail(server.batch)
      BY <1>5 DEF Send
    <2>4. Len(server'.batch) = Len(server.batch) - 1 /\ Len(server.batch) \in Nat
      BY <2>2, <2>3
    <2>5. server'.after + Len(server'.batch) = server.after + Len(server.batch)
      BY <1>0, <2>2, <2>3, <2>4
    <2> QED
      BY <1>0, <1>1, <2>1, <2>5 DEF PagesTaken
  <1>6. CASE Check
    <2>1. /\ transport' = transport /\ record' = record /\ log' = log
          /\ server.phase = "checking"
          /\ server'.after = server.after /\ server'.batch = server.batch
      BY <1>0, <1>6 DEF Check, jobVars, Server
    <2> QED
      BY <1>0, <1>1, <2>1 DEF PagesTaken
  <1>7. CASE /\ Receive
             /\ wire' = Tail(wire) /\ UNCHANGED <<server, transport>>
             /\ record'.cursor = record.cursor + 1
    <2>1. log' = log /\ status' = status
      BY <1>7 DEF Receive, jobVars
    <2>2. ASSUME transport.state \in {"connecting", "open"}, transport.attempts > 0
          PROVE  record.cursor + 1 >= Page * (transport.attempts - 1)
      <3>1. transport.attempts - 1 \in Nat /\ Page * (transport.attempts - 1) \in Nat
        BY <1>0, <2>2 DEF Transport
      <3> QED
        BY <1>0, <1>1, <2>2, <3>1
    <2> QED
      BY <1>0, <1>1, <1>7, <2>1, <2>2 DEF PagesTaken
  <1>8. ASSUME Stop
        PROVE  PagesTaken'
    BY <1>0, <1>8 DEF Stop, PagesTaken, Transport
  <1>9. CASE SendMessage \/ SendAnswer
    BY <1>9 DEF SendMessage, SendAnswer, Subscribe, Disconnect, PagesTaken, NoServer
  <1>10. CASE StreamEnds /\ record.ui \notin Settled
    <2>1. /\ status \in Finished
          /\ record.cursor >= Page * transport.attempts
          /\ record.cursor < Len(log)
      BY <1>0, <1>10, EndedTooEarly
    <2>2. /\ status' = status /\ log' = log /\ record' = record
          /\ Retry /\ server'.phase = "none"
      BY <1>10 DEF StreamEnds, jobVars, Retry, Disconnect, NoServer
    <2>3. transport.attempts \in Nat
      BY <1>0 DEF Transport
    <2>4. CASE transport.attempts >= MaxReconnects
      <3>1. transport'.state = "failed"
        BY <1>0, <2>2, <2>4 DEF Retry, Transport
      <3>2. Page * transport.attempts >= Page * MaxReconnects
            /\ Page * transport.attempts \in Nat /\ Page * MaxReconnects \in Nat
        BY <1>0, <2>3, <2>4, MorePages
      <3>3. Len(log) > Page * MaxReconnects
        BY <1>0, <2>1, <3>2
      <3> QED
        BY <2>2, <3>1, <3>3 DEF PagesTaken
    <2>5. CASE ~(transport.attempts >= MaxReconnects)
      <3>1. transport'.state = "connecting" /\ transport'.attempts = transport.attempts + 1
        BY <2>2, <2>5 DEF Retry
      <3>2. transport'.attempts - 1 = transport.attempts
        BY <2>3, <3>1
      <3> QED
        BY <2>1, <2>2, <3>1, <3>2 DEF PagesTaken
    <2> QED
      BY <2>4, <2>5
  <1>11. CASE StreamEnds /\ record.ui \in Settled
    BY <1>8, <1>11 DEF StreamEnds
  <1>12. CASE CancelReply \/ (Receive /\ Stop)
    BY <1>8, <1>12 DEF CancelReply
  <1>13. CASE Receive
    <2>1. \/ Stop
          \/ wire' = Tail(wire) /\ UNCHANGED <<server, transport>>
      BY <1>13 DEF Receive
    <2> QED
      BY <1>7, <1>8, <1>13, <2>1, ReceiveMoves
  <1> QED
    BY <1>0, <1>2, <1>3, <1>4, <1>5, <1>6, <1>9, <1>10, <1>11, <1>12, <1>13
       DEF Next, Aside

-----------------------------------------------------------------------------
(* The theorems *)

(* The invariant holds at first.                                           *)
LEMMA InitInv ==
  ASSUME Init
  PROVE  StreamInv
PROOF
  <1>1. StreamTypeOK
    BY InitTypes
  <1>2. LogTellsEnd /\ Streaming /\ RecordTellsEnd
    BY DEF Init, ContractInit, LogTellsEnd, Streaming, Continuous, RecordTellsEnd,
           NoServer, Finished, UiDone
  <1>3. ShownEndIsReal /\ OneTab /\ EndedForCause /\ PagesTaken
    BY DEF Init, ContractInit, ShownEndIsReal, OneTab, EndedForCause, PagesTaken,
           NoServer, UiDone
  <1> QED
    BY <1>1, <1>2, <1>3 DEF StreamInv

(* Every step keeps it.                                                    *)
LEMMA NextInv ==
  ASSUME StreamInv, [Next]_vars
  PROVE  StreamInv'
PROOF
  <1> USE DEF StreamInv
  <1>1. StreamTypeOK'
    BY TypesStep
  <1>2. LogTellsEnd'
    BY JobMoves DEF StreamTypeOK
  <1>3. Streaming'
    BY StreamingStep
  <1>4. RecordTellsEnd' /\ ShownEndIsReal'
    BY RecordStep
  <1>5. OneTab'
    BY OneTabStep
  <1>6. EndedForCause'
    BY EndedStep
  <1>7. PagesTaken'
    BY PagesStep
  <1> QED
    BY <1>1, <1>2, <1>3, <1>4, <1>5, <1>6, <1>7

(* It holds in every state a client and its server can come to.            *)
LEMMA StreamInvariant == Spec => []StreamInv
PROOF
  <1>1. Init => StreamInv
    BY InitInv
  <1>2. StreamInv /\ [Next]_vars => StreamInv'
    BY NextInv
  <1> QED
    BY <1>1, <1>2, PTL DEF Spec

(* The client, the server and the wire keep their types.                   *)
THEOREM StreamTypes == Spec => []StreamTypeOK
PROOF
  <1>1. StreamInv => StreamTypeOK
    BY DEF StreamInv
  <1> QED
    BY <1>1, StreamInvariant, PTL

(* What the client shows as the end of the job is how it ended, however    *)
(* its stream, its cancellation and the job's own end race.                *)
THEOREM ShownEndsAreReal == Spec => []ShownEndIsReal
PROOF
  <1>1. StreamInv => ShownEndIsReal
    BY DEF StreamInv
  <1> QED
    BY <1>1, StreamInvariant, PTL

(* As long as no other tab acts, the question a user is asked to answer is *)
(* the one the job waits on, or the job was canceled.                      *)
THEOREM ShownQuestionsAreOpen == Spec => []NoStaleQuestion
PROOF
  <1>1. StreamInv => NoStaleQuestion
    <2> SUFFICES ASSUME StreamInv, record.ui = "waiting_input", others = 0
                 PROVE  \/ status = "waiting_input" /\ ShownQuestion = question
                        \/ status = "canceled"
      BY DEF NoStaleQuestion
    <2>1. status = "canceled" \/ QuestionIsOpen(record.cursor)
      BY DEF StreamInv, RecordTellsEnd, OneTab
    <2> QED
      BY <2>1 DEF QuestionIsOpen, ShownQuestion, Question
  <1> QED
    BY <1>1, StreamInvariant, PTL

(* A client whose connections never fail gives up only on a log longer     *)
(* than the pages its reconnections can fetch.                             *)
THEOREM GivingUpNeedsALongLog == Spec => []ErrorNeedsLongLog
PROOF
  <1>1. StreamInv => ErrorNeedsLongLog
    BY DEF StreamInv, PagesTaken, ErrorNeedsLongLog
  <1> QED
    BY <1>1, StreamInvariant, PTL

(* The client takes every event once and in the order of the log.          *)
THEOREM EventsAreTakenInOrder == Spec => NoEventSkipped
PROOF
  <1>1. StreamInv /\ [Next]_vars
          => [record'.cursor \in {record.cursor, record.cursor + 1}]_vars
    <2> SUFFICES ASSUME StreamInv, [Next]_vars
                 PROVE  record'.cursor \in {record.cursor, record.cursor + 1}
      OBVIOUS
    <2>1. StreamTypeOK /\ Streaming
      BY DEF StreamInv
    <2>2. CASE Aside
      BY <2>1, <2>2, AsideStays
    <2>3. CASE Connect \/ Read \/ Send \/ Check
      BY <2>3 DEF Connect, Read, Send, Check
    <2> QED
      BY <2>1, <2>2, <2>3, StreamMoves DEF Cuts
  <1> QED
    BY <1>1, StreamInvariant, PTL DEF Spec, NoEventSkipped
=============================================================================
