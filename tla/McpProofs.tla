------------------------------ MODULE McpProofs ------------------------------
(***************************************************************************)
(* Theorems about McpCalls and the client pool below it, for any callers,  *)
(* clients, retries and semaphores, and whatever breaks or is late.        *)
(***************************************************************************)
EXTENDS McpCalls, FiniteSetTheorems, TLAPS

-----------------------------------------------------------------------------
(* The pool: a client counts its calls, and one that is stopped has none   *)
(* and was closed to new ones before.                                      *)

CallsOn(k) == {c \in Callers : call[c].phase = "calling" /\ call[c].on = k}

Counted(k) == /\ IsFiniteSet(CallsOn(k)) /\ client[k].inflight = Cardinality(CallsOn(k))
              /\ client[k].stopped => client[k].draining /\ client[k].inflight = 0

CallInv(c) ==
    /\ call[c].phase \in {"calling", "locking", "draining", "creating"} => call[c].on \in DOMAIN client
    /\ call[c].phase \in {"locking", "draining", "creating"} => call[c].broken \in DOMAIN client
    /\ call[c].phase \in {"draining", "creating"} => client[call[c].broken].draining

PoolInv ==
    /\ PoolTypeOK
    /\ \A m \in Members : client[current[m]].member = m
    /\ \A k \in DOMAIN client : Counted(k)
    /\ \A c \in Callers : CallInv(c)

-----------------------------------------------------------------------------
(* The service: an attempt is admitted under its handle, and what it knows *)
(* it holds, it holds as long as it is admitted.                           *)

ReqInv(q) ==
    /\ Admitted(q) => handle[q[1]] = q[2]
    /\ req[q].stage > 0 => Admitted(q)
    /\ req[q].at = "answered" => req[q].answer \in Answers

(* An attempt that is still to be made has left no trace.                  *)
Untried(i, n) == \A m \in n .. MaxRetries : req[<<i, m>>].at = "none"
ExecInv(i) ==
    /\ exec[i].at = "check" => Untried(i, exec[i].ordinal)
    /\ exec[i].at \in {"call", "confirmed"} => Untried(i, exec[i].ordinal + 1)
    /\ exec[i].at = "call" /\ call[i].phase = "waiting" => Untried(i, exec[i].ordinal)

Holders(s) == {q \in Requests : HeldBy(q, s)}
Ledger == (\A s \in Semaphores : IsFiniteSet(Holders(s))) /\ CapacityKept

Ended == {"canceled", "finished"}
ServiceTypes ==
    /\ req \in [Requests -> Request]
    /\ handle \in [Invocations -> 0 .. MaxRetries \cup {None}]
    /\ terminal \in Seq(Invocations \X Ended)
    /\ free \in [Semaphores -> Nat] /\ lostPermits \in [Semaphores -> Nat]
CancelTypes ==
    cancelSet \subseteq Invocations /\ cancelReq \in [Invocations -> CancelState] /\ faults \in Nat
WorkerTypes == leased \in BOOLEAN /\ revoked \in BOOLEAN /\ exec \in [Invocations -> Exec]

Attempts == \A q \in Requests : ReqInv(q)
ServiceInv == ServiceTypes /\ CancelTypes /\ Attempts
WorkerInv == WorkerTypes /\ \A i \in Invocations : ExecInv(i)

CInv == PoolInv /\ WorkerInv /\ ServiceInv /\ Ledger /\ CanceledStaysCanceled

-----------------------------------------------------------------------------
(* Types of the pool *)

(* A caller that is idle, waits or is over has its type.                   *)
LEMMA IdleTyped ==
    /\ Idle \in Call
    /\ \A lane \in Lanes : Waiting(lane) \in Call /\ Waiting(lane).phase = "waiting"
    /\ \A outcome \in {"none", "reply", "exhausted", "transport", "raised"} :
          [Idle EXCEPT !.phase = "over", !.outcome = outcome] \in Call
  BY DEF Idle, Waiting, Call, CallPhase, Lanes

(* A new client has its type.                                              *)
LEMMA NewTyped == \A m \in Members, g \in Nat : NewClient(m, g) \in Client
  BY DEF NewClient, Client

(* A client whose count changes stays what it was otherwise.               *)
LEMMA CountTyped ==
    ASSUME NEW z \in Client
    PROVE  /\ z.inflight \in Nat /\ z.inflight + 1 \in Nat
           /\ \A n \in Nat : LET x == [z EXCEPT !.inflight = n]
                             IN  /\ x \in Client /\ x.inflight = n /\ x.member = z.member
                                 /\ x.draining = z.draining /\ x.stopped = z.stopped
  <1>1. z.inflight \in Nat
    BY DEF Client
  <1> QED BY <1>1 DEF Client

(* What a step does to the clients there are: none goes, changes its       *)
(* member or is opened to calls again, and one is stopped only after that. *)
ClientsKept ==
    /\ client' \in Seq(Client) /\ DOMAIN client \subseteq DOMAIN client'
    /\ \A k \in DOMAIN client :
          /\ client'[k].member = client[k].member
          /\ client[k].draining => client'[k].draining
          /\ client'[k].stopped => client'[k].draining /\ client'[k].inflight = 0

Moves(c, y) == call' = [call EXCEPT ![c] = y]

(* What is said of the other callers stays true.                           *)
LEMMA OthersKept ==
    ASSUME PoolInv, ClientsKept, NEW c \in Callers, NEW y \in Call, Moves(c, y)
    PROVE  /\ call' \in [Callers -> Call]
           /\ call'[c] = y
           /\ \A d \in Callers \ {c} : CallInv(d)'
  <1>1. call' \in [Callers -> Call] /\ call'[c] = y /\ \A d \in Callers \ {c} : call'[d] = call[d]
    BY DEF PoolInv, PoolTypeOK, Moves
  <1> QED BY <1>1 DEF PoolInv, ClientsKept, CallInv

(* A caller that makes no call, before or after, is not counted.           *)
LEMMA CountsKept ==
    ASSUME PoolInv, ClientsKept, NEW c \in Callers, NEW y \in Call, Moves(c, y),
           call[c].phase # "calling", y.phase # "calling",
           \A k \in DOMAIN client : client'[k].inflight = client[k].inflight
    PROVE  \A k \in DOMAIN client : Counted(k)'
  <1>1. SUFFICES ASSUME NEW k \in DOMAIN client PROVE Counted(k)'
    OBVIOUS
  <1>2. CallsOn(k)' = CallsOn(k)
    BY DEF CallsOn, Moves, PoolInv, PoolTypeOK
  <1> QED BY <1>2 DEF PoolInv, Counted, ClientsKept

(* A caller whose call ends is counted no more.                            *)
LEMMA CountsReleased ==
    ASSUME PoolInv, ClientsKept, NEW c \in Callers, NEW y \in Call, Moves(c, y),
           call[c].phase = "calling", y.phase # "calling",
           \A k \in DOMAIN client :
              client'[k].inflight = IF k = call[c].on THEN client[k].inflight - 1
                                    ELSE client[k].inflight
    PROVE  \A k \in DOMAIN client : Counted(k)'
  <1>1. SUFFICES ASSUME NEW k \in DOMAIN client PROVE Counted(k)'
    OBVIOUS
  <1>2. CASE k = call[c].on
    <2>1. c \in CallsOn(k) /\ CallsOn(k)' = CallsOn(k) \ {c}
      BY <1>2 DEF CallsOn, Moves, PoolInv, PoolTypeOK
    <2> QED BY <1>2, <2>1, FS_RemoveElement DEF PoolInv, Counted, ClientsKept
  <1>3. CASE k # call[c].on
    <2>1. CallsOn(k)' = CallsOn(k)
      BY <1>3 DEF CallsOn, Moves, PoolInv, PoolTypeOK
    <2> QED BY <1>3, <2>1 DEF PoolInv, Counted, ClientsKept
  <1> QED BY <1>2, <1>3

(* A call that ends leaves its client with its other calls.                *)
LEMMA ReleasedClients ==
    ASSUME PoolInv, NEW c \in Callers, call[c].phase = "calling"
    PROVE  /\ Released(c) \in Seq(Client) /\ DOMAIN Released(c) = DOMAIN client
           /\ call[c].on \in DOMAIN client /\ ~client[call[c].on].stopped
           /\ \A k \in DOMAIN client :
                 /\ Released(c)[k].member = client[k].member
                 /\ Released(c)[k].draining = client[k].draining
                 /\ Released(c)[k].stopped = client[k].stopped
                 /\ Released(c)[k].inflight = IF k = call[c].on THEN client[k].inflight - 1
                                              ELSE client[k].inflight
  <1> DEFINE k == call[c].on
  <1>1. k \in DOMAIN client /\ client[k] \in Client
    BY DEF PoolInv, PoolTypeOK, CallInv
  <1>2. c \in CallsOn(k) /\ IsFiniteSet(CallsOn(k)) /\ client[k].inflight = Cardinality(CallsOn(k))
    BY <1>1 DEF CallsOn, PoolInv, Counted
  <1>3. client[k].inflight \in Nat /\ client[k].inflight # 0
    BY <1>1, <1>2, FS_EmptySet DEF Client
  <1> DEFINE x == [client[k] EXCEPT !.inflight = @ - 1]
  <1>4. /\ x \in Client /\ x.inflight = client[k].inflight - 1
        /\ x.member = client[k].member /\ x.draining = client[k].draining
        /\ x.stopped = client[k].stopped
    BY <1>1, <1>3 DEF Client
  <1>5. client \in Seq(Client)
    BY DEF PoolInv, PoolTypeOK
  <1>6. Released(c) = [client EXCEPT ![k] = x]
    BY DEF Released
  <1>7. ~client[k].stopped
    BY <1>1, <1>3 DEF PoolInv, Counted
  <1> HIDE DEF x
  <1> QED BY <1>1, <1>4, <1>5, <1>6, <1>7

(* A client that is locked is closed to new calls.                         *)
LEMMA LockedClients ==
    ASSUME NEW cl \in Seq(Client), NEW k \in DOMAIN cl, NEW c \in Callers
    PROVE  /\ Locked(cl, c, k) \in Seq(Client) /\ DOMAIN Locked(cl, c, k) = DOMAIN cl
           /\ \A j \in DOMAIN cl :
                 /\ Locked(cl, c, k)[j].member = cl[j].member
                 /\ Locked(cl, c, k)[j].inflight = cl[j].inflight
                 /\ Locked(cl, c, k)[j].stopped = cl[j].stopped
                 /\ Locked(cl, c, k)[j].draining <=> j = k \/ cl[j].draining
  <1>1. cl[k] \in Client
    OBVIOUS
  <1> DEFINE x == [cl[k] EXCEPT !.lock = c, !.healthy = FALSE, !.draining = TRUE]
  <1>2. x \in Client /\ x.member = cl[k].member /\ x.inflight = cl[k].inflight
        /\ x.stopped = cl[k].stopped /\ x.draining = TRUE
    BY <1>1 DEF Client
  <1>3. Locked(cl, c, k) = [cl EXCEPT ![k] = x]
    BY DEF Locked
  <1> HIDE DEF x
  <1> QED BY <1>2, <1>3

(* The invariant of the pool, once its parts are there.                    *)
LEMMA PoolKept ==
    ASSUME PoolInv, ClientsKept, NEW c \in Callers, NEW y \in Call, Moves(c, y),
           UNCHANGED current, DOMAIN client' = DOMAIN client,
           \A k \in DOMAIN client : Counted(k)', CallInv(c)'
    PROVE  PoolInv'
  <1>1. PoolTypeOK'
    BY OthersKept DEF PoolInv, PoolTypeOK, ClientsKept
  <1>2. \A m \in Members : client'[current'[m]].member = m
    BY DEF PoolInv, PoolTypeOK, ClientsKept
  <1>3. \A d \in Callers : CallInv(d)'
    BY OthersKept
  <1> QED BY <1>1, <1>2, <1>3 DEF PoolInv

(* A step in which no client changes.                                      *)
LEMMA SameClients == PoolInv /\ UNCHANGED client => ClientsKept
  BY DEF PoolInv, PoolTypeOK, ClientsKept, Counted

-----------------------------------------------------------------------------
(* The steps of the pool *)

(* A call that starts, gives up waiting or has returned.                   *)
LEMMA WaitingSteps ==
    ASSUME PoolInv, NEW c \in Callers, NEW y \in Call, Moves(c, y), UNCHANGED <<client, current>>,
           call[c].phase # "calling", y.phase \in {"idle", "waiting", "over"}
    PROVE  PoolInv'
  <1>1. ClientsKept
    BY SameClients
  <1>2. \A k \in DOMAIN client : Counted(k)'
    BY <1>1, CountsKept
  <1>3. CallInv(c)'
    BY <1>1, OthersKept DEF CallInv
  <1> QED BY <1>1, <1>2, <1>3, PoolKept

(* A place is taken on a client that lets new calls in.                    *)
LEMMA AcquireKeeps ==
    ASSUME PoolInv, NEW c \in Callers, Acquire(c)
    PROVE  /\ PoolInv'
           /\ Moves(c, call'[c]) /\ call'[c] \in Call /\ call'[c].phase = "calling"
  <1>1. PICK k \in DOMAIN client :
          /\ client' = [client EXCEPT ![k].inflight = @ + 1] /\ ~client[k].draining
          /\ call' = [call EXCEPT ![c].phase = "calling", ![c].on = k]
    BY DEF Acquire, MayServe
  <1> DEFINE x == [client[k] EXCEPT !.inflight = @ + 1]
             y == [call[c] EXCEPT !.phase = "calling", !.on = k]
  <1>2. client \in Seq(Client) /\ client[k] \in Client /\ k \in Nat /\ call[c] \in Call
        /\ call \in [Callers -> Call] /\ call[c].phase = "waiting" /\ UNCHANGED current
    BY DEF PoolInv, PoolTypeOK, Acquire
  <1>3. /\ x \in Client /\ x.inflight = client[k].inflight + 1 /\ x.member = client[k].member
        /\ x.draining = client[k].draining /\ x.stopped = client[k].stopped
    BY <1>2, CountTyped
  <1>4. y \in Call /\ y.phase = "calling" /\ y.on = k
    BY <1>2 DEF Call, CallPhase
  <1>5. client' = [client EXCEPT ![k] = x] /\ Moves(c, y)
    BY <1>1 DEF Moves
  <1> HIDE DEF x, y
  <1>6. ClientsKept /\ DOMAIN client' = DOMAIN client
    <2>1. ~x.stopped
      BY <1>1, <1>3 DEF PoolInv, Counted
    <2> QED BY <1>2, <1>3, <1>5, <2>1 DEF PoolInv, Counted, ClientsKept
  <1>7. ASSUME NEW j \in DOMAIN client PROVE Counted(j)'
    <2>1. CASE j = k
      <3>1. c \notin CallsOn(k) /\ CallsOn(k)' = CallsOn(k) \cup {c}
        BY <1>2, <1>4, <1>5 DEF CallsOn, Moves
      <3> QED BY <1>2, <1>3, <1>5, <1>6, <2>1, <3>1, FS_AddElement DEF PoolInv, Counted, ClientsKept
    <2>2. CASE j # k
      <3>1. CallsOn(j)' = CallsOn(j)
        BY <1>2, <1>4, <1>5, <2>2 DEF CallsOn, Moves
      <3> QED BY <1>2, <1>5, <1>6, <2>2, <3>1 DEF PoolInv, Counted, ClientsKept
    <2> QED BY <2>1, <2>2
  <1>8. CallInv(c)' /\ call'[c] = y
    BY <1>4, <1>5, <1>6, OthersKept DEF CallInv
  <1> QED BY <1>2, <1>4, <1>5, <1>6, <1>7, <1>8, PoolKept

(* A call that ends, however, gives its place back.                        *)
LEMMA ReleaseKeeps ==
    ASSUME PoolInv, NEW c \in Callers, NEW y \in Call, Moves(c, y), call[c].phase = "calling",
           client' = Released(c), UNCHANGED current, y.phase \in {"idle", "waiting", "over"}
    PROVE  PoolInv'
  <1>1. ClientsKept /\ DOMAIN client' = DOMAIN client
    BY ReleasedClients DEF ClientsKept, PoolInv, Counted
  <1>2. \A k \in DOMAIN client : Counted(k)'
    BY <1>1, CountsReleased, ReleasedClients
  <1>3. CallInv(c)'
    BY <1>1, OthersKept DEF CallInv
  <1> QED BY <1>1, <1>2, <1>3, PoolKept

(* A client changes in other fields than its count.                        *)
Altered(k, x) ==
    /\ client' = [client EXCEPT ![k] = x] /\ x \in Client
    /\ x.member = client[k].member /\ x.inflight = client[k].inflight
    /\ client[k].draining => x.draining
    /\ x.stopped => x.draining /\ x.inflight = 0

(* A repair that changes the client it repairs keeps the invariant.        *)
LEMMA RepairStep ==
    ASSUME PoolInv, NEW c \in Callers, NEW y \in Call, Moves(c, y),
           NEW k \in DOMAIN client, NEW x, Altered(k, x), UNCHANGED current,
           call[c].phase # "calling", y.phase \in {"idle", "waiting", "over", "draining", "creating"},
           y.phase \in {"draining", "creating"} => y.on \in DOMAIN client /\ y.broken = k /\ x.draining
    PROVE  PoolInv'
  <1>1. client \in Seq(Client)
    BY DEF PoolInv, PoolTypeOK
  <1>2. ClientsKept /\ DOMAIN client' = DOMAIN client /\ client'[k] = x
    BY <1>1 DEF Altered, ClientsKept, PoolInv, Counted
  <1>3. \A j \in DOMAIN client : client'[j].inflight = client[j].inflight
    BY <1>1 DEF Altered
  <1>4. \A j \in DOMAIN client : Counted(j)'
    BY <1>2, <1>3, CountsKept
  <1>5. CallInv(c)'
    BY <1>2, OthersKept DEF CallInv
  <1> QED BY <1>2, <1>4, <1>5, PoolKept

(* The lock is given back.                                                 *)
LEMMA UnlockAlters ==
    ASSUME PoolInv, NEW k \in DOMAIN client, client' = [client EXCEPT ![k].lock = None]
    PROVE  Altered(k, [client[k] EXCEPT !.lock = None])
  <1>1. client[k] \in Client /\ (client[k].stopped => client[k].draining /\ client[k].inflight = 0)
    BY DEF PoolInv, PoolTypeOK, Counted
  <1> QED BY <1>1 DEF Altered, Client

(* A caller that gives up gives back what it holds.                        *)
LEMMA AbandonKeeps ==
    ASSUME PoolInv, NEW c \in Callers, NEW y \in Call, AbandonCall(c, y),
           y.phase \in {"idle", "waiting"}
    PROVE  PoolInv' /\ Moves(c, y)
  <1>1. Moves(c, y) /\ UNCHANGED current
    BY DEF AbandonCall, Moves
  <1>2. CASE call[c].phase \in {"waiting", "locking", "over"} /\ UNCHANGED client
    BY <1>1, <1>2, WaitingSteps
  <1>3. CASE call[c].phase = "calling" /\ client' = Released(c)
    BY <1>1, <1>3, ReleaseKeeps
  <1>4. CASE call[c].phase \in {"draining", "creating"}
             /\ client' = [client EXCEPT ![call[c].broken].lock = None]
    <2>1. call[c].broken \in DOMAIN client
      BY <1>4 DEF PoolInv, CallInv
    <2>2. Altered(call[c].broken, [client[call[c].broken] EXCEPT !.lock = None])
      BY <1>4, <2>1, UnlockAlters
    <2>3. PoolInv'
      BY <1>1, <1>4, <2>1, <2>2, RepairStep
    <2> QED BY <1>1, <2>3
  <1> QED BY <1>1, <1>2, <1>3, <1>4 DEF AbandonCall

(* A handshake that fails leaves the closed client.                        *)
LEMMA CreateFailsKeeps ==
    ASSUME PoolInv, NEW c \in Callers, CreateFails(c)
    PROVE  PoolInv' /\ Moves(c, call'[c]) /\ call'[c] \in Call /\ call'[c].phase = "over"
  <1>1. PICK outcome \in {"transport", "raised"} : CallOver(c, outcome)
    BY DEF CreateFails
  <1> DEFINE y == [Idle EXCEPT !.phase = "over", !.outcome = outcome]
  <1>2. Moves(c, y) /\ y \in Call /\ y.phase = "over"
    BY <1>1, IdleTyped DEF Moves, CallOver, Idle
  <1>3. call[c].broken \in DOMAIN client /\ call[c].phase = "creating"
    BY DEF PoolInv, CallInv, CreateFails
  <1> HIDE DEF y
  <1>4. PoolInv'
    BY <1>2, <1>3, UnlockAlters, RepairStep DEF CreateFails
  <1> QED BY <1>2, <1>4 DEF Moves, PoolInv, PoolTypeOK

(* A place is given back, and the client the member has by now is locked   *)
(* at once or waited for.                                                  *)
LEMMA CallFailsKeeps ==
    ASSUME PoolInv, NEW c \in Callers, CallFails(c)
    PROVE  /\ PoolInv'
           /\ \E y \in Call : Moves(c, y) /\ y.phase \in {"over", "draining", "locking"}
  <1> DEFINE k == current[client[call[c].on].member]
             y1 == [Idle EXCEPT !.phase = "over", !.outcome = "transport"]
             y2 == [call[c] EXCEPT !.phase = "draining", !.broken = k]
             y3 == [call[c] EXCEPT !.phase = "locking", !.broken = k]
  <1>1. /\ call[c].phase = "calling" /\ call[c].on \in DOMAIN client /\ call[c] \in Call
        /\ call \in [Callers -> Call] /\ UNCHANGED current
    BY DEF CallFails, PoolInv, PoolTypeOK, CallInv
  <1>2. k \in DOMAIN client /\ k \in Nat
    <2>1. client[call[c].on] \in Client
      BY <1>1 DEF PoolInv, PoolTypeOK
    <2>2. client[call[c].on].member \in Members
      BY <2>1 DEF Client
    <2>3. k \in DOMAIN client
      BY <2>2 DEF PoolInv, PoolTypeOK
    <2>4. client \in Seq(Client)
      BY DEF PoolInv, PoolTypeOK
    <2> HIDE DEF k
    <2> QED BY <2>3, <2>4
  <1>3. /\ y1 \in Call /\ y1.phase = "over"
        /\ y2 \in Call /\ y2.phase = "draining" /\ y2.broken = k /\ y2.on = call[c].on
        /\ y3 \in Call /\ y3.phase = "locking" /\ y3.broken = k /\ y3.on = call[c].on
    <2>1. y1 \in Call /\ y1.phase = "over"
      BY IdleTyped DEF Idle
    <2> HIDE DEF k, y1
    <2> QED BY <1>1, <1>2, <2>1 DEF Call, CallPhase
  <1>4. \/ client' = Released(c) /\ Moves(c, y1)
        \/ client' = Locked(Released(c), c, k) /\ Moves(c, y2)
        \/ client' = Released(c) /\ Moves(c, y3)
    BY DEF CallFails, TakesLock, CallOver, Moves
  <1> HIDE DEF k, y1, y2, y3
  <1>5. CASE client' = Released(c) /\ Moves(c, y1)
    BY <1>1, <1>3, <1>5, ReleaseKeeps
  <1>6. CASE client' = Locked(Released(c), c, k) /\ Moves(c, y2)
    <2> DEFINE cl == Released(c)
    <2>0. /\ cl \in Seq(Client) /\ DOMAIN cl = DOMAIN client
          /\ \A j \in DOMAIN client :
                /\ cl[j].member = client[j].member /\ cl[j].stopped = client[j].stopped
                /\ cl[j].draining = client[j].draining
                /\ cl[j].stopped => cl[j].inflight = 0
      BY <1>1, ReleasedClients DEF PoolInv, Counted
    <2> HIDE DEF cl
    <2>1. /\ client' \in Seq(Client) /\ DOMAIN client' = DOMAIN client /\ client'[k].draining
          /\ \A j \in DOMAIN client :
                /\ client'[j].member = client[j].member
                /\ client'[j].inflight = cl[j].inflight
                /\ client'[j].stopped = client[j].stopped
                /\ client[j].draining => client'[j].draining
      <3>1. client' = Locked(cl, c, k)
        BY <1>6 DEF cl
      <3>2. /\ client' \in Seq(Client) /\ DOMAIN client' = DOMAIN cl
            /\ \A j \in DOMAIN cl :
                  /\ client'[j].member = cl[j].member /\ client'[j].inflight = cl[j].inflight
                  /\ client'[j].stopped = cl[j].stopped
                  /\ client'[j].draining <=> j = k \/ cl[j].draining
        <4>1. cl \in Seq(Client) /\ k \in DOMAIN cl
          BY <1>2, <2>0
        <4> QED BY ONLY <3>1, <4>1, LockedClients, c \in Callers
      <3> QED BY <1>2, <2>0, <3>2
    <2>2. ClientsKept
      BY <2>0, <2>1 DEF ClientsKept, PoolInv, Counted
    <2>3. \A j \in DOMAIN client : Counted(j)'
      BY <1>1, <1>3, <1>6, <2>1, <2>2, ReleasedClients, CountsReleased DEF cl
    <2>4. CallInv(c)'
      BY <1>1, <1>2, <1>3, <1>6, <2>1, <2>2, OthersKept DEF CallInv
    <2> QED BY <1>1, <1>3, <1>6, <2>1, <2>2, <2>3, <2>4, PoolKept
  <1>7. CASE client' = Released(c) /\ Moves(c, y3)
    <2>1. ClientsKept /\ DOMAIN client' = DOMAIN client
      BY <1>1, <1>7, ReleasedClients DEF ClientsKept, PoolInv, Counted
    <2>2. \A j \in DOMAIN client : Counted(j)'
      BY <1>1, <1>3, <1>7, <2>1, ReleasedClients, CountsReleased
    <2>3. CallInv(c)'
      BY <1>1, <1>2, <1>3, <1>7, <2>1, OthersKept DEF CallInv
    <2> QED BY <1>1, <1>3, <1>7, <2>1, <2>2, <2>3, PoolKept
  <1> QED BY <1>3, <1>4, <1>5, <1>6, <1>7

(* The lock is there: the client is closed, or has been replaced.          *)
LEMMA GetsLockKeeps ==
    ASSUME PoolInv, NEW c \in Callers, GetsLock(c)
    PROVE  /\ PoolInv'
           /\ \E y \in Call : Moves(c, y) /\ y.phase \in {"over", "draining"}
  <1> DEFINE k == call[c].broken
             y1 == [Idle EXCEPT !.phase = "over", !.outcome = "transport"]
             y2 == [call[c] EXCEPT !.phase = "draining", !.broken = k]
             x == [client[k] EXCEPT !.lock = c, !.healthy = FALSE, !.draining = TRUE]
  <1>1. /\ call[c].phase = "locking" /\ call[c].on \in DOMAIN client /\ call[c] \in Call
        /\ k \in DOMAIN client /\ client[k] \in Client /\ UNCHANGED current
        /\ (client[k].stopped => client[k].inflight = 0)
    BY DEF GetsLock, PoolInv, PoolTypeOK, CallInv, Counted
  <1>2. y1 \in Call /\ y1.phase = "over"
    BY IdleTyped DEF Idle
  <1>3. y2 \in Call /\ y2.phase = "draining" /\ y2.broken = k /\ y2.on = call[c].on
    BY <1>1 DEF Call, CallPhase
  <1>4. \/ UNCHANGED client /\ Moves(c, y1)
        \/ client' = [client EXCEPT ![k] = x] /\ Moves(c, y2)
    BY DEF GetsLock, TakesLock, CallOver, Moves, Locked
  <1>5. client' = [client EXCEPT ![k] = x] => Altered(k, x) /\ x.draining
    BY <1>1 DEF Altered, Client
  <1> HIDE DEF k, y1, y2, x
  <1>6. CASE UNCHANGED client /\ Moves(c, y1)
    BY <1>1, <1>2, <1>6, WaitingSteps
  <1>7. CASE client' = [client EXCEPT ![k] = x] /\ Moves(c, y2)
    <2>1. Altered(k, x) /\ x.draining
      BY <1>5, <1>7
    <2> QED BY <1>1, <1>3, <1>7, <2>1, RepairStep
  <1> QED BY <1>2, <1>3, <1>4, <1>6, <1>7

(* A client is closed when its last call has ended.                        *)
LEMMA StopKeeps ==
    ASSUME PoolInv, NEW c \in Callers, StopClient(c)
    PROVE  /\ PoolInv'
           /\ \E y \in Call : Moves(c, y) /\ y.phase = "creating"
  <1> DEFINE k == call[c].broken
             y == [call[c] EXCEPT !.phase = "creating"]
             x == [client[k] EXCEPT !.stopped = TRUE]
  <1>1. /\ call[c].phase = "draining" /\ call[c].on \in DOMAIN client /\ call[c] \in Call
        /\ k \in DOMAIN client /\ client[k] \in Client /\ client[k].draining /\ UNCHANGED current
    BY DEF StopClient, PoolInv, PoolTypeOK, CallInv
  <1>2. y \in Call /\ y.phase = "creating" /\ y.broken = k /\ y.on = call[c].on
    BY <1>1 DEF Call, CallPhase
  <1>3. client' = [client EXCEPT ![k] = x] /\ Moves(c, y)
    BY DEF StopClient, Moves
  <1>4. /\ x \in Client /\ x.member = client[k].member /\ x.inflight = client[k].inflight
        /\ x.draining /\ x.inflight = 0
    BY <1>1 DEF Client, StopClient
  <1> HIDE DEF k, y, x
  <1>5. Altered(k, x)
    BY <1>3, <1>4 DEF Altered
  <1>6. PoolInv'
    BY <1>1, <1>2, <1>3, <1>4, <1>5, RepairStep
  <1> QED BY <1>2, <1>3, <1>6

(* The client that takes its place has no calls yet.                       *)
LEMMA CreateKeeps ==
    ASSUME PoolInv, NEW c \in Callers, CreateClient(c)
    PROVE  /\ PoolInv'
           /\ \E y \in Call : Moves(c, y) /\ y.phase = "over"
  <1> DEFINE b == call[c].broken
             m == client[b].member
             n == Len(client) + 1
             new == NewClient(m, client[b].generation + 1)
             y == [Idle EXCEPT !.phase = "over", !.outcome = "transport"]
             x == [client[b] EXCEPT !.lock = None]
  <1>1. /\ call[c].phase = "creating" /\ b \in DOMAIN client /\ client[b] \in Client
        /\ client \in Seq(Client) /\ n \in Nat /\ DOMAIN client = 1 .. n - 1
        /\ (client[b].stopped => client[b].draining /\ client[b].inflight = 0)
    BY DEF CreateClient, PoolInv, PoolTypeOK, CallInv, Counted
  <1>2. y \in Call /\ y.phase = "over"
    BY IdleTyped DEF Idle
  <1>3. /\ x \in Client /\ x.member = m /\ x.inflight = client[b].inflight
        /\ x.draining = client[b].draining /\ x.stopped = client[b].stopped
    BY <1>1 DEF Client
  <1>4. m \in Members /\ client[b].generation + 1 \in Nat
    BY <1>1 DEF Client
  <1>5. new \in Client /\ new.member = m /\ new.inflight = 0 /\ new.stopped = FALSE
    BY <1>4, NewTyped DEF NewClient
  <1>6. /\ client' = Append([client EXCEPT ![b] = x], new)
        /\ current' = [current EXCEPT ![m] = n] /\ Moves(c, y)
    BY DEF CreateClient, CallOver, Moves
  <1> HIDE DEF b, m, n, new, y, x
  <1>7. /\ client' \in Seq(Client) /\ DOMAIN client' = 1 .. n /\ client'[n] = new /\ client'[b] = x
        /\ \A k \in DOMAIN client \ {b} : client'[k] = client[k]
    <2> DEFINE cl == [client EXCEPT ![b] = x]
    <2>1. cl \in Seq(Client) /\ Len(cl) = n - 1 /\ DOMAIN cl = 1 .. n - 1
          /\ cl[b] = x /\ \A k \in DOMAIN client \ {b} : cl[k] = client[k]
      BY <1>1, <1>3
    <2>2. client' = Append(cl, new)
      BY <1>6
    <2> HIDE DEF cl
    <2> QED BY <1>1, <1>5, <2>1, <2>2
  <1>8. ClientsKept
    BY <1>1, <1>3, <1>7 DEF m, ClientsKept, PoolInv, Counted
  <1>9. \A k \in DOMAIN client' : Counted(k)'
    <2>1. \A k \in DOMAIN client : client'[k].inflight = client[k].inflight
      BY <1>3, <1>7
    <2>2. \A k \in DOMAIN client : Counted(k)'
      BY <1>1, <1>2, <1>6, <1>8, <2>1, CountsKept
    <2>3. ASSUME NEW k \in DOMAIN client', k \notin DOMAIN client PROVE Counted(k)'
      <3>1. \A d \in Callers : call'[d].phase = "calling" => call'[d].on \in DOMAIN client
        BY <1>1, <1>2, <1>6 DEF Moves, PoolInv, PoolTypeOK, CallInv
      <3>2. CallsOn(k)' = {}
        BY <2>3, <3>1 DEF CallsOn
      <3>3. k = n
        BY <1>1, <1>7, <2>3
      <3> QED BY <1>5, <1>7, <3>2, <3>3, FS_EmptySet DEF Counted
    <2> QED BY <2>2, <2>3
  <1>10. CallInv(c)'
    BY <1>2, <1>6, <1>8, OthersKept DEF CallInv
  <1>11. \A d \in Callers : CallInv(d)'
    BY <1>2, <1>6, <1>8, <1>10, OthersKept
  <1>12. /\ current' \in [Members -> DOMAIN client']
         /\ \A o \in Members : client'[current'[o]].member = o
    BY <1>1, <1>4, <1>5, <1>6, <1>7, <1>8 DEF PoolInv, PoolTypeOK, ClientsKept
  <1>13. call' \in [Callers -> Call]
    BY <1>2, <1>6 DEF Moves, PoolInv, PoolTypeOK
  <1> QED BY <1>2, <1>6, <1>8, <1>9, <1>11, <1>12, <1>13 DEF PoolInv, PoolTypeOK, ClientsKept

(* At first every member has one client, and no client has a call.         *)
LEMMA PoolStarts == PoolInit => PoolInv
  <1> SUFFICES ASSUME PoolInit PROVE PoolInv
    OBVIOUS
  <1> DEFINE n == Cardinality(Members)
             new == {NewClient(m, 0) : m \in Members}
             Serves(s) == \A m \in Members : \E k \in DOMAIN s : s[k].member = m
  <1>1. n \in Nat /\ \E f \in [1 .. n -> Members] : \A m \in Members : \E k \in 1 .. n : f[k] = m
    BY PoolAssumption, FS_CardinalityType DEF ExistsBijection, Bijection, Surjection
  <1>2. PICK f \in [1 .. n -> Members] : \A m \in Members : \E k \in 1 .. n : f[k] = m
    BY <1>1
  <1>3. /\ [k \in 1 .. n |-> NewClient(f[k], 0)] \in [1 .. n -> new]
        /\ Serves([k \in 1 .. n |-> NewClient(f[k], 0)])
    BY <1>2 DEF NewClient
  <1>4. client = CHOOSE s \in [1 .. n -> new] : Serves(s)
    BY DEF PoolInit
  <1>5. client \in [1 .. n -> new] /\ Serves(client)
    BY <1>3, <1>4
  <1>6. \A x \in new : x \in Client /\ x.inflight = 0 /\ ~x.stopped
    BY NewTyped DEF NewClient
  <1>7. client \in Seq(Client)
    BY <1>1, <1>5, <1>6
  <1>8. /\ current \in [Members -> DOMAIN client]
        /\ \A m \in Members : client[current[m]].member = m
    BY <1>5 DEF PoolInit
  <1>9. call \in [Callers -> Call] /\ \A c \in Callers : call[c].phase = "idle"
    BY IdleTyped DEF PoolInit, Idle
  <1>10. \A k \in DOMAIN client : Counted(k)
    <2>1. \A k : CallsOn(k) = {}
      BY <1>9 DEF CallsOn
    <2> QED BY <1>5, <1>6, <2>1, FS_EmptySet DEF Counted
  <1> QED BY <1>7, <1>8, <1>9, <1>10 DEF PoolInv, PoolTypeOK, CallInv

PoolStep(c) ==
    \/ Acquire(c) \/ AcquireTimesOut(c) \/ Answer(c) \/ CallFails(c) \/ Repair(c)
    \/ CreateFails(c) \/ CallReturns(c) \/ AbandonCall(c, Idle)

(* Every such step of the pool moves one caller, that does not wait then.  *)
LEMMA PoolStepKeeps ==
    ASSUME PoolInv, NEW c \in Callers, PoolStep(c)
    PROVE  PoolInv' /\ \E y \in Call : Moves(c, y) /\ y.phase # "waiting"
  <1>1. CASE Acquire(c)
    BY <1>1, AcquireKeeps
  <1>2. ASSUME NEW outcome \in {"reply", "exhausted"}, CallOver(c, outcome), UNCHANGED current,
               \/ call[c].phase = "waiting" /\ UNCHANGED client
               \/ call[c].phase = "calling" /\ client' = Released(c)
        PROVE  PoolInv' /\ \E y \in Call : Moves(c, y) /\ y.phase = "over"
    <2> DEFINE y == [Idle EXCEPT !.phase = "over", !.outcome = outcome]
    <2>1. Moves(c, y) /\ y \in Call /\ y.phase = "over"
      BY <1>2, IdleTyped DEF Moves, CallOver, Idle
    <2> HIDE DEF y
    <2>2. PoolInv'
      BY <1>2, <2>1, WaitingSteps, ReleaseKeeps
    <2> QED BY <2>1, <2>2
  <1>3. CASE AcquireTimesOut(c)
    BY <1>2, <1>3 DEF AcquireTimesOut
  <1>4. CASE Answer(c)
    BY <1>2, <1>4 DEF Answer
  <1>5. CASE CallFails(c)
    BY <1>5, CallFailsKeeps
  <1>6. CASE Repair(c)
    BY <1>6, GetsLockKeeps, StopKeeps, CreateKeeps DEF Repair
  <1>7. CASE CreateFails(c)
    BY <1>7, CreateFailsKeeps
  <1>8. CASE CallReturns(c)
    <2>1. Moves(c, Idle) /\ Idle.phase = "idle"
      BY <1>8 DEF CallReturns, Moves, Idle
    <2>2. PoolInv'
      BY <1>8, <2>1, IdleTyped, WaitingSteps DEF CallReturns
    <2> QED BY <2>1, <2>2, IdleTyped
  <1>9. CASE AbandonCall(c, Idle)
    <2>1. Idle \in Call /\ Idle.phase = "idle"
      BY IdleTyped DEF Idle
    <2> QED BY <1>9, <2>1, AbandonKeeps
  <1> QED BY <1>1, <1>3, <1>4, <1>5, <1>6, <1>7, <1>8, <1>9 DEF PoolStep

(* A call that starts waits, and so does a caller that goes on to cancel.  *)
LEMMA WaitKeeps ==
    ASSUME PoolInv, NEW c \in Callers, NEW lane \in Lanes,
           StartCall(c, lane) \/ AbandonCall(c, Waiting(lane))
    PROVE  PoolInv' /\ \E y \in Call : Moves(c, y)
  <1>1. Waiting(lane) \in Call /\ Waiting(lane).phase = "waiting"
    BY IdleTyped
  <1>2. CASE StartCall(c, lane)
    <2>1. Moves(c, Waiting(lane))
      BY <1>2 DEF StartCall, Moves
    <2>2. PoolInv'
      BY <1>1, <1>2, <2>1, WaitingSteps DEF StartCall
    <2> QED BY <1>1, <2>1, <2>2
  <1>3. CASE AbandonCall(c, Waiting(lane))
    <2>1. PoolInv' /\ Moves(c, Waiting(lane))
      BY <1>1, <1>3, AbandonKeeps
    <2> QED BY <1>1, <2>1
  <1> QED BY <1>2, <1>3

(* A step that leaves the pool alone.                                      *)
LEMMA PoolSame == PoolInv /\ UNCHANGED poolVars => PoolInv'
  <1> SUFFICES ASSUME PoolInv, client' = client, current' = current, call' = call PROVE PoolInv'
    BY DEF poolVars
  <1>1. PoolTypeOK' /\ \A m \in Members : client'[current'[m]].member = m
    BY DEF PoolInv, PoolTypeOK
  <1>2. \A k \in DOMAIN client : Counted(k)'
    BY DEF PoolInv, Counted, CallsOn
  <1>3. \A c \in Callers : CallInv(c)'
    BY DEF PoolInv, CallInv
  <1> QED BY <1>1, <1>2, <1>3 DEF PoolInv

(* A client that still has a call is not stopped.                          *)
LEMMA PoolCallsLive == PoolInv => CallsOnLiveClients
  <1> SUFFICES ASSUME PoolInv, NEW c \in Callers, call[c].phase = "calling"
               PROVE  ~client[call[c].on].stopped
    BY DEF CallsOnLiveClients
  <1>1. call[c].on \in DOMAIN client /\ c \in CallsOn(call[c].on)
    BY DEF PoolInv, CallInv, CallsOn
  <1> QED BY <1>1, FS_EmptySet DEF PoolInv, Counted

-----------------------------------------------------------------------------
(* The service: what a step does to the attempt it moves *)

(* What is remembered was remembered before, or is what has just ended.    *)
LEMMA RememberKeeps ==
    ASSUME NEW i \in Invocations, NEW state \in Ended, terminal \in Seq(Invocations \X Ended)
    PROVE  /\ Remember(i, state) \in Seq(Invocations \X Ended)
           /\ ToSet(Remember(i, state)) \subseteq ToSet(terminal) \cup {<<i, state>>}
  <1> DEFINE S == Invocations \X Ended
             before == {n \in DOMAIN terminal : terminal[n][1] = i}
             n == CHOOSE n \in before : TRUE
             others == IF before = {} THEN terminal ELSE RemoveAt(terminal, n)
             all == Append(others, <<i, state>>)
             from == IF Len(all) > Remembered THEN Len(all) - Remembered + 1 ELSE 1
  <1>1. others \in Seq(S) /\ \A k \in DOMAIN others : \E j \in DOMAIN terminal : others[k] = terminal[j]
    <2>1. CASE before = {}
      BY <2>1
    <2>2. CASE before # {}
      <3>1. n \in DOMAIN terminal
        BY <2>2
      <3> HIDE DEF n, before
      <3> DEFINE u == SubSeq(terminal, 1, n - 1)
                 v == SubSeq(terminal, n + 1, Len(terminal))
      <3>2. u \in Seq(S) /\ \A k \in DOMAIN u : \E j \in DOMAIN terminal : u[k] = terminal[j]
        BY <3>1
      <3>3. v \in Seq(S) /\ \A k \in DOMAIN v : \E j \in DOMAIN terminal : v[k] = terminal[j]
        BY <3>1
      <3>4. others = u \o v
        BY <2>2 DEF RemoveAt
      <3> HIDE DEF u, v, others, S
      <3>5. (u \o v) \in Seq(S) /\ Len(u \o v) = Len(u) + Len(v)
            /\ \A k \in DOMAIN (u \o v) : (u \o v)[k] = IF k <= Len(u) THEN u[k] ELSE v[k - Len(u)]
        BY <3>2, <3>3
      <3> QED BY <3>2, <3>3, <3>4, <3>5
    <2> QED BY <2>1, <2>2
  <1>2. <<i, state>> \in S
    OBVIOUS
  <1>3. Remember(i, state) = SubSeq(all, from, Len(all))
    BY DEF Remember
  <1> HIDE DEF others, S
  <1>4. /\ all \in Seq(S)
        /\ \A k \in DOMAIN all : all[k] \in ToSet(terminal) \cup {<<i, state>>}
    BY <1>1, <1>2 DEF ToSet
  <1>5. from \in Nat /\ from >= 1
    BY <1>4, CallsAssumption
  <1> HIDE DEF all, from
  <1>6. /\ SubSeq(all, from, Len(all)) \in Seq(S)
        /\ \A k \in DOMAIN SubSeq(all, from, Len(all)) :
              \E j \in DOMAIN all : SubSeq(all, from, Len(all))[k] = all[j]
    BY <1>4, <1>5
  <1> QED BY <1>3, <1>4, <1>6 DEF ToSet, S

InQueue(r) == r.at \in {"wait", "go", "running", "killed", "closing"}

Passes(q, r) ==
    /\ r.stage = req[q].stage /\ (InQueue(r) <=> Admitted(q))
    /\ UNCHANGED <<handle, terminal, free, lostPermits>>

Registers(q, r) ==
    /\ req[q].at = "register" /\ r.at = "wait" /\ r.stage = req[q].stage
    /\ ~Duplicate(q[1])
    /\ handle' = [handle EXCEPT ![q[1]] = q[2]]
    /\ UNCHANGED <<terminal, free, lostPermits>>

Grants(q, r) ==
    LET s == req[q].stage + 1
    IN  /\ req[q].at = "wait" /\ r.at = "wait" /\ s <= Running /\ r.stage = s
        /\ free[s] > 0 /\ free' = [free EXCEPT ![s] = @ - 1]
        /\ UNCHANGED <<handle, terminal, lostPermits>>

(* What is forgotten and what is remembered of an attempt that ends.       *)
Forgets(q) ==
    /\ handle' = [handle EXCEPT ![q[1]] = None]
    /\ \/ UNCHANGED terminal
       \/ \E state \in Ended : terminal' = Remember(q[1], state)

Leaves(q, r) ==
    /\ Admitted(q) /\ ~InQueue(r) /\ r.stage = 0 /\ Forgets(q)
    /\ free' = Freed(req[q].stage) /\ UNCHANGED lostPermits

Loses(q, r) ==
    LET s == req[q].stage + 1
    IN  /\ req[q].at = "wait" /\ s <= Running /\ free[s] > 0
        /\ ~InQueue(r) /\ r.stage = 0 /\ Forgets(q)
        /\ free' = [Freed(req[q].stage) EXCEPT ![s] = @ - 1]
        /\ lostPermits' = [lostPermits EXCEPT ![s] = @ + 1]

ServiceMove(q, r) ==
    /\ r \in Request /\ req' = [req EXCEPT ![q] = r]
    /\ r.at = "answered" => r.answer \in Answers
    /\ Passes(q, r) \/ Registers(q, r) \/ Grants(q, r) \/ Leaves(q, r) \/ Loses(q, r)

(* The service keeps its types.                                            *)
LEMMA MovesTyped ==
    ASSUME ServiceTypes, NEW q \in Requests, NEW r, ServiceMove(q, r)
    PROVE  ServiceTypes'
  <1>1. req' \in [Requests -> Request]
    BY DEF ServiceTypes, ServiceMove
  <1>2. req[q].stage \in Nat /\ q[1] \in Invocations /\ q[2] \in 0 .. MaxRetries
    BY DEF ServiceTypes, Requests, Request, Semaphores
  <1>3. \A n \in Nat : Freed(n) \in [Semaphores -> Nat]
    BY DEF ServiceTypes, Freed
  <1>4. CASE Passes(q, r)
    BY <1>1, <1>4 DEF ServiceTypes, Passes
  <1>5. CASE Registers(q, r)
    BY <1>1, <1>2, <1>5 DEF ServiceTypes, Registers
  <1>6. CASE Grants(q, r)
    <2>1. free' \in [Semaphores -> Nat]
      BY <1>2, <1>6 DEF ServiceTypes, Grants, Semaphores
    <2> QED BY <1>1, <1>6, <2>1 DEF ServiceTypes, Grants
  <1>7. ASSUME Forgets(q)
        PROVE  /\ handle' \in [Invocations -> 0 .. MaxRetries \cup {None}]
               /\ terminal' \in Seq(Invocations \X Ended)
    <2>1. handle' \in [Invocations -> 0 .. MaxRetries \cup {None}]
      BY <1>7 DEF ServiceTypes, Forgets
    <2>2. terminal' \in Seq(Invocations \X Ended)
      BY <1>2, <1>7, RememberKeeps DEF ServiceTypes, Forgets
    <2> QED BY <2>1, <2>2
  <1>8. CASE Leaves(q, r)
    BY <1>1, <1>2, <1>3, <1>7, <1>8 DEF ServiceTypes, Leaves
  <1>9. CASE Loses(q, r)
    <2> DEFINE s == req[q].stage + 1
    <2>1. s \in Semaphores /\ free[s] \in Nat /\ free[s] > 0 /\ Freed(req[q].stage)[s] = free[s]
      BY <1>2, <1>9, CallsAssumption DEF ServiceTypes, Loses, Semaphores, Freed
    <2>2. free' \in [Semaphores -> Nat]
      BY <1>2, <1>3, <1>9, <2>1 DEF Loses
    <2>3. lostPermits' \in [Semaphores -> Nat]
      BY <1>9, <2>1 DEF Loses, ServiceTypes
    <2> QED BY <1>1, <1>7, <1>9, <2>2, <2>3 DEF ServiceTypes, Loses
  <1> QED BY <1>4, <1>5, <1>6, <1>8, <1>9 DEF ServiceMove

(* Who is admitted is admitted under his handle.                           *)
LEMMA MovesAttempts ==
    ASSUME ServiceTypes, Attempts, NEW q \in Requests, NEW r, ServiceMove(q, r)
    PROVE  Attempts'
  <1>1. SUFFICES ASSUME NEW p \in Requests PROVE ReqInv(p)'
    BY DEF Attempts
  <1>2. /\ q = <<q[1], q[2]>> /\ p = <<p[1], p[2]>> /\ p[1] \in Invocations /\ q[1] \in Invocations
        /\ p[2] \in Nat /\ q[2] \in Nat /\ req[q].stage \in Nat
    BY CallsAssumption DEF ServiceTypes, Requests, Request
  <1>3. req'[q] = r /\ (p # q => req'[p] = req[p])
    BY DEF ServiceTypes, ServiceMove
  <1>4. ReqInv(p) /\ ReqInv(q) /\ (Admitted(p)' <=> InQueue(req'[p])) /\ (Admitted(q) <=> InQueue(req[q]))
    BY DEF Attempts, Admitted, InQueue
  <1>5. None \notin Nat
    BY PoolAssumption
  <1>6. CASE Passes(q, r)
    BY <1>3, <1>4, <1>6 DEF Passes, ServiceMove, ReqInv, Admitted
  <1>7. CASE Registers(q, r)
    <2>1. handle'[q[1]] = q[2] /\ handle[q[1]] = None /\ (p[1] # q[1] => handle'[p[1]] = handle[p[1]])
      BY <1>2, <1>7 DEF ServiceTypes, Registers, Duplicate
    <2>2. p # q /\ p[1] = q[1] => ~Admitted(p)
      BY <1>2, <1>4, <1>5, <2>1 DEF ReqInv
    <2> QED BY <1>2, <1>3, <1>4, <1>7, <2>1, <2>2 DEF Registers, ReqInv, Admitted
  <1>8. CASE Grants(q, r)
    BY <1>3, <1>4, <1>8 DEF Grants, ReqInv, Admitted
  <1>9. CASE Leaves(q, r) \/ Loses(q, r)
    <2>1. Admitted(q) /\ ~InQueue(r) /\ r.stage = 0 /\ Forgets(q)
      BY <1>9 DEF Leaves, Loses, Admitted
    <2>2. p[1] # q[1] => handle'[p[1]] = handle[p[1]]
      BY <1>2, <2>1 DEF ServiceTypes, Forgets
    <2>3. p # q /\ p[1] = q[1] => ~Admitted(p)
      BY <1>2, <1>4, <2>1 DEF ReqInv
    <2> QED BY <1>2, <1>3, <1>4, <2>1, <2>2, <2>3 DEF ServiceMove, ReqInv, Admitted, InQueue
  <1> QED BY <1>6, <1>7, <1>8, <1>9 DEF ServiceMove

(* A cancelled invocation has no handle, and none is made for it.          *)
LEMMA MovesCancels ==
    ASSUME ServiceTypes, CanceledStaysCanceled, NEW q \in Requests, NEW r, ServiceMove(q, r)
    PROVE  CanceledStaysCanceled'
  <1>1. q[1] \in Invocations
    BY DEF Requests
  <1>2. CASE Forgets(q)
    <2>1. SUFFICES ASSUME NEW i \in Invocations, "canceled" \in StateOf(i)' PROVE handle'[i] = None
      BY DEF CanceledStaysCanceled
    <2>2. CASE i = q[1]
      BY <1>1, <1>2, <2>2 DEF Forgets, ServiceTypes
    <2>3. CASE i # q[1]
      <3>1. \A t \in ToSet(terminal') : t \in ToSet(terminal) \/ t[1] = q[1]
        BY <1>1, <1>2, RememberKeeps DEF Forgets, ServiceTypes
      <3>2. "canceled" \in StateOf(i)
        BY <2>1, <2>3, <3>1 DEF StateOf
      <3> QED BY <1>2, <2>3, <3>2 DEF Forgets, ServiceTypes, CanceledStaysCanceled
    <2> QED BY <2>2, <2>3
  <1>3. CASE Registers(q, r)
    <2>1. \A i \in Invocations : StateOf(i)' = StateOf(i)
      BY <1>3 DEF Registers, StateOf
    <2> QED BY <1>1, <1>3, <2>1 DEF Registers, Duplicate, CanceledStaysCanceled, ServiceTypes
  <1>4. CASE UNCHANGED <<handle, terminal>>
    BY <1>4 DEF CanceledStaysCanceled, StateOf
  <1> QED BY <1>2, <1>3, <1>4 DEF ServiceMove, Passes, Grants, Leaves, Loses

(* How the holders of a semaphore change with the attempt that moves.      *)
LEMMA HoldersMove ==
    ASSUME ServiceTypes, Ledger, NEW q \in Requests, NEW r, ServiceMove(q, r), NEW s \in Semaphores
    PROVE  /\ IsFiniteSet(Holders(s)') /\ Cardinality(Holders(s)) \in Nat
           /\ Cardinality(Holders(s)') =
                 Cardinality(Holders(s)) + (IF r.stage >= s THEN 1 ELSE 0)
                                         - (IF req[q].stage >= s THEN 1 ELSE 0)
  <1>1. req[q].stage \in Nat /\ r.stage \in Nat /\ s \in Nat
    BY DEF ServiceTypes, ServiceMove, Request, Semaphores
  <1>2. req'[q] = r /\ \A p \in Requests : p # q => req'[p] = req[p]
    BY DEF ServiceTypes, ServiceMove
  <1>3. IsFiniteSet(Holders(s)) /\ Cardinality(Holders(s)) \in Nat
    BY FS_CardinalityType DEF Ledger
  <1>4. q \in Holders(s) <=> req[q].stage >= s
    BY DEF Holders, HeldBy
  <1>5. CASE r.stage >= s
    <2>1. Holders(s)' = Holders(s) \cup {q}
      BY <1>2, <1>5 DEF Holders, HeldBy
    <2> QED BY <1>1, <1>3, <1>4, <1>5, <2>1, FS_AddElement
  <1>6. CASE ~(r.stage >= s)
    <2>1. Holders(s)' = Holders(s) \ {q}
      BY <1>2, <1>6 DEF Holders, HeldBy
    <2> QED BY <1>1, <1>3, <1>4, <1>6, <2>1, FS_RemoveElement
  <1> QED BY <1>5, <1>6

(* No permit is made or lost, but by who does not know that he has it.     *)
LEMMA MovesLedger ==
    ASSUME ServiceTypes, Ledger, NEW q \in Requests, NEW r, ServiceMove(q, r)
    PROVE  Ledger'
  <1>1. SUFFICES ASSUME NEW s \in Semaphores
                 PROVE  /\ IsFiniteSet(Holders(s)')
                        /\ free'[s] + lostPermits'[s] + Cardinality(Holders(s)') = Permits[s]
    BY DEF Ledger, CapacityKept, Holders, HeldBy
  <1> DEFINE c == Cardinality(Holders(s))
             c2 == Cardinality(Holders(s)')
             n == req[q].stage
  <1>2. /\ IsFiniteSet(Holders(s)') /\ c \in Nat
        /\ c2 = c + (IF r.stage >= s THEN 1 ELSE 0) - (IF n >= s THEN 1 ELSE 0)
    BY HoldersMove
  <1>3. free[s] + lostPermits[s] + c = Permits[s]
    BY DEF Ledger, CapacityKept, Holders
  <1>4. /\ n \in 0 .. Running /\ r.stage \in 0 .. Running /\ s \in Nat /\ s >= 1
        /\ free[s] \in Nat /\ lostPermits[s] \in Nat /\ Running \in Nat
    BY CallsAssumption DEF ServiceTypes, ServiceMove, Request, Semaphores
  <1> HIDE DEF c, c2, n
  <1>5. SUFFICES free'[s] + lostPermits'[s] + c2 = Permits[s]
    BY <1>2 DEF c2
  <1>6. CASE Passes(q, r)
    BY <1>2, <1>3, <1>4, <1>6 DEF Passes, n
  <1>7. CASE Registers(q, r)
    BY <1>2, <1>3, <1>4, <1>7 DEF Registers, n
  <1>8. CASE Grants(q, r)
    <2>1. r.stage = n + 1 /\ lostPermits' = lostPermits
          /\ free'[s] = IF s = n + 1 THEN free[s] - 1 ELSE free[s]
      BY <1>4, <1>8 DEF Grants, n, ServiceTypes
    <2> QED BY <1>2, <1>3, <1>4, <2>1
  <1>9. Freed(n) \in [Semaphores -> Nat] /\ Freed(n)[s] = IF s <= n THEN free[s] + 1 ELSE free[s]
    BY <1>4 DEF Freed, ServiceTypes
  <1>10. CASE Leaves(q, r)
    <2>1. r.stage = 0 /\ free' = Freed(n) /\ lostPermits' = lostPermits
      BY <1>10 DEF Leaves, n
    <2> QED BY <1>2, <1>3, <1>4, <1>9, <2>1
  <1>11. CASE Loses(q, r)
    <2>1. /\ r.stage = 0 /\ free' = [Freed(n) EXCEPT ![n + 1] = @ - 1]
          /\ lostPermits' = [lostPermits EXCEPT ![n + 1] = @ + 1]
      BY <1>11 DEF Loses, n
    <2>2. /\ lostPermits'[s] = IF s = n + 1 THEN lostPermits[s] + 1 ELSE lostPermits[s]
          /\ free'[s] = IF s = n + 1 THEN Freed(n)[s] - 1 ELSE Freed(n)[s]
      BY <1>9, <2>1 DEF ServiceTypes
    <2> QED BY <1>2, <1>3, <1>4, <1>9, <2>1, <2>2
  <1> QED BY <1>6, <1>7, <1>8, <1>10, <1>11 DEF ServiceMove

-----------------------------------------------------------------------------
(* The steps of the service *)

(* Whoever waits in cancel is told when the handle is gone.                *)
ToldWhenGone ==
    \A i \in Invocations :
        cancelReq'[i] # cancelReq[i] /\ cancelReq'[i] \in {"canceled", "already_canceled"}
            => handle'[i] = None

(* The end of an attempt forgets it, and tells who waits for that.         *)
LEMMA FinishForgets ==
    ASSUME ServiceTypes, CancelTypes, NEW q \in Requests,
           \/ \E state \in Ended \cup {"not_started"} : Finish(q, req[q].stage, state)
           \/ FinishLosing(q)
    PROVE  /\ Forgets(q) /\ ToldWhenGone
           /\ cancelSet' \subseteq Invocations /\ cancelReq' \in [Invocations -> CancelState]
  <1>1. q[1] \in Invocations /\ "canceled" \in Ended
    BY DEF Requests, Ended
  <1>2. /\ handle' = [handle EXCEPT ![q[1]] = None] /\ cancelSet' = cancelSet \ {q[1]}
        /\ cancelReq' = [cancelReq EXCEPT ![q[1]] = IF @ = "waiting" THEN "canceled" ELSE @]
    BY DEF Finish, FinishLosing, Inv
  <1>3. Forgets(q)
    BY <1>1, <1>2 DEF Finish, FinishLosing, Inv, Forgets
  <1>4. ToldWhenGone
    BY <1>1, <1>2 DEF ToldWhenGone, ServiceTypes, CancelTypes
  <1>5. "canceled" \in CancelState
    BY DEF CancelState, CancelStatus
  <1> QED BY <1>1, <1>2, <1>3, <1>4, <1>5 DEF CancelTypes

(* A step moves one attempt that was sent, and the worker not at all.      *)
MovesOn(q) ==
    /\ req[q].at # "none" /\ \E r : r.at # "none" /\ ServiceMove(q, r)
    /\ CancelTypes' /\ ToldWhenGone
    /\ UNCHANGED <<poolVars, leased, workerVars>>

(* Who is not in the queue holds nothing.                                  *)
LEMMA OutsideHoldsNothing ==
    ASSUME ServiceInv, NEW q \in Requests
    PROVE  /\ req[q] \in Request /\ req[q].stage \in Nat
           /\ Admitted(q) <=> InQueue(req[q])
           /\ ~Admitted(q) => req[q].stage = 0
           /\ req[q].at = "answered" => req[q].answer \in Answers
  BY DEF ServiceInv, ServiceTypes, Attempts, ReqInv, Request, Admitted, InQueue

(* An attempt that goes on, in the queue or outside of it.                 *)
LEMMA GoesOn ==
    ASSUME ServiceInv, NEW q \in Requests, NEW at \in ReqPhase \ {"none", "answered"},
           req[q].at # "none", InQueue([at |-> at]) <=> Admitted(q),
           req' = [req EXCEPT ![q].at = at], UNCHANGED <<queueVars, cancelReq>>, InService(q)
    PROVE  MovesOn(q)
  <1> DEFINE r == [req[q] EXCEPT !.at = at]
  <1>1. r \in Request /\ r.at = at /\ r.stage = req[q].stage
    BY OutsideHoldsNothing DEF Request
  <1>2. req' = [req EXCEPT ![q] = r]
    OBVIOUS
  <1> HIDE DEF r
  <1>3. InQueue(r) <=> Admitted(q)
    BY <1>1 DEF InQueue
  <1>4. ServiceMove(q, r)
    BY <1>1, <1>2, <1>3 DEF ServiceMove, Passes, queueVars
  <1>5. CancelTypes' /\ ToldWhenGone
    BY DEF ServiceInv, CancelTypes, ToldWhenGone, queueVars, InService
  <1> QED BY <1>1, <1>4, <1>5 DEF MovesOn, InService

(* An attempt outside of the queue that is answered.                       *)
LEMMA IsAnswered ==
    ASSUME ServiceInv, NEW q \in Requests, NEW answer \in Answers, ~Admitted(q), req[q].at # "none",
           ReqAnswers(q, answer), UNCHANGED <<queueVars, cancelReq>>,
           UNCHANGED <<poolVars, leased, workerVars>>, faults' \in Nat
    PROVE  MovesOn(q)
  <1> DEFINE r == [at |-> "answered", stage |-> 0, answer |-> answer]
  <1>1. /\ r \in Request /\ r.at = "answered" /\ r.stage = req[q].stage /\ ~InQueue(r)
        /\ r.answer = answer
    BY OutsideHoldsNothing, CallsAssumption DEF Request, ReqPhase, InQueue
  <1>2. req' = [req EXCEPT ![q] = r]
    BY DEF ReqAnswers
  <1> HIDE DEF r
  <1>3. ServiceMove(q, r)
    BY <1>1, <1>2 DEF ServiceMove, Passes, queueVars
  <1>4. CancelTypes' /\ ToldWhenGone
    BY DEF ServiceInv, CancelTypes, ToldWhenGone, queueVars
  <1> QED BY <1>1, <1>3, <1>4 DEF MovesOn

(* An attempt that leaves the queue is finished.                           *)
LEMMA IsFinished ==
    ASSUME ServiceInv, NEW q \in Requests, NEW r \in Request, Admitted(q),
           req' = [req EXCEPT ![q] = r], r.at \in {"answered", "gone", "post"}, r.stage = 0,
           r.at = "answered" => r.answer \in Answers,
           NEW state \in Ended \cup {"not_started"}, Finish(q, req[q].stage, state),
           UNCHANGED lostPermits, UNCHANGED <<poolVars, leased, workerVars>>, faults' \in Nat
    PROVE  MovesOn(q)
  <1>1. Forgets(q) /\ CancelTypes' /\ ToldWhenGone
    BY FinishForgets DEF ServiceInv, CancelTypes
  <1>2. Leaves(q, r)
    BY <1>1 DEF Leaves, InQueue, Finish
  <1>3. req[q].at # "none"
    BY DEF Admitted
  <1> QED BY <1>1, <1>2, <1>3 DEF MovesOn, ServiceMove

(* An attempt that ends in the queue is answered.                          *)
LEMMA EndsInQueue ==
    ASSUME ServiceInv, NEW q \in Requests, Admitted(q),
           NEW state \in Ended \cup {"not_started"}, NEW answer \in Answers, Ends(q, state, answer),
           UNCHANGED <<poolVars, leased, workerVars>>, faults' \in Nat
    PROVE  MovesOn(q)
  <1> DEFINE r == [at |-> "answered", stage |-> 0, answer |-> answer]
  <1>1. r \in Request /\ r.at = "answered" /\ r.stage = 0 /\ r.answer = answer
    BY CallsAssumption DEF Request, ReqPhase
  <1>2. req' = [req EXCEPT ![q] = r] /\ Finish(q, req[q].stage, state) /\ UNCHANGED lostPermits
    BY DEF Ends, ReqAnswers
  <1> HIDE DEF r
  <1> QED BY <1>1, <1>2, IsFinished

(* An attempt that goes, finished or not.                                  *)
LEMMA GoneTyped ==
    LET r == [NewRequest EXCEPT !.at = "gone"]
    IN  r \in Request /\ r.at = "gone" /\ r.stage = 0 /\ ~InQueue(r)
  BY CallsAssumption DEF Request, ReqPhase, NewRequest, InQueue

(* What is known of a service and of the attempt that moves.               *)
LEMMA MoveFacts ==
    ASSUME ServiceInv, NEW q \in Requests
    PROVE  /\ InService(q) => UNCHANGED <<poolVars, leased, workerVars>> /\ faults' \in Nat
           /\ Fault => faults' \in Nat
           /\ {"result", "stale", "canceled", "exhausted", "duplicate"} = Answers
           /\ {"canceled", "finished"} = Ended
           /\ {"register", "wait", "go", "running", "closing"} \subseteq ReqPhase \ {"none", "answered"}
           /\ \A at : InQueue([at |-> at]) <=> at \in {"wait", "go", "running", "killed", "closing"}
           /\ Admitted(q) <=> req[q].at \in {"wait", "go", "running", "killed", "closing"}
  BY DEF ServiceInv, CancelTypes, InService, Fault, Answers, Ended, ReqPhase, InQueue, Admitted

(* It is read, and registered or refused.                                  *)
LEMMA ArrivingMoves ==
    ASSUME ServiceInv, NEW q \in Requests, ReadAuthority(q) \/ Register(q)
    PROVE  MovesOn(q)
  <1>1. CASE ReadAuthority(q) /\ leased
    <2>1. req[q].at = "sent" /\ req' = [req EXCEPT ![q].at = "register"]
          /\ UNCHANGED <<queueVars, cancelReq>> /\ InService(q)
      BY <1>1 DEF ReadAuthority, ReqGoes
    <2>2. InQueue([at |-> "register"]) <=> Admitted(q)
      BY <2>1, MoveFacts
    <2> QED BY <2>1, <2>2, MoveFacts, GoesOn
  <1>2. CASE ReadAuthority(q) /\ ~leased
    BY <1>2, MoveFacts, IsAnswered DEF ReadAuthority
  <1>3. CASE Register(q) /\ Duplicate(q[1])
    <2>1. ReqAnswers(q, "duplicate") /\ UNCHANGED <<queueVars, cancelReq>>
          /\ req[q].at = "register" /\ InService(q)
      BY <1>3 DEF Register, Inv, queueVars
    <2>2. ~Admitted(q) /\ "duplicate" \in Answers
      BY <2>1, MoveFacts
    <2> QED BY <2>1, <2>2, MoveFacts, IsAnswered
  <1>4. CASE Register(q) /\ ~Duplicate(q[1])
    <2> DEFINE r == [req[q] EXCEPT !.at = "wait"]
    <2>1. r \in Request /\ r.at = "wait" /\ r.stage = req[q].stage
      BY OutsideHoldsNothing DEF Request, ReqPhase
    <2>2. req' = [req EXCEPT ![q] = r] /\ req[q].at = "register"
      BY <1>4 DEF Register, Inv, ReqGoes
    <2> HIDE DEF r
    <2>3. handle' = [handle EXCEPT ![q[1]] = q[2]] /\ UNCHANGED <<cancelSet, terminal, free, lostPermits, cancelReq>>
          /\ InService(q)
      BY <1>4 DEF Register, Inv
    <2>4. ServiceMove(q, r)
      BY <1>4, <2>1, <2>2, <2>3 DEF ServiceMove, Registers
    <2>5. CancelTypes' /\ ToldWhenGone
      BY <2>3 DEF ServiceInv, CancelTypes, ToldWhenGone, InService
    <2> QED BY <2>1, <2>2, <2>3, <2>4, <2>5 DEF MovesOn, InService
  <1> QED BY <1>1, <1>2, <1>3, <1>4

(* It is granted a permit.                                                 *)
LEMMA GrantMoves ==
    ASSUME ServiceInv, NEW q \in Requests, Grant(q)
    PROVE  MovesOn(q)
  <1> DEFINE r == [req[q] EXCEPT !.stage = @ + 1]
             s == req[q].stage + 1
  <1>1. /\ req[q].at = "wait" /\ req[q].stage < Running /\ free[s] > 0
        /\ free' = [free EXCEPT ![s] = @ - 1] /\ req' = [req EXCEPT ![q] = r]
        /\ InService(q) /\ UNCHANGED <<handle, cancelSet, terminal, lostPermits, cancelReq>>
    BY DEF Grant
  <1>2. r \in Request /\ r.at = "wait" /\ r.stage = s /\ s <= Running
    BY <1>1, OutsideHoldsNothing, CallsAssumption DEF Request
  <1>3. Grants(q, r)
    BY <1>1, <1>2 DEF Grants
  <1> HIDE DEF r, s
  <1>4. CancelTypes' /\ ToldWhenGone
    BY <1>1 DEF ServiceInv, CancelTypes, ToldWhenGone, InService
  <1> QED BY <1>1, <1>2, <1>3, <1>4 DEF MovesOn, ServiceMove, InService

(* It waits, begins and runs, or ends while it does.                       *)
LEMMA QueueMoves ==
    ASSUME ServiceInv, NEW q \in Requests,
           \/ CanceledInQueue(q) \/ WaitTimesOut(q) \/ Begin(q) \/ Go(q) \/ ProcessEnds(q)
    PROVE  MovesOn(q)
  <1>1. CASE CanceledInQueue(q)
    BY <1>1, MoveFacts, EndsInQueue DEF CanceledInQueue
  <1>2. CASE WaitTimesOut(q)
    BY <1>2, MoveFacts, EndsInQueue DEF WaitTimesOut
  <1>3. CASE Begin(q)
    BY <1>3, MoveFacts, EndsInQueue, GoesOn DEF Begin, ReqGoes
  <1>4. CASE Go(q)
    BY <1>4, MoveFacts, EndsInQueue, GoesOn DEF Go, ReqGoes
  <1>5. CASE ProcessEnds(q)
    <2>1. CASE ReqGoes(q, "closing") /\ UNCHANGED <<queueVars, cancelReq, faults>>
      BY <1>5, <2>1, MoveFacts, GoesOn DEF ProcessEnds, ReqGoes, InService
    <2>2. CASE Ends(q, "finished", "result") /\ (Fault \/ UNCHANGED faults)
      <3>1. Admitted(q) /\ faults' \in Nat /\ UNCHANGED <<poolVars, leased, workerVars>>
        BY <1>5, <2>2, MoveFacts DEF ProcessEnds, ServiceInv, CancelTypes
      <3> QED BY <2>2, <3>1, MoveFacts, EndsInQueue
    <2> QED BY <1>5, <2>1, <2>2 DEF ProcessEnds
  <1> QED BY <1>1, <1>2, <1>3, <1>4, <1>5

(* Its process is stopped, or closed and followed by a last look.          *)
LEMMA EndingMoves ==
    ASSUME ServiceInv, NEW q \in Requests, Closed(q) \/ Killed(q) \/ PostCheck(q)
    PROVE  MovesOn(q)
  <1>1. CASE Closed(q)
    <2> DEFINE r == [req[q] EXCEPT !.at = "post", !.stage = 0]
    <2>1. r \in Request /\ r.at = "post" /\ r.stage = 0
      <3>1. req[q] \in Request /\ "post" \in ReqPhase /\ 0 \in 0 .. Running
        BY OutsideHoldsNothing, CallsAssumption DEF ReqPhase
      <3> QED BY <3>1 DEF Request
    <2>2. req' = [req EXCEPT ![q] = r] /\ req[q].at = "closing" /\ Finish(q, req[q].stage, "finished")
          /\ UNCHANGED lostPermits /\ InService(q)
      BY <1>1 DEF Closed
    <2> HIDE DEF r
    <2> QED BY <2>1, <2>2, MoveFacts, IsFinished
  <1>2. CASE Killed(q) /\ req[q].answer # "disconnected"
    BY <1>2, MoveFacts, EndsInQueue DEF Killed
  <1>3. CASE Killed(q) /\ req[q].answer = "disconnected"
    <2> DEFINE r == [NewRequest EXCEPT !.at = "gone"]
    <2>1. r \in Request /\ r.at = "gone" /\ r.stage = 0
      BY GoneTyped
    <2>2. req' = [req EXCEPT ![q] = r] /\ req[q].at = "killed" /\ Finish(q, req[q].stage, "canceled")
          /\ UNCHANGED lostPermits /\ InService(q)
      BY <1>3 DEF Killed, ReqIsGone
    <2> HIDE DEF r
    <2> QED BY <2>1, <2>2, MoveFacts, IsFinished
  <1>4. CASE PostCheck(q)
    BY <1>4, MoveFacts, IsAnswered DEF PostCheck
  <1> QED BY <1>1, <1>2, <1>3, <1>4

(* Its process is to be stopped.                                           *)
LEMMA IsToBeStopped ==
    ASSUME ServiceInv, NEW q \in Requests, req[q].at = "running",
           NEW answer \in {"result", "canceled", "disconnected"},
           req' = [req EXCEPT ![q].at = "killed", ![q].answer = answer],
           UNCHANGED <<handle, terminal, free, lostPermits, cancelReq, faults>>,
           cancelSet' \subseteq Invocations, UNCHANGED <<poolVars, leased, workerVars>>
    PROVE  MovesOn(q)
  <1> DEFINE r == [req[q] EXCEPT !.at = "killed", !.answer = answer]
  <1>1. r \in Request /\ r.at = "killed" /\ r.stage = req[q].stage
    <2>1. req[q] \in Request /\ "killed" \in ReqPhase /\ answer \in Answers \cup {"none", "disconnected"}
      BY OutsideHoldsNothing, MoveFacts DEF ReqPhase
    <2> QED BY <2>1 DEF Request
  <1>2. req' = [req EXCEPT ![q] = r]
    OBVIOUS
  <1> HIDE DEF r
  <1>3. InQueue(r) /\ Admitted(q)
    BY <1>1, MoveFacts DEF InQueue
  <1>4. ServiceMove(q, r)
    BY <1>1, <1>2, <1>3 DEF ServiceMove, Passes
  <1>5. CancelTypes' /\ ToldWhenGone
    BY DEF ServiceInv, CancelTypes, ToldWhenGone
  <1> QED BY <1>1, <1>4, <1>5 DEF MovesOn

(* A cancellation or the deadline stops it.                                *)
LEMMA KillMoves ==
    ASSUME ServiceInv, NEW q \in Requests, Kill(q)
    PROVE  MovesOn(q)
  <1>1. PICK answer \in {"result", "canceled", "disconnected"} :
          req' = [req EXCEPT ![q].at = "killed", ![q].answer = answer]
    BY DEF Kill
  <1>2. req[q].at = "running" /\ InService(q) /\ UNCHANGED <<queueVars, cancelReq>>
    BY DEF Kill
  <1>3. cancelSet' \subseteq Invocations
    BY <1>2 DEF ServiceInv, CancelTypes, queueVars
  <1> QED BY <1>1, <1>2, <1>3, IsToBeStopped DEF InService, queueVars

(* A read of the lease that fails ends it.                                 *)
LEMMA UnreadableMoves ==
    ASSUME ServiceInv, NEW q \in Requests, Unreadable(q)
    PROVE  MovesOn(q)
  <1>1. faults' \in Nat /\ UNCHANGED <<poolVars, leased, workerVars>>
    BY MoveFacts DEF Unreadable
  <1>2. CASE req[q].at \in {"sent", "post"} /\ ReqAnswers(q, "result") /\ UNCHANGED <<queueVars, cancelReq>>
    BY <1>1, <1>2, MoveFacts, IsAnswered
  <1>3. CASE req[q].at = "wait" /\ Ends(q, "not_started", "result")
    BY <1>1, <1>3, MoveFacts, EndsInQueue
  <1> QED BY <1>2, <1>3 DEF Unreadable

(* Nobody waits for it any more.                                           *)
LEMMA DisconnectMoves ==
    ASSUME ServiceInv, NEW q \in Requests, Disconnect(q)
    PROVE  MovesOn(q)
  <1> DEFINE r == [NewRequest EXCEPT !.at = "gone"]
  <1>1. UNCHANGED <<poolVars, leased, workerVars>>
    BY DEF Disconnect
  <1>2. r \in Request /\ r.at = "gone" /\ r.stage = 0 /\ ~InQueue(r)
    BY GoneTyped
  <1>3. ReqIsGone(q) => req' = [req EXCEPT ![q] = r]
    BY DEF ReqIsGone
  <1> HIDE DEF r
  <1>4. CASE req[q].at \in {"sent", "register", "post", "answered"} /\ ReqIsGone(q)
             /\ UNCHANGED <<queueVars, cancelReq, faults>>
    <2>1. ~Admitted(q) /\ r.stage = req[q].stage
      BY <1>2, <1>4, MoveFacts, OutsideHoldsNothing
    <2>2. ServiceMove(q, r)
      BY <1>2, <1>3, <1>4, <2>1 DEF ServiceMove, Passes, queueVars
    <2>3. CancelTypes' /\ ToldWhenGone
      BY <1>4 DEF ServiceInv, CancelTypes, ToldWhenGone, queueVars
    <2> QED BY <1>1, <1>2, <1>4, <2>2, <2>3 DEF MovesOn
  <1>5. CASE /\ req[q].at \in {"wait", "go", "closing", "killed", "running"}
             /\ ReqIsGone(q) /\ Finish(q, req[q].stage, "canceled")
             /\ UNCHANGED lostPermits /\ (Fault \/ UNCHANGED faults)
    <2>1. Admitted(q) /\ "canceled" \in Ended /\ faults' \in Nat
      BY <1>5, MoveFacts DEF ServiceInv, CancelTypes
    <2> QED BY <1>1, <1>2, <1>3, <1>5, <2>1, IsFinished
  <1>6. CASE req[q].at = "wait" /\ req[q].stage < Running /\ free[req[q].stage + 1] > 0 /\ Fault
             /\ ReqIsGone(q) /\ FinishLosing(q)
    <2>1. Forgets(q) /\ CancelTypes' /\ ToldWhenGone
      BY <1>6, MoveFacts, FinishForgets DEF ServiceInv, CancelTypes
    <2>2. req[q].stage + 1 <= Running
      BY <1>6, OutsideHoldsNothing, CallsAssumption
    <2>3. Loses(q, r)
      BY <1>2, <1>6, <2>1, <2>2 DEF Loses, FinishLosing
    <2> QED BY <1>1, <1>2, <1>3, <1>6, <2>1, <2>3 DEF MovesOn, ServiceMove
  <1>7. CASE /\ req[q].at = "running"
             /\ req' = [req EXCEPT ![q].at = "killed", ![q].answer = "disconnected"]
             /\ cancelSet' = cancelSet \cup {Inv(q)}
             /\ UNCHANGED <<handle, terminal, free, lostPermits, cancelReq, faults>>
    <2>1. cancelSet' \subseteq Invocations
      BY <1>7 DEF ServiceInv, CancelTypes, Inv, Requests
    <2> QED BY <1>1, <1>7, <2>1, IsToBeStopped
  <1> QED BY <1>4, <1>5, <1>6, <1>7 DEF Disconnect

AttemptStep(q) ==
    \/ ReadAuthority(q) \/ Register(q) \/ Grant(q) \/ CanceledInQueue(q) \/ WaitTimesOut(q)
    \/ Begin(q) \/ Go(q) \/ ProcessEnds(q) \/ Closed(q) \/ Kill(q) \/ Killed(q) \/ PostCheck(q)
    \/ Unreadable(q) \/ Disconnect(q)

(* Every step of the service but those of a process moves its attempt on.  *)
LEMMA ServiceMoves ==
    ASSUME ServiceInv, NEW q \in Requests, AttemptStep(q)
    PROVE  MovesOn(q)
  BY ArrivingMoves, GrantMoves, QueueMoves, EndingMoves, KillMoves, UnreadableMoves, DisconnectMoves
     DEF AttemptStep

-----------------------------------------------------------------------------
(* The attempts that are still to be made *)

(* No attempt that was made is unmade, and none is made but by the worker. *)
NoneMade == \A p \in Requests : req[p].at = "none" => req'[p].at = "none"

NoneMadeBy(i) == \A m \in 0 .. MaxRetries : req[<<i, m>>].at = "none" => req'[<<i, m>>].at = "none"

(* How the executor of an invocation moves.                                *)
ExecMoves(i) ==
    \/ /\ exec'[i].at = exec[i].at /\ exec'[i].ordinal = exec[i].ordinal
       /\ call'[i].phase = "waiting" => call[i].phase = "waiting"
    \/ exec'[i].at \in {"cancel", "end"}
    \/ exec[i].at = "check" /\ exec'[i].at = "call" /\ exec'[i].ordinal = exec[i].ordinal
    \/ exec[i].at = "call" /\ exec'[i].at = "confirmed" /\ exec'[i].ordinal = exec[i].ordinal
    \/ /\ exec[i].at \in {"call", "confirmed"}
       /\ exec'[i].at = "check" /\ exec'[i].ordinal = exec[i].ordinal + 1

(* An attempt is made once: after it comes the next.                       *)
LEMMA ExecKept ==
    ASSUME WorkerTypes, NEW i \in Invocations, ExecInv(i), NoneMadeBy(i), ExecMoves(i)
    PROVE  ExecInv(i)'
  <1> DEFINE o == exec[i].ordinal
  <1>1. o \in 0 .. MaxRetries /\ MaxRetries \in Nat
    BY CallsAssumption DEF WorkerTypes, Exec
  <1>2. ASSUME NEW n \in Nat, Untried(i, n), NEW m \in n .. MaxRetries PROVE req'[<<i, m>>].at = "none"
    <2>1. m \in 0 .. MaxRetries
      BY <1>1
    <2> QED BY <1>2, <2>1 DEF NoneMadeBy, Untried
  <1> DEFINE U(n) == \A m \in n .. MaxRetries : req'[<<i, m>>].at = "none"
  <1>3. /\ exec[i].at = "check" => U(o) /\ U(o + 1)
        /\ exec[i].at \in {"call", "confirmed"} => U(o + 1)
        /\ exec[i].at = "call" /\ call[i].phase = "waiting" => U(o)
    <2>1. Untried(i, o) => U(o) /\ U(o + 1)
      BY <1>1, <1>2
    <2>2. Untried(i, o + 1) => U(o + 1)
      BY <1>1, <1>2
    <2> QED BY <2>1, <2>2 DEF ExecInv
  <1>4. SUFFICES /\ exec'[i].at = "check" => U(exec'[i].ordinal)
                 /\ exec'[i].at \in {"call", "confirmed"} => U(exec'[i].ordinal + 1)
                 /\ exec'[i].at = "call" /\ call'[i].phase = "waiting" => U(exec'[i].ordinal)
    BY DEF ExecInv, Untried
  <1> HIDE DEF U
  <1> QED BY <1>3 DEF ExecMoves

(* Of no invocation is one made, if none is made.                          *)
LEMMA NoneMadeByAny == NoneMade => \A i \in Invocations : NoneMadeBy(i)
  BY DEF NoneMade, NoneMadeBy, Requests

(* So the invariant is kept, and who is told "canceled" is told in time.   *)
LEMMA ServiceKeeps ==
    ASSUME CInv, NEW q \in Requests, AttemptStep(q)
    PROVE  CInv' /\ ToldWhenGone
  <1>1. MovesOn(q)
    BY ServiceMoves DEF CInv
  <1>2. PICK r : r.at # "none" /\ ServiceMove(q, r)
    BY <1>1 DEF MovesOn
  <1>3. ServiceInv'
    BY <1>1, <1>2, MovesTyped, MovesAttempts DEF CInv, ServiceInv, MovesOn
  <1>4. Ledger' /\ CanceledStaysCanceled'
    BY <1>2, MovesLedger, MovesCancels DEF CInv, ServiceInv
  <1>5. PoolInv'
    BY <1>1, PoolSame DEF CInv, MovesOn
  <1>6. WorkerInv'
    <2>1. NoneMade
      BY <1>1, <1>2 DEF CInv, ServiceInv, ServiceTypes, MovesOn, ServiceMove, NoneMade
    <2>2. exec' = exec /\ call' = call /\ leased' = leased /\ revoked' = revoked
      BY <1>1 DEF MovesOn, workerVars, poolVars
    <2>3. \A i \in Invocations : ExecInv(i)'
      BY <2>1, <2>2, NoneMadeByAny, ExecKept DEF CInv, WorkerInv, ExecMoves
    <2> QED BY <2>2, <2>3 DEF CInv, WorkerInv, WorkerTypes
  <1> QED BY <1>1, <1>3, <1>4, <1>5, <1>6 DEF CInv, MovesOn

-----------------------------------------------------------------------------
(* The steps of the worker *)

Works(i) ==
    /\ PoolInv' /\ ExecMoves(i) /\ leased' = leased /\ revoked' \in BOOLEAN /\ faults' \in Nat
    /\ \E y \in Call : Moves(i, y)
    /\ \E e \in Exec : exec' = [exec EXCEPT ![i] = e]

(* What is said of the executors stays true, if no attempt is made.        *)
LEMMA WorksKeep ==
    ASSUME CInv, NEW i \in Invocations, Works(i), NoneMade
    PROVE  WorkerInv'
  <1>1. PICK y \in Call : Moves(i, y)
    BY DEF Works
  <1>2. PICK e \in Exec : exec' = [exec EXCEPT ![i] = e]
    BY DEF Works
  <1>3. WorkerTypes /\ exec \in [Invocations -> Exec] /\ call \in [Callers -> Call]
    BY DEF CInv, WorkerInv, WorkerTypes, PoolInv, PoolTypeOK
  <1>4. exec' \in [Invocations -> Exec] /\ exec'[i] = e
        /\ \A j \in Invocations \ {i} : exec'[j] = exec[j] /\ call'[j] = call[j]
    BY <1>1, <1>2, <1>3 DEF Moves, Invocations
  <1>5. \A j \in Invocations : ExecInv(j)'
    <2>1. \A j \in Invocations : ExecMoves(j)
      BY <1>4 DEF Works, ExecMoves
    <2> QED BY <1>3, <2>1, NoneMadeByAny, ExecKept DEF CInv, WorkerInv
  <1> QED BY <1>3, <1>4, <1>5 DEF WorkerInv, WorkerTypes, Works

(* What the service knows stays what it is.                                *)
LEMMA ServiceSame ==
    ASSUME CInv, UNCHANGED serviceVars, cancelReq' \in [Invocations -> CancelState], faults' \in Nat
    PROVE  ServiceInv' /\ Ledger' /\ CanceledStaysCanceled' /\ NoneMade
  <1>1. /\ req' = req /\ handle' = handle /\ cancelSet' = cancelSet /\ terminal' = terminal
        /\ free' = free /\ lostPermits' = lostPermits
    BY DEF serviceVars, queueVars
  <1>2. ServiceInv'
    BY <1>1 DEF CInv, ServiceInv, ServiceTypes, CancelTypes, Attempts, ReqInv, Admitted
  <1>3. Ledger'
    BY <1>1 DEF CInv, Ledger, Holders, HeldBy, CapacityKept
  <1>4. CanceledStaysCanceled'
    BY <1>1 DEF CInv, CanceledStaysCanceled, StateOf
  <1> QED BY <1>1, <1>2, <1>3, <1>4 DEF NoneMade

(* A step of a worker that leaves the service alone.                       *)
LEMMA AloneKeeps ==
    ASSUME CInv, NEW i \in Invocations, Works(i), UNCHANGED serviceVars,
           cancelReq' \in [Invocations -> CancelState], ToldWhenGone
    PROVE  CInv' /\ ToldWhenGone
  <1>1. ServiceInv' /\ Ledger' /\ CanceledStaysCanceled' /\ NoneMade
    BY ServiceSame DEF Works
  <1>2. WorkerInv'
    BY <1>1, WorksKeep
  <1> QED BY <1>1, <1>2 DEF CInv, Works

(* The phases of an executor have their types.                             *)
LEMMA ExecTyped ==
    /\ \A x \in Exec, at \in ExecPhase :
          LET e == [x EXCEPT !.at = at]
          IN  e \in Exec /\ e.at = at /\ e.ordinal = x.ordinal
    /\ LET e == [NewExec EXCEPT !.at = "end"] IN e \in Exec /\ e.at = "end"
    /\ LET e == [NewExec EXCEPT !.at = "end", !.result = TRUE] IN e \in Exec /\ e.at = "end"
    /\ \A n \in 0 .. MaxRetries :
          LET e == [NewExec EXCEPT !.ordinal = n]
          IN  e \in Exec /\ e.at = "check" /\ e.ordinal = n
  <1>1. 0 \in 0 .. MaxRetries /\ NewExec \in Exec
    BY CallsAssumption DEF NewExec, Exec, ExecPhase, Answers
  <1> QED BY <1>1 DEF Exec, ExecPhase, NewExec

(* An executor that is left alone, goes to another phase or ends.          *)
LEMMA ExecSteps ==
    ASSUME CInv, NEW i \in Invocations
    PROVE  /\ exec' = exec =>
                 /\ \E e \in Exec : exec' = [exec EXCEPT ![i] = e]
                 /\ exec'[i].at = exec[i].at /\ exec'[i].ordinal = exec[i].ordinal
           /\ \A at \in ExecPhase : ExecGoes(i, at) =>
                 /\ \E e \in Exec : exec' = [exec EXCEPT ![i] = e]
                 /\ exec'[i].at = at /\ exec'[i].ordinal = exec[i].ordinal
           /\ ExecEnds(i) =>
                 /\ \E e \in Exec : exec' = [exec EXCEPT ![i] = e]
                 /\ exec'[i].at = "end"
           /\ ExecReturns(i) =>
                 /\ \E e \in Exec : exec' = [exec EXCEPT ![i] = e]
                 /\ exec'[i].at = "end"
           /\ Retries(i) =>
                 /\ Inactive \/ UNCHANGED <<revoked, faults>>
                 /\ \E e \in Exec : exec' = [exec EXCEPT ![i] = e]
                 /\ \/ exec'[i].at = "end"
                    \/ exec'[i].at = "check" /\ exec'[i].ordinal = exec[i].ordinal + 1
  <1>1. exec \in [Invocations -> Exec] /\ exec[i] \in Exec /\ exec[i].ordinal \in 0 .. MaxRetries
    BY DEF CInv, WorkerInv, WorkerTypes, Exec
  <1>2. exec' = exec =>
          /\ exec' = [exec EXCEPT ![i] = exec[i]]
          /\ exec'[i].at = exec[i].at /\ exec'[i].ordinal = exec[i].ordinal
    BY <1>1
  <1>3. ASSUME NEW at \in ExecPhase, ExecGoes(i, at)
        PROVE  /\ \E e \in Exec : exec' = [exec EXCEPT ![i] = e]
               /\ exec'[i].at = at /\ exec'[i].ordinal = exec[i].ordinal
    <2> DEFINE e == [exec[i] EXCEPT !.at = at]
    <2>1. e \in Exec /\ e.at = at /\ e.ordinal = exec[i].ordinal
      BY <1>1, ExecTyped
    <2>2. exec' = [exec EXCEPT ![i] = e]
      BY <1>3 DEF ExecGoes
    <2> HIDE DEF e
    <2> QED BY <1>1, <2>1, <2>2
  <1>4. ExecEnds(i) =>
          /\ \E e \in Exec : exec' = [exec EXCEPT ![i] = e]
          /\ exec'[i].at = "end"
    BY <1>1, ExecTyped DEF ExecEnds
  <1>5. ExecReturns(i) =>
          /\ \E e \in Exec : exec' = [exec EXCEPT ![i] = e]
          /\ exec'[i].at = "end"
    BY <1>1, ExecTyped DEF ExecReturns
  <1>6. ASSUME Retries(i)
        PROVE  /\ Inactive \/ UNCHANGED <<revoked, faults>>
               /\ \E e \in Exec : exec' = [exec EXCEPT ![i] = e]
               /\ \/ exec'[i].at = "end"
                  \/ exec'[i].at = "check" /\ exec'[i].ordinal = exec[i].ordinal + 1
    <2>1. CASE /\ exec[i].ordinal # MaxRetries /\ UNCHANGED <<revoked, faults>>
               /\ exec' = [exec EXCEPT ![i] = [NewExec EXCEPT !.ordinal = exec[i].ordinal + 1]]
      <3> DEFINE e == [NewExec EXCEPT !.ordinal = exec[i].ordinal + 1]
      <3>1. exec[i].ordinal + 1 \in 0 .. MaxRetries
        BY <1>1, <2>1, CallsAssumption
      <3>2. e \in Exec /\ e.at = "check" /\ e.ordinal = exec[i].ordinal + 1
        BY <3>1, ExecTyped
      <3>3. exec' = [exec EXCEPT ![i] = e]
        BY <2>1
      <3> HIDE DEF e
      <3> QED BY <1>1, <2>1, <3>2, <3>3
    <2>2. CASE ExecEnds(i) /\ (Inactive \/ UNCHANGED <<revoked, faults>>)
      BY <1>4, <2>2
    <2> QED BY <1>6, <2>1, <2>2 DEF Retries
  <1> QED BY <1>1, <1>2, <1>3, <1>4, <1>5, <1>6

(* What a worker's step does to the pool, the guard and the bound.         *)
LEMMA WorkerFacts ==
    ASSUME CInv, NEW i \in Invocations
    PROVE  /\ PoolStep(i) =>
                 PoolInv' /\ (\E y \in Call : Moves(i, y)) /\ call'[i].phase # "waiting"
           /\ StartCall(i, "execute") \/ StartCall(i, "control") \/ AbandonCall(i, Waiting("control")) =>
                 PoolInv' /\ \E y \in Call : Moves(i, y)
           /\ UNCHANGED poolVars =>
                 PoolInv' /\ (\E y \in Call : Moves(i, y)) /\ call'[i] = call[i]
           /\ Inactive => revoked' \in BOOLEAN /\ faults' \in Nat
           /\ Fault => faults' \in Nat
           /\ revoked \in BOOLEAN /\ faults \in Nat
           /\ cancelReq \in [Invocations -> CancelState]
           /\ cancelReq' = cancelReq => ToldWhenGone
  <1>1. /\ PoolInv /\ call \in [Callers -> Call] /\ i \in Callers
        /\ revoked \in BOOLEAN /\ faults \in Nat /\ cancelReq \in [Invocations -> CancelState]
    BY DEF CInv, PoolInv, PoolTypeOK, WorkerInv, WorkerTypes, ServiceInv, CancelTypes, Invocations
  <1>2. PoolStep(i) => PoolInv' /\ (\E y \in Call : Moves(i, y)) /\ call'[i].phase # "waiting"
    BY <1>1, PoolStepKeeps DEF Moves
  <1>3. StartCall(i, "execute") \/ StartCall(i, "control") \/ AbandonCall(i, Waiting("control")) =>
          PoolInv' /\ \E y \in Call : Moves(i, y)
    BY <1>1, WaitKeeps DEF Lanes
  <1>4. ASSUME UNCHANGED poolVars
        PROVE  PoolInv' /\ (\E y \in Call : Moves(i, y)) /\ call'[i] = call[i]
    <2>1. call' = call
      BY <1>4 DEF poolVars
    <2>2. call[i] \in Call /\ call' = [call EXCEPT ![i] = call[i]]
      BY <1>1, <2>1
    <2> QED BY <1>1, <1>4, <2>1, <2>2, PoolSame DEF Moves
  <1>5. Fault => faults' \in Nat
    BY <1>1 DEF Fault
  <1>6. Inactive => revoked' \in BOOLEAN /\ faults' \in Nat
    BY <1>1, <1>5 DEF Inactive
  <1>7. cancelReq' = cancelReq => ToldWhenGone
    BY DEF ToldWhenGone
  <1> QED BY <1>1, <1>2, <1>3, <1>4, <1>5, <1>6, <1>7

(* A step that leaves the service and the cancellations alone.             *)
LEMMA QuietKeeps ==
    ASSUME CInv, NEW i \in Invocations, Works(i), UNCHANGED <<serviceVars, cancelReq>>
    PROVE  CInv' /\ ToldWhenGone
  BY AloneKeeps, WorkerFacts

(* A check, and the call it starts.                                        *)
LEMMA CheckKeeps ==
    ASSUME CInv, NEW i \in Invocations, CheckAndCall(i)
    PROVE  CInv' /\ ToldWhenGone
  <1>1. CASE StartCall(i, "execute") /\ ExecGoes(i, "call") /\ UNCHANGED <<revoked, faults>>
    <2>1. "call" \in ExecPhase /\ exec[i].at = "check" /\ leased' = leased
      BY DEF ExecPhase, CheckAndCall
    <2>2. Works(i)
      BY <1>1, <2>1, WorkerFacts, ExecSteps DEF Works, ExecMoves
    <2> QED BY <2>2, QuietKeeps DEF CheckAndCall
  <1>2. CASE Inactive /\ ExecEnds(i) /\ UNCHANGED poolVars
    <2>1. leased' = leased
      BY DEF CheckAndCall
    <2>2. Works(i)
      BY <1>2, <2>1, WorkerFacts, ExecSteps DEF Works, ExecMoves
    <2> QED BY <2>2, QuietKeeps DEF CheckAndCall
  <1> QED BY <1>1, <1>2 DEF CheckAndCall

(* A step of the pool alone.                                               *)
LEMMA PoolAloneKeeps ==
    ASSUME CInv, NEW i \in Invocations, Breaks(i) \/ PoolWaits(i) \/ HandshakeFails(i)
    PROVE  CInv' /\ ToldWhenGone
  <1>1. PoolStep(i)
    BY DEF Breaks, PoolWaits, HandshakeFails, PoolStep
  <1>2. leased' = leased /\ revoked' = revoked /\ exec' = exec /\ UNCHANGED <<serviceVars, cancelReq>>
        /\ faults' \in Nat
    BY WorkerFacts DEF Breaks, PoolWaits, HandshakeFails, workerVars
  <1>3. Works(i)
    BY <1>1, <1>2, WorkerFacts, ExecSteps DEF Works, ExecMoves
  <1> QED BY <1>2, <1>3, QuietKeeps

(* A call has returned: it is tried again, or its answer looked at.        *)
LEMMA CallIsOverKeeps ==
    ASSUME CInv, NEW i \in Invocations, CallIsOver(i)
    PROVE  CInv' /\ ToldWhenGone
  <1>1. /\ PoolStep(i) /\ exec[i].at = "call" /\ leased' = leased
        /\ UNCHANGED <<serviceVars, cancelReq>>
    BY DEF CallIsOver, PoolStep
  <1>2. \/ ExecEnds(i) /\ (Inactive \/ UNCHANGED <<revoked, faults>>)
        \/ ExecGoes(i, "confirmed") /\ UNCHANGED <<revoked, faults>>
        \/ Retries(i)
    BY DEF CallIsOver, Confirm
  <1>3. revoked' \in BOOLEAN /\ faults' \in Nat
    BY <1>2, WorkerFacts, ExecSteps
  <1>4. "confirmed" \in ExecPhase
    BY DEF ExecPhase
  <1>5. ExecMoves(i) /\ \E e \in Exec : exec' = [exec EXCEPT ![i] = e]
    BY <1>1, <1>2, <1>4, ExecSteps DEF ExecMoves
  <1>6. Works(i)
    BY <1>1, <1>3, <1>5, WorkerFacts DEF Works
  <1> QED BY <1>1, <1>6, QuietKeeps

(* An answer that was looked at is taken.                                  *)
LEMMA AcceptKeeps ==
    ASSUME CInv, NEW i \in Invocations, Accept(i)
    PROVE  CInv' /\ ToldWhenGone
  <1>1. /\ UNCHANGED poolVars /\ exec[i].at = "confirmed" /\ leased' = leased
        /\ UNCHANGED <<serviceVars, cancelReq>>
    BY DEF Accept
  <1>2. \/ (ExecEnds(i) \/ ExecReturns(i)) /\ UNCHANGED <<revoked, faults>>
        \/ Retries(i)
    BY DEF Accept
  <1>3. revoked' \in BOOLEAN /\ faults' \in Nat
    BY <1>2, WorkerFacts, ExecSteps
  <1>4. ExecMoves(i) /\ \E e \in Exec : exec' = [exec EXCEPT ![i] = e]
    BY <1>1, <1>2, ExecSteps DEF ExecMoves
  <1>5. Works(i)
    BY <1>1, <1>3, <1>4, WorkerFacts DEF Works
  <1> QED BY <1>1, <1>5, QuietKeeps

(* A call is given up, for a cancellation or for nothing.                  *)
LEMMA GivingUpKeeps ==
    ASSUME CInv, NEW i \in Invocations, Revoke(i) \/ CancelTask(i)
    PROVE  CInv' /\ ToldWhenGone
  <1>1. leased' = leased /\ revoked' = revoked /\ UNCHANGED <<serviceVars, cancelReq>> /\ faults' \in Nat
    BY WorkerFacts DEF Revoke, CancelTask
  <1>2. CASE (StartCall(i, "control") \/ AbandonCall(i, Waiting("control"))) /\ ExecGoes(i, "cancel")
    <2>1. "cancel" \in ExecPhase
      BY DEF ExecPhase
    <2>2. Works(i)
      BY <1>1, <1>2, <2>1, WorkerFacts, ExecSteps DEF Works, ExecMoves
    <2> QED BY <1>1, <2>2, QuietKeeps
  <1>3. CASE ExecEnds(i) /\ UNCHANGED poolVars
    <2>1. Works(i)
      BY <1>1, <1>3, WorkerFacts, ExecSteps DEF Works, ExecMoves
    <2> QED BY <1>1, <2>1, QuietKeeps
  <1> QED BY <1>2, <1>3 DEF Revoke, CancelTask, GivesUp

(* A cancellation is asked for, and what comes of it.                      *)
LEMMA CancelingKeeps ==
    ASSUME CInv, NEW i \in Invocations, SendCancel(i) \/ ReceiveStatus(i) \/ CancelIsOver(i)
    PROVE  CInv' /\ ToldWhenGone
  <1>1. PoolStep(i) /\ leased' = leased /\ revoked' = revoked /\ UNCHANGED <<serviceVars, faults>>
    BY DEF SendCancel, ReceiveStatus, CancelIsOver, PoolStep, workerVars
  <1>2. exec' = exec \/ ExecEnds(i)
    BY DEF SendCancel, ReceiveStatus, CancelIsOver, workerVars
  <1>3. Works(i)
    BY <1>1, <1>2, WorkerFacts, ExecSteps DEF Works, ExecMoves
  <1>4. /\ "sent" \in CancelState \ {"canceled", "already_canceled"}
        /\ "none" \in CancelState \ {"canceled", "already_canceled"}
    BY DEF CancelState
  <1>5. cancelReq' \in [Invocations -> CancelState] /\ ToldWhenGone
    <2>1. \/ cancelReq' = cancelReq
          \/ cancelReq' = [cancelReq EXCEPT ![i] = "sent"]
          \/ cancelReq' = [cancelReq EXCEPT ![i] = "none"]
      BY WorkerFacts DEF SendCancel, ReceiveStatus, CancelIsOver
    <2> QED BY <1>4, <2>1, WorkerFacts DEF ToldWhenGone
  <1> QED BY <1>1, <1>3, <1>5, AloneKeeps

(* The service is not touched but for one request.                         *)
LEMMA RequestKeeps ==
    ASSUME CInv, NEW q \in Requests, NEW r \in Request, req' = [req EXCEPT ![q] = r],
           ~Admitted(q), ~InQueue(r), r.stage = 0, r.at # "answered",
           UNCHANGED <<queueVars, cancelReq, faults>>
    PROVE  ServiceInv' /\ Ledger' /\ CanceledStaysCanceled' /\ ToldWhenGone
  <1>1. r.stage = req[q].stage
    BY OutsideHoldsNothing DEF CInv
  <1>2. ServiceMove(q, r)
    BY <1>1 DEF ServiceMove, Passes, queueVars
  <1>3. CancelTypes' /\ ToldWhenGone
    BY DEF CInv, ServiceInv, CancelTypes, ToldWhenGone, queueVars
  <1> QED BY <1>2, <1>3, MovesTyped, MovesAttempts, MovesLedger, MovesCancels DEF CInv, ServiceInv

(* A request goes out, the first of its attempt.                           *)
LEMMA SendKeeps ==
    ASSUME CInv, NEW i \in Invocations, SendRequest(i)
    PROVE  CInv' /\ ToldWhenGone
  <1> DEFINE q == Mine(i)
             r == [req[q] EXCEPT !.at = "sent"]
             o == exec[i].ordinal
  <1>1. /\ exec[i].at = "call" /\ req' = [req EXCEPT ![q] = r]
        /\ leased' = leased /\ revoked' = revoked /\ exec' = exec
        /\ UNCHANGED <<queueVars, cancelReq, faults>>
    BY DEF SendRequest, workerVars
  <1>2. /\ PoolInv' /\ call'[i].phase = "calling" /\ call[i].phase = "waiting"
        /\ \A j \in Invocations \ {i} : call'[j] = call[j]
    BY AcquireKeeps DEF SendRequest, Acquire, CInv, Invocations, PoolInv, PoolTypeOK, Moves
  <1>3. /\ q \in Requests /\ q = <<i, o>> /\ o \in 0 .. MaxRetries /\ MaxRetries \in Nat
        /\ WorkerTypes /\ ExecInv(i) /\ req \in [Requests -> Request]
    BY CallsAssumption DEF CInv, WorkerInv, WorkerTypes, ServiceInv, ServiceTypes, Exec, Mine, Requests
  <1>4. req[q].at = "none" /\ Untried(i, o + 1)
    BY <1>1, <1>2, <1>3 DEF ExecInv, Untried
  <1>5. ~Admitted(q) /\ req[q].stage = 0
    BY <1>3, <1>4, MoveFacts, OutsideHoldsNothing DEF CInv
  <1>6. r \in Request /\ r.at = "sent" /\ r.stage = 0 /\ ~InQueue(r)
    <2>1. req[q] \in Request /\ "sent" \in ReqPhase
      BY <1>3 DEF ReqPhase
    <2> QED BY <1>5, <2>1 DEF Request, InQueue
  <1> HIDE DEF q, r, o
  <1>7. ServiceInv' /\ Ledger' /\ CanceledStaysCanceled' /\ ToldWhenGone
    BY <1>1, <1>3, <1>5, <1>6, RequestKeeps
  <1>8. \A p \in Requests \ {q} : req'[p] = req[p]
    BY <1>1, <1>3
  <1>9. ExecInv(i)'
    <2>1. \A m \in o + 1 .. MaxRetries : <<i, m>> \in Requests \ {q}
      BY <1>3 DEF Requests
    <2> QED BY <1>1, <1>2, <1>4, <1>8, <2>1 DEF ExecInv, Untried, o
  <1>10. ASSUME NEW j \in Invocations \ {i} PROVE ExecInv(j)'
    <2>1. NoneMadeBy(j)
      BY <1>3, <1>8 DEF NoneMadeBy, Requests
    <2>2. ExecMoves(j)
      BY <1>1, <1>2 DEF ExecMoves
    <2> QED BY <1>3, <2>1, <2>2, ExecKept DEF CInv, WorkerInv
  <1>11. WorkerInv'
    BY <1>1, <1>3, <1>9, <1>10 DEF WorkerInv, WorkerTypes
  <1> QED BY <1>2, <1>7, <1>11 DEF CInv

(* Its answer comes back.                                                  *)
LEMMA ReceiveKeeps ==
    ASSUME CInv, NEW i \in Invocations, ReceiveAnswer(i)
    PROVE  CInv' /\ ToldWhenGone
  <1> DEFINE q == Mine(i)
             r == [NewRequest EXCEPT !.at = "gone"]
             e == [exec[i] EXCEPT !.answer = req[q].answer, !.late = ~leased]
  <1>1. /\ exec[i].at = "call" /\ req[q].at = "answered" /\ req' = [req EXCEPT ![q] = r]
        /\ leased' = leased /\ revoked' = revoked /\ exec' = [exec EXCEPT ![i] = e]
        /\ UNCHANGED <<queueVars, cancelReq, faults>> /\ PoolStep(i)
    BY DEF ReceiveAnswer, PoolStep
  <1>2. /\ q \in Requests /\ exec \in [Invocations -> Exec] /\ req \in [Requests -> Request]
    BY DEF CInv, WorkerInv, WorkerTypes, ServiceInv, ServiceTypes, Exec, Mine, Requests
  <1>3. ~Admitted(q) /\ req[q].answer \in Answers
    BY <1>1, <1>2, MoveFacts, OutsideHoldsNothing DEF CInv
  <1>4. r \in Request /\ r.at = "gone" /\ r.stage = 0 /\ ~InQueue(r)
    BY GoneTyped
  <1>5. /\ e \in Exec /\ e.at = exec[i].at /\ e.ordinal = exec[i].ordinal
       
    <2>1. exec[i] \in Exec /\ req[q].answer \in Answers \cup {"none"}
      BY <1>2, <1>3
    <2> QED BY <2>1 DEF Exec
  <1> HIDE DEF q, r, e
  <1>6. ServiceInv' /\ Ledger' /\ CanceledStaysCanceled' /\ ToldWhenGone
    BY <1>1, <1>2, <1>3, <1>4, RequestKeeps
  <1>7. Works(i)
    <2>1. exec'[i] = e
      BY <1>1, <1>2
    <2> QED BY <1>1, <1>5, <2>1, WorkerFacts DEF Works, ExecMoves
  <1>8. NoneMade
    BY <1>1, <1>2 DEF NoneMade
  <1>9. WorkerInv'
    BY <1>7, <1>8, WorksKeep
  <1> QED BY <1>6, <1>7, <1>9 DEF CInv, Works

(* Every step of a worker.                                                 *)
LEMMA WorkerKeeps ==
    ASSUME CInv, NEW i \in Invocations,
           WorkerStep(i) \/ Breaks(i) \/ HandshakeFails(i) \/ CancelTask(i)
    PROVE  CInv' /\ ToldWhenGone
  BY CheckKeeps, PoolAloneKeeps, CallIsOverKeeps, AcceptKeeps, GivingUpKeeps, CancelingKeeps, SendKeeps,
     ReceiveKeeps
     DEF WorkerStep

-----------------------------------------------------------------------------
(* The other steps *)

(* What does not depend on the cancellations and the lease stays.          *)
LEMMA RestKeeps ==
    ASSUME CInv, UNCHANGED <<poolVars, exec, req, handle, terminal, free, lostPermits>>,
           faults' \in Nat, leased' \in BOOLEAN, revoked' \in BOOLEAN, cancelSet' \subseteq Invocations,
           cancelReq' \in [Invocations -> CancelState]
    PROVE  CInv'
  <1>1. PoolInv'
    BY PoolSame DEF CInv
  <1>2. req' = req /\ handle' = handle /\ terminal' = terminal /\ free' = free
        /\ lostPermits' = lostPermits /\ exec' = exec /\ call' = call
    BY DEF poolVars
  <1>3. ServiceInv'
    BY <1>2 DEF CInv, ServiceInv, ServiceTypes, CancelTypes, Attempts, ReqInv, Admitted
  <1>4. Ledger' /\ CanceledStaysCanceled'
    BY <1>2 DEF CInv, Ledger, Holders, HeldBy, CapacityKept, CanceledStaysCanceled, StateOf
  <1>5. \A i \in Invocations : ExecInv(i)'
    BY <1>2 DEF CInv, WorkerInv, ExecInv, Untried
  <1> QED BY <1>1, <1>2, <1>3, <1>4, <1>5 DEF CInv, WorkerInv, WorkerTypes

(* A cancellation arrives, or waits no longer.                             *)
LEMMA CancelKeeps ==
    ASSUME CInv, NEW i \in Invocations, CancelArrives(i) \/ CancelTimesOut(i)
    PROVE  CInv' /\ ToldWhenGone
  <1>1. cancelReq \in [Invocations -> CancelState] /\ cancelSet \subseteq Invocations
        /\ leased \in BOOLEAN /\ revoked \in BOOLEAN /\ faults \in Nat
    BY DEF CInv, ServiceInv, CancelTypes, WorkerInv, WorkerTypes
  <1>2. /\ UNCHANGED <<poolVars, exec, req, handle, terminal, free, lostPermits, faults>>
        /\ leased' = leased /\ revoked' = revoked /\ cancelSet' \subseteq Invocations
    BY <1>1 DEF CancelArrives, CancelTimesOut, workerVars, serviceVars, queueVars
  <1>3. PICK state \in {"waiting", "not_found", "already_canceled", "already_finished", "cancel_pending"} :
          /\ cancelReq' = [cancelReq EXCEPT ![i] = state]
          /\ state = "already_canceled" => handle[i] = None
    BY DEF CancelArrives, CancelTimesOut
  <1>4. cancelReq' \in [Invocations -> CancelState]
    BY <1>1, <1>3 DEF CancelState, CancelStatus
  <1>5. ToldWhenGone
    BY <1>1, <1>2, <1>3 DEF ToldWhenGone
  <1>6. CInv'
    <2>1. faults' \in Nat /\ UNCHANGED <<poolVars, exec, req, handle, terminal, free, lostPermits>>
      BY <1>1, <1>2
    <2> QED BY <1>1, <1>2, <1>4, <2>1, RestKeeps
  <1> QED BY <1>5, <1>6

(* A process ends, or is gone: the attempts do not see it at once.         *)
LEMMA ProcessKeeps ==
    ASSUME CInv, NEW q \in Requests, Computes(q) \/ Exits(q)
    PROVE  CInv' /\ ToldWhenGone
  <1>1. /\ UNCHANGED <<poolVars, exec, req, handle, terminal, free, lostPermits>>
        /\ cancelSet' = cancelSet /\ cancelReq' = cancelReq /\ leased' = leased /\ revoked' = revoked
    BY DEF Computes, Exits, InService, workerVars, queueVars
  <1>2. /\ cancelSet \subseteq Invocations /\ cancelReq \in [Invocations -> CancelState]
        /\ faults \in Nat /\ leased \in BOOLEAN /\ revoked \in BOOLEAN
    BY DEF CInv, ServiceInv, CancelTypes, WorkerInv, WorkerTypes
  <1>3. faults' \in Nat
    BY <1>2 DEF Computes, Exits, InService, Fault
  <1>4. ToldWhenGone
    BY <1>1 DEF ToldWhenGone
  <1>5. CInv'
    BY <1>1, <1>2, <1>3, RestKeeps
  <1> QED BY <1>4, <1>5

(* The lease is lost, and that is noticed.                                 *)
LEMMA LeaseKeeps ==
    ASSUME CInv, LoseLease \/ Heartbeat
    PROVE  CInv' /\ ToldWhenGone
  <1>1. /\ UNCHANGED <<poolVars, exec, req, handle, terminal, free, lostPermits>> /\ faults' = faults
        /\ cancelSet' = cancelSet /\ cancelReq' = cancelReq
        /\ leased' \in BOOLEAN /\ revoked' \in BOOLEAN
    BY DEF LoseLease, Heartbeat, CInv, WorkerInv, WorkerTypes, workerVars, serviceVars, queueVars
  <1>2. /\ cancelSet' \subseteq Invocations /\ cancelReq' \in [Invocations -> CancelState]
        /\ faults' \in Nat /\ ToldWhenGone
    BY <1>1 DEF CInv, ServiceInv, CancelTypes, ToldWhenGone
  <1> QED BY <1>1, <1>2, RestKeeps

(* The service restarts, and everything it held is free.                   *)
LEMMA RestartKeeps ==
    ASSUME CInv, Restart
    PROVE  CInv' /\ ToldWhenGone
  <1> DEFINE gone == [NewRequest EXCEPT !.at = "gone"]
  <1>1. /\ req' = [q \in Requests |-> IF req[q].at \in {"none", "sent"} THEN req[q] ELSE gone]
        /\ handle' = [i \in Invocations |-> None] /\ cancelSet' = {} /\ terminal' = <<>>
        /\ free' = Permits /\ lostPermits' = [s \in Semaphores |-> 0]
        /\ cancelReq' = [i \in Invocations |-> IF cancelReq[i] \in {"none", "sent"} THEN cancelReq[i]
                                               ELSE "gone"]
    BY DEF Restart
  <1>2. UNCHANGED poolVars /\ call' = call /\ leased' = leased /\ revoked' = revoked /\ exec' = exec
    BY DEF Restart, workerVars, poolVars
  <1>3. gone \in Request /\ gone.at = "gone" /\ gone.stage = 0
    BY GoneTyped
  <1> HIDE DEF gone
  <1>4. \A q \in Requests : /\ req'[q] \in Request /\ req'[q].stage = 0
                            /\ req'[q].at \in {"none", "sent", "gone"}
                            /\ req[q].at = "none" => req'[q].at = "none"
    <2>1. SUFFICES ASSUME NEW q \in Requests
                   PROVE  /\ req'[q] \in Request /\ req'[q].stage = 0
                          /\ req'[q].at \in {"none", "sent", "gone"}
                          /\ req[q].at = "none" => req'[q].at = "none"
      OBVIOUS
    <2>2. req[q] \in Request /\ (req[q].at \in {"none", "sent"} => req[q].stage = 0)
      BY MoveFacts, OutsideHoldsNothing DEF CInv
    <2> QED BY <1>1, <1>3, <2>2
  <1>5. ServiceTypes'
    <2>1. Permits \in [Semaphores -> Nat] /\ <<>> \in Seq(Invocations \X Ended)
      BY CallsAssumption
    <2> QED BY <1>1, <1>4, <2>1 DEF ServiceTypes
  <1>6. Attempts'
    BY <1>4 DEF Attempts, ReqInv, Admitted
  <1>7. "gone" \in CancelState /\ faults' \in Nat /\ cancelReq \in [Invocations -> CancelState]
    BY MoveFacts DEF Restart, Fault, CInv, ServiceInv, CancelTypes, CancelState
  <1>8. CancelTypes' /\ ToldWhenGone
    BY <1>1, <1>7 DEF CancelTypes, ToldWhenGone
  <1>9. Ledger'
    <2>1. \A s \in Semaphores : Holders(s)' = {}
      BY <1>4 DEF Holders, HeldBy, Semaphores
    <2>2. \A s \in Semaphores : Permits[s] \in Nat
      BY CallsAssumption
    <2>3. ASSUME NEW s \in Semaphores
          PROVE  /\ IsFiniteSet(Holders(s)')
                 /\ free'[s] + lostPermits'[s] + Cardinality(Holders(s)') = Permits[s]
      <3>1. free'[s] = Permits[s] /\ lostPermits'[s] = 0 /\ Permits[s] \in Nat
        BY <1>1, <2>2
      <3>2. IsFiniteSet(Holders(s)') /\ Cardinality(Holders(s)') = 0
        BY <2>1, FS_EmptySet
      <3> QED BY <3>1, <3>2
    <2> QED BY <2>3 DEF Ledger, CapacityKept, Holders
  <1>10. CanceledStaysCanceled'
    BY <1>1 DEF CanceledStaysCanceled
  <1>11. PoolInv'
    BY <1>2, PoolSame DEF CInv
  <1>12. WorkerInv'
    <2>1. NoneMade
      BY <1>4 DEF NoneMade
    <2>2. \A i \in Invocations : ExecInv(i)'
      BY <1>2, <2>1, NoneMadeByAny, ExecKept DEF CInv, WorkerInv, ExecMoves
    <2> QED BY <1>2, <2>2 DEF CInv, WorkerInv, WorkerTypes
  <1> QED BY <1>5, <1>6, <1>8, <1>9, <1>10, <1>11, <1>12 DEF CInv, ServiceInv

-----------------------------------------------------------------------------
(* The invariant *)

(* It holds at first.                                                      *)
LEMMA Starts == Init => CInv
  <1> SUFFICES ASSUME Init PROVE CInv
    OBVIOUS
  <1>1. PoolInv
    BY PoolStarts DEF Init
  <1>2. NewExec \in Exec /\ NewExec.at = "check"
    BY CallsAssumption DEF NewExec, Exec, ExecPhase, Answers
  <1>3. NewRequest \in Request /\ NewRequest.at = "none" /\ NewRequest.stage = 0
    BY CallsAssumption DEF NewRequest, Request, ReqPhase
  <1>4. \A q \in Requests : req[q] = NewRequest
    BY DEF Init
  <1>5. WorkerInv
    <2>1. \A i \in Invocations : exec[i] = NewExec /\ exec[i].ordinal \in Nat
      BY <1>2, CallsAssumption DEF Init, Exec
    <2>2. \A i \in Invocations, n \in Nat : Untried(i, n)
      BY <1>3, <1>4, CallsAssumption DEF Untried, Requests
    <2>3. \A i \in Invocations : ExecInv(i)
      BY <2>1, <2>2 DEF ExecInv
    <2> QED BY <1>2, <2>3 DEF Init, WorkerInv, WorkerTypes
  <1>6. ServiceInv
    <2>1. Permits \in [Semaphores -> Nat] /\ <<>> \in Seq(Invocations \X Ended) /\ "none" \in CancelState
      BY CallsAssumption DEF CancelState
    <2>2. ServiceTypes /\ CancelTypes
      BY <1>3, <2>1 DEF Init, ServiceTypes, CancelTypes
    <2>3. Attempts
      BY <1>3, <1>4 DEF Attempts, ReqInv, Admitted
    <2> QED BY <2>2, <2>3 DEF ServiceInv
  <1>7. Ledger
    <2>1. \A s \in Semaphores : Holders(s) = {}
      BY <1>3, <1>4 DEF Holders, HeldBy, Semaphores
    <2>2. \A s \in Semaphores : Permits[s] \in Nat /\ free[s] = Permits[s] /\ lostPermits[s] = 0
      BY CallsAssumption DEF Init
    <2>3. ASSUME NEW s \in Semaphores
          PROVE  /\ IsFiniteSet(Holders(s))
                 /\ free[s] + lostPermits[s] + Cardinality(Holders(s)) = Permits[s]
      <3>1. IsFiniteSet(Holders(s)) /\ Cardinality(Holders(s)) = 0
        BY <2>1, FS_EmptySet
      <3> QED BY <2>2, <3>1
    <2> QED BY <2>3 DEF Ledger, CapacityKept, Holders
  <1>8. CanceledStaysCanceled
    BY DEF Init, CanceledStaysCanceled
  <1> QED BY <1>1, <1>5, <1>6, <1>7, <1>8 DEF CInv

(* Every step keeps it, and does what the action properties say.           *)
LEMMA Steps ==
    ASSUME CInv, [Next]_vars
    PROVE  CInv' /\ ToldWhenGone
  <1>1. CASE UNCHANGED vars
    <2>1. UNCHANGED <<poolVars, exec, req, handle, terminal, free, lostPermits>> /\ faults' = faults
          /\ cancelSet' = cancelSet /\ cancelReq' = cancelReq /\ leased' = leased /\ revoked' = revoked
      BY <1>1 DEF vars, workerVars, serviceVars, queueVars
    <2>2. leased' \in BOOLEAN /\ revoked' \in BOOLEAN /\ cancelSet' \subseteq Invocations
          /\ cancelReq' \in [Invocations -> CancelState] /\ faults' \in Nat /\ ToldWhenGone
      BY <2>1 DEF CInv, ServiceInv, CancelTypes, WorkerInv, WorkerTypes, ToldWhenGone
    <2> QED BY <2>1, <2>2, RestKeeps
  <1>2. CASE Next
    <2>1. ASSUME NEW i \in Invocations,
                 WorkerStep(i) \/ Breaks(i) \/ HandshakeFails(i) \/ CancelTask(i)
          PROVE  CInv' /\ ToldWhenGone
      BY <2>1, WorkerKeeps
    <2>2. ASSUME NEW i \in Invocations, CancelArrives(i) \/ CancelTimesOut(i)
          PROVE  CInv' /\ ToldWhenGone
      BY <2>2, CancelKeeps
    <2>3. ASSUME NEW q \in Requests, ServiceStep(q) \/ Unreadable(q) \/ Disconnect(q)
          PROVE  CInv' /\ ToldWhenGone
      BY <2>3, ServiceKeeps, ProcessKeeps DEF ServiceStep, AttemptStep
    <2> QED BY <1>2, <2>1, <2>2, <2>3, LeaseKeeps, RestartKeeps DEF Next
  <1> QED BY <1>1, <1>2

(* In every reachable state.                                               *)
LEMMA Kept == Spec => []CInv
  <1>1. CInv /\ [Next]_vars => CInv'
    BY Steps
  <1> QED BY Starts, <1>1, PTL DEF Spec

-----------------------------------------------------------------------------
(* The processes: one computes only for the attempt that runs in it, is    *)
(* there after its value only for one that joins it or failed, and is      *)
(* stopped only for one that waits for that or has gone.                   *)

ProcInv(q) ==
    /\ proc[q] = "computing" => req[q].at = "running"
    /\ proc[q] = "ended" => req[q].at \in {"running", "closing", "answered", "gone"}
    /\ proc[q] = "stopping" => req[q].at \in {"killed", "gone"}
Procs == proc \in [Requests -> Process] /\ \A q \in Requests : ProcInv(q)

(* What a step does to one attempt and its process.                        *)
OneMoves(q) ==
    /\ \A p \in Requests \ {q} : req'[p].at = req[p].at /\ proc'[p] = proc[p]
    /\ proc' \in [Requests -> Process] /\ ProcInv(q)'

(* The invariant of the processes is kept by it.                           *)
LEMMA OneMovesKeeps ==
    ASSUME Procs, NEW q \in Requests, OneMoves(q)
    PROVE  Procs'
  BY DEF Procs, ProcInv, OneMoves

(* Before it runs an attempt has no process, and one it leaves behind is   *)
(* not computing.                                                          *)
LEMMA RestingKept ==
    ASSUME ServiceTypes, Procs, NEW q \in Requests, NEW r, req' = [req EXCEPT ![q] = r], proc' = proc,
           \/ proc[q] = "none"
           \/ proc[q] = "ended" /\ r.at \in {"closing", "answered"}
           \/ r.at = "gone" /\ (req[q].at # "running" \/ proc[q] # "computing")
    PROVE  Procs'
  <1>1. req'[q] = r /\ \A p \in Requests \ {q} : req'[p] = req[p]
    BY DEF ServiceTypes
  <1>2. OneMoves(q)
    BY <1>1 DEF OneMoves, Procs, ProcInv
  <1> QED BY <1>2, OneMovesKeeps

(* A step of the service.                                                  *)
LEMMA ServiceProcs ==
    ASSUME ServiceTypes, Procs, NEW q \in Requests, ServiceStep(q) \/ Unreadable(q) \/ Disconnect(q)
    PROVE  Procs'
  <1>1. CASE \/ ReadAuthority(q) \/ Register(q) \/ Grant(q) \/ CanceledInQueue(q) \/ WaitTimesOut(q)
             \/ Begin(q) \/ PostCheck(q) \/ Unreadable(q)
    <2>1. req[q].at \in {"sent", "register", "wait", "post"} /\ proc' = proc
      BY <1>1 DEF ReadAuthority, Register, Grant, CanceledInQueue, WaitTimesOut, Begin, PostCheck, Unreadable
    <2>2. \E r : req' = [req EXCEPT ![q] = r]
      <3>1. \/ req' = req
            \/ \E at : ReqGoes(q, at)
            \/ \E answer : ReqAnswers(q, answer)
            \/ Grant(q)
        BY <1>1 DEF ReadAuthority, Register, CanceledInQueue, WaitTimesOut, Begin, PostCheck, Unreadable, Ends
      <3> QED BY <3>1 DEF ReqGoes, ReqAnswers, Grant, ServiceTypes
    <2>3. proc[q] = "none"
      BY <2>1 DEF Procs, ProcInv, Process
    <2> QED BY <2>1, <2>2, <2>3, RestingKept
  <1>2. CASE Go(q)
    <2>1. CASE ReqGoes(q, "running") /\ Becomes(q, "computing")
      <3>1. OneMoves(q)
        BY <2>1 DEF OneMoves, ReqGoes, Becomes, ServiceTypes, Procs, ProcInv, Process
      <3> QED BY <3>1, OneMovesKeeps
    <2>2. CASE Ends(q, "canceled", "canceled") /\ UNCHANGED proc
      <3>1. proc[q] = "none"
        BY <1>2 DEF Go, Procs, ProcInv, Process
      <3> QED BY <2>2, <3>1, RestingKept DEF Ends, ReqAnswers
    <2> QED BY <1>2, <2>1, <2>2 DEF Go
  <1>3. CASE ProcessEnds(q)
    <2>1. proc' = proc /\ proc[q] \in {"none", "ended"}
      BY <1>3 DEF ProcessEnds, Procs, ProcInv, Process
    <2>2. \E r : req' = [req EXCEPT ![q] = r] /\ r.at \in {"closing", "answered"}
      <3>1. CASE ReqGoes(q, "closing")
        <4>1. [req[q] EXCEPT !.at = "closing"].at = "closing"
          BY DEF ServiceTypes, Request
        <4> QED BY <3>1, <4>1 DEF ReqGoes
      <3>2. CASE Ends(q, "finished", "result")
        <4> DEFINE r == [at |-> "answered", stage |-> 0, answer |-> "result"]
        <4>1. req' = [req EXCEPT ![q] = r] /\ r.at = "answered"
          BY <3>2 DEF Ends, ReqAnswers
        <4> HIDE DEF r
        <4> QED BY <4>1
      <3> QED BY <1>3, <3>1, <3>2 DEF ProcessEnds
    <2> QED BY <2>1, <2>2, RestingKept
  <1>4. CASE Closed(q) \/ Killed(q)
    <2>1. proc' = proc /\ proc[q] = "none"
      BY <1>4 DEF Closed, Killed
    <2>2. \E r : req' = [req EXCEPT ![q] = r]
      BY <1>4 DEF Closed, Killed, Ends, ReqAnswers, ReqIsGone
    <2> QED BY <2>1, <2>2, RestingKept
  <1>5. ASSUME NEW answer, req' = [req EXCEPT ![q].at = "killed", ![q].answer = answer],
               Becomes(q, Stopped(q))
        PROVE  Procs'
    <2>1. OneMoves(q)
      BY <1>5 DEF OneMoves, Becomes, Stopped, ServiceTypes, Procs, ProcInv, Process, Request
    <2> QED BY <2>1, OneMovesKeeps
  <1>6. CASE Kill(q)
    BY <1>5, <1>6 DEF Kill
  <1>7. CASE Disconnect(q)
    <2>1. \/ ReqIsGone(q) /\ proc' = proc /\ (req[q].at # "running" \/ proc[q] # "computing")
          \/ /\ req' = [req EXCEPT ![q].at = "killed", ![q].answer = "disconnected"]
             /\ Becomes(q, Stopped(q))
      BY <1>7 DEF Disconnect
    <2>2. CASE ReqIsGone(q) /\ proc' = proc /\ (req[q].at # "running" \/ proc[q] # "computing")
      <3> DEFINE r == [NewRequest EXCEPT !.at = "gone"]
      <3>1. r.at = "gone" /\ req' = [req EXCEPT ![q] = r]
        BY <2>2, GoneTyped DEF ReqIsGone
      <3> HIDE DEF r
      <3> QED BY <2>2, <3>1, RestingKept
    <2> QED BY <1>5, <2>1, <2>2
  <1>8. CASE Computes(q) \/ Exits(q)
    <2>1. OneMoves(q)
      BY <1>8 DEF Computes, Exits, OneMoves, Becomes, Procs, ProcInv, Process
    <2> QED BY <2>1, OneMovesKeeps
  <1> QED BY <1>1, <1>2, <1>3, <1>4, <1>6, <1>7, <1>8 DEF ServiceStep

(* A worker only sends requests, and takes answers away.                   *)
LEMMA WorkerProcs ==
    ASSUME CInv, Procs, NEW i \in Invocations,
           WorkerStep(i) \/ Breaks(i) \/ HandshakeFails(i) \/ CancelTask(i)
    PROVE  Procs'
  <1>1. proc' = proc /\ (req' = req \/ SendRequest(i) \/ ReceiveAnswer(i))
    BY DEF WorkerStep, CheckAndCall, SendRequest, ReceiveAnswer, PoolWaits, CallIsOver, Accept, Revoke,
           SendCancel, ReceiveStatus, CancelIsOver, Breaks, HandshakeFails, CancelTask, serviceVars
  <1>2. CASE req' = req
    BY <1>1, <1>2 DEF Procs, ProcInv
  <1>3. Mine(i) \in Requests /\ ServiceTypes
    BY DEF CInv, ServiceInv, WorkerInv, WorkerTypes, Exec, Mine, Requests
  <1>4. CASE SendRequest(i)
    <2>1. req[Mine(i)].at = "none"
      <3>1. exec[i].ordinal \in 0 .. MaxRetries /\ MaxRetries \in Nat
        BY CallsAssumption DEF CInv, WorkerInv, WorkerTypes, Exec
      <3> QED BY <1>4, <3>1 DEF SendRequest, Acquire, CInv, WorkerInv, ExecInv, Untried, Mine
    <2> DEFINE r == [req[Mine(i)] EXCEPT !.at = "sent"]
    <2>2. req' = [req EXCEPT ![Mine(i)] = r]
      BY <1>4 DEF SendRequest
    <2>3. proc[Mine(i)] = "none"
      BY <1>3, <2>1 DEF Procs, ProcInv, Process
    <2> HIDE DEF r
    <2> QED BY <1>1, <1>3, <2>2, <2>3, RestingKept
  <1>5. CASE ReceiveAnswer(i)
    <2>1. /\ req[Mine(i)].at = "answered"
          /\ \E r : r.at = "gone" /\ req' = [req EXCEPT ![Mine(i)] = r]
      BY <1>5, GoneTyped DEF ReceiveAnswer
    <2> QED BY <1>1, <1>3, <2>1, RestingKept
  <1> QED BY <1>1, <1>2, <1>4, <1>5

(* In every reachable state.                                               *)
LEMMA ProcsKept == Spec => []Procs
  <1>1. Init => Procs
    BY DEF Init, Procs, ProcInv, Process
  <1>2. CInv /\ Procs /\ [Next]_vars => Procs'
    <2> SUFFICES ASSUME CInv, Procs, [Next]_vars PROVE Procs'
      OBVIOUS
    <2>1. CASE req' = req /\ proc' = proc
      BY <2>1 DEF Procs, ProcInv
    <2>2. CASE Restart
      BY <2>2 DEF Restart, Procs, ProcInv, Process
    <2>3. ASSUME UNCHANGED vars \/ LoseLease \/ Heartbeat
                   \/ \E i \in Invocations : CancelArrives(i) \/ CancelTimesOut(i)
          PROVE  req' = req /\ proc' = proc
      BY <2>3 DEF vars, serviceVars, LoseLease, Heartbeat, CancelArrives, CancelTimesOut
    <2> QED BY <2>1, <2>2, <2>3, WorkerProcs, ServiceProcs DEF Next, CInv, ServiceInv
  <1> QED BY Kept, <1>1, <1>2, PTL DEF Spec

-----------------------------------------------------------------------------
(* The answers: one that came late came when the lease was lost, and is    *)
(* not let past the last look at it.                                       *)

LateInv(i) ==
    /\ exec[i].late => ~leased
    /\ exec[i].at = "confirmed" => ~exec[i].late
Lates == \A i \in Invocations : LateInv(i)

(* The executor that moves, and the others.                                *)
LEMMA LateMoves ==
    ASSUME WorkerTypes, Lates, NEW i \in Invocations, leased' = leased, NEW e,
           exec' = [exec EXCEPT ![i] = e],
           e.late => ~leased, e.at = "confirmed" => ~e.late
    PROVE  Lates'
  BY DEF WorkerTypes, Lates, LateInv

(* A new executor, and one that ends, has nothing late.                    *)
LEMMA NothingLate ==
    ASSUME NEW n
    PROVE  /\ LET e == [NewExec EXCEPT !.at = "end"]
              IN  ~e.late /\ ~e.result
           /\ ~[NewExec EXCEPT !.at = "end", !.result = TRUE].late
           /\ LET e == [NewExec EXCEPT !.ordinal = n]
              IN  ~e.late /\ ~e.result
  BY DEF NewExec

(* A step of a worker.                                                     *)
LEMMA WorkerLates ==
    ASSUME WorkerTypes, Lates, NEW i \in Invocations,
           WorkerStep(i) \/ Breaks(i) \/ HandshakeFails(i) \/ CancelTask(i)
    PROVE  Lates' /\ \A j \in Invocations : exec'[j].result /\ ~exec[j].result => ~exec[j].late
  <1>1. leased' = leased
    BY DEF WorkerStep, CheckAndCall, SendRequest, ReceiveAnswer, PoolWaits, CallIsOver, Accept, Revoke,
           SendCancel, ReceiveStatus, CancelIsOver, Breaks, HandshakeFails, CancelTask, workerVars
  <1>2. exec[i] \in Exec /\ exec \in [Invocations -> Exec] /\ leased \in BOOLEAN
    BY DEF WorkerTypes
  <1>3. \/ exec' = exec \/ ExecEnds(i) \/ Retries(i) \/ ReceiveAnswer(i)
        \/ \E at \in {"call", "cancel"} : ExecGoes(i, at)
        \/ Active /\ ExecGoes(i, "confirmed")
        \/ exec[i].at = "confirmed" /\ ExecReturns(i)
    BY DEF WorkerStep, CheckAndCall, SendRequest, PoolWaits, CallIsOver, Confirm, Accept, Revoke, GivesUp,
           SendCancel, ReceiveStatus, CancelIsOver, Breaks, HandshakeFails, CancelTask, workerVars
  <1>4. PICK e : /\ exec' = [exec EXCEPT ![i] = e]
                 /\ e.late => ~leased
                 /\ e.at = "confirmed" => ~e.late
                 /\ e.result /\ ~exec[i].result => exec[i].at = "confirmed"
    <2>1. CASE exec' = exec
      BY <1>2, <2>1 DEF Lates, LateInv
    <2>2. CASE ExecEnds(i)
      BY <2>2, NothingLate DEF ExecEnds
    <2>3. CASE Retries(i)
      BY <2>3, NothingLate DEF Retries, ExecEnds
    <2>4. CASE ReceiveAnswer(i)
      <3> DEFINE e == [exec[i] EXCEPT !.answer = req[Mine(i)].answer, !.late = ~leased]
      <3>1. exec' = [exec EXCEPT ![i] = e] /\ exec[i].at = "call"
        BY <2>4 DEF ReceiveAnswer
      <3>2. e.late = ~leased /\ e.at = exec[i].at /\ e.result = exec[i].result
        BY <1>2 DEF Exec
      <3> HIDE DEF e
      <3> QED BY <3>1, <3>2
    <2>5. ASSUME NEW at, ExecGoes(i, at)
          PROVE  \E e : /\ exec' = [exec EXCEPT ![i] = e]
                        /\ e.late = exec[i].late /\ e.at = at /\ e.result = exec[i].result
      <3> DEFINE e == [exec[i] EXCEPT !.at = at]
      <3>1. exec' = [exec EXCEPT ![i] = e]
        BY <2>5 DEF ExecGoes
      <3>2. e.late = exec[i].late /\ e.at = at /\ e.result = exec[i].result
        BY <1>2 DEF Exec
      <3> HIDE DEF e
      <3> QED BY <3>1, <3>2
    <2>6. CASE \E at \in {"call", "cancel"} : ExecGoes(i, at)
      BY <2>5, <2>6 DEF Lates, LateInv
    <2>7. CASE Active /\ ExecGoes(i, "confirmed")
      BY <2>5, <2>7 DEF Lates, LateInv, Active
    <2>8. CASE exec[i].at = "confirmed" /\ ExecReturns(i)
      BY <2>8, NothingLate DEF ExecReturns
    <2> QED BY <1>3, <2>1, <2>2, <2>3, <2>4, <2>6, <2>7, <2>8
  <1>5. Lates'
    BY <1>1, <1>4, LateMoves
  <1>6. exec'[i] = e /\ \A j \in Invocations \ {i} : exec'[j] = exec[j]
    BY <1>2, <1>4
  <1> QED BY <1>4, <1>5, <1>6 DEF Lates, LateInv

(* No other step touches an executor, or gives a lease back.               *)
LEMMA OtherLates ==
    ASSUME Lates, [Next]_vars,
           ~\E i \in Invocations : WorkerStep(i) \/ Breaks(i) \/ HandshakeFails(i) \/ CancelTask(i)
    PROVE  exec' = exec /\ Lates'
  <1>1. exec' = exec /\ (leased' = leased \/ ~leased')
    <2>1. CASE \/ UNCHANGED vars \/ LoseLease \/ Heartbeat \/ Restart
               \/ \E i \in Invocations : CancelArrives(i) \/ CancelTimesOut(i)
      BY <2>1 DEF vars, workerVars, LoseLease, Heartbeat, Restart, CancelArrives, CancelTimesOut
    <2>2. ASSUME NEW q \in Requests, ServiceStep(q) \/ Unreadable(q) \/ Disconnect(q)
          PROVE  exec' = exec /\ leased' = leased
      BY <2>2 DEF ServiceStep, ReadAuthority, Register, Grant, CanceledInQueue, WaitTimesOut, Begin, Go,
                  ProcessEnds, Closed, Kill, Killed, PostCheck, Computes, Exits, Unreadable, Disconnect,
                  InService, workerVars
    <2> QED BY <2>1, <2>2 DEF Next
  <1> QED BY <1>1 DEF Lates, LateInv

(* What a step says of the answers.                                        *)
LEMMA ResultsInTime ==
    ASSUME CInv, Lates, [Next]_vars
    PROVE  Lates' /\ \A i \in Invocations : exec'[i].result /\ ~exec[i].result => ~exec[i].late
  BY WorkerLates, OtherLates DEF CInv, WorkerInv

(* In every reachable state.                                               *)
LEMMA LatesKept == Spec => []Lates
  <1>1. Init => Lates
    BY DEF Init, Lates, LateInv, NewExec
  <1>2. CInv /\ Lates /\ [Next]_vars => Lates'
    BY ResultsInTime
  <1> QED BY Kept, <1>1, <1>2, PTL DEF Spec

-----------------------------------------------------------------------------
(* Nobody in the queue or in a process is without the handle.              *)
LEMMA OneAdmitted == CInv => OneAttemptPerInvocation
  <1> SUFFICES ASSUME CInv, NEW i \in Invocations
               PROVE  Cardinality({n \in 0 .. MaxRetries : Admitted(<<i, n>>)}) <= 1
    BY DEF OneAttemptPerInvocation
  <1> DEFINE S == {n \in 0 .. MaxRetries : Admitted(<<i, n>>)}
  <1>1. \A n \in S : n = handle[i]
    BY DEF CInv, ServiceInv, Attempts, ReqInv, Requests
  <1>2. S = {} \/ S = {handle[i]}
    BY <1>1
  <1>3. Cardinality(S) = 0 \/ Cardinality(S) = 1
    BY <1>2, FS_EmptySet, FS_Singleton
  <1> HIDE DEF S
  <1>4. Cardinality(S) <= 1
    BY <1>3
  <1> QED BY <1>4 DEF S

-----------------------------------------------------------------------------
(* The theorems *)

(* The clients, the calls and the service keep their types.                *)
THEOREM CallsTypes == Spec => []CallsTypeOK
  <1>1. CInv /\ Procs => CallsTypeOK
    BY DEF CInv, Procs, PoolInv, WorkerInv, WorkerTypes, ServiceInv, ServiceTypes, CancelTypes, Ended,
           CallsTypeOK
  <1> QED BY <1>1, Kept, ProcsKept, PTL

(* A repair stops no client under a call that still has it, whoever else   *)
(* repairs, gives up or is too late.                                       *)
THEOREM ClientsOutliveCalls == Spec => []CallsOnLiveClients
  <1>1. CInv => CallsOnLiveClients
    BY PoolCallsLive DEF CInv
  <1> QED BY <1>1, Kept, PTL

(* The service runs or queues one attempt of an invocation at a time,      *)
(* however many are sent, late or abandoned.                               *)
THEOREM OneAttemptAtATime == Spec => []OneAttemptPerInvocation
  BY OneAdmitted, Kept, PTL

(* Every way out of the queue gives back the permits of the three          *)
(* semaphores, but for those granted to a coroutine that was cancelled.    *)
THEOREM PermitsAreKept == Spec => []CapacityKept
  <1>1. CInv => CapacityKept
    BY DEF CInv, Ledger
  <1> QED BY <1>1, Kept, PTL

(* As long as the service remembers a cancelled invocation, no attempt of  *)
(* it is registered.                                                       *)
THEOREM CanceledAreRefused == Spec => []CanceledStaysCanceled
  <1>1. CInv => CanceledStaysCanceled
    BY DEF CInv
  <1> QED BY <1>1, Kept, PTL

(* Whoever is told that an invocation is cancelled is told when none of    *)
(* its processes computes, and none but those of the attempts that are     *)
(* over with their process left to itself is there any more.               *)
THEOREM ToldWhenStopped == Spec => CanceledIsStopped
  <1>1. CInv' /\ Procs' /\ ToldWhenGone
          => [\A i \in Invocations :
                 cancelReq'[i] # cancelReq[i] /\ cancelReq'[i] \in {"canceled", "already_canceled"}
                 => \A n \in 0 .. MaxRetries :
                       (proc[<<i, n>>] = "none" \/ LeftOver(<<i, n>>))']_cancelReq
    <2> SUFFICES ASSUME CInv', Procs', ToldWhenGone, NEW i \in Invocations, cancelReq'[i] # cancelReq[i],
                        cancelReq'[i] \in {"canceled", "already_canceled"}, NEW n \in 0 .. MaxRetries
                 PROVE  (proc[<<i, n>>] = "none" \/ LeftOver(<<i, n>>))'
      OBVIOUS
    <2>1. handle'[i] = None /\ None # n /\ <<i, n>> \in Requests
      BY PoolAssumption, CallsAssumption DEF ToldWhenGone, Requests
    <2>2. ~Admitted(<<i, n>>)'
      BY <2>1 DEF CInv, ServiceInv, Attempts, ReqInv
    <2> QED BY <2>1, <2>2 DEF Procs, ProcInv, Process, Admitted, LeftOver
  <1>2. CInv /\ [Next]_vars => ToldWhenGone
    BY Steps
  <1> QED BY <1>1, <1>2, Kept, ProcsKept, PTL DEF Spec, CanceledIsStopped

(* No job takes an answer that came after it had lost its lease, though    *)
(* the lease is read before the answer is taken, and not with it.          *)
THEOREM LateAnswersNeverTaken == Spec => LateAnswersAreDropped
  <1>1. CInv /\ Lates /\ [Next]_vars
          => [\A i \in Invocations : exec'[i].result /\ ~exec[i].result => ~exec[i].late]_exec
    BY ResultsInTime
  <1> QED BY <1>1, Kept, LatesKept, PTL DEF Spec, LateAnswersAreDropped
=============================================================================
