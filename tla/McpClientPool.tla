---------------------------- MODULE McpClientPool ----------------------------
(***************************************************************************)
(* The worker's pool of MCP clients (app/agent/worker/mcp_client_pool.py). *)
(* A member of one of two lanes is served by one client at a time; a call  *)
(* holds a place on a client from acquire to release.  A call that fails   *)
(* closes the client, once its other calls have ended, and puts a new one  *)
(* with the next generation in its place.  A call keeps the client object  *)
(* it was given: it may be an old one by the time it looks at it again.    *)
(***************************************************************************)
EXTENDS Naturals, Sequences, FiniteSets

CONSTANTS
    Callers,         \* coroutines that may call a tool
    Execute,         \* members of the execute lane
    Control,         \* members of the control lane
    InFlight,        \* max_in_flight of a client, per lane
    None,
    MaxClients       \* bound: clients ever made

Members == Execute \cup Control
Lanes == {"execute", "control"}
LaneOf(m) == IF m \in Execute THEN "execute" ELSE "control"

ASSUME PoolAssumption ==
    /\ Execute \cap Control = {} /\ IsFiniteSet(Members)
    /\ None \notin Callers \cup Nat
    /\ InFlight \in [Lanes -> Nat \ {0}]
    /\ MaxClients \in Nat

VARIABLES
    client,    \* sequence of McpClientMember objects, in the order they were made
    current,   \* [Members -> index of client]: _members
    call       \* [Callers -> Call]

poolVars == <<client, current, call>>

Client == [member : Members, generation : Nat, healthy : BOOLEAN, draining : BOOLEAN,
           inflight : Nat, stopped : BOOLEAN,
           lock : Callers \cup {None}]        \* the holder of reconnect_lock

CallPhase == {"idle", "waiting", "calling", "locking", "draining", "creating", "over"}
Call == [phase   : CallPhase,
         lane    : Lanes,
         on      : Nat,                        \* the client of its lease
         broken  : Nat,                        \* the client it reconnects
         outcome : {"none", "reply", "exhausted", "transport", "raised"}]

NewClient(m, g) == [member |-> m, generation |-> g, healthy |-> TRUE, draining |-> FALSE,
                    inflight |-> 0, stopped |-> FALSE, lock |-> None]
Idle == [phase |-> "idle", lane |-> "execute", on |-> 0, broken |-> 0, outcome |-> "none"]

(* start() makes one client per member.                                    *)
PoolInit ==
    /\ client = CHOOSE s \in [1 .. Cardinality(Members) -> {NewClient(m, 0) : m \in Members}] :
                    \A m \in Members : \E k \in DOMAIN s : s[k].member = m
    /\ current = [m \in Members |-> CHOOSE k \in DOMAIN client : client[k].member = m]
    /\ call = [c \in Callers |-> Idle]

CallOver(c, outcome) == call' = [call EXCEPT ![c] = [Idle EXCEPT !.phase = "over", !.outcome = outcome]]

-----------------------------------------------------------------------------
(* acquire and release *)

MayServe(k, lane) ==
    /\ k \in {current[m] : m \in Members}
    /\ LaneOf(client[k].member) = lane
    /\ client[k].healthy /\ ~client[k].draining
    /\ client[k].inflight < InFlight[lane]

Waiting(lane) == [Idle EXCEPT !.phase = "waiting", !.lane = lane]

StartCall(c, lane) ==
    /\ call[c].phase = "idle"
    /\ call' = [call EXCEPT ![c] = Waiting(lane)]
    /\ UNCHANGED <<client, current>>

(* The least loaded client; which of them is the round robin's choice.     *)
Acquire(c) ==
    /\ call[c].phase = "waiting"
    /\ \E k \in DOMAIN client :
          /\ MayServe(k, call[c].lane)
          /\ \A l \in DOMAIN client :
                MayServe(l, call[c].lane) => client[k].inflight <= client[l].inflight
          /\ client' = [client EXCEPT ![k].inflight = @ + 1]
          /\ call' = [call EXCEPT ![c].phase = "calling", ![c].on = k]
    /\ UNCHANGED current

(* MCP_CAPACITY_EXHAUSTED after acquire_timeout.                           *)
AcquireTimesOut(c) ==
    /\ call[c].phase = "waiting"
    /\ \A k \in DOMAIN client : ~MayServe(k, call[c].lane)
    /\ CallOver(c, "exhausted")
    /\ UNCHANGED <<client, current>>

Released(c) == [client EXCEPT ![call[c].on].inflight = @ - 1]

Answer(c) ==
    /\ call[c].phase = "calling"
    /\ client' = Released(c)
    /\ CallOver(c, "reply")
    /\ UNCHANGED current

(* The caller is cancelled and goes on with something else: the request is *)
(* joined before the place is given back, and a repair is left unfinished. *)
(* Not modelled: a second cancellation while the request is joined gives   *)
(* the place back with the request still running.                          *)
AbandonCall(c, next) ==
    /\ \/ call[c].phase \in {"waiting", "locking"} /\ UNCHANGED client
       \/ call[c].phase = "calling" /\ client' = Released(c)
       \/ /\ call[c].phase \in {"draining", "creating"}
          /\ client' = [client EXCEPT ![call[c].broken].lock = None]
       \/ call[c].phase = "over" /\ UNCHANGED client
    /\ call' = [call EXCEPT ![c] = next]
    /\ UNCHANGED current

-----------------------------------------------------------------------------
(* ensure_reconnected *)

Reconnected(k, c) ==
    client[k].generation # client[call[c].on].generation /\ client[k].healthy

(* The lock is taken and no new call is let in.                            *)
Locked(cl, c, k) ==
    [cl EXCEPT ![k].lock = c, ![k].healthy = FALSE, ![k].draining = TRUE]

TakesLock(c, k, cl) ==
    IF Reconnected(k, c)
    THEN client' = cl /\ CallOver(c, "transport")
    ELSE /\ client' = Locked(cl, c, k)
         /\ call' = [call EXCEPT ![c].phase = "draining", ![c].broken = k]

(* The call fails: its place is released and the client its member has by  *)
(* now is looked up, in one go.  Somebody else may be about to replace it. *)
CallFails(c) ==
    /\ call[c].phase = "calling"
    /\ LET k == current[client[call[c].on].member]
       IN  \/ client[k].lock = None /\ TakesLock(c, k, Released(c))
          \/ /\ client[k].lock # None
             /\ client' = Released(c)
             /\ call' = [call EXCEPT ![c].phase = "locking", ![c].broken = k]
    /\ UNCHANGED current

(* The object it has waited for is the one it looked up before.            *)
GetsLock(c) ==
    /\ call[c].phase = "locking" /\ client[call[c].broken].lock = None
    /\ TakesLock(c, call[c].broken, client)
    /\ UNCHANGED current

(* Mutant: the client is closed under the calls it still has.              *)
StopAtOnce(c) ==
    /\ call[c].phase = "draining"
    /\ client' = [client EXCEPT ![call[c].broken].stopped = TRUE]
    /\ call' = [call EXCEPT ![c].phase = "creating"]
    /\ UNCHANGED current

StopClient(c) ==
    /\ call[c].phase = "draining"
    /\ client[call[c].broken].inflight = 0
    /\ client' = [client EXCEPT ![call[c].broken].stopped = TRUE]
    /\ call' = [call EXCEPT ![c].phase = "creating"]
    /\ UNCHANGED current

CreateClient(c) ==
    /\ call[c].phase = "creating" /\ Len(client) < MaxClients
    /\ LET b == call[c].broken
           m == client[b].member
       IN  /\ client' = Append([client EXCEPT ![b].lock = None],
                               NewClient(m, client[b].generation + 1))
           /\ current' = [current EXCEPT ![m] = Len(client) + 1]
    /\ CallOver(c, "transport")

(* The handshake fails: an expected error is recorded, another raised; the *)
(* member keeps the closed client.                                         *)
CreateFails(c) ==
    /\ call[c].phase = "creating"
    /\ client' = [client EXCEPT ![call[c].broken].lock = None]
    /\ \E outcome \in {"transport", "raised"} : CallOver(c, outcome)
    /\ UNCHANGED current

CallReturns(c) ==
    /\ call[c].phase = "over"
    /\ call' = [call EXCEPT ![c] = Idle]
    /\ UNCHANGED <<client, current>>

-----------------------------------------------------------------------------
Repair(c) == GetsLock(c) \/ StopClient(c) \/ CreateClient(c)

PoolNext ==
    \E c \in Callers :
        \/ \E lane \in Lanes : StartCall(c, lane)
        \/ Acquire(c) \/ AcquireTimesOut(c) \/ Answer(c) \/ AbandonCall(c, Idle)
        \/ CallFails(c) \/ Repair(c) \/ CreateFails(c) \/ CallReturns(c)

PoolSpec == PoolInit /\ [][PoolNext]_poolVars

-----------------------------------------------------------------------------
(* Properties *)

(* Clients, members and calls keep their types.                            *)
PoolTypeOK ==
    /\ client \in Seq(Client)
    /\ current \in [Members -> DOMAIN client]
    /\ call \in [Callers -> Call]

(* No call is made on a client that was closed: a repair waits for every   *)
(* call of the client it closes, and a closed client is given to nobody.   *)
(* (A call is what holds a place: see AbandonCall.)                        *)
CallsOnLiveClients ==
    \A c \in Callers : call[c].phase = "calling" => ~client[call[c].on].stopped

=============================================================================
