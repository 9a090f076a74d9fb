------------------------------ MODULE RelayGateway ------------------------------
(***************************************************************************)
(* The gateway's end of the agent relay: AgentRelay (connections, hello,   *)
(* heartbeat, ready waiters, the retry loop of call) and the               *)
(* AgentRelayRequestManager (pending requests, their watchdogs, aborts and *)
(* completions).                                                           *)
(*                                                                         *)
(* A call is an asynchronous function: pc says where it stands.            *)
(*   idle      not called yet                                              *)
(*   loop      about to evaluate the head of the while loop                *)
(*   waiting   in readyWaiters, for generation minGen[c] or later          *)
(*   pending   its request is in the pending map                           *)
(*   rejected  its request was rejected with AGENT_UNAVAILABLE             *)
(*   disclaimed  the same, with the agent's own outcome not_started        *)
(*   shutdown  the same, with reason gateway_shutdown                      *)
(*   done      settled, with result[c]                                     *)
(* A promise continuation is a step of its own: ws may deliver further     *)
(* frames of the same chunk before the continuation runs.                  *)
(***************************************************************************)
EXTENDS RelayWire, FiniteSets

CONSTANTS
    Retryable,       \* the calls whose operation is in RETRYABLE_RELAY_OPERATIONS
    MaxConcurrency   \* options.maxConcurrency

ASSUME RetryableAssumption == Retryable \subseteq Calls
ASSUME MaxConcurrencyAssumption == MaxConcurrency \in Nat \ {0}

VARIABLES
    gen,         \* connectionGeneration
    sock,        \* socket: the generation of the current connection, 0 if none
    ready,       \* ready
    alive,       \* alive
    heartbeat,   \* heartbeat: the connection of the interval held there, 0 if none
    beats,       \* every interval that is running, by the connection it pings
    closed,      \* closed
    pc, aborted, recovery, outcome, minGen, attempts, result,
    pending,     \* keys of the request manager's pending map
    reqGen       \* generation recorded with each request, 0 before it is made

serviceVars == <<gen, sock, ready, alive, heartbeat, beats, closed>>
callVars    == <<pc, aborted, recovery, outcome, minGen, attempts, result>>
gatewayVars == <<serviceVars, callVars, pending, reqGen>>

PCs      == {"idle", "loop", "waiting", "pending", "rejected", "disclaimed",
             "shutdown", "done"}
Outcomes == {"not_started", "unknown"}
Results  == {"none", "ok", "error", "timeout", "cancelled", "busy", "protocol",
             "unavailable"}

GatewayTypeOK ==
    /\ gen \in 0..MaxGen
    /\ sock \in 0..MaxGen
    /\ ready \in BOOLEAN
    /\ alive \in BOOLEAN
    /\ heartbeat \in 0..MaxGen
    /\ beats \subseteq Gens
    /\ closed \in BOOLEAN
    /\ pc \in [Calls -> PCs]
    /\ aborted \in [Calls -> BOOLEAN]
    /\ recovery \in [Calls -> BOOLEAN]
    /\ outcome \in [Calls -> Outcomes]
    /\ minGen \in [Calls -> 0..(MaxGen + 1)]
    /\ attempts \in [Calls -> 0..MaxAttempts]
    /\ result \in [Calls -> Results]
    /\ pending \subseteq Requests
    /\ reqGen \in [Requests -> 0..MaxGen]

GatewayInit ==
    /\ gen = 0
    /\ sock = 0
    /\ ready = FALSE
    /\ alive = FALSE
    /\ heartbeat = 0
    /\ beats = {}
    /\ closed = FALSE
    /\ pc = [c \in Calls |-> "idle"]
    /\ aborted = [c \in Calls |-> FALSE]
    /\ recovery = [c \in Calls |-> FALSE]
    /\ outcome = [c \in Calls |-> "not_started"]
    /\ minGen = [c \in Calls |-> 0]
    /\ attempts = [c \in Calls |-> 0]
    /\ result = [c \in Calls |-> "none"]
    /\ pending = {}
    /\ reqGen = [r \in Requests |-> 0]

-----------------------------------------------------------------------------
SocketOpen  == sock # 0 /\ gwEnd[sock] = "open"
IsConnected == ready /\ SocketOpen

Cur(c) == <<c, attempts[c]>>            \* the latest request of call c

Settle(c, res) ==
    /\ pc' = [pc EXCEPT ![c] = "done"]
    /\ result' = [result EXCEPT ![c] = res]

\* socket.send of a request or of a cancellation.
Transmit(g, type, r) ==
    toAgent' = Put(toAgent, g, agEnd[g], [type |-> type, req |-> r])

\* Mutant: the requests leave the map and their promises are never rejected.
RejectAsSilent(R, to) ==
    /\ pending' = pending \ R
    /\ UNCHANGED pc

\* takePending and reject for each request in R, with AGENT_UNAVAILABLE.
RejectAs(R, to) ==
    /\ pending' = pending \ R
    /\ pc' = [c \in Calls |-> IF Cur(c) \in R THEN to ELSE pc[c]]

\* Mutant: off by one in the generation a waiter asked for.
ServedLate(c) == pc[c] = "waiting" /\ gen > minGen[c]

\* resolveReadyWaiters: the calls that waited long enough re-enter the loop.
Served(c) == pc[c] = "waiting" /\ gen >= minGen[c]

-----------------------------------------------------------------------------
(***************************************************************************)
(* AgentRelay.call                                                         *)
(***************************************************************************)
Call(c) ==
    /\ pc[c] = "idle"
    /\ pc' = [pc EXCEPT ![c] = "loop"]
    /\ UNCHANGED <<serviceVars, aborted, recovery, outcome, minGen, attempts,
                   result, pending, reqGen, wireVars>>

\* The gateway is shutting down, or there is no connection and no recovery left.
CallUnavailable(c) ==
    /\ pc[c] = "loop"
    /\ \/ closed
       \/ ~IsConnected /\ (c \notin Retryable \/ recovery[c] \/ aborted[c])
    /\ Settle(c, "unavailable")
    /\ UNCHANGED <<serviceVars, aborted, recovery, outcome, minGen, attempts,
                   pending, reqGen, wireVars>>

\* waitForReadyGeneration when it does not return at once: no time is left, or
\* the call joins readyWaiters.
Wait(c, g) ==
    /\ recovery' = [recovery EXCEPT ![c] = TRUE]
    /\ \/ /\ Settle(c, "unavailable")
          /\ UNCHANGED minGen
       \/ /\ ~closed /\ ~aborted[c]
          /\ pc' = [pc EXCEPT ![c] = "waiting"]
          /\ minGen' = [minGen EXCEPT ![c] = g]
          /\ UNCHANGED result

\* The generation that will serve a call which finds no agent: the connection
\* that has not said hello yet, or the next one.
NextReady == IF SocketOpen THEN gen ELSE gen + 1

CallAwaitsAgent(c) ==
    /\ pc[c] = "loop"
    /\ ~closed /\ ~IsConnected
    /\ c \in Retryable /\ ~recovery[c] /\ ~aborted[c]
    /\ Wait(c, NextReady)
    /\ UNCHANGED <<serviceVars, aborted, outcome, attempts, pending, reqGen,
                   wireVars>>

(***************************************************************************)
(* AgentRelayRequestManager.call                                           *)
(***************************************************************************)
CanAttempt(c) == pc[c] = "loop" /\ ~closed /\ IsConnected

RequestBusy(c) ==
    /\ CanAttempt(c)
    /\ Cardinality(pending) >= MaxConcurrency
    /\ Settle(c, "busy")
    /\ UNCHANGED <<serviceVars, aborted, recovery, outcome, minGen, attempts,
                   pending, reqGen, wireVars>>

\* The strict schema or the payload limit refuses the request, or its deadline
\* has already expired: nothing is sent.
RequestRefused(c) ==
    /\ CanAttempt(c)
    /\ Cardinality(pending) < MaxConcurrency
    /\ \E res \in {"protocol", "timeout"} : Settle(c, res)
    /\ UNCHANGED <<serviceVars, aborted, recovery, outcome, minGen, attempts,
                   pending, reqGen, wireVars>>

NewRequest(c) ==
    /\ CanAttempt(c)
    /\ Cardinality(pending) < MaxConcurrency
    /\ attempts[c] < MaxAttempts
    /\ attempts' = [attempts EXCEPT ![c] = @ + 1]
    /\ reqGen' = [reqGen EXCEPT ![<<c, attempts[c] + 1>>] = gen]

\* The signal is already aborted: only the cancellation goes out.
RequestAborted(c) ==
    /\ NewRequest(c)
    /\ aborted[c]
    /\ Transmit(sock, "cancel", <<c, attempts[c] + 1>>)
    /\ Settle(c, "cancelled")
    /\ UNCHANGED <<serviceVars, aborted, recovery, outcome, minGen, pending,
                   gwEnd, agEnd, toGateway>>

RequestSent(c) ==
    /\ NewRequest(c)
    /\ ~aborted[c]
    /\ Transmit(sock, "request", <<c, attempts[c] + 1>>)
    /\ pending' = pending \cup {<<c, attempts[c] + 1>>}
    /\ pc' = [pc EXCEPT ![c] = "pending"]
    /\ UNCHANGED <<serviceVars, aborted, recovery, outcome, minGen, result,
                   gwEnd, agEnd, toGateway>>

\* The send callback reports an error; the frame may have left all the same.
SendError(r) ==
    /\ r \in pending
    /\ gwEnd[reqGen[r]] = "closing"
    /\ RejectAs({r}, "rejected")
    /\ UNCHANGED <<serviceVars, aborted, recovery, outcome, minGen, attempts,
                   result, reqGen, wireVars>>

\* Mutant: takePending clears neither the timer nor the abort listener.
ArmedForEver(r) == reqGen[r] # 0

\* The watchdog and the abort listener of a request, until takePending.
Armed(r) == r \in pending

\* cancelPending: the cancellation goes out if the connection is still open.
CancelPending(r, res) ==
    /\ Armed(r)
    /\ pending' = pending \ {r}
    /\ IF gwEnd[reqGen[r]] = "open" THEN Transmit(reqGen[r], "cancel", r)
                                    ELSE UNCHANGED toAgent
    /\ Settle(r[1], res)

Watchdog(r) ==
    /\ CancelPending(r, "timeout")
    /\ UNCHANGED <<serviceVars, aborted, recovery, outcome, minGen, attempts,
                   reqGen, gwEnd, agEnd, toGateway>>

(***************************************************************************)
(* The caller's AbortSignal fires.                                         *)
(***************************************************************************)
Abort(c) ==
    /\ ~aborted[c] /\ pc[c] # "done"
    /\ aborted' = [aborted EXCEPT ![c] = TRUE]
    /\ CASE pc[c] = "pending" -> CancelPending(Cur(c), "cancelled")
         [] pc[c] = "waiting" -> /\ Settle(c, "unavailable")
                                 /\ UNCHANGED <<pending, toAgent>>
         [] OTHER             -> UNCHANGED <<pc, result, pending, toAgent>>
    /\ UNCHANGED <<serviceVars, recovery, outcome, minGen, attempts, reqGen,
                   gwEnd, agEnd, toGateway>>

WaiterTimeout(c) ==
    /\ pc[c] = "waiting"
    /\ Settle(c, "unavailable")
    /\ UNCHANGED <<serviceVars, aborted, recovery, outcome, minGen, attempts,
                   pending, reqGen, wireVars>>

(***************************************************************************)
(* The catch block of AgentRelay.call, for AGENT_UNAVAILABLE.              *)
(***************************************************************************)
\* Mutant: a call that is not retryable is tried again, too.
GivesUpOnceRecovered(c) == recovery[c] \/ aborted[c] \/ pc[c] = "shutdown"

GivesUp(c) == \/ c \notin Retryable \/ recovery[c] \/ aborted[c]
              \/ pc[c] = "shutdown"

\* Mutant: the outcome of the rejected request is not taken over.
CaughtOutcomeLost(c) == outcome

\* details?.outcome ?? "unknown": the gateway's own rejections carry "unknown", and
\* so does an AGENT_UNAVAILABLE of the agent that says nothing of its outcome.
CaughtOutcome(c) ==
    [outcome EXCEPT ![c] = IF pc[c] = "disclaimed" THEN "not_started" ELSE "unknown"]

\* Mutant: the connection of the failed attempt is good enough for the retry.
RetryGenerationSame(c) == reqGen[Cur(c)]

RetryGeneration(c) == reqGen[Cur(c)] + 1

CatchGivesUp(c) ==
    /\ pc[c] \in {"rejected", "disclaimed", "shutdown"}
    /\ GivesUp(c)
    /\ outcome' = CaughtOutcome(c)
    /\ Settle(c, "unavailable")
    /\ UNCHANGED <<serviceVars, aborted, recovery, minGen, attempts, pending,
                   reqGen, wireVars>>

CatchRecovers(c) ==
    /\ pc[c] \in {"rejected", "disclaimed"}
    /\ ~GivesUp(c)
    /\ outcome' = CaughtOutcome(c)
    /\ IF IsConnected /\ gen >= RetryGeneration(c)
       THEN /\ recovery' = [recovery EXCEPT ![c] = TRUE]
            /\ pc' = [pc EXCEPT ![c] = "loop"]
            /\ UNCHANGED <<minGen, result>>
       ELSE Wait(c, RetryGeneration(c))
    /\ UNCHANGED <<serviceVars, aborted, attempts, pending, reqGen, wireVars>>

-----------------------------------------------------------------------------
(***************************************************************************)
(* Connections                                                             *)
(***************************************************************************)
\* handleUpgrade: a connection that is still open makes it fail with 409, and
\* after close() the WebSocketServer refuses it.
MayUpgrade == ~closed /\ ~SocketOpen

\* acceptConnection
Accept ==
    /\ MayUpgrade
    /\ gen < MaxGen
    /\ gen' = gen + 1
    /\ sock' = gen + 1
    /\ ready' = FALSE
    /\ alive' = TRUE
    /\ gwEnd' = [gwEnd EXCEPT ![gen + 1] = "open"]
    /\ agEnd' = [agEnd EXCEPT ![gen + 1] = "connecting"]
    /\ UNCHANGED <<heartbeat, beats, closed, callVars, pending, reqGen, toAgent,
                   toGateway>>

HelloTimeout(g) ==
    /\ gwEnd[g] = "open" /\ ~ready
    /\ gwEnd' = CloseEnd(gwEnd, g)
    /\ UNCHANGED <<gatewayVars, agEnd, toAgent, toGateway>>

Receive(g) ==
    /\ Receiving(gwEnd[g]) /\ toGateway[g] # <<>>
    /\ toGateway' = [toGateway EXCEPT ![g] = Tail(@)]
    /\ UNCHANGED <<agEnd, toAgent>>

\* handleMessage accepts a hello: whichever connection it came from, the relay
\* becomes ready and the heartbeat pings that connection.
OnHello(g) ==
    /\ Receive(g)
    /\ ~ready /\ Head(toGateway[g]) = [type |-> "hello", compatible |-> TRUE]
    /\ ready' = TRUE
    /\ heartbeat' = g
    /\ beats' = beats \cup {g}
    /\ pc' = [c \in Calls |-> IF Served(c) /\ SocketOpen THEN "loop" ELSE pc[c]]
    /\ UNCHANGED <<gen, sock, alive, closed, aborted, recovery, outcome, minGen,
                   attempts, result, pending, reqGen, gwEnd>>

\* Anything else before the hello, and anything but a response after it.
OnInvalidMessage(g) ==
    /\ Receive(g)
    /\ LET m == Head(toGateway[g]) IN
         IF ready THEN m \in HelloMsgs \/ (m \in ResponseMsgs /\ m.kind = "badFrame")
                  ELSE m # [type |-> "hello", compatible |-> TRUE]
    /\ gwEnd' = CloseEnd(gwEnd, g)
    /\ UNCHANGED gatewayVars

\* Mutant: the result is not validated against the schema of the operation.
ValidatedNot(kind) == IF kind = "badResult" THEN "ok" ELSE kind

Validated(kind) == IF kind = "badResult" THEN "protocol" ELSE kind

\* The error of a response as the call catches it: AGENT_UNAVAILABLE or not.
Unavailable(kind) == kind \in {"unavailable", "notStarted"}
Caught(kind)      == IF kind = "notStarted" THEN "disclaimed" ELSE "rejected"

\* requestManager.complete
OnResponse(g) ==
    /\ Receive(g)
    /\ ready
    /\ LET m == Head(toGateway[g]) IN
         /\ m \in ResponseMsgs /\ m.kind # "badFrame"
         /\ IF m.req \notin pending
            THEN UNCHANGED <<pending, pc, result>>
            ELSE IF Unavailable(m.kind)
            THEN RejectAs({m.req}, Caught(m.kind)) /\ UNCHANGED result
            ELSE /\ pending' = pending \ {m.req}
                 /\ Settle(m.req[1], Validated(m.kind))
    /\ UNCHANGED <<serviceVars, aborted, recovery, outcome, minGen, attempts,
                   reqGen, gwEnd>>

\* rejectGeneration
OfGeneration(g) == {r \in pending : reqGen[r] = g}

\* The 'close' handler of a connection.
OnClose(g) ==
    /\ gwEnd[g] = "closing"
    /\ gwEnd' = [gwEnd EXCEPT ![g] = "closed"]
    /\ toGateway' = Drop(toGateway, g)
    /\ IF sock = g
       THEN /\ sock' = 0
            /\ ready' = FALSE
            /\ heartbeat' = 0
            /\ beats' = beats \ {heartbeat}
       ELSE UNCHANGED <<sock, ready, heartbeat, beats>>
    /\ RejectAs(OfGeneration(g), "rejected")
    /\ UNCHANGED <<gen, alive, closed, aborted, recovery, outcome, minGen,
                   attempts, result, reqGen, agEnd, toAgent>>

\* One tick of the interval started by startHeartbeat for connection g.
HeartbeatTick(g) ==
    /\ g \in beats
    /\ IF alive
       THEN alive' = FALSE /\ UNCHANGED gwEnd
       ELSE gwEnd' = CloseEnd(gwEnd, g) /\ UNCHANGED alive
    /\ UNCHANGED <<gen, sock, ready, heartbeat, beats, closed, callVars, pending,
                   reqGen, agEnd, toAgent, toGateway>>

\* The agent's end answers a ping on connection g.
Pong(g) ==
    /\ Receiving(gwEnd[g]) /\ agEnd[g] = "open"
    /\ ~alive
    /\ alive' = TRUE
    /\ UNCHANGED <<gen, sock, ready, heartbeat, beats, closed, callVars, pending,
                   reqGen, wireVars>>

\* AgentRelay.close()
Shutdown ==
    /\ ~closed
    /\ closed' = TRUE
    /\ heartbeat' = 0
    /\ beats' = beats \ {heartbeat}
    /\ pending' = {}
    /\ pc' = [c \in Calls |-> CASE pc[c] = "waiting" -> "done"
                                [] pc[c] = "pending" -> "shutdown"
                                [] OTHER -> pc[c]]
    /\ result' = [c \in Calls |-> IF pc[c] = "waiting" THEN "unavailable"
                                                       ELSE result[c]]
    /\ ready' = FALSE
    /\ gwEnd' = IF sock = 0 THEN gwEnd ELSE CloseEnd(gwEnd, sock)
    /\ sock' = 0
    /\ UNCHANGED <<gen, alive, aborted, recovery, outcome, minGen, attempts,
                   reqGen, agEnd, toAgent, toGateway>>

-----------------------------------------------------------------------------
CallStep(c) ==
    \/ Call(c) \/ CallUnavailable(c) \/ CallAwaitsAgent(c)
    \/ RequestBusy(c) \/ RequestRefused(c) \/ RequestAborted(c) \/ RequestSent(c)
    \/ Abort(c) \/ WaiterTimeout(c) \/ CatchGivesUp(c) \/ CatchRecovers(c)

RequestStep(r) == SendError(r) \/ Watchdog(r)

ConnectionStep(g) ==
    \/ HelloTimeout(g) \/ OnHello(g) \/ OnInvalidMessage(g) \/ OnResponse(g)
    \/ OnClose(g) \/ HeartbeatTick(g) \/ Pong(g)

GatewayNext ==
    \/ \E c \in Calls : CallStep(c)
    \/ \E r \in Requests : RequestStep(r)
    \/ \E g \in Gens : ConnectionStep(g)
    \/ Shutdown
=============================================================================
