------------------------------- MODULE AgentRelay -------------------------------
(***************************************************************************)
(* The agent relay as a whole: the gateway and the workspace agent over a  *)
(* WebSocket that breaks, is dialled again, and loses what was in flight.  *)
(***************************************************************************)
EXTENDS RelayGateway, RelayAgent

vars == <<wireVars, gatewayVars, agentVars>>

Init == WireInit /\ GatewayInit /\ AgentInit

\* The agent dials and the gateway accepts; an upgrade the gateway refuses
\* changes nothing on either side.
Connect == CanDial /\ Accept /\ UNCHANGED agentVars

Next ==
    \/ Connect
    \/ GatewayNext /\ UNCHANGED agentVars
    \/ AgentNext /\ UNCHANGED gatewayVars
    \/ \E g \in Gens : (GwBreak(g) \/ AgBreak(g)) /\ UNCHANGED <<gatewayVars, agentVars>>

Spec == Init /\ [][Next]_vars

TypeOK == WireTypeOK /\ GatewayTypeOK /\ AgentTypeOK

-----------------------------------------------------------------------------
(***************************************************************************)
(* Safety                                                                  *)
(***************************************************************************)

\* The agent starts the operation of a request at most once, the operation of a
\* call that is not retryable at most once, and that of a retryable call at most
\* twice, whatever connections break and whenever they come back.
ExecutionBound(c) == IF c \in Retryable THEN 2 ELSE 1

ExecutedAtMost ==
    \A r \in Requests : /\ starts[r] <= 1
                        /\ starts[r] = 1 => r[2] <= ExecutionBound(r[1])

\* An error that reports the outcome "not_started" can be trusted: each request of
\* that call was never started, or the agent itself said of it that it had begun
\* nothing.  A retryable call reports the outcome of its last request, and so
\* says nothing of the first one, whose connection was lost.
NotStartedIsTrue ==
    \A c \in Calls :
        pc[c] = "done" /\ result[c] = "unavailable" /\ outcome[c] = "not_started"
            => \A a \in 1..MaxAttempts : starts[<<c, a>>] > 0 =>
                  \/ <<c, a>> \in denied
                  \/ c \in Retryable /\ a < attempts[c] /\ Cur(c) \in denied

\* A retry goes out on a later connection than the attempt it replaces, so the
\* agent has dropped the connection of the first attempt by then.
RetryOnLaterConnection ==
    \A c \in Calls, a, b \in 1..MaxAttempts :
        a < b /\ reqGen[<<c, b>>] # 0
            => reqGen[<<c, a>>] # 0 /\ reqGen[<<c, a>>] < reqGen[<<c, b>>]

\* No call waits for a reconnection that has already happened, or after close().
NoStrandedWaiter ==
    \A c \in Calls :
        pc[c] = "waiting" => ~closed /\ (IsConnected => gen < minGen[c])

\* A call that returned a result returned one that the agent computed for it.
OkWasExecuted ==
    \A c \in Calls : result[c] = "ok" =>
        \E a \in 1..attempts[c] : <<c, a>> \in okDone /\ starts[<<c, a>>] = 1

\* Two synchronous shells never run in one workspace, and a lease outlives its
\* shell by no step: it is held exactly while the operation is active.
ActiveShells == {r \in Active : IsShell(r)}

ShellLeaseExact ==
    /\ \A r \in ActiveShells : lease[WorkspaceOf[r[1]]] = r
    /\ \A w \in Held : lease[w] \in ActiveShells
    /\ Cardinality(ActiveShells) <= MaxShells

\* A call settles once: nothing that arrives later changes what it returned.
SettledIsFinal ==
    [][\A c \in Calls : pc[c] = "done" =>
         pc'[c] = "done" /\ result'[c] = result[c] /\ outcome'[c] = outcome[c]]_vars
-----------------------------------------------------------------------------
(***************************************************************************)
(* The inductive invariant behind these properties.                        *)
(***************************************************************************)

\* A call beyond the loop has made a request.
RequestMade ==
    \A c \in Calls : pc[c] \in {"pending", "rejected", "disclaimed", "shutdown"} => attempts[c] >= 1

\* Each recovery buys one more request, and only retryable calls have one.
AttemptBound ==
    \A c \in Calls :
        /\ recovery[c] => c \in Retryable
        /\ attempts[c] <= IF recovery[c] THEN 2 ELSE 1
        /\ pc[c] = "idle" => attempts[c] = 0
        /\ pc[c] \in {"loop", "waiting"} =>
               attempts[c] <= IF recovery[c] THEN 1 ELSE 0

\* A request is in one place: on the wire, once, or started, once.
IsRequest(g, i) == i \in DOMAIN toAgent[g] /\ toAgent[g][i].type = "request"

RequestOnce ==
    /\ \A g, h \in Gens : \A i \in DOMAIN toAgent[g], j \in DOMAIN toAgent[h] :
          IsRequest(g, i) /\ IsRequest(h, j) /\ toAgent[g][i].req = toAgent[h][j].req
              => g = h /\ i = j
    /\ \A g \in Gens : \A i \in DOMAIN toAgent[g] : IsRequest(g, i) =>
          LET r == toAgent[g][i].req IN starts[r] = 0 /\ r[2] <= attempts[r[1]]
    /\ \A r \in Requests : starts[r] <= 1 /\ (starts[r] = 1 => r[2] <= attempts[r[1]])

\* A call that can report "not_started" has made no request, or the agent said so
\* of the last one.
Denied(c) == attempts[c] >= 1 /\ Cur(c) \in denied
Denies(m) == m \in ResponseMsgs /\ m.kind = "notStarted"

OutcomeKnown ==
    \A c \in Calls :
        /\ pc[c] = "disclaimed" => Denied(c)
        /\ outcome[c] = "not_started" /\ attempts[c] >= 1 =>
              \/ Denied(c)
              \/ /\ pc[c] \notin {"idle", "loop", "waiting"}
                 /\ pc[c] = "done" => result[c] # "unavailable"

\* Such a frame on its way to the gateway is about a request the agent said it of.
DenialsTrue ==
    \A g \in Gens : \A i \in DOMAIN toGateway[g] :
        Denies(toGateway[g][i]) => toGateway[g][i].req \in denied

\* The pending map holds the last request of calls that wait for it, and no other.
Outstanding == \A r \in pending : pc[r[1]] = "pending" /\ r[2] = attempts[r[1]]

\* Requests carry the generation they were made in, and a call that may make
\* another one has seen, or waits for, a later generation than its last one.
GenerationsOrdered ==
    /\ sock \in {0, gen}
    /\ \A r \in Requests : /\ reqGen[r] <= gen
                           /\ reqGen[r] # 0 <=> r[2] <= attempts[r[1]]
    /\ \A c \in Calls : attempts[c] >= 1 =>
          /\ pc[c] = "loop" => reqGen[Cur(c)] < gen
          /\ pc[c] = "waiting" => reqGen[Cur(c)] < minGen[c]

Inv == /\ TypeOK
       /\ RequestMade
       /\ AttemptBound
       /\ RequestOnce
       /\ GenerationsOrdered
       /\ RetryOnLaterConnection
       /\ Outstanding
       /\ DenialsTrue
       /\ OutcomeKnown

-----------------------------------------------------------------------------
(***************************************************************************)
(* Liveness.  What the code may rely on: a promise continuation runs, an   *)
(* armed timer fires, a received frame is delivered, an end that is closing *)
(* emits 'close' (ws destroys the socket after its own timeout), and an    *)
(* operation whose signal is aborted settles.  Nothing obliges the agent to *)
(* reconnect, an operation to finish by itself, or a broken network to be  *)
(* noticed: the timers have to do without.                                 *)
(***************************************************************************)
Continuation(c) ==
    \/ CallUnavailable(c) \/ CallAwaitsAgent(c) \/ CatchGivesUp(c) \/ CatchRecovers(c)
    \/ RequestBusy(c) \/ RequestRefused(c) \/ RequestAborted(c) \/ RequestSent(c)

AbortedSettles(r) ==
    exec[r] = "aborting" /\ \E k \in RespKinds : FinishRequest(r, k)

Fairness ==
    /\ \A c \in Calls : /\ WF_vars(Continuation(c) /\ UNCHANGED agentVars)
                        /\ WF_vars(WaiterTimeout(c) /\ UNCHANGED agentVars)
    /\ \A r \in Requests : /\ WF_vars(Watchdog(r) /\ UNCHANGED agentVars)
                           /\ WF_vars(AgentWatchdog(r) /\ UNCHANGED gatewayVars)
                           /\ WF_vars(AbortedSettles(r) /\ UNCHANGED gatewayVars)
    /\ \A g \in Gens : /\ WF_vars(HelloTimeout(g) /\ UNCHANGED agentVars)
                       /\ WF_vars(HeartbeatTick(g) /\ UNCHANGED agentVars)
                       /\ WF_vars(OnClose(g) /\ UNCHANGED agentVars)
                       /\ WF_vars(AgentOnClose(g) /\ UNCHANGED gatewayVars)
                       /\ WF_vars((OnHello(g) \/ OnInvalidMessage(g) \/ OnResponse(g))
                                    /\ UNCHANGED agentVars)

LiveSpec == Spec /\ Fairness

\* Every call settles, with or without an agent at the other end.
CallsSettle == \A c \in Calls : pc[c] = "loop" ~> pc[c] = "done"

\* No operation stays active in the agent for ever, even when the cancellation
\* is lost together with the connection it was sent on.
OperationsEnd == \A r \in Requests : exec[r] # "none" ~> exec[r] = "none"
=============================================================================
