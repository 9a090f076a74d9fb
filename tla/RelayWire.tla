------------------------------- MODULE RelayWire -------------------------------
(***************************************************************************)
(* The WebSocket between the MCP gateway and the workspace agent.          *)
(*                                                                         *)
(* A connection is named by the generation the gateway gives it when it    *)
(* accepts the upgrade.  Each connection has two ends, each with its own   *)
(* readyState, and one FIFO of frames per direction.  The library the code *)
(* uses (ws) gives these guarantees and no more:                           *)
(*   - frames of one direction arrive in order and at most once;           *)
(*   - an end that is CLOSING still delivers the frames it receives;       *)
(*   - an end that is not OPEN sends nothing;                              *)
(*   - 'close' is the last event of an end, and the frames that end has    *)
(*     not delivered by then are lost.                                     *)
(***************************************************************************)
EXTENDS Naturals, Sequences

CONSTANTS
    Calls,         \* calls of AgentRelay.call, one per MCP operation
    MaxGen,        \* bound: connections the gateway accepts in one behaviour
    MaxAttempts    \* bound: requests one call may put on the wire

ASSUME MaxGenAssumption == MaxGen \in Nat
ASSUME MaxAttemptsAssumption == MaxAttempts \in Nat \ {0}

Gens      == 1..MaxGen
Requests  == Calls \X (1..MaxAttempts)  \* requestId: a fresh one per attempt
EndStates == {"none", "connecting", "open", "closing", "closed"}

VARIABLES
    gwEnd,       \* readyState of the gateway's end of each connection
    agEnd,       \* readyState of the agent's end
    toAgent,     \* frames on their way to the agent
    toGateway    \* frames on their way to the gateway

wireVars == <<gwEnd, agEnd, toAgent, toGateway>>

\* What a response can turn out to be for the gateway: a result, a result its
\* schema rejects, an error, an AGENT_UNAVAILABLE error (the SSH and GitHub
\* clients of the agent raise it) without an outcome or with the outcome
\* not_started, or a frame the gateway cannot accept.
AllKinds == {"ok", "badResult", "error", "unavailable", "notStarted", "badFrame"}

AgentMsgs    == [type : {"request", "cancel"}, req : Requests]
HelloMsgs    == [type : {"hello"}, compatible : BOOLEAN]
ResponseMsgs == [type : {"response"}, req : Requests, kind : AllKinds]
GatewayMsgs  == HelloMsgs \cup ResponseMsgs

WireTypeOK ==
    /\ gwEnd \in [Gens -> EndStates]
    /\ agEnd \in [Gens -> EndStates]
    /\ toAgent \in [Gens -> Seq(AgentMsgs)]
    /\ toGateway \in [Gens -> Seq(GatewayMsgs)]

WireInit ==
    /\ gwEnd = [g \in Gens |-> "none"]
    /\ agEnd = [g \in Gens |-> "none"]
    /\ toAgent = [g \in Gens |-> <<>>]
    /\ toGateway = [g \in Gens |-> <<>>]

\* An end that still delivers what it receives.
Receiving(end) == end \in {"open", "closing"}

\* socket.close() and socket.terminate(): the end leaves OPEN at once, its
\* 'close' event comes later.
CloseEnd(ends, g) == [ends EXCEPT ![g] = IF @ = "open" THEN "closing" ELSE @]

\* What was in flight to an end that has closed is lost, and so is what is sent
\* to it from then on.
Drop(chan, g)           == [chan EXCEPT ![g] = <<>>]
Put(chan, g, end, msg)  == [chan EXCEPT ![g] = IF end = "closed" THEN @
                                               ELSE Append(@, msg)]

(***************************************************************************)
(* An end notices that its peer closed, a reset, or a failed handshake, and *)
(* leaves OPEN.  A silent loss of the network is never noticed this way.   *)
(***************************************************************************)
GwBreak(g) ==
    /\ gwEnd[g] = "open"
    /\ gwEnd' = [gwEnd EXCEPT ![g] = "closing"]
    /\ UNCHANGED <<agEnd, toAgent, toGateway>>

AgBreak(g) ==
    /\ agEnd[g] \in {"connecting", "open"}
    /\ agEnd' = [agEnd EXCEPT ![g] = "closing"]
    /\ UNCHANGED <<gwEnd, toAgent, toGateway>>
=============================================================================
