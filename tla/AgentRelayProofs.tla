---------------------------- MODULE AgentRelayProofs ----------------------------
(***************************************************************************)
(* Proofs about the agent relay, for any calls, connections and attempts.  *)
(***************************************************************************)
EXTENDS AgentRelay, FiniteSetTheorems, TLAPS

-----------------------------------------------------------------------------
(***************************************************************************)
(* Typing                                                                  *)
(***************************************************************************)

\* Sending keeps a family of channels well typed, and so do losing what is in
\* flight and delivering a frame.
LEMMA PutType ==
    ASSUME NEW S, NEW chan \in [Gens -> Seq(S)], NEW g, NEW end, NEW msg \in S
    PROVE  Put(chan, g, end, msg) \in [Gens -> Seq(S)]
<1>1. CASE g \in Gens
  BY <1>1 DEF Put
<1>2. CASE g \notin Gens
  <2>1. Put(chan, g, end, msg) = chan
    BY <1>2, Zenon DEF Put
  <2> QED
    BY <2>1
<1> QED
  BY <1>1, <1>2

\* An end that closes loses what was in flight to it; the channels stay well typed.
LEMMA DropType ==
    ASSUME NEW S, NEW chan \in [Gens -> Seq(S)], NEW g
    PROVE  Drop(chan, g) \in [Gens -> Seq(S)]
<1>1. <<>> \in Seq(S)
  OBVIOUS
<1> QED
  BY <1>1 DEF Drop

\* Delivering a frame to a handler leaves well-typed channels.
LEMMA TailType ==
    ASSUME NEW S, NEW chan \in [Gens -> Seq(S)], NEW g \in Gens, chan[g] # <<>>
    PROVE  /\ Head(chan[g]) \in S
           /\ [chan EXCEPT ![g] = Tail(@)] \in [Gens -> Seq(S)]
OBVIOUS

\* The closing of an end keeps the ends well typed.
LEMMA CloseType ==
    ASSUME NEW ends \in [Gens -> EndStates], NEW g
    PROVE  CloseEnd(ends, g) \in [Gens -> EndStates]
BY DEF CloseEnd, EndStates

\* The fields of a relay and of an agent that have just been constructed are
\* well typed.
LEMMA InitTyped == Init => TypeOK
<1> SUFFICES ASSUME Init PROVE TypeOK
  OBVIOUS
<1>1. WireTypeOK
  <2>1. <<>> \in Seq(AgentMsgs) /\ <<>> \in Seq(GatewayMsgs)
    OBVIOUS
  <2> QED
    BY <2>1 DEF Init, WireInit, WireTypeOK, EndStates
<1>2. GatewayTypeOK
  <2>1. 0 \in 0..MaxGen /\ 0 \in 0..(MaxGen + 1) /\ 0 \in 0..MaxAttempts
    BY MaxGenAssumption, MaxAttemptsAssumption
  <2> QED
    BY <2>1, Zenon DEF Init, GatewayInit, GatewayTypeOK, PCs, Outcomes, Results
<1>3. AgentTypeOK
  <2>1. 0 \in 0..MaxGen /\ 0 \in Nat
    BY MaxGenAssumption
  <2> QED
    BY <2>1, Zenon DEF Init, AgentInit, AgentTypeOK
<1> QED
  BY <1>1, <1>2, <1>3 DEF TypeOK

\* A cancellation is a well-typed frame.
LEMMA CancelTyped ==
    ASSUME TypeOK, NEW r, NEW res, CancelPending(r, res), r \in Requests
    PROVE  toAgent' \in [Gens -> Seq(AgentMsgs)]
<1>1. [type |-> "cancel", req |-> r] \in AgentMsgs
  BY DEF AgentMsgs
<1>2. toAgent \in [Gens -> Seq(AgentMsgs)]
  BY DEF TypeOK, WireTypeOK
<1>3. CASE gwEnd[reqGen[r]] = "open"
  <2>1. toAgent' = Put(toAgent, reqGen[r], agEnd[reqGen[r]], [type |-> "cancel", req |-> r])
    BY <1>3, Zenon DEF CancelPending, Transmit
  <2> QED
    BY <1>1, <1>2, <2>1, PutType, Zenon
<1>4. CASE gwEnd[reqGen[r]] # "open"
  BY <1>2, <1>4, Zenon DEF CancelPending
<1> QED
  BY <1>3, <1>4

\* The steps of one call.
LEMMA CallTyped ==
    ASSUME TypeOK, RequestMade, NEW c \in Calls, CallStep(c), UNCHANGED agentVars
    PROVE  TypeOK'
<1> USE MaxGenAssumption, MaxAttemptsAssumption
    DEF TypeOK, WireTypeOK, GatewayTypeOK, AgentTypeOK, agentVars, wireVars,
        serviceVars, Gens, PCs, Results, Outcomes
<1>1. CASE Call(c)
  BY <1>1 DEF Call
<1>2. CASE CallUnavailable(c)
  BY <1>2 DEF CallUnavailable, Settle
<1>3. CASE CallAwaitsAgent(c)
  <2>1. NextReady \in 0..(MaxGen + 1)
    BY DEF NextReady
  <2> QED
    BY <1>3, <2>1 DEF CallAwaitsAgent, Wait, Settle
<1>4. CASE RequestBusy(c)
  BY <1>4 DEF RequestBusy, Settle
<1>5. CASE RequestRefused(c)
  <2>1. PICK res \in {"protocol", "timeout"} : Settle(c, res)
    BY <1>5 DEF RequestRefused
  <2> QED
    BY <1>5, <2>1 DEF RequestRefused, Settle
<1>6. CASE RequestAborted(c) \/ RequestSent(c)
  <2>1. NewRequest(c)
    BY <1>6 DEF RequestAborted, RequestSent
  <2>2. <<c, attempts[c] + 1>> \in Requests
    BY <2>1 DEF NewRequest, Requests
  <2>3. attempts' \in [Calls -> 0..MaxAttempts] /\ reqGen' \in [Requests -> 0..MaxGen]
    BY <2>1, <2>2 DEF NewRequest
  <2>4. \A type \in {"request", "cancel"} :
           [type |-> type, req |-> <<c, attempts[c] + 1>>] \in AgentMsgs
    BY <2>2 DEF AgentMsgs
  <2>5. toAgent' \in [Gens -> Seq(AgentMsgs)]
    <3>1. PICK type \in {"request", "cancel"} :
            toAgent' = Put(toAgent, sock, agEnd[sock],
                           [type |-> type, req |-> <<c, attempts[c] + 1>>])
      BY <1>6, Zenon DEF RequestAborted, RequestSent, Transmit
    <3> QED
      BY <2>4, <3>1, PutType, Zenon
  <2> QED
    BY <1>6, <2>2, <2>3, <2>5 DEF RequestAborted, RequestSent, Settle
<1>7. CASE Abort(c)
  <2>1. toAgent' \in [Gens -> Seq(AgentMsgs)]
    <3>1. CASE pc[c] = "pending"
      <4>1. Cur(c) \in Requests /\ CancelPending(Cur(c), "cancelled")
        BY <1>7, <3>1 DEF Abort, CancelPending, Armed
      <4> QED
        BY <4>1, CancelTyped
    <3> QED
      BY <1>7, <3>1 DEF Abort
  <2>2. pc' \in [Calls -> PCs] /\ result' \in [Calls -> Results] /\ pending' \subseteq Requests
    BY <1>7 DEF Abort, CancelPending, Settle
  <2> QED
    BY <1>7, <2>1, <2>2 DEF Abort
<1>8. CASE WaiterTimeout(c)
  BY <1>8 DEF WaiterTimeout, Settle
<1>9. CASE CatchGivesUp(c)
  BY <1>9 DEF CatchGivesUp, Settle, CaughtOutcome
<1>10. CASE CatchRecovers(c)
  <2>1. CASE IsConnected /\ gen >= RetryGeneration(c)
    BY <1>10, <2>1 DEF CatchRecovers, CaughtOutcome
  <2>2. CASE ~(IsConnected /\ gen >= RetryGeneration(c))
    <3>1. minGen' \in [Calls -> 0..(MaxGen + 1)]
      <4>1. Cur(c) \in Requests
        BY <1>10 DEF CatchRecovers, RequestMade, Requests, Cur
      <4>2. RetryGeneration(c) \in 0..(MaxGen + 1)
        BY <4>1 DEF RetryGeneration
      <4> QED
        BY <1>10, <2>2, <4>2 DEF CatchRecovers, Wait
    <3> QED
      BY <1>10, <2>2, <3>1 DEF CatchRecovers, Wait, Settle, CaughtOutcome
  <2> QED
    BY <2>1, <2>2
<1> QED
  BY <1>1, <1>2, <1>3, <1>4, <1>5, <1>6, <1>7, <1>8, <1>9, <1>10 DEF CallStep

\* The watchdog and the send callback of one request.
LEMMA RequestTyped ==
    ASSUME TypeOK, NEW r \in Requests, RequestStep(r), UNCHANGED agentVars
    PROVE  TypeOK'
<1> USE DEF TypeOK, WireTypeOK, GatewayTypeOK, AgentTypeOK, agentVars, wireVars,
            serviceVars, PCs, Results
<1>1. CASE SendError(r)
  BY <1>1 DEF SendError, RejectAs
<1>2. CASE Watchdog(r)
  <2>1. toAgent' \in [Gens -> Seq(AgentMsgs)]
    BY <1>2, CancelTyped DEF Watchdog
  <2> QED
    BY <1>2, <2>1 DEF Watchdog, CancelPending, Settle
<1> QED
  BY <1>1, <1>2, Zenon DEF RequestStep

\* The events of one connection at the gateway.
LEMMA ConnectionTyped ==
    ASSUME TypeOK, NEW g \in Gens, ConnectionStep(g), UNCHANGED agentVars
    PROVE  TypeOK'
<1> USE MaxGenAssumption
    DEF TypeOK, WireTypeOK, GatewayTypeOK, AgentTypeOK, agentVars, gatewayVars,
        callVars, wireVars, serviceVars
<1>0. CloseEnd(gwEnd, g) \in [Gens -> EndStates] /\ g \in 0..MaxGen
  <2>1. CloseEnd(gwEnd, g) \in [Gens -> EndStates]
    BY CloseType, Zenon
  <2>2. g \in 0..MaxGen
    BY DEF Gens
  <2> QED
    BY <2>1, <2>2
<1>1. CASE HelloTimeout(g)
  BY <1>0, <1>1 DEF HelloTimeout
<1>2. ASSUME Receive(g)
      PROVE  /\ Head(toGateway[g]) \in GatewayMsgs
             /\ toGateway' \in [Gens -> Seq(GatewayMsgs)]
             /\ UNCHANGED <<agEnd, toAgent>>
  BY <1>2, TailType DEF Receive
<1>3. CASE OnHello(g)
  <2>1. toGateway' \in [Gens -> Seq(GatewayMsgs)] /\ UNCHANGED <<agEnd, toAgent>>
    BY <1>2, <1>3 DEF OnHello
  <2>2. pc' \in [Calls -> PCs]
    BY <1>3 DEF OnHello, PCs
  <2> QED
    BY <1>0, <1>3, <2>1, <2>2 DEF OnHello
<1>4. CASE OnInvalidMessage(g)
  <2>1. toGateway' \in [Gens -> Seq(GatewayMsgs)] /\ UNCHANGED <<agEnd, toAgent>>
    BY <1>2, <1>4 DEF OnInvalidMessage
  <2> QED
    BY <1>0, <1>4, <2>1 DEF OnInvalidMessage
<1>5. CASE OnResponse(g)
  <2>1. toGateway' \in [Gens -> Seq(GatewayMsgs)] /\ UNCHANGED <<agEnd, toAgent>>
    BY <1>2, <1>5 DEF OnResponse
  <2>2. PICK m \in ResponseMsgs :
          /\ m.kind # "badFrame"
          /\ IF m.req \notin pending
             THEN UNCHANGED <<pending, pc, result>>
             ELSE IF Unavailable(m.kind)
             THEN RejectAs({m.req}, Caught(m.kind)) /\ UNCHANGED result
             ELSE /\ pending' = pending \ {m.req}
                  /\ Settle(m.req[1], Validated(m.kind))
    BY <1>5 DEF OnResponse
  <2>3. ~Unavailable(m.kind) => Validated(m.kind) \in Results
    <3>1. m.kind \in AllKinds
      BY DEF ResponseMsgs
    <3> QED
      BY <2>2, <3>1 DEF Unavailable, Validated, Results, AllKinds
  <2>4. pc' \in [Calls -> PCs] /\ result' \in [Calls -> Results] /\ pending' \subseteq Requests
    BY <2>2, <2>3 DEF RejectAs, Caught, Settle, PCs
  <2> QED
    BY <1>5, <2>1, <2>4 DEF OnResponse
<1>6. CASE OnClose(g)
  <2>1. toGateway' \in [Gens -> Seq(GatewayMsgs)]
    BY <1>6, DropType DEF OnClose
  <2>2. gwEnd' \in [Gens -> EndStates]
    BY <1>6 DEF OnClose, EndStates
  <2>3. pc' \in [Calls -> PCs] /\ pending' \subseteq Requests
    BY <1>6 DEF OnClose, RejectAs, PCs
  <2>4. sock' \in 0..MaxGen /\ heartbeat' \in 0..MaxGen /\ beats' \subseteq Gens
    BY <1>6 DEF OnClose
  <2>5. ready' \in BOOLEAN
    BY <1>6, Zenon DEF OnClose
  <2> QED
    BY <1>6, <2>1, <2>2, <2>3, <2>4, <2>5 DEF OnClose
<1>7. CASE HeartbeatTick(g)
  BY <1>0, <1>7 DEF HeartbeatTick
<1>8. CASE Pong(g)
  BY <1>8 DEF Pong
<1> QED
  BY <1>1, <1>3, <1>4, <1>5, <1>6, <1>7, <1>8 DEF ConnectionStep

\* close() and a new connection.
LEMMA GatewayTyped ==
    ASSUME TypeOK, Shutdown \/ Accept, UNCHANGED agentVars
    PROVE  TypeOK'
<1> USE MaxGenAssumption
    DEF TypeOK, WireTypeOK, GatewayTypeOK, AgentTypeOK, agentVars, callVars
<1>1. CASE Shutdown
  <2>1. gwEnd' \in [Gens -> EndStates]
    BY <1>1, CloseType, Zenon DEF Shutdown
  <2>2. pc' \in [Calls -> PCs] /\ result' \in [Calls -> Results]
    BY <1>1 DEF Shutdown, PCs, Results
  <2>3. sock' \in 0..MaxGen /\ heartbeat' \in 0..MaxGen /\ beats' \subseteq Gens
    BY <1>1 DEF Shutdown
  <2> QED
    BY <1>1, <2>1, <2>2, <2>3 DEF Shutdown
<1>2. CASE Accept
  <2>1. gen' \in 0..MaxGen /\ sock' \in 0..MaxGen
    BY <1>2 DEF Accept
  <2>2. gwEnd' \in [Gens -> EndStates] /\ agEnd' \in [Gens -> EndStates]
    BY <1>2 DEF Accept, EndStates
  <2> QED
    BY <1>2, <2>1, <2>2 DEF Accept
<1> QED
  BY <1>1, <1>2

\* The agent's steps.
LEMMA AgentTyped ==
    ASSUME TypeOK, AgentNext, UNCHANGED gatewayVars
    PROVE  TypeOK'
<1> USE MaxGenAssumption, ShellAssumption
    DEF TypeOK, WireTypeOK, GatewayTypeOK, AgentTypeOK, wireVars, gatewayVars,
        serviceVars, callVars, agentVars
<1>1. CASE Stop
  BY <1>1 DEF Stop, AbortAll, EndStates
<1>2. CASE Crash
  <2>1. toAgent' \in [Gens -> Seq(AgentMsgs)]
    <3>1. <<>> \in Seq(AgentMsgs)
      OBVIOUS
    <3> QED
      BY <1>2, <3>1 DEF Crash
  <2>2. agEnd' \in [Gens -> EndStates]
    BY <1>2 DEF Crash, EndStates
  <2>3. exec' \in [Requests -> {"none", "running", "aborting"}] /\ stopped' \in BOOLEAN
    BY <1>2, Zenon DEF Crash
  <2>4. execGen' \in [Requests -> 0..MaxGen]
    BY <1>2 DEF Crash
  <2>5. lease' \in [Workspaces -> Requests \cup {Free}]
    BY <1>2, Zenon DEF Crash
  <2> QED
    BY <1>2, <2>1, <2>2, <2>3, <2>4, <2>5 DEF Crash
<1>3. ASSUME NEW g \in Gens, Open(g)
      PROVE  TypeOK'
  <2>1. PICK b \in Builds : toGateway' = Put(toGateway, g, gwEnd[g],
                                             [type |-> "hello", compatible |-> b])
    BY <1>3 DEF Open
  <2>2. [type |-> "hello", compatible |-> b] \in GatewayMsgs
    BY DEF GatewayMsgs, HelloMsgs
  <2>3. toGateway' \in [Gens -> Seq(GatewayMsgs)]
    BY <2>1, <2>2, PutType, Zenon
  <2> QED
    BY <1>3, <2>3 DEF Open, EndStates
<1>4. ASSUME NEW g \in Gens, AgentOnClose(g)
      PROVE  TypeOK'
  <2>1. toAgent' \in [Gens -> Seq(AgentMsgs)]
    BY <1>4, DropType, Zenon DEF AgentOnClose
  <2> QED
    BY <1>4, <2>1 DEF AgentOnClose, AbortAll, EndStates
<1>5. ASSUME NEW g \in Gens, NEW type, Deliver(g, type)
      PROVE  /\ Head(toAgent[g]) \in AgentMsgs
             /\ Head(toAgent[g]).req \in Requests
             /\ toAgent' \in [Gens -> Seq(AgentMsgs)]
             /\ UNCHANGED <<gwEnd, agEnd>>
  <2>1. Head(toAgent[g]) \in AgentMsgs
    BY <1>5, TailType DEF Deliver
  <2>2. toAgent' \in [Gens -> Seq(AgentMsgs)] /\ UNCHANGED <<gwEnd, agEnd>>
    BY <1>5, TailType DEF Deliver
  <2> QED
    BY <2>1, <2>2 DEF AgentMsgs
<1>6. ASSUME NEW g, NEW r \in Requests, NEW k \in AllKinds, Respond(g, r, k)
      PROVE  toGateway' \in [Gens -> Seq(GatewayMsgs)]
  <2>1. [type |-> "response", req |-> r, kind |-> k] \in GatewayMsgs
    BY DEF GatewayMsgs, ResponseMsgs
  <2>2. CASE agEnd[g] = "open"
    <3>1. toGateway' = Put(toGateway, g, gwEnd[g],
                           [type |-> "response", req |-> r, kind |-> k])
      BY <1>6, <2>2, Zenon DEF Respond
    <3> QED
      BY <2>1, <3>1, PutType, Zenon
  <2>3. CASE agEnd[g] # "open"
    BY <1>6, <2>3, Zenon DEF Respond
  <2> QED
    BY <2>2, <2>3
<1>7. ASSUME NEW g \in Gens, RefuseRequest(g)
      PROVE  TypeOK'
  <2>1. toGateway' \in [Gens -> Seq(GatewayMsgs)]
    BY <1>5, <1>6, <1>7, Zenon DEF RefuseRequest, AllKinds
  <2> QED
    BY <1>5, <1>7, <2>1 DEF RefuseRequest
<1>8. ASSUME NEW g \in Gens, StartRequest(g)
      PROVE  TypeOK'
  <2> DEFINE r == Head(toAgent[g]).req
  <2>1. r \in Requests /\ toAgent' \in [Gens -> Seq(AgentMsgs)] /\ UNCHANGED <<gwEnd, agEnd>>
    BY <1>5, <1>8 DEF StartRequest
  <2>2. lease' \in [Workspaces -> Requests \cup {Free}]
    BY <1>8, <2>1 DEF StartRequest
  <2>3. g \in 0..MaxGen
    BY DEF Gens
  <2>4. /\ exec' = [exec EXCEPT ![r] = "running"]
        /\ execGen' = [execGen EXCEPT ![r] = g]
        /\ starts' = [starts EXCEPT ![r] = starts[r] + 1]
    BY <1>8, Zenon DEF StartRequest
  <2> HIDE DEF r
  <2>5. /\ exec' \in [Requests -> {"none", "running", "aborting"}]
        /\ execGen' \in [Requests -> 0..MaxGen]
        /\ starts' \in [Requests -> Nat]
    BY <2>1, <2>3, <2>4
  <2> QED
    BY <1>8, <2>1, <2>2, <2>5 DEF StartRequest
<1>9. ASSUME NEW g \in Gens, CancelRequest(g)
      PROVE  TypeOK'
  <2>1. toAgent' \in [Gens -> Seq(AgentMsgs)] /\ UNCHANGED <<gwEnd, agEnd>>
    BY <1>5, <1>9 DEF CancelRequest
  <2>2. exec' \in [Requests -> {"none", "running", "aborting"}]
    BY <1>9 DEF CancelRequest
  <2> QED
    BY <1>9, <2>1, <2>2 DEF CancelRequest
<1>10. ASSUME NEW r \in Requests, AgentWatchdog(r)
       PROVE  TypeOK'
  BY <1>10 DEF AgentWatchdog
<1>11. ASSUME NEW r \in Requests, NEW k \in RespKinds, FinishRequest(r, k)
       PROVE  TypeOK'
  <2>1. toGateway' \in [Gens -> Seq(GatewayMsgs)]
    <3>1. k \in AllKinds
      BY ShellAssumption
    <3> QED
      BY <1>6, <1>11, <3>1, Zenon DEF FinishRequest
  <2>2. lease' \in [Workspaces -> Requests \cup {Free}]
    BY <1>11 DEF FinishRequest, Released
  <2> QED
    BY <1>11, <2>1, <2>2 DEF FinishRequest
<1> QED
  BY <1>1, <1>2, <1>3, <1>4, <1>7, <1>8, <1>9, <1>10, <1>11, Zenon
     DEF AgentNext, ExecutorStep

\* Every step keeps the types, given that calls beyond the loop made a request.
LEMMA NextTyped == TypeOK /\ RequestMade /\ [Next]_vars => TypeOK'
<1> SUFFICES ASSUME TypeOK, RequestMade, [Next]_vars PROVE TypeOK'
  OBVIOUS
<1>1. CASE Connect
  BY <1>1, GatewayTyped DEF Connect
<1>2. CASE GatewayNext /\ UNCHANGED agentVars
  BY <1>2, CallTyped, RequestTyped, ConnectionTyped, GatewayTyped, Zenon DEF GatewayNext
<1>3. CASE AgentNext /\ UNCHANGED gatewayVars
  BY <1>3, AgentTyped
<1>4. ASSUME NEW g \in Gens, GwBreak(g) \/ AgBreak(g), UNCHANGED <<gatewayVars, agentVars>>
      PROVE  TypeOK'
  BY <1>4 DEF GwBreak, AgBreak, gatewayVars, agentVars, serviceVars, callVars,
              TypeOK, WireTypeOK, GatewayTypeOK, AgentTypeOK, EndStates
<1>5. CASE UNCHANGED vars
  BY <1>5 DEF vars, wireVars, gatewayVars, agentVars, serviceVars, callVars,
              TypeOK, WireTypeOK, GatewayTypeOK, AgentTypeOK
<1> QED
  BY <1>1, <1>2, <1>3, <1>4, <1>5, Zenon DEF Next

-----------------------------------------------------------------------------
(***************************************************************************)
(* What the calls know: the parts of Inv about the gateway's own state.    *)
(***************************************************************************)
CallInv == RequestMade /\ AttemptBound /\ GenerationsOrdered /\ RetryOnLaterConnection

\* The variables CallInv is about.
knowledge == <<gen, sock, pc, recovery, minGen, attempts, reqGen>>

\* What AgentRelay.call knows of its requests depends on these variables only.
LEMMA KnowledgeUnchanged == CallInv /\ UNCHANGED knowledge => CallInv'
BY DEF CallInv, knowledge, RequestMade, AttemptBound, GenerationsOrdered,
       RetryOnLaterConnection, Cur

\* Moving calls to "done", "rejected", "disclaimed" or "shutdown" loses nothing.
LEMMA Leaving ==
    ASSUME TypeOK, CallInv, UNCHANGED <<gen, recovery, minGen, attempts, reqGen>>, sock' \in {0, sock},
           pc' \in [Calls -> PCs],
           \A c \in Calls :
             \/ pc'[c] = pc[c]
             \/ pc'[c] \in {"rejected", "disclaimed", "shutdown"} /\ attempts[c] >= 1
             \/ pc'[c] = "done"
    PROVE  CallInv'
<1> USE DEF CallInv
<1>1. RequestMade'
  BY DEF RequestMade
<1>2. AttemptBound'
  BY DEF AttemptBound
<1>3. GenerationsOrdered'
  BY DEF GenerationsOrdered, Cur
<1>4. RetryOnLaterConnection'
  BY DEF RetryOnLaterConnection
<1> QED
  BY <1>1, <1>2, <1>3, <1>4

\* A new request of a call in the loop.
LEMMA Requesting ==
    ASSUME TypeOK, CallInv, NEW c \in Calls, NewRequest(c),
           UNCHANGED <<gen, sock, recovery, minGen>>,
           pc' = [pc EXCEPT ![c] = "pending"] \/ Settle(c, "cancelled")
    PROVE  CallInv'
<1> USE MaxGenAssumption, MaxAttemptsAssumption DEF CallInv, TypeOK, GatewayTypeOK
<1> DEFINE k == attempts[c] + 1
           n == <<c, k>>
<1>1. /\ pc[c] = "loop" /\ k \in 1..MaxAttempts /\ n \in Requests
      /\ attempts' = [attempts EXCEPT ![c] = k]
      /\ reqGen' = [reqGen EXCEPT ![n] = gen]
      /\ gen # 0
  <2>1. gen # 0
    BY DEF NewRequest, CanAttempt, IsConnected, SocketOpen, GenerationsOrdered
  <2> QED
    BY <2>1 DEF NewRequest, CanAttempt, Requests
<1>2. RequestMade'
  BY <1>1 DEF RequestMade, Settle
<1>3. AttemptBound'
  BY <1>1 DEF AttemptBound, Settle
<1>4. GenerationsOrdered'
  <2> HIDE DEF k, n
  <2>1. \A r \in Requests : /\ reqGen'[r] <= gen'
                            /\ reqGen'[r] # 0 <=> r[2] <= attempts'[r[1]]
    <3> SUFFICES ASSUME NEW r \in Requests
                 PROVE  /\ reqGen'[r] <= gen'
                        /\ reqGen'[r] # 0 <=> r[2] <= attempts'[r[1]]
      OBVIOUS
    <3>1. CASE r = n
      BY <1>1, <3>1 DEF GenerationsOrdered, k, n
    <3>2. CASE r # n /\ r[1] = c
      BY <1>1, <3>2 DEF GenerationsOrdered, Requests, k, n
    <3>3. CASE r[1] # c
      BY <1>1, <3>3 DEF GenerationsOrdered, Requests, n
    <3> QED
      BY <3>1, <3>2, <3>3
  <2>2. \A d \in Calls : attempts'[d] >= 1 =>
          /\ pc'[d] = "loop" => reqGen'[<<d, attempts'[d]>>] < gen'
          /\ pc'[d] = "waiting" => reqGen'[<<d, attempts'[d]>>] < minGen'[d]
    <3> SUFFICES ASSUME NEW d \in Calls, attempts'[d] >= 1
                 PROVE  /\ pc'[d] = "loop" => reqGen'[<<d, attempts'[d]>>] < gen'
                        /\ pc'[d] = "waiting" => reqGen'[<<d, attempts'[d]>>] < minGen'[d]
      OBVIOUS
    <3>1. CASE d = c
      BY <1>1, <3>1 DEF Settle
    <3>2. CASE d # c
      BY <1>1, <3>2 DEF Settle, GenerationsOrdered, Cur, n
    <3> QED
      BY <3>1, <3>2
  <2> QED
    BY <2>1, <2>2 DEF GenerationsOrdered, Cur
<1>5. RetryOnLaterConnection'
  BY <1>1 DEF RetryOnLaterConnection, GenerationsOrdered, Cur, Requests, AttemptBound
<1> QED
  BY <1>2, <1>3, <1>4, <1>5

\* A call that has not recovered yet does so: it re-enters the loop, waits, or
\* gives up.
LEMMA Recovering ==
    ASSUME TypeOK, CallInv, NEW c \in Calls, NEW g \in 0..(MaxGen + 1),
           UNCHANGED <<gen, sock, attempts, reqGen>>,
           c \in Retryable, ~recovery[c], pc[c] \in {"loop", "rejected", "disclaimed"},
           recovery' = [recovery EXCEPT ![c] = TRUE],
           pc[c] # "loop" => reqGen[Cur(c)] < g,
           \/ pc' = [pc EXCEPT ![c] = "loop"] /\ gen >= g /\ pc[c] # "loop" /\ UNCHANGED minGen
           \/ Settle(c, "unavailable") /\ UNCHANGED minGen
           \/ /\ pc' = [pc EXCEPT ![c] = "waiting"]
              /\ minGen' = [minGen EXCEPT ![c] = g]
    PROVE  CallInv'
<1> USE MaxGenAssumption, MaxAttemptsAssumption DEF CallInv, TypeOK, GatewayTypeOK
<1>0. pc[c] = "loop" => attempts[c] = 0
  BY DEF AttemptBound
<1>1. RequestMade'
  BY DEF RequestMade, Settle
<1>2. AttemptBound'
  BY <1>0 DEF AttemptBound, Settle
<1>3. GenerationsOrdered'
  <2> SUFFICES ASSUME NEW d \in Calls, attempts'[d] >= 1
               PROVE  /\ pc'[d] = "loop" => reqGen'[<<d, attempts'[d]>>] < gen'
                      /\ pc'[d] = "waiting" => reqGen'[<<d, attempts'[d]>>] < minGen'[d]
    BY DEF GenerationsOrdered, Cur
  <2>1. CASE d = c
    <3>1. <<c, attempts[c]>> \in Requests /\ reqGen[<<c, attempts[c]>>] \in 0..MaxGen
      BY <2>1 DEF Requests
    <3> QED
      BY <1>0, <2>1, <3>1 DEF Settle, Cur
  <2>2. CASE d # c
    BY <2>2 DEF Settle, GenerationsOrdered, Cur
  <2> QED
    BY <2>1, <2>2
<1>4. RetryOnLaterConnection'
  BY DEF RetryOnLaterConnection
<1> QED
  BY <1>1, <1>2, <1>3, <1>4

\* Every step of AgentRelay.call and of AgentRelayRequestManager.call keeps what
\* the call knows of its requests.
LEMMA CallKnows ==
    ASSUME TypeOK, TypeOK', CallInv, NEW c \in Calls, CallStep(c)
    PROVE  CallInv'
<1> USE MaxGenAssumption DEF serviceVars
<1>0. pc \in [Calls -> PCs] /\ pc' \in [Calls -> PCs]
  BY DEF TypeOK, GatewayTypeOK
<1>1. CASE Call(c)
  <2> USE <1>0, <1>1 DEF Call, CallInv
  <2>1. RequestMade'
    BY DEF RequestMade
  <2>2. AttemptBound'
    BY DEF AttemptBound
  <2>3. GenerationsOrdered'
    <3>1. attempts[c] = 0
      BY DEF AttemptBound, GatewayTypeOK, TypeOK
    <3> QED
      BY <3>1 DEF GenerationsOrdered, Cur
  <2>4. RetryOnLaterConnection'
    BY DEF RetryOnLaterConnection
  <2> QED
    BY <2>1, <2>2, <2>3, <2>4
<1>2. CASE \/ CallUnavailable(c) \/ RequestBusy(c) \/ RequestRefused(c)
           \/ WaiterTimeout(c) \/ CatchGivesUp(c)
  <2>1. UNCHANGED <<gen, sock, recovery, minGen, attempts, reqGen>>
    BY <1>2 DEF CallUnavailable, RequestBusy, RequestRefused, WaiterTimeout, CatchGivesUp
  <2>2. \A d \in Calls : pc'[d] = pc[d] \/ pc'[d] = "done"
    BY <1>0, <1>2 DEF CallUnavailable, RequestBusy, RequestRefused, WaiterTimeout,
                      CatchGivesUp, Settle
  <2> QED
    BY <1>0, <2>1, <2>2, Leaving
<1>3. CASE Abort(c)
  <2>1. UNCHANGED <<gen, sock, recovery, minGen, attempts, reqGen>>
    BY <1>3 DEF Abort
  <2>2. \A d \in Calls : pc'[d] = pc[d] \/ pc'[d] = "done"
    BY <1>0, <1>3, <2>1 DEF Abort, CancelPending, Settle, Cur
  <2> QED
    BY <1>0, <2>1, <2>2, Leaving
<1>4. CASE RequestAborted(c) \/ RequestSent(c)
  BY <1>4, Requesting DEF RequestAborted, RequestSent
<1>5. CASE CallAwaitsAgent(c)
  <2>1. NextReady \in 0..(MaxGen + 1)
    BY DEF NextReady, TypeOK, GatewayTypeOK
  <2>2. /\ UNCHANGED <<gen, sock, attempts, reqGen>>
        /\ c \in Retryable /\ ~recovery[c] /\ pc[c] = "loop"
        /\ recovery' = [recovery EXCEPT ![c] = TRUE]
        /\ \/ Settle(c, "unavailable") /\ UNCHANGED minGen
           \/ /\ pc' = [pc EXCEPT ![c] = "waiting"]
              /\ minGen' = [minGen EXCEPT ![c] = NextReady]
    BY <1>5 DEF CallAwaitsAgent, Wait
  <2> QED
    BY <2>1, <2>2, Recovering
<1>6. CASE CatchRecovers(c)
  <2>1. Cur(c) \in Requests
    BY <1>6, MaxAttemptsAssumption
       DEF CatchRecovers, CallInv, RequestMade, Requests, Cur, TypeOK, GatewayTypeOK
  <2>2. RetryGeneration(c) \in 0..(MaxGen + 1) /\ reqGen[Cur(c)] < RetryGeneration(c)
    BY <2>1 DEF RetryGeneration, TypeOK, GatewayTypeOK
  <2>3. /\ UNCHANGED <<gen, sock, attempts, reqGen>>
        /\ c \in Retryable /\ ~recovery[c] /\ pc[c] \in {"rejected", "disclaimed"}
        /\ recovery' = [recovery EXCEPT ![c] = TRUE]
        /\ \/ /\ pc' = [pc EXCEPT ![c] = "loop"] /\ gen >= RetryGeneration(c)
              /\ UNCHANGED minGen
           \/ Settle(c, "unavailable") /\ UNCHANGED minGen
           \/ /\ pc' = [pc EXCEPT ![c] = "waiting"]
              /\ minGen' = [minGen EXCEPT ![c] = RetryGeneration(c)]
    BY <1>6 DEF CatchRecovers, Wait, GivesUp
  <2> QED
    BY <2>2, <2>3, Recovering
<1> QED
  BY <1>1, <1>2, <1>3, <1>4, <1>5, <1>6 DEF CallStep

\* A later generation, and the waiters it serves.
LEMMA ConnectionKnows ==
    ASSUME TypeOK, TypeOK', CallInv,
           \/ Accept \/ Shutdown
           \/ \E g \in Gens : ConnectionStep(g)
           \/ \E r \in Requests : RequestStep(r)
    PROVE  CallInv'
<1> USE MaxGenAssumption DEF serviceVars, callVars
<1>0. /\ pc \in [Calls -> PCs] /\ pc' \in [Calls -> PCs]
      /\ pending \subseteq Requests /\ gen \in 0..MaxGen
  BY DEF TypeOK, GatewayTypeOK
<1>1. CASE Accept
  <2> USE <1>0, <1>1 DEF Accept, CallInv
  <2>1. RequestMade' /\ AttemptBound' /\ RetryOnLaterConnection'
    BY DEF RequestMade, AttemptBound, RetryOnLaterConnection
  <2>2. GenerationsOrdered'
    <3>1. reqGen \in [Requests -> 0..MaxGen] /\ attempts \in [Calls -> 0..MaxAttempts]
      BY DEF TypeOK, GatewayTypeOK
    <3>2. \A c \in Calls : attempts[c] >= 1 => Cur(c) \in Requests
      BY <3>1, MaxAttemptsAssumption DEF Cur, Requests
    <3> QED
      BY <3>1, <3>2 DEF GenerationsOrdered, Cur
  <2> QED
    BY <2>1, <2>2
<1>2. ASSUME NEW R \in SUBSET pending, NEW to \in {"rejected", "disclaimed"}, RejectAs(R, to),
             UNCHANGED <<gen, recovery, minGen, attempts, reqGen>>,
             sock' \in {0, sock}
      PROVE  CallInv'
  <2>1. \A c \in Calls : Cur(c) \in R => attempts[c] >= 1
    BY <1>0 DEF Cur, Requests
  <2>2. \A c \in Calls :
          \/ pc'[c] = pc[c]
          \/ pc'[c] \in {"rejected", "disclaimed"} /\ attempts[c] >= 1
    BY <1>0, <1>2, <2>1 DEF RejectAs
  <2> QED
    BY <1>0, <1>2, <2>2, Leaving
<1>3. CASE Shutdown
  <2>1. \A c \in Calls :
          pc'[c] \in {pc[c], "done"} \/ (pc'[c] = "shutdown" /\ attempts[c] >= 1)
    BY <1>0, <1>3 DEF Shutdown, CallInv, RequestMade
  <2>2. UNCHANGED <<gen, recovery, minGen, attempts, reqGen>> /\ sock' \in {0, sock}
    BY <1>3 DEF Shutdown
  <2> QED
    BY <1>0, <2>1, <2>2, Leaving
<1>4. ASSUME NEW g \in Gens, HelloTimeout(g) \/ OnInvalidMessage(g) \/ HeartbeatTick(g) \/ Pong(g)
      PROVE  CallInv'
  BY <1>4, KnowledgeUnchanged
     DEF HelloTimeout, OnInvalidMessage, HeartbeatTick, Pong, knowledge, gatewayVars
<1>5. ASSUME NEW g \in Gens, OnHello(g)
      PROVE  CallInv'
  <2> USE <1>0, <1>5 DEF OnHello, Served, CallInv
  <2>1. RequestMade'
    BY DEF RequestMade
  <2>2. AttemptBound'
    BY DEF AttemptBound
  <2>3. GenerationsOrdered'
    <3>1. /\ reqGen \in [Requests -> 0..MaxGen] /\ attempts \in [Calls -> 0..MaxAttempts]
          /\ minGen \in [Calls -> 0..(MaxGen + 1)]
      BY DEF TypeOK, GatewayTypeOK
    <3>2. \A c \in Calls : attempts[c] >= 1 => Cur(c) \in Requests
      BY <3>1, MaxAttemptsAssumption DEF Cur, Requests
    <3> QED
      BY <3>1, <3>2 DEF GenerationsOrdered, Cur
  <2>4. RetryOnLaterConnection'
    BY DEF RetryOnLaterConnection
  <2> QED
    BY <2>1, <2>2, <2>3, <2>4
<1>6. ASSUME NEW g \in Gens, OnResponse(g)
      PROVE  CallInv'
  <2>1. PICK m \in ResponseMsgs :
          /\ IF m.req \notin pending
             THEN UNCHANGED <<pending, pc, result>>
             ELSE IF Unavailable(m.kind)
             THEN RejectAs({m.req}, Caught(m.kind)) /\ UNCHANGED result
             ELSE /\ pending' = pending \ {m.req}
                  /\ Settle(m.req[1], Validated(m.kind))
    BY <1>6 DEF OnResponse
  <2>2. UNCHANGED <<gen, sock, recovery, minGen, attempts, reqGen>>
    BY <1>6 DEF OnResponse
  <2>3. CASE m.req \notin pending
    BY <2>1, <2>2, <2>3, KnowledgeUnchanged DEF knowledge
  <2>4. CASE m.req \in pending /\ Unavailable(m.kind)
    BY <1>2, <2>1, <2>2, <2>4 DEF Caught
  <2>5. CASE m.req \in pending /\ ~Unavailable(m.kind)
    <3>1. \A c \in Calls : pc'[c] = pc[c] \/ pc'[c] = "done"
      BY <1>0, <2>1, <2>2, <2>5 DEF Settle
    <3> QED
      BY <1>0, <2>2, <3>1, Leaving
  <2> QED
    BY <2>3, <2>4, <2>5
<1>7. ASSUME NEW g \in Gens, OnClose(g)
      PROVE  CallInv'
  BY <1>2, <1>7 DEF OnClose, OfGeneration
<1>8. ASSUME NEW r \in Requests, SendError(r)
      PROVE  CallInv'
  BY <1>2, <1>8 DEF SendError
<1>9. ASSUME NEW r \in Requests, Watchdog(r)
      PROVE  CallInv'
  <2>1. \A c \in Calls : pc'[c] = pc[c] \/ pc'[c] = "done"
    BY <1>0, <1>9 DEF Watchdog, CancelPending, Settle
  <2>2. UNCHANGED <<gen, sock, recovery, minGen, attempts, reqGen>>
    BY <1>9 DEF Watchdog
  <2> QED
    BY <1>0, <2>1, <2>2, Leaving
<1> QED
  BY <1>1, <1>3, <1>4, <1>5, <1>6, <1>7, <1>8, <1>9 DEF ConnectionStep, RequestStep

\* Every step of the relay keeps what the calls know of their requests.
LEMMA NextKnows == TypeOK /\ TypeOK' /\ CallInv /\ [Next]_vars => CallInv'
<1> SUFFICES ASSUME TypeOK, TypeOK', CallInv, [Next]_vars PROVE CallInv'
  OBVIOUS
<1>1. CASE Connect
  BY <1>1, ConnectionKnows DEF Connect
<1>2. CASE GatewayNext
  BY <1>2, CallKnows, ConnectionKnows, Zenon DEF GatewayNext
<1>3. CASE UNCHANGED gatewayVars
  BY <1>3, KnowledgeUnchanged DEF knowledge, gatewayVars, serviceVars, callVars
<1> QED
  BY <1>1, <1>2, <1>3 DEF Next, vars

-----------------------------------------------------------------------------
(***************************************************************************)
(* A request is on the wire once, or started once.                         *)
(***************************************************************************)
\* A frame of toAgent' at position i of g was at position shift + i before.
Shifted(g, n) ==
    /\ DOMAIN toAgent'[g] \subseteq Nat
    /\ \A i \in DOMAIN toAgent'[g] : /\ i + n \in DOMAIN toAgent[g]
                                     /\ toAgent'[g][i] = toAgent[g][i + n]

\* A delivered frame was the first of its channel; the others move up by one.
LEMMA TailShifts ==
    ASSUME TypeOK, NEW g \in Gens, toAgent[g] # <<>>,
           toAgent' = [toAgent EXCEPT ![g] = Tail(@)]
    PROVE  /\ Shifted(g, 1)
           /\ \A h \in Gens \ {g} : Shifted(h, 0)
           /\ 1 \in DOMAIN toAgent[g] /\ toAgent[g][1] = Head(toAgent[g])
<1> USE DEF TypeOK, WireTypeOK, Shifted
<1>1. toAgent[g] \in Seq(AgentMsgs) /\ toAgent'[g] = Tail(toAgent[g])
  OBVIOUS
<1>2. Shifted(g, 1) /\ 1 \in DOMAIN toAgent[g] /\ toAgent[g][1] = Head(toAgent[g])
  BY <1>1
<1>3. \A h \in Gens \ {g} : Shifted(h, 0)
  OBVIOUS
<1> QED
  BY <1>2, <1>3

\* Frames are lost or delivered, and no request is started.
LEMMA Losing ==
    ASSUME TypeOK, RequestOnce, UNCHANGED <<starts, attempts>>,
           \A g \in Gens : Shifted(g, 0) \/ Shifted(g, 1)
    PROVE  RequestOnce'
<1>1. ASSUME NEW g \in Gens, NEW h \in Gens, NEW i \in DOMAIN toAgent'[g],
             NEW j \in DOMAIN toAgent'[h], IsRequest(g, i)', IsRequest(h, j)',
             toAgent'[g][i].req = toAgent'[h][j].req
      PROVE  g = h /\ i = j
  <2>1. CASE g = h /\ Shifted(g, 1)
    BY <1>1, <2>1 DEF RequestOnce, IsRequest, Shifted
  <2>2. CASE g = h /\ Shifted(g, 0)
    BY <1>1, <2>2 DEF RequestOnce, IsRequest, Shifted
  <2>3. CASE g # h
    BY <1>1, <2>3 DEF RequestOnce, IsRequest, Shifted
  <2> QED
    BY <2>1, <2>2, <2>3
<1>2. \A g \in Gens : \A i \in DOMAIN toAgent'[g] : IsRequest(g, i)' =>
        LET r == toAgent'[g][i].req IN starts'[r] = 0 /\ r[2] <= attempts'[r[1]]
  BY DEF RequestOnce, IsRequest, Shifted
<1>3. \A r \in Requests : starts'[r] <= 1 /\ (starts'[r] = 1 => r[2] <= attempts'[r[1]])
  BY DEF RequestOnce
<1> QED
  BY <1>1, <1>2, <1>3 DEF RequestOnce

\* Sending keeps every request in one place: what is sent is a cancellation,
\* or the first frame of a request that is new (Transmit in the gateway).
LEMMA Sending ==
    ASSUME TypeOK, TypeOK', RequestOnce, NEW s \in Gens, NEW end, NEW msg \in AgentMsgs,
           toAgent' = Put(toAgent, s, end, msg), UNCHANGED starts,
           \A c \in Calls : attempts[c] <= attempts'[c],
           msg.type = "request" => /\ msg.req[2] > attempts[msg.req[1]]
                                   /\ msg.req[2] <= attempts'[msg.req[1]]
    PROVE  RequestOnce'
<1>0. /\ toAgent \in [Gens -> Seq(AgentMsgs)]
      /\ attempts \in [Calls -> 0..MaxAttempts]
      /\ attempts' \in [Calls -> 0..MaxAttempts]
      /\ starts \in [Requests -> Nat]
  BY DEF TypeOK, WireTypeOK, GatewayTypeOK, AgentTypeOK
<1> DEFINE Old(g, i) == i \in DOMAIN toAgent[g] /\ toAgent'[g][i] = toAgent[g][i]
           New(g, i) == g = s /\ i = Len(toAgent[s]) + 1 /\ toAgent'[g][i] = msg
<1>1. \A g \in Gens : \A i \in DOMAIN toAgent'[g] : Old(g, i) \/ New(g, i)
  <2> SUFFICES ASSUME NEW g \in Gens, NEW i \in DOMAIN toAgent'[g]
               PROVE  Old(g, i) \/ New(g, i)
    BY Zenon
  <2>1. toAgent[g] \in Seq(AgentMsgs)
    BY <1>0
  <2>2. CASE g # s \/ end = "closed"
    <3>1. toAgent'[g] = toAgent[g]
      BY <1>0, <2>2 DEF Put
    <3> QED
      BY <3>1
  <2>3. CASE g = s /\ end # "closed"
    <3>1. toAgent'[g] = Append(toAgent[g], msg)
      BY <1>0, <2>3 DEF Put
    <3> QED
      BY <2>1, <2>3, <3>1
  <2> QED
    BY <2>2, <2>3
<1>2. \A g \in Gens : \A i \in DOMAIN toAgent[g] : toAgent[g][i] \in AgentMsgs
  BY <1>0
<1>3. \A r \in Requests : /\ r[1] \in Calls /\ r[2] \in Nat
                          /\ attempts[r[1]] \in Nat /\ attempts'[r[1]] \in Nat
                          /\ attempts[r[1]] <= attempts'[r[1]] /\ starts[r] \in Nat
  BY <1>0, MaxAttemptsAssumption DEF Requests
<1>4. msg.req \in Requests
  BY DEF AgentMsgs
<1>5. \A g \in Gens : \A i \in DOMAIN toAgent[g] : IsRequest(g, i) =>
        /\ toAgent[g][i].req \in Requests
        /\ starts[toAgent[g][i].req] = 0
        /\ toAgent[g][i].req[2] <= attempts[toAgent[g][i].req[1]]
  BY <1>2 DEF RequestOnce, AgentMsgs
<1>6. ASSUME NEW r \in Requests, r[2] > attempts[r[1]]
      PROVE  starts[r] = 0
  BY <1>3, <1>6 DEF RequestOnce
\* The new frame names no request that is on the wire already.
<1>7. ASSUME NEW g \in Gens, NEW i \in DOMAIN toAgent[g], IsRequest(g, i),
             msg.type = "request", toAgent[g][i].req = msg.req
      PROVE  FALSE
  <2>1. msg.req[2] <= attempts[msg.req[1]]
    BY <1>5, <1>7
  <2> QED
    BY <1>3, <1>4, <1>7, <2>1
<1>8. ASSUME NEW g \in Gens, NEW h \in Gens, NEW i \in DOMAIN toAgent'[g],
             NEW j \in DOMAIN toAgent'[h], IsRequest(g, i)', IsRequest(h, j)',
             toAgent'[g][i].req = toAgent'[h][j].req
      PROVE  g = h /\ i = j
  <2>1. CASE Old(g, i) /\ Old(h, j)
    BY <1>8, <2>1 DEF RequestOnce, IsRequest
  <2>2. CASE New(g, i) /\ Old(h, j)
    BY <1>7, <1>8, <2>2 DEF IsRequest
  <2>3. CASE New(h, j) /\ Old(g, i)
    BY <1>7, <1>8, <2>3 DEF IsRequest
  <2>4. CASE New(g, i) /\ New(h, j)
    BY <2>4
  <2> HIDE DEF Old, New
  <2> QED
    BY <1>1, <2>1, <2>2, <2>3, <2>4
<1>9. ASSUME NEW g \in Gens, NEW i \in DOMAIN toAgent'[g], IsRequest(g, i)'
      PROVE  /\ starts'[toAgent'[g][i].req] = 0
             /\ toAgent'[g][i].req[2] <= attempts'[toAgent'[g][i].req[1]]
  <2>1. CASE Old(g, i)
    <3>1. IsRequest(g, i)
      BY <1>9, <2>1 DEF IsRequest
    <3>2. toAgent'[g][i] = toAgent[g][i]
      BY <2>1
    <3> DEFINE r == toAgent[g][i].req
    <3>3. r \in Requests /\ starts[r] = 0 /\ r[2] <= attempts[r[1]]
      BY <1>5, <2>1, <3>1
    <3> HIDE DEF r
    <3>4. starts'[r] = 0 /\ r[2] <= attempts'[r[1]]
      BY <1>3, <3>3
    <3> QED
      BY <3>2, <3>4 DEF r
  <2>2. CASE New(g, i)
    BY <1>4, <1>6, <1>9, <2>2 DEF IsRequest
  <2> HIDE DEF Old, New
  <2> QED
    BY <1>1, <2>1, <2>2
<1>10. \A r \in Requests : starts'[r] <= 1 /\ (starts'[r] = 1 => r[2] <= attempts'[r[1]])
  BY <1>3 DEF RequestOnce
<1> QED
  BY <1>8, <1>9, <1>10 DEF RequestOnce

\* cancelPending keeps every request in one place: it sends no request.
LEMMA Cancelling ==
    ASSUME TypeOK, TypeOK', RequestOnce, NEW r \in Requests, NEW res,
           CancelPending(r, res), UNCHANGED <<starts, attempts>>
    PROVE  RequestOnce'
<1>0. /\ toAgent \in [Gens -> Seq(AgentMsgs)] /\ reqGen \in [Requests -> 0..MaxGen]
      /\ attempts \in [Calls -> 0..MaxAttempts]
  BY DEF TypeOK, WireTypeOK, GatewayTypeOK
<1>1. CASE UNCHANGED toAgent
  BY <1>1 DEF RequestOnce, IsRequest
<1>2. CASE Transmit(reqGen[r], "cancel", r)
  <2> DEFINE msg == [type |-> "cancel", req |-> r]
  <2>1. msg \in AgentMsgs /\ msg.type # "request"
    BY DEF AgentMsgs
  <2>2. \A c \in Calls : attempts[c] <= attempts'[c]
    BY <1>0, MaxAttemptsAssumption
  <2>3. toAgent' = Put(toAgent, reqGen[r], agEnd[reqGen[r]], msg)
    BY <1>2 DEF Transmit
  <2> HIDE DEF msg
  <2>4. CASE reqGen[r] \in Gens
    BY <2>1, <2>2, <2>3, <2>4, Sending
  <2>5. CASE reqGen[r] \notin Gens
    <3>1. toAgent' = toAgent
      BY <1>0, <2>3, <2>5 DEF Put
    <3> QED
      BY <1>1, <3>1
  <2> QED
    BY <2>4, <2>5
<1> QED
  BY <1>1, <1>2 DEF CancelPending

\* Starting a request takes it off the wire (AgentRequestExecutor.execute).
LEMMA Starting ==
    ASSUME TypeOK, RequestOnce, NEW g \in Gens, StartRequest(g), UNCHANGED attempts
    PROVE  RequestOnce'
<1> DEFINE r == Head(toAgent[g]).req
<1>0. /\ toAgent \in [Gens -> Seq(AgentMsgs)]
      /\ attempts \in [Calls -> 0..MaxAttempts]
      /\ starts \in [Requests -> Nat]
  BY DEF TypeOK, WireTypeOK, GatewayTypeOK, AgentTypeOK
<1>1. /\ toAgent[g] # <<>> /\ toAgent' = [toAgent EXCEPT ![g] = Tail(@)]
      /\ starts' = [starts EXCEPT ![r] = @ + 1]
      /\ Head(toAgent[g]).type = "request"
  BY DEF StartRequest, Deliver
<1>2. /\ Shifted(g, 1) /\ \A h \in Gens \ {g} : Shifted(h, 0)
      /\ 1 \in DOMAIN toAgent[g] /\ toAgent[g][1] = Head(toAgent[g])
  BY <1>1, TailShifts, Zenon
<1>3. IsRequest(g, 1) /\ toAgent[g][1].req = r
  BY <1>1, <1>2 DEF IsRequest
<1>4. r \in Requests /\ starts[r] = 0 /\ r[2] <= attempts[r[1]]
  <2>1. Head(toAgent[g]) \in AgentMsgs
    BY <1>0, <1>1
  <2>2. r \in Requests
    BY <2>1 DEF AgentMsgs
  <2> QED
    BY <1>2, <1>3, <2>2 DEF RequestOnce
<1> HIDE DEF r
<1>5. ASSUME NEW h \in Gens, NEW i \in DOMAIN toAgent'[h], IsRequest(h, i)'
      PROVE  toAgent'[h][i].req # r
  <2>1. CASE h = g
    <3>1. i \in Nat /\ i + 1 \in DOMAIN toAgent[g] /\ toAgent'[g][i] = toAgent[g][i + 1]
      BY <1>2, <1>5, <2>1 DEF Shifted
    <3>2. IsRequest(g, i + 1)
      BY <1>5, <2>1, <3>1 DEF IsRequest
    <3>3. i + 1 # 1
      <4>1. toAgent'[g] = Tail(toAgent[g]) /\ toAgent[g] \in Seq(AgentMsgs)
        BY <1>0, <1>1
      <4> QED
        BY <1>1, <1>5, <2>1, <4>1
    <3> QED
      BY <1>2, <1>3, <2>1, <3>1, <3>2, <3>3 DEF RequestOnce
  <2>2. CASE h # g
    <3>1. i \in DOMAIN toAgent[h] /\ toAgent'[h][i] = toAgent[h][i]
      BY <1>2, <1>5, <2>2 DEF Shifted
    <3>2. IsRequest(h, i)
      BY <1>5, <3>1 DEF IsRequest
    <3> QED
      BY <1>2, <1>3, <2>2, <3>1, <3>2 DEF RequestOnce
  <2> QED
    BY <2>1, <2>2
<1>6. ASSUME NEW h \in Gens, NEW k \in Gens, NEW i \in DOMAIN toAgent'[h],
             NEW j \in DOMAIN toAgent'[k], IsRequest(h, i)', IsRequest(k, j)',
             toAgent'[h][i].req = toAgent'[k][j].req
      PROVE  h = k /\ i = j
  <2>1. CASE h = k /\ h = g
    BY <1>2, <1>6, <2>1 DEF RequestOnce, IsRequest, Shifted
  <2>2. CASE h = k /\ h # g
    BY <1>2, <1>6, <2>2 DEF RequestOnce, IsRequest, Shifted
  <2>3. CASE h # k
    BY <1>2, <1>6, <2>3 DEF RequestOnce, IsRequest, Shifted
  <2> QED
    BY <2>1, <2>2, <2>3
<1>7. ASSUME NEW h \in Gens, NEW i \in DOMAIN toAgent'[h], IsRequest(h, i)'
      PROVE  /\ starts'[toAgent'[h][i].req] = 0
             /\ toAgent'[h][i].req[2] <= attempts'[toAgent'[h][i].req[1]]
  <2>1. PICK j \in DOMAIN toAgent[h] : toAgent'[h][i] = toAgent[h][j]
    BY <1>2, <1>7 DEF Shifted
  <2>2. toAgent[h][j].req \in Requests
    <3>1. toAgent[h][j] \in AgentMsgs
      BY <1>0
    <3> QED
      BY <3>1 DEF AgentMsgs
  <2>3. /\ starts[toAgent[h][j].req] = 0
        /\ toAgent[h][j].req[2] <= attempts[toAgent[h][j].req[1]]
    BY <1>7, <2>1 DEF RequestOnce, IsRequest
  <2>4. starts'[toAgent[h][j].req] = starts[toAgent[h][j].req]
    BY <1>0, <1>1, <1>5, <1>7, <2>1, <2>2
  <2> QED
    BY <2>1, <2>3, <2>4
<1>8. \A q \in Requests : starts'[q] <= 1 /\ (starts'[q] = 1 => q[2] <= attempts'[q[1]])
  BY <1>0, <1>1, <1>4 DEF RequestOnce
<1> QED
  BY <1>6, <1>7, <1>8 DEF RequestOnce

\* AgentRelayRequestManager.call puts a request on the wire once, under an
\* identifier that no earlier frame carries.
LEMMA GatewayOnce ==
    ASSUME TypeOK, TypeOK', RequestOnce, UNCHANGED starts,
           NEW c \in Calls, CallStep(c)
    PROVE  RequestOnce'
<1>0. /\ attempts \in [Calls -> 0..MaxAttempts] /\ sock \in 0..MaxGen
      /\ pending \subseteq Requests
  BY DEF TypeOK, GatewayTypeOK
<1>1. CASE UNCHANGED <<toAgent, attempts>>
  BY <1>1 DEF RequestOnce, IsRequest
<1>2. ASSUME NewRequest(c), NEW type \in {"request", "cancel"},
             Transmit(sock, type, <<c, attempts[c] + 1>>)
      PROVE  RequestOnce'
  <2> DEFINE r == <<c, attempts[c] + 1>>
             msg == [type |-> type, req |-> r]
  <2>1. sock \in Gens
    BY <1>0, <1>2, MaxGenAssumption DEF NewRequest, CanAttempt, IsConnected, SocketOpen, Gens
  <2>2. /\ attempts[c] \in Nat /\ attempts[c] < MaxAttempts
        /\ attempts' = [attempts EXCEPT ![c] = @ + 1]
    BY <1>0, <1>2, MaxAttemptsAssumption DEF NewRequest
  <2>3. r \in Requests
    BY <2>2, MaxAttemptsAssumption DEF Requests
  <2>4. msg \in AgentMsgs /\ msg.req = r
    BY <2>3 DEF AgentMsgs
  <2>5. \A d \in Calls : attempts[d] <= attempts'[d]
    BY <1>0, <2>2, MaxAttemptsAssumption
  <2>6. r[2] > attempts[r[1]] /\ r[2] <= attempts'[r[1]]
    BY <1>0, <2>2
  <2>7. toAgent' = Put(toAgent, sock, agEnd[sock], msg)
    BY <1>2 DEF Transmit
  <2> HIDE DEF r, msg
  <2> QED
    BY <2>1, <2>4, <2>5, <2>6, <2>7, Sending
<1>3. CASE RequestAborted(c)
  BY <1>2, <1>3 DEF RequestAborted
<1>4. CASE RequestSent(c)
  BY <1>2, <1>4 DEF RequestSent
<1>5. CASE Abort(c)
  <2>1. CASE pc[c] = "pending"
    <3>1. CancelPending(Cur(c), "cancelled") /\ UNCHANGED attempts
      BY <1>5, <2>1 DEF Abort
    <3>2. Cur(c) \in Requests
      BY <1>0, <3>1 DEF CancelPending, Armed
    <3> QED
      BY <3>1, <3>2, Cancelling
  <2>2. CASE pc[c] # "pending"
    <3>1. UNCHANGED <<toAgent, attempts>>
      BY <1>5, <2>2 DEF Abort
    <3> QED
      BY <1>1, <3>1
  <2> QED
    BY <2>1, <2>2
<1>6. CASE \/ Call(c) \/ CallUnavailable(c) \/ CallAwaitsAgent(c)
           \/ RequestBusy(c) \/ RequestRefused(c) \/ WaiterTimeout(c)
           \/ CatchGivesUp(c) \/ CatchRecovers(c)
  BY <1>1, <1>6 DEF Call, CallUnavailable, CallAwaitsAgent, RequestBusy, RequestRefused,
     WaiterTimeout, CatchGivesUp, CatchRecovers, wireVars
<1> QED
  BY <1>3, <1>4, <1>5, <1>6 DEF CallStep

\* The agent takes frames off the wire and loses them: it adds none.
LEMMA AgentOnce ==
    ASSUME TypeOK, RequestOnce, UNCHANGED attempts, AgentNext
    PROVE  RequestOnce'
<1>0. toAgent \in [Gens -> Seq(AgentMsgs)]
  BY DEF TypeOK, WireTypeOK
<1>1. CASE UNCHANGED <<toAgent, starts>>
  BY <1>1 DEF RequestOnce, IsRequest
<1>2. CASE Crash
  <2>1. \A g \in Gens : toAgent'[g] = <<>>
    BY <1>2 DEF Crash
  <2>2. \A g \in Gens : Shifted(g, 0)
    BY <2>1 DEF Shifted
  <2> QED
    BY <1>2, <2>2, Losing DEF Crash
<1>3. ASSUME NEW g \in Gens, AgentOnClose(g)
      PROVE  RequestOnce'
  <2>1. /\ toAgent'[g] = <<>> /\ \A h \in Gens \ {g} : toAgent'[h] = toAgent[h]
    BY <1>0, <1>3 DEF AgentOnClose, Drop
  <2>2. \A h \in Gens : toAgent[h] \in Seq(AgentMsgs)
    BY <1>0
  <2>3. \A h \in Gens : Shifted(h, 0)
    BY <2>1, <2>2 DEF Shifted
  <2> QED
    BY <1>3, <2>3, Losing DEF AgentOnClose
<1>4. ASSUME NEW g \in Gens, RefuseRequest(g) \/ CancelRequest(g)
      PROVE  RequestOnce'
  <2>1. toAgent[g] # <<>> /\ toAgent' = [toAgent EXCEPT ![g] = Tail(@)] /\ UNCHANGED starts
    BY <1>4 DEF RefuseRequest, CancelRequest, Deliver, agentVars
  <2>2. Shifted(g, 1) /\ \A h \in Gens \ {g} : Shifted(h, 0)
    BY <2>1, TailShifts, Zenon
  <2> QED
    BY <2>1, <2>2, Losing
<1>5. ASSUME NEW g \in Gens, StartRequest(g)
      PROVE  RequestOnce'
  BY <1>5, Starting
<1>6. CASE \/ Stop
           \/ \E g \in Gens : Open(g)
           \/ \E r \in Requests : AgentWatchdog(r) \/ \E k \in RespKinds : FinishRequest(r, k)
  BY <1>1, <1>6 DEF Stop, Open, AgentWatchdog, FinishRequest, agentVars, wireVars
<1> QED
  BY <1>2, <1>3, <1>4, <1>5, <1>6 DEF AgentNext, ExecutorStep

\* Every step of the relay keeps every request in one place.
LEMMA NextOnce == TypeOK /\ TypeOK' /\ RequestOnce /\ [Next]_vars => RequestOnce'
<1> SUFFICES ASSUME TypeOK, TypeOK', RequestOnce, [Next]_vars PROVE RequestOnce'
  OBVIOUS
<1>1. CASE UNCHANGED <<toAgent, starts, attempts>>
  BY <1>1 DEF RequestOnce, IsRequest
<1>2. CASE Connect
  BY <1>1, <1>2 DEF Connect, Accept, agentVars, callVars
<1>3. ASSUME NEW c \in Calls, CallStep(c), UNCHANGED agentVars
      PROVE  RequestOnce'
  BY <1>3, GatewayOnce DEF agentVars
<1>4. ASSUME NEW r \in Requests, RequestStep(r), UNCHANGED agentVars
      PROVE  RequestOnce'
  <2>1. CASE SendError(r)
    BY <1>1, <1>4, <2>1 DEF SendError, agentVars, wireVars
  <2>2. CASE Watchdog(r)
    BY <1>4, <2>2, Cancelling DEF Watchdog, agentVars
  <2> QED
    BY <1>4, <2>1, <2>2 DEF RequestStep
<1>5. ASSUME NEW g \in Gens, ConnectionStep(g), UNCHANGED agentVars
      PROVE  RequestOnce'
  BY <1>1, <1>5 DEF ConnectionStep, HelloTimeout, OnHello, OnInvalidMessage, OnResponse,
     OnClose, HeartbeatTick, Pong, Receive, agentVars, gatewayVars, callVars, wireVars
<1>6. CASE Shutdown /\ UNCHANGED agentVars
  BY <1>1, <1>6 DEF Shutdown, agentVars
<1>7. CASE AgentNext /\ UNCHANGED gatewayVars
  BY <1>7, AgentOnce DEF gatewayVars, callVars
<1>8. CASE \E g \in Gens : (GwBreak(g) \/ AgBreak(g)) /\ UNCHANGED <<gatewayVars, agentVars>>
  BY <1>1, <1>8 DEF GwBreak, AgBreak, gatewayVars, callVars, agentVars
<1>9. CASE UNCHANGED vars
  BY <1>1, <1>9 DEF vars, wireVars, gatewayVars, callVars, agentVars
<1> QED
  BY <1>2, <1>3, <1>4, <1>5, <1>6, <1>7, <1>8, <1>9 DEF Next, GatewayNext

-----------------------------------------------------------------------------
(***************************************************************************)
(* What is in the pending map, and calls that have settled                 *)
(***************************************************************************)

\* What SettledIsFinal says of one step.
Final ==
    \A c \in Calls : pc[c] = "done" =>
        pc'[c] = "done" /\ result'[c] = result[c] /\ outcome'[c] = outcome[c]

\* A pending request is the current one of a call that waits for its response.
LEMMA PendingIs ==
    ASSUME TypeOK, Outstanding, NEW r \in pending
    PROVE  r \in Requests /\ r[1] \in Calls /\ r = Cur(r[1]) /\ pc[r[1]] = "pending"
BY DEF TypeOK, GatewayTypeOK, Outstanding, Requests, Cur

\* A call that neither waits for a response nor has settled goes on; the others stay.
LEMMA OtherCalls ==
    ASSUME TypeOK, Outstanding, NEW c \in Calls, pc[c] \notin {"pending", "done"}, UNCHANGED pending,
           \A d \in Calls \ {c} : /\ pc'[d] = pc[d] /\ result'[d] = result[d]
                                  /\ outcome'[d] = outcome[d] /\ attempts'[d] = attempts[d]
    PROVE  Outstanding' /\ Final
<1>1. \A r \in pending : r[1] \in Calls \ {c}
  BY PendingIs
<1> QED
  BY <1>1 DEF Outstanding, Final

\* takePending and reject: of the calls whose request is taken, and of no other.
LEMMA Rejecting ==
    ASSUME TypeOK, Outstanding, NEW R \in SUBSET pending, NEW to, RejectAs(R, to),
           UNCHANGED <<result, outcome, attempts>>
    PROVE  Outstanding' /\ Final
<1>1. \A c \in Calls : Cur(c) \in R => pc[c] = "pending"
  BY PendingIs DEF Cur
<1>2. Final
  BY <1>1 DEF RejectAs, Final
<1>3. ASSUME NEW r \in pending' PROVE pc'[r[1]] = "pending" /\ r[2] = attempts'[r[1]]
  <2>1. r \in pending /\ r \notin R
    BY <1>3 DEF RejectAs
  <2>2. r[1] \in Calls /\ Cur(r[1]) \notin R /\ pc[r[1]] = "pending" /\ r[2] = attempts[r[1]]
    BY <2>1, PendingIs DEF Outstanding
  <2> QED
    BY <2>2 DEF RejectAs
<1> QED
  BY <1>2, <1>3 DEF Outstanding

\* takePending and settle, by a response, a timeout or an abort.
LEMMA Settling ==
    ASSUME TypeOK, Outstanding, NEW r \in pending, NEW res, pending' = pending \ {r},
           Settle(r[1], res), UNCHANGED <<outcome, attempts>>
    PROVE  Outstanding' /\ Final
<1>1. r[1] \in Calls /\ r = Cur(r[1]) /\ pc[r[1]] = "pending"
  BY PendingIs
<1>2. pc \in [Calls -> PCs] /\ result \in [Calls -> Results]
  BY DEF TypeOK, GatewayTypeOK
<1>3. Final
  BY <1>1, <1>2 DEF Settle, Final
<1>4. ASSUME NEW q \in pending' PROVE pc'[q[1]] = "pending" /\ q[2] = attempts'[q[1]]
  <2>1. q \in pending /\ q # r
    BY <1>4
  <2>2. q[1] \in Calls /\ q = Cur(q[1]) /\ pc[q[1]] = "pending" /\ q[2] = attempts[q[1]]
    BY <2>1, PendingIs DEF Outstanding
  <2>3. q[1] # r[1]
    BY <1>1, <2>1, <2>2
  <2> QED
    BY <1>2, <2>2, <2>3 DEF Settle
<1> QED
  BY <1>3, <1>4 DEF Outstanding

\* The steps of a call keep Outstanding and settle no call that has settled.
LEMMA CallSettles ==
    ASSUME TypeOK, Outstanding, NEW c \in Calls, CallStep(c)
    PROVE  Outstanding' /\ Final
<1>0. /\ pc \in [Calls -> PCs] /\ result \in [Calls -> Results] /\ outcome \in [Calls -> Outcomes]
      /\ attempts \in [Calls -> 0 .. MaxAttempts]
  BY DEF TypeOK, GatewayTypeOK
<1>1. CASE \/ Call(c) \/ CallUnavailable(c) \/ RequestBusy(c) \/ RequestRefused(c) \/ WaiterTimeout(c)
           \/ CatchGivesUp(c) \/ RequestAborted(c)
  <2>1. pc[c] \notin {"pending", "done"} /\ UNCHANGED pending
    BY <1>1 DEF Call, CallUnavailable, RequestBusy, RequestRefused, WaiterTimeout, CatchGivesUp,
                RequestAborted, NewRequest, CanAttempt
  <2>2. \A d \in Calls \ {c} : /\ pc'[d] = pc[d] /\ result'[d] = result[d]
                               /\ outcome'[d] = outcome[d] /\ attempts'[d] = attempts[d]
    BY <1>0, <1>1 DEF Call, CallUnavailable, RequestBusy, RequestRefused, WaiterTimeout, CatchGivesUp,
                RequestAborted, NewRequest, Settle, CaughtOutcome
  <2> QED
    BY <2>1, <2>2, OtherCalls
<1>2. CASE CallAwaitsAgent(c) \/ CatchRecovers(c)
  <2>1. pc[c] \notin {"pending", "done"} /\ UNCHANGED <<pending, attempts>>
    BY <1>2 DEF CallAwaitsAgent, CatchRecovers
  <2>2. \A d \in Calls \ {c} : pc'[d] = pc[d] /\ result'[d] = result[d] /\ outcome'[d] = outcome[d]
    BY <1>0, <1>2 DEF CallAwaitsAgent, CatchRecovers, Wait, Settle, CaughtOutcome
  <2> QED
    BY <2>1, <2>2, OtherCalls
<1>3. CASE RequestSent(c)
  <2> DEFINE n == attempts[c] + 1
  <2>1. /\ pc[c] = "loop" /\ pending' = pending \cup {<<c, n>>} /\ pc' = [pc EXCEPT ![c] = "pending"]
        /\ attempts' = [attempts EXCEPT ![c] = n] /\ UNCHANGED <<result, outcome>>
    BY <1>3 DEF RequestSent, NewRequest, CanAttempt
  <2> HIDE DEF n
  <2>2. \A r \in pending : r[1] \in Calls /\ r[1] # c
    BY <2>1, PendingIs
  <2>3. pc'[c] = "pending" /\ attempts'[c] = n
    BY <1>0, <2>1
  <2>4. Outstanding'
    BY <1>0, <2>1, <2>2, <2>3 DEF Outstanding
  <2> QED
    BY <1>0, <2>1, <2>4 DEF Final
<1>4. CASE Abort(c)
  <2>1. UNCHANGED <<outcome, attempts>> /\ pc[c] # "done"
    BY <1>4 DEF Abort
  <2>2. CASE pc[c] = "pending"
    <3>1. CancelPending(Cur(c), "cancelled")
      BY <1>4, <2>2 DEF Abort
    <3>2. Cur(c) \in pending /\ pending' = pending \ {Cur(c)} /\ Settle(Cur(c)[1], "cancelled")
      BY <3>1 DEF CancelPending, Armed
    <3> QED
      BY <2>1, <3>2, Settling
  <2>3. CASE pc[c] # "pending"
    <3>1. UNCHANGED pending /\ (Settle(c, "unavailable") \/ UNCHANGED <<pc, result>>)
      BY <1>4, <2>3 DEF Abort
    <3>2. \A d \in Calls \ {c} : pc'[d] = pc[d] /\ result'[d] = result[d]
      BY <1>0, <3>1 DEF Settle
    <3> QED
      BY <2>1, <2>3, <3>1, <3>2, OtherCalls
  <2> QED
    BY <2>2, <2>3
<1> QED
  BY <1>1, <1>2, <1>3, <1>4 DEF CallStep

\* Nor do the events of connections and of requests: what they settle is pending.
LEMMA ConnectionSettles ==
    ASSUME TypeOK, Outstanding,
           \/ Accept \/ Shutdown
           \/ \E g \in Gens : ConnectionStep(g)
           \/ \E r \in Requests : RequestStep(r)
    PROVE  Outstanding' /\ Final
<1>0. pc \in [Calls -> PCs]
  BY DEF TypeOK, GatewayTypeOK
<1>1. CASE UNCHANGED <<pending, pc, attempts, result, outcome>>
  BY <1>1 DEF Outstanding, Final
<1>2. CASE Accept
  BY <1>1, <1>2 DEF Accept, callVars
<1>3. CASE Shutdown
  BY <1>3 DEF Shutdown, Outstanding, Final
<1>4. ASSUME NEW g \in Gens, HelloTimeout(g) \/ OnInvalidMessage(g) \/ HeartbeatTick(g) \/ Pong(g)
      PROVE  Outstanding' /\ Final
  BY <1>1, <1>4 DEF HelloTimeout, OnInvalidMessage, HeartbeatTick, Pong, gatewayVars, callVars
<1>5. ASSUME NEW g \in Gens, OnHello(g) PROVE Outstanding' /\ Final
  <2>1. \A c \in Calls : pc[c] # "waiting" => pc'[c] = pc[c]
    BY <1>5 DEF OnHello, Served
  <2>2. UNCHANGED <<pending, attempts, result, outcome>>
    BY <1>5 DEF OnHello
  <2>3. \A r \in pending : r[1] \in Calls
    BY PendingIs
  <2> QED
    BY <2>1, <2>2, <2>3 DEF Outstanding, Final
<1>6. ASSUME NEW g \in Gens, OnResponse(g) PROVE Outstanding' /\ Final
  <2>1. PICK m :
          /\ IF m.req \notin pending
             THEN UNCHANGED <<pending, pc, result>>
             ELSE IF Unavailable(m.kind)
             THEN RejectAs({m.req}, Caught(m.kind)) /\ UNCHANGED result
             ELSE /\ pending' = pending \ {m.req}
                  /\ Settle(m.req[1], Validated(m.kind))
    BY <1>6 DEF OnResponse
  <2>2. UNCHANGED <<outcome, attempts>>
    BY <1>6 DEF OnResponse
  <2>3. CASE m.req \notin pending
    BY <1>1, <2>1, <2>2, <2>3
  <2>4. CASE m.req \in pending /\ Unavailable(m.kind)
    BY <2>1, <2>2, <2>4, Rejecting
  <2>5. CASE m.req \in pending /\ ~Unavailable(m.kind)
    BY <2>1, <2>2, <2>5, Settling
  <2> QED
    BY <2>3, <2>4, <2>5
<1>7. ASSUME NEW g \in Gens, OnClose(g) PROVE Outstanding' /\ Final
  BY <1>7, Rejecting DEF OnClose, OfGeneration
<1>8. ASSUME NEW r \in Requests, SendError(r) PROVE Outstanding' /\ Final
  BY <1>8, Rejecting DEF SendError
<1>9. ASSUME NEW r \in Requests, Watchdog(r) PROVE Outstanding' /\ Final
  BY <1>9, Settling DEF Watchdog, CancelPending, Armed
<1> QED
  BY <1>2, <1>3, <1>4, <1>5, <1>6, <1>7, <1>8, <1>9 DEF ConnectionStep, RequestStep

\* No step changes what a settled call returned.
LEMMA NextSettles == TypeOK /\ Outstanding /\ [Next]_vars => Outstanding' /\ Final
<1> SUFFICES ASSUME TypeOK, Outstanding, [Next]_vars PROVE Outstanding' /\ Final
  OBVIOUS
<1>1. CASE Connect
  BY <1>1, ConnectionSettles DEF Connect
<1>2. CASE GatewayNext
  BY <1>2, CallSettles, ConnectionSettles, Zenon DEF GatewayNext
<1>3. CASE UNCHANGED gatewayVars
  BY <1>3 DEF gatewayVars, callVars, Outstanding, Final
<1> QED
  BY <1>1, <1>2, <1>3 DEF Next, vars

-----------------------------------------------------------------------------
(***************************************************************************)
(* Frames on their way to the gateway, and what the agent said with them   *)
(***************************************************************************)

\* Frames are delivered or lost, and none is added.
Fewer(chan, old) ==
    \A g \in Gens : \A i \in DOMAIN chan[g] : \E j \in DOMAIN old[g] : chan[g][i] = old[g][j]

\* Every way in which a channel changes without a send only removes frames.
LEMMA FewerFrames ==
    ASSUME NEW S, NEW chan \in [Gens -> Seq(S)], NEW g \in Gens
    PROVE  /\ Fewer(chan, chan)
           /\ Fewer(Drop(chan, g), chan)
           /\ chan[g] # <<>> => Fewer([chan EXCEPT ![g] = Tail(@)], chan)
<1>1. Fewer(chan, chan)
  BY DEF Fewer
<1>2. Fewer(Drop(chan, g), chan)
  BY DEF Fewer, Drop
<1>3. ASSUME chan[g] # <<>> PROVE Fewer([chan EXCEPT ![g] = Tail(@)], chan)
  <2> SUFFICES ASSUME NEW h \in Gens, NEW i \in DOMAIN [chan EXCEPT ![g] = Tail(@)][h]
               PROVE  \E j \in DOMAIN chan[h] : [chan EXCEPT ![g] = Tail(@)][h][i] = chan[h][j]
    BY DEF Fewer
  <2>1. CASE h # g
    BY <2>1
  <2>2. CASE h = g
    <3>1. chan[g] \in Seq(S) /\ i \in DOMAIN Tail(chan[g])
      BY <2>2
    <3>2. i + 1 \in DOMAIN chan[g] /\ Tail(chan[g])[i] = chan[g][i + 1]
      BY <1>3, <3>1
    <3> QED
      BY <2>2, <3>2
  <2> QED
    BY <2>1, <2>2
<1> QED
  BY <1>1, <1>2, <1>3

\* A frame on its way after a send was there before, or is the one that was sent.
LEMMA SentFrames ==
    ASSUME TypeOK, NEW g, NEW end, NEW msg, toGateway' = Put(toGateway, g, end, msg),
           NEW h \in Gens, NEW i \in DOMAIN toGateway'[h]
    PROVE  \/ i \in DOMAIN toGateway[h] /\ toGateway'[h][i] = toGateway[h][i]
           \/ toGateway'[h][i] = msg
<1>0. toGateway \in [Gens -> Seq(GatewayMsgs)]
  BY DEF TypeOK, WireTypeOK
<1>1. CASE h # g \/ end = "closed"
  <2>1. toGateway'[h] = toGateway[h]
    BY <1>0, <1>1 DEF Put
  <2> QED
    BY <2>1
<1>2. CASE h = g /\ end # "closed"
  <2>1. toGateway'[h] = Append(toGateway[h], msg) /\ toGateway[h] \in Seq(GatewayMsgs)
    BY <1>0, <1>2 DEF Put
  <2> QED
    BY <2>1
<1> QED
  BY <1>1, <1>2

\* The gateway puts nothing on the channel that brings it frames.
LEMMA GatewayConsumes ==
    ASSUME TypeOK, Accept \/ GatewayNext
    PROVE  Fewer(toGateway', toGateway)
<1>0. toGateway \in [Gens -> Seq(GatewayMsgs)]
  BY DEF TypeOK, WireTypeOK
<1>1. CASE UNCHANGED toGateway
  BY <1>1 DEF Fewer
<1>2. CASE Accept \/ Shutdown
  BY <1>1, <1>2 DEF Accept, Shutdown
<1>3. ASSUME NEW c \in Calls, CallStep(c) PROVE Fewer(toGateway', toGateway)
  BY <1>1, <1>3 DEF CallStep, Call, CallUnavailable, CallAwaitsAgent, RequestBusy, RequestRefused,
     RequestAborted, RequestSent, Abort, WaiterTimeout, CatchGivesUp, CatchRecovers, wireVars
<1>4. ASSUME NEW r \in Requests, RequestStep(r) PROVE Fewer(toGateway', toGateway)
  BY <1>1, <1>4 DEF RequestStep, SendError, Watchdog, wireVars
<1>5. ASSUME NEW g \in Gens, HelloTimeout(g) \/ HeartbeatTick(g) \/ Pong(g)
      PROVE  Fewer(toGateway', toGateway)
  BY <1>1, <1>5 DEF HelloTimeout, HeartbeatTick, Pong, wireVars
<1>6. ASSUME NEW g \in Gens, OnClose(g) PROVE Fewer(toGateway', toGateway)
  BY <1>0, <1>6, FewerFrames DEF OnClose
<1>7. ASSUME NEW g \in Gens, OnHello(g) \/ OnInvalidMessage(g) \/ OnResponse(g)
      PROVE  Fewer(toGateway', toGateway)
  <2>1. toGateway[g] # <<>> /\ toGateway' = [toGateway EXCEPT ![g] = Tail(@)]
    BY <1>7 DEF OnHello, OnInvalidMessage, OnResponse, Receive
  <2> QED
    BY <1>0, <2>1, FewerFrames, Zenon
<1> QED
  BY <1>2, <1>3, <1>4, <1>5, <1>6, <1>7, Zenon DEF GatewayNext, ConnectionStep

\* The agent says not_started with the response of an operation it says it of.
LEMMA AgentDenies ==
    ASSUME TypeOK, DenialsTrue, AgentNext
    PROVE  DenialsTrue' /\ denied \subseteq denied'
<1>0. toAgent \in [Gens -> Seq(AgentMsgs)]
  BY DEF TypeOK, WireTypeOK
<1>1. CASE UNCHANGED <<toGateway, denied>>
  BY <1>1 DEF DenialsTrue
<1>2. CASE \/ Stop \/ Crash
           \/ \E g \in Gens : AgentOnClose(g) \/ StartRequest(g) \/ CancelRequest(g)
           \/ \E r \in Requests : AgentWatchdog(r)
  BY <1>1, <1>2 DEF Stop, Crash, AgentOnClose, StartRequest, CancelRequest, AgentWatchdog, wireVars
<1>3. ASSUME NEW g, NEW end, NEW msg, toGateway' = Put(toGateway, g, end, msg),
             denied \subseteq denied', Denies(msg) => msg.req \in denied'
      PROVE  DenialsTrue' /\ denied \subseteq denied'
  <2> SUFFICES ASSUME NEW h \in Gens, NEW i \in DOMAIN toGateway'[h], Denies(toGateway'[h][i])
               PROVE  toGateway'[h][i].req \in denied'
    BY <1>3 DEF DenialsTrue, Denies
  <2>1. \/ i \in DOMAIN toGateway[h] /\ toGateway'[h][i] = toGateway[h][i]
        \/ toGateway'[h][i] = msg
    BY <1>3, SentFrames
  <2> QED
    BY <1>3, <2>1 DEF DenialsTrue
<1>4. ASSUME NEW g \in Gens, Open(g) PROVE DenialsTrue' /\ denied \subseteq denied'
  <2>1. PICK b \in Builds : toGateway' = Put(toGateway, g, gwEnd[g], [type |-> "hello", compatible |-> b])
    BY <1>4 DEF Open
  <2>2. denied' = denied /\ ~Denies([type |-> "hello", compatible |-> b])
    BY <1>4 DEF Open, agentVars, Denies, ResponseMsgs
  <2> QED
    BY <1>3, <2>1, <2>2
<1>5. ASSUME NEW g, NEW r, NEW k, Respond(g, r, k), denied \subseteq denied',
             k = "notStarted" => r \in denied'
      PROVE  DenialsTrue' /\ denied \subseteq denied'
  <2> DEFINE msg == [type |-> "response", req |-> r, kind |-> k]
  <2>1. CASE UNCHANGED toGateway
    BY <1>5, <2>1 DEF DenialsTrue
  <2>2. CASE toGateway' = Put(toGateway, g, gwEnd[g], msg)
    <3>1. Denies(msg) => msg.req \in denied'
      BY <1>5 DEF Denies
    <3> QED
      BY <1>3, <1>5, <2>2, <3>1
  <2> QED
    BY <1>5, <2>1, <2>2 DEF Respond
<1>6. ASSUME NEW g \in Gens, RefuseRequest(g) PROVE DenialsTrue' /\ denied \subseteq denied'
  BY <1>5, <1>6 DEF RefuseRequest, agentVars
<1>7. ASSUME NEW r \in Requests, NEW k \in RespKinds, FinishRequest(r, k)
      PROVE  DenialsTrue' /\ denied \subseteq denied'
  BY <1>5, <1>7 DEF FinishRequest
<1> QED
  BY <1>2, <1>4, <1>6, <1>7, Zenon DEF AgentNext, ExecutorStep

\* Every step of the relay keeps the denials that are on their way true.
LEMMA NextDenies ==
    ASSUME TypeOK, DenialsTrue, [Next]_vars
    PROVE  DenialsTrue' /\ denied \subseteq denied'
<1>1. ASSUME Fewer(toGateway', toGateway), UNCHANGED denied
      PROVE  DenialsTrue' /\ denied \subseteq denied'
  BY <1>1 DEF DenialsTrue, Fewer
<1>2. CASE UNCHANGED <<toGateway, denied>>
  BY <1>2 DEF DenialsTrue
<1>3. CASE (Accept \/ GatewayNext) /\ UNCHANGED agentVars
  BY <1>1, <1>3, GatewayConsumes DEF agentVars
<1>4. ASSUME NEW g \in Gens, GwBreak(g) \/ AgBreak(g), UNCHANGED agentVars
      PROVE  DenialsTrue' /\ denied \subseteq denied'
  BY <1>2, <1>4 DEF GwBreak, AgBreak, agentVars
<1>5. CASE UNCHANGED vars
  BY <1>2, <1>5 DEF vars, wireVars, agentVars
<1> QED
  BY <1>3, <1>4, <1>5, AgentDenies, Zenon DEF Next, Connect

-----------------------------------------------------------------------------
(***************************************************************************)
(* The outcome a call reports                                              *)
(***************************************************************************)

\* What may happen to the outcome of one call in a step.
OutcomeStep(c) ==
    \/ pc'[c] = pc[c] /\ result'[c] = result[c] /\ outcome'[c] = outcome[c] /\ attempts'[c] = attempts[c]
    \/ pc'[c] \in {"pending", "rejected", "shutdown"}
    \/ pc'[c] = "done" /\ result'[c] # "unavailable"
    \/ pc'[c] # "disclaimed" /\ outcome'[c] = "unknown"
    \/ /\ pc[c] \in {"idle", "loop", "waiting"} /\ pc'[c] \in {"loop", "waiting", "done"}
       /\ outcome'[c] = outcome[c] /\ attempts'[c] = attempts[c]
    \/ pc[c] = "disclaimed" /\ pc'[c] # "disclaimed" /\ attempts'[c] = attempts[c]
    \/ pc'[c] = "disclaimed" /\ Denied(c)'

\* Such steps keep what is known of the outcomes.
LEMMA StaysKnown ==
    ASSUME OutcomeKnown, denied \subseteq denied', \A c \in Calls : OutcomeStep(c)
    PROVE  OutcomeKnown'
<1> SUFFICES ASSUME NEW c \in Calls
             PROVE  /\ pc'[c] = "disclaimed" => Denied(c)'
                    /\ outcome'[c] = "not_started" /\ attempts'[c] >= 1 =>
                          \/ Denied(c)'
                          \/ /\ pc'[c] \notin {"idle", "loop", "waiting"}
                             /\ pc'[c] = "done" => result'[c] # "unavailable"
  BY DEF OutcomeKnown
<1>1. attempts'[c] = attempts[c] /\ Denied(c) => Denied(c)'
  BY DEF Denied, Cur
<1>2. pc[c] = "disclaimed" => Denied(c)
  BY DEF OutcomeKnown
<1>3. outcome[c] = "not_started" /\ attempts[c] >= 1 =>
         \/ Denied(c)
         \/ /\ pc[c] \notin {"idle", "loop", "waiting"}
            /\ pc[c] = "done" => result[c] # "unavailable"
  BY DEF OutcomeKnown
<1>4. OutcomeStep(c)
  OBVIOUS
<1> QED
  BY <1>1, <1>2, <1>3, <1>4 DEF OutcomeStep

\* The steps of a call.
LEMMA CallOutcome ==
    ASSUME TypeOK, NEW c \in Calls, CallStep(c), NEW d \in Calls
    PROVE  OutcomeStep(d)
<1>0. /\ pc \in [Calls -> PCs] /\ result \in [Calls -> Results] /\ outcome \in [Calls -> Outcomes]
      /\ attempts \in [Calls -> 0 .. MaxAttempts]
  BY DEF TypeOK, GatewayTypeOK
<1>1. CASE Call(c) \/ CallUnavailable(c) \/ WaiterTimeout(c)
  BY <1>0, <1>1 DEF Call, CallUnavailable, WaiterTimeout, Settle, OutcomeStep
<1>2. CASE RequestBusy(c) \/ RequestRefused(c)
  BY <1>0, <1>2 DEF RequestBusy, RequestRefused, Settle, OutcomeStep
<1>3. CASE RequestAborted(c) \/ RequestSent(c)
  BY <1>0, <1>3 DEF RequestAborted, RequestSent, NewRequest, Settle, OutcomeStep
<1>4. CASE Abort(c)
  BY <1>0, <1>4 DEF Abort, CancelPending, Cur, Settle, OutcomeStep
<1>5. CASE CatchGivesUp(c)
  BY <1>0, <1>5 DEF CatchGivesUp, CaughtOutcome, Settle, OutcomeStep
<1>6. CASE CallAwaitsAgent(c)
  BY <1>0, <1>6 DEF CallAwaitsAgent, Wait, Settle, OutcomeStep
<1>7. CASE CatchRecovers(c)
  BY <1>0, <1>7 DEF CatchRecovers, CaughtOutcome, Wait, Settle, OutcomeStep
<1> QED
  BY <1>1, <1>2, <1>3, <1>4, <1>5, <1>6, <1>7 DEF CallStep

\* The events of connections and of requests: a call is told not_started only by a
\* frame of the agent about its own last request.
LEMMA ConnectionOutcome ==
    ASSUME TypeOK, Outstanding, DenialsTrue, UNCHANGED agentVars,
           \/ Accept \/ Shutdown
           \/ \E g \in Gens : ConnectionStep(g)
           \/ \E r \in Requests : RequestStep(r),
           NEW d \in Calls
    PROVE  OutcomeStep(d)
<1>0. /\ pc \in [Calls -> PCs] /\ result \in [Calls -> Results] /\ pending \subseteq Requests
      /\ toGateway \in [Gens -> Seq(GatewayMsgs)] /\ attempts \in [Calls -> 0 .. MaxAttempts]
  BY DEF TypeOK, GatewayTypeOK, WireTypeOK
<1>1. CASE UNCHANGED <<pc, result, outcome, attempts>>
  BY <1>1 DEF OutcomeStep
<1>2. CASE Accept
  BY <1>1, <1>2 DEF Accept, callVars
<1>3. CASE Shutdown
  BY <1>3 DEF Shutdown, OutcomeStep
<1>4. ASSUME NEW g \in Gens, HelloTimeout(g) \/ OnInvalidMessage(g) \/ HeartbeatTick(g) \/ Pong(g)
      PROVE  OutcomeStep(d)
  BY <1>1, <1>4 DEF HelloTimeout, OnInvalidMessage, HeartbeatTick, Pong, gatewayVars, callVars
<1>5. ASSUME NEW g \in Gens, OnHello(g) PROVE OutcomeStep(d)
  BY <1>5 DEF OnHello, Served, OutcomeStep
<1>6. ASSUME NEW g \in Gens, OnResponse(g) PROVE OutcomeStep(d)
  <2> DEFINE m == Head(toGateway[g])
  <2>1. /\ toGateway[g] # <<>> /\ m \in ResponseMsgs
        /\ IF m.req \notin pending
           THEN UNCHANGED <<pending, pc, result>>
           ELSE IF Unavailable(m.kind)
           THEN RejectAs({m.req}, Caught(m.kind)) /\ UNCHANGED result
           ELSE /\ pending' = pending \ {m.req}
                /\ Settle(m.req[1], Validated(m.kind))
    BY <1>6 DEF OnResponse, Receive
  <2>2. UNCHANGED <<outcome, attempts, denied>>
    BY <1>6 DEF OnResponse, agentVars
  <2>3. 1 \in DOMAIN toGateway[g] /\ toGateway[g][1] = m
    BY <1>0, <2>1
  <2> HIDE DEF m
  <2>4. CASE m.req \notin pending
    BY <1>1, <2>1, <2>2, <2>4
  <2>5. CASE m.req \in pending /\ Unavailable(m.kind) /\ Cur(d) # m.req
    BY <1>0, <2>1, <2>2, <2>5 DEF RejectAs, OutcomeStep
  <2>6. CASE m.req \in pending /\ m.kind = "notStarted" /\ Cur(d) = m.req
    <3>1. m.req \in denied
      BY <2>1, <2>3, <2>6 DEF DenialsTrue, Denies
    <3>2. Denied(d)'
      <4>1. <<d, attempts[d]>> \in Requests /\ <<d, attempts[d]>> \in denied
        BY <1>0, <2>6, <3>1 DEF Cur
      <4>2. attempts[d] >= 1
        BY <4>1, MaxAttemptsAssumption DEF Requests
      <4> QED
        BY <2>2, <4>1, <4>2 DEF Denied, Cur
    <3>3. pc'[d] = "disclaimed"
      BY <2>1, <2>6 DEF RejectAs, Caught, Unavailable
    <3> QED
      BY <3>2, <3>3 DEF OutcomeStep
  <2>7. CASE m.req \in pending /\ m.kind = "unavailable" /\ Cur(d) = m.req
    BY <2>1, <2>7 DEF RejectAs, Caught, Unavailable, OutcomeStep
  <2>8. CASE m.req \in pending /\ ~Unavailable(m.kind)
    <3>1. Validated(m.kind) # "unavailable"
      BY <2>8 DEF Validated, Unavailable
    <3> QED
      BY <1>0, <2>1, <2>2, <2>8, <3>1 DEF Settle, OutcomeStep
  <2> QED
    BY <2>4, <2>5, <2>6, <2>7, <2>8 DEF Unavailable
<1>7. ASSUME NEW R, RejectAs(R, "rejected"), UNCHANGED <<result, outcome, attempts>>
      PROVE  OutcomeStep(d)
  BY <1>0, <1>7 DEF RejectAs, OutcomeStep
<1>8. ASSUME NEW g \in Gens, OnClose(g) PROVE OutcomeStep(d)
  BY <1>7, <1>8 DEF OnClose
<1>9. ASSUME NEW r \in Requests, SendError(r) PROVE OutcomeStep(d)
  BY <1>7, <1>9 DEF SendError
<1>10. ASSUME NEW r \in Requests, Watchdog(r) PROVE OutcomeStep(d)
  BY <1>0, <1>10 DEF Watchdog, CancelPending, Settle, OutcomeStep
<1> QED
  BY <1>2, <1>3, <1>4, <1>5, <1>6, <1>8, <1>9, <1>10 DEF ConnectionStep, RequestStep

\* Every step of the relay keeps what is known of the outcomes.
LEMMA NextOutcome ==
    ASSUME TypeOK, Outstanding, DenialsTrue, OutcomeKnown, [Next]_vars
    PROVE  OutcomeKnown'
<1>1. denied \subseteq denied'
  BY NextDenies
<1>2. CASE Connect
  BY <1>1, <1>2, ConnectionOutcome, StaysKnown DEF Connect
<1>3. CASE GatewayNext /\ UNCHANGED agentVars
  BY <1>1, <1>3, CallOutcome, ConnectionOutcome, StaysKnown, Zenon DEF GatewayNext
<1>4. CASE UNCHANGED gatewayVars
  <2>1. \A c \in Calls : OutcomeStep(c)
    BY <1>4 DEF gatewayVars, callVars, OutcomeStep
  <2> QED
    BY <1>1, <2>1, StaysKnown
<1> QED
  BY <1>2, <1>3, <1>4 DEF Next, vars

-----------------------------------------------------------------------------
(***************************************************************************)
(* The theorems.                                                           *)
(***************************************************************************)
\* A gateway and an agent that have just started satisfy the invariant.
LEMMA InitInv == Init => Inv
<1> SUFFICES ASSUME Init PROVE Inv
  OBVIOUS
<1>1. TypeOK
  BY InitTyped
<1>2. \A c \in Calls : /\ pc[c] = "idle" /\ attempts[c] = 0 /\ recovery[c] = FALSE
  BY DEF Init, GatewayInit
<1>3. \A r \in Requests : reqGen[r] = 0 /\ starts[r] = 0 /\ r[1] \in Calls /\ r[2] \in Nat \ {0}
  BY MaxAttemptsAssumption DEF Init, GatewayInit, AgentInit, Requests
<1>4. RequestMade /\ AttemptBound /\ OutcomeKnown
  BY <1>2 DEF RequestMade, AttemptBound, OutcomeKnown
<1>8. Outstanding /\ DenialsTrue
  BY DEF Init, GatewayInit, WireInit, Outstanding, DenialsTrue
<1>5. RequestOnce
  <2>1. \A g \in Gens : DOMAIN toAgent[g] = {}
    BY DEF Init, WireInit
  <2> QED
    BY <1>3, <2>1 DEF RequestOnce
<1>6. GenerationsOrdered
  <2>1. sock = 0 /\ gen = 0
    BY DEF Init, GatewayInit
  <2> QED
    BY <1>2, <1>3, <2>1 DEF GenerationsOrdered
<1>7. RetryOnLaterConnection
  <2>1. \A c \in Calls, b \in 1..MaxAttempts : <<c, b>> \in Requests
    BY DEF Requests
  <2> QED
    BY <1>3, <2>1 DEF RetryOnLaterConnection
<1> QED
  BY <1>1, <1>4, <1>5, <1>6, <1>7, <1>8 DEF Inv

\* The inductive invariant of the relay holds in every reachable state.
THEOREM RelayInvariant == Spec => []Inv
<1>1. Inv /\ [Next]_vars => Inv'
  <2> SUFFICES ASSUME Inv, [Next]_vars PROVE Inv'
    OBVIOUS
  <2>1. TypeOK'
    BY NextTyped DEF Inv
  <2>2. CallInv'
    BY <2>1, NextKnows DEF Inv, CallInv
  <2>3. RequestOnce'
    BY <2>1, NextOnce DEF Inv
  <2>4. Outstanding'
    BY NextSettles DEF Inv
  <2>5. DenialsTrue' /\ OutcomeKnown'
    BY NextDenies, NextOutcome DEF Inv
  <2> QED
    BY <2>1, <2>2, <2>3, <2>4, <2>5 DEF Inv, CallInv
<1> QED
  BY <1>1, InitInv, PTL DEF Spec

\* The variables of the gateway, of the agent and of the wire keep their types.
THEOREM TypeCorrect == Spec => []TypeOK
<1>1. Inv => TypeOK
  BY DEF Inv
<1> QED
  BY <1>1, RelayInvariant, PTL

\* AgentRelay.call never makes the agent start a mutating operation twice, nor a
\* retryable one more than twice, for any number of calls and connections.
THEOREM AtMostOnce == Spec => []ExecutedAtMost
<1>1. Inv => ExecutedAtMost
  <2> SUFFICES ASSUME Inv, NEW r \in Requests
               PROVE  starts[r] <= 1 /\ (starts[r] = 1 => r[2] <= ExecutionBound(r[1]))
    BY DEF ExecutedAtMost
  <2>1. r[1] \in Calls /\ r[2] \in Nat
    BY MaxAttemptsAssumption DEF Requests
  <2>2. attempts[r[1]] \in Nat
    BY <2>1, MaxAttemptsAssumption DEF Inv, TypeOK, GatewayTypeOK
  <2>3. starts[r] <= 1 /\ (starts[r] = 1 => r[2] <= attempts[r[1]])
    BY DEF Inv, RequestOnce
  <2>4. attempts[r[1]] <= 1 \/ (r[1] \in Retryable /\ attempts[r[1]] <= 2)
    BY <2>1, <2>2 DEF Inv, AttemptBound
  <2> QED
    BY <2>1, <2>2, <2>3, <2>4 DEF ExecutionBound
<1> QED
  BY <1>1, RelayInvariant, PTL

\* When AgentRelay.call reports the outcome "not_started", the agent never started
\* the operation, or said itself of the request that it had begun nothing, for any
\* number of calls, connections and attempts.
THEOREM OutcomeTrustworthy == Spec => []NotStartedIsTrue
<1>1. Inv => NotStartedIsTrue
  <2> SUFFICES ASSUME Inv, NEW c \in Calls, pc[c] = "done", result[c] = "unavailable",
                      outcome[c] = "not_started", NEW a \in 1..MaxAttempts,
                      starts[<<c, a>>] > 0
               PROVE  \/ <<c, a>> \in denied
                      \/ c \in Retryable /\ a < attempts[c] /\ Cur(c) \in denied
    BY DEF NotStartedIsTrue
  <2>1. attempts[c] \in Nat
    BY MaxAttemptsAssumption DEF Inv, TypeOK, GatewayTypeOK
  <2>2. <<c, a>> \in Requests /\ a \in Nat \ {0}
    BY MaxAttemptsAssumption DEF Requests
  <2>3. starts[<<c, a>>] \in Nat
    BY <2>2 DEF Inv, TypeOK, AgentTypeOK
  <2>4. a <= attempts[c]
    <3>1. starts[<<c, a>>] <= 1 /\ (starts[<<c, a>>] = 1 => a <= attempts[c])
      BY <2>2 DEF Inv, RequestOnce
    <3> QED
      BY <2>3, <3>1
  <2>5. Cur(c) \in denied
    BY <2>1, <2>2, <2>4 DEF Inv, OutcomeKnown, Denied
  <2>6. a < attempts[c] => c \in Retryable
    BY <2>1, <2>2 DEF Inv, AttemptBound
  <2> QED
    BY <2>1, <2>2, <2>4, <2>5, <2>6 DEF Cur
<1> QED
  BY <1>1, RelayInvariant, PTL

\* AgentRelay.call retries on a later connection than that of the attempt it
\* replaces, for any number of connections.
THEOREM RetryLater == Spec => []RetryOnLaterConnection
<1>1. Inv => RetryOnLaterConnection
  BY DEF Inv
<1> QED
  BY <1>1, RelayInvariant, PTL

-----------------------------------------------------------------------------
(***************************************************************************)
(* Calls that have settled                                                 *)
(***************************************************************************)

\* A call settles once: whatever late responses, timers, aborts and closed connections come
\* after it, AgentRelayRequestManager takes a request out of its map before it settles the call.
THEOREM SettledOnce == Spec => SettledIsFinal
<1>1. Inv /\ [Next]_vars =>
        [\A c \in Calls : pc[c] = "done" =>
           pc'[c] = "done" /\ result'[c] = result[c] /\ outcome'[c] = outcome[c]]_vars
  BY NextSettles DEF Inv, Final
<1> QED
  BY <1>1, RelayInvariant, PTL DEF Spec, SettledIsFinal

-----------------------------------------------------------------------------
(***************************************************************************)
(* Calls that wait for the agent                                           *)
(***************************************************************************)

\* A step after which no other call waits, and the agent is no more connected than before.
LEMMA StillAwaiting ==
    ASSUME NoStrandedWaiter, UNCHANGED <<gen, closed>>, IsConnected' => IsConnected,
           \A c \in Calls : pc'[c] = "waiting" => pc[c] = "waiting" /\ minGen'[c] = minGen[c]
    PROVE  NoStrandedWaiter'
BY DEF NoStrandedWaiter

\* No connection is opened and no hello accepted: the agent is no more connected than before.
LEMMA StaysShut ==
    ASSUME TypeOK, sock' \in {0, sock}, ready' => ready,
           \A h \in Gens : gwEnd'[h] = "open" => gwEnd[h] = "open"
    PROVE  IsConnected' => IsConnected
<1>1. sock = 0 \/ sock \in Gens
  BY MaxGenAssumption DEF TypeOK, GatewayTypeOK, Gens
<1> QED
  BY <1>1 DEF IsConnected, SocketOpen

\* The steps of a call start to wait only for a connection that is not there yet.
LEMMA CallAwaits ==
    ASSUME Inv, NoStrandedWaiter, NEW c \in Calls, CallStep(c)
    PROVE  NoStrandedWaiter'
<1>0. pc \in [Calls -> PCs] /\ minGen \in [Calls -> 0 .. (MaxGen + 1)] /\ gen \in 0 .. MaxGen
  BY DEF Inv, TypeOK, GatewayTypeOK
<1>1. UNCHANGED <<gen, closed>> /\ (IsConnected' <=> IsConnected)
  BY DEF CallStep, Call, CallUnavailable, CallAwaitsAgent, RequestBusy, RequestRefused, RequestAborted,
         RequestSent, Abort, WaiterTimeout, CatchGivesUp, CatchRecovers, serviceVars, wireVars,
         IsConnected, SocketOpen
<1>2. CASE \/ Call(c) \/ CallUnavailable(c) \/ RequestBusy(c) \/ RequestRefused(c) \/ WaiterTimeout(c)
           \/ CatchGivesUp(c) \/ RequestAborted(c) \/ RequestSent(c)
  <2>1. UNCHANGED minGen /\ \E to \in {"loop", "done", "pending"} : pc' = [pc EXCEPT ![c] = to]
    BY <1>2 DEF Call, CallUnavailable, RequestBusy, RequestRefused, WaiterTimeout, CatchGivesUp,
                RequestAborted, RequestSent, Settle
  <2>2. \A d \in Calls : pc'[d] = "waiting" => pc[d] = "waiting"
    BY <1>0, <2>1
  <2> QED
    BY <1>1, <2>1, <2>2, StillAwaiting
<1>3. CASE Abort(c)
  <2>1. UNCHANGED minGen
    BY <1>3 DEF Abort
  <2>2. \A d \in Calls : pc'[d] = "waiting" => pc[d] = "waiting"
    BY <1>0, <1>3 DEF Abort, CancelPending, Settle, Cur
  <2> QED
    BY <1>1, <2>1, <2>2, StillAwaiting
<1>4. ASSUME NEW g, Wait(c, g), IsConnected => gen < g PROVE NoStrandedWaiter'
  <2>1. CASE Settle(c, "unavailable") /\ UNCHANGED minGen
    <3>1. \A d \in Calls : pc'[d] = "waiting" => pc[d] = "waiting"
      BY <1>0, <2>1 DEF Settle
    <3> QED
      BY <1>1, <2>1, <3>1, StillAwaiting
  <2>2. CASE ~closed /\ pc' = [pc EXCEPT ![c] = "waiting"] /\ minGen' = [minGen EXCEPT ![c] = g]
    <3>1. minGen'[c] = g /\ \A d \in Calls \ {c} : pc'[d] = pc[d] /\ minGen'[d] = minGen[d]
      BY <1>0, <2>2
    <3> QED
      BY <1>1, <1>4, <2>2, <3>1 DEF NoStrandedWaiter
  <2> QED
    BY <1>4, <2>1, <2>2 DEF Wait
<1>5. CASE CallAwaitsAgent(c)
  BY <1>4, <1>5 DEF CallAwaitsAgent
<1>6. CASE CatchRecovers(c)
  <2>1. CASE IsConnected /\ gen >= RetryGeneration(c)
    <3>1. UNCHANGED minGen /\ pc' = [pc EXCEPT ![c] = "loop"]
      BY <1>6, <2>1 DEF CatchRecovers
    <3>2. \A d \in Calls : pc'[d] = "waiting" => pc[d] = "waiting"
      BY <1>0, <3>1
    <3> QED
      BY <1>1, <3>1, <3>2, StillAwaiting
  <2>2. CASE ~(IsConnected /\ gen >= RetryGeneration(c))
    <3>1. Wait(c, RetryGeneration(c))
      BY <1>6, <2>2 DEF CatchRecovers
    <3>2. RetryGeneration(c) \in Int
      <4>1. Cur(c) \in Requests
        BY <1>6, MaxAttemptsAssumption
           DEF CatchRecovers, Inv, RequestMade, Requests, Cur, TypeOK, GatewayTypeOK
      <4> QED
        BY <4>1 DEF RetryGeneration, Inv, TypeOK, GatewayTypeOK
    <3> QED
      BY <1>0, <1>4, <2>2, <3>1, <3>2
  <2> QED
    BY <2>1, <2>2
<1> QED
  BY <1>2, <1>3, <1>5, <1>6 DEF CallStep

\* The hello of a connection and close() wake every waiter they concern.
LEMMA ConnectionAwaits ==
    ASSUME TypeOK, NoStrandedWaiter,
           \/ Accept \/ Shutdown
           \/ \E g \in Gens : ConnectionStep(g)
           \/ \E r \in Requests : RequestStep(r)
    PROVE  NoStrandedWaiter'
<1>0. /\ pc \in [Calls -> PCs] /\ minGen \in [Calls -> 0 .. (MaxGen + 1)] /\ gen \in 0 .. MaxGen
      /\ gwEnd \in [Gens -> EndStates] /\ sock \in 0 .. MaxGen
  BY DEF TypeOK, GatewayTypeOK, WireTypeOK
<1>1. CASE Accept
  BY <1>1 DEF Accept, NoStrandedWaiter, IsConnected, callVars
<1>2. CASE Shutdown
  BY <1>2 DEF Shutdown, NoStrandedWaiter
<1>3. ASSUME NEW g \in Gens, gwEnd' = CloseEnd(gwEnd, g) \/ UNCHANGED gwEnd,
             UNCHANGED <<gen, sock, ready, closed, pc, minGen>>
      PROVE  NoStrandedWaiter'
  <2>1. \A h \in Gens : gwEnd'[h] = "open" => gwEnd[h] = "open"
    BY <1>0, <1>3 DEF CloseEnd
  <2> QED
    BY <1>3, <2>1, StaysShut, StillAwaiting
<1>4. ASSUME NEW g \in Gens, HelloTimeout(g) \/ OnInvalidMessage(g) \/ HeartbeatTick(g) \/ Pong(g)
      PROVE  NoStrandedWaiter'
  BY <1>3, <1>4 DEF HelloTimeout, OnInvalidMessage, HeartbeatTick, Pong, gatewayVars, serviceVars, callVars, wireVars
<1>5. ASSUME NEW g \in Gens, OnHello(g) PROVE NoStrandedWaiter'
  <2>1. UNCHANGED <<gen, sock, closed, minGen, gwEnd>>
    BY <1>5 DEF OnHello
  <2>2. \A c \in Calls : pc'[c] = "waiting" => pc[c] = "waiting" /\ (SocketOpen => gen < minGen[c])
    BY <1>0, <1>5 DEF OnHello, Served
  <2> QED
    BY <2>1, <2>2 DEF NoStrandedWaiter, IsConnected, SocketOpen
<1>6. ASSUME UNCHANGED <<gen, closed, minGen>>, IsConnected' => IsConnected,
             NEW R, NEW to \in {"rejected", "disclaimed"}, RejectAs(R, to)
      PROVE  NoStrandedWaiter'
  <2>1. \A c \in Calls : pc'[c] = "waiting" => pc[c] = "waiting"
    BY <1>0, <1>6 DEF RejectAs
  <2> QED
    BY <1>6, <2>1, StillAwaiting
<1>7. ASSUME UNCHANGED <<gen, closed, minGen>>, IsConnected' => IsConnected, NEW c, NEW res, Settle(c, res)
      PROVE  NoStrandedWaiter'
  <2>1. \A d \in Calls : pc'[d] = "waiting" => pc[d] = "waiting"
    BY <1>0, <1>7 DEF Settle
  <2> QED
    BY <1>7, <2>1, StillAwaiting
<1>8. ASSUME NEW g \in Gens, OnResponse(g) PROVE NoStrandedWaiter'
  <2>1. UNCHANGED <<gen, closed, minGen>> /\ (IsConnected' <=> IsConnected)
    BY <1>8 DEF OnResponse, serviceVars, IsConnected, SocketOpen
  <2>2. PICK m : \/ UNCHANGED pc
                 \/ RejectAs({m.req}, "rejected") \/ RejectAs({m.req}, "disclaimed")
                 \/ Settle(m.req[1], Validated(m.kind))
    BY <1>8 DEF OnResponse, Caught
  <2>3. CASE UNCHANGED pc
    BY <2>1, <2>3, StillAwaiting
  <2> QED
    BY <1>6, <1>7, <2>1, <2>2, <2>3
<1>9. ASSUME NEW g \in Gens, OnClose(g) PROVE NoStrandedWaiter'
  <2>1. \A h \in Gens : gwEnd'[h] = "open" => gwEnd[h] = "open"
    BY <1>0, <1>9 DEF OnClose
  <2>2. UNCHANGED <<gen, closed, minGen>> /\ (IsConnected' => IsConnected)
    BY <1>9, <2>1, StaysShut DEF OnClose
  <2> QED
    BY <1>6, <1>9, <2>2 DEF OnClose
<1>10. ASSUME NEW r \in Requests, RequestStep(r) PROVE NoStrandedWaiter'
  <2>1. UNCHANGED <<gen, closed, minGen>> /\ (IsConnected' <=> IsConnected)
    BY <1>10 DEF RequestStep, SendError, Watchdog, serviceVars, wireVars, IsConnected, SocketOpen
  <2> QED
    BY <1>6, <1>7, <1>10, <2>1 DEF RequestStep, SendError, Watchdog, CancelPending
<1> QED
  BY <1>1, <1>2, <1>4, <1>5, <1>8, <1>9, <1>10 DEF ConnectionStep

\* No step leaves a waiter behind.
LEMMA NextAwaits == Inv /\ NoStrandedWaiter /\ [Next]_vars => NoStrandedWaiter'
<1> SUFFICES ASSUME Inv, NoStrandedWaiter, [Next]_vars PROVE NoStrandedWaiter'
  OBVIOUS
<1>0. TypeOK
  BY DEF Inv
<1>1. CASE Connect
  BY <1>0, <1>1, ConnectionAwaits DEF Connect
<1>2. CASE GatewayNext
  BY <1>0, <1>2, CallAwaits, ConnectionAwaits, Zenon DEF GatewayNext
<1>3. ASSUME UNCHANGED gatewayVars, \A h \in Gens : gwEnd'[h] = "open" => gwEnd[h] = "open" PROVE NoStrandedWaiter'
  <2>1. UNCHANGED <<gen, sock, ready, closed, pc, minGen>>
    BY <1>3 DEF gatewayVars, serviceVars, callVars
  <2> QED
    BY <1>0, <1>3, <2>1, StaysShut, StillAwaiting
<1>4. CASE AgentNext /\ UNCHANGED gatewayVars
  <2>1. UNCHANGED gwEnd
    BY <1>4 DEF AgentNext, ExecutorStep, Stop, Crash, Open, AgentOnClose, RefuseRequest, StartRequest,
                CancelRequest, Deliver, AgentWatchdog, FinishRequest, wireVars
  <2> QED
    BY <1>3, <1>4, <2>1
<1>5. ASSUME NEW g \in Gens, GwBreak(g) \/ AgBreak(g), UNCHANGED gatewayVars PROVE NoStrandedWaiter'
  <2>1. \A h \in Gens : gwEnd'[h] = "open" => gwEnd[h] = "open"
    BY <1>0, <1>5 DEF GwBreak, AgBreak, TypeOK, WireTypeOK
  <2> QED
    BY <1>3, <1>5, <2>1
<1>6. CASE UNCHANGED vars
  BY <1>3, <1>6 DEF vars, wireVars
<1> QED
  BY <1>1, <1>2, <1>4, <1>5, <1>6 DEF Next

\* No call sleeps through the reconnection it waits for: handleMessage resolves the waiters of the
\* generation that says hello, and whoever joins readyWaiters has seen that it is not there yet.
THEOREM WaitersAreServed == Spec => []NoStrandedWaiter
<1>1. Init => NoStrandedWaiter
  BY DEF Init, GatewayInit, NoStrandedWaiter
<1>2. Inv /\ NoStrandedWaiter /\ [Next]_vars => NoStrandedWaiter'
  BY NextAwaits
<1> QED
  BY <1>1, <1>2, RelayInvariant, PTL DEF Spec

-----------------------------------------------------------------------------
(***************************************************************************)
(* Leases of synchronous shells, and work that was done                    *)
(***************************************************************************)

\* Whatever is under way or has returned was started.
WorkInv == \A r \in Requests : exec[r] # "none" \/ r \in okDone => starts[r] = 1

\* The leases and the active shells correspond, one to one.
LeaseInv ==
    /\ \A r \in ActiveShells : lease[WorkspaceOf[r[1]]] = r
    /\ \A w \in Held : lease[w] \in ActiveShells /\ WorkspaceOf[lease[w][1]] = w
    /\ IsFiniteSet(ActiveShells) /\ IsFiniteSet(Held)
    /\ Cardinality(ActiveShells) = Cardinality(Held) /\ Cardinality(Held) <= MaxShells

AgentInv == WorkInv /\ LeaseInv

\* Requests become aborting, or nothing changes, in the agent.
LEMMA SameWork ==
    ASSUME AgentInv, UNCHANGED <<starts, okDone, lease>>,
           \A r \in Requests : exec'[r] = "none" <=> exec[r] = "none"
    PROVE  AgentInv'
<1>1. ActiveShells' = ActiveShells /\ Held' = Held
  BY DEF ActiveShells, Active, Held
<1> QED
  BY <1>1 DEF AgentInv, WorkInv, LeaseInv

\* A crash of the agent ends its operations together with their leases.
LEMMA CrashWork ==
    ASSUME AgentInv, Crash
    PROVE  AgentInv'
<1>1. ActiveShells' = {} /\ Held' = {}
  BY DEF Crash, ActiveShells, Active, Held
<1>2. WorkInv'
  BY DEF AgentInv, WorkInv, Crash
<1>3. LeaseInv'
  BY <1>1, FS_EmptySet, ShellAssumption DEF LeaseInv
<1> QED
  BY <1>2, <1>3 DEF AgentInv

\* The executor starts a request that it has not started before, and a shell only with a free lease.
LEMMA StartWork ==
    ASSUME Inv, AgentInv, NEW g \in Gens, StartRequest(g)
    PROVE  AgentInv'
<1>0. /\ exec \in [Requests -> {"none", "running", "aborting"}] /\ starts \in [Requests -> Nat]
      /\ lease \in [Workspaces -> Requests \cup {Free}]
  BY DEF Inv, TypeOK, AgentTypeOK
<1>1. PICK r \in Requests :
        /\ r = Head(toAgent[g]).req /\ starts[r] = 0
        /\ IsShell(r) => ~ShellBusy(r)
        /\ exec' = [exec EXCEPT ![r] = "running"] /\ starts' = [starts EXCEPT ![r] = @ + 1]
        /\ lease' = IF IsShell(r) THEN [lease EXCEPT ![WorkspaceOf[r[1]]] = r] ELSE lease
        /\ okDone' = okDone
  <2> DEFINE r == Head(toAgent[g]).req
  <2>1. toAgent \in [Gens -> Seq(AgentMsgs)] /\ toAgent[g] # <<>> /\ Head(toAgent[g]).type = "request"
    BY DEF StartRequest, Deliver, Inv, TypeOK, WireTypeOK
  <2>2. /\ 1 \in DOMAIN toAgent[g] /\ toAgent[g][1] = Head(toAgent[g]) /\ toAgent[g][1] \in AgentMsgs
    BY <2>1
  <2>3. r \in Requests /\ starts[r] = 0
    BY <2>1, <2>2 DEF Inv, RequestOnce, IsRequest, AgentMsgs
  <2> QED
    BY <2>3 DEF StartRequest
<1>2. /\ exec[r] = "none" /\ r \notin okDone /\ starts'[r] = 1 /\ exec'[r] # "none"
      /\ \A q \in Requests \ {r} : exec'[q] = exec[q] /\ starts'[q] = starts[q]
  BY <1>0, <1>1 DEF AgentInv, WorkInv
<1>3. WorkInv'
  BY <1>1, <1>2 DEF AgentInv, WorkInv
<1>4. CASE ~IsShell(r)
  <2>1. ActiveShells' = ActiveShells /\ Held' = Held /\ lease' = lease
    BY <1>1, <1>2, <1>4 DEF ActiveShells, Active, Held
  <2> QED
    BY <1>3, <2>1 DEF AgentInv, LeaseInv
<1>5. CASE IsShell(r)
  <2> DEFINE w == WorkspaceOf[r[1]]
  <2>1. w \in Workspaces /\ lease[w] = Free /\ ~(Cardinality(Held) >= MaxShells) /\ r # Free
    BY <1>1, <1>5, ShellAssumption DEF ShellBusy, Requests
  <2>2. lease'[w] = r /\ \A v \in Workspaces \ {w} : lease'[v] = lease[v]
    BY <1>0, <1>1, <1>5, <2>1
  <2>3. ActiveShells' = ActiveShells \cup {r} /\ r \notin ActiveShells
    BY <1>2, <1>5 DEF ActiveShells, Active
  <2> HIDE DEF w
  <2>4. Held' = Held \cup {w} /\ w \notin Held
    BY <2>1, <2>2 DEF Held
  <2>5. \A q \in ActiveShells' : lease'[WorkspaceOf[q[1]]] = q
    <3> SUFFICES ASSUME NEW q \in ActiveShells PROVE lease'[WorkspaceOf[q[1]]] = q
      BY <2>2, <2>3 DEF w
    <3>1. q \in Requests /\ lease[WorkspaceOf[q[1]]] = q /\ WorkspaceOf[q[1]] \in Workspaces /\ q # Free
      BY ShellAssumption DEF AgentInv, LeaseInv, ActiveShells, Active, Requests
    <3> QED
      BY <2>1, <2>2, <3>1
  <2>6. \A v \in Held' : lease'[v] \in ActiveShells' /\ WorkspaceOf[lease'[v][1]] = v
    <3>1. \A v \in Held : v \in Workspaces
      BY DEF Held
    <3> QED
      BY <2>2, <2>3, <2>4, <3>1 DEF AgentInv, LeaseInv, w
  <2>7. /\ IsFiniteSet(ActiveShells') /\ IsFiniteSet(Held')
        /\ Cardinality(ActiveShells') = Cardinality(ActiveShells) + 1
        /\ Cardinality(Held') = Cardinality(Held) + 1 /\ Cardinality(Held) \in Nat
    BY <2>3, <2>4, FS_AddElement, FS_CardinalityType DEF AgentInv, LeaseInv
  <2>8. /\ Cardinality(ActiveShells') = Cardinality(Held') /\ Cardinality(Held') <= MaxShells
    BY <2>1, <2>7, ShellAssumption DEF AgentInv, LeaseInv
  <2>9. LeaseInv'
    BY <2>5, <2>6, <2>7, <2>8 DEF LeaseInv
  <2> QED
    BY <1>3, <2>9 DEF AgentInv
<1> QED
  BY <1>4, <1>5

\* An operation that settles gives back the lease it holds and no other.
LEMMA FinishWork ==
    ASSUME Inv, AgentInv, NEW r \in Requests, NEW k, FinishRequest(r, k)
    PROVE  AgentInv'
<1>0. /\ exec \in [Requests -> {"none", "running", "aborting"}]
      /\ lease \in [Workspaces -> Requests \cup {Free}]
  BY DEF Inv, TypeOK, AgentTypeOK
<1>1. /\ exec[r] # "none" /\ exec' = [exec EXCEPT ![r] = "none"] /\ UNCHANGED starts
      /\ lease' = Released(r) /\ okDone' \subseteq okDone \cup {r}
  BY DEF FinishRequest
<1>2. exec'[r] = "none" /\ \A q \in Requests \ {r} : exec'[q] = exec[q]
  BY <1>0, <1>1
<1>3. WorkInv'
  BY <1>1, <1>2 DEF AgentInv, WorkInv
<1>4. CASE ~IsShell(r)
  <2>1. ActiveShells' = ActiveShells /\ Held' = Held /\ lease' = lease
    BY <1>1, <1>2, <1>4 DEF ActiveShells, Active, Held, Released
  <2> QED
    BY <1>3, <2>1 DEF AgentInv, LeaseInv
<1>5. CASE IsShell(r)
  <2> DEFINE w == WorkspaceOf[r[1]]
  <2>1. w \in Workspaces /\ r \in ActiveShells /\ lease[w] = r /\ r # Free
    BY <1>1, <1>5, ShellAssumption DEF ActiveShells, Active, Requests, AgentInv, LeaseInv
  <2>2. lease'[w] = Free /\ \A v \in Workspaces \ {w} : lease'[v] = lease[v]
    BY <1>0, <1>1, <1>5, <2>1 DEF Released
  <2>3. ActiveShells' = ActiveShells \ {r}
    BY <1>2 DEF ActiveShells, Active
  <2> HIDE DEF w
  <2>4. Held' = Held \ {w} /\ w \in Held
    BY <2>1, <2>2 DEF Held
  <2>5. \A q \in ActiveShells' : lease'[WorkspaceOf[q[1]]] = q
    <3> SUFFICES ASSUME NEW q \in ActiveShells, q # r PROVE lease'[WorkspaceOf[q[1]]] = q
      BY <2>3
    <3>1. q \in Requests /\ lease[WorkspaceOf[q[1]]] = q /\ WorkspaceOf[q[1]] \in Workspaces
      BY ShellAssumption DEF AgentInv, LeaseInv, ActiveShells, Active, Requests
    <3> QED
      BY <2>1, <2>2, <3>1
  <2>6. \A v \in Held' : lease'[v] \in ActiveShells' /\ WorkspaceOf[lease'[v][1]] = v
    <3> SUFFICES ASSUME NEW v \in Held, v # w
                 PROVE  lease'[v] \in ActiveShells' /\ WorkspaceOf[lease'[v][1]] = v
      BY <2>4
    <3>1. v \in Workspaces /\ lease'[v] = lease[v]
      BY <2>2 DEF Held
    <3>2. lease[v] \in ActiveShells /\ WorkspaceOf[lease[v][1]] = v
      BY DEF AgentInv, LeaseInv
    <3>3. lease[v] # r
      BY <3>2 DEF w
    <3> QED
      BY <2>3, <3>1, <3>2, <3>3
  <2>7. /\ IsFiniteSet(ActiveShells') /\ IsFiniteSet(Held')
        /\ Cardinality(ActiveShells') = Cardinality(ActiveShells) - 1
        /\ Cardinality(Held') = Cardinality(Held) - 1 /\ Cardinality(Held) \in Nat
    BY <2>1, <2>3, <2>4, FS_RemoveElement, FS_CardinalityType DEF AgentInv, LeaseInv
  <2>8. /\ Cardinality(ActiveShells') = Cardinality(Held') /\ Cardinality(Held') <= MaxShells
    BY <2>1, <2>7, ShellAssumption DEF AgentInv, LeaseInv
  <2>9. LeaseInv'
    BY <2>5, <2>6, <2>7, <2>8 DEF LeaseInv
  <2> QED
    BY <1>3, <2>9 DEF AgentInv
<1> QED
  BY <1>4, <1>5

\* The agent's bookkeeping of operations and leases is inductive.
LEMMA NextWork == Inv /\ AgentInv /\ [Next]_vars => AgentInv'
<1> SUFFICES ASSUME Inv, AgentInv, [Next]_vars PROVE AgentInv'
  OBVIOUS
<1>0. exec \in [Requests -> {"none", "running", "aborting"}]
  BY DEF Inv, TypeOK, AgentTypeOK
<1>1. CASE UNCHANGED agentVars
  BY <1>1, SameWork DEF agentVars
<1>2. ASSUME NEW g \in Gens, Open(g) \/ RefuseRequest(g) PROVE AgentInv'
  BY <1>1, <1>2 DEF Open, RefuseRequest
<1>3. ASSUME NEW g \in Gens, AgentOnClose(g) \/ CancelRequest(g) PROVE AgentInv'
  <2>1. \A r \in Requests : exec'[r] = "none" <=> exec[r] = "none"
    BY <1>0, <1>3 DEF AgentOnClose, AbortAll, CancelRequest
  <2> QED
    BY <1>3, <2>1, SameWork DEF AgentOnClose, CancelRequest
<1>4. CASE Stop
  BY <1>0, <1>4, SameWork DEF Stop, AbortAll
<1>5. ASSUME NEW r \in Requests, AgentWatchdog(r) PROVE AgentInv'
  BY <1>0, <1>5, SameWork DEF AgentWatchdog
<1> QED
  BY <1>1, <1>2, <1>3, <1>4, <1>5, CrashWork, StartWork, FinishWork, Zenon
     DEF Next, Connect, AgentNext, ExecutorStep, vars

\* An agent that has just started runs nothing and holds no lease.
LEMMA InitWork == Init => AgentInv
<1> SUFFICES ASSUME Init PROVE AgentInv
  OBVIOUS
<1>1. WorkInv
  BY DEF Init, AgentInit, WorkInv
<1>2. ActiveShells = {} /\ Held = {}
  BY DEF Init, AgentInit, ActiveShells, Active, Held
<1>3. LeaseInv
  BY <1>2, FS_EmptySet, ShellAssumption DEF LeaseInv
<1> QED
  BY <1>1, <1>3 DEF AgentInv

\* SynchronousShellConcurrency: two synchronous shells never run in one workspace, there are never
\* more of them than maxConcurrentSynchronousShells, and a lease is held exactly while its shell is
\* active, whatever is cancelled, timed out, disconnected, restarted or killed.
THEOREM LeasesAreExact == Spec => []ShellLeaseExact
<1>1. Init => AgentInv
  BY InitWork
<1>2. Inv /\ AgentInv /\ [Next]_vars => AgentInv'
  BY NextWork
<1>3. AgentInv => ShellLeaseExact
  BY DEF AgentInv, LeaseInv, ShellLeaseExact
<1> QED
  BY <1>1, <1>2, <1>3, RelayInvariant, PTL DEF Spec

-----------------------------------------------------------------------------
(***************************************************************************)
(* Results that calls return                                               *)
(***************************************************************************)

IsOk(m) == m \in ResponseMsgs /\ m.kind = "ok"

\* A result on its way to the gateway, or returned by a call, is one the agent computed.
AnswersTrue == \A g \in Gens : \A i \in DOMAIN toGateway[g] : IsOk(toGateway[g][i]) => toGateway[g][i].req \in okDone
ResultsTrue == \A c \in Calls : result[c] = "ok" => \E r \in okDone : r[1] = c

AnswerInv == AnswersTrue /\ ResultsTrue

\* A step that adds no frame and no result.
LEMMA SameAnswers ==
    ASSUME AnswerInv, okDone \subseteq okDone', Fewer(toGateway', toGateway),
           \A c \in Calls : result'[c] = "ok" => result[c] = "ok"
    PROVE  AnswerInv'
<1>1. AnswersTrue'
  BY DEF AnswerInv, AnswersTrue, Fewer
<1>2. ResultsTrue'
  BY DEF AnswerInv, ResultsTrue
<1> QED
  BY <1>1, <1>2 DEF AnswerInv

\* The agent sends a hello, or a response; a result only after the operation returned it.
LEMMA AnswerSent ==
    ASSUME TypeOK, AnswerInv, okDone \subseteq okDone', UNCHANGED result,
           NEW g, NEW end, NEW msg \in GatewayMsgs, IsOk(msg) => msg.req \in okDone',
           toGateway' = Put(toGateway, g, end, msg)
    PROVE  AnswerInv'
<1>1. ASSUME NEW h \in Gens, NEW i \in DOMAIN toGateway'[h]
      PROVE  \/ i \in DOMAIN toGateway[h] /\ toGateway'[h][i] = toGateway[h][i]
             \/ toGateway'[h][i] = msg
  BY <1>1, SentFrames
<1>2. AnswersTrue'
  BY <1>1 DEF AnswerInv, AnswersTrue
<1>3. ResultsTrue'
  BY DEF AnswerInv, ResultsTrue
<1> QED
  BY <1>2, <1>3 DEF AnswerInv

\* The agent sends ok only for an operation that has returned a result.
LEMMA AgentAnswers ==
    ASSUME TypeOK, AnswerInv, AgentNext, UNCHANGED gatewayVars
    PROVE  AnswerInv'
<1>0. /\ toGateway \in [Gens -> Seq(GatewayMsgs)] /\ toAgent \in [Gens -> Seq(AgentMsgs)]
      /\ UNCHANGED result
  BY DEF TypeOK, WireTypeOK, gatewayVars, callVars
<1>1. CASE UNCHANGED <<toGateway, okDone>>
  <2>1. Fewer(toGateway', toGateway)
    BY <1>1 DEF Fewer
  <2> QED
    BY <1>0, <1>1, <2>1, SameAnswers
<1>2. CASE \/ Stop \/ Crash
           \/ \E g \in Gens : AgentOnClose(g) \/ StartRequest(g) \/ CancelRequest(g)
           \/ \E r \in Requests : AgentWatchdog(r)
  BY <1>1, <1>2 DEF Stop, Crash, AgentOnClose, StartRequest, CancelRequest, AgentWatchdog, wireVars
<1>3. ASSUME NEW g \in Gens, Open(g) PROVE AnswerInv'
  <2>1. PICK b \in Builds : toGateway' = Put(toGateway, g, gwEnd[g], [type |-> "hello", compatible |-> b])
    BY <1>3 DEF Open
  <2> DEFINE msg == [type |-> "hello", compatible |-> b]
  <2>2. msg \in GatewayMsgs /\ msg.type = "hello"
    BY ShellAssumption DEF GatewayMsgs, HelloMsgs
  <2>3. okDone' = okDone
    BY <1>3 DEF Open, agentVars
  <2> HIDE DEF msg
  <2>4. ~IsOk(msg)
    BY <2>2 DEF IsOk, ResponseMsgs
  <2> QED
    BY <1>0, <2>1, <2>2, <2>3, <2>4, AnswerSent DEF msg
<1>4. ASSUME NEW g, NEW r \in Requests, NEW k \in AllKinds, Respond(g, r, k),
             okDone \subseteq okDone', k = "ok" => r \in okDone'
      PROVE  AnswerInv'
  <2>1. CASE UNCHANGED toGateway
    <3>1. Fewer(toGateway', toGateway)
      BY <2>1 DEF Fewer
    <3> QED
      BY <1>0, <1>4, <3>1, SameAnswers
  <2>2. CASE toGateway' = Put(toGateway, g, gwEnd[g], [type |-> "response", req |-> r, kind |-> k])
    <3> DEFINE msg == [type |-> "response", req |-> r, kind |-> k]
    <3>1. msg \in GatewayMsgs /\ msg.kind = k /\ msg.req = r
      BY DEF GatewayMsgs, ResponseMsgs
    <3> HIDE DEF msg
    <3>2. IsOk(msg) => msg.req \in okDone'
      BY <1>4, <3>1 DEF IsOk
    <3> QED
      BY <1>0, <1>4, <2>2, <3>1, <3>2, AnswerSent DEF msg
  <2> QED
    BY <1>4, <2>1, <2>2 DEF Respond
<1>5. ASSUME NEW g \in Gens, RefuseRequest(g) PROVE AnswerInv'
  <2>1. Head(toAgent[g]).req \in Requests
    <3>1. toAgent[g] # <<>>
      BY <1>5 DEF RefuseRequest, Deliver
    <3>2. Head(toAgent[g]) \in AgentMsgs
      BY <1>0, <3>1, TailType
    <3> QED
      BY <3>2 DEF AgentMsgs
  <2> QED
    BY <1>4, <1>5, <2>1 DEF RefuseRequest, agentVars, AllKinds
<1>6. ASSUME NEW r \in Requests, NEW k \in RespKinds, FinishRequest(r, k) PROVE AnswerInv'
  <2>1. k \in AllKinds
    BY ShellAssumption
  <2> QED
    BY <1>4, <1>6, <2>1 DEF FinishRequest
<1> QED
  BY <1>2, <1>3, <1>5, <1>6, Zenon DEF AgentNext, ExecutorStep

\* The gateway takes ok only from a frame of the request that a call waits for.
LEMMA GatewayAnswers ==
    ASSUME TypeOK, AnswerInv, Accept \/ GatewayNext, UNCHANGED agentVars
    PROVE  AnswerInv'
<1>0. /\ toGateway \in [Gens -> Seq(GatewayMsgs)] /\ result \in [Calls -> Results]
      /\ UNCHANGED okDone /\ pending \subseteq Requests
  BY DEF TypeOK, WireTypeOK, GatewayTypeOK, agentVars
<1>1. ASSUME UNCHANGED toGateway, \A c \in Calls : result'[c] = "ok" => result[c] = "ok" PROVE AnswerInv'
  <2>1. Fewer(toGateway', toGateway)
    BY <1>1 DEF Fewer
  <2> QED
    BY <1>0, <1>1, <2>1, SameAnswers
<1>2. CASE Accept \/ Shutdown
  BY <1>1, <1>2 DEF Accept, Shutdown, callVars
<1>3. ASSUME NEW c \in Calls, CallStep(c) PROVE AnswerInv'
  <2>1. UNCHANGED toGateway
    BY <1>3 DEF CallStep, Call, CallUnavailable, CallAwaitsAgent, RequestBusy, RequestRefused,
           RequestAborted, RequestSent, Abort, WaiterTimeout, CatchGivesUp, CatchRecovers, wireVars
  <2>2. \/ UNCHANGED result
        \/ \E d, res : res # "ok" /\ Settle(d, res)
    <3>1. CASE Abort(c)
      BY <3>1 DEF Abort, CancelPending
    <3>2. CASE CallAwaitsAgent(c) \/ CatchRecovers(c)
      BY <3>2 DEF CallAwaitsAgent, CatchRecovers, Wait
    <3>3. CASE RequestRefused(c)
      BY <3>3 DEF RequestRefused
    <3> QED
      BY <1>3, <3>1, <3>2, <3>3 DEF CallStep, Call, CallUnavailable, RequestBusy,
           RequestAborted, RequestSent, WaiterTimeout, CatchGivesUp
  <2>3. \A d \in Calls : result'[d] = "ok" => result[d] = "ok"
    BY <1>0, <2>2 DEF Settle
  <2> QED
    BY <1>1, <2>1, <2>3
<1>4. ASSUME NEW r \in Requests, RequestStep(r) PROVE AnswerInv'
  <2>1. UNCHANGED toGateway /\ (UNCHANGED result \/ Settle(r[1], "timeout"))
    BY <1>4 DEF RequestStep, SendError, Watchdog, CancelPending, wireVars
  <2>2. \A d \in Calls : result'[d] = "ok" => result[d] = "ok"
    BY <1>0, <2>1 DEF Settle
  <2> QED
    BY <1>1, <2>1, <2>2
<1>5. ASSUME NEW g \in Gens, HelloTimeout(g) \/ HeartbeatTick(g) \/ Pong(g) PROVE AnswerInv'
  BY <1>1, <1>5 DEF HelloTimeout, HeartbeatTick, Pong, gatewayVars, callVars, wireVars
<1>6. ASSUME NEW g \in Gens, OnClose(g) PROVE AnswerInv'
  <2>1. Fewer(toGateway', toGateway) /\ UNCHANGED result
    BY <1>0, <1>6, FewerFrames DEF OnClose
  <2> QED
    BY <1>0, <2>1, SameAnswers
<1>7. ASSUME NEW g \in Gens, Receive(g)
      PROVE  /\ Fewer(toGateway', toGateway)
             /\ \E j \in DOMAIN toGateway[g] : toGateway[g][j] = Head(toGateway[g])
  <2>1. toGateway[g] # <<>> /\ toGateway' = [toGateway EXCEPT ![g] = Tail(@)]
    BY <1>7 DEF Receive
  <2>2. Fewer(toGateway', toGateway)
    BY <1>0, <2>1, FewerFrames, Zenon
  <2>3. 1 \in DOMAIN toGateway[g] /\ toGateway[g][1] = Head(toGateway[g])
    BY <1>0, <2>1
  <2> QED
    BY <2>2, <2>3
<1>8. ASSUME NEW g \in Gens, OnHello(g) \/ OnInvalidMessage(g) PROVE AnswerInv'
  <2>1. UNCHANGED result /\ Receive(g)
    BY <1>8 DEF OnHello, OnInvalidMessage, gatewayVars, callVars
  <2> QED
    BY <1>0, <1>7, <2>1, SameAnswers
<1>9. ASSUME NEW g \in Gens, OnResponse(g) PROVE AnswerInv'
  <2> DEFINE m == Head(toGateway[g])
  <2>1. /\ Receive(g) /\ m \in ResponseMsgs
        /\ \/ UNCHANGED result
           \/ Settle(m.req[1], Validated(m.kind))
    BY <1>9 DEF OnResponse
  <2>2. Fewer(toGateway', toGateway) /\ \E j \in DOMAIN toGateway[g] : toGateway[g][j] = m
    BY <1>7, <2>1
  <2> HIDE DEF m
  <2>3. CASE UNCHANGED result
    BY <1>0, <2>2, <2>3, SameAnswers
  <2>4. CASE Settle(m.req[1], Validated(m.kind)) /\ m.kind # "ok"
    <3>1. Validated(m.kind) # "ok"
      BY <2>4 DEF Validated
    <3>2. \A d \in Calls : result'[d] = "ok" => result[d] = "ok"
      BY <1>0, <2>4, <3>1 DEF Settle
    <3> QED
      BY <1>0, <2>2, <3>2, SameAnswers
  <2>5. CASE Settle(m.req[1], Validated(m.kind)) /\ m.kind = "ok"
    <3>1. m.req \in okDone
      BY <2>1, <2>2, <2>5 DEF AnswerInv, AnswersTrue, IsOk
    <3>2. ResultsTrue'
      BY <1>0, <2>5, <3>1 DEF Settle, AnswerInv, ResultsTrue
    <3>3. AnswersTrue'
      BY <1>0, <2>2 DEF AnswerInv, AnswersTrue, Fewer
    <3> QED
      BY <3>2, <3>3 DEF AnswerInv
  <2> QED
    BY <2>1, <2>3, <2>4, <2>5
<1> QED
  BY <1>2, <1>3, <1>4, <1>5, <1>6, <1>8, <1>9, Zenon DEF GatewayNext, ConnectionStep

\* What AgentRelay.call returns is what the agent computed for one of its requests: no response is
\* taken for another request's, and none is made up, across retries and reconnections.
THEOREM ResultsAreReal == Spec => []OkWasExecuted
<1>1. Init => AgentInv /\ AnswerInv
  <2> SUFFICES ASSUME Init PROVE AgentInv /\ AnswerInv
    OBVIOUS
  <2>1. AgentInv
    BY InitWork
  <2>2. AnswersTrue
    BY DEF Init, WireInit, AnswersTrue
  <2>3. ResultsTrue
    BY DEF Init, GatewayInit, ResultsTrue
  <2> QED
    BY <2>1, <2>2, <2>3 DEF AnswerInv
<1>2. Inv /\ AnswerInv /\ [Next]_vars => AnswerInv'
  <2> SUFFICES ASSUME Inv, AnswerInv, [Next]_vars PROVE AnswerInv'
    OBVIOUS
  <2>0. TypeOK
    BY DEF Inv
  <2>1. CASE UNCHANGED <<toGateway, okDone, result>>
    <3>1. Fewer(toGateway', toGateway)
      BY <2>1 DEF Fewer
    <3> QED
      BY <2>1, <3>1, SameAnswers
  <2>2. CASE UNCHANGED vars
    BY <2>1, <2>2 DEF vars, wireVars, agentVars, gatewayVars, callVars
  <2>3. ASSUME NEW g \in Gens, GwBreak(g) \/ AgBreak(g), UNCHANGED <<gatewayVars, agentVars>> PROVE AnswerInv'
    BY <2>1, <2>3 DEF GwBreak, AgBreak, agentVars, gatewayVars, callVars
  <2> QED
    BY <2>0, <2>2, <2>3, AgentAnswers, GatewayAnswers, Zenon DEF Next, Connect
<1>3. Inv /\ AgentInv /\ [Next]_vars => AgentInv'
  BY NextWork
<1>4. Inv /\ AgentInv /\ AnswerInv => OkWasExecuted
  <2> SUFFICES ASSUME Inv, AgentInv, AnswerInv, NEW c \in Calls, result[c] = "ok"
               PROVE  \E a \in 1 .. attempts[c] : <<c, a>> \in okDone /\ starts[<<c, a>>] = 1
    BY DEF OkWasExecuted
  <2>1. PICK r \in okDone : r[1] = c
    BY DEF AnswerInv, ResultsTrue
  <2>2. r \in Requests /\ starts[r] = 1
    BY DEF Inv, TypeOK, AgentTypeOK, AgentInv, WorkInv
  <2>3. r = <<c, r[2]>> /\ r[2] \in 1 .. MaxAttempts /\ r[2] <= attempts[c]
    BY <2>1, <2>2 DEF Requests, Inv, RequestOnce
  <2>4. r[2] \in 1 .. attempts[c]
    BY <2>3, MaxAttemptsAssumption DEF Inv, TypeOK, GatewayTypeOK
  <2> QED
    BY <2>2, <2>3, <2>4
<1> QED
  BY <1>1, <1>2, <1>3, <1>4, RelayInvariant, PTL DEF Spec

=============================================================================
