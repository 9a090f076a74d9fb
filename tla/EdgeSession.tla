------------------------------- MODULE EdgeSession -------------------------------
(***************************************************************************)
(* McpSession, the Durable Object of the edge gateway: connectors of the   *)
(* local gateways dial in over WebSockets and say which contract revision  *)
(* they serve; requests of MCP clients are relayed to the one connector    *)
(* that is selected; promotion and rollback switch the active revision.    *)
(*                                                                         *)
(* A step is what the object does between two waits that let other events  *)
(* in. Storage operations do not: while one is under way the runtime       *)
(* delivers no event to the object, so promotion, rollback, the upgrade    *)
(* and the telemetry records queued by an event are part of its step.      *)
(* Reading a body, authenticating and the delays of the reconnect grace do *)
(* let other events in: a request rests in its phase meanwhile.            *)
(*                                                                         *)
(* A socket is <<p, g>>, the g-th connection of connector process p, and   *)
(* its record is the attachment of the WebSocket with its readyState:      *)
(*   none     not yet opened                                               *)
(*   open     readyState OPEN                                              *)
(*   closing  lost or closing, the close event has not been delivered      *)
(*   errored  the error event was delivered, the close event may follow    *)
(*   gone     no longer in getWebSockets                                   *)
(***************************************************************************)
EXTENDS ContractRollout, Naturals, FiniteSets

CONSTANTS
    Processes,    \* connector processes; their order is the order of instance ids
    Started,      \* processStartedAt of each
    RevisionOf,   \* catalogContractRevision of each; None: no runtime identity
    Legacy,       \* the processes that speak protocol 2
    MaxGen,       \* bound: connections of one process
    Requests,     \* HTTP requests to allowed routes
    ToolCalls,    \* those that are POST /mcp and need execution; others GET, DELETE
    MaxChanges,   \* bound: promotions and rollbacks
    MaxRestarts   \* bound: restarts of the object, by a crash or a deployment

ASSUME ProcessAssumption ==
    /\ Processes \subseteq Nat \ {0} /\ IsFiniteSet(Processes) /\ Legacy \subseteq Processes
    /\ Started \in [Processes -> Nat] /\ RevisionOf \in [Processes -> Maybe]
ASSUME RequestAssumption == ToolCalls \subseteq Requests
ASSUME BoundsAssumption == MaxGen \in Nat \ {0} /\ MaxChanges \in Nat /\ MaxRestarts \in Nat

Sockets == Processes \X (1 .. MaxGen)
NoSocket == <<0, 0>>
IsLegacy(s) == s[1] \in Legacy

VARIABLES
    build,      \* EXPECTED_MCP_CONTRACT_REVISION of the deployed code
    rollout,    \* contractRolloutState, the same in memory and in storage
    snapshots,  \* revisions with a complete catalog snapshot in storage
    catalog,    \* activeMcpCatalog
    cutover,    \* v3CutoverComplete: no, in memory only, or stored
    sock,       \* the connector WebSockets
    telemetry,  \* the stored telemetry, without its counters and evidence
    wire,       \* requests each connector holds and has not answered
    phase,      \* where each request stands
    via,        \* the connector a request is bound to
    outcome,    \* what the client was answered
    changes, restarts,
    owed        \* history: the last connector was lost by a disconnect

requestVars == <<phase, via, outcome>>
rolloutVars == <<build, rollout, snapshots, catalog>>
bounds == <<changes, restarts>>
vars == <<rolloutVars, cutover, sock, telemetry, wire, requestVars, bounds, owed>>

Attachments ==
    [st : {"none", "open", "closing", "errored", "gone"}, ready : BOOLEAN,
     compat : BOOLEAN, recorded : BOOLEAN, rev : Maybe]
Fresh == [st |-> "none", ready |-> FALSE, compat |-> FALSE, recorded |-> FALSE, rev |-> None]

\* ready: readySince is set; gen and grace are 0 when undefined.
Telemetry == [ready : BOOLEAN, gen : 0 .. MaxGen, rev : Maybe, grace : 0 .. MaxGen]

Outcomes == {"none", "response", "too_large", "unavailable", "failed", "timeout",
             "aborted", "refused", "not_configured", "lost"}

TypeOK ==
    /\ build \in Revisions /\ rollout \in Rollouts
    /\ snapshots \subseteq Revisions /\ catalog \in Maybe
    /\ cutover \in {"no", "memory", "stored"}
    /\ sock \in [Sockets -> Attachments]
    /\ telemetry \in Telemetry
    /\ wire \in [Sockets -> SUBSET Requests]
    /\ phase \in [Requests -> {"idle", "reading", "routing", "waiting", "pending", "done"}]
    /\ via \in [Requests -> Sockets \cup {NoSocket}]
    /\ outcome \in [Requests -> Outcomes]
    /\ changes \in 0 .. MaxChanges /\ restarts \in 0 .. MaxRestarts
    /\ owed \in BOOLEAN

----------------------------------------------------------------------------
(* Selection of a connector *)

\* isPreferredConnectorRuntime: the later process; for the same start the greater
\* instance id; for the same process the later connection.
Preferred(s, t) ==
    \/ Started[s[1]] > Started[t[1]]
    \/ /\ Started[s[1]] = Started[t[1]]
       /\ s[1] > t[1] \/ (s[1] = t[1] /\ s[2] > t[2])

\* The connectors that selectReadyConnector may return from the set C. Preference is
\* only between connectors of protocol 3; of two others the first one listed wins,
\* and the order of getWebSockets is not specified.
Best(C) == {s \in C : \A t \in C : ~IsLegacy(s) => ~Preferred(t, s)}

\* Mutant: the connector that closes is not taken as open.
UsableOpen(sk, closing) == {s \in Sockets : sk[s].ready /\ sk[s].st = "open"}

Usable(sk, closing) ==
    {s \in Sockets : sk[s].ready /\ (sk[s].st = "open" \/ s = closing)}

\* getReadyConnectorForContractRevision.
ReadyFor(sk, rev) ==
    Best({s \in Usable(sk, NoSocket) : ~IsLegacy(s) /\ sk[s].rev = rev})

\* getExecutionReadyConnector(EDGE_PROTOCOL_VERSION), with the closing candidate.
Serving(sk, st, closing) ==
    Best({s \in Usable(sk, closing) :
            ~IsLegacy(s) /\ sk[s].compat /\ sk[s].rev = st.active})

\* getPreferredExecutionReadyConnector: legacy connectors only when no other serves.
Selection(sk, st, closing) ==
    LET v3 == Serving(sk, st, closing)
        v2 == Best({s \in Usable(sk, closing) : IsLegacy(s)})
    IN  IF v3 # {} THEN v3 ELSE IF v2 # {} THEN v2 ELSE {NoSocket}

\* Mutant: attachments are left as they were.
RefreshedNot(sk, st) == sk

\* refreshOpenConnectorContractCompatibility.
Refreshed(sk, st) ==
    [s \in Sockets |->
        IF sk[s].st \in {"none", "gone"} THEN sk[s]
        ELSE [sk[s] EXCEPT !.compat = IsLegacy(s) \/ Compatible(sk[s].rev, st)]]

----------------------------------------------------------------------------
(* Telemetry *)

Generation(sk, s) == IF sk[s].rev = None THEN 0 ELSE s[2]

\* applyReady.
TelemetryReady(sk, s) ==
    [ready |-> TRUE, gen |-> Generation(sk, s), rev |-> sk[s].rev, grace |-> 0]

\* The event "disconnected" of applyConnectorTelemetryEvent.
TelemetryDisconnected(tel, gen, wasReady) ==
    LET ends  == tel.ready /\ tel.gen \in {0, gen}
        grace == tel.ready /\ tel.gen # 0 /\ tel.gen = gen /\ wasReady
    IN  [ready |-> tel.ready /\ ~ends, gen |-> tel.gen, rev |-> tel.rev,
         grace |-> IF grace THEN gen ELSE tel.grace]

\* waitForExecutionReconnect finds a grace of the connection telemetry knows.
GraceStands == telemetry.grace # 0 /\ telemetry.grace = telemetry.gen

----------------------------------------------------------------------------
(* Start, restart and deployment *)

CatalogOf(st, snaps) == IF st.active \in snaps THEN st.active ELSE None

\* The constructor on a storage without rollout state: a new installation, or the
\* first build with rollouts, for which telemetry may know a running connector.
Init ==
    /\ build \in Revisions
    /\ \E seen \in Maybe :
         telemetry = [ready |-> seen # None, gen |-> IF seen = None THEN 0 ELSE 1,
                      rev |-> seen, grace |-> 0]
    /\ rollout = Reconcile(NoRollout, build, telemetry.rev)
    /\ snapshots = {build}
    /\ catalog = CatalogOf(rollout, snapshots)
    /\ cutover = "no"
    /\ sock = [s \in Sockets |-> Fresh]
    /\ wire = [s \in Sockets |-> {}]
    /\ phase = [r \in Requests |-> "idle"]
    /\ via = [r \in Requests |-> NoSocket]
    /\ outcome = [r \in Requests |-> "none"]
    /\ changes = 0 /\ restarts = 0 /\ owed = FALSE

\* The object is created anew, after a crash or with another build: WebSockets and
\* relays are lost without an event, an unflushed write may be lost, and the
\* constructor reconciles what is stored. (A wake from hibernation keeps the
\* WebSockets and their attachments; WakeRestores says that it changes nothing.)
Restart(b) ==
    /\ restarts < MaxRestarts
    /\ restarts' = restarts + 1
    /\ build' = b
    /\ snapshots' = snapshots \cup {b}
    /\ rollout' = Reconcile(rollout, b, telemetry.rev)
    /\ catalog' = CatalogOf(rollout', snapshots')
    /\ cutover' = IF cutover = "memory" THEN "no" ELSE cutover
    /\ sock' = [s \in Sockets |->
                  IF sock[s].st = "none" THEN Fresh ELSE [Fresh EXCEPT !.st = "gone"]]
    /\ wire' = [s \in Sockets |-> {}]
    /\ phase' = [r \in Requests |-> IF phase[r] = "idle" THEN "idle" ELSE "done"]
    /\ via' = [r \in Requests |-> NoSocket]
    /\ outcome' = [r \in Requests |->
                     IF phase[r] \in {"idle", "done"} THEN outcome[r] ELSE "lost"]
    /\ owed' = FALSE
    /\ UNCHANGED <<telemetry, changes>>

----------------------------------------------------------------------------
(* Connectors *)

\* handleConnectorUpgrade; protocol 2 is refused after the cutover.
Upgrade(s) ==
    /\ sock[s].st = "none"
    /\ \A t \in Sockets : t[1] = s[1] /\ t[2] < s[2] => sock[t].st # "none"
    /\ IsLegacy(s) => cutover = "no"
    /\ sock' = [sock EXCEPT ![s].st = "open"]
    /\ UNCHANGED <<rolloutVars, cutover, telemetry, wire, requestVars, bounds, owed>>

\* webSocketMessage, connector-ready. A connector says it once for a connection.
ConnectorReady(s) ==
    /\ sock[s].st = "open" /\ ~sock[s].ready
    /\ LET rev == IF IsLegacy(s) THEN None ELSE RevisionOf[s[1]]
       IN  sock' = [sock EXCEPT ![s] =
                      [st |-> "open", ready |-> TRUE, recorded |-> FALSE, rev |-> rev,
                       compat |-> IsLegacy(s) \/ Compatible(rev, rollout)]]
    /\ \E sel \in Selection(sock', rollout, NoSocket) :
         /\ telemetry' = IF sel = s THEN TelemetryReady(sock', s) ELSE telemetry
         /\ owed' = (owed /\ sel = NoSocket)
    /\ cutover' = IF IsLegacy(s) \/ cutover = "stored" THEN cutover ELSE "memory"
    /\ UNCHANGED <<rolloutVars, wire, requestVars, bounds>>

\* The write of edge:v3-cutover-complete, which nobody waits for, reaches the disk.
CutoverStored ==
    /\ cutover = "memory"
    /\ cutover' = "stored"
    /\ UNCHANGED <<rolloutVars, sock, telemetry, wire, requestVars, bounds, owed>>

\* The network or one of the ends gives the connection up, also after a message
\* that webSocketMessage does not accept; the event comes later.
Lose(s) ==
    /\ sock[s].st = "open"
    /\ sock' = [sock EXCEPT ![s].st = "closing"]
    /\ UNCHANGED <<rolloutVars, cutover, telemetry, wire, requestVars, bounds, owed>>

\* What stands for an answer when there is none: AGENT_UNAVAILABLE, or a plain 503.
NoAnswer(r) == IF r \in ToolCalls THEN "unavailable" ELSE "failed"

\* Mutant: pending requests are left to their timers.
FailPendingNone(s) == UNCHANGED requestVars

\* failPendingRequestsForConnector.
FailPending(s) ==
    LET mine == {r \in Requests : phase[r] = "pending" /\ via[r] = s}
    IN  /\ phase' = [r \in Requests |-> IF r \in mine THEN "done" ELSE phase[r]]
        /\ outcome' = [r \in Requests |-> IF r \notin mine THEN outcome[r]
                                             ELSE IF IsLegacy(s) THEN "failed" ELSE NoAnswer(r)]
        /\ UNCHANGED via

\* recordConnectorDisconnect. Whether s was selected is asked as if it were still
\* open; a connector that takes over is recorded as ready.
RecordDisconnect(s, sel, st) ==
    IF sock[s].recorded
    THEN sock' = [sock EXCEPT ![s].st = st] /\ UNCHANGED <<telemetry, owed>>
    ELSE /\ sock' = [sock EXCEPT ![s] = [st |-> st, ready |-> FALSE, recorded |-> TRUE,
                                         compat |-> @.compat, rev |-> @.rev]]
         /\ IF sel # s THEN UNCHANGED <<telemetry, owed>>
            ELSE \E next \in Selection(sock', rollout, NoSocket) :
                   /\ telemetry' =
                        IF next = NoSocket
                        THEN TelemetryDisconnected(telemetry, Generation(sock, s), sock[s].ready)
                        ELSE TelemetryReady(sock', next)
                   /\ owed' = (next = NoSocket /\ ~IsLegacy(s))

\* webSocketError; the connection is unusable, and its close event may still come.
SocketError(s) ==
    /\ sock[s].st \in {"open", "closing"}
    /\ \E sel \in Selection(sock, rollout, s) : RecordDisconnect(s, sel, "errored")
    /\ FailPending(s)
    /\ wire' = [wire EXCEPT ![s] = {}]
    /\ UNCHANGED <<rolloutVars, cutover, bounds>>

\* webSocketClose.
SocketClose(s) ==
    /\ sock[s].st \in {"closing", "errored"}
    /\ \E sel \in Selection(sock, rollout, s) : RecordDisconnect(s, sel, "gone")
    /\ FailPending(s)
    /\ wire' = [wire EXCEPT ![s] = {}]
    /\ UNCHANGED <<rolloutVars, cutover, bounds>>

----------------------------------------------------------------------------
(* Contract rollout *)

\* Mutant: readiness is not looked at.
FoundAny(rev) == rev

\* The revision of the ready connector that a promotion or rollback goes to, if any.
Found(rev) == IF ReadyFor(sock, rev) = {} THEN None ELSE rev

\* What promotion and rollback do once they have decided for the state st.
Install(st) ==
    /\ changes < MaxChanges
    /\ changes' = changes + 1
    /\ st.active \in snapshots
    /\ rollout' = st
    /\ catalog' = st.active
    /\ sock' = Refreshed(sock, st)
    /\ UNCHANGED <<build, snapshots, cutover, telemetry, wire, requestVars, restarts>>
    /\ owed' = FALSE

\* promoteContractRollout; the answers 400, 409, 503 and already-promoted change nothing.
Promote(active, candidate) ==
    /\ MayPromote(rollout, build, active, candidate, Found(candidate))
    /\ Install(Promoted(rollout, candidate))

\* rollbackContractRollout, likewise.
RollBack(active, previous) ==
    /\ MayRollBack(rollout, build, active, previous, Found(previous))
    /\ Install(RolledBack(active, previous))

----------------------------------------------------------------------------
(* Requests *)

Done(r, answer) ==
    /\ phase' = [phase EXCEPT ![r] = "done"]
    /\ outcome' = [outcome EXCEPT ![r] = answer]
    /\ via' = [via EXCEPT ![r] = NoSocket]

\* The pending entry is made and the envelope is sent.
Sent(r, s) ==
    /\ phase' = [phase EXCEPT ![r] = "pending"]
    /\ via' = [via EXCEPT ![r] = s]
    /\ wire' = [wire EXCEPT ![s] = @ \cup {r}]
    /\ UNCHANGED outcome

\* handleAllowedRequest up to its first wait.
Arrive(r) ==
    /\ phase[r] = "idle"
    /\ \E sel \in Selection(sock, rollout, NoSocket) :
         IF sel # NoSocket /\ IsLegacy(sel)
         THEN /\ phase' = [phase EXCEPT ![r] = "reading"]
              /\ via' = [via EXCEPT ![r] = sel]
              /\ UNCHANGED outcome
         ELSE IF catalog = None THEN Done(r, "not_configured")
         ELSE phase' = [phase EXCEPT ![r] = "routing"] /\ UNCHANGED <<via, outcome>>
    /\ UNCHANGED <<rolloutVars, cutover, sock, telemetry, wire, bounds, owed>>

\* relayLegacyRequest after request.text(): the connector chosen before the wait is
\* used. Sending on a connection that is going down may throw or not.
RelayLegacy(r) ==
    /\ phase[r] = "reading"
    /\ \/ /\ sock[via[r]].st \in {"open", "closing", "errored"}
          /\ Sent(r, via[r])
       \/ /\ sock[via[r]].st # "open"
          /\ Done(r, "failed") /\ UNCHANGED wire
       \/ Done(r, "refused") /\ UNCHANGED wire
    /\ UNCHANGED <<rolloutVars, cutover, sock, telemetry, bounds, owed>>

\* relayAuthenticatedRequest: the connector is selected, and used at once.
Relay(r) ==
    LET S == Serving(sock, rollout, NoSocket)
    IN  IF S = {} THEN Done(r, NoAnswer(r)) /\ UNCHANGED wire
        ELSE \E s \in S : \/ Sent(r, s)
                          \/ Done(r, NoAnswer(r)) /\ UNCHANGED wire

\* The control plane has authenticated the request, or answers it itself.
Routed(r) ==
    /\ phase[r] = "routing"
    /\ \/ Done(r, "refused") /\ UNCHANGED wire
       \/ Relay(r)
       \/ /\ r \in ToolCalls /\ Serving(sock, rollout, NoSocket) = {} /\ GraceStands
          /\ phase' = [phase EXCEPT ![r] = "waiting"]
          /\ UNCHANGED <<via, outcome, wire>>
    /\ UNCHANGED <<rolloutVars, cutover, sock, telemetry, bounds, owed>>

\* A poll of waitForExecutionReconnect that ends it: a connector is there, or the
\* deadline is past.
WaitEnds(r) ==
    /\ phase[r] = "waiting"
    /\ Relay(r)
    /\ UNCHANGED <<rolloutVars, cutover, sock, telemetry, bounds, owed>>

\* webSocketMessage, http-response: answers the request if it is still pending.
Respond(s, r) ==
    /\ sock[s].st \in {"open", "closing"}
    /\ r \in wire[s]
    /\ wire' = [wire EXCEPT ![s] = @ \ {r}]
    /\ \/ phase[r] = "pending" /\ \E a \in {"response", "too_large"} : Done(r, a)
       \/ phase[r] # "pending" /\ UNCHANGED requestVars
    /\ UNCHANGED <<rolloutVars, cutover, sock, telemetry, bounds, owed>>

\* Mutant: nothing is done for a connector that is no longer open.
GiveUpOpen(r) ==
    /\ phase[r] = "pending"
    /\ sock[via[r]].st = "open"
    /\ \E a \in {"timeout", "aborted"} : Done(r, a)
    /\ UNCHANGED <<rolloutVars, cutover, sock, telemetry, wire, bounds, owed>>

\* The relay timeout, or the client goes away; the connector is told to cancel, and
\* what it may still answer comes too late.
GiveUp(r) ==
    /\ phase[r] = "pending"
    /\ \E a \in {"timeout", "aborted"} : Done(r, a)
    /\ UNCHANGED <<rolloutVars, cutover, sock, telemetry, wire, bounds, owed>>

----------------------------------------------------------------------------

Next ==
    \/ \E b \in Revisions : Restart(b)
    \/ \E s \in Sockets : \/ Upgrade(s) \/ ConnectorReady(s) \/ Lose(s)
                          \/ SocketError(s) \/ SocketClose(s)
                          \/ \E r \in Requests : Respond(s, r)
    \/ CutoverStored
    \/ \E a, b \in Revisions : Promote(a, b) \/ RollBack(a, b)
    \/ \E r \in Requests : Arrive(r) \/ RelayLegacy(r) \/ Routed(r) \/ WaitEnds(r) \/ GiveUp(r)

Spec == Init /\ [][Next]_vars

\* Bodies are read and tokens are checked in bounded time, delays end, and every
\* pending entry has its timer; no event of a connector is assumed.
Fairness ==
    \A r \in Requests : /\ WF_vars(RelayLegacy(r)) /\ WF_vars(Routed(r))
                        /\ WF_vars(WaitEnds(r)) /\ WF_vars(GiveUp(r))

FairSpec == Spec /\ Fairness

----------------------------------------------------------------------------
(* Properties *)

\* What the constructor would compute again from storage, when the object wakes from
\* hibernation with the same build, is what it holds: the stored rollout state is
\* one that isMcpContractRolloutState accepts, and the catalog is the active one.
WakeRestores ==
    /\ IsRolloutState(rollout)
    /\ Reconcile(rollout, build, telemetry.rev) = rollout
    /\ catalog = CatalogOf(rollout, snapshots)

\* contractCompatible, computed once when a connector was ready and kept in its
\* attachment, is what isConnectorContractCompatible would say of it now, across
\* promotions and rollbacks.
CompatibilityFresh ==
    \A s \in Sockets :
        sock[s].st \in {"open", "closing", "errored"} /\ sock[s].rev # None
            => sock[s].compat = Compatible(sock[s].rev, rollout)

\* Connections that were never opened, and those of protocol 2, have no identity.
Unidentified ==
    \A s \in Sockets : sock[s].st = "none" \/ IsLegacy(s) => sock[s].rev = None

\* The inductive invariant of the rollout: what the session holds about contracts
\* agrees with what is stored, on every connection there is or will be.
Inv == TypeOK /\ Unidentified /\ WakeRestores /\ CompatibilityFresh

\* A request pending on a connector of protocol 3 is held by that connector over a
\* connection whose end has not been handled: an answer, or an event that fails the
\* request, can still come before the timeout.
PendingIsLive ==
    \A r \in Requests :
        phase[r] = "pending" /\ ~IsLegacy(via[r])
            => sock[via[r]].st \in {"open", "closing"} /\ r \in wire[via[r]]

Settled == \A s \in Sockets : sock[s].st = "closing" => ~sock[s].ready

\* When the connector that served was lost by a disconnect, and no other disconnect
\* waits to be handled, waitForExecutionReconnect finds a grace: tool calls wait for
\* the connector instead of being answered AGENT_UNAVAILABLE at once.
GraceCoversLoss == owed /\ Settled => GraceStands

\* As long as nothing was promoted or rolled back, the grace covers the loss, in
\* whatever order the close events of old and new connections are handled; unless a
\* connector of protocol 2 took over meanwhile, which telemetry records without a
\* generation.
GraceUnlessChanged == changes = 0 /\ telemetry.gen # 0 => GraceCoversLoss

\* The active revision changes only to one whose catalog is stored and that a
\* connector serves at that moment: no deployment, restart, promotion or rollback
\* switches clients to a contract that nobody can execute.
ActiveChangeIsServed ==
    [][rollout'.active # rollout.active
         => catalog' = rollout'.active /\ Serving(sock', rollout', NoSocket) # {}]_vars

\* Every request that came in is answered, whatever connectors do: it waits for a
\* body, a token, a reconnect grace and an answer, each of which ends.
EveryRequestAnswered == \A r \in Requests : phase[r] # "idle" ~> phase[r] = "done"
=============================================================================
