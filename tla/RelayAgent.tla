------------------------------- MODULE RelayAgent -------------------------------
(***************************************************************************)
(* The agent's end of the relay: AgentConnection (one connection at a time, *)
(* redialled after it closed), AgentRequestExecutor (the active requests,   *)
(* their watchdogs, cancellation) and SynchronousShellConcurrency (one      *)
(* synchronous shell per workspace, MaxShells in all).                      *)
(***************************************************************************)
EXTENDS RelayWire, FiniteSets

CONSTANTS
    ShellCalls,    \* the calls whose operation is runCommand
    Workspaces,    \* canonical workspace keys
    WorkspaceOf,   \* resolveWorkspaceConcurrencyKey of a call's input
    MaxShells,     \* maxConcurrentSynchronousShells
    Builds,        \* the agent builds in an instance: TRUE if the capabilities match
    RespKinds,     \* the kinds of response operations produce in an instance
    Free           \* activeByWorkspace has no entry

ASSUME ShellAssumption ==
    /\ ShellCalls \subseteq Calls
    /\ WorkspaceOf \in [Calls -> Workspaces]
    /\ MaxShells \in Nat \ {0}
    /\ RespKinds \subseteq AllKinds
    /\ Builds \subseteq BOOLEAN
    /\ Free \notin Requests

VARIABLES
    stopped,     \* stopped
    exec,        \* activeRequests: running, or aborting once its signal fired
    execGen,     \* the connection the request arrived on
    lease,       \* activeByWorkspace
    starts,      \* history: how often the operation of a request was started
    okDone,      \* history: the requests whose operation returned a result
    denied       \* history: the requests of which the agent said not_started

agentVars == <<stopped, exec, execGen, lease, starts, okDone, denied>>

AgentTypeOK ==
    /\ stopped \in BOOLEAN
    /\ exec \in [Requests -> {"none", "running", "aborting"}]
    /\ execGen \in [Requests -> 0..MaxGen]
    /\ lease \in [Workspaces -> Requests \cup {Free}]
    /\ starts \in [Requests -> Nat]
    /\ okDone \subseteq Requests
    /\ denied \subseteq Requests

AgentInit ==
    /\ stopped = FALSE
    /\ exec = [r \in Requests |-> "none"]
    /\ execGen = [r \in Requests |-> 0]
    /\ lease = [w \in Workspaces |-> Free]
    /\ starts = [r \in Requests |-> 0]
    /\ okDone = {}
    /\ denied = {}

Active == {r \in Requests : exec[r] # "none"}
IsShell(r) == r[1] \in ShellCalls
Held == {w \in Workspaces : lease[w] # Free}

AbortAll == [r \in Requests |-> IF exec[r] = "running" THEN "aborting" ELSE exec[r]]

\* handleMessage answers only on a connection that is still open.
Respond(g, r, k) ==
    IF agEnd[g] = "open"
    THEN toGateway' = Put(toGateway, g, gwEnd[g],
                          [type |-> "response", req |-> r, kind |-> k])
    ELSE UNCHANGED toGateway


-----------------------------------------------------------------------------
(***************************************************************************)
(* AgentConnection                                                         *)
(***************************************************************************)
\* run: connectOnce is called again once the previous connection has closed.
CanDial ==
    /\ ~stopped
    /\ \A g \in Gens : agEnd[g] \in {"none", "closed"}

\* The upgrade is complete: the agent sends its hello.  An agent of another
\* build has other capabilities.
Open(g) ==
    /\ agEnd[g] = "connecting"
    /\ agEnd' = [agEnd EXCEPT ![g] = "open"]
    /\ \E b \in Builds :
         toGateway' = Put(toGateway, g, gwEnd[g], [type |-> "hello", compatible |-> b])
    /\ UNCHANGED <<agentVars, gwEnd, toAgent>>

\* The 'close' handler: abortAll, then connectOnce resolves.
AgentOnClose(g) ==
    /\ agEnd[g] = "closing"
    /\ agEnd' = [agEnd EXCEPT ![g] = "closed"]
    /\ toAgent' = Drop(toAgent, g)
    /\ exec' = AbortAll
    /\ UNCHANGED <<stopped, execGen, lease, starts, okDone, denied, gwEnd,
                   toGateway>>

Stop ==
    /\ ~stopped
    /\ stopped' = TRUE
    /\ exec' = AbortAll
    /\ agEnd' = [g \in Gens |-> IF agEnd[g] \in {"connecting", "open"}
                                THEN "closing" ELSE agEnd[g]]
    /\ UNCHANGED <<execGen, lease, starts, okDone, denied, gwEnd, toAgent, toGateway>>

\* The agent process dies and a fresh one takes its place.
Crash ==
    /\ \E g \in Gens : agEnd[g] \notin {"none", "closed"}
    /\ agEnd' = [g \in Gens |-> IF agEnd[g] = "none" THEN "none" ELSE "closed"]
    /\ toAgent' = [g \in Gens |-> <<>>]
    /\ stopped' = FALSE
    /\ exec' = [r \in Requests |-> "none"]
    /\ execGen' = [r \in Requests |-> 0]
    /\ lease' = [w \in Workspaces |-> Free]
    /\ UNCHANGED <<starts, okDone, denied, gwEnd, toGateway>>

(***************************************************************************)
(* AgentRequestExecutor                                                    *)
(***************************************************************************)
Deliver(g, type) ==
    /\ Receiving(agEnd[g]) /\ toAgent[g] # <<>>
    /\ Head(toAgent[g]).type = type
    /\ toAgent' = [toAgent EXCEPT ![g] = Tail(@)]
    /\ UNCHANGED <<gwEnd, agEnd>>

\* SynchronousShellConcurrency.acquire would throw AGENT_BUSY.
ShellBusy(r) == \/ lease[WorkspaceOf[r[1]]] # Free
                \/ Cardinality(Held) >= MaxShells

\* execute returns at once: the deadline has expired, or the shell is busy.
RefuseRequest(g) ==
    /\ Deliver(g, "request")
    /\ Respond(g, Head(toAgent[g]).req, "error")
    /\ UNCHANGED agentVars

StartRequest(g) ==
    /\ Deliver(g, "request")
    /\ LET r == Head(toAgent[g]).req IN
         /\ IsShell(r) => ~ShellBusy(r)
         /\ exec' = [exec EXCEPT ![r] = "running"]
         /\ execGen' = [execGen EXCEPT ![r] = g]
         /\ starts' = [starts EXCEPT ![r] = @ + 1]
         /\ lease' = IF IsShell(r) THEN [lease EXCEPT ![WorkspaceOf[r[1]]] = r]
                                   ELSE lease
    /\ UNCHANGED <<stopped, okDone, denied, toGateway>>

CancelRequest(g) ==
    /\ Deliver(g, "cancel")
    /\ LET r == Head(toAgent[g]).req IN
         exec' = [exec EXCEPT ![r] = IF @ = "running" THEN "aborting" ELSE @]
    /\ UNCHANGED <<stopped, execGen, lease, starts, okDone, denied, toGateway>>

\* Mutant: the watchdog only guards requests whose connection is gone.
AgentWatchdogLate(r) ==
    /\ exec[r] = "running"
    /\ agEnd[execGen[r]] # "open"
    /\ exec' = [exec EXCEPT ![r] = "aborting"]
    /\ UNCHANGED <<stopped, execGen, lease, starts, okDone, denied, wireVars>>

AgentWatchdog(r) ==
    /\ exec[r] = "running"
    /\ exec' = [exec EXCEPT ![r] = "aborting"]
    /\ UNCHANGED <<stopped, execGen, lease, starts, okDone, denied, wireVars>>

\* Mutant: the finally block does not release the lease.
ReleasedNever(r) == lease

\* release() of a lease that a later request holds by now does nothing.
Released(r) ==
    IF IsShell(r) /\ lease[WorkspaceOf[r[1]]] = r
    THEN [lease EXCEPT ![WorkspaceOf[r[1]]] = Free] ELSE lease

\* dispatchRelayRequest settles: the finally block, then the response.
\* Only the GitHub clients say not_started: a query to GitHub failed, and with it
\* the operation, before anything was changed there.
FinishRequest(r, k) ==
    /\ exec[r] # "none"
    /\ k = "notStarted" => ~IsShell(r)
    /\ exec' = [exec EXCEPT ![r] = "none"]
    /\ execGen' = [execGen EXCEPT ![r] = 0]
    /\ lease' = Released(r)
    /\ okDone' = IF k = "ok" THEN okDone \cup {r} ELSE okDone
    /\ denied' = IF k = "notStarted" THEN denied \cup {r} ELSE denied
    /\ Respond(execGen[r], r, k)
    /\ UNCHANGED <<stopped, starts, gwEnd, agEnd, toAgent>>

-----------------------------------------------------------------------------
ExecutorStep(g) == RefuseRequest(g) \/ StartRequest(g) \/ CancelRequest(g)

AgentNext ==
    \/ Stop \/ Crash
    \/ \E g \in Gens : Open(g) \/ AgentOnClose(g) \/ ExecutorStep(g)
    \/ \E r \in Requests : AgentWatchdog(r) \/ \E k \in RespKinds : FinishRequest(r, k)
=============================================================================
