------------------------------- MODULE McpGateway -------------------------------
(***************************************************************************)
(* The gateway's MCP endpoint: what POST, GET and DELETE do with the       *)
(* operation registry and with the sessions of the stateful experiment,    *)
(* and where their requests come from: an HTTP client that authenticates   *)
(* with a token (front "direct"), or the connector of the edge in the same *)
(* process (front "edge", EdgeConnector).                                  *)
(*                                                                         *)
(* A step is what runs between two waits for I/O.  A session is named by   *)
(* the request that created it.  at says where the handler of a request    *)
(* stands:                                                                 *)
(*   idle        not arrived                                               *)
(*   auth        its token is being verified                               *)
(*   fast        its browser operation runs on the fast path               *)
(*   dispatched  in handleRequest of its MCP transport                     *)
(*   stream      a GET that streams                                        *)
(*   done        answered                                                  *)
(***************************************************************************)
EXTENDS EdgeConnector, OperationRegistry

CONSTANTS
    Ids,          \* JSON-RPC ids
    Setups,       \* what a behaviour starts from: front, mode, and the requests' bodies
    MaxSessions   \* mcpStatefulMaxSessions

ASSUME GatewayBounds == MaxSessions \in Nat

\* The ids of the calls are ids, and a session header, when there is one, names a request.
ASSUME SetupsAssumption ==
    /\ None \notin Requests
    /\ \A s \in Setups : \A r \in Requests :
          s.bodies[r].calls \subseteq Ids /\ s.bodies[r].header \in Requests \cup {None}

VARIABLES
    setup,      \* one of Setups
    at,         \* where the handler of each request stands
    op,         \* each call: none, waiting, running, refused (never begun), over
    signalled,  \* requests whose abort signal is set
    unseen,     \* requests whose client left while nobody listened
    sess,       \* statefulSessions: none, new (not initialized), open, closed
    creations,  \* statefulSessionCreations
    users,      \* activeRequests of each session
    closed,     \* gatewayClosed
    due         \* history: calls in progress that their client has cancelled

handlerVars == <<at, op, signalled, unseen>>
sessionVars == <<sess, creations, users, closed>>
vars == <<connectorVars, registryVars, setup, handlerVars, sessionVars, due>>

Calls == Requests \X Ids

Body(r) == setup.bodies[r]
Stateful == setup.mode = "stateful-experiment"
CallsOf(r) == {<<r, i>> : i \in Body(r).calls}

TypeOK ==
    /\ at \in [Requests -> {"idle", "auth", "fast", "dispatched", "stream", "done"}]
    /\ op \in [Calls -> {"none", "waiting", "running", "refused", "over"}]
    /\ signalled \subseteq Requests /\ unseen \subseteq Requests
    /\ sess \in [Requests -> {"none", "new", "open", "closed"}]
    /\ creations \in Nat /\ users \in [Requests -> Nat]
    /\ stopped \subseteq Calls /\ due \subseteq Calls

Init ==
    /\ ConnectorInit
    /\ RegistryInit
    /\ setup \in Setups
    /\ at = [r \in Requests |-> "idle"]
    /\ op = [c \in Calls |-> "none"]
    /\ signalled = {} /\ unseen = {}
    /\ sess = [r \in Requests |-> "none"]
    /\ creations = 0
    /\ users = [r \in Requests |-> 0]
    /\ closed = FALSE
    /\ due = {}

PrincipalKey(r) == createMcpPrincipalKey(Body(r), Stateful)
OperationScope(r) == createMcpOperationScopeKey(Body(r), PrincipalKey(r), r)
CancellationScope(r) == createMcpCancellationScopeKey(Body(r), PrincipalKey(r))

-----------------------------------------------------------------------------
(***************************************************************************)
(* Sessions                                                                *)
(***************************************************************************)
\* The session that a request uses: the one its header names, or the one it creates.
Creates(r) == Body(r).init /\ Body(r).header = None
SessionOf(r) == IF Creates(r) THEN r ELSE Body(r).header
UsesSession(r) == Stateful /\ SessionOf(r) # None

\* The header names a session of this principal.
Found(r) ==
    LET s == Body(r).header IN sess[s] = "open" /\ PrincipalKey(s) = PrincipalKey(r)

HasCapacity ==
    ~closed /\ Cardinality({s \in Requests : sess[s] = "open"}) + creations < MaxSessions

\* Mutant: a session that is closed before it is initialized keeps its place.
CloseSessionsKeepingCapacity(S) ==
    /\ sess' = [s \in Requests |-> IF s \in S THEN "closed" ELSE sess[s]]
    /\ UNCHANGED creations

\* closeExperimentalMcpSession
CloseSessions(S) ==
    /\ sess' = [s \in Requests |-> IF s \in S THEN "closed" ELSE sess[s]]
    /\ creations' = creations - Cardinality({s \in S : sess[s] = "new"})

-----------------------------------------------------------------------------
(***************************************************************************)
(* POST                                                                    *)
(***************************************************************************)
CancellationOnly(r) == Body(r).calls = {} /\ Body(r).cancels # {}

InProgress(r) == at[r] \in {"fast", "dispatched"}

\* What two requests must share to be of one client: all that the gateway reads of them.
SameClient(q, r) ==
    \A f \in {"identity", "chat", "header", "address"} : Body(q)[f] = Body(r)[f]

\* History: the calls that the cancellations of r mean: those of its own body, and those of
\* the client that a transport has been handed or the fast path runs.  A call whose token is
\* still being verified (Verify) is not among them: the gateway has not read it.
Meant(r) ==
    {c \in Calls : /\ c[2] \in Body(r).cancels
                   /\ SameClient(c[1], r)
                   /\ \/ c \in CallsOf(r)
                      \/ InProgress(c[1]) /\ op[c] \in {"waiting", "running"}}

Answer(r) == at' = [at EXCEPT ![r] = "done"]

\* Session not found (404), or a cancellation without a session (400).
PostRefused(r) ==
    /\ Stateful
    /\ \/ Body(r).header # None /\ ~Found(r)
       \/ Body(r).header = None /\ CancellationOnly(r)
    /\ Answer(r)
    /\ UNCHANGED <<registryVars, op, signalled, unseen, sessionVars, due>>

PostAccepted(r) == Stateful /\ Body(r).header # None => Found(r)

\* A body of cancellations for a session ends here (202).
PostCancels(r) ==
    /\ Stateful /\ CancellationOnly(r)
    /\ Body(r).header # None /\ Found(r)
    /\ RegisterAndCancel(CancellationScope(r), r, {}, Body(r).cancels)
    /\ due' = due \cup Meant(r)
    /\ Answer(r)
    /\ UNCHANGED <<active, cancellationTargets, op, signalled, unseen, sessionVars>>

\* The fast path begins its operation at once; one whose id is active is answered with
\* the error.
PostFast(r) ==
    /\ Body(r).fast /\ PostAccepted(r)
    /\ \E c \in CallsOf(r) :
         \/ /\ Begin(OperationScope(r), CancellationScope(r), c, FALSE)
            /\ op' = [op EXCEPT ![c] = "running"]
            /\ at' = [at EXCEPT ![r] = "fast"]
         \/ /\ Duplicate(OperationScope(r), c)
            /\ op' = [op EXCEPT ![c] = "refused"]
            /\ Answer(r)
            /\ UNCHANGED registryVars
    /\ UNCHANGED <<signalled, unseen, sessionVars, due>>

\* Everything else goes to an MCP transport: the one of its session, or one of its own.
Dispatch(r) ==
    /\ RegisterAndCancel(CancellationScope(r), r, Body(r).calls, Body(r).cancels)
    /\ op' = [c \in Calls |-> IF c \in CallsOf(r) THEN "waiting" ELSE op[c]]
    /\ at' = [at EXCEPT ![r] = "dispatched"]
    /\ due' = due \cup Meant(r)
    /\ UNCHANGED <<active, cancellationTargets, signalled, unseen>>

PostDispatched(r) ==
    /\ ~Body(r).fast /\ ~Creates(r) /\ PostAccepted(r)
    /\ ~(Stateful /\ CancellationOnly(r))
    /\ Dispatch(r)
    /\ users' = IF UsesSession(r) THEN [users EXCEPT ![SessionOf(r)] = @ + 1] ELSE users
    /\ UNCHANGED <<sess, creations, closed>>

\* initialize creates a session when there is room for one, else it is answered with 503.
PostInitializes(r) ==
    /\ Creates(r)
    /\ \/ /\ ~Stateful
          /\ Dispatch(r)
          /\ UNCHANGED sessionVars
       \/ /\ Stateful /\ HasCapacity
          /\ Dispatch(r)
          /\ sess' = [sess EXCEPT ![r] = "new"]
          /\ creations' = creations + 1
          /\ users' = [users EXCEPT ![r] = 1]
          /\ UNCHANGED closed
       \/ /\ Stateful /\ ~HasCapacity
          /\ Answer(r)
          /\ UNCHANGED <<registryVars, op, signalled, unseen, sessionVars, due>>

\* GET and DELETE are for sessions only, and use the session while the transport handles them.
GetOrDelete(r) ==
    /\ \/ /\ ~(Stateful /\ Body(r).header # None /\ Found(r))
          /\ Answer(r)
          /\ UNCHANGED sessionVars
       \/ /\ Stateful /\ Body(r).header # None /\ Found(r)
          /\ at' = [at EXCEPT ![r] = "stream"]
          /\ users' = [users EXCEPT ![Body(r).header] = @ + 1]
          /\ UNCHANGED <<sess, creations, closed>>
    /\ UNCHANGED <<registryVars, op, signalled, unseen, due>>

-----------------------------------------------------------------------------
(***************************************************************************)
(* From the arrival of a request to its handler.                           *)
(***************************************************************************)
Arrived(r) == at[r] = "idle" /\ http[r] \in {"sent", "aborted"}

\* The connector's requests are trusted by an assertion that is checked at once.
Trusted(r) == setup.front = "edge" /\ Arrived(r)

\* A token is verified, which may take a wait: a client that leaves meanwhile is not
\* noticed, because the handler that would listen has not been called.
Verify(r) ==
    /\ setup.front = "direct" /\ Arrived(r)
    /\ at' = [at EXCEPT ![r] = "auth"]
    /\ UNCHANGED <<connectorVars, registryVars, setup, op, signalled, unseen, sessionVars, due>>

LeavesUnseen(r) ==
    /\ at[r] = "auth" /\ http[r] = "aborted" /\ r \notin unseen
    /\ unseen' = unseen \cup {r}
    /\ UNCHANGED <<connectorVars, registryVars, setup, at, op, signalled, sessionVars, due>>

Verified(r) == at[r] = "auth"

\* What runs without a wait once the request is admitted.
Handle(r) ==
    /\ Trusted(r) \/ Verified(r)
    /\ \/ Body(r).method = "POST" /\ (PostRefused(r) \/ PostCancels(r) \/ PostFast(r)
                                      \/ PostDispatched(r) \/ PostInitializes(r))
       \/ Body(r).method # "POST" /\ GetOrDelete(r)
    /\ UNCHANGED <<connectorVars, setup>>

Rejected(r) ==
    /\ at[r] = "auth"
    /\ Answer(r)
    /\ UNCHANGED <<connectorVars, registryVars, setup, op, signalled, unseen, sessionVars, due>>

-----------------------------------------------------------------------------
(***************************************************************************)
(* Tool calls inside handleRequest, and operations.                        *)
(***************************************************************************)
BeginCall(c) ==
    /\ at[c[1]] = "dispatched" /\ op[c] = "waiting"
    /\ Begin(OperationScope(c[1]), CancellationScope(c[1]), c, c[1] \in signalled)
    /\ op' = [op EXCEPT ![c] = "running"]
    /\ UNCHANGED <<connectorVars, setup, at, signalled, unseen, sessionVars, due>>

\* The id is active, or the tool is unknown, its input invalid, its scope missing.
NeverBegins(c) ==
    /\ at[c[1]] = "dispatched" /\ op[c] = "waiting"
    /\ op' = [op EXCEPT ![c] = "refused"]
    /\ due' = due \ {c}
    /\ UNCHANGED <<connectorVars, registryVars, setup, at, signalled, unseen, sessionVars>>

\* withToolOperationContext: the operation settles and its lease is released; the fast
\* path answers.
OperationEnds(c) ==
    /\ op[c] = "running"
    /\ Release(c)
    /\ op' = [op EXCEPT ![c] = "over"]
    /\ stopped' = stopped \ {c}
    /\ due' = due \ {c}
    /\ at' = [at EXCEPT ![c[1]] = IF @ = "fast" THEN "done" ELSE @]
    /\ UNCHANGED <<connectorVars, pending, setup, signalled, unseen, sessionVars>>

\* onsessioninitialized: a session that was closed meanwhile stays closed.
Initialized(r) ==
    /\ at[r] = "dispatched" /\ sess[r] = "new"
    /\ sess' = [sess EXCEPT ![r] = "open"]
    /\ creations' = creations - 1
    /\ UNCHANGED <<connectorVars, registryVars, setup, handlerVars, users, closed, due>>

\* handleRequest has returned, and the finally blocks run: a session that this request
\* created and that was not initialized is closed.
Return(r) ==
    /\ at[r] = "dispatched"
    /\ \A c \in CallsOf(r) : op[c] \in {"refused", "over"}
    /\ pending' = Unregistered(r)
    /\ Answer(r)
    /\ users' = IF UsesSession(r) THEN [users EXCEPT ![SessionOf(r)] = @ - 1] ELSE users
    /\ CloseSessions({s \in {r} : sess[s] = "new"})
    /\ UNCHANGED <<connectorVars, active, cancellationTargets, stopped, setup, op, signalled,
                   unseen, closed, due>>

Deletes(r) == Body(r).method = "DELETE"

\* onsessionclosed: the transport ends the session while it handles a DELETE.
SessionDeleted(r) ==
    /\ at[r] = "stream" /\ Deletes(r) /\ sess[Body(r).header] = "open"
    /\ CloseSessions({Body(r).header})
    /\ UNCHANGED <<connectorVars, registryVars, setup, handlerVars, users, closed, due>>

\* handleRequest of a GET or a DELETE has returned or thrown; after a DELETE the session is
\* closed whatever the transport did.
StreamEnds(r) ==
    /\ at[r] = "stream"
    /\ Answer(r)
    /\ users' = [users EXCEPT ![Body(r).header] = @ - 1]
    /\ CloseSessions({s \in {Body(r).header} : Deletes(r)})
    /\ UNCHANGED <<connectorVars, registryVars, setup, op, signalled, unseen, closed, due>>

\* The client's side of the connection has closed before the answer: the request's signal
\* is aborted, and with it the contexts of its operations.
Notice(r) ==
    /\ InProgress(r) /\ http[r] = "aborted" /\ r \notin signalled \cup unseen
    /\ signalled' = signalled \cup {r}
    /\ stopped' = stopped \cup {c \in CallsOf(r) : op[c] = "running"}
    /\ UNCHANGED <<connectorVars, active, cancellationTargets, pending, setup, at, op, unseen,
                   sessionVars, due>>

\* Closing the MCP server of a session may abort the calls that it is handling.
SdkAborts(c) ==
    /\ op[c] = "running" /\ at[c[1]] = "dispatched" /\ c \notin stopped
    /\ UsesSession(c[1]) /\ sess[SessionOf(c[1])] = "closed"
    /\ stopped' = stopped \cup {c}
    /\ UNCHANGED <<connectorVars, active, cancellationTargets, pending, setup, handlerVars,
                   sessionVars, due>>

-----------------------------------------------------------------------------
\* The expiry timer: a session with a request in progress is used until it ends.
Expire(s) ==
    /\ sess[s] = "open" /\ users[s] = 0
    /\ CloseSessions({s})
    /\ UNCHANGED <<connectorVars, registryVars, setup, handlerVars, users, closed, due>>

\* close of the gateway; beside a connector, after the connector has ended.
Close ==
    /\ ~closed
    /\ setup.front = "edge" => conn = "ended"
    /\ closed' = TRUE
    /\ CloseSessions({s \in Requests : sess[s] \in {"new", "open"}})
    /\ UNCHANGED <<connectorVars, registryVars, setup, handlerVars, users, due>>

-----------------------------------------------------------------------------
(***************************************************************************)
(* Where requests come from.  A session id is known once the session is    *)
(* initialized.                                                            *)
(***************************************************************************)
Sendable(r) ==
    /\ Body(r).method # "none"
    /\ Stateful /\ Body(r).header # None => sess[Body(r).header] \in {"open", "closed"}

gatewayVars == <<registryVars, setup, handlerVars, sessionVars, due>>

FromEdge(r) == /\ setup.front = "edge"
               /\ MessageStep(r) /\ (taken[r] = 0 => Sendable(r))
               /\ UNCHANGED gatewayVars

Connection == setup.front = "edge" /\ ConnectionStep /\ UNCHANGED gatewayVars

Answered(r) == Settle(r, at[r] = "done") /\ UNCHANGED gatewayVars

\* A client of its own: it sends, leaves, or gets the answer.
Client(r) ==
    /\ setup.front = "direct"
    /\ \/ http[r] = "none" /\ Sendable(r) /\ http' = [http EXCEPT ![r] = "sent"]
       \/ http[r] = "sent" /\ at[r] # "done" /\ http' = [http EXCEPT ![r] = "aborted"]
       \/ http[r] = "sent" /\ at[r] = "done" /\ http' = [http EXCEPT ![r] = "over"]
    /\ UNCHANGED <<conn, protocolReady, quitting, generation, activeRequests, taken>>
    /\ UNCHANGED gatewayVars

HandlerStep(r) ==
    \/ Verify(r) \/ LeavesUnseen(r) \/ Handle(r) \/ Rejected(r)
    \/ Initialized(r) \/ Return(r) \/ SessionDeleted(r) \/ StreamEnds(r) \/ Notice(r)

CallStep(c) == BeginCall(c) \/ NeverBegins(c) \/ OperationEnds(c) \/ SdkAborts(c)

Next ==
    \/ Connection
    \/ \E r \in Requests : FromEdge(r) \/ Answered(r) \/ Client(r) \/ HandlerStep(r) \/ Expire(r)
    \/ \E c \in Calls : CallStep(c)
    \/ Close

Spec == Init /\ [][Next]_vars

-----------------------------------------------------------------------------
(***************************************************************************)
(* Properties                                                              *)
(***************************************************************************)
\* A cancellation is not lost: when a client has cancelled a call of its own that had been
\* handed to a transport or was running on the fast path, before or after the operation of
\* the call began, the operation does not run on with a context that is not aborted
\* (registerPending, begin, cancel).  A call whose token is still being verified when the
\* cancellation is handled is outside: no scope holds it yet.
CancelIsHeard == \A c \in due : op[c] = "running" => c \in stopped

\* Nothing is left behind: the registry holds exactly the operations that run and the
\* calls that have not begun, the count of sessions being created is exact and the
\* limit kept, and every session knows how many requests use it.
NothingLeftBehind ==
    /\ {a.call : a \in active} = {c \in Calls : op[c] = "running"}
    /\ {t.call : t \in cancellationTargets} = {c \in Calls : op[c] = "running"}
    /\ {e.call : e \in pending} =
          {c \in Calls : at[c[1]] = "dispatched" /\ op[c] \in {"waiting", "refused"}}
    /\ creations = Cardinality({s \in Requests : sess[s] = "new"})
    /\ Cardinality({s \in Requests : sess[s] \in {"new", "open"}}) <= MaxSessions
    /\ \A s \in Requests : users[s] =
          Cardinality({r \in Requests : at[r] \in {"dispatched", "stream"}
                                        /\ UsesSession(r) /\ SessionOf(r) = s})

(***************************************************************************)
(* Liveness: a closing connection closes, the gateway hears of clients that *)
(* left, and operations whose context is aborted settle.                   *)
(***************************************************************************)
Fairness ==
    /\ WF_vars(conn = "closing" /\ Closed /\ UNCHANGED gatewayVars)
    /\ \A r \in Requests : WF_vars(Notice(r))
    /\ \A c \in Calls : WF_vars(c \in stopped /\ OperationEnds(c))

FairSpec == Spec /\ Fairness

\* Nobody waits for the answer: the client has left, or the connection that brought the
\* request is gone.
Abandoned(r) ==
    \/ http[r] = "aborted"
    \/ taken[r] # 0 /\ (taken[r] < generation \/ conn \in {"closing", "waiting", "ended"})

\* An operation that nobody waits for ends, whenever its client left and whether or not
\* it had begun; except for a client that left while its token was verified.
AbandonedEnds ==
    \A r \in Requests :
        Abandoned(r) /\ r \notin unseen ~> \A c \in CallsOf(r) : op[c] # "running"
=============================================================================
