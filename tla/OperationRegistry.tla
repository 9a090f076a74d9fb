---------------------------- MODULE OperationRegistry ----------------------------
(***************************************************************************)
(* McpOperationRegistry of the gateway: the operations of tool calls that  *)
(* are running, those that are announced and not yet begun, and the        *)
(* cancellations that must reach either.  A call is named by its HTTP      *)
(* request (requestLifecycleId) and its JSON-RPC id; it begins at most one *)
(* operation, so <<request, id>> also stands for that operation's token.   *)
(***************************************************************************)

CONSTANT None   \* no value

VARIABLES
    active,               \* active: the running operation of each key
    cancellationTargets,  \* cancellationTargets: the operations a cancellation reaches
    pending,              \* pending: announced calls, and whether they were cancelled
    stopped               \* operations whose context signal is aborted

registryVars == <<active, cancellationTargets, pending, stopped>>

RegistryInit ==
    /\ active = {} /\ cancellationTargets = {}
    /\ pending = {} /\ stopped = {}

-----------------------------------------------------------------------------
(***************************************************************************)
(* The scopes of a request q, from what the gateway reads of it: identity, *)
(* ChatGPT conversation, session header and address.                       *)
(***************************************************************************)
createMcpPrincipalKey(q, ignoreMcpSessionId) ==
    CASE q.identity # None -> <<"identity", q.identity>>
      [] q.identity = None /\ q.chat # None -> <<"openai", q.chat>>
      [] q.identity = None /\ q.chat = None /\ q.header # None /\ ~ignoreMcpSessionId
           -> <<"session", q.header>>
      [] OTHER -> <<"anonymous", q.address>>

createMcpOperationScopeKey(q, principalKey, r) ==
    IF q.header # None THEN <<"mcp-session", principalKey, q.header>>
                       ELSE <<"request", principalKey, r>>

createMcpCancellationScopeKey(q, principalKey) ==
    CASE q.header # None -> <<"mcp-session", principalKey, q.header>>
      [] q.header = None /\ q.chat # None -> <<"openai-session", principalKey, q.chat>>
      [] OTHER -> principalKey

operationKey(scope, i) == <<scope, i>>

-----------------------------------------------------------------------------
\* registerPending, for every tool call of a body
Registered(scope, r, calls) ==
    pending \cup {[key |-> operationKey(scope, i), call |-> <<r, i>>, cancelled |-> FALSE] :
                     i \in calls}

\* The calls of a body are registered; then each of its cancellations marks the calls
\* that are pending and aborts the operations that run.
RegisterAndCancel(scope, r, calls, cancels) ==
    LET keys == {operationKey(scope, i) : i \in cancels} IN
        /\ pending' = {IF e.key \in keys THEN [e EXCEPT !.cancelled = TRUE] ELSE e :
                          e \in Registered(scope, r, calls)}
        /\ stopped' = stopped \cup {t.call : t \in {u \in cancellationTargets : u.key \in keys}}

\* release of the pending registrations of a request
Unregistered(r) == {e \in pending : e.call[1] # r}

Duplicate(scope, c) == \E a \in active : a.key = operationKey(scope, c[2])

\* Mutant: the operation does not ask whether it was cancelled before it began.
CancelledBeforeNot(c) == FALSE

CancelledBefore(c) == \E e \in pending : e.call = c /\ e.cancelled

\* subscribe: the context is aborted at once when one of its signals already is
Subscribed(c, gone) == CancelledBefore(c) \/ gone

\* begin, and the operation context around it; gone: the request's signal is aborted
Begin(scope, cancellationScope, c, gone) ==
    /\ ~Duplicate(scope, c)
    /\ active' = active \cup {[key |-> operationKey(scope, c[2]), call |-> c]}
    /\ cancellationTargets' = cancellationTargets \cup
          {[key |-> operationKey(cancellationScope, c[2]), call |-> c]}
    /\ stopped' = IF Subscribed(c, gone) THEN stopped \cup {c} ELSE stopped
    /\ pending' = {e \in pending : e.call # c}

\* release of the lease: nothing reaches the operation any more, and its key is free
Release(c) ==
    /\ active' = {a \in active : a.call # c}
    /\ cancellationTargets' = {t \in cancellationTargets : t.call # c}
=============================================================================
