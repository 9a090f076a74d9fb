---------------------------- MODULE McpGatewayProofs ----------------------------
(***************************************************************************)
(* Proofs about McpGateway, for any number of requests, ids, sessions and  *)
(* conversations: the operation registry and the sessions are exact in     *)
(* every state, and a cancellation is never lost.                          *)
(***************************************************************************)
EXTENDS McpGateway, FiniteSetTheorems, TLAPS

-----------------------------------------------------------------------------
(***************************************************************************)
(* The inductive invariant                                                 *)
(***************************************************************************)
\* The keys of the operation of a call, and the one its cancellation must name.
OpKey(c) == operationKey(OperationScope(c[1]), c[2])
CancelKey(c) == operationKey(CancellationScope(c[1]), c[2])

Running == {c \in Calls : op[c] = "running"}
Announced(c) == at[c[1]] = "dispatched" /\ op[c] \in {"waiting", "refused"}
Entry(c, b) == [key |-> CancelKey(c), call |-> c, cancelled |-> b]

\* The types of what the handlers and the registry keep.
Types ==
    /\ setup \in Setups
    /\ at \in [Requests -> {"idle", "auth", "fast", "dispatched", "stream", "done"}]
    /\ op \in [Calls -> {"none", "waiting", "running", "refused", "over"}]
    /\ signalled \subseteq Requests /\ unseen \subseteq Requests
    /\ stopped \subseteq Calls /\ due \subseteq Calls

\* The calls of a request that has not been handled have not begun; those that wait are
\* inside handleRequest.
NotBegun ==
    \A c \in Calls : /\ at[c[1]] \in {"idle", "auth"} => op[c] = "none"
                     /\ op[c] = "waiting" => at[c[1]] = "dispatched"
                     /\ op[c] # "none" => c \in CallsOf(c[1])

\* What the registry holds, with the keys it holds them under.
RegistryExact ==
    /\ active = {[key |-> OpKey(c), call |-> c] : c \in Running}
    /\ cancellationTargets = {[key |-> CancelKey(c), call |-> c] : c \in Running}
    /\ \A e \in pending : \E c \in Calls, b \in BOOLEAN : e = Entry(c, b) /\ Announced(c)
    /\ \A c \in Calls : Announced(c) => \E b \in BOOLEAN : Entry(c, b) \in pending

\* Where a cancelled call stands, its cancellation is known: with the announcement, or
\* in the aborted context.
Heard ==
    \A c \in due : /\ op[c] # "none"
                   /\ op[c] = "waiting" => Entry(c, TRUE) \in pending
                   /\ op[c] = "running" => c \in stopped

\* The sessions that count against the limit, and the requests that use a session.
Live == {s \in Requests : sess[s] \in {"new", "open"}}
New == {s \in Requests : sess[s] = "new"}
Open == {s \in Requests : sess[s] = "open"}
Using(s) == {r \in Requests : at[r] \in {"dispatched", "stream"}
                              /\ UsesSession(r) /\ SessionOf(r) = s}
Begun == {r \in Requests : at[r] # "idle"}

\* A session exists from the step that handles the request that creates it.
SessionsKnown ==
    /\ sess \in [Requests -> {"none", "new", "open", "closed"}]
    /\ IsFiniteSet(Begun)
    /\ \A r \in Requests : at[r] \in {"idle", "auth"} => sess[r] = "none"
    /\ \A r \in Requests : at[r] = "stream" => UsesSession(r) /\ SessionOf(r) = Body(r).header
    /\ \A r \in Requests : at[r] \in {"dispatched", "stream"} /\ UsesSession(r)
                           => sess[SessionOf(r)] # "none"

PlacesCounted ==
    /\ creations = Cardinality(New)
    /\ Cardinality(Live) <= MaxSessions

UsersCounted == users = [s \in Requests |-> Cardinality(Using(s))]

RegistryInv == Types /\ NotBegun /\ RegistryExact /\ Heard
SessionInv == SessionsKnown /\ PlacesCounted /\ UsersCounted
GatewayInv == RegistryInv /\ SessionInv

-----------------------------------------------------------------------------
(***************************************************************************)
(* Lemmas about the registry's operators                                   *)
(***************************************************************************)
\* What the handler reads of a request does not change: neither do its keys, nor the
\* session it uses (request-scope of the gateway).
LEMMA KeysStay ==
    ASSUME setup' = setup
    PROVE  /\ \A c : OpKey(c)' = OpKey(c)
           /\ \A c : CancelKey(c)' = CancelKey(c)
           /\ \A c, b : Entry(c, b)' = Entry(c, b)
           /\ \A r : UsesSession(r)' = UsesSession(r)
           /\ \A r : SessionOf(r)' = SessionOf(r)
           /\ \A r : Body(r)' = Body(r) /\ CallsOf(r)' = CallsOf(r)
    BY DEF CallsOf, OpKey, CancelKey, Entry, OperationScope, CancellationScope, PrincipalKey, Body, Stateful,
           UsesSession, SessionOf, Creates

\* The calls of a body are calls of the request, and a header names a request
\* (readMcpRequestMetadata).
LEMMA BodiesKnown ==
    ASSUME Types, NEW r \in Requests
    PROVE  /\ Body(r).calls \subseteq Ids
           /\ Body(r).header \in Requests \cup {None}
           /\ \A c \in CallsOf(r) : c \in Calls /\ c = <<r, c[2]>> /\ c[1] = r /\ c[2] \in Body(r).calls
           /\ \A c \in Calls : c[1] = r /\ c[2] \in Body(r).calls => c \in CallsOf(r)
           /\ UsesSession(r) => SessionOf(r) \in Requests
    <1>1. Body(r).calls \subseteq Ids /\ Body(r).header \in Requests \cup {None}
        BY SetupsAssumption DEF Types, Body
    <1> QED
        BY <1>1, SetupsAssumption DEF CallsOf, Calls, UsesSession, SessionOf

\* Requests that the gateway cannot tell apart have one cancellation scope: a cancellation
\* of the one names the key under which the calls of the other are kept
\* (createMcpCancellationScopeKey).
LEMMA SameScope ==
    ASSUME NEW r, NEW c, SameClient(c[1], r), c[2] \in Body(r).cancels
    PROVE  CancelKey(c) \in {operationKey(CancellationScope(r), i) : i \in Body(r).cancels}
    <1>1. CancellationScope(c[1]) = CancellationScope(r)
        BY DEF SameClient, CancellationScope, PrincipalKey, createMcpPrincipalKey,
               createMcpCancellationScopeKey
    <1> QED
        BY <1>1 DEF CancelKey

\* begin writes the operation under its two keys, and the announcement of the call is
\* taken away.
LEMMA BeginIs ==
    ASSUME NEW c, NEW gone, Begin(OperationScope(c[1]), CancellationScope(c[1]), c, gone)
    PROVE  /\ active' = active \cup {[key |-> OpKey(c), call |-> c]}
           /\ cancellationTargets' = cancellationTargets \cup {[key |-> CancelKey(c), call |-> c]}
           /\ pending' = {e \in pending : e.call # c}
           /\ stopped \subseteq stopped' /\ stopped' \subseteq stopped \cup {c}
           /\ \A e \in pending : e.call = c /\ e.cancelled => c \in stopped'
    BY DEF Begin, OpKey, CancelKey, Subscribed, CancelledBefore

-----------------------------------------------------------------------------
(***************************************************************************)
(* Steps of the registry                                                   *)
(***************************************************************************)
\* A request without calls in progress moves on: the registry is not concerned.
LEMMA RegistryQuiet ==
    ASSUME RegistryInv, NEW r \in Requests, at[r] \in {"idle", "auth", "stream"},
           NEW v \in {"auth", "done", "stream"}, v = "auth" => at[r] = "idle",
           at' = [at EXCEPT ![r] = v],
           UNCHANGED <<registryVars, op, setup, due>>,
           signalled' \subseteq Requests, unseen' \subseteq Requests
    PROVE  RegistryInv'
    <1> USE DEF RegistryInv, registryVars
    <1>1. Types'
        BY DEF Types
    <1>2. NotBegun'
        <2>1. \A q : CallsOf(q)' = CallsOf(q)
            BY KeysStay
        <2> QED
            BY <2>1 DEF NotBegun, Types, Calls
    <1>3. \A c \in Calls : Announced(c)' = Announced(c)
        BY DEF Announced, Types, Calls
    <1>4. RegistryExact'
        <2>1. \A c : OpKey(c)' = OpKey(c) /\ CancelKey(c)' = CancelKey(c)
            BY KeysStay
        <2>2. \A c, b : Entry(c, b)' = Entry(c, b)
            BY KeysStay
        <2>3. Running' = Running
            BY DEF Running
        <2> QED
            BY <1>3, <2>1, <2>2, <2>3 DEF RegistryExact
    <1>5. Heard'
        BY KeysStay DEF Heard
    <1> QED
        BY <1>1, <1>2, <1>4, <1>5

\* Neither the registry nor where its requests stand changes.
LEMMA RegistryStutters ==
    ASSUME RegistryInv, UNCHANGED <<active, cancellationTargets, pending, op, at, setup, due>>,
           stopped \subseteq stopped', stopped' \subseteq Calls,
           signalled' \subseteq Requests, unseen' \subseteq Requests
    PROVE  RegistryInv'
    <1> USE DEF RegistryInv
    <1>1. Types' /\ NotBegun'
        BY KeysStay DEF Types, NotBegun
    <1>2. RegistryExact'
        BY KeysStay DEF RegistryExact, Running, Announced
    <1>3. Heard'
        BY KeysStay DEF Heard
    <1> QED
        BY <1>1, <1>2, <1>3

\* An operation begins: on the fast path, or for a call that was announced.
LEMMA RegistryBegins ==
    ASSUME RegistryInv, NEW c \in Calls, NEW gone,
           Begin(OperationScope(c[1]), CancellationScope(c[1]), c, gone),
           op' = [op EXCEPT ![c] = "running"],
           \/ /\ op[c] = "waiting" /\ at[c[1]] = "dispatched"
              /\ at' = at
           \/ /\ at[c[1]] \in {"idle", "auth"} /\ c \in CallsOf(c[1])
              /\ at' = [at EXCEPT ![c[1]] = "fast"],
           UNCHANGED <<setup, due, signalled, unseen>>
    PROVE  RegistryInv'
    <1> USE DEF RegistryInv
    <1>0. c[1] \in Requests /\ (at[c[1]] \in {"idle", "auth"} => op[c] = "none")
        BY DEF Calls, NotBegun
    <1>a. /\ active' = active \cup {[key |-> OpKey(c), call |-> c]}
          /\ cancellationTargets' = cancellationTargets \cup {[key |-> CancelKey(c), call |-> c]}
          /\ pending' = {e \in pending : e.call # c}
          /\ stopped \subseteq stopped' /\ stopped' \subseteq stopped \cup {c}
          /\ \A e \in pending : e.call = c /\ e.cancelled => c \in stopped'
        BY BeginIs
    <1>1. Types'
        BY <1>a DEF Types
    <1>2. NotBegun'
        <2>1. \A q : CallsOf(q)' = CallsOf(q)
            BY KeysStay
        <2>2. c \in CallsOf(c[1])
            BY <1>0 DEF NotBegun
        <2> QED
            BY <1>0, <2>1, <2>2 DEF NotBegun, Types, Calls
    <1>3. Running' = Running \cup {c}
        BY DEF Running, Types
    <1>4. \A d \in Calls : Announced(d)' <=> Announced(d) /\ d # c
        <2> TAKE d \in Calls
        <2>1. CASE at' = at
            BY <2>1 DEF Announced, Types
        <2>2. CASE at[c[1]] \in {"idle", "auth"} /\ at' = [at EXCEPT ![c[1]] = "fast"]
            BY <2>2, <1>0 DEF Announced, Types, Calls, NotBegun
        <2> QED
            BY <2>1, <2>2
    <1>5. /\ \A d : OpKey(d)' = OpKey(d) /\ CancelKey(d)' = CancelKey(d)
          /\ \A d, b : Entry(d, b)' = Entry(d, b)
        BY KeysStay
    <1>6. \A d, b : Entry(d, b).call = d /\ Entry(d, b).cancelled = b
        BY DEF Entry
    <1>7. RegistryExact'
        <2>1. active' = {[key |-> OpKey(d)', call |-> d] : d \in Running'}
            BY <1>a, <1>3, <1>5 DEF RegistryExact
        <2>2. cancellationTargets' = {[key |-> CancelKey(d)', call |-> d] : d \in Running'}
            BY <1>a, <1>3, <1>5 DEF RegistryExact
        <2>3. \A e \in pending' : \E d \in Calls, b \in BOOLEAN : e = Entry(d, b)' /\ Announced(d)'
            <3> SUFFICES ASSUME NEW e \in pending'
                         PROVE  \E d \in Calls, b \in BOOLEAN : e = Entry(d, b) /\ Announced(d)'
                BY <1>5
            <3>1. PICK d \in Calls, b \in BOOLEAN : e = Entry(d, b) /\ Announced(d)
                BY <1>a DEF RegistryExact
            <3> QED
                BY <3>1, <1>a, <1>4, <1>6
        <2>4. \A d \in Calls : Announced(d)' => \E b \in BOOLEAN : Entry(d, b)' \in pending'
            BY <1>a, <1>4, <1>5, <1>6 DEF RegistryExact
        <2> QED
            BY <2>1, <2>2, <2>3, <2>4 DEF RegistryExact
    <1>8. Heard'
        <2> SUFFICES ASSUME NEW d \in due
                     PROVE  /\ op'[d] # "none"
                            /\ op'[d] = "waiting" => Entry(d, TRUE) \in pending'
                            /\ op'[d] = "running" => d \in stopped'
            BY <1>5 DEF Heard
        <2>1. CASE d = c
            <3>1. op[c] = "waiting" /\ Entry(c, TRUE) \in pending
                BY <1>0, <2>1 DEF Heard
            <3>2. c \in stopped'
                BY <3>1, <1>6, <1>a
            <3> QED
                BY <3>2, <2>1 DEF Types
        <2>2. CASE d # c
            <3>1. op'[d] = op[d]
                BY <2>2 DEF Types
            <3>2. Entry(d, TRUE) \in pending => Entry(d, TRUE) \in pending'
                BY <2>2, <1>6, <1>a
            <3> QED
                BY <3>1, <3>2, <1>a DEF Heard
        <2> QED
            BY <2>1, <2>2
    <1> QED
        BY <1>1, <1>2, <1>7, <1>8

\* What the calls and the cancellations of a body do to the announcements and to the
\* operations that run (registerPending, cancel).
Reached(r) ==
    LET keys == {operationKey(CancellationScope(r), i) : i \in Body(r).cancels}
        Known(c) == Announced(c) \/ c \in CallsOf(r)
    IN  /\ \A e \in pending' : \E c \in Calls, b \in BOOLEAN : e = Entry(c, b) /\ Known(c)
        /\ \A c \in Calls : Known(c) => \E b \in BOOLEAN : Entry(c, b) \in pending'
        /\ \A c \in Calls : Entry(c, TRUE) \in pending => Entry(c, TRUE) \in pending'
        /\ \A c \in Calls : Known(c) /\ CancelKey(c) \in keys => Entry(c, TRUE) \in pending'
        /\ \A c \in Running : CancelKey(c) \in keys => c \in stopped'
        /\ stopped \subseteq stopped' /\ stopped' \subseteq Calls

\* registerPending and cancel do just that.
LEMMA RegisterIs ==
    ASSUME RegistryInv, NEW r \in Requests,
           RegisterAndCancel(CancellationScope(r), r, Body(r).calls, Body(r).cancels)
    PROVE  Reached(r)
    <1> DEFINE keys == {operationKey(CancellationScope(r), i) : i \in Body(r).cancels}
               Known(c) == Announced(c) \/ c \in CallsOf(r)
               All == Registered(CancellationScope(r), r, Body(r).calls)
               Mark(e) == IF e.key \in keys THEN [e EXCEPT !.cancelled = TRUE] ELSE e
    <1>1. pending' = {Mark(e) : e \in All}
        BY DEF RegisterAndCancel
    <1>2. stopped' = stopped \cup {t.call : t \in {u \in cancellationTargets : u.key \in keys}}
        BY DEF RegisterAndCancel
    <1>3. \A c, b : /\ CancelKey(c) \in keys => Mark(Entry(c, b)) = Entry(c, TRUE)
                    /\ CancelKey(c) \notin keys => Mark(Entry(c, b)) = Entry(c, b)
        BY DEF Entry
    <1>4. All = pending \cup {Entry(<<r, i>>, FALSE) : i \in Body(r).calls}
        BY DEF Registered, Entry, CancelKey
    <1>5. \A i \in Body(r).calls : <<r, i>> \in Calls /\ Known(<<r, i>>)
        BY BodiesKnown DEF CallsOf, RegistryInv
    <1>6. \A e \in All : \E c \in Calls, b \in BOOLEAN : e = Entry(c, b) /\ Known(c)
        BY <1>4, <1>5 DEF RegistryInv, RegistryExact
    <1>7. \A c \in Calls : Known(c) => \E b \in BOOLEAN : Entry(c, b) \in All
        <2> TAKE c \in Calls
        <2>1. CASE Announced(c)
            BY <2>1, <1>4 DEF RegistryInv, RegistryExact
        <2>2. CASE c \in CallsOf(r)
            <3>1. c = <<r, c[2]>> /\ c[2] \in Body(r).calls
                BY <2>2, BodiesKnown DEF RegistryInv
            <3>2. Entry(c, FALSE) \in All
                BY <3>1, <1>4
            <3> QED
                BY <3>2
        <2> QED
            BY <2>1, <2>2
    <1> HIDE DEF keys, Known, All, Mark
    <1>8. \A e \in pending' : \E c \in Calls, b \in BOOLEAN : e = Entry(c, b) /\ Known(c)
        <2> TAKE e \in pending'
        <2>1. PICK d \in All : e = Mark(d)
            BY <1>1
        <2>2. PICK c \in Calls, b \in BOOLEAN : d = Entry(c, b) /\ Known(c)
            BY <1>6
        <2>3. e = Entry(c, TRUE) \/ e = Entry(c, b)
            BY <1>3, <2>1, <2>2
        <2> QED
            BY <2>2, <2>3
    <1>9. \A c \in Calls : Known(c) => \E b \in BOOLEAN : Entry(c, b) \in pending'
        BY <1>1, <1>3, <1>7
    <1>10. \A c \in Calls : Entry(c, TRUE) \in pending => Entry(c, TRUE) \in pending'
        BY <1>1, <1>3, <1>4
    <1>11. \A c \in Calls : Known(c) /\ CancelKey(c) \in keys => Entry(c, TRUE) \in pending'
        BY <1>1, <1>3, <1>7
    <1>12. \A c \in Running : CancelKey(c) \in keys => c \in stopped'
        <2> TAKE c \in Running
        <2> DEFINE u == [key |-> CancelKey(c), call |-> c]
        <2>1. u \in cancellationTargets /\ u.key = CancelKey(c) /\ u.call = c
            BY DEF RegistryInv, RegistryExact
        <2> HIDE DEF u
        <2> QED
            BY <1>2, <2>1
    <1>13. stopped \subseteq stopped' /\ stopped' \subseteq Calls
        BY <1>2 DEF RegistryInv, RegistryExact, Types, Running
    <1> QED
        BY <1>8, <1>9, <1>10, <1>11, <1>12, <1>13 DEF keys, Known, Reached

\* A body is handed to a transport: its calls are announced, and its cancellations reach
\* those that they mean.
LEMMA RegistryDispatches ==
    ASSUME RegistryInv, NEW r \in Requests, at[r] \in {"idle", "auth"}, Dispatch(r), setup' = setup
    PROVE  RegistryInv'
    <1> USE DEF RegistryInv
    <1> DEFINE keys == {operationKey(CancellationScope(r), i) : i \in Body(r).cancels}
    <1>0. /\ Body(r).calls \subseteq Ids
          /\ \A c \in Calls : c \in CallsOf(r) <=> c[1] = r /\ c[2] \in Body(r).calls
        BY BodiesKnown
    <1>a. /\ \A e \in pending' : \E c \in Calls, b \in BOOLEAN :
                e = Entry(c, b) /\ (Announced(c) \/ c \in CallsOf(r))
          /\ \A c \in Calls : Announced(c) \/ c \in CallsOf(r)
                => \E b \in BOOLEAN : Entry(c, b) \in pending'
          /\ \A c \in Calls : Entry(c, TRUE) \in pending => Entry(c, TRUE) \in pending'
          /\ \A c \in Calls : (Announced(c) \/ c \in CallsOf(r)) /\ CancelKey(c) \in keys
                => Entry(c, TRUE) \in pending'
          /\ \A c \in Running : CancelKey(c) \in keys => c \in stopped'
          /\ stopped \subseteq stopped' /\ stopped' \subseteq Calls
        <2>1. RegisterAndCancel(CancellationScope(r), r, Body(r).calls, Body(r).cancels)
            BY DEF Dispatch
        <2> QED
            BY <2>1, RegisterIs DEF Reached
    <1>b. /\ op' = [c \in Calls |-> IF c \in CallsOf(r) THEN "waiting" ELSE op[c]]
          /\ at' = [at EXCEPT ![r] = "dispatched"]
          /\ due' = due \cup Meant(r)
          /\ UNCHANGED <<active, cancellationTargets, signalled, unseen>>
        BY DEF Dispatch
    <1> HIDE DEF keys
    <1>1. Types'
        BY <1>a, <1>b DEF Types, Meant
    <1>2. NotBegun'
        <2>1. \A q : CallsOf(q)' = CallsOf(q)
            BY KeysStay
        <2> QED
            BY <1>0, <1>b, <2>1 DEF NotBegun, Types, Calls
    <1>3. \A c \in Calls : c[1] = r => op[c] = "none"
        BY DEF NotBegun
    <1>4. Running' = Running
        BY <1>b, <1>0, <1>3 DEF Running, Types
    <1>5. \A c \in Calls : Announced(c)' <=> Announced(c) \/ c \in CallsOf(r)
        BY <1>b, <1>0, <1>3 DEF Announced, Types, Calls
    <1>6. /\ \A d : OpKey(d)' = OpKey(d) /\ CancelKey(d)' = CancelKey(d)
          /\ \A d, b : Entry(d, b)' = Entry(d, b)
        BY KeysStay
    <1>7. RegistryExact'
        <2>1. active' = {[key |-> OpKey(d)', call |-> d] : d \in Running'}
            BY <1>b, <1>4, <1>6 DEF RegistryExact
        <2>2. cancellationTargets' = {[key |-> CancelKey(d)', call |-> d] : d \in Running'}
            BY <1>b, <1>4, <1>6 DEF RegistryExact
        <2>3. \A e \in pending' : \E d \in Calls, b \in BOOLEAN : e = Entry(d, b)' /\ Announced(d)'
            BY <1>a, <1>5, <1>6
        <2>4. \A d \in Calls : Announced(d)' => \E b \in BOOLEAN : Entry(d, b)' \in pending'
            BY <1>a, <1>5, <1>6
        <2> QED
            BY <2>1, <2>2, <2>3, <2>4 DEF RegistryExact
    <1>8. Heard'
        <2> SUFFICES ASSUME NEW c \in due'
                     PROVE  /\ op'[c] # "none"
                            /\ op'[c] = "waiting" => Entry(c, TRUE) \in pending'
                            /\ op'[c] = "running" => c \in stopped'
            BY <1>6 DEF Heard
        <2>0. c \in Calls
            BY <1>1 DEF Types
        <2>1. CASE c \in due
            <3>1. c[1] # r /\ op'[c] = op[c]
                BY <2>0, <2>1, <1>3, <1>0, <1>b DEF Heard
            <3> QED
                BY <2>0, <2>1, <3>1, <1>a DEF Heard
        <2>2. CASE c \in Meant(r)
            <3>1. CancelKey(c) \in keys
                BY <2>2, SameScope DEF Meant, keys
            <3>2. CASE c \in CallsOf(r)
                BY <2>0, <3>1, <3>2, <1>a, <1>b
            <3>3. CASE c \notin CallsOf(r)
                <4>1. InProgress(c[1]) /\ op[c] \in {"waiting", "running"} /\ op'[c] = op[c]
                    BY <2>0, <2>2, <3>3, <1>b DEF Meant
                <4>2. CASE op[c] = "running"
                    BY <2>0, <3>1, <4>1, <4>2, <1>a DEF Running
                <4>3. CASE op[c] = "waiting"
                    <5>1. Announced(c)
                        BY <2>0, <4>3 DEF Announced, NotBegun
                    <5> QED
                        BY <2>0, <3>1, <4>1, <4>3, <5>1, <1>a
                <4> QED
                    BY <4>1, <4>2, <4>3
            <3> QED
                BY <3>2, <3>3
        <2> QED
            BY <2>1, <2>2, <1>b
    <1> QED
        BY <1>1, <1>2, <1>7, <1>8

\* A body of cancellations for a session reaches those that it means, and is answered.
LEMMA RegistryCancels ==
    ASSUME RegistryInv, NEW r \in Requests, at[r] \in {"idle", "auth"}, PostCancels(r), setup' = setup
    PROVE  RegistryInv'
    <1> USE DEF RegistryInv
    <1>0. CallsOf(r) = {}
        BY DEF PostCancels, CancellationOnly, CallsOf
    <1>a. Reached(r)
        BY RegisterIs DEF PostCancels, CancellationOnly
    <1>b. /\ op' = op
          /\ at' = [at EXCEPT ![r] = "done"]
          /\ due' = due \cup Meant(r)
          /\ UNCHANGED <<active, cancellationTargets, signalled, unseen>>
        BY DEF PostCancels, Answer
    <1>1. Types'
        BY <1>a, <1>b DEF Types, Meant, Reached
    <1>2. NotBegun'
        <2>1. \A q : CallsOf(q)' = CallsOf(q)
            BY KeysStay
        <2> QED
            BY <1>b, <2>1 DEF NotBegun, Types, Calls
    <1>3. \A c \in Calls : c[1] = r => op[c] = "none"
        BY DEF NotBegun
    <1>4. Running' = Running
        BY <1>b DEF Running
    <1>5. \A c \in Calls : Announced(c)' <=> Announced(c)
        BY <1>b, <1>3 DEF Announced, Types, Calls
    <1>6. /\ \A d : OpKey(d)' = OpKey(d) /\ CancelKey(d)' = CancelKey(d)
          /\ \A d, b : Entry(d, b)' = Entry(d, b)
        BY KeysStay
    <1>7. RegistryExact'
        <2>1. active' = {[key |-> OpKey(d)', call |-> d] : d \in Running'}
            BY <1>b, <1>4, <1>6 DEF RegistryExact
        <2>2. cancellationTargets' = {[key |-> CancelKey(d)', call |-> d] : d \in Running'}
            BY <1>b, <1>4, <1>6 DEF RegistryExact
        <2>3. \A e \in pending' : \E d \in Calls, b \in BOOLEAN : e = Entry(d, b)' /\ Announced(d)'
            BY <1>a, <1>0, <1>5, <1>6 DEF Reached
        <2>4. \A d \in Calls : Announced(d)' => \E b \in BOOLEAN : Entry(d, b)' \in pending'
            BY <1>a, <1>0, <1>5, <1>6 DEF Reached
        <2> QED
            BY <2>1, <2>2, <2>3, <2>4 DEF RegistryExact
    <1>8. Heard'
        <2> SUFFICES ASSUME NEW c \in due'
                     PROVE  /\ op'[c] # "none"
                            /\ op'[c] = "waiting" => Entry(c, TRUE) \in pending'
                            /\ op'[c] = "running" => c \in stopped'
            BY <1>6 DEF Heard
        <2>0. c \in Calls
            BY <1>1 DEF Types
        <2>1. CASE c \in due
            BY <2>0, <2>1, <1>a, <1>b DEF Heard, Reached
        <2>2. CASE c \in Meant(r)
            <3>1. CancelKey(c) \in {operationKey(CancellationScope(r), i) : i \in Body(r).cancels}
                BY <2>2, SameScope DEF Meant
            <3>2. op[c] \in {"waiting", "running"}
                BY <2>0, <2>2, <1>0 DEF Meant
            <3>3. CASE op[c] = "running"
                BY <2>0, <3>1, <3>3, <1>a, <1>b DEF Running, Reached
            <3>4. CASE op[c] = "waiting"
                <4>1. Announced(c)
                    BY <2>0, <3>4 DEF Announced, NotBegun
                <4> QED
                    BY <2>0, <3>1, <3>4, <4>1, <1>a, <1>b DEF Reached
            <3> QED
                BY <3>2, <3>3, <3>4
        <2> QED
            BY <2>1, <2>2, <1>b
    <1> QED
        BY <1>1, <1>2, <1>7, <1>8

\* A call that is refused: on the fast path, whose request is answered, or inside
\* handleRequest, where its announcement stays until the request returns.
LEMMA RegistryRefuses ==
    ASSUME RegistryInv, NEW c \in Calls,
           op' = [op EXCEPT ![c] = "refused"],
           \/ /\ op[c] = "waiting" /\ at' = at /\ due' = due \ {c}
           \/ /\ at[c[1]] \in {"idle", "auth"} /\ c \in CallsOf(c[1])
              /\ at' = [at EXCEPT ![c[1]] = "done"] /\ due' = due,
           UNCHANGED <<registryVars, setup, signalled, unseen>>
    PROVE  RegistryInv'
    <1> USE DEF RegistryInv, registryVars
    <1>0. /\ c[1] \in Requests
          /\ op[c] = "waiting" => at[c[1]] = "dispatched" /\ c \in CallsOf(c[1])
          /\ at[c[1]] \in {"idle", "auth"} => op[c] = "none"
        BY DEF Calls, NotBegun
    <1>1. Types'
        BY DEF Types
    <1>2. NotBegun'
        <2>1. \A q : CallsOf(q)' = CallsOf(q)
            BY KeysStay
        <2> QED
            BY <1>0, <2>1 DEF NotBegun, Types, Calls
    <1>3. Running' = Running
        BY <1>0 DEF Running, Types
    <1>4. \A d \in Calls : Announced(d)' <=> Announced(d)
        <2> TAKE d \in Calls
        <2>1. CASE op[c] = "waiting" /\ at' = at
            BY <2>1, <1>0 DEF Announced, Types
        <2>2. CASE at[c[1]] \in {"idle", "auth"} /\ at' = [at EXCEPT ![c[1]] = "done"]
            BY <2>2, <1>0 DEF Announced, Types, Calls, NotBegun
        <2> QED
            BY <2>1, <2>2
    <1>5. /\ \A d : OpKey(d)' = OpKey(d) /\ CancelKey(d)' = CancelKey(d)
          /\ \A d, b : Entry(d, b)' = Entry(d, b)
        BY KeysStay
    <1>6. RegistryExact'
        BY <1>3, <1>4, <1>5 DEF RegistryExact
    <1>7. Heard'
        BY <1>0, <1>5 DEF Heard, Types
    <1> QED
        BY <1>1, <1>2, <1>6, <1>7

\* The lease of an operation is released: the registry holds the others.
LEMMA RegistryReleases ==
    ASSUME RegistryInv, NEW c \in Calls, OperationEnds(c)
    PROVE  RegistryInv'
    <1> USE DEF RegistryInv
    <1>0. /\ c[1] \in Requests /\ op[c] = "running"
          /\ active' = {a \in active : a.call # c}
          /\ cancellationTargets' = {t \in cancellationTargets : t.call # c}
          /\ op' = [op EXCEPT ![c] = "over"]
          /\ stopped' = stopped \ {c} /\ due' = due \ {c}
          /\ at' = [at EXCEPT ![c[1]] = IF @ = "fast" THEN "done" ELSE @]
          /\ UNCHANGED <<pending, setup, signalled, unseen>>
        BY DEF OperationEnds, Release, Calls
    <1>1. Types'
        BY <1>0 DEF Types
    <1>2. NotBegun'
        <2>1. \A q : CallsOf(q)' = CallsOf(q)
            BY <1>0, KeysStay
        <2> QED
            BY <1>0, <2>1 DEF NotBegun, Types, Calls
    <1>3. Running' = Running \ {c}
        BY <1>0 DEF Running, Types
    <1>4. \A d \in Calls : Announced(d)' <=> Announced(d)
        BY <1>0 DEF Announced, Types, Calls
    <1>5. /\ \A d : OpKey(d)' = OpKey(d) /\ CancelKey(d)' = CancelKey(d)
          /\ \A d, b : Entry(d, b)' = Entry(d, b)
        BY <1>0, KeysStay
    <1>6. RegistryExact'
        <2>1. active' = {[key |-> OpKey(d)', call |-> d] : d \in Running'}
            BY <1>0, <1>3, <1>5 DEF RegistryExact
        <2>2. cancellationTargets' = {[key |-> CancelKey(d)', call |-> d] : d \in Running'}
            BY <1>0, <1>3, <1>5 DEF RegistryExact
        <2> QED
            BY <2>1, <2>2, <1>0, <1>4, <1>5 DEF RegistryExact
    <1>7. Heard'
        BY <1>0, <1>5 DEF Heard, Types
    <1> QED
        BY <1>1, <1>2, <1>6, <1>7

\* The finally block of a request removes its announcements, and those only.
LEMMA RegistryReturns ==
    ASSUME RegistryInv, NEW r \in Requests, Return(r)
    PROVE  RegistryInv'
    <1> USE DEF RegistryInv
    <1>0. /\ at[r] = "dispatched"
          /\ \A c \in CallsOf(r) : op[c] \in {"refused", "over"}
          /\ pending' = {e \in pending : e.call[1] # r}
          /\ at' = [at EXCEPT ![r] = "done"]
          /\ UNCHANGED <<active, cancellationTargets, stopped, setup, op, signalled, unseen, due>>
        BY DEF Return, Unregistered, Answer
    <1>1. Types'
        BY <1>0 DEF Types
    <1>2. NotBegun'
        <2>1. \A q : CallsOf(q)' = CallsOf(q)
            BY <1>0, KeysStay
        <2>2. \A c \in Calls : c[1] = r => op[c] # "waiting"
            BY <1>0 DEF NotBegun
        <2> QED
            BY <1>0, <2>1, <2>2 DEF NotBegun, Types, Calls
    <1>3. Running' = Running
        BY <1>0 DEF Running
    <1>4. \A d \in Calls : Announced(d)' <=> Announced(d) /\ d[1] # r
        BY <1>0 DEF Announced, Types, Calls
    <1>5. /\ \A d : OpKey(d)' = OpKey(d) /\ CancelKey(d)' = CancelKey(d)
          /\ \A d, b : Entry(d, b)' = Entry(d, b)
        BY <1>0, KeysStay
    <1>6. \A d, b : Entry(d, b).call = d
        BY DEF Entry
    <1>7. RegistryExact'
        <2>1. \A e \in pending' : \E d \in Calls, b \in BOOLEAN : e = Entry(d, b)' /\ Announced(d)'
            <3> SUFFICES ASSUME NEW e \in pending'
                         PROVE  \E d \in Calls, b \in BOOLEAN : e = Entry(d, b) /\ Announced(d)'
                BY <1>5
            <3>1. PICK d \in Calls, b \in BOOLEAN : e = Entry(d, b) /\ Announced(d)
                BY <1>0 DEF RegistryExact
            <3> QED
                BY <3>1, <1>0, <1>4, <1>6
        <2>2. \A d \in Calls : Announced(d)' => \E b \in BOOLEAN : Entry(d, b)' \in pending'
            BY <1>0, <1>4, <1>5, <1>6 DEF RegistryExact
        <2> QED
            BY <2>1, <2>2, <1>0, <1>3, <1>5 DEF RegistryExact
    <1>8. Heard'
        <2> SUFFICES ASSUME NEW c \in due
                     PROVE  /\ op[c] # "none"
                            /\ op[c] = "waiting" => Entry(c, TRUE) \in pending'
                            /\ op[c] = "running" => c \in stopped'
            BY <1>0, <1>5 DEF Heard
        <2>1. c \in Calls /\ (op[c] = "waiting" => c[1] # r)
            BY <1>0 DEF Types, NotBegun
        <2> QED
            BY <2>1, <1>0, <1>6 DEF Heard
    <1> QED
        BY <1>1, <1>2, <1>7, <1>8

-----------------------------------------------------------------------------
(***************************************************************************)
(* Steps of the sessions                                                   *)
(***************************************************************************)
\* Only finitely many requests have come so far, so what is counted is finite.
LEMMA SessionsFinite ==
    ASSUME SessionsKnown, Types
    PROVE  /\ IsFiniteSet(New) /\ IsFiniteSet(Live) /\ IsFiniteSet(Open)
           /\ \A s : IsFiniteSet(Using(s))
    <1>1. New \subseteq Begun /\ Live \subseteq Begun /\ Open \subseteq Begun
        BY DEF SessionsKnown, Types, New, Live, Open, Begun
    <1>2. \A s : Using(s) \subseteq Begun
        BY DEF Using, Begun
    <1> QED
        BY <1>1, <1>2, FS_Subset DEF SessionsKnown

\* A request that moves leaves the requests that have begun finitely many.
LEMMA BegunStays ==
    ASSUME SessionsKnown, Types, NEW r \in Requests, NEW v, at' = [at EXCEPT ![r] = v]
    PROVE  IsFiniteSet(Begun')
    <1>1. IsFiniteSet(Begun \cup {r})
        BY FS_AddElement DEF SessionsKnown
    <1>2. Begun' \subseteq Begun \cup {r}
        BY DEF Begun, Types
    <1> QED
        BY <1>1, <1>2, FS_Subset

\* closeExperimentalMcpSession gives back the places of the sessions that were being
\* created, and no others.
LEMMA ClosedCounts ==
    ASSUME SessionsKnown, Types, PlacesCounted, NEW S \in SUBSET Requests, CloseSessions(S)
    PROVE  PlacesCounted'
    <1> DEFINE D == {s \in S : sess[s] = "new"}
    <1>1. New' = New \ D /\ D = New \cap D
        BY DEF CloseSessions, New, SessionsKnown
    <1>2. creations' = creations - Cardinality(D)
        BY DEF CloseSessions
    <1> HIDE DEF D
    <1>3. creations' = Cardinality(New')
        <2>1. Cardinality(New \ D) = Cardinality(New) - Cardinality(New \cap D)
            BY SessionsFinite, FS_Difference
        <2> QED
            BY <2>1, <1>1, <1>2 DEF PlacesCounted
    <1>4. Live' \subseteq Live
        BY DEF CloseSessions, Live, SessionsKnown
    <1>5. IsFiniteSet(Live') /\ Cardinality(Live') <= Cardinality(Live)
        BY <1>4, SessionsFinite, FS_Subset
    <1>6. Cardinality(Live) \in Nat /\ Cardinality(Live') \in Nat
        BY <1>5, SessionsFinite, FS_CardinalityType
    <1> QED
        BY <1>3, <1>5, <1>6, GatewayBounds DEF PlacesCounted

\* A session is created only where there is a place for it (hasExperimentalMcpCapacity).
LEMMA CreatedCounts ==
    ASSUME SessionsKnown, Types, PlacesCounted, NEW r \in Requests, sess[r] = "none", HasCapacity,
           sess' = [sess EXCEPT ![r] = "new"], creations' = creations + 1
    PROVE  PlacesCounted'
    <1>1. New' = New \cup {r} /\ r \notin New
        BY DEF New, SessionsKnown
    <1>2. Live' = Live \cup {r} /\ r \notin Live
        BY DEF Live, SessionsKnown
    <1>3. creations' = Cardinality(New')
        BY <1>1, SessionsFinite, FS_AddElement DEF PlacesCounted
    <1>4. Live = Open \cup New /\ Open \cap New = {}
        BY DEF Live, Open, New
    <1>5. Cardinality(Live) = Cardinality(Open) + Cardinality(New)
        <2>1. Cardinality(Live) = Cardinality(Open) + Cardinality(New) - Cardinality({})
            BY <1>4, SessionsFinite, FS_Union
        <2>2. Cardinality(Open) \in Nat /\ Cardinality(New) \in Nat
            BY SessionsFinite, FS_CardinalityType
        <2> QED
            BY <2>1, <2>2, FS_EmptySet
    <1>6. Cardinality(Open) + creations < MaxSessions
        BY DEF HasCapacity, Open
    <1>7. Cardinality(Live') = Cardinality(Live) + 1
        BY <1>2, SessionsFinite, FS_AddElement
    <1>8. Cardinality(Open) \in Nat /\ Cardinality(New) \in Nat
        BY SessionsFinite, FS_CardinalityType
    <1> QED
        BY <1>3, <1>5, <1>6, <1>7, <1>8, GatewayBounds DEF PlacesCounted

\* An initialized session keeps its place and gives up that of its creation.
LEMMA InitializedCounts ==
    ASSUME SessionsKnown, Types, PlacesCounted, NEW r \in Requests, sess[r] = "new",
           sess' = [sess EXCEPT ![r] = "open"], creations' = creations - 1
    PROVE  PlacesCounted'
    <1>1. New' = New \ {r} /\ r \in New
        BY DEF New, SessionsKnown
    <1>2. Live' = Live
        BY DEF Live, SessionsKnown
    <1> QED
        BY <1>1, <1>2, SessionsFinite, FS_RemoveElement DEF PlacesCounted

\* A request that uses neither before nor after changes no session's count.
LEMMA UsersStay ==
    ASSUME Types, UsersCounted, setup' = setup, users' = users,
           \A r \in Requests : UsesSession(r) =>
               (at'[r] \in {"dispatched", "stream"} <=> at[r] \in {"dispatched", "stream"})
    PROVE  UsersCounted'
    <1>1. \A r : UsesSession(r)' = UsesSession(r) /\ SessionOf(r)' = SessionOf(r)
        BY KeysStay
    <1>2. \A s : Using(s)' = Using(s)
        BY <1>1 DEF Using
    <1> QED
        BY <1>2 DEF UsersCounted

\* A request enters a session: that one has a user more.
LEMMA UserEnters ==
    ASSUME Types, SessionsKnown, UsersCounted, setup' = setup, NEW r \in Requests,
           UsesSession(r), at[r] \in {"idle", "auth"}, NEW v \in {"dispatched", "stream"},
           at' = [at EXCEPT ![r] = v],
           users' = [users EXCEPT ![SessionOf(r)] = @ + 1]
    PROVE  UsersCounted'
    <1>1. \A q : UsesSession(q)' = UsesSession(q) /\ SessionOf(q)' = SessionOf(q)
        BY KeysStay

    <1>2. \A s : /\ s = SessionOf(r) => Using(s)' = Using(s) \cup {r} /\ r \notin Using(s)
                 /\ s # SessionOf(r) => Using(s)' = Using(s)
        BY <1>1 DEF Using, Types
    <1>3. \A s : s = SessionOf(r) => Cardinality(Using(s)') = Cardinality(Using(s)) + 1
        BY <1>2, SessionsFinite, FS_AddElement
    <1> QED
        BY <1>2, <1>3 DEF UsersCounted

\* A request leaves a session: that one has a user less.
LEMMA UserLeaves ==
    ASSUME Types, SessionsKnown, UsersCounted, setup' = setup, NEW r \in Requests,
           UsesSession(r), at[r] \in {"dispatched", "stream"},
           at' = [at EXCEPT ![r] = "done"],
           users' = [users EXCEPT ![SessionOf(r)] = @ - 1]
    PROVE  UsersCounted'
    <1>1. \A q : UsesSession(q)' = UsesSession(q) /\ SessionOf(q)' = SessionOf(q)
        BY KeysStay
    <1>2. \A s : /\ s = SessionOf(r) => Using(s)' = Using(s) \ {r} /\ r \in Using(s)
                 /\ s # SessionOf(r) => Using(s)' = Using(s)
        BY <1>1 DEF Using, Types
    <1>3. \A s : s = SessionOf(r) => Cardinality(Using(s)') = Cardinality(Using(s)) - 1
        BY <1>2, SessionsFinite, FS_RemoveElement
    <1> QED
        BY <1>2, <1>3 DEF UsersCounted

\* What is known of the sessions survives when a request that had its handler called
\* moves on, and sessions only close or open.
LEMMA KnownMoves ==
    ASSUME Types, SessionsKnown, setup' = setup, NEW r \in Requests,
           NEW v \in {"auth", "fast", "dispatched", "stream", "done"},
           at' = [at EXCEPT ![r] = v],
           v = "auth" => at[r] = "idle",
           v = "stream" => UsesSession(r) /\ SessionOf(r) = Body(r).header,
           v \in {"dispatched", "stream"} /\ UsesSession(r) => sess'[SessionOf(r)] # "none",
           sess' \in [Requests -> {"none", "new", "open", "closed"}],
           \A s \in Requests : \/ sess'[s] = "none" <=> sess[s] = "none"
                               \/ s = r /\ v = "dispatched" /\ sess'[s] # "none"
    PROVE  SessionsKnown'
    <1>1. \A q : /\ UsesSession(q)' = UsesSession(q) /\ SessionOf(q)' = SessionOf(q)
                 /\ Body(q)' = Body(q)
        BY KeysStay
    <1>2. IsFiniteSet(Begun')
        BY BegunStays
    <1>3. \A q \in Requests : UsesSession(q) => SessionOf(q) \in Requests
        BY BodiesKnown
    <1>4. \A q \in Requests : at'[q] \in {"idle", "auth"} => sess'[q] = "none"
        BY DEF Types, SessionsKnown
    <1>5. \A q \in Requests : at'[q] = "stream" => UsesSession(q) /\ SessionOf(q) = Body(q).header
        BY DEF Types, SessionsKnown
    <1>6. \A q \in Requests : at'[q] \in {"dispatched", "stream"} /\ UsesSession(q)
                              => sess'[SessionOf(q)] # "none"
        BY <1>3 DEF Types, SessionsKnown
    <1> QED
        BY <1>1, <1>2, <1>4, <1>5, <1>6 DEF SessionsKnown

\* The same, when no handler moves.
LEMMA KnownStays ==
    ASSUME Types, SessionsKnown, setup' = setup, at' = at,
           sess' \in [Requests -> {"none", "new", "open", "closed"}],
           \A s \in Requests : sess'[s] = "none" <=> sess[s] = "none"
    PROVE  SessionsKnown'
    <1>1. \A q : /\ UsesSession(q)' = UsesSession(q) /\ SessionOf(q)' = SessionOf(q)
                 /\ Body(q)' = Body(q)
        BY KeysStay
    <1>2. \A q \in Requests : UsesSession(q) => SessionOf(q) \in Requests
        BY BodiesKnown
    <1> QED
        BY <1>1, <1>2 DEF SessionsKnown, Begun, Types

-----------------------------------------------------------------------------
(***************************************************************************)
(* The steps of the gateway                                                *)
(***************************************************************************)
\* The gateway starts with an empty registry and no session.
LEMMA GatewayInit ==
    ASSUME Init PROVE GatewayInv
    <1> USE DEF Init, RegistryInit
    <1>1. Types /\ NotBegun
        BY DEF Types, NotBegun, Calls
    <1>2. RegistryExact /\ Heard
        BY DEF RegistryExact, Heard, Running, Announced
    <1>3. Begun = {} /\ New = {} /\ Live = {} /\ \A s : Using(s) = {}
        BY DEF Begun, New, Live, Using
    <1>4. SessionsKnown
        BY <1>3, FS_EmptySet DEF SessionsKnown
    <1>5. PlacesCounted /\ UsersCounted
        BY <1>3, FS_EmptySet, GatewayBounds DEF PlacesCounted, UsersCounted
    <1> QED
        BY <1>1, <1>2, <1>4, <1>5 DEF GatewayInv, RegistryInv, SessionInv

\* No session is touched.
LEMMA SessionsQuiet ==
    ASSUME GatewayInv, UNCHANGED <<setup, sess, creations, users>>, NEW r \in Requests,
           \/ at' = at
           \/ /\ at[r] \in {"idle", "auth", "fast"}
              /\ \E v \in {"auth", "fast", "dispatched", "done"} :
                    /\ at' = [at EXCEPT ![r] = v]
                    /\ v = "auth" => at[r] = "idle"
                    /\ v = "dispatched" => ~UsesSession(r)
    PROVE  SessionInv'
    <1> USE DEF GatewayInv, RegistryInv, SessionInv
    <1>1. PlacesCounted'
        BY DEF PlacesCounted, New, Live
    <1>2. UsersCounted'
        BY UsersStay DEF Types
    <1>3. sess' \in [Requests -> {"none", "new", "open", "closed"}]
        BY DEF SessionsKnown
    <1>4. SessionsKnown'
        <2>1. CASE at' = at
            BY <2>1, <1>3, KnownStays
        <2>2. CASE at' # at
            <3>1. PICK v \in {"auth", "fast", "dispatched", "done"} :
                        /\ at' = [at EXCEPT ![r] = v]
                        /\ v = "auth" => at[r] = "idle"
                        /\ v = "dispatched" => ~UsesSession(r)
                BY <2>2
            <3> QED
                BY <3>1, <1>3, KnownMoves
        <2> QED
            BY <2>1, <2>2
    <1> QED
        BY <1>1, <1>2, <1>4

\* A request that is not handed to a transport is answered.
LEMMA RefusedKeeps ==
    ASSUME GatewayInv, NEW r \in Requests, at[r] \in {"idle", "auth"}, Answer(r),
           UNCHANGED <<registryVars, op, signalled, unseen, setup, due, sess, creations, users>>
    PROVE  GatewayInv'
    <1>1. RegistryInv'
        BY RegistryQuiet DEF GatewayInv, Answer, RegistryInv, Types
    <1>2. SessionInv'
        BY SessionsQuiet DEF Answer
    <1> QED
        BY <1>1, <1>2 DEF GatewayInv

\* POST, for every way that a body can take.
LEMMA PostKeeps ==
    ASSUME GatewayInv, NEW r \in Requests, at[r] \in {"idle", "auth"}, setup' = setup,
           PostRefused(r) \/ PostCancels(r) \/ PostFast(r) \/ PostDispatched(r) \/ PostInitializes(r)
    PROVE  GatewayInv'
    <1> USE DEF sessionVars
    <1>0. Types /\ SessionsKnown /\ UsersCounted /\ PlacesCounted /\ RegistryInv
        BY DEF GatewayInv, RegistryInv, SessionInv
    <1>1. CASE PostRefused(r)
        BY <1>1, RefusedKeeps DEF PostRefused
    <1>2. CASE PostCancels(r)
        <2>1. RegistryInv'
            BY <1>0, <1>2, RegistryCancels
        <2>2. SessionInv'
            BY <1>2, SessionsQuiet DEF PostCancels, Answer
        <2> QED
            BY <2>1, <2>2 DEF GatewayInv
    <1>3. CASE PostFast(r)
        <2>1. PICK c \in CallsOf(r) :
                  \/ /\ Begin(OperationScope(r), CancellationScope(r), c, FALSE)
                     /\ op' = [op EXCEPT ![c] = "running"]
                     /\ at' = [at EXCEPT ![r] = "fast"]
                  \/ /\ Duplicate(OperationScope(r), c)
                     /\ op' = [op EXCEPT ![c] = "refused"]
                     /\ Answer(r)
                     /\ UNCHANGED registryVars
            BY <1>3 DEF PostFast
        <2>2. c \in Calls /\ c[1] = r /\ c \in CallsOf(c[1])
            BY <1>0, BodiesKnown
        <2>3. UNCHANGED <<signalled, unseen, sess, creations, users, due>>
            BY <1>3 DEF PostFast
        <2>4. RegistryInv'
            <3>1. CASE /\ Begin(OperationScope(r), CancellationScope(r), c, FALSE)
                       /\ op' = [op EXCEPT ![c] = "running"]
                       /\ at' = [at EXCEPT ![r] = "fast"]
                BY <1>0, <2>2, <2>3, <3>1, RegistryBegins
            <3>2. CASE /\ op' = [op EXCEPT ![c] = "refused"]
                       /\ Answer(r)
                       /\ UNCHANGED registryVars
                BY <1>0, <2>2, <2>3, <3>2, RegistryRefuses DEF Answer
            <3> QED
                BY <2>1, <3>1, <3>2
        <2>5. SessionInv'
            BY <2>1, <2>3, SessionsQuiet DEF Answer
        <2> QED
            BY <2>4, <2>5 DEF GatewayInv
    <1>4. CASE PostDispatched(r)
        <2>1. /\ Dispatch(r) /\ ~Creates(r) /\ PostAccepted(r)
              /\ users' = IF UsesSession(r) THEN [users EXCEPT ![SessionOf(r)] = @ + 1] ELSE users
              /\ UNCHANGED <<sess, creations>>
            BY <1>4 DEF PostDispatched
        <2>2. RegistryInv'
            BY <1>0, <2>1, RegistryDispatches
        <2>3. at' = [at EXCEPT ![r] = "dispatched"]
            BY <2>1 DEF Dispatch
        <2>4. CASE ~UsesSession(r)
            BY <2>1, <2>2, <2>3, <2>4, SessionsQuiet DEF GatewayInv
        <2>5. CASE UsesSession(r)
            <3>1. SessionOf(r) \in Requests /\ sess[SessionOf(r)] = "open"
                BY <1>0, <2>1, <2>5, BodiesKnown DEF PostAccepted, UsesSession, SessionOf, Found
            <3>2. UsersCounted'
                BY <1>0, <2>1, <2>3, <2>5, UserEnters
            <3>3. sess' \in [Requests -> {"none", "new", "open", "closed"}]
                BY <1>0, <2>1 DEF SessionsKnown
            <3>4. SessionsKnown'
                BY <1>0, <2>1, <2>3, <3>1, <3>3, KnownMoves
            <3>5. PlacesCounted'
                BY <1>0, <2>1 DEF PlacesCounted, New, Live
            <3> QED
                BY <2>2, <3>2, <3>4, <3>5 DEF GatewayInv, SessionInv
        <2> QED
            BY <2>4, <2>5
    <1>5. CASE PostInitializes(r)
        <2>0. Creates(r)
            BY <1>5 DEF PostInitializes
        <2>1. CASE ~Stateful /\ Dispatch(r) /\ UNCHANGED sessionVars
            <3>1. RegistryInv'
                BY <1>0, <2>1, RegistryDispatches
            <3>2. at' = [at EXCEPT ![r] = "dispatched"] /\ ~UsesSession(r)
                BY <2>1 DEF Dispatch, UsesSession
            <3> QED
                BY <2>1, <3>1, <3>2, SessionsQuiet DEF GatewayInv
        <2>2. CASE /\ Stateful /\ HasCapacity
                   /\ Dispatch(r)
                   /\ sess' = [sess EXCEPT ![r] = "new"]
                   /\ creations' = creations + 1
                   /\ users' = [users EXCEPT ![r] = 1]
            <3>1. RegistryInv'
                BY <1>0, <2>2, RegistryDispatches
            <3>2. at' = [at EXCEPT ![r] = "dispatched"]
                BY <2>2 DEF Dispatch
            <3>3. UsesSession(r) /\ SessionOf(r) = r
                BY <2>0, <2>2, SetupsAssumption DEF UsesSession, SessionOf
            <3>4. sess[r] = "none"
                BY <1>0 DEF SessionsKnown
            <3>5. users[r] = 0
                <4>1. Using(r) = {}
                    BY <1>0, <3>4 DEF SessionsKnown, Using
                <4> QED
                    BY <4>1, <1>0, FS_EmptySet DEF UsersCounted
            <3>6. UsersCounted'
                <4>1. users' = [users EXCEPT ![SessionOf(r)] = @ + 1]
                    BY <1>0, <2>2, <3>3, <3>5 DEF UsersCounted
                <4> QED
                    BY <4>1, <1>0, <3>2, <3>3, UserEnters
            <3>7. sess' \in [Requests -> {"none", "new", "open", "closed"}]
                BY <1>0, <2>2 DEF SessionsKnown
            <3>8. /\ sess'[r] = "new"
                  /\ \A s \in Requests : s # r => sess'[s] = sess[s]
                BY <1>0, <2>2 DEF SessionsKnown
            <3>9. SessionsKnown'
                <4>1. \A s \in Requests : \/ sess'[s] = "none" <=> sess[s] = "none"
                                          \/ s = r /\ sess'[s] # "none"
                    BY <3>8
                <4>2. sess'[SessionOf(r)] # "none"
                    BY <3>3, <3>8
                <4> QED
                    BY <1>0, <3>2, <3>7, <4>1, <4>2, KnownMoves
            <3>10. PlacesCounted'
                BY <1>0, <2>2, <3>4, CreatedCounts
            <3> QED
                BY <3>1, <3>6, <3>9, <3>10 DEF GatewayInv, SessionInv
        <2>3. CASE Answer(r) /\ UNCHANGED <<registryVars, op, signalled, unseen, sessionVars, due>>
            BY <2>3, RefusedKeeps
        <2> QED
            BY <1>5, <2>1, <2>2, <2>3 DEF PostInitializes
    <1> QED
        BY <1>1, <1>2, <1>3, <1>4, <1>5

\* GET and DELETE use a session, and without one they are refused.
LEMMA GetOrDeleteKeeps ==
    ASSUME GatewayInv, NEW r \in Requests, at[r] \in {"idle", "auth"}, setup' = setup, GetOrDelete(r)
    PROVE  GatewayInv'
    <1> USE DEF sessionVars
    <1> DEFINE found == Stateful /\ Body(r).header # None /\ Found(r)
    <1>0. Types /\ SessionsKnown /\ UsersCounted /\ PlacesCounted /\ RegistryInv
        BY DEF GatewayInv, RegistryInv, SessionInv
    <1>1. UNCHANGED <<registryVars, op, signalled, unseen, due>>
        BY DEF GetOrDelete
    <1>a. signalled' \subseteq Requests /\ unseen' \subseteq Requests
        BY <1>0, <1>1 DEF Types
    <1>2. CASE Answer(r) /\ UNCHANGED sessionVars
        BY <1>1, <1>2, RefusedKeeps
    <1>3. CASE /\ found
               /\ at' = [at EXCEPT ![r] = "stream"]
               /\ users' = [users EXCEPT ![Body(r).header] = @ + 1]
               /\ UNCHANGED <<sess, creations, closed>>
        <2>1. UsesSession(r) /\ SessionOf(r) = Body(r).header /\ SessionOf(r) \in Requests
            BY <1>0, <1>3, BodiesKnown DEF UsesSession, SessionOf, Creates
        <2>2. sess[SessionOf(r)] = "open"
            BY <1>3, <2>1 DEF Found
        <2>3. RegistryInv'
            BY <1>0, <1>1, <1>a, <1>3, RegistryQuiet
        <2>4. UsersCounted'
            BY <1>0, <1>3, <2>1, UserEnters
        <2>5. sess' \in [Requests -> {"none", "new", "open", "closed"}]
            BY <1>0, <1>3 DEF SessionsKnown
        <2>6. SessionsKnown'
            BY <1>0, <1>3, <2>1, <2>2, <2>5, KnownMoves
        <2>7. PlacesCounted'
            BY <1>0, <1>3 DEF PlacesCounted, New, Live
        <2> QED
            BY <2>3, <2>4, <2>6, <2>7 DEF GatewayInv, SessionInv
    <1> QED
        BY <1>2, <1>3 DEF GetOrDelete

\* Sessions that expire or are deleted, and the end of the gateway, close live sessions only.
LEMMA CloseKeeps ==
    ASSUME GatewayInv, NEW S \in SUBSET Live, CloseSessions(S),
           UNCHANGED <<registryVars, setup, handlerVars, users, due>>
    PROVE  GatewayInv'
    <1> USE DEF handlerVars, registryVars
    <1>0. Types /\ SessionsKnown /\ UsersCounted /\ PlacesCounted /\ RegistryInv
        BY DEF GatewayInv, RegistryInv, SessionInv
    <1>1. RegistryInv'
        BY <1>0, RegistryStutters DEF Types
    <1>2. UsersCounted'
        BY <1>0, UsersStay
    <1>3. /\ sess' \in [Requests -> {"none", "new", "open", "closed"}]
          /\ \A s \in Requests : sess'[s] = "none" <=> sess[s] = "none"
        BY <1>0 DEF SessionsKnown, CloseSessions, Live
    <1>4. SessionsKnown'
        BY <1>0, <1>3, KnownStays
    <1>5. PlacesCounted'
        BY <1>0, ClosedCounts DEF Live
    <1> QED
        BY <1>1, <1>2, <1>4, <1>5 DEF GatewayInv, SessionInv

\* From the arrival of a request to its answer.
LEMMA HandlerKeeps ==
    ASSUME GatewayInv, NEW r \in Requests, HandlerStep(r)
    PROVE  GatewayInv'
    <1> USE DEF sessionVars, handlerVars
    <1>0. Types /\ SessionsKnown /\ UsersCounted /\ PlacesCounted /\ RegistryInv
        BY DEF GatewayInv, RegistryInv, SessionInv
    <1>a. signalled \subseteq Requests /\ unseen \subseteq Requests
        BY <1>0 DEF Types
    <1>1. CASE Verify(r)
        <2>1. /\ at[r] = "idle" /\ at' = [at EXCEPT ![r] = "auth"]
              /\ UNCHANGED <<registryVars, setup, op, signalled, unseen, sess, creations, users, due>>
            BY <1>1 DEF Verify, Arrived
        <2>2. RegistryInv'
            BY <1>0, <1>a, <2>1, RegistryQuiet
        <2>3. SessionInv'
            BY <2>1, SessionsQuiet
        <2> QED
            BY <2>2, <2>3 DEF GatewayInv
    <1>2. CASE LeavesUnseen(r)
        <2>1. /\ unseen' \subseteq Requests
              /\ UNCHANGED <<registryVars, setup, at, op, signalled, sess, creations, users, due>>
            BY <1>2, <1>a DEF LeavesUnseen
        <2>2. RegistryInv'
            BY <1>0, <1>a, <2>1, RegistryStutters DEF registryVars, Types
        <2>3. SessionInv'
            BY <2>1, SessionsQuiet
        <2> QED
            BY <2>2, <2>3 DEF GatewayInv
    <1>3. CASE Handle(r)
        <2>1. at[r] \in {"idle", "auth"} /\ setup' = setup
            BY <1>3 DEF Handle, Trusted, Arrived, Verified
        <2> QED
            BY <1>3, <2>1, PostKeeps, GetOrDeleteKeeps DEF Handle
    <1>4. CASE Rejected(r)
        BY <1>4, RefusedKeeps DEF Rejected
    <1>5. CASE Initialized(r)
        <2>1. /\ sess[r] = "new" /\ sess' = [sess EXCEPT ![r] = "open"] /\ creations' = creations - 1
              /\ UNCHANGED <<active, cancellationTargets, pending, stopped, setup, at, op, signalled,
                             unseen, users, due>>
            BY <1>5 DEF Initialized, registryVars
        <2>2. RegistryInv'
            BY <1>0, <1>a, <2>1, RegistryStutters DEF Types
        <2>3. UsersCounted'
            BY <1>0, <2>1, UsersStay
        <2>4. /\ sess' \in [Requests -> {"none", "new", "open", "closed"}]
              /\ \A s \in Requests : sess'[s] = "none" <=> sess[s] = "none"
            BY <1>0, <2>1 DEF SessionsKnown
        <2>5. SessionsKnown'
            BY <1>0, <2>1, <2>4, KnownStays
        <2>6. PlacesCounted'
            BY <1>0, <2>1, InitializedCounts
        <2> QED
            BY <2>2, <2>3, <2>5, <2>6 DEF GatewayInv, SessionInv
    <1>6. CASE Return(r)
        <2>1. /\ at[r] = "dispatched" /\ at' = [at EXCEPT ![r] = "done"]
              /\ setup' = setup
              /\ users' = IF UsesSession(r) THEN [users EXCEPT ![SessionOf(r)] = @ - 1] ELSE users
              /\ CloseSessions({s \in {r} : sess[s] = "new"})
            BY <1>6 DEF Return, Answer
        <2>2. RegistryInv'
            BY <1>0, <1>6, RegistryReturns
        <2>3. UsersCounted'
            <3>1. CASE UsesSession(r)
                BY <1>0, <2>1, <3>1, UserLeaves
            <3>2. CASE ~UsesSession(r)
                BY <1>0, <2>1, <3>2, UsersStay DEF Types
            <3> QED
                BY <3>1, <3>2
        <2>4. /\ sess' \in [Requests -> {"none", "new", "open", "closed"}]
              /\ \A s \in Requests : sess'[s] = "none" <=> sess[s] = "none"
            BY <1>0, <2>1 DEF SessionsKnown, CloseSessions
        <2>5. SessionsKnown'
            BY <1>0, <2>1, <2>4, KnownMoves
        <2>6. {s \in {r} : sess[s] = "new"} \in SUBSET Requests
            OBVIOUS
        <2>7. PlacesCounted'
            BY <1>0, <2>1, <2>6, ClosedCounts
        <2> QED
            BY <2>2, <2>3, <2>5, <2>7 DEF GatewayInv, SessionInv
    <1>7. CASE StreamEnds(r)
        <2>1. /\ at[r] = "stream" /\ at' = [at EXCEPT ![r] = "done"]
              /\ users' = [users EXCEPT ![Body(r).header] = @ - 1]
              /\ CloseSessions({s \in {Body(r).header} : Deletes(r)})
              /\ UNCHANGED <<registryVars, setup, op, signalled, unseen, due>>
            BY <1>7 DEF StreamEnds, Answer
        <2>2. /\ UsesSession(r) /\ SessionOf(r) = Body(r).header
              /\ Body(r).header \in Requests /\ sess[Body(r).header] # "none"
            BY <1>0, <2>1, BodiesKnown DEF SessionsKnown
        <2>3. RegistryInv'
            BY <1>0, <1>a, <2>1, RegistryQuiet
        <2>4. UsersCounted'
            BY <1>0, <2>1, <2>2, UserLeaves
        <2>5. /\ sess' \in [Requests -> {"none", "new", "open", "closed"}]
              /\ \A s \in Requests : sess'[s] = "none" <=> sess[s] = "none"
            BY <1>0, <2>1, <2>2 DEF SessionsKnown, CloseSessions
        <2>6. SessionsKnown'
            BY <1>0, <2>1, <2>5, KnownMoves
        <2>7. {s \in {Body(r).header} : Deletes(r)} \in SUBSET Requests
            BY <2>2
        <2>8. PlacesCounted'
            BY <1>0, <2>1, <2>7, ClosedCounts
        <2> QED
            BY <2>3, <2>4, <2>6, <2>8 DEF GatewayInv, SessionInv
    <1>8. CASE Notice(r)
        <2>1. /\ signalled' = signalled \cup {r}
              /\ stopped' = stopped \cup {c \in CallsOf(r) : op[c] = "running"}
              /\ UNCHANGED <<active, cancellationTargets, pending, setup, at, op, unseen, sess,
                             creations, users, due>>
            BY <1>8 DEF Notice
        <2>2. RegistryInv'
            BY <1>0, <1>a, <2>1, BodiesKnown, RegistryStutters DEF Types
        <2>3. SessionInv'
            BY <2>1, SessionsQuiet
        <2> QED
            BY <2>2, <2>3 DEF GatewayInv
    <1>9. CASE SessionDeleted(r)
        <2>1. {Body(r).header} \in SUBSET Live
            BY <1>0, <1>9, BodiesKnown DEF SessionDeleted, SessionsKnown, Live
        <2> QED
            BY <1>9, <2>1, CloseKeeps DEF SessionDeleted
    <1> QED
        BY <1>1, <1>2, <1>3, <1>4, <1>5, <1>6, <1>7, <1>8, <1>9 DEF HandlerStep

\* The steps of a call.
LEMMA CallKeeps ==
    ASSUME GatewayInv, NEW c \in Calls, CallStep(c)
    PROVE  GatewayInv'
    <1> USE DEF sessionVars, handlerVars
    <1>0. RegistryInv /\ Types
        BY DEF GatewayInv, RegistryInv
    <1>a. c[1] \in Requests /\ signalled \subseteq Requests /\ unseen \subseteq Requests
        BY <1>0 DEF Types, Calls
    <1>1. CASE BeginCall(c)
        <2>1. RegistryInv'
            BY <1>0, <1>1, RegistryBegins DEF BeginCall
        <2>2. SessionInv'
            BY <1>1, <1>a, SessionsQuiet DEF BeginCall
        <2> QED
            BY <2>1, <2>2 DEF GatewayInv
    <1>2. CASE NeverBegins(c)
        <2>1. RegistryInv'
            BY <1>0, <1>2, RegistryRefuses DEF NeverBegins
        <2>2. SessionInv'
            BY <1>2, <1>a, SessionsQuiet DEF NeverBegins
        <2> QED
            BY <2>1, <2>2 DEF GatewayInv
    <1>3. CASE OperationEnds(c)
        <2>1. RegistryInv'
            BY <1>0, <1>3, RegistryReleases
        <2>2. UNCHANGED <<setup, sess, creations, users>>
            BY <1>3 DEF OperationEnds
        <2>3. at' = at \/ (at[c[1]] = "fast" /\ at' = [at EXCEPT ![c[1]] = "done"])
            BY <1>0, <1>3, <1>a DEF OperationEnds, Types
        <2>4. SessionInv'
            BY <1>a, <2>2, <2>3, SessionsQuiet
        <2> QED
            BY <2>1, <2>4 DEF GatewayInv
    <1>4. CASE SdkAborts(c)
        <2>1. RegistryInv'
            BY <1>0, <1>4, <1>a, RegistryStutters DEF SdkAborts, Types
        <2>2. SessionInv'
            BY <1>4, <1>a, SessionsQuiet DEF SdkAborts
        <2> QED
            BY <2>1, <2>2 DEF GatewayInv
    <1> QED
        BY <1>1, <1>2, <1>3, <1>4 DEF CallStep

\* Every step of the gateway, of its clients and of the connector keeps the invariant.
LEMMA GatewayNext ==
    ASSUME GatewayInv, [Next]_vars PROVE GatewayInv'
    <1>0. RegistryInv /\ Types /\ SessionInv
        BY DEF GatewayInv, RegistryInv
    <1>1. ASSUME UNCHANGED gatewayVars PROVE GatewayInv'
        <2>1. UNCHANGED <<active, cancellationTargets, pending, stopped, setup, at, op, signalled,
                          unseen, sess, creations, users, due>>
            BY <1>1 DEF gatewayVars, registryVars, handlerVars, sessionVars
        <2>2. RegistryInv'
            BY <1>0, <2>1, RegistryStutters DEF Types
        <2>3. SessionsKnown' /\ PlacesCounted' /\ UsersCounted'
            BY <1>0, <2>1, KnownStays, UsersStay DEF SessionInv, SessionsKnown, PlacesCounted, New, Live
        <2> QED
            BY <2>2, <2>3 DEF GatewayInv, SessionInv
    <1>2. CASE Connection
        BY <1>1, <1>2 DEF Connection
    <1>3. CASE \E r \in Requests : FromEdge(r) \/ Answered(r) \/ Client(r)
        BY <1>1, <1>3 DEF FromEdge, Answered, Client
    <1>4. CASE \E r \in Requests : HandlerStep(r)
        BY <1>4, HandlerKeeps
    <1>5. CASE \E r \in Requests : Expire(r)
        <2>1. PICK r \in Requests : Expire(r)
            BY <1>5
        <2>2. {r} \in SUBSET Live
            BY <2>1 DEF Expire, Live
        <2> QED
            BY <2>1, <2>2, CloseKeeps DEF Expire
    <1>6. CASE \E c \in Calls : CallStep(c)
        BY <1>6, CallKeeps
    <1>7. CASE Close
        <2>1. {s \in Requests : sess[s] \in {"new", "open"}} \in SUBSET Live
            BY DEF Live
        <2> QED
            BY <1>7, <2>1, CloseKeeps DEF Close
    <1>8. CASE UNCHANGED vars
        BY <1>1, <1>8 DEF vars, gatewayVars
    <1> QED
        BY <1>2, <1>3, <1>4, <1>5, <1>6, <1>7, <1>8 DEF Next

\* The invariant holds in every state of the gateway.
LEMMA GatewayAlways == Spec => []GatewayInv
    BY GatewayInit, GatewayNext, PTL DEF Spec

-----------------------------------------------------------------------------
(***************************************************************************)
(* Theorems                                                                *)
(***************************************************************************)
\* The state of the handlers, of the registry and of the sessions keeps its types.
THEOREM GatewayTypes == Spec => []TypeOK
    <1>1. GatewayInv => TypeOK
        <2> SUFFICES ASSUME GatewayInv PROVE TypeOK
            OBVIOUS
        <2>1. creations \in Nat
            BY SessionsFinite, FS_CardinalityType
               DEF GatewayInv, RegistryInv, SessionInv, PlacesCounted
        <2>2. users \in [Requests -> Nat]
            BY SessionsFinite, FS_CardinalityType
               DEF GatewayInv, RegistryInv, SessionInv, UsersCounted
        <2> QED
            BY <2>1, <2>2 DEF TypeOK, GatewayInv, RegistryInv, SessionInv, Types, SessionsKnown
    <1> QED
        BY <1>1, GatewayAlways, PTL

\* No cancellation is lost, however it races the beginning of the operation and whatever
\* other requests are in progress: an operation whose call its client has cancelled runs
\* with an aborted context (registerPending, begin and cancel of McpOperationRegistry).
THEOREM CancellationHeard == Spec => []CancelIsHeard
    <1>1. GatewayInv => CancelIsHeard
        BY DEF GatewayInv, RegistryInv, Heard, CancelIsHeard
    <1> QED
        BY <1>1, GatewayAlways, PTL

\* The gateway leaks nothing: the registry holds exactly what is running or announced,
\* the places of sessions are exact and within the limit, and the users of every session
\* are counted, with as many requests and sessions as there may be (withToolOperationContext,
\* the finally blocks of the POST handler, closeExperimentalMcpSession).
THEOREM GatewayLeaksNothing == Spec => []NothingLeftBehind
    <1>1. GatewayInv => NothingLeftBehind
        <2> SUFFICES ASSUME GatewayInv PROVE NothingLeftBehind
            OBVIOUS
        <2> USE DEF GatewayInv, RegistryInv, SessionInv
        <2>1. {a.call : a \in active} = {c \in Calls : op[c] = "running"}
            <3>1. \A a \in active : a.call \in Running
                BY DEF RegistryExact
            <3>2. \A c \in Running : \E a \in active : a.call = c
                <4> TAKE c \in Running
                <4>1. [key |-> OpKey(c), call |-> c] \in active
                    BY DEF RegistryExact
                <4> WITNESS [key |-> OpKey(c), call |-> c] \in active
                <4> QED
                    OBVIOUS
            <3> QED
                BY <3>1, <3>2 DEF Running
        <2>2. {t.call : t \in cancellationTargets} = {c \in Calls : op[c] = "running"}
            <3>1. \A t \in cancellationTargets : t.call \in Running
                BY DEF RegistryExact
            <3>2. \A c \in Running : \E t \in cancellationTargets : t.call = c
                <4> TAKE c \in Running
                <4>1. [key |-> CancelKey(c), call |-> c] \in cancellationTargets
                    BY DEF RegistryExact
                <4> WITNESS [key |-> CancelKey(c), call |-> c] \in cancellationTargets
                <4> QED
                    OBVIOUS
            <3> QED
                BY <3>1, <3>2 DEF Running
        <2>3. {e.call : e \in pending} =
                 {c \in Calls : at[c[1]] = "dispatched" /\ op[c] \in {"waiting", "refused"}}
            <3>1. \A c, b : Entry(c, b).call = c
                BY DEF Entry
            <3> QED
                BY <3>1 DEF RegistryExact, Announced
        <2>4. \A s \in Requests : users[s] = Cardinality(Using(s))
            BY DEF UsersCounted
        <2> QED
            BY <2>1, <2>2, <2>3, <2>4 DEF NothingLeftBehind, PlacesCounted, New, Live, Using
    <1> QED
        BY <1>1, GatewayAlways, PTL

=============================================================================
