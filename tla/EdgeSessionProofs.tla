---------------------------- MODULE EdgeSessionProofs ----------------------------
(***************************************************************************)
(* Proofs about the contract rollout of the edge session, for any set of   *)
(* revisions, connector processes and requests and any bounds.             *)
(***************************************************************************)
EXTENDS EdgeSession, FiniteSetTheorems, TLAPS

-----------------------------------------------------------------------------
(***************************************************************************)
(* The rollout functions                                                   *)
(***************************************************************************)

\* Whatever is stored, reconcileMcpContractRolloutState returns a state that
\* isMcpContractRolloutState accepts and that a second run leaves alone.
LEMMA ReconcileStable ==
    ASSUME NEW st, NEW b \in Revisions, NEW seen \in Maybe, NEW again \in Maybe
    PROVE  /\ IsRolloutState(Reconcile(st, b, seen))
           /\ Reconcile(Reconcile(st, b, seen), b, again) = Reconcile(st, b, seen)
<1> DEFINE res == Reconcile(st, b, seen)
<1>1. IsRolloutState(res) /\ (res.candidate # None \/ res.active = b)
  <2>1. CASE IsRolloutState(st)
    BY <2>1, NoneAssumption DEF Reconcile, IsRolloutState, Rollouts, Maybe
  <2>2. CASE ~IsRolloutState(st)
    BY <2>2, NoneAssumption DEF Reconcile, IsRolloutState, Rollouts, Maybe
  <2> QED
    BY <2>1, <2>2
<1> HIDE DEF res
<1>2. Reconcile(res, b, again) = res
  BY <1>1 DEF Reconcile
<1> QED
  BY <1>1, <1>2 DEF res

\* A promotion that is allowed leads to a state that the next constructor accepts
\* and, with the same build, leaves alone.
LEMMA PromotedStable ==
    ASSUME NEW st, IsRolloutState(st), NEW b \in Revisions, NEW a, NEW c \in Revisions,
           NEW ready, MayPromote(st, b, a, c, ready), NEW seen
    PROVE  /\ IsRolloutState(Promoted(st, c))
           /\ Reconcile(Promoted(st, c), b, seen) = Promoted(st, c)
BY NoneAssumption DEF MayPromote, Promoted, IsRolloutState, Rollouts, Maybe, Reconcile

\* So does a rollback.
LEMMA RolledBackStable ==
    ASSUME NEW st, IsRolloutState(st), NEW b \in Revisions, NEW a \in Revisions,
           NEW p \in Revisions, NEW ready, MayRollBack(st, b, a, p, ready), NEW seen
    PROVE  /\ IsRolloutState(RolledBack(a, p))
           /\ Reconcile(RolledBack(a, p), b, seen) = RolledBack(a, p)
BY NoneAssumption DEF MayRollBack, RolledBack, IsRolloutState, Rollouts, Maybe, Reconcile

-----------------------------------------------------------------------------
(***************************************************************************)
(* Typing                                                                  *)
(***************************************************************************)

\* The parts of TypeOK that requests and connections change.
RequestTypes ==
    /\ wire \in [Sockets -> SUBSET Requests]
    /\ phase \in [Requests -> {"idle", "reading", "routing", "waiting", "pending", "done"}]
    /\ via \in [Requests -> Sockets \cup {NoSocket}]
    /\ outcome \in [Requests -> Outcomes]

\* A selection is one of the connections, or none.
LEMMA SelectionType ==
    ASSUME NEW sk, NEW st, NEW c, NEW s \in Selection(sk, st, c)
    PROVE  s \in Sockets \cup {NoSocket}
BY DEF Selection, Serving, Best, Usable

\* Telemetry records of a connection are well typed.
LEMMA TelemetryTypes ==
    ASSUME NEW sk \in [Sockets -> Attachments], NEW s \in Sockets, NEW w \in BOOLEAN,
           NEW tel \in Telemetry
    PROVE  /\ TelemetryReady(sk, s) \in Telemetry
           /\ TelemetryDisconnected(tel, Generation(sk, s), w) \in Telemetry
<1>1. Generation(sk, s) \in 0 .. MaxGen
  BY BoundsAssumption DEF Generation, Sockets
<1>2. sk[s].rev \in Maybe
  BY DEF Attachments
<1>3. TelemetryReady(sk, s) \in Telemetry
  BY <1>1, <1>2, BoundsAssumption DEF TelemetryReady, Telemetry
<1> HIDE DEF Generation
<1>4. TelemetryDisconnected(tel, Generation(sk, s), w) \in Telemetry
  BY <1>1, BoundsAssumption DEF TelemetryDisconnected, Telemetry
<1> QED
  BY <1>3, <1>4

\* Every state the constructor can be in satisfies the invariant.
LEMMA InitInv == Init => Inv
<1> SUFFICES ASSUME Init PROVE Inv
  OBVIOUS
<1>1. IsRolloutState(rollout) /\ Reconcile(rollout, build, telemetry.rev) = rollout
  <2>1. build \in Revisions /\ telemetry.rev \in Maybe
    BY DEF Init, Maybe
  <2> QED
    BY <2>1, ReconcileStable DEF Init
<1>2. WakeRestores
  BY <1>1 DEF WakeRestores, Init
<1>3. Unidentified /\ CompatibilityFresh
  BY DEF Init, Unidentified, CompatibilityFresh, Fresh
<1>4. TypeOK
  <2>1. telemetry \in Telemetry
    <3>1. PICK seen \in Maybe :
            telemetry = [ready |-> seen # None, gen |-> IF seen = None THEN 0 ELSE 1,
                         rev |-> seen, grace |-> 0]
      BY DEF Init
    <3> QED
      BY <3>1, BoundsAssumption DEF Telemetry
  <2>2. sock \in [Sockets -> Attachments]
    BY DEF Init, Fresh, Attachments, Maybe
  <2>3. catalog \in Maybe /\ snapshots \subseteq Revisions
    BY DEF Init, CatalogOf, Maybe
  <2>4. rollout \in Rollouts
    BY <1>1 DEF IsRolloutState
  <2>5. wire \in [Sockets -> SUBSET Requests] /\ via \in [Requests -> Sockets \cup {NoSocket}]
    BY DEF Init
  <2>6. /\ phase \in [Requests -> {"idle", "reading", "routing", "waiting", "pending", "done"}]
        /\ outcome \in [Requests -> Outcomes]
    BY DEF Init, Outcomes
  <2>7. changes \in 0 .. MaxChanges /\ restarts \in 0 .. MaxRestarts
    <3>1. changes = 0 /\ restarts = 0
      BY DEF Init
    <3> QED
      BY <3>1, BoundsAssumption
  <2>9. owed \in BOOLEAN
    BY Zenon DEF Init
  <2>8. build \in Revisions /\ cutover \in {"no", "memory", "stored"}
    BY DEF Init
  <2> QED
    BY <2>1, <2>2, <2>3, <2>4, <2>5, <2>6, <2>7, <2>8, <2>9 DEF TypeOK
<1> QED
  BY <1>2, <1>3, <1>4 DEF Inv

-----------------------------------------------------------------------------
(***************************************************************************)
(* Steps                                                                   *)
(***************************************************************************)

\* An answer keeps the state of requests well typed.
LEMMA DoneTyped ==
    ASSUME RequestTypes, NEW r \in Requests, NEW a \in Outcomes, Done(r, a), wire' = wire
    PROVE  RequestTypes'
BY DEF RequestTypes, Done

\* So does a relay to a connection.
LEMMA SentTyped ==
    ASSUME RequestTypes, NEW r \in Requests, NEW s \in Sockets, Sent(r, s)
    PROVE  RequestTypes'
BY DEF RequestTypes, Sent

\* What an accepted rollout state reconciles to does not depend on telemetry, so a
\* step that leaves build, rollout, snapshots and catalog alone keeps WakeRestores.
LEMMA WakeKept == WakeRestores /\ UNCHANGED rolloutVars => WakeRestores'
BY DEF WakeRestores, rolloutVars, Reconcile, CatalogOf

\* A step that leaves rollout and connections alone keeps what is known of them.
LEMMA SocketsKept ==
    ASSUME Inv, UNCHANGED rolloutVars, UNCHANGED sock
    PROVE  Unidentified' /\ WakeRestores' /\ CompatibilityFresh'
<1>1. WakeRestores'
  BY WakeKept DEF Inv
<1>2. Unidentified'
  BY DEF Inv, Unidentified
<1>3. CompatibilityFresh'
  BY DEF Inv, CompatibilityFresh, rolloutVars
<1> QED
  BY <1>1, <1>2, <1>3

\* The steps of a request before and after its relay.
LEMMA RequestStep ==
    ASSUME Inv, NEW r \in Requests,
           Arrive(r) \/ RelayLegacy(r) \/ Routed(r) \/ WaitEnds(r) \/ GiveUp(r)
    PROVE  Inv'
<1> USE DEF rolloutVars, bounds
<1>1. RequestTypes
  BY DEF Inv, TypeOK, RequestTypes
<1>2. NoAnswer(r) \in Outcomes /\ {"refused", "not_configured", "failed"} \subseteq Outcomes
  BY DEF NoAnswer, Outcomes
<1>3. ASSUME Relay(r) PROVE RequestTypes'
  <2>1. CASE Done(r, NoAnswer(r)) /\ UNCHANGED wire
    BY <1>1, <1>2, <2>1, DoneTyped
  <2>2. ASSUME NEW s \in Serving(sock, rollout, NoSocket), Sent(r, s) PROVE RequestTypes'
    <3>1. s \in Sockets
      BY DEF Serving, Best, Usable
    <3> QED
      BY <1>1, <2>2, <3>1, SentTyped
  <2> QED
    BY <1>3, <2>1, <2>2 DEF Relay
<1>4. CASE Arrive(r)
  <2>1. RequestTypes'
    <3>1. PICK sel \in Selection(sock, rollout, NoSocket) :
            IF sel # NoSocket /\ IsLegacy(sel)
            THEN /\ phase' = [phase EXCEPT ![r] = "reading"]
                 /\ via' = [via EXCEPT ![r] = sel]
                 /\ UNCHANGED outcome
            ELSE IF catalog = None THEN Done(r, "not_configured")
            ELSE phase' = [phase EXCEPT ![r] = "routing"] /\ UNCHANGED <<via, outcome>>
      BY <1>4 DEF Arrive
    <3>2. sel \in Sockets \cup {NoSocket} /\ wire' = wire
      BY <1>4, SelectionType DEF Arrive
    <3>3. CASE Done(r, "not_configured")
      BY <1>1, <1>2, <3>2, <3>3, DoneTyped
    <3> QED
      BY <1>1, <3>1, <3>2, <3>3 DEF RequestTypes
  <2>2. UNCHANGED <<rolloutVars, cutover, sock, telemetry, bounds, owed>>
    BY <1>4 DEF Arrive
  <2> QED
    BY <2>1, <2>2, SocketsKept DEF Inv, TypeOK, RequestTypes
<1>5. CASE RelayLegacy(r)
  <2>1. RequestTypes'
    <3>1. CASE sock[via[r]].st \in {"open", "closing", "errored"} /\ Sent(r, via[r])
      BY <1>1, <3>1 DEF RequestTypes, Sent
    <3>2. CASE (Done(r, "failed") \/ Done(r, "refused")) /\ UNCHANGED wire
      BY <1>1, <1>2, <3>2, DoneTyped
    <3> QED
      BY <1>5, <3>1, <3>2 DEF RelayLegacy
  <2>2. UNCHANGED <<rolloutVars, cutover, sock, telemetry, bounds, owed>>
    BY <1>5 DEF RelayLegacy
  <2> QED
    BY <2>1, <2>2, SocketsKept DEF Inv, TypeOK, RequestTypes
<1>6. CASE Routed(r)
  <2>1. RequestTypes'
    <3>1. CASE Done(r, "refused") /\ UNCHANGED wire
      BY <1>1, <1>2, <3>1, DoneTyped
    <3>2. CASE phase' = [phase EXCEPT ![r] = "waiting"] /\ UNCHANGED <<via, outcome, wire>>
      BY <1>1, <3>2 DEF RequestTypes
    <3> QED
      BY <1>3, <1>6, <3>1, <3>2 DEF Routed
  <2>2. UNCHANGED <<rolloutVars, cutover, sock, telemetry, bounds, owed>>
    BY <1>6 DEF Routed
  <2> QED
    BY <2>1, <2>2, SocketsKept DEF Inv, TypeOK, RequestTypes
<1>7. CASE WaitEnds(r)
  <2>1. UNCHANGED <<rolloutVars, cutover, sock, telemetry, bounds, owed>> /\ RequestTypes'
    BY <1>3, <1>7 DEF WaitEnds
  <2> QED
    BY <2>1, SocketsKept DEF Inv, TypeOK, RequestTypes
<1>8. CASE GiveUp(r)
  <2>1. PICK a \in {"timeout", "aborted"} : Done(r, a)
    BY <1>8 DEF GiveUp
  <2>2. a \in Outcomes
    BY DEF Outcomes
  <2>3. UNCHANGED <<rolloutVars, cutover, sock, telemetry, wire, bounds, owed>>
    BY <1>8 DEF GiveUp
  <2>4. RequestTypes'
    BY <1>1, <2>1, <2>2, <2>3, DoneTyped
  <2> QED
    BY <2>3, <2>4, SocketsKept DEF Inv, TypeOK, RequestTypes
<1> QED
  BY <1>4, <1>5, <1>6, <1>7, <1>8

\* A response of a connector.
LEMMA ResponseStep ==
    ASSUME Inv, NEW s \in Sockets, NEW r \in Requests, Respond(s, r)
    PROVE  Inv'
<1> USE DEF rolloutVars, bounds
<1>1. UNCHANGED <<rolloutVars, cutover, sock, telemetry, bounds, owed>>
  BY DEF Respond
<1>2. RequestTypes'
  <2>1. wire' = [wire EXCEPT ![s] = @ \ {r}] /\ RequestTypes
    BY DEF Respond, Inv, TypeOK, RequestTypes
  <2>2. CASE UNCHANGED requestVars
    BY <2>1, <2>2 DEF RequestTypes, requestVars
  <2>3. ASSUME NEW a \in {"response", "too_large"}, Done(r, a) PROVE RequestTypes'
    BY <2>1, <2>3 DEF RequestTypes, Done, Outcomes
  <2> QED
    BY <2>2, <2>3 DEF Respond
<1> QED
  BY <1>1, <1>2, SocketsKept DEF Inv, TypeOK, RequestTypes

\* The cutover becomes durable.
LEMMA CutoverStep == Inv /\ CutoverStored => Inv'
<1> SUFFICES ASSUME Inv, CutoverStored PROVE Inv'
  OBVIOUS
<1> USE DEF rolloutVars, bounds, requestVars
<1> QED
  BY SocketsKept DEF Inv, TypeOK, CutoverStored

\* A connection is opened, or lost.
LEMMA ConnectionStep ==
    ASSUME Inv, NEW s \in Sockets, Upgrade(s) \/ Lose(s)
    PROVE  Inv'
<1> USE DEF rolloutVars, bounds, requestVars
<1>1. PICK st \in {"open", "closing"} : sock' = [sock EXCEPT ![s].st = st]
  BY DEF Upgrade, Lose
<1>2. UNCHANGED <<rolloutVars, telemetry, wire, requestVars, bounds, owed, cutover>>
  BY DEF Upgrade, Lose
<1>3. sock \in [Sockets -> Attachments]
  BY DEF Inv, TypeOK
<1>4. sock' \in [Sockets -> Attachments]
  BY <1>1, <1>3 DEF Attachments
<1>5. TypeOK'
  BY <1>2, <1>4 DEF Inv, TypeOK
<1>6. Unidentified'
  BY <1>1, <1>3 DEF Inv, Unidentified, Attachments
<1>7. WakeRestores'
  BY <1>2, WakeKept DEF Inv
<1>8. CompatibilityFresh'
  <2>1. sock[s].st = "none" \/ sock[s].st = "open"
    BY DEF Upgrade, Lose
  <2>2. sock[s].rev # None => sock[s].compat = Compatible(sock[s].rev, rollout)
    BY <2>1 DEF Inv, Unidentified, CompatibilityFresh
  <2>3. \A x \in Sockets : sock'[x].rev = sock[x].rev /\ sock'[x].compat = sock[x].compat
    BY <1>1, <1>3 DEF Attachments
  <2>4. \A x \in Sockets \ {s} : sock'[x] = sock[x]
    BY <1>1, <1>3
  <2> QED
    BY <1>2, <2>2, <2>3, <2>4 DEF Inv, CompatibilityFresh
<1> QED
  BY <1>5, <1>6, <1>7, <1>8 DEF Inv

\* A connector says that it is ready.
LEMMA ReadyStep ==
    ASSUME Inv, NEW s \in Sockets, ConnectorReady(s)
    PROVE  Inv'
<1> USE DEF rolloutVars, bounds, requestVars
<1> DEFINE rev == IF IsLegacy(s) THEN None ELSE RevisionOf[s[1]]
           att == [st |-> "open", ready |-> TRUE, recorded |-> FALSE, rev |-> rev,
                   compat |-> IsLegacy(s) \/ Compatible(rev, rollout)]
<1>1. sock' = [sock EXCEPT ![s] = att]
  BY DEF ConnectorReady
<1>2. UNCHANGED <<rolloutVars, wire, requestVars, bounds>>
  BY DEF ConnectorReady
<1>3. sock \in [Sockets -> Attachments]
  BY DEF Inv, TypeOK
<1>4. rev \in Maybe
  BY ProcessAssumption DEF Sockets, Maybe
<1>5. att.compat \in BOOLEAN
  BY Zenon DEF IsLegacy, Compatible
<1>6. att \in Attachments
  BY <1>4, <1>5 DEF Attachments
<1>7. sock' \in [Sockets -> Attachments]
  BY <1>1, <1>3, <1>6
<1>8. telemetry' \in Telemetry
  BY <1>7, TelemetryTypes DEF ConnectorReady, Inv, TypeOK
<1>9. owed' \in BOOLEAN
  BY Zenon DEF ConnectorReady
<1>10. cutover' \in {"no", "memory", "stored"}
  BY DEF ConnectorReady, Inv, TypeOK
<1>11. TypeOK'
  BY <1>2, <1>7, <1>8, <1>9, <1>10 DEF Inv, TypeOK
<1>12. Unidentified'
  <2>1. sock'[s] = att /\ \A x \in Sockets \ {s} : sock'[x] = sock[x]
    BY <1>1, <1>3
  <2> QED
    BY <2>1 DEF Inv, Unidentified
<1>13. WakeRestores'
  BY <1>2, WakeKept DEF Inv
<1>14. CompatibilityFresh'
  <2>1. \A x \in Sockets \ {s} : sock'[x] = sock[x]
    BY <1>1, <1>3
  <2>2. sock'[s] = att
    BY <1>1, <1>3
  <2>3. rev # None => att.compat = Compatible(rev, rollout)
    <3>1. rev # None => ~IsLegacy(s)
      OBVIOUS
    <3>2. Compatible(rev, rollout) \in BOOLEAN
      BY DEF Compatible
    <3>3. att.compat = (IsLegacy(s) \/ Compatible(rev, rollout))
      OBVIOUS
    <3> HIDE DEF rev, att
    <3> QED
      BY <3>1, <3>2, <3>3
  <2> QED
    BY <1>2, <2>1, <2>2, <2>3 DEF Inv, CompatibilityFresh
<1> QED
  BY <1>11, <1>12, <1>13, <1>14 DEF Inv

\* A disconnect, by an error or a close event.
LEMMA DisconnectStep ==
    ASSUME Inv, NEW s \in Sockets, SocketError(s) \/ SocketClose(s)
    PROVE  Inv'
<1> USE DEF rolloutVars, bounds, requestVars
<1>1. PICK st \in {"errored", "gone"}, sel \in Selection(sock, rollout, s) :
        RecordDisconnect(s, sel, st)
  BY DEF SocketError, SocketClose
<1>2. UNCHANGED <<rolloutVars, cutover, bounds>> /\ FailPending(s)
  BY DEF SocketError, SocketClose
<1>3. sock \in [Sockets -> Attachments] /\ sock[s].st \in {"open", "closing", "errored"}
  BY DEF Inv, TypeOK, SocketError, SocketClose
<1>4. /\ \A x \in Sockets \ {s} : sock'[x] = sock[x]
      /\ sock'[s].rev = sock[s].rev /\ sock'[s].compat = sock[s].compat
      /\ sock'[s].st = st
      /\ sock' \in [Sockets -> Attachments]
  <2>1. CASE sock[s].recorded
    BY <1>1, <1>3, <2>1 DEF RecordDisconnect, Attachments
  <2>2. CASE ~sock[s].recorded
    <3>1. sock' = [sock EXCEPT ![s] = [st |-> st, ready |-> FALSE, recorded |-> TRUE,
                                       compat |-> @.compat, rev |-> @.rev]]
      BY <1>1, <2>2 DEF RecordDisconnect
    <3> QED
      BY <1>3, <3>1 DEF Attachments
  <2> QED
    BY <2>1, <2>2
<1>5. telemetry' \in Telemetry /\ owed' \in BOOLEAN
  <2>1. telemetry \in Telemetry /\ owed \in BOOLEAN
    BY DEF Inv, TypeOK
  <2>2. CASE UNCHANGED <<telemetry, owed>>
    BY <2>1, <2>2
  <2>3. CASE ~UNCHANGED <<telemetry, owed>>
    <3>1. PICK next \in Selection(sock', rollout, NoSocket) :
            /\ telemetry' =
                 IF next = NoSocket
                 THEN TelemetryDisconnected(telemetry, Generation(sock, s), sock[s].ready)
                 ELSE TelemetryReady(sock', next)
            /\ owed' = (next = NoSocket /\ ~IsLegacy(s))
      BY <1>1, <2>3 DEF RecordDisconnect
    <3>2. next \in Sockets \cup {NoSocket}
      BY SelectionType
    <3>3. sock[s].ready \in BOOLEAN
      BY <1>3 DEF Attachments
    <3>4. telemetry' \in Telemetry
      BY <1>3, <1>4, <2>1, <3>1, <3>2, <3>3, TelemetryTypes
    <3>5. owed' \in BOOLEAN
      BY <3>1, Zenon
    <3> QED
      BY <3>4, <3>5
  <2> QED
    BY <2>2, <2>3
<1>6. RequestTypes'
  <2>1. RequestTypes /\ wire' = [wire EXCEPT ![s] = {}]
    BY DEF Inv, TypeOK, RequestTypes, SocketError, SocketClose
  <2>2. \A r \in Requests : NoAnswer(r) \in Outcomes
    BY DEF NoAnswer, Outcomes
  <2>3. phase' \in [Requests -> {"idle", "reading", "routing", "waiting", "pending", "done"}]
    BY <1>2, <2>1 DEF FailPending, RequestTypes
  <2>4. outcome' \in [Requests -> Outcomes]
    BY <1>2, <2>1, <2>2 DEF FailPending, RequestTypes, Outcomes
  <2> QED
    BY <1>2, <2>1, <2>3, <2>4 DEF FailPending, RequestTypes
<1>7. TypeOK'
  BY <1>2, <1>4, <1>5, <1>6 DEF Inv, TypeOK, RequestTypes
<1>8. Unidentified'
  BY <1>3, <1>4 DEF Inv, Unidentified
<1>9. WakeRestores'
  BY <1>2, WakeKept DEF Inv
<1>10. CompatibilityFresh'
  BY <1>2, <1>3, <1>4 DEF Inv, CompatibilityFresh
<1> QED
  BY <1>7, <1>8, <1>9, <1>10 DEF Inv

\* The object is created anew.
LEMMA RestartStep ==
    ASSUME Inv, NEW b \in Revisions, Restart(b)
    PROVE  Inv'
<1> USE DEF rolloutVars, bounds, requestVars
<1>1. TypeOK
  BY DEF Inv
<1>2. telemetry' = telemetry /\ telemetry.rev \in Maybe
  BY <1>1 DEF Restart, TypeOK, Telemetry
<1>3. build' = b /\ rollout' = Reconcile(rollout, b, telemetry.rev)
  BY DEF Restart
<1>4. /\ IsRolloutState(rollout')
      /\ Reconcile(rollout', build', telemetry'.rev) = rollout'
  BY <1>2, <1>3, ReconcileStable
<1>5. WakeRestores'
  BY <1>4 DEF WakeRestores, Restart
<1>6. \A s \in Sockets : sock'[s].rev = None /\ sock'[s] \in Attachments
  BY DEF Restart, Fresh, Attachments, Maybe
<1>7. Unidentified' /\ CompatibilityFresh'
  BY <1>6 DEF Unidentified, CompatibilityFresh
<1>8. TypeOK'
  <2>1. rollout' \in Rollouts
    BY <1>4 DEF IsRolloutState
  <2>2. snapshots' \subseteq Revisions /\ catalog' \in Maybe
    BY <1>1 DEF TypeOK, Restart, CatalogOf, Maybe
  <2>3. cutover' \in {"no", "memory", "stored"}
    BY <1>1 DEF TypeOK, Restart
  <2>4. sock' \in [Sockets -> Attachments]
    <3>1. sock' = [s \in Sockets |->
                     IF sock[s].st = "none" THEN Fresh ELSE [Fresh EXCEPT !.st = "gone"]]
      BY DEF Restart
    <3> QED
      BY <1>6, <3>1
  <2>5. wire' \in [Sockets -> SUBSET Requests] /\ via' \in [Requests -> Sockets \cup {NoSocket}]
    BY DEF Restart
  <2>6. /\ phase' \in [Requests -> {"idle", "reading", "routing", "waiting", "pending", "done"}]
        /\ outcome' \in [Requests -> Outcomes]
    BY <1>1 DEF TypeOK, Restart, Outcomes
  <2>7. changes' \in 0 .. MaxChanges /\ restarts' \in 0 .. MaxRestarts
    BY <1>1, BoundsAssumption DEF TypeOK, Restart
  <2>8. owed' \in BOOLEAN
    BY Zenon DEF Restart
  <2> QED
    BY <1>1, <1>2, <1>3, <2>1, <2>2, <2>3, <2>4, <2>5, <2>6, <2>7, <2>8 DEF TypeOK
<1> QED
  BY <1>5, <1>7, <1>8 DEF Inv

\* Refreshing attachments changes what they say of compatibility, and no more.
LEMMA RefreshedSockets ==
    ASSUME NEW sk \in [Sockets -> Attachments], NEW st
    PROVE  /\ Refreshed(sk, st) \in [Sockets -> Attachments]
           /\ \A s \in Sockets :
                /\ Refreshed(sk, st)[s].st = sk[s].st
                /\ Refreshed(sk, st)[s].rev = sk[s].rev
                /\ Refreshed(sk, st)[s].ready = sk[s].ready
                /\ Refreshed(sk, st)[s].recorded = sk[s].recorded
                /\ sk[s].st \in {"open", "closing", "errored"} =>
                     Refreshed(sk, st)[s].compat = (IsLegacy(s) \/ Compatible(sk[s].rev, st))
<1> SUFFICES ASSUME NEW s \in Sockets
             PROVE  /\ Refreshed(sk, st)[s] \in Attachments
                    /\ Refreshed(sk, st)[s].st = sk[s].st
                    /\ Refreshed(sk, st)[s].rev = sk[s].rev
                    /\ Refreshed(sk, st)[s].ready = sk[s].ready
                    /\ Refreshed(sk, st)[s].recorded = sk[s].recorded
                    /\ sk[s].st \in {"open", "closing", "errored"} =>
                         Refreshed(sk, st)[s].compat = (IsLegacy(s) \/ Compatible(sk[s].rev, st))
  BY DEF Refreshed
<1> DEFINE fresh == (IsLegacy(s) \/ Compatible(sk[s].rev, st))
<1>1. fresh \in BOOLEAN
  BY Zenon DEF IsLegacy, Compatible
<1>2. Refreshed(sk, st)[s] = IF sk[s].st \in {"none", "gone"} THEN sk[s]
                             ELSE [sk[s] EXCEPT !.compat = fresh]
  BY DEF Refreshed
<1> HIDE DEF fresh
<1>3. sk[s] \in Attachments
  OBVIOUS
<1>4. /\ Refreshed(sk, st)[s] \in Attachments
      /\ Refreshed(sk, st)[s].st = sk[s].st
      /\ Refreshed(sk, st)[s].rev = sk[s].rev
      /\ Refreshed(sk, st)[s].ready = sk[s].ready
      /\ Refreshed(sk, st)[s].recorded = sk[s].recorded
      /\ sk[s].st \in {"open", "closing", "errored"} => Refreshed(sk, st)[s].compat = fresh
  BY <1>1, <1>2, <1>3 DEF Attachments
<1> QED
  BY <1>4 DEF fresh

\* A promotion or a rollback to a state that wakes unchanged.
LEMMA InstallStep ==
    ASSUME Inv, NEW st, IsRolloutState(st), Install(st),
           \A seen : Reconcile(st, build, seen) = st
    PROVE  Inv'
<1> USE DEF requestVars
<1>1. TypeOK
  BY DEF Inv
<1>2. rollout' = st /\ catalog' = st.active /\ sock' = Refreshed(sock, st)
  BY DEF Install
<1>3. UNCHANGED <<build, snapshots, cutover, telemetry, wire, requestVars, restarts>>
  BY DEF Install
<1>4. /\ sock' \in [Sockets -> Attachments]
      /\ \A s \in Sockets : /\ sock'[s].st = sock[s].st
                            /\ sock'[s].rev = sock[s].rev
                            /\ sock[s].st \in {"open", "closing", "errored"} =>
                                 sock'[s].compat = (IsLegacy(s) \/ Compatible(sock[s].rev, st))
  BY <1>1, <1>2, RefreshedSockets DEF TypeOK
<1>5. WakeRestores'
  <2>1. IsRolloutState(rollout') /\ Reconcile(rollout', build', telemetry'.rev) = rollout'
    BY <1>2, <1>3
  <2>2. catalog' = CatalogOf(rollout', snapshots')
    BY <1>2, <1>3 DEF Install, CatalogOf
  <2> QED
    BY <2>1, <2>2 DEF WakeRestores
<1>6. Unidentified'
  BY <1>4 DEF Inv, Unidentified
<1>7. CompatibilityFresh'
  <2> SUFFICES ASSUME NEW s \in Sockets, sock[s].st \in {"open", "closing", "errored"},
                      sock[s].rev # None
               PROVE  sock'[s].compat = Compatible(sock[s].rev, st)
    BY <1>2, <1>4 DEF CompatibilityFresh
  <2>1. ~IsLegacy(s)
    BY DEF Inv, Unidentified
  <2>2. Compatible(sock[s].rev, st) \in BOOLEAN
    BY DEF Compatible
  <2> QED
    BY <1>4, <2>1, <2>2
<1>8. TypeOK'
  <2>1. rollout' \in Rollouts /\ catalog' \in Maybe
    BY <1>2 DEF IsRolloutState, Rollouts, Maybe
  <2>2. changes' \in 0 .. MaxChanges
    BY <1>1, BoundsAssumption DEF TypeOK, Install
  <2>3. owed' \in BOOLEAN
    BY Zenon DEF Install
  <2> QED
    BY <1>1, <1>3, <1>4, <2>1, <2>2, <2>3 DEF TypeOK
<1> QED
  BY <1>5, <1>6, <1>7, <1>8 DEF Inv

\* The active revision is promoted, or rolled back.
LEMMA RolloutStep ==
    ASSUME Inv, NEW a \in Revisions, NEW b \in Revisions, Promote(a, b) \/ RollBack(a, b)
    PROVE  Inv'
<1>1. IsRolloutState(rollout) /\ build \in Revisions
  BY DEF Inv, WakeRestores, TypeOK
<1>2. CASE Promote(a, b)
  <2>1. IsRolloutState(Promoted(rollout, b))
    BY <1>1, <1>2, PromotedStable DEF Promote
  <2>2. \A seen : Reconcile(Promoted(rollout, b), build, seen) = Promoted(rollout, b)
    BY <1>1, <1>2, PromotedStable DEF Promote
  <2> QED
    BY <1>2, <2>1, <2>2, InstallStep DEF Promote
<1>3. CASE RollBack(a, b)
  <2>1. IsRolloutState(RolledBack(a, b))
    BY <1>1, <1>3, RolledBackStable DEF RollBack
  <2>2. \A seen : Reconcile(RolledBack(a, b), build, seen) = RolledBack(a, b)
    BY <1>1, <1>3, RolledBackStable DEF RollBack
  <2> QED
    BY <1>3, <2>1, <2>2, InstallStep DEF RollBack
<1> QED
  BY <1>2, <1>3

-----------------------------------------------------------------------------
(***************************************************************************)
(* Theorems                                                                *)
(***************************************************************************)

\* Every step of the session keeps the invariant.
LEMMA NextInv == Inv /\ [Next]_vars => Inv'
<1> SUFFICES ASSUME Inv, [Next]_vars PROVE Inv'
  OBVIOUS
<1>1. CASE UNCHANGED vars
  <2>1. UNCHANGED <<rolloutVars, sock>>
    BY <1>1 DEF vars
  <2>2. TypeOK'
    BY <1>1 DEF vars, rolloutVars, requestVars, bounds, Inv, TypeOK
  <2> QED
    BY <2>1, <2>2, SocketsKept DEF Inv
<1>2. ASSUME NEW b \in Revisions, Restart(b) PROVE Inv'
  BY <1>2, RestartStep
<1>3. ASSUME NEW s \in Sockets,
             \/ Upgrade(s) \/ ConnectorReady(s) \/ Lose(s) \/ SocketError(s) \/ SocketClose(s)
             \/ \E r \in Requests : Respond(s, r)
      PROVE  Inv'
  BY <1>3, ConnectionStep, ReadyStep, DisconnectStep, ResponseStep
<1>4. CASE CutoverStored
  BY <1>4, CutoverStep
<1>5. ASSUME NEW a \in Revisions, NEW b \in Revisions, Promote(a, b) \/ RollBack(a, b)
      PROVE  Inv'
  BY <1>5, RolloutStep
<1>6. ASSUME NEW r \in Requests,
             Arrive(r) \/ RelayLegacy(r) \/ Routed(r) \/ WaitEnds(r) \/ GiveUp(r)
      PROVE  Inv'
  BY <1>6, RequestStep
<1> QED
  BY <1>1, <1>2, <1>3, <1>4, <1>5, <1>6 DEF Next

\* The session keeps its invariant, whatever connectors, clients, deployments and
\* restarts do.
THEOREM SessionInvariant == Spec => []Inv
<1>1. Init => Inv
  BY InitInv
<1>2. Inv /\ [Next]_vars => Inv'
  BY NextInv
<1> QED
  BY <1>1, <1>2, PTL DEF Spec

\* A wake from hibernation restores exactly the rollout state and the catalog that
\* the session held: what McpSession's constructor computes again is what was there.
THEOREM WakeIsInvisible == Spec => []WakeRestores
<1>1. Inv => WakeRestores
  BY DEF Inv
<1> QED
  BY <1>1, SessionInvariant, PTL

\* contractCompatible, cached in the attachment of a connector, is never stale.
THEOREM CompatibilityNeverStale == Spec => []CompatibilityFresh
<1>1. Inv => CompatibilityFresh
  BY DEF Inv
<1> QED
  BY <1>1, SessionInvariant, PTL

\* A change of contract is served: the connectors found ready for the new revision
\* are exactly those that serve it once their attachments are refreshed.
LEMMA InstallServed ==
    ASSUME Inv, NEW st, st.active \in Revisions, Found(st.active) = st.active, Install(st)
    PROVE  catalog' = rollout'.active /\ Serving(sock', rollout', NoSocket) # {}
<1>1. rollout' = st /\ catalog' = st.active /\ sock' = Refreshed(sock, st)
  BY DEF Install
<1> DEFINE rev == st.active
           ready == {s \in Usable(sock, NoSocket) : ~IsLegacy(s) /\ sock[s].rev = rev}
           serving == {s \in Usable(sock', NoSocket) :
                         ~IsLegacy(s) /\ sock'[s].compat /\ sock'[s].rev = rollout'.active}
<1>2. Best(ready) # {}
  BY NoneAssumption DEF Found, ReadyFor
<1>3. /\ \A s \in Sockets : /\ sock'[s].st = sock[s].st
                            /\ sock'[s].rev = sock[s].rev
                            /\ sock'[s].ready = sock[s].ready
      /\ \A s \in Sockets : sock[s].st \in {"open", "closing", "errored"} =>
                              sock'[s].compat = (IsLegacy(s) \/ Compatible(sock[s].rev, st))
  BY <1>1, RefreshedSockets DEF Inv, TypeOK
<1>4. ready = serving
  <2>1. ASSUME NEW s PROVE s \in ready <=> s \in serving
    <3>1. CASE s \in Sockets /\ s # NoSocket
      <4>1. s \in Usable(sock, NoSocket) <=> s \in Usable(sock', NoSocket)
        BY <1>3, <3>1 DEF Usable
      <4>2. ASSUME s \in ready PROVE sock'[s].compat
        <5>1. sock[s].st = "open" /\ sock[s].rev = rev /\ s \in Sockets
          BY <3>1, <4>2 DEF Usable
        <5>2. Compatible(sock[s].rev, st)
          BY <5>1 DEF Compatible
        <5>3. sock'[s].compat = (IsLegacy(s) \/ Compatible(sock[s].rev, st))
          BY <1>3, <5>1
        <5> QED
          BY <5>2, <5>3
      <4> QED
        BY <1>1, <1>3, <3>1, <4>1, <4>2
    <3>2. CASE s \notin Sockets
      BY <3>2 DEF Usable
    <3>3. NoSocket \notin Sockets
      BY ProcessAssumption DEF NoSocket, Sockets
    <3> QED
      BY <3>1, <3>2, <3>3
  <2> HIDE DEF ready, serving
  <2> QED
    BY <2>1
<1>5. Serving(sock', rollout', NoSocket) = Best(serving)
  BY DEF Serving
<1> HIDE DEF ready, serving
<1> QED
  BY <1>1, <1>2, <1>4, <1>5

\* Only promotion and rollback change the active revision: a restart reconciles to
\* the same one, and every other step leaves the rollout state alone.
LEMMA ActiveStep ==
    ASSUME Inv, [Next]_vars, rollout'.active # rollout.active
    PROVE  catalog' = rollout'.active /\ Serving(sock', rollout', NoSocket) # {}
<1>1. rollout' # rollout
  OBVIOUS
<1>2. ASSUME NEW b \in Revisions, Restart(b) PROVE FALSE
  BY <1>2 DEF Restart, Reconcile, Inv, WakeRestores
<1>3. ASSUME NEW a \in Revisions, NEW b \in Revisions, Promote(a, b)
      PROVE  catalog' = rollout'.active /\ Serving(sock', rollout', NoSocket) # {}
  BY <1>3, InstallServed DEF Promote, MayPromote, Promoted
<1>4. ASSUME NEW a \in Revisions, NEW b \in Revisions, RollBack(a, b)
      PROVE  catalog' = rollout'.active /\ Serving(sock', rollout', NoSocket) # {}
  BY <1>4, InstallServed DEF RollBack, MayRollBack, RolledBack
<1>5. ASSUME \/ UNCHANGED vars \/ CutoverStored
             \/ \E s \in Sockets : \/ Upgrade(s) \/ ConnectorReady(s) \/ Lose(s)
                                   \/ SocketError(s) \/ SocketClose(s)
                                   \/ \E r \in Requests : Respond(s, r)
             \/ \E r \in Requests : \/ Arrive(r) \/ RelayLegacy(r) \/ Routed(r)
                                    \/ WaitEnds(r) \/ GiveUp(r)
      PROVE  FALSE
  <2> USE DEF rolloutVars
  <2>1. ASSUME UNCHANGED rolloutVars PROVE FALSE
    BY <1>1, <2>1
  <2>2. CASE UNCHANGED vars
    BY <2>1, <2>2 DEF vars
  <2>3. CASE CutoverStored
    BY <2>1, <2>3 DEF CutoverStored
  <2>4. ASSUME NEW s \in Sockets,
               \/ Upgrade(s) \/ ConnectorReady(s) \/ Lose(s) \/ SocketError(s)
               \/ SocketClose(s) \/ \E r \in Requests : Respond(s, r)
        PROVE  FALSE
    BY <2>1, <2>4 DEF Upgrade, ConnectorReady, Lose, SocketError, SocketClose, Respond
  <2>5. ASSUME NEW r \in Requests,
               Arrive(r) \/ RelayLegacy(r) \/ Routed(r) \/ WaitEnds(r) \/ GiveUp(r)
        PROVE  FALSE
    BY <2>1, <2>5 DEF Arrive, RelayLegacy, Routed, WaitEnds, GiveUp
  <2> QED
    BY <1>5, <2>2, <2>3, <2>4, <2>5
<1> QED
  BY <1>2, <1>3, <1>4, <1>5 DEF Next

\* Whatever is deployed, promoted and rolled back, the active contract changes only
\* to one whose catalog is stored and which a ready connector serves at that moment.
THEOREM ActiveServed == Spec => ActiveChangeIsServed
<1>1. Inv /\ [Next]_vars =>
        [rollout'.active # rollout.active
           => catalog' = rollout'.active /\ Serving(sock', rollout', NoSocket) # {}]_vars
  BY ActiveStep
<1> QED
  BY <1>1, SessionInvariant, PTL DEF Spec, ActiveChangeIsServed

-----------------------------------------------------------------------------
(***************************************************************************)
(* Relays                                                                  *)
(***************************************************************************)

\* The connection a request is bound to: of protocol 2 while its body is read, and one
\* that still holds the request while it is pending on a connector of protocol 3.
BoundInv ==
    \A r \in Requests :
        /\ phase[r] = "reading" => via[r] \in Sockets /\ IsLegacy(via[r])
        /\ phase[r] = "pending" => via[r] \in Sockets
        /\ phase[r] = "pending" /\ ~IsLegacy(via[r]) =>
             sock[via[r]].st \in {"open", "closing"} /\ r \in wire[via[r]]

\* The pair that stands for no socket is the name of none.
LEMMA NoSocketIs == NoSocket \notin Sockets
BY ProcessAssumption DEF NoSocket, Sockets

\* An answer ends a request and leaves the others alone.
LEMMA DoneBound ==
    ASSUME Inv, BoundInv, NEW r \in Requests, NEW a, Done(r, a), sock' = sock,
           \A s \in Sockets, q \in Requests : q # r /\ q \in wire[s] => q \in wire'[s]
    PROVE  BoundInv'
<1>1. phase'[r] = "done" /\ \A q \in Requests : q # r => phase'[q] = phase[q] /\ via'[q] = via[q]
  BY DEF Done, Inv, TypeOK
<1> QED
  BY <1>1 DEF BoundInv

\* A relay binds a request to an open connection, or to one of protocol 2.
LEMMA SentBound ==
    ASSUME Inv, BoundInv, NEW r \in Requests, NEW s \in Sockets, Sent(r, s), sock' = sock,
           sock[s].st = "open" \/ IsLegacy(s)
    PROVE  BoundInv'
<1>1. phase'[r] = "pending" /\ via'[r] = s
  BY DEF Sent, Inv, TypeOK
<1>2. \A q \in Requests : q # r => phase'[q] = phase[q] /\ via'[q] = via[q]
  BY DEF Sent, Inv, TypeOK
<1>3. r \in wire'[s] /\ \A x \in Sockets : wire[x] \subseteq wire'[x]
  BY DEF Sent, Inv, TypeOK
<1> QED
  BY <1>1, <1>2, <1>3 DEF BoundInv

\* The state of the connections may change, but for the end of one that holds requests.
LEMMA SocketsBound ==
    ASSUME BoundInv, UNCHANGED requestVars,
           \A s \in Sockets : /\ sock[s].st \in {"open", "closing"} => sock'[s].st \in {"open", "closing"}
                              /\ wire'[s] = wire[s]
    PROVE  BoundInv'
BY DEF BoundInv, requestVars

\* relayRequest binds a request to the socket it has selected, which is open and ready.
LEMMA RelayBound ==
    ASSUME Inv, BoundInv, NEW r \in Requests, sock' = sock, Relay(r)
    PROVE  BoundInv'
<1>1. CASE Done(r, NoAnswer(r)) /\ UNCHANGED wire
  BY <1>1, DoneBound
<1>2. ASSUME NEW s \in Serving(sock, rollout, NoSocket), Sent(r, s) PROVE BoundInv'
  <2>1. s \in Sockets /\ sock[s].st = "open"
    BY NoSocketIs DEF Serving, Best, Usable
  <2> QED
    BY <1>2, <2>1, SentBound
<1> QED
  BY <1>1, <1>2 DEF Relay

\* The steps of a request keep its binding to a live socket.
LEMMA RequestBound ==
    ASSUME Inv, BoundInv, NEW r \in Requests,
           Arrive(r) \/ RelayLegacy(r) \/ Routed(r) \/ WaitEnds(r) \/ GiveUp(r)
    PROVE  BoundInv'
<1>0. sock' = sock
  BY DEF Arrive, RelayLegacy, Routed, WaitEnds, GiveUp
<1>1. CASE Arrive(r)
  <2>1. wire' = wire
    BY <1>1 DEF Arrive
  <2>2. ASSUME NEW sel \in Selection(sock, rollout, NoSocket), sel # NoSocket, IsLegacy(sel),
               phase' = [phase EXCEPT ![r] = "reading"], via' = [via EXCEPT ![r] = sel]
        PROVE  BoundInv'
    <3>1. sel \in Sockets
      BY <2>2, SelectionType
    <3>2. /\ phase'[r] = "reading" /\ via'[r] = sel
          /\ \A q \in Requests : q # r => phase'[q] = phase[q] /\ via'[q] = via[q]
      BY <2>2 DEF Inv, TypeOK
    <3> QED
      BY <1>0, <2>1, <2>2, <3>1, <3>2 DEF BoundInv
  <2>3. CASE Done(r, "not_configured")
    BY <1>0, <2>1, <2>3, DoneBound
  <2>4. CASE phase' = [phase EXCEPT ![r] = "routing"] /\ UNCHANGED <<via, outcome>>
    <3>1. phase'[r] = "routing" /\ \A q \in Requests : q # r => phase'[q] = phase[q]
      BY <2>4 DEF Inv, TypeOK
    <3> QED
      BY <1>0, <2>1, <2>4, <3>1 DEF BoundInv
  <2> QED
    BY <1>1, <2>2, <2>3, <2>4 DEF Arrive
<1>2. CASE RelayLegacy(r)
  <2>1. CASE Sent(r, via[r])
    <3>1. via[r] \in Sockets /\ IsLegacy(via[r])
      BY <1>2 DEF RelayLegacy, BoundInv
    <3> QED
      BY <1>0, <2>1, <3>1, SentBound
  <2>2. CASE (Done(r, "failed") \/ Done(r, "refused")) /\ UNCHANGED wire
    BY <1>0, <2>2, DoneBound
  <2> QED
    BY <1>2, <2>1, <2>2 DEF RelayLegacy
<1>3. CASE Routed(r)
  <2>1. CASE Done(r, "refused") /\ UNCHANGED wire
    BY <1>0, <2>1, DoneBound
  <2>2. CASE phase' = [phase EXCEPT ![r] = "waiting"] /\ UNCHANGED <<via, outcome, wire>>
    <3>1. phase'[r] = "waiting" /\ \A q \in Requests : q # r => phase'[q] = phase[q]
      BY <2>2 DEF Inv, TypeOK
    <3> QED
      BY <1>0, <2>2, <3>1 DEF BoundInv
  <2> QED
    BY <1>0, <1>3, <2>1, <2>2, RelayBound DEF Routed
<1>4. CASE WaitEnds(r)
  BY <1>0, <1>4, RelayBound DEF WaitEnds
<1>5. CASE GiveUp(r)
  <2>1. PICK a : Done(r, a)
    BY <1>5 DEF GiveUp
  <2> QED
    BY <1>0, <1>5, <2>1, DoneBound DEF GiveUp
<1> QED
  BY <1>1, <1>2, <1>3, <1>4, <1>5

\* The end of a connection fails the requests bound to it in the same step.
LEMMA ConnectorBound ==
    ASSUME Inv, BoundInv, NEW s \in Sockets,
           \/ Upgrade(s) \/ ConnectorReady(s) \/ Lose(s) \/ SocketError(s) \/ SocketClose(s)
           \/ \E r \in Requests : Respond(s, r)
    PROVE  BoundInv'
<1>0. sock \in [Sockets -> Attachments]
  BY DEF Inv, TypeOK
<1>1. CASE Upgrade(s) \/ Lose(s)
  <2>1. PICK st \in {"open", "closing"} : sock' = [sock EXCEPT ![s].st = st]
    BY <1>1 DEF Upgrade, Lose
  <2>2. \A x \in Sockets : sock'[x].st \in {sock[x].st, st}
    BY <1>0, <2>1 DEF Attachments
  <2> QED
    BY <1>1, <2>2, SocketsBound DEF Upgrade, Lose
<1>2. CASE ConnectorReady(s)
  <2> DEFINE rev == IF IsLegacy(s) THEN None ELSE RevisionOf[s[1]]
             att == [st |-> "open", ready |-> TRUE, recorded |-> FALSE, rev |-> rev,
                     compat |-> IsLegacy(s) \/ Compatible(rev, rollout)]
  <2>1. sock' = [sock EXCEPT ![s] = att] /\ att.st = "open"
    BY <1>2 DEF ConnectorReady
  <2> HIDE DEF att
  <2>2. \A x \in Sockets : sock'[x].st \in {sock[x].st, "open"}
    BY <1>0, <2>1
  <2> QED
    BY <1>2, <2>2, SocketsBound DEF ConnectorReady
<1>3. CASE SocketError(s) \/ SocketClose(s)
  <2>1. PICK st, sel : RecordDisconnect(s, sel, st)
    BY <1>3 DEF SocketError, SocketClose
  <2>2. \A x \in Sockets \ {s} : sock'[x] = sock[x]
    <3>1. CASE sock[s].recorded
      BY <1>0, <2>1, <3>1 DEF RecordDisconnect
    <3>2. CASE ~sock[s].recorded
      <4>1. \E att : sock' = [sock EXCEPT ![s] = att]
        BY <2>1, <3>2 DEF RecordDisconnect
      <4> QED
        BY <1>0, <4>1
    <3> QED
      BY <3>1, <3>2
  <2>3. \A x \in Sockets \ {s} : wire'[x] = wire[x]
    BY <1>3 DEF SocketError, SocketClose, Inv, TypeOK
  <2>4. /\ via' = via
        /\ \A r \in Requests : IF phase[r] = "pending" /\ via[r] = s THEN phase'[r] = "done" ELSE phase'[r] = phase[r]
    BY <1>3 DEF SocketError, SocketClose, FailPending
  <2> QED
    BY <2>2, <2>3, <2>4 DEF BoundInv
<1>4. ASSUME NEW r \in Requests, Respond(s, r) PROVE BoundInv'
  <2>1. \A x \in Sockets, q \in Requests : q # r /\ q \in wire[x] => q \in wire'[x]
    BY <1>4 DEF Respond, Inv, TypeOK
  <2>2. sock' = sock
    BY <1>4 DEF Respond
  <2>3. CASE phase[r] # "pending" /\ UNCHANGED requestVars
    BY <2>1, <2>2, <2>3 DEF BoundInv, requestVars
  <2>4. ASSUME NEW a, Done(r, a) PROVE BoundInv'
    BY <2>1, <2>2, <2>4, DoneBound
  <2> QED
    BY <1>4, <2>3, <2>4 DEF Respond
<1> QED
  BY <1>1, <1>2, <1>3, <1>4

\* BoundInv is inductive.
LEMMA NextBound == Inv /\ BoundInv /\ [Next]_vars => BoundInv'
<1> SUFFICES ASSUME Inv, BoundInv, [Next]_vars PROVE BoundInv'
  OBVIOUS
<1>1. CASE UNCHANGED vars
  BY <1>1, SocketsBound DEF vars
<1>2. ASSUME NEW b \in Revisions, Restart(b) PROVE BoundInv'
  <2>1. \A r \in Requests : phase'[r] \in {"idle", "done"}
    BY <1>2 DEF Restart
  <2> QED
    BY <2>1 DEF BoundInv
<1>3. CASE CutoverStored
  BY <1>3, SocketsBound DEF CutoverStored
<1>4. ASSUME NEW st, Install(st) PROVE BoundInv'
  <2>1. \A s \in Sockets : sock'[s].st = sock[s].st
    BY <1>4, RefreshedSockets DEF Install, Inv, TypeOK
  <2> QED
    BY <1>4, <2>1, SocketsBound DEF Install
<1> QED
  BY <1>1, <1>2, <1>3, <1>4, ConnectorBound, RequestBound DEF Next, Promote, RollBack

\* No request waits for a connector that is gone: webSocketClose and webSocketError fail
\* what is pending on the connection they end, and a relay is sent only on one that is open.
THEOREM RelaysAreLive == Spec => []PendingIsLive
<1>1. Init => BoundInv
  BY DEF Init, BoundInv
<1>2. Inv /\ BoundInv /\ [Next]_vars => BoundInv'
  BY NextBound
<1>3. BoundInv => PendingIsLive
  BY DEF BoundInv, PendingIsLive
<1> QED
  BY <1>1, <1>2, <1>3, SessionInvariant, PTL DEF Spec

-----------------------------------------------------------------------------
(***************************************************************************)
(* The order of connectors                                                 *)
(***************************************************************************)

\* A socket is a process and the number of one of its connections.
LEMMA SocketIs ==
    ASSUME NEW s \in Sockets
    PROVE  /\ s = <<s[1], s[2]>> /\ s[1] \in Processes /\ s[1] \in Nat
           /\ s[2] \in 1 .. MaxGen /\ s[2] \in Nat /\ s[2] # 0
           /\ Started[s[1]] \in Nat
<1>1. PICK p \in Processes, g \in 1 .. MaxGen : s = <<p, g>>
  BY DEF Sockets
<1>2. s[1] = p /\ s[2] = g
  BY <1>1
<1>3. p \in Nat /\ Started[p] \in Nat
  BY ProcessAssumption
<1>4. g \in Nat /\ g # 0
  BY BoundsAssumption
<1> QED
  BY <1>1, <1>2, <1>3, <1>4

\* isPreferredConnectorRuntime is a strict order in which any two connections compare.
LEMMA PreferredOrder ==
    ASSUME NEW s \in Sockets, NEW t \in Sockets, NEW u \in Sockets
    PROVE  /\ ~Preferred(s, s)
           /\ s = t \/ Preferred(s, t) \/ Preferred(t, s)
           /\ Preferred(s, t) /\ Preferred(t, u) => Preferred(s, u)
           /\ Preferred(s, t) => ~Preferred(t, s)
<1>1. PICK p, q, r, a, b, c, x, y, z :
        /\ s = <<p, a>> /\ t = <<q, b>> /\ u = <<r, c>>
        /\ p \in Nat /\ q \in Nat /\ r \in Nat /\ a \in Nat /\ b \in Nat /\ c \in Nat
        /\ x = Started[p] /\ y = Started[q] /\ z = Started[r]
        /\ x \in Nat /\ y \in Nat /\ z \in Nat
  BY SocketIs
<1>2. /\ Preferred(s, t) <=> x > y \/ (x = y /\ (p > q \/ (p = q /\ a > b)))
      /\ Preferred(t, s) <=> y > x \/ (y = x /\ (q > p \/ (q = p /\ b > a)))
      /\ Preferred(t, u) <=> y > z \/ (y = z /\ (q > r \/ (q = r /\ b > c)))
      /\ Preferred(s, u) <=> x > z \/ (x = z /\ (p > r \/ (p = r /\ a > c)))
      /\ Preferred(s, s) <=> x > x \/ (x = x /\ (p > p \/ (p = p /\ a > a)))
  BY <1>1 DEF Preferred
<1>3. p = q /\ a = b => s = t
  BY <1>1
<1> QED
  BY <1>1, <1>2, <1>3

\* Of connectors there are finitely many, so among some of them there is one to select: in a
\* smallest set without one, taking any connector away would leave one, and that or the
\* connector taken away would be the one to select of the set.
LEMMA SomeBest ==
    ASSUME NEW C \in SUBSET Sockets, C # {}
    PROVE  Best(C) # {}
<1> SUFFICES ASSUME Best(C) = {} PROVE FALSE
  OBVIOUS
<1>1. IsFiniteSet(Sockets)
  <2>1. IsFiniteSet(1 .. MaxGen)
    BY FS_Interval, BoundsAssumption
  <2> QED
    BY <2>1, FS_Product, ProcessAssumption DEF Sockets
<1>2. IsWellFoundedOn(StrictSubsetOrdering(Sockets), SUBSET Sockets)
  BY <1>1, FS_StrictSubsetOrderingWellFounded, FS_FiniteSubsetsOfFinite
<1> DEFINE Bad == {T \in SUBSET Sockets : T # {} /\ Best(T) = {}}
<1>3. Bad \subseteq SUBSET Sockets /\ Bad # {}
  OBVIOUS
<1>4. PICK T \in Bad : \A U \in Bad : ~(<<U, T>> \in StrictSubsetOrdering(Sockets))
  <2> HIDE DEF Bad
  <2> QED
    BY <1>2, <1>3, WFMin
<1>5. PICK x \in T : TRUE
  OBVIOUS
<1>6. T \ {x} \notin Bad
  <2>1. <<T \ {x}, T>> \in StrictSubsetOrdering(Sockets)
    BY <1>5 DEF StrictSubsetOrdering
  <2> QED
    BY <1>4, <2>1
<1>7. x \in Sockets /\ ~IsLegacy(x) /\ \E z \in T : Preferred(z, x)
  BY <1>4, <1>5 DEF Best
<1>8. PICK z \in T \ {x} : Preferred(z, x)
  BY <1>4, <1>7, PreferredOrder
<1>9. PICK y \in T \ {x} : \A t \in T \ {x} : ~IsLegacy(y) => ~Preferred(t, y)
  <2>1. Best(T \ {x}) # {}
    BY <1>4, <1>6, <1>8
  <2> QED
    BY <2>1 DEF Best
<1>10. ~IsLegacy(y) /\ Preferred(x, y)
  <2>1. y \notin Best(T) /\ y \in T
    BY <1>4, <1>9
  <2> QED
    BY <1>9, <2>1 DEF Best
<1>11. Preferred(z, y)
  BY <1>4, <1>7, <1>8, <1>9, <1>10, PreferredOrder
<1> QED
  BY <1>8, <1>9, <1>10, <1>11

\* What a connector must have to be selected for protocol 3.
Offers(sk, st, s) == ~IsLegacy(s) /\ sk[s].ready /\ sk[s].compat /\ sk[s].rev = st.active

\* The connector that is selected is the preferred one of those that are open, or closing now;
\* only when there is none is it one of protocol 2, or none.
LEMMA SelectionIs ==
    ASSUME NEW sk, NEW st, NEW c, NEW sel \in Selection(sk, st, c)
    PROVE  \/ /\ sel \in Sockets /\ Offers(sk, st, sel) /\ (sk[sel].st = "open" \/ sel = c)
              /\ \A t \in Sockets : Offers(sk, st, t) /\ (sk[t].st = "open" \/ t = c) => ~Preferred(t, sel)
           \/ /\ sel = NoSocket \/ (sel \in Sockets /\ IsLegacy(sel))
              /\ \A t \in Sockets : Offers(sk, st, t) => sk[t].st # "open" /\ t # c
<1> DEFINE C == {s \in Usable(sk, c) : ~IsLegacy(s) /\ sk[s].compat /\ sk[s].rev = st.active}
           D == {s \in Usable(sk, c) : IsLegacy(s)}
<1>1. \A t \in Sockets : t \in C <=> Offers(sk, st, t) /\ (sk[t].st = "open" \/ t = c)
  BY DEF Usable, Offers
<1>2. C \in SUBSET Sockets /\ D \in SUBSET Sockets /\ \A t \in D : IsLegacy(t)
  BY DEF Usable
<1>3. Serving(sk, st, c) = Best(C)
  BY DEF Serving
<1>4. CASE Best(C) # {}
  <2>1. sel \in Best(C)
    BY <1>3, <1>4 DEF Selection
  <2> HIDE DEF C
  <2>2. sel \in C /\ ~IsLegacy(sel) /\ \A t \in C : ~Preferred(t, sel)
    BY <1>1, <1>2, <2>1 DEF Best, Offers
  <2> QED
    BY <1>1, <1>2, <2>2
<1>5. CASE Best(C) = {}
  <2>1. sel \in Best(D) \cup {NoSocket}
    BY <1>3, <1>5 DEF Selection
  <2> HIDE DEF C, D
  <2>2. C = {}
    BY <1>2, <1>5, SomeBest
  <2>3. sel = NoSocket \/ (sel \in Sockets /\ IsLegacy(sel))
    BY <1>2, <2>1 DEF Best
  <2> QED
    BY <1>1, <2>2, <2>3
<1> QED
  BY <1>4, <1>5

-----------------------------------------------------------------------------
(***************************************************************************)
(* The reconnect grace                                                     *)
(***************************************************************************)

\* A connection that is not there, or whose end has been recorded, is not ready.
EndedInv == \A s \in Sockets : sock[s].recorded \/ sock[s].st \in {"none", "errored", "gone"} => ~sock[s].ready

Candidate(s) == Offers(sock, rollout, s)

\* The connection that telemetry last recorded as ready, or one it takes for that.
Known(s) == telemetry.ready /\ Candidate(s) /\ telemetry.gen = s[2]

\* As long as a connector could serve, telemetry has it, or a grace.
SomeKnown == (\E s \in Sockets : Candidate(s)) => GraceStands \/ \E k \in Sockets : Known(k)

\* No open connector is preferred to the one that telemetry has.
FirstKnown ==
    (\E s \in Sockets : Candidate(s) /\ sock[s].st = "open") =>
        \E k \in Sockets : Known(k) /\ \A t \in Sockets : Candidate(t) /\ sock[t].st = "open" => ~Preferred(t, k)

\* After the loss no connector is open to serve, and telemetry has a grace, or will have one
\* when the close event of the connector it knows is handled.
OwedKnown ==
    owed => /\ \A t \in Sockets : Candidate(t) => sock[t].st # "open"
            /\ GraceStands \/ \E k \in Sockets : Known(k) /\ sock[k].st = "closing"

GraceInv == EndedInv /\ (changes = 0 /\ telemetry.gen # 0 => SomeKnown /\ FirstKnown /\ OwedKnown)

\* What recordConnectorDisconnected does to telemetry that knows a generation.
LEMMA TelemetryAfter ==
    ASSUME NEW tel \in Telemetry, NEW gen \in Nat, tel.gen # 0
    PROVE  LET after == TelemetryDisconnected(tel, gen, TRUE) IN
           /\ after.gen = tel.gen
           /\ tel.ready /\ tel.gen = gen => after.grace = tel.gen
           /\ ~tel.ready \/ tel.gen # gen => after.ready = tel.ready /\ after.grace = tel.grace
<1>1. tel.ready \in BOOLEAN
  BY DEF Telemetry
<1>2. CASE tel.ready /\ tel.gen = gen
  BY <1>1, <1>2 DEF TelemetryDisconnected
<1>3. CASE ~(tel.ready /\ tel.gen = gen)
  <2>1. ~(tel.ready /\ tel.gen \in {0, gen})
    BY <1>3
  <2> QED
    BY <1>1, <1>3, <2>1 DEF TelemetryDisconnected
<1> QED
  BY <1>2, <1>3

\* A connector of protocol 2 has no generation and leaves such telemetry alone.
LEMMA LegacyAfter ==
    ASSUME NEW tel \in Telemetry, NEW ready, tel.gen # 0
    PROVE  LET after == TelemetryDisconnected(tel, 0, ready)
           IN  after.ready = tel.ready /\ after.grace = tel.grace
<1>1. tel.ready \in BOOLEAN /\ ~(tel.ready /\ tel.gen \in {0, 0})
  BY DEF Telemetry
<1> QED
  BY <1>1 DEF TelemetryDisconnected

\* A step that leaves telemetry alone and makes no connection open or ready.
LEMMA FewerSockets ==
    ASSUME GraceInv, EndedInv', UNCHANGED <<telemetry, rollout, changes, owed>>,
           \A s \in Sockets : Candidate(s)' <=> Candidate(s),
           \A s \in Sockets : Candidate(s) => \/ sock'[s].st = sock[s].st
                                              \/ sock[s].st = "open" /\ sock'[s].st = "closing"
    PROVE  GraceInv'
<1>1. (GraceStands' <=> GraceStands) /\ \A s \in Sockets : Known(s)' <=> Known(s)
  BY DEF GraceStands, Known
<1>2. \A s \in Sockets : Candidate(s)' /\ sock'[s].st = "open" => Candidate(s) /\ sock[s].st = "open"
  OBVIOUS
<1>3. \A s \in Sockets : Known(s) => Candidate(s)
  BY DEF Known
<1>4. SomeKnown => SomeKnown'
  BY <1>1 DEF SomeKnown
<1>5. FirstKnown => FirstKnown'
  BY <1>1, <1>2 DEF FirstKnown
<1>6. OwedKnown => OwedKnown'
  BY <1>1, <1>2, <1>3 DEF OwedKnown
<1> QED
  BY <1>4, <1>5, <1>6 DEF GraceInv

\* A connector says that it is ready: it is recorded when it is selected, and if another one is,
\* that one was there before.
LEMMA ReadyGrace ==
    ASSUME Inv, GraceInv, NEW s \in Sockets, ConnectorReady(s)
    PROVE  GraceInv'
<1> DEFINE rev == IF IsLegacy(s) THEN None ELSE RevisionOf[s[1]]
           att == [st |-> "open", ready |-> TRUE, recorded |-> FALSE, rev |-> rev,
                   compat |-> IsLegacy(s) \/ Compatible(rev, rollout)]
<1>1. /\ sock[s].st = "open" /\ ~sock[s].ready /\ sock' = [sock EXCEPT ![s] = att]
      /\ rollout' = rollout /\ changes' = changes /\ sock \in [Sockets -> Attachments]
  BY DEF ConnectorReady, rolloutVars, bounds, Inv, TypeOK
<1>2. att.st = "open" /\ att.ready /\ ~att.recorded /\ (IsLegacy(s) => att.rev = None)
  OBVIOUS
<1> HIDE DEF att, rev
<1>3. sock'[s] = att /\ \A x \in Sockets : x # s => sock'[x] = sock[x]
  BY <1>1
<1>4. EndedInv'
  BY <1>2, <1>3 DEF GraceInv, EndedInv
<1>5. ~Candidate(s) /\ \A x \in Sockets : x # s => (Candidate(x)' <=> Candidate(x))
  BY <1>1, <1>3 DEF Candidate, Offers
<1>6. PICK sel \in Selection(sock', rollout, NoSocket) :
        /\ telemetry' = IF sel = s THEN TelemetryReady(sock', s) ELSE telemetry
        /\ owed' = (owed /\ sel = NoSocket)
  BY DEF ConnectorReady
<1>7. NoSocket \notin Sockets /\ s # NoSocket
  BY NoSocketIs
<1>8. \/ /\ sel \in Sockets /\ Candidate(sel)' /\ sock'[sel].st = "open"
         /\ \A t \in Sockets : Candidate(t)' /\ sock'[t].st = "open" => ~Preferred(t, sel)
      \/ /\ sel = NoSocket \/ (sel \in Sockets /\ IsLegacy(sel))
         /\ \A t \in Sockets : Candidate(t)' => sock'[t].st # "open"
  BY <1>1, <1>6, <1>7, SelectionIs DEF Candidate
<1> SUFFICES ASSUME changes' = 0, telemetry'.gen # 0
             PROVE  SomeKnown' /\ FirstKnown' /\ OwedKnown'
  BY <1>4 DEF GraceInv
<1>9. CASE sel = s
  <2>1. telemetry'.ready /\ telemetry'.gen = Generation(sock', s) /\ owed' = FALSE
    BY <1>6, <1>7, <1>9 DEF TelemetryReady
  <2>2. sock'[s].rev # None /\ telemetry'.gen = s[2]
    BY <2>1 DEF Generation
  <2>3. ~IsLegacy(s)
    BY <1>2, <1>3, <2>2
  <2>4. Candidate(s)' /\ \A t \in Sockets : Candidate(t)' /\ sock'[t].st = "open" => ~Preferred(t, s)
    BY <1>7, <1>8, <1>9, <2>3
  <2>5. Known(s)'
    BY <2>1, <2>2, <2>4 DEF Known
  <2> QED
    BY <2>1, <2>4, <2>5 DEF SomeKnown, FirstKnown, OwedKnown
<1>10. CASE sel # s
  <2>1. telemetry' = telemetry /\ (owed' => owed /\ sel = NoSocket)
    BY <1>6, <1>10
  <2>2. SomeKnown /\ FirstKnown /\ OwedKnown
    BY <1>1, <2>1 DEF GraceInv
  <2>3. (GraceStands' <=> GraceStands) /\ \A k \in Sockets : Known(k) => Known(k)' /\ k # s
    BY <1>5, <2>1 DEF GraceStands, Known
  <2>4. CASE sel \in Sockets /\ Candidate(sel)' /\ sock'[sel].st = "open"
    <3>1. Candidate(sel) /\ sock[sel].st = "open" /\ ~owed'
      BY <1>3, <1>5, <1>7, <1>10, <2>1, <2>4
    <3>2. SomeKnown' /\ OwedKnown'
      BY <2>2, <2>3, <2>4, <3>1 DEF SomeKnown, OwedKnown
    <3>3. PICK k \in Sockets : Known(k) /\ \A t \in Sockets : Candidate(t) /\ sock[t].st = "open" => ~Preferred(t, k)
      BY <2>2, <2>4, <3>1 DEF FirstKnown
    <3>4. ASSUME NEW t \in Sockets, Candidate(t)', sock'[t].st = "open" PROVE ~Preferred(t, k)
      <4>1. CASE t # s
        BY <1>3, <1>5, <3>3, <3>4, <4>1
      <4>2. CASE t = s
        <5>1. ~Preferred(s, sel) /\ ~Preferred(sel, k)
          BY <1>7, <1>8, <2>4, <3>1, <3>3, <3>4, <4>2
        <5> QED
          BY <1>10, <2>4, <4>2, <5>1, PreferredOrder
      <4> QED
        BY <4>1, <4>2
    <3> QED
      BY <2>3, <3>2, <3>3, <3>4 DEF FirstKnown
  <2>5. CASE \A t \in Sockets : Candidate(t)' => sock'[t].st # "open"
    <3>1. ~Candidate(s)'
      BY <1>2, <1>3, <2>5
    <3>2. FirstKnown'
      BY <2>5 DEF FirstKnown
    <3>3. SomeKnown' /\ OwedKnown'
      BY <1>3, <1>5, <2>1, <2>2, <2>3, <3>1 DEF SomeKnown, OwedKnown
    <3> QED
      BY <3>2, <3>3
  <2> QED
    BY <1>8, <2>4, <2>5
<1> QED
  BY <1>9, <1>10

\* A disconnect is recorded: of the connector that telemetry has, it leaves the grace; of another
\* one, it leaves telemetry alone, or gives it the connector that takes over.
LEMMA DisconnectGrace ==
    ASSUME Inv, GraceInv, NEW s \in Sockets, SocketError(s) \/ SocketClose(s)
    PROVE  GraceInv'
<1>1. PICK st \in {"errored", "gone"}, sel \in Selection(sock, rollout, s) : RecordDisconnect(s, sel, st)
  BY DEF SocketError, SocketClose
<1>2. /\ rollout' = rollout /\ changes' = changes /\ sock \in [Sockets -> Attachments]
      /\ sock[s].ready \in BOOLEAN /\ telemetry \in Telemetry
  BY DEF SocketError, SocketClose, rolloutVars, bounds, Inv, TypeOK, Attachments
<1>3. CASE sock[s].recorded
  <2>1. sock' = [sock EXCEPT ![s].st = st] /\ telemetry' = telemetry /\ owed' = owed
    BY <1>1, <1>3 DEF RecordDisconnect
  <2>2. ~sock[s].ready
    BY <1>3 DEF GraceInv, EndedInv
  <2>3. sock'[s].ready = sock[s].ready /\ \A x \in Sockets : x # s => sock'[x] = sock[x]
    BY <1>2, <2>1 DEF Attachments
  <2>4. ~Candidate(s) /\ ~Candidate(s)'
    BY <2>2, <2>3 DEF Candidate, Offers
  <2>5. \A x \in Sockets : x # s => (Candidate(x)' <=> Candidate(x))
    BY <1>2, <2>3 DEF Candidate, Offers
  <2>6. EndedInv'
    BY <2>2, <2>3 DEF GraceInv, EndedInv
  <2> QED
    BY <1>2, <2>1, <2>3, <2>4, <2>5, <2>6, FewerSockets
<1>4. CASE ~sock[s].recorded
  <2>1. PICK att : sock' = [sock EXCEPT ![s] = att] /\ ~att.ready /\ att.rev = sock[s].rev
    <3> DEFINE new == [st |-> st, ready |-> FALSE, recorded |-> TRUE, compat |-> sock[s].compat, rev |-> sock[s].rev]
    <3>1. sock' = [sock EXCEPT ![s] = new]
      BY <1>1, <1>2, <1>4 DEF RecordDisconnect
    <3>2. ~new.ready /\ new.rev = sock[s].rev
      OBVIOUS
    <3> HIDE DEF new
    <3> QED
      BY <3>1, <3>2
  <2>2. ~sock'[s].ready /\ \A x \in Sockets : x # s => sock'[x] = sock[x]
    BY <1>2, <2>1
  <2>3. ~Candidate(s)' /\ \A x \in Sockets : x # s => (Candidate(x)' <=> Candidate(x))
    BY <1>2, <2>2 DEF Candidate, Offers
  <2>4. EndedInv'
    BY <2>2 DEF GraceInv, EndedInv
  <2>5. \/ /\ sel \in Sockets /\ Candidate(sel) /\ (sock[sel].st = "open" \/ sel = s)
           /\ \A t \in Sockets : Candidate(t) /\ (sock[t].st = "open" \/ t = s) => ~Preferred(t, sel)
        \/ /\ sel = NoSocket \/ (sel \in Sockets /\ IsLegacy(sel))
           /\ \A t \in Sockets : Candidate(t) => sock[t].st # "open" /\ t # s
    BY <1>1, SelectionIs DEF Candidate
  <2> SUFFICES ASSUME changes' = 0, telemetry'.gen # 0
               PROVE  SomeKnown' /\ FirstKnown' /\ OwedKnown'
    BY <2>4 DEF GraceInv
  <2>6. CASE sel # s
    <3>1. telemetry' = telemetry /\ owed' = owed
      BY <1>1, <1>4, <2>6 DEF RecordDisconnect
    <3>2. SomeKnown /\ FirstKnown /\ OwedKnown
      BY <1>2, <3>1 DEF GraceInv
    <3>3. (GraceStands' <=> GraceStands) /\ \A k \in Sockets : k # s /\ Known(k) => Known(k)'
      BY <2>3, <3>1 DEF GraceStands, Known
    <3>4. CASE ~Candidate(s)
      <4>1. \A k \in Sockets : Known(k) => k # s
        BY <3>4 DEF Known
      <4>2. SomeKnown' /\ OwedKnown'
        BY <2>2, <2>3, <3>1, <3>2, <3>3, <4>1 DEF SomeKnown, OwedKnown
      <4>3. FirstKnown'
        BY <2>2, <2>3, <3>2, <3>3, <4>1 DEF FirstKnown
      <4> QED
        BY <4>2, <4>3
    <3>5. CASE Candidate(s)
      <4>1. sel \in Sockets /\ Candidate(sel) /\ sock[sel].st = "open" /\ ~Preferred(s, sel)
        BY <2>5, <2>6, <3>5
      <4>2. PICK k \in Sockets : Known(k) /\ \A t \in Sockets : Candidate(t) /\ sock[t].st = "open" => ~Preferred(t, k)
        BY <3>2, <4>1 DEF FirstKnown
      <4>3. k # s
        BY <2>6, <4>1, <4>2, PreferredOrder
      <4>4. Known(k)' /\ \A t \in Sockets : Candidate(t)' /\ sock'[t].st = "open" => ~Preferred(t, k)
        BY <2>2, <2>3, <3>3, <4>2, <4>3
      <4>5. OwedKnown'
        BY <3>1, <3>2, <4>1 DEF OwedKnown
      <4> QED
        BY <4>4, <4>5 DEF SomeKnown, FirstKnown
    <3> QED
      BY <3>4, <3>5
  <2>7. CASE sel = s
    <3>1. PICK next \in Selection(sock', rollout, NoSocket) :
            /\ telemetry' = IF next = NoSocket
                            THEN TelemetryDisconnected(telemetry, Generation(sock, s), sock[s].ready)
                            ELSE TelemetryReady(sock', next)
            /\ owed' = (next = NoSocket /\ ~IsLegacy(s))
      BY <1>1, <1>4, <2>7 DEF RecordDisconnect
    <3>2. \/ /\ next \in Sockets /\ Candidate(next)' /\ sock'[next].st = "open"
             /\ \A t \in Sockets : Candidate(t)' /\ sock'[t].st = "open" => ~Preferred(t, next)
          \/ /\ next = NoSocket \/ (next \in Sockets /\ IsLegacy(next))
             /\ \A t \in Sockets : Candidate(t)' => sock'[t].st # "open"
      BY <1>2, <3>1, NoSocketIs, SelectionIs DEF Candidate
    <3>3. CASE next # NoSocket
      <4>1. telemetry'.ready /\ telemetry'.gen = Generation(sock', next) /\ ~owed'
        BY <3>1, <3>3 DEF TelemetryReady
      <4>2. sock'[next].rev # None /\ telemetry'.gen = next[2]
        BY <4>1 DEF Generation
      <4>3. next \in Sockets /\ next # s
        <5>1. CASE next \in Sockets /\ Candidate(next)'
          BY <2>3, <5>1
        <5>2. CASE IsLegacy(next) /\ next \in Sockets
          <6>1. sock[next].rev = None
            BY <5>2 DEF Inv, Unidentified
          <6>2. next # s
            BY <1>2, <2>1, <4>2, <6>1
          <6> QED
            BY <5>2, <6>2
        <5> QED
          BY <3>2, <3>3, <5>1, <5>2
      <4>4. ~IsLegacy(next)
        BY <2>2, <4>2, <4>3 DEF Inv, Unidentified
      <4>5. Candidate(next)' /\ \A t \in Sockets : Candidate(t)' /\ sock'[t].st = "open" => ~Preferred(t, next)
        BY <3>2, <3>3, <4>4
      <4>6. Known(next)'
        BY <4>1, <4>2, <4>5 DEF Known
      <4> QED
        BY <4>1, <4>3, <4>5, <4>6 DEF SomeKnown, FirstKnown, OwedKnown
    <3>4. CASE next = NoSocket
      <4>1. \A t \in Sockets : Candidate(t)' => sock'[t].st # "open"
        BY <3>2, <3>4, NoSocketIs
      <4>2. FirstKnown'
        BY <4>1 DEF FirstKnown
      <4>3. telemetry' = TelemetryDisconnected(telemetry, Generation(sock, s), sock[s].ready)
        BY <3>1, <3>4
      <4>4. telemetry'.gen = telemetry.gen /\ SomeKnown
        BY <1>2, <4>3 DEF TelemetryDisconnected, GraceInv
      <4>5. ASSUME telemetry'.ready = telemetry.ready, telemetry'.grace = telemetry.grace,
                   \A k \in Sockets : Known(k) => k # s
            PROVE  /\ SomeKnown'
                   /\ (\E x \in Sockets : Candidate(x)) => GraceStands' \/ \E k \in Sockets : Known(k)'
        <5>1. (GraceStands' <=> GraceStands) /\ \A k \in Sockets : Known(k) => Known(k)'
          BY <2>3, <4>4, <4>5 DEF GraceStands, Known
        <5> QED
          BY <2>3, <4>4, <5>1 DEF SomeKnown
      <4>6. CASE IsLegacy(s)
        <5>1. Generation(sock, s) = 0
          BY <4>6 DEF Generation, Inv, Unidentified
        <5>2. telemetry'.ready = telemetry.ready /\ telemetry'.grace = telemetry.grace
          BY <1>2, <4>3, <4>4, <5>1, LegacyAfter
        <5>3. \A k \in Sockets : Known(k) => k # s
          BY <4>6 DEF Known, Candidate, Offers
        <5> QED
          BY <3>1, <4>2, <4>5, <4>6, <5>2, <5>3 DEF OwedKnown
      <4>7. CASE ~IsLegacy(s)
        <5>1. Candidate(s)
          BY <2>5, <2>7, <4>7, NoSocketIs
        <5>2. sock[s].ready = TRUE /\ sock[s].rev = rollout.active /\ sock[s].rev # None
          BY <1>2, <5>1, NoneAssumption DEF Candidate, Offers, Inv, TypeOK, Rollouts
        <5>3. Generation(sock, s) = s[2] /\ s[2] \in Nat
          BY <5>2, SocketIs DEF Generation
        <5>4. /\ telemetry.ready /\ telemetry.gen = s[2] => telemetry'.grace = telemetry.gen
              /\ ~telemetry.ready \/ telemetry.gen # s[2]
                    => telemetry'.ready = telemetry.ready /\ telemetry'.grace = telemetry.grace
          BY <1>2, <4>3, <4>4, <5>2, <5>3, TelemetryAfter
        <5>5. CASE telemetry.ready /\ telemetry.gen = s[2]
          <6>1. GraceStands'
            BY <4>4, <5>4, <5>5 DEF GraceStands
          <6> QED
            BY <4>1, <4>2, <6>1 DEF SomeKnown, OwedKnown
        <5>6. CASE ~(telemetry.ready /\ telemetry.gen = s[2])
          <6>1. \A k \in Sockets : Known(k) => k # s
            BY <5>6 DEF Known
          <6>2. SomeKnown' /\ (GraceStands' \/ \E k \in Sockets : Known(k)')
            BY <4>5, <5>1, <5>4, <5>6, <6>1
          <6>3. ASSUME NEW k \in Sockets, Known(k)' PROVE sock'[k].st = "closing"
            <7>1. Candidate(k)' /\ sock'[k].ready /\ sock'[k].st # "open"
              BY <4>1, <6>3 DEF Known, Candidate, Offers
            <7>2. k # s /\ sock'[k] = sock[k]
              BY <2>2, <2>3, <7>1
            <7>3. sock[k].st \in {"none", "open", "closing", "errored", "gone"}
              BY <1>2 DEF Attachments
            <7> QED
              BY <2>4, <7>1, <7>2, <7>3 DEF EndedInv
          <6> QED
            BY <4>1, <4>2, <6>2, <6>3 DEF OwedKnown
        <5> QED
          BY <5>5, <5>6
      <4> QED
        BY <4>6, <4>7
    <3> QED
      BY <3>3, <3>4
  <2> QED
    BY <2>6, <2>7
<1> QED
  BY <1>3, <1>4

\* A step that touches neither connections nor telemetry.
LEMMA SameGrace ==
    ASSUME GraceInv, UNCHANGED <<sock, telemetry, rollout, changes, owed>>
    PROVE  GraceInv'
<1>1. EndedInv' /\ \A s \in Sockets : Candidate(s)' <=> Candidate(s)
  BY DEF GraceInv, EndedInv, Candidate, Offers
<1> QED
  BY <1>1, FewerSockets

\* A connection that opens or is lost unnoticed changes nothing that telemetry says.
LEMMA ConnectionGrace ==
    ASSUME Inv, GraceInv, NEW s \in Sockets, Upgrade(s) \/ Lose(s)
    PROVE  GraceInv'
<1>1. UNCHANGED <<telemetry, rollout, changes, owed>>
  BY DEF Upgrade, Lose, rolloutVars, bounds
<1>2. PICK st \in {"open", "closing"} :
        /\ sock' = [sock EXCEPT ![s].st = st]
        /\ st = "open" => sock[s].st = "none"
        /\ st = "closing" => sock[s].st = "open"
  BY DEF Upgrade, Lose
<1>3. \A x \in Sockets : /\ sock'[x].ready = sock[x].ready /\ sock'[x].compat = sock[x].compat
                         /\ sock'[x].rev = sock[x].rev /\ sock'[x].recorded = sock[x].recorded
                         /\ x # s => sock'[x].st = sock[x].st
  BY <1>2 DEF Inv, TypeOK, Attachments
<1>4. sock'[s].st = st
  BY <1>2 DEF Inv, TypeOK, Attachments
<1>5. \A x \in Sockets : Candidate(x)' <=> Candidate(x)
  BY <1>1, <1>3 DEF Candidate, Offers
<1>6. EndedInv'
  BY <1>2, <1>3, <1>4 DEF GraceInv, EndedInv
<1>7. sock[s].st = "none" => ~Candidate(s)
  BY DEF GraceInv, EndedInv, Candidate, Offers
<1> QED
  BY <1>1, <1>2, <1>3, <1>4, <1>5, <1>6, <1>7, FewerSockets

\* Neither do requests.
LEMMA RequestGrace ==
    ASSUME GraceInv, NEW r \in Requests,
           \/ Arrive(r) \/ RelayLegacy(r) \/ Routed(r) \/ WaitEnds(r) \/ GiveUp(r)
           \/ \E s \in Sockets : Respond(s, r)
    PROVE  GraceInv'
<1>1. UNCHANGED <<sock, telemetry, rollout, changes, owed>>
  BY DEF Arrive, RelayLegacy, Routed, WaitEnds, GiveUp, Respond, rolloutVars, bounds
<1> QED
  BY <1>1, SameGrace

\* GraceInv is inductive.
LEMMA NextGrace == Inv /\ GraceInv /\ [Next]_vars => GraceInv'
<1> SUFFICES ASSUME Inv, GraceInv, [Next]_vars PROVE GraceInv'
  OBVIOUS
<1>1. CASE UNCHANGED vars
  BY <1>1, SameGrace DEF vars, rolloutVars, bounds
<1>2. ASSUME NEW b \in Revisions, Restart(b) PROVE GraceInv'
  <2>1. \A s \in Sockets : ~sock'[s].ready
    BY <1>2 DEF Restart, Fresh
  <2>2. \A s \in Sockets : ~Candidate(s)'
    BY <2>1 DEF Candidate, Offers
  <2>3. ~owed'
    BY <1>2 DEF Restart
  <2> QED
    BY <2>1, <2>2, <2>3 DEF GraceInv, EndedInv, SomeKnown, FirstKnown, OwedKnown
<1>3. CASE CutoverStored
  BY <1>3, SameGrace DEF CutoverStored, rolloutVars, bounds
<1>4. ASSUME NEW st, Install(st) PROVE GraceInv'
  <2>1. changes' # 0
    BY <1>4 DEF Install, Inv, TypeOK
  <2>2. EndedInv'
    BY <1>4, RefreshedSockets DEF Install, Inv, TypeOK, GraceInv, EndedInv
  <2> QED
    BY <2>1, <2>2 DEF GraceInv
<1>5. ASSUME NEW s \in Sockets, NEW r \in Requests, Respond(s, r) PROVE GraceInv'
  BY <1>5, RequestGrace
<1> QED
  BY <1>1, <1>2, <1>3, <1>4, <1>5, ConnectionGrace, ReadyGrace, DisconnectGrace, RequestGrace
     DEF Next, Promote, RollBack

\* When the last connector is lost, tool calls wait for its return: whatever order the close
\* events of old and new connections are handled in, recordConnectorDisconnect leaves in
\* telemetry the grace that waitForExecutionReconnect looks for, as long as nothing was promoted
\* or rolled back and telemetry has a connection of protocol 3.
THEOREM GraceCoversLosses == Spec => []GraceUnlessChanged
<1>1. Init => GraceInv
  BY DEF Init, Fresh, GraceInv, EndedInv, SomeKnown, FirstKnown, OwedKnown, Candidate, Offers
<1>2. Inv /\ GraceInv /\ [Next]_vars => GraceInv'
  BY NextGrace
<1>3. GraceInv => GraceUnlessChanged
  BY DEF GraceInv, OwedKnown, Known, Candidate, Offers, GraceUnlessChanged, GraceCoversLoss, Settled
<1> QED
  BY <1>1, <1>2, <1>3, SessionInvariant, PTL DEF Spec

=============================================================================
