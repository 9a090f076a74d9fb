----------------------------- MODULE ContractRollout -----------------------------
(***************************************************************************)
(* contract-compatibility.ts of the edge gateway: the persisted rollout    *)
(* state (which contract revision serves, which one is prepared, which one *)
(* served before) and the functions that move it. They are pure; the       *)
(* session (EdgeSession) stores what they return.                          *)
(***************************************************************************)
CONSTANTS
    Revisions,   \* contract revisions (64 hexadecimal digits)
    None         \* an absent revision

ASSUME NoneAssumption == None \notin Revisions

Maybe == Revisions \cup {None}

\* The shape of McpContractRolloutStateV1; its timestamps are left out.
Rollouts == [active : Revisions, candidate : Maybe, previous : Maybe]

\* isMcpContractRolloutState: what the constructor accepts from storage.
IsRolloutState(st) ==
    /\ st \in Rollouts
    /\ st.candidate # st.active
    /\ st.previous # st.active

\* Nothing stored yet: the first build that knows of rollouts.
NoRollout == [active |-> None, candidate |-> None, previous |-> None]

\* reconcileMcpContractRolloutState, run by every constructor of the session.
\* A stored candidate stays, whatever the build; the first time, the revision
\* that telemetry last saw goes on serving and the build is only prepared.
Reconcile(st, build, observed) ==
    IF IsRolloutState(st)
    THEN IF st.candidate # None \/ st.active = build
         THEN st
         ELSE [active |-> st.active, candidate |-> build, previous |-> st.previous]
    ELSE IF observed \in Revisions \ {build}
         THEN [active |-> observed, candidate |-> build, previous |-> None]
         ELSE [active |-> build, candidate |-> None, previous |-> None]

\* isConnectorContractCompatible.
Compatible(rev, st) == rev \in Revisions /\ rev \in {st.active, st.candidate}

\* promoteMcpContractRolloutState returns a new state (and not the answer
\* alreadyPromoted); ready is the revision of the connector found for candidate.
MayPromote(st, build, active, candidate, ready) ==
    /\ candidate = build
    /\ ~(st.active = candidate /\ st.candidate = None)
    /\ st.active = active
    /\ st.candidate = candidate
    /\ ready = candidate

\* Mutant: the candidate stays where it was.
PromotedSpread(st, candidate) ==
    [st EXCEPT !.active = candidate, !.previous = st.active]

Promoted(st, candidate) ==
    [active |-> candidate, candidate |-> None, previous |-> st.active]

\* rollbackMcpContractRolloutState, likewise.
MayRollBack(st, build, active, previous, ready) ==
    /\ active = build
    /\ ~(st.active = previous /\ st.candidate = active)
    /\ st.active = active
    /\ st.previous = previous
    /\ ready = previous

\* Mutant: the revision rolled back from is not prepared again.
RolledBackOnly(active, previous) ==
    [active |-> previous, candidate |-> None, previous |-> None]

RolledBack(active, previous) ==
    [active |-> previous, candidate |-> active, previous |-> None]
=============================================================================
