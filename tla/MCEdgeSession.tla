------------------------------ MODULE MCEdgeSession ------------------------------
(***************************************************************************)
(* Instances of EdgeSession for TLC. Process 2 started after process 1.    *)
(***************************************************************************)
EXTENDS EdgeSession

CONSTANTS A, B   \* two contract revisions

MCStarted == [p \in Processes |-> p]

\* Processes 1 and 2 run the old build, 3 the new one.
MCRevisionOf == [p \in Processes |-> IF p = 3 THEN B ELSE A]

Unused(p) == \A s \in Sockets : s[1] = p => sock[s].st = "none"

\* The safety run explores a handover between two processes of one build around a
\* tool call, and a rollout between two builds without requests. No connector of
\* protocol 2 is there, for which the stored cutover would matter.
Explored ==
    /\ cutover # "stored"
    /\ \/ Unused(3) /\ changes + restarts = 0 /\ build = A /\ rollout.active = A
       \/ Unused(1) /\ \A r \in Requests : phase[r] = "idle"
=============================================================================
