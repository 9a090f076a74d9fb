----------------------------- MODULE MCAgentRelay -----------------------------
(***************************************************************************)
(* Instances of AgentRelay for TLC: reads (retryable), shell commands, and *)
(* changes on GitHub (neither).                                            *)
(***************************************************************************)
EXTENDS AgentRelay, TLC

CONSTANTS Reads, Shells, Edits, ws

MCCalls       == Reads \cup Shells \cup Edits
MCWorkspaces  == {ws}
MCWorkspaceOf == [c \in MCCalls |-> ws]

\* Shell commands for the same workspace are interchangeable.
ShellSymmetry == Permutations(Shells)

Quiet(C) == \A c \in C : pc[c] = "idle" /\ ~aborted[c]

\* The safety run explores reads without other calls over two connections, and over
\* a third one while a call goes on whose operation was started on both; shell
\* commands over one connection, with reads when the pending map is full; and
\* changes by themselves over two connections.
Explored ==
    \/ /\ Quiet(Shells \cup Edits)
       /\ gen <= 2 \/ \E c \in Reads : /\ pc[c] # "done" /\ ~aborted[c] /\ ~closed /\ ~stopped
                                       /\ starts[<<c, 1>>] = 1 /\ starts[<<c, 2>>] = 1
    \/ Quiet(Reads \cup Shells) /\ gen <= 2
    \/ /\ gen <= 1 /\ Quiet(Edits)
       /\ Quiet(Reads) \/ Cardinality(pending) = MaxConcurrency
=============================================================================
