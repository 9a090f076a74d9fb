---------------------------- MODULE GitHubService ----------------------------
(***************************************************************************)
(* The mutations of GitHub (GitHubService over GitHubHttpClient): a        *)
(* request is sent once and never repeated.  When its answer does not      *)
(* come, the outcome is unknown and the service looks at what is there.    *)
(*                                                                         *)
(* GitHub is external: it handles a request that reached it at any later   *)
(* time, also when nobody waits for the answer any more.                   *)
(***************************************************************************)
EXTENDS SourceControlBase

CONSTANT
    Targets      \* what a mutation of GitHub creates or merges

ASSUME TargetsAssumption == \A m \in Mutations : m.op \in GitHubOps => m.target \in Targets

VARIABLES
    hub,         \* hub[c]: where call c is in its GitHub operation
    wire,        \* wire[c]: the request of call c as GitHub sees it
    server       \* server[t]: the mutation that made t what it is, or None

gitHubVars == <<hub, wire, server>>

HubStates == {"idle", "look", "send", "await", "reconcile", "completed", "failed"}

GitHubInit ==
    /\ hub = [c \in Calls |-> "idle"]
    /\ wire = [c \in Calls |-> "none"]
    /\ server = [t \in Targets |-> None]

\* createRepository asks who the user is and mergePullRequest what the pull
\* request's head is; createPullRequest sends at once.
FirstStep(op) == IF op = "github_create_pull_request" THEN "send" ELSE "look"

HubStart(c, m) ==
    /\ hub' = [hub EXCEPT ![c] = FirstStep(m.op)]
    /\ UNCHANGED <<wire, server>>

\* The first read, with GIT_HEAD_MISMATCH when the head is not the expected one.
HubLook(c) ==
    /\ hub[c] = "look"
    /\ \E next \in {"send", "failed"} : hub' = [hub EXCEPT ![c] = next]
    /\ UNCHANGED <<wire, server>>

\* performGitHubRequest: a cancelled signal or a missing credential stops the
\* request before it is sent.
HubSend(c) ==
    /\ hub[c] = "send"
    /\ \/ /\ hub' = [hub EXCEPT ![c] = "await"]
          /\ wire' = [wire EXCEPT ![c] = "sent"]
       \/ /\ hub' = [hub EXCEPT ![c] = "failed"]
          /\ UNCHANGED wire
    /\ UNCHANGED server

\* External: GitHub makes the change, or refuses when the target is there.
ServerHandle(c, m) ==
    /\ wire[c] = "sent"
    /\ IF server[m.target] = None
       THEN /\ server' = [server EXCEPT ![m.target] = m]
            /\ wire' = [wire EXCEPT ![c] = "applied"]
       ELSE /\ wire' = [wire EXCEPT ![c] = "refused"]
            /\ UNCHANGED server
    /\ UNCHANGED hub

\* External: somebody else creates or merges the target.
ServerForeign(m) ==
    /\ server[m.target] = None
    /\ server' = [server EXCEPT ![m.target] = m]
    /\ UNCHANGED <<hub, wire>>

\* The answer arrives; an answer that is no valid record is an error.
HubAnswer(c) ==
    /\ hub[c] = "await"
    /\ \/ wire[c] = "applied" /\ hub' = [hub EXCEPT ![c] = "completed"]
       \/ wire[c] \in {"applied", "refused"} /\ hub' = [hub EXCEPT ![c] = "failed"]
    /\ UNCHANGED <<wire, server>>

\* No answer, or 5xx: outcome unknown.
HubLost(c) ==
    /\ hub[c] = "await"
    /\ hub' = [hub EXCEPT ![c] = "reconcile"]
    /\ UNCHANGED <<wire, server>>

\* Mutant: a repository of that name is taken for the one that was asked for.
IsThereByName(m) == server[m.target] # None

\* The three reconciliations: a repository must have the visibility that was
\* asked for, a pull request of that head and base must be open, and the pull
\* request must be merged.
IsThere(m) ==
    /\ server[m.target] # None
    /\ m.op = "github_create_repository" => server[m.target].variant = m.variant

HubReconcile(c, m) ==
    /\ hub[c] = "reconcile"
    /\ \/ IsThere(m) /\ hub' = [hub EXCEPT ![c] = "completed"]
       \/ hub' = [hub EXCEPT ![c] = "failed"]
    /\ UNCHANGED <<wire, server>>

\* The agent stops; requests on the wire are GitHub's business.
GitHubCrash ==
    /\ hub' = [c \in Calls |-> "idle"]
    /\ UNCHANGED <<wire, server>>

GitHubTypeOK ==
    /\ hub \in [Calls -> HubStates]
    /\ wire \in [Calls -> {"none", "sent", "applied", "refused"}]
    /\ server \in [Targets -> Mutations \cup {None}]
=============================================================================
