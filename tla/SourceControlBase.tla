-------------------------- MODULE SourceControlBase --------------------------
(***************************************************************************)
(* What the parts of the source-control model share: the calls of a tool,  *)
(* the mutations they ask for and the keys that identify them.             *)
(***************************************************************************)
EXTENDS Naturals, Sequences

CONSTANTS
    Calls,           \* calls of a source-control tool, in the order they are made
    Mutations,       \* what a call asks for: operation, target and arguments
    ClientKeys,      \* idempotency keys that come with a call
    ConfirmationIds, \* random identifiers of confirmations
    None             \* no value

\* A call without a key or a confirmation is identified by its invocation.
Keys == ClientKeys \cup ConfirmationIds \cup Calls

GitOps == {"git_create_branch", "git_stage_paths", "git_unstage_paths",
           "git_commit", "git_merge_branch", "git_push_branch"}

GitHubOps == {"github_create_repository", "github_create_pull_request", "github_merge_pull_request"}

ASSUME CallsAssumption == Calls \subseteq Nat
ASSUME OpsAssumption == \A m \in Mutations : m.op \in GitOps \cup GitHubOps
ASSUME NoneAssumption == None \notin Mutations /\ None \notin Keys
=============================================================================
