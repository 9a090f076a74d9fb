---------------------------- MODULE SourceControl ----------------------------
(***************************************************************************)
(* A source-control tool call from its arrival to its answer               *)
(* (LocalAgent.executeSourceControlMutation, and                           *)
(* SshWorkspaceExecutor for a workspace on another machine): the receipt   *)
(* of its key is looked up, a confirmation is asked for or consumed, the   *)
(* key is reserved, the receipt says "executing", the backend is called    *)
(* once, and the receipt says what came of it.  The agent may stop between *)
(* any two steps; confirmations are in its memory, receipts on disk.       *)
(*                                                                         *)
(* Over SSH only the mutations of GitHub go through receipts and           *)
(* confirmations; the Git operations are carried out at once.              *)
(***************************************************************************)
EXTENDS MutationReceipts, GitHubService, GitRepository, FiniteSets

CONSTANTS
    Scenarios,       \* where a behaviour starts: site, repository, what its clients ask for,
                     \* and the bounds on calls, on crashes of the agent and on faults
    Capabilities,    \* the source-control capabilities of the workspace's policy
    Writable,        \* its permission profile is full-repo-write
    AllowedTargets,  \* the repositories and owners it allows
    Trusted          \* confirmationMode trusted-workspace with full-repo-write

ASSUME ScenariosAssumption == \A s \in Scenarios : Repository(s.repository)

VARIABLES
    site,        \* "local" or "ssh": where the workspace is
    menu,        \* what clients ask for in this behaviour, and its bounds
    call,        \* call[c]: where c is
    mut, key, conf,  \* what c asks for, its key, the confirmation it carries
    result,      \* result[c]: what the caller was told
    pending,     \* pending[f]: the mutation confirmation f stands for
    issued,      \* confirmations created so far
    attempts,    \* attempts[k]: backend calls under key k
    spent,       \* spent[f]: calls that consumed f
    crashes, faults

callVars == <<call, mut, key, conf, result>>
confirmationVars == <<pending, issued, spent>>
backendVars == <<gitHubVars, gitVars>>
vars == <<receiptVars, gitHubVars, gitVars, site, menu, callVars, confirmationVars, attempts, crashes, faults>>

CallStates == {"idle", "get", "replay", "reserve", "markExecuting", "backend",
               "markCompleted", "markReconciliationRequired", "done"}
Results == {None, "completed", "confirmation_required", "error", "lost"}

-----------------------------------------------------------------------------
Init ==
    /\ ReceiptsInit /\ GitHubInit
    /\ \E s \in Scenarios : GitInit(s.repository) /\ site = s.site /\ menu = s.menu
    /\ call = [c \in Calls |-> "idle"]
    /\ mut = [c \in Calls |-> None]
    /\ key = [c \in Calls |-> None]
    /\ conf = [c \in Calls |-> None]
    /\ result = [c \in Calls |-> None]
    /\ pending = [f \in ConfirmationIds |-> None]
    /\ issued = {}
    /\ attempts = [k \in Keys |-> 0]
    /\ spent = [f \in ConfirmationIds |-> {}]
    /\ crashes = 0 /\ faults = 0

(***************************************************************************)
(* The tools: the capability each one needs, whether it is confirmed       *)
(* (always, never, or unless a trusted workspace works on a feature        *)
(* branch), and whether it must not be used on main.                       *)
(***************************************************************************)
Entry(capability, confirmed, offMain) ==
    [capability |-> capability, confirmed |-> confirmed, offMain |-> offMain]

gitCreateBranch == Entry("git.branch.write", "never", FALSE)
gitStagePaths == Entry("git.index.write", "never", FALSE)
gitUnstagePaths == Entry("git.index.write", "never", FALSE)
gitCommit == Entry("git.commit.write", "never", TRUE)
gitMergeBranch == Entry("git.merge.write", "never", TRUE)
gitPushBranch == Entry("git.remote.push", "unlessTrustedFeature", FALSE)
githubCreateRepository == Entry("github.repository.create", "always", FALSE)
githubCreatePullRequest == Entry("github.pull_request.create", "unlessTrustedFeature", FALSE)
githubMergePullRequest == Entry("github.pull_request.merge", "always", FALSE)

\* The same for a workspace over SSH, where only GitHub has entries.
sshCreateRepository == Entry("github.repository.create", "always", FALSE)
sshCreatePullRequest == Entry("github.pull_request.create", "unlessTrustedFeature", FALSE)
sshMergePullRequest == Entry("github.pull_request.merge", "always", FALSE)

EntryOf(m) ==
    LET ssh == site = "ssh" IN
    CASE m.op = "git_create_branch" -> gitCreateBranch
      [] m.op = "git_stage_paths"   -> gitStagePaths
      [] m.op = "git_unstage_paths" -> gitUnstagePaths
      [] m.op = "git_commit"        -> gitCommit
      [] m.op = "git_merge_branch"  -> gitMergeBranch
      [] m.op = "git_push_branch"   -> gitPushBranch
      [] m.op = "github_create_repository"   -> IF ssh THEN sshCreateRepository ELSE githubCreateRepository
      [] m.op = "github_create_pull_request" -> IF ssh THEN sshCreatePullRequest ELSE githubCreatePullRequest
      [] m.op = "github_merge_pull_request"  -> IF ssh THEN sshMergePullRequest ELSE githubMergePullRequest

assertSourceControlCapability(m) ==
    /\ EntryOf(m).capability \in Capabilities
    /\ Writable
    /\ m.op \in GitHubOps => m.target \in AllowedTargets

\* sourceControlConfirmationOperation: in a trusted workspace feature branches
\* are pushed and proposed without a question.
Confirmable(m) ==
    /\ EntryOf(m).confirmed # "never"
    /\ ~ (EntryOf(m).confirmed = "unlessTrustedFeature" /\ Trusted /\ m.branch # Main)

\* Over SSH the Git operations know neither receipts nor confirmations.
Direct(m) == site = "ssh" /\ m.op \in GitOps

deriveSourceControlIdempotencyKey(c, k, f) ==
    IF k # None THEN k ELSE IF f # None THEN f ELSE c

Done(c, r) ==
    /\ call' = [call EXCEPT ![c] = "done"]
    /\ result' = [result EXCEPT ![c] = r]

Goto(c, pc) == call' = [call EXCEPT ![c] = pc] /\ UNCHANGED result

\* The next store operation of c.
Then(c, op) == Enqueue(c, op, key[c], mut[c])

BackendStart(c) ==
    IF mut[c].op \in GitHubOps
    THEN HubStart(c, mut[c]) /\ UNCHANGED gitVars
    ELSE GitStart(c) /\ UNCHANGED gitHubVars

-----------------------------------------------------------------------------
(***************************************************************************)
(* A call arrives: the policy, then for commit and merge the branch, then  *)
(* the receipt of its key.                                                 *)
(***************************************************************************)
Refused(m) ==
    \/ ~ Direct(m) /\ ~ assertSourceControlCapability(m)
    \/ ~ Direct(m) /\ EntryOf(m).offMain /\ current = Main
    \/ Direct(m) /\ ~ Writable

Call(c, m, k, f) ==
    /\ call[c] = "idle"
    /\ \A d \in Calls : d < c => call[d] # "idle"
    /\ m \in menu.asked /\ c <= menu.calls /\ f \in issued \cup {None}
    /\ mut' = [mut EXCEPT ![c] = m]
    /\ conf' = [conf EXCEPT ![c] = f]
    /\ key' = [key EXCEPT ![c] = deriveSourceControlIdempotencyKey(c, k, f)]
    /\ want' = [want EXCEPT ![m] = IF m.op \in GitOps /\ @ = NoWant THEN Seen(m) ELSE @]
    /\ UNCHANGED <<repoVars, gitHubVars, confirmationVars, attempts, site, menu, crashes, faults>>
    /\ \/ /\ Refused(m)
          /\ Done(c, "error")
          /\ UNCHANGED <<receiptVars, git>>
       \/ /\ ~ Refused(m) /\ Direct(m) /\ k = None /\ f = None    \* neither is read
          /\ SshBegin(c)
          /\ Goto(c, "backend")
          /\ UNCHANGED receiptVars
       \/ /\ ~ Refused(m) /\ ~ Direct(m)
          /\ Enqueue(c, "get", key'[c], m)
          /\ Goto(c, "get")
          /\ UNCHANGED git

Frame == UNCHANGED <<site, menu, mut, key, conf, crashes, faults>>

\* There is a receipt: reserve decides between replay and refusal.
GotReceipt(c) ==
    /\ call[c] = "get" /\ Returned(c, "get", "found")
    /\ Then(c, "reserve")
    /\ Goto(c, "replay")
    /\ Frame /\ UNCHANGED <<backendVars, confirmationVars, attempts>>

\* No receipt, and the operation must be confirmed: TypedConfirmationRegistry.create.
AskForConfirmation(c) ==
    /\ call[c] = "get" /\ Returned(c, "get", "absent")
    /\ Confirmable(mut[c]) /\ conf[c] = None
    /\ issued # ConfirmationIds
    /\ LET f == CHOOSE f \in ConfirmationIds \ issued : TRUE IN
         /\ pending' = [pending EXCEPT ![f] = mut[c]]
         /\ issued' = issued \cup {f}
    /\ Done(c, "confirmation_required")
    /\ Frame /\ UNCHANGED <<receiptVars, backendVars, spent, attempts>>

\* Mutant: consume leaves the confirmation in the table.
ConsumedStays(f) == pending

\* TypedConfirmationRegistry.consume removes what it accepts.
Consumed(f) == [pending EXCEPT ![f] = None]

\* No receipt: consume the confirmation, if one is needed, and reserve the key.
Reserve(c) ==
    /\ call[c] = "get" /\ Returned(c, "get", "absent")
    /\ IF Confirmable(mut[c])
       THEN /\ conf[c] # None
            /\ pending[conf[c]] = mut[c]
            /\ pending' = Consumed(conf[c])
            /\ spent' = [spent EXCEPT ![conf[c]] = @ \cup {c}]
       ELSE UNCHANGED <<pending, spent>>
    /\ Then(c, "reserve")
    /\ Goto(c, "reserve")
    /\ Frame /\ UNCHANGED <<backendVars, issued, attempts>>

\* The confirmation is missing, expired or of another mutation.
RefuseConfirmation(c) ==
    /\ call[c] = "get" /\ Returned(c, "get", "absent")
    /\ Confirmable(mut[c]) /\ conf[c] # None
    /\ pending[conf[c]] # mut[c]
    /\ Done(c, "error")
    /\ Frame /\ UNCHANGED <<receiptVars, backendVars, confirmationVars, attempts>>

\* The store answered something that ends the call: an error of the store, a
\* receipt of another mutation, or one that is not completed.
StoreEnds(c) ==
    /\ \/ call[c] \in {"get", "markExecuting"} /\ Returned(c, call[c], "error")
       \/ call[c] \in {"replay", "reserve"}
            /\ \E out \in {"error", "reconciliation_required"} : Returned(c, "reserve", out)
    /\ Done(c, "error")
    /\ Frame /\ UNCHANGED <<receiptVars, backendVars, confirmationVars, attempts>>

Replay(c) ==
    /\ call[c] \in {"replay", "reserve"} /\ Returned(c, "reserve", "replay_completed")
    /\ Done(c, "completed")
    /\ Frame /\ UNCHANGED <<receiptVars, backendVars, confirmationVars, attempts>>

Reserved(c) ==
    /\ call[c] = "reserve" /\ Returned(c, "reserve", "execute")
    /\ Then(c, "markExecuting")
    /\ Goto(c, "markExecuting")
    /\ Frame /\ UNCHANGED <<backendVars, confirmationVars, attempts>>

Execute(c) ==
    /\ call[c] = "markExecuting" /\ Returned(c, "markExecuting", "ok")
    /\ BackendStart(c)
    /\ attempts' = [attempts EXCEPT ![key[c]] = @ + 1]
    /\ Goto(c, "backend")
    /\ Frame /\ UNCHANGED <<receiptVars, confirmationVars>>

-----------------------------------------------------------------------------
BackendStatus(c) ==
    IF mut[c].op \in GitHubOps THEN hub[c] ELSE git[c].status

\* The backend ended: the receipt is completed or wants reconciliation.
BackendEnds(c) ==
    /\ call[c] = "backend" /\ ~ Direct(mut[c])
    /\ \E end \in {<<"completed", "markCompleted">>, <<"failed", "markReconciliationRequired">>} :
         /\ BackendStatus(c) = end[1]
         /\ Then(c, end[2])
         /\ Goto(c, end[2])
    /\ Frame /\ UNCHANGED <<backendVars, confirmationVars, attempts>>

DirectEnds(c) ==
    /\ call[c] = "backend" /\ Direct(mut[c])
    /\ git[c].status \in {"completed", "failed"}
    /\ Done(c, IF git[c].status = "completed" THEN "completed" ELSE "error")
    /\ Frame /\ UNCHANGED <<receiptVars, backendVars, confirmationVars, attempts>>

\* markCompleted must succeed before the result is returned.
CompletedIf(c) == {"ok"}

Complete(c) ==
    /\ call[c] = "markCompleted"
    /\ \E out \in CompletedIf(c) : Returned(c, "markCompleted", out)
    /\ Done(c, "completed")
    /\ Frame /\ UNCHANGED <<receiptVars, backendVars, confirmationVars, attempts>>

CompleteFails(c) ==
    /\ call[c] = "markCompleted" /\ Returned(c, "markCompleted", "error")
    /\ Then(c, "markReconciliationRequired")
    /\ Goto(c, "markReconciliationRequired")
    /\ Frame /\ UNCHANGED <<backendVars, confirmationVars, attempts>>

\* The backend's error is returned, whatever became of the receipt.
Reconciled(c) ==
    /\ call[c] = "markReconciliationRequired" /\ store[c].phase = "returned"
    /\ Done(c, "error")
    /\ Frame /\ UNCHANGED <<receiptVars, backendVars, confirmationVars, attempts>>

-----------------------------------------------------------------------------
\* Steps of the store and of the backend.
Rest == UNCHANGED <<site, menu, callVars, confirmationVars, attempts, crashes>>

CountFault == faults < menu.faults /\ faults' = faults + 1

StoreStep(c) ==
    /\ StoreRead(c) \/ StoreWrite(c)
    /\ Rest /\ UNCHANGED <<backendVars, faults>>

StoreFault(c) ==
    /\ StoreFail(c)
    /\ CountFault
    /\ Rest /\ UNCHANGED backendVars

HubStep(c) ==
    /\ call[c] = "backend" /\ mut[c].op \in GitHubOps
    /\ HubLook(c) \/ HubSend(c) \/ HubAnswer(c) \/ HubLost(c) \/ HubReconcile(c, mut[c])
    /\ Rest /\ UNCHANGED <<receiptVars, gitVars, faults>>

GitStep(c) ==
    /\ call[c] = "backend" /\ mut[c].op \in GitOps
    /\ GitAsk(c, site, mut[c]) \/ GitChange(c, site, mut[c])
    /\ Rest /\ UNCHANGED <<receiptVars, gitHubVars, faults>>

GitFault(c) ==
    /\ call[c] = "backend" /\ mut[c].op \in GitOps
    /\ GitChangeUnseen(c, site, mut[c]) \/ GitFail(c, site, mut[c])
    /\ CountFault
    /\ Rest /\ UNCHANGED <<receiptVars, gitHubVars>>

\* git refuses what it is asked to change.
GitRefuses(c) ==
    /\ call[c] = "backend" /\ mut[c].op \in GitOps
    /\ GitRefusal(c, site, mut[c])
    /\ Rest /\ UNCHANGED <<receiptVars, gitHubVars, faults>>

Server(c) ==
    /\ mut[c] # None
    /\ ServerHandle(c, mut[c])
    /\ Rest /\ UNCHANGED <<receiptVars, gitVars, faults>>

\* Others: an editor, another user, and the clock that expires confirmations.
Others ==
    /\ CountFault
    /\ \/ /\ \/ \E p \in Paths : Edit(p)
             \/ \E b \in Branches : RemoteMoves(b)
          /\ UNCHANGED <<gitHubVars, confirmationVars>>
       \/ /\ \E m \in Mutations : m.op \in GitHubOps /\ ServerForeign(m)
          /\ UNCHANGED <<gitVars, confirmationVars>>
       \/ /\ \E f \in issued : pending[f] # None /\ pending' = [pending EXCEPT ![f] = None]
          /\ UNCHANGED <<issued, spent, backendVars>>
    /\ UNCHANGED <<receiptVars, site, menu, callVars, attempts, crashes>>

\* The agent stops and starts again: its memory is empty.
Crash ==
    /\ crashes < menu.crashes
    /\ crashes' = crashes + 1
    /\ ReceiptsCrash /\ GitHubCrash /\ GitCrash
    /\ pending' = [f \in ConfirmationIds |-> None]
    /\ call' = [c \in Calls |-> IF call[c] = "idle" THEN "idle" ELSE "done"]
    /\ result' = [c \in Calls |-> IF call[c] \in {"idle", "done"} THEN result[c] ELSE "lost"]
    /\ UNCHANGED <<site, menu, mut, key, conf, issued, spent, attempts, faults>>

CallStep(c) ==
    \/ GotReceipt(c) \/ AskForConfirmation(c) \/ Reserve(c) \/ RefuseConfirmation(c)
    \/ StoreEnds(c) \/ Replay(c) \/ Reserved(c) \/ Execute(c)
    \/ BackendEnds(c) \/ DirectEnds(c)
    \/ Complete(c) \/ CompleteFails(c) \/ Reconciled(c)
    \/ StoreStep(c) \/ HubStep(c) \/ GitStep(c) \/ GitRefuses(c)

Next ==
    \/ \E c \in Calls : CallStep(c)
    \/ \E c \in Calls : StoreFault(c)
    \/ \E c \in Calls : GitFault(c)
    \/ \E c \in Calls : Server(c)
    \/ \E c \in Calls, m \in Mutations, k \in ClientKeys \cup {None}, f \in ConfirmationIds \cup {None} :
         Call(c, m, k, f)
    \/ Others
    \/ Crash

Spec == Init /\ [][Next]_vars

\* Promises of the file system, of processes and of fetch settle.
FairSpec == Spec /\ \A c \in Calls : WF_vars(CallStep(c))

-----------------------------------------------------------------------------
\* Every variable has its type.
TypeOK ==
    /\ ReceiptsTypeOK /\ GitHubTypeOK /\ GitTypeOK
    /\ site \in {"local", "ssh"}
    /\ menu.asked \subseteq Mutations
    /\ call \in [Calls -> CallStates]
    /\ result \in [Calls -> Results]
    /\ \A c \in Calls : call[c] # "idle" => mut[c] \in Mutations /\ key[c] \in Keys
    /\ pending \in [ConfirmationIds -> Mutations \cup {None}]
    /\ issued \subseteq ConfirmationIds
    /\ spent \in [ConfirmationIds -> SUBSET Calls]
    /\ attempts \in [Keys -> Nat]
    /\ crashes \in 0 .. menu.crashes /\ faults \in 0 .. menu.faults

\* The receipts keep their promise: under one key one mutation is tried at
\* most once, whatever calls share the key, come at the same time, follow a
\* crash or meet a failing disk.
Phase(k) ==
    CASE receipts[k].state = "completed"                    -> "settled"
      [] receipts[k].state # "completed" /\ attempts[k] > 1 -> "again"
      [] receipts[k].state # "completed" /\ attempts[k] = 1 -> "tried"
      [] receipts[k].state = "none" /\ attempts[k] = 0      -> "free"
      [] OTHER                                              -> "claimed"

Once == INSTANCE MutationOnce WITH
            phase <- [k \in Keys |-> Phase(k)],
            owner <- [k \in Keys |-> receipts[k].mutation]

\* executeSourceControlMutation implements MutationOnce.
TriedOnce == Once!Spec

\* A receipt that says "completed" is never about a change that is not there:
\* what GitHub has is what was asked for, and a pushed commit has been at the
\* remote, also when the answer was lost and the outcome was reconciled.
CompletedIsReal ==
    \A k \in Keys : receipts[k].state = "completed" =>
        LET m == receipts[k].mutation IN
        CASE m.op = "github_create_repository" ->
                 server[m.target] # None /\ server[m.target].variant = m.variant
          [] m.op \in GitHubOps \ {"github_create_repository"} -> server[m.target] # None
          [] m.op = "git_push_branch" -> want[m].source \in held[m.branch]
          [] m.op = "git_create_branch" -> want[m].head \in anc[tip[m.branch]]
          [] OTHER -> TRUE

\* A confirmation is good for one backend call, of the mutation it was shown
\* for: no two calls spend it, also when they carry different keys, and what
\* must be confirmed does not start without having spent one.
OneChangePerConfirmation ==
    /\ \A f \in ConfirmationIds : Cardinality(spent[f]) <= 1
    /\ \A c \in Calls :
         call[c] \in {"markExecuting", "backend"} /\ ~ Direct(mut[c]) /\ Confirmable(mut[c])
            => conf[c] # None /\ c \in spent[conf[c]]

\* No typed operation, in any interleaving, takes a commit out of a branch:
\* local and remote branches only move forward.
NoHistoryLost ==
    [][/\ \A b \in Branches : tip[b] # NoCommit => tip'[b] # NoCommit /\ tip[b] \in anc'[tip'[b]]
       /\ \A b \in Branches : remote'[b] \in Commits => remote[b] \in anc'[remote'[b]] \cup {NoCommit}]_vars

\* Every call is answered: no call waits forever for the store, for git or
\* for GitHub, and the queue of a key never blocks.
CallsEnd == \A c \in Calls : (call[c] # "idle") ~> (call[c] = "done")
=============================================================================
