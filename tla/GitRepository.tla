---------------------------- MODULE GitRepository ----------------------------
(***************************************************************************)
(* The typed Git operations (GitRepositoryService over one git process per *)
(* question, and the same operations over SSH).  An operation first asks   *)
(* whether the repository still is what the caller saw, one git process    *)
(* after the other, and then makes its change by one more; other calls     *)
(* come in between.                                                        *)
(*                                                                         *)
(* git itself is external: its commands are modelled by what they do to    *)
(* the branches, the index, the worktree and the remote.                   *)
(***************************************************************************)
EXTENDS SourceControlBase

CONSTANTS
    Branches, Main,     \* branch names, with the protected one
    Paths,              \* files of the worktree
    MaxCommits          \* bound: commits made after the first

ASSUME MainAssumption == Main \in Branches
ASSUME MaxCommitsAssumption == MaxCommits \in Nat
ASSUME BranchesAssumption == \A m \in Mutations : m.branch \in Branches

VARIABLES
    tip,         \* tip[b]: the commit of branch b, or NoCommit
    anc,         \* anc[n]: commit n and its ancestors
    current,     \* the branch that is checked out
    index,       \* paths staged and not committed
    work,        \* paths changed and not staged
    remote,      \* remote[b]: the commit of b at the remote
    held,        \* held[b]: every commit b has been at the remote
    git,         \* git[c]: where call c is in its Git operation
    want         \* want[m]: what the caller saw when it decided on m, and expects

repoVars == <<tip, anc, current, index, work, remote, held>>
gitVars == <<repoVars, git, want>>

Commits == 0 .. MaxCommits
NoCommit == MaxCommits + 1
Foreign == MaxCommits + 2      \* a commit of somebody else

HeadCommit == tip[current]
Made == {n \in Commits : anc[n] # {}}

\* A repository as git keeps it: whoever has a commit has its ancestors, the
\* references are to commits that are there, and HEAD is not unborn.
Repository(r) ==
    LET made == {n \in Commits : r.anc[n] # {}} IN
    /\ r.anc \in [Commits -> SUBSET Commits]
    /\ \A n \in made : n \in r.anc[n] /\ \A x \in r.anc[n] : x \in made /\ r.anc[x] \subseteq r.anc[n]
    /\ r.tip \in [Branches -> made \cup {NoCommit}]
    /\ r.remote \in [Branches -> made \cup {NoCommit, Foreign}]
    /\ r.current \in Branches /\ r.tip[r.current] \in made
    /\ r.index \subseteq Paths /\ r.work \subseteq Paths

NoWant == [head |-> NoCommit, index |-> {}, source |-> NoCommit, remote |-> NoCommit]
GitIdle == [at |-> 0, status |-> "idle"]

\* The repository is as r says when the agent meets it.
GitInit(r) ==
    /\ tip = r.tip /\ anc = r.anc /\ current = r.current
    /\ index = r.index /\ work = r.work
    /\ remote = r.remote
    /\ held = [b \in Branches |-> {r.remote[b]} \ {NoCommit}]
    /\ git = [c \in Calls |-> GitIdle]
    /\ want = [m \in Mutations |-> NoWant]

-----------------------------------------------------------------------------
(***************************************************************************)
(* The operations as the questions they ask and the change they make.      *)
(***************************************************************************)
createBranch == <<"head", "absent", "switch", "head">>
stagePaths == <<"add", "report">>
unstagePaths == <<"head", "index", "restore", "report">>
commit == <<"branch", "head", "index", "commit", "report">>
mergeBranch == <<"branch", "head", "source", "cleanIndex", "cleanWork", "ancestor", "merge", "atSource">>
pushBranch == <<"source", "remote", "push", "pushed">>

sshCreateBranch == <<"head", "absent", "switch", "head">>
sshStagePaths == <<"add", "report">>
sshUnstagePaths == <<"head", "index", "restore", "report">>
sshCommit == <<"branch", "head", "index", "commit", "report">>
sshMergeBranch == <<"branch", "head", "source", "cleanIndex", "cleanWork", "ancestor", "merge", "atSource">>
sshPushBranch == <<"source", "remote", "push", "sshPushed">>

Script(site, op) ==
    LET ssh == site = "ssh" IN
    CASE op = "git_create_branch" -> IF ssh THEN sshCreateBranch ELSE createBranch
      [] op = "git_stage_paths"   -> IF ssh THEN sshStagePaths ELSE stagePaths
      [] op = "git_unstage_paths" -> IF ssh THEN sshUnstagePaths ELSE unstagePaths
      [] op = "git_commit"        -> IF ssh THEN sshCommit ELSE commit
      [] op = "git_merge_branch"  -> IF ssh THEN sshMergeBranch ELSE mergeBranch
      [] op = "git_push_branch"   -> IF ssh THEN sshPushBranch ELSE pushBranch

Changes == {"switch", "add", "restore", "commit", "merge", "push"}

\* After a push, whatever git said: is the branch at the remote the pushed commit?  The code
\* asks ls-remote, which lists every head whose name ends in the branch, and takes the first
\* line (remoteBranchSha); here the branch is asked for by its whole name, and no other ends in it.
reconcilePush(m) == remote[m.branch] = want[m].source
reconcileGitPush(m) == remote[m.branch] = want[m].source

\* The questions, by the git process that answers them.
Holds(step, m) ==
    CASE step = "branch"     -> current # Main
      [] step = "head"       -> HeadCommit = want[m].head
      [] step = "absent"     -> tip[m.branch] = NoCommit
      [] step = "index"      -> index = want[m].index
      [] step = "source"     -> tip[m.branch] # NoCommit /\ tip[m.branch] = want[m].source
      [] step = "cleanIndex" -> index = {}
      [] step = "cleanWork"  -> work = {}
      [] step = "ancestor"   -> want[m].head \in anc[want[m].source]
      [] step = "atSource"   -> HeadCommit = want[m].source
      [] step = "remote"     -> m.variant = "pinned" => remote[m.branch] = want[m].remote
      [] step = "pushed"     -> reconcilePush(m)
      [] step = "sshPushed"  -> reconcileGitPush(m)
      [] step = "report"     -> TRUE

-----------------------------------------------------------------------------
\* git switch -c
CreateBranch(m) ==
    /\ tip' = [tip EXCEPT ![m.branch] = want[m].head]
    /\ current' = m.branch
    /\ UNCHANGED <<anc, index, work, remote, held>>

\* git add
StagePaths(m) ==
    /\ index' = index \cup (m.paths \cap work)
    /\ work' = work \ m.paths
    /\ UNCHANGED <<tip, anc, current, remote, held>>

\* git restore --staged
UnstagePaths(m) ==
    /\ index' = index \ m.paths
    /\ work' = work \cup (m.paths \cap index)
    /\ UNCHANGED <<tip, anc, current, remote, held>>

\* git commit
Commit ==
    /\ \E n \in Commits \ Made :
         /\ n - 1 \in Made
         /\ tip' = [tip EXCEPT ![current] = n]
         /\ anc' = [anc EXCEPT ![n] = anc[HeadCommit] \cup {n}]
    /\ index' = {}
    /\ UNCHANGED <<current, work, remote, held>>

\* Mutant: git merge without --ff-only trusts the question asked before.
MergesAnyway(m) == TRUE

\* git merge --ff-only: refused when HEAD is no ancestor of the source.
FastForwards(m) == HeadCommit \in anc[want[m].source]

MergeFastForward(m) ==
    /\ tip' = [tip EXCEPT ![current] = want[m].source]
    /\ UNCHANGED <<anc, current, index, work, remote, held>>

\* git push <sha>:refs/heads/<branch>, not forced
PushBranch(m) ==
    /\ remote' = [remote EXCEPT ![m.branch] = want[m].source]
    /\ held' = [held EXCEPT ![m.branch] = @ \cup {want[m].source}]
    /\ UNCHANGED <<tip, anc, current, index, work>>

\* What git refuses: a branch that is there, a commit of nothing, a merge or
\* a push that is no fast-forward.
Accepts(step, m) ==
    CASE step = "switch" -> tip[m.branch] = NoCommit
      [] step = "commit" -> index # {} /\ Commits # Made
      [] step = "merge"  -> FastForwards(m)
      [] step = "push"   -> remote[m.branch] \in anc[want[m].source] \cup {NoCommit}
      [] OTHER           -> TRUE

Change(step, m) ==
    CASE step = "switch"  -> CreateBranch(m)
      [] step = "add"     -> StagePaths(m)
      [] step = "restore" -> UnstagePaths(m)
      [] step = "commit"  -> Commit
      [] step = "merge"   -> MergeFastForward(m)
      [] step = "push"    -> PushBranch(m)

-----------------------------------------------------------------------------
\* What the caller sees when it asks: it read the state before.
Seen(m) == [head   |-> HeadCommit,
            index  |-> index,
            source |-> IF m.op \in {"git_merge_branch", "git_push_branch"} THEN tip[m.branch] ELSE NoCommit,
            remote |-> IF m.op = "git_push_branch" THEN remote[m.branch] ELSE NoCommit]

\* The repository is resolved and the paths are authorized before the first
\* question; when that fails the first question fails.
Begin(c) == git' = [git EXCEPT ![c] = [at |-> 1, status |-> "running"]]

\* The same over SSH.
SshBegin(c) == git' = [git EXCEPT ![c] = [at |-> 1, status |-> "running"]]

GitStart(c) == Begin(c) /\ UNCHANGED <<repoVars, want>>

Running(c) == git[c].status = "running"
At(c, site, m) == Script(site, m.op)[git[c].at]

Advance(c, site, m) ==
    git' = [git EXCEPT ![c] = IF git[c].at = Len(Script(site, m.op))
                              THEN [at |-> git[c].at, status |-> "completed"]
                              ELSE [at |-> git[c].at + 1, status |-> "running"]]

Fail(c) == git' = [git EXCEPT ![c].status = "failed"]

\* One question.
GitAsk(c, site, m) ==
    /\ Running(c)
    /\ At(c, site, m) \notin Changes
    /\ IF Holds(At(c, site, m), m) THEN Advance(c, site, m) ELSE Fail(c)
    /\ UNCHANGED <<repoVars, want>>

\* The change.
GitChange(c, site, m) ==
    /\ Running(c)
    /\ At(c, site, m) \in Changes
    /\ Accepts(At(c, site, m), m)
    /\ Change(At(c, site, m), m)
    /\ Advance(c, site, m)
    /\ UNCHANGED want

\* The change is made and the process is killed or its end is not seen.  A
\* push goes on to look at the remote, everything else is an error.
GitChangeUnseen(c, site, m) ==
    /\ Running(c)
    /\ At(c, site, m) \in Changes
    /\ Accepts(At(c, site, m), m)
    /\ Change(At(c, site, m), m)
    /\ \/ Fail(c)
       \/ At(c, site, m) = "push" /\ Advance(c, site, m)
    /\ UNCHANGED want

\* git refuses.  A push looks at the remote all the same.
GitRefusal(c, site, m) ==
    /\ Running(c)
    /\ At(c, site, m) \in Changes
    /\ ~ Accepts(At(c, site, m), m)
    /\ IF At(c, site, m) = "push" THEN Advance(c, site, m) ELSE Fail(c)
    /\ UNCHANGED <<repoVars, want>>

\* git cannot be started or is killed before it does anything.
GitFail(c, site, m) ==
    /\ Running(c)
    /\ \/ Fail(c)
       \/ At(c, site, m) = "push" /\ Advance(c, site, m)
    /\ UNCHANGED <<repoVars, want>>

\* External: somebody else changes a file, or changes and stages it.
Edit(p) ==
    /\ p \notin work \cup index
    /\ \/ work' = work \cup {p} /\ UNCHANGED index
       \/ index' = index \cup {p} /\ UNCHANGED work
    /\ UNCHANGED <<tip, anc, current, remote, held, git, want>>

\* External: somebody else pushes.
RemoteMoves(b) ==
    /\ remote[b] \notin {NoCommit, Foreign}
    /\ remote' = [remote EXCEPT ![b] = Foreign]
    /\ held' = [held EXCEPT ![b] = @ \cup {Foreign}]
    /\ UNCHANGED <<tip, anc, current, index, work, git, want>>

GitCrash == git' = [c \in Calls |-> GitIdle] /\ UNCHANGED <<repoVars, want>>

GitTypeOK ==
    /\ tip \in [Branches -> Commits \cup {NoCommit}]
    /\ anc \in [Commits -> SUBSET Commits]
    /\ current \in Branches
    /\ index \subseteq Paths /\ work \subseteq Paths
    /\ remote \in [Branches -> Commits \cup {NoCommit, Foreign}]
    /\ held \in [Branches -> SUBSET (Commits \cup {Foreign})]
    /\ \A c \in Calls : /\ git[c].status \in {"idle", "running", "completed", "failed"}
                        /\ git[c].at \in 0 .. 8
    /\ \A m \in Mutations : want[m].head \in Commits \cup {NoCommit}
=============================================================================
