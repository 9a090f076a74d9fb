------------------------- MODULE SourceHistoryProofs -------------------------
(***************************************************************************)
(* Proofs about what source-control calls do to repositories and to        *)
(* GitHub: no branch loses a commit, and a receipt that says "completed"   *)
(* is about a change that is there.                                        *)
(***************************************************************************)
EXTENDS SourceControlProofs

-----------------------------------------------------------------------------
(***************************************************************************)
(* The inductive invariant                                                 *)
(***************************************************************************)
\* The repository is one git could have made.
HistoryOK ==
    /\ anc \in [Commits -> SUBSET Commits]
    /\ \A n \in Made : n \in anc[n] /\ \A x \in anc[n] : x \in Made /\ anc[x] \subseteq anc[n]
    /\ tip \in [Branches -> Made \cup {NoCommit}]
    /\ remote \in [Branches -> Made \cup {NoCommit, Foreign}]
    /\ current \in Branches /\ tip[current] \in Made
    /\ held \in [Branches -> SUBSET (Commits \cup {Foreign})]
    /\ \A b \in Branches : remote[b] \in held[b] \cup {NoCommit}

\* What a caller saw was there: its head, and the branch it merges or pushes
\* if there was one.
Wants == {NoWant} \cup [head : Commits, index : SUBSET Paths,
                        source : Commits \cup {NoCommit}, remote : Commits \cup {NoCommit, Foreign}]

SeenOK ==
    /\ index \subseteq Paths /\ work \subseteq Paths
    /\ want \in [Mutations -> Wants]
    /\ \A m \in Mutations : want[m] # NoWant => want[m].head \in Made /\ want[m].source \in Made \cup {NoCommit}
    /\ \A c \in Calls : call[c] # "idle" /\ mut[c].op \in GitOps => want[mut[c]] # NoWant

\* The branch is there and has what it was created from.
Forked(m) == tip[m.branch] \in Made /\ want[m].head \in anc[tip[m.branch]]

\* The commit has been at the remote.
Pushed(m) == want[m].source # NoCommit /\ want[m].source \in held[m.branch]

GitStatuses == {"idle", "running", "completed", "failed"}

\* What an operation that has come so far knows.
Asked(c) ==
    LET m == mut[c] IN
    /\ git[c].at \in 1 .. Len(Script(site, m.op))
    /\ m.op = "git_create_branch" /\ git[c].at > 3 => Forked(m)
    /\ m.op = "git_merge_branch" /\ git[c].at > 3 => want[m].source # NoCommit
    /\ m.op = "git_push_branch" /\ git[c].at > 1 => want[m].source # NoCommit
    /\ m.op = "git_push_branch" /\ git[c].status = "completed" => Pushed(m)
    /\ m.op = "git_create_branch" /\ git[c].status = "completed" => Forked(m)

AskedOK ==
    /\ git \in [Calls -> [at : 0 .. 8, status : GitStatuses]]
    /\ \A c \in Calls : call[c] = "backend" /\ mut[c].op \in GitOps /\ git[c].status \in {"running", "completed"}
                            => Asked(c)

GitInv == HistoryOK /\ SeenOK /\ AskedOK

\* What GitHub applied is what a call asked for, and what the service found
\* completed is there.
HubInv ==
    /\ hub \in [Calls -> HubStates]
    /\ wire \in [Calls -> {"none", "sent", "applied", "refused"}]
    /\ server \in [Targets -> Mutations \cup {None}]
    /\ \A c \in Calls :
         /\ wire[c] # "none" => call[c] # "idle" /\ mut[c].op \in GitHubOps
         /\ wire[c] = "applied" => server[mut[c].target] = mut[c]
         /\ call[c] = "backend" /\ mut[c].op \in GitHubOps /\ hub[c] = "completed" => IsThere(mut[c])

\* The change that a mutation asked for is there.
Real(m) ==
    /\ m.op \in GitHubOps => IsThere(m)
    /\ m.op = "git_push_branch" => Pushed(m)
    /\ m.op = "git_create_branch" => Forked(m)

RealInv ==
    /\ \A k \in Keys : receipts[k].state = "completed" => Real(receipts[k].mutation)
    /\ \A c \in Calls : call[c] = "markCompleted" => Real(mut[c])

-----------------------------------------------------------------------------
(***************************************************************************)
(* The repository                                                          *)
(***************************************************************************)

\* What every step does to a repository: commits keep their ancestors, branches
\* move forward, and so does what has been at the remote.
Forward ==
    /\ \A n \in Made : anc'[n] = anc[n]
    /\ \A b \in Branches : tip[b] # NoCommit =>
         tip'[b] \in Made' /\ tip[b] \in anc'[tip'[b]] /\ anc[tip[b]] \subseteq anc'[tip'[b]]
    /\ \A b \in Branches : remote'[b] \in Commits => remote[b] \in anc'[remote'[b]] \cup {NoCommit}
    /\ \A b \in Branches : held[b] \subseteq held'[b]

\* NoCommit and Foreign are no commits, and not the same.
LEMMA Marks == NoCommit \notin Commits /\ Foreign \notin Commits /\ NoCommit # Foreign
BY MaxCommitsAssumption DEF NoCommit, Foreign, Commits

\* Commits that were made stay made.
LEMMA MadeStays ==
    ASSUME Forward
    PROVE  Made \subseteq Made'
BY DEF Forward, Made

\* A step that changes at most the index and the worktree moves nothing back.
LEMMA WorktreeForward ==
    ASSUME HistoryOK, UNCHANGED <<tip, anc, current, remote, held>>
    PROVE  HistoryOK' /\ Forward
<1>1. Made' = Made
  BY DEF Made
<1>2. HistoryOK'
  BY <1>1 DEF HistoryOK
<1>3. \A b \in Branches : tip[b] # NoCommit => tip[b] \in Made /\ tip[b] \in anc[tip[b]]
  BY DEF HistoryOK
<1>4. \A b \in Branches : remote[b] \in Commits => remote[b] \in anc[remote[b]]
  BY Marks DEF HistoryOK
<1> QED
  BY <1>1, <1>2, <1>3, <1>4 DEF Forward

\* git switch -c makes a branch where there is none.
LEMMA SwitchForward ==
    ASSUME HistoryOK, NEW m \in Mutations, want[m].head \in Made, tip[m.branch] = NoCommit, CreateBranch(m)
    PROVE  /\ HistoryOK' /\ Forward
           /\ tip'[m.branch] \in Made' /\ want[m].head \in anc'[tip'[m.branch]]
<1>1. m.branch \in Branches
  BY BranchesAssumption
<1>2. /\ tip' = [tip EXCEPT ![m.branch] = want[m].head] /\ current' = m.branch
      /\ UNCHANGED <<anc, remote, held>>
  BY DEF CreateBranch
<1>3. Made' = Made
  BY <1>2 DEF Made
<1>4. tip'[m.branch] = want[m].head /\ \A b \in Branches : b # m.branch => tip'[b] = tip[b]
  BY <1>1, <1>2 DEF HistoryOK
<1>5. want[m].head \in anc[want[m].head]
  BY DEF HistoryOK
<1>6. HistoryOK'
  BY <1>1, <1>2, <1>3, <1>4 DEF HistoryOK
<1>7. \A b \in Branches : tip[b] # NoCommit => tip[b] \in Made /\ tip[b] \in anc[tip[b]]
  BY DEF HistoryOK
<1>8. \A b \in Branches : remote[b] \in Commits => remote[b] \in anc[remote[b]]
  BY Marks DEF HistoryOK
<1>9. Forward
  BY <1>2, <1>3, <1>4, <1>7, <1>8 DEF Forward
<1> QED
  BY <1>2, <1>3, <1>4, <1>5, <1>6, <1>9

\* git commit adds a commit on top of HEAD.
LEMMA CommitForward ==
    ASSUME HistoryOK, Commit
    PROVE  HistoryOK' /\ Forward
<1>1. PICK n \in Commits \ Made :
        /\ tip' = [tip EXCEPT ![current] = n]
        /\ anc' = [anc EXCEPT ![n] = anc[HeadCommit] \cup {n}]
  BY DEF Commit
<1>2. UNCHANGED <<current, remote, held>> /\ HeadCommit = tip[current] /\ HeadCommit \in Made
  BY DEF Commit, HeadCommit, HistoryOK
<1>3. anc'[n] = anc[HeadCommit] \cup {n} /\ \A x \in Commits : x # n => anc'[x] = anc[x]
  BY <1>1 DEF HistoryOK
<1>4. Made' = Made \cup {n}
  BY <1>1, <1>3 DEF Made
<1>5. tip'[current] = n /\ \A b \in Branches : b # current => tip'[b] = tip[b]
  BY <1>1 DEF HistoryOK
<1>6. Made \subseteq Commits
  BY DEF Made
<1>7. anc' \in [Commits -> SUBSET Commits]
  BY <1>1, <1>2, <1>6 DEF HistoryOK
<1>8. \A x \in Made' : x \in anc'[x] /\ \A y \in anc'[x] : y \in Made' /\ anc'[y] \subseteq anc'[x]
  <2>1. \A x \in Made : x \in anc'[x] /\ \A y \in anc'[x] : y \in Made /\ anc'[y] \subseteq anc'[x]
    BY <1>1, <1>3, <1>6 DEF HistoryOK
  <2>2. \A y \in anc'[n] : y \in Made' /\ anc'[y] \subseteq anc'[n]
    BY <1>1, <1>2, <1>3, <1>4, <1>6 DEF HistoryOK
  <2> QED
    BY <1>3, <1>4, <2>1, <2>2
<1>9. HistoryOK'
  <2>1. tip' \in [Branches -> Made' \cup {NoCommit}]
    BY <1>1, <1>4 DEF HistoryOK
  <2>2. remote' \in [Branches -> Made' \cup {NoCommit, Foreign}]
    BY <1>2, <1>4 DEF HistoryOK
  <2>3. current' \in Branches /\ tip'[current'] \in Made'
    BY <1>2, <1>4, <1>5 DEF HistoryOK
  <2> QED
    BY <1>2, <1>7, <1>8, <2>1, <2>2, <2>3 DEF HistoryOK
<1>10. \A x \in Made : anc'[x] = anc[x]
  BY <1>1, <1>3, <1>6
<1>11. \A b \in Branches : tip[b] # NoCommit =>
         tip'[b] \in Made' /\ tip[b] \in anc'[tip'[b]] /\ anc[tip[b]] \subseteq anc'[tip'[b]]
  <2>1. \A b \in Branches : tip[b] # NoCommit => tip[b] \in Made /\ tip[b] \in anc[tip[b]]
    BY DEF HistoryOK
  <2>2. \A b \in Branches : b # current /\ tip[b] # NoCommit => anc'[tip'[b]] = anc[tip[b]]
    BY <1>5, <1>10, <2>1
  <2> QED
    BY <1>2, <1>3, <1>4, <1>5, <2>1, <2>2
<1>12. \A b \in Branches : remote[b] \in Commits => remote[b] \in Made /\ remote[b] \in anc[remote[b]]
  BY Marks DEF HistoryOK
<1>13. Forward
  BY <1>2, <1>10, <1>11, <1>12 DEF Forward
<1> QED
  BY <1>9, <1>13

\* git merge --ff-only moves a branch to one of its descendants.
LEMMA MergeForward ==
    ASSUME HistoryOK, NEW m, want[m].source \in Made, FastForwards(m), MergeFastForward(m)
    PROVE  HistoryOK' /\ Forward
<1> DEFINE s == want[m].source
<1>1. tip' = [tip EXCEPT ![current] = s] /\ UNCHANGED <<anc, current, remote, held>>
  BY DEF MergeFastForward
<1>2. tip[current] \in anc[s] /\ s \in Made
  BY DEF FastForwards, HeadCommit
<1> HIDE DEF s
<1>3. Made' = Made
  BY <1>1 DEF Made
<1>4. anc[tip[current]] \subseteq anc[s]
  BY <1>2 DEF HistoryOK
<1>5. tip'[current] = s /\ \A b \in Branches : b # current => tip'[b] = tip[b]
  BY <1>1 DEF HistoryOK
<1>6. HistoryOK'
  BY <1>1, <1>2, <1>3, <1>5 DEF HistoryOK
<1>7. \A b \in Branches : tip[b] # NoCommit => tip[b] \in Made /\ tip[b] \in anc[tip[b]]
  BY DEF HistoryOK
<1>8. \A b \in Branches : remote[b] \in Commits => remote[b] \in anc[remote[b]]
  BY Marks DEF HistoryOK
<1>9. Forward
  BY <1>1, <1>2, <1>3, <1>4, <1>5, <1>7, <1>8 DEF Forward
<1> QED
  BY <1>6, <1>9

\* A push that is not forced moves the remote branch to one of its descendants.
LEMMA PushForward ==
    ASSUME HistoryOK, NEW m \in Mutations, want[m].source \in Made,
           remote[m.branch] \in anc[want[m].source] \cup {NoCommit}, PushBranch(m)
    PROVE  HistoryOK' /\ Forward
<1> DEFINE s == want[m].source
<1>1. /\ remote' = [remote EXCEPT ![m.branch] = s]
      /\ held' = [held EXCEPT ![m.branch] = held[m.branch] \cup {s}]
      /\ UNCHANGED <<tip, anc, current>>
  BY DEF PushBranch
<1>2. s \in Made /\ s \in Commits /\ remote[m.branch] \in anc[s] \cup {NoCommit} /\ m.branch \in Branches
  BY BranchesAssumption DEF Made
<1> HIDE DEF s
<1>3. Made' = Made
  BY <1>1 DEF Made
<1>4. /\ remote'[m.branch] = s /\ \A b \in Branches : b # m.branch => remote'[b] = remote[b]
      /\ remote' \in [Branches -> Made \cup {NoCommit, Foreign}]
  BY <1>1, <1>2 DEF HistoryOK
<1>5. /\ held' \in [Branches -> SUBSET (Commits \cup {Foreign})]
      /\ \A b \in Branches : held[b] \subseteq held'[b] /\ remote'[b] \in held'[b] \cup {NoCommit}
  BY <1>1, <1>2 DEF HistoryOK
<1>6. HistoryOK'
  BY <1>1, <1>3, <1>4, <1>5 DEF HistoryOK
<1>7. \A b \in Branches : tip[b] # NoCommit => tip[b] \in Made /\ tip[b] \in anc[tip[b]]
  BY DEF HistoryOK
<1>8. \A b \in Branches : remote[b] \in Commits => remote[b] \in anc[remote[b]]
  BY Marks DEF HistoryOK
<1>9. Forward
  BY <1>1, <1>2, <1>3, <1>4, <1>5, <1>7, <1>8 DEF Forward
<1> QED
  BY <1>6, <1>9

\* Somebody else's push is no typed operation's loss.
LEMMA ForeignForward ==
    ASSUME HistoryOK, NEW b \in Branches, RemoteMoves(b)
    PROVE  HistoryOK' /\ Forward
<1>1. /\ remote' = [remote EXCEPT ![b] = Foreign]
      /\ held' = [held EXCEPT ![b] = held[b] \cup {Foreign}]
      /\ UNCHANGED <<tip, anc, current>>
  BY DEF RemoteMoves
<1>2. Made' = Made
  BY <1>1 DEF Made
<1>3. /\ remote'[b] = Foreign /\ \A e \in Branches : e # b => remote'[e] = remote[e]
      /\ remote' \in [Branches -> Made \cup {NoCommit, Foreign}]
  BY <1>1 DEF HistoryOK
<1>4. /\ held' \in [Branches -> SUBSET (Commits \cup {Foreign})]
      /\ \A e \in Branches : held[e] \subseteq held'[e] /\ remote'[e] \in held'[e] \cup {NoCommit}
  BY <1>1 DEF HistoryOK
<1>5. HistoryOK'
  BY <1>1, <1>2, <1>3, <1>4 DEF HistoryOK
<1>6. \A e \in Branches : tip[e] # NoCommit => tip[e] \in Made /\ tip[e] \in anc[tip[e]]
  BY DEF HistoryOK
<1>7. \A e \in Branches : remote[e] \in Commits => remote[e] \in anc[remote[e]]
  BY Marks DEF HistoryOK
<1>8. Forward
  BY <1>1, <1>2, <1>3, <1>4, <1>6, <1>7, Marks DEF Forward
<1> QED
  BY <1>5, <1>8

-----------------------------------------------------------------------------
(***************************************************************************)
(* The typed Git operations                                                *)
(***************************************************************************)

\* Where the steps that matter stand in the operations, local and over SSH.
LEMMA ScriptSteps ==
    ASSUME NEW s, NEW op \in GitOps, NEW i \in 1 .. Len(Script(s, op))
    PROVE  /\ Len(Script(s, op)) \in 1 .. 8
           /\ Script(s, op)[i] = "switch" <=> op = "git_create_branch" /\ i = 3
           /\ Script(s, op)[i] = "merge" => op = "git_merge_branch" /\ i = 7
           /\ Script(s, op)[i] = "push" => op = "git_push_branch" /\ i = 3
           /\ op = "git_create_branch" => Len(Script(s, op)) = 4
           /\ op = "git_merge_branch" /\ i = 3 => Script(s, op)[i] = "source"
           /\ op = "git_push_branch" /\ i = 1 => Script(s, op)[i] = "source"
           /\ op = "git_push_branch" => Len(Script(s, op)) = 4
           /\ op = "git_push_branch" /\ i = 4 => Script(s, op)[i] \in {"pushed", "sshPushed"}
<1> USE DEF Script
<1>1. CASE op = "git_create_branch"
  BY <1>1 DEF createBranch, sshCreateBranch
<1>2. CASE op = "git_stage_paths"
  BY <1>2 DEF stagePaths, sshStagePaths
<1>3. CASE op = "git_unstage_paths"
  BY <1>3 DEF unstagePaths, sshUnstagePaths
<1>4. CASE op = "git_commit"
  BY <1>4 DEF commit, sshCommit
<1>5. CASE op = "git_merge_branch"
  BY <1>5 DEF mergeBranch, sshMergeBranch
<1>6. CASE op = "git_push_branch"
  BY <1>6 DEF pushBranch, sshPushBranch
<1> QED
  BY <1>1, <1>2, <1>3, <1>4, <1>5, <1>6 DEF GitOps

\* An operation goes to its next step, or is completed.
LEMMA AdvanceIs ==
    ASSUME AskedOK, NEW c \in Calls, NEW s, NEW m, m.op \in GitOps,
           git[c].at \in 1 .. Len(Script(s, m.op)), Advance(c, s, m)
    PROVE  /\ git' \in [Calls -> [at : 0 .. 8, status : GitStatuses]]
           /\ \A d \in Calls : d # c => git'[d] = git[d]
           /\ git[c].at = Len(Script(s, m.op)) => git'[c].at = git[c].at /\ git'[c].status = "completed"
           /\ git[c].at # Len(Script(s, m.op)) => git'[c].at = git[c].at + 1 /\ git'[c].status = "running"
           /\ git'[c].at \in 1 .. Len(Script(s, m.op))
<1> DEFINE n == Len(Script(s, m.op))
           r == IF git[c].at = n THEN [at |-> git[c].at, status |-> "completed"]
                                 ELSE [at |-> git[c].at + 1, status |-> "running"]
<1>1. n \in 1 .. 8 /\ git[c].at \in 1 .. n
  BY ScriptSteps
<1>2. git[c] \in [at : 0 .. 8, status : GitStatuses] /\ git \in [Calls -> [at : 0 .. 8, status : GitStatuses]]
  BY DEF AskedOK
<1>3. git' = [git EXCEPT ![c] = r]
  BY Zenon DEF Advance
<1> HIDE DEF n
<1>4. /\ r \in [at : 0 .. 8, status : GitStatuses] /\ r.at \in 1 .. n
      /\ git[c].at = n => r.at = git[c].at /\ r.status = "completed"
      /\ git[c].at # n => r.at = git[c].at + 1 /\ r.status = "running"
  BY <1>1, <1>2 DEF GitStatuses
<1> HIDE DEF r
<1>5. git'[c] = r
  BY <1>2, <1>3
<1> QED
  BY <1>2, <1>3, <1>4, <1>5 DEF n

\* An operation fails.
LEMMA FailIs ==
    ASSUME AskedOK, NEW c \in Calls, Fail(c)
    PROVE  /\ git' \in [Calls -> [at : 0 .. 8, status : GitStatuses]]
           /\ \A d \in Calls : d # c => git'[d] = git[d]
           /\ git'[c].status = "failed"
<1>1. git[c] \in [at : 0 .. 8, status : GitStatuses] /\ git \in [Calls -> [at : 0 .. 8, status : GitStatuses]]
  BY DEF AskedOK
<1> QED
  BY <1>1 DEF Fail, GitStatuses

\* What was created or pushed stays so, whatever is done to the repository
\* and whoever asks for the same mutation again.
LEMMA KnownStays ==
    ASSUME HistoryOK, SeenOK, Forward, NEW m \in Mutations, want[m] # NoWant => want'[m] = want[m]
    PROVE  /\ Forked(m) => Forked(m)'
           /\ Pushed(m) => Pushed(m)'
           /\ want[m].source # NoCommit => want'[m].source # NoCommit
<1>1. m.branch \in Branches
  BY BranchesAssumption
<1>2. want[m].head # NoCommit \/ want[m].source # NoCommit => want[m] # NoWant
  BY DEF NoWant
<1>3. Forked(m) => Forked(m)'
  <2> SUFFICES ASSUME Forked(m) PROVE Forked(m)'
    OBVIOUS
  <2>1. tip[m.branch] \in Made /\ tip[m.branch] # NoCommit /\ anc[tip[m.branch]] \subseteq Commits
    BY Marks DEF Forked, HistoryOK, Made
  <2>2. want'[m] = want[m]
    BY <1>2, <2>1, Marks DEF Forked
  <2> QED
    BY <1>1, <2>1, <2>2 DEF Forked, Forward
<1>4. Pushed(m) => Pushed(m)'
  BY <1>1, <1>2 DEF Pushed, Forward
<1> QED
  BY <1>2, <1>3, <1>4

\* The same for what a call knows.
LEMMA AskedStays ==
    ASSUME HistoryOK, SeenOK, Forward, NEW c \in Calls, mut[c] \in Mutations, Asked(c),
           want[mut[c]] # NoWant => want'[mut[c]] = want[mut[c]],
           UNCHANGED site, mut'[c] = mut[c], git'[c] = git[c]
    PROVE  Asked(c)'
<1>1. /\ Forked(mut[c]) => Forked(mut[c])'
      /\ Pushed(mut[c]) => Pushed(mut[c])'
      /\ want[mut[c]].source # NoCommit => want'[mut[c]].source # NoCommit
  <2>1. PICK m \in Mutations : m = mut[c]
    OBVIOUS
  <2>2. /\ Forked(m) => Forked(m)'
        /\ Pushed(m) => Pushed(m)'
        /\ want[m].source # NoCommit => want'[m].source # NoCommit
    BY <2>1, KnownStays
  <2> QED
    BY <2>1, <2>2 DEF Forked, Pushed
<1> QED
  BY <1>1 DEF Asked

\* Whatever change an operation has come to, branches move forward: the
\* questions it asked before, or git itself, see to that.
LEMMA ChangeForward ==
    ASSUME GitInv, NEW c \in Calls, NEW m \in Mutations, m = mut[c], m.op \in GitOps, call[c] = "backend",
           Running(c), At(c, site, m) \in Changes, Accepts(At(c, site, m), m), Change(At(c, site, m), m)
    PROVE  /\ HistoryOK' /\ Forward /\ index' \subseteq Paths /\ work' \subseteq Paths
           /\ At(c, site, m) = "switch" => tip'[m.branch] \in Made' /\ want[m].head \in anc'[tip'[m.branch]]
<1> DEFINE step == At(c, site, m)
<1>1. Asked(c) /\ git[c].at \in 1 .. Len(Script(site, m.op)) /\ step = Script(site, m.op)[git[c].at]
  BY DEF GitInv, AskedOK, Running, Asked, At
<1>2. /\ want[m].head \in Made /\ want[m].source \in Made \cup {NoCommit}
      /\ index \subseteq Paths /\ work \subseteq Paths /\ HistoryOK
  BY DEF GitInv, SeenOK
<1>3. step \in {"switch", "add", "restore", "commit", "merge", "push"} /\ Accepts(step, m) /\ Change(step, m)
  BY DEF Changes
<1>4. step \in {"merge", "push"} => want[m].source \in Made
  BY <1>1, <1>2, ScriptSteps DEF Asked
<1> HIDE DEF step
<1>5. CASE step = "switch"
  <2>1. CreateBranch(m) /\ tip[m.branch] = NoCommit
    BY <1>3, <1>5 DEF Change, Accepts
  <2>2. index' = index /\ work' = work
    BY <2>1 DEF CreateBranch
  <2> QED
    BY <1>2, <2>1, <2>2, SwitchForward
<1>6. CASE step = "add"
  <2>1. StagePaths(m)
    BY <1>3, <1>6 DEF Change
  <2>2. index' \subseteq Paths /\ work' \subseteq Paths /\ UNCHANGED <<tip, anc, current, remote, held>>
    BY <1>2, <2>1 DEF StagePaths
  <2> QED
    BY <1>2, <1>6, <2>2, WorktreeForward DEF step
<1>7. CASE step = "restore"
  <2>1. UnstagePaths(m)
    BY <1>3, <1>7 DEF Change
  <2>2. index' \subseteq Paths /\ work' \subseteq Paths /\ UNCHANGED <<tip, anc, current, remote, held>>
    BY <1>2, <2>1 DEF UnstagePaths
  <2> QED
    BY <1>2, <1>7, <2>2, WorktreeForward DEF step
<1>8. CASE step = "commit"
  <2>1. Commit
    BY <1>3, <1>8 DEF Change
  <2>2. index' \subseteq Paths /\ work' = work
    BY <2>1 DEF Commit
  <2> QED
    BY <1>2, <1>8, <2>1, <2>2, CommitForward DEF step
<1>9. CASE step = "merge"
  <2>1. MergeFastForward(m) /\ FastForwards(m)
    BY <1>3, <1>9 DEF Change, Accepts
  <2>2. index' = index /\ work' = work
    BY <2>1 DEF MergeFastForward
  <2> QED
    BY <1>2, <1>4, <1>9, <2>1, <2>2, MergeForward DEF step
<1>10. CASE step = "push"
  <2>1. PushBranch(m) /\ remote[m.branch] \in anc[want[m].source] \cup {NoCommit}
    BY <1>3, <1>10 DEF Change, Accepts
  <2>2. index' = index /\ work' = work
    BY <2>1 DEF PushBranch
  <2> QED
    BY <1>2, <1>4, <1>10, <2>1, <2>2, PushForward DEF step
<1> QED
  BY <1>3, <1>5, <1>6, <1>7, <1>8, <1>9, <1>10

\* What callers saw is still there after a step that moves forward.
LEMMA SeenStays ==
    ASSUME SeenOK, Forward, index' \subseteq Paths, work' \subseteq Paths, UNCHANGED <<want, call, mut>>
    PROVE  SeenOK'
<1>1. Made \subseteq Made'
  BY MadeStays
<1> QED
  BY <1>1 DEF SeenOK

\* One step of a typed Git operation: a question, the change, or a failure.
LEMMA GitKeeps ==
    ASSUME ReceiptInv, GitInv, NEW c \in Calls, call[c] = "backend", mut[c].op \in GitOps,
           UNCHANGED <<site, call, mut>>,
           \/ GitAsk(c, site, mut[c]) \/ GitChange(c, site, mut[c]) \/ GitChangeUnseen(c, site, mut[c])
           \/ GitRefusal(c, site, mut[c]) \/ GitFail(c, site, mut[c])
    PROVE  GitInv' /\ Forward /\ UNCHANGED want
<1>1. PICK m \in Mutations : m = mut[c]
  BY DEF ReceiptInv, Waiting
<1> DEFINE step == At(c, site, m)
<1>2. /\ HistoryOK /\ SeenOK /\ AskedOK /\ Asked(c)
      /\ git[c].at \in 1 .. Len(Script(site, m.op)) /\ step = Script(site, m.op)[git[c].at]
      /\ git[c].status = "running"
  <2>1. Running(c)
    BY DEF GitAsk, GitChange, GitChangeUnseen, GitRefusal, GitFail
  <2> QED
    BY <1>1, <2>1 DEF GitInv, AskedOK, Running, Asked, At
<1>3. /\ HistoryOK' /\ Forward /\ index' \subseteq Paths /\ work' \subseteq Paths /\ UNCHANGED want
      /\ \/ Fail(c)
         \/ /\ Advance(c, site, m)
            /\ step = "switch" => tip'[m.branch] \in Made' /\ want[m].head \in anc'[tip'[m.branch]]
            /\ step = "source" => tip[m.branch] # NoCommit /\ tip[m.branch] = want[m].source
            /\ step \in {"pushed", "sshPushed"} => remote[m.branch] = want[m].source
  <2>1. CASE UNCHANGED <<repoVars, want>>
    <3>1. HistoryOK' /\ Forward /\ index' = index /\ work' = work
      BY <1>2, <2>1, WorktreeForward DEF repoVars
    <3>2. CASE GitAsk(c, site, m)
      <4>1. step \notin {"switch"}
        BY <3>2 DEF GitAsk, Changes
      <4>2. Fail(c) \/ (Advance(c, site, m) /\ Holds(step, m))
        BY <3>2 DEF GitAsk
      <4>3. Holds(step, m) => /\ step = "source" => tip[m.branch] # NoCommit /\ tip[m.branch] = want[m].source
                              /\ step \in {"pushed", "sshPushed"} => remote[m.branch] = want[m].source
        BY DEF Holds, reconcilePush, reconcileGitPush
      <4> QED
        BY <1>2, <2>1, <3>1, <4>1, <4>2, <4>3 DEF SeenOK
    <3>3. CASE GitRefusal(c, site, m) \/ GitFail(c, site, m)
      <4>1. Fail(c) \/ (Advance(c, site, m) /\ step = "push")
        BY <3>3 DEF GitRefusal, GitFail
      <4> QED
        BY <1>2, <2>1, <3>1, <4>1 DEF SeenOK
    <3>4. CASE GitChange(c, site, m) \/ GitChangeUnseen(c, site, m)
      <4>1. /\ Running(c) /\ step \in Changes /\ Accepts(step, m) /\ Change(step, m)
            /\ Fail(c) \/ Advance(c, site, m)
        BY <3>4 DEF GitChange, GitChangeUnseen
      <4>2. step = "switch" => tip'[m.branch] \in Made' /\ want[m].head \in anc'[tip'[m.branch]]
        BY <1>1, <4>1, ChangeForward
      <4> QED
        BY <1>2, <2>1, <3>1, <4>1, <4>2 DEF SeenOK, Changes
    <3> QED
      BY <1>1, <3>2, <3>3, <3>4
  <2>2. CASE GitChange(c, site, m) \/ GitChangeUnseen(c, site, m)
    <3>1. /\ Running(c) /\ step \in Changes /\ Accepts(step, m) /\ Change(step, m) /\ UNCHANGED want
          /\ Fail(c) \/ Advance(c, site, m)
      BY <2>2 DEF GitChange, GitChangeUnseen
    <3>2. /\ HistoryOK' /\ Forward /\ index' \subseteq Paths /\ work' \subseteq Paths
          /\ step = "switch" => tip'[m.branch] \in Made' /\ want[m].head \in anc'[tip'[m.branch]]
      BY <1>1, <3>1, ChangeForward
    <3> QED
      BY <3>1, <3>2 DEF Changes
  <2> QED
    BY <1>1, <2>1, <2>2 DEF GitAsk, GitRefusal, GitFail
<1>4. SeenOK'
  BY <1>2, <1>3, SeenStays
<1>5. \A d \in Calls : d # c /\ git'[d] = git[d] /\ call[d] = "backend" /\ mut[d].op \in GitOps
          /\ git[d].status \in {"running", "completed"} => Asked(d)'
  <2>1. \A d \in Calls : call[d] = "backend" => mut[d] \in Mutations
    BY DEF ReceiptInv, Waiting
  <2> QED
    BY <1>2, <1>3, <2>1, AskedStays DEF AskedOK
<1> HIDE DEF step
<1>6. CASE Fail(c)
  <2>1. /\ git' \in [Calls -> [at : 0 .. 8, status : GitStatuses]]
        /\ \A d \in Calls : d # c => git'[d] = git[d]
        /\ git'[c].status = "failed"
    BY <1>2, <1>6, FailIs
  <2>2. AskedOK'
    BY <1>5, <2>1 DEF AskedOK
  <2> QED
    BY <1>3, <1>4, <2>2 DEF GitInv
<1>7. CASE /\ Advance(c, site, m)
           /\ step = "switch" => tip'[m.branch] \in Made' /\ want[m].head \in anc'[tip'[m.branch]]
           /\ step = "source" => tip[m.branch] # NoCommit /\ tip[m.branch] = want[m].source
           /\ step \in {"pushed", "sshPushed"} => remote[m.branch] = want[m].source
  <2> DEFINE n == Len(Script(site, m.op))
  <2>1. /\ git' \in [Calls -> [at : 0 .. 8, status : GitStatuses]]
        /\ \A d \in Calls : d # c => git'[d] = git[d]
        /\ git[c].at = n => git'[c].at = git[c].at /\ git'[c].status = "completed"
        /\ git[c].at # n => git'[c].at = git[c].at + 1 /\ git'[c].status = "running"
        /\ git'[c].at \in 1 .. n
    BY <1>1, <1>2, <1>7, AdvanceIs
  <2>2. m.op \in GitOps /\ m.branch \in Branches /\ n \in 1 .. 8 /\ git[c].at \in 1 .. n
    BY <1>1, <1>2, ScriptSteps, BranchesAssumption
  <2>3. /\ Forked(m) => Forked(m)'
        /\ Pushed(m) => Pushed(m)'
    BY <1>2, <1>3, KnownStays
  <2>4. m.op = "git_create_branch" /\ git'[c].at > 3 => Forked(m)'
    <3> SUFFICES ASSUME m.op = "git_create_branch", git'[c].at > 3 PROVE Forked(m)'
      OBVIOUS
    <3>1. CASE git[c].at > 3
      BY <1>1, <1>2, <2>3, <3>1 DEF Asked
    <3>2. CASE ~ (git[c].at > 3)
      <4>1. git[c].at = 3
        BY <2>1, <2>2, <3>2
      <4>2. step = "switch"
        BY <1>2, <2>2, <4>1, ScriptSteps
      <4> QED
        BY <1>3, <1>7, <4>2 DEF Forked
    <3> QED
      BY <3>1, <3>2
  <2>5. m.op = "git_merge_branch" /\ git'[c].at > 3 => want[m].source # NoCommit
    <3> SUFFICES ASSUME m.op = "git_merge_branch", git'[c].at > 3 PROVE want[m].source # NoCommit
      OBVIOUS
    <3>1. CASE git[c].at > 3
      BY <1>1, <1>2, <3>1 DEF Asked
    <3>2. CASE ~ (git[c].at > 3)
      <4>1. git[c].at = 3
        BY <2>1, <2>2, <3>2
      <4> QED
        BY <1>2, <1>7, <2>2, <4>1, ScriptSteps
    <3> QED
      BY <3>1, <3>2
  <2>6. m.op = "git_push_branch" /\ git'[c].at > 1 => want[m].source # NoCommit
    <3> SUFFICES ASSUME m.op = "git_push_branch", git'[c].at > 1 PROVE want[m].source # NoCommit
      OBVIOUS
    <3>1. CASE git[c].at > 1
      BY <1>1, <1>2, <3>1 DEF Asked
    <3>2. CASE ~ (git[c].at > 1)
      <4>1. git[c].at = 1
        BY <2>1, <2>2, <3>2
      <4> QED
        BY <1>2, <1>7, <2>2, <4>1, ScriptSteps
    <3> QED
      BY <3>1, <3>2
  <2>7. m.op = "git_push_branch" /\ git'[c].status = "completed" => Pushed(m)'
    <3> SUFFICES ASSUME m.op = "git_push_branch", git'[c].status = "completed" PROVE Pushed(m)'
      OBVIOUS
    <3>1. git[c].at = 4
      BY <1>2, <2>1, <2>2, ScriptSteps
    <3>2. want[m].source # NoCommit /\ remote[m.branch] = want[m].source
      BY <1>2, <1>7, <2>1, <2>2, <2>6, <3>1, ScriptSteps
    <3> QED
      BY <1>2, <2>2, <2>3, <3>2 DEF Pushed, HistoryOK
  <2>8. m.op = "git_create_branch" /\ git'[c].status = "completed" => Forked(m)'
    <3>1. m.op = "git_create_branch" /\ git'[c].status = "completed" => git'[c].at = 4
      BY <1>2, <2>1, <2>2, ScriptSteps
    <3> QED
      BY <2>4, <3>1
  <2>9. Asked(c)'
    <3>1. mut'[c] = m /\ want' = want
      BY <1>1, <1>3
    <3> QED
      BY <1>1, <2>1, <2>4, <2>5, <2>6, <2>7, <2>8, <3>1 DEF Asked, Forked, Pushed
  <2>10. AskedOK'
    BY <1>5, <2>1, <2>9 DEF AskedOK
  <2> QED
    BY <1>3, <1>4, <2>10 DEF GitInv
<1> QED
  BY <1>3, <1>6, <1>7

\* What a caller expects of a mutation is settled when it is first asked for.
Expected == \A m \in Mutations : want[m] # NoWant => want'[m] = want[m]

\* A step that leaves git alone and takes no call to it.
LEMMA QuietGit ==
    ASSUME ReceiptInv, GitInv, UNCHANGED <<gitVars, site, mut>>,
           \A c \in Calls : /\ call'[c] = "backend" /\ mut[c].op \in GitOps => call[c] = "backend"
                            /\ call'[c] # "idle" => call[c] # "idle"
    PROVE  GitInv' /\ Forward /\ Expected
<1>1. HistoryOK' /\ Forward
  BY WorktreeForward DEF GitInv, gitVars, repoVars
<1>2. Expected
  BY DEF Expected, gitVars
<1>3. SeenOK'
  <2>1. Made' = Made
    BY DEF gitVars, repoVars, Made
  <2> QED
    BY <2>1 DEF GitInv, SeenOK, gitVars, repoVars
<1>4. AskedOK'
  <2>1. \A c \in Calls : call[c] # "idle" => mut[c] \in Mutations
    BY DEF ReceiptInv, Waiting
  <2>2. \A c \in Calls : call[c] = "backend" /\ mut[c].op \in GitOps /\ git[c].status \in {"running", "completed"}
                            => Asked(c)'
    BY <1>1, <2>1, AskedStays DEF GitInv, AskedOK, gitVars
  <2> QED
    BY <2>2 DEF GitInv, AskedOK, gitVars
<1> QED
  BY <1>1, <1>2, <1>3, <1>4 DEF GitInv

\* A call that starts its Git operation knows nothing yet.
LEMMA FirstStepAsked ==
    ASSUME NEW c \in Calls, mut'[c].op \in GitOps, git'[c] = [at |-> 1, status |-> "running"]
    PROVE  Asked(c)'
<1>1. 1 \in 1 .. Len(Script(site', mut'[c].op))
  BY DEF Script, GitOps, createBranch, stagePaths, unstagePaths, commit, mergeBranch, pushBranch,
         sshCreateBranch, sshStagePaths, sshUnstagePaths, sshCommit, sshMergeBranch, sshPushBranch
<1>2. git'[c].at = 1 /\ git'[c].status = "running"
  OBVIOUS
<1> QED
  BY <1>1, <1>2 DEF Asked

\* A call arrives and records what its caller saw.
LEMMA CallGit ==
    ASSUME ReceiptInv, GitInv, NEW c \in Calls, NEW m \in Mutations, NEW k, NEW f, Call(c, m, k, f)
    PROVE  GitInv' /\ Forward /\ Expected
<1>1. /\ UNCHANGED <<repoVars, site>>
      /\ mut' = [mut EXCEPT ![c] = m] /\ call[c] = "idle"
      /\ want' = [want EXCEPT ![m] = IF m.op \in GitOps /\ want[m] = NoWant THEN Seen(m) ELSE want[m]]
      /\ \/ UNCHANGED git /\ call' = [call EXCEPT ![c] = "done"]
         \/ UNCHANGED git /\ call' = [call EXCEPT ![c] = "get"]
         \/ SshBegin(c) /\ call' = [call EXCEPT ![c] = "backend"]
  BY DEF Call, Done, Goto
<1>2. HistoryOK /\ SeenOK /\ AskedOK /\ CoreTypeOK
  BY DEF GitInv, ReceiptInv
<1>3. HistoryOK' /\ Forward /\ Made' = Made
  BY <1>1, <1>2, WorktreeForward DEF repoVars, Made
<1>4. /\ Seen(m) \in Wants /\ Seen(m) # NoWant
      /\ Seen(m).head \in Made /\ Seen(m).source \in Made \cup {NoCommit}
  <2>1. Made \subseteq Commits /\ m.branch \in Branches
    BY BranchesAssumption DEF Made
  <2>2. HeadCommit \in Made /\ tip[m.branch] \in Made \cup {NoCommit}
        /\ remote[m.branch] \in Made \cup {NoCommit, Foreign} /\ index \subseteq Paths
    BY <1>2, <2>1 DEF HeadCommit, HistoryOK, SeenOK
  <2>3. HeadCommit # NoCommit
    BY <2>1, <2>2, Marks
  <2> QED
    BY <2>1, <2>2, <2>3 DEF Seen, Wants, NoWant
<1>5. /\ want' \in [Mutations -> Wants] /\ Expected
      /\ \A n \in Mutations : n # m => want'[n] = want[n]
      /\ want'[m] = want[m] \/ want'[m] = Seen(m)
      /\ m.op \in GitOps => want'[m] # NoWant
  BY <1>1, <1>2, <1>4 DEF SeenOK, Expected
<1>6. /\ mut'[c] = m /\ \A d \in Calls : d # c => mut'[d] = mut[d] /\ call'[d] = call[d]
      /\ call'[c] # "idle"
  BY <1>1, <1>2 DEF CoreTypeOK
<1>7. \A d \in Calls : call[d] # "idle" => mut[d] \in Mutations
  BY DEF ReceiptInv, Waiting
<1>8. SeenOK'
  <2>1. \A n \in Mutations : want'[n] # NoWant => want'[n].head \in Made /\ want'[n].source \in Made \cup {NoCommit}
    BY <1>2, <1>4, <1>5 DEF SeenOK
  <2>2. \A d \in Calls : call'[d] # "idle" /\ mut'[d].op \in GitOps => want'[mut'[d]] # NoWant
    BY <1>2, <1>5, <1>6, <1>7 DEF SeenOK, Expected
  <2> QED
    BY <1>1, <1>2, <1>3, <1>5, <2>1, <2>2 DEF SeenOK, repoVars
<1>9. AskedOK'
  <2>1. git' \in [Calls -> [at : 0 .. 8, status : GitStatuses]] /\ \A d \in Calls : d # c => git'[d] = git[d]
    BY <1>1, <1>2 DEF AskedOK, SshBegin, GitStatuses
  <2>2. call'[c] = "backend" => git'[c] = [at |-> 1, status |-> "running"]
    BY <1>1, <1>2 DEF AskedOK, SshBegin, CoreTypeOK
  <2>3. call'[c] = "backend" /\ mut'[c].op \in GitOps => Asked(c)'
    BY <2>2, FirstStepAsked
  <2>4. \A d \in Calls : d # c /\ call[d] = "backend" /\ mut[d].op \in GitOps
            /\ git[d].status \in {"running", "completed"} => Asked(d)'
    BY <1>1, <1>2, <1>3, <1>5, <1>6, <1>7, <2>1, AskedStays DEF AskedOK, Expected
  <2> QED
    BY <1>6, <2>1, <2>3, <2>4 DEF AskedOK
<1> QED
  BY <1>3, <1>5, <1>8, <1>9 DEF GitInv

\* The backend of a call is git, and begins.
LEMMA ExecuteGit ==
    ASSUME ReceiptInv, GitInv, NEW c \in Calls, Execute(c)
    PROVE  GitInv' /\ Forward /\ Expected
<1>1. /\ UNCHANGED <<site, mut>> /\ call' = [call EXCEPT ![c] = "backend"] /\ call[c] = "markExecuting"
      /\ mut[c] \in Mutations /\ CoreTypeOK
  BY DEF Execute, Frame, Goto, ReceiptInv, Waiting
<1>2. \A d \in Calls : d # c => call'[d] = call[d]
  BY <1>1 DEF CoreTypeOK
<1>3. CASE mut[c].op \in GitHubOps
  <2>1. UNCHANGED gitVars /\ mut[c].op \notin GitOps
    BY <1>3 DEF Execute, BackendStart, GitHubOps, GitOps
  <2> QED
    BY <1>1, <1>2, <2>1, QuietGit
<1>4. CASE mut[c].op \notin GitHubOps
  <2>1. /\ git' = [git EXCEPT ![c] = [at |-> 1, status |-> "running"]] /\ UNCHANGED <<repoVars, want>>
        /\ mut'[c].op \in GitOps
    BY <1>1, <1>4, OpsAssumption DEF Execute, BackendStart, GitStart, Begin
  <2>2. HistoryOK' /\ Forward /\ Made' = Made
    BY <2>1, WorktreeForward DEF repoVars, Made, GitInv
  <2>3. Expected
    BY <2>1 DEF Expected
  <2>4. SeenOK'
    BY <1>1, <1>2, <2>1, <2>2 DEF GitInv, SeenOK, repoVars
  <2>5. /\ git' \in [Calls -> [at : 0 .. 8, status : GitStatuses]] /\ \A d \in Calls : d # c => git'[d] = git[d]
        /\ git'[c] = [at |-> 1, status |-> "running"]
    BY <2>1 DEF GitInv, AskedOK, GitStatuses
  <2>6. Asked(c)'
    BY <2>1, <2>5, FirstStepAsked
  <2>7. \A d \in Calls : call[d] # "idle" => mut[d] \in Mutations
    BY DEF ReceiptInv, Waiting
  <2>8. \A d \in Calls : d # c /\ call[d] = "backend" /\ mut[d].op \in GitOps
            /\ git[d].status \in {"running", "completed"} => Asked(d)'
    BY <1>1, <2>1, <2>2, <2>5, <2>7, AskedStays DEF AskedOK, GitInv
  <2>9. AskedOK'
    BY <1>1, <1>2, <2>5, <2>6, <2>8 DEF AskedOK
  <2> QED
    BY <2>2, <2>3, <2>4, <2>9 DEF GitInv
<1> QED
  BY <1>3, <1>4

\* Every step keeps what is known of the repository and moves it forward.
LEMMA GitNext ==
    ASSUME ReceiptInv, GitInv, [Next]_vars
    PROVE  GitInv' /\ Forward /\ Expected
<1>1. CoreTypeOK
  BY DEF ReceiptInv
<1>2. CASE UNCHANGED vars
  BY <1>2, QuietGit DEF vars, callVars
<1>3. ASSUME NEW c \in Calls, UNCHANGED <<gitVars, site, mut>>, call[c] # "idle",
             \E pc \in CallStates \ {"backend"} : call' = [call EXCEPT ![c] = pc]
      PROVE  GitInv' /\ Forward /\ Expected
  BY <1>1, <1>3, QuietGit DEF CoreTypeOK
<1>4. ASSUME NEW c \in Calls, CallStep(c)
      PROVE  GitInv' /\ Forward /\ Expected
  <2> USE DEF backendVars, CallStates
  <2>1. CASE GotReceipt(c) \/ AskForConfirmation(c) \/ Reserve(c) \/ RefuseConfirmation(c)
    BY <1>3, <2>1 DEF GotReceipt, AskForConfirmation, Reserve, RefuseConfirmation, Frame, Goto, Done
  <2>2. CASE StoreEnds(c) \/ Replay(c) \/ Reserved(c)
    BY <1>3, <2>2 DEF StoreEnds, Replay, Reserved, Frame, Goto, Done
  <2>3. CASE Execute(c)
    BY <2>3, ExecuteGit
  <2>4. CASE BackendEnds(c) \/ DirectEnds(c)
    BY <1>3, <2>4 DEF BackendEnds, DirectEnds, Frame, Goto, Done
  <2>5. CASE Complete(c) \/ CompleteFails(c) \/ Reconciled(c)
    BY <1>3, <2>5 DEF Complete, CompleteFails, Reconciled, Frame, Goto, Done
  <2>6. CASE StoreStep(c) \/ HubStep(c)
    BY <2>6, QuietGit DEF StoreStep, HubStep, Rest, callVars
  <2>7. CASE GitStep(c) \/ GitRefuses(c)
    <3>1. /\ call[c] = "backend" /\ mut[c].op \in GitOps /\ UNCHANGED <<site, call, mut>>
          /\ GitAsk(c, site, mut[c]) \/ GitChange(c, site, mut[c]) \/ GitRefusal(c, site, mut[c])
      BY <2>7 DEF GitStep, GitRefuses, Rest, callVars
    <3> QED
      BY <3>1, GitKeeps DEF Expected
  <2> QED
    BY <1>4, <2>1, <2>2, <2>3, <2>4, <2>5, <2>6, <2>7 DEF CallStep
<1>5. ASSUME NEW c \in Calls, StoreFault(c) \/ Server(c)
      PROVE  GitInv' /\ Forward /\ Expected
  BY <1>5, QuietGit DEF StoreFault, Server, Rest, callVars, backendVars
<1>6. ASSUME NEW c \in Calls, GitFault(c)
      PROVE  GitInv' /\ Forward /\ Expected
  <2>1. /\ call[c] = "backend" /\ mut[c].op \in GitOps /\ UNCHANGED <<site, call, mut>>
        /\ GitChangeUnseen(c, site, mut[c]) \/ GitFail(c, site, mut[c])
    BY <1>6 DEF GitFault, Rest, callVars
  <2> QED
    BY <2>1, GitKeeps DEF Expected
<1>7. ASSUME NEW c \in Calls, NEW m \in Mutations, NEW k \in ClientKeys \cup {None},
             NEW f \in ConfirmationIds \cup {None}, Call(c, m, k, f)
      PROVE  GitInv' /\ Forward /\ Expected
  BY <1>7, CallGit
<1>8. CASE Others
  <2>1. UNCHANGED <<site, call, mut>>
    BY <1>8 DEF Others, callVars
  <2>2. CASE UNCHANGED gitVars
    BY <2>1, <2>2, QuietGit
  <2>3. CASE (\E p \in Paths : Edit(p)) \/ (\E b \in Branches : RemoteMoves(b))
    <3>1. HistoryOK' /\ Forward /\ index' \subseteq Paths /\ work' \subseteq Paths /\ UNCHANGED <<git, want>>
      <4>1. CASE \E p \in Paths : Edit(p)
        <5>1. /\ UNCHANGED <<tip, anc, current, remote, held, git, want>>
              /\ index' \subseteq Paths /\ work' \subseteq Paths
          BY <4>1 DEF Edit, GitInv, SeenOK
        <5> QED
          BY <5>1, WorktreeForward DEF GitInv
      <4>2. CASE \E b \in Branches : RemoteMoves(b)
        <5>1. PICK b \in Branches : RemoteMoves(b)
          BY <4>2
        <5>2. UNCHANGED <<index, work, git, want>>
          BY <5>1 DEF RemoteMoves
        <5>3. HistoryOK' /\ Forward
          BY <5>1, ForeignForward DEF GitInv
        <5> QED
          BY <5>2, <5>3 DEF GitInv, SeenOK
      <4> QED
        BY <2>3, <4>1, <4>2
    <3>2. Expected
      BY <3>1 DEF Expected
    <3>3. SeenOK'
      BY <2>1, <3>1, SeenStays DEF GitInv
    <3>4. \A d \in Calls : call[d] # "idle" => mut[d] \in Mutations
      BY DEF ReceiptInv, Waiting
    <3>5. \A d \in Calls : call[d] = "backend" /\ mut[d].op \in GitOps /\ git[d].status \in {"running", "completed"}
              => Asked(d)'
      BY <2>1, <3>1, <3>4, AskedStays DEF GitInv, AskedOK
    <3>6. AskedOK'
      BY <2>1, <3>1, <3>5 DEF GitInv, AskedOK
    <3> QED
      BY <3>1, <3>2, <3>3, <3>6 DEF GitInv
  <2> QED
    BY <1>8, <2>2, <2>3 DEF Others, backendVars
<1>9. CASE Crash
  <2>1. /\ git' = [c \in Calls |-> GitIdle] /\ UNCHANGED <<repoVars, want, mut, site>>
        /\ \A c \in Calls : call'[c] # "backend" /\ (call'[c] # "idle" => call[c] # "idle")
    BY <1>9 DEF Crash, GitCrash
  <2>2. HistoryOK' /\ Forward /\ Made' = Made
    BY <2>1, WorktreeForward DEF GitInv, repoVars, Made
  <2>3. Expected /\ SeenOK'
    BY <2>1, <2>2 DEF GitInv, SeenOK, Expected, repoVars
  <2>4. AskedOK'
    BY <2>1 DEF AskedOK, GitIdle, GitStatuses
  <2> QED
    BY <2>2, <2>3, <2>4 DEF GitInv
<1> QED
  BY <1>2, <1>4, <1>5, <1>6, <1>7, <1>8, <1>9 DEF Next

\* The agent meets a repository as git keeps it.
LEMMA GitStarts == Init => GitInv
<1> SUFFICES ASSUME Init PROVE GitInv
  OBVIOUS
<1>1. PICK s \in Scenarios : GitInit(s.repository)
  BY DEF Init
<1> DEFINE r == s.repository
<1>2. /\ tip = r.tip /\ anc = r.anc /\ current = r.current /\ index = r.index /\ work = r.work /\ remote = r.remote
      /\ held = [b \in Branches |-> {r.remote[b]} \ {NoCommit}]
      /\ git = [c \in Calls |-> GitIdle] /\ want = [m \in Mutations |-> NoWant]
  BY <1>1 DEF GitInit
<1>3. Repository(r)
  BY <1>1, ScenariosAssumption
<1> HIDE DEF r
<1>4. Made = {n \in Commits : r.anc[n] # {}}
  BY <1>2 DEF Made
<1>5. HistoryOK
  <2>1. /\ anc \in [Commits -> SUBSET Commits]
        /\ \A n \in Made : n \in anc[n] /\ \A x \in anc[n] : x \in Made /\ anc[x] \subseteq anc[n]
        /\ tip \in [Branches -> Made \cup {NoCommit}]
        /\ remote \in [Branches -> Made \cup {NoCommit, Foreign}]
        /\ current \in Branches /\ tip[current] \in Made
    BY <1>2, <1>3, <1>4 DEF Repository
  <2>2. Made \subseteq Commits
    BY DEF Made
  <2>3. /\ held \in [Branches -> SUBSET (Commits \cup {Foreign})]
        /\ \A b \in Branches : remote[b] \in held[b] \cup {NoCommit}
    BY <1>2, <2>1, <2>2
  <2> QED
    BY <2>1, <2>3 DEF HistoryOK
<1>6. SeenOK
  BY <1>2, <1>3 DEF SeenOK, Repository, Wants, Init
<1>7. AskedOK
  BY <1>2 DEF AskedOK, GitIdle, GitStatuses
<1> QED
  BY <1>5, <1>6, <1>7 DEF GitInv

\* The invariant of the repository always holds.
LEMMA GitAlways == Spec => []GitInv
<1>1. ReceiptInv /\ GitInv /\ [Next]_vars => GitInv'
  BY GitNext
<1> QED
  BY <1>1, GitStarts, ReceiptAlways, PTL DEF Spec

\* GitRepositoryService and its SSH twin lose no history: whatever the calls,
\* their interleaving, the failing processes and the crashes, every branch,
\* local and remote, only moves to a commit that has the old one.
THEOREM NothingForgotten == Spec => NoHistoryLost
<1>1. ReceiptInv /\ GitInv /\ [Next]_vars =>
        [/\ \A b \in Branches : tip[b] # NoCommit => tip'[b] # NoCommit /\ tip[b] \in anc'[tip'[b]]
         /\ \A b \in Branches : remote'[b] \in Commits => remote[b] \in anc'[remote'[b]] \cup {NoCommit}]_vars
  <2> SUFFICES ASSUME ReceiptInv, GitInv, [Next]_vars
               PROVE  /\ \A b \in Branches : tip[b] # NoCommit => tip'[b] # NoCommit /\ tip[b] \in anc'[tip'[b]]
                      /\ \A b \in Branches : remote'[b] \in Commits => remote[b] \in anc'[remote'[b]] \cup {NoCommit}
    OBVIOUS
  <2>1. Forward
    BY GitNext
  <2>2. Made' \subseteq Commits
    BY DEF Made
  <2> QED
    BY <2>1, <2>2, Marks DEF Forward
<1> QED
  BY <1>1, ReceiptAlways, GitAlways, PTL DEF Spec, NoHistoryLost

-----------------------------------------------------------------------------
(***************************************************************************)
(* GitHub, and what a completed receipt is worth                           *)
(***************************************************************************)

\* What is there at GitHub stays what it is.
ServerForward == \A t \in Targets : server[t] # None => server'[t] = server[t]

\* What was found stays found.
LEMMA IsThereStays ==
    ASSUME ServerForward, NEW m \in Mutations, m.op \in GitHubOps, IsThere(m)
    PROVE  IsThere(m)'
BY TargetsAssumption DEF ServerForward, IsThere

\* A step that leaves GitHub alone, or changes the server only.
LEMMA QuietHub ==
    ASSUME ReceiptInv, HubInv, UNCHANGED <<hub, wire, mut>>, ServerForward,
           server' \in [Targets -> Mutations \cup {None}],
           \A c \in Calls : /\ call'[c] = "backend" /\ mut[c].op \in GitHubOps => call[c] = "backend"
                            /\ call[c] # "idle" => call'[c] # "idle"
    PROVE  HubInv'
<1>1. \A c \in Calls : call[c] # "idle" => mut[c] \in Mutations
  BY DEF ReceiptInv, Waiting
<1>2. \A c \in Calls : call[c] # "idle" /\ mut[c].op \in GitHubOps /\ IsThere(mut[c]) => IsThere(mut[c])'
  BY <1>1, TargetsAssumption DEF IsThere, ServerForward
<1>3. \A c \in Calls : wire[c] = "applied" => server'[mut[c].target] = mut[c]
  BY <1>1, TargetsAssumption, NoneAssumption DEF HubInv, ServerForward
<1> QED
  BY <1>2, <1>3 DEF HubInv

\* A step of the GitHub service for one call.
LEMMA HubKeeps ==
    ASSUME ReceiptInv, HubInv, NEW c \in Calls, call[c] = "backend", mut[c].op \in GitHubOps,
           UNCHANGED <<call, mut>>,
           HubLook(c) \/ HubSend(c) \/ HubAnswer(c) \/ HubLost(c) \/ HubReconcile(c, mut[c])
    PROVE  HubInv' /\ UNCHANGED server
<1>1. mut[c] \in Mutations /\ mut[c] # None
  BY NoneAssumption DEF ReceiptInv, Waiting
<1>2. UNCHANGED server
  BY DEF HubLook, HubSend, HubAnswer, HubLost, HubReconcile
<1>3. /\ hub' \in [Calls -> HubStates] /\ \A d \in Calls : d # c => hub'[d] = hub[d]
      /\ wire' \in [Calls -> {"none", "sent", "applied", "refused"}]
      /\ \A d \in Calls : wire'[d] = wire[d] \/ (d = c /\ wire'[d] = "sent")
  BY DEF HubInv, HubLook, HubSend, HubAnswer, HubLost, HubReconcile, HubStates
<1>4. hub'[c] = "completed" => IsThere(mut[c])
  <2>1. CASE HubLook(c) \/ HubSend(c) \/ HubLost(c)
    BY <2>1 DEF HubInv, HubLook, HubSend, HubLost
  <2>2. CASE HubAnswer(c)
    <3>1. hub'[c] = "completed" => wire[c] = "applied"
      BY <2>2 DEF HubInv, HubAnswer
    <3>2. wire[c] = "applied" => server[mut[c].target] = mut[c]
      BY DEF HubInv
    <3> QED
      BY <1>1, <3>1, <3>2 DEF IsThere
  <2>3. CASE HubReconcile(c, mut[c])
    BY <2>3 DEF HubInv, HubReconcile
  <2> QED
    BY <2>1, <2>2, <2>3
<1>5. \A d \in Calls : IsThere(mut[d])' <=> IsThere(mut[d])
  BY <1>2 DEF IsThere
<1> QED
  BY <1>2, <1>3, <1>4, <1>5 DEF HubInv

\* GitHub handles a request that reached it.
LEMMA ServerKeeps ==
    ASSUME ReceiptInv, HubInv, NEW c \in Calls, ServerHandle(c, mut[c]), UNCHANGED <<call, mut>>
    PROVE  HubInv' /\ ServerForward
<1>1. wire[c] = "sent" /\ call[c] # "idle" /\ mut[c].op \in GitHubOps /\ UNCHANGED hub
  BY DEF HubInv, ServerHandle
<1>2. mut[c] \in Mutations /\ mut[c] # None /\ mut[c].target \in Targets
  BY <1>1, NoneAssumption, TargetsAssumption DEF ReceiptInv, Waiting
<1>3. /\ server' \in [Targets -> Mutations \cup {None}] /\ ServerForward
      /\ wire' \in [Calls -> {"none", "sent", "applied", "refused"}]
      /\ \A d \in Calls : d # c => wire'[d] = wire[d]
      /\ wire'[c] = "applied" => server'[mut[c].target] = mut[c]
  BY <1>2 DEF HubInv, ServerHandle, ServerForward
<1>4. \A d \in Calls : call[d] # "idle" => mut[d] \in Mutations
  BY DEF ReceiptInv, Waiting
<1>5. \A d \in Calls : call[d] # "idle" /\ mut[d].op \in GitHubOps /\ IsThere(mut[d]) => IsThere(mut[d])'
  BY <1>3, <1>4, TargetsAssumption DEF IsThere, ServerForward
<1>6. \A d \in Calls : d # c /\ wire[d] = "applied" => server'[mut[d].target] = mut[d]
  BY <1>3, <1>4, TargetsAssumption, NoneAssumption DEF HubInv, ServerForward
<1> QED
  BY <1>1, <1>3, <1>5, <1>6 DEF HubInv

\* Every step keeps what is known of GitHub.
LEMMA HubNext ==
    ASSUME ReceiptInv, HubInv, [Next]_vars
    PROVE  HubInv' /\ ServerForward
<1>1. CoreTypeOK /\ server \in [Targets -> Mutations \cup {None}]
  BY DEF ReceiptInv, HubInv
<1>2. ASSUME UNCHANGED <<gitHubVars, mut>>,
             \A c \in Calls : /\ call'[c] = "backend" /\ mut[c].op \in GitHubOps => call[c] = "backend"
                              /\ call[c] # "idle" => call'[c] # "idle"
      PROVE  HubInv' /\ ServerForward
  <2>1. ServerForward /\ server' \in [Targets -> Mutations \cup {None}]
    BY <1>1, <1>2 DEF ServerForward, gitHubVars
  <2> QED
    BY <1>2, <2>1, QuietHub DEF gitHubVars
<1>3. CASE UNCHANGED vars
  BY <1>2, <1>3 DEF vars, callVars
<1>4. ASSUME NEW c \in Calls, UNCHANGED <<gitHubVars, mut>>,
             \E pc \in CallStates \ {"backend", "idle"} : call' = [call EXCEPT ![c] = pc]
      PROVE  HubInv' /\ ServerForward
  BY <1>1, <1>2, <1>4 DEF CoreTypeOK
<1>5. ASSUME NEW c \in Calls, CallStep(c)
      PROVE  HubInv' /\ ServerForward
  <2> USE DEF backendVars, CallStates
  <2>1. CASE GotReceipt(c) \/ AskForConfirmation(c) \/ Reserve(c) \/ RefuseConfirmation(c)
    BY <1>4, <2>1 DEF GotReceipt, AskForConfirmation, Reserve, RefuseConfirmation, Frame, Goto, Done
  <2>2. CASE StoreEnds(c) \/ Replay(c) \/ Reserved(c)
    BY <1>4, <2>2 DEF StoreEnds, Replay, Reserved, Frame, Goto, Done
  <2>3. CASE Execute(c)
    <3>1. /\ UNCHANGED mut /\ call' = [call EXCEPT ![c] = "backend"] /\ call[c] = "markExecuting"
          /\ mut[c] \in Mutations
      BY <2>3 DEF Execute, Frame, Goto, ReceiptInv, Waiting
    <3>2. CASE mut[c].op \in GitHubOps
      <4>1. /\ hub' = [hub EXCEPT ![c] = FirstStep(mut[c].op)] /\ UNCHANGED <<wire, server>>
        BY <2>3, <3>2 DEF Execute, BackendStart, HubStart
      <4>2. FirstStep(mut[c].op) \in {"send", "look"}
        BY DEF FirstStep
      <4>3. /\ hub' \in [Calls -> HubStates] /\ hub'[c] # "completed"
            /\ \A d \in Calls : d # c => hub'[d] = hub[d] /\ call'[d] = call[d]
        BY <1>1, <3>1, <4>1, <4>2 DEF HubInv, HubStates, CoreTypeOK
      <4>4. \A d \in Calls : IsThere(mut[d])' <=> IsThere(mut[d])
        BY <3>1, <4>1 DEF IsThere
      <4>5. call'[c] # "idle"
        BY <1>1, <3>1 DEF CoreTypeOK
      <4> QED
        BY <3>1, <4>1, <4>3, <4>4, <4>5 DEF HubInv, ServerForward
    <3>3. CASE mut[c].op \notin GitHubOps
      <4>1. UNCHANGED gitHubVars
        BY <2>3, <3>3 DEF Execute, BackendStart
      <4> QED
        BY <1>1, <1>2, <3>1, <3>3, <4>1 DEF CoreTypeOK
    <3> QED
      BY <3>2, <3>3
  <2>4. CASE BackendEnds(c) \/ DirectEnds(c)
    BY <1>4, <2>4 DEF BackendEnds, DirectEnds, Frame, Goto, Done
  <2>5. CASE Complete(c) \/ CompleteFails(c) \/ Reconciled(c)
    BY <1>4, <2>5 DEF Complete, CompleteFails, Reconciled, Frame, Goto, Done
  <2>6. CASE StoreStep(c) \/ GitStep(c) \/ GitRefuses(c)
    BY <1>2, <2>6 DEF StoreStep, GitStep, GitRefuses, Rest, callVars
  <2>7. CASE HubStep(c)
    <3>1. /\ call[c] = "backend" /\ mut[c].op \in GitHubOps /\ UNCHANGED <<call, mut>>
          /\ HubLook(c) \/ HubSend(c) \/ HubAnswer(c) \/ HubLost(c) \/ HubReconcile(c, mut[c])
      BY <2>7 DEF HubStep, Rest, callVars
    <3> QED
      BY <3>1, HubKeeps DEF ServerForward
  <2> QED
    BY <1>5, <2>1, <2>2, <2>3, <2>4, <2>5, <2>6, <2>7 DEF CallStep
<1>6. ASSUME NEW c \in Calls, StoreFault(c) \/ GitFault(c)
      PROVE  HubInv' /\ ServerForward
  BY <1>2, <1>6 DEF StoreFault, GitFault, Rest, callVars, backendVars
<1>7. ASSUME NEW c \in Calls, Server(c)
      PROVE  HubInv' /\ ServerForward
  BY <1>7, ServerKeeps DEF Server, Rest, callVars
<1>8. ASSUME NEW c \in Calls, NEW m \in Mutations, NEW k \in ClientKeys \cup {None},
             NEW f \in ConfirmationIds \cup {None}, Call(c, m, k, f)
      PROVE  HubInv' /\ ServerForward
  <2>1. /\ UNCHANGED <<hub, wire, server>> /\ call[c] = "idle"
        /\ \A d \in Calls : d # c => mut'[d] = mut[d] /\ call'[d] = call[d]
        /\ mut'[c] = m /\ (call'[c] = "backend" => Direct(m))
    BY <1>1, <1>8 DEF Call, Done, Goto, gitHubVars, CoreTypeOK
  <2>2. Direct(m) => m.op \notin GitHubOps
    BY DEF Direct, GitOps, GitHubOps
  <2>3. wire[c] = "none"
    BY <2>1 DEF HubInv
  <2>4. \A d \in Calls : d # c => (IsThere(mut[d])' <=> IsThere(mut[d]))
    BY <2>1 DEF IsThere
  <2> QED
    BY <2>1, <2>2, <2>3, <2>4 DEF HubInv, ServerForward
<1>9. CASE Others
  <2>1. UNCHANGED <<call, mut>>
    BY <1>9 DEF Others, callVars
  <2>2. CASE UNCHANGED gitHubVars
    BY <1>2, <2>1, <2>2
  <2>3. CASE \E m \in Mutations : m.op \in GitHubOps /\ ServerForeign(m)
    <3>1. PICK m \in Mutations : m.op \in GitHubOps /\ ServerForeign(m)
      BY <2>3
    <3>2. ServerForward /\ server' \in [Targets -> Mutations \cup {None}] /\ UNCHANGED <<hub, wire>>
      BY <1>1, <3>1 DEF ServerForeign, ServerForward
    <3> QED
      BY <2>1, <3>2, QuietHub
  <2> QED
    BY <1>9, <2>2, <2>3 DEF Others, backendVars
<1>10. CASE Crash
  <2>1. /\ hub' = [c \in Calls |-> "idle"] /\ UNCHANGED <<wire, server, mut>>
        /\ \A c \in Calls : call[c] # "idle" => call'[c] # "idle"
    BY <1>10 DEF Crash, GitHubCrash
  <2> QED
    BY <2>1 DEF HubInv, HubStates, ServerForward
<1> QED
  BY <1>3, <1>5, <1>6, <1>7, <1>8, <1>9, <1>10 DEF Next

\* The invariant of GitHub always holds.
LEMMA HubAlways == Spec => []HubInv
<1>1. Init => HubInv
  BY DEF Init, GitHubInit, HubInv, HubStates
<1>2. ReceiptInv /\ HubInv /\ [Next]_vars => HubInv'
  BY HubNext
<1> QED
  BY <1>1, <1>2, ReceiptAlways, PTL DEF Spec

\* What is real stays real.
LEMMA RealStays ==
    ASSUME GitInv, Forward, Expected, ServerForward, NEW m \in Mutations, Real(m)
    PROVE  Real(m)'
<1>1. (Forked(m) => Forked(m)') /\ (Pushed(m) => Pushed(m)')
  BY KnownStays DEF GitInv, Expected
<1> QED
  BY <1>1, IsThereStays DEF Real

\* A call asks for its receipt to be completed only when the backend was.
LEMMA MarkMoves ==
    ASSUME ReceiptInv, [Next]_vars, NEW d \in Calls, call'[d] = "markCompleted"
    PROVE  /\ mut'[d] = mut[d]
           /\ call[d] = "markCompleted" \/ (call[d] = "backend" /\ BackendStatus(d) = "completed")
<1>1. CoreTypeOK
  BY DEF ReceiptInv
<1>2. CASE UNCHANGED vars
  BY <1>2 DEF vars, callVars
<1>3. ASSUME NEW c \in Calls, UNCHANGED mut,
             \E pc \in CallStates \ {"markCompleted"} : call' = [call EXCEPT ![c] = pc]
      PROVE  mut'[d] = mut[d] /\ call[d] = "markCompleted"
  BY <1>1, <1>3 DEF CoreTypeOK
<1>4. ASSUME NEW c \in Calls, CallStep(c)
      PROVE  /\ mut'[d] = mut[d]
             /\ call[d] = "markCompleted" \/ (call[d] = "backend" /\ BackendStatus(d) = "completed")
  <2> USE DEF CallStates
  <2>1. CASE GotReceipt(c) \/ AskForConfirmation(c) \/ Reserve(c) \/ RefuseConfirmation(c)
    BY <1>3, <2>1 DEF GotReceipt, AskForConfirmation, Reserve, RefuseConfirmation, Frame, Goto, Done
  <2>2. CASE StoreEnds(c) \/ Replay(c) \/ Reserved(c) \/ Execute(c)
    BY <1>3, <2>2 DEF StoreEnds, Replay, Reserved, Execute, Frame, Goto, Done
  <2>3. CASE BackendEnds(c)
    <3>1. PICK end \in {<<"completed", "markCompleted">>, <<"failed", "markReconciliationRequired">>} :
            BackendStatus(c) = end[1] /\ call' = [call EXCEPT ![c] = end[2]]
      BY <2>3 DEF BackendEnds, Goto
    <3>2. call[c] = "backend" /\ UNCHANGED mut
      BY <2>3 DEF BackendEnds, Frame
    <3> QED
      BY <1>1, <3>1, <3>2 DEF CoreTypeOK
  <2>4. CASE DirectEnds(c)
    BY <1>3, <2>4 DEF DirectEnds, Frame, Done
  <2>5. CASE Complete(c) \/ CompleteFails(c) \/ Reconciled(c)
    BY <1>3, <2>5 DEF Complete, CompleteFails, Reconciled, Frame, Goto, Done
  <2>6. CASE StoreStep(c) \/ HubStep(c) \/ GitStep(c) \/ GitRefuses(c)
    BY <2>6 DEF StoreStep, HubStep, GitStep, GitRefuses, Rest, callVars
  <2> QED
    BY <1>4, <2>1, <2>2, <2>3, <2>4, <2>5, <2>6 DEF CallStep
<1>5. ASSUME NEW c \in Calls, StoreFault(c) \/ GitFault(c) \/ Server(c)
      PROVE  mut'[d] = mut[d] /\ call[d] = "markCompleted"
  BY <1>5 DEF StoreFault, GitFault, Server, Rest, callVars
<1>6. ASSUME NEW c \in Calls, NEW m \in Mutations, NEW k \in ClientKeys \cup {None},
             NEW f \in ConfirmationIds \cup {None}, Call(c, m, k, f)
      PROVE  mut'[d] = mut[d] /\ call[d] = "markCompleted"
  BY <1>1, <1>6 DEF Call, Done, Goto, CoreTypeOK
<1>7. CASE Others
  BY <1>7 DEF Others, callVars
<1>8. CASE Crash
  BY <1>8 DEF Crash
<1> QED
  BY <1>2, <1>4, <1>5, <1>6, <1>7, <1>8 DEF Next

\* What the backend completed is real.
LEMMA CompletedReal ==
    ASSUME ReceiptInv, GitInv, HubInv, NEW c \in Calls, call[c] = "backend", BackendStatus(c) = "completed"
    PROVE  Real(mut[c])
<1>1. mut[c] \in Mutations /\ mut[c].op \in GitOps \cup GitHubOps
  BY OpsAssumption DEF ReceiptInv, Waiting
<1>2. CASE mut[c].op \in GitHubOps
  BY <1>2 DEF BackendStatus, HubInv, Real, GitHubOps
<1>3. CASE mut[c].op \notin GitHubOps
  <2>1. git[c].status = "completed" /\ mut[c].op \in GitOps
    BY <1>1, <1>3 DEF BackendStatus
  <2>2. Asked(c)
    BY <2>1 DEF GitInv, AskedOK
  <2> QED
    BY <1>3, <2>1, <2>2 DEF Asked, Real
<1> QED
  BY <1>2, <1>3

\* Every step keeps completed receipts true.
LEMMA RealNext ==
    ASSUME ReceiptInv, GitInv, HubInv, RealInv, [Next]_vars
    PROVE  RealInv'
<1>1. Forward /\ Expected /\ ServerForward
  BY GitNext, HubNext
<1>2. \A m \in Mutations : Real(m) => Real(m)'
  BY <1>1, RealStays
<1>3. \A c \in Calls : call[c] # "idle" => mut[c] \in Mutations
  BY DEF ReceiptInv, Waiting
<1>4. receipts \in [Keys -> Receipts] /\ \A k \in Keys : receipts[k].state = "completed" => receipts[k].mutation \in Mutations
  BY DEF ReceiptInv, CoreTypeOK, Receipts, NoReceipt
<1>5. ASSUME NEW k \in Keys, receipts'[k].state = "completed"
      PROVE  \E m \in Mutations : m = receipts'[k].mutation /\ Real(m)
  <2>1. CASE receipts'[k] = receipts[k]
    BY <1>4, <1>5, <2>1 DEF RealInv
  <2>2. CASE receipts'[k] # receipts[k]
    <3>1. PICK c \in Calls : StoreWrite(c) /\ UNCHANGED <<site, callVars, attempts>>
      BY <2>2, ReceiptNext
    <3>2. PICK s \in ReceiptStates :
            /\ receipts' = [receipts EXCEPT ![key[c]] = [state |-> s, mutation |-> mut[c]]]
            /\ s = "completed" => call[c] = "markCompleted"
      BY <3>1, WriteKeeps
    <3>3. k = key[c] /\ receipts'[k] = [state |-> s, mutation |-> mut[c]]
      BY <1>4, <2>2, <3>2
    <3>4. call[c] = "markCompleted" /\ receipts'[k].mutation = mut[c]
      BY <1>5, <3>2, <3>3
    <3> QED
      BY <1>3, <3>4 DEF RealInv
  <2> QED
    BY <2>1, <2>2
<1>6. ASSUME NEW c \in Calls, call'[c] = "markCompleted"
      PROVE  \E m \in Mutations : m = mut'[c] /\ Real(m)
  <2>1. /\ mut'[c] = mut[c]
        /\ call[c] = "markCompleted" \/ (call[c] = "backend" /\ BackendStatus(c) = "completed")
    BY <1>6, MarkMoves
  <2>2. Real(mut[c]) /\ mut[c] \in Mutations
    BY <1>3, <2>1, CompletedReal DEF RealInv
  <2> QED
    BY <2>1, <2>2
<1>7. \A k \in Keys : receipts'[k].state = "completed" => Real(receipts[k].mutation)'
  BY <1>2, <1>5 DEF Real, IsThere, Pushed, Forked, Made
<1>8. ASSUME NEW c \in Calls, call'[c] = "markCompleted"
      PROVE  Real(mut[c])'
  <2>1. PICK m \in Mutations : m = mut'[c] /\ Real(m)
    BY <1>6, <1>8
  <2>2. Real(m)'
    BY <1>2, <2>1
  <2> QED
    BY <2>1, <2>2 DEF Real, IsThere, Pushed, Forked, Made
<1> QED
  BY <1>7, <1>8 DEF RealInv

\* A receipt that says "completed" tells the truth, for every interleaving of
\* calls, crashes and lost answers: the repository of that visibility exists,
\* the pull request is there, the pushed commit has been at the remote, the
\* created branch has the commit it was created from.
THEOREM CompletedTellsTheTruth == Spec => []CompletedIsReal
<1>1. Init => RealInv
  BY DEF Init, ReceiptsInit, RealInv, NoReceipt
<1>2. ReceiptInv /\ GitInv /\ HubInv /\ RealInv /\ [Next]_vars => RealInv'
  BY RealNext
<1>3. RealInv => CompletedIsReal
  <2> SUFFICES ASSUME RealInv, NEW k \in Keys, receipts[k].state = "completed"
               PROVE  LET m == receipts[k].mutation IN
                      CASE m.op = "github_create_repository" ->
                               server[m.target] # None /\ server[m.target].variant = m.variant
                        [] m.op \in GitHubOps \ {"github_create_repository"} -> server[m.target] # None
                        [] m.op = "git_push_branch" -> want[m].source \in held[m.branch]
                        [] m.op = "git_create_branch" -> want[m].head \in anc[tip[m.branch]]
                        [] OTHER -> TRUE
    BY DEF CompletedIsReal
  <2>1. Real(receipts[k].mutation)
    BY DEF RealInv
  <2> QED
    BY <2>1 DEF Real, IsThere, Pushed, Forked, GitHubOps
<1> QED
  BY <1>1, <1>2, <1>3, ReceiptAlways, GitAlways, HubAlways, PTL DEF Spec

=============================================================================
