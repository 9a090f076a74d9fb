--------------------------- MODULE MCSourceControl ---------------------------
(***************************************************************************)
(* Instances of SourceControl for TLC.                                     *)
(***************************************************************************)
EXTENDS SourceControl, TLC

CONSTANTS k1, f1, f2, f3, t1, t2, main, feature, topic, p1, p2

Mut(op, target, variant, b, paths) ==
    [op |-> op, target |-> target, variant |-> variant, branch |-> b, paths |-> paths]

private == Mut("github_create_repository", t1, "private", main, {})
public == Mut("github_create_repository", t1, "public", main, {})
propose == Mut("github_create_pull_request", t2, "plain", feature, {})
accept == Mut("github_merge_pull_request", t2, "plain", main, {})
fork == Mut("git_create_branch", None, "plain", feature, {})
stage1 == Mut("git_stage_paths", None, "plain", main, {p1})
stage2 == Mut("git_stage_paths", None, "plain", main, {p2})
unstage == Mut("git_unstage_paths", None, "plain", main, {p1})
record == Mut("git_commit", None, "plain", main, {})
merge == Mut("git_merge_branch", None, "plain", topic, {})
pushMain == Mut("git_push_branch", None, "plain", main, {})
pushTopic == Mut("git_push_branch", None, "pinned", topic, {})

MCMutations == {private, public, propose, accept, fork, stage1, stage2, unstage, record, merge, pushMain, pushTopic}

\* All capabilities of the mutations.
MCCapabilities == {"git.branch.write", "git.index.write", "git.commit.write", "git.merge.write",
                   "git.remote.push", "github.repository.create", "github.pull_request.create",
                   "github.pull_request.merge"}

\* main is at its remote; topic is one commit ahead of its own.  The feature
\* branch is checked out, or there is none.
MCRepository(c, ix, w) ==
    [tip     |-> (main :> 0 @@ feature :> (IF c = main THEN 3 ELSE 0) @@ topic :> 1),
     anc     |-> [n \in 0 .. 2 |-> IF n = 0 THEN {0} ELSE IF n = 1 THEN {0, 1} ELSE {}],
     current |-> c, index |-> ix, work |-> w,
     remote  |-> (main :> 0 @@ feature :> 3 @@ topic :> 0)]

Scenario(s, asked, r, calls, crashed, failed) ==
    [site |-> s, repository |-> r,
     menu |-> [asked |-> asked, calls |-> calls, crashes |-> crashed, faults |-> failed]]

OnMain == MCRepository(main, {}, {})
Clean == MCRepository(feature, {}, {})
Changed == MCRepository(feature, {}, {p1})
Staged == MCRepository(feature, {p1}, {p2})

MCScenarios ==
    {Scenario("local", {private}, OnMain, 3, 0, 0), Scenario("ssh", {record, merge}, Clean, 2, 0, 1)} \cup
    {Scenario("local", asked, OnMain, 2, 1, 1) : asked \in {{private, public}, {propose}, {accept}, {pushMain}, {pushTopic}}} \cup
    {Scenario("local", {fork, record}, OnMain, 2, 0, 0), Scenario("local", {merge}, Clean, 2, 0, 1),
     Scenario("local", {stage1}, Changed, 2, 0, 0), Scenario("local", {unstage, record}, Staged, 2, 0, 0)} \cup
    {Scenario("ssh", asked, OnMain, 2, 1, 1) : asked \in {{fork, record}, {pushTopic}, {private}}} \cup
    {Scenario("ssh", {stage1, unstage, record}, Staged, 2, 0, 1)}

=============================================================================
