-------------------------- MODULE MCWorkspaceCalls --------------------------
(***************************************************************************)
(* Instances of WorkspaceCalls: one client that calls each tool once, one  *)
(* that only explores the catalog, and pairs of clients at the same file,  *)
(* the same command or the same task.                                      *)
(***************************************************************************)
EXTENDS WorkspaceCalls, TLC

CONSTANTS I1, I2

Nothing == [plan |-> <<>>, workspace |-> "w1", edit |-> "e", dryRun |-> FALSE, command |-> "c",
            risky |-> FALSE, critical |-> FALSE, covered |-> FALSE, long |-> FALSE, interactive |-> FALSE,
            blocked |-> FALSE, borrows |-> FALSE]

Scenario(backend, profile, trusted, one, two) ==
    [backend |-> backend, profile |-> profile, trusted |-> trusted, scope |-> TRUE,
     intents |-> I1 :> one @@ I2 :> two]

Patch(e) == [Nothing EXCEPT !.plan = <<"read_file", "patch_file">>, !.edit = e]
Write(e) == [Nothing EXCEPT !.plan = <<"write_file">>, !.edit = e]
Command(t, fields) == [f \in DOMAIN Nothing |->
    IF f \in DOMAIN fields THEN fields[f] ELSE IF f = "plan" THEN <<t>> ELSE Nothing[f]]

Backends == {"local", "ssh"}

\* Every workspace tool alone, in a workspace that may be written and in one that may not.
EachTool ==
    {Scenario(b, p, FALSE, [Nothing EXCEPT !.plan = <<t>>], Nothing) :
        b \in Backends, p \in {"full-repo-write", "builder-review"}, t \in DOMAIN Handlers}

Unauthenticated ==
    {[Scenario("local", "full-repo-write", FALSE, Write("x"), Nothing) EXCEPT !.scope = FALSE]}

Exploring == {Scenario("local", "full-repo-write", FALSE, Nothing, Nothing)}

Files ==
    {Scenario(b, "full-repo-write", FALSE, Patch("x"), two) :
        b \in Backends, two \in {Patch("y"), Write("y"), Nothing}} \cup
    {Scenario(b, "full-repo-write", FALSE, one, Write("y")) :
        b \in Backends, one \in {Patch("gone"), Patch("same"), [Patch("x") EXCEPT !.dryRun = TRUE]}}

Risky == [risky |-> TRUE, critical |-> TRUE]

Confirmations ==
    {Scenario(b, "full-repo-write", FALSE, Command("run_command", Risky),
              Command(t, Risky @@ [borrows |-> TRUE])) :
        b \in Backends, t \in {"run_command", "start_background_task"}} \cup
    {Scenario(b, "full-repo-write", TRUE, Command("run_command", [risky |-> TRUE, covered |-> cov]),
              Command("run_command", Risky @@ [long |-> TRUE])) : b \in Backends, cov \in BOOLEAN} \cup
    {Scenario("local", "full-repo-write", TRUE,
              Command("start_background_task", Risky @@ [interactive |-> TRUE, command |-> "d"]),
              Command("run_command", [blocked |-> TRUE])),
     Scenario("ssh", "full-repo-write", FALSE,
              Command("start_background_task", Risky @@ [interactive |-> TRUE]), Nothing),
     Scenario("local", "full-repo-write", FALSE, Command("start_background_task", Risky),
              Command("start_background_task", Risky)),
     Scenario("local", "full-repo-write", FALSE, Command("start_background_task", [risky |-> FALSE]),
              Command("run_command", [long |-> TRUE]))}

Cancel(w) == [Nothing EXCEPT !.plan = <<"cancel_background_task">>, !.workspace = w]
Stdin(w) == [Nothing EXCEPT !.plan = <<"write_background_task_stdin">>, !.workspace = w]

Tasks ==
    {Scenario(b, "full-repo-write", FALSE, Cancel(v), Stdin(w)) :
        b \in Backends, v \in {"w1", "w2"}, w \in {"w1", "w2"}}

SafeScenarios == EachTool \cup Unauthenticated \cup Exploring \cup Files \cup Confirmations \cup Tasks
=============================================================================
