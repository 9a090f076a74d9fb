--------------------------- MODULE WorkspaceCalls ---------------------------
(***************************************************************************)
(* Calls of workspace tools, from the client to the file, the command or   *)
(* the task that they change.                                              *)
(*                                                                         *)
(* A client follows an intent: a list of tools, each called until it has   *)
(* an answer that settles it.  An attempt is one call on its way through   *)
(* the handler, the executor (LocalAgent or SshWorkspaceExecutor), the     *)
(* file or shell service and the audit log.  Its time may run out at any   *)
(* point: the client then sees an error while the attempt goes on.  What   *)
(* the client does next is decided by the tool's announced hints.          *)
(*                                                                         *)
(* A file's content is the sequence of the edits that made it; its SHA-256 *)
(* is the content itself.  A command is known by its binding.              *)
(***************************************************************************)
EXTENDS ToolCatalog, ToolHandlers, Naturals, Sequences, FiniteSets

CONSTANTS
    Intents,          \* the clients' intents
    Scenarios,        \* what they want, in which kind of workspace
    MaxAttempts,      \* attempts of an intent, over all its tools
    MaxConfirmations, \* confirmations the executor gives out
    MaxFaults,        \* timeouts, failed writes and audits, restarts, expiries
    None

ASSUME BoundsAssumption ==
    /\ MaxAttempts \in Nat \ {0}
    /\ MaxConfirmations \in Nat
    /\ MaxFaults \in Nat

\* The results of an attempt.
Results == {"ok", "null", "refused", "failed", "audit_failed", "confirmation_required"}

ASSUME NoneAssumption == None \notin Intents \cup Nat \cup Results \cup (Intents \X DOMAIN Handlers)

\* An intent is a list of workspace tools, none of them twice: what is called again is a repeated call.
ASSUME PlansAssumption ==
    \A s \in Scenarios, i \in Intents :
        /\ s.intents[i].plan \in Seq(DOMAIN Handlers)
        /\ \A j, k \in 1..Len(s.intents[i].plan) : s.intents[i].plan[j] = s.intents[i].plan[k] => j = k

VARIABLES
    setup,         \* the scenario: [backend, profile, trusted, scope, intents]
    client,        \* intent -> [stage, made, sees, sha, id]
    att,           \* <<intent, n>> -> the attempt
    world,         \* [file, runs, task, stdin]: what the tools change
    confirmations, \* the registry: 1..n -> [state, binding], n ids given out
    active,        \* <<command, interactive>> of the running background tasks
    known,         \* the fields that a client can fill an input with
    \* history
    last,          \* the intent and the tool that last changed the world
    did,           \* the attempts that changed the world
    faults

vars == <<setup, client, att, world, confirmations, active, known, last, did, faults>>

Attempts == Intents \X (1..MaxAttempts)

\* The plan of an intent, the tool of an attempt, and its method.
Plan(i) == setup.intents[i].plan
ToolOf(a) == att[a].tool
MethodOf(a) ==
    LET m == Handlers[ToolOf(a)].method
    IN  IF setup.backend = "ssh" THEN SshMethods[m] ELSE LocalMethods[m]

Idle == [pc |-> "idle", tool |-> None, open |-> FALSE, aborted |-> FALSE,
         confirmationId |-> None, sha |-> <<>>, snap |-> <<>>, result |-> None]

(***************************************************************************)
(* What a client can fill the inputs of a tool with.                       *)
(***************************************************************************)
\* Inputs that are the user's words or the client's choice.
UserWords ==
    {"path", "content", "replacements", "validation", "command", "shell", "operation", "query",
     "items", "message", "owner", "repository", "name", "visibility", "title", "head", "base",
     "mergeMethod", "url", "value", "key", "siteId", "purpose", "steps", "action", "selector"}

\* The fields of earlier answers that an input is filled with.
FilledFrom(input) ==
    CASE input = "workspaceId"                -> {"workspaces.id"}
      [] input = "expectedSha256"             -> {"sha256", "sha256After"}
      [] input \in {"id", "ids"}              -> {"task.id", "logs.id"}
      [] input = "paths"                      -> {"path", "files"}
      [] input \in {"branch", "sourceBranch"} -> {"branch", "currentBranch", "defaultBranch"}
      [] input \in {"expectedHeadSha", "expectedTargetHeadSha"} -> {"headSha", "commitSha"}
      [] input = "expectedSourceHeadSha"      -> {"headSha", "commitSha", "sourceHeadSha"}
      [] input = "expectedIndexTreeSha"       -> {"indexTreeSha"}
      [] input = "expectedLocalSha"           -> {"headSha", "commitSha", "localSha"}
      [] input = "pullNumber"                 -> {"number"}
      [] input = "expectedPullRequestHeadSha" -> {"pull.headSha"}
      [] input = "ref"                        -> {"refs.ref"}
      [] input = "frame"                      -> {"frames.path", "framePath"}
      [] OTHER                                -> {input}

Callable(t) ==
    \A input \in Catalog[t].needs : input \in UserWords \/ FilledFrom(input) \cap known # {}

\* A client that has called every tool it can has seen each of their answers.
Learn ==
    /\ \A i \in Intents : Plan(i) = <<>>
    /\ known' = known \cup
           UNION {answer.gives : answer \in UNION {Answers[t] : t \in {x \in DOMAIN Catalog : Callable(x)}}}
    /\ known' # known
    /\ UNCHANGED <<setup, client, att, world, confirmations, active, last, did, faults>>

(***************************************************************************)
(* The client.                                                             *)
(***************************************************************************)
CurrentTool(i) == Plan(i)[client[i].stage]
Hints(i) == Catalog[CurrentTool(i)].hints
GivenOut == 1..Len(confirmations)

\* Whether the client may make the call again although it may have been done.
MayRepeat(i) == Hints(i) \cap {"readOnly", "idempotent"} # {}

\* A call that needs a confirmation is made again only when the tool takes its id.
MayConfirm(i) == "confirmationId" \in Catalog[CurrentTool(i)].accepts

\* validateAuthentication, and the strict input schema of the handler.
Accepted(i, id) ==
    /\ setup.scope
    /\ id # None => MayConfirm(i)

CallTool(i, id) ==
    LET a == <<i, client[i].made + 1>>
    IN  /\ client[i].stage <= Len(Plan(i))
        /\ client[i].made < MaxAttempts
        /\ \/ client[i].sees = "nothing" /\ id = None
           \/ client[i].sees = "unknown" /\ MayRepeat(i) /\ id = None
           \/ /\ client[i].sees = "confirmation_required" /\ MayConfirm(i)
              /\ (id = client[i].id \/ (setup.intents[i].borrows /\ id \in GivenOut))
        /\ att' = [att EXCEPT ![a] =
               [Idle EXCEPT !.pc = IF Accepted(i, id) THEN "agent" ELSE "answer",
                            !.result = IF Accepted(i, id) THEN None ELSE "refused",
                            !.tool = CurrentTool(i), !.open = TRUE,
                            !.confirmationId = id, !.sha = client[i].sha]]
        /\ client' = [client EXCEPT ![i].made = @ + 1, ![i].sees = "waiting"]
        /\ UNCHANGED <<setup, world, confirmations, active, known, last, did, faults>>

\* The answer reaches the client; a confirmation comes with its id.
Deliver(a) ==
    /\ att[a].pc = "answer"
    /\ att' = [att EXCEPT ![a].pc = "done"]
    /\ client' =
          IF ~att[a].open THEN client
          ELSE CASE att[a].result \in {"ok", "null"} ->
                     [client EXCEPT ![a[1]].stage = @ + 1, ![a[1]].sees = "nothing",
                                    ![a[1]].sha = IF ToolOf(a) = "read_file" THEN att[a].snap ELSE @]
                 [] att[a].result \in {"failed", "audit_failed"} -> [client EXCEPT ![a[1]].sees = "unknown"]
                 [] OTHER -> [client EXCEPT ![a[1]].sees = att[a].result, ![a[1]].id = att[a].confirmationId]
    /\ UNCHANGED <<setup, world, confirmations, active, known, last, did, faults>>

\* The deadline of the call passes, or its connection is lost.
Timeout(a) ==
    /\ att[a].open /\ att[a].pc # "done" /\ faults < MaxFaults
    /\ att' = [att EXCEPT ![a].open = FALSE, ![a].aborted = TRUE]
    /\ client' = [client EXCEPT ![a[1]].sees = "unknown"]
    /\ faults' = faults + 1
    /\ UNCHANGED <<setup, world, confirmations, active, known, last, did>>

(***************************************************************************)
(* The executor.                                                           *)
(***************************************************************************)
\* The attempt has its result; LocalAgent writes it to the audit log first.
Ends(a, result) ==
    [att[a] EXCEPT !.pc = IF setup.backend = "ssh" THEN "answer" ELSE "audit", !.result = result]

Unchanged(a, result) ==
    /\ att' = [att EXCEPT ![a] = Ends(a, result)]
    /\ UNCHANGED <<world, last, did>>

Changed(a, result, w) ==
    /\ att' = [att EXCEPT ![a] = Ends(a, result)]
    /\ world' = w
    /\ last' = <<a[1], ToolOf(a)>>
    /\ did' = did \cup {a}

Permitted(a) ==
    IF setup.backend = "ssh"
      THEN /\ MethodOf(a).permission # "unsupported"
           /\ MethodOf(a).permission \in {"write", "shell"} => setup.profile = "full-repo-write"
      ELSE assertPermission(setup.profile, MethodOf(a).permission)

Deny(a) ==
    /\ att[a].pc = "agent" /\ ~Permitted(a)
    /\ Unchanged(a, "refused")
    /\ UNCHANGED <<setup, client, confirmations, active, known, faults>>

Arrived(a, effect) == att[a].pc = "agent" /\ Permitted(a) /\ MethodOf(a).effect = effect

\* A reading method; read_file answers the content with its SHA-256.
Read(a) ==
    /\ Arrived(a, "none")
    /\ att' = [att EXCEPT ![a] = [Ends(a, "ok") EXCEPT !.snap = world.file]]
    /\ UNCHANGED <<setup, client, world, confirmations, active, known, last, did, faults>>

\* FileService.writeFile: everything up to the rename of the temporary file.
WriteFile(a) ==
    /\ Arrived(a, "replace")
    /\ att' = [att EXCEPT ![a].pc = "write", ![a].snap = <<setup.intents[a[1]].edit>>]
    /\ UNCHANGED <<setup, client, world, confirmations, active, known, last, did, faults>>

\* The text that the replacements make of a content; oldText "gone" never occurs in it
\* as often as expected, and "same" is replaced by itself.
Patched(edit, content) == IF edit = "same" THEN content ELSE Append(content, edit)

\* Mutant: a patch whose hash is not compared.
PatchUnseen(a) ==
    LET want == setup.intents[a[1]]
    IN  /\ Arrived(a, "patch")
        /\ IF want.edit = "gone"
             THEN att' = [att EXCEPT ![a] = Ends(a, "refused")]
             ELSE IF want.dryRun \/ want.edit = "same"
               THEN att' = [att EXCEPT ![a] = Ends(a, "ok")]
               ELSE att' = [att EXCEPT ![a].pc = "write", ![a].snap = Patched(want.edit, world.file)]
        /\ UNCHANGED <<setup, client, world, confirmations, active, known, last, did, faults>>

\* FileService.patchFile and SshWorkspaceExecutor.patchFile up to their write: the file is
\* read once, and the hash, the counts and dryRun are settled on what was read.
PatchFile(a) ==
    LET want == setup.intents[a[1]]
        new == Patched(want.edit, world.file)
    IN  /\ Arrived(a, "patch")
        /\ IF world.file # att[a].sha \/ want.edit = "gone"
             THEN att' = [att EXCEPT ![a] = Ends(a, "refused")]
             ELSE IF want.dryRun \/ new = world.file
               THEN att' = [att EXCEPT ![a] = Ends(a, "ok")]
               ELSE att' = [att EXCEPT ![a].snap = new,
                                       ![a].pc = IF setup.backend = "ssh" THEN "check" ELSE "write"]
        /\ UNCHANGED <<setup, client, world, confirmations, active, known, last, did, faults>>

\* writeBytes on the remote host compares the hash again before it moves the new file.
RemoteCheck(a) ==
    /\ att[a].pc = "check"
    /\ \/ world.file = att[a].sha /\ att' = [att EXCEPT ![a].pc = "write"]
       \/ world.file # att[a].sha /\ att' = [att EXCEPT ![a] = Ends(a, "refused")]
    /\ UNCHANGED <<setup, client, world, confirmations, active, known, last, did, faults>>

\* The rename replaces the file, or fails and the temporary file is removed.
Rename(a) ==
    /\ att[a].pc = "write"
    /\ \/ Changed(a, "ok", [world EXCEPT !.file = att[a].snap]) /\ UNCHANGED faults
       \/ faults < MaxFaults /\ Unchanged(a, "failed") /\ faults' = faults + 1
    /\ UNCHANGED <<setup, client, confirmations, active, known>>

\* Mutant: LocalAgent, too, looks whose task it was when it is cancelled.
CancelThenLook(a) ==
    LET mine == world.task.workspace = setup.intents[a[1]].workspace
        result == IF mine THEN "ok" ELSE "null"
    IN  /\ Arrived(a, "cancel")
        /\ IF world.task.state = "running"
             THEN Changed(a, result, [world EXCEPT !.task.state = "cancelled"])
             ELSE Unchanged(a, result)
        /\ UNCHANGED <<setup, client, confirmations, active, known, faults>>

\* cancelBackgroundTask: LocalAgent looks whose task it is before it cancels it,
\* SshWorkspaceExecutor afterwards.
CancelBackgroundTask(a) ==
    LET mine == world.task.workspace = setup.intents[a[1]].workspace
        result == IF mine THEN "ok" ELSE "null"
    IN  /\ Arrived(a, "cancel")
        /\ IF (mine \/ setup.backend = "ssh") /\ world.task.state = "running"
             THEN Changed(a, result, [world EXCEPT !.task.state = "cancelled"])
             ELSE Unchanged(a, result)
        /\ UNCHANGED <<setup, client, confirmations, active, known, faults>>

\* writeBackgroundTaskStdin: the task must be this workspace's and still run.
WriteStdin(a) ==
    LET mine == world.task.workspace = setup.intents[a[1]].workspace
    IN  /\ Arrived(a, "stdin")
        /\ IF ~mine THEN Unchanged(a, "null")
           ELSE IF world.task.state # "running" THEN Unchanged(a, "refused")
           ELSE Changed(a, "ok", [world EXCEPT !.stdin = @ + 1])
        /\ UNCHANGED <<setup, client, confirmations, active, known, faults>>

(***************************************************************************)
(* Commands (ShellService, CommandConfirmationRegistry).                   *)
(***************************************************************************)
\* executeCommand sends a long command to startBackgroundTask, with its confirmationId.
InBackground(a) == ToolOf(a) = "start_background_task" \/ setup.intents[a[1]].long

Interactive(a) == ToolOf(a) = "start_background_task" /\ setup.intents[a[1]].interactive

\* The binding of a confirmation: command, context, operation and interactive.
Binding(a) ==
    [command |-> setup.intents[a[1]].command, background |-> InBackground(a),
     interactive |-> Interactive(a)]

\* assertShellAllowed, resolveShellCwd and the push policy.  LocalAgent looks at the signal
\* here and nowhere else; the SSH executor does not look at it before it starts the command.
PrepareCommand(a) ==
    /\ (Arrived(a, "run") \/ Arrived(a, "start"))
    /\ IF \/ setup.backend = "local" /\ att[a].aborted
          \/ setup.backend = "ssh" /\ Interactive(a)
          \/ setup.intents[a[1]].blocked
         THEN Unchanged(a, "refused")
         ELSE /\ att' = [att EXCEPT ![a].pc = "decide"]
              /\ UNCHANGED <<world, last, did>>
    /\ UNCHANGED <<setup, client, confirmations, active, known, faults>>

\* decideCommandAuthorization and authorizeCommandExecution: a risky command needs a
\* confirmation; in a trusted local workspace so does every critical one, and a risky one
\* only when the trust does not cover it.
MustConfirm(i) ==
    LET want == setup.intents[i]
    IN  IF setup.trusted /\ setup.backend = "local"
          THEN want.critical \/ (want.risky /\ ~want.covered)
          ELSE want.risky

\* An interactive process needs a confirmation in any case.
NeedsConfirmation(a) == Interactive(a) \/ MustConfirm(a[1])

\* SshWindowsTransport.invoke makes no SSH process for a call that was aborted.
NotInvoked(a) == setup.backend = "ssh" /\ att[a].aborted /\ ~InBackground(a)

\* The command is started: a process, or a background task; a task of the same command
\* that is still running is answered instead of a second one (the clients are of one
\* owner: what others run is not looked at).
Start(a) ==
    LET c == setup.intents[a[1]].command
        hash == <<c, Interactive(a)>>
    IN  /\ att' = [att EXCEPT ![a].pc = "running"]
        /\ active' = IF InBackground(a) THEN active \cup {hash} ELSE active
        /\ IF (InBackground(a) /\ hash \in active) \/ NotInvoked(a)
             THEN UNCHANGED <<world, last, did>>
             ELSE /\ world' = [world EXCEPT !.runs[c] = @ + 1]
                  /\ last' = <<a[1], ToolOf(a)>>
                  /\ did' = did \cup {a}

RunFreely(a) ==
    /\ att[a].pc = "decide" /\ ~NeedsConfirmation(a)
    /\ Start(a)
    /\ UNCHANGED <<setup, client, confirmations, known, faults>>

\* create
AskForConfirmation(a) ==
    /\ att[a].pc = "decide" /\ NeedsConfirmation(a) /\ att[a].confirmationId = None
    /\ Len(confirmations) < MaxConfirmations
    /\ confirmations' = Append(confirmations, [state |-> "pending", binding |-> Binding(a)])
    /\ att' = [att EXCEPT ![a] = [Ends(a, "confirmation_required") EXCEPT
                                      !.confirmationId = Len(confirmations) + 1]]
    /\ UNCHANGED <<setup, client, world, active, known, last, did, faults>>

\* Mutant: consume leaves the confirmation in the map.
ConsumedNot(id) == confirmations

\* consume: a pending confirmation of this very binding, which is thereby used up.
Consumed(id) == [confirmations EXCEPT ![id].state = "used"]

Matches(a) ==
    /\ confirmations[att[a].confirmationId].state = "pending"
    /\ confirmations[att[a].confirmationId].binding = Binding(a)

RunConfirmed(a) ==
    /\ att[a].pc = "decide" /\ NeedsConfirmation(a) /\ att[a].confirmationId # None
    /\ Matches(a)
    /\ confirmations' = Consumed(att[a].confirmationId)
    /\ Start(a)
    /\ UNCHANGED <<setup, client, known, faults>>

RefuseConfirmation(a) ==
    /\ att[a].pc = "decide" /\ NeedsConfirmation(a) /\ att[a].confirmationId # None
    /\ ~Matches(a)
    /\ Unchanged(a, "refused")
    /\ UNCHANGED <<setup, client, confirmations, active, known, faults>>

\* The process exits, or is killed or was not made because the call was aborted; a
\* background task has been persisted.
CommandEnds(a) ==
    /\ att[a].pc = "running"
    /\ att' = [att EXCEPT ![a] = Ends(a, IF att[a].aborted /\ ~InBackground(a) THEN "failed" ELSE "ok")]
    /\ UNCHANGED <<setup, client, world, confirmations, active, known, last, did, faults>>

\* A background task is over.
TaskEnds(hash) ==
    /\ active' = active \ {hash}
    /\ UNCHANGED <<setup, client, att, world, confirmations, known, last, did, faults>>

(***************************************************************************)
(* The audit log, restarts and expiry.                                     *)
(***************************************************************************)
\* runValidatedAudited: the entry is written before the result is returned; when that
\* fails the call fails, whatever it did.
Audit(a) ==
    /\ att[a].pc = "audit"
    /\ \/ att' = [att EXCEPT ![a].pc = "answer"] /\ UNCHANGED faults
       \/ /\ faults < MaxFaults
          /\ att' = [att EXCEPT ![a].pc = "answer", ![a].result = "audit_failed"]
          /\ faults' = faults + 1
    /\ UNCHANGED <<setup, client, world, confirmations, active, known, last, did>>

\* pruneExpired
Expire(id) ==
    /\ confirmations[id].state = "pending" /\ faults < MaxFaults
    /\ confirmations' = [confirmations EXCEPT ![id].state = "expired"]
    /\ faults' = faults + 1
    /\ UNCHANGED <<setup, client, att, world, active, known, last, did>>

\* The executor's process restarts: confirmations are in its memory only, attempts die.
Lapsed(c) == IF c.state = "pending" THEN [c EXCEPT !.state = "expired"] ELSE c
InHand(a) == att[a].pc \notin {"idle", "done", "answer"}
Killed(a) == IF InHand(a) THEN [att[a] EXCEPT !.pc = "done", !.open = FALSE] ELSE att[a]
Interrupted(i) ==
    IF \E n \in 1..MaxAttempts : att[<<i, n>>].open /\ InHand(<<i, n>>)
    THEN [client[i] EXCEPT !.sees = "unknown"] ELSE client[i]

Restart ==
    /\ faults < MaxFaults
    /\ confirmations' = [id \in GivenOut |-> Lapsed(confirmations[id])]
    /\ att' = [a \in Attempts |-> Killed(a)]
    /\ client' = [i \in Intents |-> Interrupted(i)]
    /\ faults' = faults + 1
    /\ UNCHANGED <<setup, world, active, known, last, did>>

----------------------------------------------------------------------------
Commands == UNION {{s.intents[i].command : i \in Intents} : s \in Scenarios}

Init ==
    /\ setup \in Scenarios
    /\ client = [i \in Intents |-> [stage |-> 1, made |-> 0, sees |-> "nothing", sha |-> <<>>,
                                   id |-> None]]
    /\ att = [a \in Attempts |-> Idle]
    /\ world = [file |-> <<"original">>, runs |-> [c \in Commands |-> 0],
                task |-> [workspace |-> "w1", state |-> "running"], stdin |-> 0]
    /\ confirmations = <<>>
    /\ active = {}
    /\ known = {}
    /\ last = None
    /\ did = {}
    /\ faults = 0

AgentStep(a) ==
    \/ Deny(a) \/ Read(a) \/ WriteFile(a) \/ PatchFile(a) \/ RemoteCheck(a) \/ Rename(a)
    \/ CancelBackgroundTask(a) \/ WriteStdin(a)
    \/ PrepareCommand(a) \/ RunFreely(a) \/ AskForConfirmation(a) \/ RunConfirmed(a)
    \/ RefuseConfirmation(a) \/ CommandEnds(a) \/ Audit(a)

Call(i) == \E id \in GivenOut \cup {None} : CallTool(i, id)

Next ==
    \/ Learn
    \/ \E i \in Intents : Call(i)
    \/ \E a \in Attempts : AgentStep(a) \/ Deliver(a) \/ Timeout(a)
    \/ \E hash \in active : TaskEnds(hash)
    \/ \E id \in GivenOut : Expire(id)
    \/ Restart

Spec == Init /\ [][Next]_vars

\* Promises of the file system, processes and the log settle; clients go on.
FairSpec ==
    /\ Spec
    /\ WF_vars(Learn)
    /\ \A i \in Intents : WF_vars(Call(i))
    /\ \A a \in Attempts : WF_vars(AgentStep(a)) /\ WF_vars(Deliver(a))

(***************************************************************************)
(* Properties.                                                             *)
(***************************************************************************)
\* Types of the clients, the attempts, the registry and what the tools change.
TypeOK ==
    /\ setup \in Scenarios
    /\ \A i \in Intents :
          /\ client[i].stage \in 1..(Len(Plan(i)) + 1) /\ client[i].made \in 0..MaxAttempts
          /\ client[i].sees \in {"nothing", "waiting", "unknown"} \cup Results
          /\ client[i].id \in GivenOut \cup {None}
    /\ \A a \in Attempts :
          /\ att[a].pc \in {"idle", "agent", "check", "write", "decide", "running", "audit", "answer", "done"}
          /\ att[a].result \in Results \cup {None}
          /\ att[a].confirmationId \in GivenOut \cup {None}
    /\ world.runs \in [Commands -> Nat] /\ world.stdin \in Nat
    /\ world.task.state \in {"running", "cancelled"}
    /\ \A id \in GivenOut : confirmations[id].state \in {"pending", "used", "expired"}
    /\ Len(confirmations) <= MaxConfirmations /\ faults \in 0..MaxFaults
    /\ active \subseteq Commands \X BOOLEAN /\ did \subseteq Attempts

\* Whether every intent with this command needs a confirmation of it.
AlwaysConfirmed(c) == \A i \in Intents : setup.intents[i].command = c => MustConfirm(i)

\* A command that needs a confirmation runs at most once for each confirmation given for
\* that very command, whoever presents the id, however often, and however the calls
\* interleave (ShellService.prepareCommand, CommandConfirmationRegistry.consume).
ConfirmedOnce ==
    \A c \in Commands : AlwaysConfirmed(c) =>
        world.runs[c] <= Cardinality({id \in GivenOut :
            confirmations[id].state = "used" /\ confirmations[id].binding.command = c})

\* A call that is answered with a refusal, a question for confirmation or "not found" has
\* changed nothing: only a lost answer, a failure or an unwritten audit entry leaves that
\* open.  The one exception is SshWorkspaceExecutor.cancelBackgroundTask, which answers
\* "not found" for a task of another workspace that it has just cancelled.
RefusalIsClean ==
    \A a \in did :
        att[a].result \in {"refused", "null", "confirmation_required"} =>
            setup.backend = "ssh" /\ MethodOf(a).effect = "cancel" /\ att[a].result = "null"

\* A call that the client repeats because the tool is announced as idempotent changes
\* nothing that its first attempt has not changed already.
RepeatIsHarmless ==
    [][world' # world /\ last' = last => "idempotent" \notin Catalog[last[2]].hints]_vars

\* A client can come by the required inputs of every announced tool from what the user
\* says and what the tools answer.
EveryToolReachable ==
    (\A i \in Intents : Plan(i) = <<>>) => <>(\A t \in DOMAIN Catalog : Callable(t))
=============================================================================
