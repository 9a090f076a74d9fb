------------------------ MODULE WorkspaceCallsProofs ------------------------
(***************************************************************************)
(* Proofs about calls of workspace tools, for any clients, attempts and    *)
(* scenarios.                                                              *)
(***************************************************************************)
EXTENDS WorkspaceCalls, FiniteSetTheorems, TLAPS

-----------------------------------------------------------------------------
(***************************************************************************)
(* The shape of the state                                                  *)
(***************************************************************************)
Fields == {"pc", "tool", "open", "aborted", "confirmationId", "sha", "snap", "result"}

AttShape ==
    /\ DOMAIN att = Attempts
    /\ \A a \in Attempts : DOMAIN att[a] = Fields
ClientShape ==
    /\ DOMAIN client = Intents
    /\ \A i \in Intents : DOMAIN client[i] = {"stage", "made", "sees", "sha", "id"}
WorldShape == DOMAIN world = {"file", "runs", "task", "stdin"}

\* Only this attempt changes.
Others(a) == \A b \in Attempts : b # a => att'[b] = att[b]

\* An attempt that has not been made.
LEMMA IdleIs ==
    /\ DOMAIN Idle = Fields /\ Idle.pc = "idle" /\ Idle.confirmationId = None /\ Idle.result = None
    BY DEF Idle, Fields

\* What an attempt becomes when it has its result.
LEMMA EndsIs ==
    ASSUME AttShape, NEW a \in Attempts, NEW result
    PROVE  /\ DOMAIN Ends(a, result) = Fields
           /\ Ends(a, result).pc \in {"audit", "answer"} /\ Ends(a, result).result = result
           /\ Ends(a, result).tool = att[a].tool /\ Ends(a, result).confirmationId = att[a].confirmationId
           /\ Ends(a, result).open = att[a].open /\ Ends(a, result).sha = att[a].sha
    BY DEF Ends, AttShape, Fields

\* A step that writes one attempt leaves the others as they are.
LEMMA Replaced ==
    ASSUME AttShape, NEW a \in Attempts, NEW new, DOMAIN new = Fields, att' = [att EXCEPT ![a] = new]
    PROVE  AttShape' /\ Others(a) /\ att'[a] = new
    BY DEF AttShape, Others

(***************************************************************************)
(* How an attempt moves                                                    *)
(***************************************************************************)
Early == {"idle", "agent", "check", "write", "decide"}

\* It goes on, or has its result, and nothing was changed.
Quiet(a) ==
    /\ did' = did /\ world' = world
    /\ \/ /\ att[a].pc \in Early \ {"idle"} /\ att'[a].result = att[a].result
          /\ att'[a].pc \in {"check", "write", "decide", "running"}
       \/ att[a].pc \in Early \ {"idle"} /\ att'[a].pc \in {"audit", "answer"}
       \/ /\ att[a].pc \in {"running", "audit"} /\ att'[a].pc \in {"audit", "answer"}
          /\ att'[a].result \in {"ok", "failed", "audit_failed"} \/ (att[a].pc = "audit" /\ att'[a].result = att[a].result)

\* It changes the world, and says so.
Changes(a) ==
    /\ did' = did \cup {a} /\ att[a].pc \in Early \ {"idle"}
    /\ \/ att'[a].pc = "running" /\ att'[a].result = att[a].result
       \/ /\ att'[a].pc \in {"audit", "answer"}
          /\ \/ att'[a].result = "ok"
             \/ setup.backend = "ssh" /\ MethodOf(a).effect = "cancel" /\ att'[a].result = "null"

Keeps(a) ==
    /\ AttShape' /\ Others(a)
    /\ att'[a].tool = att[a].tool /\ att'[a].open = att[a].open /\ att'[a].sha = att[a].sha
    /\ setup' = setup /\ client' = client

\* A method that ends without an effect leaves the attempt unchanging.
LEMMA UnchangedMoves ==
    ASSUME AttShape, NEW a \in Attempts, NEW result, Unchanged(a, result), att[a].pc \in Early \ {"idle"},
           setup' = setup, client' = client
    PROVE  Keeps(a) /\ Quiet(a) /\ att'[a].confirmationId = att[a].confirmationId
    <1> DEFINE new == Ends(a, result)
    <1>1. /\ DOMAIN new = Fields /\ new.pc \in {"audit", "answer"}
          /\ new.tool = att[a].tool /\ new.open = att[a].open /\ new.sha = att[a].sha /\ new.confirmationId = att[a].confirmationId
        BY EndsIs
    <1>2. att' = [att EXCEPT ![a] = new] /\ did' = did /\ world' = world
        BY DEF Unchanged
    <1> HIDE DEF new
    <1>3. AttShape' /\ Others(a) /\ att'[a] = new
        BY <1>1, <1>2, Replaced
    <1> QED
        BY <1>1, <1>2, <1>3 DEF Keeps, Quiet

\* A method that ends with its effect says so in its result, but for a remote cancellation.
LEMMA ChangedMoves ==
    ASSUME AttShape, NEW a \in Attempts, NEW result, NEW w, Changed(a, result, w), att[a].pc \in Early \ {"idle"},
           setup' = setup, client' = client,
           result = "ok" \/ (setup.backend = "ssh" /\ MethodOf(a).effect = "cancel" /\ result = "null")
    PROVE  Keeps(a) /\ Changes(a) /\ world' = w /\ att'[a].confirmationId = att[a].confirmationId
    <1> DEFINE new == Ends(a, result)
    <1>1. /\ DOMAIN new = Fields /\ new.pc \in {"audit", "answer"} /\ new.result = result
          /\ new.tool = att[a].tool /\ new.open = att[a].open /\ new.sha = att[a].sha /\ new.confirmationId = att[a].confirmationId
        BY EndsIs
    <1>2. att' = [att EXCEPT ![a] = new] /\ did' = did \cup {a} /\ world' = w
        BY DEF Changed
    <1> HIDE DEF new
    <1>3. AttShape' /\ Others(a) /\ att'[a] = new
        BY <1>1, <1>2, Replaced
    <1> QED
        BY <1>1, <1>2, <1>3 DEF Keeps, Changes

\* No command runs, and no confirmation is given or used.
Neutral(a) ==
    /\ confirmations' = confirmations
    /\ WorldShape' /\ world'.runs = world.runs
    /\ att'[a].confirmationId = att[a].confirmationId

\* The file methods touch one attempt and no confirmation.
LEMMA FileMoves ==
    ASSUME AttShape, WorldShape, NEW a \in Attempts,
           Read(a) \/ WriteFile(a) \/ PatchFile(a) \/ RemoteCheck(a) \/ Rename(a)
    PROVE  Keeps(a) /\ (Quiet(a) \/ Changes(a)) /\ Neutral(a)
    <1>0. /\ setup' = setup /\ client' = client /\ confirmations' = confirmations
          /\ att[a].pc \in Early \ {"idle"}
        BY DEF Read, WriteFile, PatchFile, RemoteCheck, Rename, Arrived, Early
    <1>1. ASSUME NEW new, DOMAIN new = Fields, att' = [att EXCEPT ![a] = new], new.tool = att[a].tool /\ new.open = att[a].open /\ new.sha = att[a].sha,
                 new.confirmationId = att[a].confirmationId, did' = did, world' = world,
                 \/ new.pc \in {"audit", "answer"}
                 \/ new.pc \in {"check", "write"} /\ new.result = att[a].result
          PROVE  Keeps(a) /\ (Quiet(a) \/ Changes(a)) /\ Neutral(a)
        <2>1. AttShape' /\ Others(a) /\ att'[a] = new
            BY <1>1, Replaced
        <2> QED
            BY <1>0, <1>1, <2>1 DEF Keeps, Quiet, Neutral, WorldShape
    <1>2. ASSUME NEW result, att' = [att EXCEPT ![a] = Ends(a, result)], did' = did, world' = world
          PROVE  Keeps(a) /\ (Quiet(a) \/ Changes(a)) /\ Neutral(a)
        BY <1>1, <1>2, EndsIs
    <1>3. DOMAIN att[a] = Fields /\ DOMAIN att = Attempts
        BY DEF AttShape
    <1>4. CASE Read(a)
        <2> DEFINE new == [Ends(a, "ok") EXCEPT !.snap = world.file]
        <2>1. DOMAIN new = Fields /\ new.tool = att[a].tool /\ new.open = att[a].open /\ new.sha = att[a].sha /\ new.confirmationId = att[a].confirmationId
                 /\ new.pc \in {"audit", "answer"}
            BY EndsIs DEF Fields
        <2>2. att' = [att EXCEPT ![a] = new] /\ did' = did /\ world' = world
            BY <1>4 DEF Read
        <2> HIDE DEF new
        <2> QED
            BY <1>1, <2>1, <2>2
    <1>5. CASE WriteFile(a)
        <2> DEFINE new == [att[a] EXCEPT !.pc = "write", !.snap = <<setup.intents[a[1]].edit>>]
        <2>1. DOMAIN new = Fields /\ new.tool = att[a].tool /\ new.open = att[a].open /\ new.sha = att[a].sha /\ new.confirmationId = att[a].confirmationId
                 /\ new.pc = "write" /\ new.result = att[a].result
            BY <1>3 DEF Fields
        <2>2. att' = [att EXCEPT ![a] = new] /\ did' = did /\ world' = world
            BY <1>3, <1>5 DEF WriteFile
        <2> HIDE DEF new
        <2> QED
            BY <1>1, <2>1, <2>2
    <1>6. CASE PatchFile(a)
        <2> DEFINE text == Patched(setup.intents[a[1]].edit, world.file)
                   p == IF setup.backend = "ssh" THEN "check" ELSE "write"
                   new == [att[a] EXCEPT !.snap = text, !.pc = p]
        <2>1. DOMAIN new = Fields /\ new.tool = att[a].tool /\ new.open = att[a].open /\ new.sha = att[a].sha /\ new.confirmationId = att[a].confirmationId
                 /\ new.pc \in {"check", "write"} /\ new.result = att[a].result
            BY <1>3 DEF Fields
        <2>2. did' = did /\ world' = world
            BY <1>6 DEF PatchFile
        <2>3. \/ att' = [att EXCEPT ![a] = Ends(a, "refused")] \/ att' = [att EXCEPT ![a] = Ends(a, "ok")]
              \/ att' = [att EXCEPT ![a] = new]
            BY <1>3, <1>6 DEF PatchFile
        <2> HIDE DEF new
        <2> QED
            BY <1>1, <1>2, <2>1, <2>2, <2>3
    <1>7. CASE RemoteCheck(a)
        <2> DEFINE new == [att[a] EXCEPT !.pc = "write"]
        <2>1. DOMAIN new = Fields /\ new.tool = att[a].tool /\ new.open = att[a].open /\ new.sha = att[a].sha /\ new.confirmationId = att[a].confirmationId
                 /\ new.pc = "write" /\ new.result = att[a].result
            BY <1>3 DEF Fields
        <2>2. did' = did /\ world' = world
            BY <1>7 DEF RemoteCheck
        <2>3. att' = [att EXCEPT ![a] = Ends(a, "refused")] \/ att' = [att EXCEPT ![a] = new]
            BY <1>3, <1>7 DEF RemoteCheck
        <2> HIDE DEF new
        <2> QED
            BY <1>1, <1>2, <2>1, <2>2, <2>3
    <1>8. CASE Rename(a)
        <2>1. CASE Changed(a, "ok", [world EXCEPT !.file = att[a].snap])
            <3>1. Keeps(a) /\ Changes(a) /\ world' = [world EXCEPT !.file = att[a].snap]
                     /\ att'[a].confirmationId = att[a].confirmationId
                BY <1>0, <2>1, ChangedMoves
            <3> QED
                BY <1>0, <3>1 DEF Neutral, WorldShape
        <2>2. CASE Unchanged(a, "failed")
            <3>1. Keeps(a) /\ Quiet(a) /\ att'[a].confirmationId = att[a].confirmationId
                BY <1>0, <2>2, UnchangedMoves
            <3> QED
                BY <1>0, <3>1 DEF Neutral, WorldShape, Quiet
        <2> QED
            BY <1>8, <2>1, <2>2 DEF Rename
    <1> QED
        BY <1>4, <1>5, <1>6, <1>7, <1>8

\* So do the methods on tasks.
LEMMA TaskMoves ==
    ASSUME AttShape, WorldShape, NEW a \in Attempts, CancelBackgroundTask(a) \/ WriteStdin(a)
    PROVE  Keeps(a) /\ (Quiet(a) \/ Changes(a)) /\ Neutral(a)
    <1>0. /\ setup' = setup /\ client' = client /\ confirmations' = confirmations
          /\ att[a].pc \in Early \ {"idle"}
        BY DEF CancelBackgroundTask, WriteStdin, Arrived, Early
    <1>1. ASSUME NEW result, Unchanged(a, result)
          PROVE  Keeps(a) /\ Quiet(a) /\ Neutral(a)
        BY <1>0, <1>1, UnchangedMoves DEF Neutral, WorldShape, Quiet
    <1>2. CASE CancelBackgroundTask(a)
        <2> DEFINE mine == world.task.workspace = setup.intents[a[1]].workspace
                   w == [world EXCEPT !.task.state = "cancelled"]
        <2>1. PICK result : /\ result = IF mine THEN "ok" ELSE "null"
                            /\ IF (mine \/ setup.backend = "ssh") /\ world.task.state = "running"
                               THEN Changed(a, result, w) ELSE Unchanged(a, result)
            BY <1>2 DEF CancelBackgroundTask
        <2>2. CASE ~((mine \/ setup.backend = "ssh") /\ world.task.state = "running")
            BY <1>1, <2>1, <2>2
        <2>3. CASE (mine \/ setup.backend = "ssh") /\ world.task.state = "running"
            <3>1. Changed(a, result, w) /\ MethodOf(a).effect = "cancel"
                BY <1>2, <2>1, <2>3 DEF CancelBackgroundTask, Arrived
            <3>2. DOMAIN w = DOMAIN world /\ w.runs = world.runs
                BY DEF WorldShape
            <3>3. result = "ok" \/ (setup.backend = "ssh" /\ MethodOf(a).effect = "cancel" /\ result = "null")
                BY <2>1, <2>3, <3>1
            <3> HIDE DEF w, mine
            <3>4. Keeps(a) /\ Changes(a) /\ world' = w /\ att'[a].confirmationId = att[a].confirmationId
                BY <1>0, <3>1, <3>3, ChangedMoves
            <3> QED
                BY <1>0, <3>2, <3>4 DEF Neutral, WorldShape
        <2> QED
            BY <2>2, <2>3
    <1>3. CASE WriteStdin(a)
        <2> DEFINE w == [world EXCEPT !.stdin = @ + 1]
        <2>1. CASE Changed(a, "ok", w)
            <3>1. DOMAIN w = DOMAIN world /\ w.runs = world.runs
                BY DEF WorldShape
            <3> HIDE DEF w
            <3>2. Keeps(a) /\ Changes(a) /\ world' = w /\ att'[a].confirmationId = att[a].confirmationId
                BY <1>0, <2>1, ChangedMoves
            <3> QED
                BY <1>0, <3>1, <3>2 DEF Neutral, WorldShape
        <2>2. CASE Unchanged(a, "null") \/ Unchanged(a, "refused")
            BY <1>1, <2>2
        <2> QED
            BY <1>3, <2>1, <2>2 DEF WriteStdin
    <1> QED
        BY <1>2, <1>3

\* So do the steps of runCommand before and after its process.
LEMMA CommandMoves ==
    ASSUME AttShape, WorldShape, NEW a \in Attempts,
           Deny(a) \/ PrepareCommand(a) \/ RefuseConfirmation(a) \/ CommandEnds(a) \/ Audit(a)
    PROVE  Keeps(a) /\ Quiet(a) /\ Neutral(a)
    <1>0. setup' = setup /\ client' = client /\ confirmations' = confirmations
        BY DEF Deny, PrepareCommand, RefuseConfirmation, CommandEnds, Audit
    <1>1. ASSUME NEW result, Unchanged(a, result), att[a].pc \in {"agent", "decide"}
          PROVE  Keeps(a) /\ Quiet(a) /\ Neutral(a)
        BY <1>0, <1>1, UnchangedMoves DEF Neutral, WorldShape, Quiet, Early
    <1>2. DOMAIN att[a] = Fields /\ DOMAIN att = Attempts
        BY DEF AttShape
    <1>3. CASE Deny(a) \/ RefuseConfirmation(a)
        BY <1>1, <1>3 DEF Deny, RefuseConfirmation
    <1>4. CASE PrepareCommand(a)
        <2>1. att[a].pc = "agent"
            BY <1>4 DEF PrepareCommand, Arrived
        <2>2. CASE att' = [att EXCEPT ![a].pc = "decide"] /\ UNCHANGED <<world, last, did>>
            <3>1. /\ AttShape' /\ Others(a) /\ att'[a].tool = att[a].tool /\ att'[a].open = att[a].open /\ att'[a].sha = att[a].sha /\ att'[a].pc = "decide"
                  /\ att'[a].result = att[a].result /\ att'[a].confirmationId = att[a].confirmationId
                BY <1>2, <2>2 DEF AttShape, Others, Fields
            <3> QED
                BY <1>0, <2>1, <2>2, <3>1 DEF Keeps, Quiet, Neutral, WorldShape, Early
        <2>3. CASE Unchanged(a, "refused")
            BY <1>1, <2>1, <2>3
        <2> QED
            BY <1>4, <2>2, <2>3 DEF PrepareCommand
    <1>5. CASE CommandEnds(a)
        <2> DEFINE result == IF att[a].aborted /\ ~InBackground(a) THEN "failed" ELSE "ok"
        <2>1. att' = [att EXCEPT ![a] = Ends(a, result)] /\ att[a].pc = "running" /\ did' = did /\ world' = world
            BY <1>5 DEF CommandEnds
        <2>2. result \in {"ok", "failed"}
            OBVIOUS
        <2> HIDE DEF result
        <2>3. AttShape' /\ Others(a) /\ att'[a] = Ends(a, result)
            BY <2>1, EndsIs, Replaced
        <2>4. /\ Ends(a, result).pc \in {"audit", "answer"} /\ Ends(a, result).result = result
              /\ Ends(a, result).tool = att[a].tool /\ Ends(a, result).open = att[a].open /\ Ends(a, result).sha = att[a].sha /\ Ends(a, result).confirmationId = att[a].confirmationId
            BY EndsIs
        <2> QED
            BY <1>0, <2>1, <2>2, <2>3, <2>4 DEF Keeps, Quiet, Neutral, WorldShape
    <1>6. CASE Audit(a)
        <2>1. att[a].pc = "audit" /\ did' = did /\ world' = world
            BY <1>6 DEF Audit
        <2>2. \/ att' = [att EXCEPT ![a].pc = "answer"]
              \/ att' = [att EXCEPT ![a].pc = "answer", ![a].result = "audit_failed"]
            BY <1>6 DEF Audit
        <2>3. /\ AttShape' /\ Others(a) /\ att'[a].tool = att[a].tool /\ att'[a].open = att[a].open /\ att'[a].sha = att[a].sha /\ att'[a].pc = "answer"
              /\ att'[a].result \in {att[a].result, "audit_failed"} /\ att'[a].confirmationId = att[a].confirmationId
            BY <1>2, <2>2 DEF AttShape, Others, Fields
        <2> QED
            BY <1>0, <2>1, <2>3 DEF Keeps, Quiet, Neutral, WorldShape
    <1> QED
        BY <1>3, <1>4, <1>5, <1>6

\* The command of an attempt, and a run of it.
CommandOf(a) == setup.intents[a[1]].command

\* A command starts freely when it needs no confirmation, or consumes the one presented.
LEMMA StartMoves ==
    ASSUME AttShape, WorldShape, setup \in Scenarios, NEW a \in Attempts, RunFreely(a) \/ RunConfirmed(a),
           world.runs \in [Commands -> Nat]
    PROVE  /\ Keeps(a) /\ (Quiet(a) \/ Changes(a)) /\ att'[a].confirmationId = att[a].confirmationId
           /\ WorldShape' /\ world'.runs \in [Commands -> Nat] /\ CommandOf(a) \in Commands
           /\ world'.runs[CommandOf(a)] <= world.runs[CommandOf(a)] + 1
           /\ \A c \in Commands : c # CommandOf(a) => world'.runs[c] = world.runs[c]
    <1>0. /\ setup' = setup /\ client' = client /\ att[a].pc = "decide" /\ Start(a)
          /\ DOMAIN att[a] = Fields /\ DOMAIN att = Attempts
        BY DEF RunFreely, RunConfirmed, AttShape
    <1>1. a[1] \in Intents
        BY DEF Attempts
    <1>2. CommandOf(a) \in Commands
        BY <1>1 DEF Commands, CommandOf
    <1>3. PICK c : c = CommandOf(a)
        OBVIOUS
    <1>4. att' = [att EXCEPT ![a].pc = "running"]
        BY <1>0 DEF Start
    <1>5. /\ AttShape' /\ Others(a) /\ att'[a].tool = att[a].tool /\ att'[a].open = att[a].open /\ att'[a].sha = att[a].sha /\ att'[a].pc = "running"
          /\ att'[a].result = att[a].result /\ att'[a].confirmationId = att[a].confirmationId
        BY <1>0, <1>4 DEF AttShape, Others, Fields
    <1>6. CASE UNCHANGED <<world, last, did>>
        BY <1>0, <1>2, <1>5, <1>6 DEF Keeps, Quiet, WorldShape, Early
    <1>7. CASE world' = [world EXCEPT !.runs[c] = @ + 1] /\ did' = did \cup {a}
        <2>1. WorldShape' /\ world'.runs = [world.runs EXCEPT ![c] = @ + 1]
            BY <1>7 DEF WorldShape
        <2>2. /\ world'.runs \in [Commands -> Nat] /\ world'.runs[c] = world.runs[c] + 1
              /\ \A d \in Commands : d # c => world'.runs[d] = world.runs[d]
            BY <1>2, <1>3, <2>1
        <2> QED
            BY <1>0, <1>2, <1>3, <1>5, <1>7, <2>1, <2>2 DEF Keeps, Changes, Early
    <1> QED
        BY <1>0, <1>3, <1>6, <1>7 DEF Start, CommandOf

\* A confirmation is asked for.
LEMMA AskMoves ==
    ASSUME AttShape, NEW a \in Attempts, AskForConfirmation(a)
    PROVE  /\ Keeps(a) /\ Quiet(a) /\ att'[a].confirmationId = Len(confirmations) + 1
    <1> DEFINE n == Len(confirmations) + 1
               new == [Ends(a, "confirmation_required") EXCEPT !.confirmationId = n]
    <1>1. DOMAIN new = Fields /\ new.tool = att[a].tool /\ new.open = att[a].open /\ new.sha = att[a].sha /\ new.confirmationId = n /\ new.pc \in {"audit", "answer"}
        BY EndsIs DEF Fields
    <1>2. /\ att' = [att EXCEPT ![a] = new] /\ did' = did /\ world' = world /\ setup' = setup /\ client' = client
          /\ att[a].pc = "decide"
        BY DEF AskForConfirmation
    <1> HIDE DEF new
    <1>3. AttShape' /\ Others(a) /\ att'[a] = new
        BY <1>1, <1>2, Replaced
    <1> QED
        BY <1>1, <1>2, <1>3 DEF Keeps, Quiet, Early

\* An answer arrives, or does not.
LEMMA DeliverMoves ==
    ASSUME AttShape, ClientShape, NEW a \in Attempts, Deliver(a) \/ Timeout(a)
    PROVE  /\ AttShape' /\ ClientShape' /\ Others(a)
           /\ att'[a].tool = att[a].tool /\ att'[a].result = att[a].result
           /\ att'[a].confirmationId = att[a].confirmationId
           /\ att'[a].pc = att[a].pc \/ (att[a].pc = "answer" /\ att'[a].pc = "done")
           /\ \A i \in Intents : /\ client'[i].made = client[i].made
                                 /\ client'[i].id = client[i].id \/ client'[i].id = att[a].confirmationId
           /\ setup' = setup /\ world' = world /\ confirmations' = confirmations /\ did' = did
    <1>0. /\ setup' = setup /\ world' = world /\ confirmations' = confirmations /\ did' = did
          /\ DOMAIN att[a] = Fields /\ DOMAIN att = Attempts /\ a[1] \in Intents
        BY DEF Deliver, Timeout, AttShape, Attempts
    <1>1. CASE Deliver(a)
        <2>1. att' = [att EXCEPT ![a].pc = "done"] /\ att[a].pc = "answer"
            BY <1>1 DEF Deliver
        <2>2. /\ AttShape' /\ Others(a) /\ att'[a].tool = att[a].tool /\ att'[a].result = att[a].result
              /\ att'[a].confirmationId = att[a].confirmationId /\ att'[a].pc = "done"
            BY <1>0, <2>1 DEF AttShape, Others, Fields
        <2>3. PICK i \in Intents : i = a[1]
            BY <1>0
        <2>4. \/ client' = client
              \/ \E t : client' = [client EXCEPT ![i].stage = @ + 1, ![i].sees = "nothing", ![i].sha = t]
              \/ client' = [client EXCEPT ![i].sees = "unknown"]
              \/ client' = [client EXCEPT ![i].sees = att[a].result, ![i].id = att[a].confirmationId]
            <3>1. CASE ~att[a].open
                BY <1>1, <3>1 DEF Deliver
            <3>2. CASE att[a].open /\ att[a].result \in {"ok", "null"}
                <4>1. client' = [client EXCEPT ![i].stage = @ + 1, ![i].sees = "nothing",
                                               ![i].sha = IF ToolOf(a) = "read_file" THEN att[a].snap ELSE @]
                    BY <1>1, <2>3, <3>2 DEF Deliver
                <4> DEFINE t == IF ToolOf(a) = "read_file" THEN att[a].snap ELSE client[i].sha
                <4>2. client' = [client EXCEPT ![i].stage = @ + 1, ![i].sees = "nothing", ![i].sha = t]
                    BY <4>1 DEF ClientShape
                <4> QED
                    BY <4>2
            <3>3. CASE att[a].open /\ att[a].result \in {"failed", "audit_failed"}
                BY <1>1, <2>3, <3>3 DEF Deliver
            <3>4. CASE att[a].open /\ att[a].result \notin {"ok", "null", "failed", "audit_failed"}
                BY <1>1, <2>3, <3>4 DEF Deliver
            <3> QED
                BY <3>1, <3>2, <3>3, <3>4
        <2>5. /\ ClientShape'
              /\ \A j \in Intents : /\ client'[j].made = client[j].made
                                    /\ client'[j].id = client[j].id \/ client'[j].id = att[a].confirmationId
            BY <2>4 DEF ClientShape
        <2> QED
            BY <1>0, <2>1, <2>2, <2>5
    <1>2. CASE Timeout(a)
        <2>1. att' = [att EXCEPT ![a].open = FALSE, ![a].aborted = TRUE] /\ client' = [client EXCEPT ![a[1]].sees = "unknown"]
            BY <1>2 DEF Timeout
        <2>2. /\ AttShape' /\ Others(a) /\ att'[a].tool = att[a].tool /\ att'[a].result = att[a].result
              /\ att'[a].confirmationId = att[a].confirmationId /\ att'[a].pc = att[a].pc
            BY <1>0, <2>1 DEF AttShape, Others, Fields
        <2>3. ClientShape' /\ \A j \in Intents : client'[j].made = client[j].made /\ client'[j].id = client[j].id
            BY <1>0, <2>1 DEF ClientShape
        <2> QED
            BY <1>0, <2>2, <2>3
    <1> QED
        BY <1>1, <1>2

\* A new call.
LEMMA CallMoves ==
    ASSUME AttShape, ClientShape, NEW i \in Intents, NEW id, CallTool(i, id), client[i].made \in Nat
    PROVE  /\ <<i, client[i].made + 1>> \in Attempts /\ AttShape' /\ ClientShape' /\ Others(<<i, client[i].made + 1>>)
           /\ att'[<<i, client[i].made + 1>>].confirmationId = id
           /\ att'[<<i, client[i].made + 1>>].pc \in {"agent", "answer"}
           /\ att'[<<i, client[i].made + 1>>].pc = "agent" => att'[<<i, client[i].made + 1>>].result = None
           /\ client'[i].made = client[i].made + 1 /\ \A j \in Intents : j # i => client'[j].made = client[j].made
           /\ \A j \in Intents : client'[j].id = client[j].id
           /\ setup' = setup /\ world' = world /\ confirmations' = confirmations /\ did' = did
    <1> DEFINE a == <<i, client[i].made + 1>>
               p == IF Accepted(i, id) THEN "agent" ELSE "answer"
               res == IF Accepted(i, id) THEN None ELSE "refused"
               new == [Idle EXCEPT !.pc = p, !.result = res, !.tool = CurrentTool(i), !.open = TRUE,
                                   !.confirmationId = id, !.sha = client[i].sha]
    <1>1. a \in Attempts
        <2>1. client[i].made < MaxAttempts
            BY DEF CallTool
        <2>2. client[i].made + 1 \in 1..MaxAttempts
            BY <2>1, BoundsAssumption
        <2> QED
            BY <2>2 DEF Attempts
    <1>2. p \in {"agent", "answer"} /\ (p = "agent" => res = None)
        OBVIOUS
    <1>3. /\ att' = [att EXCEPT ![a] = new] /\ setup' = setup /\ world' = world
          /\ confirmations' = confirmations /\ did' = did
          /\ client' = [client EXCEPT ![i].made = @ + 1, ![i].sees = "waiting"]
        BY DEF CallTool
    <1> HIDE DEF p, res
    <1>4. DOMAIN new = Fields /\ new.pc = p /\ new.result = res /\ new.confirmationId = id
        BY DEF Idle, Fields
    <1> HIDE DEF new
    <1>5. /\ ClientShape' /\ client'[i].made = client[i].made + 1
          /\ \A j \in Intents : client'[j].id = client[j].id /\ (j # i => client'[j].made = client[j].made)
        BY <1>3 DEF ClientShape
    <1> HIDE DEF a
    <1>6. AttShape' /\ Others(a) /\ att'[a] = new
        BY <1>1, <1>3, <1>4, Replaced
    <1> QED
        BY <1>1, <1>2, <1>3, <1>4, <1>5, <1>6 DEF a

\* The executor restarts.
LEMMA RestartMoves ==
    ASSUME AttShape, ClientShape, Restart
    PROVE  /\ AttShape' /\ ClientShape'
           /\ \A a \in Attempts : /\ att'[a].tool = att[a].tool /\ att'[a].result = att[a].result
                                  /\ att'[a].confirmationId = att[a].confirmationId
                                  /\ att'[a].pc = att[a].pc \/ att'[a].pc = "done"
                                  /\ att'[a].pc = "idle" <=> att[a].pc = "idle"
           /\ \A i \in Intents : client'[i].made = client[i].made /\ client'[i].id = client[i].id
           /\ setup' = setup /\ world' = world /\ did' = did
    <1>2. DOMAIN att' = Attempts /\ \A a \in Attempts : att'[a] = Killed(a)
        BY DEF Restart
    <1>1. ASSUME NEW a \in Attempts
          PROVE  \/ Killed(a) = att[a]
                 \/ att[a].pc # "idle" /\ Killed(a) = [att[a] EXCEPT !.pc = "done", !.open = FALSE]
        BY DEF Killed, InHand
    <1>3. ASSUME NEW i \in Intents
          PROVE  Interrupted(i) = client[i] \/ Interrupted(i) = [client[i] EXCEPT !.sees = "unknown"]
        BY Zenon DEF Interrupted
    <1>4. DOMAIN client' = Intents /\ \A i \in Intents : client'[i] = Interrupted(i)
        BY DEF Restart
    <1>5. setup' = setup /\ world' = world /\ did' = did
        BY DEF Restart
    <1>6. ASSUME NEW a \in Attempts
          PROVE  /\ DOMAIN att'[a] = Fields /\ att'[a].tool = att[a].tool /\ att'[a].result = att[a].result
                 /\ att'[a].confirmationId = att[a].confirmationId
                 /\ att'[a].pc = att[a].pc \/ att'[a].pc = "done"
                 /\ att'[a].pc = "idle" <=> att[a].pc = "idle"
        <2>1. DOMAIN att[a] = Fields /\ att'[a] = Killed(a)
            BY <1>2 DEF AttShape
        <2>2. CASE Killed(a) = att[a]
            BY <2>1, <2>2
        <2>3. CASE att[a].pc # "idle" /\ Killed(a) = [att[a] EXCEPT !.pc = "done", !.open = FALSE]
            <3>1. /\ DOMAIN Killed(a) = Fields /\ Killed(a).tool = att[a].tool /\ Killed(a).pc = "done"
                  /\ Killed(a).result = att[a].result /\ Killed(a).confirmationId = att[a].confirmationId
                BY <2>1, <2>3 DEF Fields
            <3> QED
                BY <2>1, <2>3, <3>1
        <2> QED
            BY <1>1, <2>2, <2>3, Zenon
    <1>7. ASSUME NEW i \in Intents
          PROVE  /\ DOMAIN client'[i] = {"stage", "made", "sees", "sha", "id"}
                 /\ client'[i].made = client[i].made /\ client'[i].id = client[i].id
        BY <1>3, <1>4 DEF ClientShape
    <1> QED
        BY <1>2, <1>4, <1>5, <1>6, <1>7 DEF AttShape, ClientShape

-----------------------------------------------------------------------------
(***************************************************************************)
(* The inductive invariant                                                 *)
(***************************************************************************)
ConfirmationRecords ==
    [state : {"pending", "used", "expired"},
     binding : [command : Commands, background : BOOLEAN, interactive : BOOLEAN]]

ShapeInv ==
    /\ setup \in Scenarios /\ AttShape /\ ClientShape /\ WorldShape
    /\ \A i \in Intents : client[i].made \in Nat
    /\ world.runs \in [Commands -> Nat]
    /\ confirmations \in Seq(ConfirmationRecords)
    /\ \A a \in Attempts : att[a].confirmationId \in GivenOut \cup {None}
    /\ \A i \in Intents : client[i].id \in GivenOut \cup {None}

\* An attempt that was not made is idle; one that has changed the world is past that and has
\* no result until it has ended.
CleanInv ==
    /\ did \subseteq Attempts
    /\ \A a \in Attempts :
          /\ a[2] > client[a[1]].made => att[a].pc = "idle"
          /\ att[a].pc \in Early => a \notin did
          /\ att[a].pc \in {"agent", "check", "write", "decide", "running"} => att[a].result = None
    /\ RefusalIsClean

CallsInv == ShapeInv /\ CleanInv /\ ConfirmedOnce

\* Every step of the agent moves one attempt, which either changes nothing or says ok.
LEMMA AgentMoves ==
    ASSUME ShapeInv, NEW a \in Attempts, AgentStep(a)
    PROVE  Keeps(a) /\ (Quiet(a) \/ Changes(a))
    BY FileMoves, TaskMoves, CommandMoves, StartMoves, AskMoves DEF AgentStep, ShapeInv

\* The method of an attempt depends on its tool only.
LEMMA MethodSame ==
    ASSUME NEW a, setup' = setup, att'[a].tool = att[a].tool
    PROVE  MethodOf(a)' = MethodOf(a)
    BY DEF MethodOf, ToolOf

\* The agent keeps refusals clean.
LEMMA AgentClean ==
    ASSUME ShapeInv, CleanInv, NEW a \in Attempts, AgentStep(a)
    PROVE  CleanInv'
    <1>1. Keeps(a) /\ (Quiet(a) \/ Changes(a))
        BY AgentMoves
    <1>2. None \notin {"refused", "null", "confirmation_required"}
        BY NoneAssumption DEF Results
    <1>3. att[a].pc # "idle" /\ att'[a].pc \notin {"idle", "agent"} /\ did' \subseteq did \cup {a} /\ did \subseteq did'
        BY <1>1 DEF Quiet, Changes, Early
    <1>4. did' \subseteq Attempts
        BY <1>3 DEF CleanInv
    <1>5. ASSUME NEW b \in Attempts
          PROVE  /\ b[2] > client'[b[1]].made => att'[b].pc = "idle"
                 /\ att'[b].pc \in Early => b \notin did'
                 /\ att'[b].pc \in {"agent", "check", "write", "decide", "running"} => att'[b].result = None
        <2>1. CASE b = a
            BY <1>1, <1>3, <2>1 DEF CleanInv, Keeps, Quiet, Changes, Early
        <2>2. CASE b # a
            BY <1>1, <1>3, <2>2 DEF CleanInv, Keeps, Others
        <2> QED
            BY <2>1, <2>2
    <1>6. ASSUME NEW b \in did', att'[b].result \in {"refused", "null", "confirmation_required"}
          PROVE  setup'.backend = "ssh" /\ MethodOf(b)'.effect = "cancel" /\ att'[b].result = "null"
        <2>0. b \in Attempts
            BY <1>4
        <2>1. CASE b # a
            <3>1. att'[b] = att[b] /\ setup' = setup /\ b \in did
                BY <1>1, <1>3, <2>0, <2>1 DEF Keeps, Others
            <3>2. MethodOf(b)' = MethodOf(b)
                BY <3>1, MethodSame
            <3> QED
                BY <1>6, <3>1, <3>2 DEF CleanInv, RefusalIsClean
        <2>2. CASE b = a /\ Changes(a)
            <3>1. setup' = setup /\ MethodOf(a)' = MethodOf(a)
                BY <1>1, MethodSame DEF Keeps
            <3>2. att[a].pc \in {"agent", "check", "write", "decide"}
                BY <2>2 DEF Changes, Early
            <3>3. att[a].result = None
                BY <3>2 DEF CleanInv
            <3> QED
                BY <1>2, <1>6, <2>2, <3>1, <3>3 DEF Changes
        <2>3. CASE b = a /\ Quiet(a)
            <3>1. a \in did /\ att[a].pc \notin Early
                BY <1>6, <2>3 DEF Quiet, CleanInv
            <3>2. att[a].pc = "audit" /\ att'[a].result = att[a].result
                BY <1>6, <2>3, <3>1 DEF Quiet
            <3>3. setup' = setup /\ MethodOf(a)' = MethodOf(a)
                BY <1>1, MethodSame DEF Keeps
            <3> QED
                BY <1>6, <2>3, <3>1, <3>2, <3>3 DEF CleanInv, RefusalIsClean
        <2> QED
            BY <1>1, <2>1, <2>2, <2>3
    <1> QED
        BY <1>4, <1>5, <1>6 DEF CleanInv, RefusalIsClean

\* A step after which the attempts have the results they had.
LEMMA CleanKept ==
    ASSUME ShapeInv, CleanInv, did' = did, setup' = setup,
           \A a \in Attempts : /\ att'[a].tool = att[a].tool /\ att'[a].result = att[a].result
                               /\ att'[a].pc = att[a].pc \/ (att[a].pc # "idle" /\ att'[a].pc = "done"),
           \A i \in Intents : client'[i].made = client[i].made
    PROVE  CleanInv'
    <1>1. ASSUME NEW b \in Attempts
          PROVE  /\ b[2] > client'[b[1]].made => att'[b].pc = "idle"
                 /\ att'[b].pc \in Early => b \notin did'
                 /\ att'[b].pc \in {"agent", "check", "write", "decide", "running"} => att'[b].result = None
        <2>1. b[1] \in Intents
            BY DEF Attempts
        <2> QED
            BY <2>1 DEF CleanInv, Early
    <1>2. ASSUME NEW b \in did', att'[b].result \in {"refused", "null", "confirmation_required"}
          PROVE  setup'.backend = "ssh" /\ MethodOf(b)'.effect = "cancel" /\ att'[b].result = "null"
        <2>1. b \in did /\ b \in Attempts
            BY DEF CleanInv
        <2>2. MethodOf(b)' = MethodOf(b)
            BY <2>1, MethodSame
        <2> QED
            BY <1>2, <2>1, <2>2 DEF CleanInv, RefusalIsClean
    <1> QED
        BY <1>1, <1>2 DEF CleanInv, RefusalIsClean

\* A new attempt has changed nothing.
LEMMA CallClean ==
    ASSUME ShapeInv, CleanInv, NEW i \in Intents, NEW id, CallTool(i, id)
    PROVE  CleanInv'
    <1>1. PICK n \in Nat : client[i].made = n
        BY DEF ShapeInv
    <1>2. PICK a \in Attempts : a = <<i, n + 1>>
        BY <1>1, CallMoves DEF ShapeInv
    <1>3. /\ Others(a) /\ att'[a].pc \in {"agent", "answer"}
          /\ att'[a].pc = "agent" => att'[a].result = None
          /\ client'[i].made = n + 1 /\ \A j \in Intents : j # i => client'[j].made = client[j].made
          /\ setup' = setup /\ did' = did
        BY <1>1, <1>2, CallMoves DEF ShapeInv
    <1>4. a \notin did
        BY <1>1, <1>2 DEF CleanInv, Early
    <1>5. ASSUME NEW b \in Attempts
          PROVE  /\ b[2] > client'[b[1]].made => att'[b].pc = "idle"
                 /\ att'[b].pc \in Early => b \notin did'
                 /\ att'[b].pc \in {"agent", "check", "write", "decide", "running"} => att'[b].result = None
        <2>1. CASE b = a
            BY <1>2, <1>3, <1>4, <2>1
        <2>2. CASE b # a
            <3>1. att'[b] = att[b] /\ b[1] \in Intents /\ b[2] \in Nat
                BY <1>3, <2>2 DEF Others, Attempts
            <3>2. b[2] > client'[b[1]].made => b[2] > client[b[1]].made
                BY <1>1, <1>3, <3>1
            <3> QED
                BY <1>3, <3>1, <3>2 DEF CleanInv
        <2> QED
            BY <2>1, <2>2
    <1>6. ASSUME NEW b \in did', att'[b].result \in {"refused", "null", "confirmation_required"}
          PROVE  setup'.backend = "ssh" /\ MethodOf(b)'.effect = "cancel" /\ att'[b].result = "null"
        <2>1. b \in did /\ b \in Attempts /\ b # a
            BY <1>3, <1>4 DEF CleanInv
        <2>2. att'[b] = att[b] /\ MethodOf(b)' = MethodOf(b)
            BY <1>3, <2>1, MethodSame DEF Others
        <2> QED
            BY <1>3, <1>6, <2>1, <2>2 DEF CleanInv, RefusalIsClean
    <1> QED
        BY <1>3, <1>5, <1>6 DEF CleanInv, RefusalIsClean

(***************************************************************************)
(* Confirmations                                                           *)
(***************************************************************************)
\* The confirmations of a command that were used up.
Used(c) == {id \in GivenOut : confirmations[id].state = "used" /\ confirmations[id].binding.command = c}

\* The confirmations used for a command are finitely many.
LEMMA FiniteUse ==
    ASSUME NEW s \in Seq(ConfirmationRecords), NEW c, NEW U,
           U = {id \in 1..Len(s) : s[id].state = "used" /\ s[id].binding.command = c}
    PROVE  IsFiniteSet(U) /\ Cardinality(U) \in Nat
    <1>1. IsFiniteSet(1..Len(s))
        BY FS_Interval
    <1> QED
        BY <1>1, FS_Subset, FS_CardinalityType

\* The same, before and after a step.
LEMMA UsedFinite ==
    ASSUME confirmations \in Seq(ConfirmationRecords), confirmations' \in Seq(ConfirmationRecords), NEW c
    PROVE  /\ IsFiniteSet(Used(c)) /\ Cardinality(Used(c)) \in Nat
           /\ IsFiniteSet(Used(c)') /\ Cardinality(Used(c)') \in Nat
    <1>1. PICK U : U = Used(c)
        OBVIOUS
    <1>2. PICK V : V = Used(c)'
        OBVIOUS
    <1>3. IsFiniteSet(U) /\ Cardinality(U) \in Nat
        BY <1>1, FiniteUse DEF Used, GivenOut
    <1>4. IsFiniteSet(V) /\ Cardinality(V) \in Nat
        BY <1>2, FiniteUse DEF Used, GivenOut
    <1> QED
        BY <1>1, <1>2, <1>3, <1>4

\* Whether a command always needs a confirmation does not change.
LEMMA AlwaysSame ==
    ASSUME setup' = setup, NEW c
    PROVE  AlwaysConfirmed(c)' <=> AlwaysConfirmed(c)
    BY DEF AlwaysConfirmed, MustConfirm

\* A command that did not run, and whose confirmations stay used.
LEMMA ConfirmedKept ==
    ASSUME ConfirmedOnce, setup' = setup, confirmations \in Seq(ConfirmationRecords),
           confirmations' \in Seq(ConfirmationRecords), world.runs \in [Commands -> Nat],
           \A c \in Commands : \/ world'.runs[c] = world.runs[c] /\ Used(c) \subseteq Used(c)'
                               \/ ~AlwaysConfirmed(c)
    PROVE  ConfirmedOnce'
    <1> SUFFICES ASSUME NEW c \in Commands, AlwaysConfirmed(c)'
                 PROVE  world'.runs[c] <= Cardinality(Used(c)')
        BY DEF ConfirmedOnce, Used
    <1>1. AlwaysConfirmed(c)
        BY AlwaysSame
    <1>2. world'.runs[c] = world.runs[c] /\ Used(c) \subseteq Used(c)'
        BY <1>1
    <1>3. world.runs[c] <= Cardinality(Used(c)) /\ world.runs[c] \in Nat
        BY <1>1 DEF ConfirmedOnce, Used
    <1>4. IsFiniteSet(Used(c)') /\ Cardinality(Used(c)') \in Nat
        BY UsedFinite
    <1>5. Cardinality(Used(c)) <= Cardinality(Used(c)') /\ Cardinality(Used(c)) \in Nat
        BY <1>2, <1>4, UsedFinite, FS_Subset
    <1> QED
        BY <1>2, <1>3, <1>4, <1>5

\* Nothing that is known of a confirmation is forgotten.
LEMMA ShapeKept ==
    ASSUME ShapeInv, ConfirmedOnce, setup' = setup, AttShape', ClientShape', WorldShape',
           confirmations' = confirmations, world'.runs = world.runs,
           \A i \in Intents : client'[i].made \in Nat /\ client'[i].id \in GivenOut \cup {None},
           \A a \in Attempts : att'[a].confirmationId \in GivenOut \cup {None}
    PROVE  ShapeInv' /\ ConfirmedOnce'
    <1>1. ShapeInv'
        BY DEF ShapeInv, GivenOut
    <1>2. \A c \in Commands : world'.runs[c] = world.runs[c] /\ Used(c)' = Used(c)
        BY DEF Used, GivenOut
    <1> QED
        BY <1>1, <1>2, ConfirmedKept DEF ShapeInv

\* Steps that start no command and use no confirmation keep the count.
LEMMA NeutralKept ==
    ASSUME ShapeInv, ConfirmedOnce, NEW a \in Attempts, Keeps(a), Neutral(a)
    PROVE  ShapeInv' /\ ConfirmedOnce'
    <1>1. \A b \in Attempts : att'[b].confirmationId \in GivenOut \cup {None}
        BY DEF Keeps, Neutral, Others, ShapeInv
    <1>2. setup' = setup /\ AttShape' /\ ClientShape' /\ client' = client
        BY DEF Keeps, ShapeInv, ClientShape
    <1> QED
        BY <1>1, <1>2, ShapeKept DEF Neutral, ShapeInv

\* A confirmation is bound to the command and to the way it is run.
LEMMA BindingIs ==
    ASSUME setup \in Scenarios, NEW a \in Attempts
    PROVE  /\ Binding(a) \in [command : Commands, background : BOOLEAN, interactive : BOOLEAN]
           /\ Binding(a).command = CommandOf(a)
    <1>1. a[1] \in Intents
        BY DEF Attempts
    <1>2. CommandOf(a) \in Commands
        BY <1>1 DEF Commands, CommandOf
    <1>3. InBackground(a) \in BOOLEAN /\ Interactive(a) \in BOOLEAN
        BY DEF InBackground, Interactive
    <1> QED
        BY <1>2, <1>3 DEF Binding, CommandOf

\* A confirmation is given out: it is not used yet.
LEMMA AskConfirms ==
    ASSUME ShapeInv, ConfirmedOnce, NEW a \in Attempts, AskForConfirmation(a)
    PROVE  ShapeInv' /\ ConfirmedOnce'
    <1> DEFINE n == Len(confirmations)
               new == [state |-> "pending", binding |-> Binding(a)]
    <1>1. Keeps(a) /\ att'[a].confirmationId = n + 1
        BY AskMoves DEF ShapeInv
    <1>2. confirmations' = Append(confirmations, new) /\ world' = world
        BY DEF AskForConfirmation
    <1>3. new \in ConfirmationRecords /\ new.state = "pending"
        BY BindingIs DEF ConfirmationRecords, ShapeInv
    <1> HIDE DEF new
    <1>4. /\ confirmations' \in Seq(ConfirmationRecords) /\ Len(confirmations') = n + 1 /\ n \in Nat
          /\ \A id \in 1..n : confirmations'[id] = confirmations[id]
          /\ confirmations'[n + 1] = new
        BY <1>2, <1>3 DEF ShapeInv
    <1> HIDE DEF n
    <1>5. GivenOut = 1..n /\ GivenOut' = 1..(n + 1)
        BY <1>4 DEF GivenOut, n
    <1>6. ShapeInv'
        <2>1. \A b \in Attempts : att'[b].confirmationId \in GivenOut' \cup {None}
            BY <1>1, <1>4, <1>5 DEF Keeps, Others, ShapeInv
        <2>2. \A i \in Intents : client'[i].id \in GivenOut' \cup {None}
            BY <1>1, <1>4, <1>5 DEF Keeps, ShapeInv
        <2> QED
            BY <1>1, <1>2, <1>4, <2>1, <2>2 DEF ShapeInv, Keeps, WorldShape, ClientShape
    <1>7. \A c \in Commands : Used(c) \subseteq Used(c)'
        BY <1>4, <1>5 DEF Used
    <1> QED
        BY <1>1, <1>2, <1>4, <1>6, <1>7, ConfirmedKept DEF ShapeInv, Keeps

\* A command that needs no confirmation of it.
LEMMA FreeConfirms ==
    ASSUME ShapeInv, ConfirmedOnce, NEW a \in Attempts, RunFreely(a)
    PROVE  ShapeInv' /\ ConfirmedOnce'
    <1>1. /\ Keeps(a) /\ att'[a].confirmationId = att[a].confirmationId
          /\ WorldShape' /\ world'.runs \in [Commands -> Nat]
          /\ \A c \in Commands : c # CommandOf(a) => world'.runs[c] = world.runs[c]
        BY StartMoves DEF ShapeInv
    <1>2. confirmations' = confirmations /\ ~NeedsConfirmation(a)
        BY DEF RunFreely
    <1>3. ShapeInv'
        <2>1. \A b \in Attempts : att'[b].confirmationId \in GivenOut \cup {None}
            BY <1>1 DEF Keeps, Others, ShapeInv
        <2> QED
            BY <1>1, <1>2, <2>1 DEF ShapeInv, Keeps, ClientShape, GivenOut
    <1>4. ~AlwaysConfirmed(CommandOf(a))
        <2>1. a[1] \in Intents /\ ~MustConfirm(a[1])
            BY <1>2 DEF Attempts, NeedsConfirmation
        <2> QED
            BY <2>1 DEF AlwaysConfirmed, CommandOf
    <1>5. \A c \in Commands : Used(c) = Used(c)'
        BY <1>2 DEF Used, GivenOut
    <1> QED
        BY <1>1, <1>2, <1>3, <1>4, <1>5, ConfirmedKept DEF ShapeInv, Keeps

\* A confirmed command: its confirmation was not used before, and is now.
LEMMA RunConfirms ==
    ASSUME ShapeInv, ConfirmedOnce, NEW a \in Attempts, RunConfirmed(a)
    PROVE  ShapeInv' /\ ConfirmedOnce'
    <1>0. PICK n \in Nat : n = Len(confirmations) /\ GivenOut = 1..n
        BY DEF ShapeInv, GivenOut
    <1>1. /\ Keeps(a) /\ att'[a].confirmationId = att[a].confirmationId
          /\ WorldShape' /\ world'.runs \in [Commands -> Nat] /\ CommandOf(a) \in Commands
          /\ world'.runs[CommandOf(a)] <= world.runs[CommandOf(a)] + 1
          /\ \A c \in Commands : c # CommandOf(a) => world'.runs[c] = world.runs[c]
        BY StartMoves DEF ShapeInv
    <1>2. PICK id \in GivenOut : id = att[a].confirmationId
        BY DEF RunConfirmed, ShapeInv
    <1>3. /\ confirmations' = [confirmations EXCEPT ![id].state = "used"]
          /\ confirmations[id].state = "pending" /\ confirmations[id].binding = Binding(a)
        BY <1>2 DEF RunConfirmed, Consumed, Matches
    <1>4. /\ confirmations' \in Seq(ConfirmationRecords) /\ Len(confirmations') = n
          /\ confirmations'[id].state = "used" /\ confirmations'[id].binding = confirmations[id].binding
          /\ \A j \in 1..n : j # id => confirmations'[j] = confirmations[j]
        <2> DEFINE new == [confirmations[id] EXCEPT !.state = "used"]
        <2>1. confirmations \in Seq(ConfirmationRecords) /\ confirmations[id] \in ConfirmationRecords
            BY <1>0 DEF ShapeInv
        <2>2. new \in ConfirmationRecords /\ new.state = "used" /\ new.binding = confirmations[id].binding
            BY <2>1 DEF ConfirmationRecords
        <2>3. confirmations' = [confirmations EXCEPT ![id] = new]
            BY <1>3
        <2> HIDE DEF new
        <2> QED
            BY <1>0, <2>1, <2>2, <2>3
    <1>5. GivenOut' = GivenOut
        BY <1>0, <1>4 DEF GivenOut
    <1>6. ShapeInv'
        <2>1. \A b \in Attempts : att'[b].confirmationId \in GivenOut \cup {None}
            BY <1>1 DEF Keeps, Others, ShapeInv
        <2>2. client' = client /\ setup' = setup /\ AttShape'
            BY <1>1 DEF Keeps
        <2> QED
            BY <1>1, <1>4, <1>5, <2>1, <2>2 DEF ShapeInv, ClientShape
    <1>7. id \notin Used(CommandOf(a)) /\ Used(CommandOf(a))' = Used(CommandOf(a)) \cup {id}
        <2>1. setup' = setup
            BY <1>1 DEF Keeps
        <2>2. Binding(a).command = CommandOf(a)
            BY BindingIs DEF ShapeInv
        <2>3. PICK c : c = CommandOf(a)
            OBVIOUS
        <2>4. CommandOf(a)' = c
            BY <2>1, <2>3 DEF CommandOf
        <2>5. {j \in GivenOut : confirmations'[j].state = "used" /\ confirmations'[j].binding.command = c} =
              {j \in GivenOut : confirmations[j].state = "used" /\ confirmations[j].binding.command = c} \cup {id}
            BY <1>0, <1>3, <1>4, <2>2, <2>3
        <2> QED
            BY <1>3, <1>5, <2>3, <2>4, <2>5 DEF Used
    <1>8. \A c \in Commands : c # CommandOf(a) => Used(c) \subseteq Used(c)'
        BY <1>0, <1>3, <1>4, <1>5 DEF Used
    <1>9. ConfirmedOnce'
        <2> SUFFICES ASSUME NEW c \in Commands, AlwaysConfirmed(c)'
                     PROVE  world'.runs[c] <= Cardinality(Used(c)')
            BY DEF ConfirmedOnce, Used
        <2>1. AlwaysConfirmed(c)
            BY <1>1, AlwaysSame DEF Keeps
        <2>2. world.runs[c] <= Cardinality(Used(c)) /\ world.runs[c] \in Nat /\ world'.runs[c] \in Nat
            BY <1>1, <2>1 DEF ConfirmedOnce, Used, ShapeInv
        <2>3. IsFiniteSet(Used(c)) /\ Cardinality(Used(c)) \in Nat
            BY <1>4, UsedFinite DEF ShapeInv
        <2>4. IsFiniteSet(Used(c)') /\ Cardinality(Used(c)') \in Nat
            BY <1>4, UsedFinite DEF ShapeInv
        <2>5. CASE c = CommandOf(a)
            <3>1. id \notin Used(c) /\ Used(c)' = Used(c) \cup {id}
                BY <1>1, <1>7, <2>5 DEF Keeps, CommandOf, Used
            <3>2. Cardinality(Used(c)') = Cardinality(Used(c)) + 1
                BY <2>3, <3>1, FS_AddElement
            <3> QED
                BY <1>1, <2>2, <2>3, <2>5, <3>2
        <2>6. CASE c # CommandOf(a)
            <3>1. Cardinality(Used(c)) <= Cardinality(Used(c)')
                BY <1>8, <2>4, <2>6, FS_Subset
            <3> QED
                BY <1>1, <2>2, <2>3, <2>4, <2>6, <3>1
        <2> QED
            BY <2>5, <2>6
    <1> QED
        BY <1>6, <1>9

\* Confirmations get too old, or are forgotten by a restart; used ones stay used.
LEMMA AgingConfirms ==
    ASSUME ShapeInv, ConfirmedOnce, setup' = setup, AttShape', ClientShape', world' = world,
           \A i \in Intents : client'[i].made = client[i].made /\ client'[i].id = client[i].id,
           \A a \in Attempts : att'[a].confirmationId = att[a].confirmationId,
           confirmations' \in Seq(ConfirmationRecords), Len(confirmations') = Len(confirmations),
           \A id \in GivenOut : confirmations[id].state = "used" => confirmations'[id] = confirmations[id]
    PROVE  ShapeInv' /\ ConfirmedOnce'
    <1>1. GivenOut' = GivenOut
        BY DEF GivenOut
    <1>2. ShapeInv'
        BY <1>1 DEF ShapeInv, WorldShape
    <1>3. \A c \in Commands : world'.runs[c] = world.runs[c] /\ Used(c) \subseteq Used(c)'
        BY <1>1 DEF Used
    <1> QED
        BY <1>2, <1>3, ConfirmedKept DEF ShapeInv

\* A confirmation that expires was not used and never will be.
LEMMA ExpireConfirms ==
    ASSUME ShapeInv, ConfirmedOnce, NEW id \in GivenOut, Expire(id)
    PROVE  ShapeInv' /\ ConfirmedOnce'
    <1> DEFINE new == [confirmations[id] EXCEPT !.state = "expired"]
    <1>0. PICK n \in Nat : n = Len(confirmations) /\ GivenOut = 1..n
        BY DEF ShapeInv, GivenOut
    <1>1. /\ confirmations' = [confirmations EXCEPT ![id] = new] /\ confirmations[id].state = "pending"
          /\ setup' = setup /\ att' = att /\ client' = client /\ world' = world
        BY DEF Expire
    <1>2. confirmations \in Seq(ConfirmationRecords) /\ confirmations[id] \in ConfirmationRecords
        BY <1>0 DEF ShapeInv
    <1>3. new \in ConfirmationRecords
        BY <1>2 DEF ConfirmationRecords
    <1> HIDE DEF new
    <1>4. /\ confirmations' \in Seq(ConfirmationRecords) /\ Len(confirmations') = Len(confirmations)
          /\ \A j \in GivenOut : confirmations[j].state = "used" => confirmations'[j] = confirmations[j]
        BY <1>0, <1>1, <1>2, <1>3
    <1>5. AttShape' /\ ClientShape'
        BY <1>1 DEF ShapeInv, AttShape, ClientShape
    <1> QED
        BY <1>1, <1>4, <1>5, AgingConfirms

\* A restart forgets the confirmations that are open and runs nothing.
LEMMA RestartConfirms ==
    ASSUME ShapeInv, ConfirmedOnce, Restart
    PROVE  ShapeInv' /\ ConfirmedOnce'
    <1>0. PICK n \in Nat : n = Len(confirmations) /\ GivenOut = 1..n
        BY DEF ShapeInv, GivenOut
    <1>1. confirmations' = [id \in 1..n |-> Lapsed(confirmations[id])]
        BY <1>0 DEF Restart
    <1>2. ASSUME NEW c \in ConfirmationRecords
          PROVE  Lapsed(c) \in ConfirmationRecords /\ (c.state = "used" => Lapsed(c) = c)
        BY DEF Lapsed, ConfirmationRecords
    <1>3. \A id \in 1..n : confirmations[id] \in ConfirmationRecords
        BY <1>0 DEF ShapeInv
    <1>4. /\ confirmations' \in Seq(ConfirmationRecords) /\ Len(confirmations') = n
          /\ \A id \in 1..n : confirmations[id].state = "used" => confirmations'[id] = confirmations[id]
        BY <1>1, <1>2, <1>3
    <1>5. /\ AttShape' /\ ClientShape' /\ setup' = setup /\ world' = world
          /\ \A i \in Intents : client'[i].made = client[i].made /\ client'[i].id = client[i].id
          /\ \A a \in Attempts : att'[a].confirmationId = att[a].confirmationId
        BY RestartMoves DEF ShapeInv
    <1> QED
        BY <1>0, <1>4, <1>5, AgingConfirms

\* The agent starts a command that must be confirmed only against a confirmation of its own.
LEMMA AgentConfirms ==
    ASSUME ShapeInv, ConfirmedOnce, NEW a \in Attempts, AgentStep(a)
    PROVE  ShapeInv' /\ ConfirmedOnce'
    <1>1. CASE RunFreely(a) \/ RunConfirmed(a) \/ AskForConfirmation(a)
        BY <1>1, FreeConfirms, RunConfirms, AskConfirms
    <1>2. CASE ~(RunFreely(a) \/ RunConfirmed(a) \/ AskForConfirmation(a))
        <2>1. Keeps(a) /\ Neutral(a)
            BY <1>2, FileMoves, TaskMoves, CommandMoves DEF AgentStep, ShapeInv
        <2> QED
            BY <2>1, NeutralKept
    <1> QED
        BY <1>1, <1>2

\* Clients call, read answers and time out; they start nothing themselves.
LEMMA ClientConfirms ==
    ASSUME ShapeInv, ConfirmedOnce,
           \/ \E i \in Intents : \E id \in GivenOut \cup {None} : CallTool(i, id)
           \/ \E a \in Attempts : Deliver(a) \/ Timeout(a)
    PROVE  ShapeInv' /\ ConfirmedOnce'
    <1>0. AttShape /\ ClientShape /\ \A i \in Intents : client[i].made \in Nat
        BY DEF ShapeInv
    <1>1. ASSUME NEW i \in Intents, NEW id \in GivenOut \cup {None}, CallTool(i, id)
          PROVE  ShapeInv' /\ ConfirmedOnce'
        <2>1. PICK a \in Attempts : a = <<i, client[i].made + 1>>
            BY <1>0, <1>1, CallMoves
        <2>2. /\ AttShape' /\ ClientShape' /\ Others(a) /\ att'[a].confirmationId = id
              /\ client'[i].made = client[i].made + 1 /\ \A j \in Intents : j # i => client'[j].made = client[j].made
              /\ \A j \in Intents : client'[j].id = client[j].id
              /\ setup' = setup /\ world' = world /\ confirmations' = confirmations
            BY <1>0, <1>1, <2>1, CallMoves
        <2>3. \A j \in Intents : client'[j].made \in Nat /\ client'[j].id \in GivenOut \cup {None}
            BY <1>0, <2>2 DEF ShapeInv
        <2>4. \A b \in Attempts : att'[b].confirmationId \in GivenOut \cup {None}
            BY <2>2 DEF Others, ShapeInv
        <2>5. WorldShape'
            BY <2>2 DEF ShapeInv, WorldShape
        <2> QED
            BY <2>2, <2>3, <2>4, <2>5, ShapeKept
    <1>2. ASSUME NEW a \in Attempts, Deliver(a) \/ Timeout(a)
          PROVE  ShapeInv' /\ ConfirmedOnce'
        <2>1. /\ AttShape' /\ ClientShape' /\ Others(a) /\ att'[a].confirmationId = att[a].confirmationId
              /\ \A i \in Intents : /\ client'[i].made = client[i].made
                                    /\ client'[i].id = client[i].id \/ client'[i].id = att[a].confirmationId
              /\ setup' = setup /\ world' = world /\ confirmations' = confirmations
            BY <1>0, <1>2, DeliverMoves
        <2>3. \A j \in Intents : client'[j].made \in Nat /\ client'[j].id \in GivenOut \cup {None}
            BY <1>0, <2>1 DEF ShapeInv
        <2>4. \A b \in Attempts : att'[b].confirmationId \in GivenOut \cup {None}
            BY <2>1 DEF Others, ShapeInv
        <2>5. WorldShape'
            BY <2>1 DEF ShapeInv, WorldShape
        <2> QED
            BY <2>1, <2>3, <2>4, <2>5, ShapeKept
    <1> QED
        BY <1>1, <1>2

\* CallsInv is inductive.
LEMMA CallsInvNext ==
    ASSUME CallsInv, [Next]_vars
    PROVE  CallsInv'
    <1>0. ShapeInv /\ CleanInv /\ ConfirmedOnce /\ AttShape /\ ClientShape
        BY DEF CallsInv, ShapeInv
    <1>1. CASE \E i \in Intents : Call(i)
        <2>1. PICK i \in Intents, id \in GivenOut \cup {None} : CallTool(i, id)
            BY <1>1 DEF Call
        <2>2. CleanInv'
            BY <1>0, <2>1, CallClean
        <2> QED
            BY <1>0, <2>1, <2>2, ClientConfirms DEF CallsInv
    <1>2. ASSUME NEW a \in Attempts, AgentStep(a)
          PROVE  CallsInv'
        BY <1>0, <1>2, AgentClean, AgentConfirms DEF CallsInv
    <1>3. ASSUME NEW a \in Attempts, Deliver(a) \/ Timeout(a)
          PROVE  CallsInv'
        <2>1. /\ Others(a) /\ att'[a].tool = att[a].tool /\ att'[a].result = att[a].result
              /\ att'[a].pc = att[a].pc \/ (att[a].pc = "answer" /\ att'[a].pc = "done")
              /\ \A i \in Intents : client'[i].made = client[i].made
              /\ setup' = setup /\ did' = did
            BY <1>0, <1>3, DeliverMoves
        <2>2. CleanInv'
            BY <1>0, <2>1, CleanKept DEF Others
        <2> QED
            BY <1>0, <1>3, <2>2, ClientConfirms DEF CallsInv
    <1>4. CASE Restart
        <2>1. CleanInv'
            BY <1>0, <1>4, CleanKept, RestartMoves
        <2> QED
            BY <1>0, <1>4, <2>1, RestartConfirms DEF CallsInv
    <1>5. ASSUME NEW id \in GivenOut, Expire(id)
          PROVE  CallsInv'
        <2>1. CleanInv'
            BY <1>0, <1>5, CleanKept DEF Expire
        <2> QED
            BY <1>0, <1>5, <2>1, ExpireConfirms DEF CallsInv
    <1>6. CASE Learn \/ (\E hash \in active : TaskEnds(hash)) \/ UNCHANGED vars
        <2>1. UNCHANGED <<setup, client, att, world, confirmations, did>>
            BY <1>6 DEF Learn, TaskEnds, vars
        <2>2. CleanInv'
            BY <1>0, <2>1, CleanKept
        <2>3. WorldShape' /\ AttShape' /\ ClientShape'
            BY <2>1 DEF CallsInv, ShapeInv, WorldShape, AttShape, ClientShape
        <2> QED
            BY <1>0, <2>1, <2>2, <2>3, ShapeKept DEF CallsInv, ShapeInv
    <1> QED
        BY <1>1, <1>2, <1>3, <1>4, <1>5, <1>6 DEF Next

\* CallsInv holds when nothing has been called.
LEMMA CallsInvInit == Init => CallsInv
    <1> SUFFICES ASSUME Init
                 PROVE  CallsInv
        OBVIOUS
    <1>1. /\ setup \in Scenarios /\ confirmations = <<>> /\ did = {}
          /\ DOMAIN att = Attempts /\ \A a \in Attempts : att[a] = Idle
        BY DEF Init
    <1>2. /\ DOMAIN client = Intents
          /\ \A i \in Intents : client[i] = [stage |-> 1, made |-> 0, sees |-> "nothing", sha |-> <<>>, id |-> None]
        BY DEF Init
    <1>3. WorldShape /\ world.runs = [c \in Commands |-> 0]
        BY DEF Init, WorldShape
    <1>4. AttShape /\ \A a \in Attempts : att[a].pc = "idle" /\ att[a].confirmationId = None
        BY <1>1, IdleIs DEF AttShape
    <1>5. ClientShape /\ \A i \in Intents : client[i].made = 0 /\ client[i].id = None
        BY <1>2 DEF ClientShape
    <1>6. confirmations \in Seq(ConfirmationRecords)
        BY <1>1
    <1>7. ShapeInv
        BY <1>1, <1>3, <1>4, <1>5, <1>6 DEF ShapeInv
    <1>8. CleanInv
        BY <1>1, <1>4 DEF CleanInv, RefusalIsClean
    <1>9. ConfirmedOnce
        <2> SUFFICES ASSUME NEW c \in Commands
                     PROVE  world.runs[c] <= Cardinality(Used(c))
            BY DEF ConfirmedOnce, Used
        <2>1. Used(c) = {}
            BY <1>1 DEF Used, GivenOut
        <2> QED
            BY <1>3, <2>1, FS_EmptySet
    <1> QED
        BY <1>7, <1>8, <1>9 DEF CallsInv

-----------------------------------------------------------------------------
\* The invariant holds of every behaviour.
LEMMA CallsInvHolds == Spec => []CallsInv
    <1>1. CallsInv /\ [Next]_vars => CallsInv'
        BY CallsInvNext
    <1> QED
        BY <1>1, CallsInvInit, PTL DEF Spec

\* A command that needs a confirmation runs at most once for each confirmation that was given for
\* it and used up, whoever presents the id, however often, and whatever times out, restarts or
\* expires meanwhile (ShellService.prepareCommand, CommandConfirmationRegistry.consume).
THEOREM CommandsConfirmedOnce == Spec => []ConfirmedOnce
    <1>1. CallsInv => ConfirmedOnce
        BY DEF CallsInv
    <1> QED
        BY <1>1, CallsInvHolds, PTL

\* A call that is answered with a refusal, a question for confirmation or "not found" has changed
\* nothing, but for a remote cancellation of a task of another workspace (LocalAgent and
\* SshWorkspaceExecutor: every check comes before the effect).
THEOREM RefusalsAreClean == Spec => []RefusalIsClean
    <1>1. CallsInv => RefusalIsClean
        BY DEF CallsInv, CleanInv
    <1> QED
        BY <1>1, CallsInvHolds, PTL

-----------------------------------------------------------------------------
(***************************************************************************)
(* Repeated calls                                                          *)
(***************************************************************************)
EditOf(a) == setup.intents[a[1]].edit
Made(a) == att[a].pc # "idle"

\* The call that a client waits for is the last it made, of the tool it has come to.
OpenInv ==
    /\ \A i \in Intents : client[i].stage \in Nat \ {0}
    /\ \A a \in Attempts :
          /\ att[a].open /\ att[a].pc # "done" =>
                /\ a[2] = client[a[1]].made /\ client[a[1]].sees = "waiting"
                /\ client[a[1]].stage <= Len(Plan(a[1])) /\ att[a].tool = Plan(a[1])[client[a[1]].stage]
          /\ Made(a) => \E k \in 1..Len(Plan(a[1])) : k <= client[a[1]].stage /\ att[a].tool = Plan(a[1])[k]

\* All attempts to patch the file start from the content that the client has read.
Patches(a) == Made(a) /\ att[a].tool = "patch_file"
ReadInv ==
    \A a \in Attempts : Patches(a) =>
        /\ \A b \in Attempts : Patches(b) /\ b[1] = a[1] => att[b].sha = att[a].sha
        /\ client[a[1]].stage <= Len(Plan(a[1])) /\ Plan(a[1])[client[a[1]].stage] = "patch_file" =>
              client[a[1]].sha = att[a].sha

\* What an attempt is about to do.
WriteInv ==
    \A a \in Attempts :
        /\ att[a].pc = "check" => att[a].tool = "patch_file" /\ att[a].snap = Patched(EditOf(a), att[a].sha)
        /\ att[a].pc = "write" =>
              \/ att[a].tool = "write_file" /\ att[a].snap = <<EditOf(a)>>
              \/ att[a].tool = "patch_file" /\ att[a].snap = Patched(EditOf(a), att[a].sha)
        /\ att[a].pc = "decide" => att[a].tool \in {"run_command", "start_background_task"}

\* What the last change has left behind.
WorldIsRecord == world = [field \in DOMAIN world |-> world[field]]
LastInv ==
    /\ last # None => last \in Intents \X DOMAIN Handlers
    /\ last # None /\ last[2] = "write_file" => world.file = <<setup.intents[last[1]].edit>>
    /\ last # None /\ last[2] = "patch_file" =>
          \E b \in Attempts : Patches(b) /\ b[1] = last[1] /\ world.file = Patched(EditOf(b), att[b].sha)
    /\ last # None /\ last[2] = "cancel_background_task" => world.task.state = "cancelled"
    /\ WorldIsRecord /\ "state" \in DOMAIN world.task

RepeatInv == OpenInv /\ ReadInv /\ WriteInv /\ LastInv

(***************************************************************************)
(* The tools that change something                                         *)
(***************************************************************************)
Readers ==
    {"listWorkspaces", "listWorkspaceRoots", "listFiles", "readFile", "runValidation",
     "getBackgroundTask", "waitBackgroundTask", "listBackgroundTasks", "readBackgroundTaskLogs",
     "readBackgroundTaskOutput", "searchFiles", "inspectGit", "getWorkspaceContext"}

\* The effect of each method, the same with both executors.
LEMMA MethodEffects ==
    /\ \A m \in Readers : LocalMethods[m].effect = "none" /\ SshMethods[m].effect = "none"
    /\ LocalMethods["writeFile"].effect = "replace" /\ SshMethods["writeFile"].effect = "replace"
    /\ LocalMethods["patchFile"].effect = "patch" /\ SshMethods["patchFile"].effect = "patch"
    /\ LocalMethods["runCommand"].effect = "run" /\ SshMethods["runCommand"].effect = "run"
    /\ LocalMethods["startBackgroundTask"].effect = "start" /\ SshMethods["startBackgroundTask"].effect = "start"
    /\ LocalMethods["cancelBackgroundTask"].effect = "cancel" /\ SshMethods["cancelBackgroundTask"].effect = "cancel"
    /\ LocalMethods["writeBackgroundTaskStdin"].effect = "stdin" /\ SshMethods["writeBackgroundTaskStdin"].effect = "stdin"
    <1>1. \A m \in Readers : LocalMethods[m].effect = "none"
        BY DEF Readers, LocalMethods, Method,
               listWorkspaces, listWorkspaceRoots, listFiles, readFile, runValidation,
               getBackgroundTask, waitBackgroundTask, listBackgroundTasks, readBackgroundTaskLogs,
               readBackgroundTaskOutput, searchFiles, inspectGit, getWorkspaceContext
    <1>2. \A m \in Readers : SshMethods[m].effect = "none"
        BY DEF Readers, SshMethods, Method,
               sshListWorkspaces, sshListWorkspaceRoots, sshListFiles, sshReadFile,
               sshRunValidation, sshGetBackgroundTask, sshWaitBackgroundTask,
               sshListBackgroundTasks, sshReadBackgroundTaskLogs, sshReadBackgroundTaskOutput,
               sshSearchFiles, sshInspectGit, sshGetWorkspaceContext
    <1>3. /\ LocalMethods["writeFile"].effect = "replace"
          /\ LocalMethods["patchFile"].effect = "patch"
          /\ LocalMethods["runCommand"].effect = "run"
          /\ LocalMethods["startBackgroundTask"].effect = "start"
          /\ LocalMethods["cancelBackgroundTask"].effect = "cancel"
          /\ LocalMethods["writeBackgroundTaskStdin"].effect = "stdin"
        BY DEF LocalMethods, Method, writeFile, patchFile, runCommand, startBackgroundTask, cancelBackgroundTask,
               writeBackgroundTaskStdin
    <1>4. /\ SshMethods["writeFile"].effect = "replace"
          /\ SshMethods["patchFile"].effect = "patch"
          /\ SshMethods["runCommand"].effect = "run"
          /\ SshMethods["startBackgroundTask"].effect = "start"
          /\ SshMethods["cancelBackgroundTask"].effect = "cancel"
          /\ SshMethods["writeBackgroundTaskStdin"].effect = "stdin"
        BY DEF SshMethods, Method, sshWriteFile, sshPatchFile, sshRunCommand, sshStartBackgroundTask,
               sshCancelBackgroundTask, sshWriteBackgroundTaskStdin
    <1> QED
        BY <1>1, <1>2, <1>3, <1>4

\* The method that each tool calls.
LEMMA HandlerMethods ==
    ASSUME NEW t \in DOMAIN Handlers
    PROVE  \/ Handlers[t].method \in Readers
           \/ t = "write_file" /\ Handlers[t].method = "writeFile"
           \/ t = "patch_file" /\ Handlers[t].method = "patchFile"
           \/ t = "run_command" /\ Handlers[t].method = "runCommand"
           \/ t = "start_background_task" /\ Handlers[t].method = "startBackgroundTask"
           \/ t = "cancel_background_task" /\ Handlers[t].method = "cancelBackgroundTask"
           \/ t = "write_background_task_stdin" /\ Handlers[t].method = "writeBackgroundTaskStdin"
    <1>1. t \in {"list_workspaces", "list_workspace_roots", "list_files", "read_file", "read_files",
             "write_file", "patch_file", "run_workspace_validation", "run_command",
             "start_background_task", "get_background_task", "get_background_tasks",
             "wait_background_task", "list_background_tasks", "cancel_background_task",
             "read_background_task_logs", "write_background_task_stdin",
             "read_background_task_output", "search_files", "search_files_batch",
             "inspect_workspace_git", "get_workspace_context"}
        BY DEF Handlers
    <1> QED
        BY <1>1 DEF Handlers, Handler, Readers,
               list_workspaces_handler, list_workspace_roots_handler, list_files_handler,
               read_file_handler, read_files_handler, write_file_handler, patch_file_handler,
               run_workspace_validation_handler, run_command_handler, start_background_task_handler,
               get_background_task_handler, get_background_tasks_handler,
               wait_background_task_handler, list_background_tasks_handler,
               cancel_background_task_handler, read_background_task_logs_handler,
               write_background_task_stdin_handler, read_background_task_output_handler,
               search_files_handler, search_files_batch_handler, inspect_workspace_git_handler,
               get_workspace_context_handler

\* Each effect belongs to one tool.
LEMMA ToolsThatChange ==
    ASSUME NEW a, ToolOf(a) \in DOMAIN Handlers
    PROVE  /\ MethodOf(a).effect = "replace" => ToolOf(a) = "write_file"
           /\ MethodOf(a).effect = "patch" => ToolOf(a) = "patch_file"
           /\ MethodOf(a).effect = "cancel" => ToolOf(a) = "cancel_background_task"
           /\ MethodOf(a).effect = "stdin" => ToolOf(a) = "write_background_task_stdin"
           /\ MethodOf(a).effect \in {"run", "start"} => ToolOf(a) \in {"run_command", "start_background_task"}
    <1>1. PICK t \in DOMAIN Handlers : t = ToolOf(a)
        OBVIOUS
    <1>2. PICK m : m = Handlers[t].method
        OBVIOUS
    <1>3. PICK x : x = MethodOf(a).effect
        OBVIOUS
    <1>4. x = LocalMethods[m].effect \/ x = SshMethods[m].effect
        BY <1>1, <1>2, <1>3 DEF MethodOf
    <1>5. \/ m \in Readers
          \/ (t = "write_file" /\ m = "writeFile") \/ (t = "patch_file" /\ m = "patchFile")
          \/ (t = "run_command" /\ m = "runCommand") \/ (t = "start_background_task" /\ m = "startBackgroundTask")
          \/ t = "cancel_background_task" /\ m = "cancelBackgroundTask"
          \/ t = "write_background_task_stdin" /\ m = "writeBackgroundTaskStdin"
        BY <1>2, HandlerMethods
    <1>6. \/ x = "none" \/ (t = "write_file" /\ x = "replace") \/ (t = "patch_file" /\ x = "patch")
          \/ (t = "run_command" /\ x = "run") \/ (t = "start_background_task" /\ x = "start")
          \/ t = "cancel_background_task" /\ x = "cancel"
          \/ t = "write_background_task_stdin" /\ x = "stdin"
        BY <1>4, <1>5, MethodEffects
    <1> QED
        BY <1>1, <1>3, <1>6

\* The tools that start a command or write to one are not announced as idempotent.
LEMMA NotAnnounced ==
    ASSUME NEW t \in {"run_command", "start_background_task", "write_background_task_stdin"}
    PROVE  "idempotent" \notin Catalog[t].hints
    BY DEF Catalog, Tool, run_command, start_background_task, write_background_task_stdin

(***************************************************************************)
(* Preservation                                                            *)
(***************************************************************************)
LEMMA PlansAre ==
    ASSUME setup \in Scenarios, NEW i \in Intents
    PROVE  /\ Plan(i) \in Seq(DOMAIN Handlers) /\ Len(Plan(i)) \in Nat
           /\ \A k \in 1..Len(Plan(i)) : Plan(i)[k] \in DOMAIN Handlers
           /\ \A j, k \in 1..Len(Plan(i)) : Plan(i)[j] = Plan(i)[k] => j = k
    <1>1. Plan(i) \in Seq(DOMAIN Handlers)
        BY PlansAssumption DEF Plan
    <1>2. \A j, k \in 1..Len(Plan(i)) : Plan(i)[j] = Plan(i)[k] => j = k
        BY PlansAssumption DEF Plan
    <1> QED
        BY <1>1, <1>2

\* An attempt has one of the tools of its intent.
LEMMA ToolKnown ==
    ASSUME ShapeInv, OpenInv, NEW a \in Attempts, Made(a)
    PROVE  att[a].tool \in DOMAIN Handlers
    <1>1. a[1] \in Intents
        BY DEF Attempts
    <1> QED
        BY <1>1, PlansAre DEF OpenInv, ShapeInv

\* The attempts of which one is known when its intent and its number are.
LEMMA SameAttempt ==
    ASSUME NEW a \in Attempts, NEW b \in Attempts, a[1] = b[1], a[2] = b[2]
    PROVE  a = b
    BY DEF Attempts

\* Two calls of an intent are never waited for at the same time.
LEMMA OpenOne ==
    ASSUME OpenInv, NEW a \in Attempts, NEW b \in Attempts, a[1] = b[1],
           att[a].open, att[b].open, att[a].pc # "done", att[b].pc # "done"
    PROVE  a = b
    BY SameAttempt DEF OpenInv

\* A step that leaves the tools and the read contents of the attempts alone, and the client where
\* it is with what it has read.
Stays(i) ==
    client'[i].stage = client[i].stage /\ client'[i].made = client[i].made /\ client'[i].sha = client[i].sha
Same(a) ==
    /\ att'[a].tool = att[a].tool /\ att'[a].sha = att[a].sha
    /\ att'[a].pc = "idle" <=> att[a].pc = "idle"

\* ReadInv speaks of the attempts and of the clients' stages.
LEMMA ReadKept ==
    ASSUME ReadInv, setup' = setup, \A a \in Attempts : Same(a), \A i \in Intents : Stays(i)
    PROVE  ReadInv'
    <1>1. \A a \in Attempts : a[1] \in Intents
        BY DEF Attempts
    <1>2. \A a \in Attempts : Patches(a)' <=> Patches(a)
        BY DEF Same, Patches, Made
    <1>3. \A i \in Intents : Plan(i)' = Plan(i)
        BY DEF Plan
    <1> SUFFICES ASSUME NEW a \in Attempts, Patches(a)'
                 PROVE  /\ \A b \in Attempts : Patches(b)' /\ b[1] = a[1] => att'[b].sha = att'[a].sha
                        /\ client'[a[1]].stage <= Len(Plan(a[1])') /\ Plan(a[1])'[client'[a[1]].stage] = "patch_file" =>
                              client'[a[1]].sha = att'[a].sha
        BY DEF ReadInv, Plan
    <1>4. Patches(a) /\ Stays(a[1]) /\ Plan(a[1])' = Plan(a[1])
        BY <1>1, <1>2, <1>3
    <1> QED
        BY <1>2, <1>4 DEF ReadInv, Same, Stays

\* OpenInv stays when no attempt is opened.
LEMMA OpenKept ==
    ASSUME OpenInv, setup' = setup, \A a \in Attempts : Same(a), \A i \in Intents : Stays(i),
           \A a \in Attempts : att'[a].open /\ att'[a].pc # "done" =>
               /\ att[a].open /\ att[a].pc # "done"
               /\ client'[a[1]].sees = client[a[1]].sees
    PROVE  OpenInv'
    <1>1. \A a \in Attempts : a[1] \in Intents
        BY DEF Attempts
    <1>2. \A i \in Intents : Plan(i)' = Plan(i)
        BY DEF Plan
    <1>3. ASSUME NEW a \in Attempts
          PROVE  /\ (att[a].open /\ att[a].pc # "done")' =>
                      /\ a[2] = client'[a[1]].made /\ client'[a[1]].sees = "waiting"
                      /\ client'[a[1]].stage <= Len(Plan(a[1])) /\ att'[a].tool = Plan(a[1])[client'[a[1]].stage]
                 /\ Made(a)' => \E k \in 1..Len(Plan(a[1])) : k <= client'[a[1]].stage /\ att'[a].tool = Plan(a[1])[k]
        <2>1. Same(a) /\ Stays(a[1])
            BY <1>1
        <2> QED
            BY <2>1 DEF OpenInv, Same, Stays, Made
    <1>4. \A i \in Intents : client'[i].stage \in Nat \ {0}
        BY DEF OpenInv, Stays
    <1> QED
        BY <1>1, <1>2, <1>3, <1>4 DEF OpenInv, Plan

\* LastInv stays when the world does.
LEMMA LastKept ==
    ASSUME LastInv, setup' = setup, world' = world, last' = last,
           \A a \in Attempts : Made(a) => Made(a)' /\ att'[a].tool = att[a].tool /\ att'[a].sha = att[a].sha
    PROVE  LastInv'
    <1>1. ASSUME last # None, last[2] = "patch_file"
          PROVE  \E b \in Attempts : Patches(b)' /\ b[1] = last[1] /\ world'.file = Patched(EditOf(b)', att'[b].sha)
        <2>1. PICK b \in Attempts : Patches(b) /\ b[1] = last[1] /\ world.file = Patched(EditOf(b), att[b].sha)
            BY <1>1 DEF LastInv
        <2>2. Patches(b)' /\ att'[b].sha = att[b].sha /\ EditOf(b)' = EditOf(b)
            BY <2>1 DEF Patches, Made, EditOf
        <2> QED
            BY <2>1, <2>2
    <1> QED
        BY <1>1 DEF LastInv, WorldIsRecord, EditOf, Patches, Made

\* WriteInv stays when no attempt enters the middle of a write.
LEMMA WriteKept ==
    ASSUME WriteInv, setup' = setup,
           \A a \in Attempts : att'[a].pc \in {"check", "write", "decide"} =>
               /\ att'[a].pc = att[a].pc /\ att'[a].tool = att[a].tool
               /\ att'[a].sha = att[a].sha /\ att'[a].snap = att[a].snap
    PROVE  WriteInv'
    <1>1. \A a \in Attempts : EditOf(a)' = EditOf(a)
        BY DEF EditOf
    <1> QED
        BY <1>1 DEF WriteInv

\* The client goes on to its next tool, with another content when it has read one.
LEMMA NextToolRepeat ==
    ASSUME ShapeInv, OpenInv, ReadInv, NEW a \in Attempts, att[a].open, att[a].pc = "answer",
           client'[a[1]].stage = client[a[1]].stage + 1, client'[a[1]].made = client[a[1]].made,
           \A i \in Intents : i # a[1] => client'[i] = client[i], setup' = setup, \A b \in Attempts : Same(b) /\ att'[b].open = att[b].open,
           att'[a].pc = "done", Others(a)
    PROVE  OpenInv' /\ ReadInv'
    <1>1. PICK i \in Intents : i = a[1]
        BY DEF Attempts
    <1>2. PICK n \in Nat : n = client[i].stage /\ n <= Len(Plan(i)) /\ n > 0
        BY <1>1 DEF OpenInv
    <1>3. /\ client'[i].stage = n + 1 /\ client'[i].made = client[i].made
          /\ \A j \in Intents : j # i => client'[j] = client[j]
        BY <1>1, <1>2
    <1>4. \A j \in Intents : Plan(j)' = Plan(j)
        BY DEF Plan
    <1>5. \A b \in Attempts : b[1] \in Intents
        BY DEF Attempts
    <1>6. ASSUME NEW b \in Attempts, b[1] = i, att'[b].open, att'[b].pc # "done"
          PROVE  FALSE
        <2>1. b # a /\ att'[b] = att[b]
            BY <1>6 DEF Others
        <2> QED
            BY <1>1, <1>6, <2>1, OpenOne
    <1>7. ASSUME NEW b \in Attempts, Made(b)'
          PROVE  \E k \in 1..Len(Plan(b[1])) : k <= client'[b[1]].stage /\ att'[b].tool = Plan(b[1])[k]
        <2>1. PICK k \in 1..Len(Plan(b[1])) : k <= client[b[1]].stage /\ att[b].tool = Plan(b[1])[k]
            BY <1>7 DEF OpenInv, Made, Same
        <2>2. k <= client'[b[1]].stage
            <3>1. k \in Nat
                BY <1>5, PlansAre DEF ShapeInv
            <3> QED
                BY <1>2, <1>3, <1>5, <2>1, <3>1
        <2> QED
            BY <2>1, <2>2 DEF Same
    <1>8. ASSUME NEW b \in Attempts, att'[b].open, att'[b].pc # "done"
          PROVE  /\ b[2] = client'[b[1]].made /\ client'[b[1]].sees = "waiting"
                 /\ client'[b[1]].stage <= Len(Plan(b[1])) /\ att'[b].tool = Plan(b[1])[client'[b[1]].stage]
        <2>1. b[1] # i /\ b # a /\ b[1] \in Intents
            BY <1>1, <1>5, <1>6, <1>8
        <2>2. att'[b] = att[b] /\ client'[b[1]] = client[b[1]]
            BY <1>3, <2>1 DEF Others
        <2> QED
            BY <1>8, <2>2 DEF OpenInv
    <1>9. \A j \in Intents : client'[j].stage \in Nat \ {0}
        BY <1>3 DEF OpenInv
    <1>10. OpenInv'
        BY <1>4, <1>5, <1>7, <1>8, <1>9 DEF OpenInv, Plan, Made
    <1>11. \A b \in Attempts : Patches(b)' <=> Patches(b)
        BY DEF Same, Patches, Made
    <1>12. ASSUME NEW b \in Attempts, Patches(b)
           PROVE  /\ \A c \in Attempts : Patches(c) /\ c[1] = b[1] => att'[c].sha = att'[b].sha
                  /\ client'[b[1]].stage <= Len(Plan(b[1])) /\ Plan(b[1])[client'[b[1]].stage] = "patch_file" =>
                        client'[b[1]].sha = att'[b].sha
        <2>1. \A c \in Attempts : Patches(c) /\ c[1] = b[1] => att'[c].sha = att'[b].sha
            BY <1>12 DEF ReadInv, Same
        <2>2. CASE b[1] # i
            BY <1>3, <1>5, <1>12, <2>1, <2>2 DEF ReadInv, Same
        <2>3. CASE b[1] = i
            <3>1. PICK k \in 1..Len(Plan(i)) : k <= n /\ Plan(i)[k] = "patch_file"
                BY <1>2, <1>12, <2>3 DEF OpenInv, Patches
            <3>2. ASSUME n + 1 <= Len(Plan(i)), Plan(i)[n + 1] = "patch_file"
                  PROVE  FALSE
                <4>1. Len(Plan(i)) \in Nat /\ \A x, y \in 1..Len(Plan(i)) : Plan(i)[x] = Plan(i)[y] => x = y
                    BY PlansAre DEF ShapeInv
                <4>2. n + 1 \in 1..Len(Plan(i))
                    BY <3>2, <4>1
                <4>3. k = n + 1
                    BY <3>1, <3>2, <4>1, <4>2
                <4> QED
                    BY <3>1, <4>3
            <3> QED
                BY <1>3, <2>1, <2>3, <3>2
        <2> QED
            BY <2>2, <2>3
    <1>13. ReadInv'
        BY <1>4, <1>5, <1>11, <1>12 DEF ReadInv, Plan
    <1> QED
        BY <1>10, <1>13

\* An answer that reaches its client closes the attempt and moves the client on.
LEMMA DeliverRepeat ==
    ASSUME ShapeInv, RepeatInv, NEW a \in Attempts, Deliver(a)
    PROVE  RepeatInv'
    <1>0. OpenInv /\ ReadInv /\ WriteInv /\ LastInv /\ AttShape /\ ClientShape /\ a[1] \in Intents
        BY DEF RepeatInv, ShapeInv, Attempts
    <1>1. att' = [att EXCEPT ![a].pc = "done"] /\ att[a].pc = "answer" /\ setup' = setup /\ world' = world /\ last' = last
        BY DEF Deliver
    <1>2. /\ Others(a) /\ att'[a].tool = att[a].tool /\ att'[a].sha = att[a].sha /\ att'[a].open = att[a].open
          /\ att'[a].pc = "done"
        BY <1>0, <1>1 DEF AttShape, Others, Fields
    <1>3. \A b \in Attempts : Same(b) /\ att'[b].open = att[b].open
        BY <1>1, <1>2 DEF Others, Same
    <1>4. LastInv'
        BY <1>0, <1>1, <1>3, LastKept DEF Same, Made
    <1>5. WriteInv'
        BY <1>0, <1>1, <1>2, WriteKept DEF Others
    <1>6. ASSUME \A i \in Intents : Stays(i) /\ (i # a[1] \/ ~att[a].open => client'[i].sees = client[i].sees)
          PROVE  OpenInv' /\ ReadInv'
        <2>1. ASSUME NEW b \in Attempts, att'[b].open, att'[b].pc # "done"
              PROVE  /\ att[b].open /\ att[b].pc # "done"
                     /\ client'[b[1]].sees = client[b[1]].sees
            <3>1. b # a /\ att'[b] = att[b] /\ b[1] \in Intents
                BY <1>2, <2>1 DEF Others, Attempts
            <3>2. b[1] # a[1] \/ ~att[a].open
                BY <1>0, <1>1, <2>1, <3>1, OpenOne
            <3> QED
                BY <1>6, <2>1, <3>1, <3>2
        <2>2. (\A i \in Intents : Stays(i)) /\ (\A b \in Attempts : Same(b)) /\ setup' = setup
            BY <1>1, <1>3, <1>6
        <2>3. ReadInv'
            BY <1>0, <2>2, ReadKept
        <2>4. OpenInv'
            BY <1>0, <2>1, <2>2, OpenKept
        <2> QED
            BY <2>3, <2>4
    <1>7. CASE ~att[a].open
        <2>1. client' = client
            BY <1>7 DEF Deliver
        <2> QED
            BY <1>4, <1>5, <1>6, <2>1 DEF Stays, RepeatInv
    <1>8. CASE att[a].open /\ att[a].result \in {"ok", "null"}
        <2>1. client' = [client EXCEPT ![a[1]].stage = @ + 1, ![a[1]].sees = "nothing",
                                       ![a[1]].sha = IF ToolOf(a) = "read_file" THEN att[a].snap ELSE @]
            BY <1>8 DEF Deliver
        <2> DEFINE t == IF ToolOf(a) = "read_file" THEN att[a].snap ELSE client[a[1]].sha
        <2>2. client' = [client EXCEPT ![a[1]].stage = @ + 1, ![a[1]].sees = "nothing", ![a[1]].sha = t]
            BY <1>0, <2>1 DEF ClientShape
        <2> HIDE DEF t
        <2>4. /\ client'[a[1]].stage = client[a[1]].stage + 1 /\ client'[a[1]].made = client[a[1]].made
              /\ \A i \in Intents : i # a[1] => client'[i] = client[i]
            BY <1>0, <2>2 DEF ClientShape
        <2>3. OpenInv' /\ ReadInv'
            BY <1>0, <1>1, <1>2, <1>3, <1>8, <2>4, NextToolRepeat
        <2> QED
            BY <1>4, <1>5, <2>3 DEF RepeatInv
    <1>9. CASE att[a].open /\ att[a].result \notin {"ok", "null"}
        <2>1. \/ client' = [client EXCEPT ![a[1]].sees = "unknown"]
              \/ client' = [client EXCEPT ![a[1]].sees = att[a].result, ![a[1]].id = att[a].confirmationId]
            <3>1. CASE att[a].result \in {"failed", "audit_failed"}
                BY <1>9, <3>1 DEF Deliver
            <3>2. CASE att[a].result \notin {"failed", "audit_failed"}
                BY <1>9, <3>2 DEF Deliver
            <3> QED
                BY <3>1, <3>2
        <2>2. \A i \in Intents : Stays(i) /\ (i # a[1] => client'[i].sees = client[i].sees)
            BY <1>0, <2>1 DEF Stays, ClientShape
        <2> QED
            BY <1>4, <1>5, <1>6, <1>9, <2>2 DEF RepeatInv
    <1> QED
        BY <1>7, <1>8, <1>9

\* A client that stops waiting closes the attempt, whose work goes on.
LEMMA TimeoutRepeat ==
    ASSUME ShapeInv, RepeatInv, NEW a \in Attempts, Timeout(a)
    PROVE  RepeatInv'
    <1>0. OpenInv /\ ReadInv /\ WriteInv /\ LastInv /\ AttShape /\ ClientShape /\ a[1] \in Intents
        BY DEF RepeatInv, ShapeInv, Attempts
    <1>1. /\ att' = [att EXCEPT ![a].open = FALSE, ![a].aborted = TRUE] /\ setup' = setup /\ world' = world /\ last' = last
          /\ att[a].open /\ client' = [client EXCEPT ![a[1]].sees = "unknown"]
        BY DEF Timeout
    <1>2. /\ Others(a) /\ att'[a].tool = att[a].tool /\ att'[a].sha = att[a].sha /\ att'[a].open = FALSE
          /\ att'[a].pc = att[a].pc /\ att'[a].snap = att[a].snap
        BY <1>0, <1>1 DEF AttShape, Others, Fields
    <1>3. \A b \in Attempts : Same(b)
        BY <1>2 DEF Others, Same
    <1>4. LastInv'
        BY <1>0, <1>1, <1>3, LastKept DEF Same, Made
    <1>5. WriteInv'
        BY <1>0, <1>1, <1>2, WriteKept DEF Others
    <1>6. \A i \in Intents : Stays(i) /\ (i # a[1] => client'[i].sees = client[i].sees)
        BY <1>0, <1>1 DEF Stays, ClientShape
    <1>7. ASSUME NEW b \in Attempts, att'[b].open, att'[b].pc # "done"
          PROVE  /\ att[b].open /\ att[b].pc # "done"
                 /\ client'[b[1]].sees = client[b[1]].sees
        <2>1. b # a /\ att'[b] = att[b] /\ b[1] \in Intents
            BY <1>2, <1>7 DEF Others, Attempts
        <2>2. CASE b[1] # a[1]
            BY <1>6, <1>7, <2>1, <2>2
        <2>3. CASE b[1] = a[1]
            BY <1>0, <1>1, <1>7, <2>1, <2>3, OpenOne DEF Timeout
        <2> QED
            BY <2>2, <2>3
    <1> QED
        BY <1>0, <1>1, <1>3, <1>4, <1>5, <1>6, <1>7, OpenKept, ReadKept DEF RepeatInv

\* A call fills the next attempt of its client with the tool at its stage.
LEMMA CallFills ==
    ASSUME ShapeInv, NEW i \in Intents, NEW id, CallTool(i, id)
    PROVE  \E a \in Attempts :
               /\ a[1] = i /\ a[2] = client[i].made + 1 /\ Others(a) /\ att'[a].pc \in {"agent", "answer"}
               /\ att'[a].tool = Plan(i)[client[i].stage] /\ att'[a].sha = client[i].sha
               /\ client[i].stage <= Len(Plan(i)) /\ client[i].sees # "waiting"
               /\ client'[i].stage = client[i].stage /\ client'[i].sha = client[i].sha
               /\ client'[i].made = client[i].made + 1 /\ client'[i].sees = "waiting"
               /\ \A j \in Intents : j # i => client'[j] = client[j]
               /\ setup' = setup /\ world' = world /\ last' = last
    <1>1. PICK n \in Nat : n = client[i].made
        BY DEF ShapeInv
    <1>2. PICK a \in Attempts : a = <<i, n + 1>>
        BY <1>1, CallMoves DEF ShapeInv
    <1>3. Others(a) /\ att'[a].pc \in {"agent", "answer"}
        BY <1>1, <1>2, CallMoves DEF ShapeInv
    <1> DEFINE p == IF Accepted(i, id) THEN "agent" ELSE "answer"
               res == IF Accepted(i, id) THEN None ELSE "refused"
               t == CurrentTool(i)
               sha == client[i].sha
               new == [Idle EXCEPT !.pc = p, !.result = res, !.tool = t, !.open = TRUE,
                                   !.confirmationId = id, !.sha = sha]
    <1>4. att' = [att EXCEPT ![<<i, client[i].made + 1>>] = new]
        BY DEF CallTool
    <1>5. t = Plan(i)[client[i].stage]
        BY DEF CurrentTool
    <1>6. /\ client[i].stage <= Len(Plan(i)) /\ client[i].sees # "waiting"
          /\ client' = [client EXCEPT ![i].made = @ + 1, ![i].sees = "waiting"]
          /\ setup' = setup /\ world' = world /\ last' = last
        BY DEF CallTool
    <1> HIDE DEF p, res, t, sha
    <1>7. new.tool = t /\ new.sha = sha
        BY DEF Idle
    <1> HIDE DEF new
    <1>8. att'[a] = new
        BY <1>1, <1>2, <1>4 DEF ShapeInv, AttShape
    <1>9. /\ client'[i].stage = client[i].stage /\ client'[i].sha = client[i].sha
          /\ client'[i].made = client[i].made + 1 /\ client'[i].sees = "waiting"
          /\ \A j \in Intents : j # i => client'[j] = client[j]
        BY <1>6 DEF ShapeInv, ClientShape
    <1>10. a[1] = i /\ a[2] = client[i].made + 1
        BY <1>1, <1>2
    <1> QED
        BY <1>3, <1>5, <1>6, <1>7, <1>8, <1>9, <1>10 DEF sha

\* A call that is made again starts from what the client has read, as the one before it.
LEMMA CallRepeat ==
    ASSUME ShapeInv, CleanInv, RepeatInv, NEW i \in Intents, NEW id, CallTool(i, id)
    PROVE  RepeatInv'
    <1>0. OpenInv /\ ReadInv /\ WriteInv /\ LastInv
        BY DEF RepeatInv
    <1>1. PICK a \in Attempts :
               /\ a[1] = i /\ a[2] = client[i].made + 1 /\ Others(a) /\ att'[a].pc \in {"agent", "answer"}
               /\ att'[a].tool = Plan(i)[client[i].stage] /\ att'[a].sha = client[i].sha
               /\ client[i].stage <= Len(Plan(i)) /\ client[i].sees # "waiting"
               /\ client'[i].stage = client[i].stage /\ client'[i].sha = client[i].sha
               /\ client'[i].made = client[i].made + 1 /\ client'[i].sees = "waiting"
               /\ \A j \in Intents : j # i => client'[j] = client[j]
               /\ setup' = setup /\ world' = world /\ last' = last
        BY CallFills
    <1>2. PICK n \in Nat : n = client[i].made
        BY DEF ShapeInv
    <1>3. att[a].pc = "idle"
        BY <1>1, <1>2 DEF CleanInv
    <1>4. \A b \in Attempts : b[1] \in Intents
        BY DEF Attempts
    <1>5. \A j \in Intents : Plan(j)' = Plan(j)
        BY <1>1 DEF Plan
    <1>6. LastInv'
        <2>1. \A b \in Attempts : Made(b) => Made(b)' /\ att'[b].tool = att[b].tool /\ att'[b].sha = att[b].sha
            BY <1>1, <1>3 DEF Others, Made
        <2> QED
            BY <1>0, <1>1, <2>1, LastKept
    <1>7. WriteInv'
        BY <1>0, <1>1, WriteKept DEF Others
    <1>8. \A j \in Intents : client'[j].stage = client[j].stage /\ client'[j].sha = client[j].sha
        BY <1>1
    <1>9. client[i].stage \in 1..Len(Plan(i))
        <2>1. client[i].stage \in Nat \ {0} /\ Len(Plan(i)) \in Nat
            BY <1>0, PlansAre DEF OpenInv, ShapeInv
        <2> QED
            BY <1>1, <2>1
    <1>10. ASSUME NEW b \in Attempts
           PROVE  /\ att'[b].open /\ att'[b].pc # "done" =>
                       /\ b[2] = client'[b[1]].made /\ client'[b[1]].sees = "waiting"
                       /\ client'[b[1]].stage <= Len(Plan(b[1])) /\ att'[b].tool = Plan(b[1])[client'[b[1]].stage]
                  /\ Made(b)' => \E k \in 1..Len(Plan(b[1])) : k <= client'[b[1]].stage /\ att'[b].tool = Plan(b[1])[k]
        <2>1. CASE b = a
            <3>1. client'[i].stage \in 1..Len(Plan(i)) /\ client'[i].stage <= client'[i].stage
                BY <1>8, <1>9
            <3> QED
                BY <1>1, <2>1, <3>1
        <2>2. CASE b # a /\ b[1] = i
            BY <1>0, <1>1, <1>8, <2>2 DEF OpenInv, Others, Made
        <2>3. CASE b # a /\ b[1] # i
            BY <1>0, <1>1, <1>4, <2>3 DEF OpenInv, Others, Made
        <2> QED
            BY <2>1, <2>2, <2>3
    <1>11. OpenInv'
        <2>1. \A j \in Intents : client'[j].stage \in Nat \ {0}
            BY <1>0, <1>8 DEF OpenInv
        <2>2. ASSUME NEW b \in Attempts, att'[b].open, att'[b].pc # "done"
              PROVE  /\ b[2] = client'[b[1]].made /\ client'[b[1]].sees = "waiting"
                     /\ client'[b[1]].stage <= Len(Plan(b[1])) /\ att'[b].tool = Plan(b[1])[client'[b[1]].stage]
            BY <1>10, <2>2
        <2>3. ASSUME NEW b \in Attempts, Made(b)'
              PROVE  \E k \in 1..Len(Plan(b[1])) : k <= client'[b[1]].stage /\ att'[b].tool = Plan(b[1])[k]
            BY <1>10, <2>3
        <2>4. setup' = setup
            BY <1>1
        <2> QED
            BY <1>4, <2>1, <2>2, <2>3, <2>4 DEF OpenInv, Plan, Made
    <1>12. ASSUME NEW b \in Attempts, Patches(b)', b[1] = i
           PROVE  att'[b].sha = client[i].sha \/ (b # a /\ Patches(b) /\ att'[b].sha = att[b].sha)
        BY <1>1, <1>12 DEF Patches, Made, Others
    <1>13. ASSUME NEW b \in Attempts, Patches(b)'
           PROVE  /\ \A c \in Attempts : Patches(c)' /\ c[1] = b[1] => att'[c].sha = att'[b].sha
                  /\ client'[b[1]].stage <= Len(Plan(b[1])) /\ Plan(b[1])[client'[b[1]].stage] = "patch_file" =>
                        client'[b[1]].sha = att'[b].sha
        <2>1. CASE b[1] # i
            <3>1. \A c \in Attempts : c[1] = b[1] => att'[c] = att[c]
                BY <1>1, <2>1 DEF Others
            <3> QED
                BY <1>0, <1>4, <1>8, <1>13, <2>1, <3>1 DEF ReadInv, Patches, Made
        <2>2. CASE b[1] = i /\ Plan(i)[client[i].stage] = "patch_file"
            <3>1. ASSUME NEW c \in Attempts, Patches(c)', c[1] = i
                  PROVE  att'[c].sha = client[i].sha
                BY <1>0, <1>1, <1>12, <2>2, <3>1 DEF ReadInv
            <3> QED
                BY <1>8, <1>13, <2>2, <3>1
        <2>3. CASE b[1] = i /\ Plan(i)[client[i].stage] # "patch_file"
            <3>1. ASSUME NEW c \in Attempts, Patches(c)', c[1] = i
                  PROVE  Patches(c) /\ att'[c].sha = att[c].sha
                BY <1>1, <2>3, <3>1 DEF Patches, Made, Others
            <3> QED
                BY <1>0, <1>8, <1>13, <2>3, <3>1 DEF ReadInv
        <2> QED
            BY <2>1, <2>2, <2>3
    <1>14. ReadInv'
        BY <1>4, <1>5, <1>13 DEF ReadInv, Plan
    <1> QED
        BY <1>6, <1>7, <1>11, <1>14 DEF RepeatInv

\* The executor restarts: the calls that it had in hand are answered by nobody.
LEMMA RestartRepeat ==
    ASSUME ShapeInv, RepeatInv, Restart
    PROVE  RepeatInv'
    <1>0. OpenInv /\ ReadInv /\ WriteInv /\ LastInv /\ AttShape /\ ClientShape
        BY DEF RepeatInv, ShapeInv
    <1>1. /\ \A a \in Attempts : att'[a] = Killed(a)
          /\ \A i \in Intents : client'[i] = Interrupted(i)
          /\ setup' = setup /\ world' = world /\ last' = last
        BY DEF Restart
    <1>2. ASSUME NEW a \in Attempts
          PROVE  \/ att'[a] = att[a] /\ ~InHand(a)
                 \/ /\ att[a].pc # "idle" /\ att'[a].pc = "done" /\ att'[a].tool = att[a].tool
                    /\ att'[a].sha = att[a].sha /\ att'[a].open = FALSE
        <2>1. DOMAIN att[a] = Fields
            BY <1>0 DEF AttShape
        <2>2. CASE ~InHand(a)
            <3>1. Killed(a) = att[a]
                BY <2>2 DEF Killed
            <3> QED
                BY <1>1, <2>2, <3>1
        <2>3. CASE InHand(a)
            <3>1. Killed(a) = [att[a] EXCEPT !.pc = "done", !.open = FALSE]
                BY <2>3 DEF Killed
            <3>2. Killed(a).pc = "done" /\ Killed(a).tool = att[a].tool /\ Killed(a).sha = att[a].sha /\ Killed(a).open = FALSE
                BY <2>1, <3>1 DEF Fields
            <3> QED
                BY <1>1, <2>3, <3>2 DEF InHand
        <2> QED
            BY <2>2, <2>3
    <1>3. ASSUME NEW i \in Intents
          PROVE  Interrupted(i) = client[i] \/ Interrupted(i) = [client[i] EXCEPT !.sees = "unknown"]
        BY Zenon DEF Interrupted
    <1>4. \A i \in Intents : Stays(i)
        BY <1>0, <1>1, <1>3 DEF Stays, ClientShape
    <1>5. \A a \in Attempts : Same(a)
        BY <1>2 DEF Same
    <1>6. LastInv'
        BY <1>0, <1>1, <1>5, LastKept DEF Same, Made
    <1>7. WriteInv'
        BY <1>0, <1>1, <1>2, WriteKept
    <1>8. ASSUME NEW a \in Attempts, att'[a].open, att'[a].pc # "done"
          PROVE  att[a].open /\ att[a].pc # "done" /\ client'[a[1]].sees = client[a[1]].sees
        <2>1. att'[a] = att[a] /\ ~InHand(a) /\ att[a].open /\ att[a].pc # "done"
            BY <1>2, <1>8
        <2>2. PICK i \in Intents : i = a[1]
            BY DEF Attempts
        <2>3. ASSUME NEW n \in 1..MaxAttempts, att[<<i, n>>].open, InHand(<<i, n>>)
              PROVE  FALSE
            <3>1. PICK b \in Attempts : b = <<i, n>>
                BY DEF Attempts
            <3>2. att[b].open /\ InHand(b) /\ b[1] = a[1] /\ att[b].pc # "done"
                BY <2>2, <2>3, <3>1 DEF InHand
            <3>3. a = b
                BY <1>0, <2>1, <3>2, OpenOne
            <3> QED
                BY <2>1, <3>2, <3>3
        <2>4. Interrupted(i) = client[i]
            BY <2>3, Zenon DEF Interrupted
        <2> QED
            BY <1>1, <2>1, <2>2, <2>4
    <1> QED
        BY <1>0, <1>1, <1>4, <1>5, <1>6, <1>7, <1>8, OpenKept, ReadKept DEF RepeatInv

\* What the step of an executor leaves alone.
LEMMA AgentRepeat ==
    ASSUME ShapeInv, RepeatInv, NEW a \in Attempts, AgentStep(a)
    PROVE  OpenInv' /\ ReadInv' /\ (last' = last /\ world' = world => LastInv')
    <1>1. Keeps(a) /\ att[a].pc # "idle" /\ att'[a].pc # "idle" /\ att[a].pc # "done"
        BY AgentMoves DEF Quiet, Changes, Early
    <1>2. \A b \in Attempts : Same(b) /\ att'[b].open = att[b].open /\ (att'[b].pc # "done" => att[b].pc # "done")
        BY <1>1 DEF Keeps, Others, Same
    <1>3. setup' = setup /\ client' = client /\ \A i \in Intents : Stays(i)
        BY <1>1 DEF Keeps, Stays
    <1>4. OpenInv /\ ReadInv /\ LastInv
        BY DEF RepeatInv
    <1>5. OpenInv'
        BY <1>2, <1>3, <1>4, OpenKept
    <1>6. ReadInv'
        BY <1>2, <1>3, <1>4, ReadKept
    <1>7. last' = last /\ world' = world => LastInv'
        BY <1>2, <1>3, <1>4, LastKept DEF Same, Made
    <1> QED
        BY <1>5, <1>6, <1>7

(***************************************************************************)
(* What the step of an executor does                                       *)
(***************************************************************************)
LEMMA WriteOne ==
    ASSUME WriteInv, NEW a \in Attempts, Keeps(a),
           /\ att'[a].pc = "check" => att[a].tool = "patch_file" /\ att'[a].snap = Patched(EditOf(a), att[a].sha)
           /\ att'[a].pc = "write" =>
                 \/ att[a].tool = "write_file" /\ att'[a].snap = <<EditOf(a)>>
                 \/ att[a].tool = "patch_file" /\ att'[a].snap = Patched(EditOf(a), att[a].sha)
           /\ att'[a].pc = "decide" => att[a].tool \in {"run_command", "start_background_task"}
    PROVE  WriteInv'
    <1>1. \A b \in Attempts : EditOf(b)' = EditOf(b)
        BY DEF EditOf, Keeps
    <1>2. Others(a) /\ att'[a].tool = att[a].tool /\ att'[a].sha = att[a].sha
        BY DEF Keeps
    <1>3. ASSUME NEW b \in Attempts
          PROVE  /\ att'[b].pc = "check" => att'[b].tool = "patch_file" /\ att'[b].snap = Patched(EditOf(b), att'[b].sha)
                 /\ att'[b].pc = "write" =>
                       \/ att'[b].tool = "write_file" /\ att'[b].snap = <<EditOf(b)>>
                       \/ att'[b].tool = "patch_file" /\ att'[b].snap = Patched(EditOf(b), att'[b].sha)
                 /\ att'[b].pc = "decide" => att'[b].tool \in {"run_command", "start_background_task"}
        <2>1. CASE b = a
            BY <1>2, <2>1
        <2>2. CASE b # a
            BY <1>2, <2>2 DEF Others, WriteInv
        <2> QED
            BY <2>1, <2>2
    <1> QED
        BY <1>1, <1>3 DEF WriteInv

\* An attempt that has its result is about to do nothing.
LEMMA EndsAre ==
    ASSUME AttShape, NEW a \in Attempts, NEW result, att' = [att EXCEPT ![a] = Ends(a, result)]
    PROVE  att'[a].pc \in {"audit", "answer"}
    <1>1. PICK new : new = Ends(a, result)
        OBVIOUS
    <1>2. DOMAIN new = Fields /\ new.pc \in {"audit", "answer"}
        BY <1>1, EndsIs
    <1>3. att' = [att EXCEPT ![a] = new]
        BY <1>1
    <1> QED
        BY <1>2, <1>3, Replaced

\* The file an attempt is about to write is the one it read.
LEMMA AgentWrites ==
    ASSUME ShapeInv, RepeatInv, NEW a \in Attempts, AgentStep(a)
    PROVE  WriteInv'
    <1>0. Keeps(a) /\ Made(a) /\ AttShape /\ OpenInv /\ WriteInv
        BY AgentMoves DEF Quiet, Changes, Early, Made, ShapeInv, RepeatInv
    <1>1. ToolOf(a) \in DOMAIN Handlers /\ ToolOf(a) = att[a].tool
        BY <1>0, ToolKnown DEF ToolOf
    <1>2. DOMAIN att[a] = Fields /\ DOMAIN att = Attempts
        BY <1>0 DEF AttShape
    <1>3. ASSUME att'[a].pc \notin {"check", "write", "decide"}
          PROVE  WriteInv'
        BY <1>0, <1>3, WriteOne
    <1>4. ASSUME NEW result, att' = [att EXCEPT ![a] = Ends(a, result)]
          PROVE  WriteInv'
        BY <1>0, <1>3, <1>4, EndsAre
    <1>5. CASE WriteFile(a)
        <2>1. att[a].tool = "write_file"
            BY <1>1, <1>5, ToolsThatChange DEF WriteFile, Arrived
        <2>2. att' = [att EXCEPT ![a].pc = "write", ![a].snap = <<setup.intents[a[1]].edit>>]
            BY <1>5 DEF WriteFile
        <2>3. att'[a].pc = "write" /\ att'[a].snap = <<EditOf(a)>>
            BY <1>2, <2>2 DEF EditOf, Fields
        <2> QED
            BY <1>0, <2>1, <2>3, WriteOne
    <1>6. CASE PatchFile(a)
        <2>1. att[a].tool = "patch_file"
            BY <1>1, <1>6, ToolsThatChange DEF PatchFile, Arrived
        <2>2. PICK new, p : /\ new = Patched(EditOf(a), world.file) /\ p = IF setup.backend = "ssh" THEN "check" ELSE "write"
                            /\ \/ \E result : att' = [att EXCEPT ![a] = Ends(a, result)]
                               \/ world.file = att[a].sha /\ att' = [att EXCEPT ![a].snap = new, ![a].pc = p]
            BY <1>6 DEF PatchFile, EditOf
        <2>3. CASE \E result : att' = [att EXCEPT ![a] = Ends(a, result)]
            BY <1>4, <2>3
        <2>4. CASE world.file = att[a].sha /\ att' = [att EXCEPT ![a].snap = new, ![a].pc = p]
            <3>1. att'[a].pc = p /\ att'[a].snap = new
                BY <1>2, <2>4 DEF Fields
            <3>2. att'[a].snap = Patched(EditOf(a), att[a].sha) /\ att'[a].pc \in {"check", "write"}
                BY <2>2, <2>4, <3>1
            <3> QED
                BY <1>0, <2>1, <3>2, WriteOne
        <2> QED
            BY <2>2, <2>3, <2>4
    <1>7. CASE RemoteCheck(a)
        <2>1. att[a].tool = "patch_file" /\ att[a].snap = Patched(EditOf(a), att[a].sha)
            BY <1>0, <1>7 DEF RemoteCheck, WriteInv
        <2>2. CASE att' = [att EXCEPT ![a].pc = "write"]
            <3>1. att'[a].pc = "write" /\ att'[a].snap = att[a].snap
                BY <1>2, <2>2 DEF Fields
            <3> QED
                BY <1>0, <2>1, <3>1, WriteOne
        <2>3. CASE att' = [att EXCEPT ![a] = Ends(a, "refused")]
            BY <1>4, <2>3
        <2> QED
            BY <1>7, <2>2, <2>3 DEF RemoteCheck
    <1>8. CASE PrepareCommand(a)
        <2>1. att[a].tool \in {"run_command", "start_background_task"}
            BY <1>1, <1>8, ToolsThatChange DEF PrepareCommand, Arrived
        <2>2. CASE att' = [att EXCEPT ![a].pc = "decide"]
            <3>1. att'[a].pc = "decide"
                BY <1>2, <2>2 DEF Fields
            <3> QED
                BY <1>0, <2>1, <3>1, WriteOne
        <2>3. CASE att' = [att EXCEPT ![a] = Ends(a, "refused")]
            BY <1>4, <2>3
        <2> QED
            BY <1>8, <2>2, <2>3 DEF PrepareCommand, Unchanged
    <1>9. CASE \/ Deny(a) \/ Rename(a) \/ CancelBackgroundTask(a) \/ WriteStdin(a)
               \/ RefuseConfirmation(a) \/ CommandEnds(a)
        <2>1. \E result : att' = [att EXCEPT ![a] = Ends(a, result)]
            BY <1>9 DEF Deny, Rename, CancelBackgroundTask, WriteStdin, RefuseConfirmation, CommandEnds, Changed, Unchanged
        <2> QED
            BY <1>4, <2>1
    <1>10. CASE Read(a) \/ AskForConfirmation(a) \/ RunFreely(a) \/ RunConfirmed(a) \/ Audit(a)
        <2>1. att'[a].pc \in {"running", "audit", "answer"}
            <3>1. CASE Read(a)
                <4> DEFINE e == Ends(a, "ok")
                <4>1. DOMAIN e = Fields /\ e.pc \in {"audit", "answer"}
                    BY <1>0, EndsIs
                <4>2. att' = [att EXCEPT ![a] = [e EXCEPT !.snap = world.file]]
                    BY <3>1 DEF Read
                <4> HIDE DEF e
                <4> QED
                    BY <1>2, <4>1, <4>2 DEF Fields
            <3>2. CASE AskForConfirmation(a)
                <4> DEFINE e == Ends(a, "confirmation_required")
                           n == Len(confirmations) + 1
                <4>1. DOMAIN e = Fields /\ e.pc \in {"audit", "answer"}
                    BY <1>0, EndsIs
                <4>2. att' = [att EXCEPT ![a] = [e EXCEPT !.confirmationId = n]]
                    BY <3>2 DEF AskForConfirmation
                <4> HIDE DEF e, n
                <4> QED
                    BY <1>2, <4>1, <4>2 DEF Fields
            <3>3. CASE RunFreely(a) \/ RunConfirmed(a)
                <4>1. att' = [att EXCEPT ![a].pc = "running"]
                    BY <3>3 DEF RunFreely, RunConfirmed, Start
                <4> QED
                    BY <1>2, <4>1 DEF Fields
            <3>4. CASE Audit(a)
                <4>1. \/ att' = [att EXCEPT ![a].pc = "answer"]
                      \/ att' = [att EXCEPT ![a].pc = "answer", ![a].result = "audit_failed"]
                    BY <3>4 DEF Audit
                <4> QED
                    BY <1>2, <4>1 DEF Fields
            <3> QED
                BY <1>10, <3>1, <3>2, <3>3, <3>4
        <2> QED
            BY <1>3, <2>1
    <1> QED
        BY <1>5, <1>6, <1>7, <1>8, <1>9, <1>10 DEF AgentStep

\* A step changes nothing, or it is the last change and one of a kind that its tool stands for.
LEMMA AgentEffects ==
    ASSUME ShapeInv, RepeatInv, NEW a \in Attempts, AgentStep(a)
    PROVE  \/ last' = last /\ world' = world
           \/ /\ last' = <<a[1], ToolOf(a)>>
              /\ \/ att[a].pc = "write" /\ world' = [world EXCEPT !.file = att[a].snap]
                 \/ /\ ToolOf(a) = "cancel_background_task" /\ world.task.state = "running"
                    /\ world' = [world EXCEPT !.task.state = "cancelled"]
                 \/ /\ ToolOf(a) \in {"run_command", "start_background_task", "write_background_task_stdin"}
                    /\ world'.task = world.task /\ WorldIsRecord'
    <1>0. Made(a) /\ OpenInv /\ WriteInv /\ WorldShape
        BY AgentMoves DEF Quiet, Changes, Early, Made, ShapeInv, RepeatInv
    <1>1. ToolOf(a) \in DOMAIN Handlers /\ ToolOf(a) = att[a].tool
        BY <1>0, ToolKnown DEF ToolOf
    <1>2. CASE \/ Deny(a) \/ Read(a) \/ WriteFile(a) \/ PatchFile(a) \/ RemoteCheck(a) \/ PrepareCommand(a)
               \/ AskForConfirmation(a) \/ RefuseConfirmation(a) \/ CommandEnds(a) \/ Audit(a)
        BY <1>2 DEF Deny, Read, WriteFile, PatchFile, RemoteCheck, PrepareCommand, AskForConfirmation,
                    RefuseConfirmation, CommandEnds, Audit, Unchanged
    <1>3. CASE Rename(a)
        BY <1>3 DEF Rename, Changed, Unchanged
    <1>4. CASE CancelBackgroundTask(a)
        <2>1. ToolOf(a) = "cancel_background_task"
            BY <1>1, <1>4, ToolsThatChange DEF CancelBackgroundTask, Arrived
        <2> QED
            BY <1>4, <2>1 DEF CancelBackgroundTask, Changed, Unchanged
    <1>5. CASE WriteStdin(a)
        <2>1. ToolOf(a) = "write_background_task_stdin"
            BY <1>1, <1>5, ToolsThatChange DEF WriteStdin, Arrived
        <2>2. \/ last' = last /\ world' = world
              \/ last' = <<a[1], ToolOf(a)>> /\ world' = [world EXCEPT !.stdin = @ + 1]
            BY <1>5 DEF WriteStdin, Changed, Unchanged
        <2> QED
            BY <1>0, <2>1, <2>2 DEF WorldShape, WorldIsRecord
    <1>6. CASE RunFreely(a) \/ RunConfirmed(a)
        <2>1. ToolOf(a) \in {"run_command", "start_background_task"} /\ Start(a)
            BY <1>0, <1>1, <1>6 DEF RunFreely, RunConfirmed, WriteInv
        <2>2. PICK c : c = setup.intents[a[1]].command
            OBVIOUS
        <2>3. \/ last' = last /\ world' = world
              \/ last' = <<a[1], ToolOf(a)>> /\ world' = [world EXCEPT !.runs[c] = @ + 1]
            BY <2>1, <2>2 DEF Start
        <2> QED
            BY <1>0, <2>1, <2>3 DEF WorldShape, WorldIsRecord
    <1> QED
        BY <1>2, <1>3, <1>4, <1>5, <1>6 DEF AgentStep

\* What the last change has left behind is still there after the next.
LEMMA AgentLast ==
    ASSUME ShapeInv, RepeatInv, NEW a \in Attempts, AgentStep(a)
    PROVE  LastInv'
    <1>0. /\ Keeps(a) /\ Made(a) /\ Made(a)' /\ OpenInv /\ WriteInv /\ WorldShape /\ LastInv /\ a[1] \in Intents
          /\ setup' = setup
        BY AgentMoves DEF Keeps, Quiet, Changes, Early, Made, ShapeInv, RepeatInv, Attempts
    <1>1. ToolOf(a) \in DOMAIN Handlers /\ ToolOf(a) = att[a].tool
        BY <1>0, ToolKnown DEF ToolOf
    <1>2. CASE last' = last /\ world' = world
        BY <1>2, AgentRepeat
    <1>3. PICK i \in Intents, t \in DOMAIN Handlers : i = a[1] /\ t = ToolOf(a)
        BY <1>0, <1>1
    <1>4. CASE last' = <<i, t>> /\ att[a].pc = "write" /\ world' = [world EXCEPT !.file = att[a].snap]
        <2>1. world'.file = att[a].snap /\ world'.task = world.task /\ WorldIsRecord'
            BY <1>0, <1>4 DEF WorldShape, WorldIsRecord
        <2>2. \/ t = "write_file" /\ att[a].snap = <<EditOf(a)>>
              \/ t = "patch_file" /\ att[a].snap = Patched(EditOf(a), att[a].sha)
            BY <1>0, <1>1, <1>3, <1>4 DEF WriteInv
        <2>3. t = "patch_file" => Patches(a)' /\ world'.file = Patched(EditOf(a)', att'[a].sha)
            BY <1>0, <1>1, <1>3, <2>1, <2>2 DEF Patches, Keeps, EditOf
        <2>4. t = "write_file" => world'.file = <<setup.intents[i].edit>>
            BY <1>3, <2>1, <2>2 DEF EditOf
        <2>5. t # "cancel_background_task" /\ last'[1] = i /\ last'[2] = t /\ last' \in Intents \X DOMAIN Handlers
            BY <1>4, <2>2
        <2> QED
            BY <1>0, <1>3, <2>1, <2>3, <2>4, <2>5 DEF LastInv
    <1>5. CASE last' = <<i, t>> /\ t = "cancel_background_task" /\ world' = [world EXCEPT !.task.state = "cancelled"]
        <2>1. world'.task.state = "cancelled" /\ "state" \in DOMAIN world'.task
            BY <1>0, <1>5 DEF WorldShape, LastInv
        <2>3. WorldIsRecord'
            BY <1>5 DEF WorldIsRecord
        <2>2. last'[1] = i /\ last'[2] = t /\ last' \in Intents \X DOMAIN Handlers
            BY <1>5
        <2> QED
            BY <1>5, <2>1, <2>2, <2>3 DEF LastInv
    <1>6. CASE /\ last' = <<i, t>> /\ world'.task = world.task /\ WorldIsRecord'
               /\ t \in {"run_command", "start_background_task", "write_background_task_stdin"}
        <2>2. last'[1] = i /\ last'[2] = t /\ last' \in Intents \X DOMAIN Handlers
            BY <1>6
        <2> QED
            BY <1>0, <1>6, <2>2 DEF LastInv
    <1> QED
        BY <1>2, <1>3, <1>4, <1>5, <1>6, AgentEffects

\* RepeatInv is inductive, given CallsInv.
LEMMA RepeatInvNext ==
    ASSUME CallsInv, RepeatInv, [Next]_vars
    PROVE  RepeatInv'
    <1>0. ShapeInv /\ CleanInv
        BY DEF CallsInv
    <1>1. CASE \E i \in Intents : Call(i)
        <2>1. PICK i \in Intents, id \in GivenOut \cup {None} : CallTool(i, id)
            BY <1>1 DEF Call
        <2> QED
            BY <1>0, <2>1, CallRepeat
    <1>2. ASSUME NEW a \in Attempts, AgentStep(a)
          PROVE  RepeatInv'
        BY <1>0, <1>2, AgentRepeat, AgentWrites, AgentLast DEF RepeatInv
    <1>3. ASSUME NEW a \in Attempts, Deliver(a) \/ Timeout(a)
          PROVE  RepeatInv'
        BY <1>0, <1>3, DeliverRepeat, TimeoutRepeat
    <1>4. CASE Restart
        BY <1>0, <1>4, RestartRepeat
    <1>5. CASE \/ Learn \/ (\E hash \in active : TaskEnds(hash)) \/ (\E id \in GivenOut : Expire(id))
               \/ UNCHANGED vars
        <2>1. setup' = setup /\ client' = client /\ att' = att /\ world' = world /\ last' = last
            BY <1>5 DEF Learn, TaskEnds, Expire, vars
        <2>2. (\A a \in Attempts : Same(a)) /\ (\A i \in Intents : Stays(i))
            BY <2>1 DEF Same, Stays
        <2>3. OpenInv' /\ ReadInv'
            BY <2>1, <2>2, OpenKept, ReadKept DEF RepeatInv
        <2>4. WriteInv' /\ LastInv'
            BY <2>1, <2>2, WriteKept, LastKept DEF RepeatInv, Same, Made
        <2> QED
            BY <2>3, <2>4 DEF RepeatInv
    <1> QED
        BY <1>1, <1>2, <1>3, <1>4, <1>5 DEF Next

\* RepeatInv holds when nothing has been called.
LEMMA RepeatInvInit == Init => RepeatInv
    <1> SUFFICES ASSUME Init
                 PROVE  RepeatInv
        OBVIOUS
    <1>1. \A a \in Attempts : att[a].pc = "idle" /\ att[a].open = FALSE
        <2>1. Idle.pc = "idle" /\ Idle.open = FALSE
            BY DEF Idle
        <2> QED
            BY <2>1 DEF Init
    <1>2. \A i \in Intents : client[i].stage = 1
        BY DEF Init
    <1>3. last = None /\ "state" \in DOMAIN world.task /\ WorldIsRecord
        BY DEF Init, WorldIsRecord
    <1>4. OpenInv
        BY <1>1, <1>2 DEF OpenInv, Made
    <1>5. ReadInv /\ WriteInv
        BY <1>1 DEF ReadInv, Patches, Made, WriteInv
    <1>6. LastInv
        BY <1>3 DEF LastInv
    <1> QED
        BY <1>4, <1>5, <1>6 DEF RepeatInv

\* A step by the call that made the last change, or by a repetition of it.
LEMMA RepeatChanges ==
    ASSUME ShapeInv, RepeatInv, NEW a \in Attempts, AgentStep(a), world' # world, last' = last
    PROVE  "idempotent" \notin Catalog[last[2]].hints
    <1>0. Made(a) /\ OpenInv /\ ReadInv /\ WriteInv /\ WorldShape /\ LastInv /\ a[1] \in Intents
        BY AgentMoves DEF Quiet, Changes, Early, Made, ShapeInv, RepeatInv, Attempts
    <1>1. ToolOf(a) \in DOMAIN Handlers /\ ToolOf(a) = att[a].tool
        BY <1>0, ToolKnown DEF ToolOf
    <1>2. last = <<a[1], ToolOf(a)>>
        BY AgentEffects
    <1>3. last # None /\ last[1] = a[1] /\ last[2] = ToolOf(a)
        BY <1>0, <1>1, <1>2, NoneAssumption
    <1>4. CASE att[a].pc = "write" /\ world' = [world EXCEPT !.file = att[a].snap]
        <2>1. world.file # att[a].snap
            BY <1>0, <1>4 DEF WorldShape, LastInv, WorldIsRecord
        <2>2. CASE att[a].tool = "write_file" /\ att[a].snap = <<EditOf(a)>>
            BY <1>0, <1>1, <1>3, <2>1, <2>2 DEF LastInv, EditOf
        <2>3. CASE att[a].tool = "patch_file" /\ att[a].snap = Patched(EditOf(a), att[a].sha)
            <3>1. PICK b \in Attempts : Patches(b) /\ b[1] = a[1] /\ world.file = Patched(EditOf(b), att[b].sha)
                BY <1>0, <1>1, <1>3, <2>3 DEF LastInv
            <3>2. att[b].sha = att[a].sha /\ EditOf(b) = EditOf(a)
                BY <1>0, <2>3, <3>1 DEF ReadInv, Patches, EditOf
            <3> QED
                BY <2>1, <2>3, <3>1, <3>2
        <2> QED
            BY <1>0, <1>4, <2>2, <2>3 DEF WriteInv
    <1>5. CASE ToolOf(a) = "cancel_background_task" /\ world.task.state = "running"
        BY <1>0, <1>3, <1>5 DEF LastInv
    <1>6. CASE ToolOf(a) \in {"run_command", "start_background_task", "write_background_task_stdin"}
        BY <1>3, <1>6, NotAnnounced
    <1> QED
        BY <1>4, <1>5, <1>6, AgentEffects

\* A call that is made again because its tool is announced as idempotent changes nothing that its
\* first attempt has not changed already, whichever of the two comes first and whatever was lost
\* in between: a write has the same content, a patch is of the same file that was read, and a task
\* that was cancelled does not run (the tools' idempotentHint, FileService.writeFile and patchFile,
\* cancelBackgroundTask).
THEOREM RepeatsAreHarmless == Spec => RepeatIsHarmless
    <1>1. ASSUME CallsInv, RepeatInv, [Next]_vars
          PROVE  [world' # world /\ last' = last => "idempotent" \notin Catalog[last[2]].hints]_vars
        <2>1. ASSUME NEW a \in Attempts, AgentStep(a)
              PROVE  world' # world /\ last' = last => "idempotent" \notin Catalog[last[2]].hints
            BY <1>1, <2>1, RepeatChanges DEF CallsInv
        <2>2. CASE \/ Learn \/ Restart \/ (\E hash \in active : TaskEnds(hash)) \/ (\E id \in GivenOut : Expire(id))
                   \/ (\E i \in Intents : Call(i)) \/ (\E a \in Attempts : Deliver(a) \/ Timeout(a)) \/ UNCHANGED vars
            <3>1. ASSUME NEW i \in Intents, NEW id, CallTool(i, id)
                  PROVE  world' = world
                BY <3>1 DEF CallTool
            <3>2. ASSUME NEW a \in Attempts, Deliver(a) \/ Timeout(a)
                  PROVE  world' = world
                BY <3>2 DEF Deliver, Timeout
            <3>3. world' = world
                BY <2>2, <3>1, <3>2 DEF Learn, Restart, TaskEnds, Expire, Call, vars
            <3> QED
                BY <3>3
        <2> QED
            BY <1>1, <2>1, <2>2 DEF Next
    <1>2. CallsInv /\ RepeatInv /\ [Next]_vars => RepeatInv'
        BY RepeatInvNext
    <1> QED
        BY <1>1, <1>2, CallsInvHolds, RepeatInvInit, PTL DEF Spec, RepeatIsHarmless

=============================================================================
