----------------------------- MODULE BackgroundTasks -----------------------------
(***************************************************************************)
(* BackgroundTaskManager of the workspace agent: shell commands that run   *)
(* on after the call that started them, with a record of each in a file    *)
(* and in the records map.                                                 *)
(*                                                                         *)
(* A step is what runs between two waits for I/O: Node finishes all the    *)
(* continuations of one event (a microtask drain) before the next event.   *)
(* A file write is an I/O wait, so the write chain of each task is part of *)
(* the state; a reader waits for the writes that were queued when it came, *)
(* and goes on in the drain of the last of them (Due).                     *)
(*                                                                         *)
(* execute() is asynchronous too; run says where it stands:                *)
(*   none      not called, or settled                                      *)
(*   persist   waits for the record "running" to be written                *)
(*   runner    in runner.start, before the child is spawned                *)
(*   child     the child was spawned, runner.start waits for it            *)
(*   settled   runner.start has settled, the logs are being sanitized      *)
(*   reading   in readPersistedRecord, behind the writes queued before     *)
(*   result    writes the result file                                      *)
(*   final     waits for the final record to be written                    *)
(***************************************************************************)
EXTENDS Naturals, Sequences, FiniteSets

CONSTANTS
    Tasks,         \* task identifiers, each for one start call, in the order of the calls
    CommandOf,     \* the workspace and the command hash of each start call
    OwnerOf,       \* ownerScopeHash: whose start call it is
    MaxRetained,   \* maxRetainedTerminalTasks
    MaxCrashes,    \* bound: restarts of the agent in one behaviour
    MaxFaults      \* bound: failed writes and failed terminations

ASSUME TasksAssumption == Tasks \in SUBSET Nat /\ IsFiniteSet(Tasks) /\ CommandOf \in [Tasks -> Nat]
                             /\ OwnerOf \in [Tasks -> Nat]
ASSUME BoundsAssumption == /\ MaxRetained \in Nat \ {0}
                           /\ MaxCrashes \in Nat /\ MaxFaults \in Nat

ActiveStates == {"starting", "running"}
FinalStates  == {"succeeded", "failed", "cancelled"}

\* A persisted record: its state, and whether it holds the pid of the child.
Records == [state : ActiveStates \cup FinalStates, pid : BOOLEAN]
NoRecord == [state |-> "none", pid |-> FALSE]
Writers == {"start", "run", "pid", "final", "catch", "cancel", "refresh"}
RunStates == {"none", "persist", "runner", "child", "settled", "reading", "result", "final"}

VARIABLES
    disk,         \* the task files
    records,      \* records
    writes,       \* writes: the chain of each task, with who waits for each write
    startQueue,   \* startQueue: the start calls in the order they came
    starting,     \* where each start call stands
    run,          \* where execute() stands
    current,      \* current: the record held by execute()
    settled,      \* how runner.start settled: a result of 0, another, a rejection
    behind,       \* writes that execute() still waits for in readPersistedRecord
    controllers,  \* controllers: none, live, or aborted
    proc,         \* the child process: none, alive, exited
    cancelling,   \* where the cancel call of each task stands
    cancelBehind, \* writes the cancel call still waits for
    crashes, faults,
    disowned,     \* history: processes that outlived what the manager knew of them
    cancelled     \* history: tasks some cancel call has marked

execVars == <<run, current, settled, behind, controllers>>
cancelVars == <<cancelling, cancelBehind, cancelled>>
startVars == <<startQueue, starting>>
bounds == <<crashes, faults>>
vars == <<disk, records, writes, startVars, execVars, proc, cancelVars, bounds, disowned>>

TypeOK ==
    /\ disk \in [Tasks -> Records \cup {NoRecord}]
    /\ records \in [Tasks -> Records \cup {NoRecord}]
    /\ writes \in [Tasks -> Seq([rec : Records, by : Writers])]
    /\ startQueue \in Seq(Tasks)
    /\ starting \in [Tasks -> {"idle", "queued", "writing", "done"}]
    /\ run \in [Tasks -> RunStates]
    /\ current \in [Tasks -> Records \cup {NoRecord}]
    /\ settled \in [Tasks -> {"none", "succeeded", "failed", "rejected"}]
    /\ behind \in [Tasks -> Nat]
    /\ controllers \in [Tasks -> {"none", "live", "aborted"}]
    /\ proc \in [Tasks -> {"none", "alive", "exited"}]
    /\ cancelling \in [Tasks -> {"idle", "reading", "writing", "awaiting", "terminating", "done", "lost"}]
    /\ cancelBehind \in [Tasks -> Nat]
    /\ crashes \in 0..MaxCrashes
    /\ faults \in 0..MaxFaults
    /\ disowned \subseteq Tasks
    /\ cancelled \subseteq Tasks

Init ==
    /\ disk = [t \in Tasks |-> NoRecord]
    /\ records = [t \in Tasks |-> NoRecord]
    /\ writes = [t \in Tasks |-> <<>>]
    /\ startQueue = <<>>
    /\ starting = [t \in Tasks |-> "idle"]
    /\ run = [t \in Tasks |-> "none"]
    /\ current = [t \in Tasks |-> NoRecord]
    /\ settled = [t \in Tasks |-> "none"]
    /\ behind = [t \in Tasks |-> 0]
    /\ controllers = [t \in Tasks |-> "none"]
    /\ proc = [t \in Tasks |-> "none"]
    /\ cancelling = [t \in Tasks |-> "idle"]
    /\ cancelBehind = [t \in Tasks |-> 0]
    /\ crashes = 0
    /\ faults = 0
    /\ disowned = {}
    /\ cancelled = {}

-----------------------------------------------------------------------------
IsActive(rec) == rec.state \in ActiveStates

\* persist: the write joins the chain of its task.
Persist(t, rec, by) ==
    writes' = [writes EXCEPT ![t] = Append(@, [rec |-> rec, by |-> by])]

As(rec, state) == [rec EXCEPT !.state = state]

\* Readers whose last awaited write has completed: they run before any other event.
ExecuteDue(t) == run[t] = "reading" /\ behind[t] = 0
CancelDue(t)  == cancelling[t] = "reading" /\ cancelBehind[t] = 0
Drained == \A t \in Tasks : ~ExecuteDue(t) /\ ~CancelDue(t)

Fault == faults < MaxFaults /\ faults' = faults + 1

\* executions.has(id) || controllers.has(id)
Owned(t) == run[t] # "none" \/ controllers[t] # "none"

\* Mutant: a record without a pid counts as that of a running process.
InterruptedWithPid(t) ==
    /\ IsActive(records[t])
    /\ ~Owned(t)
    /\ records[t].pid /\ proc[t] # "alive"

\* refreshRecoveredTask finds an active record without an owner or a process.
Interrupted(t) ==
    /\ IsActive(records[t])
    /\ ~Owned(t)
    /\ ~(records[t].pid /\ proc[t] = "alive")

-----------------------------------------------------------------------------
(***************************************************************************)
(* start_background_task                                                   *)
(***************************************************************************)
StartCall(t) ==
    /\ Drained
    /\ starting[t] = "idle" /\ \A u \in Tasks : u < t => starting[u] # "idle"
    /\ starting' = [starting EXCEPT ![t] = "queued"]
    /\ startQueue' = Append(startQueue, t)
    /\ UNCHANGED <<disk, records, writes, execVars, proc, cancelVars, bounds, disowned>>

\* Mutant: start calls do not wait for one another.
MyTurnAlways(t) == starting[t] = "queued"

\* await previousStart
MyTurn(t) == starting[t] = "queued" /\ Head(startQueue) = t

\* releaseQueue: the call at the head lets the next one go on.
Leave(t) ==
    /\ starting' = [starting EXCEPT ![t] = "done"]
    /\ startQueue' = Tail(startQueue)

\* canAccessRecord: the list inside a start call shows it the tasks of its owner.
Accessible(t) == {u \in Tasks : OwnerOf[u] = OwnerOf[t]}

Duplicates(t) == {u \in Accessible(t) : CommandOf[u] = CommandOf[t] /\ IsActive(records[u])}

\* The list of the owner's tasks, its interrupted ones refreshed, holds an active
\* task with the same command: it is returned.
StartDuplicate(t) ==
    /\ Drained
    /\ MyTurn(t)
    /\ \A u \in Accessible(t) : ~Interrupted(u)
    /\ Duplicates(t) # {}
    /\ Leave(t)
    /\ UNCHANGED <<disk, records, writes, execVars, proc, cancelVars, bounds, disowned>>

\* What pruneTerminalRecords may remove: the terminal records that are too old,
\* and the oldest ones beyond the limit.  Which those are is left open.
Prunable(recs, V) ==
    LET terminal == {u \in Tasks : recs[u].state \in FinalStates} IN
        V \subseteq terminal /\ Cardinality(terminal \ V) <= MaxRetained

Pruned(recs, V) == [u \in Tasks |-> IF u \in V THEN NoRecord ELSE recs[u]]

\* No such task: the terminal records are pruned, the log files created, and the
\* record is on its way to the disk.
StartNew(t) ==
    /\ Drained
    /\ MyTurn(t)
    /\ \A u \in Accessible(t) : ~Interrupted(u)
    /\ Duplicates(t) = {}
    /\ \E V \in SUBSET Tasks :
         /\ Prunable(records, V)
         /\ records' = Pruned(records, V)
         /\ disk' = Pruned(disk, V)
    /\ Persist(t, [state |-> "starting", pid |-> FALSE], "start")
    /\ starting' = [starting EXCEPT ![t] = "writing"]
    /\ UNCHANGED <<startQueue, execVars, proc, cancelVars, bounds, disowned>>

\* initializeTaskFiles fails, or a write that the list waits for: the call throws
\* and releases the queue.
StartFails(t) ==
    /\ Drained
    /\ MyTurn(t)
    /\ Fault
    /\ Leave(t)
    /\ UNCHANGED <<disk, records, writes, execVars, proc, cancelVars, crashes, disowned>>

-----------------------------------------------------------------------------
(***************************************************************************)
(* execute and the runner                                                  *)
(***************************************************************************)
\* The child is spawned; onPid persists the pid without waiting for the write.
Spawn(t) ==
    /\ Drained
    /\ run[t] = "runner"
    /\ run' = [run EXCEPT ![t] = "child"]
    /\ proc' = [proc EXCEPT ![t] = "alive"]
    /\ current' = [current EXCEPT ![t].pid = TRUE]
    /\ Persist(t, [current[t] EXCEPT !.pid = TRUE], "pid")
    /\ UNCHANGED <<disk, records, startVars, settled, behind, controllers, cancelVars,
                   bounds, disowned>>

Settled(t, how) ==
    /\ run' = [run EXCEPT ![t] = "settled"]
    /\ settled' = [settled EXCEPT ![t] = how]
    /\ UNCHANGED <<disk, records, writes, startVars, current, behind, controllers,
                   cancelVars, crashes>>

\* The command is not authorized, the shell is missing, or the spawn fails.
SpawnFails(t) ==
    /\ Drained
    /\ run[t] = "runner"
    /\ Settled(t, "rejected")
    /\ UNCHANGED <<proc, faults, disowned>>

\* The child closes, by itself or because it was terminated: an abort rejects,
\* a timeout is a result that did not succeed.
ChildCloses(t) ==
    /\ Drained
    /\ run[t] = "child"
    /\ proc' = [proc EXCEPT ![t] = "exited"]
    /\ \E how \in IF controllers[t] = "aborted" THEN {"rejected"}
                  ELSE {"succeeded", "failed", "rejected"} : Settled(t, how)
    /\ UNCHANGED <<faults, disowned>>

\* Termination after an abort or a timeout fails: the runner rejects while the
\* process lives on.
TerminationFails(t) ==
    /\ Drained
    /\ run[t] = "child" /\ proc[t] = "alive"
    /\ Fault
    /\ Settled(t, "rejected")
    /\ disowned' = disowned \cup {t}
    /\ UNCHANGED proc

\* A process that nobody waits for ends.
OrphanExits(t) ==
    /\ Drained
    /\ proc[t] = "alive" /\ run[t] # "child"
    /\ proc' = [proc EXCEPT ![t] = "exited"]
    /\ UNCHANGED <<disk, records, writes, startVars, execVars, cancelVars, bounds, disowned>>

\* The logs are sanitized; readPersistedRecord waits for the writes of now.
LogsSanitized(t) ==
    /\ Drained
    /\ run[t] = "settled"
    /\ run' = [run EXCEPT ![t] = "reading"]
    /\ behind' = [behind EXCEPT ![t] = Len(writes[t])]
    /\ UNCHANGED <<disk, records, writes, startVars, current, settled, controllers, proc,
                   cancelVars, bounds, disowned>>

\* execute() settles: its finally block, and executions.delete.
Ended(t) ==
    /\ run' = [run EXCEPT ![t] = "none"]
    /\ controllers' = [controllers EXCEPT ![t] = "none"]

\* Mutant: the record is not read again before the final one is written.
SeesCancelledNot(t) == FALSE

\* latest?.state === "cancelled"
SeesCancelled(t) == records[t].state = "cancelled"

\* The record is read: a cancelled task is left as it is, a result is written to
\* its file first, a rejection goes straight to the final record.
ReadLatest(t) ==
    /\ ExecuteDue(t)
    /\ \/ /\ SeesCancelled(t)
          /\ Ended(t)
          /\ UNCHANGED <<writes, current>>
       \/ /\ ~SeesCancelled(t)
          /\ settled[t] = "rejected"
          /\ run' = [run EXCEPT ![t] = "final"]
          /\ Persist(t, As(current[t], "failed"), "catch")
          /\ UNCHANGED <<current, controllers>>
       \/ /\ ~SeesCancelled(t)
          /\ settled[t] # "rejected"
          /\ run' = [run EXCEPT ![t] = "result"]
          /\ current' = [current EXCEPT ![t] = As(@, settled[t])]
          /\ UNCHANGED <<writes, controllers>>
    /\ UNCHANGED <<disk, records, startVars, settled, behind, proc, cancelVars, bounds,
                   disowned>>

ResultWritten(t) ==
    /\ Drained
    /\ run[t] = "result"
    /\ run' = [run EXCEPT ![t] = "final"]
    /\ Persist(t, current[t], "final")
    /\ UNCHANGED <<disk, records, startVars, current, settled, behind, controllers, proc,
                   cancelVars, bounds, disowned>>

ResultFails(t) ==
    /\ Drained
    /\ run[t] = "result"
    /\ Fault
    /\ Settled(t, "rejected")
    /\ UNCHANGED <<proc, disowned>>

-----------------------------------------------------------------------------
(***************************************************************************)
(* cancel_background_task, by the owner of the task: for anybody else      *)
(* getAccessibleRecord finds no such task, and nothing happens.            *)
(***************************************************************************)
CancelCall(t) ==
    /\ Drained
    /\ cancelling[t] = "idle" /\ records[t] # NoRecord
    /\ cancelling' = [cancelling EXCEPT ![t] = "reading"]
    /\ cancelBehind' = [cancelBehind EXCEPT ![t] = Len(writes[t])]
    /\ UNCHANGED <<disk, records, writes, startVars, execVars, proc, cancelled, bounds,
                   disowned>>

\* getAccessibleRecord returns: a task that is not active, or turns out to be
\* interrupted, is not cancelled.
CancelReads(t) ==
    /\ CancelDue(t)
    /\ \/ /\ Interrupted(t)
          /\ Persist(t, As(records[t], "failed"), "refresh")
          /\ cancelling' = [cancelling EXCEPT ![t] = "done"]
          /\ UNCHANGED cancelled
       \/ /\ ~IsActive(records[t])
          /\ cancelling' = [cancelling EXCEPT ![t] = "done"]
          /\ UNCHANGED <<writes, cancelled>>
       \/ /\ IsActive(records[t]) /\ ~Interrupted(t)
          /\ Persist(t, As(records[t], "cancelled"), "cancel")
          /\ cancelling' = [cancelling EXCEPT ![t] = "writing"]
          /\ cancelled' = cancelled \cup {t}
    /\ UNCHANGED <<disk, records, startVars, execVars, proc, cancelBehind, bounds, disowned>>

\* await executions.get(id)
CancelReturns(t) ==
    /\ Drained
    /\ cancelling[t] = "awaiting" /\ run[t] = "none"
    /\ cancelling' = [cancelling EXCEPT ![t] = "done"]
    /\ UNCHANGED <<disk, records, writes, startVars, execVars, proc, cancelBehind,
                   cancelled, bounds, disowned>>

\* runner.terminate(pid) of a task that this agent did not start.
Terminated(t) ==
    /\ Drained
    /\ cancelling[t] = "terminating"
    /\ cancelling' = [cancelling EXCEPT ![t] = "done"]
    /\ proc' = [proc EXCEPT ![t] = IF @ = "alive" THEN "exited" ELSE @]
    /\ UNCHANGED <<disk, records, writes, startVars, execVars, cancelBehind, cancelled,
                   bounds, disowned>>

\* The process tree outlives its termination, and the call throws.
TerminateFails(t) ==
    /\ Drained
    /\ cancelling[t] = "terminating"
    /\ Fault
    /\ cancelling' = [cancelling EXCEPT ![t] = "done"]
    /\ UNCHANGED <<disk, records, writes, startVars, execVars, proc, cancelBehind,
                   cancelled, crashes, disowned>>

(***************************************************************************)
(* get, list, wait, and the list inside start: what they change is that an *)
(* interrupted task is marked failed.  A list that waited for the writes of *)
(* other tasks gets here with writes of this one still queued.             *)
(***************************************************************************)
Refresh(t) ==
    /\ Drained
    /\ Interrupted(t)
    /\ \A i \in DOMAIN writes[t] : writes[t][i].by # "refresh"
    /\ Persist(t, As(records[t], "failed"), "refresh")
    /\ UNCHANGED <<disk, records, startVars, execVars, proc, cancelVars, bounds, disowned>>

-----------------------------------------------------------------------------
(***************************************************************************)
(* The end of a write, and what its writer does next.                      *)
(***************************************************************************)
\* The readers in the chain move up by one write.
MoveUp(t) ==
    /\ behind' = [behind EXCEPT ![t] = IF @ > 0 THEN @ - 1 ELSE 0]
    /\ cancelBehind' = [cancelBehind EXCEPT ![t] = IF @ > 0 THEN @ - 1 ELSE 0]

\* writeJsonAtomically could not rename over the file: it removes it first.
Unlink(t) ==
    /\ Drained
    /\ writes[t] # <<>> /\ disk[t] # NoRecord
    /\ disk' = [disk EXCEPT ![t] = NoRecord]
    /\ UNCHANGED <<records, writes, startVars, execVars, proc, cancelVars, bounds, disowned>>

\* Mutant: only an execution of this agent is stopped.
AbortOwned(t) ==
    /\ controllers' = [controllers EXCEPT ![t] = IF @ = "none" THEN @ ELSE "aborted"]
    /\ cancelling' = [cancelling EXCEPT ![t] =
                         IF controllers[t] # "none" THEN "awaiting" ELSE "done"]

\* The cancel call goes on: it aborts the execution, or terminates the process.
Abort(t) ==
    IF controllers[t] # "none"
    THEN /\ controllers' = [controllers EXCEPT ![t] = "aborted"]
         /\ cancelling' = [cancelling EXCEPT ![t] = "awaiting"]
    ELSE /\ cancelling' = [cancelling EXCEPT ![t] = IF records'[t].pid THEN "terminating"
                                                                        ELSE "done"]
         /\ UNCHANGED controllers

WriteDone(t) ==
    /\ Drained
    /\ writes[t] # <<>>
    /\ LET w == Head(writes[t]) IN
         /\ disk' = [disk EXCEPT ![t] = w.rec]
         /\ records' = [records EXCEPT ![t] = w.rec]
         /\ MoveUp(t)
         /\ CASE w.by = "start" ->
                   /\ controllers' = [controllers EXCEPT ![t] = "live"]
                   /\ run' = [run EXCEPT ![t] = "persist"]
                   /\ current' = [current EXCEPT ![t] = As(w.rec, "running")]
                   /\ writes' = [writes EXCEPT ![t] =
                          Append(Tail(@), [rec |-> As(w.rec, "running"), by |-> "run"])]
                   /\ Leave(t)
                   /\ UNCHANGED cancelling
              [] w.by = "run" ->
                   /\ run' = [run EXCEPT ![t] = "runner"]
                   /\ writes' = [writes EXCEPT ![t] = Tail(@)]
                   /\ UNCHANGED <<startVars, current, controllers, cancelling>>
              [] w.by \in {"final", "catch"} ->
                   /\ Ended(t)
                   /\ writes' = [writes EXCEPT ![t] = Tail(@)]
                   /\ UNCHANGED <<startVars, current, cancelling>>
              [] w.by = "cancel" ->
                   /\ Abort(t)
                   /\ writes' = [writes EXCEPT ![t] = Tail(@)]
                   /\ UNCHANGED <<startVars, run, current>>
              [] w.by \in {"pid", "refresh"} ->
                   /\ writes' = [writes EXCEPT ![t] = Tail(@)]
                   /\ UNCHANGED <<startVars, run, current, controllers, cancelling>>
    /\ UNCHANGED <<settled, proc, cancelled, bounds, disowned>>

(***************************************************************************)
(* A write fails, and with it every write and every read chained behind it. *)
(***************************************************************************)
FailedWriters(t) == {writes[t][i].by : i \in DOMAIN writes[t]}

\* execute() throws out of its try block: on to the catch block.
ThrowsInTry(t) == \/ "final" \in FailedWriters(t)
                  \/ run[t] = "reading" /\ settled[t] # "rejected"

\* execute() throws out of its catch block, and ends.
ThrowsInCatch(t) == \/ "catch" \in FailedWriters(t)
                    \/ run[t] = "reading" /\ settled[t] = "rejected"

WriteFails(t) ==
    /\ Drained
    /\ writes[t] # <<>>
    /\ "pid" \notin FailedWriters(t)
    /\ Fault
    /\ writes' = [writes EXCEPT ![t] = <<>>]
    /\ behind' = [behind EXCEPT ![t] = 0]
    /\ cancelBehind' = [cancelBehind EXCEPT ![t] = 0]
    /\ IF "start" \in FailedWriters(t) THEN Leave(t) ELSE UNCHANGED startVars
    \* the record "running" is written before the try block: no finally block runs
    /\ run' = [run EXCEPT ![t] = IF "run" \in FailedWriters(t) \/ ThrowsInCatch(t) THEN "none"
                                 ELSE IF ThrowsInTry(t) THEN "settled"
                                 ELSE @]
    /\ controllers' = [controllers EXCEPT ![t] = IF ThrowsInCatch(t) THEN "none" ELSE @]
    /\ settled' = [settled EXCEPT ![t] = IF ThrowsInTry(t) THEN "rejected" ELSE @]
    /\ cancelling' = [cancelling EXCEPT ![t] =
          IF "cancel" \in FailedWriters(t) \/ @ = "reading" THEN "done" ELSE @]
    /\ UNCHANGED <<disk, records, current, proc, cancelled, crashes, disowned>>

(***************************************************************************)
(* The agent process dies and is started again: initialize loads what is on *)
(* the disk and prunes it.  The children may survive.  A failed write of a *)
(* pid ends here too: nobody handles its rejection, and the agent exits.   *)
(***************************************************************************)
Restart ==
    /\ crashes < MaxCrashes
    /\ crashes' = crashes + 1
    /\ \E V \in SUBSET Tasks : /\ Prunable(disk, V)
                               /\ disk' = Pruned(disk, V)
                               /\ records' = Pruned(disk, V)
    /\ writes' = [t \in Tasks |-> <<>>]
    /\ startQueue' = <<>>
    /\ starting' = [t \in Tasks |-> IF starting[t] = "idle" THEN "idle" ELSE "done"]
    /\ run' = [t \in Tasks |-> "none"]
    /\ current' = [t \in Tasks |-> NoRecord]
    /\ settled' = [t \in Tasks |-> "none"]
    /\ behind' = [t \in Tasks |-> 0]
    /\ controllers' = [t \in Tasks |-> "none"]
    /\ \E dead \in SUBSET {t \in Tasks : proc[t] = "alive"} :
         proc' = [t \in Tasks |-> IF t \in dead THEN "exited" ELSE proc[t]]
    /\ cancelling' = [t \in Tasks |-> IF cancelling[t] \in {"idle", "done"} THEN cancelling[t]
                                       ELSE "lost"]
    /\ cancelBehind' = [t \in Tasks |-> 0]
    /\ disowned' = disowned \cup {t \in Tasks : proc[t] = "alive"
                                    /\ ~(IsActive(disk[t]) /\ disk[t].pid)}
    /\ UNCHANGED <<faults, cancelled>>

-----------------------------------------------------------------------------
StartStep(t) == StartCall(t) \/ StartDuplicate(t) \/ StartNew(t) \/ StartFails(t)

ExecuteStep(t) ==
    \/ Spawn(t) \/ SpawnFails(t) \/ ChildCloses(t) \/ TerminationFails(t) \/ OrphanExits(t)
    \/ LogsSanitized(t) \/ ReadLatest(t) \/ ResultWritten(t) \/ ResultFails(t)

CancelStep(t) ==
    \/ CancelCall(t) \/ CancelReads(t) \/ CancelReturns(t)
    \/ Terminated(t) \/ TerminateFails(t)

WriteStep(t) == Unlink(t) \/ WriteDone(t) \/ WriteFails(t)

Next ==
    \/ \E t \in Tasks : StartStep(t) \/ ExecuteStep(t) \/ CancelStep(t) \/ WriteStep(t)
                        \/ Refresh(t)
    \/ Restart

Spec == Init /\ [][Next]_vars

-----------------------------------------------------------------------------
(***************************************************************************)
(* Safety                                                                  *)
(***************************************************************************)
\* A command of one owner does not run twice at the same time: when two processes
\* of it are alive, one of them was cancelled, or the agent had lost track of it
\* (it died before the pid was on disk, or could not terminate the process).
OneProcessPerCommand ==
    \A t, u \in Tasks :
        t # u /\ OwnerOf[t] = OwnerOf[u] /\ CommandOf[t] = CommandOf[u]
          /\ proc[t] = "alive" /\ proc[u] = "alive"
            => (t \in disowned \cup cancelled) \/ (u \in disowned \cup cancelled)

\* A cancelled task stays cancelled, as the test "cancels an active task and
\* keeps cancelled as its terminal state" has it.
CancelledIsFinal ==
    [][\A t \in Tasks : records[t].state = "cancelled" /\ crashes' = crashes =>
          records'[t].state \in {"cancelled", "none"}]_vars

\* A cancelled task that nobody is writing about any more, and whose child was
\* spawned before, stays cancelled however it ends: execute() reads the record
\* again before it writes its own.
Quiet(t) == writes[t] = <<>> /\ run[t] \in {"none", "child", "settled", "reading"}

QuietCancelIsFinal ==
    [][\A t \in Tasks : records[t].state = "cancelled" /\ Quiet(t) =>
          \/ records'[t].state = "cancelled" /\ Quiet(t)'
          \/ records'[t] = NoRecord]_vars

-----------------------------------------------------------------------------
(***************************************************************************)
(* Liveness: I/O completes, the runner's timeout ends every child, and     *)
(* someone polls the tasks.                                                *)
(***************************************************************************)
Runs(t) == \/ Spawn(t) \/ SpawnFails(t) \/ ChildCloses(t) \/ LogsSanitized(t)
           \/ ReadLatest(t) \/ ResultWritten(t)

Fairness ==
    \A t \in Tasks :
        /\ WF_vars(WriteDone(t))
        /\ WF_vars(Runs(t))
        /\ WF_vars(StartDuplicate(t) \/ StartNew(t))
        /\ WF_vars(CancelReads(t) \/ CancelReturns(t) \/ Terminated(t))
        /\ WF_vars(Refresh(t))

LiveSpec == Spec /\ Fairness

\* A cancel call that marked a task returns with the process gone, whether this
\* agent or an earlier one started it, or is lost because the agent died.
CancelEndsProcess ==
    \A t \in Tasks : cancelling[t] = "writing" ~>
        \/ cancelling[t] = "lost" \/ faults > 0
        \/ cancelling[t] = "done" /\ proc[t] # "alive"

\* A task that this agent executes does not stay active.
TasksEnd ==
    \A t \in Tasks : IsActive(records[t]) ~>
        \/ ~IsActive(records[t])
        \/ ~Owned(t) /\ proc[t] = "alive"
        \/ run[t] = "none" /\ controllers[t] # "none"
=============================================================================
