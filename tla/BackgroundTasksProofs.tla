------------------------ MODULE BackgroundTasksProofs ------------------------
(***************************************************************************)
(* Proofs about background tasks, for any tasks, commands, crashes and     *)
(* faults.                                                                 *)
(***************************************************************************)
EXTENDS BackgroundTasks, TLAPS

-----------------------------------------------------------------------------
(***************************************************************************)
(* The inductive invariant                                                 *)
(***************************************************************************)
\* A start call that waits or writes is in the queue; the one that writes is at its head.
QueueInv ==
    \A t \in Tasks :
        /\ starting[t] \in {"queued", "writing"} => \E i \in 1..Len(startQueue) : startQueue[i] = t
        /\ starting[t] = "writing" => Head(startQueue) = t

\* There is nothing of a task that has not been started.
Nothing(t) ==
    /\ disk[t] = NoRecord /\ records[t] = NoRecord /\ run[t] = "none"
    /\ controllers[t] = "none" /\ proc[t] = "none" /\ cancelling[t] = "idle"
    /\ t \notin cancelled /\ t \notin disowned

BornInv(t) ==
    /\ starting[t] \in {"idle", "queued"} => Nothing(t) /\ writes[t] = <<>>
    /\ starting[t] = "writing" => Nothing(t) /\ Len(writes[t]) = 1 /\ writes[t][1].by = "start"

\* execute() before the child has closed.
InRunner(t) == run[t] \in {"persist", "runner", "child"}

\* The record that execute() holds while there is no child, and with one.
HeldInv(t) ==
    /\ run[t] \in {"persist", "runner"} => current[t] = [state |-> "running", pid |-> FALSE] /\ proc[t] = "none"
    /\ run[t] = "child" => current[t].state = "running"
    /\ run[t] # "none" => current[t] \in Records
    /\ run[t] \in {"settled", "reading", "result"} => settled[t] # "none"

\* A process the manager should know of.
Tracked(t) == proc[t] = "alive" /\ t \notin disowned \cup cancelled

\* The writes that are queued for a task.
ChainInv(t) ==
    \A i \in 1..Len(writes[t]) :
        LET w == writes[t][i] IN
        /\ w.by = "start" => i = 1 /\ starting[t] = "writing"
        /\ w.by = "run" => i = 1 /\ run[t] = "persist"
        /\ w.by \in {"start", "run", "pid"} => IsActive(w.rec)
        /\ w.by = "start" => w.rec = [state |-> "starting", pid |-> FALSE]
        /\ w.by = "cancel" => t \in cancelled
        /\ w.by \in {"final", "catch", "refresh"} => ~InRunner(t) /\ ~Tracked(t)
        /\ w.by \in {"final", "catch"} => current[t] \in Records

\* A task whose process the manager should know of, or that may get one, has an active record;
\* the pid is in it when this agent did not start the process.
KnownInv(t) ==
    /\ InRunner(t) /\ t \notin cancelled => IsActive(records[t])
    /\ Tracked(t) /\ run[t] # "child" => run[t] = "none" /\ IsActive(records[t]) /\ records[t].pid /\ writes[t] = <<>>

DiskInv(t) == disk[t] \in {records[t], NoRecord}

TaskInv(t) == BornInv(t) /\ HeldInv(t) /\ ChainInv(t) /\ KnownInv(t) /\ DiskInv(t)

\* A task that has, or may get, a process of which the manager should know.
Busy(t) == t \notin disowned \cup cancelled /\ (starting[t] = "writing" \/ InRunner(t) \/ proc[t] = "alive")

BusyInv ==
    \A t, u \in Tasks : t # u /\ OwnerOf[t] = OwnerOf[u] /\ CommandOf[t] = CommandOf[u] => ~(Busy(t) /\ Busy(u))

TasksInv == TypeOK /\ QueueInv /\ (\A t \in Tasks : TaskInv(t)) /\ BusyInv

-----------------------------------------------------------------------------
(***************************************************************************)
(* Frames                                                                  *)
(***************************************************************************)
\* Nothing of a task changes.
Frozen(u) ==
    /\ disk'[u] = disk[u] /\ records'[u] = records[u] /\ writes'[u] = writes[u] /\ starting'[u] = starting[u]
    /\ run'[u] = run[u] /\ current'[u] = current[u] /\ settled'[u] = settled[u]
    /\ controllers'[u] = controllers[u] /\ proc'[u] = proc[u] /\ cancelling'[u] = cancelling[u]
    /\ (u \in cancelled' <=> u \in cancelled) /\ (u \in disowned' <=> u \in disowned)

\* A task that a step leaves alone keeps its invariant and stays as busy as it was.
LEMMA FrozenKept ==
    ASSUME NEW u \in Tasks, TaskInv(u), Frozen(u)
    PROVE  TaskInv(u)' /\ (Busy(u)' <=> Busy(u))
    <1>1. (Nothing(u)' <=> Nothing(u)) /\ (InRunner(u)' <=> InRunner(u)) /\ (Tracked(u)' <=> Tracked(u))
        BY DEF Frozen, Nothing, InRunner, Tracked
    <1>2. BornInv(u)' /\ HeldInv(u)' /\ KnownInv(u)' /\ DiskInv(u)'
        BY <1>1 DEF TaskInv, BornInv, HeldInv, KnownInv, DiskInv, Frozen
    <1>3. ChainInv(u)'
        BY <1>1 DEF TaskInv, ChainInv, Frozen
    <1>4. Busy(u)' <=> Busy(u)
        BY <1>1 DEF Busy, Frozen
    <1> QED
        BY <1>2, <1>3, <1>4 DEF TaskInv

\* A step of one task, which does not begin to have a process.
LEMMA OneTask ==
    ASSUME TasksInv, NEW t \in Tasks, \A u \in Tasks : u # t => Frozen(u),
           TypeOK', QueueInv', TaskInv(t)', Busy(t)' => Busy(t)
    PROVE  TasksInv'
    <1>1. \A u \in Tasks : TaskInv(u)' /\ (Busy(u)' => Busy(u))
        BY FrozenKept DEF TasksInv
    <1>2. BusyInv'
        BY <1>1 DEF TasksInv, BusyInv
    <1> QED
        BY <1>1, <1>2 DEF TasksInv

\* The head of the queue lets the next call go on.
LEMMA LeaveKept ==
    ASSUME TypeOK, QueueInv, NEW t \in Tasks, starting[t] \in {"queued", "writing"}, Head(startQueue) = t, Leave(t)
    PROVE  /\ startQueue' \in Seq(Tasks) /\ QueueInv'
           /\ starting' = [starting EXCEPT ![t] = "done"]
    <1>1. PICK i \in 1..Len(startQueue) : startQueue[i] = t
        BY DEF QueueInv
    <1>2. startQueue \in Seq(Tasks) /\ startQueue # <<>> /\ startQueue[1] = t
        BY <1>1 DEF TypeOK
    <1>3. startQueue' \in Seq(Tasks) /\ Len(startQueue') = Len(startQueue) - 1
        BY <1>2 DEF Leave
    <1>4. \A k \in 1..Len(startQueue') : startQueue'[k] = startQueue[k + 1]
        BY <1>2, <1>3 DEF Leave
    <1>5. starting' = [starting EXCEPT ![t] = "done"] /\ starting'[t] = "done"
        BY DEF Leave, TypeOK
    <1>6. ASSUME NEW u \in Tasks, starting'[u] \in {"queued", "writing"}
          PROVE  starting'[u] # "writing" /\ \E k \in 1..Len(startQueue') : startQueue'[k] = u
        <2>1. u # t /\ starting[u] = starting'[u]
            BY <1>5, <1>6 DEF TypeOK
        <2>2. PICK k \in 1..Len(startQueue) : startQueue[k] = u
            BY <1>6, <2>1 DEF QueueInv
        <2>3. k - 1 \in 1..Len(startQueue')
            BY <1>2, <1>3, <2>1, <2>2
        <2>4. startQueue'[k - 1] = u
            BY <1>4, <2>2, <2>3
        <2> QED
            BY <1>6, <2>1, <2>3, <2>4 DEF QueueInv
    <1> QED
        BY <1>3, <1>5, <1>6 DEF QueueInv

\* QueueInv speaks of the start queue only.
LEMMA QueueSame ==
    ASSUME QueueInv, starting' = starting, startQueue' = startQueue
    PROVE  QueueInv'
    BY DEF QueueInv

-----------------------------------------------------------------------------
(***************************************************************************)
(* execute                                                                 *)
(***************************************************************************)
\* A write joins the chain.
LEMMA Queued ==
    ASSUME TypeOK, NEW t \in Tasks, NEW rec \in Records, NEW by \in Writers, Persist(t, rec, by)
    PROVE  /\ writes' \in [Tasks -> Seq([rec : Records, by : Writers])]
           /\ \A u \in Tasks : u # t => writes'[u] = writes[u]
           /\ Len(writes'[t]) = Len(writes[t]) + 1 /\ Len(writes[t]) \in Nat
           /\ \A i \in 1..Len(writes'[t]) :
                 \/ i \in 1..Len(writes[t]) /\ writes'[t][i] = writes[t][i]
                 \/ i = Len(writes[t]) + 1 /\ writes'[t][i] = [rec |-> rec, by |-> by]
    <1> DEFINE Entries == [rec : Records, by : Writers]
    <1>2. PICK e \in Entries : e = [rec |-> rec, by |-> by]
        OBVIOUS
    <1>3. writes' = [writes EXCEPT ![t] = Append(@, e)]
        BY <1>2 DEF Persist
    <1>4. writes \in [Tasks -> Seq(Entries)]
        BY DEF TypeOK
    <1> HIDE DEF Entries
    <1>10. writes[t] \in Seq(Entries)
        BY <1>4
    <1>11. Append(writes[t], e) \in Seq(Entries)
        BY <1>2, <1>10
    <1>5. PICK s \in Seq(Entries) : s = Append(writes[t], e)
        BY <1>11
    <1>6. writes' = [writes EXCEPT ![t] = s]
        BY <1>3, <1>4, <1>5
    <1>7. writes' \in [Tasks -> Seq(Entries)] /\ writes'[t] = s /\ \A u \in Tasks : u # t => writes'[u] = writes[u]
        BY <1>4, <1>6
    <1>8. Len(s) = Len(writes[t]) + 1 /\ Len(writes[t]) \in Nat
        BY <1>4, <1>5
    <1>9. \A i \in 1..Len(s) : \/ i \in 1..Len(writes[t]) /\ s[i] = writes[t][i]
                               \/ i = Len(writes[t]) + 1 /\ s[i] = e
        BY <1>4, <1>5
    <1> QED
        BY <1>2, <1>7, <1>8, <1>9 DEF Entries

\* The chain of a task with one more write in it.
LEMMA QueuedChain ==
    ASSUME TypeOK, NEW t \in Tasks, NEW rec \in Records, NEW by \in Writers \ {"start", "run"}, Persist(t, rec, by), ChainInv(t),
           \A i \in 1..Len(writes[t]) :
               /\ writes[t][i].by = "start" => starting'[t] = "writing"
               /\ writes[t][i].by = "run" => run'[t] = "persist"
               /\ writes[t][i].by = "cancel" => t \in cancelled'
               /\ writes[t][i].by \in {"final", "catch", "refresh"} => ~InRunner(t)' /\ ~Tracked(t)',
           by = "pid" => IsActive(rec),
           by = "cancel" => t \in cancelled',
           by \in {"final", "catch", "refresh"} => ~InRunner(t)' /\ ~Tracked(t)',
           by \in {"final", "catch"} => current'[t] \in Records,
           current[t] \in Records => current'[t] \in Records
    PROVE  ChainInv(t)'
    <1>1. ASSUME NEW i \in 1..Len(writes'[t])
          PROVE  /\ writes'[t][i].by = "start" => i = 1 /\ starting'[t] = "writing"
                 /\ writes'[t][i].by = "run" => i = 1 /\ run'[t] = "persist"
                 /\ writes'[t][i].by \in {"start", "run", "pid"} => IsActive(writes'[t][i].rec)
                 /\ writes'[t][i].by = "start" => writes'[t][i].rec = [state |-> "starting", pid |-> FALSE]
                 /\ writes'[t][i].by = "cancel" => t \in cancelled'
                 /\ writes'[t][i].by \in {"final", "catch", "refresh"} => ~InRunner(t)' /\ ~Tracked(t)'
                 /\ writes'[t][i].by \in {"final", "catch"} => current'[t] \in Records
        <2>1. CASE i \in 1..Len(writes[t]) /\ writes'[t][i] = writes[t][i]
            BY <2>1 DEF ChainInv
        <2>2. CASE writes'[t][i] = [rec |-> rec, by |-> by]
            BY <2>2
        <2> QED
            BY <2>1, <2>2, Queued
    <1> QED
        BY <1>1 DEF ChainInv

\* What is not in the queue of start calls any more.
LEMMA NotNew ==
    ASSUME NEW t \in Tasks, BornInv(t), ~Nothing(t)
    PROVE  starting[t] \notin {"idle", "queued", "writing"}
    BY DEF BornInv

\* A record in an active state is a record.
LEMMA ActiveIsRecord ==
    ASSUME NEW rec, IsActive(rec)
    PROVE  rec # NoRecord
    BY DEF IsActive, ActiveStates, NoRecord

\* Setting the pid of a record keeps its state.
LEMMA WithPid ==
    ASSUME NEW state, NEW x, NEW y
    PROVE  [[state |-> state, pid |-> x] EXCEPT !.pid = y] = [state |-> state, pid |-> y]
    OBVIOUS

\* Setting the state of a record keeps its pid.
LEMMA InState ==
    ASSUME NEW x, NEW y, NEW pid
    PROVE  As([state |-> x, pid |-> pid], y) = [state |-> y, pid |-> pid]
    BY DEF As

\* The same for any record, with its type.
LEMMA WithState ==
    ASSUME NEW rec \in Records, NEW state \in ActiveStates \cup FinalStates
    PROVE  As(rec, state) \in Records /\ As(rec, state).state = state /\ As(rec, state).pid = rec.pid
    BY DEF As, Records

\* execute() spawns the process of a task that has none.
LEMMA SpawnKept ==
    ASSUME TasksInv, NEW t \in Tasks, Spawn(t)
    PROVE  TasksInv'
    <1>0. TypeOK /\ QueueInv /\ TaskInv(t)
        BY DEF TasksInv
    <1>1. /\ run[t] = "runner" /\ proc' = [proc EXCEPT ![t] = "alive"] /\ run' = [run EXCEPT ![t] = "child"]
          /\ UNCHANGED <<disk, records, startVars, settled, behind, controllers, cancelVars, bounds, disowned>>
        BY DEF Spawn
    <1>2. PICK rec \in Records : rec = [state |-> "running", pid |-> TRUE]
        BY DEF Records, ActiveStates
    <1>3. current[t] = [state |-> "running", pid |-> FALSE] /\ proc[t] = "none" /\ InRunner(t)
        BY <1>0, <1>1 DEF TaskInv, HeldInv, InRunner
    <1>13. [current[t] EXCEPT !.pid = TRUE] = rec
        <2>1. [[state |-> "running", pid |-> FALSE] EXCEPT !.pid = TRUE] = [state |-> "running", pid |-> TRUE]
            BY WithPid
        <2> QED
            BY <1>2, <1>3, <2>1, Zenon
    <1>14. DOMAIN current = Tasks
        BY <1>0 DEF TypeOK
    <1>15. current' = [current EXCEPT ![t] = rec]
        BY <1>13, <1>14 DEF Spawn
    <1>4. Persist(t, rec, "pid") /\ IsActive(rec) /\ "pid" \in Writers \ {"start", "run"}
        BY <1>2, <1>13 DEF IsActive, ActiveStates, Writers, Spawn
    <1>5. /\ writes' \in [Tasks -> Seq([rec : Records, by : Writers])]
          /\ \A u \in Tasks : u # t => writes'[u] = writes[u]
        BY <1>0, <1>4, Queued
    <1>6. TypeOK'
        BY <1>0, <1>1, <1>15, <1>5 DEF TypeOK, startVars, cancelVars, bounds, RunStates
    <1>7. /\ \A u \in Tasks : u # t => Frozen(u)
          /\ run'[t] = "child" /\ proc'[t] = "alive" /\ current'[t] = rec /\ records'[t] = records[t] /\ disk'[t] = disk[t]
          /\ starting'[t] = starting[t] /\ cancelled' = cancelled /\ disowned' = disowned
        BY <1>0, <1>1, <1>15, <1>5 DEF TypeOK, Frozen, startVars, cancelVars
    <1>8. starting[t] \notin {"idle", "queued", "writing"}
        BY <1>0, <1>1, NotNew DEF Nothing, TaskInv
    <1>9. ChainInv(t)'
        BY <1>0, <1>1, <1>2, <1>3, <1>4, <1>7, <1>8, QueuedChain DEF ChainInv, TaskInv
    <1>10. BornInv(t)' /\ HeldInv(t)' /\ KnownInv(t)' /\ DiskInv(t)'
        BY <1>0, <1>2, <1>3, <1>7, <1>8 DEF BornInv, HeldInv, KnownInv, DiskInv, TaskInv, InRunner
    <1>11. QueueInv'
        BY <1>0, <1>1, QueueSame DEF startVars
    <1>12. Busy(t)' => Busy(t)
        BY <1>3, <1>7 DEF Busy
    <1> QED
        BY <1>6, <1>7, <1>9, <1>10, <1>11, <1>12, OneTask DEF TaskInv

(***************************************************************************)
(* The steps that leave the record of a task as it is                      *)
(***************************************************************************)
\* Where execute() stands afterwards, and what becomes of the process.
Goes(t) ==
    /\ run'[t] = run[t] \/ (run[t] # "persist" /\ ~InRunner(t)' /\ ~Tracked(t)')
    /\ proc'[t] = proc[t] \/ (proc'[t] = "exited" /\ (proc[t] = "alive" \/ ~InRunner(t)'))
    /\ current'[t] = current[t] \/ (~InRunner(t)' /\ current'[t] \in Records)
    /\ run'[t] # "none" => run[t] # "none"
    /\ run'[t] \in {"settled", "reading", "result"} => settled'[t] # "none"
    /\ t \in cancelled => t \in cancelled'
    /\ t \in disowned => t \in disowned'

\* A step of execute() or of a cancel call that changes no record and no file keeps the invariant.
LEMMA StepKept ==
    ASSUME TasksInv, NEW t \in Tasks, TypeOK', \A u \in Tasks : u # t => Frozen(u),
           starting' = starting, startQueue' = startQueue, ~Nothing(t),
           records'[t] = records[t], disk'[t] = disk[t], Goes(t),
           Tracked(t)' => writes'[t] = writes[t], ChainInv(t)'
    PROVE  TasksInv'
    <1>0. QueueInv /\ TaskInv(t)
        BY DEF TasksInv
    <1>1. starting[t] \notin {"idle", "queued", "writing"}
        BY <1>0, NotNew DEF TaskInv
    <1>2. BornInv(t)' /\ DiskInv(t)'
        BY <1>0, <1>1 DEF BornInv, DiskInv, TaskInv
    <1>3. HeldInv(t)'
        BY <1>0 DEF HeldInv, TaskInv, Goes, InRunner
    <1>4. (InRunner(t)' => InRunner(t)) /\ (Tracked(t)' => Tracked(t) /\ run'[t] = run[t])
        BY DEF Goes, InRunner, Tracked
    <1>5. KnownInv(t)'
        BY <1>0, <1>4 DEF KnownInv, TaskInv, Goes
    <1>6. QueueInv'
        BY <1>0, QueueSame
    <1>7. Busy(t)' => Busy(t)
        BY <1>4 DEF Busy, Goes
    <1> QED
        BY <1>2, <1>3, <1>5, <1>6, <1>7, OneTask DEF TaskInv

\* The chain of writes depends on the writes and on who still executes.
LEMMA ChainSame ==
    ASSUME NEW t \in Tasks, ChainInv(t), writes'[t] = writes[t], starting' = starting, Goes(t)
    PROVE  ChainInv(t)'
    <1>1. (InRunner(t)' => InRunner(t)) /\ (Tracked(t)' => Tracked(t)) /\ (run[t] = "persist" => run'[t] = "persist")
        BY DEF Goes, InRunner, Tracked
    <1> QED
        BY <1>1 DEF ChainInv, Goes

\* A write is queued that comes from the end of execute(), from a cancellation or a refresh.
LEMMA ChainLonger ==
    ASSUME TypeOK, NEW t \in Tasks, ChainInv(t), starting' = starting, Goes(t), NEW rec \in Records,
           NEW by \in {"final", "catch", "refresh", "cancel"}, Persist(t, rec, by),
           by = "cancel" => t \in cancelled',
           by # "cancel" => ~InRunner(t)' /\ ~Tracked(t)',
           by \in {"final", "catch"} => current'[t] \in Records
    PROVE  ChainInv(t)'
    <1>1. (InRunner(t)' => InRunner(t)) /\ (Tracked(t)' => Tracked(t)) /\ (run[t] = "persist" => run'[t] = "persist")
        BY DEF Goes, InRunner, Tracked
    <1>2. by \in Writers \ {"start", "run"}
        BY DEF Writers
    <1> QED
        BY <1>1, <1>2, QueuedChain DEF ChainInv, Goes

\* execute() and the child, but for what is written.
LEMMA ExecuteKept ==
    ASSUME TasksInv, NEW t \in Tasks,
           SpawnFails(t) \/ ChildCloses(t) \/ TerminationFails(t) \/ OrphanExits(t) \/ LogsSanitized(t) \/ ResultFails(t)
    PROVE  TasksInv'
    <1>0. TypeOK /\ TaskInv(t)
        BY DEF TasksInv
    <1>1. ASSUME NEW how \in {"succeeded", "failed", "rejected"}, Settled(t, how), run[t] \in {"runner", "child", "result"},
                 proc'[t] \in {proc[t], "exited"},
                 \A u \in Tasks : u # t => proc'[u] = proc[u] /\ (u \in disowned' <=> u \in disowned),
                 proc' \in [Tasks -> {"none", "alive", "exited"}], faults' \in 0..MaxFaults,
                 disowned \subseteq disowned', disowned' \subseteq Tasks,
                 ~Tracked(t)'
          PROVE  TasksInv'
        <2>1. /\ run' = [run EXCEPT ![t] = "settled"] /\ settled' = [settled EXCEPT ![t] = how]
              /\ UNCHANGED <<disk, records, writes, startVars, current, behind, controllers, cancelVars, crashes>>
            BY <1>1 DEF Settled
        <2>2. TypeOK'
            BY <1>0, <1>1, <2>1 DEF TypeOK, startVars, cancelVars, RunStates
        <2>3. (\A u \in Tasks : u # t => Frozen(u)) /\ run'[t] = "settled" /\ settled'[t] = how
            BY <1>0, <1>1, <2>1 DEF TypeOK, Frozen, startVars, cancelVars
        <2>4. Goes(t)
            BY <1>1, <2>1, <2>3 DEF Goes, InRunner, Tracked, cancelVars
        <2>5. ChainInv(t)'
            BY <1>0, <2>1, <2>4, ChainSame DEF TaskInv, startVars
        <2> QED
            BY <1>1, <2>1, <2>2, <2>3, <2>4, <2>5, StepKept DEF startVars, Nothing
    <1>2. proc \in [Tasks -> {"none", "alive", "exited"}] /\ faults \in 0..MaxFaults /\ disowned \subseteq Tasks /\ MaxFaults \in Nat
        BY <1>0, BoundsAssumption DEF TypeOK
    <1>3. ASSUME Fault
          PROVE  faults' \in 0..MaxFaults
        BY <1>2, <1>3 DEF Fault
    <1>4. CASE SpawnFails(t)
        <2>1. proc' = proc /\ faults' = faults /\ disowned' = disowned /\ run[t] = "runner" /\ Settled(t, "rejected")
            BY <1>4 DEF SpawnFails
        <2>2. ~Tracked(t)'
            BY <1>0, <2>1 DEF TaskInv, HeldInv, Tracked
        <2> QED
            BY <1>1, <1>2, <2>1, <2>2
    <1>5. CASE ChildCloses(t)
        <2>1. /\ run[t] = "child" /\ proc' = [proc EXCEPT ![t] = "exited"] /\ faults' = faults /\ disowned' = disowned
              /\ \E how \in {"succeeded", "failed", "rejected"} : Settled(t, how)
            BY <1>5 DEF ChildCloses
        <2>2. proc'[t] = "exited" /\ (\A u \in Tasks : u # t => proc'[u] = proc[u]) /\ proc' \in [Tasks -> {"none", "alive", "exited"}]
            BY <1>2, <2>1
        <2>3. ~Tracked(t)'
            BY <2>2 DEF Tracked
        <2> QED
            BY <1>1, <1>2, <2>1, <2>2, <2>3
    <1>6. CASE TerminationFails(t)
        <2>1. /\ run[t] = "child" /\ proc' = proc /\ Fault /\ disowned' = disowned \cup {t} /\ Settled(t, "rejected")
            BY <1>6 DEF TerminationFails
        <2>2. ~Tracked(t)'
            BY <2>1 DEF Tracked
        <2> QED
            BY <1>1, <1>2, <1>3, <2>1, <2>2
    <1>7. CASE ResultFails(t)
        <2>1. proc' = proc /\ Fault /\ disowned' = disowned /\ run[t] = "result" /\ Settled(t, "rejected")
            BY <1>7 DEF ResultFails
        <2>2. ~Tracked(t)'
            <3>1. ~Tracked(t) /\ cancelled' = cancelled
                BY <1>0, <2>1 DEF TaskInv, KnownInv, Settled, cancelVars
            <3> QED
                BY <2>1, <3>1 DEF Tracked
        <2> QED
            BY <1>1, <1>2, <1>3, <2>1, <2>2
    <1>8. CASE OrphanExits(t)
        <2>1. /\ proc[t] = "alive" /\ run[t] # "child" /\ proc' = [proc EXCEPT ![t] = "exited"]
              /\ UNCHANGED <<disk, records, writes, startVars, execVars, cancelVars, bounds, disowned>>
            BY <1>8 DEF OrphanExits
        <2>2. TypeOK'
            BY <1>0, <2>1 DEF TypeOK, startVars, cancelVars, execVars, bounds
        <2>3. (\A u \in Tasks : u # t => Frozen(u)) /\ proc'[t] = "exited" /\ run' = run /\ current' = current /\ settled' = settled
            BY <1>0, <2>1 DEF TypeOK, Frozen, startVars, cancelVars, execVars
        <2>4. Goes(t)
            BY <1>0, <2>1, <2>3 DEF Goes, cancelVars, TaskInv, HeldInv
        <2>5. ChainInv(t)'
            BY <1>0, <2>1, <2>4, ChainSame DEF TaskInv, startVars
        <2> QED
            BY <2>1, <2>2, <2>3, <2>4, <2>5, StepKept DEF startVars, Nothing
    <1>9. CASE LogsSanitized(t)
        <2>1. /\ run[t] = "settled" /\ run' = [run EXCEPT ![t] = "reading"] /\ behind' = [behind EXCEPT ![t] = Len(writes[t])]
              /\ UNCHANGED <<disk, records, writes, startVars, current, settled, controllers, proc, cancelVars, bounds, disowned>>
            BY <1>9 DEF LogsSanitized
        <2>2. TypeOK'
            <3>1. Len(writes[t]) \in Nat
                BY <1>0 DEF TypeOK
            <3> QED
                BY <1>0, <2>1, <3>1 DEF TypeOK, startVars, cancelVars, bounds, RunStates
        <2>3. (\A u \in Tasks : u # t => Frozen(u)) /\ run'[t] = "reading" /\ proc' = proc /\ cancelled' = cancelled
            BY <1>0, <2>1 DEF TypeOK, Frozen, startVars, cancelVars
        <2>4. ~Tracked(t)
            BY <1>0, <2>1 DEF TaskInv, KnownInv
        <2>5. Goes(t)
            BY <1>0, <2>1, <2>3, <2>4 DEF Goes, TaskInv, HeldInv, Tracked, InRunner
        <2>6. ChainInv(t)'
            BY <1>0, <2>1, <2>5, ChainSame DEF TaskInv, startVars
        <2> QED
            BY <2>1, <2>2, <2>3, <2>5, <2>6, StepKept DEF startVars, Nothing
    <1> QED
        BY <1>4, <1>5, <1>6, <1>7, <1>8, <1>9

\* The end of execute().
LEMMA EndKept ==
    ASSUME TasksInv, NEW t \in Tasks, ReadLatest(t) \/ ResultWritten(t)
    PROVE  TasksInv'
    <1>0. TypeOK /\ TaskInv(t)
        BY DEF TasksInv
    <1>1. run[t] \in {"reading", "result"} /\ ~Nothing(t) /\ ~Tracked(t) /\ current[t] \in Records
        BY <1>0 DEF ReadLatest, ExecuteDue, ResultWritten, Nothing, TaskInv, KnownInv, HeldInv
    <1>2. UNCHANGED <<disk, records, startVars, settled, behind, proc, cancelVars, bounds, disowned>>
        BY DEF ReadLatest, ResultWritten
    <1>3. ASSUME ~InRunner(t)', run' \in [Tasks -> RunStates], current' \in [Tasks -> Records \cup {NoRecord}],
                 controllers' \in [Tasks -> {"none", "live", "aborted"}],
                 writes' \in [Tasks -> Seq([rec : Records, by : Writers])],
                 current'[t] \in Records, run'[t] \in {"none", "result", "final"},
                 run'[t] = "result" => settled[t] # "none",
                 \A u \in Tasks : u # t => /\ run'[u] = run[u] /\ current'[u] = current[u]
                                           /\ controllers'[u] = controllers[u] /\ writes'[u] = writes[u],
                 \/ writes'[t] = writes[t]
                 \/ \E rec \in Records, by \in {"final", "catch", "refresh", "cancel"} : by # "cancel" /\ Persist(t, rec, by)
          PROVE  TasksInv'
        <2>1. TypeOK'
            BY <1>0, <1>2, <1>3 DEF TypeOK, startVars, cancelVars, bounds
        <2>2. \A u \in Tasks : u # t => Frozen(u)
            BY <1>2, <1>3 DEF Frozen, startVars, cancelVars
        <2>3. ~Tracked(t)' /\ starting' = starting /\ startQueue' = startQueue
            BY <1>1, <1>2 DEF Tracked, cancelVars, startVars
        <2>4. Goes(t)
            BY <1>1, <1>2, <1>3, <2>3 DEF Goes, cancelVars
        <2>5. ChainInv(t)'
            BY <1>0, <1>3, <2>3, <2>4, ChainSame, ChainLonger DEF TaskInv
        <2> QED
            BY <1>1, <1>2, <2>1, <2>2, <2>3, <2>4, <2>5, StepKept
    <1>4. CASE ReadLatest(t) /\ SeesCancelled(t)
        <2>1. run' = [run EXCEPT ![t] = "none"] /\ controllers' = [controllers EXCEPT ![t] = "none"] /\ writes' = writes /\ current' = current
            BY <1>4 DEF ReadLatest, Ended
        <2>2. run'[t] = "none"
            BY <1>0, <2>1 DEF TypeOK
        <2> QED
            BY <1>0, <1>1, <1>3, <2>1, <2>2 DEF TypeOK, RunStates, InRunner
    <1>5. CASE ReadLatest(t) /\ ~SeesCancelled(t) /\ settled[t] = "rejected"
        <2>1. /\ run' = [run EXCEPT ![t] = "final"] /\ controllers' = controllers /\ current' = current
              /\ Persist(t, As(current[t], "failed"), "catch")
            BY <1>5 DEF ReadLatest
        <2>2. PICK rec \in Records : rec = As(current[t], "failed")
            BY <1>1, WithState DEF FinalStates
        <2>3. Persist(t, rec, "catch") /\ "catch" \in Writers
            BY <2>1, <2>2 DEF Writers
        <2>4. /\ writes' \in [Tasks -> Seq([rec : Records, by : Writers])]
              /\ \A u \in Tasks : u # t => writes'[u] = writes[u]
            BY <1>0, <2>3, Queued
        <2>5. run'[t] = "final" /\ run' \in [Tasks -> RunStates] /\ \A u \in Tasks : u # t => run'[u] = run[u]
            BY <1>0, <2>1 DEF TypeOK, RunStates
        <2>6. ~InRunner(t)' /\ controllers' \in [Tasks -> {"none", "live", "aborted"}] /\ current' \in [Tasks -> Records \cup {NoRecord}]
            BY <1>0, <2>1, <2>5 DEF InRunner, TypeOK
        <2> QED
            BY <1>1, <1>3, <2>1, <2>3, <2>4, <2>5, <2>6
    <1>6. CASE ReadLatest(t) /\ ~SeesCancelled(t) /\ settled[t] # "rejected"
        <2>1. /\ run' = [run EXCEPT ![t] = "result"] /\ controllers' = controllers /\ writes' = writes
              /\ current' = [current EXCEPT ![t] = As(@, settled[t])]
            BY <1>6 DEF ReadLatest
        <2>2. settled[t] \in {"succeeded", "failed"}
            BY <1>0, <1>6 DEF TypeOK, TaskInv, HeldInv, ReadLatest, ExecuteDue
        <2>3. PICK rec \in Records : rec = As(current[t], settled[t])
            BY <1>1, <2>2, WithState DEF FinalStates
        <2>4. current' = [current EXCEPT ![t] = rec]
            BY <1>0, <2>1, <2>3 DEF TypeOK
        <2>5. /\ run'[t] = "result" /\ current'[t] = rec /\ run' \in [Tasks -> RunStates] /\ current' \in [Tasks -> Records \cup {NoRecord}]
              /\ \A u \in Tasks : u # t => run'[u] = run[u] /\ current'[u] = current[u]
            BY <1>0, <2>1, <2>4 DEF TypeOK, RunStates
        <2>6. ~InRunner(t)' /\ controllers' \in [Tasks -> {"none", "live", "aborted"}] /\ writes' \in [Tasks -> Seq([rec : Records, by : Writers])]
            BY <1>0, <2>1, <2>5 DEF InRunner, TypeOK
        <2> QED
            BY <1>3, <2>1, <2>2, <2>5, <2>6
    <1>7. CASE ResultWritten(t)
        <2>1. /\ run' = [run EXCEPT ![t] = "final"] /\ controllers' = controllers /\ current' = current
              /\ Persist(t, current[t], "final") /\ "final" \in Writers
            BY <1>7 DEF ResultWritten, Writers
        <2>4. /\ writes' \in [Tasks -> Seq([rec : Records, by : Writers])]
              /\ \A u \in Tasks : u # t => writes'[u] = writes[u]
            BY <1>0, <1>1, <2>1, Queued
        <2>5. run'[t] = "final" /\ run' \in [Tasks -> RunStates] /\ \A u \in Tasks : u # t => run'[u] = run[u]
            BY <1>0, <2>1 DEF TypeOK, RunStates
        <2>6. ~InRunner(t)' /\ controllers' \in [Tasks -> {"none", "live", "aborted"}] /\ current' \in [Tasks -> Records \cup {NoRecord}]
            BY <1>0, <2>1, <2>5 DEF InRunner, TypeOK
        <2> QED
            BY <1>1, <1>3, <2>1, <2>4, <2>5, <2>6
    <1> QED
        BY <1>4, <1>5, <1>6, <1>7

-----------------------------------------------------------------------------
(***************************************************************************)
(* cancel_background_task, and the refreshing of interrupted tasks         *)
(***************************************************************************)
CancelStates == {"idle", "reading", "writing", "awaiting", "terminating", "done", "lost"}

\* An interrupted task has no process that the manager should know of.
LEMMA InterruptedIs ==
    ASSUME NEW t \in Tasks, TypeOK, TaskInv(t), Interrupted(t)
    PROVE  ~InRunner(t) /\ ~Tracked(t) /\ records[t] \in Records
    <1>1. run[t] = "none" /\ ~(records[t].pid /\ proc[t] = "alive") /\ IsActive(records[t])
        BY DEF Interrupted, Owned
    <1>2. records[t] \in Records
        BY <1>1, ActiveIsRecord DEF TypeOK
    <1> QED
        BY <1>1, <1>2 DEF InRunner, Tracked, TaskInv, KnownInv

\* The steps of a cancel call and the refresh of a poller.
LEMMA CancelKept ==
    ASSUME TasksInv, NEW t \in Tasks,
           CancelCall(t) \/ CancelReads(t) \/ CancelReturns(t) \/ Terminated(t) \/ TerminateFails(t)
             \/ Refresh(t)
    PROVE  TasksInv'
    <1>0. TypeOK /\ TaskInv(t)
        BY DEF TasksInv
    <1>1. UNCHANGED <<disk, records, startVars, execVars, crashes, disowned>> /\ faults' \in 0..MaxFaults
        <2>1. faults' = faults \/ (faults < MaxFaults /\ faults' = faults + 1)
            BY DEF CancelCall, CancelReads, CancelReturns, Terminated, TerminateFails, Fault, Refresh, cancelVars, bounds
        <2>2. faults' \in 0..MaxFaults
            BY <1>0, <2>1, BoundsAssumption DEF TypeOK
        <2> QED
            BY <2>2 DEF CancelCall, CancelReads, CancelReturns, Terminated, TerminateFails, Refresh, cancelVars, execVars, bounds
    <1>2. ~Nothing(t)
        <2>1. IsActive(records[t]) => records[t] # NoRecord
            BY ActiveIsRecord
        <2> QED
            BY <2>1 DEF CancelCall, CancelReads, CancelDue, CancelReturns, Terminated, TerminateFails, Refresh, Interrupted, Nothing
    <1>3. ASSUME writes' \in [Tasks -> Seq([rec : Records, by : Writers])],
                 proc' \in [Tasks -> {"none", "alive", "exited"}], cancelling' \in [Tasks -> CancelStates],
                 cancelBehind' \in [Tasks -> Nat], cancelled' \subseteq Tasks, cancelled \subseteq cancelled',
                 \A u \in Tasks : u # t => /\ writes'[u] = writes[u] /\ proc'[u] = proc[u] /\ cancelling'[u] = cancelling[u]
                                           /\ (u \in cancelled' => u \in cancelled),
                 proc'[t] = proc[t] \/ (proc'[t] = "exited" /\ proc[t] = "alive"),
                 \/ writes'[t] = writes[t]
                 \/ \E rec \in Records : Persist(t, rec, "cancel") /\ t \in cancelled'
                 \/ \E rec \in Records : Persist(t, rec, "refresh") /\ Interrupted(t) /\ cancelled' = cancelled
          PROVE  TasksInv'
        <2>1. TypeOK'
            BY <1>0, <1>1, <1>3 DEF TypeOK, startVars, execVars, CancelStates
        <2>2. \A u \in Tasks : u # t => Frozen(u)
            BY <1>1, <1>3 DEF Frozen, startVars, execVars
        <2>3. /\ starting' = starting /\ startQueue' = startQueue /\ run' = run /\ current' = current /\ settled' = settled
              /\ disowned' = disowned
            BY <1>1 DEF startVars, execVars
        <2>4. Goes(t)
            BY <1>0, <1>3, <2>3 DEF Goes, TaskInv, HeldInv
        <2>5. ~Tracked(t) => ~Tracked(t)'
            BY <1>3, <2>3 DEF Tracked
        <2>6. CASE writes'[t] = writes[t]
            <3>1. ChainInv(t)'
                BY <1>0, <2>3, <2>4, <2>6, ChainSame DEF TaskInv
            <3> QED
                BY <1>1, <1>2, <2>1, <2>2, <2>3, <2>4, <2>6, <3>1, StepKept
        <2>7. ASSUME NEW rec \in Records, Persist(t, rec, "cancel"), t \in cancelled'
              PROVE  TasksInv'
            <3>1. ChainInv(t)'
                BY <1>0, <2>3, <2>4, <2>7, ChainLonger DEF TaskInv
            <3>2. ~Tracked(t)'
                BY <2>7 DEF Tracked
            <3> QED
                BY <1>1, <1>2, <2>1, <2>2, <2>3, <2>4, <3>1, <3>2, StepKept
        <2>8. ASSUME NEW rec \in Records, Persist(t, rec, "refresh"), Interrupted(t)
              PROVE  TasksInv'
            <3>1. ~Tracked(t)' /\ ~InRunner(t)'
                BY <1>0, <2>3, <2>5, <2>8, InterruptedIs DEF InRunner
            <3>2. ChainInv(t)'
                BY <1>0, <2>3, <2>4, <2>8, <3>1, ChainLonger DEF TaskInv
            <3> QED
                BY <1>1, <1>2, <2>1, <2>2, <2>3, <2>4, <3>1, <3>2, StepKept
        <2> QED
            BY <1>3, <2>6, <2>7, <2>8
    <1>4. /\ writes \in [Tasks -> Seq([rec : Records, by : Writers])] /\ proc \in [Tasks -> {"none", "alive", "exited"}]
          /\ cancelling \in [Tasks -> CancelStates] /\ cancelBehind \in [Tasks -> Nat] /\ cancelled \subseteq Tasks
        BY <1>0 DEF TypeOK, CancelStates
    <1>5. ASSUME NEW state \in CancelStates, cancelling' = [cancelling EXCEPT ![t] = state]
          PROVE  cancelling' \in [Tasks -> CancelStates] /\ \A u \in Tasks : u # t => cancelling'[u] = cancelling[u]
        BY <1>4, <1>5
    <1>6. CASE CancelCall(t)
        <2>1. /\ cancelling' = [cancelling EXCEPT ![t] = "reading"] /\ cancelBehind' = [cancelBehind EXCEPT ![t] = Len(writes[t])]
              /\ writes' = writes /\ proc' = proc /\ cancelled' = cancelled
            BY <1>6 DEF CancelCall
        <2>2. Len(writes[t]) \in Nat
            BY <1>4
        <2>3. cancelBehind' \in [Tasks -> Nat]
            BY <1>4, <2>1, <2>2
        <2>4. cancelling' \in [Tasks -> CancelStates] /\ \A u \in Tasks : u # t => cancelling'[u] = cancelling[u]
            BY <1>5, <2>1 DEF CancelStates
        <2> QED
            BY <1>3, <1>4, <2>1, <2>3, <2>4
    <1>7. CASE CancelReturns(t) \/ TerminateFails(t)
        <2>1. cancelling' = [cancelling EXCEPT ![t] = "done"] /\ UNCHANGED <<cancelBehind, writes, proc, cancelled>>
            BY <1>7 DEF CancelReturns, TerminateFails
        <2>2. cancelling' \in [Tasks -> CancelStates] /\ \A u \in Tasks : u # t => cancelling'[u] = cancelling[u]
            BY <1>5, <2>1 DEF CancelStates
        <2> QED
            BY <1>3, <1>4, <2>1, <2>2
    <1>8. CASE Terminated(t)
        <2>1. cancelling' = [cancelling EXCEPT ![t] = "done"] /\ UNCHANGED <<cancelBehind, writes, cancelled>>
            BY <1>8 DEF Terminated
        <2>2. cancelling' \in [Tasks -> CancelStates] /\ \A u \in Tasks : u # t => cancelling'[u] = cancelling[u]
            BY <1>5, <2>1 DEF CancelStates
        <2>3. PICK p \in {"none", "alive", "exited"} : p = IF proc[t] = "alive" THEN "exited" ELSE proc[t]
            BY <1>4
        <2>4. proc' = [proc EXCEPT ![t] = p]
            BY <1>4, <1>8, <2>3 DEF Terminated
        <2>5. proc' \in [Tasks -> {"none", "alive", "exited"}] /\ proc'[t] = p /\ \A u \in Tasks : u # t => proc'[u] = proc[u]
            BY <1>4, <2>4
        <2>6. proc'[t] = proc[t] \/ (proc'[t] = "exited" /\ proc[t] = "alive")
            BY <2>3, <2>5
        <2> QED
            BY <1>3, <1>4, <2>1, <2>2, <2>5, <2>6
    <1>9. ASSUME NEW by \in {"cancel", "refresh"}, NEW state \in FinalStates, Persist(t, As(records[t], state), by), IsActive(records[t])
          PROVE  /\ \E rec \in Records : Persist(t, rec, by)
                 /\ writes' \in [Tasks -> Seq([rec : Records, by : Writers])]
                 /\ \A u \in Tasks : u # t => writes'[u] = writes[u]
        <2>1. records[t] \in Records
            BY <1>0, <1>9, ActiveIsRecord DEF TypeOK
        <2>2. PICK rec \in Records : rec = As(records[t], state)
            BY <2>1, WithState
        <2>3. Persist(t, rec, by) /\ by \in Writers
            BY <1>9, <2>2 DEF Writers
        <2> QED
            BY <1>0, <2>3, Queued
    <1>10. CASE Refresh(t)
        <2>1. /\ Persist(t, As(records[t], "failed"), "refresh") /\ Interrupted(t) /\ IsActive(records[t])
              /\ UNCHANGED <<proc, cancelling, cancelBehind, cancelled>>
            BY <1>10 DEF Refresh, Interrupted, cancelVars
        <2>2. /\ \E rec \in Records : Persist(t, rec, "refresh")
              /\ writes' \in [Tasks -> Seq([rec : Records, by : Writers])]
              /\ \A u \in Tasks : u # t => writes'[u] = writes[u]
            BY <1>9, <2>1 DEF FinalStates
        <2> QED
            BY <1>3, <1>4, <2>1, <2>2
    <1>11. CASE CancelReads(t)
        <2>1. proc' = proc /\ cancelBehind' = cancelBehind
            BY <1>11 DEF CancelReads
        <2>2. CASE Interrupted(t)
            <3>1. /\ Persist(t, As(records[t], "failed"), "refresh") /\ IsActive(records[t]) /\ cancelled' = cancelled
                  /\ cancelling' = [cancelling EXCEPT ![t] = "done"]
                BY <1>11, <2>2 DEF CancelReads, Interrupted
            <3>2. /\ \E rec \in Records : Persist(t, rec, "refresh")
                  /\ writes' \in [Tasks -> Seq([rec : Records, by : Writers])]
                  /\ \A u \in Tasks : u # t => writes'[u] = writes[u]
                BY <1>9, <3>1 DEF FinalStates
            <3>3. cancelling' \in [Tasks -> CancelStates] /\ \A u \in Tasks : u # t => cancelling'[u] = cancelling[u]
                BY <1>5, <3>1 DEF CancelStates
            <3> QED
                BY <1>3, <1>4, <2>1, <2>2, <3>1, <3>2, <3>3
        <2>3. CASE ~IsActive(records[t])
            <3>1. cancelling' = [cancelling EXCEPT ![t] = "done"] /\ writes' = writes /\ cancelled' = cancelled
                BY <1>11, <2>3 DEF CancelReads, Interrupted
            <3>2. cancelling' \in [Tasks -> CancelStates] /\ \A u \in Tasks : u # t => cancelling'[u] = cancelling[u]
                BY <1>5, <3>1 DEF CancelStates
            <3> QED
                BY <1>3, <1>4, <2>1, <3>1, <3>2
        <2>4. CASE IsActive(records[t]) /\ ~Interrupted(t)
            <3>1. /\ Persist(t, As(records[t], "cancelled"), "cancel") /\ cancelled' = cancelled \cup {t}
                  /\ cancelling' = [cancelling EXCEPT ![t] = "writing"]
                BY <1>11, <2>4 DEF CancelReads
            <3>2. /\ \E rec \in Records : Persist(t, rec, "cancel")
                  /\ writes' \in [Tasks -> Seq([rec : Records, by : Writers])]
                  /\ \A u \in Tasks : u # t => writes'[u] = writes[u]
                BY <1>9, <2>4, <3>1 DEF FinalStates
            <3>3. cancelling' \in [Tasks -> CancelStates] /\ \A u \in Tasks : u # t => cancelling'[u] = cancelling[u]
                BY <1>5, <3>1 DEF CancelStates
            <3> QED
                BY <1>3, <1>4, <2>1, <3>1, <3>2, <3>3
        <2> QED
            BY <2>2, <2>3, <2>4
    <1> QED
        BY <1>6, <1>7, <1>8, <1>10, <1>11

-----------------------------------------------------------------------------
(***************************************************************************)
(* start_background_task                                                   *)
(***************************************************************************)
LEMMA StartCallKept ==
    ASSUME TasksInv, NEW t \in Tasks, StartCall(t)
    PROVE  TasksInv'
    <1>0. TypeOK /\ TaskInv(t) /\ QueueInv
        BY DEF TasksInv
    <1>1. /\ starting[t] = "idle" /\ starting' = [starting EXCEPT ![t] = "queued"] /\ startQueue' = Append(startQueue, t)
          /\ UNCHANGED <<disk, records, writes, execVars, proc, cancelVars, bounds, disowned>>
        BY DEF StartCall
    <1>2. startQueue \in Seq(Tasks)
        BY <1>0 DEF TypeOK
    <1>3. startQueue' \in Seq(Tasks) /\ Len(startQueue') = Len(startQueue) + 1 /\ Len(startQueue) \in Nat
        BY <1>1, <1>2
    <1>4. startQueue'[Len(startQueue')] = t /\ \A i \in 1..Len(startQueue) : startQueue'[i] = startQueue[i]
        BY <1>1, <1>2
    <1>5. TypeOK'
        BY <1>0, <1>1, <1>3 DEF TypeOK, execVars, cancelVars, bounds
    <1>6. (\A u \in Tasks : u # t => Frozen(u)) /\ starting'[t] = "queued" /\ run' = run /\ proc' = proc
        BY <1>0, <1>1 DEF TypeOK, Frozen, execVars, cancelVars
    <1>7. QueueInv'
        <2>1. ASSUME NEW u \in Tasks, starting'[u] \in {"queued", "writing"}
              PROVE  /\ \E i \in 1..Len(startQueue') : startQueue'[i] = u
                     /\ starting'[u] = "writing" => Head(startQueue') = u
            <3>1. CASE u = t
                <4>1. Len(startQueue') \in 1..Len(startQueue')
                    BY <1>3
                <4> QED
                    BY <1>4, <1>6, <3>1, <4>1
            <3>2. CASE u # t
                <4>1. starting[u] = starting'[u]
                    BY <1>6, <3>2 DEF Frozen
                <4>2. PICK i \in 1..Len(startQueue) : startQueue[i] = u
                    BY <1>0, <2>1, <4>1 DEF QueueInv
                <4>3. i \in 1..Len(startQueue') /\ startQueue'[i] = u
                    BY <1>3, <1>4, <4>2
                <4>4. startQueue # <<>> /\ startQueue'[1] = startQueue[1]
                    BY <1>2, <1>3, <1>4, <4>2
                <4>5. Head(startQueue') = Head(startQueue)
                    BY <1>2, <1>3, <4>4
                <4> QED
                    BY <1>0, <4>1, <4>3, <4>5 DEF QueueInv
            <3> QED
                BY <3>1, <3>2
        <2> QED
            BY <2>1 DEF QueueInv
    <1>8. Nothing(t) /\ writes[t] = <<>>
        BY <1>0, <1>1 DEF TaskInv, BornInv
    <1>9. Nothing(t)' /\ writes'[t] = <<>>
        BY <1>1, <1>8 DEF Nothing, execVars, cancelVars
    <1>10. TaskInv(t)'
        BY <1>6, <1>9 DEF TaskInv, BornInv, HeldInv, ChainInv, KnownInv, DiskInv, Nothing, InRunner, Tracked
    <1>11. Busy(t)' => Busy(t)
        BY <1>6, <1>9 DEF Busy, Nothing, InRunner
    <1> QED
        BY <1>5, <1>6, <1>7, <1>10, <1>11, OneTask

\* A call that waits has its turn: there is nothing of its task yet, and no other call writes.
LEMMA TurnIs ==
    ASSUME TasksInv, NEW t \in Tasks, MyTurn(t)
    PROVE  /\ starting[t] = "queued" /\ Head(startQueue) = t /\ Nothing(t) /\ writes[t] = <<>>
           /\ \A u \in Tasks : starting[u] # "writing"
    <1>1. starting[t] = "queued" /\ Head(startQueue) = t
        BY DEF MyTurn
    <1>2. Nothing(t) /\ writes[t] = <<>>
        BY <1>1 DEF TasksInv, TaskInv, BornInv
    <1>3. \A u \in Tasks : starting[u] = "writing" => u = t
        BY <1>1 DEF TasksInv, QueueInv
    <1> QED
        BY <1>1, <1>2, <1>3

\* A start call that finds its command active, or whose write fails, leaves the queue.
LEMMA StartEndKept ==
    ASSUME TasksInv, NEW t \in Tasks, StartDuplicate(t) \/ StartFails(t)
    PROVE  TasksInv'
    <1>0. TypeOK /\ TaskInv(t) /\ QueueInv /\ MaxFaults \in Nat
        BY BoundsAssumption DEF TasksInv
    <1>1. /\ MyTurn(t) /\ Leave(t)
          /\ UNCHANGED <<disk, records, writes, execVars, proc, cancelVars, crashes, disowned>>
        BY DEF StartDuplicate, StartFails, bounds
    <1>2. faults' \in 0..MaxFaults
        BY <1>0 DEF StartDuplicate, StartFails, bounds, Fault, TypeOK
    <1>3. starting[t] = "queued" /\ Head(startQueue) = t /\ Nothing(t) /\ writes[t] = <<>>
        BY <1>1, TurnIs
    <1>4. startQueue' \in Seq(Tasks) /\ QueueInv' /\ starting' = [starting EXCEPT ![t] = "done"]
        BY <1>0, <1>1, <1>3, LeaveKept
    <1>5. TypeOK'
        BY <1>0, <1>1, <1>2, <1>4 DEF TypeOK, execVars, cancelVars
    <1>6. (\A u \in Tasks : u # t => Frozen(u)) /\ starting'[t] = "done"
        BY <1>0, <1>1, <1>4 DEF TypeOK, Frozen, execVars, cancelVars
    <1>7. Nothing(t)' /\ writes'[t] = <<>>
        BY <1>1, <1>3 DEF Nothing, execVars, cancelVars
    <1>8. TaskInv(t)'
        BY <1>6, <1>7 DEF TaskInv, BornInv, HeldInv, ChainInv, KnownInv, DiskInv, Nothing, InRunner, Tracked
    <1>9. Busy(t)' => Busy(t)
        BY <1>6, <1>7 DEF Busy, Nothing, InRunner
    <1> QED
        BY <1>4, <1>5, <1>6, <1>8, <1>9, OneTask

\* A task whose record may have been pruned.
LEMMA PrunedKept ==
    ASSUME NEW u \in Tasks, TaskInv(u),
           writes'[u] = writes[u], starting'[u] = starting[u],
           run'[u] = run[u], current'[u] = current[u], settled'[u] = settled[u],
           controllers'[u] = controllers[u], proc'[u] = proc[u], cancelling'[u] = cancelling[u],
           cancelled' = cancelled, disowned' = disowned,
           \/ records'[u] = records[u] /\ disk'[u] = disk[u]
           \/ records[u].state \in FinalStates /\ records'[u] = NoRecord /\ disk'[u] = NoRecord
    PROVE  TaskInv(u)' /\ (Busy(u)' <=> Busy(u))
    <1>1. CASE records'[u] = records[u] /\ disk'[u] = disk[u]
        BY <1>1, FrozenKept DEF Frozen
    <1>2. CASE records[u].state \in FinalStates /\ records'[u] = NoRecord /\ disk'[u] = NoRecord
        <2>1. ~IsActive(records[u]) /\ records[u] # NoRecord
            BY <1>2 DEF FinalStates, IsActive, ActiveStates, NoRecord
        <2>2. (InRunner(u)' <=> InRunner(u)) /\ (Tracked(u)' <=> Tracked(u))
            BY DEF InRunner, Tracked
        <2>3. starting[u] \notin {"idle", "queued", "writing"}
            BY <2>1, NotNew DEF TaskInv, Nothing
        <2>4. BornInv(u)' /\ HeldInv(u)' /\ KnownInv(u)' /\ DiskInv(u)'
            BY <1>2, <2>1, <2>2, <2>3 DEF TaskInv, BornInv, HeldInv, KnownInv, DiskInv
        <2>5. ChainInv(u)'
            BY <2>2 DEF TaskInv, ChainInv
        <2>6. Busy(u)' <=> Busy(u)
            BY <2>2 DEF Busy
        <2> QED
            BY <2>4, <2>5, <2>6 DEF TaskInv
    <1> QED
        BY <1>1, <1>2

\* A new task is the only one of its owner and command that has, or may get, a process to be known of.
LEMMA StartNewKept ==
    ASSUME TasksInv, NEW t \in Tasks, StartNew(t)
    PROVE  TasksInv'
    <1>0. TypeOK /\ QueueInv /\ BusyInv /\ \A u \in Tasks : TaskInv(u)
        BY DEF TasksInv
    <1>1. /\ MyTurn(t) /\ Duplicates(t) = {} /\ starting' = [starting EXCEPT ![t] = "writing"]
          /\ UNCHANGED <<startQueue, execVars, proc, cancelVars, bounds, disowned>>
        BY DEF StartNew
    <1>2. /\ starting[t] = "queued" /\ Head(startQueue) = t /\ Nothing(t) /\ writes[t] = <<>>
          /\ \A u \in Tasks : starting[u] # "writing"
        BY <1>1, TurnIs
    <1>3. PICK V \in SUBSET Tasks : Prunable(records, V) /\ records' = Pruned(records, V) /\ disk' = Pruned(disk, V)
        BY DEF StartNew
    <1>4. PICK rec \in Records : rec = [state |-> "starting", pid |-> FALSE]
        BY DEF Records, ActiveStates
    <1>5. Persist(t, rec, "start") /\ "start" \in Writers
        BY <1>4 DEF StartNew, Writers
    <1>6. /\ writes' \in [Tasks -> Seq([rec : Records, by : Writers])]
          /\ \A u \in Tasks : u # t => writes'[u] = writes[u]
          /\ Len(writes'[t]) = 1
          /\ \A i \in 1..Len(writes'[t]) : i = 1 /\ writes'[t][i] = [rec |-> rec, by |-> "start"]
        <2>1. Len(writes[t]) = 0
            BY <1>2
        <2>2. /\ writes' \in [Tasks -> Seq([rec : Records, by : Writers])]
              /\ \A u \in Tasks : u # t => writes'[u] = writes[u]
              /\ Len(writes'[t]) = Len(writes[t]) + 1
              /\ \A i \in 1..Len(writes'[t]) :
                    \/ i \in 1..Len(writes[t]) /\ writes'[t][i] = writes[t][i]
                    \/ i = Len(writes[t]) + 1 /\ writes'[t][i] = [rec |-> rec, by |-> "start"]
            BY <1>0, <1>5, Queued
        <2>3. Len(writes'[t]) = 1
            BY <2>1, <2>2
        <2>4. ASSUME NEW i \in 1..Len(writes'[t])
              PROVE  i = 1 /\ writes'[t][i] = [rec |-> rec, by |-> "start"]
            <3>1. i = 1 /\ i \notin 1..Len(writes[t])
                BY <2>1, <2>3
            <3> QED
                BY <2>2, <3>1
        <2> QED
            BY <2>2, <2>3, <2>4
    <1>7. ASSUME NEW u \in Tasks
          PROVE  \/ records'[u] = records[u] /\ disk'[u] = disk[u]
                 \/ records[u].state \in FinalStates /\ records'[u] = NoRecord /\ disk'[u] = NoRecord
        BY <1>3 DEF Pruned, Prunable
    <1>8. TypeOK'
        <2>1. disk' \in [Tasks -> Records \cup {NoRecord}] /\ records' \in [Tasks -> Records \cup {NoRecord}]
            BY <1>0, <1>3 DEF TypeOK, Pruned
        <2> QED
            BY <1>0, <1>1, <1>6, <2>1 DEF TypeOK, execVars, cancelVars, bounds
    <1>9. starting'[t] = "writing" /\ \A u \in Tasks : u # t => starting'[u] = starting[u]
        BY <1>0, <1>1 DEF TypeOK
    <1>10. ASSUME NEW u \in Tasks, u # t
           PROVE  TaskInv(u)' /\ (Busy(u)' <=> Busy(u))
        BY <1>0, <1>1, <1>6, <1>7, <1>9, <1>10, PrunedKept DEF execVars, cancelVars
    <1>11. Nothing(t)'
        BY <1>1, <1>2, <1>7 DEF Nothing, execVars, cancelVars
    <1>12. TaskInv(t)'
        <2>1. BornInv(t)'
            BY <1>6, <1>9, <1>11 DEF BornInv
        <2>2. HeldInv(t)' /\ KnownInv(t)' /\ DiskInv(t)'
            BY <1>11 DEF HeldInv, KnownInv, DiskInv, Nothing, InRunner, Tracked
        <2>4. IsActive(rec)
            BY <1>4 DEF IsActive, ActiveStates
        <2>5. ASSUME NEW i \in 1..Len(writes'[t])
              PROVE  i = 1 /\ writes'[t][i].by = "start" /\ writes'[t][i].rec = rec
            BY <1>6
        <2>3. ChainInv(t)'
            BY <1>4, <1>9, <2>4, <2>5 DEF ChainInv
        <2> QED
            BY <2>1, <2>2, <2>3 DEF TaskInv
    <1>13. ASSUME NEW u \in Tasks, u # t, OwnerOf[u] = OwnerOf[t], CommandOf[u] = CommandOf[t]
           PROVE  ~Busy(u)
        <2>1. ~IsActive(records[u])
            BY <1>1, <1>13 DEF Duplicates, Accessible
        <2>2. starting[u] # "writing" /\ TaskInv(u)
            BY <1>0, <1>2
        <2> QED
            BY <2>1, <2>2 DEF Busy, TaskInv, KnownInv, Tracked, InRunner
    <1>14. BusyInv'
        BY <1>0, <1>10, <1>13 DEF BusyInv
    <1>15. QueueInv'
        <2>1. ASSUME NEW u \in Tasks, starting'[u] \in {"queued", "writing"}
              PROVE  /\ \E i \in 1..Len(startQueue) : startQueue[i] = u
                     /\ starting'[u] = "writing" => Head(startQueue) = u
            BY <1>0, <1>2, <1>9, <2>1 DEF QueueInv
        <2> QED
            BY <1>1, <2>1 DEF QueueInv
    <1> QED
        BY <1>8, <1>10, <1>12, <1>14, <1>15 DEF TasksInv

-----------------------------------------------------------------------------
(***************************************************************************)
(* The writes                                                              *)
(***************************************************************************)
LEMMA UnlinkKept ==
    ASSUME TasksInv, NEW t \in Tasks, Unlink(t)
    PROVE  TasksInv'
    <1>0. TypeOK /\ TaskInv(t)
        BY DEF TasksInv
    <1>1. /\ disk[t] # NoRecord /\ disk' = [disk EXCEPT ![t] = NoRecord]
          /\ UNCHANGED <<records, writes, startVars, execVars, proc, cancelVars, bounds, disowned>>
        BY DEF Unlink
    <1>2. TypeOK'
        BY <1>0, <1>1 DEF TypeOK, startVars, execVars, cancelVars, bounds
    <1>3. (\A u \in Tasks : u # t => Frozen(u)) /\ disk'[t] = NoRecord
        BY <1>0, <1>1 DEF TypeOK, Frozen, startVars, execVars, cancelVars
    <1>4. starting[t] \notin {"idle", "queued", "writing"}
        BY <1>0, <1>1, NotNew DEF TaskInv, Nothing
    <1>5. (InRunner(t)' <=> InRunner(t)) /\ (Tracked(t)' <=> Tracked(t)) /\ starting' = starting /\ startQueue' = startQueue
        BY <1>1 DEF InRunner, Tracked, execVars, cancelVars, startVars
    <1>6. BornInv(t)' /\ HeldInv(t)' /\ KnownInv(t)' /\ DiskInv(t)'
        BY <1>0, <1>1, <1>3, <1>4, <1>5 DEF TaskInv, BornInv, HeldInv, KnownInv, DiskInv, execVars, cancelVars
    <1>7. ChainInv(t)'
        BY <1>0, <1>1, <1>5 DEF TaskInv, ChainInv, execVars, cancelVars
    <1>8. QueueInv'
        BY <1>5, QueueSame DEF TasksInv
    <1>9. Busy(t)' <=> Busy(t)
        BY <1>1, <1>5 DEF Busy, cancelVars
    <1> QED
        BY <1>2, <1>3, <1>6, <1>7, <1>8, <1>9, OneTask DEF TaskInv

\* The first write of the chain is done.
LEMMA HeadIs ==
    ASSUME TypeOK, NEW t \in Tasks, ChainInv(t), writes[t] # <<>>
    PROVE  LET w == Head(writes[t]) IN
           /\ w \in [rec : Records, by : Writers]
           /\ w.by = "start" => starting[t] = "writing" /\ w.rec = [state |-> "starting", pid |-> FALSE]
           /\ w.by = "run" => run[t] = "persist"
           /\ w.by \in {"start", "run", "pid"} => IsActive(w.rec)
           /\ w.by = "cancel" => t \in cancelled
           /\ w.by \in {"final", "catch", "refresh"} => ~InRunner(t) /\ ~Tracked(t)
    <1> DEFINE Entries == [rec : Records, by : Writers]
    <1>1. writes[t] \in Seq(Entries)
        BY DEF TypeOK
    <1> HIDE DEF Entries
    <1>2. 1 \in 1..Len(writes[t]) /\ Head(writes[t]) = writes[t][1]
        BY <1>1
    <1>3. writes[t][1] \in Entries
        BY <1>1, <1>2
    <1> QED
        BY <1>2, <1>3 DEF ChainInv, Entries

\* The rest of the chain.
LEMMA TailIs ==
    ASSUME TypeOK, NEW t \in Tasks, ChainInv(t), writes[t] # <<>>, writes'[t] = Tail(writes[t]),
           cancelled' = cancelled, current'[t] = current[t],
           Tracked(t)' => Tracked(t), InRunner(t)' => InRunner(t)
    PROVE  ChainInv(t)'
    <1>1. writes[t] \in Seq([rec : Records, by : Writers])
        BY DEF TypeOK
    <1>2. Len(writes[t]) \in Nat /\ Len(writes[t]) > 0 /\ Len(writes'[t]) = Len(writes[t]) - 1
        BY <1>1
    <1>3. ASSUME NEW i \in 1..Len(writes'[t])
          PROVE  i + 1 \in 1..Len(writes[t]) /\ i + 1 # 1 /\ writes'[t][i] = writes[t][i + 1]
        BY <1>1, <1>2
    <1>4. ASSUME NEW i \in 1..Len(writes'[t])
          PROVE  /\ writes'[t][i].by \notin {"start", "run"}
                 /\ writes'[t][i].by = "pid" => IsActive(writes'[t][i].rec)
                 /\ writes'[t][i].by = "cancel" => t \in cancelled
                 /\ writes'[t][i].by \in {"final", "catch", "refresh"} => ~InRunner(t) /\ ~Tracked(t)
                 /\ writes'[t][i].by \in {"final", "catch"} => current[t] \in Records
        <2>1. PICK k \in 1..Len(writes[t]) : k # 1 /\ writes'[t][i] = writes[t][k]
            BY <1>3
        <2> QED
            BY <2>1 DEF ChainInv
    <1> QED
        BY <1>4 DEF ChainInv

\* The counters of writes ahead of a reader stay natural numbers.
LEMMA MoveUpIs ==
    ASSUME TypeOK, NEW t \in Tasks, MoveUp(t)
    PROVE  behind' \in [Tasks -> Nat] /\ cancelBehind' \in [Tasks -> Nat]
    <1>1. behind \in [Tasks -> Nat] /\ cancelBehind \in [Tasks -> Nat]
        BY DEF TypeOK
    <1>2. PICK m \in Nat, n \in Nat : /\ m = IF behind[t] > 0 THEN behind[t] - 1 ELSE 0
                                      /\ n = IF cancelBehind[t] > 0 THEN cancelBehind[t] - 1 ELSE 0
        BY <1>1
    <1>3. behind' = [behind EXCEPT ![t] = m] /\ cancelBehind' = [cancelBehind EXCEPT ![t] = n]
        BY <1>1, <1>2 DEF MoveUp
    <1> QED
        BY <1>1, <1>3

\* A write is done that is not the one of a start call.
LEMMA DoneKept ==
    ASSUME TasksInv, NEW t \in Tasks, writes[t] # <<>>, TypeOK', \A u \in Tasks : u # t => Frozen(u),
           starting' = starting, startQueue' = startQueue, writes'[t] = Tail(writes[t]),
           current'[t] = current[t], settled'[t] = settled[t], proc'[t] = proc[t],
           cancelled' = cancelled, disowned' = disowned,
           NEW w, w = Head(writes[t]), disk'[t] = w.rec, records'[t] = w.rec,
           \/ run'[t] = run[t] /\ w.by \in {"pid", "cancel", "refresh"}
           \/ run'[t] = "runner" /\ w.by = "run"
           \/ run'[t] = "none" /\ w.by \in {"final", "catch"}
    PROVE  TasksInv'
    <1>0. TypeOK /\ TaskInv(t) /\ QueueInv /\ writes[t] \in Seq([rec : Records, by : Writers])
        BY DEF TasksInv, TypeOK
    <1>1. /\ w \in [rec : Records, by : Writers]
          /\ w.by = "run" => run[t] = "persist"
          /\ w.by \in {"start", "run", "pid"} => IsActive(w.rec)
          /\ w.by = "cancel" => t \in cancelled
          /\ w.by \in {"final", "catch", "refresh"} => ~InRunner(t) /\ ~Tracked(t)
        BY <1>0, HeadIs DEF TaskInv
    <1>2. starting[t] \notin {"idle", "queued", "writing"}
        <2>1. w = writes[t][1]
            BY <1>0
        <2> QED
            BY <1>0, <2>1 DEF TaskInv, BornInv
    <1>3. (Tracked(t)' <=> Tracked(t)) /\ (InRunner(t)' => InRunner(t))
        BY <1>1 DEF Tracked, InRunner
    <1>4. ChainInv(t)'
        BY <1>0, <1>3, TailIs DEF TaskInv
    <1>5. BornInv(t)' /\ DiskInv(t)'
        BY <1>2 DEF BornInv, DiskInv
    <1>6. HeldInv(t)'
        BY <1>0, <1>1 DEF HeldInv, TaskInv
    <1>7. KnownInv(t)'
        <2>1. InRunner(t)' /\ t \notin cancelled => IsActive(records'[t])
            BY <1>1, <1>3
        <2>2. ~(Tracked(t)' /\ run'[t] # "child")
            BY <1>0, <1>1, <1>3 DEF TaskInv, KnownInv, Tracked
        <2> QED
            BY <2>1, <2>2 DEF KnownInv
    <1>8. QueueInv'
        BY <1>0, QueueSame
    <1>9. Busy(t)' => Busy(t)
        BY <1>3 DEF Busy, Tracked
    <1> QED
        BY <1>4, <1>5, <1>6, <1>7, <1>8, <1>9, OneTask DEF TaskInv

\* A write that completes puts on disk what the map of records already says.
LEMMA WriteDoneKept ==
    ASSUME TasksInv, NEW t \in Tasks, WriteDone(t)
    PROVE  TasksInv'
    <1>0. TypeOK /\ TaskInv(t) /\ QueueInv
        BY DEF TasksInv
    <1>1. PICK w : w = Head(writes[t])
        OBVIOUS
    <1>2. /\ writes[t] # <<>> /\ disk' = [disk EXCEPT ![t] = w.rec] /\ records' = [records EXCEPT ![t] = w.rec] /\ MoveUp(t)
          /\ UNCHANGED <<settled, proc, cancelled, bounds, disowned>>
        BY <1>1 DEF WriteDone
    <1>3. /\ w \in [rec : Records, by : Writers]
          /\ w.by = "start" => starting[t] = "writing" /\ w.rec = [state |-> "starting", pid |-> FALSE] /\ IsActive(w.rec)
        BY <1>0, <1>1, <1>2, HeadIs DEF TaskInv
    <1>4. /\ disk' \in [Tasks -> Records \cup {NoRecord}] /\ records' \in [Tasks -> Records \cup {NoRecord}]
          /\ behind' \in [Tasks -> Nat] /\ cancelBehind' \in [Tasks -> Nat]
          /\ disk'[t] = w.rec /\ records'[t] = w.rec
          /\ \A u \in Tasks : u # t => disk'[u] = disk[u] /\ records'[u] = records[u]
        BY <1>0, <1>2, <1>3, MoveUpIs DEF TypeOK
    <1> DEFINE Entries == [rec : Records, by : Writers]
    <1>5. writes \in [Tasks -> Seq(Entries)] /\ writes[t] \in Seq(Entries)
        BY <1>0 DEF TypeOK
    <1> HIDE DEF Entries
    <1>6. PICK rest \in Seq(Entries) : rest = Tail(writes[t])
        <2>1. Tail(writes[t]) \in Seq(Entries)
            BY <1>2, <1>5
        <2> QED
            BY <2>1
    <1>7. ASSUME writes' = [writes EXCEPT ![t] = Tail(@)]
          PROVE  writes' \in [Tasks -> Seq(Entries)] /\ writes'[t] = Tail(writes[t]) /\ \A u \in Tasks : u # t => writes'[u] = writes[u]
        <2>1. writes' = [writes EXCEPT ![t] = rest]
            BY <1>5, <1>6, <1>7
        <2> QED
            BY <1>5, <1>6, <2>1
    <1>8. ASSUME writes' = [writes EXCEPT ![t] = Tail(@)], UNCHANGED <<startVars, current>>,
                 run' \in [Tasks -> RunStates], controllers' \in [Tasks -> {"none", "live", "aborted"}],
                 cancelling' \in [Tasks -> CancelStates],
                 \A u \in Tasks : u # t => /\ run'[u] = run[u] /\ controllers'[u] = controllers[u]
                                           /\ cancelling'[u] = cancelling[u],
                 \/ run'[t] = run[t] /\ w.by \in {"pid", "cancel", "refresh"}
                 \/ run'[t] = "runner" /\ w.by = "run"
                 \/ run'[t] = "none" /\ w.by \in {"final", "catch"}
          PROVE  TasksInv'
        <2>1. writes' \in [Tasks -> Seq(Entries)] /\ writes'[t] = Tail(writes[t]) /\ \A u \in Tasks : u # t => writes'[u] = writes[u]
            BY <1>7, <1>8
        <2>2. TypeOK'
            BY <1>0, <1>2, <1>4, <1>8, <2>1 DEF TypeOK, startVars, bounds, CancelStates, Entries
        <2>3. \A u \in Tasks : u # t => Frozen(u)
            BY <1>2, <1>4, <1>8, <2>1 DEF Frozen, startVars
        <2>4. starting' = starting /\ startQueue' = startQueue /\ current' = current /\ settled' = settled /\ proc' = proc
            BY <1>2, <1>8 DEF startVars
        <2> QED
            BY <1>1, <1>2, <1>4, <1>8, <2>1, <2>2, <2>3, <2>4, DoneKept
    <1>9. /\ run \in [Tasks -> RunStates] /\ controllers \in [Tasks -> {"none", "live", "aborted"}]
          /\ cancelling \in [Tasks -> CancelStates]
        BY <1>0 DEF TypeOK, CancelStates
    <1>10. CASE w.by = "start"
        <2>1. /\ controllers' = [controllers EXCEPT ![t] = "live"] /\ run' = [run EXCEPT ![t] = "persist"]
              /\ current' = [current EXCEPT ![t] = As(w.rec, "running")] /\ Leave(t) /\ cancelling' = cancelling
            BY <1>1, <1>10 DEF WriteDone
        <2>2. writes' = [writes EXCEPT ![t] = Append(Tail(@), [rec |-> As(w.rec, "running"), by |-> "run"])]
            BY <1>1, <1>10 DEF WriteDone
        <2>3. PICK rec \in Records : rec = [state |-> "running", pid |-> FALSE]
            BY DEF Records, ActiveStates
        <2>4. As(w.rec, "running") = rec
            <3>1. w.rec = [state |-> "starting", pid |-> FALSE]
                BY <1>3, <1>10
            <3>2. As([state |-> "starting", pid |-> FALSE], "running") = [state |-> "running", pid |-> FALSE]
                BY InState
            <3> QED
                BY <2>3, <3>1, <3>2, Zenon
        <2>5. Nothing(t) /\ Len(writes[t]) = 1 /\ Head(startQueue) = t
            BY <1>0, <1>3, <1>10 DEF TaskInv, BornInv, QueueInv
        <2>6. PICK e \in Entries : e = [rec |-> rec, by |-> "run"]
            BY DEF Entries, Writers
        <2>7. Append(rest, e) \in Seq(Entries) /\ Len(Append(rest, e)) = 1 /\ Append(rest, e)[1] = e
            <3>1. Len(rest) = 0
                BY <1>5, <1>6, <2>5
            <3> QED
                BY <3>1
        <2>8. PICK s \in Seq(Entries) : s = Append(rest, e)
            BY <2>7
        <2>9. writes' = [writes EXCEPT ![t] = s]
            BY <1>5, <1>6, <2>2, <2>4, <2>6, <2>8
        <2>10. /\ writes' \in [Tasks -> Seq(Entries)] /\ writes'[t] = s
               /\ \A u \in Tasks : u # t => writes'[u] = writes[u]
            BY <1>5, <2>8, <2>9
        <2>11. Len(s) = 1 /\ s[1] = e
            BY <2>7, <2>8
        <2>12. startQueue' \in Seq(Tasks) /\ QueueInv' /\ starting' = [starting EXCEPT ![t] = "done"]
            BY <1>0, <1>3, <1>10, <2>1, <2>5, LeaveKept
        <2>13. current' = [current EXCEPT ![t] = rec]
            BY <2>1, <2>4
        <2>20. /\ controllers' \in [Tasks -> {"none", "live", "aborted"}] /\ run' \in [Tasks -> RunStates]
               /\ run'[t] = "persist" /\ \A u \in Tasks : u # t => run'[u] = run[u] /\ controllers'[u] = controllers[u]
            BY <1>9, <2>1 DEF RunStates
        <2>21. current' \in [Tasks -> Records \cup {NoRecord}] /\ current'[t] = rec /\ \A u \in Tasks : u # t => current'[u] = current[u]
            BY <1>0, <2>3, <2>13 DEF TypeOK
        <2>22. starting' \in [Tasks -> {"idle", "queued", "writing", "done"}] /\ starting'[t] = "done" /\ \A u \in Tasks : u # t => starting'[u] = starting[u]
            BY <1>0, <2>12 DEF TypeOK
        <2>23. cancelling' = cancelling
            BY <2>1
        <2>14. TypeOK'
            BY <1>0, <1>2, <1>4, <2>10, <2>12, <2>20, <2>21, <2>22, <2>23 DEF TypeOK, bounds, Entries
        <2>15. /\ \A u \in Tasks : u # t => Frozen(u)
               /\ run'[t] = "persist" /\ starting'[t] = "done" /\ current'[t] = rec
            BY <1>2, <1>4, <2>10, <2>20, <2>21, <2>22, <2>23 DEF Frozen
        <2>16. BornInv(t)' /\ HeldInv(t)' /\ KnownInv(t)' /\ DiskInv(t)'
            BY <1>2, <1>3, <1>4, <1>10, <2>3, <2>5, <2>15 DEF BornInv, HeldInv, KnownInv, DiskInv, Nothing, Tracked
        <2>17. ASSUME NEW i \in 1..Len(writes'[t])
               PROVE  i = 1 /\ writes'[t][i].by = "run" /\ IsActive(writes'[t][i].rec)
            <3>1. i = 1 /\ writes'[t][i] = e
                BY <2>10, <2>11
            <3>2. e.by = "run" /\ e.rec = rec /\ rec.state = "running"
                BY <2>3, <2>6
            <3> QED
                BY <3>1, <3>2 DEF IsActive, ActiveStates
        <2>18. ChainInv(t)'
            BY <2>15, <2>17 DEF ChainInv
        <2>19. Busy(t)' => Busy(t)
            BY <1>3, <1>10, <2>5 DEF Busy, Nothing
        <2> QED
            BY <2>12, <2>14, <2>15, <2>16, <2>18, <2>19, OneTask DEF TaskInv
    <1>11. CASE w.by = "run"
        <2>1. /\ run' = [run EXCEPT ![t] = "runner"] /\ writes' = [writes EXCEPT ![t] = Tail(@)]
              /\ UNCHANGED <<startVars, current, controllers, cancelling>>
            BY <1>1, <1>11 DEF WriteDone
        <2>2. run' \in [Tasks -> RunStates] /\ run'[t] = "runner" /\ \A u \in Tasks : u # t => run'[u] = run[u]
            BY <1>9, <2>1 DEF RunStates
        <2> QED
            BY <1>8, <1>9, <1>11, <2>1, <2>2
    <1>12. CASE w.by \in {"final", "catch"}
        <2>1. /\ run' = [run EXCEPT ![t] = "none"] /\ controllers' = [controllers EXCEPT ![t] = "none"]
              /\ writes' = [writes EXCEPT ![t] = Tail(@)] /\ UNCHANGED <<startVars, current, cancelling>>
            BY <1>1, <1>12 DEF WriteDone, Ended
        <2>2. /\ run' \in [Tasks -> RunStates] /\ run'[t] = "none" /\ \A u \in Tasks : u # t => run'[u] = run[u]
              /\ controllers' \in [Tasks -> {"none", "live", "aborted"}]
              /\ \A u \in Tasks : u # t => controllers'[u] = controllers[u]
            BY <1>9, <2>1 DEF RunStates
        <2> QED
            BY <1>8, <1>9, <1>12, <2>1, <2>2
    <1>13. CASE w.by = "cancel"
        <2>1. Abort(t) /\ writes' = [writes EXCEPT ![t] = Tail(@)] /\ UNCHANGED <<startVars, run, current>>
            BY <1>1, <1>13 DEF WriteDone
        <2>2. PICK c \in {"aborted", "none", "live"}, x \in CancelStates :
                  controllers' = [controllers EXCEPT ![t] = c] /\ cancelling' = [cancelling EXCEPT ![t] = x]
            <3>1. CASE controllers[t] # "none"
                <4>1. controllers' = [controllers EXCEPT ![t] = "aborted"] /\ cancelling' = [cancelling EXCEPT ![t] = "awaiting"]
                    BY <2>1, <3>1 DEF Abort
                <4> QED
                    BY <4>1 DEF CancelStates
            <3>2. CASE controllers[t] = "none"
                <4>1. PICK x : x = IF records'[t].pid THEN "terminating" ELSE "done"
                    OBVIOUS
                <4>2. cancelling' = [cancelling EXCEPT ![t] = x] /\ controllers' = controllers
                    BY <2>1, <3>2, <4>1 DEF Abort
                <4>3. controllers = [controllers EXCEPT ![t] = "none"]
                    BY <1>9, <3>2
                <4>4. x \in CancelStates
                    BY <4>1 DEF CancelStates
                <4> QED
                    BY <4>2, <4>3, <4>4
            <3> QED
                BY <3>1, <3>2
        <2>3. /\ controllers' \in [Tasks -> {"none", "live", "aborted"}] /\ cancelling' \in [Tasks -> CancelStates]
              /\ \A u \in Tasks : u # t => controllers'[u] = controllers[u] /\ cancelling'[u] = cancelling[u]
            BY <1>9, <2>2
        <2> QED
            BY <1>8, <1>9, <1>13, <2>1, <2>3
    <1>14. CASE w.by \in {"pid", "refresh"}
        <2>1. writes' = [writes EXCEPT ![t] = Tail(@)] /\ UNCHANGED <<startVars, run, current, controllers, cancelling>>
            BY <1>1, <1>14 DEF WriteDone
        <2> QED
            BY <1>8, <1>9, <1>14, <2>1
    <1> QED
        BY <1>3, <1>10, <1>11, <1>12, <1>13, <1>14 DEF Writers

\* A write fails, and execute() with it when it waits for it.
LEMMA WriteFailsKept ==
    ASSUME TasksInv, NEW t \in Tasks, WriteFails(t)
    PROVE  TasksInv'
    <1>0. TypeOK /\ TaskInv(t) /\ QueueInv /\ MaxFaults \in Nat
        BY BoundsAssumption DEF TasksInv
    <1>1. /\ writes[t] # <<>> /\ "pid" \notin FailedWriters(t) /\ Fault
          /\ writes' = [writes EXCEPT ![t] = <<>>] /\ behind' = [behind EXCEPT ![t] = 0] /\ cancelBehind' = [cancelBehind EXCEPT ![t] = 0]
          /\ UNCHANGED <<disk, records, current, proc, cancelled, crashes, disowned>>
        BY DEF WriteFails
    <1>2. PICK r, c, x, y :
              /\ r = IF "run" \in FailedWriters(t) \/ ThrowsInCatch(t) THEN "none" ELSE IF ThrowsInTry(t) THEN "settled" ELSE run[t]
              /\ c = IF ThrowsInCatch(t) THEN "none" ELSE controllers[t]
              /\ x = IF ThrowsInTry(t) THEN "rejected" ELSE settled[t]
              /\ y = IF "cancel" \in FailedWriters(t) \/ cancelling[t] = "reading" THEN "done" ELSE cancelling[t]
        OBVIOUS
    <1>3. run \in [Tasks -> RunStates] /\ controllers \in [Tasks -> {"none", "live", "aborted"}]
        BY <1>0 DEF TypeOK
    <1>4. settled \in [Tasks -> {"none", "succeeded", "failed", "rejected"}] /\ cancelling \in [Tasks -> CancelStates]
        BY <1>0 DEF TypeOK, CancelStates
    <1>5. run' = [run EXCEPT ![t] = r] /\ controllers' = [controllers EXCEPT ![t] = c]
        BY <1>2, <1>3 DEF WriteFails
    <1>6. settled' = [settled EXCEPT ![t] = x] /\ cancelling' = [cancelling EXCEPT ![t] = y]
        BY <1>2, <1>4 DEF WriteFails
    <1>7. r \in RunStates /\ c \in {"none", "live", "aborted"} /\ x \in {"none", "succeeded", "failed", "rejected"} /\ y \in CancelStates
        BY <1>2, <1>3, <1>4 DEF RunStates, CancelStates
    <1>8. /\ run' \in [Tasks -> RunStates] /\ controllers' \in [Tasks -> {"none", "live", "aborted"}]
          /\ settled' \in [Tasks -> {"none", "succeeded", "failed", "rejected"}] /\ cancelling' \in [Tasks -> CancelStates]
          /\ run'[t] = r /\ settled'[t] = x
          /\ \A u \in Tasks : u # t => /\ run'[u] = run[u] /\ controllers'[u] = controllers[u]
                                       /\ settled'[u] = settled[u] /\ cancelling'[u] = cancelling[u]
        BY <1>3, <1>4, <1>5, <1>6, <1>7
    <1>9. \A i \in 1..Len(writes[t]) : i \in DOMAIN writes[t]
        BY <1>0 DEF TypeOK
    <1>10. \A i \in DOMAIN writes[t] : i \in 1..Len(writes[t])
        BY <1>0 DEF TypeOK
    <1>11. /\ "start" \in FailedWriters(t) => starting[t] = "writing"
           /\ "run" \in FailedWriters(t) => run[t] = "persist"
           /\ FailedWriters(t) \cap {"final", "catch"} # {} => ~InRunner(t) /\ ~Tracked(t) /\ current[t] \in Records
        BY <1>0, <1>10 DEF FailedWriters, TaskInv, ChainInv
    <1>12. starting[t] \in {"idle", "queued", "writing"} => starting[t] = "writing" /\ "start" \in FailedWriters(t)
        <2>1. ASSUME starting[t] = "writing"
              PROVE  "start" \in FailedWriters(t)
            <3>1. Len(writes[t]) = 1 /\ writes[t][1].by = "start"
                BY <1>0, <2>1 DEF TaskInv, BornInv
            <3>2. 1 \in DOMAIN writes[t]
                BY <1>9, <3>1
            <3> QED
                BY <3>1, <3>2 DEF FailedWriters
        <2> QED
            BY <1>0, <1>1, <2>1 DEF TaskInv, BornInv
    <1>13. /\ startQueue' \in Seq(Tasks) /\ QueueInv' /\ starting' \in [Tasks -> {"idle", "queued", "writing", "done"}]
           /\ starting'[t] \notin {"idle", "queued", "writing"} /\ \A u \in Tasks : u # t => starting'[u] = starting[u]
        <2>1. CASE "start" \in FailedWriters(t)
            <3>1. Leave(t) /\ starting[t] = "writing" /\ Head(startQueue) = t
                BY <1>0, <1>11, <2>1 DEF WriteFails, QueueInv
            <3>2. startQueue' \in Seq(Tasks) /\ QueueInv' /\ starting' = [starting EXCEPT ![t] = "done"]
                BY <1>0, <3>1, LeaveKept
            <3> QED
                BY <1>0, <3>2 DEF TypeOK
        <2>2. CASE "start" \notin FailedWriters(t)
            <3>1. starting' = starting /\ startQueue' = startQueue
                BY <2>2 DEF WriteFails, startVars
            <3> QED
                BY <1>0, <1>12, <2>2, <3>1, QueueSame DEF TypeOK
        <2> QED
            BY <2>1, <2>2
    <1>14. writes' \in [Tasks -> Seq([rec : Records, by : Writers])] /\ writes'[t] = <<>> /\ \A u \in Tasks : u # t => writes'[u] = writes[u]
        <2> DEFINE Entries == [rec : Records, by : Writers]
        <2>1. writes \in [Tasks -> Seq(Entries)]
            BY <1>0 DEF TypeOK
        <2> HIDE DEF Entries
        <2>2. <<>> \in Seq(Entries)
            OBVIOUS
        <2>3. writes' \in [Tasks -> Seq(Entries)] /\ writes'[t] = <<>> /\ \A u \in Tasks : u # t => writes'[u] = writes[u]
            BY <1>1, <2>1, <2>2
        <2> QED
            BY <2>3 DEF Entries
    <1>15. TypeOK'
        <2>1. faults' \in 0..MaxFaults
            BY <1>0, <1>1 DEF Fault, TypeOK
        <2> QED
            BY <1>0, <1>1, <1>8, <1>13, <1>14, <2>1 DEF TypeOK, CancelStates
    <1>16. \A u \in Tasks : u # t => Frozen(u)
        BY <1>1, <1>8, <1>13, <1>14 DEF Frozen
    <1>17. r = run[t] \/ (r \in {"none", "settled"} /\ ~Tracked(t))
        BY <1>0, <1>2, <1>11 DEF ThrowsInCatch, ThrowsInTry, TaskInv, HeldInv, KnownInv, Tracked
    <1>18. (Tracked(t)' <=> Tracked(t)) /\ (InRunner(t)' => InRunner(t) /\ r = run[t])
        BY <1>1, <1>8, <1>17 DEF Tracked, InRunner
    <1>19. BornInv(t)' /\ DiskInv(t)' /\ ChainInv(t)'
        BY <1>0, <1>1, <1>13, <1>14 DEF BornInv, DiskInv, TaskInv, ChainInv
    <1>20. r \in {"settled", "reading", "result"} => x # "none"
        BY <1>0, <1>2 DEF TaskInv, HeldInv
    <1>24. r # "none" => current[t] \in Records
        BY <1>0, <1>2, <1>11 DEF ThrowsInTry, TaskInv, HeldInv
    <1>21. HeldInv(t)'
        BY <1>0, <1>1, <1>8, <1>17, <1>20, <1>24 DEF HeldInv, TaskInv
    <1>22. KnownInv(t)'
        BY <1>0, <1>1, <1>8, <1>14, <1>17, <1>18 DEF KnownInv, TaskInv
    <1>23. Busy(t)' => Busy(t)
        BY <1>1, <1>13, <1>18 DEF Busy
    <1> QED
        BY <1>13, <1>15, <1>16, <1>19, <1>21, <1>22, <1>23, OneTask DEF TaskInv

-----------------------------------------------------------------------------
(***************************************************************************)
(* The agent is started again                                              *)
(***************************************************************************)
LEMMA PrunedIs ==
    ASSUME NEW recs \in [Tasks -> Records \cup {NoRecord}], NEW V \in SUBSET Tasks, Prunable(recs, V)
    PROVE  /\ Pruned(recs, V) \in [Tasks -> Records \cup {NoRecord}]
           /\ \A u \in Tasks : \/ Pruned(recs, V)[u] = recs[u]
                               \/ recs[u].state \in FinalStates /\ Pruned(recs, V)[u] = NoRecord
    BY DEF Pruned, Prunable

\* A restart loads the records from disk and forgets every execution.
LEMMA RestartKept ==
    ASSUME TasksInv, Restart
    PROVE  TasksInv'
    <1>0. TypeOK /\ (\A t \in Tasks : TaskInv(t)) /\ BusyInv /\ MaxCrashes \in Nat
        BY BoundsAssumption DEF TasksInv
    <1>1. /\ crashes < MaxCrashes /\ crashes' = crashes + 1
          /\ startQueue' = <<>>
          /\ faults' = faults /\ cancelled' = cancelled
        BY DEF Restart
    <1>2. /\ writes' = [t \in Tasks |-> <<>>]
          /\ run' = [t \in Tasks |-> "none"] /\ current' = [t \in Tasks |-> NoRecord]
          /\ settled' = [t \in Tasks |-> "none"] /\ behind' = [t \in Tasks |-> 0]
          /\ controllers' = [t \in Tasks |-> "none"] /\ cancelBehind' = [t \in Tasks |-> 0]
        BY DEF Restart
    <1>3. /\ starting' = [t \in Tasks |-> IF starting[t] = "idle" THEN "idle" ELSE "done"]
          /\ cancelling' = [t \in Tasks |-> IF cancelling[t] \in {"idle", "done"} THEN cancelling[t] ELSE "lost"]
        BY DEF Restart
    <1>4. PICK V \in SUBSET Tasks : Prunable(disk, V) /\ disk' = Pruned(disk, V) /\ records' = Pruned(disk, V)
        BY DEF Restart
    <1>5. /\ disk' \in [Tasks -> Records \cup {NoRecord}] /\ records' = disk'
          /\ \A t \in Tasks : disk'[t] = disk[t] \/ (disk[t].state \in FinalStates /\ disk'[t] = NoRecord)
        BY <1>0, <1>4, PrunedIs DEF TypeOK
    <1>6. PICK dead \in SUBSET {t \in Tasks : proc[t] = "alive"} :
              proc' = [t \in Tasks |-> IF t \in dead THEN "exited" ELSE proc[t]]
        BY DEF Restart
    <1>7. proc' \in [Tasks -> {"none", "alive", "exited"}] /\ \A t \in Tasks : proc'[t] = proc[t] \/ (proc[t] = "alive" /\ proc'[t] = "exited")
        BY <1>0, <1>6 DEF TypeOK
    <1>8. disowned' = disowned \cup {t \in Tasks : proc[t] = "alive" /\ ~(IsActive(disk[t]) /\ disk[t].pid)}
        BY DEF Restart
    <1>9. /\ starting' \in [Tasks -> {"idle", "queued", "writing", "done"}]
          /\ \A t \in Tasks : /\ starting'[t] \in {"idle", "done"}
                              /\ starting'[t] = "idle" => starting[t] = "idle"
        BY <1>0, <1>3 DEF TypeOK
    <1>10. /\ cancelling' \in [Tasks -> {"idle", "reading", "writing", "awaiting", "terminating", "done", "lost"}]
           /\ \A t \in Tasks : cancelling[t] = "idle" => cancelling'[t] = "idle"
        BY <1>0, <1>3 DEF TypeOK
    <1>11. writes' \in [Tasks -> Seq([rec : Records, by : Writers])] /\ \A t \in Tasks : writes'[t] = <<>>
        <2> DEFINE Entries == [rec : Records, by : Writers]
        <2> HIDE DEF Entries
        <2>1. writes' \in [Tasks -> Seq(Entries)] /\ \A t \in Tasks : writes'[t] = <<>>
            BY <1>2
        <2> QED
            BY <2>1 DEF Entries
    <1>12. TypeOK'
        <2>1. crashes' \in 0..MaxCrashes
            BY <1>0, <1>1 DEF TypeOK
        <2>2. startQueue' \in Seq(Tasks)
            BY <1>1
        <2>3. run' \in [Tasks -> RunStates] /\ settled' \in [Tasks -> {"none", "succeeded", "failed", "rejected"}]
            BY <1>2 DEF RunStates
        <2>4. behind' \in [Tasks -> Nat] /\ cancelBehind' \in [Tasks -> Nat] /\ controllers' \in [Tasks -> {"none", "live", "aborted"}]
            BY <1>2
        <2>5. current' \in [Tasks -> Records \cup {NoRecord}]
            BY <1>2
        <2>6. disowned' \subseteq Tasks /\ cancelled' \subseteq Tasks /\ faults' \in 0..MaxFaults
            BY <1>0, <1>1, <1>8 DEF TypeOK
        <2> QED
            BY <1>5, <1>7, <1>9, <1>10, <1>11, <2>1, <2>2, <2>3, <2>4, <2>5, <2>6 DEF TypeOK
    <1>13. ASSUME NEW t \in Tasks
           PROVE  TaskInv(t)' /\ (Busy(t)' => Busy(t))
        <2>1. /\ run'[t] = "none" /\ controllers'[t] = "none" /\ writes'[t] = <<>> /\ cancelled' = cancelled
              /\ disowned \subseteq disowned' /\ ~InRunner(t)'
            BY <1>1, <1>2, <1>8, <1>11 DEF InRunner
        <2>2. proc'[t] = "alive" => proc[t] = "alive"
            BY <1>7
        <2>3. Tracked(t)' => IsActive(records'[t]) /\ records'[t].pid
            <3>1. Tracked(t)' => IsActive(disk[t]) /\ disk[t].pid
                BY <1>8, <2>2 DEF Tracked
            <3>2. IsActive(disk[t]) => disk[t].state \notin FinalStates
                BY DEF IsActive, ActiveStates, FinalStates
            <3> QED
                BY <1>5, <3>1, <3>2
        <2>4. BornInv(t)'
            <3>1. starting'[t] = "idle" => Nothing(t)'
                <4>1. ASSUME starting'[t] = "idle"
                      PROVE  Nothing(t)'
                    <5>1. Nothing(t)
                        BY <1>0, <1>9, <4>1 DEF TaskInv, BornInv
                    <5>2. disk'[t] = NoRecord /\ records'[t] = NoRecord
                        BY <1>5, <5>1 DEF Nothing
                    <5>3. proc'[t] = "none" /\ cancelling'[t] = "idle" /\ t \notin cancelled' /\ t \notin disowned'
                        BY <1>7, <1>8, <1>10, <2>1, <5>1 DEF Nothing
                    <5> QED
                        BY <2>1, <5>2, <5>3 DEF Nothing
                <4> QED
                    BY <4>1
            <3> QED
                BY <1>9, <2>1, <3>1 DEF BornInv
        <2>5. HeldInv(t)' /\ DiskInv(t)' /\ KnownInv(t)' /\ ChainInv(t)'
            BY <1>5, <2>1, <2>3 DEF HeldInv, DiskInv, KnownInv, ChainInv
        <2>6. Busy(t)' => Busy(t)
            BY <1>9, <2>1, <2>2 DEF Busy
        <2> QED
            BY <2>4, <2>5, <2>6 DEF TaskInv
    <1>14. QueueInv'
        BY <1>9 DEF QueueInv
    <1>15. BusyInv'
        BY <1>0, <1>13 DEF BusyInv
    <1> QED
        BY <1>12, <1>13, <1>14, <1>15 DEF TasksInv

-----------------------------------------------------------------------------
(***************************************************************************)
(* The theorems                                                            *)
(***************************************************************************)
LEMMA TasksInvInit == Init => TasksInv
    <1> SUFFICES ASSUME Init
                 PROVE  TasksInv
        OBVIOUS
    <1>1. TypeOK
        <2> DEFINE Entries == [rec : Records, by : Writers]
        <2> HIDE DEF Entries
        <2>1. writes \in [Tasks -> Seq(Entries)] /\ startQueue \in Seq(Tasks)
            BY DEF Init
        <2>2. writes \in [Tasks -> Seq([rec : Records, by : Writers])]
            BY <2>1 DEF Entries
        <2>3. crashes \in 0..MaxCrashes /\ faults \in 0..MaxFaults
            BY BoundsAssumption DEF Init
        <2>4. run \in [Tasks -> RunStates]
            BY DEF Init, RunStates
        <2> QED
            BY <2>1, <2>2, <2>3, <2>4 DEF Init, TypeOK
    <1>2. ASSUME NEW t \in Tasks
          PROVE  TaskInv(t) /\ ~Busy(t) /\ starting[t] = "idle"
        <2>1. Nothing(t) /\ writes[t] = <<>> /\ starting[t] = "idle"
            BY DEF Init, Nothing
        <2> QED
            BY <2>1 DEF TaskInv, BornInv, HeldInv, ChainInv, KnownInv, DiskInv, Nothing, InRunner, Tracked, Busy
    <1>3. QueueInv /\ BusyInv
        BY <1>2 DEF QueueInv, BusyInv
    <1> QED
        BY <1>1, <1>2, <1>3 DEF TasksInv

\* A stuttering step keeps the invariant.
LEMMA TasksInvStutters ==
    ASSUME TasksInv, UNCHANGED vars
    PROVE  TasksInv'
    <1>1. /\ UNCHANGED <<disk, records, writes, proc, disowned, startQueue, starting, run, current, settled, behind, controllers>>
          /\ UNCHANGED <<cancelling, cancelBehind, cancelled, crashes, faults>>
        BY DEF vars, startVars, execVars, cancelVars, bounds
    <1>2. TypeOK' /\ QueueInv'
        BY <1>1, QueueSame DEF TasksInv, TypeOK
    <1>3. \A u \in Tasks : Frozen(u)
        BY <1>1 DEF Frozen
    <1>4. \A u \in Tasks : TaskInv(u)' /\ (Busy(u)' <=> Busy(u))
        BY <1>3, FrozenKept DEF TasksInv
    <1>5. BusyInv'
        BY <1>4 DEF TasksInv, BusyInv
    <1> QED
        BY <1>2, <1>4, <1>5 DEF TasksInv

\* TasksInv is inductive.
LEMMA TasksInvNext ==
    ASSUME TasksInv, [Next]_vars
    PROVE  TasksInv'
    <1>1. ASSUME NEW t \in Tasks, StartStep(t)
          PROVE  TasksInv'
        BY <1>1, StartCallKept, StartEndKept, StartNewKept DEF StartStep
    <1>2. ASSUME NEW t \in Tasks, ExecuteStep(t)
          PROVE  TasksInv'
        BY <1>2, SpawnKept, ExecuteKept, EndKept DEF ExecuteStep
    <1>3. ASSUME NEW t \in Tasks, CancelStep(t) \/ Refresh(t)
          PROVE  TasksInv'
        BY <1>3, CancelKept DEF CancelStep
    <1>4. ASSUME NEW t \in Tasks, WriteStep(t)
          PROVE  TasksInv'
        BY <1>4, UnlinkKept, WriteDoneKept, WriteFailsKept DEF WriteStep
    <1>5. CASE Restart
        BY <1>5, RestartKept
    <1>6. CASE UNCHANGED vars
        BY <1>6, TasksInvStutters
    <1> QED
        BY <1>1, <1>2, <1>3, <1>4, <1>5, <1>6 DEF Next

\* TasksInv holds in every reachable state.
LEMMA TasksInvHolds == Spec => []TasksInv
    BY TasksInvInit, TasksInvNext, PTL DEF Spec

\* The duplicate check of start_background_task does its work, however start calls, executions,
\* cancellations, failed writes and restarts of the agent interleave: of two live processes of one
\* owner's command, one was cancelled, or is one that the manager had lost track of.
THEOREM CommandsRunOnce == Spec => []OneProcessPerCommand
    <1>1. TasksInv => OneProcessPerCommand
        BY DEF TasksInv, BusyInv, Busy, OneProcessPerCommand
    <1> QED
        BY <1>1, TasksInvHolds, PTL

(***************************************************************************)
(* A cancellation that is over                                             *)
(***************************************************************************)
LEMMA PersistOther ==
    ASSUME TypeOK, NEW t \in Tasks, NEW u \in Tasks, t # u, NEW rec, NEW by, Persist(u, rec, by)
    PROVE  writes'[t] = writes[t]
    <1>1. DOMAIN writes = Tasks
        BY DEF TypeOK
    <1>2. PICK s : writes' = [writes EXCEPT ![u] = s]
        BY DEF Persist
    <1> QED
        BY <1>1, <1>2

\* A step about one task leaves the others alone; a start call may prune their records.
LEMMA OthersAlone ==
    ASSUME TasksInv, NEW t \in Tasks, NEW u \in Tasks, t # u,
           StartStep(u) \/ ExecuteStep(u) \/ CancelStep(u) \/ WriteStep(u) \/ Refresh(u)
    PROVE  records'[t] \in {records[t], NoRecord} /\ writes'[t] = writes[t] /\ run'[t] = run[t]
    <1>0. TypeOK /\ ChainInv(u)
        BY DEF TasksInv, TaskInv
    <1>1. DOMAIN writes = Tasks /\ DOMAIN run = Tasks /\ DOMAIN records = Tasks
        BY <1>0 DEF TypeOK
    <1>2. CASE StartCall(u) \/ StartDuplicate(u) \/ StartFails(u)
        BY <1>2 DEF StartCall, StartDuplicate, StartFails, execVars
    <1>3. CASE StartNew(u)
        <2>1. PICK V \in SUBSET Tasks : records' = Pruned(records, V)
            BY <1>3 DEF StartNew
        <2>2. Persist(u, [state |-> "starting", pid |-> FALSE], "start") /\ run' = run
            BY <1>3 DEF StartNew, execVars
        <2>3. writes'[t] = writes[t]
            BY <2>2, <1>0, PersistOther
        <2> QED
            BY <2>1, <2>2, <2>3 DEF Pruned
    <1>4. CASE Spawn(u)
        <2>1. Persist(u, [current[u] EXCEPT !.pid = TRUE], "pid") /\ run' = [run EXCEPT ![u] = "child"] /\ records' = records
            BY <1>4, Zenon DEF Spawn
        <2>2. writes'[t] = writes[t]
            BY <2>1, <1>0, PersistOther
        <2> QED
            BY <1>1, <2>1, <2>2
    <1>5. ASSUME NEW how, Settled(u, how)
          PROVE  records' = records /\ writes' = writes /\ run'[t] = run[t]
        BY <1>1, <1>5 DEF Settled
    <1>6. CASE SpawnFails(u) \/ ChildCloses(u) \/ TerminationFails(u) \/ ResultFails(u)
        BY <1>5, <1>6 DEF SpawnFails, ChildCloses, TerminationFails, ResultFails
    <1>7. CASE OrphanExits(u) \/ LogsSanitized(u)
        BY <1>1, <1>7 DEF OrphanExits, LogsSanitized, execVars
    <1>8. CASE ReadLatest(u)
        <2>1. records' = records /\ run'[t] = run[t]
            BY <1>1, <1>8 DEF ReadLatest, Ended
        <2>2. writes' = writes \/ Persist(u, As(current[u], "failed"), "catch")
            BY <1>8 DEF ReadLatest
        <2> QED
            BY <2>1, <2>2, <1>0, PersistOther
    <1>9. CASE ResultWritten(u)
        <2>1. records' = records /\ run'[t] = run[t] /\ Persist(u, current[u], "final")
            BY <1>1, <1>9 DEF ResultWritten
        <2> QED
            BY <2>1, <1>0, PersistOther
    <1>10. CASE CancelCall(u) \/ CancelReturns(u) \/ Terminated(u) \/ TerminateFails(u)
        BY <1>10 DEF CancelCall, CancelReturns, Terminated, TerminateFails, execVars
    <1>11. CASE CancelReads(u) \/ Refresh(u)
        <2>1. records' = records /\ run' = run
            BY <1>11 DEF CancelReads, Refresh, execVars
        <2>2. \/ writes' = writes \/ Persist(u, As(records[u], "failed"), "refresh")
              \/ Persist(u, As(records[u], "cancelled"), "cancel")
            BY <1>11 DEF CancelReads, Refresh
        <2> QED
            BY <2>1, <2>2, <1>0, PersistOther
    <1>12. CASE Unlink(u)
        BY <1>12 DEF Unlink, execVars
    <1>13. CASE WriteDone(u)
        <2>1. PICK w : w = Head(writes[u])
            OBVIOUS
        <2>2. w.by \in Writers
            BY <1>0, <1>13, <2>1, HeadIs DEF WriteDone
        <2>3. records' = [records EXCEPT ![u] = w.rec]
            BY <1>13, <2>1 DEF WriteDone
        <2>4. \E s : writes' = [writes EXCEPT ![u] = s]
            <3>1. CASE w.by = "start"
                <4>1. writes' = [writes EXCEPT ![u] = Append(Tail(@), [rec |-> As(w.rec, "running"), by |-> "run"])]
                    BY <1>13, <2>1, <3>1 DEF WriteDone
                <4> QED
                    BY <4>1
            <3>2. CASE w.by # "start"
                <4>1. writes' = [writes EXCEPT ![u] = Tail(@)]
                    BY <1>13, <2>1, <2>2, <3>2 DEF WriteDone, Writers
                <4> QED
                    BY <4>1
            <3> QED
                BY <3>1, <3>2
        <2>5. run' = run \/ \E r : run' = [run EXCEPT ![u] = r]
            BY <1>13, <2>1, <2>2 DEF WriteDone, Writers, Ended
        <2> QED
            BY <1>1, <2>3, <2>4, <2>5
    <1>14. CASE WriteFails(u)
        <2>1. PICK r : run' = [run EXCEPT ![u] = r]
            BY <1>14 DEF WriteFails
        <2>2. writes' = [writes EXCEPT ![u] = <<>>] /\ records' = records
            BY <1>14 DEF WriteFails
        <2> QED
            BY <1>1, <2>1, <2>2
    <1> QED
        BY <1>2, <1>3, <1>4, <1>6, <1>7, <1>8, <1>9, <1>10, <1>11, <1>12, <1>13, <1>14
        DEF StartStep, ExecuteStep, CancelStep, WriteStep

\* What a step about the task itself does to a cancelled record with an empty write chain.
LEMMA OwnStepIsQuiet ==
    ASSUME TasksInv, NEW t \in Tasks, records[t].state = "cancelled", Quiet(t),
           StartStep(t) \/ ExecuteStep(t) \/ CancelStep(t) \/ WriteStep(t) \/ Refresh(t)
    PROVE  records'[t] = records[t] /\ writes'[t] = <<>> /\ run'[t] \in {"none", "child", "settled", "reading"}
    <1>0. TypeOK /\ TaskInv(t)
        BY DEF TasksInv
    <1>1. run \in [Tasks -> RunStates] /\ writes[t] = <<>> /\ run[t] \in {"none", "child", "settled", "reading"}
        BY <1>0 DEF TypeOK, Quiet
    <1>2. ~IsActive(records[t]) /\ ~Interrupted(t) /\ records[t] # NoRecord
        BY DEF IsActive, ActiveStates, Interrupted, NoRecord
    <1>3. ~WriteStep(t) /\ ~Refresh(t)
        BY <1>1, <1>2 DEF WriteStep, Unlink, WriteDone, WriteFails, Refresh
    <1>4. ~Spawn(t) /\ ~SpawnFails(t) /\ ~ResultWritten(t) /\ ~ResultFails(t)
        BY <1>1 DEF Spawn, SpawnFails, ResultWritten, ResultFails
    <1>5. ~StartNew(t)
        BY <1>2, TurnIs DEF StartNew, Nothing
    <1>6. CASE StartCall(t) \/ StartDuplicate(t) \/ StartFails(t)
        BY <1>1, <1>6 DEF StartCall, StartDuplicate, StartFails, execVars
    <1>7. CASE ChildCloses(t) \/ TerminationFails(t)
        <2>1. PICK how : Settled(t, how)
            BY <1>7 DEF ChildCloses, TerminationFails
        <2> QED
            BY <1>1, <2>1 DEF Settled
    <1>8. CASE OrphanExits(t) \/ LogsSanitized(t)
        BY <1>1, <1>8 DEF OrphanExits, LogsSanitized, execVars
    <1>9. CASE ReadLatest(t)
        <2>1. run' = [run EXCEPT ![t] = "none"] /\ writes' = writes /\ records' = records
            BY <1>9 DEF ReadLatest, SeesCancelled, Ended
        <2> QED
            BY <1>1, <2>1
    <1>10. CASE CancelStep(t)
        BY <1>1, <1>2, <1>10 DEF CancelStep, CancelCall, CancelReads, CancelReturns, Terminated, TerminateFails, execVars
    <1> QED
        BY <1>3, <1>4, <1>5, <1>6, <1>7, <1>8, <1>9, <1>10 DEF StartStep, ExecuteStep

\* A cancellation that is on record, with no write of the task pending, is never written over: not
\* by execute(), which reads the record again before it writes its own, not by a refresh of the
\* task, and not by a restart of the agent.  The record stays until it is pruned.
THEOREM CancellationsStay == Spec => QuietCancelIsFinal
    <1>1. ASSUME TasksInv, [Next]_vars, NEW t \in Tasks, records[t].state = "cancelled", Quiet(t)
          PROVE  (records'[t].state = "cancelled" /\ Quiet(t)') \/ records'[t] = NoRecord
        <2>1. CASE UNCHANGED vars
            BY <1>1, <2>1 DEF vars, Quiet, execVars
        <2>2. ASSUME NEW u \in Tasks, StartStep(u) \/ ExecuteStep(u) \/ CancelStep(u) \/ WriteStep(u) \/ Refresh(u)
              PROVE  (records'[t].state = "cancelled" /\ Quiet(t)') \/ records'[t] = NoRecord
            <3>1. CASE u = t
                BY <1>1, <2>2, <3>1, OwnStepIsQuiet DEF Quiet
            <3>2. CASE u # t
                BY <1>1, <2>2, <3>2, OthersAlone DEF Quiet
            <3> QED
                BY <3>1, <3>2
        <2>3. CASE Restart
            <3>1. PICK V \in SUBSET Tasks : Prunable(disk, V) /\ records' = Pruned(disk, V)
                BY <2>3 DEF Restart
            <3>2. records'[t] \in {disk[t], NoRecord}
                BY <3>1 DEF Pruned
            <3>3. disk[t] \in {records[t], NoRecord}
                BY <1>1 DEF TasksInv, TaskInv, DiskInv
            <3>4. writes'[t] = <<>> /\ run'[t] = "none"
                BY <2>3 DEF Restart
            <3> QED
                BY <1>1, <3>2, <3>3, <3>4 DEF Quiet
        <2> QED
            BY <1>1, <2>1, <2>2, <2>3 DEF Next
    <1>2. TasksInv /\ [Next]_vars => [\A t \in Tasks : records[t].state = "cancelled" /\ Quiet(t) =>
                                          \/ records'[t].state = "cancelled" /\ Quiet(t)'
                                          \/ records'[t] = NoRecord]_vars
        BY <1>1
    <1> QED
        BY <1>2, TasksInvHolds, PTL DEF Spec, QuietCancelIsFinal

=============================================================================
