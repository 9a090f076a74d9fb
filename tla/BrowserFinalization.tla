------------------------ MODULE BrowserFinalization ------------------------
(***************************************************************************)
(* The end of a task: finishTask, called by a client, and the reaper, a    *)
(* timer that expires idle tasks.  Both run under the lifecycle lock, take *)
(* the task away from new operations, close its tabs one by one and then   *)
(* forget what was confirmed and granted for it.                           *)
(***************************************************************************)
EXTENDS BrowserRuntime

NoFin == [pc |-> "idle", task |-> None, all |-> {}, todo |-> {}, tab |-> None, idx |-> 0,
          cands |-> {}, changed |-> FALSE]

\* withLifecycleLock.
LockFree == \A a \in Finalizers : fin[a].pc \in {"idle", "wait"}

\* The task is marked.  What the driver records is not asked.
hasLongLivedTaskActivity(k) == \E kind \in Recordings : <<kind, k>> \in perm.recording

\* beginFinish and beginExpiration.
Begun(k) == [task EXCEPT ![k].state = "finishing"]

\* resolveScoped with finished tasks included.
resolveScoped(r) ==
    LET mine == {k \in Tasks : task[k].owner = req[r].owner /\
                               task[k].state \in {"active", "suspended", "finished"}}
        named == mine \cap {req[r].task}
        found == IF req[r].task = None THEN mine ELSE named
    IN  IF Cardinality(found) = 1 THEN CHOOSE k \in found : TRUE ELSE None

FinishBegins(r) ==
    /\ At(r, "finish")
    /\ fin[r] = NoFin
    /\ LockFree
    /\ LET k == resolveScoped(r) IN
       IF k = None THEN Throw(r, "TASK_NOT_FOUND") /\ UNCHANGED fin
       ELSE IF task[k].state = "finished"
       THEN run' = [run EXCEPT ![r].out = "ok"] /\ UNCHANGED <<task, perm, fin>>
       ELSE IF hasLongLivedTaskActivity(k)
       THEN /\ task' = [task EXCEPT ![k] = Resolved(k, r)]
            /\ run' = [run EXCEPT ![r].out = "TASK_SUSPENDED"]
            /\ UNCHANGED <<perm, fin>>
       ELSE /\ task' = Begun(k)
            /\ fin' = [fin EXCEPT ![r] = [NoFin EXCEPT !.pc = "drain", !.task = k,
                                                       !.all = task[k].tabs, !.todo = task[k].tabs]]
            /\ UNCHANGED <<run, perm>>
    /\ UNCHANGED <<req, tab, drv, acts>>

\* Mutant: the exception is answered and the lock is kept.
FinalizationStays(a, code, d) ==
    /\ run' = IF a = Reaper THEN run ELSE [run EXCEPT ![a].out = code]
    /\ fin' = [fin EXCEPT ![a].pc = "thrown"]
    /\ drv' = d
    /\ UNCHANGED <<req, task, tab, perm, acts>>

\* The end of a finalization that an exception ended: restoreAfterFailedFinalization.
FinalizationFails(a, code, d) ==
    /\ LET k == fin[a].task IN
       task' = IF task[k].state # "finishing" THEN task
               ELSE [task EXCEPT ![k].state = "active", ![k].idle = FALSE]
    /\ fin' = [fin EXCEPT ![a] = NoFin]
    /\ run' = IF a = Reaper THEN run ELSE [run EXCEPT ![a].out = code]
    /\ drv' = d
    /\ UNCHANGED <<req, tab, perm, acts>>

\* Mutant: a finalization that does not wait.
DrainsAtOnce(r) ==
    /\ fin[r].pc = "drain"
    /\ fin' = [fin EXCEPT ![r].pc = "close"]
    /\ UNCHANGED <<req, task, tab, drv, perm, run, acts>>

\* waitForTaskLeases.
Drain(r) ==
    /\ fin[r].pc = "drain"
    /\ task[fin[r].task].leases = 0
    /\ fin' = [fin EXCEPT ![r].pc = "close"]
    /\ UNCHANGED <<req, task, tab, drv, perm, run, acts>>

\* ... until the request's time is over or its client is gone.
DrainFails(r) ==
    /\ fin[r].pc = "drain"
    /\ task[fin[r].task].leases > 0
    /\ FinalizationFails(r, "TASK_SUSPENDED", drv)

\* discardTaskTab, of the tab that is closed.
Discard(a, t) ==
    /\ tab' = Forgotten({t})
    /\ task' = Detached({t})
    /\ fin' = [fin EXCEPT ![a].todo = @ \ {t}, ![a].pc = "close", ![a].tab = None]

\* A tab of the task is selected; one without a page to close is forgotten at once, and one
\* whose page was closed by somebody else ends the finalization.
Reaching(a, t) ==
    IF ~tab[t].reg
    THEN fin' = [fin EXCEPT ![a].todo = @ \ {t}] /\ UNCHANGED <<req, task, tab, drv, perm, run, acts>>
    ELSE IF ~drv.alive \/ tab[t].page = None
    THEN Discard(a, t) /\ UNCHANGED <<req, drv, perm, run, acts>>
    ELSE IF ~Ready /\ Orphans # {}
    THEN FinalizationFails(a, "BROWSER_CONTEXT_RECOVERY_FAILED", Down)
    ELSE IF ~Ready THEN Reconnect(fin[a].task) /\ UNCHANGED <<req, run, fin, acts>>
    ELSE IF tab[t].page \notin ToSet(drv.pages) THEN FinalizationFails(a, "STALE_TAB_ID", drv)
    ELSE /\ drv' = [drv EXCEPT !.current = tab[t].page]
         /\ fin' = [fin EXCEPT ![a].pc = "closing", ![a].tab = t, ![a].idx = IndexOf(tab[t].page)]
         /\ UNCHANGED <<req, task, tab, perm, run, acts>>

ReachTab(a) ==
    /\ fin[a].pc = "close"
    /\ \E t \in fin[a].todo : Reaching(a, t)

\* The page with the index that was found is closed.
ClosePage(a) ==
    /\ fin[a].pc = "closing"
    /\ LET i == fin[a].idx IN
       IF i > Len(drv.pages) THEN UNCHANGED <<drv, acts>>
       ELSE /\ drv' = WithoutPage(i)
            /\ acts' = acts \cup {[by |-> a, want |-> fin[a].tab, hit |-> drv.pages[i],
                                   risky |-> FALSE, conf |-> None]}
    /\ Discard(a, fin[a].tab)
    /\ UNCHANGED <<req, perm, run>>

CloseFails(a) ==
    /\ fin[a].pc = "closing"
    /\ FinalizationFails(a, "driver", drv)

\* Mutant: the answers to come are kept.
RevokedGrantsOnly(k, ts) ==
    [perm EXCEPT !.grants = @ \ {k}, !.conf = {c \in @ : c.tab \notin ts}, !.recording = @ \ (Recordings \X {k})]

\* discardTabs, revokeTask and the end of the marks (a task that the reaper ends has none).
Revoked(k, ts) ==
    [perm EXCEPT !.grants = @ \ {k}, !.asks = {a \in @ : a.task # k},
                 !.conf = {c \in @ : c.tab \notin ts}, !.recording = @ \ (Recordings \X {k})]

\* completeFinish and markExpired.
Completed(k, state) == [task EXCEPT ![k].state = state, ![k].tabs = {}, ![k].idle = TRUE]

TaskEnds(a) ==
    /\ fin[a].pc = "close"
    /\ fin[a].todo = {}
    /\ perm' = Revoked(fin[a].task, fin[a].all)
    /\ task' = Completed(fin[a].task, IF a = Reaper THEN "expired" ELSE "finished")
    /\ fin' = [fin EXCEPT ![a].pc = IF a = Reaper THEN "look" ELSE "save", ![a].changed = TRUE]
    /\ UNCHANGED <<req, tab, drv, run, acts>>

NoTabsInUse == \A k \in Tasks : Accessible(k) => task[k].tabs = {}
Closed == [drv EXCEPT !.linked = FALSE, !.alive = FALSE, !.live = {}]

\* After the last checkpoint the browser is closed if no page is left; else a timer will look
\* again.
FinishReturns(r) ==
    /\ fin[r].pc = "save"
    /\ fin' = [fin EXCEPT ![r] = NoFin]
    /\ run' = [run EXCEPT ![r].out = IF Orphans = {} THEN "ok" ELSE "TAB_NOT_OWNED"]
    /\ drv' = IF Orphans # {} THEN drv
              ELSE IF NoTabsInUse /\ drv.alive /\ drv.pages = <<>> THEN Closed
              ELSE [drv EXCEPT !.timer = @ \/ NoTabsInUse]
    /\ UNCHANGED <<req, task, tab, perm, acts>>

\* scheduleContextIdleShutdown: the timer fires.
IdleShutdown ==
    /\ drv.timer
    /\ LockFree
    /\ drv' = [IF NoTabsInUse /\ drv.alive /\ drv.pages = <<>> THEN Closed ELSE drv
                 EXCEPT !.timer = FALSE]
    /\ UNCHANGED <<req, task, tab, perm, run, fin, acts>>

\* reapExpiredTasks: the candidates are found before the lock is taken ...
Expirable(k) == Accessible(k) /\ task[k].leases = 0 /\ task[k].idle
ReaperTicks ==
    /\ fin[Reaper].pc = "idle"
    /\ \E k \in Tasks : Expirable(k)
    /\ fin' = [fin EXCEPT ![Reaper] = [NoFin EXCEPT !.pc = "wait",
                  !.cands = {[task |-> k, tabs |-> task[k].tabs] : k \in {j \in Tasks : Expirable(j)}}]]
    /\ UNCHANGED <<req, task, tab, drv, perm, run, acts>>

\* ... and looked at again under it.
MayExpire(c) ==
    /\ Expirable(c.task)
    /\ \A p \in perm.conf : p.tab \notin c.tabs
    /\ ~hasLongLivedTaskActivity(c.task)

Looks(c) ==
    [fin[Reaper] EXCEPT !.cands = @ \ {c}, !.pc = IF MayExpire(c) THEN "close" ELSE "look",
                        !.task = c.task, !.all = task[c.task].tabs, !.todo = task[c.task].tabs]

\* When something has expired, a checkpoint and the idle timer follow.
ReaperLooks ==
    /\ \/ fin[Reaper].pc = "wait" /\ LockFree
       \/ fin[Reaper].pc = "look"
    /\ IF fin[Reaper].cands = {}
       THEN /\ fin' = [fin EXCEPT ![Reaper] = NoFin]
            /\ drv' = [drv EXCEPT !.timer = @ \/ (fin[Reaper].changed /\ Orphans = {} /\ NoTabsInUse)]
            /\ UNCHANGED task
       ELSE \E c \in fin[Reaper].cands :
              /\ fin' = [fin EXCEPT ![Reaper] = Looks(c)]
              /\ task' = IF MayExpire(c) THEN Begun(c.task) ELSE task
              /\ UNCHANGED drv
    /\ UNCHANGED <<req, tab, perm, run, acts>>

FinishStep(r) ==
    FinishBegins(r) \/ Drain(r) \/ FinishReturns(r)

FinalizerStep(a) ==
    ReachTab(a) \/ ClosePage(a) \/ TaskEnds(a)
=============================================================================
