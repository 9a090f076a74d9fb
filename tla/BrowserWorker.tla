---------------------------- MODULE BrowserWorker ----------------------------
(***************************************************************************)
(* The browser worker: the HTTP application that takes requests, repeats   *)
(* the answer of a call it has seen, queues every operation, bounds its    *)
(* time and runs it on the runtime; and the world around it, in which      *)
(* clients go away, confirmations and tasks age, pages are closed by hand  *)
(* and the browser dies.                                                   *)
(*                                                                         *)
(* A request that is answered early, because its time is over or its       *)
(* client is gone, is not stopped: an operation that has begun goes on,    *)
(* with its slot and its turn, until it ends.                              *)
(***************************************************************************)
EXTENDS BrowserOperationQueue, BrowserFinalization

CONSTANTS
    Scenarios,  \* the requests and the world of a behaviour: [req, task, tab, drv, perm, faults]
    MaxEntries, \* the capacity of the idempotency registry
    MaxFaults   \* how often something gets too old, is closed by hand or fails

ASSUME EntriesAssumption == MaxEntries \in Nat \ {0}
ASSUME FaultsAssumption == MaxFaults \in Nat
ASSUME NamesAssumption ==
    None \notin Outcomes /\ None \notin Requests /\ None \notin Tasks /\ Reaper \notin Requests

\* A request names an operation, the tab it works on where it needs one, and keys of the queue.
Asked(q) ==
    /\ q.op \in Operations
    /\ q.owner \in Owners
    /\ q.tab \in Tabs \cup {None} /\ q.task \in Tasks \cup {None}
    /\ OnATab(q.op) => q.tab \in Tabs
    /\ q.risky => q.deed.action \in ConfirmedActions(q.op)

ASSUME KeysAssumption == Tabs \cup Tasks \cup {"status", "tabs", "context"} \subseteq Keys
\* What was kept from earlier is well formed: no operation is under way in a task, no
\* confirmation is open, and a task has the tabs that are its own.
ASSUME ScenariosAssumption ==
    \A s \in Scenarios :
        /\ DOMAIN s.req \subseteq Requests /\ \A r \in DOMAIN s.req : Asked(s.req[r])
        /\ s.task \in [Tasks -> TaskRecords] /\ s.tab \in [Tabs -> TabRecords]
        /\ \A k \in Tasks : /\ s.task[k].leases = 0
                            /\ s.task[k].state \in {"none", "active", "suspended"}
                            /\ \A t \in s.task[k].tabs : s.tab[t].of = k
        /\ \A t \in Tabs : s.tab[t].reg => s.tab[t].of # None
        /\ s.perm \in [conf : {{}}, asks : {{}}, grants : SUBSET Tasks,
                       recording : SUBSET (Recordings \X Tasks)]

VARIABLES
    leader,  \* request -> the request whose operation answers it
    entries, \* the requests whose operations the idempotency registry remembers
    ans,     \* request -> its answer
    gone,    \* the requests that were answered early (signal.aborted)
    faults   \* how often that was so far

appVars == <<leader, entries, ans, gone, faults>>
vars == <<queueVars, runtimeVars, appVars>>

TypeOK ==
    /\ QueueTypeOK
    /\ RuntimeTypeOK
    /\ leader \in [Requests -> Requests \cup {None}]
    /\ entries \subseteq Requests /\ gone \subseteq Requests
    /\ faults \in 0..MaxFaults

Init ==
    /\ QueueInit
    /\ \E s \in Scenarios :
         req = s.req /\ task = s.task /\ tab = s.tab /\ drv = s.drv /\ perm = s.perm
            /\ faults = s.faults
    /\ run = [r \in Requests |-> [at |-> 0, task |-> None, held |-> 0, tab |-> None, mode |-> "none",
                                  idx |-> 0, mark |-> {}, out |-> None]]
    /\ fin = [a \in Finalizers |-> NoFin]
    /\ acts = {}
    /\ leader = [r \in Requests |-> None]
    /\ entries = {}
    /\ ans = [r \in Requests |-> None]
    /\ gone = {}

(***************************************************************************)
(* Arrival, start and answer of a request.                                 *)
(***************************************************************************)
operationQueueKey(r) ==
    IF req[r].tab # None THEN req[r].tab
    ELSE IF req[r].task # None THEN req[r].task
    ELSE IF req[r].op \in {"status", "tabs"} THEN req[r].op ELSE "context"

scopedBrowserCallId(r) == <<req[r].owner, req[r].call>>
Keyed(r) == isMutatingOperation(req[r].op) /\ req[r].call # None
Fingerprint(r) == [req[r] EXCEPT !.owner = None, !.call = None]
Known(r) == {e \in entries : scopedBrowserCallId(e) = scopedBrowserCallId(r)}
Settled(r) == run[r].out # None /\ place[r] = "out"

\* A client presents the confirmation that it was asked for.
MayAsk(r) ==
    req[r].conf # None => ans[req[r].conf] \in {"ACTION_REQUIRES_CONFIRMATION", "confirmation_required"}

\* handle and the idempotency registry's run: a known call shares the operation that is there.
Arrive(r) ==
    /\ r \in DOMAIN req /\ leader[r] = None /\ ans[r] = None
    /\ MayAsk(r)
    /\ IF Keyed(r) /\ \E e \in Known(r) : Fingerprint(e) # Fingerprint(r)
       THEN ans' = [ans EXCEPT ![r] = "IDEMPOTENCY_KEY_CONFLICT"] /\ UNCHANGED <<leader, entries, queueVars>>
       ELSE IF Keyed(r) /\ Known(r) # {}
       THEN /\ leader' = [leader EXCEPT ![r] = CHOOSE e \in Known(r) : TRUE]
            /\ UNCHANGED <<ans, entries, queueVars>>
       ELSE IF Keyed(r) /\ Cardinality(entries) >= MaxEntries
       THEN ans' = [ans EXCEPT ![r] = "LIMIT_EXCEEDED"] /\ UNCHANGED <<leader, entries, queueVars>>
       ELSE /\ leader' = [leader EXCEPT ![r] = r]
            /\ entries' = IF Keyed(r) THEN entries \cup {r} ELSE entries
            /\ Join(r, operationQueueKey(r))
            /\ UNCHANGED ans
    /\ UNCHANGED <<runtimeVars, gone, faults>>

\* The operation of a request ends before its first wait, or before it begins.
Stop(r, code) == run' = [run EXCEPT ![r].out = code]

Turn(r) ==
    /\ TakeTurn(r, operationQueueKey(r))
    /\ UNCHANGED <<runtimeVars, appVars>>

\* A woken request that finds no slot and was aborted meanwhile gives up.
Wake(r) ==
    /\ IF r \in gone /\ active >= MaxConcurrency
       THEN /\ place[r] = "woken"
            /\ GiveUp(r, operationQueueKey(r))
            /\ Stop(r, "OPERATION_CANCELLED")
       ELSE Resume(r) /\ UNCHANGED run
    /\ UNCHANGED <<req, task, tab, drv, perm, fin, acts, appVars>>

\* acquireOperationLease and the leading checks: an operation on a tab leases the tab's task,
\* unless the tab shows a private site that the task was not granted.
TabTasks(r) == {k \in TaskOfTab(req[r].tab) : Usable(k, req[r].owner)}
Touched(k) == [task EXCEPT ![k].state = "active", ![k].idle = @ /\ task[k].state = "active"]
SiteRefused(r, k) ==
    /\ operationRequiresPrivateGrant(req[r].op) /\ tab[req[r].tab].reg
    /\ ~MayVisit(k, tab[req[r].tab].site)
FailedChecks(r, k) == {i \in Leading(req[r].op) : ~Passes(r, k, Program(r)[i])}

StartOnTab(r, k) ==
    IF SiteRefused(r, k) \/ FailedChecks(r, k) # {}
    THEN /\ Stop(r, IF SiteRefused(r, k) THEN "SITE_ACCESS_AUTHORIZATION_REQUIRED"
                    ELSE Refusal(Program(r)[Min(FailedChecks(r, k))]))
         /\ task' = [Touched(k) EXCEPT ![k].idle = FALSE]
    ELSE /\ run' = [run EXCEPT ![r].at = 1 + Cardinality(Leading(req[r].op)), ![r].task = k, ![r].held = 1]
         /\ task' = [Touched(k) EXCEPT ![k].leases = @ + 1]

Start(r) ==
    /\ place[r] = "in" /\ run[r].at = 0 /\ run[r].out = None
    /\ IF r \in gone THEN Stop(r, "OPERATION_CANCELLED") /\ UNCHANGED task
       ELSE IF ~OnATab(req[r].op) THEN run' = [run EXCEPT ![r].at = 1] /\ UNCHANGED task
       ELSE IF TabTasks(r) = {} THEN Stop(r, "TASK_NOT_FOUND") /\ UNCHANGED task
       ELSE StartOnTab(r, CHOOSE k \in TabTasks(r) : TRUE)
    /\ UNCHANGED <<req, tab, drv, perm, fin, acts, queueVars, appVars>>

Operate(r) == Step(r) /\ UNCHANGED <<queueVars, appVars>>
Finish(r) == FinishStep(r) /\ UNCHANGED <<queueVars, appVars>>

\* The operation has ended: its lease, its slot and its turn go back, and it is answered unless
\* it was answered early.
Done(r) == run[r].out # None \/ run[r].at > Len(Program(r))
Complete(r) ==
    LET out == IF run[r].out = None THEN "ok" ELSE run[r].out
    IN  /\ place[r] = "in"
        /\ Done(r)
        /\ Release(r, operationQueueKey(r))
        /\ task' = Unleased(run[r].task, run[r].held)
        /\ run' = [run EXCEPT ![r].out = out, ![r].held = 0]
        /\ ans' = IF ans[r] = None THEN [ans EXCEPT ![r] = out] ELSE ans
        /\ UNCHANGED <<req, tab, drv, perm, fin, acts, leader, entries, gone, faults>>

\* The answer of an operation that another request began, or that gave up in the queue.
Relay(r) ==
    /\ leader[r] \notin {None, r} /\ ans[r] = None
    /\ Settled(leader[r])
    /\ ans' = [ans EXCEPT ![r] = run[leader[r]].out]
    /\ UNCHANGED <<runtimeVars, queueVars, leader, entries, gone, faults>>

\* withOperationTimeout and the disconnected client: the request is answered at once, its
\* operation stops only if it still waits in the queue.
Abort(r) ==
    /\ leader[r] # None /\ ans[r] = None
    /\ ans' = [ans EXCEPT ![r] = "aborted"]
    /\ gone' = gone \cup {r}
    /\ IF leader[r] = r /\ place[r] \in {"turn", "slot"}
       THEN GiveUp(r, operationQueueKey(r)) /\ Stop(r, "OPERATION_CANCELLED")
       ELSE UNCHANGED <<run, queueVars>>
    /\ UNCHANGED <<req, task, tab, drv, perm, fin, acts, leader, entries, faults>>

\* The finalization of a request that was answered early does not wait any longer.
DrainStops(r) == r \in gone /\ DrainFails(r) /\ UNCHANGED <<queueVars, appVars>>

\* Mutant: an entry is forgotten while its operation runs.
ForgetEarly(e) == entries' = entries \ {e}

\* prune: only what has ended has a time to live.
Prune(e) ==
    /\ Settled(e)
    /\ entries' = entries \ {e}

Forget ==
    /\ \E e \in entries : Prune(e)
    /\ UNCHANGED <<runtimeVars, queueVars, leader, ans, gone, faults>>

(***************************************************************************)
(* Timers, time and faults.                                                *)
(***************************************************************************)
Finalize(a) == FinalizerStep(a) /\ UNCHANGED <<queueVars, appVars>>
Reap == (ReaperTicks \/ ReaperLooks) /\ UNCHANGED <<queueVars, appVars>>
ShutDownIdle == IdleShutdown /\ UNCHANGED <<queueVars, appVars>>

\* A confirmation, a question for a site, a grant and a task that nobody uses get too old.
Ages ==
    /\ \/ \E c \in perm.conf : perm' = [perm EXCEPT !.conf = @ \ {c}] /\ UNCHANGED <<task, drv>>
       \/ \E a \in perm.asks : perm' = [perm EXCEPT !.asks = @ \ {a}] /\ UNCHANGED <<task, drv>>
       \/ \E k \in perm.grants :
            /\ perm' = [perm EXCEPT !.grants = @ \ {k}]
            /\ drv' = [drv EXCEPT !.allowed = {a \in @ : a[2] # k}]
            /\ UNCHANGED task
       \/ \E k \in Tasks :
            /\ Accessible(k) /\ ~task[k].idle
            /\ task' = [task EXCEPT ![k].idle = TRUE]
            /\ UNCHANGED <<perm, drv>>
    /\ UNCHANGED <<req, tab, run, fin, acts>>

\* The browser dies, a page is closed by hand, the driver fails an operation or a close.
BrowserDies ==
    /\ drv.alive
    /\ drv' = [drv EXCEPT !.alive = FALSE, !.pages = <<>>, !.current = None, !.allowed = {},
                          !.live = @ \ {"trace"}]
    /\ UNCHANGED <<req, task, tab, perm, run, fin, acts>>

PageCloses ==
    /\ \E i \in 1..Len(drv.pages) : drv' = WithoutPage(i)
    /\ UNCHANGED <<req, task, tab, perm, run, fin, acts>>

DriverFails ==
    \E r \in Requests :
        /\ Running(r) /\ run[r].at <= Len(Program(r))
        /\ Program(r)[run[r].at] \in {"act", "visit", "read", "close", "login", "select", "roll", "cut", "unmark"}
        /\ ThrowWith(r, "driver", IF At(r, "roll") THEN Unrecorded(r) ELSE perm)
        /\ drv' = IF At(r, "cut") THEN AfterCut(r) ELSE drv
        /\ UNCHANGED <<req, tab, fin, acts>>

Disturb ==
    /\ faults < MaxFaults
    /\ faults' = faults + 1
    /\ Ages \/ BrowserDies \/ PageCloses \/ DriverFails \/ \E a \in Finalizers : CloseFails(a)
    /\ UNCHANGED <<queueVars, leader, entries, ans, gone>>

Serve(r) == Turn(r) \/ Wake(r) \/ Start(r) \/ Operate(r) \/ Finish(r) \/ Complete(r) \/ Relay(r) \/ DrainStops(r)

Next ==
    \/ \E r \in Requests : Arrive(r) \/ Serve(r) \/ Abort(r)
    \/ \E a \in Finalizers : Finalize(a)
    \/ Reap \/ ShutDownIdle \/ Forget \/ Disturb

Spec == Init /\ [][Next]_vars

\* Every handler, timer and promise that can go on does; nobody is obliged to go away or to fail.
Fairness ==
    /\ \A r \in Requests : WF_vars(Serve(r))
    /\ \A a \in Finalizers : WF_vars(Finalize(a))
    /\ WF_vars(Reap)

FairSpec == Spec /\ Fairness

(***************************************************************************)
(* Properties.                                                             *)
(***************************************************************************)
\* The slots are counted exactly, never exceeded, and two operations with one key never run at
\* the same time, although a request that was answered early goes on (BrowserOperationQueue.run).
OneAtATime ==
    LET in == {r \in Requests : place[r] = "in"}
    IN  /\ active = Cardinality(in) /\ active <= MaxConcurrency
        /\ \A r, s \in in : r # s => operationQueueKey(r) # operationQueueKey(s)

\* The leases of a task are those of the operations that run in it, however they end
\* (acquireForTask and the release in every finally).  An operation holds its first lease, and
\* its second.
LeaseExact ==
    \A k \in Tasks :
        task[k].leases =
            Cardinality({h \in Requests \X {1, 2} : run[h[1]].task = k /\ h[2] <= run[h[1]].held})

\* While finishTask or the reaper closes the tabs of a task, no operation works in it and none
\* can begin (beginFinish, waitForTaskLeases, beginExpiration).
FinalizesAlone ==
    \A a \in Finalizers :
        fin[a].pc \in {"close", "closing"} =>
            task[fin[a].task].leases = 0 /\ ~Accessible(fin[a].task)

\* A task that is over keeps no grant, no question, no mark of a recording, and no confirmation
\* for a tab that a late request could still use (discardTabs and revokeTaskSiteGrants at the end
\* of a finalization).  A confirmation for a tab that was closed earlier stays until it is too
\* old.  The trace or the video itself may go on: a start under way when finishTask looks for
\* marks, or one that fails and takes the mark of an earlier one, is not noticed.
NothingAfterEnd ==
    \A k \in Tasks : task[k].state \in {"finished", "expired"} =>
        /\ k \notin perm.grants /\ ~hasLongLivedTaskActivity(k)
        /\ \A a \in perm.asks : a.task # k
        /\ \A c \in perm.conf : tab[c.tab].of = k => ~tab[c.tab].reg

\* Every risky act spent a confirmation that was asked for this action on this target in this
\* tab, by whichever operation, and no confirmation was spent by two requests (authorizeAction,
\* consume and sameBinding).
ConfirmedOnce ==
    \A a \in acts : a.risky =>
        /\ a.conf # None
        /\ req[a.conf].tab = a.want /\ req[a.conf].deed = req[a.by].deed
        /\ \A b \in acts : b.risky /\ b.conf = a.conf => b.by = a.by

\* A repeated call never runs beside the operation it repeats (BrowserIdempotencyRegistry.run).
NoTwinRuns ==
    \A r, s \in Requests :
        (r # s /\ leader[r] = r /\ leader[s] = s /\ Keyed(r) /\ Keyed(s)
            /\ scopedBrowserCallId(r) = scopedBrowserCallId(s))
        => Settled(r) \/ Settled(s)

\* Every request that arrived is answered, and the operation behind it ends: the slots, turns and
\* leases come back even when nobody waits for the answer any more (run, acquireSlot).
EveryOperationEnds ==
    \A r \in Requests :
        leader[r] # None ~> leader[r] # None /\ ans[r] # None /\ Settled(leader[r])

\* The lifecycle lock always comes back, whatever goes wrong under it (withLifecycleLock).
LockComesBack ==
    \A a \in Finalizers : fin[a].pc # "idle" ~> fin[a].pc = "idle"

\* What an operation on a tab does, it does to the page of that tab.
ActsOnItsTab == \A a \in acts : a.hit = a.want
=============================================================================
