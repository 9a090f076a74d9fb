--------------------------- MODULE BrowserRuntime ---------------------------
(***************************************************************************)
(* The state behind the browser operations, and what each step of an       *)
(* operation does to it: the tasks with their tabs and leases, the tab     *)
(* registry with its bindings, the driver with its one current page, the   *)
(* confirmations and the grants of the private site.                       *)
(*                                                                         *)
(* A page is named after the tab it was opened for; Blank is the page the  *)
(* browser starts with.  There is one private site, of business-read-only  *)
(* access and without a login; every other address is public.  A           *)
(* confirmation is named after the request it was answered to.             *)
(***************************************************************************)
EXTENDS BrowserCatalog, Naturals, SequencesExt, FiniteSets

CONSTANTS
    Tasks, Tabs, Owners,
    Reaper,       \* the timer that ends idle tasks
    Blank,
    MaxOwnedTabs

ASSUME TabLimitAssumption == MaxOwnedTabs \in Nat \ {0}

VARIABLES
    req,  \* request -> [op, owner, task, tab, site, risky, deed, conf, call]; deed, the
          \* action and the target of what may need a confirmation
    task, \* task -> [state, owner, tabs, leases, idle]
    tab,  \* tab -> [reg, of, site, keep, page]: registered, for which task, bound to which page
    drv,  \* [linked, alive, pages, current, allowed, live, timer]: the connection, the driver with
          \* the recordings that run, the idle timer
    perm, \* [conf, asks, grants, recording]; recording, the marks of tasks with a trace or a video
    run,  \* request -> [at, task, held, tab, mode, idx, mark, out]: where its operation is
    fin,  \* finalizer -> [pc, task, all, todo, tab, idx, cands, changed]: where a finalization is
    acts  \* history: what the driver was made to do

runtimeVars == <<req, task, tab, drv, perm, run, fin, acts>>

\* How an operation ends: with its result, a question, a refusal or a failure of the driver.
Outcomes ==
    {"ok", "confirmation_required", "driver", "ACTION_BLOCKED_BY_POLICY", "ACTION_REQUIRES_CONFIRMATION",
     "BROWSER_CONFIRMATION_INVALID", "BROWSER_CONTEXT_RECOVERY_FAILED", "BROWSER_DISCONNECTED",
     "INVALID_ARGUMENT", "LIMIT_EXCEEDED", "NAVIGATION_BLOCKED", "OPERATION_CANCELLED", "SITE_ACCESS_AUTHORIZATION_REQUIRED",
     "STALE_TAB_ID", "TAB_NOT_FOUND", "TAB_NOT_OWNED", "TAB_PROTECTED", "TASK_NOT_FOUND",
     "TASK_SCOPE_REQUIRED", "TASK_SUSPENDED"}

Sites == {"blank", "public", "private"}
Finalizers == Requests \cup {Reaper}
Pages == Tabs \cup {Blank}

TaskRecords ==
    [state : {"none", "active", "suspended", "finishing", "finished", "expired"},
     owner : Owners \cup {None}, tabs : SUBSET Tabs, leases : Nat, idle : BOOLEAN]
TabRecords ==
    [reg : BOOLEAN, of : Tasks \cup {None}, site : Sites, keep : BOOLEAN, page : Pages \cup {None}]

RuntimeTypeOK ==
    /\ task \in [Tasks -> TaskRecords]
    /\ tab \in [Tabs -> TabRecords]
    /\ drv.pages \in Seq(Pages) /\ drv.current \in Pages \cup {None} /\ drv.allowed \subseteq (Pages \X Tasks)
    /\ \A c \in perm.conf : c.id \in Requests /\ c.tab \in Tabs
    /\ perm.grants \subseteq Tasks /\ perm.recording \subseteq Recordings \X Tasks
    /\ drv.live \subseteq Recordings
    /\ \A r \in Requests : /\ run[r].at \in Nat /\ run[r].held \in 0..2
                            /\ run[r].out \in Outcomes \cup {None}

(***************************************************************************)
(* The task registry.                                                      *)
(***************************************************************************)
isAccessibleState(s) == s \in {"active", "suspended"}
Accessible(k) == isAccessibleState(task[k].state)

\* requireOwnedTask for an operation: the task is the owner's and can be used.
Usable(k, o) == Accessible(k) /\ task[k].owner = o

Mine(o) == {k \in Tasks : Usable(k, o)}
Unused == {k \in Tasks : task[k].state = "none"}

\* resolveForOpen: the task a request works in, or None.
resolveForOpen(r) ==
    LET o == req[r].owner IN
    IF req[r].task # None THEN IF Usable(req[r].task, o) THEN req[r].task ELSE None
    ELSE IF Mine(o) = {} THEN IF Unused = {} THEN None ELSE CHOOSE k \in Unused : TRUE
    ELSE IF Cardinality(Mine(o)) = 1 THEN CHOOSE k \in Mine(o) : TRUE
    ELSE None

\* The task that resolveForOpen creates, resumes or, when it was named, leaves alone.
Resolved(k, r) ==
    IF task[k].state = "none"
    THEN [state |-> "active", owner |-> req[r].owner, tabs |-> {}, leases |-> 0, idle |-> FALSE]
    ELSE [task[k] EXCEPT !.state = "active",
                         !.idle = @ /\ task[k].state = "active" /\ req[r].task # None]

\* acquireForTask, n times.  It touches a copy of the task: the expiry stays as it is.
Leased(k, r, n) == [task EXCEPT ![k] = [Resolved(k, r) EXCEPT !.leases = @ + n]]

\* Mutant: a lease that is given back twice.
UnleasedTwice(k, n) ==
    IF n = 0 THEN task
    ELSE [task EXCEPT ![k].leases = IF @ > n THEN 0 ELSE @ - n,
                      ![k].idle = @ /\ ~isAccessibleState(task[k].state)]

\* The lease's release: the task counts as used again unless it is over.
Unleased(k, n) ==
    IF n = 0 THEN task
    ELSE [task EXCEPT ![k].leases = @ - n,
                      ![k].idle = @ /\ ~isAccessibleState(task[k].state)]

\* detachTab, for a set of tabs.
WithoutTabs(k, ts) == [task[k] EXCEPT !.tabs = @ \ ts, !.idle = FALSE]
Detached(ts) ==
    [k \in Tasks |-> IF task[k].tabs \cap ts = {} THEN task[k] ELSE WithoutTabs(k, ts)]

TaskOfTab(t) == {k \in Tasks : t \in task[k].tabs}

(***************************************************************************)
(* The steps of a request's operation.                                     *)
(***************************************************************************)
Program(r) == execute[req[r].op]
Running(r) == run[r].at > 0 /\ run[r].out = None
At(r, s) == Running(r) /\ run[r].at <= Len(Program(r)) /\ Program(r)[run[r].at] = s

\* The tab a step is about.
Tab(r) == IF OnATab(req[r].op) THEN req[r].tab ELSE run[r].tab
TaskOf(r) == IF OnATab(req[r].op) THEN tab[Tab(r)].of ELSE run[r].task

Advance(r) == run' = [run EXCEPT ![r].at = @ + 1]

\* An exception: the finally blocks give the leases back, and openAuthorizedSite takes its
\* grant back.
ThrowWith(r, code, p) ==
    /\ run' = [run EXCEPT ![r].out = code, ![r].held = 0]
    /\ task' = Unleased(run[r].task, run[r].held)
    /\ perm' = IF req[r].op = "openAuthorizedSite" /\ run[r].held > 0
               THEN [p EXCEPT !.grants = @ \ {run[r].task}] ELSE p
Throw(r, code) == ThrowWith(r, code, perm)

\* A step that only checks.
Check(r, s, holds, code) ==
    /\ At(r, s)
    /\ IF holds THEN Advance(r) /\ UNCHANGED <<task, perm>> ELSE Throw(r, code)
    /\ UNCHANGED <<req, tab, drv, fin, acts>>

\* requireTargetGrant.
MayVisit(k, site) == site = "private" => k \in perm.grants
Target(r) ==
    Check(r, "target", MayVisit(TaskOf(r), req[r].site), "SITE_ACCESS_AUTHORIZATION_REQUIRED")

\* assertBusinessReadOnly...: no control that needs a confirmation on a read-only site.
BlockedOnReadOnlySite(r) == req[r].risky /\ tab[req[r].tab].site = "private"

\* The checks an operation on a tab of task k begins with: assertMcpOwned, assertClosable,
\* assertNavigable, the read-only site and requireTargetGrant.
Passes(r, k, check) ==
    LET t == tab[req[r].tab] IN
    CASE check = "owned"     -> t.reg
      [] check = "closable"  -> t.reg /\ ~t.keep
      [] check = "unlocked"  -> t.reg /\ ~t.keep
      [] check = "navigable" -> t.reg /\ (t.keep => t.site = req[r].site)
      [] check = "policy"    -> ~BlockedOnReadOnlySite(r)
      [] check = "target"    -> MayVisit(k, req[r].site)

Refusal(check) ==
    CASE check = "owned"    -> "TAB_NOT_OWNED"
      [] check = "closable" -> "TAB_PROTECTED"
      [] check = "policy"   -> "ACTION_BLOCKED_BY_POLICY"
      [] check = "target"   -> "SITE_ACCESS_AUTHORIZATION_REQUIRED"
      [] OTHER              -> "NAVIGATION_BLOCKED"

\* checkpoint: a registered tab without a binding cannot be persisted, and nothing is.
\* An open that navigates no page it found has no checkpoint before its visit.
Orphans == {t \in Tabs : tab[t].reg /\ tab[t].page = None}
BeforeVisit(r) == Program(r)[run[r].at + 1] = "visit" /\ run[r].mode \in {"new", "keep"}
Save(r) ==
    Check(r, "save", Orphans = {} \/ (run[r].at < Len(Program(r)) /\ BeforeVisit(r)), "TAB_NOT_OWNED")

(***************************************************************************)
(* The connection.                                                         *)
(***************************************************************************)
Ready == drv.linked /\ drv.alive /\ drv.pages # <<>>
NewTabs == {t \in Tabs : tab[t].of = None}
Registered == {t \in Tabs : tab[t].reg}

Unconfirmed == IF drv.linked THEN [perm EXCEPT !.conf = {}] ELSE perm

\* resolvePersistentRestoreTarget: a private tab is shown again only with its grant.
Restorable == {t \in Registered : tab[t].site = "private" /\ tab[t].of \in perm.grants}

\* restore: every registered tab gets a page again, and what may not be shown is left blank.
Restored(t) ==
    [tab[t] EXCEPT !.page = t, !.site = IF @ = "private" /\ t \notin Restorable THEN "blank" ELSE @]

\* The bootstrap for task k: a browser without a tab gets a blank one, of those that were not
\* used yet.  recoverUsableContext has cleared the confirmations when the connection was lost.
\*
\* One step for the many waits of connectInternal: whoever needs the connection gets the one
\* attempt that is under way (connectPromise), and an operation that was past that point meets
\* a browser that is gone or is back, never one that is half restored.
BlankTab(k, t) == [reg |-> TRUE, of |-> k, site |-> "blank", keep |-> FALSE, page |-> t]
Reconnect(k) ==
    LET blank == IF Registered = {} THEN {CHOOSE t \in NewTabs : TRUE} ELSE {}
        all == Registered \cup blank
        owned(j) == {t \in Registered : tab[t].of = j} \cup (IF j = k THEN blank ELSE {})
    IN  /\ Registered # {} \/ NewTabs # {}
        /\ drv' = [linked |-> TRUE, alive |-> TRUE, pages |-> <<Blank>> \o SetToSeq(all),
                   current |-> Last(SetToSeq(all)),
                   allowed |-> {<<t, tab[t].of>> : t \in Restorable}, live |-> drv.live, timer |-> drv.timer]
        /\ tab' = [t \in Tabs |-> IF t \in blank THEN BlankTab(k, t)
                                  ELSE IF t \in Registered THEN Restored(t) ELSE tab[t]]
        /\ task' = [j \in Tasks |-> [task[j] EXCEPT !.tabs = @ \cup owned(j)]]
        /\ perm' = Unconfirmed

\* A tab that cannot be persisted stops it before the browser is reached, and what was left of
\* the browser is closed.
Down == [drv EXCEPT !.linked = FALSE, !.alive = FALSE, !.pages = <<>>, !.current = None, !.allowed = {},
                    !.live = {}]
ReconnectFails(r) ==
    /\ ThrowWith(r, "BROWSER_CONTEXT_RECOVERY_FAILED", Unconfirmed)
    /\ drv' = Down
    /\ UNCHANGED tab

Connect(r) ==
    /\ At(r, "connect")
    /\ IF Ready THEN Advance(r) /\ UNCHANGED <<task, tab, drv, perm>>
       ELSE IF Orphans # {} THEN ReconnectFails(r)
       ELSE Reconnect(TaskOf(r)) /\ Advance(r)
    /\ UNCHANGED <<req, fin, acts>>

\* reconcileBindings: the tabs whose page is gone are forgotten (discardTaskTab).
Lost == {t \in Registered : tab[t].page \notin ToSet(drv.pages)}
Unregistered(t) == [tab[t] EXCEPT !.reg = FALSE, !.page = None]
Forgotten(ts) == [t \in Tabs |-> IF t \in ts THEN Unregistered(t) ELSE tab[t]]
Reconcile(r) ==
    /\ At(r, "reconcile")
    /\ tab' = Forgotten(Lost)
    /\ task' = Detached(Lost)
    /\ Advance(r)
    /\ UNCHANGED <<req, drv, perm, fin, acts>>

(***************************************************************************)
(* Selecting a tab and acting on the current page.                         *)
(***************************************************************************)
\* setActivePageAllowedOrigins: the page may reach what the task was granted, nothing else.
Unmarked(p) == {a \in drv.allowed : a[1] # p}
Marked(p, site, k) == Unmarked(p) \cup (IF site = "private" THEN {<<p, k>>} ELSE {})

\* The page of tab t becomes the current one, if it is still there.
Turned(r, t, marks, then) ==
    IF tab[t].page \notin ToSet(drv.pages)
    THEN Throw(r, "STALE_TAB_ID") /\ UNCHANGED <<tab, drv>>
    ELSE /\ drv' = [drv EXCEPT !.current = tab[t].page, !.allowed = marks]
         /\ then
         /\ UNCHANGED <<task, tab, perm>>

\* selectTab: the grant goes to the page that is current before the tab is selected.
Select(r, t, then) ==
    IF TaskOfTab(t) # {} /\ tab[t].site = "private" /\ TaskOfTab(t) \cap perm.grants = {}
    THEN Throw(r, "SITE_ACCESS_AUTHORIZATION_REQUIRED") /\ UNCHANGED <<tab, drv>>
    ELSE IF drv.current = None
    THEN Throw(r, "BROWSER_DISCONNECTED") /\ UNCHANGED <<tab, drv>>
    ELSE Turned(r, t, IF TaskOfTab(t) = {} THEN drv.allowed
                      ELSE Marked(drv.current, tab[t].site, tab[t].of), then)

SelectTab(r) ==
    /\ At(r, "select")
    /\ Select(r, Tab(r), Advance(r))
    /\ UNCHANGED <<req, fin, acts>>

\* selectTab without the grant, which connects again if it must.  The index of the page is what
\* closeTab is called with after another wait.
IndexOf(p) == CHOOSE i \in 1..Len(drv.pages) : drv.pages[i] = p
Reach(r) ==
    /\ At(r, "reach")
    /\ IF Ready
       THEN Turned(r, Tab(r), drv.allowed,
                   run' = [run EXCEPT ![r].at = @ + 1, ![r].idx = IndexOf(tab[Tab(r)].page)])
       ELSE IF Orphans # {} THEN ReconnectFails(r)
       ELSE Reconnect(TaskOf(r)) /\ UNCHANGED run
    /\ UNCHANGED <<req, fin, acts>>

\* applyActivePageGrant.
GrantPage(r) ==
    /\ At(r, "grant")
    /\ IF run[r].mode = "new" THEN Advance(r) /\ UNCHANGED <<task, drv, perm>>
       ELSE IF drv.current = None THEN Throw(r, "BROWSER_DISCONNECTED") /\ UNCHANGED drv
       ELSE /\ drv' = [drv EXCEPT !.allowed = Marked(drv.current, req[r].site, TaskOf(r))]
            /\ Advance(r)
            /\ UNCHANGED <<task, perm>>
    /\ UNCHANGED <<req, tab, fin, acts>>

Read(r) == Check(r, "read", drv.current # None, "BROWSER_DISCONNECTED")

\* Is what the request does next a thing that needs a confirmation?
Risky(r) == req[r].risky /\ \E i \in 1..run[r].at : Program(r)[i] = "confirm"

\* What the driver does, it does to a page: runOperation.  The tab's record is updated after
\* it, which fails for a tab that was forgotten meanwhile.
ActOn(r, page, site) ==
    /\ acts' = acts \cup {[by |-> r, want |-> Tab(r), hit |-> page, risky |-> Risky(r),
                           conf |-> req[r].conf]}
    /\ IF tab[Tab(r)].reg \/ run[r].mode = "new"
       THEN /\ tab' = IF site = None \/ run[r].mode = "new" THEN tab
                      ELSE [tab EXCEPT ![Tab(r)].site = site]
            /\ Advance(r)
            /\ UNCHANGED <<task, perm>>
       ELSE Throw(r, "TAB_NOT_OWNED") /\ UNCHANGED tab

Act(r) ==
    /\ At(r, "act")
    /\ IF drv.current = None
       THEN Throw(r, "BROWSER_DISCONNECTED") /\ UNCHANGED <<tab, acts>>
       ELSE ActOn(r, drv.current, None)
    /\ UNCHANGED <<req, drv, fin>>

\* A new public tab is loaded in the page that newTab made; every other visit is made by the
\* current page.  The private site is reached only by a marked page, while some task has a grant.
Reaches(page, site) ==
    /\ page \in ToSet(drv.pages)
    /\ site = "private" => perm.grants # {} /\ \E k \in Tasks : <<page, k>> \in drv.allowed

Visit(r) ==
    LET page == IF run[r].mode = "new" /\ req[r].site # "private" THEN Tab(r) ELSE drv.current
    IN  /\ At(r, "visit")
        /\ IF run[r].mode = "keep" THEN Advance(r) /\ UNCHANGED <<task, tab, perm, acts>>
           ELSE IF ~Reaches(page, req[r].site)
           THEN Throw(r, "NAVIGATION_BLOCKED") /\ UNCHANGED <<tab, acts>>
           ELSE ActOn(r, page, req[r].site)
        /\ UNCHANGED <<req, drv, fin>>

\* Mutant: the confirmation stays.
ConsumedNot(c) == perm.conf

Consumed(c) == perm.conf \ {c}

\* sameBinding, of the pending confirmations with the id that the request presents: the tab, its
\* address, the action and its target.
Matching(r) ==
    {c \in perm.conf : c.id = req[r].conf /\ c.tab = Tab(r) /\ c.site = tab[Tab(r)].site
                                          /\ c.deed = req[r].deed}

\* authorizeAction.
Confirm(r) ==
    /\ At(r, "confirm")
    /\ IF ~req[r].risky THEN Advance(r) /\ UNCHANGED <<task, perm>>
       ELSE IF req[r].conf = None
       THEN /\ perm' = [perm EXCEPT !.conf = @ \cup
                          {[id |-> r, tab |-> Tab(r), site |-> tab[Tab(r)].site, deed |-> req[r].deed]}]
            /\ run' = [run EXCEPT ![r].out = "ACTION_REQUIRES_CONFIRMATION"]
            /\ UNCHANGED task
       ELSE IF Matching(r) = {} THEN Throw(r, "BROWSER_CONFIRMATION_INVALID")
       ELSE /\ perm' = [perm EXCEPT !.conf = Consumed(CHOOSE c \in Matching(r) : TRUE)]
            /\ Advance(r)
            /\ UNCHANGED task
    /\ UNCHANGED <<req, tab, drv, fin, acts>>

(***************************************************************************)
(* Opening a tab in a task.                                                *)
(***************************************************************************)
Enter(r) ==
    /\ At(r, "enter")
    /\ LET k == resolveForOpen(r) IN
       IF k = None THEN Throw(r, "TASK_SCOPE_REQUIRED") /\ UNCHANGED drv
       ELSE /\ task' = Leased(k, r, 1)
            /\ drv' = [drv EXCEPT !.timer = FALSE]
            /\ run' = [run EXCEPT ![r].at = @ + 1, ![r].task = k, ![r].held = 1]
            /\ UNCHANGED perm
    /\ UNCHANGED <<req, tab, fin, acts>>

Leave(r) ==
    /\ At(r, "leave")
    /\ task' = Unleased(run[r].task, 1)
    /\ run' = [run EXCEPT ![r].at = @ + 1, ![r].held = @ - 1]
    /\ UNCHANGED <<req, tab, drv, perm, fin, acts>>

\* The confirmation of a site access is for one task.
SiteMatch(r, k) == {a \in perm.asks : a.id = req[r].conf /\ a.task = k}

\* openAuthorizedSite up to its first wait: it asks for the access, or spends the answer,
\* grants the site to the task and enters open with a second lease.
Admit(r) ==
    /\ At(r, "admit")
    /\ LET k == resolveForOpen(r) IN
       IF k = None THEN Throw(r, "TASK_SCOPE_REQUIRED") /\ UNCHANGED drv
       ELSE IF req[r].conf = None
       THEN /\ task' = Leased(k, r, 0)
            /\ perm' = [perm EXCEPT !.asks = @ \cup {[id |-> r, task |-> k]}]
            /\ run' = [run EXCEPT ![r].task = k, ![r].out = "confirmation_required"]
            /\ UNCHANGED drv
       ELSE IF SiteMatch(r, k) = {}
       THEN /\ task' = [Leased(k, r, 0) EXCEPT ![k].idle = FALSE]
            /\ run' = [run EXCEPT ![r].task = k, ![r].out = "SITE_ACCESS_AUTHORIZATION_REQUIRED"]
            /\ UNCHANGED <<drv, perm>>
       ELSE /\ task' = Leased(k, r, 2)
            /\ drv' = [drv EXCEPT !.timer = FALSE]
            /\ perm' = [perm EXCEPT !.asks = @ \ SiteMatch(r, k), !.grants = @ \cup {k}]
            /\ run' = [run EXCEPT ![r].at = @ + 1, ![r].task = k, ![r].held = 2]
    /\ UNCHANGED <<req, tab, fin, acts>>

Login(r) ==
    /\ At(r, "login")
    /\ IF drv.current = None THEN Throw(r, "BROWSER_DISCONNECTED") /\ UNCHANGED drv
       ELSE /\ drv' = [drv EXCEPT !.allowed = Marked(drv.current, "private", run[r].task)]
            /\ Advance(r)
            /\ UNCHANGED <<task, perm>>
    /\ UNCHANGED <<req, tab, fin, acts>>

\* selectExactTabReuse and selectRecyclableTab: a tab of the task with the wanted address and
\* protection, else any that may be recycled.
Keeps(r) == req[r].op = "openAuthorizedSite"
sameConfiguration(r, t) == tab[t].keep = Keeps(r)
matchTabTarget(r, t) == tab[t].site = req[r].site
Exact(r) == {t \in Registered : tab[t].of = run[r].task /\ sameConfiguration(r, t) /\ matchTabTarget(r, t)}
Recyclable(r) == {t \in Registered : tab[t].of = run[r].task /\ ~tab[t].keep}
Reusable(r) == IF Exact(r) # {} THEN Exact(r) ELSE Recyclable(r)

\* newTab and newAuthorizedTab: the new page becomes the current one.
NewPage(t, site, k) ==
    [drv EXCEPT !.pages = Append(@, t), !.current = t, !.allowed = Marked(t, site, k)]

\* The operation goes on with tab t.
Takes(r, t, mode) == run' = [run EXCEPT ![r].at = @ + 1, ![r].tab = t, ![r].mode = mode]

Pick(r) ==
    /\ At(r, "pick")
    /\ IF Reusable(r) # {}
       THEN \E t \in Reusable(r) :
              Select(r, t, Takes(r, t, IF Exact(r) # {} THEN "keep" ELSE "reuse"))
       ELSE IF Cardinality({t \in Registered : tab[t].of = run[r].task}) >= MaxOwnedTabs
       THEN Throw(r, "LIMIT_EXCEEDED") /\ UNCHANGED <<tab, drv>>
       ELSE \E t \in NewTabs :
              /\ drv' = NewPage(t, req[r].site, run[r].task)
              /\ tab' = [tab EXCEPT ![t].of = run[r].task]
              /\ Takes(r, t, "new")
              /\ UNCHANGED <<task, perm>>
    /\ UNCHANGED <<req, fin, acts>>

\* registerMcp and reconfigureMcp.
Configured(r, page) ==
    [reg |-> TRUE, of |-> run[r].task, site |-> req[r].site, keep |-> Keeps(r), page |-> page]

\* bind: a new tab is bound to the page that is current now, and stays without a binding when the
\* task has refused it.
Bound(r) ==
    IF run[r].mode # "new" THEN tab[Tab(r)].page
    ELSE IF Usable(run[r].task, req[r].owner) THEN drv.current ELSE None

\* attachTab, after the tab was registered.
Attach(r) ==
    LET t == Tab(r)
        k == run[r].task
        new == run[r].mode = "new"
    IN  /\ At(r, "attach")
        /\ IF (new /\ drv.current = None) \/ (~new /\ ~tab[t].reg)
           THEN Throw(r, "TAB_NOT_FOUND") /\ UNCHANGED tab
           ELSE /\ tab' = [tab EXCEPT ![t] = Configured(r, Bound(r))]
                /\ IF Usable(k, req[r].owner)
                   THEN /\ task' = [task EXCEPT ![k].tabs = @ \cup {t}, ![k].idle = FALSE]
                        /\ Advance(r)
                        /\ UNCHANGED perm
                   ELSE Throw(r, "TASK_SUSPENDED")
        /\ UNCHANGED <<req, drv, fin, acts>>

(***************************************************************************)
(* Closing a tab, traces and videos.                                       *)
(***************************************************************************)
\* closeTab of the driver, by index: the first page becomes current if the current one closes.
WithoutPage(i) ==
    LET rest == RemoveAt(drv.pages, i)
    IN  [drv EXCEPT !.pages = rest, !.allowed = Unmarked(drv.pages[i]),
                    !.current = IF @ # drv.pages[i] THEN @
                                ELSE IF rest = <<>> THEN None ELSE Head(rest)]

Close(r) ==
    /\ At(r, "close")
    /\ IF run[r].idx > Len(drv.pages)
       THEN Throw(r, "TAB_NOT_FOUND") /\ UNCHANGED <<drv, acts>>
       ELSE /\ drv' = WithoutPage(run[r].idx)
            /\ acts' = acts \cup {[by |-> r, want |-> Tab(r), hit |-> drv.pages[run[r].idx],
                                   risky |-> FALSE, conf |-> None]}
            /\ Advance(r)
            /\ UNCHANGED <<task, perm>>
    /\ UNCHANGED <<req, tab, fin>>

Drop(r) ==
    /\ At(r, "drop")
    /\ tab' = Forgotten({Tab(r)})
    /\ task' = Detached({Tab(r)})
    /\ Advance(r)
    /\ UNCHANGED <<req, drv, perm, fin, acts>>

Kind(r) == RecordingOf(req[r].op)

\* diagnosticActivityId: the mark of the task that has the tab now, if one has.
TabMarks(r) == {Kind(r)} \X TaskOfTab(Tab(r))

\* traceStart and videoStart: the task is marked.  If something is recorded already the driver
\* refuses, and the mark goes, whoever set it.
Record(r) ==
    /\ At(r, "record")
    /\ IF Kind(r) \in drv.live
       THEN ThrowWith(r, "INVALID_ARGUMENT", [perm EXCEPT !.recording = @ \ TabMarks(r)])
       ELSE /\ perm' = [perm EXCEPT !.recording = @ \cup TabMarks(r)]
            /\ run' = [run EXCEPT ![r].at = @ + 1, ![r].mark = TabMarks(r)]
            /\ UNCHANGED task
    /\ UNCHANGED <<req, tab, drv, fin, acts>>

\* The mark that a failing start takes away.
Unrecorded(r) == [perm EXCEPT !.recording = @ \ run[r].mark]

\* The recording begins.  The browser has one trace at most; a second video replaces the first.
MayRoll(r) ==
    IF Kind(r) = "trace" THEN drv.alive /\ "trace" \notin drv.live ELSE drv.current # None
Roll(r) ==
    /\ At(r, "roll")
    /\ IF MayRoll(r)
       THEN drv' = [drv EXCEPT !.live = @ \cup {Kind(r)}] /\ Advance(r) /\ UNCHANGED <<task, perm>>
       ELSE ThrowWith(r, "BROWSER_DISCONNECTED", Unrecorded(r)) /\ UNCHANGED drv
    /\ UNCHANGED <<req, tab, fin, acts>>

\* traceStop and videoStop: nothing to stop is an error.  The driver forgets a video before it is
\* written, and a trace afterwards.
Forgets(kind) == [drv EXCEPT !.live = @ \ {kind}]
Halt(r) ==
    /\ At(r, "halt")
    /\ IF Kind(r) \in drv.live
       THEN /\ drv' = IF Kind(r) = "video" THEN Forgets("video") ELSE drv
            /\ Advance(r) /\ UNCHANGED <<task, perm>>
       ELSE Throw(r, "INVALID_ARGUMENT") /\ UNCHANGED drv
    /\ UNCHANGED <<req, tab, fin, acts>>

\* The recording is written.  Only one of two stops finds a trace; a video without a frame needs
\* the current page.
AfterCut(r) == IF Kind(r) = "trace" THEN Forgets("trace") ELSE drv
Cut(r) ==
    /\ At(r, "cut")
    /\ drv' = AfterCut(r)
    /\ \/ /\ Kind(r) = "trace" => "trace" \in drv.live
          /\ Advance(r) /\ UNCHANGED <<task, perm>>
       \/ /\ IF Kind(r) = "trace" THEN "trace" \notin drv.live ELSE drv.current = None
          /\ Throw(r, "BROWSER_DISCONNECTED")
    /\ UNCHANGED <<req, tab, fin, acts>>

Unmark(r) ==
    /\ At(r, "unmark")
    /\ perm' = [perm EXCEPT !.recording = @ \ TabMarks(r)]
    /\ Advance(r)
    /\ UNCHANGED <<req, task, tab, drv, fin, acts>>

Step(r) ==
    \/ Target(r) \/ Save(r)
    \/ Connect(r) \/ Reconcile(r) \/ SelectTab(r) \/ Reach(r) \/ GrantPage(r) \/ Read(r) \/ Act(r)
    \/ Visit(r) \/ Confirm(r) \/ Enter(r) \/ Leave(r) \/ Admit(r) \/ Login(r) \/ Pick(r)
    \/ Attach(r) \/ Close(r) \/ Drop(r) \/ Record(r) \/ Roll(r) \/ Halt(r) \/ Cut(r) \/ Unmark(r)
=============================================================================
