--------------------------- MODULE MCBrowserWorker ---------------------------
(***************************************************************************)
(* Instances of BrowserWorker: a scenario is a world and what the clients  *)
(* ask of it; when they ask, and when they go away, is left open.          *)
(***************************************************************************)
EXTENDS BrowserWorker

CONSTANTS r1, r2, r3, r4, k1, k2, t1, t2, t3, t4, o1, o2

MCKeys == Tabs \cup Tasks \cup {"status", "tabs", "context"}

NoTask == [state |-> "none", owner |-> None, tabs |-> {}, leases |-> 0, idle |-> FALSE]
TaskWith(ts) == [NoTask EXCEPT !.state = "active", !.owner = o1, !.tabs = ts]
NoTab == [reg |-> FALSE, of |-> None, site |-> "blank", keep |-> FALSE, page |-> None]
TabOf(k, t) == [reg |-> TRUE, of |-> k, site |-> "public", keep |-> FALSE, page |-> t]
Nothing == [conf |-> {}, asks |-> {}, grants |-> {}, recording |-> {}]
NoBrowser == [linked |-> FALSE, alive |-> FALSE, pages |-> <<>>, current |-> None, allowed |-> {},
              live |-> {}, timer |-> FALSE]
Up(ps) == [NoBrowser EXCEPT !.linked = TRUE, !.alive = TRUE, !.pages = ps, !.current = Last(ps)]

\* No task and no browser.
Fresh == [task |-> [k \in Tasks |-> NoTask], tab |-> [t \in Tabs |-> NoTab], drv |-> NoBrowser,
          perm |-> Nothing]
\* A task that was suspended by a restart.
Suspended == [Fresh EXCEPT !.task[k1] = [TaskWith({}) EXCEPT !.state = "suspended"]]
\* A task whose tabs are closed.
Empty == [Fresh EXCEPT !.task[k1] = TaskWith({}), !.drv = Up(<<Blank>>)]
\* One task with a tab.
Single == [Fresh EXCEPT !.task[k1] = TaskWith({t1}), !.tab[t1] = TabOf(k1, t1),
                        !.drv = Up(<<Blank, t1>>)]
\* Two tasks with a tab each.
Double == [Single EXCEPT !.task[k2] = TaskWith({t2}), !.tab[t2] = TabOf(k2, t2),
                         !.drv = Up(<<Blank, t1, t2>>)]
\* One task with two tabs.
Wide == [Single EXCEPT !.task[k1] = TaskWith({t1, t2}), !.tab[t2] = TabOf(k1, t2), !.drv = Up(<<Blank, t1, t2>>)]
\* One task whose tab shows the private site.
Private == [Single EXCEPT !.tab[t1].site = "private", !.tab[t1].keep = TRUE, !.perm.grants = {k1},
                          !.drv.allowed = {<<t1, k1>>}]
\* The task has been idle for too long, and the page the browser started with is gone.
Idle == [Single EXCEPT !.task[k1].idle = TRUE, !.drv = Up(<<t1>>)]

Ask(op) == [op |-> op, owner |-> o1, task |-> None, tab |-> None, site |-> "public", risky |-> FALSE,
            deed |-> None, conf |-> None, call |-> None]
OnTab(op, t) == [Ask(op) EXCEPT !.tab = t]
InTask(op, k) == [Ask(op) EXCEPT !.task = k]
Deed(action, target) == [action |-> action, target |-> target]
Risk(op, deed, c) == [OnTab(op, t1) EXCEPT !.risky = TRUE, !.deed = deed, !.conf = c]
Call(a, c) == [a EXCEPT !.call = c]
Site(k, c) == [InTask("openAuthorizedSite", k) EXCEPT !.site = "private", !.conf = c]

In(world, asked) == {[req |-> a, task |-> world.task, tab |-> world.tab, drv |-> world.drv,
                      perm |-> world.perm, faults |-> 0] : a \in asked}
\* ... where nothing gets too old and nothing fails.
Calmly(scenarios) == {[s EXCEPT !.faults = MaxFaults] : s \in scenarios}

TabOperations == {op \in Operations : OnATab(op)}

\* Every operation on a tab, while its task is finished or a second tab is used.
EveryOperation ==
    In(Single, {r1 :> OnTab(op, t1) @@ r2 :> InTask("finishTask", k1) : op \in TabOperations})
\* A confirmation that is asked for once and presented twice, by the operation that asked, by
\* another one for the same action, and for another target; one whose tab is closed before the
\* task ends.
Send == Deed("click", "button:Send")
ByEnter == Deed("press", "keyboard:Enter")
Confirming ==
    In(Single, {r1 :> Risk("click", Send, None) @@ r2 :> Risk("sequence", Send, r1) @@ r3 :> Risk("click", Send, r1),
                r1 :> Risk("sequence", ByEnter, None) @@ r2 :> Risk("press", ByEnter, r1)
                  @@ r3 :> Risk("sequence", Send, r1),
                r1 :> Risk("upload", Deed("upload", "a"), None) @@ r2 :> Risk("upload", Deed("upload", "a"), r1)
                  @@ r3 :> Risk("upload", Deed("upload", "b"), r1)})
    \cup In(Private, {r1 :> Risk("click", Send, None)})
    \cup Calmly(In(Single, {r1 :> Risk("click", Send, None) @@ r2 :> OnTab("closeTab", t1)
                              @@ r3 :> InTask("finishTask", k1)}))
\* A call that is repeated, and one that takes its place with other arguments.
Repeating ==
    In(Double, {r1 :> Call(OnTab("fill", t1), 1) @@ r2 :> Call(OnTab("fill", t1), 1) @@ r3 :> a :
                  a \in {Call(OnTab("fill", t2), 1), Call(OnTab("fill", t2), 2),
                         Call([OnTab("fill", t1) EXCEPT !.owner = o2], 1)}})
\* Three operations for two slots.
Crowded ==
    Calmly(In(Double, {
                r1 :> OnTab("fill", t1) @@ r2 :> OnTab("fill", t2) @@ r3 :> Ask("status"),
                r1 :> OnTab("extract", t1) @@ r2 :> OnTab("extract", t3) @@ r3 :> Ask("status")
                  @@ r4 :> OnTab("extract", t4),
                r1 :> OnTab("fill", t1) @@ r2 :> OnTab("snapshot", t1) @@ r3 :> InTask("finishTask", k2)}))
\* Opening tabs in tasks that begin and end.
Opening ==
    Calmly(In(Fresh, {r1 :> Ask("open") @@ r2 :> Ask("finishTask") @@ r3 :> Ask("finishTask")}))
    \cup In(Empty, {r1 :> Ask("open") @@ r2 :> InTask("finishTask", k1) @@ r3 :> Ask("connect")})
    \cup In(Fresh, {r1 :> Ask("open") @@ r2 :> Ask("finishTask"), r1 :> Ask("connect") @@ r2 :> Ask("tabs")})
    \cup In(Single, {r1 :> Ask("open") @@ r2 :> InTask("finishTask", k1),
                     r1 :> Ask("open") @@ r2 :> OnTab("closeTab", t1),
                     r1 :> InTask("open", k1) @@ r2 :> OnTab("fill", t1),
                     r1 :> [InTask("open", k1) EXCEPT !.site = "private"]
                       @@ r2 :> [InTask("finishTask", k1) EXCEPT !.owner = o2]})
    \cup In(Double, {r1 :> Ask("open") @@ r2 :> InTask("open", k2)})
    \cup In(Suspended, {r1 :> InTask("open", k1) @@ r2 :> Ask("finishTask")})
\* The private site: asked for, confirmed, used and given up.
Authorizing ==
    In(Single, {r1 :> Site(k1, None) @@ r2 :> Site(k1, r1) @@ r3 :> InTask("finishTask", k1)})
    \cup In(Private, {r1 :> Site(k1, None) @@ r2 :> Site(k1, r1)})
    \cup In(Private, {r1 :> Ask("open") @@ r2 :> OnTab("closeTab", t1),
                      r1 :> OnTab("navigate", t1) @@ r2 :> OnTab("goBack", t1),
                      r1 :> OnTab("snapshot", t1) @@ r2 :> [OnTab("navigate", t1) EXCEPT !.site = "private"]})
\* Recordings: started twice, stopped twice, stopped and started by two tabs of a task, and
\* under way when the task is finished.
Recording ==
    Calmly(In(Single, {r1 :> OnTab("traceStart", t1) @@ r2 :> OnTab("traceStart", t1) @@ r3 :> InTask("finishTask", k1),
                       r1 :> OnTab("videoStart", t1) @@ r2 :> OnTab("videoStop", t1) @@ r3 :> OnTab("videoStop", t1)}))
    \cup Calmly(In(Wide, {r1 :> OnTab("traceStart", t1) @@ r2 :> OnTab("traceStart", t2)
                            @@ r3 :> OnTab("traceStop", t1) @@ r4 :> OnTab("traceStop", t2)}))
\* The reaper beside an operation, a trace and a client that finishes the task.
Reaping ==
    In(Idle, {r1 :> OnTab("press", t1) @@ r2 :> InTask("finishTask", k1),
              r1 :> OnTab("traceStart", t1) @@ r2 :> OnTab("traceStop", t1) @@ r3 :> InTask("finishTask", k1)})

MCScenarios == EveryOperation \cup Confirming \cup Repeating \cup Crowded \cup Opening
                  \cup Authorizing \cup Recording \cup Reaping

\* What must end: operations that wait for a slot, for each other's turn, for the leases of a task
\* and for the lifecycle lock, while one thing goes wrong.
LiveScenarios ==
    Calmly(In(Double, {
                r1 :> OnTab("extract", t1) @@ r2 :> OnTab("extract", t3) @@ r3 :> Ask("status")
                  @@ r4 :> OnTab("extract", t4),
                r1 :> OnTab("extract", t1) @@ r2 :> InTask("finishTask", k1) @@ r3 :> InTask("finishTask", k2)}))
    \cup In(Idle, {r1 :> OnTab("extract", t1) @@ r2 :> InTask("finishTask", k1)})
    \cup In(Single, {r1 :> Call(OnTab("fill", t1), 1) @@ r2 :> Call(OnTab("fill", t1), 1)})

\* Two operations on two tabs.
TabScenarios == In(Double, {r1 :> OnTab("click", t1) @@ r2 :> OnTab("fill", t2)})
=============================================================================
