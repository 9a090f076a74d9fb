--------------------------- MODULE BrowserCatalog ---------------------------
(***************************************************************************)
(* The operations of the browser worker, each as the sequence of its       *)
(* steps.  A step runs without interruption; between two steps the handler *)
(* awaits, and other operations run.  BrowserRuntime says what each step   *)
(* does:                                                                   *)
(*                                                                         *)
(*   owned      the tab is registered          act     the driver acts     *)
(*   closable   ... and may be closed          visit   ... and navigates   *)
(*   unlocked   ... and may change history     read    the driver reads    *)
(*   navigable  ... and may visit the site     save    checkpoint          *)
(*   policy     no risky act on a read-only site                           *)
(*   target     the task may visit the site    grant   mark current page   *)
(*   select     check the grant, select the tab                            *)
(*   reach      select the tab                 confirm authorizeAction     *)
(*   enter      resolve the task, lease it     leave   release the lease   *)
(*   admit      ... after asking for the site  login   authenticate        *)
(*   connect    ensureConnection               reconcile  drop lost tabs   *)
(*   pick       choose or open a tab           attach  give it to the task *)
(*   close, drop  close the page, forget the tab                           *)
(*   record, roll      mark the task, start the trace or the video         *)
(*   halt, cut, unmark stop it, and take the mark away                     *)
(*   finish     the finalization of a task, a machine of its own           *)
(*                                                                         *)
(* The checks an operation on a tab begins with are made when it starts.   *)
(***************************************************************************)
EXTENDS Sequences, Naturals

CONSTANTS Requests, None

status       == <<>>
connect      == <<"enter", "connect", "save", "leave">>
tabs         == <<"enter", "connect", "reconcile", "save", "leave">>
open         == <<"enter", "connect", "target", "reconcile", "pick", "grant", "save", "visit",
                  "attach", "save", "read", "leave">>
openAuthorizedSite ==
    <<"admit", "connect", "target", "reconcile", "pick", "grant", "save", "visit", "attach",
      "save", "read", "leave", "login", "leave">>
navigate     == <<"navigable", "target", "reach", "grant", "save", "visit", "save",
                  "read">>
snapshot     == <<"owned", "select", "read">>
click        == <<"owned", "policy", "select", "confirm", "save", "act", "save", "read">>
fill         == <<"owned", "select", "act", "read">>
press        == <<"owned", "policy", "select", "confirm", "save", "act", "save", "read">>
wait         == <<"owned", "select", "read", "read">>
\* Without the next pages that an extraction may visit, as navigate does.
extract      == <<"owned", "select", "read">>
\* A sequence of a harmless step and one that may need a confirmation: the second is
\* authorized only when the first is done.
sequence     == <<"owned", "policy", "select", "act", "confirm", "act", "read", "save">>
frameExtract == <<"owned", "select", "read">>
frameClick   == <<"owned", "policy", "select", "confirm", "save", "act", "save", "read">>
frameFill    == <<"owned", "select", "act", "save", "read">>
profilePage  == <<"owned", "select", "read">>
domIndex     == <<"owned", "select", "read">>
\* What is known to be risky is authorized before the first step runs.  (A risk that shows
\* only on the page is authorized when it is met, and everything runs again: not modelled.)
frameSequence == <<"owned", "policy", "select", "confirm", "act", "save">>
navigatePath == <<"owned", "policy", "select", "confirm", "act", "save">>
screenshot   == <<"owned", "select", "read">>
goBack       == <<"unlocked", "select", "save", "act", "save">>
goForward    == <<"unlocked", "select", "save", "act", "save">>
closeTab     == <<"closable", "reach", "close", "drop", "save">>
finishTask   == <<"finish">>
download     == <<"owned", "select", "act">>
upload       == <<"owned", "policy", "select", "confirm", "act">>
console        == <<"owned", "connect", "select", "read">>
networkList    == <<"owned", "connect", "select", "read">>
networkInspect == <<"owned", "connect", "select", "read">>
traceStart   == <<"owned", "connect", "select", "record", "roll">>
traceStop    == <<"owned", "connect", "reach", "halt", "cut", "unmark">>
videoStart   == <<"owned", "connect", "select", "record", "roll">>
videoStop    == <<"owned", "connect", "reach", "halt", "cut", "unmark">>
pdf          == <<"owned", "connect", "select", "read">>
diagnostics  == <<"owned", "connect", "select", "read">>

\* The operation that a request names.
execute ==
    [status |-> status, connect |-> connect, tabs |-> tabs, open |-> open,
     openAuthorizedSite |-> openAuthorizedSite, navigate |-> navigate, snapshot |-> snapshot,
     click |-> click, fill |-> fill, press |-> press, wait |-> wait, extract |-> extract,
     sequence |-> sequence, frameExtract |-> frameExtract, frameClick |-> frameClick,
     frameFill |-> frameFill, profilePage |-> profilePage, domIndex |-> domIndex,
     frameSequence |-> frameSequence, navigatePath |-> navigatePath, screenshot |-> screenshot,
     goBack |-> goBack, goForward |-> goForward, closeTab |-> closeTab, finishTask |-> finishTask,
     download |-> download, upload |-> upload, console |-> console, networkList |-> networkList,
     networkInspect |-> networkInspect, traceStart |-> traceStart, traceStop |-> traceStop,
     videoStart |-> videoStart, videoStop |-> videoStop, pdf |-> pdf, diagnostics |-> diagnostics]

Operations == DOMAIN execute

\* What the driver records, in an operation that starts or stops it.
RecordingOf(op) == IF op \in {"traceStart", "traceStop"} THEN "trace" ELSE "video"
Recordings == {"trace", "video"}

\* The actions that the confirmations of an operation are for.  The steps of a sequence ask as
\* click and press do.
ConfirmedActions(op) ==
    CASE op = "click"         -> {"click"}
      [] op = "press"         -> {"press"}
      [] op = "sequence"      -> {"click", "press"}
      [] op = "frameClick"    -> {"frame-click"}
      [] op = "frameSequence" -> {"legacy-click", "legacy-press"}
      [] op = "navigatePath"  -> {"legacy-navigate-path"}
      [] op = "upload"        -> {"upload"}
      [] OTHER                -> {}

isMutatingOperation(op) ==
    op \notin {"status", "tabs", "snapshot", "wait", "extract", "frameExtract", "profilePage",
               "domIndex", "console", "networkList", "networkInspect", "diagnostics"}

\* The operations that name a tab, and so hold a lease of its task while they run.
OnATab(op) ==
    op \notin {"open", "openAuthorizedSite", "tabs", "connect", "finishTask", "status"}

Checks == {"owned", "closable", "unlocked", "navigable", "policy", "target"}
Leading(op) ==
    {i \in 1..Len(execute[op]) : \A j \in 1..i : execute[op][j] \in Checks}

operationRequiresPrivateGrant(op) ==
    op \notin {"navigate", "closeTab", "finishTask", "traceStop", "videoStop"}
=============================================================================
