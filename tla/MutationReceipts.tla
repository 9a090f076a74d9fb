-------------------------- MODULE MutationReceipts --------------------------
(***************************************************************************)
(* The receipts of source-control mutations: one file per idempotency key  *)
(* (FileMutationReceiptStore), written by a temporary file and a rename,   *)
(* and the transitions a receipt may make (mutation-receipts.ts).          *)
(*                                                                         *)
(* An operation of the store reads the file, decides, and may write; the   *)
(* operations of one key run one after the other through a queue of        *)
(* promises in the agent's memory.  Files outlive the agent, queues and    *)
(* operations do not.                                                      *)
(***************************************************************************)
EXTENDS SourceControlBase

VARIABLES
    receipts,    \* receipts[k]: the file of key k
    queues,      \* queues[k]: the operations of key k, the first one running
    store        \* store[c]: the store operation call c is waiting for

receiptVars == <<receipts, queues, store>>

NoReceipt == [state |-> "none", mutation |-> None]

ReceiptStates == {"reserved", "executing", "completed", "reconciliation_required"}

Receipts == {NoReceipt} \cup [state : ReceiptStates, mutation : Mutations]

StoreOps == {"get", "reserve", "markExecuting", "markReconciliationRequired", "markCompleted"}

(***************************************************************************)
(* A store operation is idle, queued, writing a receipt, or back with its  *)
(* outcome: what reserve decided, "ok", or an error.                       *)
(***************************************************************************)
Outcomes == {"found", "absent", "execute", "replay_completed", "reconciliation_required", "ok", "error"}

Idle == [op |-> None, key |-> None, mutation |-> None, phase |-> "idle", out |-> None, draft |-> NoReceipt]

(***************************************************************************)
(* The transitions.  Each one is given the receipt on disk and returns     *)
(* what to write (NoReceipt: nothing) and the outcome.                     *)
(***************************************************************************)
Answer(out) == [draft |-> NoReceipt, out |-> out]

Write(state, m, out) == [draft |-> [state |-> state, mutation |-> m], out |-> out]

\* An existing receipt must be of the same identity: workspace, operation,
\* target and digest of the arguments.
SameIdentity(r, m) == r.mutation = m

reserveMutationReceipt(r, m) ==
    CASE r.state = "none"                                -> Write("reserved", m, "execute")
      [] r.state # "none" /\ ~ SameIdentity(r, m)        -> Answer("error")
      [] r.state = "completed" /\ SameIdentity(r, m)     -> Answer("replay_completed")
      [] OTHER                                           -> Answer("reconciliation_required")

Known(r, m) == r.state # "none" /\ SameIdentity(r, m)

markMutationReceiptExecuting(r, m) ==
    IF Known(r, m) /\ r.state = "reserved"
    THEN Write("executing", m, "ok") ELSE Answer("error")

markMutationReceiptReconciliationRequired(r, m) ==
    IF Known(r, m) /\ r.state \in {"executing", "reconciliation_required"}
    THEN Write("reconciliation_required", m, "ok") ELSE Answer("error")

markMutationReceiptCompleted(r, m) ==
    IF Known(r, m) /\ r.state \in {"executing", "reconciliation_required"}
    THEN Write("completed", m, "ok") ELSE Answer("error")

Decide(op, r, m) ==
    CASE op = "get"                        -> Answer(IF r.state = "none" THEN "absent" ELSE "found")
      [] op = "reserve"                    -> reserveMutationReceipt(r, m)
      [] op = "markExecuting"              -> markMutationReceiptExecuting(r, m)
      [] op = "markReconciliationRequired" -> markMutationReceiptReconciliationRequired(r, m)
      [] op = "markCompleted"              -> markMutationReceiptCompleted(r, m)

-----------------------------------------------------------------------------
ReceiptsInit ==
    /\ receipts = [k \in Keys |-> NoReceipt]
    /\ queues = [k \in Keys |-> <<>>]
    /\ store = [c \in Calls |-> Idle]

\* serialize: the operation joins the queue of its key.
Enqueue(c, op, k, m) ==
    /\ store' = [store EXCEPT ![c] = [Idle EXCEPT !.op = op, !.key = k, !.mutation = m, !.phase = "queued"]]
    /\ queues' = [queues EXCEPT ![k] = Append(@, c)]
    /\ UNCHANGED receipts

\* Mutant: an operation that fails keeps its place in the queue.
FinishLingers(c, out) ==
    /\ store' = [store EXCEPT ![c].phase = "returned", ![c].out = out, ![c].draft = NoReceipt]
    /\ queues' = IF out = "error" THEN queues ELSE [queues EXCEPT ![store[c].key] = Tail(@)]

Finish(c, out) ==
    /\ store' = [store EXCEPT ![c].phase = "returned", ![c].out = out, ![c].draft = NoReceipt]
    /\ queues' = [queues EXCEPT ![store[c].key] = Tail(@)]

\* Mutant: an operation does not wait for the one before it.
MayRunAtOnce(c) == TRUE

MayRun(c) == Head(queues[store[c].key]) = c

\* The operation at the head of the queue reads the file and decides.
StoreRead(c) ==
    /\ store[c].phase = "queued"
    /\ MayRun(c)
    /\ LET d == Decide(store[c].op, receipts[store[c].key], store[c].mutation) IN
       IF d.draft = NoReceipt
       THEN Finish(c, d.out)
       ELSE /\ store' = [store EXCEPT ![c].phase = "writing", ![c].out = d.out, ![c].draft = d.draft]
            /\ UNCHANGED queues
    /\ UNCHANGED receipts

\* The rename puts the new receipt in place of the old one.
StoreWrite(c) ==
    /\ store[c].phase = "writing"
    /\ receipts' = [receipts EXCEPT ![store[c].key] = store[c].draft]
    /\ Finish(c, store[c].out)

\* Reading, writing or renaming fails: the file is what it was.
StoreFail(c) ==
    /\ store[c].phase = "writing" \/ (store[c].phase = "queued" /\ MayRun(c))
    /\ Finish(c, "error")
    /\ UNCHANGED receipts

\* The agent stops: what is not on disk is gone.
ReceiptsCrash ==
    /\ queues' = [k \in Keys |-> <<>>]
    /\ store' = [c \in Calls |-> Idle]
    /\ UNCHANGED receipts

Returned(c, op, out) == store[c].phase = "returned" /\ store[c].op = op /\ store[c].out = out

ReceiptsTypeOK ==
    /\ receipts \in [Keys -> Receipts]
    /\ \A k \in Keys : \A i \in DOMAIN queues[k] : queues[k][i] \in Calls
    /\ \A c \in Calls :
         /\ store[c].phase \in {"idle", "queued", "writing", "returned"}
         /\ store[c].phase # "idle" => store[c].op \in StoreOps /\ store[c].key \in Keys
         /\ store[c].phase \in {"writing", "returned"} => store[c].out \in Outcomes
=============================================================================
