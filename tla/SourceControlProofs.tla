------------------------- MODULE SourceControlProofs -------------------------
(***************************************************************************)
(* Proofs about source-control calls, for any calls, keys, mutations,      *)
(* confirmations and repositories.                                         *)
(***************************************************************************)
EXTENDS SourceControl, FiniteSetTheorems, TLAPS

-----------------------------------------------------------------------------
(***************************************************************************)
(* The inductive invariant                                                 *)
(***************************************************************************)
StoreRecords == [op : StoreOps \cup {None}, key : Keys \cup {None}, mutation : Mutations \cup {None},
                 phase : {"idle", "queued", "writing", "returned"},
                 out : Outcomes \cup {None}, draft : Receipts]

\* The types of the parts of the state that receipts depend on.
CoreTypeOK ==
    /\ receipts \in [Keys -> Receipts]
    /\ queues \in [Keys -> Seq(Calls)]
    /\ store \in [Calls -> StoreRecords]
    /\ call \in [Calls -> CallStates]
    /\ mut \in [Calls -> Mutations \cup {None}]
    /\ key \in [Calls -> Keys \cup {None}]
    /\ conf \in [Calls -> ConfirmationIds \cup {None}]
    /\ result \in [Calls -> Results]
    /\ attempts \in [Keys -> Nat]

\* The store operation a call waits for in each of its states.
OpAt(pc) == IF pc = "replay" THEN "reserve" ELSE pc

StoreCalls == {"get", "replay", "reserve", "markExecuting", "markCompleted", "markReconciliationRequired"}

Busy(c) == store[c].phase \in {"queued", "writing"}

\* An operation of the store belongs to the call that waits for it, and only
\* a call that waits has one under way.
Waiting ==
    \A c \in Calls :
        /\ call[c] # "idle" => mut[c] \in Mutations /\ key[c] \in Keys
        /\ call[c] \in StoreCalls =>
             /\ store[c].phase # "idle"
             /\ store[c].op = OpAt(call[c])
             /\ store[c].key = key[c]
             /\ store[c].mutation = mut[c]
        /\ Busy(c) => call[c] \in StoreCalls

\* An operation under way is in the queue of its key, a write at its head.
Queued ==
    \A c \in Calls : Busy(c) =>
        /\ \E i \in 1 .. Len(queues[key[c]]) : queues[key[c]][i] = c
        /\ store[c].phase = "writing" => Head(queues[key[c]]) = c

\* What is about to be written was decided on the receipt that is still there.
Current ==
    \A c \in Calls : store[c].phase = "writing" =>
        LET d == Decide(store[c].op, receipts[key[c]], mut[c]) IN
        store[c].draft = d.draft /\ store[c].out = d.out /\ d.draft # NoReceipt

\* c holds the only permission to change anything under its key, and has not
\* used it, or has.
Early(c) ==
    \/ call[c] = "reserve" /\ store[c].phase \in {"writing", "returned"} /\ store[c].out = "execute"
    \/ call[c] = "markExecuting" /\ ~ (store[c].phase = "returned" /\ store[c].out # "ok")

Late(c) ==
    \/ call[c] = "backend" /\ ~ Direct(mut[c])
    \/ call[c] \in {"markCompleted", "markReconciliationRequired"}

Claims(c) == Early(c) \/ Late(c)

\* One call per key has the permission, and a receipt says so.
Exclusive ==
    /\ \A c, d \in Calls : Claims(c) /\ Claims(d) /\ key[c] = key[d] => c = d
    /\ \A c \in Calls : Claims(c) /\ ~ (call[c] = "reserve" /\ store[c].phase = "writing")
                            => receipts[key[c]].state # "none"

\* The backend was called at most once under a key, and by whom.
Counted ==
    /\ \A k \in Keys :
         /\ attempts[k] \in {0, 1}
         /\ receipts[k].state = "none" => attempts[k] = 0
         /\ receipts[k].state = "completed" => attempts[k] = 1
    /\ \A c \in Calls : (Early(c) => attempts[key[c]] = 0) /\ (Late(c) => attempts[key[c]] = 1)

ReceiptInv == CoreTypeOK /\ Waiting /\ Queued /\ Current /\ Exclusive /\ Counted

\* c goes through the receipts and has to be confirmed.
MustConfirm(c) == ~ Direct(mut[c]) /\ Confirmable(mut[c])

\* A confirmation is pending or spent, by one call, and never before it was
\* issued; whoever goes on past the question has spent one.
ConfirmationInv ==
    /\ pending \in [ConfirmationIds -> Mutations \cup {None}]
    /\ issued \subseteq ConfirmationIds
    /\ spent \in [ConfirmationIds -> SUBSET Calls]
    /\ \A f \in ConfirmationIds :
         /\ f \notin issued => pending[f] = None /\ spent[f] = {}
         /\ pending[f] # None => spent[f] = {}
         /\ \A c, d \in spent[f] : c = d
    /\ \A c \in Calls :
         call[c] \in {"reserve", "markExecuting", "backend"} /\ MustConfirm(c)
            => conf[c] # None /\ c \in spent[conf[c]]

-----------------------------------------------------------------------------
(***************************************************************************)
(* The store                                                               *)
(***************************************************************************)

\* What a store operation may decide: which receipt it meets when it writes,
\* what it writes, and what it answers without writing.
Decided(op, r, m, d) ==
    /\ d.draft \in Receipts /\ d.out \in Outcomes
    /\ d.draft # NoReceipt =>
         \/ /\ op = "reserve" /\ r.state = "none"
            /\ d.draft = [state |-> "reserved", mutation |-> m] /\ d.out = "execute"
         \/ /\ op = "markExecuting" /\ r.state = "reserved" /\ r.mutation = m
            /\ d.draft = [state |-> "executing", mutation |-> m] /\ d.out = "ok"
         \/ /\ op = "markReconciliationRequired"
            /\ r.state \in {"executing", "reconciliation_required"} /\ r.mutation = m
            /\ d.draft = [state |-> "reconciliation_required", mutation |-> m] /\ d.out = "ok"
         \/ /\ op = "markCompleted"
            /\ r.state \in {"executing", "reconciliation_required"} /\ r.mutation = m
            /\ d.draft = [state |-> "completed", mutation |-> m] /\ d.out = "ok"
    /\ d.draft = NoReceipt => d.out # "execute" /\ (op # "get" => d.out # "ok")

\* The transitions of mutation-receipts.ts decide so.
LEMMA DecideCases ==
    ASSUME NEW op \in StoreOps, NEW r \in Receipts, NEW m \in Mutations
    PROVE  Decided(op, r, m, Decide(op, r, m))
<1> USE NoneAssumption DEF Decided, Answer, Write, SameIdentity, Known, NoReceipt
<1>1. CASE op = "get"
  BY <1>1 DEF Decide, Outcomes, Receipts
<1>2. CASE op = "reserve"
  BY <1>2 DEF Decide, reserveMutationReceipt, Outcomes, Receipts, ReceiptStates
<1>3. CASE op = "markExecuting"
  BY <1>3 DEF Decide, markMutationReceiptExecuting, Outcomes, Receipts, ReceiptStates
<1>4. CASE op = "markReconciliationRequired"
  BY <1>4 DEF Decide, markMutationReceiptReconciliationRequired, Outcomes, Receipts, ReceiptStates
<1>5. CASE op = "markCompleted"
  BY <1>5 DEF Decide, markMutationReceiptCompleted, Outcomes, Receipts, ReceiptStates
<1> QED
  BY <1>1, <1>2, <1>3, <1>4, <1>5 DEF StoreOps

\* An operation that ends leaves the queue of its key and touches nothing else.
LEMMA FinishIs ==
    ASSUME CoreTypeOK, NEW c \in Calls, NEW out \in Outcomes, Finish(c, out),
           store[c].key \in Keys, queues[store[c].key] # <<>>
    PROVE  /\ store' \in [Calls -> StoreRecords]
           /\ \A d \in Calls : d # c => store'[d] = store[d]
           /\ store'[c].phase = "returned" /\ store'[c].out = out
           /\ store'[c].op = store[c].op /\ store'[c].key = store[c].key
           /\ store'[c].mutation = store[c].mutation
           /\ queues' \in [Keys -> Seq(Calls)]
           /\ queues'[store[c].key] = Tail(queues[store[c].key])
           /\ \A k \in Keys : k # store[c].key => queues'[k] = queues[k]
<1> DEFINE r == [[[store[c] EXCEPT !.phase = "returned"] EXCEPT !.out = out] EXCEPT !.draft = NoReceipt]
<1>1. NoReceipt \in Receipts
  BY DEF Receipts
<1>2. store[c] \in StoreRecords
  BY DEF CoreTypeOK
<1>3. /\ r \in StoreRecords
      /\ r.phase = "returned" /\ r.out = out /\ r.op = store[c].op
      /\ r.key = store[c].key /\ r.mutation = store[c].mutation
  BY <1>1, <1>2 DEF StoreRecords
<1>4. store' = [store EXCEPT ![c] = r]
  BY <1>2 DEF Finish, StoreRecords, CoreTypeOK
<1>5. queues' = [queues EXCEPT ![store[c].key] = Tail(queues[store[c].key])]
  BY DEF Finish
<1>6. queues \in [Keys -> Seq(Calls)] /\ Tail(queues[store[c].key]) \in Seq(Calls)
  BY DEF CoreTypeOK
<1> HIDE DEF r
<1> QED
  BY <1>3, <1>4, <1>5, <1>6 DEF CoreTypeOK

\* An operation that is queued joins the queue of its key.
LEMMA EnqueueIs ==
    ASSUME CoreTypeOK, NEW c \in Calls, NEW op \in StoreOps, NEW k \in Keys, NEW m \in Mutations,
           Enqueue(c, op, k, m)
    PROVE  /\ store' \in [Calls -> StoreRecords]
           /\ \A d \in Calls : d # c => store'[d] = store[d]
           /\ store'[c].phase = "queued" /\ store'[c].op = op
           /\ store'[c].key = k /\ store'[c].mutation = m
           /\ queues' \in [Keys -> Seq(Calls)]
           /\ queues'[k] = Append(queues[k], c)
           /\ \A q \in Keys : q # k => queues'[q] = queues[q]
           /\ receipts' = receipts
<1> DEFINE r == [Idle EXCEPT !.op = op, !.key = k, !.mutation = m, !.phase = "queued"]
<1>1. NoReceipt \in Receipts
  BY DEF Receipts
<1>2. /\ r \in StoreRecords
      /\ r.phase = "queued" /\ r.op = op /\ r.key = k /\ r.mutation = m
  BY <1>1 DEF StoreRecords, Idle
<1>3. store' = [store EXCEPT ![c] = r] /\ receipts' = receipts
  BY DEF Enqueue
<1>4. queues' = [queues EXCEPT ![k] = Append(queues[k], c)]
  BY DEF Enqueue
<1>5. queues \in [Keys -> Seq(Calls)] /\ Append(queues[k], c) \in Seq(Calls)
  BY DEF CoreTypeOK
<1> HIDE DEF r
<1> QED
  BY <1>2, <1>3, <1>4, <1>5 DEF CoreTypeOK

-----------------------------------------------------------------------------
(***************************************************************************)
(* Every kind of step keeps the invariant of the receipts                  *)
(***************************************************************************)

\* The agent starts with an empty directory of receipts.
LEMMA ReceiptInit == Init => ReceiptInv
<1> SUFFICES ASSUME Init PROVE ReceiptInv
  OBVIOUS
<1>1. /\ receipts = [k \in Keys |-> NoReceipt] /\ queues = [k \in Keys |-> <<>>]
      /\ store = [c \in Calls |-> Idle] /\ call = [c \in Calls |-> "idle"]
      /\ attempts = [k \in Keys |-> 0]
  BY DEF Init, ReceiptsInit
<1>2. CoreTypeOK
  <2>1. NoReceipt \in Receipts /\ Idle \in StoreRecords
    BY DEF Receipts, StoreRecords, Idle
  <2>2. \A k \in Keys : <<>> \in Seq(Calls)
    OBVIOUS
  <2> QED
    BY <1>1, <2>1, <2>2 DEF Init, CoreTypeOK, CallStates, Results
<1>3. \A c \in Calls : store[c].phase = "idle" /\ call[c] = "idle"
  BY <1>1 DEF Idle
<1>4. \A c \in Calls : ~ Early(c) /\ ~ Late(c)
  BY <1>3 DEF Early, Late
<1>5. \A k \in Keys : receipts[k].state = "none" /\ attempts[k] = 0
  BY <1>1 DEF NoReceipt
<1> QED
  BY <1>2, <1>3, <1>4, <1>5
  DEF ReceiptInv, Waiting, Queued, Current, Exclusive, Counted, Claims, Busy, StoreCalls

\* Steps of git, of GitHub and of others leave receipts and calls alone.
LEMMA QuietKeeps ==
    ASSUME ReceiptInv, UNCHANGED <<receiptVars, site, callVars, attempts>>
    PROVE  ReceiptInv'
<1> USE DEF receiptVars, callVars
<1>1. CoreTypeOK'
  BY DEF ReceiptInv, CoreTypeOK
<1>2. Waiting' /\ Queued'
  BY DEF ReceiptInv, Waiting, Queued, Busy
<1>3. Current'
  BY DEF ReceiptInv, Current
<1>4. \A c \in Calls : (Early(c)' <=> Early(c)) /\ (Late(c)' <=> Late(c))
  BY DEF Early, Late, Direct
<1>5. Exclusive' /\ Counted'
  BY <1>4 DEF ReceiptInv, Exclusive, Counted, Claims
<1> QED
  BY <1>1, <1>2, <1>3, <1>5 DEF ReceiptInv

\* A call that is answered gives its permission up.
LEMMA DoneKeeps ==
    ASSUME ReceiptInv, NEW c \in Calls, NEW r \in Results, call[c] # "idle", ~ Busy(c), Done(c, r),
           UNCHANGED <<receiptVars, site, mut, key, conf, attempts>>
    PROVE  ReceiptInv'
<1> USE DEF receiptVars
<1>1. CoreTypeOK'
  BY DEF ReceiptInv, CoreTypeOK, Done, CallStates
<1>2. call'[c] = "done" /\ \A d \in Calls : d # c => call'[d] = call[d]
  BY DEF ReceiptInv, CoreTypeOK, Done
<1>3. Waiting'
  BY <1>2 DEF ReceiptInv, Waiting, Busy, StoreCalls
<1>4. Queued'
  BY DEF ReceiptInv, Queued, Busy
<1>5. Current'
  BY DEF ReceiptInv, Current
<1>6. \A d \in Calls : (Early(d)' => Early(d)) /\ (Late(d)' => Late(d)) /\ (d = c => ~ Claims(d)')
  BY <1>2 DEF Early, Late, Direct, Claims
<1>7. Exclusive'
  <2>1. \A d, e \in Calls : Claims(d)' /\ Claims(e)' /\ key[d] = key[e] => d = e
    BY <1>6 DEF ReceiptInv, Exclusive, Claims
  <2>2. \A d \in Calls : Claims(d)' /\ ~ (call'[d] = "reserve" /\ store[d].phase = "writing")
                              => receipts[key[d]].state # "none"
    BY <1>2, <1>6 DEF ReceiptInv, Exclusive, Claims
  <2> QED
    BY <2>1, <2>2 DEF Exclusive
<1>8. Counted'
  BY <1>6 DEF ReceiptInv, Counted
<1> QED
  BY <1>1, <1>3, <1>4, <1>5, <1>7, <1>8 DEF ReceiptInv

\* Joining the queue of a key disturbs no operation that is in it.
LEMMA EnqueueQueued ==
    ASSUME ReceiptInv, NEW c \in Calls, NEW op \in StoreOps, NEW k \in Keys, NEW m \in Mutations,
           Enqueue(c, op, k, m), key'[c] = k, \A d \in Calls : d # c => key'[d] = key[d]
    PROVE  Queued'
<1>1. CoreTypeOK /\ queues \in [Keys -> Seq(Calls)]
  BY DEF ReceiptInv, CoreTypeOK
<1>2. /\ \A d \in Calls : d # c => store'[d] = store[d]
      /\ store'[c].phase = "queued"
      /\ queues'[k] = Append(queues[k], c)
      /\ \A q \in Keys : q # k => queues'[q] = queues[q]
  BY <1>1, EnqueueIs
<1> SUFFICES ASSUME NEW d \in Calls, Busy(d)'
             PROVE  /\ \E i \in 1 .. Len(queues'[key'[d]]) : queues'[key'[d]][i] = d
                    /\ store'[d].phase = "writing" => Head(queues'[key'[d]]) = d
  BY DEF Queued
<1>3. CASE d = c
  <2>1. queues'[k][Len(queues[k]) + 1] = c /\ Len(queues'[k]) = Len(queues[k]) + 1
    BY <1>1, <1>2
  <2>2. Len(queues[k]) + 1 \in 1 .. Len(queues'[k])
    BY <1>1, <2>1
  <2> QED
    BY <1>2, <1>3, <2>1, <2>2
<1>4. CASE d # c
  <2>1. Busy(d) /\ key[d] \in Keys /\ key'[d] = key[d]
    BY <1>2, <1>4 DEF Busy, ReceiptInv, Waiting, StoreCalls
  <2>2. PICK i \in 1 .. Len(queues[key[d]]) : queues[key[d]][i] = d
    BY <2>1 DEF ReceiptInv, Queued
  <2>3. store'[d].phase = "writing" => Head(queues[key[d]]) = d
    BY <1>2, <1>4, <2>1 DEF ReceiptInv, Queued
  <2>4. CASE key[d] = k
    <3>1. i \in 1 .. Len(queues'[k]) /\ queues'[k][i] = queues[k][i] /\ Head(queues'[k]) = Head(queues[k])
      BY <1>1, <1>2, <2>2, <2>4
    <3> QED
      BY <2>1, <2>2, <2>3, <2>4, <3>1
  <2>5. CASE key[d] # k
    BY <1>2, <2>1, <2>2, <2>3, <2>5
  <2> QED
    BY <2>4, <2>5
<1> QED
  BY <1>3, <1>4

\* A call that asks the store for its next operation: it keeps the permission
\* it has, and gets none.
LEMMA ThenKeeps ==
    ASSUME ReceiptInv, NEW c \in Calls, NEW pc \in StoreCalls, call[c] # "idle", ~ Busy(c),
           Then(c, OpAt(pc)), Goto(c, pc), UNCHANGED <<site, mut, key, conf, attempts>>,
           pc = "markExecuting" => Early(c),
           pc \in {"markCompleted", "markReconciliationRequired"} => Late(c)
    PROVE  ReceiptInv'
<1> DEFINE op == OpAt(pc)
<1>1. op \in StoreOps /\ key[c] \in Keys /\ mut[c] \in Mutations /\ CoreTypeOK
  BY DEF OpAt, StoreCalls, StoreOps, ReceiptInv, Waiting
<1>2. Enqueue(c, op, key[c], mut[c])
  BY DEF Then
<1> HIDE DEF op
<1>3. /\ store' \in [Calls -> StoreRecords]
      /\ \A d \in Calls : d # c => store'[d] = store[d]
      /\ store'[c].phase = "queued" /\ store'[c].op = op
      /\ store'[c].key = key[c] /\ store'[c].mutation = mut[c]
      /\ queues' \in [Keys -> Seq(Calls)]
      /\ receipts' = receipts
  BY <1>1, <1>2, EnqueueIs
<1>4. call' \in [Calls -> CallStates] /\ call'[c] = pc /\ result' = result
      /\ \A d \in Calls : d # c => call'[d] = call[d]
  BY <1>1 DEF CoreTypeOK, Goto, CallStates, StoreCalls
<1>5. CoreTypeOK'
  BY <1>1, <1>3, <1>4 DEF CoreTypeOK
<1>6. Waiting'
  BY <1>1, <1>3, <1>4 DEF ReceiptInv, Waiting, Busy, op, StoreCalls
<1>7. Queued'
  BY <1>1, <1>2, EnqueueQueued
<1>8. Current'
  BY <1>3 DEF ReceiptInv, Current
<1>9. \A d \in Calls : (Early(d)' => Early(d)) /\ (Late(d)' => Late(d))
  <2>1. Early(c)' => pc = "markExecuting"
    BY <1>3, <1>4 DEF Early
  <2>2. Late(c)' => pc \in {"markCompleted", "markReconciliationRequired"}
    BY <1>4 DEF Late, StoreCalls
  <2>3. \A d \in Calls : d # c => (Early(d)' => Early(d)) /\ (Late(d)' => Late(d))
    BY <1>3, <1>4 DEF Early, Late, Direct
  <2> QED
    BY <2>1, <2>2, <2>3
<1>10. Exclusive'
  <2>1. \A d, e \in Calls : Claims(d)' /\ Claims(e)' /\ key[d] = key[e] => d = e
    BY <1>9 DEF ReceiptInv, Exclusive, Claims
  <2>2. \A d \in Calls : Claims(d)' /\ ~ (call'[d] = "reserve" /\ store'[d].phase = "writing")
                              => receipts[key[d]].state # "none"
    BY <1>3, <1>4, <1>9 DEF ReceiptInv, Exclusive, Claims, Busy
  <2> QED
    BY <1>3, <2>1, <2>2 DEF Exclusive
<1>11. Counted'
  BY <1>3, <1>9 DEF ReceiptInv, Counted
<1> QED
  BY <1>5, <1>6, <1>7, <1>8, <1>10, <1>11 DEF ReceiptInv

\* A call arrives.
LEMMA CallKeeps ==
    ASSUME ReceiptInv, NEW c \in Calls, NEW m \in Mutations, NEW k \in ClientKeys \cup {None},
           NEW f \in ConfirmationIds \cup {None}, Call(c, m, k, f)
    PROVE  ReceiptInv'
<1>1. key'[c] \in Keys
  BY DEF ReceiptInv, CoreTypeOK, Call, deriveSourceControlIdempotencyKey, Keys
<1>2. /\ call[c] = "idle" /\ ~ Busy(c)
      /\ mut' \in [Calls -> Mutations \cup {None}] /\ mut'[c] = m
      /\ key' \in [Calls -> Keys \cup {None}] /\ conf' \in [Calls -> ConfirmationIds \cup {None}]
      /\ \A d \in Calls : d # c => key'[d] = key[d] /\ mut'[d] = mut[d]
      /\ UNCHANGED <<attempts, site>>
  BY <1>1 DEF ReceiptInv, CoreTypeOK, Waiting, Call, StoreCalls
<1>3. /\ call' \in [Calls -> CallStates] /\ result' \in [Calls -> Results]
      /\ \A d \in Calls : d # c => call'[d] = call[d]
  BY DEF ReceiptInv, CoreTypeOK, Call, Done, Goto, CallStates, Results
<1>4. CASE UNCHANGED receiptVars /\ (call'[c] = "done" \/ (call'[c] = "backend" /\ Direct(m)))
  <2> USE <1>4 DEF receiptVars
  <2>1. CoreTypeOK'
    BY <1>2, <1>3 DEF ReceiptInv, CoreTypeOK
  <2>2. Waiting'
    BY <1>1, <1>2, <1>3 DEF ReceiptInv, Waiting, Busy, StoreCalls
  <2>3. Queued' /\ Current'
    BY <1>2 DEF ReceiptInv, Queued, Current, Busy
  <2>4. \A d \in Calls : (Early(d)' => Early(d) /\ d # c) /\ (Late(d)' => Late(d) /\ d # c)
    BY <1>2, <1>3 DEF Early, Late, Direct
  <2>5. Exclusive' /\ Counted'
    BY <1>2, <1>3, <2>4 DEF ReceiptInv, Exclusive, Counted, Claims
  <2> QED
    BY <2>1, <2>2, <2>3, <2>5 DEF ReceiptInv
<1>5. CASE Enqueue(c, "get", key'[c], m) /\ call'[c] = "get"
  <2>1. CoreTypeOK /\ "get" \in StoreOps
    BY DEF ReceiptInv, StoreOps
  <2>2. /\ store' \in [Calls -> StoreRecords]
        /\ \A d \in Calls : d # c => store'[d] = store[d]
        /\ store'[c].phase = "queued" /\ store'[c].op = "get"
        /\ store'[c].key = key'[c] /\ store'[c].mutation = m
        /\ queues' \in [Keys -> Seq(Calls)]
        /\ receipts' = receipts
    BY <1>1, <1>5, <2>1, EnqueueIs
  <2>3. CoreTypeOK'
    BY <1>2, <1>3, <2>1, <2>2 DEF CoreTypeOK
  <2>4. Waiting'
    BY <1>1, <1>2, <1>3, <1>5, <2>2 DEF ReceiptInv, Waiting, Busy, StoreCalls, OpAt
  <2>5. Queued'
    BY <1>1, <1>2, <1>5, <2>1, EnqueueQueued
  <2>6. Current'
    BY <1>2, <2>2 DEF ReceiptInv, Current
  <2>7. \A d \in Calls : (Early(d)' => Early(d) /\ d # c) /\ (Late(d)' => Late(d) /\ d # c)
    BY <1>2, <1>3, <1>5, <2>2 DEF Early, Late, Direct
  <2>8. Exclusive' /\ Counted'
    BY <1>2, <1>3, <2>2, <2>7 DEF ReceiptInv, Exclusive, Counted, Claims
  <2> QED
    BY <2>3, <2>4, <2>5, <2>6, <2>8 DEF ReceiptInv
<1>6. /\ Done(c, "error") => call'[c] = "done"
      /\ Goto(c, "backend") => call'[c] = "backend"
      /\ Goto(c, "get") => call'[c] = "get"
  BY DEF ReceiptInv, CoreTypeOK, Done, Goto
<1>7. \/ Done(c, "error") /\ UNCHANGED receiptVars
      \/ Direct(m) /\ Goto(c, "backend") /\ UNCHANGED receiptVars
      \/ Enqueue(c, "get", key'[c], m) /\ Goto(c, "get")
  BY DEF Call
<1> QED
  BY <1>4, <1>5, <1>6, <1>7

\* The backend is called: the permission is used.
LEMMA ExecuteKeeps ==
    ASSUME ReceiptInv, NEW c \in Calls, Execute(c)
    PROVE  ReceiptInv' /\ attempts[key[c]] = 0 /\ receipts[key[c]].state \notin {"none", "completed"}
<1>1. /\ call[c] = "markExecuting" /\ store[c].phase = "returned" /\ store[c].out = "ok"
      /\ UNCHANGED <<receipts, queues, store, site, mut, key, conf, result>>
  BY DEF Execute, Returned, Goto, Frame, receiptVars
<1>2. key[c] \in Keys /\ ~ Busy(c) /\ Early(c) /\ CoreTypeOK
  BY <1>1 DEF ReceiptInv, Waiting, Busy, Early
<1>3. attempts[key[c]] = 0 /\ receipts[key[c]].state \notin {"none", "completed"}
  BY <1>1, <1>2 DEF ReceiptInv, Counted, Exclusive, Claims
<1>4. /\ call' \in [Calls -> CallStates] /\ call'[c] = "backend"
      /\ \A d \in Calls : d # c => call'[d] = call[d]
  BY <1>2 DEF CoreTypeOK, Execute, Goto, CallStates
<1>5. /\ attempts' \in [Keys -> Nat] /\ attempts'[key[c]] = 1
      /\ \A k \in Keys : k # key[c] => attempts'[k] = attempts[k]
  BY <1>2, <1>3 DEF CoreTypeOK, Execute
<1>6. CoreTypeOK'
  BY <1>1, <1>2, <1>4, <1>5 DEF CoreTypeOK
<1>7. Waiting' /\ Queued' /\ Current'
  BY <1>1, <1>2, <1>4 DEF ReceiptInv, Waiting, Queued, Current, Busy, StoreCalls
<1>8. \A d \in Calls : /\ d # c => (Early(d)' => Early(d)) /\ (Late(d)' => Late(d))
                       /\ ~ Early(c)'
  BY <1>1, <1>4 DEF Early, Late, Direct
<1>9. Exclusive'
  <2>1. \A d, e \in Calls : Claims(d)' /\ Claims(e)' /\ key[d] = key[e] => d = e
    BY <1>2, <1>8 DEF ReceiptInv, Exclusive, Claims
  <2>2. \A d \in Calls : Claims(d)' /\ ~ (call'[d] = "reserve" /\ store[d].phase = "writing")
                              => receipts[key[d]].state # "none"
    BY <1>3, <1>4, <1>8 DEF ReceiptInv, Exclusive, Claims
  <2> QED
    BY <1>1, <2>1, <2>2 DEF Exclusive
<1>10. Counted'
  <2>1. \A d \in Calls : d # c /\ Claims(d)' => key[d] # key[c]
    BY <1>2, <1>8 DEF ReceiptInv, Exclusive, Claims
  <2>2. \A d \in Calls : Claims(d)' => key[d] \in Keys
    BY <1>1, <1>4 DEF ReceiptInv, Waiting, Claims, Early, Late
  <2>3. \A k \in Keys : /\ attempts'[k] \in {0, 1}
                        /\ receipts[k].state = "none" => attempts'[k] = 0
                        /\ receipts[k].state = "completed" => attempts'[k] = 1
    BY <1>3, <1>5, <1>1, <1>2 DEF ReceiptInv, Counted
  <2>4. \A d \in Calls : (Early(d)' => attempts'[key[d]] = 0) /\ (Late(d)' => attempts'[key[d]] = 1)
    BY <1>1, <1>5, <1>8, <2>1, <2>2 DEF ReceiptInv, Counted, Claims
  <2> QED
    BY <1>1, <2>3, <2>4 DEF Counted
<1> QED
  BY <1>3, <1>6, <1>7, <1>9, <1>10 DEF ReceiptInv

\* The operation at the head of its queue ends: the others keep their places.
LEMMA FinishQueued ==
    ASSUME ReceiptInv, NEW c \in Calls, NEW out \in Outcomes, Busy(c),
           Head(queues[key[c]]) = c, Finish(c, out), UNCHANGED key
    PROVE  /\ Queued'
           /\ store[c].key = key[c] /\ key[c] \in Keys /\ queues[key[c]] # <<>>
<1>1. CoreTypeOK /\ queues \in [Keys -> Seq(Calls)]
  BY DEF ReceiptInv, CoreTypeOK
<1>2. store[c].key = key[c] /\ key[c] \in Keys
  BY DEF ReceiptInv, Waiting, StoreCalls
<1>3. queues[key[c]] # <<>>
  <2>1. PICK i \in 1 .. Len(queues[key[c]]) : queues[key[c]][i] = c
    BY DEF ReceiptInv, Queued
  <2> QED
    BY <1>1, <1>2, <2>1
<1>4. /\ \A d \in Calls : d # c => store'[d] = store[d]
      /\ store'[c].phase = "returned"
      /\ queues'[key[c]] = Tail(queues[key[c]])
      /\ \A k \in Keys : k # key[c] => queues'[k] = queues[k]
  BY <1>1, <1>2, <1>3, FinishIs
<1>5. ASSUME NEW d \in Calls, Busy(d)'
      PROVE  /\ \E i \in 1 .. Len(queues'[key[d]]) : queues'[key[d]][i] = d
             /\ store'[d].phase = "writing" => Head(queues'[key[d]]) = d
  <2>1. d # c /\ Busy(d) /\ key[d] \in Keys
    BY <1>4, <1>5 DEF Busy, ReceiptInv, Waiting, StoreCalls
  <2>2. PICK i \in 1 .. Len(queues[key[d]]) : queues[key[d]][i] = d
    BY <2>1 DEF ReceiptInv, Queued
  <2>3. store'[d].phase = "writing" => Head(queues[key[d]]) = d
    BY <1>4, <2>1 DEF ReceiptInv, Queued
  <2>4. CASE key[d] = key[c]
    <3>1. i # 1 /\ store'[d].phase # "writing"
      BY <1>1, <1>2, <1>3, <2>1, <2>2, <2>3, <2>4
    <3>2. i - 1 \in 1 .. Len(Tail(queues[key[c]])) /\ Tail(queues[key[c]])[i - 1] = queues[key[c]][i]
      BY <1>1, <1>2, <1>3, <2>2, <2>4, <3>1
    <3> QED
      BY <1>4, <2>2, <2>4, <3>1, <3>2
  <2>5. CASE key[d] # key[c]
    BY <1>4, <2>1, <2>2, <2>3, <2>5
  <2> QED
    BY <2>4, <2>5
<1>6. Queued'
  BY <1>5 DEF Queued
<1> QED
  BY <1>2, <1>3, <1>6

\* An operation of the store ends without writing: a call that is told an
\* error has lost its permission, and none gets one.
LEMMA AnswerKeeps ==
    ASSUME ReceiptInv, NEW c \in Calls, NEW out \in Outcomes \ {"execute"}, Busy(c),
           Head(queues[key[c]]) = c, Finish(c, out), call[c] = "markExecuting" => out # "ok",
           UNCHANGED <<receipts, site, callVars, attempts>>
    PROVE  ReceiptInv'
<1> USE DEF callVars
<1>1. Queued' /\ store[c].key = key[c] /\ key[c] \in Keys /\ queues[key[c]] # <<>>
  BY FinishQueued
<1>2. CoreTypeOK
  BY DEF ReceiptInv
<1>3. /\ store' \in [Calls -> StoreRecords] /\ queues' \in [Keys -> Seq(Calls)]
      /\ \A d \in Calls : d # c => store'[d] = store[d]
      /\ store'[c].phase = "returned" /\ store'[c].out = out /\ store'[c].op = store[c].op
      /\ store'[c].key = store[c].key /\ store'[c].mutation = store[c].mutation
  BY <1>1, <1>2, FinishIs
<1>4. CoreTypeOK'
  BY <1>2, <1>3 DEF CoreTypeOK
<1>5. Waiting'
  BY <1>3 DEF ReceiptInv, Waiting, Busy, StoreCalls
<1>6. Current'
  BY <1>3 DEF ReceiptInv, Current
<1>7. \A d \in Calls : (Early(d)' => Early(d) /\ d # c) /\ (Late(d)' => Late(d))
  BY <1>3 DEF Early, Late, Direct
<1>8. Exclusive'
  <2>1. \A d, e \in Calls : Claims(d)' /\ Claims(e)' /\ key[d] = key[e] => d = e
    BY <1>7 DEF ReceiptInv, Exclusive, Claims
  <2>2. \A d \in Calls : Claims(d)' /\ ~ (call[d] = "reserve" /\ store'[d].phase = "writing")
                              => receipts[key[d]].state # "none"
    <3>1. ~ (call[c] = "reserve" /\ Late(c)')
      BY DEF Late
    <3> QED
      BY <1>3, <1>7, <3>1 DEF ReceiptInv, Exclusive, Claims
  <2> QED
    BY <2>1, <2>2 DEF Exclusive
<1>9. Counted'
  BY <1>7 DEF ReceiptInv, Counted
<1> QED
  BY <1>1, <1>4, <1>5, <1>6, <1>8, <1>9 DEF ReceiptInv

\* The file is read and the next receipt decided on: reserve gets the permission
\* only when there is no receipt, and then nobody else has it.
LEMMA ReadKeeps ==
    ASSUME ReceiptInv, NEW c \in Calls, StoreRead(c), UNCHANGED <<site, callVars, attempts>>
    PROVE  ReceiptInv' /\ UNCHANGED receipts
<1> DEFINE d == Decide(store[c].op, receipts[store[c].key], store[c].mutation)
<1>1. /\ CoreTypeOK /\ Busy(c) /\ store[c].phase = "queued" /\ UNCHANGED receipts
      /\ call[c] \in StoreCalls /\ store[c].op = OpAt(call[c]) /\ store[c].op \in StoreOps
      /\ store[c].key = key[c] /\ key[c] \in Keys /\ store[c].mutation = mut[c] /\ mut[c] \in Mutations
  BY DEF StoreRead, Busy, ReceiptInv, Waiting, StoreCalls, OpAt, StoreOps
<1>2. Head(queues[key[c]]) = c
  BY <1>1 DEF StoreRead, MayRun
<1>3. receipts[key[c]] \in Receipts
  BY <1>1 DEF CoreTypeOK
<1>4. \/ d.draft = NoReceipt /\ Finish(c, d.out)
      \/ /\ d.draft # NoReceipt /\ UNCHANGED queues
         /\ store' = [store EXCEPT ![c].phase = "writing", ![c].out = d.out, ![c].draft = d.draft]
  BY DEF StoreRead
<1> HIDE DEF d
<1>5. /\ d.draft \in Receipts /\ d.out \in Outcomes
      /\ d.draft # NoReceipt =>
           \/ store[c].op = "reserve" /\ receipts[key[c]].state = "none" /\ d.out = "execute"
           \/ store[c].op = "markExecuting" /\ d.out = "ok"
           \/ store[c].op \in {"markReconciliationRequired", "markCompleted"}
      /\ d.draft = NoReceipt => d.out # "execute" /\ (store[c].op # "get" => d.out # "ok")
  <2>1. d = Decide(store[c].op, receipts[key[c]], mut[c])
    BY <1>1 DEF d
  <2>2. Decided(store[c].op, receipts[key[c]], mut[c], d)
    BY <1>1, <1>3, <2>1, DecideCases
  <2> QED
    BY <2>2 DEF Decided
<1>6. CASE d.draft = NoReceipt /\ Finish(c, d.out)
  <2>1. call[c] = "markExecuting" => d.out # "ok"
    BY <1>1, <1>5, <1>6 DEF OpAt
  <2> QED
    BY <1>1, <1>2, <1>5, <1>6, <2>1, AnswerKeeps
<1>7. CASE /\ d.draft # NoReceipt /\ UNCHANGED queues
           /\ store' = [store EXCEPT ![c].phase = "writing", ![c].out = d.out, ![c].draft = d.draft]
  <2> USE DEF callVars
  <2> DEFINE r == [[[store[c] EXCEPT !.phase = "writing"] EXCEPT !.out = d.out] EXCEPT !.draft = d.draft]
  <2>1. store[c] \in StoreRecords /\ store \in [Calls -> StoreRecords]
    BY <1>1 DEF CoreTypeOK
  <2>2. /\ r \in StoreRecords
        /\ r.phase = "writing" /\ r.out = d.out /\ r.draft = d.draft /\ r.op = store[c].op
        /\ r.key = store[c].key /\ r.mutation = store[c].mutation
    BY <1>5, <2>1 DEF StoreRecords
  <2>3. store' = [store EXCEPT ![c] = r]
    BY <1>7, <2>1 DEF StoreRecords
  <2> HIDE DEF r
  <2>4. /\ store' \in [Calls -> StoreRecords] /\ store'[c] = r
        /\ \A e \in Calls : e # c => store'[e] = store[e]
    BY <2>1, <2>2, <2>3
  <2>5. CoreTypeOK'
    BY <1>1, <1>7, <2>4 DEF CoreTypeOK
  <2>6. Waiting'
    BY <1>1, <2>2, <2>4 DEF ReceiptInv, Waiting, Busy
  <2>7. Queued'
    BY <1>1, <1>2, <1>7, <2>2, <2>4 DEF ReceiptInv, Queued, Busy
  <2>8. Current'
    <3>1. d = Decide(store'[c].op, receipts'[key'[c]], mut'[c])
      BY <1>1, <2>2, <2>4 DEF d
    <3> QED
      BY <1>1, <1>7, <2>2, <2>4, <3>1 DEF ReceiptInv, Current
  <2>9. \A e \in Calls : e # c => ((Early(e)' <=> Early(e)) /\ (Late(e)' <=> Late(e)))
    BY <2>4 DEF Early, Late, Direct
  <2>10. (Late(c)' <=> Late(c)) /\ (call[c] # "reserve" => (Early(c)' <=> Early(c)))
    BY <1>1, <1>5, <1>7, <2>2, <2>4 DEF Early, Late, Direct, OpAt
  <2>11. Early(c)' /\ call[c] = "reserve" => receipts[key[c]].state = "none"
    BY <1>1, <1>5, <1>7, <2>2, <2>4 DEF Early, OpAt
  <2>12. ASSUME Early(c)', call[c] = "reserve", NEW e \in Calls, e # c, Claims(e)'
         PROVE  key[e] # key[c]
    <3>1. Claims(e)
      BY <2>9, <2>12 DEF Claims
    <3>2. CASE call[e] = "reserve" /\ store[e].phase = "writing"
      BY <1>2, <2>12, <3>2 DEF ReceiptInv, Queued, Busy
    <3>3. CASE ~ (call[e] = "reserve" /\ store[e].phase = "writing")
      BY <2>11, <2>12, <3>1, <3>3 DEF ReceiptInv, Exclusive
    <3> QED
      BY <3>2, <3>3
  <2>13. Exclusive'
    <3>1. \A e, g \in Calls : Claims(e)' /\ Claims(g)' /\ key[e] = key[g] => e = g
      BY <2>9, <2>10, <2>12 DEF ReceiptInv, Exclusive, Claims
    <3>2. \A e \in Calls : Claims(e)' /\ ~ (call[e] = "reserve" /\ store'[e].phase = "writing")
                              => receipts[key[e]].state # "none"
      BY <1>1, <2>2, <2>4, <2>9, <2>10 DEF ReceiptInv, Exclusive, Claims
    <3> QED
      BY <1>1, <3>1, <3>2 DEF Exclusive
  <2>14. Counted'
    BY <1>1, <2>9, <2>10, <2>11 DEF ReceiptInv, Counted
  <2> QED
    BY <1>1, <2>5, <2>6, <2>7, <2>8, <2>13, <2>14 DEF ReceiptInv
<1> QED
  BY <1>1, <1>4, <1>6, <1>7

\* The new receipt is in place.  It continues the one that was there, and the
\* call that wrote it holds the permission.
LEMMA WriteKeeps ==
    ASSUME ReceiptInv, NEW c \in Calls, StoreWrite(c), UNCHANGED <<site, callVars, attempts>>
    PROVE  /\ ReceiptInv'
           /\ key[c] \in Keys /\ mut[c] \in Mutations
           /\ \E s \in ReceiptStates :
                /\ receipts' = [receipts EXCEPT ![key[c]] = [state |-> s, mutation |-> mut[c]]]
                /\ \/ s = "reserved" /\ receipts[key[c]].state = "none"
                   \/ s = "executing" /\ receipts[key[c]].state = "reserved" /\ receipts[key[c]].mutation = mut[c]
                   \/ /\ s = "reconciliation_required"
                      /\ receipts[key[c]].state \in {"executing", "reconciliation_required"}
                      /\ receipts[key[c]].mutation = mut[c]
                   \/ /\ s = "completed" /\ call[c] = "markCompleted"
                      /\ receipts[key[c]].state \in {"executing", "reconciliation_required"}
                      /\ receipts[key[c]].mutation = mut[c]
<1> USE DEF callVars
<1> DEFINE d == Decide(store[c].op, receipts[key[c]], mut[c])
<1>1. /\ CoreTypeOK /\ Busy(c) /\ store[c].phase = "writing"
      /\ call[c] \in StoreCalls /\ store[c].op = OpAt(call[c]) /\ store[c].op \in StoreOps
      /\ store[c].key = key[c] /\ key[c] \in Keys /\ mut[c] \in Mutations
  BY DEF StoreWrite, Busy, ReceiptInv, Waiting, StoreCalls, OpAt, StoreOps
<1>2. Head(queues[key[c]]) = c
  BY <1>1 DEF ReceiptInv, Queued
<1>3. store[c].draft = d.draft /\ store[c].out = d.out /\ d.draft # NoReceipt
  BY <1>1 DEF ReceiptInv, Current
<1>4. receipts[key[c]] \in Receipts
  BY <1>1 DEF CoreTypeOK
<1>5. Decided(store[c].op, receipts[key[c]], mut[c], d)
  BY <1>1, <1>4, DecideCases
<1> HIDE DEF d
<1>6. PICK s \in ReceiptStates :
        /\ d.draft = [state |-> s, mutation |-> mut[c]]
        /\ \/ /\ call[c] \in {"reserve", "replay"} /\ d.out = "execute"
              /\ s = "reserved" /\ receipts[key[c]].state = "none"
           \/ /\ call[c] = "markExecuting" /\ d.out = "ok" /\ s = "executing"
              /\ receipts[key[c]].state = "reserved" /\ receipts[key[c]].mutation = mut[c]
           \/ /\ call[c] = "markReconciliationRequired" /\ s = "reconciliation_required"
              /\ receipts[key[c]].state \in {"executing", "reconciliation_required"}
              /\ receipts[key[c]].mutation = mut[c]
           \/ /\ call[c] = "markCompleted" /\ s = "completed"
              /\ receipts[key[c]].state \in {"executing", "reconciliation_required"}
              /\ receipts[key[c]].mutation = mut[c]
  BY <1>1, <1>3, <1>5 DEF Decided, OpAt, ReceiptStates, StoreCalls
<1>7. /\ receipts' = [receipts EXCEPT ![key[c]] = [state |-> s, mutation |-> mut[c]]]
      /\ Finish(c, d.out) /\ d.out \in Outcomes
  BY <1>1, <1>3, <1>5, <1>6 DEF StoreWrite, Decided
<1>8. Queued' /\ queues[key[c]] # <<>>
  BY <1>1, <1>2, <1>7, FinishQueued
<1>9. /\ store' \in [Calls -> StoreRecords] /\ queues' \in [Keys -> Seq(Calls)]
      /\ \A e \in Calls : e # c => store'[e] = store[e]
      /\ store'[c].phase = "returned" /\ store'[c].out = d.out /\ store'[c].op = store[c].op
      /\ store'[c].key = store[c].key /\ store'[c].mutation = store[c].mutation
  BY <1>1, <1>7, <1>8, FinishIs
<1>10. /\ receipts' \in [Keys -> Receipts] /\ receipts'[key[c]].state = s
       /\ \A k \in Keys : k # key[c] => receipts'[k] = receipts[k]
  BY <1>1, <1>7 DEF CoreTypeOK, Receipts
<1>11. CoreTypeOK'
  BY <1>1, <1>9, <1>10 DEF CoreTypeOK
<1>12. Waiting'
  BY <1>9 DEF ReceiptInv, Waiting, Busy, StoreCalls
<1>13. Current'
  <2> SUFFICES ASSUME NEW e \in Calls, store'[e].phase = "writing"
               PROVE  /\ e # c /\ store'[e] = store[e] /\ receipts'[key[e]] = receipts[key[e]]
    BY DEF ReceiptInv, Current
  <2>1. e # c /\ store'[e] = store[e]
    BY <1>9
  <2>2. key[e] \in Keys /\ Head(queues[key[e]]) = e
    BY <2>1 DEF ReceiptInv, Waiting, Queued, Busy, StoreCalls
  <2> QED
    BY <1>2, <1>10, <2>1, <2>2
<1>14. \A e \in Calls : (Early(e)' <=> Early(e)) /\ (Late(e)' <=> Late(e))
  BY <1>1, <1>3, <1>6, <1>9 DEF Early, Late, Direct
<1>15. s # "none"
  BY DEF ReceiptStates
<1>16. Exclusive'
  <2>1. \A e, g \in Calls : Claims(e)' /\ Claims(g)' /\ key[e] = key[g] => e = g
    BY <1>14 DEF ReceiptInv, Exclusive, Claims
  <2>2. ASSUME NEW e \in Calls, Claims(e)', ~ (call[e] = "reserve" /\ store'[e].phase = "writing")
        PROVE  receipts'[key[e]].state # "none"
    <3>1. key[e] \in Keys
      BY <2>2 DEF Claims, Early, Late, ReceiptInv, Waiting
    <3>2. CASE key[e] = key[c]
      BY <1>10, <1>15, <3>2
    <3>3. CASE key[e] # key[c]
      BY <1>9, <1>10, <1>14, <2>2, <3>1, <3>3 DEF ReceiptInv, Exclusive, Claims
    <3> QED
      BY <3>2, <3>3
  <2> QED
    BY <2>1, <2>2 DEF Exclusive
<1>17. Counted'
  <2>1. s = "completed" => attempts[key[c]] = 1
    <3>1. s = "completed" => Late(c)
      BY <1>6 DEF Late
    <3> QED
      BY <3>1 DEF ReceiptInv, Counted
  <2> QED
    BY <1>1, <1>10, <1>14, <1>15, <2>1 DEF ReceiptInv, Counted
<1>18. ReceiptInv'
  BY <1>8, <1>11, <1>12, <1>13, <1>16, <1>17 DEF ReceiptInv
<1> QED
  BY <1>1, <1>6, <1>7, <1>18

\* A disk that fails costs the call its permission, and nothing else.
LEMMA FailKeeps ==
    ASSUME ReceiptInv, NEW c \in Calls, StoreFail(c), UNCHANGED <<site, callVars, attempts>>
    PROVE  ReceiptInv' /\ UNCHANGED receipts
<1>1. Busy(c) /\ Finish(c, "error") /\ UNCHANGED receipts
  BY DEF StoreFail, Busy
<1>2. Head(queues[key[c]]) = c
  BY <1>1 DEF StoreFail, MayRun, ReceiptInv, Queued, Waiting, StoreCalls
<1>3. "error" \in Outcomes \ {"execute"}
  BY DEF Outcomes
<1> QED
  BY <1>1, <1>2, <1>3, AnswerKeeps

\* After a restart nobody has a permission: what was reserved stays reserved.
LEMMA CrashKeeps ==
    ASSUME ReceiptInv, Crash
    PROVE  ReceiptInv' /\ UNCHANGED <<receipts, attempts>>
<1>1. /\ queues' = [k \in Keys |-> <<>>] /\ store' = [c \in Calls |-> Idle]
      /\ call' = [c \in Calls |-> IF call[c] = "idle" THEN "idle" ELSE "done"]
      /\ result' = [c \in Calls |-> IF call[c] \in {"idle", "done"} THEN result[c] ELSE "lost"]
      /\ UNCHANGED <<receipts, mut, key, conf, attempts>>
  BY DEF Crash, ReceiptsCrash
<1>2. CoreTypeOK'
  <2>1. Idle \in StoreRecords
    BY DEF StoreRecords, Idle, Receipts
  <2>2. <<>> \in Seq(Calls)
    OBVIOUS
  <2> QED
    BY <1>1, <2>1, <2>2 DEF ReceiptInv, CoreTypeOK, CallStates, Results
<1>3. \A c \in Calls : /\ store'[c].phase = "idle" /\ call'[c] \in {"idle", "done"}
                       /\ call'[c] # "idle" => call[c] # "idle"
  BY <1>1 DEF Idle
<1>4. \A c \in Calls : ~ Early(c)' /\ ~ Late(c)'
  BY <1>3 DEF Early, Late
<1> QED
  BY <1>1, <1>2, <1>3, <1>4
  DEF ReceiptInv, Waiting, Queued, Current, Exclusive, Counted, Claims, Busy, StoreCalls

\* Every step keeps the invariant, and only a backend call and a write of the
\* store change what is on disk or what was tried.
LEMMA ReceiptNext ==
    ASSUME ReceiptInv, [Next]_vars
    PROVE  /\ ReceiptInv'
           /\ \/ UNCHANGED <<receipts, attempts>>
              \/ \E c \in Calls : Execute(c) /\ UNCHANGED <<receipts, key>>
              \/ \E c \in Calls : StoreWrite(c) /\ UNCHANGED <<site, callVars, attempts>>
<1> USE DEF receiptVars, callVars
<1>1. CASE UNCHANGED vars
  BY <1>1, QuietKeeps DEF vars
<1>2. ASSUME NEW c \in Calls, CallStep(c)
      PROVE  /\ ReceiptInv'
             /\ \/ UNCHANGED <<receipts, attempts>>
                \/ Execute(c) /\ UNCHANGED <<receipts, key>>
                \/ StoreWrite(c) /\ UNCHANGED <<site, callVars, attempts>>
  <2>1. call[c] = "backend" => ~ Busy(c)
    BY DEF ReceiptInv, Waiting, StoreCalls
  <2>2. CASE GotReceipt(c)
    <3>1. /\ call[c] # "idle" /\ ~ Busy(c) /\ Then(c, OpAt("replay")) /\ Goto(c, "replay")
          /\ UNCHANGED <<site, mut, key, conf, attempts>>
      BY <2>2 DEF GotReceipt, Returned, Busy, OpAt, Frame
    <3>2. "replay" \in StoreCalls
      BY DEF StoreCalls
    <3>3. ReceiptInv'
      BY <3>1, <3>2, ThenKeeps
    <3> QED
      BY <2>2, <3>3 DEF GotReceipt, Then, Enqueue
  <2>3. CASE AskForConfirmation(c)
    <3>1. /\ call[c] # "idle" /\ ~ Busy(c) /\ Done(c, "confirmation_required")
          /\ UNCHANGED <<receiptVars, site, mut, key, conf, attempts>>
      BY <2>3 DEF AskForConfirmation, Returned, Busy, Frame
    <3>2. "confirmation_required" \in Results
      BY DEF Results
    <3> QED
      BY <3>1, <3>2, DoneKeeps
  <2>4. CASE Reserve(c)
    <3>1. /\ call[c] # "idle" /\ ~ Busy(c) /\ Then(c, OpAt("reserve")) /\ Goto(c, "reserve")
          /\ UNCHANGED <<site, mut, key, conf, attempts>>
      BY <2>4 DEF Reserve, Returned, Busy, OpAt, Frame
    <3>2. "reserve" \in StoreCalls
      BY DEF StoreCalls
    <3>3. ReceiptInv'
      BY <3>1, <3>2, ThenKeeps
    <3> QED
      BY <2>4, <3>3 DEF Reserve, Then, Enqueue
  <2>5. CASE RefuseConfirmation(c) \/ StoreEnds(c) \/ Reconciled(c)
    <3>1. /\ call[c] # "idle" /\ ~ Busy(c) /\ Done(c, "error")
          /\ UNCHANGED <<receiptVars, site, mut, key, conf, attempts>>
      BY <2>5 DEF RefuseConfirmation, StoreEnds, Reconciled, Returned, Busy, Frame
    <3>2. "error" \in Results
      BY DEF Results
    <3> QED
      BY <3>1, <3>2, DoneKeeps
  <2>6. CASE Replay(c) \/ Complete(c)
    <3>1. /\ call[c] # "idle" /\ ~ Busy(c) /\ Done(c, "completed")
          /\ UNCHANGED <<receiptVars, site, mut, key, conf, attempts>>
      BY <2>6 DEF Replay, Complete, Returned, Busy, Frame
    <3>2. "completed" \in Results
      BY DEF Results
    <3> QED
      BY <3>1, <3>2, DoneKeeps
  <2>7. CASE Reserved(c)
    <3>1. /\ call[c] # "idle" /\ ~ Busy(c) /\ Then(c, OpAt("markExecuting")) /\ Goto(c, "markExecuting")
          /\ Early(c) /\ UNCHANGED <<site, mut, key, conf, attempts>>
      BY <2>7 DEF Reserved, Returned, Busy, OpAt, Frame, Early
    <3>2. "markExecuting" \in StoreCalls
      BY DEF StoreCalls
    <3>3. ReceiptInv'
      BY <3>1, <3>2, ThenKeeps
    <3> QED
      BY <2>7, <3>3 DEF Reserved, Then, Enqueue
  <2>8. CASE Execute(c)
    BY <2>8, ExecuteKeeps DEF Execute, Frame
  <2>9. CASE BackendEnds(c)
    <3>1. PICK pc \in {"markCompleted", "markReconciliationRequired"} : Then(c, pc) /\ Goto(c, pc)
      BY <2>9 DEF BackendEnds
    <3>2. /\ call[c] # "idle" /\ ~ Busy(c) /\ OpAt(pc) = pc /\ Late(c)
          /\ UNCHANGED <<site, mut, key, conf, attempts>>
      BY <2>1, <2>9 DEF BackendEnds, OpAt, Frame, Late
    <3>3. pc \in StoreCalls /\ pc # "markExecuting"
      BY DEF StoreCalls
    <3>4. ReceiptInv'
      BY <3>1, <3>2, <3>3, ThenKeeps
    <3> QED
      BY <3>1, <3>2, <3>4 DEF Then, Enqueue
  <2>10. CASE DirectEnds(c)
    <3>1. PICK r \in {"completed", "error"} : Done(c, r)
      BY <2>10 DEF DirectEnds
    <3>2. /\ call[c] # "idle" /\ ~ Busy(c) /\ r \in Results
          /\ UNCHANGED <<receiptVars, site, mut, key, conf, attempts>>
      BY <2>1, <2>10 DEF DirectEnds, Frame, Results
    <3> QED
      BY <3>1, <3>2, DoneKeeps
  <2>11. CASE CompleteFails(c)
    <3>1. /\ call[c] # "idle" /\ ~ Busy(c) /\ Late(c)
          /\ Then(c, OpAt("markReconciliationRequired")) /\ Goto(c, "markReconciliationRequired")
          /\ UNCHANGED <<site, mut, key, conf, attempts>>
      BY <2>11 DEF CompleteFails, Returned, Busy, OpAt, Frame, Late
    <3>2. "markReconciliationRequired" \in StoreCalls
      BY DEF StoreCalls
    <3>3. ReceiptInv'
      BY <3>1, <3>2, ThenKeeps
    <3> QED
      BY <2>11, <3>3 DEF CompleteFails, Then, Enqueue
  <2>12. CASE StoreStep(c)
    BY <2>12, ReadKeeps, WriteKeeps DEF StoreStep, Rest
  <2>13. CASE HubStep(c) \/ GitStep(c) \/ GitRefuses(c)
    BY <2>13, QuietKeeps DEF HubStep, GitStep, GitRefuses, Rest
  <2> QED
    BY <1>2, <2>2, <2>3, <2>4, <2>5, <2>6, <2>7, <2>8, <2>9, <2>10, <2>11, <2>12, <2>13 DEF CallStep
<1>3. ASSUME NEW c \in Calls, StoreFault(c)
      PROVE  ReceiptInv' /\ UNCHANGED <<receipts, attempts>>
  BY <1>3, FailKeeps DEF StoreFault, Rest
<1>4. ASSUME NEW c \in Calls, GitFault(c) \/ Server(c)
      PROVE  ReceiptInv' /\ UNCHANGED <<receipts, attempts>>
  BY <1>4, QuietKeeps DEF GitFault, Server, Rest
<1>5. ASSUME NEW c \in Calls, NEW m \in Mutations, NEW k \in ClientKeys \cup {None},
             NEW f \in ConfirmationIds \cup {None}, Call(c, m, k, f)
      PROVE  ReceiptInv' /\ UNCHANGED <<receipts, attempts>>
  <2>1. ReceiptInv'
    BY <1>5, CallKeeps
  <2>2. UNCHANGED <<receipts, attempts>>
    BY <1>5 DEF Call, Enqueue
  <2> QED
    BY <2>1, <2>2
<1>6. CASE Others
  BY <1>6, QuietKeeps DEF Others
<1>7. CASE Crash
  BY <1>7, CrashKeeps
<1> QED
  BY <1>1, <1>2, <1>3, <1>4, <1>5, <1>6, <1>7 DEF Next

\* The invariant of the receipts always holds.
LEMMA ReceiptAlways == Spec => []ReceiptInv
<1>1. ReceiptInv /\ [Next]_vars => ReceiptInv'
  BY ReceiptNext
<1> QED
  BY <1>1, ReceiptInit, PTL DEF Spec

-----------------------------------------------------------------------------
(***************************************************************************)
(* One attempt per key                                                     *)
(***************************************************************************)

\* A step that changes neither receipts nor attempts is none of MutationOnce.
LEMMA PhaseStays ==
    ASSUME NEW k \in Keys, receipts'[k] = receipts[k], attempts'[k] = attempts[k]
    PROVE  Phase(k)' = Phase(k)
BY DEF Phase

\* Reserving a key claims it, the backend call tries it, the completed receipt
\* settles it; every other step of the agent, the store, git, GitHub and a
\* crash leaves what MutationOnce sees as it is.
LEMMA OnceStep ==
    ASSUME ReceiptInv, [Next]_vars
    PROVE  [Once!Next]_<<[k \in Keys |-> Phase(k)], [k \in Keys |-> receipts[k].mutation]>>
<1> USE DEF callVars
<1> DEFINE phase == [k \in Keys |-> Phase(k)]
           owner == [k \in Keys |-> receipts[k].mutation]
<1>1. ASSUME UNCHANGED <<receipts, attempts>>
      PROVE  UNCHANGED <<phase, owner>>
  <2>1. phase' = phase /\ owner' = owner
    BY <1>1, PhaseStays
  <2> QED
    BY <2>1
<1>2. ASSUME NEW c \in Calls, Execute(c), UNCHANGED <<receipts, key>>
      PROVE  \E k \in Keys : Once!Try(k)
  <2>1. /\ attempts[key[c]] = 0 /\ receipts[key[c]].state \notin {"none", "completed"}
        /\ key[c] \in Keys /\ attempts \in [Keys -> Nat]
        /\ attempts' = [attempts EXCEPT ![key[c]] = @ + 1]
    BY <1>2, ExecuteKeeps DEF Execute, ReceiptInv, Waiting, CoreTypeOK
  <2>2. Phase(key[c]) = "claimed" /\ Phase(key[c])' = "tried"
    BY <1>2, <2>1 DEF Phase
  <2>3. \A k \in Keys : k # key[c] => Phase(k)' = Phase(k)
    BY <1>2, <2>1, PhaseStays
  <2>4. phase' = [phase EXCEPT ![key[c]] = "tried"] /\ owner' = owner
    BY <1>2, <2>1, <2>2, <2>3
  <2>5. PICK k \in Keys : k = key[c]
    BY <2>1
  <2>6. Once!Try(k)
    BY <2>2, <2>4, <2>5 DEF Once!Try
  <2> QED
    BY <2>6
<1>3. ASSUME NEW c \in Calls, StoreWrite(c), UNCHANGED <<site, callVars, attempts>>
      PROVE  \/ UNCHANGED <<phase, owner>>
             \/ \E k \in Keys : Once!Claim(k) \/ Once!Settle(k)
  <2>1. /\ key[c] \in Keys /\ mut[c] \in Mutations
        /\ receipts \in [Keys -> Receipts] /\ attempts \in [Keys -> Nat]
    BY <1>3, WriteKeeps DEF ReceiptInv, CoreTypeOK
  <2>2. PICK s \in ReceiptStates :
          /\ receipts' = [receipts EXCEPT ![key[c]] = [state |-> s, mutation |-> mut[c]]]
          /\ \/ s = "reserved" /\ receipts[key[c]].state = "none"
             \/ s = "executing" /\ receipts[key[c]].state = "reserved" /\ receipts[key[c]].mutation = mut[c]
             \/ /\ s = "reconciliation_required"
                /\ receipts[key[c]].state \in {"executing", "reconciliation_required"}
                /\ receipts[key[c]].mutation = mut[c]
             \/ /\ s = "completed" /\ call[c] = "markCompleted"
                /\ receipts[key[c]].state \in {"executing", "reconciliation_required"}
                /\ receipts[key[c]].mutation = mut[c]
    BY <1>3, WriteKeeps
  <2>3. receipts'[key[c]].state = s /\ receipts'[key[c]].mutation = mut[c]
    BY <2>1, <2>2
  <2>4. \A k \in Keys : k # key[c] => receipts'[k] = receipts[k] /\ Phase(k)' = Phase(k)
    BY <1>3, <2>1, <2>2, PhaseStays
  <2>5. attempts[key[c]] \in {0, 1}
    BY <2>1 DEF ReceiptInv, Counted
  <2>6. CASE s = "reserved"
    <3>1. attempts[key[c]] = 0 /\ receipts[key[c]].state = "none"
      BY <2>1, <2>2, <2>6 DEF ReceiptInv, Counted
    <3>2. Phase(key[c]) = "free" /\ Phase(key[c])' = "claimed"
      BY <1>3, <2>3, <2>6, <3>1 DEF Phase
    <3>3. phase' = [phase EXCEPT ![key[c]] = "claimed"] /\ owner' = [owner EXCEPT ![key[c]] = mut[c]]
      BY <1>3, <2>1, <2>3, <2>4, <3>2
    <3>4. PICK k \in Keys : k = key[c]
      BY <2>1
    <3>5. Once!Claim(k)
      BY <2>1, <3>2, <3>3, <3>4 DEF Once!Claim
    <3> QED
      BY <3>5
  <2>7. CASE s = "completed"
    <3>1. attempts[key[c]] = 1
      BY <2>2, <2>7 DEF ReceiptInv, Counted, Late
    <3>2. Phase(key[c]) = "tried" /\ Phase(key[c])' = "settled"
      BY <1>3, <2>2, <2>3, <2>7, <3>1 DEF Phase
    <3>3. phase' = [phase EXCEPT ![key[c]] = "settled"] /\ owner' = owner
      BY <1>3, <2>1, <2>2, <2>3, <2>4, <2>7, <3>2
    <3>4. PICK k \in Keys : k = key[c]
      BY <2>1
    <3>5. Once!Settle(k)
      BY <3>2, <3>3, <3>4 DEF Once!Settle
    <3> QED
      BY <3>5
  <2>8. CASE s \in {"executing", "reconciliation_required"}
    <3>1. Phase(key[c])' = Phase(key[c])
      BY <1>3, <2>2, <2>3, <2>5, <2>8 DEF Phase
    <3>2. phase' = phase /\ owner' = owner
      BY <1>3, <2>1, <2>2, <2>3, <2>4, <2>8, <3>1
    <3> QED
      BY <3>2
  <2> QED
    BY <2>6, <2>7, <2>8 DEF ReceiptStates
<1>4. \/ UNCHANGED <<receipts, attempts>>
      \/ \E c \in Calls : Execute(c) /\ UNCHANGED <<receipts, key>>
      \/ \E c \in Calls : StoreWrite(c) /\ UNCHANGED <<site, callVars, attempts>>
  BY ReceiptNext
<1>5. Once!Next \/ UNCHANGED <<phase, owner>>
  BY <1>1, <1>2, <1>3, <1>4 DEF Once!Next
<1> QED
  BY <1>5

\* executeSourceControlMutation implements MutationOnce: whatever calls share
\* a key, whenever the agent stops and whatever the disk refuses, the change of
\* a key is claimed for one mutation, tried at most once after that, and called
\* completed only when it was tried.
THEOREM ImplementsMutationOnce == Spec => TriedOnce
<1>1. Init => Once!Init
  <2> SUFFICES ASSUME Init PROVE Once!Init
    OBVIOUS
  <2>1. receipts = [k \in Keys |-> NoReceipt] /\ attempts = [k \in Keys |-> 0]
    BY DEF Init, ReceiptsInit
  <2>2. \A k \in Keys : Phase(k) = "free" /\ receipts[k].mutation = None
    BY <2>1 DEF Phase, NoReceipt
  <2> QED
    BY <2>2 DEF Once!Init
<1>2. ReceiptInv /\ [Next]_vars
        => [Once!Next]_<<[k \in Keys |-> Phase(k)], [k \in Keys |-> receipts[k].mutation]>>
  BY OnceStep
<1> QED
  BY <1>1, <1>2, ReceiptAlways, PTL DEF Spec, TriedOnce, Once!Spec

-----------------------------------------------------------------------------
(***************************************************************************)
(* One change per confirmation                                             *)
(***************************************************************************)

\* What has to be confirmed depends on the mutation and on the site alone.
LEMMA MustConfirmStays ==
    ASSUME NEW c, UNCHANGED site, mut'[c] = mut[c]
    PROVE  MustConfirm(c)' <=> MustConfirm(c)
BY DEF MustConfirm, Direct, Confirmable, EntryOf, Entry, gitCreateBranch, gitStagePaths, gitUnstagePaths,
       gitCommit, gitMergeBranch, gitPushBranch, githubCreateRepository, githubCreatePullRequest,
       githubMergePullRequest, sshCreateRepository, sshCreatePullRequest, sshMergePullRequest

\* A step that issues and spends nothing, and takes no call past the question.
LEMMA UnspentKeeps ==
    ASSUME ConfirmationInv, UNCHANGED <<site, confirmationVars>>,
           \A c \in Calls : call'[c] \in {"reserve", "markExecuting", "backend"} =>
               \/ /\ call[c] \in {"reserve", "markExecuting", "backend"}
                  /\ mut'[c] = mut[c] /\ conf'[c] = conf[c]
               \/ ~ MustConfirm(c)'
    PROVE  ConfirmationInv'
<1>1. \A c \in Calls : mut'[c] = mut[c] => (MustConfirm(c)' <=> MustConfirm(c))
  BY MustConfirmStays
<1>2. UNCHANGED <<pending, issued, spent>>
  BY DEF confirmationVars
<1>3. \A c \in Calls : call'[c] \in {"reserve", "markExecuting", "backend"} /\ MustConfirm(c)'
            => conf'[c] # None /\ c \in spent'[conf'[c]]
  BY <1>1, <1>2 DEF ConfirmationInv
<1> QED
  BY <1>2, <1>3 DEF ConfirmationInv

\* Every step keeps the invariant of the confirmations.
LEMMA ConfirmationNext ==
    ASSUME ReceiptInv, ConfirmationInv, [Next]_vars
    PROVE  ConfirmationInv'
<1> USE DEF confirmationVars
<1>1. /\ call \in [Calls -> CallStates] /\ mut \in [Calls -> Mutations \cup {None}]
      /\ conf \in [Calls -> ConfirmationIds \cup {None}]
  BY DEF ReceiptInv, CoreTypeOK
<1>2. \A c \in Calls : call[c] # "idle" => mut[c] \in Mutations
  BY DEF ReceiptInv, Waiting
<1>3. CASE UNCHANGED vars
  BY <1>3, UnspentKeeps DEF vars, callVars
<1>4. ASSUME NEW c \in Calls, CallStep(c)
      PROVE  ConfirmationInv'
  <2>1. CASE AskForConfirmation(c)
    <3> DEFINE g == CHOOSE g \in ConfirmationIds \ issued : TRUE
    <3>1. \E g1 \in ConfirmationIds : g1 \notin issued
      BY <2>1 DEF AskForConfirmation, ConfirmationInv
    <3>2. g \in ConfirmationIds \ issued
      BY <3>1
    <3>3. /\ pending' = [pending EXCEPT ![g] = mut[c]] /\ issued' = issued \cup {g}
          /\ UNCHANGED <<spent, mut, conf, site>> /\ call' = [call EXCEPT ![c] = "done"]
      BY <2>1 DEF AskForConfirmation, Done, Frame
    <3>4. mut[c] \in Mutations
      BY <1>2, <2>1 DEF AskForConfirmation
    <3> HIDE DEF g
    <3>5. \A d \in Calls : call'[d] \in {"reserve", "markExecuting", "backend"} /\ MustConfirm(d)'
              => conf'[d] # None /\ d \in spent'[conf'[d]]
      BY <1>1, <3>3, MustConfirmStays DEF ConfirmationInv
    <3>6. /\ pending' \in [ConfirmationIds -> Mutations \cup {None}]
          /\ issued' \subseteq ConfirmationIds
          /\ spent' \in [ConfirmationIds -> SUBSET Calls]
      BY <3>2, <3>3, <3>4 DEF ConfirmationInv
    <3>7. \A f \in ConfirmationIds :
            /\ f \notin issued' => pending'[f] = None /\ spent'[f] = {}
            /\ pending'[f] # None => spent'[f] = {}
            /\ \A d, e \in spent'[f] : d = e
      BY <3>2, <3>3 DEF ConfirmationInv
    <3> QED
      BY <3>5, <3>6, <3>7 DEF ConfirmationInv
  <2>2. CASE Reserve(c)
    <3>1. UNCHANGED <<site, mut, conf, issued>> /\ call' = [call EXCEPT ![c] = "reserve"] /\ call[c] = "get"
      BY <2>2 DEF Reserve, Frame, Goto
    <3>2. CASE ~ Confirmable(mut[c])
      <4>1. UNCHANGED <<pending, spent>>
        BY <2>2, <3>2 DEF Reserve
      <4>2. ~ MustConfirm(c)'
        BY <3>1, <3>2, MustConfirmStays DEF MustConfirm
      <4> QED
        BY <1>1, <3>1, <4>1, <4>2, UnspentKeeps
    <3>3. CASE Confirmable(mut[c])
      <4> DEFINE g == conf[c]
      <4>1. /\ g # None /\ pending[g] = mut[c]
            /\ pending' = [pending EXCEPT ![g] = None]
            /\ spent' = [spent EXCEPT ![g] = @ \cup {c}]
        BY <2>2, <3>3 DEF Reserve, Consumed
      <4>2. g \in ConfirmationIds
        BY <1>1, <4>1
      <4>3. pending[g] # None
        BY <1>2, <3>1, <4>1, NoneAssumption
      <4>4. spent[g] = {} /\ g \in issued
        BY <4>2, <4>3 DEF ConfirmationInv
      <4>5. /\ pending' \in [ConfirmationIds -> Mutations \cup {None}]
            /\ spent' \in [ConfirmationIds -> SUBSET Calls]
        BY <4>1, <4>2 DEF ConfirmationInv
      <4>6. \A f \in ConfirmationIds :
              /\ f \notin issued' => pending'[f] = None /\ spent'[f] = {}
              /\ pending'[f] # None => spent'[f] = {}
              /\ \A d, e \in spent'[f] : d = e
        BY <3>1, <4>1, <4>2, <4>4 DEF ConfirmationInv
      <4>7. spent'[conf[c]] = {c} /\ \A d \in Calls, f \in ConfirmationIds : d \in spent[f] => d \in spent'[f]
        BY <4>1, <4>2, <4>4 DEF ConfirmationInv
      <4>8. \A d \in Calls : call'[d] \in {"reserve", "markExecuting", "backend"} /\ MustConfirm(d)'
              => conf'[d] # None /\ d \in spent'[conf'[d]]
        <5>1. \A d \in Calls : d # c /\ call'[d] \in {"reserve", "markExecuting", "backend"} /\ MustConfirm(d)'
              => conf[d] # None /\ d \in spent[conf[d]]
          BY <1>1, <3>1, MustConfirmStays DEF ConfirmationInv
        <5> QED
          BY <1>1, <3>1, <4>1, <4>7, <5>1
      <4> QED
        BY <3>1, <4>5, <4>6, <4>8 DEF ConfirmationInv
    <3> QED
      BY <3>2, <3>3
  <2>3. CASE Reserved(c) \/ Execute(c)
    <3>1. /\ UNCHANGED <<site, mut, conf, confirmationVars>>
          /\ call[c] \in {"reserve", "markExecuting"}
          /\ \E pc \in {"markExecuting", "backend"} : call' = [call EXCEPT ![c] = pc]
      BY <2>3 DEF Reserved, Execute, Frame, Goto
    <3> QED
      BY <1>1, <3>1, UnspentKeeps
  <2>4. ASSUME UNCHANGED <<site, mut, conf, confirmationVars>>,
               \E pc \in {"replay", "markCompleted", "markReconciliationRequired", "done"} :
                   call' = [call EXCEPT ![c] = pc]
        PROVE  ConfirmationInv'
    BY <1>1, <2>4, UnspentKeeps
  <2>5. CASE GotReceipt(c)
    BY <2>4, <2>5 DEF GotReceipt, Frame, Goto
  <2>6. CASE RefuseConfirmation(c) \/ StoreEnds(c) \/ Replay(c)
    BY <2>4, <2>6 DEF RefuseConfirmation, StoreEnds, Replay, Frame, Done
  <2>7. CASE BackendEnds(c) \/ CompleteFails(c)
    BY <2>4, <2>7 DEF BackendEnds, CompleteFails, Frame, Goto
  <2>8. CASE DirectEnds(c) \/ Complete(c) \/ Reconciled(c)
    BY <2>4, <2>8 DEF DirectEnds, Complete, Reconciled, Frame, Done
  <2>9. CASE StoreStep(c) \/ HubStep(c) \/ GitStep(c) \/ GitRefuses(c)
    BY <2>9, UnspentKeeps DEF StoreStep, HubStep, GitStep, GitRefuses, Rest, callVars
  <2> QED
    BY <1>4, <2>1, <2>2, <2>3, <2>5, <2>6, <2>7, <2>8, <2>9 DEF CallStep
<1>5. ASSUME NEW c \in Calls, StoreFault(c) \/ GitFault(c) \/ Server(c)
      PROVE  ConfirmationInv'
  BY <1>5, UnspentKeeps DEF StoreFault, GitFault, Server, Rest, callVars
<1>6. ASSUME NEW c \in Calls, NEW m \in Mutations, NEW k \in ClientKeys \cup {None},
             NEW f \in ConfirmationIds \cup {None}, Call(c, m, k, f)
      PROVE  ConfirmationInv'
  <2>1. /\ UNCHANGED <<site, confirmationVars>>
        /\ mut' = [mut EXCEPT ![c] = m] /\ conf' = [conf EXCEPT ![c] = f]
        /\ \/ \E pc \in {"done", "get"} : call' = [call EXCEPT ![c] = pc]
           \/ Direct(m) /\ call' = [call EXCEPT ![c] = "backend"]
    BY <1>6 DEF Call, Done, Goto
  <2>2. call'[c] = "backend" => ~ MustConfirm(c)'
    BY <1>1, <2>1 DEF MustConfirm, Direct
  <2> QED
    BY <1>1, <2>1, <2>2, UnspentKeeps
<1>7. CASE Others
  <2>1. CASE UNCHANGED confirmationVars
    BY <1>7, <2>1, UnspentKeeps DEF Others, callVars
  <2>2. CASE /\ \E f \in issued : pending' = [pending EXCEPT ![f] = None]
             /\ UNCHANGED <<issued, spent>>
    <3>1. \A d \in Calls : call'[d] \in {"reserve", "markExecuting", "backend"} /\ MustConfirm(d)'
              => conf'[d] # None /\ d \in spent'[conf'[d]]
      BY <1>7, <2>2, MustConfirmStays DEF ConfirmationInv, Others, callVars
    <3> QED
      BY <2>2, <3>1 DEF ConfirmationInv
  <2> QED
    BY <1>7, <2>1, <2>2 DEF Others
<1>8. CASE Crash
  <2>1. \A d \in Calls : call'[d] \in {"idle", "done"}
    BY <1>8 DEF Crash
  <2>2. UNCHANGED <<issued, spent>> /\ pending' = [f \in ConfirmationIds |-> None]
    BY <1>8 DEF Crash
  <2> QED
    BY <2>1, <2>2 DEF ConfirmationInv
<1> QED
  BY <1>3, <1>4, <1>5, <1>6, <1>7, <1>8 DEF Next

\* A confirmation is worth one change: TypedConfirmationRegistry hands it to
\* one call, of the mutation it was created for, and executeSourceControlMutation
\* starts nothing that must be confirmed without having spent one.
THEOREM ConfirmationSpentOnce == Spec => []OneChangePerConfirmation
<1>1. Init => ConfirmationInv
  BY DEF Init, ConfirmationInv
<1>2. ReceiptInv /\ ConfirmationInv /\ [Next]_vars => ConfirmationInv'
  BY ConfirmationNext
<1>3. ConfirmationInv => OneChangePerConfirmation
  <2> SUFFICES ASSUME ConfirmationInv PROVE OneChangePerConfirmation
    OBVIOUS
  <2>1. ASSUME NEW f \in ConfirmationIds
        PROVE  Cardinality(spent[f]) <= 1
    <3>1. CASE spent[f] = {}
      BY <3>1, FS_EmptySet
    <3>2. CASE spent[f] # {}
      <4>1. PICK c \in spent[f] : spent[f] = {c}
        BY <3>2 DEF ConfirmationInv
      <4>2. Cardinality({c}) = 1
        BY FS_Singleton, Zenon
      <4> QED
        BY <4>1, <4>2
    <3> QED
      BY <3>1, <3>2
  <2> QED
    BY <2>1 DEF ConfirmationInv, OneChangePerConfirmation, MustConfirm
<1> QED
  BY <1>1, <1>2, <1>3, ReceiptAlways, PTL DEF Spec

=============================================================================
