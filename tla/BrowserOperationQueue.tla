----------------------- MODULE BrowserOperationQueue -----------------------
(***************************************************************************)
(* The queue every operation passes: operations with one key run one after *)
(* the other in the order of their arrival, and at most MaxConcurrency     *)
(* operations run at once.                                                 *)
(*                                                                         *)
(* The promise chain of a key is the line of the operations whose turn is  *)
(* not over.  One that gives up leaves the line, but those behind it still *)
(* wait for those ahead of it.                                             *)
(***************************************************************************)
EXTENDS BrowserCatalog, Naturals, SequencesExt

CONSTANTS Keys, MaxConcurrency

ASSUME ConcurrencyAssumption == MaxConcurrency \in Nat \ {0}

VARIABLES
    line,    \* key -> the requests whose turn is not over (tails)
    place,   \* request -> where it stands
    waiters, \* the requests that wait for a slot (slotWaiters)
    active   \* the number of slots taken

queueVars == <<line, place, waiters, active>>

Places == {"out", "turn", "slot", "woken", "in"}

QueueTypeOK ==
    /\ line \in [Keys -> Seq(Requests)]
    /\ place \in [Requests -> Places]
    /\ waiters \in Seq(Requests)
    /\ active \in Nat

QueueInit ==
    /\ line = [k \in Keys |-> <<>>]
    /\ place = [r \in Requests |-> "out"]
    /\ waiters = <<>>
    /\ active = 0

\* run: a request joins the line of its key.
Join(r, k) ==
    /\ line' = [line EXCEPT ![k] = Append(@, r)]
    /\ place' = [place EXCEPT ![r] = "turn"]
    /\ UNCHANGED <<waiters, active>>

\* acquireSlot: one pass of its loop.
TakeSlot(r) ==
    IF active < MaxConcurrency
    THEN /\ active' = active + 1
         /\ place' = [place EXCEPT ![r] = "in"]
         /\ UNCHANGED <<line, waiters>>
    ELSE /\ waiters' = Append(waiters, r)
         /\ place' = [place EXCEPT ![r] = "slot"]
         /\ UNCHANGED <<line, active>>

\* Mutant: the turn comes with the arrival.
TurnForAnyone(r, k) ==
    /\ place[r] = "turn"
    /\ TakeSlot(r)

\* waitForTurn: the operations ahead are over.
TakeTurn(r, k) ==
    /\ place[r] = "turn"
    /\ Head(line[k]) = r
    /\ TakeSlot(r)

\* A woken request looks again: a newcomer may have taken the slot.
Resume(r) ==
    /\ place[r] = "woken"
    /\ TakeSlot(r)

\* An aborted request that waits gives up.  One that is woken already does not hear of it.
GiveUp(r, k) ==
    /\ line' = [line EXCEPT ![k] = RemoveFirst(@, r)]
    /\ place' = [place EXCEPT ![r] = "out"]
    /\ waiters' = RemoveFirst(waiters, r)
    /\ UNCHANGED active

\* Mutant: the slot is given back and nobody is told.
ReleaseSilently(r, k) ==
    /\ active' = active - 1
    /\ waiters' = waiters
    /\ place' = [place EXCEPT ![r] = "out"]
    /\ line' = [line EXCEPT ![k] = RemoveFirst(@, r)]

\* The end of an operation: its slot goes back, the first waiter is woken, its turn is over.
Release(r, k) ==
    /\ active' = active - 1
    /\ waiters' = IF waiters = <<>> THEN <<>> ELSE Tail(waiters)
    /\ place' = [q \in Requests |->
                    IF q = r THEN "out"
                    ELSE IF waiters # <<>> /\ q = Head(waiters) THEN "woken" ELSE place[q]]
    /\ line' = [line EXCEPT ![k] = RemoveFirst(@, r)]
=============================================================================
