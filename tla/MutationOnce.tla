---------------------------- MODULE MutationOnce ----------------------------
(***************************************************************************)
(* What the receipts promise, abstractly: the change that belongs to a key *)
(* is claimed for one mutation, tried at most once and only after it was   *)
(* claimed, and settled at most once and only after it was tried.          *)
(***************************************************************************)
CONSTANTS Keys, Mutations, None

VARIABLES phase, owner

Init ==
    /\ phase = [k \in Keys |-> "free"]
    /\ owner = [k \in Keys |-> None]

Claim(k) ==
    /\ phase[k] = "free"
    /\ phase' = [phase EXCEPT ![k] = "claimed"]
    /\ \E m \in Mutations : owner' = [owner EXCEPT ![k] = m]

Try(k) ==
    /\ phase[k] = "claimed"
    /\ phase' = [phase EXCEPT ![k] = "tried"]
    /\ UNCHANGED owner

Settle(k) ==
    /\ phase[k] = "tried"
    /\ phase' = [phase EXCEPT ![k] = "settled"]
    /\ UNCHANGED owner

Next == \E k \in Keys : Claim(k) \/ Try(k) \/ Settle(k)

Spec == Init /\ [][Next]_<<phase, owner>>
=============================================================================
