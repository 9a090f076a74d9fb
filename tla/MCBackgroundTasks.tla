--------------------------- MODULE MCBackgroundTasks ---------------------------
(***************************************************************************)
(* Instances of BackgroundTasks for TLC: every start call asks for the     *)
(* same command of one owner.                                              *)
(***************************************************************************)
EXTENDS BackgroundTasks

MCCommandOf == [t \in Tasks |-> 0]
MCOwnerOf   == [t \in Tasks |-> 0]
=============================================================================
