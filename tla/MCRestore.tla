----------------------------- MODULE MCRestore -----------------------------
(* Instances of Restore for TLC. *)
EXTENDS Restore

(* One snapshot wanted back at one place, by two people. *)
OneName == 1 .. 1
OnePlace == {"home"}
SameWant == [p \in Procs |-> [name |-> 1, to |-> "home"]]
=============================================================================
