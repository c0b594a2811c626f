---------------------------- MODULE MCSnapshots ----------------------------
(* Instances of Snapshots for TLC. *)
EXTENDS Snapshots

Daily(m) == [prefix |-> "root", kind |-> "daily", machine |-> m, rw |-> FALSE]
Column(m) == [prefix |-> "root", kind |-> "daily", machine |-> m, rw |-> FALSE, source |-> "/"]

(* One machine: a unit that creates and then cleans, and a person. *)
OneMachine == {"m1"}
ThreeNames == 1 .. 3
OneRecord  == [n \in ThreeNames |-> Column("m1")]
OneSel     == [p \in Procs |-> Daily("m1")]
UnitAndHand == [p \in Procs |-> IF p = "unit" THEN {"create", "clean"} ELSE {"del", "clean"}]

(* Two machines that share the database. *)
TwoMachines == {"m1", "m2"}
Owner(n)    == IF n = 2 THEN "m2" ELSE "m1"
TwoRecord   == [n \in ThreeNames |-> Column(Owner(n))]
TwoSel      == [p \in Procs |-> Daily(IF p = "m1" THEN "m1" ELSE "m2")]
AllOps      == [p \in Procs |-> {"create", "del", "clean"}]

OnlyPrefix == {"root"}
OnlyKind   == {"daily"}
OnlySource == {"/"}
OnlyLike   == {<<"root", "root">>}
=============================================================================
