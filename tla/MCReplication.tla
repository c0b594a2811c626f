--------------------------- MODULE MCReplication ---------------------------
(* Instances of Replication for TLC. *)
EXTENDS Replication

Column(m) == [prefix |-> "root", kind |-> "daily", machine |-> m, rw |-> FALSE, source |-> "/"]
ThreeNames == 1 .. 3
TwoNames   == 1 .. 2
FourNames  == 1 .. 4

(* One machine, one backup disk. *)
OneMachine == {"m1"}
OneRecord  == [n \in Names |-> Column("m1")]
BothKinds  == {"daily", "weekly"}
OneHost    == [p \in Procs |-> "m1"]
OnePlace   == [m \in Machines |-> [t \in Targets |-> t]]

(* Two machines: the same server for both, or a disk each at one path.  The *)
(* second has one snapshot, the first has two daily ones and a weekly one.  *)
TwoMachines == {"m1", "m2"}
TwoRecord   == [n \in Names |-> Column(IF n = 2 THEN "m2" ELSE "m1")]
TwoHost     == [p \in Procs |-> p]
KindRecord  == [n \in Names |-> [TwoRecord[n] EXCEPT !.kind = IF n = 3 THEN "weekly" ELSE "daily"]]
OwnDisk     == [m \in Machines |-> [t \in Targets |-> m]]

SendOnly    == [p \in Procs |-> {"send"}]
SendOrDel   == [p \in Procs |-> IF p = "m1" THEN {"send", "del"} ELSE {"send"}]
RootPrefix  == [p \in Procs |-> "root"]
KeepOne     == [t \in Targets |-> 1]
KeepAll     == [t \in Targets |-> 0]

OnlyPrefix == {"root"}
OnlyKind   == {"daily"}
OnlySource == {"/"}
OnlyLike   == {<<"root", "root">>}
=============================================================================
