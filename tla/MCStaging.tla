----------------------------- MODULE MCStaging -----------------------------
(* Instances of Staging for TLC. *)
EXTENDS Staging

TwoNames   == 1 .. 2
OneName    == 1 .. 1
TwoPaths   == 1 .. 2
ThreePaths == 1 .. 3
=============================================================================
