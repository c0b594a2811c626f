----------------------------- MODULE Lifecycle -----------------------------
(***************************************************************************)
(* What --create, --del and --clean promise about one snapshot, whatever   *)
(* fails and however invocations interleave.  A snapshot is                *)
(*   "new"        not taken yet                                            *)
(*   "bare"       being taken: its row is not written yet                  *)
(*   "tracked"    on disk, with a row                                      *)
(*   "hollow"     a row whose subvolume is gone                            *)
(*   "forgotten"  neither a row nor a subvolume                            *)
(*   "lost"       a subvolume nobody knows about                           *)
(* A row is never dropped while its snapshot is there: the only ways to be *)
(* lost lead there from "bare".                                            *)
(***************************************************************************)
CONSTANT Names
VARIABLE life

Lives == {"new", "bare", "tracked", "hollow", "forgotten", "lost"}

Init == life = [n \in Names |-> "new"]

Moves ==
    {<<"new", "bare">>,            \* taken
     <<"new", "forgotten">>,       \* could not be taken
     <<"bare", "tracked">>,        \* its row is written
     <<"bare", "hollow">>,         \* the same, after a person deleted it
     <<"bare", "forgotten">>,      \* rolled back
     <<"bare", "lost">>,           \* killed, or the rollback failed
     <<"tracked", "hollow">>,      \* deleted
     <<"hollow", "forgotten">>,    \* its row is dropped
     <<"lost", "forgotten">>}      \* a person found and deleted it

Next == \E n \in Names : /\ <<life[n], life'[n]>> \in Moves
                         /\ \A m \in Names \ {n} : life'[m] = life[m]

Spec == Init /\ [][Next]_life
=============================================================================
