------------------------------- MODULE Ledger -------------------------------
(***************************************************************************)
(* What --send and --del --from-replica promise about the replica of one   *)
(* snapshot at one target.  It is                                          *)
(*   "absent"   not recorded, whatever the target holds                    *)
(*   "held"     recorded, and complete at the target                       *)
(*   "cut"      recorded, and at the target, but without all of its data   *)
(*   "stale"    recorded, but no longer there                              *)
(*   "pruned"   remembered as deleted                                      *)
(* A replica is recorded only once it is there and no longer written; its  *)
(* record outlives it; one that is cut is never made whole; and what was   *)
(* pruned stays so.                                                        *)
(***************************************************************************)
CONSTANT Replicas
VARIABLE ledger

States == {"absent", "held", "cut", "stale", "pruned"}

Init == ledger = [r \in Replicas |-> "absent"]

Moves ==
    {<<"absent", "held">>,     \* received, verified and recorded; or adopted
     <<"absent", "cut">>,      \* adopted as a failed send left it, or built on one
     <<"held", "stale">>,      \* deleted at the target
     <<"cut", "stale">>,
     <<"stale", "pruned">>,    \* and then marked
     <<"stale", "absent">>}    \* dropped from the table: it was not there

Next == \E r \in Replicas : /\ <<ledger[r], ledger'[r]>> \in Moves
                            /\ \A q \in Replicas \ {r} : ledger'[q] = ledger[q]

Spec == Init /\ [][Next]_ledger
=============================================================================
