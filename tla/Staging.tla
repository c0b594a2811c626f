------------------------------- MODULE Staging -------------------------------
(***************************************************************************)
(* The filtered copies of a target with `exclude': what travels is a copy  *)
(* of the snapshot without the excluded paths, kept in .staging and reused *)
(* by later sends once it is read-only (prepare_staging).  Senders with    *)
(* the same exclude list share the copy of a snapshot.                     *)
(***************************************************************************)
EXTENDS Naturals, FiniteSets

CONSTANTS Procs, Names,
          Paths,       \* the excluded entries, in the order they are removed
          MaxFaults    \* bound: failed commands and kills

ASSUME StagingAssumption ==
    /\ 0 \notin Names
    /\ Paths \in SUBSET Nat /\ IsFiniteSet(Paths) /\ MaxFaults \in Nat

VARIABLES
    snaps,    \* the read-only snapshots on disk
    built,    \* those with a copy in .staging
    sealed,   \* the copies set read-only
    holds,    \* <<n, q>> : the copy of n still holds the excluded entry q
    nested,   \* the copies with another snapshot created inside them
    pc, cur,  \* next step and snapshot of each sender
    rest,     \* the entries it has not removed yet
    sent,     \* names whose copy was sent
    leaked,   \* <<n, q>> : entry q of n was sent
    shared,   \* history: the snapshots two senders worked on at once
    faults

copies == <<snaps, built, sealed, holds, nested>>
vars == <<copies, pc, cur, rest, sent, leaked, shared, faults>>

NoName == 0
Steps == {"idle", "exists", "isro", "discard", "snapshot", "filter", "seal", "abort", "send"}

Init ==
    /\ snaps = Names
    /\ built = {} /\ sealed = {} /\ holds = {} /\ nested = {}
    /\ pc = [p \in Procs |-> "idle"] /\ cur = [p \in Procs |-> NoName]
    /\ rest = [p \in Procs |-> {}]
    /\ sent = {} /\ leaked = {} /\ shared = {} /\ faults = 0

Goto(p, step) == pc' = [pc EXCEPT ![p] = step] /\ UNCHANGED <<cur, rest>>
End(p) == /\ pc' = [pc EXCEPT ![p] = "idle"] /\ cur' = [cur EXCEPT ![p] = NoName]
          /\ rest' = [rest EXCEPT ![p] = {}]
Fault == faults < MaxFaults /\ faults' = faults + 1
Quiet == UNCHANGED <<copies, sent, leaked, shared, faults>>

(* btrfs subvolume delete on a copy: refused with a subvolume inside. *)
Deletable(n) == n \in built /\ n \notin nested
DeleteCopy(n) == /\ built' = built \ {n} /\ sealed' = sealed \ {n}
                 /\ holds' = {h \in holds : h[1] # n}
                 /\ UNCHANGED <<snaps, nested>>

Begin(p, n) ==
    /\ pc[p] = "idle" /\ n \in snaps \ sent
    /\ pc' = [pc EXCEPT ![p] = "exists"] /\ cur' = [cur EXCEPT ![p] = n]
    /\ shared' = shared \union (IF \E q \in Procs : cur[q] = n THEN {n} ELSE {})
    /\ UNCHANGED <<rest, copies, sent, leaked, faults>>

Exists(p) == /\ pc[p] = "exists"
             /\ Goto(p, IF cur[p] \in built THEN "isro" ELSE "snapshot")
             /\ Quiet

IsReadOnlyAssumed(p) == \* a bug: a copy that exists is taken as finished
    pc[p] = "isro" /\ cur[p] \in built /\ Goto(p, "seal") /\ Quiet

(* A copy that is read-only is complete; any other is built again. *)
IsReadOnly(p) ==
    /\ pc[p] = "isro"
    /\ \/ cur[p] \in built /\ Goto(p, IF cur[p] \in sealed THEN "send" ELSE "discard") /\ Quiet
       \/ cur[p] \notin built /\ End(p) /\ Quiet
       \/ Fault /\ End(p) /\ UNCHANGED <<copies, sent, leaked, shared>>

DiscardNever(p) == \* a bug: an incomplete copy is left where it is
    pc[p] = "discard" /\ End(p) /\ Quiet

Discard(p) ==
    /\ pc[p] = "discard"
    /\ \/ Deletable(cur[p]) /\ DeleteCopy(cur[p]) /\ Goto(p, "snapshot") /\ UNCHANGED faults
       \/ ~ Deletable(cur[p]) /\ End(p) /\ UNCHANGED <<copies, faults>>
       \/ Fault /\ End(p) /\ UNCHANGED copies
    /\ UNCHANGED <<sent, leaked, shared>>

(* btrfs subvolume snapshot: onto a directory that exists by now it makes   *)
(* the snapshot inside it, which a read-only one refuses.                   *)
Snapshot(p) ==
    LET n == cur[p] IN
    /\ pc[p] = "snapshot"
    /\ \/ /\ n \in snaps /\ n \notin built
          /\ built' = built \union {n} /\ holds' = holds \union ({n} \X Paths)
          /\ UNCHANGED <<nested, faults>>
          /\ pc' = [pc EXCEPT ![p] = "filter"] /\ rest' = [rest EXCEPT ![p] = Paths]
          /\ UNCHANGED cur
       \/ /\ n \in snaps /\ n \in built \ (sealed \union nested)
          /\ nested' = nested \union {n}
          /\ UNCHANGED <<built, holds, faults>>
          /\ pc' = [pc EXCEPT ![p] = "filter"] /\ rest' = [rest EXCEPT ![p] = Paths]
          /\ UNCHANGED cur
       \/ /\ n \notin snaps \/ n \in sealed \union nested
          /\ End(p)
          /\ UNCHANGED <<built, holds, nested, faults>>
       \/ Fault /\ End(p) /\ UNCHANGED <<built, holds, nested>>
    /\ UNCHANGED <<snaps, sealed, sent, leaked, shared>>

FilterAllButLast(p) == \* a bug: the last excluded entry is not removed
    LET q == CHOOSE x \in rest[p] : \A y \in rest[p] : x <= y IN
    /\ pc[p] = "filter"
    /\ IF Cardinality(rest[p]) <= 1
       THEN Goto(p, "seal") /\ UNCHANGED holds
       ELSE /\ holds' = holds \ {<<cur[p], q>>}
            /\ rest' = [rest EXCEPT ![p] = @ \ {q}]
            /\ UNCHANGED <<pc, cur>>
    /\ UNCHANGED <<snaps, built, sealed, nested, sent, leaked, shared, faults>>

(* remove_excludes, one entry: one that is not there is skipped, one in a   *)
(* read-only copy can't be removed.                                         *)
Filter(p) ==
    LET q == CHOOSE x \in rest[p] : \A y \in rest[p] : x <= y
        h == <<cur[p], q>> IN
    /\ pc[p] = "filter"
    /\ \/ rest[p] = {} /\ Goto(p, "seal") /\ UNCHANGED <<holds, faults>>
       \/ /\ rest[p] # {} /\ (h \in holds => cur[p] \notin sealed)
          /\ holds' = holds \ {h}
          /\ rest' = [rest EXCEPT ![p] = @ \ {q}]
          /\ UNCHANGED <<pc, cur, faults>>
       \/ rest[p] # {} /\ h \in holds /\ cur[p] \in sealed /\ Goto(p, "abort")
          /\ UNCHANGED <<holds, faults>>
       \/ rest[p] # {} /\ Fault /\ Goto(p, "abort") /\ UNCHANGED holds
    /\ UNCHANGED <<snaps, built, sealed, nested, sent, leaked, shared>>

(* btrfs property set ro true: the last step of the construction. *)
Seal(p) ==
    /\ pc[p] = "seal"
    /\ \/ cur[p] \in built /\ sealed' = sealed \union {cur[p]} /\ Goto(p, "send") /\ UNCHANGED faults
       \/ cur[p] \notin built /\ Goto(p, "abort") /\ UNCHANGED <<sealed, faults>>
       \/ Fault /\ Goto(p, "abort") /\ UNCHANGED sealed
    /\ UNCHANGED <<snaps, built, holds, nested, sent, leaked, shared>>

(* A half-built copy is deleted, best effort. *)
Abort(p) ==
    /\ pc[p] = "abort"
    /\ \/ Deletable(cur[p]) /\ DeleteCopy(cur[p]) /\ UNCHANGED faults
       \/ ~ Deletable(cur[p]) /\ UNCHANGED <<copies, faults>>
       \/ Fault /\ UNCHANGED copies
    /\ End(p) /\ UNCHANGED <<sent, leaked, shared>>

(* The copy is sent as it is; btrfs sends read-only subvolumes only. *)
Send(p) ==
    LET n == cur[p] IN
    /\ pc[p] = "send"
    /\ \/ /\ n \in sealed
          /\ sent' = sent \union {n}
          /\ leaked' = leaked \union {h \in holds : h[1] = n}
          /\ UNCHANGED faults
       \/ n \notin sealed /\ UNCHANGED <<sent, leaked, faults>>
       \/ Fault /\ UNCHANGED <<sent, leaked>>
    /\ End(p) /\ UNCHANGED <<copies, shared>>

Crash(p) == pc[p] # "idle" /\ Fault /\ End(p) /\ UNCHANGED <<copies, sent, leaked, shared>>

(* --clean and --del: the snapshot, and then its copy. *)
DeleteSnapshot(n) == /\ n \in snaps /\ snaps' = snaps \ {n}
                     /\ UNCHANGED <<built, sealed, holds, nested, pc, cur, rest, sent, leaked, shared, faults>>
RemoveFilteredCopy(n) == /\ n \notin snaps /\ Deletable(n) /\ DeleteCopy(n)
                         /\ UNCHANGED <<pc, cur, rest, sent, leaked, shared, faults>>

Step(p) == \/ Exists(p) \/ IsReadOnly(p) \/ Discard(p) \/ Snapshot(p) \/ Filter(p)
           \/ Seal(p) \/ Abort(p) \/ Send(p)
Start(p) == \E n \in Names : Begin(p, n)

Next == \/ \E p \in Procs : Start(p) \/ Step(p) \/ Crash(p)
        \/ \E n \in Names : DeleteSnapshot(n) \/ RemoveFilteredCopy(n)

Spec == Init /\ [][Next]_vars
FairSpec == Spec /\ \A p \in Procs : WF_vars(Step(p)) /\ WF_vars(Start(p))
-----------------------------------------------------------------------------
(* The type invariant; entries are left to remove only while the copy is    *)
(* being filtered, or after that failed.                                    *)
TypeOK ==
    /\ snaps \subseteq Names /\ built \subseteq Names /\ sealed \subseteq built
    /\ holds \subseteq built \X Paths /\ nested \subseteq built
    /\ pc \in [Procs -> Steps] /\ cur \in [Procs -> Names \union {NoName}]
    /\ rest \in [Procs -> SUBSET Paths]
    /\ \A p \in Procs : rest[p] # {} => pc[p] \in {"filter", "abort"}
    /\ sent \subseteq Names /\ shared \subseteq Names /\ leaked \subseteq Names \X Paths
    /\ faults \in 0 .. MaxFaults

(* What leaves the machine is filtered: no excluded entry is ever sent,     *)
(* whatever was interrupted before (docs:177, replication.rs:1440-1487).    *)
NothingExcludedLeaves == leaked = {}

(* The same as far as the code keeps it: whatever was killed or failed at   *)
(* any point, an excluded entry is sent only if two senders worked on one   *)
(* copy at once.                                                            *)
OnlySharedCopiesLeak == \A h \in leaked : h[1] \in shared

(* Every snapshot that stays on disk is sent in the end, if senders do not  *)
(* meet: a half-built copy of an earlier run does not block it.             *)
EventuallySent == \A n \in Names : <>(n \in sent \/ n \notin snaps \/ shared # {})
=============================================================================
