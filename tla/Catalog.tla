------------------------------- MODULE Catalog -------------------------------
(***************************************************************************)
(* The queries of src/database.rs, as operators on the two tables.         *)
(*                                                                         *)
(* A snapshot is its name.  Names are numbers whose order is the order     *)
(* SQLite gives to the name column, and Record[n] holds the columns of n   *)
(* that are fixed when it is taken (SnapshotRecord).  The snapshots table  *)
(* is the set `rows' of the names it holds together with a function `date' *)
(* (CURRENT_TIMESTAMP when the row was inserted).  The replicas of one     *)
(* target are a function `recs' from names to "none" (no row), "present"   *)
(* (pruned IS NULL) or "pruned".                                           *)
(***************************************************************************)
EXTENDS Naturals, FiniteSets

CONSTANTS Names,      \* every snapshot name the instance may use
          Prefixes, Kinds, Machines, Sources,
          Record,     \* the fixed columns of each name
          Like        \* <<p, q>> : LIKE 'p%' covers the names with prefix q

Columns == [prefix : Prefixes, kind : Kinds, machine : Machines,
            rw : BOOLEAN, source : Sources]

ASSUME CatalogAssumption ==
    /\ Names \subseteq Nat \ {0}
    /\ IsFiniteSet(Names)
    /\ Record \in [Names -> Columns]
    /\ Like \subseteq Prefixes \X Prefixes
    /\ \A p \in Prefixes : <<p, p>> \in Like

NoName == 0           \* "no snapshot", never a name

(* What the arguments of --clean select: prefix, kind, ro/rw and machine. *)
Selections == [prefix : Prefixes, kind : Kinds, machine : Machines, rw : BOOLEAN]

LikePrefix(n, prefix) == <<prefix, Record[n].prefix>> \in Like

Matches(n, s) ==
    /\ LikePrefix(n, s.prefix)
    /\ Record[n].kind = s.kind
    /\ Record[n].rw = s.rw
    /\ Record[n].machine = s.machine

(* ORDER BY date DESC, name DESC: m comes before n. *)
Newer(date, m, n) == \/ date[m] > date[n]
                     \/ date[m] = date[n] /\ m > n

IsNewest(n, S, date) == \A m \in S \ {n} : Newer(date, n, m)
IsOldest(n, S, date) == \A m \in S \ {n} : Newer(date, m, n)

(* row_number() OVER (ORDER BY date DESC, name DESC) > keep. *)
BeyondKeepOnRank(S, date, keep) ==
    \* a bug: ranks counted from zero
    {n \in S : 1 + Cardinality({m \in S : Newer(date, m, n)}) >= keep}

Beyond(S, date, keep) ==
    {n \in S : Cardinality({m \in S : Newer(date, m, n)}) >= keep}

(* --clean: everything beyond the keep newest of a selection. *)
CleanupCandidates(rows, date, s, keep) ==
    Beyond({n \in rows : Matches(n, s)}, date, keep)

(* --send: the read-only snapshots of a prefix and machine. *)
PendingReplication(rows, prefix, machine) ==
    {n \in rows : /\ LikePrefix(n, prefix)
                  /\ Record[n].machine = machine
                  /\ ~ Record[n].rw}

ReplicatedNamesPresent(recs) == \* a bug: pruned replicas are not remembered
    {n \in Names : recs[n] = "present"}

(* The names not to send again to a target: pruned ones included. *)
ReplicatedNames(recs) == {n \in Names : recs[n] # "none"}

(* list_replicas restricted to one target: every machine's replicas. *)
ListReplicas(recs) == {n \in Names : recs[n] = "present"}

ParentCandidates(recs, source, machine) ==
    {n \in ListReplicas(recs) : /\ Record[n].source = source
                                /\ Record[n].machine = machine}

ReplicaKinds(recs, prefix, machine) ==
    {Record[n].kind : n \in {m \in ListReplicas(recs) :
                                /\ LikePrefix(m, prefix)
                                /\ Record[m].machine = machine}}

RemotePruneCandidates(recs, date, prefix, kind, machine, keep) ==
    Beyond({n \in ListReplicas(recs) : /\ LikePrefix(n, prefix)
                                       /\ Record[n].kind = kind
                                       /\ Record[n].machine = machine},
           date, keep)
=============================================================================
