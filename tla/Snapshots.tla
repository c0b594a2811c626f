------------------------------ MODULE Snapshots ------------------------------
(***************************************************************************)
(* Concurrent invocations of --create, --del and --clean on one database.  *)
(*                                                                         *)
(* The program keeps the snapshots table and the subvolumes on disk in     *)
(* step without a transaction that spans both, so every btrfs call, every  *)
(* file system check and every SQL statement is a step of its own here,    *)
(* and invocations (unit files, timers, a person) interleave at each one.  *)
(* Any step may fail and any invocation may be killed, up to MaxFaults     *)
(* times.  The snapshots directory of a machine may be unmounted and       *)
(* mounted again.                                                          *)
(***************************************************************************)
EXTENDS Catalog

CONSTANTS Procs,          \* the invocations that may run at once
          Sel,            \* prefix, kind, rw and machine each is given
          Ops,            \* which operations each one is used for
          Keep,           \* --keep
          MaxDate,        \* bound: distinct values of CURRENT_TIMESTAMP
          MaxFaults,      \* bound: failures, kills and unmounts
          UnmountLeaves,  \* what the snapshots directory is once unmounted
          CanCreateUnder, \* btrfs can create it again while unmounted
          MountsAnytime   \* it may be (un)mounted while invocations run

ASSUME SnapshotsAssumption ==
    /\ Sel \in [Procs -> Selections]
    /\ Ops \in [Procs -> SUBSET {"create", "del", "clean"}]
    /\ Keep \in Nat /\ MaxDate \in Nat \ {0} /\ MaxFaults \in Nat
    /\ UnmountLeaves \in {"missing", "bare"}
    /\ CanCreateUnder \in BOOLEAN /\ MountsAnytime \in BOOLEAN

VARIABLES
    rows,     \* names in the snapshots table
    date,     \* their date column
    at,       \* where the subvolume of a name is: on the snapshots "disk",
              \* "under" its mount point on the root file system, or "none"
    copies,   \* names with a filtered copy in <destination>/.staging
    dir,      \* what <destination> is on each machine: "new" (never made),
              \* "mounted", "missing", or "bare" (a directory, disk absent)
    clock,    \* CURRENT_TIMESTAMP
    used,     \* names generated so far
    faults,   \* faults so far
    pc,       \* next step of each invocation
    op,       \* its operation
    plan,     \* the snapshots it set out to delete
    todo,     \* those it has not finished with
    cur,      \* the one it is working on
    failed,   \* whether it will exit with an error
    dropped,  \* history: rows removed by --del
    leaked,   \* history: snapshots lost by a kill or a failed rollback
    stray     \* history: filtered copies whose deletion failed

store == <<rows, date, at, copies, dir>>
world == <<clock, used, faults, dropped, leaked, stray>>
local == <<pc, op, plan, todo, cur, failed>>
vars  == <<store, world, local>>

Steps == {"idle", "setup", "mkdir", "take", "insert", "rollback", "look",
          "isdir", "delete", "copies", "forget", "done"}

(* The steps at which no snapshot is being worked on. *)
Idling == {"idle", "setup", "mkdir", "take", "done"}

Host(p) == Sel[p].machine

Init ==
    /\ rows = {} /\ copies = {} /\ used = {}
    /\ date = [n \in Names |-> 0]
    /\ at = [n \in Names |-> "none"]
    /\ dir = [m \in Machines |-> "new"]
    /\ clock = 1 /\ faults = 0
    /\ pc = [p \in Procs |-> "idle"]
    /\ op = [p \in Procs |-> "create"]
    /\ plan = [p \in Procs |-> {}] /\ todo = [p \in Procs |-> {}]
    /\ cur = [p \in Procs |-> NoName]
    /\ failed = [p \in Procs |-> FALSE]
    /\ dropped = {} /\ leaked = {} /\ stray = {}

-----------------------------------------------------------------------------
(* Helpers. *)

Goto(p, step) == pc' = [pc EXCEPT ![p] = step]

Fault == faults < MaxFaults /\ faults' = faults + 1

(* Does the path of n lead to its subvolume, seen from machine m? *)
Visible(n, m) ==
    /\ Record[n].machine = m
    /\ \/ dir[m] = "mounted" /\ at[n] = "disk"
       \/ dir[m] = "bare" /\ at[n] = "under"

Exists(m) == dir[m] \in {"mounted", "bare"}

(* The candidate loop: newest first, or exit when there is none left. *)
Continue(p, rest) ==
    /\ todo' = [todo EXCEPT ![p] = rest]
    /\ \/ /\ rest = {}
          /\ cur' = [cur EXCEPT ![p] = NoName]
          /\ Goto(p, "done")
       \/ \E n \in rest : /\ IsNewest(n, rest, date)
                          /\ cur' = [cur EXCEPT ![p] = n]
                          /\ Goto(p, "look")

(* delete_record succeeded, or failed, for the current snapshot. *)
Finish(p) == Continue(p, todo[p] \ {cur[p]}) /\ UNCHANGED <<op, plan, failed>>

SkipQuietly(p) == \* a bug: the failure is not counted
    Continue(p, todo[p] \ {cur[p]}) /\ UNCHANGED <<op, plan, failed>>

Skip(p) == /\ Continue(p, todo[p] \ {cur[p]})
           /\ failed' = [failed EXCEPT ![p] = TRUE]
           /\ UNCHANGED <<op, plan>>

Exit(p, error) == /\ Goto(p, "done")
                  /\ cur' = [cur EXCEPT ![p] = NoName]
                  /\ failed' = [failed EXCEPT ![p] = error]
                  /\ UNCHANGED <<op, plan, todo>>

-----------------------------------------------------------------------------
(* --create: main::try_run, then controller::manage_creation.              *)

StartCreate(p) ==
    /\ pc[p] = "idle" /\ "create" \in Ops[p]
    /\ op' = [op EXCEPT ![p] = "create"]
    /\ Goto(p, "setup")
    /\ UNCHANGED <<store, world, plan, todo, cur, failed>>

(* setup_directory_structure: an existing directory is taken as it is. *)
Setup(p) ==
    /\ pc[p] = "setup"
    /\ Goto(p, IF Exists(Host(p)) THEN "take" ELSE "mkdir")
    /\ UNCHANGED <<store, world, op, plan, todo, cur, failed>>

(* btrfs subvolume create: fails on a directory made since the check. *)
Mkdir(p) ==
    LET m == Host(p) IN
    /\ pc[p] = "mkdir"
    /\ \/ /\ dir[m] = "new" \/ (dir[m] = "missing" /\ CanCreateUnder)
          /\ dir' = [dir EXCEPT ![m] = IF @ = "new" THEN "mounted" ELSE "bare"]
          /\ Goto(p, "take")
          /\ UNCHANGED <<faults, op, plan, todo, cur, failed>>
       \/ /\ dir[m] # "new"
          /\ Exit(p, TRUE)
          /\ UNCHANGED <<dir, faults>>
       \/ Fault /\ Exit(p, TRUE) /\ UNCHANGED dir
    /\ UNCHANGED <<rows, date, at, copies, clock, used, dropped, leaked, stray>>

(* new_snapshot_name carries the time of day: the names of a prefix grow. *)
NewName(n, p) ==
    /\ n \in Names \ used
    /\ Record[n].prefix = Sel[p].prefix /\ Record[n].kind = Sel[p].kind
    /\ Record[n].machine = Host(p) /\ Record[n].rw = Sel[p].rw
    /\ \A m \in used : Record[m].prefix = Record[n].prefix => m < n

(* btrfs subvolume snapshot. *)
Take(p, n) ==
    /\ pc[p] = "take" /\ NewName(n, p)
    /\ used' = used \union {n}
    /\ \/ /\ Exists(Host(p))
          /\ at' = [at EXCEPT ![n] = IF dir[Host(p)] = "mounted" THEN "disk" ELSE "under"]
          /\ cur' = [cur EXCEPT ![p] = n]
          /\ Goto(p, "insert")
          /\ UNCHANGED <<faults, op, plan, todo, failed>>
       \/ ~ Exists(Host(p)) /\ Exit(p, TRUE) /\ UNCHANGED <<at, faults>>
       \/ Fault /\ Exit(p, TRUE) /\ UNCHANGED at
    /\ UNCHANGED <<rows, date, copies, dir, clock, dropped, leaked, stray>>

(* With every name of the instance taken the invocation gives up: a bound. *)
OutOfNames(p) ==
    /\ pc[p] = "take" /\ ~ \E n \in Names : NewName(n, p)
    /\ Exit(p, TRUE)
    /\ UNCHANGED <<store, world>>

InsertWithoutDate(p) == \* a bug: the row is written without its date
    /\ pc[p] = "insert"
    /\ \/ /\ rows' = rows \union {cur[p]}
          /\ Exit(p, FALSE)
          /\ UNCHANGED <<date, faults>>
       \/ Fault /\ Goto(p, "rollback") /\ UNCHANGED <<rows, date, op, plan, todo, cur, failed>>
    /\ UNCHANGED <<at, copies, dir, clock, used, dropped, leaked, stray>>

(* insert_snapshot: the row gets CURRENT_TIMESTAMP as its date. *)
Insert(p) ==
    /\ pc[p] = "insert"
    /\ \/ /\ rows' = rows \union {cur[p]}
          /\ date' = [date EXCEPT ![cur[p]] = clock]
          /\ Exit(p, FALSE)
          /\ UNCHANGED faults
       \/ Fault /\ Goto(p, "rollback") /\ UNCHANGED <<rows, date, op, plan, todo, cur, failed>>
    /\ UNCHANGED <<at, copies, dir, clock, used, dropped, leaked, stray>>

(* The snapshot that could not be recorded is removed again. *)
Rollback(p) ==
    /\ pc[p] = "rollback"
    /\ \/ /\ Visible(cur[p], Host(p))
          /\ at' = [at EXCEPT ![cur[p]] = "none"]
          /\ UNCHANGED <<leaked, faults>>
       \/ /\ IF Visible(cur[p], Host(p)) THEN Fault ELSE UNCHANGED faults
          /\ leaked' = leaked \union {cur[p]}
          /\ UNCHANGED at
    /\ Exit(p, TRUE)
    /\ UNCHANGED <<rows, date, copies, dir, clock, used, dropped, stray>>

-----------------------------------------------------------------------------
(* --del and --clean: the snapshots to delete, then delete_record on each. *)

(* manage_deletion: find_one finds any row, of any machine. *)
StartDel(p, n) ==
    /\ pc[p] = "idle" /\ "del" \in Ops[p] /\ n \in rows
    /\ op' = [op EXCEPT ![p] = "del"]
    /\ plan' = [plan EXCEPT ![p] = {n}]
    /\ Continue(p, {n})
    /\ UNCHANGED <<store, world, failed>>

(* keep_only_x. *)
StartClean(p) ==
    LET C == CleanupCandidates(rows, date, Sel[p], Keep) IN
    /\ pc[p] = "idle" /\ "clean" \in Ops[p]
    /\ op' = [op EXCEPT ![p] = "clean"]
    /\ plan' = [plan EXCEPT ![p] = C]
    /\ Continue(p, C)
    /\ UNCHANGED <<store, world, failed>>

LookAnyMachine(p) == \* a bug: the machine of the row is not compared
    /\ pc[p] = "look"
    /\ \/ /\ Visible(cur[p], Host(p))
          /\ Goto(p, "delete")
          /\ UNCHANGED <<faults, op, plan, todo, cur, failed>>
       \/ /\ ~ Visible(cur[p], Host(p))
          /\ Goto(p, "isdir")
          /\ UNCHANGED <<faults, op, plan, todo, cur, failed>>
       \/ Fault /\ Skip(p)
    /\ UNCHANGED <<store, clock, used, dropped, leaked, stray>>

(* try_exists on the path; a missing one of another machine is an error. *)
Look(p) ==
    /\ pc[p] = "look"
    /\ \/ /\ Visible(cur[p], Host(p))
          /\ Goto(p, "delete")
          /\ UNCHANGED <<faults, op, plan, todo, cur, failed>>
       \/ /\ ~ Visible(cur[p], Host(p)) /\ Record[cur[p]].machine # Host(p)
          /\ Skip(p)
          /\ UNCHANGED faults
       \/ /\ ~ Visible(cur[p], Host(p)) /\ Record[cur[p]].machine = Host(p)
          /\ Goto(p, "isdir")
          /\ UNCHANGED <<faults, op, plan, todo, cur, failed>>
       \/ Fault /\ Skip(p)
    /\ UNCHANGED <<store, clock, used, dropped, leaked, stray>>

IsDirUnchecked(p) == \* a bug: the row is forgotten whatever the directory is
    /\ pc[p] = "isdir"
    /\ Goto(p, "copies") /\ UNCHANGED <<op, plan, todo, cur, failed>>
    /\ UNCHANGED <<store, world>>

IsDirKeepsRow(p) == \* a bug: the row of a missing subvolume is always kept
    pc[p] = "isdir" /\ Skip(p) /\ UNCHANGED <<store, world>>

(* With the snapshots directory missing as well, the row is kept. *)
IsDir(p) ==
    /\ pc[p] = "isdir"
    /\ IF Exists(Host(p))
       THEN Goto(p, "copies") /\ UNCHANGED <<op, plan, todo, cur, failed>>
       ELSE Skip(p)
    /\ UNCHANGED <<store, world>>

DeleteOnly(p) == \* a bug: the filtered copies are not looked for
    /\ pc[p] = "delete"
    /\ \/ /\ Visible(cur[p], Host(p))
          /\ at' = [at EXCEPT ![cur[p]] = "none"]
          /\ Goto(p, "forget")
          /\ UNCHANGED <<faults, op, plan, todo, cur, failed>>
       \/ ~ Visible(cur[p], Host(p)) /\ Skip(p) /\ UNCHANGED <<at, faults>>
       \/ Fault /\ Skip(p) /\ UNCHANGED at
    /\ UNCHANGED <<rows, date, copies, dir, clock, used, dropped, leaked, stray>>

(* del_snapshot: fails when another invocation deleted it since the check. *)
Delete(p) ==
    /\ pc[p] = "delete"
    /\ \/ /\ Visible(cur[p], Host(p))
          /\ at' = [at EXCEPT ![cur[p]] = "none"]
          /\ Goto(p, "copies")
          /\ UNCHANGED <<faults, op, plan, todo, cur, failed>>
       \/ ~ Visible(cur[p], Host(p)) /\ Skip(p) /\ UNCHANGED <<at, faults>>
       \/ Fault /\ Skip(p) /\ UNCHANGED at
    /\ UNCHANGED <<rows, date, copies, dir, clock, used, dropped, leaked, stray>>

(* remove_filtered_copies: failures are only reported. *)
Copies(p) ==
    LET n == cur[p] IN
    /\ pc[p] = "copies"
    /\ \/ /\ dir[Host(p)] = "mounted"
          /\ copies' = copies \ {n}
          /\ UNCHANGED <<stray, faults>>
       \/ dir[Host(p)] # "mounted" /\ UNCHANGED <<copies, stray, faults>>
       \/ /\ Fault
          /\ stray' = stray \union ({n} \intersect copies)
          /\ UNCHANGED copies
    /\ Goto(p, "forget")
    /\ UNCHANGED <<rows, date, at, dir, clock, used, dropped, leaked,
                   op, plan, todo, cur, failed>>

(* database::delete_snapshot. *)
Forget(p) ==
    /\ pc[p] = "forget"
    /\ \/ /\ rows' = rows \ {cur[p]}
          /\ dropped' = dropped \union (IF op[p] = "del" THEN {cur[p]} ELSE {})
          /\ Finish(p)
          /\ UNCHANGED faults
       \/ Fault /\ Skip(p) /\ UNCHANGED <<rows, dropped>>
    /\ UNCHANGED <<date, at, copies, dir, clock, used, leaked, stray>>

(* The process ends with its exit status; another may be started. *)
Reset(p) ==
    /\ pc' = [pc EXCEPT ![p] = "idle"]
    /\ op' = [op EXCEPT ![p] = "create"]
    /\ plan' = [plan EXCEPT ![p] = {}] /\ todo' = [todo EXCEPT ![p] = {}]
    /\ cur' = [cur EXCEPT ![p] = NoName]
    /\ failed' = [failed EXCEPT ![p] = FALSE]

End(p) == pc[p] = "done" /\ Reset(p) /\ UNCHANGED <<store, world>>

-----------------------------------------------------------------------------
(* Around the program. *)

(* Killed, or the machine lost power, between two steps. *)
Crash(p) ==
    /\ pc[p] \notin {"idle", "done"}
    /\ Fault /\ Reset(p)
    /\ leaked' = leaked \union
                   (IF pc[p] \in {"insert", "rollback"} THEN {cur[p]} ELSE {})
    /\ UNCHANGED <<store, clock, used, dropped, stray>>

Tick == /\ clock < MaxDate /\ clock' = clock + 1
        /\ UNCHANGED <<store, local, used, faults, dropped, leaked, stray>>

Quiet(m) == MountsAnytime \/ \A p \in Procs : Host(p) = m => pc[p] = "idle"

Unmount(m) ==
    /\ dir[m] = "mounted" /\ Quiet(m) /\ Fault
    /\ dir' = [dir EXCEPT ![m] = UnmountLeaves]
    /\ UNCHANGED <<rows, date, at, copies, local, clock, used, dropped, leaked, stray>>

Mount(m) ==
    /\ dir[m] \in {"missing", "bare"} /\ Quiet(m)
    /\ dir' = [dir EXCEPT ![m] = "mounted"]
    /\ UNCHANGED <<rows, date, at, copies, local, world>>

(* The administrator deletes a snapshot with btrfs. *)
RemoveByHand(n) ==
    /\ Visible(n, Record[n].machine)
    /\ at' = [at EXCEPT ![n] = "none"]
    /\ UNCHANGED <<rows, date, copies, dir, local, world>>

(* A --send run builds the filtered copy of a tracked read-only snapshot. *)
BuildCopy(n) ==
    /\ n \in rows \ copies /\ ~ Record[n].rw
    /\ at[n] = "disk" /\ dir[Record[n].machine] = "mounted"
    /\ copies' = copies \union {n}
    /\ UNCHANGED <<rows, date, at, dir, local, world>>

-----------------------------------------------------------------------------
Step(p) ==
    \/ Setup(p) \/ Mkdir(p) \/ OutOfNames(p) \/ (\E n \in Names : Take(p, n))
    \/ Insert(p) \/ Rollback(p)
    \/ Look(p) \/ IsDir(p) \/ Delete(p) \/ Copies(p) \/ Forget(p) \/ End(p)

Start(p) == \/ StartCreate(p) \/ StartClean(p)
            \/ \E n \in Names : StartDel(p, n)

Environment ==
    \/ Tick
    \/ \E m \in Machines : Unmount(m) \/ Mount(m)
    \/ \E n \in Names : RemoveByHand(n) \/ BuildCopy(n)

Next == \/ \E p \in Procs : Start(p) \/ Step(p) \/ Crash(p)
        \/ Environment

Spec == Init /\ [][Next]_vars

(* An invocation that runs keeps running, a timer keeps starting --clean,  *)
(* and a disk that was taken away is brought back.                         *)
Fairness == /\ \A p \in Procs : WF_vars(Step(p))
            /\ \A p \in Procs : SF_vars(StartClean(p))
            /\ \A m \in Machines : SF_vars(Mount(m))

FairSpec == Spec /\ Fairness

-----------------------------------------------------------------------------
StoreOK ==
    /\ rows \subseteq used /\ copies \subseteq Names
    /\ date \in [Names -> 0 .. MaxDate]
    /\ \A n \in rows : date[n] > 0
    /\ at \in [Names -> {"none", "disk", "under"}]
    /\ dir \in [Machines -> {"new", "mounted", "missing", "bare"}]

WorldOK ==
    /\ used \subseteq Names
    /\ clock \in 1 .. MaxDate /\ faults \in 0 .. MaxFaults
    /\ dropped \subseteq used /\ leaked \subseteq used /\ stray \subseteq Names

LocalOK ==
    /\ pc \in [Procs -> Steps]
    /\ op \in [Procs -> {"create", "del", "clean"}]
    /\ plan \in [Procs -> SUBSET used] /\ todo \in [Procs -> SUBSET used]
    /\ cur \in [Procs -> used \union {NoName}]
    /\ \A p \in Procs : pc[p] \notin Idling => cur[p] # NoName
    /\ failed \in [Procs -> BOOLEAN]

(* The type invariant; every row carries the date it was inserted with, and *)
(* every name in use anywhere was generated.                                *)
TypeOK == StoreOK /\ WorldOK /\ LocalOK

(* Nothing is lost track of: a subvolume on disk has a row, or is between   *)
(* `btrfs subvolume snapshot' and its row or rollback, or was leaked by a   *)
(* kill there or by a rollback that failed (controller.rs:58-66, 497-523).  *)
Tracked ==
    \A n \in Names : at[n] # "none" =>
        \/ n \in rows \union leaked
        \/ \E p \in Procs : pc[p] \in {"insert", "rollback"} /\ cur[p] = n

(* The rows newer than n in a selection, also those a person removed. *)
NewerRows(n, s) == {m \in rows \union dropped : Matches(m, s) /\ Newer(date, m, n)}

(* --clean keeps the newest Keep: however invocations interleave, whatever  *)
(* a cleaner still means to delete has Keep newer rows of its selection,    *)
(* not counting those a person deleted with --del meanwhile.                *)
Retention ==
    \A p \in Procs : op[p] = "clean" => \A n \in todo[p] :
        Keep <= Cardinality(NewerRows(n, Sel[p]))

(* A filtered copy does not outlive its snapshot's row, unless deleting it  *)
(* failed (controller.rs:522 before 523, and after the snapshot itself).    *)
CopiesTracked == copies \subseteq rows \union stray

(* A --clean or --del that exits without an error leaves neither row nor    *)
(* subvolume of what it planned to delete, also of what another invocation, *)
(* or a person, worked on meanwhile (controller.rs:452-465, 494-523).       *)
SuccessMeansGone ==
    \A p \in Procs : pc[p] = "done" /\ op[p] \in {"del", "clean"} /\ ~ failed[p] =>
        \A n \in plan[p] : n \notin rows /\ at[n] = "none"

(* The life of a snapshot, as Lifecycle tells it. *)
Pending(n) == \E p \in Procs : pc[p] \in {"insert", "rollback"} /\ cur[p] = n

Life == [n \in Names |->
            IF n \notin used THEN "new"
            ELSE IF Pending(n) THEN "bare"
            ELSE IF n \in rows THEN IF at[n] = "none" THEN "hollow" ELSE "tracked"
            ELSE IF at[n] = "none" THEN "forgotten" ELSE "lost"]

L == INSTANCE Lifecycle WITH life <- Life

(* Invocations, kills, failures and people together implement Lifecycle: a  *)
(* snapshot with a row is deleted before it is forgotten, and no path leads *)
(* from a row to a subvolume nobody tracks (controller.rs:497-530).         *)
RefinesLifecycle == L!Spec

(* On a shared database only invocations of a machine remove its rows. *)
OnlyOwnerForgets ==
    [][\A n \in rows \ rows' :
          \E p \in Procs : pc[p] = "forget" /\ cur[p] = n
                           /\ Host(p) = Record[n].machine]_vars

(* Once no more snapshots are taken and faults end, repeated --clean runs   *)
(* reach the retention they are asked for and stay there.                   *)
Converges ==
    \A p \in Procs : "clean" \in Ops[p] =>
        <>[](CleanupCandidates(rows, date, Sel[p], Keep) = {})
=============================================================================
