# Verification of rusnapshot

TLA+ models of [rusnapshot](../src/README.md), a manager of btrfs snapshots: what it keeps in its
SQLite database, what is on the disks, and how concurrent, failing and interrupted invocations keep
the two together, how data moves through the pipe between two btrfs commands, how excluded paths are
removed, and how a database comes into being. TLC checks the models on small instances; TLAPS proves
every safety property they check, the two refinements included, for every value of the constants the
hypotheses of section 4 allow.

## 1. The system

rusnapshot is a command line program. There is no daemon: systemd timers (`examples/services`) and
people start invocations, several may run at once, on one machine or on several machines that share
the database file. Each invocation runs the operations it is asked for one after the other
(`main.rs:6-38`) and exits. All coordination is SQLite's: one statement is atomic, nothing larger is.

| component | code | state | operations |
|---|---|---|---|
| Catalog queries | `database.rs` | tables `snapshots`, `replicas` | the selections of `--clean`, `--send`, retention at a target, parents |
| Snapshot lifecycle | `controller.rs`, `operations.rs`, `main.rs` | subvolumes in the snapshots directory, rows of `snapshots` | `--create`, `--del`, `--clean` |
| Replication | `replication.rs:600-940`, `controller.rs:266-297` | replicas at targets, rows of `replicas` | `--send`, `--del --from-replica` |
| Filtered copies | `replication.rs:940-1503` | `<dest>/.staging/<id>/<name>` | `prepare_staging`, `remove_filtered_copies` |
| Transfer pipe | `replication.rs:376-595` | two child processes and a pipe | `send_and_receive`, `receive_from_target` |
| Restore | `controller.rs:96-264`, `operations.rs:129-145` | `<dest>/.restore`, the restore target | `--restore`, with `--from-replica` |
| Schema and migrations | `database.rs:26-115` | the schema, machine names of old versions | `open` |
| Tree walk | `replication.rs:1027-1440` | a directory tree in a filtered copy | remove and measure excluded paths |
| Options | `args.rs`, `utils.rs` | none | command line over file, checks, dispatch |
| Target URLs and commands | `replication.rs:39-207, 317-374` | none | parse, quote, build command lines |
| Listing, utilities | `controller.rs:385-404, 562-652`, `utils.rs` | none | output, host name, limits |

How they interact: `--create` makes the directory, takes the snapshot with btrfs and then inserts the
row; `--clean` and `--del` read rows and delete, for each, the subvolume, its filtered copies and then
the row; `--send` reads rows, looks at the target, builds filtered copies, pipes `btrfs send` into
`btrfs receive`, verifies and then inserts a replica row, and at last applies the target's retention.
Rows and subvolumes refer to each other by path, so every operation is a sequence of steps in two
stores with no transaction around both.

What is hard, and what has to be true:

- *Lifecycle.* A kill, a failed command or an unmounted disk between two steps; invocations working
  from lists that have gone stale. Nothing on disk is lost track of; retention never deletes one of
  the newest; success means the work was done; one machine does not forget another's rows; repeated
  runs converge.
- *Replication.* The same across a network, with a third store. What is recorded is there and
  complete; what retention removed is not sent again; a disk that is away is not taken for an empty
  one; retention at a shared server spares other machines; everything is replicated in the end.
- *Filtered copies.* Built in steps, reused between runs, shared by senders. No excluded path leaves
  the machine, and a half-built copy does not stop later sends.
- *Pipe.* Three processes and two bounded pipes, any of which may fail, hang or be killed. A cut stream
  is not taken for a whole one, the error names the side that failed, and nobody waits on a dead pipe.
- *Restore.* Leftovers of killed restores, receives that outlive them, the snapshot and the replica
  deleted meanwhile. A restore that reports success is whole, leaves nothing behind, and can be repeated.
- *Walk.* Symlinks out of the copy, entries in any order, overlapping lists, immutable files. Exactly
  what is excluded goes, and nothing outside the copy is touched.
- *Schema and options.* First runs, upgrades and kills that race in a schema made statement by
  statement. Whoever gets to work has all of it; nothing but `--create` makes a file; `dest_dir` of the
  file is never where a restore goes.

## 2. Modules

| module | models | extended by |
|---|---|---|
| `Catalog` | the queries, as operators on the tables | `Snapshots`, `Replication` |
| `Snapshots` | `--create`, `--del`, `--clean` | `MCSnapshots`, `SnapshotsProofs` |
| `Replication` | `--send`, `--del --from-replica`, retention at targets | `MCReplication`, `ReplicationProofs` |
| `Staging` | filtered copies | `MCStaging`, `StagingProofs` |
| `Pipe` | one transfer: program, `btrfs send`, `btrfs receive` | `Restore` |
| `Restore` | `--restore`, `--from-replica`, composed with `Pipe` | `MCRestore`, `RestoreProofs` |
| `TreeWalk` | removal of excluded paths in a tree | `MCTreeWalk`, `TreeWalkProofs` |
| `Startup` | options, the snapshots directory, the schema | `MCStartup`, `StartupProofs` |
| `Lifecycle` | abstract: the life of one snapshot | instantiated by `Snapshots` |
| `Ledger` | abstract: the life of one replica | instantiated by `Replication` |

The `MC` modules give the constants of the runs; the `Proofs` modules hold the theorems of section 4, those
of `Snapshots` in three: `TrackingProofs` extends `SnapshotsProofs` and `LifecycleProofs` extends that.

### Catalog
A snapshot is its name, a number whose order is the order of names; `Record[n]` holds the columns
fixed when it is taken. The `snapshots` table is a set of names and a function `date`, since
`CURRENT_TIMESTAMP` is the only column the database chooses, and it has a resolution of a second, so
dates collide. The replicas of a target map each name to `"none"`, `"present"` or `"pruned"`. `row_number() > keep` is
"at least `keep` rows come before it". `LIKE 'prefix%'` is the constant relation `Like`.

### Snapshots
`pc[p]` is the next btrfs call, file system check or statement of invocation `p`:

| action | code |
|---|---|
| `StartCreate` `Setup` `Mkdir` | `main.rs:10-13`, `setup_directory_structure` |
| `Take` `Insert` `Rollback` | `manage_creation` 58, 59, 63 |
| `StartDel`, `StartClean` | `manage_deletion` with `find_one`; `keep_only_x` up to its loop |
| `Look` `IsDir` `Delete` `Copies` `Forget` | `delete_record` 494-506, 507-521, 498, 522, 523 |
| `End`, `Crash` | exit; killed between two steps |
| `Unmount` `Mount` `RemoveByHand` `BuildCopy` `Tick` | administrator, `--send`, the clock |

Where a subvolume is depends on what was mounted when it was made: on the snapshots disk, or under
its mount point. Ghost variables (`dropped`, `leaked`, `stray`, `plan`) remember what a property has to except
and guard nothing. The constants that describe the site are
`UnmountLeaves` (does a directory remain?), `CanCreateUnder` (can btrfs make it again?) and
`MountsAnytime` (or only with no invocation running on that machine).

### Replication
`pc[p]` again. A medium holds, for each name, nothing, a subvolume being received by a process, one whose
receive outlives its invocation (`"orphan"`), one without the Received UUID (`"left"`), one that has it
but not all of its data (`"short"`), or a complete one. `exists` and the comparison of the UUID tell only
three of these apart: nothing, marked with the UUID (`Marked`: short or complete), and the rest. A cut
stream may become any of the three: `btrfs receive` takes one that was cut between two commands for whole
(see `Pipe`), over ssh it may live on after the connection broke, and what is built on a cut parent is cut
as well, or fails. A medium has two sides, the disk and the directory under it when it is not mounted. `Place` says which medium a URL leads to from each machine: one
server for all, or a disk each at the same path.

| action | code |
|---|---|
| `StartSend` `NextTarget` | `manage_sending`; `replicated_names` in `replicate_to` 637 |
| `CheckDir` `CheckRecorded` `NextSnapshot` | `replicate_to` 643, 651, 661-708 |
| `LookRemote` `Insert` `Replace` | `replicate_one` 764-783, 820 |
| `ListParents` `TryParent` `Unrecord` | `choose_parent` |
| `Send` `Receive` `Verify` `RemovePartial` | `send_and_receive`, 806-818, `remove_partial` |
| `PruneList` `NextKind` `DeleteVictim` `MarkPruned` | `prune_target`; `StartDel` enters at `DeleteVictim` as `delete_remote_replica` does |
| `Crash` `OrphanEnds` | killed; the receive of a killed invocation, or of a broken ssh connection, ends by itself |
| `Create` `DeleteLocal` `ForgetLocal` | what the operations of `Snapshots` do, in short |
| `Detach` `Attach` `Tamper` | administrator |

Each of these joins calls that read the same thing at one place (`exists`, then `subvolume show`), and
`DeleteVictim` joins the `exists` and the delete of one replica; a failure between them is one of the
failures the step may have.

### Staging
The copies of one exclude list: built, sealed (read-only), which excluded entries each still holds,
and whether another snapshot was nested in it, which is what `btrfs subvolume snapshot` does when the
destination exists. One step per call of `prepare_staging`, one `Filter` step per excluded entry.

### Pipe and Restore
`send_and_receive` and `receive_from_target` are one protocol with ssh around one command or the other,
so `Pipe` models it once: a stream of `Total` chunks, four counters (`sent`, `read`, `fed`, `got`) that
say how many chunks each of the two pipes of `Capacity` holds, and the program's next step in `pump[p]`.
`SpawnSend` `SpawnReceive` `PumpRead` `PumpWrite` `Kill` `WaitSend` `WaitReceive` are the calls of the
code in its order; `Verdict` is its chain of errors. The commands end by themselves, fail, hang, see their
pipe closed or are killed (the sender). Nothing the program does with them has a time limit: `PumpRead`
waits for a sender that hangs, `PumpWrite` and `WaitReceive` for a receiver that does. `btrfs receive` takes a stream cut between two commands
for complete: only the sender's exit status tells.

`Restore` puts the disks around it: `.restore` and what it holds for a name, which receive made that,
receives of killed invocations that still run, the restore target.

| action | code |
|---|---|
| `Start` `Local` `Free` `Remote` `Leftover` `MkDir` | `manage_restoring`, `restore_from_replica` 151-204 |
| `Running` `Sending` `Receiving` `Received` ... | `Pipe`, and what its two ends do to the disks |
| `Transferred` `Verify` | 205-236, the Received UUID |
| `Target` `HasSource` `Snapshot` | `restore_snapshot` |
| `Drop` `RmDir` | 205-210 and 233-253, also after an error |
| `Crash` `Orphan...` | killed; the receive of a killed invocation goes on by itself |
| `Rotate` `Prune` | `--clean` here and retention at the target |

### TreeWalk
`tree` is a constant file system with symlinks into and out of the copy, `there` what is left of it,
`locked` the nodes with the immutable or append-only attribute, and `stack` the directories on the way
down with the entries left of each, as in `remove_tree`. `Locate` is `locate_exclude`: the last name of
a path is not followed, the others are, and a parent outside the copy is refused. `Visit`, `Leave` and
`NextEntry` end with `Unlink`, which is `unlink_at` with its retry. The order of directory entries is
`readdir`'s, so any.

### Startup
The value of an option is where it comes from (command line, file, default), which is all that the rules
of `args.rs` look at. `command[p]` is one of the command lines clap lets through (`Command`), with the
file that goes with it. Then one step per check, btrfs call or SQL statement of
`setup_directory_structure`, `open`, `setup_initial_database` and `migrate_quoted_machines`; each may be
the last of its invocation (`Stop`), and invocations are started again for ever. A machine name is
`"plain"` or `"quoted"`: in the rows of an old version (`Rows`) as versions up to 0.5.3 left it, in the last
snapshot an invocation recorded if its own `--machine` is a name in quotes (`Quoted`). The migration cannot
tell one from the other.

### Lifecycle and Ledger
Abstract specifications of one snapshot and of one replica: a few states and the moves between them.
`Snapshots` and `Replication` map their variables to them (`Life`, `Ledgered`) and `RefinesLifecycle` and
`RefinesLedger` say that every step is one of those moves, of one snapshot or replica, or none.
`Lifecycle` has no move from a row whose snapshot is there to anything but the snapshot deleted, and none
to `"lost"` but from a snapshot that never had a row. `Ledger` has no move to `"held"` without a complete
replica, none out of `"pruned"`, and none from `"held"` to an unrecorded state. It has a state `"cut"`,
recorded but not whole, because the code can get there; from it a replica can only be deleted, never
become whole in place.

## 3. Runs

| run | question | result |
|---|---|---|
| `SnapshotsCore` | `TypeOK` `Tracked` `Retention` `CopiesTracked` `SuccessMeansGone` `RefinesLifecycle`: two invocations on one machine, 3 names, 2 dates, 2 faults | holds |
| `SnapshotsShared` | `OnlyOwnerForgets` `Converges`: two machines, one database, 1 fault, disks mounted at any time | holds |
| `SnapshotsRecreated` | `Tracked` where `--create` can make the unmounted directory again | violated |
| `ReplicationCut` | `RecordedWhole`: one sender, 2 names, 1 fault | violated |
| `ReplicationShared` | `TypeOK` `RecordedPresent` `TargetRetention` `PrunedStaysPruned`: two machines, one server, 4 names, 2 kinds, 1 fault, replicas deleted by hand with and without rusnapshot, the server unmounted at times, also before its first replica | holds |
| `ReplicationLive` | `EventuallyReplicated` `RecordsKept` `RefinesLedger`: two targets, 2 names, 2 faults, a disk unmounted between runs, snapshots deleted here at any time | holds |
| `ReplicationOwnDisks` | `EventuallyReplicated`, two machines with a disk each at one path | violated |
| `StagingTwo` | `TypeOK` `OnlySharedCopiesLeak` `EventuallySent`: two senders, 2 names, 2 entries, 2 faults | holds |
| `StagingTwoSenders` | `NothingExcludedLeaves` with two senders | violated |
| `RestoreOne` | `TypeOK` `NoFalseSuccess` `BlameIsCause` `RestoredWhole` `NothingLeftBehind` `Settles` `EventuallyRestored`: two restores of one snapshot, a stream of 2 chunks, 2 faults | holds |
| `TreeWalk` | `TypeOK` `OnlyExcludedGo` `ClearedAreNeeded` `NothingExcludedStays` `FailsOnlyOutside` `Accounting`: all trees of 3 nodes, lists of 1 or 2 paths, up to 2 attributes | holds |
| `Startup` | `TypeOK` `ReadyForWork` `WalUnlessCutShort` `OptionsAsGiven` `OnlyCreateMakes` `EventuallyWorks`: two invocations, one with a `--machine` in quotes, an old row, 1 fault | holds |

**What the violations are.** `SnapshotsRecreated`: `delete_record` tells an unmounted subvolume from a
deleted snapshot by the existence of the directory, which `--create` has made again, so it forgets a
snapshot that exists. `ReplicationCut`: a replica is adopted by its Received UUID alone, which a transfer
that was cut between two commands has too; if its program was killed, or could not remove it, the next
`--send` records it, although the documentation says that a failed transfer is sent again.
`ReplicationOwnDisks`: the check of the recorded replicas counts the records of other machines at the same
path. `StagingTwoSenders`: a sender seals and sends the copy another has just started over.

`Tracked`, `EventuallyReplicated` and `NothingExcludedLeaves` hold without the circumstance their run adds:
in `SnapshotsCore`, in `ReplicationLive`, and as the theorem `AloneNothingLeaves`. Of `RecordedWhole`,
`RecordedPresent` remains: what is recorded is at the target under its UUID; and `RefinesLedger`: a replica is
recorded cut only if it was found so or built on one that was. Where a recorded replica is cut
`EventuallyReplicated` promises nothing: increments on it may fail on every run.

Other values of the constants leave the conditions in the same way, and TLC reports the violation:
`RecordedPresent` with two `--send` for one target (the second deletes what the first is receiving, also
when it has been completed and recorded since); `Tracked` and `SuccessMeansGone` with `UnmountLeaves = "bare"`
(the directory is itself the mount point and stays) or with `MountsAnytime` (the disk is mounted between the
two checks of `delete_record`): the row goes, without an error, and the snapshot stays; `PrunedStaysPruned`
with a `--send` and a `--del --from-replica` of one machine at once, or of two when the sender has more than one
snapshot (`choose_parent` deletes a row that was marked as pruned since it was read); `TargetRetention` there
too (what is newer is deleted by hand after retention has chosen); `RecordsKept` with `DetachAnytime` (the recorded replicas are checked once
per run) or with the event `"detach_early"` (a send killed while
the disk was away, before anything was recorded there, leaves a partial replica on the root file system,
which the check takes for a replica the next time the disk is away). `RefinesLedger` does not hold where
replicas are deleted by hand while they are looked at (`Tamper`, in `ReplicationShared` only).

Two exceptions are part of properties of `Restore`. `RestoredWhole` and `NothingLeftBehind` leave out
restores that met another of the same replica or target (`crossed`): the second to one target lands inside the
first and reports success, and the second of one replica takes the copy the first has verified for a
leftover. And a restore that is killed after its snapshot was made leaves the received copy in
`.restore`; asking again then stops at the existing target before it gets to the leftover. `BlameIsCause`
leaves out a failed read from the sender, after which the program kills the sender and blames it.
`WalUnlessCutShort` says when a database never gets to WAL mode: the run that made its first table was
ended before the PRAGMA, which no later run issues.

Three differences between text and code that no run is about: the migration of old rows runs on every start
and so takes the quotes from the machine of today's rows if its name was given in quotes
(`database.rs:108-112`; `Startup` has such an invocation), although since 0.6.0 "machine names containing
quotes no longer break snapshot tracking" (`docs/releases/0.6.0.md:19`); `--dry-run` "without touching anything"
(`README.md:26`) opens an existing database as any other run does and so migrates one of an old version; and
`measure_excludes` counts a path under another excluded path twice, and one that leads through a link another
entry removes, so a dry run may report more than a send removes (`Accounting` says never less, and the same
for a list of one entry).

**Bounds.** Names 1..3: retention with `Keep = 1` deletes two, so a candidate can have another
candidate among its newer rows; parents exist with an older and a newer choice. Two dates: equal and
distinct timestamps. `MaxFaults` counts failures, kills and unmounts together; two put one fault in
the handling of another. Two invocations (or machines, or targets) are enough for every interleaving
of a pair; a third would only repeat roles. Two excluded entries: one is removed, one is still there.
Two chunks and pipes of one: the writer meets a full pipe, the reader an empty one, and a stream can be
cut at its start, inside and at its end. Three nodes in a tree: a directory in a directory with an entry,
a symlink on the way or at the end of a path, siblings; two attributes: on an entry and on its directory.
One row of an old version, quoted or not. Four names at a shared server: one machine has two of one kind and
one of another, the other machine has one. `MaxDate`, `MaxFaults`, `Names`, `Events`, `Total`
and the constants that list trees, lists and command lines are the only bounds; with every name used,
`--create` gives up (`OutOfNames`).

**Fairness.** An invocation once started takes its next step (`WF` on `Step`): the operating system
schedules it and commands return. Timers start `--clean` and `--send` again and again (`SF` on
`StartClean`, which an invocation of another kind disables, `WF` on `StartSend`): `Persistent=true` in
the example timers. `Converges` also needs a disk that was taken away to come back some time between
runs (`SF` on `Mount`), and `EventuallyReplicated` that somebody brings the
backup disk back some time between runs (`SF` on `Attach`, which an invocation that runs disables). Nothing is assumed of creations, of people, or of
faults, which are finite by `MaxFaults`; without that a command that always fails converges to
nothing. `StagingTwo` assumes that senders are started for a snapshot that was not sent. In `RestoreOne`
one of the two restores (`Retried`) is asked for again after an error; a command that hangs, on either side,
stays so, and the properties name it. In `Startup` every invocation is started again (`WF` on `Run`).

**Assumptions about the surroundings.** Names of one prefix grow with time (`new_snapshot_name`
carries microseconds; two in the same microsecond, or a clock set back, are not modelled). The kernel refuses to delete a
snapshot that is being sent and to unmount a file system in use. btrfs sets the Received UUID at the
end of a receive, also of a stream that ends between two commands. In `SnapshotsCore` disks are mounted and unmounted with no invocation running; in
`ReplicationLive` a backup disk is away only after replicas were recorded on it, since before that
nothing tells an empty mount point from an empty disk. Two machines never share a snapshots directory.
The database file is not deleted under a running invocation, and a filtered copy does not change under the walk.

## 4. Proofs

TLAPS checks everything in the `Proofs` modules to the last leaf. Each theorem is about `Spec` and holds for
every value of the constants: any number of snapshots, invocations, machines, targets, faults, chunks, rows,
nodes. It rests on the assumption named in the module of each component (`CatalogAssumption`,
`SnapshotsAssumption`, ...), which gives the constants their types and which TLC evaluates in the runs, and on
the hypotheses in its own `ASSUME`, which say under which circumstances the program keeps its word; section 3
names the violation that TLC finds without them.

A safety property is seldom inductive, because the code acts on what it learnt some steps before. The
strengthenings say what an invocation knows at each step and that nobody else takes it away. Every lemma that
a step keeps one has one step per action of `Next`; helpers that several actions use have a lemma each.

| module | theorems | hypotheses |
|---|---|---|
| `SnapshotsProofs` | `TypeOK`, `OnlyOwnerForgets` | |
| | `Retention` | `DisjointSelections` |
| `TrackingProofs` | `Tracked`, `CopiesTracked`, `SuccessMeansGone` | `MountedWithCare` |
| `LifecycleProofs` | `RefinesLifecycle` | `MountedWithCare` |
| `StagingProofs` | `TypeOK`, `OnlySharedCopiesLeak` | |
| | `NothingExcludedLeaves` | one sender |
| `RestoreProofs` | `TypeOK`, `NoFalseSuccess`, `BlameIsCause`, `RestoredWhole`, `NothingLeftBehind` | |
| `StartupProofs` | `TypeOK`, `ReadyForWork`, `WalUnlessCutShort`, `OptionsAsGiven`, `OnlyCreateMakes` | |
| `TreeWalkProofs` | `TypeOK`, `OnlyExcludedGo`, `ClearedAreNeeded`, `NothingExcludedStays`, `FailsOnlyOutside`, `Accounting` | |
| `ReplicationProofs` | `TypeOK` | |
| | `PrunedStaysPruned`, `TargetRetention` | `OneSenderEach` |
| | `RecordedPresent` | `OneSenderEach`, `OwnPlaces` |
| | `RecordsKept` | `OneSenderEach`, `OwnTargets`, `DisksStay` |
| | `RefinesLedger` | the same, and no `"tamper"` |

**Snapshots.** `TypeOK` is inductive as it stands: that a row has a date, and an invocation at work a snapshot
with a generated name, are part of it.
- `WorkInv` adds `Work` (a cleaner's current snapshot is one of those it still means to delete), `Fresh` (a
  snapshot without a row yet is nobody's candidate), `Planned` (without an error, every chosen row that is
  left is still to do) and `Owned` (past the look, the snapshot is of the invocation's machine). It gives
  `OnlyOwnerForgets`, and the half of `SuccessMeansGone` that is about rows.
- `Retention` needs selections that do not overlap (`DisjointSelections`: two invocations that can select one
  snapshot select the same ones; with overlapping prefixes a wider `--clean` may rightly delete what a
  narrower one counts). The case that matters is `Forget`: when a cleaner removes row `m`, another's
  candidate `n` may lose a newer row. But `m` is a candidate itself and so has `Keep` newer rows, each newer
  than `n` too because `Newer` is transitive, and none of them is `m`. The count is compared by cardinality
  of finite sets. Rows a person removed are counted as `dropped`.
- `Tracked` and `CopiesTracked` need `MountedWithCare` (no directory remains at an unmount, it cannot be made
  again, and nothing is mounted while an invocation runs). `delete_record` forgets the row three steps after
  it looked, so `TrackingInv` adds `Ground` (every subvolume is on the snapshots disk, not under its mount
  point) and, for each invocation, `Checked`: what it learnt at each check still holds at the next one.
  Nothing but `Take` creates a subvolume, and never one of an old name. `SuccessMeansGone` follows with
  `Leaked`, which says that what nobody records nor takes any more was not chosen by anybody.
- `RefinesLifecycle` follows from `WorkInv` and `TrackingInv`: nobody deletes a snapshot whose creator has not
  come to its insert, so each step moves the one snapshot it works on as `Lifecycle` allows, and no other.

**Staging.** `StagingInv` relates the parts of a half-built copy: what a sender that met nobody has filtered so
far, and that a sealed copy nobody shared holds nothing excluded, whoever was killed or deleted it before.

**Restore.** `Transfer` relates the counters of the two pipes to the program's step, to how both commands ended
and to the errors it met, at each step of `pump`: a success needs both exit statuses and all chunks.
`Achieved` says what a restore that nobody crossed has done so far; its parts for one process survive the
steps of another because two that share a copy or a target are `crossed` (`Watched`).

**Startup.** `Reached` says what an invocation has made sure of at each step. What no step takes back (`Grows`:
tables, files, directories, an unquoted name) makes it survive the steps of others. `WalUnlessCutShort` comes
from `Journal`, about whoever stands or was stopped just before the PRAGMA.

**TreeWalk.** Trees and lists are finite and a parent is a directory with a smaller number, which is only how
nodes are numbered. The invariant has four parts: `Basic` (the stack is a way down the tree, and with a node
its ancestors are there), `Harmless` (what is gone may go, what was cleared was needed), `Found` (a handled
entry leads nowhere or is being removed) and `Counts` (the bytes are those of the files gone or about to).
Resolving a path is a recursive function of its length. That fewer nodes never make a path lead where it did
not lead before is shown for the least length at which it would fail; that the sums of sizes agree, by adding
one node at a time to the least set for which they would not.

**Replication.** `TypeOK` needs `TypeInv`, which says at which steps there is a target and a snapshot, and that
a subvolume being received belongs to an invocation that is receiving it.
- `OneSenderEach`: one invocation per machine, and `--del --from-replica` only where no other machine uses the
  database; two `--send` of one machine, or a `--del` beside a `--send`, undo what the other relies on
  (section 3). Machines keep out of each other's way, since every query names the machine: that is `Owned` and
  `Recorder` of `SenderInv`. `Queued` says that what is to be sent has no record, `Parents` that the parents
  considered have one, `Retained` that a victim has `Keep` recorded replicas before it. Victims go oldest
  first, so none of those counted goes before it. `TargetRetention` is about the steps that delete and mark
  (`"victim"`, `"mark"`), since the list means nothing at others.
- `OwnPlaces`: two targets of one machine are different places. Then what an invocation writes at its path is
  no other replica, and `Arrived` (the replica was seen with its UUID before the record is written) survives,
  also when a receive that outlived its invocation ends meanwhile, which changes no marked replica.
- `OwnTargets`: a disk holds the replicas of one target. `DisksStay`: disks are changed between invocations,
  not before something is recorded on them, and nothing is deleted by hand. `DiskInv` then says that no
  directory without its disk gets a replica and that an invocation past the check of the recorded replicas
  has its disk, so that what it finds missing is missing on the disk.
- `RefinesLedger` adds `Seen`, that a record is written of a replica that is there, whole or cut, which nobody
  deletes by hand in between, and `Finished`, that nothing recorded is still being received.

**Only model-checked.** Liveness, which is out of reach of the prover as fairness speaks of `ENABLED`:
`Converges`, `EventuallyReplicated`, `EventuallySent`, `Settles`, `EventuallyRestored`, `EventuallyWorks`. All
else that the passing runs check is a theorem, and the constants of those runs satisfy its hypotheses.
`RecordsKept` and `RefinesLedger` are not proved, nor checked by a run, for disks that go away together with
`--del --from-replica`.

## 5. Not modelled

- `--dry-run` past the opening of the database, listing and messages: they change nothing.
- The contents of subvolumes: a replica is whole, cut or without its UUID, a filtered copy holds entries.
- Exit statuses of `--send`: an error gives up one target and is reported at the end (`manage_sending` 612-625).
- Target URLs, quoting, command lines, `normalize_excludes`, the hash of an exclude list, names of hosts
  and paths: string work without state, which the unit tests of the repository cover.
- SQLite's locking: a statement that waits is a step that comes later, one that times out is a fault.
- A power loss that undoes finished writes (page cache, WAL without sync), and so the sync whose failure
  is a warning (`replication.rs:458`).
- `LIKE` with wildcards in a prefix: a relation between prefixes, documented as intended
  (`docs/SETUP_AND_USAGE.md:83`).

## 6. Plan

1. *(done)* `Catalog`, `Snapshots`, `Replication`, `Staging`, their runs, first proofs.
2. *(done)* `Lifecycle` and `Ledger` with their refinements; `Pipe`, `Restore`, `TreeWalk`, `Startup`.
3. *(done)* Proofs of every safety property of the passing runs and of both refinements.
4. Weaker hypotheses, each tried with TLC first: `RecordsKept` with `--del --from-replica`; `Retention` where
   selections overlap, for the widest of them.
5. Consequences of the abstract specifications alone: a snapshot that `Lifecycle` calls deleted stays so, a
   replica that `Ledger` calls pruned stays so; with the refinements these hold of the code.
