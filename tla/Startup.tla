------------------------------ MODULE Startup ------------------------------
(***************************************************************************)
(* From the command line to an open database: the options and the file     *)
(* they are completed from, the snapshots directory, and the schema, which *)
(* is made and migrated statement by statement by every invocation,        *)
(* alongside the others.                                                   *)
(*                                                                         *)
(* The value of an option is where it comes from: "cli", "file" or         *)
(* "default".  The directories dest_dir names are named the same way.      *)
(***************************************************************************)
EXTENDS Naturals, FiniteSets

CONSTANTS Procs,
          Commands,    \* the command lines each of them may be started with
          Rows,        \* the rows an older version left
          Quoted,      \* invocations whose --machine is itself a name in quotes
          DbDir,       \* the directory of the database file
          MaxFaults    \* bound: errors and kills

Dirs == {"cli", "file"}
Options == {"dest_dir", "source_dir"}
Operations == {"create", "del", "clean", "restore", "send", "none"}

(* The command lines clap lets through, each with its configuration file. *)
Command ==
    {c \in [op : Operations, list : BOOLEAN, dry : BOOLEAN, cli : SUBSET Options,
            target : BOOLEAN, from_replica : BOOLEAN,
            config : SUBSET Options, broken : BOOLEAN,
            replicate : {"default", "file", "invalid"}] :
        /\ "dest_dir" \in c.cli => c.op \in {"create", "restore", "none"}
        /\ "source_dir" \in c.cli => c.op \in {"create", "none"}
        /\ c.op = "create" => ~ c.list
        /\ c.target => c.op = "send"
        /\ c.from_replica => c.op \notin {"create", "clean", "send"}}

ASSUME StartupAssumption ==
    /\ Commands \in [Procs -> SUBSET Command]
    /\ Quoted \subseteq Procs /\ Rows \intersect Procs = {}
    /\ DbDir \in Dirs /\ MaxFaults \in Nat

VARIABLES
    command,   \* the command line of each invocation, the same at every start
    opt,       \* Args: where the value of each option comes from
    pc,
    dirs,      \* the directories that exist
    file,      \* the database file exists
    tables, wal,
    machines,  \* the column machine: of Rows, and of the last snapshot each
               \* invocation recorded
    faults,
    cutShort   \* history: an invocation ended between CREATE TABLE and PRAGMA

db   == <<file, tables, wal, machines>>
vars == <<command, opt, pc, dirs, db, faults, cutShort>>

Unset == [f \in Options \union {"replicate"} |-> "default"]
Steps == {"idle", "parse", "normalize", "required", "dest", "mkdest", "look", "mkparent",
          "connect", "snapshots", "create", "pragma", "replicas", "add", "count", "strip",
          "operate", "list", "failed", "done"}

Tables == {"snapshots", "replicas"}

(* No file, an empty one, one of before the replicas (where a version up   *)
(* to 0.5.3 may have left quoted names), or one of today.                  *)
Init ==
    /\ command \in {c \in [Procs -> Command] : \A p \in Procs : c[p] \in Commands[p]}
    /\ opt = [p \in Procs |-> Unset]
    /\ pc = [p \in Procs |-> [step |-> "idle", memory |-> FALSE]]
    /\ dirs \in SUBSET Dirs /\ file \in BOOLEAN
    /\ tables \in {{}, {"snapshots"}, Tables}
    /\ file => DbDir \in dirs
    /\ tables # {} => file
    /\ wal = (tables # {})
    /\ machines \in [Rows \union Procs -> {"none", "plain", "quoted"}]
    /\ \A p \in Procs : machines[p] = "none"
    /\ \A r \in Rows : machines[r] = "plain" \/ (machines[r] = "quoted" /\ tables = {"snapshots"})
    /\ faults = 0 /\ cutShort = FALSE

Step(p) == pc[p].step
Op(p) == command[p].op
Goto(p, s) == pc' = [pc EXCEPT ![p].step = s]

(* A step that only looks: on to the next one, or the end with an error. *)
Check(p, s, ok, next) ==
    /\ Step(p) = s
    /\ Goto(p, IF ok THEN next ELSE "failed")
    /\ UNCHANGED <<command, opt, dirs, db, faults, cutShort>>

-----------------------------------------------------------------------------
(* parse_with_config and normalize. *)

(* merge_into: the file fills what the command line leaves open. *)
Merged(c) ==
    [f \in Options |-> IF f \in c.cli THEN "cli"
                       ELSE IF f \in c.config THEN "file" ELSE "default"]

DropFileDestFirst(c) == \* a bug: dest_dir is cleared before the file is merged
    [f \in Options \union {"replicate"} |->
        IF f = "replicate" THEN (IF c.target THEN "cli" ELSE c.replicate) ELSE Merged(c)[f]]

(* from_matches: dest_dir of the file is not where to restore to, and      *)
(* --target replaces the targets of the file.                              *)
Effective(c) ==
    [f \in Options \union {"replicate"} |->
        CASE f = "replicate" -> IF c.target THEN "cli" ELSE c.replicate
          [] f = "dest_dir" /\ c.op = "restore" /\ f \notin c.cli -> "default"
          [] OTHER -> Merged(c)[f]]

Readable(c) == ~ c.broken /\ (c.from_replica => c.op \in {"restore", "del"})

FromMatches(p) ==
    /\ Step(p) = "parse"
    /\ IF Readable(command[p])
       THEN opt' = [opt EXCEPT ![p] = Effective(command[p])] /\ Goto(p, "normalize")
       ELSE Goto(p, "failed") /\ UNCHANGED opt
    /\ UNCHANGED <<command, dirs, db, faults, cutShort>>

Normalize(p) ==
    Check(p, "normalize", opt[p].replicate # "invalid",
          IF Op(p) = "create" THEN "required" ELSE "look")

CheckCreationRequirements(p) ==
    Check(p, "required", \A f \in Options : opt[p][f] # "default", "dest")

-----------------------------------------------------------------------------
(* setup_directory_structure. *)

LookForDestNever(p) == \* a bug: the directory is always created
    Check(p, "dest", TRUE, IF command[p].dry THEN "look" ELSE "mkdest")

LookForDest(p) ==
    Check(p, "dest", TRUE,
          IF opt[p].dest_dir \in dirs \/ command[p].dry THEN "look" ELSE "mkdest")

(* btrfs subvolume create fails when another invocation was faster. *)
MkDest(p) ==
    /\ Step(p) = "mkdest"
    /\ dirs' = dirs \union {opt[p].dest_dir}
    /\ Goto(p, IF opt[p].dest_dir \in dirs THEN "failed" ELSE "look")
    /\ UNCHANGED <<command, opt, db, faults, cutShort>>

-----------------------------------------------------------------------------
(* database::open. *)

LookForFileOnly(p) == \* a bug: a missing directory is not created
    Check(p, "look", file \/ Op(p) = "create", "connect")

LookForFileLast(p) == \* a bug: --dry-run is looked at after --create
    /\ Step(p) = "look"
    /\ pc' = [pc EXCEPT ![p] =
          [step |-> CASE file -> "connect"
                      [] ~ file /\ Op(p) # "create" /\ command[p].dry -> "operate"
                      [] ~ file /\ Op(p) # "create" /\ ~ command[p].dry -> "failed"
                      [] OTHER -> IF DbDir \in dirs THEN "connect" ELSE "mkparent",
           memory |-> ~ file /\ Op(p) # "create" /\ command[p].dry]]
    /\ UNCHANGED <<command, opt, dirs, db, faults, cutShort>>

LookForFile(p) ==
    /\ Step(p) = "look"
    /\ pc' = [pc EXCEPT ![p] =
          [step |-> CASE file -> "connect"
                      [] ~ file /\ command[p].dry -> "operate"
                      [] ~ file /\ ~ command[p].dry /\ Op(p) # "create" -> "failed"
                      [] OTHER -> IF DbDir \in dirs THEN "connect" ELSE "mkparent",
           memory |-> ~ file /\ command[p].dry]]
    /\ UNCHANGED <<command, opt, dirs, db, faults, cutShort>>

MkParent(p) ==
    /\ Step(p) = "mkparent"
    /\ dirs' = dirs \union {DbDir} /\ Goto(p, "connect")
    /\ UNCHANGED <<command, opt, db, faults, cutShort>>

(* sqlite::open makes the file, empty, when there is none. *)
Connect(p) ==
    /\ Step(p) = "connect"
    /\ file' = TRUE /\ Goto(p, "snapshots")
    /\ UNCHANGED <<command, opt, dirs, tables, wal, machines, faults, cutShort>>

-----------------------------------------------------------------------------
(* setup_initial_database, one statement at a time. *)

FindSnapshotsOnly(p) == \* a bug: the replicas are made with a new database only
    Check(p, "snapshots", TRUE, IF "snapshots" \in tables THEN "count" ELSE "create")

FindSnapshots(p) ==
    Check(p, "snapshots", TRUE, IF "snapshots" \in tables THEN "replicas" ELSE "create")

(* CREATE TABLE fails when the table has been created since it was looked for. *)
CreateTable(p, s, t, next) ==
    /\ Step(p) = s
    /\ tables' = tables \union {t}
    /\ Goto(p, IF t \in tables THEN "failed" ELSE next)
    /\ UNCHANGED <<command, opt, dirs, file, wal, machines, faults, cutShort>>

CreateSnapshotsOnly(p) == \* a bug: the journal mode is left as it is
    CreateTable(p, "create", "snapshots", "replicas")

CreateSnapshots(p) == CreateTable(p, "create", "snapshots", "pragma")

SetWal(p) ==
    /\ Step(p) = "pragma"
    /\ wal' = TRUE /\ Goto(p, "replicas")
    /\ UNCHANGED <<command, opt, dirs, file, tables, machines, faults, cutShort>>

FindReplicas(p) ==
    Check(p, "replicas", TRUE, IF "replicas" \in tables THEN "count" ELSE "add")

CreateReplicas(p) == CreateTable(p, "add", "replicas", "count")

(* migrate_quoted_machines: first SELECT, then UPDATE. *)
CountQuoted(p) ==
    Check(p, "count", TRUE,
          IF \E r \in DOMAIN machines : machines[r] = "quoted" THEN "strip" ELSE "operate")

Unquoted(m) == IF m = "quoted" THEN "plain" ELSE m

Strip(p) ==
    /\ Step(p) = "strip"
    /\ machines' = [r \in DOMAIN machines |-> Unquoted(machines[r])]
    /\ Goto(p, "operate")
    /\ UNCHANGED <<command, opt, dirs, file, tables, wal, faults, cutShort>>

-----------------------------------------------------------------------------
(* try_run. *)

Start(p) == Check(p, "idle", TRUE, "parse")

(* The --machine of an invocation. *)
Given(p) == IF p \in Quoted THEN "quoted" ELSE "plain"

(* The operation, which may fail, and --list after it.  A --create records *)
(* the machine with its snapshot.                                          *)
Operate(p) ==
    /\ Step(p) = "operate"
    /\ \/ /\ Goto(p, IF command[p].list THEN "list" ELSE "done")
          /\ machines' = IF Op(p) = "create" /\ ~ command[p].dry
                         THEN [machines EXCEPT ![p] = Given(p)] ELSE machines
       \/ Op(p) # "none" /\ Goto(p, "failed") /\ UNCHANGED machines
    /\ UNCHANGED <<command, opt, dirs, file, tables, wal, faults, cutShort>>

List(p) == \E ok \in BOOLEAN : Check(p, "list", ok, "done")

End(p) ==
    /\ Step(p) \in {"failed", "done"}
    /\ pc' = [pc EXCEPT ![p] = [step |-> "idle", memory |-> FALSE]]
    /\ opt' = [opt EXCEPT ![p] = Unset]
    /\ UNCHANGED <<command, dirs, db, faults, cutShort>>

(* An error before the step has an effect (a busy database, a full disk),  *)
(* or a kill.                                                              *)
Stop(p) ==
    /\ Step(p) \notin {"idle", "failed", "done"}
    /\ faults < MaxFaults /\ faults' = faults + 1
    /\ Goto(p, "failed")
    /\ cutShort' = (cutShort \/ Step(p) = "pragma")
    /\ UNCHANGED <<command, opt, dirs, db>>

Run(p) ==
    \/ Start(p) \/ FromMatches(p) \/ Normalize(p) \/ CheckCreationRequirements(p)
    \/ LookForDest(p) \/ MkDest(p)
    \/ LookForFile(p) \/ MkParent(p) \/ Connect(p)
    \/ FindSnapshots(p) \/ CreateSnapshots(p) \/ SetWal(p)
    \/ FindReplicas(p) \/ CreateReplicas(p) \/ CountQuoted(p) \/ Strip(p)
    \/ Operate(p) \/ List(p) \/ End(p)

Next == \E p \in Procs : Run(p) \/ Stop(p)

Spec == Init /\ [][Next]_vars

(* Every invocation is started again by its timer, and keeps running. *)
FairSpec == Spec /\ \A p \in Procs : WF_vars(Run(p))

-----------------------------------------------------------------------------
Working(p) == Step(p) \in {"operate", "list"}
OnFile(p) == Working(p) /\ ~ pc[p].memory

(* The shape of the state.  A database file is in a directory, and its     *)
(* tables are in it.                                                       *)
TypeOK ==
    /\ command \in [Procs -> Command]
    /\ opt \in [Procs -> [Options \union {"replicate"} -> {"cli", "file", "default", "invalid"}]]
    /\ pc \in [Procs -> [step : Steps, memory : BOOLEAN]]
    /\ dirs \subseteq Dirs /\ tables \subseteq Tables
    /\ machines \in [Rows \union Procs -> {"none", "plain", "quoted"}]
    /\ wal \in BOOLEAN /\ file \in BOOLEAN /\ cutShort \in BOOLEAN /\ faults \in 0..MaxFaults
    /\ file => DbDir \in dirs
    /\ tables # {} => file

(* Whoever gets past open() has the whole schema under it and finds the    *)
(* machine names an older version left in quotes without them, whatever    *)
(* other invocations were doing to the file at the same time.              *)
ReadyForWork ==
    \A p \in Procs : OnFile(p) => tables = Tables /\ \A r \in Rows : machines[r] # "quoted"

(* The database one works on is in WAL mode, as the error message of       *)
(* open() says, unless an invocation ended or still stands between the     *)
(* statement that makes the table and the one that sets the mode.          *)
WalUnlessCutShort ==
    (\E p \in Procs : OnFile(p)) => wal \/ cutShort \/ \E q \in Procs : Step(q) = "pragma"

(* What the command line says counts, then the file; a restore never goes  *)
(* to the dest_dir of the file, where the snapshots are, and --create has  *)
(* both directories.                                                       *)
OptionsAsGiven == \A p \in Procs : LET c == command[p] IN
    Working(p) =>
        /\ \A f \in c.cli : opt[p][f] = "cli"
        /\ \A f \in c.config \ c.cli :
              opt[p][f] = (IF f = "dest_dir" /\ c.op = "restore" THEN "default" ELSE "file")
        /\ c.op = "create" => c.cli \union c.config = Options
        /\ c.target => opt[p].replicate = "cli"

(* Directories and the file come into being through a --create that is not *)
(* a dry run, also when the file is looked for before another makes it.    *)
OnlyCreateMakes ==
    [][dirs' # dirs \/ file' # file =>
          \E p \in Procs : Op(p) = "create" /\ ~ command[p].dry /\ pc'[p] # pc[p]]_vars

(* An invocation whose options are good and that has, may make or does not *)
(* need a database gets to work when it is tried again and again: no table *)
(* or directory that exists already stops it for ever.                     *)
Sound(c) ==
    /\ Readable(c) /\ Effective(c).replicate # "invalid"
    /\ c.op = "create" => c.cli \union c.config = Options

EventuallyWorks == \A p \in Procs :
    (Sound(command[p]) /\ (file \/ Op(p) = "create" \/ command[p].dry)) ~> Working(p)
=============================================================================
