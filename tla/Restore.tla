------------------------------ MODULE Restore ------------------------------
(***************************************************************************)
(* --restore, from the local snapshot or with --from-replica: the replica  *)
(* is received into <dest_dir>/.restore, verified, and the restored copy   *)
(* is a snapshot of what was received.  The transfer is module Pipe, step  *)
(* by step.                                                                *)
(*                                                                         *)
(* A received subvolume is "part" while it is written and if that fails,   *)
(* "whole", or "short": its stream was cut where btrfs receive took it for *)
(* complete, so that it carries the right Received UUID.                   *)
(***************************************************************************)
EXTENDS Pipe, FiniteSets

CONSTANTS Names, Places,
          Want,       \* the snapshot and the restore target of an invocation
          Retried     \* the invocations that are started again and again

ASSUME RestoreAssumption ==
    /\ Want \in [Procs -> [name : Names, to : Places]]
    /\ Retried \subseteq Procs /\ "nobody" \notin Procs

VARIABLES
    here,      \* the snapshots on this machine
    replicas,  \* the replicas at the target
    dir,       \* <dest_dir>/.restore exists
    copy,      \* what .restore holds for a name
    by,        \* the invocation whose btrfs receive made it
    orphans,   \* the receives of killed invocations that still run
    at,        \* what a restore target holds
    nested,    \* restore targets with another snapshot inside
    pc,
    crossed,   \* history: others worked on the same copy or target meanwhile
    stray      \* history: names whose copy could not be deleted, or was made
               \* by the receive of a killed invocation

disk   == <<here, replicas, dir, copy, by, orphans, at, nested>>
ghosts == <<crossed, stray>>
vars   == <<pipeVars, disk, pc, ghosts>>

Nobody == "nobody"
Nothing == [name |-> 0, state |-> "none"]
States == {"none", "part", "short", "whole"}
Steps == {"idle", "local", "free", "remote", "leftover", "mkdir", "transfer", "verify",
          "target", "source", "snapshot", "drop", "rmdir", "undo", "failed", "done"}

Init ==
    /\ PipeInit
    /\ here \in SUBSET Names /\ replicas = Names
    /\ dir = FALSE
    /\ copy = [n \in Names |-> "none"] /\ by = [n \in Names |-> Nobody]
    /\ orphans = {}
    /\ at = [t \in Places |-> Nothing] /\ nested = {}
    /\ pc = [p \in Procs |-> [step |-> "idle", remote |-> FALSE]]
    /\ crossed = {} /\ stray = {}

-----------------------------------------------------------------------------
Name(p) == Want[p].name
Place(p) == Want[p].to
Step(p) == pc[p].step
Goto(p, s) == pc' = [pc EXCEPT ![p].step = s]

(* A step that only looks: on to the next one, or the end with an error. *)
Check(p, s, ok, next) ==
    /\ Step(p) = s
    /\ Goto(p, IF ok THEN next ELSE "failed")
    /\ UNCHANGED <<pipeVars, disk, ghosts>>

(* btrfs subvolume delete of the received copy; a receive that still writes *)
(* into it will fail.                                                       *)
DropCopy(n) ==
    /\ copy' = [copy EXCEPT ![n] = "none"] /\ by' = [by EXCEPT ![n] = Nobody]
    /\ orphans' = {o \in orphans : ~ (o.name = n /\ o.made)}

Owns(p) == by[Name(p)] = p

(* Other invocations at work on the copy or the target of p. *)
Rivals(p) == {q \in Procs \ {p} :
                 /\ Step(q) # "idle"
                 /\ Name(q) = Name(p) \/ Place(q) = Place(p)}

-----------------------------------------------------------------------------
(* manage_restoring; the arguments choose the snapshot or a replica. *)

Start(p, from) ==
    /\ Step(p) = "idle"
    /\ IF p \in Retried THEN UNCHANGED faults ELSE Fault
    /\ pc' = [pc EXCEPT ![p] = [step |-> IF from = "replica" THEN "local" ELSE "target",
                               remote |-> from = "replica"]]
    /\ crossed' = IF Rivals(p) = {} THEN crossed \ {p} ELSE crossed \union {p} \union Rivals(p)
    /\ UNCHANGED <<transfer, disk, stray>>

(* restore_from_replica: what must not be here yet, and what must be there. *)
Local(p)  == Check(p, "local", Name(p) \notin here, "free")
Free(p)   == Check(p, "free", at[Place(p)] = Nothing, "remote")
Remote(p) == Check(p, "remote", Name(p) \in replicas, "leftover")

(* A copy left behind by an interrupted run is deleted first. *)
Leftover(p) ==
    /\ Step(p) = "leftover"
    /\ \/ DropCopy(Name(p)) /\ Goto(p, "mkdir") /\ UNCHANGED faults
       \/ /\ copy[Name(p)] # "none" /\ Fault /\ Goto(p, "failed")
          /\ UNCHANGED <<copy, by, orphans>>
    /\ UNCHANGED <<transfer, here, replicas, dir, at, nested, ghosts>>

MkDirOnce(p) == \* a bug: create_dir, which fails when .restore is there
    /\ Step(p) = "mkdir"
    /\ dir' = TRUE
    /\ IF dir THEN Goto(p, "failed") /\ UNCHANGED transfer
              ELSE Goto(p, "transfer") /\ Rewind(p, "send")
    /\ UNCHANGED <<faults, here, replicas, copy, by, orphans, at, nested, ghosts>>

(* create_dir_all, and the transfer begins. *)
MkDir(p) ==
    /\ Step(p) = "mkdir"
    /\ dir' = TRUE /\ Goto(p, "transfer") /\ Rewind(p, "send")
    /\ UNCHANGED <<faults, here, replicas, copy, by, orphans, at, nested, ghosts>>

-----------------------------------------------------------------------------
(* receive_from_target: the pipe, and what its two ends do to the disks. *)

Running(p) == /\ Program(p) \/ SenderEnds(p) \/ ReceiverFails(p)
              /\ UNCHANGED <<disk, pc, ghosts>>

(* The sender has a replica to read. *)
Sending(p) == /\ Name(p) \in replicas /\ SenderWrites(p)
              /\ UNCHANGED <<disk, pc, ghosts>>

SenderLosesReplica(p) ==
    /\ sender[p] = "run" /\ Name(p) \notin replicas
    /\ Sender(p, "failed")
    /\ UNCHANGED <<stream, receiver, pump, readErr, writeErr, result, faults, disk, pc, ghosts>>

(* The first chunk creates the subvolume; the others need it still there. *)
Receiving(p) ==
    LET n == Name(p) IN
    /\ IF got[p] = 0 THEN dir /\ copy[n] = "none" ELSE Owns(p)
    /\ ReceiverReads(p)
    /\ copy' = [copy EXCEPT ![n] = "part"] /\ by' = [by EXCEPT ![n] = p]
    /\ UNCHANGED <<here, replicas, dir, orphans, at, nested, pc, ghosts>>

ReceiverLosesCopy(p) ==
    /\ receiver[p] = "run"
    /\ IF got[p] = 0 THEN fed[p] > 0 /\ ~ (dir /\ copy[Name(p)] = "none") ELSE ~ Owns(p)
    /\ Receiver(p, "failed")
    /\ UNCHANGED <<stream, sender, pump, readErr, writeErr, result, faults, disk, pc, ghosts>>

(* The end of the stream: a receive that succeeds sets the Received UUID. *)
Received(p) ==
    /\ got[p] > 0 => Owns(p)
    /\ ReceiverSeesEnd(p)
    /\ (got[p] = 0) => receiver'[p] = "short"   \* an empty stream is refused
    /\ copy' = IF receiver'[p] = "ok"
               THEN [copy EXCEPT ![Name(p)] = IF got[p] = Total THEN "whole" ELSE "short"]
               ELSE copy
    /\ UNCHANGED <<here, replicas, dir, by, orphans, at, nested, pc, ghosts>>

(* Back in restore_from_replica; a failed transfer is cleaned up. *)
Transferred(p) ==
    /\ Step(p) = "transfer" /\ pump[p] = "over"
    /\ Goto(p, IF result[p] = "ok" THEN "verify" ELSE "undo")
    /\ UNCHANGED <<pipeVars, disk, ghosts>>

-----------------------------------------------------------------------------
(* The Received UUID is compared; it is set on a short copy as well. *)
Verify(p) ==
    /\ Step(p) = "verify"
    /\ \/ Goto(p, IF copy[Name(p)] \in {"whole", "short"} THEN "target" ELSE "undo") /\ UNCHANGED faults
       \/ Fault /\ Goto(p, "undo")
    /\ UNCHANGED <<transfer, disk, ghosts>>

(* restore_snapshot: both checks, then btrfs subvolume snapshot. *)
Give(p) == IF pc[p].remote THEN "undo" ELSE "failed"
Source(p) == IF pc[p].remote THEN copy[Name(p)]
             ELSE IF Name(p) \in here THEN "whole" ELSE "none"

TargetUnchecked(p) == \* a bug: an existing target is not refused
    /\ Step(p) = "target" /\ Goto(p, "source")
    /\ UNCHANGED <<pipeVars, disk, ghosts>>

Target(p) ==
    /\ Step(p) = "target"
    /\ Goto(p, IF at[Place(p)] = Nothing THEN "source" ELSE Give(p))
    /\ UNCHANGED <<pipeVars, disk, ghosts>>

HasSource(p) ==
    /\ Step(p) = "source"
    /\ Goto(p, IF Source(p) # "none" THEN "snapshot" ELSE Give(p))
    /\ UNCHANGED <<pipeVars, disk, ghosts>>

(* Onto a directory made since the check, the snapshot lands inside it. *)
Snapshot(p) ==
    LET t == Place(p) IN
    /\ Step(p) = "snapshot"
    /\ \/ /\ Source(p) # "none" /\ at[t] = Nothing
          /\ at' = [at EXCEPT ![t] = [name |-> Name(p), state |-> Source(p)]]
          /\ Goto(p, IF pc[p].remote THEN "drop" ELSE "done") /\ UNCHANGED <<nested, faults>>
       \/ /\ Source(p) # "none" /\ at[t] # Nothing /\ t \notin nested
          /\ nested' = nested \union {t}
          /\ Goto(p, IF pc[p].remote THEN "drop" ELSE "done") /\ UNCHANGED <<at, faults>>
       \/ /\ Source(p) = "none" \/ t \in nested
          /\ Goto(p, Give(p)) /\ UNCHANGED <<at, nested, faults>>
       \/ Fault /\ Goto(p, Give(p)) /\ UNCHANGED <<at, nested>>
    /\ UNCHANGED <<transfer, here, replicas, dir, copy, by, orphans, ghosts>>

DropNever(p) == \* a bug: the received copy is left in .restore
    /\ Step(p) = "drop" /\ Goto(p, "rmdir")
    /\ UNCHANGED <<pipeVars, disk, ghosts>>

(* The received copy is deleted, with a warning when that fails; after an   *)
(* error without one.                                                       *)
Drop(p) ==
    /\ Step(p) \in {"drop", "undo"}
    /\ Goto(p, IF Step(p) = "drop" THEN "rmdir" ELSE "failed")
    /\ \/ DropCopy(Name(p)) /\ stray' = stray \ {Name(p)} /\ UNCHANGED faults
       \/ /\ copy[Name(p)] # "none" /\ Fault
          /\ stray' = stray \union {Name(p)} /\ UNCHANGED <<copy, by, orphans>>
    /\ UNCHANGED <<transfer, here, replicas, dir, at, nested, crossed>>

RmDirAll(p) == \* a bug: .restore is gone, whatever was in it
    /\ Step(p) = "rmdir" /\ Goto(p, "done")
    /\ dir' = FALSE
    /\ UNCHANGED <<pipeVars, here, replicas, copy, by, orphans, at, nested, ghosts>>

(* remove_dir: only when nothing is left in it. *)
RmDir(p) ==
    /\ Step(p) = "rmdir" /\ Goto(p, "done")
    /\ dir' = (\E n \in Names : copy[n] # "none")
    /\ UNCHANGED <<pipeVars, here, replicas, copy, by, orphans, at, nested, ghosts>>

(* The process ends and may be started again. *)
End(p) ==
    /\ Step(p) \in {"done", "failed"} /\ Goto(p, "idle") /\ Rewind(p, "off")
    /\ UNCHANGED <<faults, disk, ghosts>>

(* Killed: its commands see their pipes close and end by themselves; one    *)
(* that hangs does nothing more.                                            *)
Crash(p) ==
    /\ Step(p) \notin {"idle", "done", "failed"} /\ Fault
    /\ Goto(p, "idle") /\ Rewind(p, "off")
    /\ orphans' = IF receiver[p] = "run" /\ fed[p] > 0 /\ (got[p] > 0 => Owns(p))
                  THEN orphans \union {[name |-> Name(p), made |-> got[p] > 0, whole |-> fed[p] = Total]}
                  ELSE orphans
    /\ UNCHANGED <<here, replicas, dir, copy, by, at, nested, ghosts>>

(* The btrfs receive of a killed invocation. It ends as any other does: a   *)
(* cut stream may look whole to it, and it may fail.                        *)
OrphanCreates(o) ==
    /\ o \in orphans /\ ~ o.made
    /\ IF dir /\ copy[o.name] = "none"
       THEN /\ orphans' = (orphans \ {o}) \union {[o EXCEPT !.made = TRUE]}
            /\ copy' = [copy EXCEPT ![o.name] = "part"]
            /\ stray' = stray \union {o.name}
       ELSE orphans' = orphans \ {o} /\ UNCHANGED <<copy, stray>>
    /\ UNCHANGED <<pipeVars, here, replicas, dir, by, at, nested, pc, crossed>>

OrphanEnds(o) ==
    /\ o \in orphans /\ o.made
    /\ orphans' = orphans \ {o}
    /\ \/ /\ copy[o.name] = "part"
          /\ copy' = [copy EXCEPT ![o.name] = IF o.whole THEN "whole" ELSE "short"]
       \/ UNCHANGED copy
    /\ UNCHANGED <<pipeVars, here, replicas, dir, by, at, nested, pc, ghosts>>

(* --clean here, and the retention of the target. *)
Rotate(n) == /\ n \in here /\ here' = here \ {n}
             /\ UNCHANGED <<pipeVars, replicas, dir, copy, by, orphans, at, nested, pc, ghosts>>
Prune(n)  == /\ n \in replicas /\ replicas' = replicas \ {n}
             /\ \A p \in Procs : Name(p) = n => ~ Alive(p)
             /\ UNCHANGED <<pipeVars, here, dir, copy, by, orphans, at, nested, pc, ghosts>>

-----------------------------------------------------------------------------
Work(p) ==
    \/ Local(p) \/ Free(p) \/ Remote(p) \/ Leftover(p) \/ MkDir(p)
    \/ Running(p) \/ Sending(p) \/ SenderLosesReplica(p)
    \/ Receiving(p) \/ ReceiverLosesCopy(p) \/ Received(p) \/ Transferred(p)
    \/ Verify(p) \/ Target(p) \/ HasSource(p) \/ Snapshot(p)
    \/ Drop(p) \/ RmDir(p) \/ End(p)

Orphan == \E o \in orphans : OrphanCreates(o) \/ OrphanEnds(o)

Next == \/ \E p \in Procs : (\E from \in {"here", "replica"} : Start(p, from)) \/ Work(p) \/ Crash(p)
        \/ Orphan
        \/ \E n \in Names : Rotate(n) \/ Prune(n)

Spec == Init /\ [][Next]_vars

(* The program and both commands run on; someone who wants the snapshot     *)
(* back asks again after an error, from a replica once it is not here.      *)
Fairness ==
    /\ WF_vars(Orphan) /\ \A p \in Procs : WF_vars(Work(p))
    /\ \A p \in Retried, from \in {"here", "replica"} : SF_vars(Start(p, from))
FairSpec == Spec /\ Fairness
-----------------------------------------------------------------------------
(* The type invariant; a copy that is being received belongs to somebody. *)
TypeOK ==
    /\ PipeOK
    /\ here \subseteq Names /\ replicas \subseteq Names /\ dir \in BOOLEAN
    /\ copy \in [Names -> States] /\ by \in [Names -> Procs \union {Nobody}]
    /\ orphans \subseteq [name : Names, made : BOOLEAN, whole : BOOLEAN]
    /\ at \in [Places -> [name : Names \union {0}, state : States]]
    /\ nested \subseteq {t \in Places : at[t] # Nothing}
    /\ pc \in [Procs -> [step : Steps, remote : BOOLEAN]]
    /\ crossed \subseteq Procs /\ stray \subseteq Names
    /\ \A n \in Names : copy[n] # "none" => dir

Restored(p) == at[Place(p)] = [name |-> Name(p), state |-> "whole"] /\ Place(p) \notin nested

(* A restore that succeeds put the whole snapshot, and nothing else, at its *)
(* target, whatever an interrupted one left behind, unless another restore  *)
(* worked on the same snapshot or target meanwhile (controller.rs:195-246). *)
RestoredWhole ==
    \A p \in Procs \ crossed : Step(p) = "done" => Restored(p)

(* And it leaves no received copy behind, unless deleting it failed, or the *)
(* receive of a killed invocation came late (docs:111, controller.rs:250).  *)
NothingLeftBehind ==
    \A p \in Procs \ crossed :
        Step(p) = "done" /\ pc[p].remote /\ Name(p) \notin stray => copy[Name(p)] = "none"

(* Asking again gets the snapshot back in the end: neither an interrupted   *)
(* restore nor its leftovers are in the way, as long as the replica stays   *)
(* and no command of a restore hangs for ever.                              *)
EventuallyRestored ==
    \A p \in Retried :
        \/ <>(at[Place(p)] # Nothing \/ Name(p) \notin replicas)
        \/ <>[](\E q \in Procs : "hung" \in {sender[q], receiver[q]})
=============================================================================
