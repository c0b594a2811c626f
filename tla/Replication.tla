----------------------------- MODULE Replication -----------------------------
(***************************************************************************)
(* --send and --del --from-replica: the replicas of read-only snapshots at *)
(* their targets, and the replicas table that remembers them.              *)
(*                                                                         *)
(* A target is the URL in the configuration; which medium (backup disk or  *)
(* server) a URL leads to depends on the machine.  What a path at a medium *)
(* holds is                                                                *)
(*   "none"      nothing                                                   *)
(*   a process   the subvolume its btrfs receive is still writing          *)
(*   "orphan"    one whose btrfs receive outlives its invocation           *)
(*   "left"      a subvolume without the Received UUID of the snapshot     *)
(*   "short"     one that has it, but lacks the end of its stream or is    *)
(*               built on a parent that does: btrfs receive takes a stream *)
(*               cut between two commands for a whole one (module Pipe)    *)
(*   "complete"  a whole one, with the UUID                                *)
(* When the target is a mount point and the disk is not mounted, the path  *)
(* leads to a second set of contents, the "bare" side of the medium.       *)
(*                                                                         *)
(* Each command at the target, each file system check and each SQL         *)
(* statement is a step.  Filtered copies are built before the send by      *)
(* module Staging; here a snapshot stands for what is sent.                *)
(***************************************************************************)
EXTENDS Catalog

CONSTANTS Procs, Host,     \* invocations, and the machine each runs on
          Ops,             \* {"send"}, {"del"} (--del --from-replica) or both
          Targets, Media,
          Place,           \* the medium of each target, per machine
          Prefix,          \* --prefix of each invocation
          Keep,            \* keep of each target, 0 when not configured
          MaxFaults,       \* bound: failed commands, kills and disks taken away
          DetachLeaves,    \* the target directory without the disk
          DetachAnytime,   \* a disk may be (un)mounted while invocations run
          Events           \* what happens around the program

ASSUME ReplicationAssumption ==
    /\ Host \in [Procs -> Machines]
    /\ Ops \in [Procs -> SUBSET {"send", "del"}]
    /\ Place \in [Machines -> [Targets -> Media]]
    /\ Prefix \in [Procs -> Prefixes]
    /\ Keep \in [Targets -> Nat] /\ MaxFaults \in Nat
    /\ DetachLeaves \in {"bare", "gone"} /\ DetachAnytime \in BOOLEAN
    /\ Events \subseteq {"clean", "detach", "detach_early", "tamper"}
    /\ Procs \intersect {"none", "orphan", "left", "short", "complete"} = {}
    /\ "none" \notin Targets

VARIABLES
    rows,     \* names in the snapshots table
    disk,     \* names whose snapshot is on its machine
    used,     \* names taken so far
    recs,     \* replicas table: per target, "none", "present" or "pruned"
    media,    \* what the replica paths hold, per medium and side
    mount,    \* the side paths lead to now: "disk", "bare", or "gone"
    faults,
    pc,       \* next step of each invocation
    left,     \* targets not yet processed
    tgt,      \* the target being processed
    pending,  \* the snapshots to replicate, read once
    todo,     \* those not yet handled for this target
    cur, parent,
    cands,    \* parents not yet looked at
    kinds,    \* kinds whose retention is still to be applied
    victims,  \* replicas still to delete at the target
    byHand,   \* the invocation is a --del --from-replica
    removed   \* history: replicas deleted by retention, --del or a person and
              \* not received again since

tables == <<rows, recs>>
world  == <<disk, used, media, mount, removed>>
queue  == <<left, tgt, pending, todo>>
work   == <<cur, parent, cands, kinds, victims, byHand>>
vars   == <<tables, world, faults, queue, work, pc>>

NoTarget == "none"
Steps == {"idle", "target", "dir", "recorded", "next", "remote", "adopt",
          "replace", "parents", "parent", "unrecord", "send", "receive",
          "verify", "record", "unsend", "prune", "kind", "victim", "mark", "done"}
Status == {"none", "orphan", "left", "short", "complete"} \union Procs
Sides  == {"disk", "bare"}

Init ==
    /\ rows = {} /\ disk = {} /\ used = {}
    /\ recs = [t \in Targets |-> [n \in Names |-> "none"]]
    /\ media = [d \in Media |-> [s \in Sides |-> [n \in Names |-> "none"]]]
    /\ mount = [d \in Media |-> "disk"]
    /\ faults = 0 /\ removed = {}
    /\ pc = [p \in Procs |-> "idle"]
    /\ left = [p \in Procs |-> {}] /\ tgt = [p \in Procs |-> NoTarget]
    /\ pending = [p \in Procs |-> {}] /\ todo = [p \in Procs |-> {}]
    /\ cur = [p \in Procs |-> NoName] /\ parent = [p \in Procs |-> NoName]
    /\ cands = [p \in Procs |-> {}]
    /\ kinds = [p \in Procs |-> {}] /\ victims = [p \in Procs |-> {}]
    /\ byHand = [p \in Procs |-> FALSE]

-----------------------------------------------------------------------------
(* Helpers. *)

(* Snapshots are taken one after another: the dates follow the names. *)
Taken == [n \in Names |-> n]

Medium(p) == Place[Host[p]][tgt[p]]
TargetDir(p) == mount[Medium(p)] # "gone"

(* What the path of replica n holds for p now, and writing it. *)
At(p, n) == IF TargetDir(p) THEN media[Medium(p)][mount[Medium(p)]][n] ELSE "none"
Put(p, n, s) == media' = [media EXCEPT ![Medium(p)][mount[Medium(p)]][n] = s]

(* A subvolume with the Received UUID of its snapshot.                       *)
Marked(s) == s \in {"short", "complete"}

Local(p, n) == n \in disk /\ Record[n].machine = Host[p]

Goto(p, step) == pc' = [pc EXCEPT ![p] = step]

(* An error: this target is given up, the next one is tried.  It only shows *)
(* in the exit status besides, which is left out.                           *)
Fail(p) == pc' = [pc EXCEPT ![p] = "target"]

Fault == faults < MaxFaults /\ faults' = faults + 1

(* A step whose command or statement fails ends the target. *)
Broken(p) == Fault /\ Fail(p) /\ UNCHANGED <<tables, world, queue, work>>

SetRec(p, n, r) == recs' = [recs EXCEPT ![tgt[p]][n] = r]

-----------------------------------------------------------------------------
(* manage_sending and replicate_to. *)

StartSend(p) ==
    /\ pc[p] = "idle" /\ "send" \in Ops[p]
    /\ pending' = [pending EXCEPT ![p] = PendingReplication(rows, Prefix[p], Host[p])]
    /\ left' = [left EXCEPT ![p] = Targets]
    /\ Goto(p, "target")
    /\ UNCHANGED <<tables, world, faults, work, tgt, todo>>

(* The next target of the configuration, or the end of the run. *)
NextTarget(p) ==
    /\ pc[p] = "target"
    /\ \/ /\ left[p] = {}
          /\ Goto(p, "done")
          /\ UNCHANGED <<faults, queue>>
       \/ \E t \in left[p] :
          /\ left' = [left EXCEPT ![p] = @ \ {t}]
          /\ tgt' = [tgt EXCEPT ![p] = t]
          /\ todo' = [todo EXCEPT ![p] = pending[p] \ ReplicatedNames(recs[t])]
          /\ \/ Goto(p, "dir") /\ UNCHANGED faults
             \/ Fault /\ Fail(p)
          /\ UNCHANGED pending
    /\ UNCHANGED <<tables, world, work>>

CheckDir(p) ==
    /\ pc[p] = "dir"
    /\ \/ /\ IF TargetDir(p) THEN Goto(p, "recorded") ELSE Fail(p)
          /\ UNCHANGED <<tables, world, faults, queue, work>>
       \/ Broken(p)

CheckNothingRecorded(p) == \* a bug: no check that the recorded replicas are there
    pc[p] = "recorded" /\ Goto(p, "next")
    /\ UNCHANGED <<tables, world, faults, queue, work>>

(* check_recorded_replicas: every machine's records at this URL count. *)
CheckRecorded(p) ==
    LET recorded == ListReplicas(recs[tgt[p]]) IN
    /\ pc[p] = "recorded"
    /\ \/ /\ IF recorded = {} \/ \E n \in recorded : At(p, n) # "none"
             THEN Goto(p, "next") ELSE Fail(p)
          /\ UNCHANGED <<tables, world, faults, queue, work>>
       \/ Broken(p)

(* The loop over the snapshots of one target, oldest first; then keep. *)
NextSnapshot(p) ==
    /\ pc[p] = "next"
    /\ \/ /\ todo[p] = {}
          /\ Goto(p, IF Keep[tgt[p]] > 0 THEN "prune" ELSE "target")
          /\ UNCHANGED <<todo, cur>>
       \/ \E n \in todo[p] :
          /\ IsOldest(n, todo[p], Taken)
          /\ todo' = [todo EXCEPT ![p] = @ \ {n}]
          /\ IF Local(p, n)
             THEN cur' = [cur EXCEPT ![p] = n] /\ Goto(p, "remote")
             ELSE cur' = [cur EXCEPT ![p] = NoName] /\ Goto(p, "next")
    /\ UNCHANGED <<tables, world, faults, left, tgt, pending,
                   parent, cands, kinds, victims, byHand>>

-----------------------------------------------------------------------------
(* replicate_one. *)

LookRemoteAdoptsAny(p) == \* a bug: whatever is at the target is taken as complete
    /\ pc[p] = "remote"
    /\ \/ /\ Local(p, cur[p])
          /\ Goto(p, IF At(p, cur[p]) # "none" THEN "adopt" ELSE "parents")
          /\ UNCHANGED <<tables, world, faults, queue, work>>
       \/ ~ Local(p, cur[p]) /\ Fail(p) /\ UNCHANGED <<tables, world, faults, queue, work>>
       \/ Broken(p)

LookRemoteGivesUp(p) == \* a bug: an incomplete replica is an error, not replaced
    /\ pc[p] = "remote"
    /\ \/ /\ Local(p, cur[p])
          /\ CASE At(p, cur[p]) = "none" -> Goto(p, "parents")
               [] Marked(At(p, cur[p])) -> Goto(p, "adopt")
               [] OTHER -> Fail(p)
          /\ UNCHANGED <<tables, world, faults, queue, work>>
       \/ ~ Local(p, cur[p]) /\ Fail(p) /\ UNCHANGED <<tables, world, faults, queue, work>>
       \/ Broken(p)

(* What is at the target already: adopted, by its UUID, replaced, or nothing. *)
LookRemote(p) ==
    /\ pc[p] = "remote"
    /\ \/ /\ Local(p, cur[p])
          /\ Goto(p, CASE At(p, cur[p]) = "none" -> "parents"
                       [] Marked(At(p, cur[p])) -> "adopt"
                       [] OTHER -> "replace")
          /\ UNCHANGED <<tables, world, faults, queue, work>>
       \/ ~ Local(p, cur[p]) /\ Fail(p) /\ UNCHANGED <<tables, world, faults, queue, work>>
       \/ Broken(p)

(* insert_replica, INSERT OR REPLACE: pruned is cleared. *)
Insert(p) ==
    /\ pc[p] \in {"adopt", "record"}
    /\ \/ /\ SetRec(p, cur[p], "present")
          /\ Goto(p, "next")
          /\ UNCHANGED <<rows, world, faults, queue, work>>
       \/ Broken(p)

Replace(p) ==
    /\ pc[p] = "replace"
    /\ \/ /\ At(p, cur[p]) # "none"
          /\ Put(p, cur[p], "none")
          /\ Goto(p, "parents")
          /\ UNCHANGED <<tables, disk, used, mount, removed, faults, queue, work>>
       \/ At(p, cur[p]) = "none" /\ Fail(p) /\ UNCHANGED <<tables, world, faults, queue, work>>
       \/ Broken(p)

(* choose_parent: the candidates still on this machine, newest first. *)
ListParents(p) ==
    /\ pc[p] = "parents"
    /\ \/ /\ cands' = [cands EXCEPT ![p] =
                ParentCandidates(recs[tgt[p]], Record[cur[p]].source, Host[p])
                    \ {cur[p]}]
          /\ Goto(p, "parent")
          /\ UNCHANGED <<tables, world, faults, queue, cur, parent, kinds, victims, byHand>>
       \/ Broken(p)

TryParent(p) ==
    /\ pc[p] = "parent"
    /\ \/ /\ cands[p] = {}
          /\ parent' = [parent EXCEPT ![p] = NoName]
          /\ Goto(p, "send")
          /\ UNCHANGED <<tables, world, faults, queue, cur, cands, kinds, victims, byHand>>
       \/ \E c \in cands[p] :
          /\ IsNewest(c, cands[p], Taken)
          /\ \/ /\ ~ Local(p, c)
                /\ cands' = [cands EXCEPT ![p] = @ \ {c}]
                /\ Goto(p, "parent")
                /\ UNCHANGED <<faults, parent>>
             \/ /\ Local(p, c) /\ At(p, c) = "none"
                /\ parent' = [parent EXCEPT ![p] = c]
                /\ cands' = [cands EXCEPT ![p] = @ \ {c}]
                /\ Goto(p, "unrecord")
                /\ UNCHANGED faults
             \/ /\ Local(p, c) /\ At(p, c) # "none"
                /\ parent' = [parent EXCEPT ![p] = c]
                /\ cands' = [cands EXCEPT ![p] = {}]
                /\ Goto(p, "send")
                /\ UNCHANGED faults
             \/ Fault /\ Fail(p) /\ UNCHANGED <<cands, parent>>
          /\ UNCHANGED <<tables, world, queue, cur, kinds, victims, byHand>>

(* delete_replica: the candidate is gone from the target and is forgotten. *)
Unrecord(p) ==
    /\ pc[p] = "unrecord"
    /\ \/ /\ SetRec(p, parent[p], "none")
          /\ Goto(p, "parent")
          /\ UNCHANGED <<rows, world, faults, queue, work>>
       \/ Broken(p)

(* btrfs send | btrfs receive begins, if both ends can start: the snapshot  *)
(* and its parent are here, the path is free and the parent was received.   *)
Send(p) ==
    LET par == parent[p]
        starts == /\ Local(p, cur[p]) /\ TargetDir(p) /\ At(p, cur[p]) = "none"
                  /\ par = NoName \/ (Local(p, par) /\ Marked(At(p, par)))
    IN
    /\ pc[p] = "send"
    /\ \/ /\ starts
          /\ Put(p, cur[p], p)
          /\ Goto(p, "receive")
          /\ UNCHANGED <<tables, disk, used, mount, removed, faults, queue, work>>
       \/ ~ starts /\ Goto(p, "unsend") /\ UNCHANGED <<tables, world, faults, queue, work>>
       \/ Fault /\ Goto(p, "unsend") /\ UNCHANGED <<tables, world, queue, work>>

ReceiveNotWaited(p) == \* a bug: an error returns before the receive has ended
    /\ pc[p] = "receive"
    /\ \/ /\ At(p, cur[p]) = p
          /\ \/ /\ Put(p, cur[p], "complete") /\ Goto(p, "verify")
                /\ removed' = removed \ {<<tgt[p], cur[p]>>}
                /\ UNCHANGED faults
             \/ Fault /\ Goto(p, "unsend") /\ UNCHANGED <<media, removed>>
          /\ UNCHANGED <<tables, disk, used, mount, queue, work>>
       \/ /\ At(p, cur[p]) # p
          /\ Goto(p, "unsend")
          /\ UNCHANGED <<tables, world, faults, queue, work>>

(* The stream ends, or is cut: at either end of the pipe, or by an ssh      *)
(* connection whose remote receive goes on.  Both commands succeed only on  *)
(* a whole stream; what a cut parent lacks is then lacking too, or makes    *)
(* the receive fail.  One whose subvolume was deleted meanwhile fails.      *)
Receive(p) ==
    LET sound == parent[p] = NoName \/ At(p, parent[p]) = "complete" IN
    /\ pc[p] = "receive"
    /\ \/ /\ At(p, cur[p]) = p
          /\ \E s \in {"orphan", "left", "short", "complete"} :
             /\ Put(p, cur[p], s)
             /\ removed' = IF Marked(s) THEN removed \ {<<tgt[p], cur[p]>>} ELSE removed
             /\ \/ /\ s = "complete" \/ (s = "short" /\ ~ sound)
                   /\ Goto(p, "verify") /\ UNCHANGED faults
                \/ /\ Fault \/ (~ sound /\ UNCHANGED faults)
                   /\ Goto(p, "unsend")
          /\ UNCHANGED <<tables, disk, used, mount, queue, work>>
       \/ /\ At(p, cur[p]) # p
          /\ Goto(p, "unsend")
          /\ UNCHANGED <<tables, world, faults, queue, work>>

(* subvolume_info and the comparison of the UUIDs. *)
Verify(p) ==
    /\ pc[p] = "verify"
    /\ \/ /\ CASE Marked(At(p, cur[p])) -> Goto(p, "record")
               [] At(p, cur[p]) = "none" -> Fail(p)
               [] OTHER -> Goto(p, "unsend")
          /\ UNCHANGED <<tables, world, faults, queue, work>>
       \/ Broken(p)

(* remove_partial, best effort, and the error that ends this target. *)
RemovePartial(p) ==
    /\ pc[p] = "unsend"
    /\ \/ /\ IF At(p, cur[p]) # "none" THEN Put(p, cur[p], "none") ELSE UNCHANGED media
          /\ UNCHANGED faults
       \/ Fault /\ UNCHANGED media
    /\ Fail(p)
    /\ UNCHANGED <<tables, disk, used, mount, removed, queue, work>>

-----------------------------------------------------------------------------
(* prune_target, and delete_remote_replica which deletes one the same way. *)

PruneList(p) ==
    /\ pc[p] = "prune"
    /\ \/ /\ kinds' = [kinds EXCEPT ![p] = ReplicaKinds(recs[tgt[p]], Prefix[p], Host[p])]
          /\ Goto(p, "kind")
          /\ UNCHANGED <<tables, world, faults, queue, cur, parent, cands, victims, byHand>>
       \/ Broken(p)

NextKindAnyMachine(p) == \* a bug: the machine is not part of the selection
    LET t == tgt[p] IN
    /\ pc[p] = "kind"
    /\ \/ /\ kinds[p] = {}
          /\ Goto(p, "target")
          /\ UNCHANGED <<tables, world, faults, queue, work>>
       \/ \E k \in kinds[p] :
          /\ kinds' = [kinds EXCEPT ![p] = @ \ {k}]
          /\ victims' = [victims EXCEPT ![p] =
                Beyond({n \in ListReplicas(recs[t]) : Record[n].kind = k}, Taken, Keep[t])]
          /\ Goto(p, "victim")
          /\ UNCHANGED <<tables, world, faults, queue, cur, parent, cands, byHand>>
       \/ kinds[p] # {} /\ Broken(p)

(* The retention of one kind after the other. *)
NextKind(p) ==
    LET t == tgt[p] IN
    /\ pc[p] = "kind"
    /\ \/ /\ kinds[p] = {}
          /\ Goto(p, "target")
          /\ UNCHANGED <<tables, world, faults, queue, work>>
       \/ \E k \in kinds[p] :
          /\ kinds' = [kinds EXCEPT ![p] = @ \ {k}]
          /\ victims' = [victims EXCEPT ![p] =
                RemotePruneCandidates(recs[t], Taken, Prefix[p], k, Host[p], Keep[t])]
          /\ Goto(p, "victim")
          /\ UNCHANGED <<tables, world, faults, queue, cur, parent, cands, byHand>>
       \/ kinds[p] # {} /\ Broken(p)

(* find_replica: --id names one replica present at the target. *)
StartDel(p, t, n) ==
    /\ pc[p] = "idle" /\ "del" \in Ops[p] /\ n \in ListReplicas(recs[t])
    /\ tgt' = [tgt EXCEPT ![p] = t]
    /\ victims' = [victims EXCEPT ![p] = {n}]
    /\ byHand' = [byHand EXCEPT ![p] = TRUE]
    /\ Goto(p, "victim")
    /\ UNCHANGED <<tables, world, faults, left, pending, todo, cur, parent, cands, kinds>>

(* The subvolume first, then its row. *)
DeleteVictim(p) ==
    /\ pc[p] = "victim"
    /\ \/ /\ victims[p] = {}
          /\ Goto(p, "kind")
          /\ UNCHANGED <<media, removed, faults, cur, victims>>
       \/ \E v \in victims[p] :
          /\ IsOldest(v, victims[p], Taken)
          /\ IF At(p, v) # "none"
             THEN Put(p, v, "none") /\ removed' = removed \union {<<tgt[p], v>>}
             ELSE UNCHANGED <<media, removed>>
          /\ cur' = [cur EXCEPT ![p] = v]
          /\ victims' = [victims EXCEPT ![p] = @ \ {v}]
          /\ Goto(p, "mark")
          /\ UNCHANGED faults
       \/ victims[p] # {} /\ Fault /\ Fail(p) /\ UNCHANGED <<media, removed, cur, victims>>
    /\ UNCHANGED <<tables, disk, used, mount, queue, parent, cands, kinds, byHand>>

(* mark_replica_pruned: an UPDATE, which changes nothing without a row. *)
MarkPruned(p) ==
    /\ pc[p] = "mark"
    /\ \/ /\ SetRec(p, cur[p], IF recs[tgt[p]][cur[p]] = "none" THEN "none" ELSE "pruned")
          /\ Goto(p, "victim")
          /\ UNCHANGED <<rows, world, faults, queue, work>>
       \/ Broken(p)

-----------------------------------------------------------------------------
Reset(p) ==
    /\ pc' = [pc EXCEPT ![p] = "idle"]
    /\ left' = [left EXCEPT ![p] = {}] /\ tgt' = [tgt EXCEPT ![p] = NoTarget]
    /\ pending' = [pending EXCEPT ![p] = {}] /\ todo' = [todo EXCEPT ![p] = {}]
    /\ cur' = [cur EXCEPT ![p] = NoName] /\ parent' = [parent EXCEPT ![p] = NoName]
    /\ cands' = [cands EXCEPT ![p] = {}]
    /\ kinds' = [kinds EXCEPT ![p] = {}] /\ victims' = [victims EXCEPT ![p] = {}]
    /\ byHand' = [byHand EXCEPT ![p] = FALSE]

End(p) == pc[p] = "done" /\ Reset(p) /\ UNCHANGED <<tables, world, faults>>

(* Killed: the receive it was feeding outlives it for a while. *)
Crash(p) ==
    /\ pc[p] \notin {"idle", "done"} /\ Fault /\ Reset(p)
    /\ IF pc[p] = "receive" /\ At(p, cur[p]) = p THEN Put(p, cur[p], "orphan")
                                                 ELSE UNCHANGED media
    /\ UNCHANGED <<tables, disk, used, mount, removed>>

(* Such a receive ends: in the middle of its stream, where the stream was   *)
(* cut between two commands, or having read all of it.                      *)
OrphanEnds(d, s, n) ==
    /\ media[d][s][n] = "orphan"
    /\ \E r \in {"left", "short", "complete"} :
          /\ media' = [media EXCEPT ![d][s][n] = r]
          /\ removed' = IF Marked(r)
                        THEN {x \in removed : x[2] = n => Place[Record[n].machine][x[1]] # d}
                        ELSE removed
    /\ UNCHANGED <<tables, disk, used, mount, faults, queue, work, pc>>

-----------------------------------------------------------------------------
(* Around these invocations: module Snapshots in short, and the media. *)

Create(n) ==
    /\ n \notin used /\ \A m \in Names : m < n => m \in used
    /\ used' = used \union {n} /\ disk' = disk \union {n} /\ rows' = rows \union {n}
    /\ UNCHANGED <<recs, media, mount, removed, faults, queue, work, pc>>

(* The kernel does not delete a snapshot that is being sent. *)
DeleteLocal(n) ==
    /\ "clean" \in Events /\ n \in disk
    /\ \A p \in Procs : pc[p] = "receive" => n \notin {cur[p], parent[p]}
    /\ disk' = disk \ {n}
    /\ UNCHANGED <<tables, used, media, mount, removed, faults, queue, work, pc>>

ForgetLocal(n) ==
    /\ n \in rows \ disk /\ rows' = rows \ {n}
    /\ UNCHANGED <<recs, world, faults, queue, work, pc>>

(* A disk in use by a receive can't be unmounted. *)
Free(d) ==
    \A p \in Procs : LET mine == tgt[p] # NoTarget /\ Medium(p) = d IN
        IF DetachAnytime THEN ~ (mine /\ pc[p] = "receive") ELSE pc[p] = "idle"

(* "detach": a disk is taken away once replicas are recorded on it;         *)
(* "detach_early": also before the first one is.                            *)
Detach(d) ==
    /\ mount[d] = "disk" /\ Free(d) /\ Fault
    /\ \A n \in Names : media[d]["disk"][n] # "orphan"
    /\ \/ "detach_early" \in Events
       \/ /\ "detach" \in Events
          /\ \E t \in Targets : \E n \in ListReplicas(recs[t]) :
                Place[Record[n].machine][t] = d
    /\ mount' = [mount EXCEPT ![d] = DetachLeaves]
    /\ UNCHANGED <<tables, disk, used, media, removed, queue, work, pc>>

Attach(d) ==
    /\ mount[d] # "disk" /\ Free(d)
    /\ mount' = [mount EXCEPT ![d] = "disk"]
    /\ UNCHANGED <<tables, disk, used, media, removed, faults, queue, work, pc>>

(* A replica is deleted at the medium with btrfs, not with rusnapshot. *)
Tamper(d, n) ==
    /\ "tamper" \in Events /\ media[d]["disk"][n] # "none"
    /\ media' = [media EXCEPT ![d]["disk"][n] = "none"]
    /\ removed' = removed \union {<<t, n>> : t \in
                    {u \in Targets : Place[Record[n].machine][u] = d}}
    /\ UNCHANGED <<tables, disk, used, mount, faults, queue, work, pc>>

Step(p) ==
    \/ NextTarget(p) \/ CheckDir(p) \/ CheckRecorded(p) \/ NextSnapshot(p)
    \/ LookRemote(p) \/ Insert(p) \/ Replace(p)
    \/ ListParents(p) \/ TryParent(p) \/ Unrecord(p)
    \/ Send(p) \/ Receive(p) \/ Verify(p) \/ RemovePartial(p)
    \/ PruneList(p) \/ NextKind(p) \/ DeleteVictim(p) \/ MarkPruned(p) \/ End(p)

Start(p) == StartSend(p) \/ \E t \in Targets, n \in Names : StartDel(p, t, n)

Environment ==
    \/ \E n \in Names : Create(n) \/ DeleteLocal(n) \/ ForgetLocal(n)
    \/ \E d \in Media : Detach(d) \/ Attach(d)
    \/ \E d \in Media, n \in Names : Tamper(d, n) \/ \E s \in Sides : OrphanEnds(d, s, n)

Next == \/ \E p \in Procs : Start(p) \/ Step(p) \/ Crash(p)
        \/ Environment

Spec == Init /\ [][Next]_vars

(* A running invocation goes on, the timer keeps starting --send, and a     *)
(* disk that was taken away is brought back.                                *)
Fairness == /\ \A p \in Procs : WF_vars(Step(p)) /\ WF_vars(StartSend(p))
            /\ \A d \in Media : SF_vars(Attach(d))

FairSpec == Spec /\ Fairness

-----------------------------------------------------------------------------
(* The type invariant.  A subvolume a process is receiving belongs to a     *)
(* process that is in fact receiving it.                                    *)
TypeOK ==
    /\ rows \subseteq used /\ disk \subseteq used /\ used \subseteq Names
    /\ recs \in [Targets -> [Names -> {"none", "present", "pruned"}]]
    /\ media \in [Media -> [Sides -> [Names -> Status]]]
    /\ mount \in [Media -> {"disk", "bare", "gone"}]
    /\ faults \in 0 .. MaxFaults
    /\ pc \in [Procs -> Steps]
    /\ left \in [Procs -> SUBSET Targets]
    /\ tgt \in [Procs -> Targets \union {NoTarget}]
    /\ pending \in [Procs -> SUBSET Names] /\ todo \in [Procs -> SUBSET Names]
    /\ cur \in [Procs -> Names \union {NoName}]
    /\ parent \in [Procs -> Names \union {NoName}]
    /\ cands \in [Procs -> SUBSET Names] /\ victims \in [Procs -> SUBSET Names]
    /\ kinds \in [Procs -> SUBSET Kinds]
    /\ byHand \in [Procs -> BOOLEAN]
    /\ removed \subseteq Targets \X Names
    /\ \A p \in Procs, d \in Media, s \in Sides, n \in Names :
          media[d][s][n] = p => pc[p] = "receive" /\ cur[p] = n

Replica(t, n, s) == media[Place[Record[n].machine][t]][s][n]

Holds(t, n) == \E s \in Sides : Replica(t, n, s) = "complete"
Cut(t, n)   == \E s \in Sides : Replica(t, n, s) = "short"

(* A replica the database records as present is at its target, with the     *)
(* Received UUID of its snapshot, unless retention, --del --from-replica or *)
(* a person deleted it (replication.rs:752-839: recorded last, what has     *)
(* another UUID or none is replaced).  It need not be whole: RecordedWhole. *)
RecordedPresent ==
    \A t \in Targets, n \in Names :
        recs[t][n] = "present" /\ <<t, n>> \notin removed => Holds(t, n) \/ Cut(t, n)

(* What the program promises: what a transfer that failed left at the       *)
(* target is removed, or replaced by the next run (docs:163,                *)
(* replication.rs:882), so that what is recorded is complete.               *)
RecordedWhole ==
    \A t \in Targets, n \in Names :
        recs[t][n] = "present" /\ <<t, n>> \notin removed => Holds(t, n)

(* A snapshot whose replica was pruned is never pending again (docs:165).   *)
PrunedStaysPruned ==
    [][\A t \in Targets, n \in Names :
          recs[t][n] = "pruned" => recs'[t][n] = "pruned"]_vars

(* The database neither forgets nor records as pruned by retention a        *)
(* replica that is complete on its backup disk, mounted or not (docs:171,   *)
(* replication.rs:713-717).                                                 *)
RecordsKept ==
    [][\A t \in Targets, n \in Names :
          /\ recs[t][n] = "present" /\ Replica(t, n, "disk") = "complete"
          /\ ~ \E p \in Procs : pc[p] = "mark" /\ byHand[p]
          => recs'[t][n] = "present"]_vars

(* The state of a replica, as Ledger tells it. *)
Ledgered == [r \in Targets \X Names |->
    LET t == r[1] n == r[2] IN
    CASE recs[t][n] = "none"    -> "absent"
      [] recs[t][n] = "pruned"  -> "pruned"
      [] recs[t][n] = "present" -> IF Holds(t, n) THEN "held"
                                   ELSE IF Cut(t, n) THEN "cut" ELSE "stale"]

LG == INSTANCE Ledger WITH ledger <- Ledgered, Replicas <- Targets \X Names

(* Sends, retention, failures and kills together implement Ledger: nothing  *)
(* is recorded that is not at the target, nothing there is dropped from the *)
(* table, nothing recorded changes there but by being deleted, and nothing  *)
(* pruned returns (replication.rs:752-839, 893-936).                        *)
RefinesLedger == LG!Spec

(* The replicas retention is about to delete at a target: the newest Keep   *)
(* of a kind and machine are not among them, nor any other machine's.       *)
TargetRetention ==
    \A p \in Procs : pc[p] \in {"victim", "mark"} /\ ~ byHand[p] => \A v \in victims[p] :
        /\ Record[v].machine = Host[p]
        /\ Keep[tgt[p]] <= Cardinality({m \in ListReplicas(recs[tgt[p]]) :
              /\ Record[m].machine = Record[v].machine
              /\ Record[m].kind = Record[v].kind
              /\ Newer(Taken, m, v)})

(* Once faults end every snapshot that stays here is replicated, whatever   *)
(* interrupted the sends before: kills and failures at any step, incomplete *)
(* replicas left at the target, complete ones never recorded.  Where a cut  *)
(* one is recorded an increment on top of it may fail every time.           *)
EventuallyReplicated ==
    \A t \in Targets, n \in Names : ~ Record[n].rw =>
        <>[](/\ n \in rows /\ n \in disk
             /\ ~ \E m \in Names : recs[t][m] = "present" /\ Cut(t, m)
             => recs[t][n] # "none")
=============================================================================
