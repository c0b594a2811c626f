-------------------------- MODULE ReplicationProofs --------------------------
(* Theorems about Replication, for every value of its constants.            *)
EXTENDS Replication, FiniteSetTheorems, TLAPS

USE CatalogAssumption, ReplicationAssumption

-----------------------------------------------------------------------------
(* Types.                                                                   *)
WorldTypes ==
    /\ rows \subseteq used /\ disk \subseteq used /\ used \subseteq Names
    /\ recs \in [Targets -> [Names -> {"none", "present", "pruned"}]]
    /\ media \in [Media -> [Sides -> [Names -> Status]]]
    /\ mount \in [Media -> {"disk", "bare", "gone"}]
    /\ faults \in 0 .. MaxFaults
    /\ removed \subseteq Targets \X Names

QueueTypes ==
    /\ left \in [Procs -> SUBSET Targets]
    /\ tgt \in [Procs -> Targets \union {NoTarget}]
    /\ pending \in [Procs -> SUBSET Names] /\ todo \in [Procs -> SUBSET Names]

WorkTypes ==
    /\ cur \in [Procs -> Names \union {NoName}]
    /\ parent \in [Procs -> Names \union {NoName}]
    /\ cands \in [Procs -> SUBSET Names] /\ victims \in [Procs -> SUBSET Names]
    /\ kinds \in [Procs -> SUBSET Kinds]

FlagTypes == byHand \in [Procs -> BOOLEAN]

(* The steps at which an invocation handles one snapshot, sends to one       *)
(* target, applies its retention, and works on a target at all.              *)
Handling == {"remote", "adopt", "replace", "parents", "parent", "unrecord",
             "send", "receive", "verify", "record", "unsend"}
Sending  == {"dir", "recorded", "next"} \union Handling
Pruning  == {"prune", "kind", "victim", "mark"}
Busy     == Sending \union Pruning

(* At those steps there is a target, a snapshot or a parent to work on.      *)
Post(p) ==
    /\ pc[p] \in Busy => tgt[p] \in Targets
    /\ pc[p] \in Handling \union {"mark"} => cur[p] \in Names
    /\ pc[p] = "unrecord" => parent[p] \in Names

Posts == pc \in [Procs -> Steps] /\ \A p \in Procs : Post(p)

(* A subvolume that an invocation is receiving is the one it works on, where *)
(* its path leads to.                                                        *)
Writing ==
    \A p \in Procs, d \in Media, s \in Sides, n \in Names :
        media[d][s][n] = p =>
            pc[p] = "receive" /\ cur[p] = n /\ d = Medium(p) /\ s = mount[d]

TypeInv == WorldTypes /\ QueueTypes /\ WorkTypes /\ FlagTypes /\ Posts /\ Writing

(* The strengthening implies the type invariant that TLC checks.             *)
LEMMA TypeInvOK == TypeInv => TypeOK
BY DEF TypeInv, WorldTypes, QueueTypes, WorkTypes, FlagTypes, Posts, Writing, TypeOK, Sides

(* A target leads each machine to a medium.                                  *)
LEMMA MediumType ==
    ASSUME NEW p \in Procs, tgt[p] \in Targets PROVE Medium(p) \in Media /\ Host[p] \in Machines
BY DEF Medium

(* What a path holds is one of the statuses.                                 *)
LEMMA AtType ==
    ASSUME TypeInv, NEW p \in Procs, tgt[p] \in Targets, NEW n \in Names
    PROVE  /\ At(p, n) \in Status
           /\ At(p, n) # "none" => /\ TargetDir(p) /\ mount[Medium(p)] \in Sides
                                   /\ At(p, n) = media[Medium(p)][mount[Medium(p)]][n]
<1>1. Medium(p) \in Media
  BY MediumType
<1> QED
  BY <1>1 DEF At, TargetDir, TypeInv, WorldTypes, Status, Sides

(* Writing to a path changes what it holds and nothing else.                 *)
Written(p, n, s) ==
    /\ media' \in [Media -> [Sides -> [Names -> Status]]]
    /\ \A d \in Media, e \in Sides, m \in Names :
          media'[d][e][m] = IF d = Medium(p) /\ e = mount[d] /\ m = n THEN s ELSE media[d][e][m]

(* A write at a path that exists is one.                                     *)
LEMMA PutWrites ==
    ASSUME TypeInv, NEW p \in Procs, tgt[p] \in Targets, NEW n \in Names, NEW s \in Status,
           TargetDir(p), Put(p, n, s)
    PROVE  Written(p, n, s)
<1> DEFINE d == Medium(p)
           e == mount[d]
           inner == [media[d][e] EXCEPT ![n] = s]
           middle == [media[d] EXCEPT ![e] = inner]
<1>1. d \in Media
  BY MediumType
<1>2. e \in Sides
  BY <1>1 DEF TypeInv, WorldTypes, TargetDir, Sides
<1>3. media[d] \in [Sides -> [Names -> Status]] /\ media[d][e] \in [Names -> Status]
  BY <1>1, <1>2 DEF TypeInv, WorldTypes
<1>4. inner \in [Names -> Status] /\ \A m \in Names : inner[m] = IF m = n THEN s ELSE media[d][e][m]
  BY <1>3
<1>5. media' = [media EXCEPT ![d] = middle]
  BY DEF Put
<1> HIDE DEF inner
<1>6. /\ middle \in [Sides -> [Names -> Status]]
      /\ middle[e] = inner /\ \A x \in Sides : x # e => middle[x] = media[d][x]
  BY <1>2, <1>3, <1>4
<1> HIDE DEF middle
<1>7. media' \in [Media -> [Sides -> [Names -> Status]]]
  BY <1>1, <1>5, <1>6 DEF TypeInv, WorldTypes
<1>8. media'[d] = middle /\ \A x \in Media : x # d => media'[x] = media[x]
  BY <1>1, <1>5 DEF TypeInv, WorldTypes
<1> HIDE DEF d, e
<1>9. d = Medium(p) /\ e = mount[d]
  BY DEF d, e
<1> QED
  BY <1>4, <1>6, <1>7, <1>8, <1>9 DEF Written

(* Setting a record changes that one.                                        *)
Recorded(p, n, r) ==
    /\ recs' \in [Targets -> [Names -> {"none", "present", "pruned"}]]
    /\ \A t \in Targets, m \in Names :
          recs'[t][m] = IF t = tgt[p] /\ m = n THEN r ELSE recs[t][m]

(* An INSERT, UPDATE or DELETE of a replica's row is one.                    *)
LEMMA SetRecRecords ==
    ASSUME WorldTypes, NEW p \in Procs, tgt[p] \in Targets, NEW n \in Names,
           NEW r \in {"none", "present", "pruned"}, SetRec(p, n, r)
    PROVE  Recorded(p, n, r)
<1>1. recs[tgt[p]] \in [Names -> {"none", "present", "pruned"}]
  BY DEF WorldTypes
<1> QED
  BY <1>1 DEF SetRec, WorldTypes, Recorded

(* A step at which nothing is being written, or moved, keeps Writing.        *)
LEMMA WritingKept ==
    ASSUME Writing, media' = media, mount' = mount,
           \A q \in Procs : pc[q] = "receive" =>
               pc'[q] = "receive" /\ cur'[q] = cur[q] /\ tgt'[q] = tgt[q]
    PROVE  Writing'
<1> SUFFICES ASSUME NEW p \in Procs, NEW d \in Media, NEW s \in Sides, NEW n \in Names,
                    media'[d][s][n] = p
             PROVE  pc'[p] = "receive" /\ cur'[p] = n /\ d = Place[Host[p]][tgt'[p]] /\ s = mount'[d]
  BY DEF Writing, Medium
<1>1. pc[p] = "receive" /\ cur[p] = n /\ d = Place[Host[p]][tgt[p]] /\ s = mount[d]
  BY DEF Writing, Medium
<1> QED
  BY <1>1

-----------------------------------------------------------------------------
(* The steps of one invocation. *)

(* Everything that an invocation may do.                                     *)
Moves(p) == Start(p) \/ Step(p) \/ Crash(p)

(* Whatever it does, the state of the others stays as it is.                 *)
Apart(p) ==
    \A q \in Procs \ {p} :
        /\ pc'[q] = pc[q] /\ left'[q] = left[q] /\ tgt'[q] = tgt[q]
        /\ pending'[q] = pending[q] /\ todo'[q] = todo[q]
        /\ cur'[q] = cur[q] /\ parent'[q] = parent[q] /\ cands'[q] = cands[q]
        /\ kinds'[q] = kinds[q] /\ victims'[q] = victims[q] /\ byHand'[q] = byHand[q]

(* The queries return names of the catalog, and kinds.                       *)
LEMMA QueryTypes ==
    ASSUME NEW R, NEW r \in [Names -> {"none", "present", "pruned"}],
           NEW prefix, NEW kind, NEW machine, NEW source, NEW keep, R \subseteq Names
    PROVE  /\ PendingReplication(R, prefix, machine) \subseteq Names
           /\ ReplicatedNames(r) \subseteq Names /\ ListReplicas(r) \subseteq Names
           /\ ParentCandidates(r, source, machine) \subseteq Names
           /\ RemotePruneCandidates(r, Taken, prefix, kind, machine, keep) \subseteq Names
           /\ ReplicaKinds(r, prefix, machine) \subseteq Kinds
<1>1. \A n \in Names : Record[n].kind \in Kinds
  BY DEF CatalogAssumption, Columns
<1>2. ReplicaKinds(r, prefix, machine) \subseteq Kinds
  BY <1>1 DEF ReplicaKinds, ListReplicas
<1> QED
  BY <1>2 DEF PendingReplication, ReplicatedNames, ListReplicas, ParentCandidates,
     RemotePruneCandidates, Beyond

(* The variables of an invocation keep their types, and a step changes those *)
(* of one invocation only.                                                   *)
LEMMA MoveTypes ==
    ASSUME TypeInv, NEW p \in Procs, Moves(p)
    PROVE  QueueTypes' /\ WorkTypes' /\ FlagTypes' /\ pc' \in [Procs -> Steps] /\ Apart(p)
<1> USE DEF TypeInv
<1>0. pc \in [Procs -> Steps]
  BY DEF Posts
<1>1. CASE StartSend(p)
  <2>1. QueueTypes'
    BY <1>1 DEF StartSend, QueueTypes, WorldTypes, Goto, tables, world, queue, work, 
       PendingReplication
  <2>2. WorkTypes'
    BY <1>1 DEF StartSend, WorkTypes, Goto, tables, world, queue, work, PendingReplication
  <2>3. FlagTypes'
    BY <1>1 DEF StartSend, FlagTypes, Goto, tables, world, queue, work
  <2>4. pc' \in [Procs -> Steps]
    BY <1>1, <1>0 DEF StartSend, Steps, Goto, tables, world, queue, work
  <2>5. Apart(p)
    BY <1>1, <1>0 DEF StartSend, Apart, QueueTypes, WorkTypes, FlagTypes, Goto, tables, world, 
       queue, work
  <2> QED
    BY <2>1, <2>2, <2>3, <2>4, <2>5
<1>2. CASE \E t \in Targets, n \in Names : StartDel(p, t, n)
  <2>1. QueueTypes'
    BY <1>2 DEF StartDel, QueueTypes, WorldTypes, Goto, tables, world, queue, work, ListReplicas
  <2>2. WorkTypes'
    BY <1>2 DEF StartDel, WorkTypes, Goto, tables, world, queue, work, ListReplicas
  <2>3. FlagTypes'
    BY <1>2 DEF StartDel, FlagTypes, Goto, tables, world, queue, work
  <2>4. pc' \in [Procs -> Steps]
    BY <1>2, <1>0 DEF StartDel, Steps, Goto, tables, world, queue, work
  <2>5. Apart(p)
    BY <1>2, <1>0 DEF StartDel, Apart, QueueTypes, WorkTypes, FlagTypes, Goto, tables, world, 
       queue, work
  <2> QED
    BY <2>1, <2>2, <2>3, <2>4, <2>5
<1>3. CASE NextTarget(p)
  <2>1. QueueTypes'
    <3>1. CASE UNCHANGED queue
      BY <3>1 DEF queue, QueueTypes
    <3>2. ASSUME NEW u \in left[p], left' = [left EXCEPT ![p] = @ \ {u}], tgt' = [tgt EXCEPT ![p] = u],
                 todo' = [todo EXCEPT ![p] = pending[p] \ ReplicatedNames(recs[u])], pending' = pending
          PROVE  QueueTypes'
      BY <3>2 DEF QueueTypes
    <3> QED
      BY <1>3, <3>1, <3>2 DEF NextTarget
  <2>2. WorkTypes'
    BY <1>3 DEF NextTarget, WorkTypes, Goto, Fail, Fault, tables, world, queue, work
  <2>3. FlagTypes'
    BY <1>3 DEF NextTarget, FlagTypes, Goto, Fail, Fault, tables, world, queue, work
  <2>4. pc' \in [Procs -> Steps]
    BY <1>3, <1>0 DEF NextTarget, Steps, Goto, Fail, Fault, tables, world, queue, work
  <2>5. Apart(p)
    BY <1>3, <1>0 DEF NextTarget, Apart, QueueTypes, WorkTypes, FlagTypes, Goto, Fail, Fault, 
       tables, world, queue, work
  <2> QED
    BY <2>1, <2>2, <2>3, <2>4, <2>5
<1>4. CASE CheckDir(p)
  <2>1. QueueTypes'
    BY <1>4 DEF CheckDir, QueueTypes, WorldTypes, Goto, Fail, Fault, Broken, tables, world, 
       queue, work
  <2>2. WorkTypes'
    BY <1>4 DEF CheckDir, WorkTypes, Goto, Fail, Fault, Broken, tables, world, queue, work
  <2>3. FlagTypes'
    BY <1>4 DEF CheckDir, FlagTypes, Goto, Fail, Fault, Broken, tables, world, queue, work
  <2>4. pc' \in [Procs -> Steps]
    BY <1>4, <1>0 DEF CheckDir, Steps, Goto, Fail, Fault, Broken, tables, world, queue, work
  <2>5. Apart(p)
    BY <1>4, <1>0 DEF CheckDir, Apart, QueueTypes, WorkTypes, FlagTypes, Goto, Fail, Fault, 
       Broken, tables, world, queue, work
  <2> QED
    BY <2>1, <2>2, <2>3, <2>4, <2>5
<1>5. CASE CheckRecorded(p)
  <2>1. QueueTypes'
    BY <1>5 DEF CheckRecorded, QueueTypes, WorldTypes, Goto, Fail, Fault, Broken, tables, world, 
       queue, work
  <2>2. WorkTypes'
    BY <1>5 DEF CheckRecorded, WorkTypes, Goto, Fail, Fault, Broken, tables, world, queue, work
  <2>3. FlagTypes'
    BY <1>5 DEF CheckRecorded, FlagTypes, Goto, Fail, Fault, Broken, tables, world, queue, work
  <2>4. pc' \in [Procs -> Steps]
    BY <1>5, <1>0 DEF CheckRecorded, Steps, Goto, Fail, Fault, Broken, tables, world, queue, work
  <2>5. Apart(p)
    BY <1>5, <1>0 DEF CheckRecorded, Apart, QueueTypes, WorkTypes, FlagTypes, Goto, Fail, Fault, 
       Broken, tables, world, queue, work
  <2> QED
    BY <2>1, <2>2, <2>3, <2>4, <2>5
<1>6. CASE NextSnapshot(p)
  <2>1. QueueTypes'
    <3>1. /\ UNCHANGED <<left, tgt, pending>>
          /\ todo' = todo \/ \E n \in todo[p] : todo' = [todo EXCEPT ![p] = @ \ {n}]
      BY <1>6 DEF NextSnapshot
    <3> QED
      BY <3>1 DEF QueueTypes
  <2>2. WorkTypes'
    <3>1. /\ UNCHANGED <<parent, cands, kinds, victims>>
          /\ cur' = cur \/ \E n \in todo[p] \union {NoName} : cur' = [cur EXCEPT ![p] = n]
      BY <1>6 DEF NextSnapshot
    <3>2. todo[p] \subseteq Names
      BY DEF QueueTypes
    <3>3. ASSUME NEW n \in Names \union {NoName}, cur' = [cur EXCEPT ![p] = n]
          PROVE  cur' \in [Procs -> Names \union {NoName}]
      BY <3>3 DEF WorkTypes
    <3> QED
      BY <3>1, <3>2, <3>3 DEF WorkTypes
  <2>3. FlagTypes'
    BY <1>6 DEF NextSnapshot, FlagTypes, Goto, tables, world, queue, work
  <2>4. pc' \in [Procs -> Steps]
    BY <1>6, <1>0 DEF NextSnapshot, Steps, Goto, tables, world, queue, work
  <2>5. Apart(p)
    BY <1>6, <1>0 DEF NextSnapshot, Apart, QueueTypes, WorkTypes, FlagTypes, Goto, tables, 
       world, queue, work
  <2> QED
    BY <2>1, <2>2, <2>3, <2>4, <2>5
<1>7. CASE LookRemote(p)
  <2>1. QueueTypes'
    BY <1>7 DEF LookRemote, QueueTypes, WorldTypes, Goto, Fail, Fault, Broken, tables, world, 
       queue, work
  <2>2. WorkTypes'
    BY <1>7 DEF LookRemote, WorkTypes, Goto, Fail, Fault, Broken, tables, world, queue, work
  <2>3. FlagTypes'
    BY <1>7 DEF LookRemote, FlagTypes, Goto, Fail, Fault, Broken, tables, world, queue, work
  <2>4. pc' \in [Procs -> Steps]
    BY <1>7, <1>0 DEF LookRemote, Steps, Goto, Fail, Fault, Broken, tables, world, queue, work
  <2>5. Apart(p)
    BY <1>7, <1>0 DEF LookRemote, Apart, QueueTypes, WorkTypes, FlagTypes, Goto, Fail, Fault, 
       Broken, tables, world, queue, work
  <2> QED
    BY <2>1, <2>2, <2>3, <2>4, <2>5
<1>8. CASE Insert(p)
  <2>1. QueueTypes'
    BY <1>8 DEF Insert, QueueTypes, WorldTypes, Goto, Fail, Fault, Broken, tables, world, queue, 
       work
  <2>2. WorkTypes'
    BY <1>8 DEF Insert, WorkTypes, Goto, Fail, Fault, Broken, tables, world, queue, work
  <2>3. FlagTypes'
    BY <1>8 DEF Insert, FlagTypes, Goto, Fail, Fault, Broken, tables, world, queue, work
  <2>4. pc' \in [Procs -> Steps]
    BY <1>8, <1>0 DEF Insert, Steps, Goto, Fail, Fault, Broken, tables, world, queue, work
  <2>5. Apart(p)
    BY <1>8, <1>0 DEF Insert, Apart, QueueTypes, WorkTypes, FlagTypes, Goto, Fail, Fault, 
       Broken, tables, world, queue, work
  <2> QED
    BY <2>1, <2>2, <2>3, <2>4, <2>5
<1>9. CASE Replace(p)
  <2>1. QueueTypes'
    BY <1>9 DEF Replace, QueueTypes, WorldTypes, Goto, Fail, Fault, Broken, tables, world, 
       queue, work
  <2>2. WorkTypes'
    BY <1>9 DEF Replace, WorkTypes, Goto, Fail, Fault, Broken, tables, world, queue, work
  <2>3. FlagTypes'
    BY <1>9 DEF Replace, FlagTypes, Goto, Fail, Fault, Broken, tables, world, queue, work
  <2>4. pc' \in [Procs -> Steps]
    BY <1>9, <1>0 DEF Replace, Steps, Goto, Fail, Fault, Broken, tables, world, queue, work
  <2>5. Apart(p)
    BY <1>9, <1>0 DEF Replace, Apart, QueueTypes, WorkTypes, FlagTypes, Goto, Fail, Fault, 
       Broken, tables, world, queue, work
  <2> QED
    BY <2>1, <2>2, <2>3, <2>4, <2>5
<1>10. CASE ListParents(p)
  <2>1. QueueTypes'
    BY <1>10 DEF ListParents, QueueTypes, WorldTypes, Goto, Fail, Fault, Broken, tables, world, 
       queue, work, ParentCandidates, ListReplicas
  <2>2. WorkTypes'
    BY <1>10 DEF ListParents, WorkTypes, Goto, Fail, Fault, Broken, tables, world, queue, work, 
       ParentCandidates, ListReplicas
  <2>3. FlagTypes'
    BY <1>10 DEF ListParents, FlagTypes, Goto, Fail, Fault, Broken, tables, world, queue, work
  <2>4. pc' \in [Procs -> Steps]
    BY <1>10, <1>0 DEF ListParents, Steps, Goto, Fail, Fault, Broken, tables, world, queue, work
  <2>5. Apart(p)
    BY <1>10, <1>0 DEF ListParents, Apart, QueueTypes, WorkTypes, FlagTypes, Goto, Fail, Fault, 
       Broken, tables, world, queue, work
  <2> QED
    BY <2>1, <2>2, <2>3, <2>4, <2>5
<1>11. CASE TryParent(p)
  <2>1. QueueTypes'
    BY <1>11 DEF TryParent, QueueTypes, WorldTypes, Goto, Fail, Fault, tables, world, queue, work
  <2>2. WorkTypes'
    <3>1. /\ UNCHANGED <<cur, kinds, victims>>
          /\ parent' = parent \/ \E n \in cands[p] \union {NoName} : parent' = [parent EXCEPT ![p] = n]
          /\ cands' = cands \/ \E S \in SUBSET cands[p] : cands' = [cands EXCEPT ![p] = S]
      BY <1>11 DEF TryParent, work
    <3>2. cands[p] \subseteq Names
      BY DEF WorkTypes
    <3>3. ASSUME NEW n \in Names \union {NoName}, parent' = [parent EXCEPT ![p] = n]
          PROVE  parent' \in [Procs -> Names \union {NoName}]
      BY <3>3 DEF WorkTypes
    <3>4. ASSUME NEW S \in SUBSET Names, cands' = [cands EXCEPT ![p] = S]
          PROVE  cands' \in [Procs -> SUBSET Names]
      BY <3>4 DEF WorkTypes
    <3> QED
      BY <3>1, <3>2, <3>3, <3>4 DEF WorkTypes
  <2>3. FlagTypes'
    BY <1>11 DEF TryParent, FlagTypes, Goto, Fail, Fault, tables, world, queue, work
  <2>4. pc' \in [Procs -> Steps]
    BY <1>11, <1>0 DEF TryParent, Steps, Goto, Fail, Fault, tables, world, queue, work
  <2>5. Apart(p)
    BY <1>11, <1>0 DEF TryParent, Apart, QueueTypes, WorkTypes, FlagTypes, Goto, Fail, Fault, 
       tables, world, queue, work
  <2> QED
    BY <2>1, <2>2, <2>3, <2>4, <2>5
<1>12. CASE Unrecord(p)
  <2>1. QueueTypes'
    BY <1>12 DEF Unrecord, QueueTypes, WorldTypes, Goto, Fail, Fault, Broken, tables, world, 
       queue, work
  <2>2. WorkTypes'
    BY <1>12 DEF Unrecord, WorkTypes, Goto, Fail, Fault, Broken, tables, world, queue, work
  <2>3. FlagTypes'
    BY <1>12 DEF Unrecord, FlagTypes, Goto, Fail, Fault, Broken, tables, world, queue, work
  <2>4. pc' \in [Procs -> Steps]
    BY <1>12, <1>0 DEF Unrecord, Steps, Goto, Fail, Fault, Broken, tables, world, queue, work
  <2>5. Apart(p)
    BY <1>12, <1>0 DEF Unrecord, Apart, QueueTypes, WorkTypes, FlagTypes, Goto, Fail, Fault, 
       Broken, tables, world, queue, work
  <2> QED
    BY <2>1, <2>2, <2>3, <2>4, <2>5
<1>13. CASE Send(p)
  <2>1. QueueTypes'
    BY <1>13 DEF Send, QueueTypes, WorldTypes, Goto, Fault, tables, world, queue, work
  <2>2. WorkTypes'
    BY <1>13 DEF Send, WorkTypes, Goto, Fault, tables, world, queue, work
  <2>3. FlagTypes'
    BY <1>13 DEF Send, FlagTypes, Goto, Fault, tables, world, queue, work
  <2>4. pc' \in [Procs -> Steps]
    BY <1>13, <1>0 DEF Send, Steps, Goto, Fault, tables, world, queue, work
  <2>5. Apart(p)
    BY <1>13, <1>0 DEF Send, Apart, QueueTypes, WorkTypes, FlagTypes, Goto, Fault, tables, 
       world, queue, work
  <2> QED
    BY <2>1, <2>2, <2>3, <2>4, <2>5
<1>14. CASE Receive(p)
  <2>1. QueueTypes'
    BY <1>14 DEF Receive, QueueTypes, WorldTypes, Goto, Fault, tables, world, queue, work
  <2>2. WorkTypes'
    BY <1>14 DEF Receive, WorkTypes, Goto, Fault, tables, world, queue, work
  <2>3. FlagTypes'
    BY <1>14 DEF Receive, FlagTypes, Goto, Fault, tables, world, queue, work
  <2>4. pc' \in [Procs -> Steps]
    BY <1>14, <1>0 DEF Receive, Steps, Goto, Fault, tables, world, queue, work
  <2>5. Apart(p)
    BY <1>14, <1>0 DEF Receive, Apart, QueueTypes, WorkTypes, FlagTypes, Goto, Fault, tables, 
       world, queue, work
  <2> QED
    BY <2>1, <2>2, <2>3, <2>4, <2>5
<1>15. CASE Verify(p)
  <2>1. QueueTypes'
    BY <1>15 DEF Verify, QueueTypes, WorldTypes, Goto, Fail, Fault, Broken, tables, world, 
       queue, work
  <2>2. WorkTypes'
    BY <1>15 DEF Verify, WorkTypes, Goto, Fail, Fault, Broken, tables, world, queue, work
  <2>3. FlagTypes'
    BY <1>15 DEF Verify, FlagTypes, Goto, Fail, Fault, Broken, tables, world, queue, work
  <2>4. pc' \in [Procs -> Steps]
    BY <1>15, <1>0 DEF Verify, Steps, Goto, Fail, Fault, Broken, tables, world, queue, work
  <2>5. Apart(p)
    BY <1>15, <1>0 DEF Verify, Apart, QueueTypes, WorkTypes, FlagTypes, Goto, Fail, Fault, 
       Broken, tables, world, queue, work
  <2> QED
    BY <2>1, <2>2, <2>3, <2>4, <2>5
<1>16. CASE RemovePartial(p)
  <2>1. QueueTypes'
    BY <1>16 DEF RemovePartial, QueueTypes, WorldTypes, Fail, Fault, tables, world, queue, work
  <2>2. WorkTypes'
    BY <1>16 DEF RemovePartial, WorkTypes, Fail, Fault, tables, world, queue, work
  <2>3. FlagTypes'
    BY <1>16 DEF RemovePartial, FlagTypes, Fail, Fault, tables, world, queue, work
  <2>4. pc' \in [Procs -> Steps]
    BY <1>16, <1>0 DEF RemovePartial, Steps, Fail, Fault, tables, world, queue, work
  <2>5. Apart(p)
    BY <1>16, <1>0 DEF RemovePartial, Apart, QueueTypes, WorkTypes, FlagTypes, Fail, Fault, 
       tables, world, queue, work
  <2> QED
    BY <2>1, <2>2, <2>3, <2>4, <2>5
<1>17. CASE PruneList(p)
  <2>0. pc[p] = "prune" => ReplicaKinds(recs[tgt[p]], Prefix[p], Host[p]) \subseteq Kinds
    BY QueryTypes DEF Posts, Post, Busy, Pruning, WorldTypes
  <2>1. QueueTypes'
    BY <1>17, <2>0 DEF PruneList, QueueTypes, WorldTypes, Goto, Fail, Fault, Broken, tables, 
       world, queue, work
  <2>2. WorkTypes'
    BY <1>17, <2>0 DEF PruneList, WorkTypes, Goto, Fail, Fault, Broken, tables, world, queue, work
  <2>3. FlagTypes'
    BY <1>17 DEF PruneList, FlagTypes, Goto, Fail, Fault, Broken, tables, world, queue, work
  <2>4. pc' \in [Procs -> Steps]
    BY <1>17, <1>0 DEF PruneList, Steps, Goto, Fail, Fault, Broken, tables, world, queue, work
  <2>5. Apart(p)
    BY <1>17, <1>0 DEF PruneList, Apart, QueueTypes, WorkTypes, FlagTypes, Goto, Fail, Fault, 
       Broken, tables, world, queue, work
  <2> QED
    BY <2>1, <2>2, <2>3, <2>4, <2>5
<1>18. CASE NextKind(p)
  <2>1. QueueTypes'
    BY <1>18 DEF NextKind, QueueTypes, WorldTypes, Goto, Fail, Fault, Broken, tables, world, 
       queue, work, RemotePruneCandidates, Beyond, ListReplicas
  <2>2. WorkTypes'
    <3> DEFINE Picked(k) == RemotePruneCandidates(recs[tgt[p]], Taken, Prefix[p], k, Host[p], Keep[tgt[p]])
    <3>1. CASE UNCHANGED work
      BY <3>1 DEF WorkTypes, work
    <3>2. ASSUME NEW k \in kinds[p], kinds' = [kinds EXCEPT ![p] = @ \ {k}],
                 NEW S \in SUBSET Names, victims' = [victims EXCEPT ![p] = S],
                 UNCHANGED <<cur, parent, cands>>
          PROVE  WorkTypes'
      BY <3>2 DEF WorkTypes
    <3>3. \/ UNCHANGED work
          \/ \E k \in kinds[p] : /\ kinds' = [kinds EXCEPT ![p] = @ \ {k}]
                                /\ victims' = [victims EXCEPT ![p] = Picked(k)]
                                /\ UNCHANGED <<cur, parent, cands>>
      BY <1>18 DEF NextKind, Broken
    <3>4. \A k : Picked(k) \in SUBSET Names
      BY DEF RemotePruneCandidates, Beyond, ListReplicas
    <3> QED
      BY <3>1, <3>2, <3>3, <3>4
  <2>3. FlagTypes'
    BY <1>18 DEF NextKind, FlagTypes, Goto, Fail, Fault, Broken, tables, world, queue, work
  <2>4. pc' \in [Procs -> Steps]
    BY <1>18, <1>0 DEF NextKind, Steps, Goto, Fail, Fault, Broken, tables, world, queue, work
  <2>5. Apart(p)
    BY <1>18, <1>0 DEF NextKind, Apart, QueueTypes, WorkTypes, FlagTypes, Goto, Fail, Fault, 
       Broken, tables, world, queue, work
  <2> QED
    BY <2>1, <2>2, <2>3, <2>4, <2>5
<1>19. CASE DeleteVictim(p)
  <2>1. QueueTypes'
    BY <1>19 DEF DeleteVictim, QueueTypes, WorldTypes, Goto, Fail, Fault, tables, world, queue, work
  <2>2. WorkTypes'
    <3>1. /\ UNCHANGED <<parent, cands, kinds>>
          /\ \/ cur' = cur /\ victims' = victims
             \/ \E v \in victims[p] : cur' = [cur EXCEPT ![p] = v] /\ victims' = [victims EXCEPT ![p] = @ \ {v}]
      BY <1>19 DEF DeleteVictim
    <3>2. victims[p] \subseteq Names
      BY DEF WorkTypes
    <3>3. ASSUME NEW v \in Names, cur' = [cur EXCEPT ![p] = v]
          PROVE  cur' \in [Procs -> Names \union {NoName}]
      BY <3>3 DEF WorkTypes
    <3>4. ASSUME NEW v \in Names, victims' = [victims EXCEPT ![p] = @ \ {v}]
          PROVE  victims' \in [Procs -> SUBSET Names]
      BY <3>4 DEF WorkTypes
    <3> QED
      BY <3>1, <3>2, <3>3, <3>4 DEF WorkTypes
  <2>3. FlagTypes'
    BY <1>19 DEF DeleteVictim, FlagTypes, Goto, Fail, Fault, tables, world, queue, work
  <2>4. pc' \in [Procs -> Steps]
    BY <1>19, <1>0 DEF DeleteVictim, Steps, Goto, Fail, Fault, tables, world, queue, work
  <2>5. Apart(p)
    BY <1>19, <1>0 DEF DeleteVictim, Apart, QueueTypes, WorkTypes, FlagTypes, Goto, Fail, Fault, 
       tables, world, queue, work
  <2> QED
    BY <2>1, <2>2, <2>3, <2>4, <2>5
<1>20. CASE MarkPruned(p)
  <2>1. QueueTypes'
    BY <1>20 DEF MarkPruned, QueueTypes, WorldTypes, Goto, Fail, Fault, Broken, tables, world, 
       queue, work
  <2>2. WorkTypes'
    BY <1>20 DEF MarkPruned, WorkTypes, Goto, Fail, Fault, Broken, tables, world, queue, work
  <2>3. FlagTypes'
    BY <1>20 DEF MarkPruned, FlagTypes, Goto, Fail, Fault, Broken, tables, world, queue, work
  <2>4. pc' \in [Procs -> Steps]
    BY <1>20, <1>0 DEF MarkPruned, Steps, Goto, Fail, Fault, Broken, tables, world, queue, work
  <2>5. Apart(p)
    BY <1>20, <1>0 DEF MarkPruned, Apart, QueueTypes, WorkTypes, FlagTypes, Goto, Fail, Fault, 
       Broken, tables, world, queue, work
  <2> QED
    BY <2>1, <2>2, <2>3, <2>4, <2>5
<1>21. CASE End(p)
  <2>1. QueueTypes'
    BY <1>21 DEF End, QueueTypes, WorldTypes, Reset, tables, world, queue, work
  <2>2. WorkTypes'
    BY <1>21 DEF End, WorkTypes, Reset, tables, world, queue, work
  <2>3. FlagTypes'
    BY <1>21 DEF End, FlagTypes, Reset, tables, world, queue, work
  <2>4. pc' \in [Procs -> Steps]
    BY <1>21, <1>0 DEF End, Steps, Reset, tables, world, queue, work
  <2>5. Apart(p)
    BY <1>21, <1>0 DEF End, Apart, QueueTypes, WorkTypes, FlagTypes, Reset, tables, world, 
       queue, work
  <2> QED
    BY <2>1, <2>2, <2>3, <2>4, <2>5
<1>22. CASE Crash(p)
  <2>1. QueueTypes'
    BY <1>22 DEF Crash, QueueTypes, WorldTypes, Fault, Reset, tables, world, queue, work
  <2>2. WorkTypes'
    BY <1>22 DEF Crash, WorkTypes, Fault, Reset, tables, world, queue, work
  <2>3. FlagTypes'
    BY <1>22 DEF Crash, FlagTypes, Fault, Reset, tables, world, queue, work
  <2>4. pc' \in [Procs -> Steps]
    BY <1>22, <1>0 DEF Crash, Steps, Fault, Reset, tables, world, queue, work
  <2>5. Apart(p)
    BY <1>22, <1>0 DEF Crash, Apart, QueueTypes, WorkTypes, FlagTypes, Fault, Reset, tables, 
       world, queue, work
  <2> QED
    BY <2>1, <2>2, <2>3, <2>4, <2>5
<1> QED
  BY <1>1, <1>2, <1>3, <1>4, <1>5, <1>6, <1>7, <1>8, <1>9, <1>10, <1>11, <1>12, <1>13, <1>14,
     <1>15, <1>16, <1>17, <1>18, <1>19, <1>20, <1>21, <1>22 DEF Moves, Start, Step

(* After its step an invocation has what it then works on.                  *)
LEMMA MovePost ==
    ASSUME TypeInv, NEW p \in Procs, Moves(p), pc' \in [Procs -> Steps], QueueTypes', WorkTypes'
    PROVE  Post(p)'
<1> USE DEF TypeInv
<1>0. pc \in [Procs -> Steps] /\ Post(p)
  BY DEF Posts
<1> USE DEF Post, Busy, Sending, Pruning, Handling
<1>1. CASE StartSend(p)
  BY <1>1, <1>0 DEF StartSend, QueueTypes, WorkTypes, Goto, queue, work
<1>2. CASE \E t \in Targets, n \in Names : StartDel(p, t, n)
  BY <1>2, <1>0 DEF StartDel, QueueTypes, WorkTypes, Goto, queue, work
<1>3. CASE NextTarget(p)
  BY <1>3, <1>0 DEF NextTarget, QueueTypes, WorkTypes, Goto, Fail, queue, work
<1>4. CASE CheckDir(p)
  BY <1>4, <1>0 DEF CheckDir, QueueTypes, WorkTypes, Goto, Fail, Broken, queue, work
<1>5. CASE CheckRecorded(p)
  BY <1>5, <1>0 DEF CheckRecorded, QueueTypes, WorkTypes, Goto, Fail, Broken, queue, work
<1>6. CASE NextSnapshot(p)
  BY <1>6, <1>0 DEF NextSnapshot, QueueTypes, WorkTypes, Goto, queue, work
<1>7. CASE LookRemote(p)
  BY <1>7, <1>0 DEF LookRemote, QueueTypes, WorkTypes, Goto, Fail, Broken, queue, work
<1>8. CASE Insert(p)
  BY <1>8, <1>0 DEF Insert, QueueTypes, WorkTypes, Goto, Fail, Broken, queue, work
<1>9. CASE Replace(p)
  BY <1>9, <1>0 DEF Replace, QueueTypes, WorkTypes, Goto, Fail, Broken, queue, work
<1>10. CASE ListParents(p)
  BY <1>10, <1>0 DEF ListParents, QueueTypes, WorkTypes, Goto, Fail, Broken, queue, work
<1>11. CASE TryParent(p)
  BY <1>11, <1>0 DEF TryParent, QueueTypes, WorkTypes, Goto, Fail, queue, work
<1>12. CASE Unrecord(p)
  BY <1>12, <1>0 DEF Unrecord, QueueTypes, WorkTypes, Goto, Fail, Broken, queue, work
<1>13. CASE Send(p)
  BY <1>13, <1>0 DEF Send, QueueTypes, WorkTypes, Goto, queue, work
<1>14. CASE Receive(p)
  BY <1>14, <1>0 DEF Receive, QueueTypes, WorkTypes, Goto, queue, work
<1>15. CASE Verify(p)
  BY <1>15, <1>0 DEF Verify, QueueTypes, WorkTypes, Goto, Fail, Broken, queue, work
<1>16. CASE RemovePartial(p)
  BY <1>16, <1>0 DEF RemovePartial, QueueTypes, WorkTypes, Fail, queue, work
<1>17. CASE PruneList(p)
  BY <1>17, <1>0 DEF PruneList, QueueTypes, WorkTypes, Goto, Fail, Broken, queue, work
<1>18. CASE NextKind(p)
  BY <1>18, <1>0 DEF NextKind, QueueTypes, WorkTypes, Goto, Fail, Broken, queue, work
<1>19. CASE DeleteVictim(p)
  BY <1>19, <1>0 DEF DeleteVictim, QueueTypes, WorkTypes, Goto, Fail, queue, work
<1>20. CASE MarkPruned(p)
  BY <1>20, <1>0 DEF MarkPruned, QueueTypes, WorkTypes, Goto, Fail, Broken, queue, work
<1>21. CASE End(p)
  BY <1>21, <1>0 DEF End, QueueTypes, WorkTypes, Reset, queue, work
<1>22. CASE Crash(p)
  BY <1>22, <1>0 DEF Crash, QueueTypes, WorkTypes, Reset, queue, work
<1> QED
  BY <1>1, <1>2, <1>3, <1>4, <1>5, <1>6, <1>7, <1>8, <1>9, <1>10, <1>11, <1>12, <1>13, <1>14,
     <1>15, <1>16, <1>17, <1>18, <1>19, <1>20, <1>21, <1>22 DEF Moves, Start, Step

(* What a receive leaves when its invocation waits for it no more.           *)
Ends == {"orphan", "left", "short", "complete"}

(* What a step of an invocation does to the tables and the media.            *)
RecsMove(p) ==
    \/ recs' = recs
    \/ pc[p] \in {"adopt", "record"} /\ Recorded(p, cur[p], "present")
    \/ pc[p] = "unrecord" /\ Recorded(p, parent[p], "none")
    \/ /\ pc[p] = "mark"
       /\ Recorded(p, cur[p], IF recs[tgt[p]][cur[p]] = "none" THEN "none" ELSE "pruned")

MediaMove(p) ==
    \/ /\ media' = media /\ removed' = removed
       /\ pc'[p] # "receive" /\ (pc[p] = "receive" => At(p, cur[p]) # p)
    \/ /\ pc[p] \in {"replace", "unsend"} /\ pc'[p] # "receive"
       /\ Written(p, cur[p], "none") /\ removed' = removed
    \/ /\ pc[p] = "send" /\ pc'[p] = "receive" /\ cur'[p] = cur[p] /\ tgt'[p] = tgt[p]
       /\ TargetDir(p) /\ At(p, cur[p]) = "none"
       /\ Written(p, cur[p], p) /\ removed' = removed
    \/ /\ pc[p] = "receive" /\ pc'[p] \in {"verify", "unsend", "idle"} /\ At(p, cur[p]) = p
       /\ \E s \in Ends : /\ Written(p, cur[p], s)
                          /\ removed' \in {removed, removed \ {<<tgt[p], cur[p]>>}}
                          /\ removed' # removed => Marked(s)
    \/ /\ pc[p] = "victim" /\ pc'[p] # "receive"
       /\ \E v \in victims[p] :
             Written(p, v, "none") /\ removed' = removed \union {<<tgt[p], v>>}

WorldMove(p) == /\ UNCHANGED <<rows, disk, used, mount>> /\ faults' \in 0 .. MaxFaults
                /\ RecsMove(p) /\ MediaMove(p)

(* A step of an invocation moves records and media only in those ways.       *)
LEMMA MoveWorld ==
    ASSUME TypeInv, NEW p \in Procs, Moves(p)
    PROVE  WorldMove(p)
<1>0. /\ pc \in [Procs -> Steps] /\ Post(p) /\ faults \in 0 .. MaxFaults
      /\ MaxFaults \in Nat /\ p \notin {"none"} \union Ends /\ victims[p] \subseteq Names
      /\ p \in Status /\ {"none"} \union Ends \subseteq Status
  BY DEF TypeInv, Posts, WorldTypes, WorkTypes, Status, Ends
<1>1. UNCHANGED <<rows, disk, used, mount>>
  BY DEF Moves, Start, Step, StartSend, StartDel, NextTarget, CheckDir, CheckRecorded,
     NextSnapshot, LookRemote, Insert, Replace, ListParents, TryParent, Unrecord, Send, Receive,
     Verify, RemovePartial, PruneList, NextKind, DeleteVictim, MarkPruned, End, Crash, Fault,
     Broken, Reset, tables, world
<1>2. faults' \in 0 .. MaxFaults
  BY <1>0 DEF Moves, Start, Step, StartSend, StartDel, NextTarget, CheckDir, CheckRecorded,
     NextSnapshot, LookRemote, Insert, Replace, ListParents, TryParent, Unrecord, Send, Receive,
     Verify, RemovePartial, PruneList, NextKind, DeleteVictim, MarkPruned, End, Crash, Fault,
     Broken, Reset
<1>3. RecsMove(p)
  <2>1. CASE Insert(p)
    <3>1. tgt[p] \in Targets /\ cur[p] \in Names
      BY <1>0, <2>1 DEF Insert, Post, Busy, Sending, Pruning, Handling
    <3>2. CASE Broken(p)
      BY <3>2 DEF Broken, tables, RecsMove
    <3>3. CASE ~ Broken(p)
      <4>1. SetRec(p, cur[p], "present")
        BY <2>1, <3>3 DEF Insert
      <4>2. Recorded(p, cur[p], "present")
        BY <3>1, <4>1, SetRecRecords DEF TypeInv
      <4> QED
        BY <2>1, <4>2 DEF Insert, RecsMove
    <3> QED
      BY <3>2, <3>3
  <2>2. CASE Unrecord(p)
    <3>1. tgt[p] \in Targets /\ parent[p] \in Names
      BY <1>0, <2>2 DEF Unrecord, Post, Busy, Sending, Pruning, Handling
    <3>2. CASE Broken(p)
      BY <3>2 DEF Broken, tables, RecsMove
    <3>3. CASE ~ Broken(p)
      <4>1. SetRec(p, parent[p], "none")
        BY <2>2, <3>3 DEF Unrecord
      <4>2. Recorded(p, parent[p], "none")
        BY <3>1, <4>1, SetRecRecords DEF TypeInv
      <4> QED
        BY <2>2, <4>2 DEF Unrecord, RecsMove
    <3> QED
      BY <3>2, <3>3
  <2>3. CASE MarkPruned(p)
    <3>1. tgt[p] \in Targets /\ cur[p] \in Names
      BY <1>0, <2>3 DEF MarkPruned, Post, Busy, Sending, Pruning, Handling
    <3>2. CASE Broken(p)
      BY <3>2 DEF Broken, tables, RecsMove
    <3>3. CASE ~ Broken(p)
      <4>1. SetRec(p, cur[p], IF recs[tgt[p]][cur[p]] = "none" THEN "none" ELSE "pruned")
        BY <2>3, <3>3 DEF MarkPruned
      <4>2. Recorded(p, cur[p], IF recs[tgt[p]][cur[p]] = "none" THEN "none" ELSE "pruned")
        BY <3>1, <4>1, SetRecRecords DEF TypeInv
      <4> QED
        BY <2>3, <4>2 DEF MarkPruned, RecsMove
    <3> QED
      BY <3>2, <3>3
  <2>4. CASE ~ (Insert(p) \/ Unrecord(p) \/ MarkPruned(p))
    BY <2>4 DEF RecsMove, Moves, Start, Step, StartSend, StartDel, NextTarget, CheckDir,
       CheckRecorded, NextSnapshot, LookRemote, Replace, ListParents, TryParent, Send, Receive,
       Verify, RemovePartial, PruneList, NextKind, DeleteVictim, End, Crash, Broken, tables
  <2> QED
    BY <2>1, <2>2, <2>3, <2>4
<1>4. MediaMove(p)
  <2> USE DEF MediaMove
  <2>1. CASE Replace(p)
    <3>1. tgt[p] \in Targets /\ cur[p] \in Names
      BY <1>0, <2>1 DEF Replace, Post, Busy, Sending, Pruning, Handling
    <3>2. CASE Put(p, cur[p], "none") /\ media' # media
      <4>1. tgt[p] \in Targets /\ cur[p] \in Names /\ TargetDir(p)
        BY <1>0, <2>1, <3>1, <3>2, AtType DEF Replace, tables, world, Broken
      <4>2. Written(p, cur[p], "none")
        BY <1>0, <3>2, <4>1, PutWrites
      <4> QED
        BY <1>0, <2>1, <3>2, <4>2 DEF Replace, Goto, Fail, queue, work, tables, world, Broken
    <3>3. CASE media' = media
      BY <1>0, <2>1, <3>3 DEF Replace, Goto, Fail, queue, work, tables, world, Broken
    <3> QED
      BY <2>1, <3>2, <3>3 DEF Replace, tables, world, Broken
  <2>2. CASE Send(p)
    <3>1. tgt[p] \in Targets /\ cur[p] \in Names
      BY <1>0, <2>2 DEF Send, Post, Busy, Sending, Handling
    <3>2. ASSUME TargetDir(p), At(p, cur[p]) = "none", Put(p, cur[p], p), Goto(p, "receive"),
                 UNCHANGED <<removed, queue, work>>
          PROVE  MediaMove(p)
      <4>1. Written(p, cur[p], p)
        BY <1>0, <3>1, <3>2, PutWrites
      <4> QED
        BY <1>0, <2>2, <3>2, <4>1 DEF Send, Goto, queue, work
    <3>3. ASSUME Goto(p, "unsend"), UNCHANGED world PROVE MediaMove(p)
      BY <1>0, <2>2, <3>3 DEF Send, Goto, world
    <3> QED
      BY <2>2, <3>2, <3>3 DEF Send
  <2>3. CASE Receive(p)
    <3>1. tgt[p] \in Targets /\ cur[p] \in Names /\ pc[p] = "receive"
      BY <1>0, <2>3 DEF Receive, Post, Busy, Sending, Handling
    <3>2. At(p, cur[p]) = p => TargetDir(p)
      BY <1>0, <3>1, AtType
    <3>3. ASSUME At(p, cur[p]) = p, NEW s \in Ends, Put(p, cur[p], s),
                 Goto(p, "verify") \/ Goto(p, "unsend"),
                 removed' = IF Marked(s) THEN removed \ {<<tgt[p], cur[p]>>} ELSE removed
          PROVE  MediaMove(p)
      <4>1. Written(p, cur[p], s)
        BY <1>0, <3>1, <3>2, <3>3, PutWrites
      <4>2. pc'[p] \in {"verify", "unsend"}
        BY <1>0, <3>3 DEF Goto
      <4> QED
        BY <3>1, <3>3, <4>1, <4>2
    <3>4. ASSUME At(p, cur[p]) # p, Goto(p, "unsend"), UNCHANGED world PROVE MediaMove(p)
      BY <1>0, <3>4 DEF Goto, world
    <3> QED
      BY <2>3, <3>3, <3>4 DEF Receive, Ends
  <2>4. CASE RemovePartial(p)
    <3>1. tgt[p] \in Targets /\ cur[p] \in Names
      BY <1>0, <2>4 DEF RemovePartial, Post, Busy, Sending, Pruning, Handling
    <3>2. CASE Put(p, cur[p], "none") /\ media' # media
      <4>1. tgt[p] \in Targets /\ cur[p] \in Names /\ TargetDir(p)
        BY <1>0, <2>4, <3>1, <3>2, AtType DEF RemovePartial, tables, world
      <4>2. Written(p, cur[p], "none")
        BY <1>0, <3>2, <4>1, PutWrites
      <4> QED
        BY <1>0, <2>4, <3>2, <4>2 DEF RemovePartial, Fail, queue, work, tables, world
    <3>3. CASE media' = media
      BY <1>0, <2>4, <3>3 DEF RemovePartial, Fail, queue, work, tables, world
    <3> QED
      BY <2>4, <3>2, <3>3 DEF RemovePartial, tables, world
  <2>5. CASE DeleteVictim(p)
    <3>1. tgt[p] \in Targets /\ pc[p] = "victim" /\ pc'[p] # "receive"
      BY <1>0, <2>5 DEF DeleteVictim, Goto, Fail, Post, Busy, Sending, Pruning, Handling
    <3>2. ASSUME NEW v \in victims[p], At(p, v) # "none", Put(p, v, "none"),
                 removed' = removed \union {<<tgt[p], v>>}
          PROVE  MediaMove(p)
      BY <1>0, <3>1, <3>2, AtType, PutWrites
    <3> QED
      BY <2>5, <3>1, <3>2 DEF DeleteVictim
  <2>6. CASE Crash(p)
    <3>1. pc'[p] = "idle" /\ removed' = removed
      BY <1>0, <2>6 DEF Crash, Reset
    <3>2. CASE pc[p] = "receive" /\ At(p, cur[p]) = p
      <4>1. tgt[p] \in Targets /\ cur[p] \in Names
        BY <1>0, <3>2 DEF Post, Busy, Sending, Handling
      <4>2. TargetDir(p) /\ Put(p, cur[p], "orphan")
        BY <1>0, <2>6, <3>2, <4>1, AtType DEF Crash
      <4>3. "orphan" \in Ends /\ Written(p, cur[p], "orphan")
        BY <1>0, <4>1, <4>2, PutWrites DEF Ends
      <4> QED
        BY <3>1, <3>2, <4>3
    <3>3. CASE ~ (pc[p] = "receive" /\ At(p, cur[p]) = p)
      BY <2>6, <3>1, <3>3 DEF Crash
    <3> QED
      BY <3>2, <3>3
  <2>7. CASE ~ (Replace(p) \/ Send(p) \/ Receive(p) \/ RemovePartial(p) \/ DeleteVictim(p) \/ Crash(p))
    BY <1>0, <2>7 DEF Moves, Start, Step, StartSend, StartDel, NextTarget, CheckDir,
       CheckRecorded, NextSnapshot, LookRemote, Insert, ListParents, TryParent, Unrecord,
       Verify, PruneList, NextKind, MarkPruned, End, Goto, Fail, Broken, Reset, world
  <2> QED
    BY <2>1, <2>2, <2>3, <2>4, <2>5, <2>6, <2>7
<1> QED
  BY <1>1, <1>2, <1>3, <1>4 DEF WorldMove

(* So the types are kept, and what is being written is what its invocation *)
(* works on.                                                                 *)
LEMMA MoveWriting ==
    ASSUME TypeInv, NEW p \in Procs, Moves(p)
    PROVE  Writing'
<1>0. Apart(p) /\ WorldMove(p) /\ MediaMove(p) /\ mount' = mount /\ Writing
  BY MoveTypes, MoveWorld DEF WorldMove, TypeInv
<1>1. /\ pc[p] \in {"replace", "unsend", "send", "receive", "victim"} => tgt[p] \in Targets
      /\ pc[p] \in {"replace", "unsend", "send", "receive"} => cur[p] \in Names
      /\ victims[p] \subseteq Names
  BY DEF TypeInv, Posts, Post, Busy, Sending, Pruning, Handling, WorkTypes
<1> SUFFICES ASSUME NEW q \in Procs, NEW d \in Media, NEW s \in Sides, NEW n \in Names,
                    media'[d][s][n] = q
             PROVE  /\ pc'[q] = "receive" /\ cur'[q] = n
                    /\ d = Place[Host[q]][tgt'[q]] /\ s = mount'[d]
  BY DEF Writing, Medium
<1>2. media[d][s][n] = q =>
          pc[q] = "receive" /\ cur[q] = n /\ d = Place[Host[q]][tgt[q]] /\ s = mount[d]
  BY <1>0 DEF Writing, Medium
<1>3. q # p => pc'[q] = pc[q] /\ cur'[q] = cur[q] /\ tgt'[q] = tgt[q]
  BY <1>0 DEF Apart
<1>4. q \notin {"none"} \union Ends
  BY DEF Ends
<1>5. ASSUME NEW m \in Names, NEW x, Written(p, m, x), media[d][s][n] # media'[d][s][n]
      PROVE  x = q /\ d = Medium(p) /\ s = mount[d] /\ n = m
  BY <1>5 DEF Written
<1>6. ASSUME pc[p] = "receive", At(p, cur[p]) # p PROVE media[d][s][n] # p
  <2> SUFFICES ASSUME media[d][s][n] = p PROVE FALSE
    OBVIOUS
  <2>1. cur[p] = n /\ d = Medium(p) /\ s = mount[d]
    BY <1>0 DEF Writing
  <2>2. At(p, cur[p]) = p
    BY <2>1 DEF At, TargetDir, Sides
  <2> QED
    BY <1>6, <2>2
<1>7. CASE q # p
  <2>1. media[d][s][n] = q
    BY <1>0, <1>1, <1>4, <1>5, <1>7 DEF MediaMove
  <2> QED
    BY <1>0, <1>2, <1>3, <1>7, <2>1
<1>8. CASE q = p
  <2>1. CASE media' = media /\ (pc[p] = "receive" => At(p, cur[p]) # p)
    BY <1>2, <1>6, <1>8, <2>1
  <2>2. ASSUME pc[p] = "receive", NEW x \in Ends, Written(p, cur[p], x) PROVE FALSE
    <3>1. CASE media[d][s][n] = p
      <4>1. cur[p] = n /\ d = Medium(p) /\ s = mount[d]
        BY <1>2, <1>8, <3>1 DEF Medium
      <4> QED
        BY <1>4, <1>8, <2>2, <4>1 DEF Written
    <3>2. CASE media[d][s][n] # p
      BY <1>1, <1>4, <1>5, <1>8, <2>2, <3>2
    <3> QED
      BY <3>1, <3>2
  <2>3. CASE pc[p] = "send" /\ pc'[p] = "receive" /\ cur'[p] = cur[p] /\ tgt'[p] = tgt[p] /\ Written(p, cur[p], p)
    <3>1. media[d][s][n] # q
      BY <1>2, <1>8, <2>3
    <3>2. d = Medium(p) /\ s = mount[d] /\ n = cur[p]
      BY <1>1, <1>5, <2>3, <3>1
    <3> QED
      BY <1>0, <1>8, <2>3, <3>2 DEF Medium
  <2>4. CASE pc[p] # "receive" /\ \E m \in Names : Written(p, m, "none")
    BY <1>2, <1>4, <1>5, <1>8, <2>4
  <2> QED
    BY <1>0, <1>1, <2>1, <2>2, <2>3, <2>4 DEF MediaMove
<1> QED
  BY <1>7, <1>8

(* It keeps the types of records and media.                                  *)
LEMMA MoveWorldTypes ==
    ASSUME TypeInv, NEW p \in Procs, Moves(p)
    PROVE  WorldTypes'
<1>0. WorldMove(p) /\ RecsMove(p) /\ MediaMove(p) /\ WorldTypes
  BY MoveWorld DEF WorldMove, TypeInv
<1>1. recs' \in [Targets -> [Names -> {"none", "present", "pruned"}]]
  BY <1>0 DEF RecsMove, Recorded, WorldTypes
<1>2. media' \in [Media -> [Sides -> [Names -> Status]]]
  BY <1>0 DEF MediaMove, Written, WorldTypes
<1>3. removed' \subseteq Targets \X Names
  <2>1. pc[p] = "victim" => tgt[p] \in Targets /\ victims[p] \subseteq Names
    BY DEF TypeInv, Posts, Post, Busy, Pruning, WorkTypes
  <2> QED
    BY <1>0, <2>1 DEF MediaMove, WorldTypes
<1> QED
  BY <1>0, <1>1, <1>2, <1>3 DEF WorldMove, WorldTypes

(* It keeps the whole type invariant, and the other invocations' state.      *)
LEMMA MoveKeepsTypes ==
    ASSUME TypeInv, NEW p \in Procs, Moves(p)
    PROVE  TypeInv' /\ Apart(p) /\ WorldMove(p)
<1>1. QueueTypes' /\ WorkTypes' /\ FlagTypes' /\ pc' \in [Procs -> Steps] /\ Apart(p)
  BY MoveTypes
<1>2. Post(p)'
  BY <1>1, MovePost
<1>3. ASSUME NEW q \in Procs \ {p} PROVE Post(q)'
  BY <1>1, <1>3 DEF Post, Apart, TypeInv, Posts
<1>4. Posts'
  BY <1>1, <1>2, <1>3 DEF Posts
<1> QED
  BY <1>1, <1>4, MoveWriting, MoveWorldTypes, MoveWorld DEF TypeInv

-----------------------------------------------------------------------------
(* What happens around the invocations leaves them alone, and at most deletes *)
(* a replica.                                                                *)
Lost(d, n) ==
    /\ \A e \in Media, s \in Sides, m \in Names :
          media'[e][s][m] = IF e = d /\ s = "disk" /\ m = n THEN "none" ELSE media[e][s][m]
    /\ removed' = removed \union {<<t, n>> : t \in {u \in Targets : Place[Record[n].machine][u] = d}}

(* Or a receive that outlived its invocation ends.                           *)
Ended(d, s, n) ==
    /\ media[d][s][n] = "orphan"
    /\ \E r \in Ends \ {"orphan"} :
          /\ \A e \in Media, f \in Sides, m \in Names :
                media'[e][f][m] = IF e = d /\ f = s /\ m = n THEN r ELSE media[e][f][m]
          /\ removed' = IF Marked(r)
                        THEN {x \in removed : x[2] = n => Place[Record[n].machine][x[1]] # d}
                        ELSE removed

Outside ==
    /\ UNCHANGED <<recs, queue, work, pc>> /\ WorldTypes'
    /\ \/ media' = media /\ removed' = removed
       \/ "tamper" \in Events /\ \E d \in Media, n \in Names : Lost(d, n)
       \/ \E d \in Media, s \in Sides, n \in Names : Ended(d, s, n)

(* What happens around the invocations changes only that, and no mount under a *)
(* receive.                                                                  *)
LEMMA EnvironmentOutside ==
    ASSUME TypeInv, Environment
    PROVE  Outside /\ \A p \in Procs : pc[p] = "receive" => mount'[Medium(p)] = mount[Medium(p)]
<1>0. WorldTypes /\ MaxFaults \in Nat
  BY DEF TypeInv
<1>1. ASSUME NEW n \in Names, Create(n) \/ DeleteLocal(n) \/ ForgetLocal(n)
      PROVE  /\ UNCHANGED <<recs, queue, work, pc, media, removed, mount>>
             /\ WorldTypes'
  BY <1>0, <1>1 DEF Create, DeleteLocal, ForgetLocal, WorldTypes, tables, world
<1>2. ASSUME NEW d \in Media, Detach(d) \/ Attach(d)
      PROVE  /\ UNCHANGED <<recs, queue, work, pc, media, removed>> /\ WorldTypes'
             /\ \A p \in Procs : pc[p] = "receive" => mount'[Medium(p)] = mount[Medium(p)]
  <2>1. /\ UNCHANGED <<rows, recs, disk, used, queue, work, pc, media, removed>>
        /\ faults' \in 0 .. MaxFaults
        /\ Free(d) /\ mount' = [mount EXCEPT ![d] = mount'[d]] /\ mount'[d] \in {"disk", "bare", "gone"}
    BY <1>0, <1>2 DEF Detach, Attach, Fault, tables, WorldTypes
  <2>2. \A p \in Procs : pc[p] = "receive" => tgt[p] # NoTarget /\ Medium(p) # d
    <3> SUFFICES ASSUME NEW p \in Procs, pc[p] = "receive" PROVE tgt[p] # NoTarget /\ Medium(p) # d
      OBVIOUS
    <3>1. tgt[p] \in Targets
      BY DEF TypeInv, Posts, Post, Busy, Sending, Handling
    <3> QED
      BY <2>1, <3>1 DEF Free, NoTarget
  <2>3. mount' \in [Media -> {"disk", "bare", "gone"}]
    BY <1>0, <2>1 DEF WorldTypes
  <2>4. \A p \in Procs : pc[p] = "receive" => mount'[Medium(p)] = mount[Medium(p)]
    <3> SUFFICES ASSUME NEW p \in Procs, pc[p] = "receive" PROVE mount'[Medium(p)] = mount[Medium(p)]
      OBVIOUS
    <3>1. Medium(p) \in Media
      BY MediumType DEF TypeInv, Posts, Post, Busy, Sending, Handling
    <3> QED
      BY <1>0, <2>1, <2>2, <3>1 DEF WorldTypes
  <2> QED
    BY <1>0, <2>1, <2>3, <2>4 DEF WorldTypes
<1>3. ASSUME NEW d \in Media, NEW n \in Names, Tamper(d, n)
      PROVE  Outside /\ mount' = mount
  <2>1. /\ UNCHANGED <<rows, recs, disk, used, mount, faults, queue, work, pc>>
        /\ media' = [media EXCEPT ![d]["disk"][n] = "none"]
        /\ removed' = removed \union {<<t, n>> : t \in
                          {u \in Targets : Place[Record[n].machine][u] = d}}
    BY <1>3 DEF Tamper, tables
  <2> DEFINE inner == [media[d]["disk"] EXCEPT ![n] = "none"]
             middle == [media[d] EXCEPT !["disk"] = inner]
  <2>2. media[d] \in [Sides -> [Names -> Status]] /\ media[d]["disk"] \in [Names -> Status]
    BY <1>0 DEF WorldTypes, Sides
  <2>3. inner \in [Names -> Status] /\ \A m \in Names : inner[m] = IF m = n THEN "none" ELSE media[d]["disk"][m]
    BY <2>2 DEF Status
  <2>4. media' = [media EXCEPT ![d] = middle]
    BY <2>1
  <2> HIDE DEF inner
  <2>5. middle \in [Sides -> [Names -> Status]] /\ middle["disk"] = inner /\ middle["bare"] = media[d]["bare"]
    BY <2>2, <2>3 DEF Sides
  <2> HIDE DEF middle
  <2>6. /\ media' \in [Media -> [Sides -> [Names -> Status]]]
        /\ media'[d] = middle /\ \A e \in Media : e # d => media'[e] = media[e]
    BY <1>0, <2>4, <2>5 DEF WorldTypes
  <2>7. Lost(d, n)
    BY <2>1, <2>3, <2>5, <2>6 DEF Sides, Lost
  <2>8. removed' \subseteq Targets \X Names
    BY <1>0, <2>1 DEF WorldTypes
  <2>9. WorldTypes'
    BY <1>0, <2>1, <2>6, <2>8 DEF WorldTypes
  <2> QED
    BY <1>3, <2>1, <2>7, <2>9 DEF Outside, Tamper
<1>4. ASSUME NEW d \in Media, NEW s \in Sides, NEW n \in Names, OrphanEnds(d, s, n)
      PROVE  Outside /\ mount' = mount
  <2>1. PICK r \in Ends \ {"orphan"} :
            /\ media' = [media EXCEPT ![d][s][n] = r]
            /\ removed' = IF Marked(r)
                          THEN {x \in removed : x[2] = n => Place[Record[n].machine][x[1]] # d}
                          ELSE removed
    BY <1>4 DEF OrphanEnds, Ends
  <2>2. /\ UNCHANGED <<rows, recs, disk, used, mount, faults, queue, work, pc>>
        /\ media[d][s][n] = "orphan"
    BY <1>4 DEF OrphanEnds, tables
  <2> DEFINE inner == [media[d][s] EXCEPT ![n] = r]
             middle == [media[d] EXCEPT ![s] = inner]
  <2>3. media[d] \in [Sides -> [Names -> Status]] /\ media[d][s] \in [Names -> Status]
    BY <1>0 DEF WorldTypes
  <2>4. inner \in [Names -> Status] /\ \A m \in Names : inner[m] = IF m = n THEN r ELSE media[d][s][m]
    BY <2>3 DEF Status, Ends
  <2>5. media' = [media EXCEPT ![d] = middle]
    BY <2>1
  <2> HIDE DEF inner
  <2>6. /\ middle \in [Sides -> [Names -> Status]]
        /\ middle[s] = inner /\ \A f \in Sides : f # s => middle[f] = media[d][f]
    BY <2>3, <2>4
  <2> HIDE DEF middle
  <2>7. /\ media' \in [Media -> [Sides -> [Names -> Status]]]
        /\ media'[d] = middle /\ \A e \in Media : e # d => media'[e] = media[e]
    BY <1>0, <2>5, <2>6 DEF WorldTypes
  <2>8. Ended(d, s, n)
    BY <2>1, <2>2, <2>4, <2>6, <2>7 DEF Ended
  <2>9. removed' \subseteq Targets \X Names
    BY <1>0, <2>1 DEF WorldTypes
  <2>10. WorldTypes'
    BY <1>0, <2>2, <2>7, <2>9 DEF WorldTypes
  <2> QED
    BY <2>2, <2>8, <2>10 DEF Outside
<1> QED
  BY <1>1, <1>2, <1>3, <1>4 DEF Environment, Outside

(* It keeps the type invariant.                                              *)
LEMMA OutsideKeepsTypes ==
    ASSUME TypeInv, Environment
    PROVE  TypeInv'
<1>0. Outside /\ \A p \in Procs : pc[p] = "receive" => mount'[Medium(p)] = mount[Medium(p)]
  BY EnvironmentOutside
<1>1. QueueTypes' /\ WorkTypes' /\ FlagTypes' /\ Posts'
  BY <1>0 DEF Outside, TypeInv, QueueTypes, WorkTypes, FlagTypes, Posts, Post, queue, work
<1>2. Writing'
  <2> SUFFICES ASSUME NEW q \in Procs, NEW d \in Media, NEW s \in Sides, NEW n \in Names,
                      media'[d][s][n] = q
               PROVE  /\ pc'[q] = "receive" /\ cur'[q] = n
                      /\ d = Place[Host[q]][tgt'[q]] /\ s = mount'[d]
    BY DEF Writing, Medium
  <2>1. q \notin {"none"} \union Ends
    BY DEF Ends
  <2>2. media[d][s][n] = q
    BY <1>0, <2>1 DEF Outside, Lost, Ended
  <2>3. pc[q] = "receive" /\ cur[q] = n /\ d = Medium(q) /\ s = mount[d]
    BY <2>2 DEF TypeInv, Writing
  <2> QED
    BY <1>0, <2>3 DEF Outside, queue, work, Medium
<1> QED
  BY <1>0, <1>1, <1>2 DEF Outside, TypeInv

(* TypeInv is inductive.                                                     *)
LEMMA TypeStep == TypeInv /\ [Next]_vars => TypeInv'
<1> SUFFICES ASSUME TypeInv, [Next]_vars PROVE TypeInv'
  OBVIOUS
<1>1. CASE \E p \in Procs : Moves(p)
  BY <1>1, MoveKeepsTypes
<1>2. CASE Environment
  BY <1>2, OutsideKeepsTypes
<1>3. CASE UNCHANGED vars
  BY <1>3 DEF vars, tables, world, queue, work, TypeInv, WorldTypes, QueueTypes, WorkTypes,
     FlagTypes, Posts, Post, Writing, Medium
<1> QED
  BY <1>1, <1>2, <1>3 DEF Next, Moves

(* The type invariant holds initially.                                       *)
LEMMA TypeInit == Init => TypeInv
<1> SUFFICES ASSUME Init PROVE TypeInv
  OBVIOUS
<1>1. WorldTypes
  BY DEF Init, WorldTypes, Sides, Status
<1>2. QueueTypes /\ WorkTypes /\ FlagTypes
  BY DEF Init, QueueTypes, WorkTypes, FlagTypes
<1>3. Posts
  BY DEF Init, Posts, Post, Steps, Busy, Sending, Pruning, Handling
<1>4. Writing
  BY DEF Init, Writing, Sides
<1> QED
  BY <1>1, <1>2, <1>3, <1>4 DEF TypeInv

(* The shape of the state, for every value of the constants: what TypeOK     *)
(* says of the types, and that a subvolume an invocation is receiving        *)
(* belongs to one that is in fact receiving it.                              *)
THEOREM ReplicationTypeCorrect == Spec => []TypeOK
BY TypeInit, TypeStep, TypeInvOK, PTL DEF Spec

-----------------------------------------------------------------------------
(* One invocation per machine. *)

(* At any time one invocation runs on each machine, and --del --from-replica *)
(* only where no other machine uses the database: two on one machine, or a   *)
(* --del beside a --send, can undo what the other relies on.                 *)
OneSenderEach == \A p, q \in Procs : p # q => Host[p] # Host[q] /\ Ops[p] = {"send"}

Mine(p, n) == Record[n].machine = Host[p]

(* Every record was made by an invocation of the snapshot's machine.         *)
Recorder ==
    \A t \in Targets, n \in Names : recs[t][n] # "none" => \E q \in Procs : Mine(q, n)

(* An invocation works on snapshots of its machine only.                     *)
Owned(p) ==
    \A n \in Names :
        n \in pending[p] \/ n \in todo[p] \/ n \in cands[p] \/ n \in victims[p]
              \/ n = cur[p] \/ n = parent[p]
        => Mine(p, n)

(* What is still to be sent has no record at the target, nor has the         *)
(* snapshot being sent, until its own is written.                            *)
Queued(p) ==
    /\ pc[p] \in Sending => \A n \in todo[p] : recs[tgt[p]][n] = "none"
    /\ pc[p] \in Handling => cur[p] \notin todo[p] /\ recs[tgt[p]][cur[p]] = "none"

(* The parents under consideration are recorded.                             *)
Parents(p) ==
    /\ pc[p] \in {"parent", "unrecord"} => \A c \in cands[p] : recs[tgt[p]][c] = "present"
    /\ pc[p] = "unrecord" => parent[p] \notin cands[p] /\ recs[tgt[p]][parent[p]] = "present"

(* The recorded replicas of v's kind and machine that are newer.             *)
Ahead(p, v) ==
    {m \in ListReplicas(recs[tgt[p]]) : /\ Record[m].machine = Record[v].machine
                                        /\ Record[m].kind = Record[v].kind
                                        /\ Newer(Taken, m, v)}

(* A replica goes because Keep newer ones stay, the oldest first.            *)
Retained(p) ==
    pc[p] \in {"victim", "mark"} /\ ~ byHand[p] =>
        \A v \in victims[p] : /\ Keep[tgt[p]] <= Cardinality(Ahead(p, v))
                              /\ pc[p] = "mark" => cur[p] < v

SenderInv == /\ TypeInv /\ Recorder
             /\ \A p \in Procs : Owned(p) /\ Queued(p) /\ Parents(p) /\ Retained(p)

(* Whatever an invocation turns to next is a snapshot of its machine.         *)
LEMMA MoveOwned ==
    ASSUME OneSenderEach, SenderInv, NEW p \in Procs, Moves(p)
    PROVE  Owned(p)'
<1> SUFFICES ASSUME NEW n \in Names,
                    n \in pending'[p] \/ n \in todo'[p] \/ n \in cands'[p] \/ n \in victims'[p]
                        \/ n = cur'[p] \/ n = parent'[p]
             PROVE  Mine(p, n)
  BY DEF Owned, Mine
<1>0. /\ Owned(p) /\ Recorder /\ QueueTypes /\ WorkTypes /\ n # NoName
  BY DEF SenderInv, TypeInv, CatalogAssumption, NoName
<1>1. CASE StartSend(p)
  BY <1>0, <1>1 DEF StartSend, PendingReplication, Owned, Mine, QueueTypes, work
<1>2. ASSUME NEW t \in Targets, NEW m \in Names, StartDel(p, t, m) PROVE Mine(p, n)
  <2>1. \A q \in Procs : q = p
    BY <1>2 DEF OneSenderEach, StartDel
  <2>2. recs[t][m] # "none"
    BY <1>2 DEF StartDel, ListReplicas
  <2>3. Mine(p, m)
    BY <1>0, <2>1, <2>2 DEF Recorder
  <2> QED
    BY <1>0, <1>2, <2>3 DEF StartDel, Owned, WorkTypes
<1>3. CASE NextTarget(p)
  BY <1>0, <1>3 DEF NextTarget, Owned, QueueTypes, queue, work
<1>6. CASE NextSnapshot(p)
  BY <1>0, <1>6 DEF NextSnapshot, Owned, QueueTypes, WorkTypes
<1>10. CASE ListParents(p)
  BY <1>0, <1>10 DEF ListParents, ParentCandidates, Owned, Mine, WorkTypes, Broken, queue, work
<1>11. CASE TryParent(p)
  <2>1. /\ pending' = pending /\ todo' = todo /\ victims' = victims /\ cur' = cur
        /\ \/ parent' = parent
           \/ parent' = [parent EXCEPT ![p] = NoName]
           \/ \E c \in cands[p] : parent' = [parent EXCEPT ![p] = c]
        /\ \/ cands' = cands
           \/ \E S \in SUBSET cands[p] : cands' = [cands EXCEPT ![p] = S]
    BY <1>11 DEF TryParent, Broken, queue, work
  <2>2. cands'[p] \subseteq cands[p]
    BY <1>0, <2>1 DEF WorkTypes
  <2>3. parent'[p] \in {parent[p], NoName} \/ parent'[p] \in cands[p]
    BY <1>0, <2>1 DEF WorkTypes
  <2> QED
    BY <1>0, <2>1, <2>2, <2>3 DEF Owned
<1>18. CASE NextKind(p)
  <2>1. /\ pending' = pending /\ todo' = todo /\ cands' = cands /\ cur' = cur /\ parent' = parent
        /\ \/ victims' = victims
           \/ \E k \in kinds[p] : victims' = [victims EXCEPT ![p] =
                 RemotePruneCandidates(recs[tgt[p]], Taken, Prefix[p], k, Host[p], Keep[tgt[p]])]
    BY <1>18 DEF NextKind, Broken, queue, work
  <2>2. ASSUME NEW k \in kinds[p], n \in victims'[p],
               victims' = [victims EXCEPT ![p] =
                 RemotePruneCandidates(recs[tgt[p]], Taken, Prefix[p], k, Host[p], Keep[tgt[p]])]
        PROVE  Mine(p, n)
    <3>1. n \in RemotePruneCandidates(recs[tgt[p]], Taken, Prefix[p], k, Host[p], Keep[tgt[p]])
      BY <1>0, <2>2 DEF WorkTypes
    <3> QED
      BY <3>1 DEF RemotePruneCandidates, Beyond, Mine
  <2> QED
    BY <1>0, <2>1, <2>2 DEF Owned
<1>19. CASE DeleteVictim(p)
  <2>1. /\ pending' = pending /\ todo' = todo /\ cands' = cands /\ parent' = parent
        /\ \/ cur' = cur /\ victims' = victims
           \/ \E v \in victims[p] : /\ cur' = [cur EXCEPT ![p] = v]
                                    /\ victims' = [victims EXCEPT ![p] = @ \ {v}]
    BY <1>19 DEF DeleteVictim, queue
  <2>2. ASSUME NEW v \in victims[p], cur' = [cur EXCEPT ![p] = v],
               victims' = [victims EXCEPT ![p] = @ \ {v}]
        PROVE  cur'[p] \in victims[p] /\ victims'[p] \subseteq victims[p]
    BY <1>0, <2>2 DEF WorkTypes
  <2> QED
    BY <1>0, <2>1, <2>2 DEF Owned
<1>20. CASE PruneList(p)
  BY <1>0, <1>20 DEF PruneList, Owned, Broken, queue, work
<1>21. CASE End(p) \/ Crash(p)
  BY <1>0, <1>21 DEF End, Crash, Reset, QueueTypes, WorkTypes
<1>22. CASE UNCHANGED <<queue, work>>
  BY <1>0, <1>22 DEF Owned, queue, work
<1>23. CASE CheckDir(p) \/ CheckRecorded(p) \/ LookRemote(p) \/ Insert(p) \/ Replace(p) \/ Unrecord(p)
            \/ Send(p) \/ Receive(p) \/ Verify(p) \/ RemovePartial(p) \/ MarkPruned(p)
  BY <1>22, <1>23 DEF CheckDir, CheckRecorded, LookRemote, Insert, Replace, Unrecord, Send,
     Receive, Verify, RemovePartial, MarkPruned, Broken
<1> QED
  BY <1>1, <1>2, <1>3, <1>6, <1>10, <1>11, <1>18, <1>19, <1>20, <1>21, <1>23 DEF Moves, Start, Step

(* So it changes records of its machine's snapshots only.                    *)
LEMMA MoveRecords ==
    ASSUME OneSenderEach, SenderInv, NEW p \in Procs, Moves(p),
           NEW q \in Procs \ {p}, NEW t \in Targets, NEW n \in Names, Mine(q, n)
    PROVE  recs'[t][n] = recs[t][n]
<1>1. RecsMove(p) /\ Owned(p) /\ Post(p)
  BY MoveWorld DEF WorldMove, SenderInv, TypeInv, Posts
<1>2. ~ Mine(p, n)
  BY DEF OneSenderEach, Mine
<1>3. n # cur[p] /\ n # parent[p]
  BY <1>1, <1>2 DEF Owned
<1> QED
  BY <1>1, <1>3 DEF RecsMove, Recorded

(* Another machine's invocation keeps what the invariant says of this one: it *)
(* writes other snapshots' records.                                          *)
LEMMA OthersKeepSender ==
    ASSUME OneSenderEach, SenderInv, NEW p \in Procs, Moves(p), NEW q \in Procs \ {p}
    PROVE  Owned(q)' /\ Queued(q)' /\ Parents(q)' /\ Retained(q)'
<1>0. /\ Owned(q) /\ Queued(q) /\ Parents(q) /\ Retained(q) /\ Post(q) /\ QueueTypes /\ WorkTypes
      /\ Apart(p)
  BY MoveTypes DEF SenderInv, TypeInv, Posts
<1>1. \A t \in Targets, n \in Names : Mine(q, n) => recs'[t][n] = recs[t][n]
  BY MoveRecords
<1>2. Owned(q)'
  BY <1>0 DEF Owned, Apart, Mine
<1>6. /\ pc'[q] = pc[q] /\ tgt'[q] = tgt[q] /\ todo'[q] = todo[q] /\ cur'[q] = cur[q]
      /\ cands'[q] = cands[q] /\ parent'[q] = parent[q] /\ victims'[q] = victims[q]
      /\ byHand'[q] = byHand[q]
  BY <1>0 DEF Apart
<1>3. Queued(q)'
  <2>1. \A n \in todo[q] : n \in Names /\ Mine(q, n)
    BY <1>0 DEF Owned, QueueTypes
  <2>2. pc[q] \in Sending => tgt[q] \in Targets
    BY <1>0 DEF Post, Busy
  <2>3. pc[q] \in Handling => cur[q] \in Names /\ Mine(q, cur[q]) /\ tgt[q] \in Targets
    BY <1>0 DEF Post, Busy, Sending, Owned
  <2> QED
    <3>1. ASSUME pc[q] \in Sending, NEW n \in todo[q] PROVE recs'[tgt[q]][n] = "none"
      BY <1>0, <1>1, <2>1, <2>2, <3>1 DEF Queued
    <3>2. ASSUME pc[q] \in Handling
          PROVE  cur[q] \notin todo[q] /\ recs'[tgt[q]][cur[q]] = "none"
      BY <1>0, <1>1, <2>3, <3>2 DEF Queued
    <3> QED
      BY <1>6, <3>1, <3>2 DEF Queued
<1>4. Parents(q)'
  <2>1. \A n \in cands[q] : n \in Names /\ Mine(q, n)
    BY <1>0 DEF Owned, WorkTypes
  <2>2. pc[q] \in {"parent", "unrecord"} => tgt[q] \in Targets
    BY <1>0 DEF Post, Busy, Sending, Handling
  <2>3. pc[q] = "unrecord" => parent[q] \in Names /\ Mine(q, parent[q])
    BY <1>0 DEF Post, Owned
  <2> QED
    <3>1. ASSUME pc[q] \in {"parent", "unrecord"}, NEW c \in cands[q]
          PROVE  recs'[tgt[q]][c] = "present"
      BY <1>0, <1>1, <2>1, <2>2, <3>1 DEF Parents
    <3>2. ASSUME pc[q] = "unrecord"
          PROVE  parent[q] \notin cands[q] /\ recs'[tgt[q]][parent[q]] = "present"
      BY <1>0, <1>1, <2>2, <2>3, <3>2 DEF Parents
    <3> QED
      BY <1>6, <3>1, <3>2 DEF Parents
<1>5. Retained(q)'
  <2> SUFFICES ASSUME pc[q] \in {"victim", "mark"}, ~ byHand[q], NEW v,
                      v \in victims[q], v \in victims'[q]
               PROVE  Keep[tgt'[q]] <= Cardinality(Ahead(q, v)') /\ (pc'[q] = "mark" => cur'[q] < v)
    BY <1>6 DEF Retained
  <2>1. v \in Names /\ Mine(q, v) /\ tgt[q] \in Targets /\ tgt'[q] = tgt[q]
    BY <1>0 DEF Owned, WorkTypes, Post, Busy, Pruning, Apart
  <2>2. \A m \in Names : Record[m].machine = Record[v].machine =>
            recs'[tgt[q]][m] = recs[tgt[q]][m]
    <3>1. ASSUME NEW m \in Names, Record[m].machine = Record[v].machine PROVE Mine(q, m)
      BY <2>1, <3>1 DEF Mine
    <3> QED
      BY <1>1, <2>1, <3>1
  <2>3. Ahead(q, v)' = Ahead(q, v)
    BY <2>1, <2>2 DEF Ahead, ListReplicas, Newer, Taken
  <2> QED
    BY <1>0, <1>6, <2>1, <2>3 DEF Retained
<1> QED
  BY <1>2, <1>3, <1>4, <1>5

(* What is queued for the target has no record there yet.                   *)
LEMMA MoveQueued ==
    ASSUME SenderInv, NEW p \in Procs, Moves(p)
    PROVE  Queued(p)'
<1>0. /\ Queued(p) /\ Post(p) /\ QueueTypes /\ WorkTypes /\ WorldTypes /\ pc \in [Procs -> Steps]
  BY DEF SenderInv, TypeInv, Posts
<1>1. CASE NextTarget(p)
  <2>1. CASE left[p] = {} \/ pc'[p] = "target"
    BY <1>0, <1>1, <2>1 DEF NextTarget, Goto, Fail, Queued, Sending, Handling
  <2>2. ASSUME NEW u \in left[p], tgt' = [tgt EXCEPT ![p] = u], Goto(p, "dir"),
               todo' = [todo EXCEPT ![p] = pending[p] \ ReplicatedNames(recs[u])]
        PROVE  Queued(p)'
    <3>1. recs' = recs /\ pc'[p] = "dir" /\ u \in Targets /\ tgt'[p] = u
          /\ todo'[p] = pending[p] \ ReplicatedNames(recs[u]) /\ pending[p] \subseteq Names
      BY <1>0, <1>1, <2>2 DEF NextTarget, Goto, QueueTypes, tables
    <3>2. \A n \in todo'[p] : recs[u][n] = "none"
      BY <3>1 DEF ReplicatedNames
    <3> QED
      BY <3>1, <3>2 DEF Queued, Handling
  <2> QED
    BY <1>0, <1>1, <2>1, <2>2 DEF NextTarget, Goto, Fail
<1>2. CASE NextSnapshot(p)
  <2>1. recs' = recs /\ tgt' = tgt /\ pc[p] = "next"
    BY <1>2 DEF NextSnapshot, tables
  <2>2. CASE todo[p] = {}
    BY <1>0, <1>2, <2>1, <2>2 DEF NextSnapshot, Goto, Queued, Sending, Handling
  <2>3. ASSUME NEW n \in todo[p], todo' = [todo EXCEPT ![p] = @ \ {n}],
               \/ cur' = [cur EXCEPT ![p] = n] /\ Goto(p, "remote")
               \/ Goto(p, "next")
        PROVE  Queued(p)'
    <3>1. todo'[p] = todo[p] \ {n} /\ \A m \in todo[p] : recs[tgt[p]][m] = "none"
      BY <1>0, <2>1, <2>3 DEF QueueTypes, Queued, Sending
    <3>2. \/ pc'[p] = "remote" /\ cur'[p] = n
          \/ pc'[p] = "next"
      BY <1>0, <2>3 DEF Goto, WorkTypes
    <3> QED
      BY <2>1, <3>1, <3>2 DEF Queued, Sending, Handling
  <2> QED
    BY <1>2, <2>2, <2>3 DEF NextSnapshot
<1>3. CASE Insert(p) \/ Unrecord(p)
  <2>1. UNCHANGED <<queue, work>> /\ RecsMove(p) /\ pc[p] \in {"adopt", "record", "unrecord"}
    BY <1>3, MoveWorld DEF Insert, Unrecord, Broken, SenderInv, WorldMove
  <2>2. tgt[p] \in Targets /\ cur[p] \in Names /\ todo[p] \subseteq Names
    BY <1>0, <2>1 DEF Post, Busy, Sending, Handling, QueueTypes
  <2>3. \A n \in todo[p] : recs[tgt[p]][n] = "none" /\ n # cur[p]
    BY <1>0, <2>1 DEF Queued, Sending, Handling
  <2>4. \A n \in todo[p] : recs'[tgt[p]][n] = "none"
    BY <2>1, <2>2, <2>3 DEF RecsMove, Recorded
  <2>5. pc[p] = "unrecord" => recs'[tgt[p]][cur[p]] = "none"
    <3>1. pc[p] \in Handling => recs[tgt[p]][cur[p]] = "none"
      BY <1>0 DEF Queued
    <3>2. pc[p] = "unrecord" => recs[tgt[p]][cur[p]] = "none"
      BY <3>1 DEF Handling
    <3>3. pc[p] = "unrecord" => recs' = recs \/ Recorded(p, parent[p], "none")
      BY <2>1 DEF RecsMove
    <3> QED
      BY <2>2, <3>2, <3>3 DEF Recorded
  <2>6. pc'[p] \in Handling => pc[p] = "unrecord"
    BY <1>0, <1>3 DEF Insert, Unrecord, Broken, Goto, Fail, Handling
  <2> QED
    BY <2>1, <2>3, <2>4, <2>5, <2>6 DEF Queued, queue, work
<1>4. CASE CheckDir(p) \/ CheckRecorded(p) \/ LookRemote(p) \/ Replace(p) \/ ListParents(p) \/ TryParent(p)
           \/ Send(p) \/ Receive(p) \/ Verify(p) \/ RemovePartial(p)
  <2>1. recs' = recs /\ tgt' = tgt /\ todo' = todo /\ cur' = cur
    BY <1>4 DEF CheckDir, CheckRecorded, LookRemote, Replace, ListParents, TryParent, Send, Receive,
       Verify, RemovePartial, Broken, tables, queue, work
  <2>2. /\ pc'[p] \in Sending => pc[p] \in Sending
        /\ pc'[p] \in Handling => pc[p] \in Handling
    BY <1>0, <1>4 DEF CheckDir, CheckRecorded, LookRemote, Replace, ListParents, TryParent, Send,
       Receive, Verify, RemovePartial, Broken, Goto, Fail, Sending, Handling
  <2> QED
    BY <1>0, <2>1, <2>2 DEF Queued
<1>5. CASE pc'[p] \notin Sending
  BY <1>5 DEF Queued, Sending
<1>6. CASE Start(p) \/ PruneList(p) \/ NextKind(p) \/ DeleteVictim(p) \/ MarkPruned(p) \/ End(p) \/ Crash(p)
  <2>1. pc'[p] \in {"idle", "target", "kind", "victim", "mark"}
    BY <1>0, <1>6 DEF Start, StartSend, StartDel, PruneList, NextKind, DeleteVictim, MarkPruned, End,
       Crash, Broken, Goto, Fail, Reset
  <2> QED
    BY <1>5, <2>1 DEF Sending, Handling
<1> QED
  BY <1>1, <1>2, <1>3, <1>4, <1>6 DEF Moves, Step

(* The parents that are tried are those the database records.                *)
LEMMA MoveParents ==
    ASSUME SenderInv, NEW p \in Procs, Moves(p)
    PROVE  Parents(p)'
<1>0. /\ Parents(p) /\ Post(p) /\ WorkTypes /\ WorldTypes /\ pc \in [Procs -> Steps]
  BY DEF SenderInv, TypeInv, Posts
<1>1. CASE ListParents(p)
  <2>1. /\ recs' = recs /\ tgt' = tgt /\ pc'[p] \in {"parent", "target"}
        /\ \/ pc'[p] = "target"
           \/ cands'[p] = ParentCandidates(recs[tgt[p]], Record[cur[p]].source, Host[p]) \ {cur[p]}
    BY <1>0, <1>1 DEF ListParents, Broken, Goto, Fail, tables, queue, WorkTypes
  <2>2. pc'[p] = "parent" => \A c \in cands'[p] : recs[tgt[p]][c] = "present"
    BY <2>1 DEF ParentCandidates, ListReplicas
  <2> QED
    BY <2>1, <2>2 DEF Parents
<1>2. CASE TryParent(p)
  <2>1. recs' = recs /\ tgt' = tgt /\ pc[p] = "parent"
    BY <1>2 DEF TryParent, Broken, tables, queue
  <2>2. \A c \in cands[p] : recs[tgt[p]][c] = "present"
    BY <1>0, <2>1 DEF Parents
  <2>3. CASE pc'[p] \in {"send", "target"}
    BY <2>3 DEF Parents
  <2>4. ASSUME NEW c \in cands[p], cands' = [cands EXCEPT ![p] = @ \ {c}],
               \/ Goto(p, "parent")
               \/ Goto(p, "unrecord") /\ parent' = [parent EXCEPT ![p] = c]
        PROVE  Parents(p)'
    <3>1. cands'[p] = cands[p] \ {c}
      BY <1>0, <2>4 DEF WorkTypes
    <3>2. CASE Goto(p, "parent")
      <4>1. pc'[p] = "parent"
        BY <1>0, <3>2 DEF Goto
      <4> QED
        BY <2>1, <2>2, <3>1, <4>1 DEF Parents
    <3>3. CASE Goto(p, "unrecord") /\ parent' = [parent EXCEPT ![p] = c]
      <4>1. pc'[p] = "unrecord" /\ parent'[p] = c
        BY <1>0, <3>3 DEF Goto, WorkTypes
      <4> QED
        BY <2>1, <2>2, <3>1, <4>1 DEF Parents
    <3> QED
      BY <2>4, <3>2, <3>3
  <2> QED
    BY <1>0, <1>2, <2>3, <2>4 DEF TryParent, Broken, Goto, Fail
<1>3. CASE Unrecord(p)
  <2>1. /\ UNCHANGED <<queue, work>> /\ RecsMove(p) /\ pc[p] = "unrecord" /\ pc'[p] \in {"parent", "target"}
    BY <1>0, <1>3, MoveWorld DEF Unrecord, Broken, Goto, Fail, SenderInv, WorldMove
  <2>2. /\ tgt[p] \in Targets /\ cands[p] \subseteq Names /\ parent[p] \notin cands[p]
        /\ \A c \in cands[p] : recs[tgt[p]][c] = "present"
    BY <1>0, <2>1 DEF Post, Busy, Sending, Handling, WorkTypes, Parents
  <2>3. \A c \in cands[p] : recs'[tgt[p]][c] = "present"
    BY <2>1, <2>2 DEF RecsMove, Recorded
  <2> QED
    BY <2>1, <2>3 DEF Parents, queue, work
<1>4. CASE ~ (ListParents(p) \/ TryParent(p) \/ Unrecord(p))
  <2>1. pc'[p] \notin {"parent", "unrecord"}
    BY <1>0, <1>4 DEF Moves, Start, Step, StartSend, StartDel, NextTarget, CheckDir, CheckRecorded,
       NextSnapshot, LookRemote, Insert, Replace, Send, Receive, Verify, RemovePartial, PruneList,
       NextKind, DeleteVictim, MarkPruned, End, Crash, Broken, Goto, Fail, Reset
  <2> QED
    BY <2>1 DEF Parents
<1> QED
  BY <1>1, <1>2, <1>3, <1>4

(* What retention deletes has Keep newer replicas of its kind and machine.   *)
LEMMA MoveRetained ==
    ASSUME SenderInv, NEW p \in Procs, Moves(p)
    PROVE  Retained(p)'
<1>0. /\ Retained(p) /\ Owned(p) /\ Post(p) /\ QueueTypes /\ WorkTypes /\ WorldTypes /\ FlagTypes
      /\ pc \in [Procs -> Steps]
  BY DEF SenderInv, TypeInv, Posts
<1>1. ASSUME NEW v \in Names, tgt[p] \in Targets
      PROVE  /\ IsFiniteSet(Ahead(p, v)) /\ v \in Nat
             /\ \A m \in Ahead(p, v) : m \in Names /\ m > v
  <2>1. Ahead(p, v) \subseteq Names
    BY DEF Ahead, ListReplicas
  <2>2. IsFiniteSet(Ahead(p, v))
    BY <2>1, FS_Subset
  <2> QED
    BY <2>1, <2>2 DEF Ahead, Newer, Taken
<1>2. CASE NextKind(p)
  <2>1. recs' = recs /\ tgt' = tgt /\ byHand' = byHand /\ pc[p] = "kind"
    BY <1>2 DEF NextKind, Broken, tables, queue, work
  <2>2. CASE pc'[p] = "target"
    BY <2>2 DEF Retained
  <2>3. ASSUME NEW k \in kinds[p], Goto(p, "victim"),
               victims' = [victims EXCEPT ![p] =
                 RemotePruneCandidates(recs[tgt[p]], Taken, Prefix[p], k, Host[p], Keep[tgt[p]])]
        PROVE  Retained(p)'
    <3>1. /\ pc'[p] = "victim" /\ tgt[p] \in Targets /\ Keep[tgt[p]] \in Nat
          /\ victims'[p] = RemotePruneCandidates(recs[tgt[p]], Taken, Prefix[p], k, Host[p], Keep[tgt[p]])
      BY <1>0, <2>1, <2>3 DEF WorkTypes, Goto, Post, Busy, Pruning
    <3> DEFINE S == {n \in ListReplicas(recs[tgt[p]]) : /\ LikePrefix(n, Prefix[p])
                                                        /\ Record[n].kind = k
                                                        /\ Record[n].machine = Host[p]}
    <3>2. ASSUME NEW v \in victims'[p] PROVE Keep[tgt[p]] <= Cardinality(Ahead(p, v))
      <4> DEFINE T == {m \in S : Newer(Taken, m, v)}
      <4>1. v \in S /\ Cardinality(T) >= Keep[tgt[p]]
        BY <3>1, <3>2 DEF RemotePruneCandidates, Beyond
      <4>2. v \in Names /\ T \subseteq Ahead(p, v)
        BY <4>1 DEF ListReplicas, Ahead
      <4>3. Cardinality(T) <= Cardinality(Ahead(p, v)) /\ Cardinality(T) \in Nat
            /\ Cardinality(Ahead(p, v)) \in Nat
        BY <1>1, <3>1, <4>2, FS_Subset, FS_CardinalityType
      <4> HIDE DEF T
      <4> QED
        BY <3>1, <4>1, <4>3
    <3>3. \A v : Ahead(p, v)' = Ahead(p, v)
      BY <2>1 DEF Ahead, ListReplicas, Newer, Taken
    <3> QED
      BY <2>1, <3>1, <3>2, <3>3 DEF Retained
  <2> QED
    BY <1>0, <1>2, <2>2, <2>3 DEF NextKind, Broken, Goto, Fail
<1>3. CASE DeleteVictim(p)
  <2>1. recs' = recs /\ tgt' = tgt /\ byHand' = byHand /\ pc[p] = "victim" /\ victims[p] \subseteq Names
    BY <1>0, <1>3 DEF DeleteVictim, tables, queue, WorkTypes
  <2>2. CASE pc'[p] \in {"kind", "target"}
    BY <2>2 DEF Retained
  <2>3. ASSUME NEW v \in victims[p], IsOldest(v, victims[p], Taken), cur' = [cur EXCEPT ![p] = v],
               victims' = [victims EXCEPT ![p] = @ \ {v}], Goto(p, "mark")
        PROVE  Retained(p)'
    <3>1. victims'[p] = victims[p] \ {v} /\ cur'[p] = v
      BY <1>0, <2>3 DEF WorkTypes
    <3>2. \A u \in victims'[p] : v < u
      BY <2>1, <2>3, <3>1 DEF IsOldest, Newer, Taken, CatalogAssumption
    <3>3. \A u : Ahead(p, u)' = Ahead(p, u)
      BY <2>1 DEF Ahead, ListReplicas, Newer, Taken
    <3> QED
      BY <1>0, <2>1, <3>1, <3>2, <3>3 DEF Retained
  <2> QED
    BY <1>0, <1>3, <2>2, <2>3 DEF DeleteVictim, Goto, Fail
<1>4. CASE MarkPruned(p)
  <2>1. /\ UNCHANGED <<queue, work>> /\ RecsMove(p) /\ pc[p] = "mark" /\ pc'[p] \in {"victim", "target"}
        /\ tgt[p] \in Targets /\ cur[p] \in Names /\ victims[p] \subseteq Names
    BY <1>0, <1>4, MoveWorld DEF MarkPruned, Broken, Goto, Fail, SenderInv, WorldMove, Post, Busy,
       Pruning, WorkTypes
  <2>2. ASSUME NEW v \in victims[p], cur[p] < v PROVE Ahead(p, v)' = Ahead(p, v)
    <3>1. v \in Names
      BY <2>1
    <3>2. \A m \in Names : Newer(Taken, m, v) => recs'[tgt[p]][m] = recs[tgt[p]][m]
      <4> SUFFICES ASSUME NEW m \in Names, Newer(Taken, m, v) PROVE recs'[tgt[p]][m] = recs[tgt[p]][m]
        OBVIOUS
      <4>1. m # cur[p]
        BY <2>1, <2>2, <3>1 DEF Newer, Taken, CatalogAssumption
      <4> QED
        BY <2>1, <4>1 DEF RecsMove, Recorded
    <3>3. tgt'[p] = tgt[p]
      BY <2>1 DEF queue
    <3> QED
      BY <3>1, <3>2, <3>3 DEF Ahead, ListReplicas, Newer, Taken
  <2> QED
    BY <1>0, <2>1, <2>2 DEF Retained, queue, work
<1>5. ASSUME NEW t \in Targets, NEW n \in Names, StartDel(p, t, n) PROVE Retained(p)'
  <2>1. byHand'[p] = TRUE
    BY <1>0, <1>5 DEF StartDel, FlagTypes
  <2> QED
    BY <2>1 DEF Retained
<1>6. CASE ~ (NextKind(p) \/ DeleteVictim(p) \/ MarkPruned(p) \/ \E t \in Targets, n \in Names : StartDel(p, t, n))
  <2>1. pc'[p] \notin {"victim", "mark"}
    BY <1>0, <1>6 DEF Moves, Start, Step, StartSend, NextTarget, CheckDir, CheckRecorded,
       NextSnapshot, LookRemote, Insert, Replace, ListParents, TryParent, Unrecord, Send, Receive,
       Verify, RemovePartial, PruneList, End, Crash, Broken, Goto, Fail, Reset
  <2> QED
    BY <2>1 DEF Retained
<1> QED
  BY <1>2, <1>3, <1>4, <1>5, <1>6

(* SenderInv is inductive.                                                   *)
LEMMA SenderStep ==
    ASSUME OneSenderEach
    PROVE  SenderInv /\ [Next]_vars => SenderInv'
<1> SUFFICES ASSUME SenderInv, [Next]_vars PROVE SenderInv'
  OBVIOUS
<1>0. TypeInv' /\ TypeInv
  BY TypeStep DEF SenderInv
<1>1. ASSUME NEW p \in Procs, Moves(p) PROVE SenderInv'
  <2>1. Recorder'
    <3> SUFFICES ASSUME NEW t \in Targets, NEW n \in Names, recs'[t][n] # "none"
                 PROVE  \E q \in Procs : Mine(q, n)
      BY DEF Recorder, Mine
    <3>1. RecsMove(p) /\ Owned(p) /\ Recorder
      BY <1>0, <1>1, MoveWorld DEF WorldMove, SenderInv
    <3>2. CASE recs[t][n] # "none"
      BY <3>1, <3>2 DEF Recorder
    <3>3. CASE recs[t][n] = "none"
      <4>1. n = cur[p]
        BY <3>1, <3>3 DEF RecsMove, Recorded
      <4> QED
        BY <3>1, <4>1 DEF Owned
    <3> QED
      BY <3>2, <3>3
  <2>2. Owned(p)' /\ Queued(p)' /\ Parents(p)' /\ Retained(p)'
    BY <1>1, MoveOwned, MoveQueued, MoveParents, MoveRetained
  <2>3. ASSUME NEW q \in Procs \ {p} PROVE Owned(q)' /\ Queued(q)' /\ Parents(q)' /\ Retained(q)'
    BY <1>1, <2>3, OthersKeepSender
  <2> QED
    BY <1>0, <2>1, <2>2, <2>3 DEF SenderInv
<1>2. CASE UNCHANGED <<recs, queue, work, pc>>
  <2>1. Recorder'
    BY <1>2 DEF SenderInv, Recorder, Mine
  <2>2. ASSUME NEW q \in Procs PROVE Owned(q)' /\ Queued(q)' /\ Parents(q)' /\ Retained(q)'
    <3>1. Owned(q) /\ Queued(q) /\ Parents(q) /\ Retained(q)
      BY <2>2 DEF SenderInv
    <3>2. Owned(q)' /\ Queued(q)' /\ Parents(q)'
      BY <1>2, <3>1 DEF Owned, Queued, Parents, Mine, queue, work
    <3>3. Retained(q)'
      BY <1>2, <3>1 DEF Retained, Ahead, ListReplicas, Newer, Taken, queue, work
    <3> QED
      BY <3>2, <3>3
  <2> QED
    BY <1>0, <2>1, <2>2 DEF SenderInv
<1>3. CASE Environment
  BY <1>0, <1>2, <1>3, EnvironmentOutside DEF Outside
<1>4. CASE UNCHANGED vars
  BY <1>2, <1>4 DEF vars, tables
<1> QED
  BY <1>1, <1>3, <1>4 DEF Next, Moves

(* The invariant of the senders holds initially.                             *)
LEMMA SenderInit == Init => SenderInv
<1> SUFFICES ASSUME Init PROVE SenderInv
  OBVIOUS
<1>1. TypeInv /\ NoName \notin Names
  BY TypeInit DEF CatalogAssumption, NoName
<1>2. Recorder
  BY DEF Init, Recorder
<1>3. ASSUME NEW p \in Procs PROVE Owned(p) /\ Queued(p) /\ Parents(p) /\ Retained(p)
  BY <1>1, <1>3 DEF Init, Owned, Queued, Parents, Retained, Sending, Handling
<1> QED
  BY <1>1, <1>2, <1>3 DEF SenderInv

(* No step turns a pruned record into anything else.                         *)
LEMMA PrunedStays ==
    ASSUME SenderInv, [Next]_vars, NEW t \in Targets, NEW n \in Names, recs[t][n] = "pruned"
    PROVE  recs'[t][n] = "pruned"
<1>0. TypeInv
  BY DEF SenderInv
<1>1. ASSUME NEW p \in Procs, Moves(p) PROVE recs'[t][n] = "pruned"
  <2>1. RecsMove(p) /\ Queued(p) /\ Parents(p)
    BY <1>0, <1>1, MoveWorld DEF WorldMove, SenderInv
  <2>2. CASE pc[p] \in {"adopt", "record"} /\ Recorded(p, cur[p], "present")
    <3>1. recs[tgt[p]][cur[p]] = "none"
      BY <2>1, <2>2 DEF Queued, Handling
    <3> QED
      BY <2>2, <3>1 DEF Recorded
  <2>3. CASE pc[p] = "unrecord" /\ Recorded(p, parent[p], "none")
    <3>1. recs[tgt[p]][parent[p]] = "present"
      BY <2>1, <2>3 DEF Parents
    <3> QED
      BY <2>3, <3>1 DEF Recorded
  <2>4. CASE pc[p] = "mark" /\ Recorded(p, cur[p], IF recs[tgt[p]][cur[p]] = "none" THEN "none" ELSE "pruned")
    BY <2>4 DEF Recorded
  <2> QED
    BY <2>1, <2>2, <2>3, <2>4 DEF RecsMove
<1>2. CASE Environment
  BY <1>0, <1>2, EnvironmentOutside DEF Outside
<1>3. CASE UNCHANGED vars
  BY <1>3 DEF vars, tables
<1> QED
  BY <1>1, <1>2, <1>3 DEF Next, Moves

(* A pruned replica stays pruned, so that its snapshot is never sent again,  *)
(* whatever fails, is killed or is deleted by hand.                          *)
THEOREM PrunedStaysPrunedCorrect ==
    ASSUME OneSenderEach
    PROVE  Spec => PrunedStaysPruned
<1> DEFINE Stays == \A t \in Targets, n \in Names : recs[t][n] = "pruned" => recs'[t][n] = "pruned"
<1>1. SenderInv /\ [Next]_vars => [Stays]_vars
  BY PrunedStays
<1>2. SenderInv /\ [Next]_vars => SenderInv'
  BY SenderStep
<1> QED
  BY <1>1, <1>2, SenderInit, PTL DEF Spec, PrunedStaysPruned

(* Retention at a target keeps the newest Keep replicas of each kind and     *)
(* touches no other machine's.                                               *)
THEOREM TargetRetentionCorrect ==
    ASSUME OneSenderEach
    PROVE  Spec => []TargetRetention
<1>1. SenderInv => TargetRetention
  <2> SUFFICES ASSUME SenderInv, NEW p \in Procs, pc[p] \in {"victim", "mark"}, ~ byHand[p],
                      NEW v \in victims[p]
               PROVE  Record[v].machine = Host[p] /\ Keep[tgt[p]] <= Cardinality(Ahead(p, v))
    BY DEF TargetRetention, Ahead
  <2>1. v \in Names
    BY DEF SenderInv, TypeInv, WorkTypes
  <2> QED
    BY <2>1 DEF SenderInv, Owned, Mine, Retained
<1>2. SenderInv /\ [Next]_vars => SenderInv'
  BY SenderStep
<1> QED
  BY <1>1, <1>2, SenderInit, PTL DEF Spec

-----------------------------------------------------------------------------
(* What the database records is at the target. *)

(* No two targets of one machine are the same place.                         *)
OwnPlaces ==
    \A m \in Machines, t, u \in Targets : Place[m][t] = Place[m][u] => t = u

(* It is there with its UUID, or was deleted on purpose.                     *)
There(t, n) == Holds(t, n) \/ Cut(t, n)
Accounted(t, n) == There(t, n) \/ <<t, n>> \in removed

(* Before a record is written its replica has arrived.                       *)
Arrived(p) == pc[p] \in {"adopt", "record"} => Accounted(tgt[p], cur[p])

ReplicaInv == SenderInv /\ RecordedPresent /\ \A p \in Procs : Arrived(p)

(* The path of a snapshot of its machine leads p to the place of the replica. *)
LEMMA OwnPlace ==
    ASSUME OwnPlaces, NEW p \in Procs, NEW n \in Names, Mine(p, n),
           NEW t \in Targets, tgt[p] \in Targets
    PROVE  /\ Place[Record[n].machine][t] \in Media /\ Host[p] \in Machines
           /\ Place[Record[n].machine][t] = Medium(p) <=> t = tgt[p]
BY DEF OwnPlaces, Mine, Medium

(* A write at one path of p's machine and target concerns no other replica.  *)
LEMMA WrittenElsewhere ==
    ASSUME OwnPlaces, NEW p \in Procs, tgt[p] \in Targets, NEW m \in Names, Mine(p, m),
           NEW x, Written(p, m, x),
           NEW t \in Targets, NEW n \in Names, m # n \/ t # tgt[p]
    PROVE  \A s \in Sides :
               media'[Place[Record[n].machine][t]][s][n] = media[Place[Record[n].machine][t]][s][n]
<1>0. Place[Record[n].machine][t] \in Media
  BY DEF CatalogAssumption, Columns
<1>1. CASE m # n
  BY <1>0, <1>1 DEF Written
<1>2. CASE m = n /\ t # tgt[p]
  BY <1>0, <1>2, OwnPlace DEF Written
<1> QED
  BY <1>1, <1>2

(* A step takes away a replica that nobody deleted on purpose only if it is  *)
(* the one its invocation is sending.                                        *)
LEMMA MoveAccounted ==
    ASSUME OwnPlaces, SenderInv, NEW p \in Procs, Moves(p),
           NEW t \in Targets, NEW n \in Names, Accounted(t, n),
           ~ (pc[p] \in Handling /\ t = tgt[p] /\ n = cur[p])
    PROVE  Accounted(t, n)'
<1> DEFINE d == Place[Record[n].machine][t]
<1>0. MediaMove(p) /\ Owned(p) /\ Post(p) /\ victims[p] \subseteq Names /\ d \in Media
  <2>1. Record[n].machine \in Machines
    BY DEF CatalogAssumption, Columns
  <2> QED
    BY <2>1, MoveWorld DEF WorldMove, SenderInv, TypeInv, Posts, WorkTypes
<1>1. ASSUME NEW m \in Names, NEW x, Written(p, m, x), Mine(p, m), tgt[p] \in Targets,
             m # n \/ t # tgt[p]
      PROVE  \A s \in Sides : media'[d][s][n] = media[d][s][n]
  BY <1>1, WrittenElsewhere
<1>2. ASSUME \A s \in Sides : media'[d][s][n] = media[d][s][n] PROVE There(t, n)' <=> There(t, n)
  BY <1>2 DEF There, Holds, Cut, Replica, Sides
<1>3. CASE media' = media /\ removed' = removed
  BY <1>3 DEF Accounted, There, Holds, Cut, Replica
<1>4. CASE /\ pc[p] \in Handling /\ removed' \in {removed, removed \ {<<tgt[p], cur[p]>>}}
           /\ \E x \in Status : Written(p, cur[p], x)
  <2>1. cur[p] \in Names /\ tgt[p] \in Targets /\ Mine(p, cur[p])
    BY <1>0, <1>4 DEF Post, Busy, Sending, Owned
  <2>2. \A s \in Sides : media'[d][s][n] = media[d][s][n]
    BY <1>1, <1>4, <2>1
  <2>3. <<t, n>> \in removed => <<t, n>> \in removed'
    BY <1>4
  <2> QED
    BY <1>2, <2>2, <2>3 DEF Accounted
<1>5. ASSUME pc[p] = "victim", NEW v \in victims[p], Written(p, v, "none"),
             removed' = removed \union {<<tgt[p], v>>}
      PROVE  Accounted(t, n)'
  <2>1. v \in Names /\ tgt[p] \in Targets /\ Mine(p, v)
    BY <1>0, <1>5 DEF Post, Busy, Pruning, Owned
  <2>2. CASE v = n /\ t = tgt[p]
    BY <1>5, <2>2 DEF Accounted
  <2>3. CASE v # n \/ t # tgt[p]
    <3>1. \A s \in Sides : media'[d][s][n] = media[d][s][n]
      BY <1>1, <1>5, <2>1, <2>3
    <3> QED
      BY <1>2, <1>5, <3>1 DEF Accounted
  <2> QED
    BY <2>2, <2>3
<1>6. {"none", p} \union Ends \subseteq Status
  BY DEF Status, Ends
<1> QED
  BY <1>0, <1>3, <1>4, <1>5, <1>6 DEF MediaMove, Handling

(* Nor does anything around the invocations.                                 *)
LEMMA OutsideAccounted ==
    ASSUME Outside, NEW t \in Targets, NEW n \in Names, Accounted(t, n)
    PROVE  Accounted(t, n)'
<1>0. Place[Record[n].machine][t] \in Media
  BY DEF CatalogAssumption, Columns
<1>1. CASE media' = media /\ removed' = removed
  BY <1>1 DEF Accounted, There, Holds, Cut, Replica
<1>2. ASSUME NEW d \in Media, NEW m \in Names, Lost(d, m) PROVE Accounted(t, n)'
  <2>1. CASE n = m /\ Place[Record[n].machine][t] = d
    BY <1>2, <2>1 DEF Lost, Accounted
  <2>2. CASE ~ (n = m /\ Place[Record[n].machine][t] = d)
    <3>1. \A f \in Sides : Replica(t, n, f)' = Replica(t, n, f)
      BY <1>0, <1>2, <2>2 DEF Lost, Replica
    <3>2. <<t, n>> \in removed => <<t, n>> \in removed'
      BY <1>2 DEF Lost
    <3> QED
      BY <3>1, <3>2 DEF Accounted, There, Holds, Cut
  <2> QED
    BY <2>1, <2>2
<1>3. ASSUME NEW d \in Media, NEW s \in Sides, NEW m \in Names, Ended(d, s, m)
      PROVE  Accounted(t, n)'
  <2>1. \A f \in Sides : Marked(Replica(t, n, f)) => Replica(t, n, f)' = Replica(t, n, f)
    <3> DEFINE e == Place[Record[n].machine][t]
    <3>1. \A f \in Sides : media[e][f][n] # "orphan" => media'[e][f][n] = media[e][f][n]
      BY <1>0, <1>3 DEF Ended
    <3>2. \A x : Marked(x) => x # "orphan"
      BY DEF Marked
    <3> QED
      BY <3>1, <3>2 DEF Replica
  <2>2. There(t, n) => There(t, n)'
    BY <2>1 DEF There, Holds, Cut, Marked
  <2>3. CASE <<t, n>> \in removed'
    BY <2>3 DEF Accounted
  <2>4. CASE <<t, n>> \in removed /\ <<t, n>> \notin removed'
    <3>1. n = m /\ Place[Record[n].machine][t] = d /\ \E r \in {"short", "complete"} : media'[d][s][n] = r
      BY <1>0, <1>3, <2>4 DEF Ended, Marked, Ends
    <3> QED
      BY <3>1 DEF Accounted, There, Holds, Cut, Replica
  <2> QED
    BY <2>2, <2>3, <2>4 DEF Accounted
<1> QED
  BY <1>1, <1>2, <1>3 DEF Outside

(* Before a record is written its replica is at the target, with its UUID.   *)
Seen(p) == pc[p] \in {"adopt", "record"} => There(tgt[p], cur[p])

(* It was looked at in the step before.                                      *)
LEMMA MoveSeen ==
    ASSUME OwnPlaces, SenderInv, NEW p \in Procs, Moves(p)
    PROVE  Seen(p)'
<1>0. TypeInv /\ Owned(p) /\ Post(p) /\ pc \in [Procs -> Steps]
  BY DEF SenderInv, TypeInv, Posts
<1>1. ASSUME LookRemote(p) \/ Verify(p), pc'[p] \in {"adopt", "record"} PROVE Seen(p)'
  <2>1. /\ Marked(At(p, cur[p])) /\ UNCHANGED <<media, removed, queue, work>>
        /\ pc[p] \in {"remote", "verify"}
    BY <1>0, <1>1 DEF LookRemote, Verify, Broken, Goto, Fail, world
  <2>2. tgt[p] \in Targets /\ cur[p] \in Names /\ Mine(p, cur[p])
    BY <1>0, <2>1 DEF Post, Busy, Sending, Handling, Owned
  <2>3. /\ mount[Medium(p)] \in Sides
        /\ media[Medium(p)][mount[Medium(p)]][cur[p]] \in {"short", "complete"}
    BY <1>0, <2>1, <2>2, AtType DEF Marked
  <2>4. There(tgt[p], cur[p])
    <3>1. Place[Record[cur[p]].machine][tgt[p]] = Medium(p)
      BY <2>2, OwnPlace
    <3> QED
      BY <2>3, <3>1 DEF There, Holds, Cut, Replica
  <2>5. tgt'[p] = tgt[p] /\ cur'[p] = cur[p] /\ media' = media
    BY <2>1 DEF queue, work
  <2> QED
    BY <2>4, <2>5 DEF Seen, There, Holds, Cut, Replica
<1>2. CASE ~ (LookRemote(p) \/ Verify(p))
  <2>1. pc'[p] \notin {"adopt", "record"}
    BY <1>0, <1>2 DEF Moves, Start, Step, StartSend, StartDel, NextTarget, CheckDir, CheckRecorded,
       NextSnapshot, Insert, Replace, ListParents, TryParent, Unrecord, Send, Receive, RemovePartial,
       PruneList, NextKind, DeleteVictim, MarkPruned, End, Crash, Broken, Goto, Fail, Reset
  <2> QED
    BY <2>1 DEF Seen
<1> QED
  BY <1>1, <1>2 DEF Seen

(* ReplicaInv is inductive.                                                  *)
LEMMA ReplicaStep ==
    ASSUME OneSenderEach, OwnPlaces
    PROVE  ReplicaInv /\ [Next]_vars => ReplicaInv'
<1> SUFFICES ASSUME ReplicaInv, [Next]_vars PROVE ReplicaInv'
  OBVIOUS
<1>0. TypeInv /\ SenderInv /\ SenderInv' /\ \A t \in Targets, n \in Names : recs[t][n] = "present" => Accounted(t, n)
  BY SenderStep DEF ReplicaInv, SenderInv, RecordedPresent, Accounted, There
<1>1. ASSUME NEW p \in Procs, Moves(p) PROVE ReplicaInv'
  <2>0. RecsMove(p) /\ MediaMove(p) /\ Apart(p) /\ Queued(p) /\ Owned(p) /\ Arrived(p) /\ Post(p)
    BY <1>0, <1>1, MoveWorld, MoveTypes DEF ReplicaInv, SenderInv, WorldMove, TypeInv, Posts
  <2>1. ASSUME NEW t \in Targets, NEW n \in Names, recs'[t][n] = "present" PROVE Accounted(t, n)'
    <3>1. CASE recs[t][n] = "present"
      <4>1. ~ (pc[p] \in Handling /\ t = tgt[p] /\ n = cur[p])
        BY <2>0, <3>1 DEF Queued
      <4> QED
        BY <1>0, <1>1, <3>1, <4>1, MoveAccounted
    <3>2. CASE recs[t][n] # "present"
      <4>1. pc[p] \in {"adopt", "record"} /\ t = tgt[p] /\ n = cur[p]
        BY <2>0, <2>1, <3>2 DEF RecsMove, Recorded
      <4>2. media' = media /\ removed' = removed /\ Accounted(t, n)
        BY <2>0, <4>1 DEF MediaMove, Arrived
      <4> QED
        BY <4>2 DEF Accounted, There, Holds, Cut, Replica
    <3> QED
      BY <3>1, <3>2
  <2>2. ASSUME NEW q \in Procs \ {p} PROVE Arrived(q)'
    <3>1. pc'[q] = pc[q] /\ tgt'[q] = tgt[q] /\ cur'[q] = cur[q]
      BY <2>0 DEF Apart
    <3>2. CASE pc[q] \in {"adopt", "record"}
      <4>1. Accounted(tgt[q], cur[q]) /\ Post(q) /\ Owned(q)
        BY <3>2 DEF ReplicaInv, SenderInv, Arrived, TypeInv, Posts
      <4>2. tgt[q] \in Targets /\ cur[q] \in Names /\ Mine(q, cur[q])
        BY <3>2, <4>1 DEF Post, Busy, Sending, Handling, Owned
      <4>3. cur[q] # cur[p]
        BY <2>0, <4>2 DEF Owned, Mine, OneSenderEach
      <4>4. \A t \in Targets, n \in Names : t = tgt[q] /\ n = cur[q] => Accounted(t, n)'
        BY <1>0, <1>1, <4>1, <4>3, MoveAccounted
      <4>5. ASSUME NEW t \in Targets, NEW n \in Names, t = tgt[q], n = cur[q] PROVE Arrived(q)'
        BY <3>1, <4>4, <4>5 DEF Arrived, Accounted, There, Holds, Cut, Replica
      <4> QED
        BY <4>2, <4>5
    <3> QED
      BY <3>1, <3>2 DEF Arrived
  <2>3. Arrived(p)'
    BY <1>0, <1>1, MoveSeen DEF Seen, Arrived, Accounted
  <2>4. RecordedPresent'
    BY <2>1 DEF RecordedPresent, Accounted, There
  <2> QED
    BY <1>0, <2>2, <2>3, <2>4 DEF ReplicaInv
<1>2. CASE Environment
  <2>1. Outside
    BY <1>0, <1>2, EnvironmentOutside
  <2>2. RecordedPresent'
    <3>1. \A t \in Targets, n \in Names : recs'[t][n] = "present" => Accounted(t, n)'
      BY <1>0, <2>1, OutsideAccounted DEF Outside
    <3> QED
      BY <3>1 DEF RecordedPresent, Accounted, There
  <2>3. ASSUME NEW q \in Procs PROVE Arrived(q)'
    <3>1. Post(q) /\ Arrived(q)
      BY <1>0 DEF ReplicaInv, TypeInv, Posts
    <3>2. pc'[q] = pc[q] /\ tgt'[q] = tgt[q] /\ cur'[q] = cur[q]
      BY <2>1 DEF Outside, queue, work
    <3>3. ASSUME NEW t \in Targets, NEW n \in Names, t = tgt[q], n = cur[q],
                 pc[q] \in {"adopt", "record"}
          PROVE  Arrived(q)'
      <4>1. Accounted(t, n)'
        BY <2>1, <3>1, <3>3, OutsideAccounted DEF Arrived
      <4> QED
        BY <3>2, <3>3, <4>1 DEF Arrived, Accounted, There, Holds, Cut, Replica
    <3>4. pc[q] \in {"adopt", "record"} => tgt[q] \in Targets /\ cur[q] \in Names
      BY <3>1 DEF Post, Busy, Sending, Handling
    <3> QED
      BY <3>2, <3>3, <3>4 DEF Arrived
  <2> QED
    BY <1>0, <2>2, <2>3 DEF ReplicaInv
<1>3. CASE UNCHANGED vars
  BY <1>0, <1>3 DEF vars, tables, world, queue, work, ReplicaInv, RecordedPresent, Replica, Arrived,
     Accounted, There, Holds, Cut
<1> QED
  BY <1>1, <1>2, <1>3 DEF Next, Moves

(* A replica the database records as present is at its target, with the      *)
(* Received UUID of its snapshot, unless it was deleted on purpose, whatever *)
(* failed, was killed or was unmounted in whatever order, with any number of *)
(* machines and targets.  That it is whole does not follow: a stream cut     *)
(* between two commands gets that UUID too.                                  *)
THEOREM RecordedPresentCorrect ==
    ASSUME OneSenderEach, OwnPlaces
    PROVE  Spec => []RecordedPresent
<1>1. Init => ReplicaInv
  BY SenderInit DEF Init, ReplicaInv, RecordedPresent, Arrived
<1>2. ReplicaInv /\ [Next]_vars => ReplicaInv'
  BY ReplicaStep
<1>3. ReplicaInv => RecordedPresent
  BY DEF ReplicaInv
<1> QED
  BY <1>1, <1>2, <1>3, PTL DEF Spec

-----------------------------------------------------------------------------
(* Disks that are taken away. *)

(* Disks are mounted and unmounted while no invocation runs, and taken away  *)
(* only once something is recorded on them: an empty mount point before the  *)
(* first replica can't be told from an empty disk.  Nothing is deleted by    *)
(* hand at a target whose disk may be away.                                  *)
DisksStay ==
    /\ ~ DetachAnytime /\ "detach_early" \notin Events
    /\ \A p \in Procs : "del" \notin Ops[p]

(* A medium holds the replicas of one target.                                *)
OwnTargets ==
    \A m1, m2 \in Machines, t, u \in Targets : Place[m1][t] = Place[m2][u] => t = u

(* Past check_recorded_replicas.                                             *)
Checked == {"next"} \union Handling \union Pruning

(* A directory without its disk stays empty, a disk that is away has a       *)
(* replica on record, and no invocation gets past the check without a disk.  *)
Bare == \A d \in Media, n \in Names : media[d]["bare"][n] = "none"

Away ==
    \A d \in Media : mount[d] # "disk" =>
        \E t \in Targets, n \in Names :
            recs[t][n] = "present" /\ Place[Record[n].machine][t] = d

Mounted(p) == pc[p] \in Checked => mount[Medium(p)] = "disk"

(* What is about to be forgotten or marked as pruned is not on the disk.     *)
Gone(p) ==
    /\ pc[p] = "unrecord" => Replica(tgt[p], parent[p], "disk") = "none"
    /\ pc[p] = "mark" => Replica(tgt[p], cur[p], "disk") = "none"

DiskInv == SenderInv /\ Bare /\ Away /\ \A p \in Procs : Mounted(p) /\ Gone(p)

(* An invocation without a disk does not get past the check.                 *)
LEMMA MoveMounted ==
    ASSUME OwnTargets, DisksStay, DiskInv, NEW p \in Procs, Moves(p)
    PROVE  Mounted(p)'
<1>0. /\ TypeInv /\ Post(p) /\ pc \in [Procs -> Steps] /\ Mounted(p) /\ mount' = mount
      /\ QueueTypes /\ WorldTypes
  BY MoveWorld DEF DiskInv, SenderInv, TypeInv, Posts, WorldMove
<1>1. CASE CheckRecorded(p) /\ pc'[p] = "next"
  <2>1. /\ tgt' = tgt /\ pc[p] = "recorded"
        /\ \/ ListReplicas(recs[tgt[p]]) = {}
           \/ \E n \in ListReplicas(recs[tgt[p]]) : At(p, n) # "none"
    BY <1>0, <1>1 DEF CheckRecorded, Broken, Goto, Fail, queue
  <2>2. tgt[p] \in Targets /\ Medium(p) \in Media /\ Host[p] \in Machines
    BY <1>0, <2>1, MediumType DEF Post, Busy, Sending
  <2>3. ASSUME mount[Medium(p)] # "disk" PROVE FALSE
    <3>1. PICK t \in Targets : \E n \in Names :
              recs[t][n] = "present" /\ Place[Record[n].machine][t] = Medium(p)
      BY <2>2, <2>3 DEF DiskInv, Away
    <3>2. PICK n \in Names : recs[t][n] = "present" /\ Place[Record[n].machine][t] = Medium(p)
      BY <3>1
    <3>3. Record[n].machine \in Machines
      BY DEF CatalogAssumption, Columns
    <3>4. t = tgt[p]
      BY <2>2, <3>2, <3>3 DEF OwnTargets, Medium
    <3>5. PICK m \in ListReplicas(recs[tgt[p]]) : At(p, m) # "none"
      BY <2>1, <3>2, <3>4 DEF ListReplicas
    <3>6. m \in Names /\ mount[Medium(p)] = "bare" /\ media[Medium(p)]["bare"][m] # "none"
      BY <1>0, <2>2, <2>3, <3>5, AtType DEF ListReplicas, Sides
    <3> QED
      BY <2>2, <3>6 DEF DiskInv, Bare
  <2> QED
    BY <1>0, <2>1, <2>3 DEF Mounted, Medium
<1>2. CASE ~ (CheckRecorded(p) /\ pc'[p] = "next")
  <2>1. pc'[p] \in Checked => pc[p] \in Checked /\ tgt'[p] = tgt[p]
    <3> USE <1>0 DEF Checked, Handling, Pruning, Goto, Fail
    <3>1. CASE StartSend(p) \/ NextTarget(p) \/ CheckDir(p) \/ CheckRecorded(p) \/ End(p) \/ Crash(p)
      BY <1>2, <3>1 DEF StartSend, NextTarget, CheckDir, CheckRecorded, End, Crash, Reset, Broken
    <3>2. ASSUME NEW t \in Targets, NEW n \in Names, StartDel(p, t, n) PROVE FALSE
      BY <3>2 DEF StartDel, DisksStay
    <3>3. CASE NextSnapshot(p) \/ LookRemote(p) \/ Insert(p) \/ Replace(p) \/ ListParents(p) \/ TryParent(p)
               \/ Unrecord(p) \/ Send(p)
      BY <3>3 DEF NextSnapshot, LookRemote, Insert, Replace, ListParents, TryParent, Unrecord, Send,
         Broken, queue
    <3>4. CASE Receive(p) \/ Verify(p) \/ RemovePartial(p) \/ PruneList(p) \/ NextKind(p)
               \/ DeleteVictim(p) \/ MarkPruned(p)
      BY <3>4 DEF Receive, Verify, RemovePartial, PruneList, NextKind, DeleteVictim, MarkPruned,
         Broken, queue
    <3> QED
      BY <3>1, <3>2, <3>3, <3>4 DEF Moves, Start, Step
  <2> QED
    BY <1>0, <2>1 DEF Mounted, Medium
<1> QED
  BY <1>1, <1>2

(* So what an invocation writes is on a disk, and what its machine recorded  *)
(* where no disk is stays as it was.                                         *)
LEMMA MoveDisks ==
    ASSUME DiskInv, NEW p \in Procs, Moves(p)
    PROVE  Bare' /\ Away'
<1>0. /\ MediaMove(p) /\ RecsMove(p) /\ mount' = mount /\ Mounted(p) /\ Owned(p) /\ Post(p)
      /\ victims[p] \subseteq Names /\ p \notin {"none"}
  BY MoveWorld DEF WorldMove, DiskInv, SenderInv, TypeInv, Posts, WorkTypes
<1>1. Bare'
  <2> SUFFICES ASSUME NEW d \in Media, NEW n \in Names PROVE media'[d]["bare"][n] = "none"
    BY DEF Bare
  <2>1. media[d]["bare"][n] = "none"
    BY DEF DiskInv, Bare
  <2>2. ASSUME pc[p] \in Checked, NEW m \in Names, NEW x, Written(p, m, x)
        PROVE  media'[d]["bare"][n] = "none"
    <3>1. "bare" \in Sides
      BY DEF Sides
    <3>2. ~ (d = Medium(p) /\ "bare" = mount[d])
      BY <1>0, <2>2 DEF Mounted
    <3> QED
      BY <2>1, <2>2, <3>1, <3>2 DEF Written
  <2>3. CASE media' = media
    BY <2>1, <2>3
  <2>4. CASE pc[p] \in {"replace", "unsend", "send", "receive"} /\ \E x \in Status : Written(p, cur[p], x)
    <3>1. pc[p] \in Checked /\ cur[p] \in Names
      BY <1>0, <2>4 DEF Post, Checked, Handling
    <3> QED
      BY <2>2, <2>4, <3>1
  <2>5. CASE pc[p] = "victim" /\ \E v \in victims[p] : Written(p, v, "none")
    BY <1>0, <2>2, <2>5 DEF Checked, Pruning
  <2>6. {"none", p} \union Ends \subseteq Status
    BY DEF Status, Ends
  <2> QED
    BY <1>0, <2>3, <2>4, <2>5, <2>6 DEF MediaMove
<1>2. Away'
  <2> SUFFICES ASSUME NEW d \in Media, mount[d] # "disk"
               PROVE  \E t \in Targets, n \in Names :
                          recs'[t][n] = "present" /\ Place[Record[n].machine][t] = d
    BY <1>0 DEF Away
  <2>1. PICK t \in Targets : \E n \in Names : recs[t][n] = "present" /\ Place[Record[n].machine][t] = d
    BY DEF DiskInv, Away
  <2>2. PICK n \in Names : recs[t][n] = "present" /\ Place[Record[n].machine][t] = d
    BY <2>1
  <2>3. CASE recs'[t][n] = "present"
    BY <2>2, <2>3
  <2>4. CASE recs'[t][n] # "present"
    <3>1. t = tgt[p] /\ (n = cur[p] \/ n = parent[p]) /\ pc[p] \in {"unrecord", "mark"}
      BY <1>0, <2>2, <2>4 DEF RecsMove, Recorded
    <3>2. Mine(p, n)
      BY <1>0, <3>1 DEF Owned
    <3>3. d = Medium(p) /\ pc[p] \in Checked
      BY <2>2, <3>1, <3>2 DEF Mine, Medium, Checked, Handling, Pruning
    <3> QED
      BY <1>0, <3>3 DEF Mounted
  <2> QED
    BY <2>3, <2>4
<1> QED
  BY <1>1, <1>2

(* What is forgotten was looked for on the disk, what is marked was deleted. *)
LEMMA MoveGone ==
    ASSUME DiskInv, NEW p \in Procs, Moves(p)
    PROVE  Gone(p)'
<1>0. /\ TypeInv /\ Post(p) /\ pc \in [Procs -> Steps] /\ Mounted(p) /\ Owned(p) /\ WorkTypes /\ WorldTypes
  BY DEF DiskInv, SenderInv, TypeInv, Posts
<1>1. ASSUME NEW n \in Names, Mine(p, n), tgt[p] \in Targets, mount[Medium(p)] = "disk"
      PROVE  Replica(tgt[p], n, "disk") = At(p, n)
  BY <1>1 DEF Replica, At, TargetDir, Mine, Medium
<1>2. ASSUME TryParent(p), pc'[p] = "unrecord" PROVE Gone(p)'
  <2>1. /\ pc[p] = "parent" /\ tgt' = tgt /\ media' = media
        /\ \E c \in cands[p] : At(p, c) = "none" /\ parent' = [parent EXCEPT ![p] = c]
    BY <1>0, <1>2 DEF TryParent, Goto, Fail, queue, world
  <2>2. PICK c \in cands[p] : At(p, c) = "none" /\ parent' = [parent EXCEPT ![p] = c]
    BY <2>1
  <2>3. /\ c \in Names /\ Mine(p, c) /\ parent'[p] = c /\ tgt[p] \in Targets
        /\ mount[Medium(p)] = "disk"
    BY <1>0, <2>1, <2>2 DEF WorkTypes, Owned, Post, Busy, Sending, Handling, Mounted, Checked
  <2>4. Replica(tgt[p], c, "disk") = "none"
    BY <1>1, <2>2, <2>3
  <2> QED
    BY <1>2, <2>1, <2>3, <2>4 DEF Gone, Replica
<1>3. ASSUME DeleteVictim(p), pc'[p] = "mark" PROVE Gone(p)'
  <2>1. pc[p] = "victim" /\ tgt' = tgt /\ mount' = mount
    BY <1>3 DEF DeleteVictim, queue
  <2>2. PICK v \in victims[p] :
            /\ cur' = [cur EXCEPT ![p] = v]
            /\ IF At(p, v) # "none" THEN Put(p, v, "none") ELSE media' = media
    BY <1>0, <1>3 DEF DeleteVictim, Goto, Fail
  <2>3. /\ v \in Names /\ Mine(p, v) /\ cur'[p] = v /\ tgt[p] \in Targets
        /\ Medium(p) \in Media /\ mount[Medium(p)] = "disk"
    BY <1>0, <2>1, <2>2, MediumType DEF WorkTypes, Owned, Post, Busy, Pruning, Mounted, Checked
  <2>4. media'[Medium(p)]["disk"][v] = "none"
    <3>1. CASE At(p, v) # "none"
      <4>1. Written(p, v, "none")
        BY <1>0, <2>2, <2>3, <3>1, AtType, PutWrites DEF Status
      <4> QED
        BY <2>3, <4>1 DEF Written, Sides
    <3>2. CASE At(p, v) = "none"
      BY <2>2, <2>3, <3>2 DEF At, TargetDir
    <3> QED
      BY <3>1, <3>2
  <2>5. Medium(p) = Place[Record[v].machine][tgt[p]]
    BY <2>3 DEF Medium, Mine
  <2> QED
    BY <1>3, <2>1, <2>3, <2>4, <2>5 DEF Gone, Replica
<1>4. CASE ~ (TryParent(p) \/ DeleteVictim(p))
  <2>1. pc'[p] \notin {"unrecord", "mark"}
    BY <1>0, <1>4 DEF Moves, Start, Step, StartSend, StartDel, NextTarget, CheckDir, CheckRecorded,
       NextSnapshot, LookRemote, Insert, Replace, ListParents, Unrecord, Send, Receive, Verify,
       RemovePartial, PruneList, NextKind, MarkPruned, End, Crash, Broken, Goto, Fail, Reset
  <2> QED
    BY <2>1 DEF Gone
<1>5. ASSUME TryParent(p) \/ DeleteVictim(p), pc'[p] \notin {"unrecord", "mark"} PROVE Gone(p)'
  BY <1>5 DEF Gone
<1>6. CASE TryParent(p)
  <2>1. pc'[p] # "mark"
    BY <1>0, <1>6 DEF TryParent, Goto, Fail
  <2> QED
    BY <1>2, <1>5, <1>6, <2>1
<1>7. CASE DeleteVictim(p)
  <2>1. pc'[p] # "unrecord"
    BY <1>0, <1>7 DEF DeleteVictim, Goto, Fail
  <2> QED
    BY <1>3, <1>5, <1>7, <2>1
<1> QED
  BY <1>4, <1>6, <1>7

(* Another machine's invocation does not touch it.                           *)
LEMMA OthersKeepGone ==
    ASSUME OneSenderEach, DiskInv, NEW p \in Procs, Moves(p), NEW q \in Procs \ {p}
    PROVE  Mounted(q)' /\ Gone(q)'
<1>0. /\ Mounted(q) /\ Gone(q) /\ Owned(q) /\ Post(q) /\ Apart(p) /\ mount' = mount /\ Owned(p)
      /\ MediaMove(p) /\ Post(p) /\ victims[p] \subseteq Names
  BY MoveTypes, MoveWorld DEF DiskInv, SenderInv, TypeInv, Posts, WorldMove, WorkTypes
<1>1. pc'[q] = pc[q] /\ tgt'[q] = tgt[q] /\ cur'[q] = cur[q] /\ parent'[q] = parent[q]
  BY <1>0 DEF Apart
<1>2. Mounted(q)'
  BY <1>0, <1>1 DEF Mounted, Medium
<1>3. ASSUME NEW n \in Names, Mine(q, n), NEW d \in Media
      PROVE  media'[d]["disk"][n] = media[d]["disk"][n]
  <2>1. ~ Mine(p, n)
    BY <1>3 DEF Mine, OneSenderEach
  <2>2. n # cur[p] /\ n \notin victims[p]
    BY <1>0, <2>1 DEF Owned
  <2>3. ASSUME NEW m \in Names, m # n, NEW x, Written(p, m, x)
        PROVE  media'[d]["disk"][n] = media[d]["disk"][n]
    BY <2>3 DEF Written, Sides
  <2>4. pc[p] \in {"replace", "unsend", "send", "receive"} => cur[p] \in Names
    BY <1>0 DEF Post, Handling
  <2> QED
    BY <1>0, <2>2, <2>3, <2>4 DEF MediaMove
<1>4. ASSUME NEW n \in Names, Mine(q, n), tgt[q] \in Targets
      PROVE  Place[Record[n].machine][tgt[q]] \in Media
  BY <1>4 DEF CatalogAssumption, Columns
<1>5. /\ pc[q] = "unrecord" => parent[q] \in Names /\ Mine(q, parent[q]) /\ tgt[q] \in Targets
      /\ pc[q] = "mark" => cur[q] \in Names /\ Mine(q, cur[q]) /\ tgt[q] \in Targets
  BY <1>0 DEF Post, Busy, Sending, Handling, Pruning, Owned
<1>6. Gone(q)'
  <2>1. CASE pc[q] = "unrecord"
    <3>1. parent[q] \in Names /\ Mine(q, parent[q]) /\ tgt[q] \in Targets
      BY <1>5, <2>1
    <3>2. Replica(tgt[q], parent[q], "disk") = "none"
      BY <1>0, <2>1 DEF Gone
    <3>3. media'[Place[Record[parent[q]].machine][tgt[q]]]["disk"][parent[q]] = "none"
      BY <1>3, <1>4, <3>1, <3>2 DEF Replica
    <3> QED
      BY <1>1, <2>1, <3>3 DEF Gone, Replica
  <2>2. CASE pc[q] = "mark"
    <3>1. cur[q] \in Names /\ Mine(q, cur[q]) /\ tgt[q] \in Targets
      BY <1>5, <2>2
    <3>2. Replica(tgt[q], cur[q], "disk") = "none"
      BY <1>0, <2>2 DEF Gone
    <3>3. media'[Place[Record[cur[q]].machine][tgt[q]]]["disk"][cur[q]] = "none"
      BY <1>3, <1>4, <3>1, <3>2 DEF Replica
    <3> QED
      BY <1>1, <2>2, <3>3 DEF Gone, Replica
  <2> QED
    BY <1>1, <2>1, <2>2 DEF Gone
<1> QED
  BY <1>2, <1>6

(* DiskInv is inductive.                                                     *)
LEMMA DiskStep ==
    ASSUME OneSenderEach, OwnTargets, DisksStay
    PROVE  DiskInv /\ [Next]_vars => DiskInv'
<1> SUFFICES ASSUME DiskInv, [Next]_vars PROVE DiskInv'
  OBVIOUS
<1>0. SenderInv /\ TypeInv /\ SenderInv'
  BY SenderStep DEF DiskInv, SenderInv
<1>1. ASSUME NEW p \in Procs, Moves(p) PROVE DiskInv'
  <2>1. Bare' /\ Away' /\ Mounted(p)' /\ Gone(p)'
    BY <1>1, MoveMounted, MoveDisks, MoveGone
  <2>2. ASSUME NEW q \in Procs \ {p} PROVE Mounted(q)' /\ Gone(q)'
    BY <1>1, <2>2, OthersKeepGone
  <2> QED
    BY <1>0, <2>1, <2>2 DEF DiskInv
<1>2. CASE Environment
  <2>1. Outside /\ WorldTypes
    BY <1>0, <1>2, EnvironmentOutside DEF TypeInv
  <2>2. Bare'
    <3> SUFFICES ASSUME NEW d \in Media, NEW n \in Names PROVE media'[d]["bare"][n] = "none"
      BY DEF Bare
    <3>1. media[d]["bare"][n] = "none"
      BY DEF DiskInv, Bare
    <3>2. ASSUME NEW e \in Media, NEW m \in Names, Lost(e, m) PROVE media'[d]["bare"][n] = "none"
      BY <3>1, <3>2 DEF Lost, Sides
    <3>3. ASSUME NEW e \in Media, NEW s \in Sides, NEW m \in Names, Ended(e, s, m)
          PROVE  media'[d]["bare"][n] = "none"
      BY <3>1, <3>3 DEF Ended, Sides
    <3> QED
      BY <2>1, <3>1, <3>2, <3>3 DEF Outside
  <2>3. ASSUME NEW q \in Procs PROVE Gone(q)'
    <3>1. /\ Gone(q) /\ Post(q) /\ pc'[q] = pc[q] /\ tgt'[q] = tgt[q] /\ cur'[q] = cur[q]
          /\ parent'[q] = parent[q]
      BY <1>0, <2>1 DEF DiskInv, TypeInv, Posts, Outside, queue, work
    <3>2. ASSUME NEW t \in Targets, NEW n \in Names, Replica(t, n, "disk") = "none"
          PROVE  media'[Place[Record[n].machine][t]]["disk"][n] = "none"
      <4>1. Place[Record[n].machine][t] \in Media
        BY DEF CatalogAssumption, Columns
      <4>2. ASSUME NEW e \in Media, NEW m \in Names, Lost(e, m)
            PROVE  media'[Place[Record[n].machine][t]]["disk"][n] = "none"
        BY <3>2, <4>1, <4>2 DEF Lost, Sides, Replica
      <4>3. ASSUME NEW e \in Media, NEW s \in Sides, NEW m \in Names, Ended(e, s, m)
            PROVE  media'[Place[Record[n].machine][t]]["disk"][n] = "none"
        BY <3>2, <4>1, <4>3 DEF Ended, Sides, Replica
      <4> QED
        BY <2>1, <3>2, <4>2, <4>3 DEF Outside, Replica
    <3>3. CASE pc[q] = "unrecord"
      <4>1. tgt[q] \in Targets /\ parent[q] \in Names /\ Replica(tgt[q], parent[q], "disk") = "none"
        BY <3>1, <3>3 DEF Gone, Post, Busy, Sending, Handling
      <4>2. media'[Place[Record[parent[q]].machine][tgt[q]]]["disk"][parent[q]] = "none"
        BY <3>2, <4>1
      <4> QED
        BY <3>1, <3>3, <4>2 DEF Gone, Replica
    <3>4. CASE pc[q] = "mark"
      <4>1. tgt[q] \in Targets /\ cur[q] \in Names /\ Replica(tgt[q], cur[q], "disk") = "none"
        BY <3>1, <3>4 DEF Gone, Post, Busy, Pruning
      <4>2. media'[Place[Record[cur[q]].machine][tgt[q]]]["disk"][cur[q]] = "none"
        BY <3>2, <4>1
      <4> QED
        BY <3>1, <3>4, <4>2 DEF Gone, Replica
    <3> QED
      BY <3>1, <3>3, <3>4 DEF Gone
  <2>4. Away' /\ \A q \in Procs : Mounted(q)'
    <3>1. CASE mount' = mount
      BY <2>1, <3>1 DEF DiskInv, Away, Mounted, Medium, Outside, queue, work
    <3>2. CASE \E d \in Media : Detach(d) \/ Attach(d)
      <4>1. PICK d \in Media : Detach(d) \/ Attach(d)
        BY <3>2
      <4>2. \A q \in Procs : pc'[q] = "idle"
        BY <4>1 DEF Detach, Attach, Free, DisksStay
      <4>3. /\ recs' = recs /\ mount' = [mount EXCEPT ![d] = mount'[d]]
            /\ mount'[d] # "disk" => \E t \in Targets : \E n \in ListReplicas(recs[t]) :
                                        Place[Record[n].machine][t] = d
        BY <2>1, <4>1 DEF Detach, Attach, DisksStay, tables, WorldTypes
      <4>4. Away'
        <5> SUFFICES ASSUME NEW e \in Media, mount'[e] # "disk"
                     PROVE  \E t \in Targets, n \in Names :
                                recs[t][n] = "present" /\ Place[Record[n].machine][t] = e
          BY <4>3 DEF Away
        <5>1. CASE e = d
          BY <4>3, <5>1 DEF ListReplicas
        <5>2. CASE e # d
          <6>1. mount[e] # "disk"
            BY <2>1, <4>3, <5>2 DEF WorldTypes
          <6> QED
            BY <6>1 DEF DiskInv, Away
        <5> QED
          BY <5>1, <5>2
      <4>5. \A q \in Procs : Mounted(q)'
        BY <4>2 DEF Mounted, Checked, Handling, Pruning
      <4> QED
        BY <4>4, <4>5
    <3>3. CASE \E n \in Names : Create(n) \/ DeleteLocal(n) \/ ForgetLocal(n)
      BY <3>1, <3>3 DEF Create, DeleteLocal, ForgetLocal, world
    <3>4. CASE \E d \in Media, n \in Names : Tamper(d, n) \/ \E s \in Sides : OrphanEnds(d, s, n)
      BY <3>1, <3>4 DEF Tamper, OrphanEnds
    <3> QED
      BY <1>2, <3>2, <3>3, <3>4 DEF Environment
  <2> QED
    BY <1>0, <2>2, <2>3, <2>4 DEF DiskInv
<1>3. CASE UNCHANGED vars
  <2>1. Bare' /\ Away'
    BY <1>3 DEF vars, tables, world, DiskInv, Bare, Away
  <2>2. ASSUME NEW q \in Procs PROVE Mounted(q)' /\ Gone(q)'
    BY <1>3 DEF vars, world, queue, work, DiskInv, Mounted, Medium, Gone, Replica
  <2> QED
    BY <1>0, <2>1, <2>2 DEF DiskInv
<1> QED
  BY <1>1, <1>2, <1>3 DEF Next, Moves

(* The invariant of the disks holds initially.                               *)
LEMMA DiskInit == Init => DiskInv
BY SenderInit DEF Init, DiskInv, Bare, Away, Mounted, Gone, Checked, Handling, Pruning, Sides

(* A step forgets, or records as pruned, only what is not on the disk.       *)
LEMMA RecordsStay ==
    ASSUME DiskInv, [Next]_vars, NEW t \in Targets, NEW n \in Names, recs[t][n] = "present",
           Replica(t, n, "disk") = "complete"
    PROVE  recs'[t][n] = "present"
<1>0. TypeInv
  BY DEF DiskInv, SenderInv
<1>1. ASSUME NEW p \in Procs, Moves(p) PROVE recs'[t][n] = "present"
  <2>1. RecsMove(p) /\ Gone(p)
    BY <1>0, <1>1, MoveWorld DEF WorldMove, DiskInv
  <2>2. CASE recs' = recs \/ Recorded(p, cur[p], "present")
    BY <2>2 DEF Recorded
  <2>3. CASE pc[p] = "unrecord" /\ Recorded(p, parent[p], "none")
    BY <2>1, <2>3 DEF Gone, Recorded
  <2>4. CASE pc[p] = "mark" /\ Recorded(p, cur[p], IF recs[tgt[p]][cur[p]] = "none" THEN "none" ELSE "pruned")
    BY <2>1, <2>4 DEF Gone, Recorded
  <2> QED
    BY <2>1, <2>2, <2>3, <2>4 DEF RecsMove
<1>2. CASE Environment
  BY <1>0, <1>2, EnvironmentOutside DEF Outside
<1>3. CASE UNCHANGED vars
  BY <1>3 DEF vars, tables
<1> QED
  BY <1>1, <1>2, <1>3 DEF Next, Moves

(* The database does not forget a replica that is complete on its disk,      *)
(* mounted or not, nor records it as pruned.                                 *)
THEOREM RecordsKeptCorrect ==
    ASSUME OneSenderEach, OwnTargets, DisksStay
    PROVE  Spec => RecordsKept
<1> DEFINE Kept == \A t \in Targets, n \in Names :
                       /\ recs[t][n] = "present" /\ Replica(t, n, "disk") = "complete"
                       /\ ~ \E p \in Procs : pc[p] = "mark" /\ byHand[p]
                       => recs'[t][n] = "present"
<1>1. DiskInv /\ [Next]_vars => [Kept]_vars
  BY RecordsStay
<1>2. DiskInv /\ [Next]_vars => DiskInv'
  BY DiskStep
<1> QED
  BY <1>1, <1>2, DiskInit, PTL DEF Spec, RecordsKept

-----------------------------------------------------------------------------
(* Replication implements Ledger. *)

(* What is recorded is no longer being written.                              *)
Finished == \A t \in Targets, n \in Names : recs[t][n] # "none" => Replica(t, n, "disk") # "orphan"

LedgerInv == DiskInv /\ Finished /\ \A p \in Procs : Seen(p)

(* Without a disk there is nothing, so that what is there is on the disk.    *)
LEMMA OnDisk ==
    ASSUME Bare, NEW t \in Targets, NEW n \in Names
    PROVE  /\ Holds(t, n) <=> Replica(t, n, "disk") = "complete"
           /\ Cut(t, n) <=> Replica(t, n, "disk") = "short"
<1>1. Place[Record[n].machine][t] \in Media
  BY DEF CatalogAssumption, Columns
<1> QED
  BY <1>1 DEF Bare, Holds, Cut, Replica, Sides

(* Another machine's invocation writes other replicas.                       *)
LEMMA OthersKeepSeen ==
    ASSUME OneSenderEach, OwnPlaces, LedgerInv, NEW p \in Procs, Moves(p), NEW q \in Procs \ {p}
    PROVE  Seen(q)'
<1>0. /\ MediaMove(p) /\ Apart(p) /\ Owned(p) /\ Owned(q) /\ Post(p) /\ Post(q) /\ Seen(q)
      /\ victims[p] \subseteq Names
  BY MoveWorld, MoveTypes DEF LedgerInv, DiskInv, SenderInv, TypeInv, Posts, WorldMove, WorkTypes
<1>1. pc'[q] = pc[q] /\ tgt'[q] = tgt[q] /\ cur'[q] = cur[q]
  BY <1>0 DEF Apart
<1>2. ASSUME NEW t \in Targets, NEW n \in Names, t = tgt[q], n = cur[q], There(t, n)
      PROVE  There(t, n)'
  <2>1. Mine(q, n) /\ ~ Mine(p, n)
    BY <1>0, <1>2 DEF Owned, Mine, OneSenderEach
  <2>2. n # cur[p] /\ n \notin victims[p]
    BY <1>0, <2>1 DEF Owned
  <2>3. CASE media' = media
    BY <1>2, <2>3 DEF There, Holds, Cut, Replica
  <2>4. ASSUME tgt[p] \in Targets, NEW m \in Names, m # n, Mine(p, m), NEW x, Written(p, m, x)
        PROVE  There(t, n)'
    <3>1. \A s \in Sides :
              media'[Place[Record[n].machine][t]][s][n] = media[Place[Record[n].machine][t]][s][n]
      BY <2>4, WrittenElsewhere
    <3> QED
      BY <1>2, <3>1 DEF There, Holds, Cut, Replica
  <2>5. pc[p] \in {"replace", "unsend", "send", "receive"} =>
            tgt[p] \in Targets /\ cur[p] \in Names /\ Mine(p, cur[p])
    BY <1>0 DEF Post, Busy, Sending, Handling, Owned
  <2>6. pc[p] = "victim" => tgt[p] \in Targets /\ \A v \in victims[p] : Mine(p, v)
    BY <1>0 DEF Post, Busy, Pruning, Owned
  <2> QED
    BY <1>0, <2>2, <2>3, <2>4, <2>5, <2>6 DEF MediaMove
<1>3. CASE pc[q] \in {"adopt", "record"}
  <2>1. tgt[q] \in Targets /\ cur[q] \in Names /\ There(tgt[q], cur[q])
    BY <1>0, <1>3 DEF Post, Busy, Sending, Handling, Seen
  <2>2. ASSUME NEW t \in Targets, NEW n \in Names, t = tgt[q], n = cur[q] PROVE Seen(q)'
    <3>1. There(t, n)'
      BY <1>2, <2>1, <2>2
    <3> QED
      BY <1>1, <2>2, <3>1 DEF Seen, There, Holds, Cut, Replica
  <2> QED
    BY <2>1, <2>2
<1>4. CASE pc[q] \notin {"adopt", "record"}
  BY <1>1, <1>4 DEF Seen
<1> QED
  BY <1>3, <1>4

(* A medium that leads to one target does so on one machine too.             *)
LEMMA OwnTargetsPlaces == OwnTargets => OwnPlaces
BY DEF OwnTargets, OwnPlaces

(* What is recorded is not received again, and what is being received is     *)
(* not recorded.                                                             *)
LEMMA MoveFinished ==
    ASSUME OwnPlaces, LedgerInv, NEW p \in Procs, Moves(p)
    PROVE  Finished'
<1>0. /\ RecsMove(p) /\ MediaMove(p) /\ Owned(p) /\ Queued(p) /\ Parents(p) /\ Post(p) /\ Seen(p)
      /\ victims[p] \subseteq Names /\ Bare /\ Finished
  BY MoveWorld DEF LedgerInv, DiskInv, SenderInv, TypeInv, Posts, WorldMove, WorkTypes
<1> SUFFICES ASSUME NEW t \in Targets, NEW n \in Names, recs'[t][n] # "none"
             PROVE  media'[Place[Record[n].machine][t]]["disk"][n] # "orphan"
  BY DEF Finished, Replica
<1>1. Place[Record[n].machine][t] \in Media
  BY DEF CatalogAssumption, Columns
<1>2. CASE recs[t][n] = "none"
  <2>1. pc[p] \in {"adopt", "record"} /\ t = tgt[p] /\ n = cur[p]
    BY <1>0, <1>2 DEF RecsMove, Recorded, Parents
  <2>2. media' = media /\ There(t, n)
    BY <1>0, <2>1 DEF MediaMove, Seen
  <2> QED
    BY <1>0, <2>2, OnDisk DEF There, Replica
<1>3. CASE recs[t][n] # "none"
  <2>1. media[Place[Record[n].machine][t]]["disk"][n] # "orphan"
    BY <1>0, <1>3 DEF Finished, Replica
  <2>2. ASSUME tgt[p] \in Targets, NEW m \in Names, Mine(p, m), NEW x, Written(p, m, x),
               m # n \/ t # tgt[p]
        PROVE  media'[Place[Record[n].machine][t]]["disk"][n] # "orphan"
    <3>1. "disk" \in Sides
      BY DEF Sides
    <3>2. \A s \in Sides : media'[Place[Record[n].machine][t]][s][n]
                              = media[Place[Record[n].machine][t]][s][n]
      BY <1>0, <2>2, WrittenElsewhere DEF LedgerInv
    <3> QED
      BY <2>1, <3>1, <3>2
  <2>3. ASSUME NEW m \in Names, Written(p, m, "none")
        PROVE  media'[Place[Record[n].machine][t]]["disk"][n] # "orphan"
    <3>1. "disk" \in Sides
      BY DEF Sides
    <3>2. media'[Place[Record[n].machine][t]]["disk"][n]
              \in {"none", media[Place[Record[n].machine][t]]["disk"][n]}
      BY <1>1, <2>3, <3>1 DEF Written
    <3> QED
      BY <2>1, <3>2
  <2>4. CASE pc[p] \in {"send", "receive"}
    <3>1. tgt[p] \in Targets /\ cur[p] \in Names /\ Mine(p, cur[p]) /\ recs[tgt[p]][cur[p]] = "none"
      BY <1>0, <2>4 DEF Post, Busy, Sending, Handling, Owned, Queued
    <3>2. cur[p] # n \/ t # tgt[p]
      BY <1>3, <3>1
    <3>3. media' = media \/ \E x \in {p} \union Ends : Written(p, cur[p], x)
      BY <1>0, <2>4 DEF MediaMove
    <3> QED
      BY <2>1, <2>2, <3>1, <3>2, <3>3
  <2>5. CASE pc[p] \notin {"send", "receive"}
    <3>1. pc[p] \in {"replace", "unsend"} => cur[p] \in Names
      BY <1>0 DEF Post, Handling
    <3> QED
      BY <1>0, <2>1, <2>3, <2>5, <3>1 DEF MediaMove
  <2> QED
    BY <2>4, <2>5
<1> QED
  BY <1>2, <1>3

(* LedgerInv is inductive as long as nobody deletes replicas at the disks.   *)
LEMMA LedgerInvStep ==
    ASSUME OneSenderEach, OwnTargets, DisksStay, "tamper" \notin Events
    PROVE  LedgerInv /\ [Next]_vars => LedgerInv'
<1> SUFFICES ASSUME LedgerInv, [Next]_vars PROVE LedgerInv'
  OBVIOUS
<1>0. DiskInv /\ SenderInv /\ TypeInv /\ DiskInv' /\ OwnPlaces
  BY DiskStep, OwnTargetsPlaces DEF LedgerInv, DiskInv, SenderInv
<1>1. ASSUME NEW p \in Procs, Moves(p) PROVE LedgerInv'
  BY <1>0, <1>1, MoveSeen, OthersKeepSeen, MoveFinished DEF LedgerInv
<1>2. CASE Environment
  <2>1. /\ UNCHANGED <<recs, queue, work, pc>>
        /\ media' = media \/ \E d \in Media, s \in Sides, n \in Names : Ended(d, s, n)
    BY <1>0, <1>2, EnvironmentOutside DEF Outside
  <2>2. ASSUME NEW t \in Targets, NEW n \in Names, NEW f \in Sides, Replica(t, n, f) # "orphan"
        PROVE  media'[Place[Record[n].machine][t]][f][n] = Replica(t, n, f)
    <3>1. Place[Record[n].machine][t] \in Media
      BY DEF CatalogAssumption, Columns
    <3>2. CASE media' = media
      BY <3>2 DEF Replica
    <3>3. ASSUME NEW d \in Media, NEW s \in Sides, NEW m \in Names, Ended(d, s, m)
          PROVE  media'[Place[Record[n].machine][t]][f][n] = Replica(t, n, f)
      BY <2>2, <3>1, <3>3 DEF Ended, Replica
    <3> QED
      BY <2>1, <3>2, <3>3
  <2>3. Finished'
    BY <2>1, <2>2 DEF LedgerInv, Finished, Replica, Sides
  <2>4. ASSUME NEW q \in Procs PROVE Seen(q)'
    <3>1. pc[q] \in {"adopt", "record"} => tgt[q] \in Targets /\ cur[q] \in Names
      BY <1>0 DEF TypeInv, Posts, Post, Busy, Sending, Handling
    <3>2. ASSUME NEW t \in Targets, NEW n \in Names, There(t, n) PROVE There(t, n)'
      <4>1. \A f \in Sides : Replica(t, n, f) # "orphan" => Replica(t, n, f)' = Replica(t, n, f)
        BY <2>2 DEF Replica
      <4> QED
        BY <3>2, <4>1 DEF There, Holds, Cut
    <3>3. pc'[q] = pc[q] /\ tgt'[q] = tgt[q] /\ cur'[q] = cur[q] /\ Seen(q)
      BY <2>1 DEF LedgerInv, queue, work
    <3>4. ASSUME NEW t \in Targets, NEW n \in Names, t = tgt[q], n = cur[q],
                 pc[q] \in {"adopt", "record"}
          PROVE  Seen(q)'
      <4>1. There(t, n)'
        BY <3>2, <3>3, <3>4 DEF Seen
      <4> QED
        BY <3>3, <3>4, <4>1 DEF Seen, There, Holds, Cut, Replica
    <3> QED
      BY <3>1, <3>3, <3>4 DEF Seen
  <2> QED
    BY <1>0, <2>3, <2>4 DEF LedgerInv
<1>3. CASE UNCHANGED vars
  BY <1>0, <1>3 DEF LedgerInv, Finished, Seen, There, Holds, Cut, Replica, vars, tables, world, queue, work
<1> QED
  BY <1>1, <1>2, <1>3 DEF Next, Moves

(* The entry of a replica, by target and snapshot.                           *)
Entry(t, n) == CASE recs[t][n] = "none"    -> "absent"
                 [] recs[t][n] = "pruned"  -> "pruned"
                 [] recs[t][n] = "present" -> IF Holds(t, n) THEN "held"
                                              ELSE IF Cut(t, n) THEN "cut" ELSE "stale"

(* Every entry but one is kept.                                              *)
KeptBut(t, n) ==
    \A u \in Targets, m \in Names : u # t \/ m # n => Entry(u, m)' = Entry(u, m)

(* The refinement mapping consists of these entries.                         *)
LEMMA LedgeredEntry ==
    ASSUME NEW t \in Targets, NEW n \in Names
    PROVE  Ledgered[<<t, n>>] = Entry(t, n) /\ Ledgered'[<<t, n>>] = Entry(t, n)'
<1>1. <<t, n>> \in Targets \X Names /\ <<t, n>>[1] = t /\ <<t, n>>[2] = n
  OBVIOUS
<1> QED
  BY <1>1 DEF Ledgered, Entry

(* With every entry unchanged the ledger is.                                 *)
LEMMA NoEntryMoves ==
    ASSUME \A t \in Targets, n \in Names : Entry(t, n)' = Entry(t, n)
    PROVE  Ledgered' = Ledgered
<1>1. \A r \in Targets \X Names : r[1] \in Targets /\ r[2] \in Names
  OBVIOUS
<1>2. Ledgered = [r \in Targets \X Names |-> Entry(r[1], r[2])]
  BY DEF Ledgered, Entry
<1>3. Ledgered' = [r \in Targets \X Names |-> Entry(r[1], r[2])']
  BY DEF Ledgered, Entry
<1> QED
  BY <1>1, <1>2, <1>3

(* With one that moves as Ledger says and the others unchanged it moves so.  *)
LEMMA OneEntryMoves ==
    ASSUME NEW t \in Targets, NEW n \in Names, <<Entry(t, n), Entry(t, n)'>> \in LG!Moves,
           KeptBut(t, n)
    PROVE  LG!Next
<1>1. <<t, n>> \in Targets \X Names
  OBVIOUS
<1>2. <<Ledgered[<<t, n>>], Ledgered'[<<t, n>>]>> \in LG!Moves
  BY LedgeredEntry
<1>3. ASSUME NEW r \in (Targets \X Names) \ {<<t, n>>} PROVE Ledgered'[r] = Ledgered[r]
  <2>1. r[1] \in Targets /\ r[2] \in Names /\ r = <<r[1], r[2]>>
    OBVIOUS
  <2>2. \A u \in Targets, m \in Names :
            u # t \/ m # n => Ledgered'[<<u, m>>] = Ledgered[<<u, m>>]
    BY LedgeredEntry DEF KeptBut
  <2>3. r[1] # t \/ r[2] # n
    BY <2>1
  <2>4. Ledgered'[<<r[1], r[2]>>] = Ledgered[<<r[1], r[2]>>]
    BY <2>1, <2>2, <2>3
  <2> QED
    BY <2>1, <2>4
<1> QED
  BY <1>1, <1>2, <1>3 DEF LG!Next

(* A step of an invocation is one move of one replica, or none.              *)
LEMMA MoveEntries ==
    ASSUME OneSenderEach, OwnPlaces, LedgerInv, LedgerInv', NEW p \in Procs, Moves(p)
    PROVE  LG!Next \/ Ledgered' = Ledgered
<1>0. /\ RecsMove(p) /\ MediaMove(p) /\ Owned(p) /\ Queued(p) /\ Parents(p) /\ Post(p)
      /\ Mounted(p) /\ Gone(p) /\ Seen(p) /\ victims[p] \subseteq Names
      /\ Bare /\ Bare' /\ WorldTypes
  BY MoveWorld DEF LedgerInv, DiskInv, SenderInv, TypeInv, Posts, WorldMove, WorkTypes
<1>1. ASSUME NEW t \in Targets, NEW n \in Names
      PROVE  /\ Holds(t, n) <=> Replica(t, n, "disk") = "complete"
             /\ Cut(t, n) <=> Replica(t, n, "disk") = "short"
             /\ recs[t][n] \in {"none", "present", "pruned"}
  BY <1>0, OnDisk DEF WorldTypes
<1>2. CASE recs' = recs /\ media' = media
  <2>1. ASSUME NEW t \in Targets, NEW n \in Names PROVE Entry(t, n)' = Entry(t, n)
    BY <1>2 DEF Entry, Holds, Cut, Replica
  <2> QED
    BY <2>1, NoEntryMoves
<1>3. ASSUME recs' = recs, pc[p] \in Handling, NEW x, Written(p, cur[p], x)
      PROVE  Ledgered' = Ledgered
  <2>1. tgt[p] \in Targets /\ cur[p] \in Names /\ Mine(p, cur[p]) /\ recs[tgt[p]][cur[p]] = "none"
    BY <1>0, <1>3 DEF Post, Busy, Sending, Owned, Queued
  <2>2. ASSUME NEW t \in Targets, NEW n \in Names PROVE Entry(t, n)' = Entry(t, n)
    <3>1. CASE t = tgt[p] /\ n = cur[p]
      BY <1>3, <2>1, <3>1 DEF Entry
    <3>2. CASE t # tgt[p] \/ n # cur[p]
      <4>0. \A s \in Sides :
                media'[Place[Record[n].machine][t]][s][n] = media[Place[Record[n].machine][t]][s][n]
        <5>1. PICK m \in Names : m = cur[p] /\ Mine(p, m) /\ Written(p, m, x)
          BY <1>3, <2>1
        <5> QED
          BY <2>1, <3>2, <5>1, WrittenElsewhere
      <4>1. (Holds(t, n)' <=> Holds(t, n)) /\ (Cut(t, n)' <=> Cut(t, n))
        BY <4>0 DEF Holds, Cut, Replica
      <4> QED
        BY <1>3, <4>1 DEF Entry
    <3> QED
      BY <3>1, <3>2
  <2> QED
    BY <2>2, NoEntryMoves
<1>4. ASSUME recs' = recs, pc[p] = "victim", NEW v \in victims[p], Written(p, v, "none")
      PROVE  LG!Next \/ Ledgered' = Ledgered
  <2>1. /\ tgt[p] \in Targets /\ v \in Names /\ Mine(p, v) /\ mount[Medium(p)] = "disk"
        /\ Medium(p) \in Media
    BY <1>0, <1>4, MediumType DEF Post, Busy, Pruning, Owned, Mounted, Checked
  <2>2. ASSUME NEW t \in Targets, t = tgt[p] PROVE LG!Next \/ Ledgered' = Ledgered
    <3>1. ~ Holds(t, v)' /\ ~ Cut(t, v)'
      <4>1. Place[Record[v].machine][t] = Medium(p)
        BY <2>1, <2>2 DEF Mine, Medium
      <4>2. media'[Medium(p)]["disk"][v] = "none"
        BY <1>4, <2>1 DEF Written, Sides
      <4>3. \A s \in Sides : media'[Place[Record[v].machine][t]][s][v] = "none"
        BY <1>0, <2>1, <4>1, <4>2 DEF Bare, Sides
      <4> QED
        BY <4>3 DEF Holds, Cut, Replica
    <3>2. KeptBut(t, v)
      <4> SUFFICES ASSUME NEW u \in Targets, NEW m \in Names, u # t \/ m # v
                   PROVE  Entry(u, m)' = Entry(u, m)
        BY DEF KeptBut
      <4>1. (Holds(u, m)' <=> Holds(u, m)) /\ (Cut(u, m)' <=> Cut(u, m))
        <5>1. \A s \in Sides :
                  media'[Place[Record[m].machine][u]][s][m] = media[Place[Record[m].machine][u]][s][m]
          BY <1>4, <2>1, <2>2, WrittenElsewhere
        <5> QED
          BY <5>1 DEF Holds, Cut, Replica
      <4> QED
        BY <1>4, <4>1 DEF Entry
    <3>3. CASE Entry(t, v) \in {"held", "cut"}
      <4>1. Entry(t, v)' = "stale"
        BY <1>1, <1>4, <2>1, <3>1, <3>3 DEF Entry
      <4>2. <<Entry(t, v), Entry(t, v)'>> \in LG!Moves
        BY <3>3, <4>1 DEF LG!Moves
      <4> QED
        BY <2>1, <3>2, <4>2, OneEntryMoves
    <3>4. CASE Entry(t, v) \notin {"held", "cut"}
      <4>1. Entry(t, v)' = Entry(t, v)
        BY <1>1, <1>4, <2>1, <3>1, <3>4 DEF Entry
      <4>2. ASSUME NEW u \in Targets, NEW m \in Names PROVE Entry(u, m)' = Entry(u, m)
        BY <3>2, <4>1 DEF KeptBut
      <4> QED
        BY <4>2, NoEntryMoves
    <3> QED
      BY <3>3, <3>4
  <2> QED
    BY <2>1, <2>2
<1>5. ASSUME NEW t \in Targets, t = tgt[p], NEW n \in Names, NEW r, Recorded(p, n, r), media' = media
      PROVE  /\ recs'[t][n] = r /\ KeptBut(t, n)
             /\ (Holds(t, n)' <=> Holds(t, n)) /\ (Cut(t, n)' <=> Cut(t, n))
  <2>1. ASSUME NEW u \in Targets, NEW m \in Names
        PROVE  (Holds(u, m)' <=> Holds(u, m)) /\ (Cut(u, m)' <=> Cut(u, m))
    BY <1>5 DEF Holds, Cut, Replica
  <2>2. ASSUME NEW u \in Targets, NEW m \in Names, u # t \/ m # n PROVE Entry(u, m)' = Entry(u, m)
    <3>1. recs'[u][m] = recs[u][m]
      BY <1>5, <2>2 DEF Recorded
    <3> QED
      BY <2>1, <3>1 DEF Entry
  <2> QED
    BY <1>5, <2>1, <2>2 DEF Recorded, KeptBut
<1>6. CASE pc[p] \in {"adopt", "record"} /\ Recorded(p, cur[p], "present") /\ media' = media
  <2>1. tgt[p] \in Targets /\ cur[p] \in Names /\ recs[tgt[p]][cur[p]] = "none" /\ There(tgt[p], cur[p])
    BY <1>0, <1>6 DEF Post, Busy, Sending, Handling, Queued, Seen
  <2>2. ASSUME NEW t \in Targets, NEW n \in Names, t = tgt[p], n = cur[p] PROVE LG!Next
    <3>1. Recorded(p, n, "present")
      BY <1>6, <2>2
    <3>2. recs'[t][n] = "present" /\ (Holds(t, n)' \/ Cut(t, n)') /\ KeptBut(t, n)
      BY <1>5, <1>6, <2>1, <2>2, <3>1 DEF There
    <3>3. <<Entry(t, n), Entry(t, n)'>> \in LG!Moves
      BY <2>1, <2>2, <3>2 DEF Entry, LG!Moves
    <3> QED
      BY <3>2, <3>3, OneEntryMoves
  <2> QED
    BY <2>1, <2>2
<1>7. CASE pc[p] = "unrecord" /\ Recorded(p, parent[p], "none") /\ media' = media
  <2>1. /\ tgt[p] \in Targets /\ parent[p] \in Names
        /\ recs[tgt[p]][parent[p]] = "present" /\ Replica(tgt[p], parent[p], "disk") = "none"
    BY <1>0, <1>7 DEF Post, Busy, Sending, Handling, Parents, Gone
  <2>2. ASSUME NEW t \in Targets, NEW n \in Names, t = tgt[p], n = parent[p] PROVE LG!Next
    <3>1. Recorded(p, n, "none")
      BY <1>7, <2>2
    <3>2. recs'[t][n] = "none" /\ ~ Holds(t, n) /\ ~ Cut(t, n) /\ KeptBut(t, n)
      BY <1>1, <1>5, <1>7, <2>1, <2>2, <3>1
    <3>3. <<Entry(t, n), Entry(t, n)'>> \in LG!Moves
      BY <2>1, <2>2, <3>2 DEF Entry, LG!Moves
    <3> QED
      BY <3>2, <3>3, OneEntryMoves
  <2> QED
    BY <2>1, <2>2
<1>8. CASE /\ pc[p] = "mark" /\ media' = media
           /\ Recorded(p, cur[p], IF recs[tgt[p]][cur[p]] = "none" THEN "none" ELSE "pruned")
  <2>1. tgt[p] \in Targets /\ cur[p] \in Names /\ Replica(tgt[p], cur[p], "disk") = "none"
    BY <1>0, <1>8 DEF Post, Busy, Pruning, Gone
  <2>2. ASSUME NEW t \in Targets, NEW n \in Names, t = tgt[p], n = cur[p]
        PROVE  LG!Next \/ Ledgered' = Ledgered
    <3>0. ~ Holds(t, n) /\ ~ Cut(t, n) /\ recs[t][n] \in {"none", "present", "pruned"}
      BY <1>1, <2>1, <2>2
    <3>1. PICK r : r = (IF recs[t][n] = "none" THEN "none" ELSE "pruned") /\ Recorded(p, n, r)
      BY <1>8, <2>2
    <3>2. recs'[t][n] = r /\ KeptBut(t, n)
      BY <1>5, <1>8, <2>2, <3>1
    <3>3. CASE recs[t][n] = "present"
      <4>1. <<Entry(t, n), Entry(t, n)'>> \in LG!Moves
        BY <3>0, <3>1, <3>2, <3>3 DEF Entry, LG!Moves
      <4> QED
        BY <3>2, <4>1, OneEntryMoves
    <3>4. CASE recs[t][n] \in {"none", "pruned"}
      <4>1. Entry(t, n)' = Entry(t, n)
        BY <3>1, <3>2, <3>4 DEF Entry
      <4>2. ASSUME NEW u \in Targets, NEW m \in Names PROVE Entry(u, m)' = Entry(u, m)
        BY <3>2, <4>1 DEF KeptBut
      <4> QED
        BY <4>2, NoEntryMoves
    <3> QED
      BY <3>0, <3>3, <3>4
  <2> QED
    BY <2>1, <2>2
<1>9. CASE recs' = recs
  BY <1>0, <1>2, <1>3, <1>4, <1>9 DEF MediaMove, Handling
<1>10. ASSUME pc[p] \in {"adopt", "record", "unrecord", "mark"} PROVE media' = media
  BY <1>0, <1>10 DEF MediaMove
<1> QED
  BY <1>0, <1>6, <1>7, <1>8, <1>9, <1>10 DEF RecsMove

(* What happens around the invocations moves no entry.                       *)
LEMMA LedgerStep ==
    ASSUME OneSenderEach, OwnTargets, DisksStay, "tamper" \notin Events
    PROVE  LedgerInv /\ [Next]_vars => [LG!Next]_Ledgered
<1> SUFFICES ASSUME LedgerInv, [Next]_vars PROVE LG!Next \/ Ledgered' = Ledgered
  OBVIOUS
<1>0. TypeInv /\ LedgerInv' /\ OwnPlaces
  BY LedgerInvStep, OwnTargetsPlaces DEF LedgerInv, DiskInv, SenderInv
<1>1. ASSUME NEW p \in Procs, Moves(p) PROVE LG!Next \/ Ledgered' = Ledgered
  BY <1>0, <1>1, MoveEntries
<1>2. CASE Environment \/ UNCHANGED vars
  <2>1. recs' = recs /\ (media' = media \/ \E d \in Media, s \in Sides, n \in Names : Ended(d, s, n))
    BY <1>0, <1>2, EnvironmentOutside DEF Outside, vars, tables, world
  <2>2. ASSUME NEW t \in Targets, NEW n \in Names PROVE Entry(t, n)' = Entry(t, n)
    <3>1. Place[Record[n].machine][t] \in Media
      BY DEF CatalogAssumption, Columns
    <3>2. CASE recs[t][n] = "none"
      BY <2>1, <3>2 DEF Entry
    <3>3. CASE recs[t][n] # "none"
      <4>1. \A s \in Sides : Replica(t, n, s) # "orphan"
        BY <3>1, <3>3 DEF LedgerInv, DiskInv, Bare, Finished, Replica, Sides
      <4>2. \A s \in Sides : media'[Place[Record[n].machine][t]][s][n] = Replica(t, n, s)
        BY <2>1, <3>1, <4>1 DEF Ended, Replica
      <4>3. (Holds(t, n)' <=> Holds(t, n)) /\ (Cut(t, n)' <=> Cut(t, n))
        BY <4>2 DEF Holds, Cut, Replica
      <4> QED
        BY <2>1, <4>3 DEF Entry
    <3> QED
      BY <3>2, <3>3
  <2> QED
    BY <2>2, NoEntryMoves
<1> QED
  BY <1>1, <1>2 DEF Next, Moves

(* Nothing is recorded initially.                                            *)
LEMMA LedgerInit == Init => LedgerInv /\ LG!Init
<1> SUFFICES ASSUME Init PROVE LedgerInv /\ LG!Init
  OBVIOUS
<1>1. LedgerInv
  BY DiskInit DEF LedgerInv, Finished, Seen, Init
<1>2. ASSUME NEW r \in Targets \X Names PROVE recs[r[1]][r[2]] = "none"
  BY DEF Init
<1>3. Ledgered = [r \in Targets \X Names |-> "absent"]
  BY <1>2 DEF Ledgered
<1> QED
  BY <1>1, <1>3 DEF LG!Init

(* Sends, retention, failures and kills together implement Ledger, with any  *)
(* number of machines, targets and snapshots: only what is at the target and *)
(* no longer written is recorded, whole or cut; a record outlives its        *)
(* replica, a cut one is never made whole, and what was pruned does not come *)
(* back.                                                                     *)
THEOREM RefinesLedgerCorrect ==
    ASSUME OneSenderEach, OwnTargets, DisksStay, "tamper" \notin Events
    PROVE  Spec => RefinesLedger
<1>1. LedgerInv /\ [Next]_vars => LedgerInv' /\ [LG!Next]_Ledgered
  BY LedgerInvStep, LedgerStep
<1> QED
  BY <1>1, LedgerInit, PTL DEF Spec, RefinesLedger, LG!Spec

=============================================================================
