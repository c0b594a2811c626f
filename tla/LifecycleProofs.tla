--------------------------- MODULE LifecycleProofs ---------------------------
(* Snapshots implements Lifecycle, for every value of its constants that     *)
(* says disks are mounted and unmounted with care: every step of an          *)
(* invocation, every kill and everything a person does is a move of one      *)
(* snapshot that Lifecycle allows, or none.                                  *)
EXTENDS TrackingProofs

USE CatalogAssumption, SnapshotsAssumption

LifecycleInv == WorkInv /\ TrackingInv

(* A name that was not generated has no row, no subvolume and nobody at it.  *)
LEMMA UnusedIsNew ==
    ASSUME LifecycleInv, NEW n \in Names \ used
    PROVE  n \notin rows /\ at[n] = "none" /\ ~ Pending(n)
<1>1. rows \subseteq used /\ leaked \subseteq used
  BY DEF LifecycleInv, TrackingInv, TypeOK, StoreOK, WorldOK
<1>2. ~ Pending(n)
  BY CurType DEF LifecycleInv, TrackingInv, Pending, Idling
<1> QED
  BY <1>1, <1>2 DEF LifecycleInv, TrackingInv, Tracked, Pending

(* A snapshot that an invocation works to delete was created long ago.       *)
LEMMA DoomedNotPending ==
    ASSUME LifecycleInv, NEW p \in Procs, pc[p] \in Deleting
    PROVE  /\ cur[p] \in Names /\ cur[p] \in used
           /\ ~ Pending(cur[p])
<1>1. cur[p] \in todo[p]
  BY DEF LifecycleInv, WorkInv, Work
<1>2. ~ Pending(cur[p])
  BY <1>1 DEF LifecycleInv, WorkInv, Fresh, Creating, Pending
<1> QED
  BY <1>2, CurType DEF LifecycleInv, WorkInv, Deleting, Idling

(* A snapshot lives on as long as its row, its subvolume and the invocation  *)
(* that creates it are what they were.                                       *)
LEMMA LifeGoesOn ==
    ASSUME NEW n \in Names, n \in used' <=> n \in used, n \in rows' <=> n \in rows,
           at'[n] = at[n], Pending(n)' <=> Pending(n)
    PROVE  Life'[n] = Life[n]
BY DEF Life

(* With all of them unchanged nothing moves.                                 *)
LEMMA NothingMoves ==
    ASSUME used' = used, rows' = rows, at' = at,
           \A q \in Procs : pc[q] \in Creating \/ pc'[q] \in Creating =>
               pc[q] \in Creating /\ pc'[q] \in Creating /\ cur'[q] = cur[q]
    PROVE  Life' = Life
<1>1. \A n \in Names : Pending(n)' <=> Pending(n)
  BY DEF Pending, Creating
<1>2. \A n \in Names : Life'[n] = Life[n]
  BY <1>1, LifeGoesOn
<1> QED
  BY <1>2 DEF Life

(* One snapshot that moves as Lifecycle says, while the others live on.      *)
LEMMA OneMoves ==
    ASSUME NEW n \in Names, <<Life[n], Life'[n]>> \in L!Moves,
           \A m \in Names \ {n} :
               /\ m \in used' <=> m \in used
               /\ m \in rows' <=> m \in rows
               /\ at'[m] = at[m]
               /\ Pending(m)' <=> Pending(m)
    PROVE  L!Next
<1>1. \A m \in Names \ {n} : Life'[m] = Life[m]
  BY LifeGoesOn
<1> QED
  BY <1>1 DEF L!Next

(* What an invocation creates is nobody else's.                              *)
LEMMA OneCreates ==
    ASSUME LifecycleInv, NEW p \in Procs, pc[p] \in Creating
    PROVE  /\ cur[p] \in Names /\ cur[p] \in used /\ cur[p] \notin rows
           /\ Pending(cur[p]) /\ Life[cur[p]] = "bare"
           /\ \A q \in Procs \ {p} : pc[q] \in Creating => cur[q] # cur[p]
<1>1. cur[p] \in Names /\ cur[p] \in used
  BY CurType DEF LifecycleInv, WorkInv, Creating, Idling
<1>2. /\ cur[p] \notin rows
      /\ \A q \in Procs \ {p} : pc[q] \in Creating => cur[q] # cur[p]
  BY DEF LifecycleInv, WorkInv, Fresh
<1>3. Pending(cur[p])
  BY DEF Pending, Creating
<1> QED
  BY <1>1, <1>2, <1>3 DEF Life

(* An invocation that stops creating leaves its snapshot to nobody, and the  *)
(* others as they were.                                                      *)
LEMMA CreationEnds ==
    ASSUME LifecycleInv, NEW p \in Procs, NEW n \in Names, cur[p] = n, pc[p] \in Creating,
           pc'[p] \notin Creating,
           \A q \in Procs \ {p} : pc'[q] = pc[q] /\ cur'[q] = cur[q]
    PROVE  /\ ~ Pending(n)'
           /\ \A m \in Names \ {n} : Pending(m)' <=> Pending(m)
<1>1. \A q \in Procs \ {p} : pc[q] \in Creating => cur[q] # n
  BY OneCreates
<1>2. ~ Pending(n)'
  BY <1>1 DEF Pending, Creating
<1>3. ASSUME NEW m \in Names \ {n} PROVE Pending(m)' <=> Pending(m)
  BY <1>3 DEF Pending, Creating
<1> QED
  BY <1>2, <1>3

(* Every step of the program and around it is a move, or none.               *)
LEMMA LifecycleStep == LifecycleInv /\ [Next]_vars => [L!Next]_Life
<1> SUFFICES ASSUME LifecycleInv, [Next]_vars PROVE L!Next \/ Life' = Life
  OBVIOUS
<1> USE DEF store, world, local
<1>0. /\ TypeOK
      /\ pc \in [Procs -> Steps] /\ cur \in [Procs -> used \union {NoName}]
      /\ at \in [Names -> {"none", "disk", "under"}]
  BY DEF LifecycleInv, WorkInv, TypeOK, StoreOK, LocalOK
<1>1. ASSUME NEW p \in Procs,
             StartCreate(p) \/ Setup(p) \/ Mkdir(p) \/ OutOfNames(p)
      PROVE  Life' = Life
  BY <1>0, <1>1, NothingMoves DEF Creating, StartCreate, Setup, Mkdir, OutOfNames, Exit, Goto
<1>2. ASSUME NEW p \in Procs, Look(p) \/ IsDir(p) \/ Copies(p) \/ End(p)
      PROVE  Life' = Life
  BY <1>0, <1>2, NothingMoves
     DEF Creating, Look, IsDir, Copies, End, Reset, Skip, Continue, Goto
<1>3. ASSUME NEW p \in Procs, StartClean(p) \/ \E n \in Names : StartDel(p, n)
      PROVE  Life' = Life
  BY <1>0, <1>3, NothingMoves DEF Creating, StartClean, StartDel, Continue, Goto
<1>4. ASSUME NEW p \in Procs, NEW n \in Names, Take(p, n) PROVE L!Next
  <2>1. n \notin used /\ used' = used \union {n} /\ rows' = rows /\ pc[p] = "take"
    BY <1>4 DEF Take, NewName
  <2>2. /\ Life[n] = "new" /\ n \notin rows /\ at[n] = "none" /\ ~ Pending(n)
    BY <2>1, UnusedIsNew DEF Life
  <2>3. \A q \in Procs \ {p} : pc'[q] = pc[q] /\ cur'[q] = cur[q]
    BY <1>0, <1>4 DEF Take, Exit, Goto
  <2>4. CASE /\ at' = [at EXCEPT ![n] = IF dir[Host(p)] = "mounted" THEN "disk" ELSE "under"]
             /\ cur' = [cur EXCEPT ![p] = n] /\ Goto(p, "insert")
    <3>1. pc'[p] = "insert" /\ cur'[p] = n
      BY <1>0, <2>4 DEF Goto
    <3>2. Pending(n)' /\ Life'[n] = "bare"
      BY <2>1, <3>1 DEF Pending, Life
    <3>3. \A m \in Names \ {n} : at'[m] = at[m] /\ (Pending(m)' <=> Pending(m))
      BY <1>0, <2>1, <2>3, <2>4, <3>1 DEF Pending
    <3> QED
      BY <2>1, <2>2, <3>2, <3>3, OneMoves DEF L!Moves
  <2>5. CASE Exit(p, TRUE) /\ at' = at
    <3>1. pc'[p] = "done"
      BY <1>0, <2>5 DEF Exit, Goto
    <3>2. \A m \in Names : Pending(m)' <=> Pending(m)
      BY <2>1, <2>3, <3>1 DEF Pending
    <3>3. Life'[n] = "forgotten"
      BY <2>1, <2>2, <2>5, <3>2 DEF Life
    <3> QED
      BY <2>1, <2>2, <2>5, <3>2, <3>3, OneMoves DEF L!Moves
  <2> QED
    BY <1>4, <2>4, <2>5 DEF Take
<1>5. ASSUME NEW p \in Procs, Insert(p) PROVE L!Next \/ Life' = Life
  <2>1. pc[p] \in Creating /\ at' = at /\ used' = used
    BY <1>5 DEF Insert, Creating
  <2>n. PICK n \in Names : n = cur[p]
    BY <2>1, OneCreates
  <2>2. \A q \in Procs \ {p} : pc'[q] = pc[q] /\ cur'[q] = cur[q]
    BY <1>0, <1>5 DEF Insert, Exit, Goto
  <2>3. CASE rows' = rows \union {cur[p]} /\ Exit(p, FALSE)
    <3>1. pc'[p] \notin Creating
      BY <1>0, <2>3 DEF Exit, Goto, Creating
    <3>2. Life'[n] \in {"tracked", "hollow"}
      BY <2>n, <2>1, <2>2, <2>3, <3>1, OneCreates, CreationEnds DEF Life
    <3> QED
      BY <2>n, <2>1, <2>2, <2>3, <3>1, <3>2, OneCreates, CreationEnds, OneMoves DEF L!Moves
  <2>4. CASE Goto(p, "rollback") /\ UNCHANGED <<rows, cur>>
    BY <1>0, <2>1, <2>2, <2>4, NothingMoves DEF Goto, Creating
  <2> QED
    BY <1>5, <2>3, <2>4 DEF Insert
<1>6. ASSUME NEW p \in Procs, Rollback(p) \/ (Crash(p) /\ pc[p] \in Creating)
      PROVE  L!Next
  <2>1. /\ pc[p] \in Creating /\ used' = used /\ rows' = rows
        /\ \A m \in Names \ {cur[p]} : at'[m] = at[m]
    BY <1>0, <1>6 DEF Rollback, Crash, Creating
  <2>n. PICK n \in Names : n = cur[p]
    BY <2>1, OneCreates
  <2>2. \A q \in Procs \ {p} : pc'[q] = pc[q] /\ cur'[q] = cur[q]
    BY <1>0, <1>6 DEF Rollback, Crash, Reset, Exit, Goto
  <2>3. pc'[p] \notin Creating
    BY <1>0, <1>6 DEF Rollback, Crash, Reset, Exit, Goto, Creating
  <2>4. Life'[n] \in {"forgotten", "lost"}
    BY <2>n, <2>1, <2>2, <2>3, OneCreates, CreationEnds DEF Life
  <2> QED
    BY <2>n, <2>1, <2>2, <2>3, <2>4, OneCreates, CreationEnds, OneMoves DEF L!Moves
<1>7. ASSUME NEW p \in Procs, Crash(p), pc[p] \notin Creating PROVE Life' = Life
  BY <1>0, <1>7, NothingMoves DEF Creating, Crash, Reset
<1>8. ASSUME NEW p \in Procs, Delete(p) PROVE L!Next \/ Life' = Life
  <2>1. /\ pc[p] \in Deleting /\ used' = used /\ rows' = rows
        /\ \A q \in Procs : pc[q] \in Creating \/ pc'[q] \in Creating =>
               pc[q] \in Creating /\ pc'[q] \in Creating /\ cur'[q] = cur[q]
    BY <1>0, <1>8 DEF Delete, Skip, Continue, Goto, Creating, Deleting
  <2>2. CASE Visible(cur[p], Host(p)) /\ at' = [at EXCEPT ![cur[p]] = "none"]
    <3>1. \A m \in Names : Pending(m)' <=> Pending(m)
      BY <2>1 DEF Pending, Creating
    <3>2. /\ cur[p] \in Names /\ cur[p] \in used /\ ~ Pending(cur[p])
          /\ at[cur[p]] # "none" /\ at'[cur[p]] = "none"
      BY <1>0, <2>1, <2>2, DoomedNotPending DEF Visible
    <3>3. CASE cur[p] \in rows
      <4>1. Life[cur[p]] = "tracked" /\ Life'[cur[p]] = "hollow"
        BY <2>1, <3>1, <3>2, <3>3 DEF Life
      <4> QED
        BY <1>0, <2>1, <2>2, <3>1, <3>2, <4>1, OneMoves DEF L!Moves
    <3>4. CASE cur[p] \notin rows
      <4>1. Life[cur[p]] = "lost" /\ Life'[cur[p]] = "forgotten"
        BY <2>1, <3>1, <3>2, <3>4 DEF Life
      <4> QED
        BY <1>0, <2>1, <2>2, <3>1, <3>2, <4>1, OneMoves DEF L!Moves
    <3> QED
      BY <3>3, <3>4
  <2>3. CASE at' = at
    BY <2>1, <2>3, NothingMoves
  <2> QED
    BY <1>8, <2>2, <2>3 DEF Delete
<1>9. ASSUME NEW p \in Procs, Forget(p) PROVE L!Next \/ Life' = Life
  <2>1. /\ pc[p] \in Deleting /\ pc[p] = "forget" /\ used' = used /\ at' = at
        /\ \A q \in Procs : pc[q] \in Creating \/ pc'[q] \in Creating =>
               pc[q] \in Creating /\ pc'[q] \in Creating /\ cur'[q] = cur[q]
    BY <1>0, <1>9 DEF Forget, Finish, Skip, Continue, Goto, Creating, Deleting
  <2>2. \A m \in Names : Pending(m)' <=> Pending(m)
    BY <2>1 DEF Pending, Creating
  <2>3. /\ cur[p] \in Names /\ cur[p] \in used /\ ~ Pending(cur[p])
        /\ at[cur[p]] = "none"
    BY <2>1, DoomedNotPending DEF LifecycleInv, TrackingInv, Checked
  <2>4. CASE cur[p] \in rows /\ rows' = rows \ {cur[p]}
    <3>1. Life[cur[p]] = "hollow" /\ Life'[cur[p]] = "forgotten"
      BY <2>1, <2>2, <2>3, <2>4 DEF Life
    <3> QED
      BY <2>1, <2>2, <2>3, <2>4, <3>1, OneMoves DEF L!Moves
  <2>5. CASE rows' = rows
    BY <2>1, <2>5, NothingMoves
  <2> QED
    BY <1>9, <2>4, <2>5 DEF Forget
<1>10. ASSUME NEW n \in Names, RemoveByHand(n) PROVE L!Next \/ Life' = Life
  <2>1. /\ used' = used /\ rows' = rows /\ pc' = pc /\ cur' = cur
        /\ at[n] # "none" /\ at' = [at EXCEPT ![n] = "none"]
    BY <1>10 DEF RemoveByHand, Visible
  <2>2. \A m \in Names : (Pending(m)' <=> Pending(m)) /\ (m # n => at'[m] = at[m])
    BY <1>0, <2>1 DEF Pending
  <2>3. n \in used /\ at'[n] = "none"
    BY <1>0, <2>1, UnusedIsNew
  <2>4. CASE Pending(n)
    <3>1. Life'[n] = Life[n]
      BY <2>1, <2>2, <2>3, <2>4 DEF Life
    <3>2. \A m \in Names \ {n} : Life'[m] = Life[m]
      BY <2>1, <2>2, LifeGoesOn
    <3> QED
      BY <3>1, <3>2 DEF Life
  <2>5. CASE ~ Pending(n)
    <3>1. \/ Life[n] = "tracked" /\ Life'[n] = "hollow"
          \/ Life[n] = "lost" /\ Life'[n] = "forgotten"
      BY <2>1, <2>2, <2>3, <2>5 DEF Life
    <3> QED
      BY <2>1, <2>2, <3>1, OneMoves DEF L!Moves
  <2> QED
    BY <2>4, <2>5
<1>11. ASSUME Tick \/ (UNCHANGED vars) \/ (\E m \in Machines : Unmount(m) \/ Mount(m))
              \/ (\E n \in Names : BuildCopy(n))
       PROVE  Life' = Life
  BY <1>11, NothingMoves DEF Tick, vars, Unmount, Mount, BuildCopy
<1> QED
  BY <1>1, <1>2, <1>3, <1>4, <1>5, <1>6, <1>7, <1>8, <1>9, <1>10, <1>11
     DEF Next, Step, Start, Environment

(* Every snapshot is new at first.                                           *)
LEMMA LifecycleInit == Init => L!Init
BY DEF Init, Life, L!Init

(* Concurrent invocations of --create, --del and --clean, with the failures, *)
(* kills and people around them, implement Lifecycle: no path leads from a   *)
(* row to a subvolume that nobody tracks.                                    *)
THEOREM ImplementsLifecycle ==
    ASSUME MountedWithCare
    PROVE  Spec => RefinesLifecycle
<1>1. LifecycleInv /\ [Next]_vars => [L!Next]_Life
  BY LifecycleStep
<1>2. Spec => []LifecycleInv
  <2>1. Spec => []TrackingInv
    BY TrackingInit, TrackingStep, PTL DEF Spec
  <2> QED
    BY <2>1, WorkInvariant, PTL DEF LifecycleInv
<1> QED
  BY <1>1, <1>2, LifecycleInit, PTL DEF Spec, RefinesLifecycle, L!Spec
=============================================================================
