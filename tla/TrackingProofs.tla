--------------------------- MODULE TrackingProofs ---------------------------
(* Theorems about what Snapshots keeps track of, for every value of its     *)
(* constants that says disks are mounted and unmounted with care.           *)
EXTENDS SnapshotsProofs

USE CatalogAssumption, SnapshotsAssumption

(* No directory remains when the snapshots disk is unmounted, btrfs cannot   *)
(* make it again in the meantime, and invocations do not see it come and go: *)
(* without any one of the three TLC finds Tracked violated, as the run       *)
(* SnapshotsRecreated shows for the second.                                  *)
MountedWithCare == UnmountLeaves = "missing" /\ ~ CanCreateUnder /\ ~ MountsAnytime

(* So all snapshots are on the snapshots disk, once it was made.             *)
Ground ==
    /\ \A n \in Names : at[n] # "under"
    /\ \A m \in Machines : dir[m] # "bare"
    /\ \A n \in Names : dir[Record[n].machine] = "new" => at[n] = "none"

(* What delete_record knows of its snapshot after each check, and still      *)
(* knows at the next one.                                                    *)
Checked(p) ==
    /\ pc[p] = "isdir" => Record[cur[p]].machine = Host(p)
    /\ pc[p] = "isdir" /\ dir[Host(p)] = "mounted" => at[cur[p]] = "none"
    /\ pc[p] \in {"copies", "forget"} => at[cur[p]] = "none"
    /\ pc[p] = "copies" => dir[Host(p)] = "mounted"
    /\ pc[p] = "forget" => cur[p] \notin copies \ stray

TrackingInv ==
    /\ TypeOK /\ Ground /\ (\A p \in Procs : Checked(p))
    /\ Tracked /\ CopiesTracked

(* Every step keeps the invariant.                                          *)
LEMMA TrackingStep ==
    ASSUME MountedWithCare
    PROVE  TrackingInv /\ [Next]_vars => TrackingInv'
<1> SUFFICES ASSUME TrackingInv, [Next]_vars
             PROVE  Ground' /\ (\A q \in Procs : Checked(q)') /\ Tracked' /\ CopiesTracked'
  BY TypeStep DEF TrackingInv
<1>0. /\ StoreOK /\ WorldOK /\ LocalOK /\ Ground /\ Tracked /\ CopiesTracked
      /\ \A q \in Procs : Checked(q)
  BY DEF TrackingInv, TypeOK
<1>a. \A q \in Procs : pc[q] \notin Idling => cur[q] \in Names /\ cur[q] \in used
  BY CurType DEF TrackingInv
<1>b. (\A q \in Procs : Host(q) \in Machines /\ Sel[q].machine \in Machines)
      /\ (\A n \in Names : Record[n].machine \in Machines)
  BY HostType DEF Columns, Host
<1> USE DEF store, world, local
<1>1. ASSUME NEW p \in Procs, StartCreate(p)
      PROVE  Ground' /\ (\A q \in Procs : Checked(q)') /\ Tracked' /\ CopiesTracked'
  <2>1. Ground'
    BY <1>0, <1>a, <1>1 DEF StoreOK, WorldOK, LocalOK, Ground, MountedWithCare, Idling, StartCreate, Goto
  <2>2. \A q \in Procs : Checked(q)'
    BY <1>0, <1>a, <1>1 DEF StoreOK, WorldOK, LocalOK, Ground, Checked, Host, Idling, StartCreate, Goto
  <2>3. Tracked'
    BY <1>0, <1>a, <1>1 DEF StoreOK, WorldOK, LocalOK, Checked, Tracked, Idling, StartCreate, Goto
  <2>4. CopiesTracked'
    BY <1>0, <1>a, <1>1 DEF StoreOK, WorldOK, LocalOK, Checked, CopiesTracked, Idling, StartCreate, Goto
  <2> QED
    BY <2>1, <2>2, <2>3, <2>4
<1>2. ASSUME NEW p \in Procs, StartClean(p)
      PROVE  Ground' /\ (\A q \in Procs : Checked(q)') /\ Tracked' /\ CopiesTracked'
  <2>1. Ground'
    BY <1>0, <1>a, <1>2 DEF StoreOK, WorldOK, LocalOK, Ground, MountedWithCare, Idling, StartClean, Continue, Goto
  <2>2. \A q \in Procs : Checked(q)'
    BY <1>0, <1>a, <1>2 DEF StoreOK, WorldOK, LocalOK, Ground, Checked, Host, Idling, StartClean, Continue, Goto
  <2>3. Tracked'
    BY <1>0, <1>a, <1>2 DEF StoreOK, WorldOK, LocalOK, Checked, Tracked, Idling, StartClean, Continue, Goto
  <2>4. CopiesTracked'
    BY <1>0, <1>a, <1>2 DEF StoreOK, WorldOK, LocalOK, Checked, CopiesTracked, Idling, StartClean, Continue, Goto
  <2> QED
    BY <2>1, <2>2, <2>3, <2>4
<1>3. ASSUME NEW p \in Procs, NEW n \in Names, StartDel(p, n)
      PROVE  Ground' /\ (\A q \in Procs : Checked(q)') /\ Tracked' /\ CopiesTracked'
  <2>1. Ground'
    BY <1>0, <1>a, <1>3 DEF StoreOK, WorldOK, LocalOK, Ground, MountedWithCare, Idling, StartDel, Continue, Goto
  <2>2. \A q \in Procs : Checked(q)'
    BY <1>0, <1>a, <1>3 DEF StoreOK, WorldOK, LocalOK, Ground, Checked, Host, Idling, StartDel, Continue, Goto
  <2>3. Tracked'
    BY <1>0, <1>a, <1>3 DEF StoreOK, WorldOK, LocalOK, Checked, Tracked, Idling, StartDel, Continue, Goto
  <2>4. CopiesTracked'
    BY <1>0, <1>a, <1>3 DEF StoreOK, WorldOK, LocalOK, Checked, CopiesTracked, Idling, StartDel, Continue, Goto
  <2> QED
    BY <2>1, <2>2, <2>3, <2>4
<1>4. ASSUME NEW p \in Procs, Setup(p)
      PROVE  Ground' /\ (\A q \in Procs : Checked(q)') /\ Tracked' /\ CopiesTracked'
  <2>1. Ground'
    BY <1>0, <1>a, <1>4 DEF StoreOK, WorldOK, LocalOK, Ground, MountedWithCare, Idling, Setup, Goto
  <2>2. \A q \in Procs : Checked(q)'
    BY <1>0, <1>a, <1>4 DEF StoreOK, WorldOK, LocalOK, Ground, Checked, Host, Idling, Setup, Goto
  <2>3. Tracked'
    BY <1>0, <1>a, <1>4 DEF StoreOK, WorldOK, LocalOK, Checked, Tracked, Idling, Setup, Goto
  <2>4. CopiesTracked'
    BY <1>0, <1>a, <1>4 DEF StoreOK, WorldOK, LocalOK, Checked, CopiesTracked, Idling, Setup, Goto
  <2> QED
    BY <2>1, <2>2, <2>3, <2>4
<1>5. ASSUME NEW p \in Procs, Mkdir(p)
      PROVE  Ground' /\ (\A q \in Procs : Checked(q)') /\ Tracked' /\ CopiesTracked'
  <2>1. Ground'
    BY <1>0, <1>a, <1>b, <1>5 DEF StoreOK, WorldOK, LocalOK, Ground, MountedWithCare, Idling, Mkdir, Exit, Goto
  <2>2. \A q \in Procs : Checked(q)'
    <3> SUFFICES ASSUME NEW q \in Procs PROVE Checked(q)'
      OBVIOUS
    <3>1. CASE q = p
      BY <1>0, <1>a, <1>b, <1>5, <3>1 DEF StoreOK, WorldOK, LocalOK, Ground, Checked, Host, Idling, Mkdir, Exit, Goto
    <3>2. CASE q # p
      <4>1. pc'[q] = pc[q] /\ cur'[q] = cur[q]
        BY <1>0, <1>5, <3>2 DEF LocalOK, Mkdir, Exit, Goto
      <4>2. /\ UNCHANGED <<at, copies, stray>>
            /\ \A m \in Machines : dir'[m] = dir[m] \/ (dir[m] # "mounted" /\ dir'[m] = "bare")
                                    \/ (dir[m] = "new" /\ dir'[m] = "mounted")
        BY <1>0, <1>a, <1>5 DEF StoreOK, WorldOK, LocalOK, Idling, Mkdir, Exit, Goto
      <4>3. Sel[q].machine \in Machines
        BY <1>b
      <4>4. pc[q] = "isdir" => cur[q] \in Names
        BY <1>a DEF Idling
      <4>5. Checked(q)
        BY <1>0
      <4>6. ASSUME pc[q] = "isdir", dir'[Host(q)] = "mounted" PROVE at[cur[q]] = "none"
        <5>1. CASE dir[Host(q)] = "mounted"
          BY <4>5, <4>6, <5>1 DEF Checked
        <5>2. CASE dir[Host(q)] = "new"
          BY <1>0, <4>4, <4>5, <4>6, <5>2 DEF Ground, Checked
        <5> QED
          BY <4>2, <4>3, <4>6, <5>1, <5>2 DEF Host
      <4>7. ASSUME pc[q] = "copies" PROVE dir'[Host(q)] = "mounted"
        BY <4>2, <4>3, <4>5, <4>7 DEF Checked, Host
      <4> QED
        BY <4>1, <4>2, <4>5, <4>6, <4>7 DEF Checked, Host
    <3> QED
      BY <3>1, <3>2
  <2>3. Tracked'
    BY <1>0, <1>a, <1>5 DEF StoreOK, WorldOK, LocalOK, Checked, Tracked, Idling, Mkdir, Exit, Goto
  <2>4. CopiesTracked'
    BY <1>0, <1>a, <1>5 DEF StoreOK, WorldOK, LocalOK, Checked, CopiesTracked, Idling, Mkdir, Exit, Goto
  <2> QED
    BY <2>1, <2>2, <2>3, <2>4
<1>6. ASSUME NEW p \in Procs, OutOfNames(p)
      PROVE  Ground' /\ (\A q \in Procs : Checked(q)') /\ Tracked' /\ CopiesTracked'
  <2>1. Ground'
    BY <1>0, <1>a, <1>6 DEF StoreOK, WorldOK, LocalOK, Ground, MountedWithCare, Idling, OutOfNames, Exit, Goto
  <2>2. \A q \in Procs : Checked(q)'
    BY <1>0, <1>a, <1>6 DEF StoreOK, WorldOK, LocalOK, Ground, Checked, Host, Idling, OutOfNames, Exit, Goto
  <2>3. Tracked'
    BY <1>0, <1>a, <1>6 DEF StoreOK, WorldOK, LocalOK, Checked, Tracked, Idling, OutOfNames, Exit, Goto
  <2>4. CopiesTracked'
    BY <1>0, <1>a, <1>6 DEF StoreOK, WorldOK, LocalOK, Checked, CopiesTracked, Idling, OutOfNames, Exit, Goto
  <2> QED
    BY <2>1, <2>2, <2>3, <2>4
<1>7. ASSUME NEW p \in Procs, NEW n \in Names, Take(p, n)
      PROVE  Ground' /\ (\A q \in Procs : Checked(q)') /\ Tracked' /\ CopiesTracked'
  <2>1. Ground'
    BY <1>0, <1>a, <1>b, <1>7 DEF StoreOK, WorldOK, LocalOK, Ground, MountedWithCare, Idling, Take, NewName, Exists, Exit, Goto
  <2>2. \A q \in Procs : Checked(q)'
    <3> SUFFICES ASSUME NEW q \in Procs PROVE Checked(q)'
      OBVIOUS
    <3>1. CASE q = p
      BY <1>0, <1>a, <1>7, <3>1 DEF StoreOK, WorldOK, LocalOK, Ground, Checked, Host, Idling, Take, NewName, Exists, Exit, Goto
    <3>2. CASE q # p
      <4>1. pc'[q] = pc[q] /\ cur'[q] = cur[q]
        BY <1>0, <1>7, <3>2 DEF LocalOK, Take, NewName, Exists, Exit, Goto
      <4>2. /\ UNCHANGED <<dir, copies, stray>>
            /\ \A x \in used : at'[x] = at[x]
        BY <1>0, <1>a, <1>7 DEF StoreOK, WorldOK, LocalOK, Idling, Take, NewName, Exists, Exit, Goto
      <4> QED
        BY <1>0, <1>a, <1>b, <4>1, <4>2 DEF StoreOK, Ground, Checked, Host, Idling
    <3> QED
      BY <3>1, <3>2
  <2>3. Tracked'
    BY <1>0, <1>a, <1>7 DEF StoreOK, WorldOK, LocalOK, Checked, Tracked, Idling, Take, NewName, Exists, Exit, Goto
  <2>4. CopiesTracked'
    BY <1>0, <1>a, <1>7 DEF StoreOK, WorldOK, LocalOK, Checked, CopiesTracked, Idling, Take, NewName, Exists, Exit, Goto
  <2> QED
    BY <2>1, <2>2, <2>3, <2>4
<1>8. ASSUME NEW p \in Procs, Insert(p)
      PROVE  Ground' /\ (\A q \in Procs : Checked(q)') /\ Tracked' /\ CopiesTracked'
  <2>1. Ground'
    BY <1>0, <1>a, <1>8 DEF StoreOK, WorldOK, LocalOK, Ground, MountedWithCare, Idling, Insert, Exit, Goto
  <2>2. \A q \in Procs : Checked(q)'
    BY <1>0, <1>a, <1>8 DEF StoreOK, WorldOK, LocalOK, Ground, Checked, Host, Idling, Insert, Exit, Goto
  <2>3. Tracked'
    BY <1>0, <1>a, <1>8 DEF StoreOK, WorldOK, LocalOK, Checked, Tracked, Idling, Insert, Exit, Goto
  <2>4. CopiesTracked'
    BY <1>0, <1>a, <1>8 DEF StoreOK, WorldOK, LocalOK, Checked, CopiesTracked, Idling, Insert, Exit, Goto
  <2> QED
    BY <2>1, <2>2, <2>3, <2>4
<1>9. ASSUME NEW p \in Procs, Rollback(p)
      PROVE  Ground' /\ (\A q \in Procs : Checked(q)') /\ Tracked' /\ CopiesTracked'
  <2>1. Ground'
    BY <1>0, <1>a, <1>9 DEF StoreOK, WorldOK, LocalOK, Ground, MountedWithCare, Idling, Rollback, Visible, Exit, Goto
  <2>2. \A q \in Procs : Checked(q)'
    <3> SUFFICES ASSUME NEW q \in Procs PROVE Checked(q)'
      OBVIOUS
    <3>1. CASE q = p
      BY <1>0, <1>a, <1>9, <3>1 DEF StoreOK, WorldOK, LocalOK, Ground, Checked, Host, Idling, Rollback, Visible, Exit, Goto
    <3>2. CASE q # p
      <4>1. pc'[q] = pc[q] /\ cur'[q] = cur[q]
        BY <1>0, <1>9, <3>2 DEF LocalOK, Rollback, Visible, Exit, Goto
      <4>2. /\ UNCHANGED <<dir, copies, stray>>
            /\ \A n \in Names : at'[n] \in {at[n], "none"}
        BY <1>0, <1>a, <1>9 DEF StoreOK, WorldOK, LocalOK, Idling, Rollback, Visible, Exit, Goto
      <4> QED
        BY <1>0, <1>a, <1>b, <4>1, <4>2 DEF StoreOK, Ground, Checked, Host, Idling
    <3> QED
      BY <3>1, <3>2
  <2>3. Tracked'
    BY <1>0, <1>a, <1>9 DEF StoreOK, WorldOK, LocalOK, Checked, Tracked, Idling, Rollback, Visible, Exit, Goto
  <2>4. CopiesTracked'
    BY <1>0, <1>a, <1>9 DEF StoreOK, WorldOK, LocalOK, Checked, CopiesTracked, Idling, Rollback, Visible, Exit, Goto
  <2> QED
    BY <2>1, <2>2, <2>3, <2>4
<1>10. ASSUME NEW p \in Procs, Look(p)
      PROVE  Ground' /\ (\A q \in Procs : Checked(q)') /\ Tracked' /\ CopiesTracked'
  <2>1. Ground'
    BY <1>0, <1>a, <1>10 DEF StoreOK, WorldOK, LocalOK, Ground, MountedWithCare, Idling, Look, Visible, Skip, Continue, Goto
  <2>2. \A q \in Procs : Checked(q)'
    <3> SUFFICES ASSUME NEW q \in Procs PROVE Checked(q)'
      OBVIOUS
    <3>1. CASE q = p
      <4>2. /\ UNCHANGED <<at, dir, copies, stray>>
            /\ \/ pc'[p] \in {"look", "delete", "done"}
               \/ /\ pc'[p] = "isdir" /\ cur' = cur /\ ~ Visible(cur[p], Host(p))
                  /\ Record[cur[p]].machine = Host(p)
        BY <1>0, <1>a, <1>10 DEF StoreOK, WorldOK, LocalOK, Idling, Look, Skip, Continue, Goto
      <4>3. cur[p] \in Names
        BY <1>a, <1>10 DEF Look, Idling
      <4>4. CASE pc'[p] # "isdir"
        BY <3>1, <4>2, <4>4 DEF Checked
      <4>5. CASE pc'[p] = "isdir"
        BY <1>0, <3>1, <4>2, <4>3, <4>5 DEF StoreOK, Ground, Checked, Visible
      <4> QED
        BY <4>4, <4>5
    <3>2. CASE q # p
      BY <1>0, <1>a, <1>10, <3>2 DEF StoreOK, WorldOK, LocalOK, Ground, Checked, Host, Idling, Look, Visible, Skip, Continue, Goto
    <3> QED
      BY <3>1, <3>2
  <2>3. Tracked'
    BY <1>0, <1>a, <1>10 DEF StoreOK, WorldOK, LocalOK, Checked, Tracked, Idling, Look, Visible, Skip, Continue, Goto
  <2>4. CopiesTracked'
    BY <1>0, <1>a, <1>10 DEF StoreOK, WorldOK, LocalOK, Checked, CopiesTracked, Idling, Look, Visible, Skip, Continue, Goto
  <2> QED
    BY <2>1, <2>2, <2>3, <2>4
<1>11. ASSUME NEW p \in Procs, IsDir(p)
      PROVE  Ground' /\ (\A q \in Procs : Checked(q)') /\ Tracked' /\ CopiesTracked'
  <2>1. Ground'
    BY <1>0, <1>a, <1>11 DEF StoreOK, WorldOK, LocalOK, Ground, MountedWithCare, Idling, IsDir, Exists, Skip, Continue, Goto
  <2>2. \A q \in Procs : Checked(q)'
    BY <1>0, <1>a, <1>b, <1>11 DEF StoreOK, WorldOK, LocalOK, Ground, Checked, Host, Idling, IsDir, Exists, Skip, Continue, Goto
  <2>3. Tracked'
    BY <1>0, <1>a, <1>11 DEF StoreOK, WorldOK, LocalOK, Checked, Tracked, Idling, IsDir, Exists, Skip, Continue, Goto
  <2>4. CopiesTracked'
    BY <1>0, <1>a, <1>11 DEF StoreOK, WorldOK, LocalOK, Checked, CopiesTracked, Idling, IsDir, Exists, Skip, Continue, Goto
  <2> QED
    BY <2>1, <2>2, <2>3, <2>4
<1>12. ASSUME NEW p \in Procs, Delete(p)
      PROVE  Ground' /\ (\A q \in Procs : Checked(q)') /\ Tracked' /\ CopiesTracked'
  <2>1. Ground'
    BY <1>0, <1>a, <1>12 DEF StoreOK, WorldOK, LocalOK, Ground, MountedWithCare, Idling, Delete, Visible, Skip, Continue, Goto
  <2>2. \A q \in Procs : Checked(q)'
    <3> SUFFICES ASSUME NEW q \in Procs PROVE Checked(q)'
      OBVIOUS
    <3>1. CASE q = p
      <4>2. /\ UNCHANGED <<dir, copies, stray>>
            /\ \/ pc'[p] \in {"look", "done"}
               \/ /\ pc'[p] = "copies" /\ cur' = cur /\ Visible(cur[p], Host(p))
                  /\ at' = [at EXCEPT ![cur[p]] = "none"]
        BY <1>0, <1>a, <1>12 DEF StoreOK, WorldOK, LocalOK, Idling, Delete, Visible, Skip, Continue, Goto
      <4>3. cur[p] \in Names
        BY <1>a, <1>12 DEF Delete, Idling
      <4>4. CASE pc'[p] # "copies"
        BY <3>1, <4>2, <4>4 DEF Checked
      <4>5. CASE pc'[p] = "copies"
        <5>1. dir[Host(p)] = "mounted"
          BY <1>0, <4>2, <4>3, <4>5 DEF Ground, Visible
        <5>2. at'[cur[p]] = "none"
          BY <1>0, <4>2, <4>3, <4>5 DEF StoreOK
        <5> QED
          BY <3>1, <4>2, <4>5, <5>1, <5>2 DEF Checked, Host
      <4> QED
        BY <4>4, <4>5
    <3>2. CASE q # p
      <4>1. pc'[q] = pc[q] /\ cur'[q] = cur[q]
        BY <1>0, <1>12, <3>2 DEF LocalOK, Delete, Visible, Skip, Continue, Goto
      <4>2. /\ UNCHANGED <<dir, copies, stray>>
            /\ \A n \in Names : at'[n] \in {at[n], "none"}
        BY <1>0, <1>a, <1>12 DEF StoreOK, WorldOK, LocalOK, Idling, Delete, Visible, Skip, Continue, Goto
      <4> QED
        BY <1>0, <1>a, <1>b, <4>1, <4>2 DEF StoreOK, Ground, Checked, Host, Idling
    <3> QED
      BY <3>1, <3>2
  <2>3. Tracked'
    BY <1>0, <1>a, <1>12 DEF StoreOK, WorldOK, LocalOK, Checked, Tracked, Idling, Delete, Visible, Skip, Continue, Goto
  <2>4. CopiesTracked'
    BY <1>0, <1>a, <1>12 DEF StoreOK, WorldOK, LocalOK, Checked, CopiesTracked, Idling, Delete, Visible, Skip, Continue, Goto
  <2> QED
    BY <2>1, <2>2, <2>3, <2>4
<1>13. ASSUME NEW p \in Procs, Copies(p)
      PROVE  Ground' /\ (\A q \in Procs : Checked(q)') /\ Tracked' /\ CopiesTracked'
  <2>1. Ground'
    BY <1>0, <1>a, <1>13 DEF StoreOK, WorldOK, LocalOK, Ground, MountedWithCare, Idling, Copies, Goto
  <2>2. \A q \in Procs : Checked(q)'
    BY <1>0, <1>a, <1>13 DEF StoreOK, WorldOK, LocalOK, Ground, Checked, Host, Idling, Copies, Goto
  <2>3. Tracked'
    BY <1>0, <1>a, <1>13 DEF StoreOK, WorldOK, LocalOK, Checked, Tracked, Idling, Copies, Goto
  <2>4. CopiesTracked'
    BY <1>0, <1>a, <1>13 DEF StoreOK, WorldOK, LocalOK, Checked, CopiesTracked, Idling, Copies, Goto
  <2> QED
    BY <2>1, <2>2, <2>3, <2>4
<1>14. ASSUME NEW p \in Procs, Forget(p)
      PROVE  Ground' /\ (\A q \in Procs : Checked(q)') /\ Tracked' /\ CopiesTracked'
  <2>1. Ground'
    BY <1>0, <1>a, <1>14 DEF StoreOK, WorldOK, LocalOK, Ground, MountedWithCare, Idling, Forget, Finish, Skip, Continue, Goto
  <2>2. \A q \in Procs : Checked(q)'
    BY <1>0, <1>a, <1>14 DEF StoreOK, WorldOK, LocalOK, Ground, Checked, Host, Idling, Forget, Finish, Skip, Continue, Goto
  <2>3. Tracked'
    BY <1>0, <1>a, <1>14 DEF StoreOK, WorldOK, LocalOK, Checked, Tracked, Idling, Forget, Finish, Skip, Continue, Goto
  <2>4. CopiesTracked'
    BY <1>0, <1>a, <1>14 DEF StoreOK, WorldOK, LocalOK, Checked, CopiesTracked, Idling, Forget, Finish, Skip, Continue, Goto
  <2> QED
    BY <2>1, <2>2, <2>3, <2>4
<1>15. ASSUME NEW p \in Procs, End(p)
      PROVE  Ground' /\ (\A q \in Procs : Checked(q)') /\ Tracked' /\ CopiesTracked'
  <2>1. Ground'
    BY <1>0, <1>a, <1>15 DEF StoreOK, WorldOK, LocalOK, Ground, MountedWithCare, Idling, End, Reset
  <2>2. \A q \in Procs : Checked(q)'
    BY <1>0, <1>a, <1>15 DEF StoreOK, WorldOK, LocalOK, Ground, Checked, Host, Idling, End, Reset
  <2>3. Tracked'
    BY <1>0, <1>a, <1>15 DEF StoreOK, WorldOK, LocalOK, Checked, Tracked, Idling, End, Reset
  <2>4. CopiesTracked'
    BY <1>0, <1>a, <1>15 DEF StoreOK, WorldOK, LocalOK, Checked, CopiesTracked, Idling, End, Reset
  <2> QED
    BY <2>1, <2>2, <2>3, <2>4
<1>16. ASSUME NEW p \in Procs, Crash(p)
      PROVE  Ground' /\ (\A q \in Procs : Checked(q)') /\ Tracked' /\ CopiesTracked'
  <2>1. Ground'
    BY <1>0, <1>a, <1>16 DEF StoreOK, WorldOK, LocalOK, Ground, MountedWithCare, Idling, Crash, Reset
  <2>2. \A q \in Procs : Checked(q)'
    BY <1>0, <1>a, <1>16 DEF StoreOK, WorldOK, LocalOK, Ground, Checked, Host, Idling, Crash, Reset
  <2>3. Tracked'
    BY <1>0, <1>a, <1>16 DEF StoreOK, WorldOK, LocalOK, Checked, Tracked, Idling, Crash, Reset
  <2>4. CopiesTracked'
    BY <1>0, <1>a, <1>16 DEF StoreOK, WorldOK, LocalOK, Checked, CopiesTracked, Idling, Crash, Reset
  <2> QED
    BY <2>1, <2>2, <2>3, <2>4
<1>17. ASSUME NEW m \in Machines, Unmount(m)
       PROVE  Ground' /\ (\A q \in Procs : Checked(q)') /\ Tracked' /\ CopiesTracked'
  <2>1. Ground'
    BY <1>0, <1>a, <1>b, <1>17 DEF StoreOK, WorldOK, LocalOK, Ground, MountedWithCare, Idling, Unmount, Quiet
  <2>2. \A q \in Procs : Checked(q)'
    BY <1>0, <1>a, <1>b, <1>17 DEF StoreOK, WorldOK, LocalOK, Ground, Checked, Host, Idling, Unmount, Quiet, MountedWithCare
  <2>3. Tracked'
    BY <1>0, <1>a, <1>b, <1>17 DEF StoreOK, WorldOK, LocalOK, Checked, Tracked, Idling, Unmount, Quiet, MountedWithCare
  <2>4. CopiesTracked'
    BY <1>0, <1>a, <1>b, <1>17 DEF StoreOK, WorldOK, LocalOK, Checked, CopiesTracked, Idling, Unmount, Quiet, MountedWithCare
  <2> QED
    BY <2>1, <2>2, <2>3, <2>4
<1>18. ASSUME NEW m \in Machines, Mount(m)
       PROVE  Ground' /\ (\A q \in Procs : Checked(q)') /\ Tracked' /\ CopiesTracked'
  <2>1. Ground'
    BY <1>0, <1>a, <1>b, <1>18 DEF StoreOK, WorldOK, LocalOK, Ground, MountedWithCare, Idling, Mount, Quiet
  <2>2. \A q \in Procs : Checked(q)'
    BY <1>0, <1>a, <1>b, <1>18 DEF StoreOK, WorldOK, LocalOK, Ground, Checked, Host, Idling, Mount, Quiet, MountedWithCare
  <2>3. Tracked'
    BY <1>0, <1>a, <1>b, <1>18 DEF StoreOK, WorldOK, LocalOK, Checked, Tracked, Idling, Mount, Quiet, MountedWithCare
  <2>4. CopiesTracked'
    BY <1>0, <1>a, <1>b, <1>18 DEF StoreOK, WorldOK, LocalOK, Checked, CopiesTracked, Idling, Mount, Quiet, MountedWithCare
  <2> QED
    BY <2>1, <2>2, <2>3, <2>4
<1>19. ASSUME NEW n \in Names, RemoveByHand(n)
       PROVE  Ground' /\ (\A q \in Procs : Checked(q)') /\ Tracked' /\ CopiesTracked'
  <2>1. Ground'
    BY <1>0, <1>a, <1>b, <1>19 DEF StoreOK, WorldOK, LocalOK, Ground, MountedWithCare, Idling, RemoveByHand, Visible
  <2>2. \A q \in Procs : Checked(q)'
    BY <1>0, <1>a, <1>b, <1>19 DEF StoreOK, WorldOK, LocalOK, Ground, Checked, Host, Idling, RemoveByHand, Visible
  <2>3. Tracked'
    BY <1>0, <1>a, <1>b, <1>19 DEF StoreOK, WorldOK, LocalOK, Checked, Tracked, Idling, RemoveByHand, Visible
  <2>4. CopiesTracked'
    BY <1>0, <1>a, <1>b, <1>19 DEF StoreOK, WorldOK, LocalOK, Checked, CopiesTracked, Idling, RemoveByHand, Visible
  <2> QED
    BY <2>1, <2>2, <2>3, <2>4
<1>20. ASSUME NEW n \in Names, BuildCopy(n)
       PROVE  Ground' /\ (\A q \in Procs : Checked(q)') /\ Tracked' /\ CopiesTracked'
  <2>1. Ground'
    BY <1>0, <1>a, <1>b, <1>20 DEF StoreOK, WorldOK, LocalOK, Ground, MountedWithCare, Idling, BuildCopy
  <2>2. \A q \in Procs : Checked(q)'
    BY <1>0, <1>a, <1>b, <1>20 DEF StoreOK, WorldOK, LocalOK, Ground, Checked, Host, Idling, BuildCopy
  <2>3. Tracked'
    BY <1>0, <1>a, <1>b, <1>20 DEF StoreOK, WorldOK, LocalOK, Checked, Tracked, Idling, BuildCopy
  <2>4. CopiesTracked'
    BY <1>0, <1>a, <1>b, <1>20 DEF StoreOK, WorldOK, LocalOK, Checked, CopiesTracked, Idling, BuildCopy
  <2> QED
    BY <2>1, <2>2, <2>3, <2>4
<1>21. CASE Tick \/ UNCHANGED vars
  <2>1. Ground'
    BY <1>0, <1>a, <1>b, <1>21 DEF StoreOK, WorldOK, LocalOK, Ground, MountedWithCare, Idling, Tick, vars
  <2>2. \A q \in Procs : Checked(q)'
    BY <1>0, <1>a, <1>b, <1>21 DEF StoreOK, WorldOK, LocalOK, Ground, Checked, Host, Idling, Tick, vars
  <2>3. Tracked'
    BY <1>0, <1>a, <1>b, <1>21 DEF StoreOK, WorldOK, LocalOK, Checked, Tracked, Idling, Tick, vars
  <2>4. CopiesTracked'
    BY <1>0, <1>a, <1>b, <1>21 DEF StoreOK, WorldOK, LocalOK, Checked, CopiesTracked, Idling, Tick, vars
  <2> QED
    BY <2>1, <2>2, <2>3, <2>4
<1> QED
  BY <1>1, <1>2, <1>3, <1>4, <1>5, <1>6, <1>7, <1>8, <1>9, <1>10, <1>11, <1>12, <1>13, <1>14, <1>15, <1>16,
     <1>17, <1>18, <1>19, <1>20, <1>21 DEF Next, Step, Start, Environment

(* Initially nothing is on disk.                                            *)
LEMMA TrackingInit == Init => TrackingInv
BY TypeInit DEF Init, TrackingInv, Ground, Checked, Tracked, CopiesTracked, Idling

(* No snapshot on disk is lost track of, unless a kill or a failed rollback *)
(* left it behind when it was created: under every interleaving, failure    *)
(* and kill, where disks are mounted and unmounted with care.               *)
THEOREM TrackedCorrect ==
    ASSUME MountedWithCare
    PROVE  Spec => []Tracked
<1>1. TrackingInv => Tracked
  BY DEF TrackingInv
<1> QED
  BY <1>1, TrackingInit, TrackingStep, PTL DEF Spec

(* No filtered copy outlives the row of its snapshot, unless deleting the   *)
(* copy failed.                                                             *)
THEOREM CopiesTrackedCorrect ==
    ASSUME MountedWithCare
    PROVE  Spec => []CopiesTracked
<1>1. TrackingInv => CopiesTracked
  BY DEF TrackingInv
<1> QED
  BY <1>1, TrackingInit, TrackingStep, PTL DEF Spec

-----------------------------------------------------------------------------
(* A snapshot that was leaked never had a row, so nobody chose to delete it. *)
Leaked ==
    /\ leaked \intersect rows = {}
    /\ \A p \in Procs : leaked \intersect plan[p] = {}
    /\ \A p \in Procs : pc[p] \in Creating => cur[p] \notin leaked

(* Every step keeps that.                                                   *)
LEMMA LeakedStep == WorkInv /\ Leaked /\ [Next]_vars => Leaked'
<1> SUFFICES ASSUME WorkInv, Leaked, [Next]_vars PROVE Leaked'
  OBVIOUS
<1>a. /\ pc \in [Procs -> Steps] /\ plan \in [Procs -> SUBSET used]
      /\ cur \in [Procs -> used \union {NoName}] /\ rows \subseteq used /\ leaked \subseteq used
      /\ Fresh /\ \A q \in Procs : pc[q] \notin Idling => cur[q] \in used
  BY CurType DEF WorkInv, TypeOK, StoreOK, WorldOK, LocalOK
<1> USE DEF store, world, local
<1>1. ASSUME NEW p \in Procs, NEW n \in rows, StartDel(p, n) PROVE Leaked'
  BY <1>a, <1>1 DEF Leaked, Creating, StartDel, Continue, Goto
<1>2. ASSUME NEW p \in Procs, StartClean(p) PROVE Leaked'
  <2>1. CleanupCandidates(rows, date, Sel[p], Keep) \subseteq rows
    BY DEF CleanupCandidates, Beyond
  <2> QED
    BY <1>a, <1>2, <2>1 DEF Leaked, Creating, StartClean, Continue, Goto
<1>3. ASSUME NEW p \in Procs, NEW n \in Names, Take(p, n) PROVE Leaked'
  BY <1>a, <1>3 DEF Leaked, Creating, Take, NewName, Exit, Goto
<1>4. ASSUME NEW p \in Procs, Insert(p) \/ Rollback(p) PROVE Leaked'
  BY <1>a, <1>4 DEF Leaked, Fresh, Creating, Idling, Insert, Rollback, Exit, Goto
<1>5. ASSUME NEW p \in Procs, Crash(p) PROVE Leaked'
  BY <1>a, <1>5 DEF Leaked, Fresh, Creating, Idling, Crash, Reset
<1>6. ASSUME NEW p \in Procs,
             StartCreate(p) \/ Setup(p) \/ Mkdir(p) \/ OutOfNames(p) \/ Look(p) \/ IsDir(p)
             \/ Delete(p) \/ Copies(p) \/ Forget(p) \/ End(p)
      PROVE  Leaked'
  BY <1>a, <1>6 DEF Leaked, Creating, StartCreate, Setup, Mkdir, OutOfNames, Look, IsDir, Delete,
     Copies, Forget, End, Finish, Skip, Continue, Exit, Reset, Goto
<1>7. CASE Environment \/ UNCHANGED vars
  BY <1>7 DEF Leaked, Environment, Tick, Unmount, Mount, RemoveByHand, BuildCopy, vars
<1> QED
  BY <1>1, <1>2, <1>3, <1>4, <1>5, <1>6, <1>7 DEF Next, Start, Step, StartDel

(* A --del or --clean that exits without an error has removed the row and    *)
(* the subvolume of everything it planned to, whatever other invocations and *)
(* people did to the same snapshots meanwhile.                               *)
THEOREM SuccessMeansGoneCorrect ==
    ASSUME MountedWithCare
    PROVE  Spec => []SuccessMeansGone
<1>1. Init => Leaked
  BY DEF Init, Leaked, Creating
<1>2. Spec => []Leaked
  BY <1>1, LeakedStep, WorkInvariant, PTL DEF Spec
<1>3. WorkInv /\ TrackingInv /\ Leaked => SuccessMeansGone
  <2> SUFFICES ASSUME WorkInv, TrackingInv, Leaked, NEW p \in Procs, pc[p] = "done",
                      op[p] \in {"del", "clean"}, ~ failed[p], NEW n \in plan[p]
               PROVE  n \notin rows /\ at[n] = "none"
    BY DEF SuccessMeansGone
  <2>1. n \in Names
    BY DEF WorkInv, TypeOK, WorldOK, LocalOK
  <2>2. n \notin rows
    BY DEF WorkInv, Work, Planned, Deleting
  <2>3. n \notin leaked
    BY DEF Leaked
  <2>4. ~ \E q \in Procs : pc[q] \in {"insert", "rollback"} /\ cur[q] = n
    BY DEF WorkInv, Fresh, Creating
  <2> QED
    BY <2>1, <2>2, <2>3, <2>4 DEF TrackingInv, Tracked
<1>4. Spec => []TrackingInv
  BY TrackingInit, TrackingStep, PTL DEF Spec
<1> QED
  BY <1>2, <1>3, <1>4, WorkInvariant, PTL
=============================================================================
