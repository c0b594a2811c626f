--------------------------- MODULE SnapshotsProofs ---------------------------
(* Theorems about Snapshots, for every value of its constants. *)
EXTENDS Snapshots, FiniteSetTheorems, TLAPS

USE CatalogAssumption, SnapshotsAssumption

-----------------------------------------------------------------------------
(* The types of what the helpers leave behind. *)

(* Continue, the candidate loop of keep_only_x, leaves an invocation with a *)
(* candidate to look at, or done with none.                                 *)
LEMMA ContinueType ==
    ASSUME TypeOK, NEW p \in Procs, NEW rest \in SUBSET used, Continue(p, rest)
    PROVE  /\ todo' \in [Procs -> SUBSET used]
           /\ cur' \in [Procs -> used \union {NoName}]
           /\ pc' \in [Procs -> Steps]
           /\ \A q \in Procs : pc'[q] \notin Idling => cur'[q] # NoName
<1>1. NoName \notin used
  BY DEF TypeOK, WorldOK, NoName
<1> QED
  BY <1>1 DEF TypeOK, LocalOK, Continue, Goto, Steps, Idling

(* delete_record ending, with or without an error, keeps the local types.   *)
LEMMA SkipType ==
    ASSUME TypeOK, NEW p \in Procs, Skip(p) \/ Finish(p)
    PROVE  /\ todo' \in [Procs -> SUBSET used]
           /\ cur' \in [Procs -> used \union {NoName}]
           /\ pc' \in [Procs -> Steps]
           /\ \A q \in Procs : pc'[q] \notin Idling => cur'[q] # NoName
           /\ failed' \in [Procs -> BOOLEAN]
           /\ op' = op /\ plan' = plan
<1>1. todo[p] \ {cur[p]} \in SUBSET used
  BY DEF TypeOK, LocalOK
<1>2. Continue(p, todo[p] \ {cur[p]})
  BY DEF Skip, Finish
<1> QED
  BY <1>1, <1>2, ContinueType DEF TypeOK, LocalOK, Skip, Finish

(* So does the end of an invocation, which lets go of its snapshot.         *)
LEMMA ExitType ==
    ASSUME TypeOK, NEW p \in Procs, NEW error \in BOOLEAN, Exit(p, error)
    PROVE  /\ cur' \in [Procs -> used \union {NoName}]
           /\ pc' \in [Procs -> Steps]
           /\ \A q \in Procs : pc'[q] \notin Idling => cur'[q] # NoName
           /\ failed' \in [Procs -> BOOLEAN]
           /\ op' = op /\ plan' = plan /\ todo' = todo
BY DEF TypeOK, LocalOK, Exit, Goto, Steps, Idling

(* Going on to a step that keeps the snapshot, or needs none, keeps the     *)
(* types of the local state.                                                *)
LEMMA GotoType ==
    ASSUME TypeOK, NEW p \in Procs, NEW step \in Steps, Goto(p, step), cur' = cur,
           step \in Idling \/ pc[p] \notin Idling
    PROVE  /\ pc' \in [Procs -> Steps]
           /\ \A q \in Procs : pc'[q] \notin Idling => cur'[q] # NoName
BY DEF TypeOK, LocalOK, Goto

(* A fault is counted, and there are at most MaxFaults.                     *)
LEMMA FaultType == ASSUME TypeOK, Fault PROVE faults' \in 0 .. MaxFaults
BY DEF TypeOK, WorldOK, Fault

(* Every invocation runs on one of the machines.                            *)
LEMMA HostType == \A p \in Procs : Host(p) \in Machines
BY DEF Host, Selections

(* A step that works on a snapshot works on a name that was generated.      *)
LEMMA CurType == ASSUME TypeOK, NEW p \in Procs, pc[p] \notin Idling
                 PROVE  cur[p] \in used /\ cur[p] \in Names
BY DEF TypeOK, WorldOK, LocalOK

(* cleanup_candidates returns rows of the table.                            *)
LEMMA CandidatesAreRows ==
    ASSUME NEW s, NEW k PROVE CleanupCandidates(rows, date, s, k) \subseteq rows
BY DEF CleanupCandidates, Beyond

-----------------------------------------------------------------------------
(* Every step of the program and around it keeps the types.                 *)
LEMMA TypeStep == TypeOK /\ [Next]_vars => TypeOK'
<1> SUFFICES ASSUME TypeOK, [Next]_vars PROVE TypeOK'
  OBVIOUS
<1> USE DEF store, world, local
<1>1. ASSUME NEW p \in Procs, StartCreate(p) PROVE TypeOK'
  <2>1. StoreOK'
    BY <1>1 DEF TypeOK, StoreOK, StartCreate
  <2>2. WorldOK'
    BY <1>1 DEF TypeOK, WorldOK, StartCreate
  <2>3. LocalOK'
    BY <1>1, GotoType DEF TypeOK, LocalOK, StartCreate, Steps, Idling
  <2> QED
    BY <2>1, <2>2, <2>3 DEF TypeOK
<1>2. ASSUME NEW p \in Procs, StartClean(p) PROVE TypeOK'
  <2>1. StoreOK'
    BY <1>2 DEF TypeOK, StoreOK, StartClean
  <2>2. WorldOK'
    BY <1>2 DEF TypeOK, WorldOK, StartClean
  <2>3. LocalOK'
    BY <1>2, ContinueType, CandidatesAreRows DEF TypeOK, LocalOK, StartClean, StoreOK, Idling
  <2> QED
    BY <2>1, <2>2, <2>3 DEF TypeOK
<1>3. ASSUME NEW p \in Procs, NEW n \in Names, StartDel(p, n) PROVE TypeOK'
  <2>1. StoreOK'
    BY <1>3 DEF TypeOK, StoreOK, StartDel
  <2>2. WorldOK'
    BY <1>3 DEF TypeOK, WorldOK, StartDel
  <2>3. LocalOK'
    BY <1>3, ContinueType DEF TypeOK, LocalOK, StartDel, StoreOK, Idling
  <2> QED
    BY <2>1, <2>2, <2>3 DEF TypeOK
<1>4. ASSUME NEW p \in Procs, Setup(p) PROVE TypeOK'
  <2>1. StoreOK'
    BY <1>4 DEF TypeOK, StoreOK, Setup
  <2>2. WorldOK'
    BY <1>4 DEF TypeOK, WorldOK, Setup
  <2>3. LocalOK'
    BY <1>4, GotoType DEF TypeOK, LocalOK, Setup, Steps, Idling
  <2> QED
    BY <2>1, <2>2, <2>3 DEF TypeOK
<1>5. ASSUME NEW p \in Procs, Mkdir(p) PROVE TypeOK'
  <2>1. StoreOK'
    BY <1>5, HostType DEF TypeOK, StoreOK, Mkdir
  <2>2. WorldOK'
    BY <1>5, FaultType DEF TypeOK, WorldOK, Mkdir
  <2>3. LocalOK'
    BY <1>5, ExitType, GotoType DEF TypeOK, LocalOK, Mkdir, Steps, Idling
  <2> QED
    BY <2>1, <2>2, <2>3 DEF TypeOK
<1>6. ASSUME NEW p \in Procs, OutOfNames(p) PROVE TypeOK'
  <2>1. StoreOK'
    BY <1>6 DEF TypeOK, StoreOK, OutOfNames
  <2>2. WorldOK'
    BY <1>6 DEF TypeOK, WorldOK, OutOfNames
  <2>3. LocalOK'
    BY <1>6, ExitType DEF TypeOK, LocalOK, OutOfNames, Idling
  <2> QED
    BY <2>1, <2>2, <2>3 DEF TypeOK
<1>7. ASSUME NEW p \in Procs, NEW n \in Names, Take(p, n) PROVE TypeOK'
  <2>1. StoreOK'
    BY <1>7 DEF TypeOK, StoreOK, Take
  <2>2. WorldOK'
    BY <1>7, FaultType DEF TypeOK, WorldOK, Take
  <2>3. LocalOK'
    <3>1. n # NoName /\ n \in used' /\ used \subseteq used'
      BY <1>7 DEF Take, NewName, NoName
    <3>2. CASE Exit(p, TRUE)
      BY <1>7, <3>1, <3>2, ExitType DEF TypeOK, LocalOK, Take, WorldOK
    <3>3. CASE cur' = [cur EXCEPT ![p] = n] /\ Goto(p, "insert") /\ UNCHANGED <<op, plan, todo, failed>>
      BY <3>1, <3>3 DEF TypeOK, LocalOK, Goto, Steps, Idling
    <3> QED
      BY <1>7, <3>2, <3>3 DEF Take
  <2> QED
    BY <2>1, <2>2, <2>3 DEF TypeOK
<1>8. ASSUME NEW p \in Procs, Insert(p) PROVE TypeOK'
  <2>1. StoreOK'
    <3>1. cur[p] \in used /\ cur[p] \in Names
      BY <1>8, CurType DEF Insert, Idling
    <3>2. clock \in 0 .. MaxDate /\ clock > 0
      BY DEF TypeOK, WorldOK
    <3>3. CASE rows' = rows \union {cur[p]} /\ date' = [date EXCEPT ![cur[p]] = clock]
      BY <1>8, <3>1, <3>2, <3>3 DEF TypeOK, StoreOK, Insert
    <3>4. CASE rows' = rows /\ date' = date
      BY <1>8, <3>4 DEF TypeOK, StoreOK, Insert
    <3> QED
      BY <1>8, <3>3, <3>4 DEF Insert
  <2>2. WorldOK'
    BY <1>8, FaultType DEF TypeOK, WorldOK, Insert
  <2>3. LocalOK'
    BY <1>8, ExitType, GotoType DEF TypeOK, LocalOK, Insert, Steps, Idling
  <2> QED
    BY <2>1, <2>2, <2>3 DEF TypeOK
<1>9. ASSUME NEW p \in Procs, Rollback(p) PROVE TypeOK'
  <2>1. StoreOK'
    BY <1>9 DEF TypeOK, StoreOK, Rollback
  <2>2. WorldOK'
    BY <1>9, FaultType, CurType DEF TypeOK, WorldOK, Rollback, Idling
  <2>3. LocalOK'
    BY <1>9, ExitType DEF TypeOK, LocalOK, Rollback, Idling
  <2> QED
    BY <2>1, <2>2, <2>3 DEF TypeOK
<1>10. ASSUME NEW p \in Procs, Look(p) PROVE TypeOK'
  <2>1. StoreOK'
    BY <1>10 DEF TypeOK, StoreOK, Look
  <2>2. WorldOK'
    BY <1>10, FaultType DEF TypeOK, WorldOK, Look
  <2>3. LocalOK'
    BY <1>10, SkipType, GotoType DEF TypeOK, LocalOK, Look, Steps, Idling
  <2> QED
    BY <2>1, <2>2, <2>3 DEF TypeOK
<1>11. ASSUME NEW p \in Procs, IsDir(p) PROVE TypeOK'
  <2>1. StoreOK'
    BY <1>11 DEF TypeOK, StoreOK, IsDir
  <2>2. WorldOK'
    BY <1>11 DEF TypeOK, WorldOK, IsDir
  <2>3. LocalOK'
    BY <1>11, SkipType, GotoType DEF TypeOK, LocalOK, IsDir, Steps, Idling
  <2> QED
    BY <2>1, <2>2, <2>3 DEF TypeOK
<1>12. ASSUME NEW p \in Procs, Delete(p) PROVE TypeOK'
  <2>1. StoreOK'
    BY <1>12 DEF TypeOK, StoreOK, Delete
  <2>2. WorldOK'
    BY <1>12, FaultType DEF TypeOK, WorldOK, Delete
  <2>3. LocalOK'
    BY <1>12, SkipType, GotoType DEF TypeOK, LocalOK, Delete, Steps, Idling
  <2> QED
    BY <2>1, <2>2, <2>3 DEF TypeOK
<1>13. ASSUME NEW p \in Procs, Copies(p) PROVE TypeOK'
  <2>1. StoreOK'
    BY <1>13 DEF TypeOK, StoreOK, Copies
  <2>2. WorldOK'
    BY <1>13, FaultType DEF TypeOK, WorldOK, Copies, StoreOK
  <2>3. LocalOK'
    BY <1>13, GotoType DEF TypeOK, LocalOK, Copies, Steps, Idling
  <2> QED
    BY <2>1, <2>2, <2>3 DEF TypeOK
<1>14. ASSUME NEW p \in Procs, Forget(p) PROVE TypeOK'
  <2>1. StoreOK'
    BY <1>14 DEF TypeOK, StoreOK, Forget
  <2>2. WorldOK'
    BY <1>14, FaultType, CurType DEF TypeOK, WorldOK, Forget, Idling
  <2>3. LocalOK'
    BY <1>14, SkipType DEF TypeOK, LocalOK, Forget, Idling
  <2> QED
    BY <2>1, <2>2, <2>3 DEF TypeOK
<1>15. ASSUME NEW p \in Procs, End(p) PROVE TypeOK'
  <2>1. StoreOK'
    BY <1>15 DEF TypeOK, StoreOK, End, Reset
  <2>2. WorldOK'
    BY <1>15 DEF TypeOK, WorldOK, End
  <2>3. LocalOK'
    BY <1>15 DEF TypeOK, LocalOK, End, Reset, Steps, Idling
  <2> QED
    BY <2>1, <2>2, <2>3 DEF TypeOK
<1>16. ASSUME NEW p \in Procs, Crash(p) PROVE TypeOK'
  <2>1. StoreOK'
    BY <1>16 DEF TypeOK, StoreOK, Crash, Reset
  <2>2. WorldOK'
    BY <1>16, FaultType, CurType DEF TypeOK, WorldOK, Crash, Idling
  <2>3. LocalOK'
    BY <1>16 DEF TypeOK, LocalOK, Crash, Reset, Steps, Idling
  <2> QED
    BY <2>1, <2>2, <2>3 DEF TypeOK
<1>17. CASE Tick
  BY <1>17 DEF TypeOK, StoreOK, WorldOK, LocalOK, Tick
<1>18. ASSUME NEW m \in Machines, Unmount(m) \/ Mount(m) PROVE TypeOK'
  BY <1>18, FaultType DEF TypeOK, StoreOK, WorldOK, LocalOK, Unmount, Mount
<1>19. ASSUME NEW n \in Names, RemoveByHand(n) \/ BuildCopy(n) PROVE TypeOK'
  BY <1>19 DEF TypeOK, StoreOK, WorldOK, LocalOK, RemoveByHand, BuildCopy
<1>20. CASE UNCHANGED vars
  BY <1>20 DEF TypeOK, StoreOK, WorldOK, LocalOK, vars
<1> QED
  BY <1>1, <1>2, <1>3, <1>4, <1>5, <1>6, <1>7, <1>8, <1>9, <1>10, <1>11,
     <1>12, <1>13, <1>14, <1>15, <1>16, <1>17, <1>18, <1>19, <1>20
     DEF Next, Step, Start, Environment

(* The initial state has the types.                                         *)
LEMMA TypeInit == Init => TypeOK
BY DEF Init, TypeOK, StoreOK, WorldOK, LocalOK, Steps, Idling

(* The type invariant holds: every row has the date it was inserted with,   *)
(* every name in use was generated, and an invocation at a step that works  *)
(* on a snapshot has one.                                                   *)
THEOREM TypeCorrect == Spec => []TypeOK
BY TypeInit, TypeStep, PTL DEF Spec

-----------------------------------------------------------------------------
(* What invocations that run at once know of one another.                   *)
Deleting == {"look", "isdir", "delete", "copies", "forget"}
Creating == {"insert", "rollback"}

(* An invocation with snapshots to delete is at work on one of them.         *)
Work ==
    \A p \in Procs :
        /\ pc[p] \in Deleting => cur[p] \in todo[p] /\ op[p] \in {"clean", "del"}
        /\ todo[p] # {} => pc[p] \in Deleting
        /\ pc[p] \in {"setup", "mkdir", "take", "insert", "rollback"} => op[p] = "create"
        /\ op[p] = "clean" => \A n \in todo[p] : Matches(n, Sel[p])

(* A snapshot being created is not a row yet, and nobody means to delete it. *)
Fresh ==
    \A p \in Procs : pc[p] \in Creating =>
        /\ cur[p] \notin rows \union dropped
        /\ \A q \in Procs : /\ cur[p] \notin todo[q] \union plan[q]
                            /\ q # p /\ pc[q] \in Creating => cur[q] # cur[p]

(* What an invocation planned to delete and has not failed to is gone, or    *)
(* still to do.                                                              *)
Planned ==
    \A p \in Procs : /\ op[p] \in {"del", "clean"} /\ pc[p] # "idle" /\ ~ failed[p]
                     => plan[p] \intersect rows \subseteq todo[p]

(* Past the look, an invocation works on a snapshot of its own machine.      *)
Owned ==
    \A p \in Procs : pc[p] \in Deleting \ {"look"} => Record[cur[p]].machine = Host(p)

WorkInv == TypeOK /\ Work /\ Fresh /\ Planned /\ Owned

(* Every step keeps it.                                                     *)
LEMMA WorkStep == WorkInv /\ [Next]_vars => WorkInv'
<1> SUFFICES ASSUME WorkInv, [Next]_vars PROVE Work' /\ Fresh' /\ Planned' /\ Owned'
  BY TypeStep DEF WorkInv
<1>0. TypeOK /\ Work /\ Fresh /\ Planned /\ Owned
  BY DEF WorkInv
<1>a. /\ pc \in [Procs -> Steps] /\ op \in [Procs -> {"create", "del", "clean"}]
      /\ plan \in [Procs -> SUBSET used] /\ todo \in [Procs -> SUBSET used]
      /\ cur \in [Procs -> used \union {NoName}] /\ failed \in [Procs -> BOOLEAN]
      /\ rows \subseteq used /\ dropped \subseteq used
      /\ \A q \in Procs : pc[q] \notin Idling => cur[q] \in used
  BY <1>0, CurType DEF TypeOK, StoreOK, WorldOK, LocalOK
<1> USE DEF store, world, local
<1>1. ASSUME NEW p \in Procs, StartCreate(p) PROVE Work' /\ Fresh' /\ Planned' /\ Owned'
  <2>1. Work'
    BY <1>0, <1>a, <1>1 DEF Work, Deleting, StartCreate, Goto
  <2>2. Fresh'
    BY <1>0, <1>a, <1>1 DEF Work, Fresh, Creating, Deleting, Idling, StartCreate, Goto
  <2>3. Planned'
    BY <1>0, <1>a, <1>1 DEF Work, Fresh, Planned, Creating, Deleting, StartCreate, Goto
  <2>4. Owned'
    BY <1>0, <1>a, <1>1 DEF Owned, Host, Deleting, StartCreate, Goto
  <2> QED
    BY <2>1, <2>2, <2>3, <2>4
<1>2. ASSUME NEW p \in Procs, NEW n \in Names, StartDel(p, n) PROVE Work' /\ Fresh' /\ Planned' /\ Owned'
  <2>1. Work'
    BY <1>0, <1>a, <1>2 DEF Work, Deleting, StartDel, Continue, Goto
  <2>2. Fresh'
    BY <1>0, <1>a, <1>2 DEF Work, Fresh, Creating, Deleting, Idling, StartDel, Continue, Goto
  <2>3. Planned'
    BY <1>0, <1>a, <1>2 DEF Work, Fresh, Planned, Creating, Deleting, StartDel, Continue, Goto
  <2>4. Owned'
    BY <1>0, <1>a, <1>2 DEF Owned, Host, Deleting, StartDel, Continue, Goto
  <2> QED
    BY <2>1, <2>2, <2>3, <2>4
<1>3. ASSUME NEW p \in Procs, Setup(p) PROVE Work' /\ Fresh' /\ Planned' /\ Owned'
  <2>1. Work'
    BY <1>0, <1>a, <1>3 DEF Work, Deleting, Setup, Goto
  <2>2. Fresh'
    BY <1>0, <1>a, <1>3 DEF Work, Fresh, Creating, Deleting, Idling, Setup, Goto
  <2>3. Planned'
    BY <1>0, <1>a, <1>3 DEF Work, Fresh, Planned, Creating, Deleting, Setup, Goto
  <2>4. Owned'
    BY <1>0, <1>a, <1>3 DEF Owned, Host, Deleting, Setup, Goto
  <2> QED
    BY <2>1, <2>2, <2>3, <2>4
<1>4. ASSUME NEW p \in Procs, Mkdir(p) PROVE Work' /\ Fresh' /\ Planned' /\ Owned'
  <2>1. Work'
    BY <1>0, <1>a, <1>4 DEF Work, Deleting, Mkdir, Exit, Goto
  <2>2. Fresh'
    BY <1>0, <1>a, <1>4 DEF Work, Fresh, Creating, Deleting, Idling, Mkdir, Exit, Goto
  <2>3. Planned'
    BY <1>0, <1>a, <1>4 DEF Work, Fresh, Planned, Creating, Deleting, Mkdir, Exit, Goto
  <2>4. Owned'
    BY <1>0, <1>a, <1>4 DEF Owned, Host, Deleting, Mkdir, Exit, Goto
  <2> QED
    BY <2>1, <2>2, <2>3, <2>4
<1>5. ASSUME NEW p \in Procs, OutOfNames(p) PROVE Work' /\ Fresh' /\ Planned' /\ Owned'
  <2>1. Work'
    BY <1>0, <1>a, <1>5 DEF Work, Deleting, OutOfNames, Exit, Goto
  <2>2. Fresh'
    BY <1>0, <1>a, <1>5 DEF Work, Fresh, Creating, Deleting, Idling, OutOfNames, Exit, Goto
  <2>3. Planned'
    BY <1>0, <1>a, <1>5 DEF Work, Fresh, Planned, Creating, Deleting, OutOfNames, Exit, Goto
  <2>4. Owned'
    BY <1>0, <1>a, <1>5 DEF Owned, Host, Deleting, OutOfNames, Exit, Goto
  <2> QED
    BY <2>1, <2>2, <2>3, <2>4
<1>6. ASSUME NEW p \in Procs, Rollback(p) PROVE Work' /\ Fresh' /\ Planned' /\ Owned'
  <2>1. Work'
    BY <1>0, <1>a, <1>6 DEF Work, Deleting, Rollback, Visible, Exit, Goto
  <2>2. Fresh'
    BY <1>0, <1>a, <1>6 DEF Work, Fresh, Creating, Deleting, Idling, Rollback, Visible, Exit, Goto
  <2>3. Planned'
    BY <1>0, <1>a, <1>6 DEF Work, Fresh, Planned, Creating, Deleting, Rollback, Visible, Exit, Goto
  <2>4. Owned'
    BY <1>0, <1>a, <1>6 DEF Owned, Host, Deleting, Rollback, Visible, Exit, Goto
  <2> QED
    BY <2>1, <2>2, <2>3, <2>4
<1>7. ASSUME NEW p \in Procs, Look(p) PROVE Work' /\ Fresh' /\ Planned' /\ Owned'
  <2>1. Work'
    BY <1>0, <1>a, <1>7 DEF Work, Deleting, Look, Visible, Skip, Continue, Goto
  <2>2. Fresh'
    BY <1>0, <1>a, <1>7 DEF Work, Fresh, Creating, Deleting, Idling, Look, Visible, Skip, Continue, Goto
  <2>3. Planned'
    BY <1>0, <1>a, <1>7 DEF Work, Fresh, Planned, Creating, Deleting, Look, Visible, Skip, Continue, Goto
  <2>4. Owned'
    BY <1>0, <1>a, <1>7 DEF Owned, Host, Deleting, Look, Visible, Skip, Continue, Goto
  <2> QED
    BY <2>1, <2>2, <2>3, <2>4
<1>8. ASSUME NEW p \in Procs, IsDir(p) PROVE Work' /\ Fresh' /\ Planned' /\ Owned'
  <2>1. Work'
    BY <1>0, <1>a, <1>8 DEF Work, Deleting, IsDir, Skip, Continue, Goto
  <2>2. Fresh'
    BY <1>0, <1>a, <1>8 DEF Work, Fresh, Creating, Deleting, Idling, IsDir, Skip, Continue, Goto
  <2>3. Planned'
    BY <1>0, <1>a, <1>8 DEF Work, Fresh, Planned, Creating, Deleting, IsDir, Skip, Continue, Goto
  <2>4. Owned'
    BY <1>0, <1>a, <1>8 DEF Owned, Host, Deleting, IsDir, Skip, Continue, Goto
  <2> QED
    BY <2>1, <2>2, <2>3, <2>4
<1>9. ASSUME NEW p \in Procs, Delete(p) PROVE Work' /\ Fresh' /\ Planned' /\ Owned'
  <2>1. Work'
    BY <1>0, <1>a, <1>9 DEF Work, Deleting, Delete, Visible, Skip, Continue, Goto
  <2>2. Fresh'
    BY <1>0, <1>a, <1>9 DEF Work, Fresh, Creating, Deleting, Idling, Delete, Visible, Skip, Continue, Goto
  <2>3. Planned'
    BY <1>0, <1>a, <1>9 DEF Work, Fresh, Planned, Creating, Deleting, Delete, Visible, Skip, Continue, Goto
  <2>4. Owned'
    BY <1>0, <1>a, <1>9 DEF Owned, Host, Deleting, Delete, Visible, Skip, Continue, Goto
  <2> QED
    BY <2>1, <2>2, <2>3, <2>4
<1>10. ASSUME NEW p \in Procs, Copies(p) PROVE Work' /\ Fresh' /\ Planned' /\ Owned'
  <2>1. Work'
    BY <1>0, <1>a, <1>10 DEF Work, Deleting, Copies, Goto
  <2>2. Fresh'
    BY <1>0, <1>a, <1>10 DEF Work, Fresh, Creating, Deleting, Idling, Copies, Goto
  <2>3. Planned'
    BY <1>0, <1>a, <1>10 DEF Work, Fresh, Planned, Creating, Deleting, Copies, Goto
  <2>4. Owned'
    BY <1>0, <1>a, <1>10 DEF Owned, Host, Deleting, Copies, Goto
  <2> QED
    BY <2>1, <2>2, <2>3, <2>4
<1>11. ASSUME NEW p \in Procs, End(p) PROVE Work' /\ Fresh' /\ Planned' /\ Owned'
  <2>1. Work'
    BY <1>0, <1>a, <1>11 DEF Work, Deleting, End, Reset
  <2>2. Fresh'
    BY <1>0, <1>a, <1>11 DEF Work, Fresh, Creating, Deleting, Idling, End, Reset
  <2>3. Planned'
    BY <1>0, <1>a, <1>11 DEF Work, Fresh, Planned, Creating, Deleting, End, Reset
  <2>4. Owned'
    BY <1>0, <1>a, <1>11 DEF Owned, Host, Deleting, End, Reset
  <2> QED
    BY <2>1, <2>2, <2>3, <2>4
<1>12. ASSUME NEW p \in Procs, Crash(p) PROVE Work' /\ Fresh' /\ Planned' /\ Owned'
  <2>1. Work'
    BY <1>0, <1>a, <1>12 DEF Work, Deleting, Crash, Reset
  <2>2. Fresh'
    BY <1>0, <1>a, <1>12 DEF Work, Fresh, Creating, Deleting, Idling, Crash, Reset
  <2>3. Planned'
    BY <1>0, <1>a, <1>12 DEF Work, Fresh, Planned, Creating, Deleting, Crash, Reset
  <2>4. Owned'
    BY <1>0, <1>a, <1>12 DEF Owned, Host, Deleting, Crash, Reset
  <2> QED
    BY <2>1, <2>2, <2>3, <2>4
<1>13. ASSUME NEW p \in Procs, StartClean(p) PROVE Work' /\ Fresh' /\ Planned' /\ Owned'
  <2> DEFINE C == CleanupCandidates(rows, date, Sel[p], Keep)
  <2>0. \A n \in C : n \in rows /\ Matches(n, Sel[p])
    BY DEF CleanupCandidates, Beyond
  <2>a. /\ op' = [op EXCEPT ![p] = "clean"] /\ plan' = [plan EXCEPT ![p] = C]
        /\ Continue(p, C) /\ UNCHANGED <<store, world, failed>>
    BY <1>13 DEF StartClean
  <2> HIDE DEF C
  <2>1. Work'
    BY <1>0, <1>a, <2>0, <2>a DEF Work, Deleting, Continue, Goto
  <2>2. Fresh'
    BY <1>0, <1>a, <2>0, <2>a DEF Work, Fresh, Creating, Deleting, Idling, Continue, Goto
  <2>3. Planned'
    BY <1>0, <1>a, <2>0, <2>a DEF Work, Fresh, Planned, Creating, Deleting, Continue, Goto
  <2>4. Owned'
    BY <1>0, <1>a, <2>0, <2>a DEF Owned, Host, Deleting, Continue, Goto
  <2> QED
    BY <2>1, <2>2, <2>3, <2>4
<1>14. ASSUME NEW p \in Procs, NEW n \in Names, Take(p, n) PROVE Work' /\ Fresh' /\ Planned' /\ Owned'
  <2>1. Work'
    BY <1>0, <1>a, <1>14 DEF Work, Deleting, Take, NewName, Exit, Goto
  <2>2. Fresh'
    BY <1>0, <1>a, <1>14 DEF Work, Fresh, Creating, Deleting, Idling, Take, NewName, Exit, Goto
  <2>3. Planned'
    BY <1>0, <1>a, <1>14 DEF Work, Fresh, Planned, Creating, Deleting, Take, NewName, Exit, Goto
  <2>4. Owned'
    BY <1>0, <1>a, <1>14 DEF Owned, Host, Deleting, Take, NewName, Exit, Goto
  <2> QED
    BY <2>1, <2>2, <2>3, <2>4
<1>15. ASSUME NEW p \in Procs, Insert(p) PROVE Work' /\ Fresh' /\ Planned' /\ Owned'
  <2>1. Work'
    BY <1>0, <1>a, <1>15 DEF Work, Deleting, Insert, Exit, Goto
  <2>2. Fresh'
    BY <1>0, <1>a, <1>15 DEF Work, Fresh, Creating, Deleting, Idling, Insert, Exit, Goto
  <2>3. Planned'
    <3>1. cur[p] \notin plan[p] /\ \A q \in Procs : cur[p] \notin plan[q]
      BY <1>0, <1>15 DEF Fresh, Creating, Insert
    <3>2. plan' = plan /\ todo' = todo /\ op' = op /\ rows' \subseteq rows \union {cur[p]}
      BY <1>15 DEF Insert, Exit
    <3>3. \A q \in Procs : plan'[q] \intersect rows' \subseteq plan[q] \intersect rows
      BY <3>1, <3>2
    <3>4. \A q \in Procs : pc'[q] # "idle" => pc[q] # "idle"
      BY <1>a, <1>15 DEF Insert, Exit, Goto
    <3>5. \A q \in Procs \ {p} : failed'[q] = failed[q]
      BY <1>a, <1>15 DEF Insert, Exit
    <3>6. op[p] = "create"
      BY <1>0, <1>15 DEF Work, Insert
    <3> QED
      BY <1>0, <3>2, <3>3, <3>4, <3>5, <3>6 DEF Planned
  <2>4. Owned'
    BY <1>0, <1>a, <1>15 DEF Owned, Host, Deleting, Insert, Exit, Goto
  <2> QED
    BY <2>1, <2>2, <2>3, <2>4
<1>16. ASSUME NEW p \in Procs, Forget(p) PROVE Work' /\ Fresh' /\ Planned' /\ Owned'
  <2>1. Work'
    BY <1>0, <1>a, <1>16 DEF Work, Deleting, Forget, Finish, Skip, Continue, Goto
  <2>2. Fresh'
    BY <1>0, <1>a, <1>16 DEF Work, Fresh, Creating, Deleting, Idling, Forget, Finish, Skip, Continue, Goto
  <2>3. Planned'
    BY <1>0, <1>a, <1>16 DEF Work, Fresh, Planned, Creating, Deleting, Forget, Finish, Skip, Continue, Goto
  <2>4. Owned'
    BY <1>0, <1>a, <1>16 DEF Owned, Host, Deleting, Forget, Finish, Skip, Continue, Goto
  <2> QED
    BY <2>1, <2>2, <2>3, <2>4
<1>17. CASE Tick \/ UNCHANGED vars
  BY <1>0, <1>17 DEF Tick, vars, Work, Fresh, Planned, Owned, Deleting, Creating
<1>18. ASSUME NEW m \in Machines, Unmount(m) \/ Mount(m) PROVE Work' /\ Fresh' /\ Planned' /\ Owned'
  BY <1>0, <1>18 DEF Unmount, Mount, Work, Fresh, Planned, Owned, Deleting, Creating
<1>19. ASSUME NEW n \in Names, RemoveByHand(n) \/ BuildCopy(n) PROVE Work' /\ Fresh' /\ Planned' /\ Owned'
  BY <1>0, <1>19 DEF RemoveByHand, BuildCopy, Work, Fresh, Planned, Owned, Deleting, Creating
<1> QED
  BY <1>1, <1>2, <1>3, <1>4, <1>5, <1>6, <1>7, <1>8, <1>9, <1>10, <1>11, <1>12, <1>13, <1>14, <1>15, <1>16, <1>17, <1>18, <1>19
     DEF Next, Step, Start, Environment

(* WorkInv always holds.                                                    *)
LEMMA WorkInvariant == Spec => []WorkInv
<1>1. Init => WorkInv
  BY TypeInit DEF Init, WorkInv, Work, Fresh, Planned, Owned, Deleting, Creating
<1> QED
  BY <1>1, WorkStep, PTL DEF Spec

(* On a shared database only invocations of a machine remove its rows.      *)
THEOREM OnlyOwnerForgetsCorrect == Spec => OnlyOwnerForgets
<1> DEFINE Owns == \A n \in rows \ rows' :
                      \E p \in Procs : pc[p] = "forget" /\ cur[p] = n
                                       /\ Host(p) = Record[n].machine
<1>1. WorkInv /\ [Next]_vars => [Owns]_vars
  <2> SUFFICES ASSUME WorkInv, [Next]_vars, NEW n \in rows \ rows'
               PROVE  \E p \in Procs : pc[p] = "forget" /\ cur[p] = n /\ Host(p) = Record[n].machine
    OBVIOUS
  <2>1. PICK p \in Procs : Forget(p)
    BY DEF Next, Start, Step, Environment, vars, store, world, local, StartCreate, StartClean,
       StartDel, Setup, Mkdir, OutOfNames, Take, Insert, Rollback, Look, IsDir, Delete, Copies, End,
       Crash, Tick, Unmount, Mount, RemoveByHand, BuildCopy
  <2> QED
    BY <2>1 DEF WorkInv, Owned, Deleting, Forget
<1> QED
  BY <1>1, WorkInvariant, PTL DEF Spec, OnlyOwnerForgets

-----------------------------------------------------------------------------
(* Retention.  The order of the rows is strict, so that the rows newer than  *)
(* a candidate that another candidate stands among include the rows newer    *)
(* than that one: deleting it leaves enough.                                 *)

(* ORDER BY date DESC, name DESC puts no row before itself.                 *)
LEMMA NewerIrreflexive ==
    ASSUME TypeOK, NEW n \in Names PROVE ~ Newer(date, n, n)
BY DEF TypeOK, StoreOK, Newer

(* What comes before a row comes before everything after that row.          *)
LEMMA NewerTransitive ==
    ASSUME TypeOK, NEW a \in Names, NEW b \in Names, NEW c \in Names,
           Newer(date, a, b), Newer(date, b, c)
    PROVE  Newer(date, a, c)
<1>1. /\ date[a] \in Nat /\ date[b] \in Nat /\ date[c] \in Nat
      /\ a \in Nat /\ b \in Nat /\ c \in Nat
  BY DEF TypeOK, StoreOK
<1> QED
  BY <1>1 DEF Newer

(* The rows newer than a name can be counted.                               *)
LEMMA NewerRowsFinite ==
    ASSUME TypeOK, NEW n, NEW s
    PROVE  /\ IsFiniteSet(NewerRows(n, s)) /\ NewerRows(n, s) \subseteq Names
           /\ Cardinality(NewerRows(n, s)) \in Nat
<1>1. NewerRows(n, s) \subseteq Names
  BY DEF TypeOK, StoreOK, WorldOK, NewerRows
<1> QED
  BY <1>1, FS_Subset, FS_CardinalityType

(* The selections of two invocations are the same or have nothing in common. *)
DisjointSelections ==
    \A p, q \in Procs : \A n \in Names :
        Matches(n, Sel[p]) /\ Matches(n, Sel[q])
            => \A m \in Names : Matches(m, Sel[p]) => Matches(m, Sel[q])

RetentionInv == WorkInv /\ Retention

(* With the rows as they were, fewer candidates are no harder to keep.      *)
LEMMA RetentionUnchanged ==
    ASSUME TypeOK, Retention, rows' = rows, dropped' = dropped, date' = date,
           \A q \in Procs : op'[q] = "clean" =>
               \/ todo'[q] = {}
               \/ todo'[q] \subseteq todo[q] /\ op[q] = "clean"
    PROVE  Retention'
<1> SUFFICES ASSUME NEW q \in Procs, op'[q] = "clean", NEW n \in todo'[q]
             PROVE  Keep <= Cardinality(NewerRows(n, Sel[q])')
  BY DEF Retention
<1>1. n \in todo[q] /\ op[q] = "clean"
  OBVIOUS
<1>2. NewerRows(n, Sel[q])' = NewerRows(n, Sel[q])
  BY DEF NewerRows, Newer
<1> QED
  BY <1>1, <1>2 DEF Retention

(* A candidate has Keep newer rows when --clean selects it.                 *)
LEMMA CandidatesBeyondKeep ==
    ASSUME TypeOK, NEW p \in Procs,
           NEW n \in CleanupCandidates(rows, date, Sel[p], Keep)
    PROVE  n \in rows /\ Matches(n, Sel[p]) /\ Keep <= Cardinality(NewerRows(n, Sel[p]))
<1> DEFINE R == {m \in rows : Matches(m, Sel[p])}
           S == {m \in R : Newer(date, m, n)}
<1>1. n \in R /\ Cardinality(S) >= Keep
  BY DEF CleanupCandidates, Beyond
<1>2. S \subseteq NewerRows(n, Sel[p])
  BY DEF NewerRows
<1>3. Cardinality(S) <= Cardinality(NewerRows(n, Sel[p])) /\ Cardinality(S) \in Nat
  BY <1>2, NewerRowsFinite, FS_Subset, FS_CardinalityType
<1> QED
  BY <1>1, <1>3, NewerRowsFinite

(* Every step keeps the invariant.                                          *)
LEMMA RetentionStep ==
    ASSUME DisjointSelections
    PROVE  RetentionInv /\ [Next]_vars => RetentionInv'
<1> SUFFICES ASSUME RetentionInv, [Next]_vars PROVE Retention'
  BY WorkStep DEF RetentionInv
<1>0. TypeOK /\ Work /\ Fresh /\ Retention
  BY DEF RetentionInv, WorkInv
<1> USE DEF store, world, local
<1>1. ASSUME NEW p \in Procs, StartCreate(p) PROVE Retention'
  BY <1>0, <1>1, RetentionUnchanged DEF TypeOK, LocalOK, StartCreate, Goto
<1>2. ASSUME NEW p \in Procs, NEW n \in Names, StartDel(p, n) PROVE Retention'
  BY <1>0, <1>2, RetentionUnchanged DEF TypeOK, LocalOK, StartDel, Continue, Goto
<1>3. ASSUME NEW p \in Procs, Setup(p) PROVE Retention'
  BY <1>0, <1>3, RetentionUnchanged DEF TypeOK, LocalOK, Setup, Goto
<1>4. ASSUME NEW p \in Procs, Mkdir(p) PROVE Retention'
  BY <1>0, <1>4, RetentionUnchanged DEF TypeOK, LocalOK, Mkdir, Exit, Goto
<1>5. ASSUME NEW p \in Procs, OutOfNames(p) PROVE Retention'
  BY <1>0, <1>5, RetentionUnchanged DEF TypeOK, LocalOK, OutOfNames, Exit, Goto
<1>6. ASSUME NEW p \in Procs, Rollback(p) PROVE Retention'
  BY <1>0, <1>6, RetentionUnchanged DEF TypeOK, LocalOK, Rollback, Exit, Goto
<1>7. ASSUME NEW p \in Procs, Look(p) PROVE Retention'
  BY <1>0, <1>7, RetentionUnchanged DEF TypeOK, LocalOK, Look, Skip, Continue, Goto
<1>8. ASSUME NEW p \in Procs, IsDir(p) PROVE Retention'
  BY <1>0, <1>8, RetentionUnchanged DEF TypeOK, LocalOK, IsDir, Skip, Continue, Goto
<1>9. ASSUME NEW p \in Procs, Delete(p) PROVE Retention'
  BY <1>0, <1>9, RetentionUnchanged DEF TypeOK, LocalOK, Delete, Skip, Continue, Goto
<1>10. ASSUME NEW p \in Procs, Copies(p) PROVE Retention'
  BY <1>0, <1>10, RetentionUnchanged DEF TypeOK, LocalOK, Copies, Goto
<1>11. ASSUME NEW p \in Procs, End(p) PROVE Retention'
  BY <1>0, <1>11, RetentionUnchanged DEF TypeOK, LocalOK, End, Reset
<1>12. ASSUME NEW p \in Procs, Crash(p) PROVE Retention'
  BY <1>0, <1>12, RetentionUnchanged DEF TypeOK, LocalOK, Crash, Reset
<1>13. ASSUME NEW p \in Procs, StartClean(p) PROVE Retention'
  <2> DEFINE C == CleanupCandidates(rows, date, Sel[p], Keep)
  <2>1. \A n \in C : n \in rows /\ Matches(n, Sel[p]) /\ Keep <= Cardinality(NewerRows(n, Sel[p]))
    BY <1>0, CandidatesBeyondKeep
  <2>2. /\ op' = [op EXCEPT ![p] = "clean"] /\ todo' = [todo EXCEPT ![p] = C]
        /\ Continue(p, C) /\ rows' = rows /\ dropped' = dropped /\ date' = date
    BY <1>13 DEF StartClean, Continue
  <2>5. Retention'
    <3> SUFFICES ASSUME NEW q \in Procs, op'[q] = "clean", NEW n \in todo'[q]
                 PROVE  Keep <= Cardinality(NewerRows(n, Sel[q])')
      BY DEF Retention
    <3>1. NewerRows(n, Sel[q])' = NewerRows(n, Sel[q])
      BY <2>2 DEF NewerRows, Newer
    <3>2. CASE q = p
      BY <1>0, <2>1, <2>2, <3>1, <3>2 DEF TypeOK, LocalOK
    <3>3. CASE q # p
      BY <1>0, <2>2, <3>1, <3>3 DEF TypeOK, LocalOK, Retention
    <3> QED
      BY <3>2, <3>3
  <2> QED
    BY <2>5
<1>14. ASSUME NEW p \in Procs, NEW n \in Names, Take(p, n) PROVE Retention'
  <2>0. n \notin used
    BY <1>14 DEF Take, NewName
  <2>3. Retention'
    BY <1>0, <1>14, RetentionUnchanged DEF TypeOK, LocalOK, Take, Exit, Goto
  <2> QED
    BY <2>3
<1>15. ASSUME NEW p \in Procs, Insert(p) PROVE Retention'
  <2>0. pc[p] = "insert" /\ cur[p] \in Names
    BY <1>0, <1>15, CurType DEF Insert, Idling
  <2>3. Retention'
    <3>1. todo' = todo /\ op' = op /\ dropped' = dropped
      BY <1>15 DEF Insert, Exit
    <3>2. CASE UNCHANGED <<rows, date>>
      BY <1>0, <3>1, <3>2, RetentionUnchanged DEF Retention
    <3>3. CASE rows' = rows \union {cur[p]} /\ date' = [date EXCEPT ![cur[p]] = clock]
      <4> SUFFICES ASSUME NEW q \in Procs, op[q] = "clean", NEW n \in todo[q]
                   PROVE  Keep <= Cardinality(NewerRows(n, Sel[q])')
        BY <3>1 DEF Retention
      <4>1. cur[p] \notin rows \union dropped /\ cur[p] # n
        BY <1>0, <2>0 DEF Fresh, Creating
      <4>2. NewerRows(n, Sel[q]) \subseteq NewerRows(n, Sel[q])'
        <5> SUFFICES ASSUME NEW m \in NewerRows(n, Sel[q]) PROVE m \in NewerRows(n, Sel[q])'
          OBVIOUS
        <5>1. m \in rows \union dropped /\ Matches(m, Sel[q]) /\ Newer(date, m, n)
          BY DEF NewerRows
        <5>2. m \in Names /\ n \in Names
          BY <1>0, <5>1 DEF TypeOK, StoreOK, WorldOK, LocalOK
        <5>3. date'[m] = date[m] /\ date'[n] = date[n]
          BY <1>0, <3>3, <4>1, <5>1, <5>2 DEF TypeOK, StoreOK
        <5> QED
          BY <3>1, <3>3, <5>1, <5>3 DEF NewerRows, Newer
      <4>3. Keep <= Cardinality(NewerRows(n, Sel[q]))
        BY <1>0 DEF Retention
      <4>4. IsFiniteSet(NewerRows(n, Sel[q])')
        <5>1. NewerRows(n, Sel[q])' \subseteq Names
          BY <1>0, <2>0, <3>1, <3>3 DEF TypeOK, StoreOK, WorldOK, NewerRows
        <5> QED
          BY <5>1, FS_Subset
      <4>5. Cardinality(NewerRows(n, Sel[q])) <= Cardinality(NewerRows(n, Sel[q])')
        BY <4>2, <4>4, FS_Subset
      <4>6. /\ Cardinality(NewerRows(n, Sel[q])) \in Nat
            /\ Cardinality(NewerRows(n, Sel[q])') \in Nat
        BY <1>0, <4>4, NewerRowsFinite, FS_CardinalityType
      <4> QED
        BY <4>3, <4>5, <4>6
    <3> QED
      BY <1>15, <3>2, <3>3 DEF Insert
  <2> QED
    BY <2>3
<1>16. ASSUME NEW p \in Procs, Forget(p) PROVE Retention'
  <2>0. /\ pc[p] = "forget" /\ cur[p] \in Names /\ cur[p] \in todo[p]
        /\ op[p] \in {"clean", "del"}
    BY <1>0, <1>16, CurType DEF Forget, Idling, Work, Deleting
  <2>1. /\ Continue(p, todo[p] \ {cur[p]}) /\ op' = op /\ date' = date
        /\ todo' = [todo EXCEPT ![p] = todo[p] \ {cur[p]}]
    BY <1>16 DEF Forget, Finish, Skip, Continue
  <2>2. \/ rows' = rows /\ dropped' = dropped
        \/ /\ rows' = rows \ {cur[p]}
           /\ dropped' = dropped \union (IF op[p] = "del" THEN {cur[p]} ELSE {})
    BY <1>16 DEF Forget
  <2>5. Retention'
    <3>1. CASE rows' = rows /\ dropped' = dropped
      BY <1>0, <2>1, <3>1, RetentionUnchanged DEF TypeOK, LocalOK
    <3>2. CASE /\ rows' = rows \ {cur[p]}
               /\ dropped' = dropped \union (IF op[p] = "del" THEN {cur[p]} ELSE {})
      <4> SUFFICES ASSUME NEW q \in Procs, op[q] = "clean", NEW n \in todo'[q]
                   PROVE  Keep <= Cardinality(NewerRows(n, Sel[q])')
        BY <2>1 DEF Retention
      <4> DEFINE m == cur[p]
                 Before == NewerRows(n, Sel[q])
                 After  == NewerRows(n, Sel[q])'
      <4>1. n \in todo[q] /\ n \in Names /\ m \in Names
        BY <1>0, <2>0, <2>1 DEF TypeOK, WorldOK, LocalOK
      <4>2. Keep <= Cardinality(Before)
        BY <1>0, <4>1 DEF Retention
      <4>3. IsFiniteSet(After) /\ Cardinality(After) \in Nat
        <5>1. After \subseteq Names
          BY <1>0, <2>0, <3>2 DEF TypeOK, StoreOK, WorldOK, NewerRows
        <5> QED
          BY <5>1, FS_Subset, FS_CardinalityType
      <4>4. Before \ {m} \subseteq After
        BY <2>1, <3>2 DEF NewerRows, Newer
      \* What is not lost counts as before.
      <4>5. CASE m \notin Before \/ op[p] = "del"
        <5>1. Before \subseteq After
          BY <2>1, <3>2, <4>4, <4>5 DEF NewerRows, Newer
        <5>2. Cardinality(Before) <= Cardinality(After) /\ Cardinality(Before) \in Nat
          BY <1>0, <4>3, <5>1, FS_Subset, NewerRowsFinite
        <5> QED
          BY <4>2, <4>3, <5>2
      \* What --clean deletes has itself Keep newer rows, all newer than n.
      <4>6. CASE m \in Before /\ op[p] = "clean"
        <5> DEFINE Above == NewerRows(m, Sel[p])
        <5>1. Matches(m, Sel[q]) /\ Newer(date, m, n) /\ Matches(m, Sel[p])
          BY <1>0, <2>0, <4>6 DEF NewerRows, Work
        <5>2. Keep <= Cardinality(Above)
          BY <1>0, <2>0, <4>6 DEF Retention
        <5>3. Above \subseteq Before \ {m}
          <6> SUFFICES ASSUME NEW x \in Above PROVE x \in Before /\ x # m
            OBVIOUS
          <6>1. x \in rows \union dropped /\ Matches(x, Sel[p]) /\ Newer(date, x, m) /\ x \in Names
            BY <1>0 DEF NewerRows, TypeOK, StoreOK, WorldOK
          <6>2. Matches(x, Sel[q])
            BY <4>1, <5>1, <6>1 DEF DisjointSelections
          <6>3. Newer(date, x, n)
            BY <1>0, <4>1, <5>1, <6>1, NewerTransitive
          <6>4. x # m
            BY <1>0, <4>1, <6>1, NewerIrreflexive
          <6> QED
            BY <6>1, <6>2, <6>3, <6>4 DEF NewerRows
        <5>4. Cardinality(Above) <= Cardinality(After) /\ Cardinality(Above) \in Nat
          BY <1>0, <4>3, <4>4, <5>3, FS_Subset, NewerRowsFinite
        <5> QED
          BY <4>3, <5>2, <5>4
      <4> QED
        BY <2>0, <4>5, <4>6
    <3> QED
      BY <2>2, <3>1, <3>2
  <2> QED
    BY <2>5
<1>17. CASE Tick \/ UNCHANGED vars
  BY <1>0, <1>17, RetentionUnchanged DEF Tick, vars, Work, Fresh, Retention, Deleting, Creating
<1>18. ASSUME NEW m \in Machines, Unmount(m) \/ Mount(m) PROVE Retention'
  BY <1>0, <1>18, RetentionUnchanged DEF Unmount, Mount, Work, Fresh, Deleting, Creating
<1>19. ASSUME NEW n \in Names, RemoveByHand(n) \/ BuildCopy(n) PROVE Retention'
  BY <1>0, <1>19, RetentionUnchanged DEF RemoveByHand, BuildCopy, Work, Fresh, Deleting, Creating
<1> QED
  BY <1>1, <1>2, <1>3, <1>4, <1>5, <1>6, <1>7, <1>8, <1>9, <1>10, <1>11, <1>12,
     <1>13, <1>14, <1>15, <1>16, <1>17, <1>18, <1>19
     DEF Next, Step, Start, Environment

(* --clean keeps the newest Keep snapshots of its selection, however many   *)
(* invocations interleave, fail or are killed, as long as the selections    *)
(* they are given do not overlap.                                           *)
THEOREM RetentionCorrect ==
    ASSUME DisjointSelections
    PROVE  Spec => []Retention
<1>1. Init => RetentionInv
  BY TypeInit DEF Init, RetentionInv, WorkInv, Work, Fresh, Planned, Owned, Retention, Deleting, Creating
<1>2. RetentionInv => Retention
  BY DEF RetentionInv
<1> QED
  BY <1>1, <1>2, RetentionStep, PTL DEF Spec
=============================================================================
