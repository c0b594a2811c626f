--------------------------- MODULE StagingProofs ---------------------------
(***************************************************************************)
(* What the filtered copies guarantee, for any number of senders, snapshots *)
(* and excluded entries, with commands failing and senders killed at any   *)
(* point, and --clean and --del deleting snapshots and copies meanwhile.   *)
(***************************************************************************)
EXTENDS Staging, TLAPS

(* Two senders at work on one copy are two senders that met.               *)
Meetings ==
    \A p, q \in Procs :
        pc[p] # "idle" /\ pc[q] # "idle" /\ cur[p] = cur[q] /\ cur[p] \notin shared => p = q

(* What a sender that met nobody knows of the copy it builds.               *)
Mine(p) ==
    cur[p] \notin shared =>
        /\ pc[p] = "snapshot" => cur[p] \notin built
        /\ pc[p] = "filter" => \A q \in Paths : <<cur[p], q>> \in holds => q \in rest[p]
        /\ pc[p] = "seal" => \A q \in Paths : <<cur[p], q>> \notin holds

(* Read-only means filtered.                                                *)
SealedIsFiltered == \A n \in sealed \ shared, q \in Paths : <<n, q>> \notin holds

StagingInv ==
    TypeOK /\ Meetings /\ (\A p \in Procs : Mine(p)) /\ SealedIsFiltered /\ OnlySharedCopiesLeak

-----------------------------------------------------------------------------
(* Every step keeps the types.                                              *)
LEMMA StagingTypeStep == TypeOK /\ [Next]_vars => TypeOK'
<1> SUFFICES ASSUME TypeOK, [Next]_vars PROVE TypeOK'
  OBVIOUS
<1>0. ASSUME Fault PROVE faults' \in 0 .. MaxFaults
  BY <1>0, StagingAssumption DEF TypeOK, Fault
<1> USE DEF copies, Quiet
<1>1. ASSUME NEW p \in Procs, NEW n \in Names, Begin(p, n) PROVE TypeOK'
  BY <1>0, <1>1 DEF TypeOK, Begin, Steps
<1>2. ASSUME NEW p \in Procs, Exists(p) PROVE TypeOK'
  BY <1>0, <1>2 DEF TypeOK, Exists, Steps, Goto
<1>3. ASSUME NEW p \in Procs, IsReadOnly(p) PROVE TypeOK'
  BY <1>0, <1>3 DEF TypeOK, IsReadOnly, Steps, Goto, End
<1>4. ASSUME NEW p \in Procs, Discard(p) PROVE TypeOK'
  BY <1>0, <1>4 DEF TypeOK, Discard, Steps, Goto, End, Deletable, DeleteCopy
<1>5. ASSUME NEW p \in Procs, Snapshot(p) PROVE TypeOK'
  BY <1>0, <1>5 DEF TypeOK, Snapshot, Steps, End
<1>6. ASSUME NEW p \in Procs, Filter(p) PROVE TypeOK'
  BY <1>0, <1>6 DEF TypeOK, Filter, Steps, Goto
<1>7. ASSUME NEW p \in Procs, Seal(p) PROVE TypeOK'
  BY <1>0, <1>7 DEF TypeOK, Seal, Steps, Goto
<1>8. ASSUME NEW p \in Procs, Abort(p) PROVE TypeOK'
  BY <1>0, <1>8 DEF TypeOK, Abort, Steps, End, Deletable, DeleteCopy
<1>9. ASSUME NEW p \in Procs, Send(p) PROVE TypeOK'
  BY <1>0, <1>9 DEF TypeOK, Send, Steps, End
<1>10. ASSUME NEW p \in Procs, Crash(p) PROVE TypeOK'
  BY <1>0, <1>10 DEF TypeOK, Crash, Steps, End
<1>11. ASSUME NEW n \in Names, DeleteSnapshot(n) PROVE TypeOK'
  BY <1>0, <1>11 DEF TypeOK, DeleteSnapshot, Steps
<1>12. ASSUME NEW n \in Names, RemoveFilteredCopy(n) PROVE TypeOK'
  BY <1>0, <1>12 DEF TypeOK, RemoveFilteredCopy, Steps, Deletable, DeleteCopy
<1>13. CASE UNCHANGED vars
  BY <1>13 DEF TypeOK, vars
<1> QED
  BY <1>1, <1>2, <1>3, <1>4, <1>5, <1>6, <1>7, <1>8, <1>9, <1>10, <1>11, <1>12, <1>13 DEF Next, Start, Step

(* Every step keeps the invariant.                                          *)
LEMMA StagingStep == StagingInv /\ [Next]_vars => StagingInv'
<1> SUFFICES ASSUME StagingInv, [Next]_vars
             PROVE  Meetings' /\ (\A p \in Procs : Mine(p)') /\ SealedIsFiltered' /\ OnlySharedCopiesLeak'
  BY StagingTypeStep DEF StagingInv
<1>0. /\ TypeOK /\ Meetings /\ SealedIsFiltered /\ OnlySharedCopiesLeak
      /\ \A p \in Procs : Mine(p)
  BY DEF StagingInv
<1> USE DEF copies, Quiet
<1>1. ASSUME NEW p \in Procs, NEW n \in Names, Begin(p, n)
      PROVE  Meetings' /\ (\A q \in Procs : Mine(q)') /\ SealedIsFiltered' /\ OnlySharedCopiesLeak'
  <2>1. Meetings'
    BY <1>0, <1>1 DEF TypeOK, Meetings, Begin
  <2>2. \A q \in Procs : Mine(q)'
    BY <1>0, <1>1 DEF TypeOK, Meetings, Mine, Begin
  <2>3. SealedIsFiltered'
    BY <1>0, <1>1 DEF TypeOK, Mine, SealedIsFiltered, Begin
  <2>4. OnlySharedCopiesLeak'
    BY <1>0, <1>1 DEF TypeOK, SealedIsFiltered, OnlySharedCopiesLeak, Begin
  <2> QED
    BY <2>1, <2>2, <2>3, <2>4
<1>2. ASSUME NEW p \in Procs, Exists(p)
      PROVE  Meetings' /\ (\A q \in Procs : Mine(q)') /\ SealedIsFiltered' /\ OnlySharedCopiesLeak'
  <2>1. Meetings'
    BY <1>0, <1>2 DEF TypeOK, Meetings, Exists, Goto
  <2>2. \A q \in Procs : Mine(q)'
    BY <1>0, <1>2 DEF TypeOK, Meetings, Mine, Exists, Goto
  <2>3. SealedIsFiltered'
    BY <1>0, <1>2 DEF TypeOK, Mine, SealedIsFiltered, Exists, Goto
  <2>4. OnlySharedCopiesLeak'
    BY <1>0, <1>2 DEF TypeOK, SealedIsFiltered, OnlySharedCopiesLeak, Exists, Goto
  <2> QED
    BY <2>1, <2>2, <2>3, <2>4
<1>3. ASSUME NEW p \in Procs, IsReadOnly(p)
      PROVE  Meetings' /\ (\A q \in Procs : Mine(q)') /\ SealedIsFiltered' /\ OnlySharedCopiesLeak'
  <2>1. Meetings'
    BY <1>0, <1>3 DEF TypeOK, Meetings, IsReadOnly, Goto, End
  <2>2. \A q \in Procs : Mine(q)'
    BY <1>0, <1>3 DEF TypeOK, Meetings, Mine, IsReadOnly, Goto, End
  <2>3. SealedIsFiltered'
    BY <1>0, <1>3 DEF TypeOK, Mine, SealedIsFiltered, IsReadOnly, Goto, End
  <2>4. OnlySharedCopiesLeak'
    BY <1>0, <1>3 DEF TypeOK, SealedIsFiltered, OnlySharedCopiesLeak, IsReadOnly, Goto, End
  <2> QED
    BY <2>1, <2>2, <2>3, <2>4
<1>4. ASSUME NEW p \in Procs, Discard(p)
      PROVE  Meetings' /\ (\A q \in Procs : Mine(q)') /\ SealedIsFiltered' /\ OnlySharedCopiesLeak'
  <2>1. Meetings'
    BY <1>0, <1>4 DEF TypeOK, Meetings, Discard, Goto, End, Deletable, DeleteCopy
  <2>2. \A q \in Procs : Mine(q)'
    BY <1>0, <1>4 DEF TypeOK, Meetings, Mine, Discard, Goto, End, Deletable, DeleteCopy
  <2>3. SealedIsFiltered'
    BY <1>0, <1>4 DEF TypeOK, Mine, SealedIsFiltered, Discard, Goto, End, Deletable, DeleteCopy
  <2>4. OnlySharedCopiesLeak'
    BY <1>0, <1>4 DEF TypeOK, SealedIsFiltered, OnlySharedCopiesLeak, Discard, Goto, End, Deletable, DeleteCopy
  <2> QED
    BY <2>1, <2>2, <2>3, <2>4
<1>5. ASSUME NEW p \in Procs, Snapshot(p)
      PROVE  Meetings' /\ (\A q \in Procs : Mine(q)') /\ SealedIsFiltered' /\ OnlySharedCopiesLeak'
  <2>1. Meetings'
    BY <1>0, <1>5 DEF TypeOK, Meetings, Snapshot, End
  <2>2. \A q \in Procs : Mine(q)'
    BY <1>0, <1>5 DEF TypeOK, Meetings, Mine, Snapshot, End
  <2>3. SealedIsFiltered'
    BY <1>0, <1>5 DEF TypeOK, Mine, SealedIsFiltered, Snapshot, End
  <2>4. OnlySharedCopiesLeak'
    BY <1>0, <1>5 DEF TypeOK, SealedIsFiltered, OnlySharedCopiesLeak, Snapshot, End
  <2> QED
    BY <2>1, <2>2, <2>3, <2>4
<1>6. ASSUME NEW p \in Procs, Filter(p)
      PROVE  Meetings' /\ (\A q \in Procs : Mine(q)') /\ SealedIsFiltered' /\ OnlySharedCopiesLeak'
  <2>1. Meetings'
    BY <1>0, <1>6 DEF TypeOK, Meetings, Filter, Goto
  <2>2. \A q \in Procs : Mine(q)'
    BY <1>0, <1>6 DEF TypeOK, Meetings, Mine, Filter, Goto
  <2>3. SealedIsFiltered'
    BY <1>0, <1>6 DEF TypeOK, Mine, SealedIsFiltered, Filter, Goto
  <2>4. OnlySharedCopiesLeak'
    BY <1>0, <1>6 DEF TypeOK, SealedIsFiltered, OnlySharedCopiesLeak, Filter, Goto
  <2> QED
    BY <2>1, <2>2, <2>3, <2>4
<1>7. ASSUME NEW p \in Procs, Seal(p)
      PROVE  Meetings' /\ (\A q \in Procs : Mine(q)') /\ SealedIsFiltered' /\ OnlySharedCopiesLeak'
  <2>1. Meetings'
    BY <1>0, <1>7 DEF TypeOK, Meetings, Seal, Goto
  <2>2. \A q \in Procs : Mine(q)'
    BY <1>0, <1>7 DEF TypeOK, Meetings, Mine, Seal, Goto
  <2>3. SealedIsFiltered'
    BY <1>0, <1>7 DEF TypeOK, Mine, SealedIsFiltered, Seal, Goto
  <2>4. OnlySharedCopiesLeak'
    BY <1>0, <1>7 DEF TypeOK, SealedIsFiltered, OnlySharedCopiesLeak, Seal, Goto
  <2> QED
    BY <2>1, <2>2, <2>3, <2>4
<1>8. ASSUME NEW p \in Procs, Abort(p)
      PROVE  Meetings' /\ (\A q \in Procs : Mine(q)') /\ SealedIsFiltered' /\ OnlySharedCopiesLeak'
  <2>1. Meetings'
    BY <1>0, <1>8 DEF TypeOK, Meetings, Abort, End, Deletable, DeleteCopy
  <2>2. \A q \in Procs : Mine(q)'
    BY <1>0, <1>8 DEF TypeOK, Meetings, Mine, Abort, End, Deletable, DeleteCopy
  <2>3. SealedIsFiltered'
    BY <1>0, <1>8 DEF TypeOK, Mine, SealedIsFiltered, Abort, End, Deletable, DeleteCopy
  <2>4. OnlySharedCopiesLeak'
    BY <1>0, <1>8 DEF TypeOK, SealedIsFiltered, OnlySharedCopiesLeak, Abort, End, Deletable, DeleteCopy
  <2> QED
    BY <2>1, <2>2, <2>3, <2>4
<1>9. ASSUME NEW p \in Procs, Send(p)
      PROVE  Meetings' /\ (\A q \in Procs : Mine(q)') /\ SealedIsFiltered' /\ OnlySharedCopiesLeak'
  <2>1. Meetings'
    BY <1>0, <1>9 DEF TypeOK, Meetings, Send, End
  <2>2. \A q \in Procs : Mine(q)'
    BY <1>0, <1>9 DEF TypeOK, Meetings, Mine, Send, End
  <2>3. SealedIsFiltered'
    BY <1>0, <1>9 DEF TypeOK, Mine, SealedIsFiltered, Send, End
  <2>4. OnlySharedCopiesLeak'
    BY <1>0, <1>9 DEF TypeOK, SealedIsFiltered, OnlySharedCopiesLeak, Send, End
  <2> QED
    BY <2>1, <2>2, <2>3, <2>4
<1>10. ASSUME NEW p \in Procs, Crash(p)
      PROVE  Meetings' /\ (\A q \in Procs : Mine(q)') /\ SealedIsFiltered' /\ OnlySharedCopiesLeak'
  <2>1. Meetings'
    BY <1>0, <1>10 DEF TypeOK, Meetings, Crash, End
  <2>2. \A q \in Procs : Mine(q)'
    BY <1>0, <1>10 DEF TypeOK, Meetings, Mine, Crash, End
  <2>3. SealedIsFiltered'
    BY <1>0, <1>10 DEF TypeOK, Mine, SealedIsFiltered, Crash, End
  <2>4. OnlySharedCopiesLeak'
    BY <1>0, <1>10 DEF TypeOK, SealedIsFiltered, OnlySharedCopiesLeak, Crash, End
  <2> QED
    BY <2>1, <2>2, <2>3, <2>4
<1>11. ASSUME NEW n \in Names, DeleteSnapshot(n)
      PROVE  Meetings' /\ (\A q \in Procs : Mine(q)') /\ SealedIsFiltered' /\ OnlySharedCopiesLeak'
  <2>1. Meetings'
    BY <1>0, <1>11 DEF TypeOK, Meetings, DeleteSnapshot
  <2>2. \A q \in Procs : Mine(q)'
    BY <1>0, <1>11 DEF TypeOK, Meetings, Mine, DeleteSnapshot
  <2>3. SealedIsFiltered'
    BY <1>0, <1>11 DEF TypeOK, Mine, SealedIsFiltered, DeleteSnapshot
  <2>4. OnlySharedCopiesLeak'
    BY <1>0, <1>11 DEF TypeOK, SealedIsFiltered, OnlySharedCopiesLeak, DeleteSnapshot
  <2> QED
    BY <2>1, <2>2, <2>3, <2>4
<1>12. ASSUME NEW n \in Names, RemoveFilteredCopy(n)
      PROVE  Meetings' /\ (\A q \in Procs : Mine(q)') /\ SealedIsFiltered' /\ OnlySharedCopiesLeak'
  <2>1. Meetings'
    BY <1>0, <1>12 DEF TypeOK, Meetings, RemoveFilteredCopy, Deletable, DeleteCopy
  <2>2. \A q \in Procs : Mine(q)'
    BY <1>0, <1>12 DEF TypeOK, Meetings, Mine, RemoveFilteredCopy, Deletable, DeleteCopy
  <2>3. SealedIsFiltered'
    BY <1>0, <1>12 DEF TypeOK, Mine, SealedIsFiltered, RemoveFilteredCopy, Deletable, DeleteCopy
  <2>4. OnlySharedCopiesLeak'
    BY <1>0, <1>12 DEF TypeOK, SealedIsFiltered, OnlySharedCopiesLeak, RemoveFilteredCopy, Deletable, DeleteCopy
  <2> QED
    BY <2>1, <2>2, <2>3, <2>4
<1>13. CASE UNCHANGED vars
  BY <1>0, <1>13 DEF Meetings, Mine, SealedIsFiltered, OnlySharedCopiesLeak, vars
<1> QED
  BY <1>1, <1>2, <1>3, <1>4, <1>5, <1>6, <1>7, <1>8, <1>9, <1>10, <1>11, <1>12, <1>13 DEF Next, Start, Step

(* StagingInv holds before the first --send.                                *)
LEMMA StagingInit == Init => StagingInv
<1> SUFFICES ASSUME Init PROVE StagingInv
  OBVIOUS
<1>1. TypeOK
  BY StagingAssumption DEF Init, TypeOK, Steps
<1>2. Meetings /\ (\A p \in Procs : Mine(p)) /\ SealedIsFiltered /\ OnlySharedCopiesLeak
  BY DEF Init, Meetings, Mine, SealedIsFiltered, OnlySharedCopiesLeak
<1> QED
  BY <1>1, <1>2 DEF StagingInv

(* StagingInv always holds.                                                 *)
LEMMA StagingInvariant == Spec => []StagingInv
BY StagingInit, StagingStep, PTL DEF Spec

-----------------------------------------------------------------------------
(* The shape of the state: entries are left to remove only while a copy is  *)
(* filtered or after that failed, and only copies that exist are read-only. *)
THEOREM StagingTypeCorrect == Spec => []TypeOK
BY StagingInvariant, PTL DEF StagingInv

(* An excluded entry is sent only if two senders worked on one copy at      *)
(* once: read-only means filtered, whatever was interrupted before          *)
(* (replication.rs:1440-1487).                                              *)
THEOREM OnlySharedCopiesLeakCorrect == Spec => []OnlySharedCopiesLeak
BY StagingInvariant, PTL DEF StagingInv

(* With one sender at a time nothing excluded ever leaves the machine.      *)
THEOREM AloneNothingLeaves ==
    ASSUME \A p, q \in Procs : p = q
    PROVE  Spec => []NothingExcludedLeaves
<1> DEFINE Idle == \A p \in Procs : pc[p] = "idle" => cur[p] = NoName
           Inv  == StagingInv /\ Idle /\ shared = {}
<1>1. Init => Inv
  BY StagingInit DEF Init
<1>2. Inv /\ [Next]_vars => Inv'
  <2> SUFFICES ASSUME Inv, [Next]_vars PROVE Idle' /\ shared' = {}
    BY StagingStep
  <2>1. TypeOK
    BY DEF StagingInv
  <2>2. ASSUME NEW p \in Procs, NEW n \in Names, Begin(p, n) PROVE Idle' /\ shared' = {}
    BY <2>1, <2>2, StagingAssumption DEF TypeOK, Begin, NoName
  <2>3. ASSUME NEW p \in Procs, Step(p) \/ Crash(p) PROVE shared' = {}
    BY <2>3 DEF Step, Exists, IsReadOnly, Discard, Snapshot, Filter, Seal, Abort, Send, Crash, Quiet
  <2>4. ASSUME NEW p \in Procs, Step(p) \/ Crash(p) PROVE Idle'
    BY <2>1, <2>4 DEF TypeOK, Step, Exists, IsReadOnly, Discard, Snapshot, Filter, Seal, Abort, Send, Crash,
       Goto, End
  <2>5. ASSUME NEW n \in Names, DeleteSnapshot(n) \/ RemoveFilteredCopy(n) PROVE Idle' /\ shared' = {}
    BY <2>5 DEF DeleteSnapshot, RemoveFilteredCopy
  <2>6. CASE UNCHANGED vars
    BY <2>6 DEF vars
  <2> QED
    BY <2>2, <2>3, <2>4, <2>5, <2>6 DEF Next, Start
<1>3. Inv => NothingExcludedLeaves
  BY DEF StagingInv, TypeOK, OnlySharedCopiesLeak, NothingExcludedLeaves
<1> QED
  BY <1>1, <1>2, <1>3, PTL DEF Spec
=============================================================================
