---------------------------- MODULE RestoreProofs ----------------------------
(* Theorems about Pipe and Restore, for every value of their constants.     *)
EXTENDS Restore, TLAPS

USE PipeAssumption

-----------------------------------------------------------------------------
(* The transfer of one invocation.                                          *)

(* The errors pump met.                                                     *)
Broke(p) == readErr[p] \/ writeErr[p]

(* What the counters and the two commands of an invocation have come to, at  *)
(* each step of its program.                                                *)
Flow(p) ==
    /\ got[p] <= fed[p] /\ fed[p] <= read[p] /\ read[p] <= sent[p]
    /\ pump[p] \in {"off", "send"} => sent[p] = 0
    /\ pump[p] = "receive" => read[p] = 0
    /\ pump[p] = "read" => fed[p] = read[p]
    /\ pump[p] = "write" => read[p] = fed[p] + 1
    /\ pump[p] \in {"kill", "waitsend", "waitreceive"} /\ ~ Broke(p) => fed[p] = sent[p]
    /\ sender[p] = "ok" => sent[p] = Total
    /\ receiver[p] \in {"ok", "short"} => got[p] = fed[p]
    /\ receiver[p] = "short" => got[p] < Total

Roles(p) ==
    /\ sender[p] = "none" => pump[p] \in {"off", "send", "over"}
    /\ receiver[p] = "none" => pump[p] \in {"off", "send", "receive", "over"}
    /\ pump[p] \in {"off", "send"} => sender[p] = "none"
    /\ pump[p] \in {"off", "send", "receive"} => receiver[p] = "none"
    /\ pump[p] \in {"off", "send", "receive", "read", "write"} => ~ Broke(p)
    /\ receiver[p] \in {"ok", "short"} => ~ Open(p)
    /\ sender[p] \in {"broken", "killed"} => Broke(p) \/ result[p] = "spawn"
    /\ pump[p] \in {"kill", "waitsend", "waitreceive"} /\ ~ Broke(p) => ~ Alive(p)
    /\ pump[p] \in {"waitsend", "waitreceive", "over"} => ~ Alive(p)
    /\ pump[p] = "over" => ~ Taking(p)
    /\ writeErr[p] => receiver[p] = "failed"

Answer(p) ==
    /\ pump[p] = "over" <=> result[p] # "none"
    /\ result[p] = "ok" => got[p] = Total /\ sender[p] = "ok" /\ receiver[p] = "ok"
    /\ result[p] = "send" => readErr[p] \/ sender[p] = "failed"
    /\ result[p] = "receive" => readErr[p] \/ receiver[p] = "failed"

Transfer(p) == Flow(p) /\ Roles(p) /\ Answer(p)

PipeInv == PipeOK /\ \A p \in Procs : Transfer(p)

(* The steps that a transfer of p can take in Restore: those of Pipe, a      *)
(* command that fails without a fault, and the reset before and after it.    *)
SenderLost(p) ==
    /\ sender[p] = "run" /\ Sender(p, "failed")
    /\ UNCHANGED <<stream, receiver, pump, readErr, writeErr, result>>

ReceiverLost(p) ==
    /\ receiver[p] = "run" /\ \E s \in {"failed", "hung"} : Receiver(p, s)
    /\ UNCHANGED <<stream, sender, pump, readErr, writeErr, result>>

PipeMove(p) ==
    \/ Program(p) \/ SenderWrites(p) \/ SenderEnds(p)
    \/ ReceiverReads(p) \/ ReceiverSeesEnd(p) \/ SenderLost(p) \/ ReceiverLost(p)
    \/ Rewind(p, "off") \/ Rewind(p, "send")

(* The types of the transfer.                                               *)
PipeTypes ==
    /\ sent \in [Procs -> 0 .. Total] /\ read \in [Procs -> 0 .. Total]
    /\ fed \in [Procs -> 0 .. Total] /\ got \in [Procs -> 0 .. Total]
    /\ sender \in [Procs -> {"none", "run", "hung", "ok", "failed", "broken", "killed"}]
    /\ receiver \in [Procs -> {"none", "run", "hung", "ok", "failed", "short"}]
    /\ pump \in [Procs -> PumpSteps] /\ result \in [Procs -> Results]
    /\ readErr \in [Procs -> BOOLEAN] /\ writeErr \in [Procs -> BOOLEAN]

(* The pipe's type invariant, field by field.                               *)
LEMMA PipeOKTypes ==
    /\ PipeOK => PipeTypes
    /\ PipeTypes /\ (\A p \in Procs : Flow(p)) /\ faults \in 0 .. MaxFaults => PipeOK
BY DEF PipeOK, PipeTypes, Flow

(* A step of p leaves the transfers of the others alone.                    *)
LEMMA OthersKept ==
    ASSUME PipeTypes, NEW p \in Procs, PipeMove(p), NEW q \in Procs \ {p}, Transfer(q)
    PROVE  Transfer(q)'
<1>1. /\ sent'[q] = sent[q] /\ read'[q] = read[q] /\ fed'[q] = fed[q] /\ got'[q] = got[q]
      /\ sender'[q] = sender[q] /\ receiver'[q] = receiver[q] /\ pump'[q] = pump[q]
  BY DEF PipeTypes, PipeMove, Program, SpawnSend, SpawnReceive, PumpRead, PumpWrite, Kill, WaitSend,
     WaitReceive, SenderWrites, SenderEnds, ReceiverReads, ReceiverSeesEnd, SenderLost, ReceiverLost,
     Rewind, GiveUp, To, Sender, Receiver, stream, ends
<1>2. readErr'[q] = readErr[q] /\ writeErr'[q] = writeErr[q] /\ result'[q] = result[q]
  BY DEF PipeTypes, PipeMove, Program, SpawnSend, SpawnReceive, PumpRead, PumpWrite, Kill, WaitSend,
     WaitReceive, SenderWrites, SenderEnds, ReceiverReads, ReceiverSeesEnd, SenderLost, ReceiverLost,
     Rewind, GiveUp, To, Sender, Receiver, stream, ends
<1> QED
  BY <1>1, <1>2 DEF Transfer, Flow, Roles, Answer, Broke, Open, Alive, Taking

(* Its own step keeps the types and what holds of its transfer.             *)
LEMMA OwnStep ==
    ASSUME PipeTypes, NEW p \in Procs, PipeMove(p), Transfer(p)
    PROVE  PipeTypes' /\ Transfer(p)'
<1> USE DEF To, Sender, Receiver, stream, ends
<1>0. /\ sent[p] \in 0 .. Total /\ read[p] \in 0 .. Total
      /\ fed[p] \in 0 .. Total /\ got[p] \in 0 .. Total
      /\ Flow(p) /\ Roles(p) /\ Answer(p)
  BY DEF PipeTypes, Transfer
<1>1. CASE SpawnSend(p)
  <2>1. PipeTypes'
    <3>1. sender' = [sender EXCEPT ![p] = "run"] \/ sender' = sender
      BY <1>1 DEF SpawnSend
    <3>2. result' = [result EXCEPT ![p] = "spawn"] \/ result' = result
      BY <1>1 DEF GiveUp, SpawnSend
    <3>3. pump' = [pump EXCEPT ![p] = "receive"] \/ pump' = [pump EXCEPT ![p] = "over"]
      BY <1>1 DEF GiveUp, SpawnSend
    <3> QED
      BY <1>1, <3>1, <3>2, <3>3 DEF PipeTypes, PumpSteps, Results, SpawnSend
  <2>2. Flow(p)'
    BY <1>0, <1>1 DEF PipeTypes, Flow, Roles, Broke, Open, Alive, Taking, GiveUp, SpawnSend
  <2>3. Roles(p)'
    BY <1>0, <1>1 DEF PipeTypes, Roles, Answer, Broke, Open, Alive, Taking, GiveUp, SpawnSend
  <2>4. Answer(p)'
    BY <1>0, <1>1 DEF PipeTypes, Flow, Roles, Answer, Broke, Open, Alive, Taking, GiveUp, SpawnSend
  <2> QED
    BY <2>1, <2>2, <2>3, <2>4 DEF Transfer
<1>2. CASE SpawnReceive(p)
  <2>1. PipeTypes'
    BY <1>0, <1>2 DEF PipeTypes, PumpSteps, Results, Flow, GiveUp, SpawnReceive
  <2>2. Flow(p)'
    BY <1>0, <1>2 DEF PipeTypes, Flow, Roles, Broke, Open, Alive, Taking, GiveUp, SpawnReceive
  <2>3. Roles(p)'
    BY <1>0, <1>2 DEF PipeTypes, Roles, Answer, Broke, Open, Alive, Taking, GiveUp, SpawnReceive
  <2>4. Answer(p)'
    BY <1>0, <1>2 DEF PipeTypes, Flow, Roles, Answer, Broke, Open, Alive, Taking, GiveUp, SpawnReceive
  <2> QED
    BY <2>1, <2>2, <2>3, <2>4 DEF Transfer
<1>3. CASE PumpRead(p)
  <2>1. PipeTypes'
    <3>1. read' \in [Procs -> 0 .. Total]
      BY <1>0, <1>3 DEF PipeTypes, Flow, PumpRead
    <3>2. pump' \in [Procs -> PumpSteps]
      BY <1>3 DEF PipeTypes, PumpSteps, PumpRead
    <3>3. readErr' = [readErr EXCEPT ![p] = TRUE] \/ readErr' = readErr
      BY <1>3 DEF PumpRead
    <3> QED
      BY <1>3, <3>1, <3>2, <3>3 DEF PipeTypes, PumpRead
  <2>2. Flow(p)'
    BY <1>0, <1>3 DEF PipeTypes, Flow, Roles, Broke, Open, Alive, Taking, PumpRead
  <2>3. Roles(p)'
    BY <1>0, <1>3 DEF PipeTypes, Roles, Answer, Broke, Open, Alive, Taking, PumpRead
  <2>4. Answer(p)'
    BY <1>0, <1>3 DEF PipeTypes, Flow, Roles, Answer, Broke, Open, Alive, Taking, PumpRead
  <2> QED
    BY <2>1, <2>2, <2>3, <2>4 DEF Transfer
<1>4. CASE PumpWrite(p)
  <2>1. PipeTypes'
    <3>1. fed' \in [Procs -> 0 .. Total]
      BY <1>0, <1>4 DEF PipeTypes, Flow, PumpWrite
    <3>2. pump' \in [Procs -> PumpSteps]
      BY <1>4 DEF PipeTypes, PumpSteps, PumpWrite
    <3>3. writeErr' = [writeErr EXCEPT ![p] = TRUE] \/ writeErr' = writeErr
      BY <1>4 DEF PumpWrite
    <3> QED
      BY <1>4, <3>1, <3>2, <3>3 DEF PipeTypes, PumpWrite
  <2>2. Flow(p)'
    BY <1>0, <1>4 DEF PipeTypes, Flow, Roles, Broke, Open, Alive, Taking, PumpWrite
  <2>3. Roles(p)'
    BY <1>0, <1>4 DEF PipeTypes, Roles, Answer, Broke, Open, Alive, Taking, PumpWrite
  <2>4. Answer(p)'
    BY <1>0, <1>4 DEF PipeTypes, Flow, Roles, Answer, Broke, Open, Alive, Taking, PumpWrite
  <2> QED
    BY <2>1, <2>2, <2>3, <2>4 DEF Transfer
<1>5. CASE Kill(p)
  <2>1. PipeTypes'
    BY <1>0, <1>5 DEF PipeTypes, PumpSteps, Results, Flow, Kill
  <2>2. Flow(p)'
    BY <1>0, <1>5 DEF PipeTypes, Flow, Roles, Broke, Open, Alive, Taking, Kill
  <2>3. Roles(p)'
    BY <1>0, <1>5 DEF PipeTypes, Roles, Answer, Broke, Open, Alive, Taking, Kill
  <2>4. Answer(p)'
    BY <1>0, <1>5 DEF PipeTypes, Flow, Roles, Answer, Broke, Open, Alive, Taking, Kill
  <2> QED
    BY <2>1, <2>2, <2>3, <2>4 DEF Transfer
<1>6. CASE WaitSend(p)
  <2>1. PipeTypes'
    BY <1>0, <1>6 DEF PipeTypes, PumpSteps, Results, Flow, WaitSend
  <2>2. Flow(p)'
    BY <1>0, <1>6 DEF PipeTypes, Flow, Roles, Broke, Open, Alive, Taking, WaitSend
  <2>3. Roles(p)'
    BY <1>0, <1>6 DEF PipeTypes, Roles, Answer, Broke, Open, Alive, Taking, WaitSend
  <2>4. Answer(p)'
    BY <1>0, <1>6 DEF PipeTypes, Flow, Roles, Answer, Broke, Open, Alive, Taking, WaitSend
  <2> QED
    BY <2>1, <2>2, <2>3, <2>4 DEF Transfer
<1>7. CASE WaitReceive(p)
  <2>1. PipeTypes'
    BY <1>0, <1>7 DEF PipeTypes, PumpSteps, Results, Flow, Verdict, WaitReceive
  <2>2. Flow(p)'
    BY <1>0, <1>7 DEF PipeTypes, Flow, Roles, Broke, Open, Alive, Taking, Verdict, WaitReceive
  <2>3. Roles(p)'
    BY <1>0, <1>7 DEF PipeTypes, Roles, Answer, Broke, Open, Alive, Taking, Verdict, WaitReceive
  <2>4. Answer(p)'
    BY <1>0, <1>7 DEF PipeTypes, Flow, Roles, Answer, Broke, Open, Alive, Taking, Verdict, WaitReceive
  <2> QED
    BY <2>1, <2>2, <2>3, <2>4 DEF Transfer
<1>8. CASE SenderWrites(p)
  <2>1. PipeTypes'
    BY <1>0, <1>8 DEF PipeTypes, PumpSteps, Results, Flow, SenderWrites
  <2>2. Flow(p)'
    BY <1>0, <1>8 DEF PipeTypes, Flow, Roles, Broke, Open, Alive, Taking, SenderWrites
  <2>3. Roles(p)'
    BY <1>0, <1>8 DEF PipeTypes, Roles, Answer, Broke, Open, Alive, Taking, SenderWrites
  <2>4. Answer(p)'
    BY <1>0, <1>8 DEF PipeTypes, Flow, Roles, Answer, Broke, Open, Alive, Taking, SenderWrites
  <2> QED
    BY <2>1, <2>2, <2>3, <2>4 DEF Transfer
<1>9. CASE SenderEnds(p)
  <2>1. PipeTypes'
    BY <1>0, <1>9 DEF PipeTypes, PumpSteps, Results, Flow, SenderEnds
  <2>2. Flow(p)'
    BY <1>0, <1>9 DEF PipeTypes, Flow, Roles, Broke, Open, Alive, Taking, SenderEnds
  <2>3. Roles(p)'
    <3>1. /\ sender[p] = "run" /\ sender'[p] \in {"ok", "failed", "hung", "broken"}
          /\ sender'[p] = "broken" => ~ Open(p)
          /\ UNCHANGED <<receiver, pump, readErr, writeErr, result>>
      BY <1>9 DEF PipeTypes, SenderEnds
    <3>2. pump[p] \notin {"off", "send", "waitsend", "waitreceive", "over"} /\ pump[p] \in PumpSteps
      BY <1>0, <3>1 DEF PipeTypes, Roles, Alive
    <3>3. sender'[p] = "broken" => pump[p] = "kill" /\ Broke(p)
      BY <1>0, <3>1, <3>2 DEF PumpSteps, Roles, Open, Alive, Taking
    <3> QED
      BY <1>0, <3>1, <3>2, <3>3 DEF Roles, Broke, Open, Alive, Taking
  <2>4. Answer(p)'
    BY <1>0, <1>9 DEF PipeTypes, Flow, Roles, Answer, Broke, Open, Alive, Taking, SenderEnds
  <2> QED
    BY <2>1, <2>2, <2>3, <2>4 DEF Transfer
<1>10. CASE ReceiverReads(p)
  <2>1. PipeTypes'
    BY <1>0, <1>10 DEF PipeTypes, PumpSteps, Results, Flow, ReceiverReads
  <2>2. Flow(p)'
    BY <1>0, <1>10 DEF PipeTypes, Flow, Roles, Broke, Open, Alive, Taking, ReceiverReads
  <2>3. Roles(p)'
    BY <1>0, <1>10 DEF PipeTypes, Roles, Answer, Broke, Open, Alive, Taking, ReceiverReads
  <2>4. Answer(p)'
    BY <1>0, <1>10 DEF PipeTypes, Flow, Roles, Answer, Broke, Open, Alive, Taking, ReceiverReads
  <2> QED
    BY <2>1, <2>2, <2>3, <2>4 DEF Transfer
<1>11. CASE ReceiverSeesEnd(p)
  <2>1. PipeTypes'
    BY <1>0, <1>11 DEF PipeTypes, PumpSteps, Results, Flow, ReceiverSeesEnd
  <2>2. Flow(p)'
    BY <1>0, <1>11 DEF PipeTypes, Flow, Roles, Broke, Open, Alive, Taking, ReceiverSeesEnd
  <2>3. Roles(p)'
    BY <1>0, <1>11 DEF PipeTypes, Roles, Answer, Broke, Open, Alive, Taking, ReceiverSeesEnd
  <2>4. Answer(p)'
    BY <1>0, <1>11 DEF PipeTypes, Flow, Roles, Answer, Broke, Open, Alive, Taking, ReceiverSeesEnd
  <2> QED
    BY <2>1, <2>2, <2>3, <2>4 DEF Transfer
<1>12. CASE SenderLost(p)
  <2>1. PipeTypes'
    BY <1>0, <1>12 DEF PipeTypes, PumpSteps, Results, Flow, SenderLost
  <2>2. Flow(p)'
    BY <1>0, <1>12 DEF PipeTypes, Flow, Roles, Broke, Open, Alive, Taking, SenderLost
  <2>3. Roles(p)'
    BY <1>0, <1>12 DEF PipeTypes, Roles, Answer, Broke, Open, Alive, Taking, SenderLost
  <2>4. Answer(p)'
    BY <1>0, <1>12 DEF PipeTypes, Flow, Roles, Answer, Broke, Open, Alive, Taking, SenderLost
  <2> QED
    BY <2>1, <2>2, <2>3, <2>4 DEF Transfer
<1>13. CASE ReceiverLost(p)
  <2>1. PipeTypes'
    BY <1>0, <1>13 DEF PipeTypes, PumpSteps, Results, Flow, ReceiverLost
  <2>2. Flow(p)'
    BY <1>0, <1>13 DEF PipeTypes, Flow, Roles, Broke, Open, Alive, Taking, ReceiverLost
  <2>3. Roles(p)'
    BY <1>0, <1>13 DEF PipeTypes, Roles, Answer, Broke, Open, Alive, Taking, ReceiverLost
  <2>4. Answer(p)'
    BY <1>0, <1>13 DEF PipeTypes, Flow, Roles, Answer, Broke, Open, Alive, Taking, ReceiverLost
  <2> QED
    BY <2>1, <2>2, <2>3, <2>4 DEF Transfer
<1>14. ASSUME NEW step \in {"off", "send"}, Rewind(p, step) PROVE PipeTypes' /\ Transfer(p)'
  <2>1. PipeTypes'
    BY <1>14 DEF PipeTypes, PumpSteps, Results, Rewind
  <2>2. Transfer(p)'
    BY <1>14 DEF PipeTypes, Transfer, Flow, Roles, Answer, Broke, Open, Alive, Taking, Rewind
  <2> QED
    BY <2>1, <2>2
<1> QED
  BY <1>1, <1>2, <1>3, <1>4, <1>5, <1>6, <1>7, <1>8, <1>9, <1>10, <1>11, <1>12, <1>13, <1>14 DEF PipeMove, Program

-----------------------------------------------------------------------------
(* The restores.                                                            *)
USE RestoreAssumption

(* A received copy has the invocation that made it on record, and the        *)
(* receive of a killed one writes into a copy that is there.                 *)
Copied ==
    /\ \A n \in Names : by[n] # Nobody => copy[n] # "none"
    /\ \A o \in orphans : o.made => copy[o.name] # "none"

(* Whoever works on the same snapshot or target as somebody else is known to *)
(* have been crossed.                                                        *)
Watched == \A p \in Procs : Step(p) # "idle" /\ Rivals(p) # {} => p \in crossed

(* Where the transfer of an invocation is while it is at each of its steps.  *)
Phase(p) ==
    /\ Step(p) # "transfer" => pump[p] \in {"off", "over"}
    /\ Step(p) \in {"idle", "local", "free", "remote", "leftover", "mkdir"} => pump[p] = "off"
    /\ ~ pc[p].remote => pump[p] = "off"
    /\ Step(p) \in {"local", "free", "remote", "leftover", "mkdir", "transfer", "verify",
                    "drop", "rmdir", "undo"} => pc[p].remote
    /\ pc[p].remote /\ Step(p) \in {"verify", "target", "source", "snapshot", "drop", "rmdir"}
           => result[p] = "ok"

(* What an invocation that nobody crossed has achieved at each of its steps. *)
Achieved(p) ==
    /\ Step(p) \in {"source", "snapshot"} => at[Place(p)] = Nothing
    /\ Step(p) = "transfer" /\ receiver[p] = "ok" /\ got[p] = Total => copy[Name(p)] = "whole"
    /\ pc[p].remote /\ Step(p) \in {"verify", "target", "source", "snapshot"}
           => copy[Name(p)] = "whole"
    /\ Step(p) \in {"drop", "rmdir", "done"} => Restored(p)
    /\ pc[p].remote /\ Step(p) \in {"rmdir", "done"} /\ Name(p) \notin stray
           => copy[Name(p)] = "none"

RestoreInv ==
    /\ TypeOK /\ Copied /\ Watched
    /\ \A p \in Procs : Transfer(p) /\ Phase(p) /\ (p \in crossed \/ Achieved(p))

(* Restore's state without its transfers.                                   *)
RestoreTypes ==
    /\ here \subseteq Names /\ replicas \subseteq Names /\ dir \in BOOLEAN
    /\ copy \in [Names -> States] /\ by \in [Names -> Procs \union {Nobody}]
    /\ orphans \subseteq [name : Names, made : BOOLEAN, whole : BOOLEAN]
    /\ at \in [Places -> [name : Names \union {0}, state : States]]
    /\ nested \subseteq {t \in Places : at[t] # Nothing}
    /\ pc \in [Procs -> [step : Steps, remote : BOOLEAN]]
    /\ crossed \subseteq Procs /\ stray \subseteq Names
    /\ \A n \in Names : copy[n] # "none" => dir

(* TypeOK of a restore is that of its pipe and that of its own variables.   *)
LEMMA TypeOKParts == TypeOK <=> PipeOK /\ RestoreTypes
BY DEF TypeOK, RestoreTypes

(* Every invocation wants a snapshot at a place.                             *)
LEMMA WantType == \A p \in Procs : Name(p) \in Names /\ Place(p) \in Places
BY DEF Name, Place

(* Going to a step moves one invocation and keeps what it restores from.     *)
LEMMA GotoStep ==
    ASSUME RestoreTypes, NEW p \in Procs, NEW s \in Steps, Goto(p, s)
    PROVE  /\ pc' \in [Procs -> [step : Steps, remote : BOOLEAN]]
           /\ Step(p)' = s /\ pc'[p].remote = pc[p].remote
BY DEF RestoreTypes, Goto, Step

(* Only an invocation that waits for its transfer has one that runs.         *)
LEMMA TransferRuns ==
    ASSUME RestoreInv, NEW p \in Procs,
           pump[p] \notin {"off", "over"} \/ sender[p] = "run" \/ receiver[p] = "run"
    PROVE  Step(p) = "transfer" /\ pc[p].remote
BY DEF RestoreInv, Phase, Transfer, Roles, Alive, Taking

(* A step of an invocation is a step of its transfer, or leaves it alone.    *)
LEMMA WorkMoves ==
    ASSUME RestoreInv, NEW p \in Procs, Work(p) \/ Crash(p)
    PROVE  (PipeMove(p) \/ UNCHANGED transfer) /\ faults' \in 0 .. MaxFaults
<1>1. PipeMove(p) \/ UNCHANGED transfer
  <2>1. CASE Running(p) \/ Sending(p) \/ SenderLosesReplica(p) \/ Receiving(p)
             \/ ReceiverLosesCopy(p) \/ Received(p)
    BY <2>1 DEF Running, Sending, SenderLosesReplica, Receiving, ReceiverLosesCopy, Received,
       ReceiverFails, PipeMove, SenderLost, ReceiverLost, Receiver
  <2>2. CASE MkDir(p) \/ End(p) \/ Crash(p)
    BY <2>2 DEF MkDir, End, Crash, PipeMove
  <2>3. CASE Local(p) \/ Free(p) \/ Remote(p) \/ Leftover(p) \/ Transferred(p) \/ Verify(p)
             \/ Target(p) \/ HasSource(p) \/ Snapshot(p) \/ Drop(p) \/ RmDir(p)
    BY <2>3 DEF Local, Free, Remote, Check, Leftover, Transferred, Verify, Target, HasSource, Snapshot,
       Drop, RmDir, pipeVars
  <2> QED
    BY <2>1, <2>2, <2>3 DEF Work
<1>2. faults' = faults \/ Fault
  <2>1. CASE Program(p)
    BY <2>1 DEF Program, SpawnSend, SpawnReceive, GiveUp, PumpRead, PumpWrite, Kill, WaitSend, WaitReceive
  <2>2. CASE SenderEnds(p) \/ ReceiverFails(p) \/ Sending(p) \/ SenderLosesReplica(p)
             \/ Receiving(p) \/ ReceiverLosesCopy(p) \/ Received(p)
    BY <2>2 DEF Sending, SenderLosesReplica, Receiving, ReceiverLosesCopy, Received,
       SenderWrites, SenderEnds, ReceiverReads, ReceiverSeesEnd, ReceiverFails
  <2>3. CASE Local(p) \/ Free(p) \/ Remote(p) \/ Leftover(p) \/ Transferred(p) \/ Verify(p)
             \/ Target(p) \/ HasSource(p) \/ Snapshot(p) \/ Drop(p) \/ RmDir(p)
             \/ MkDir(p) \/ End(p) \/ Crash(p)
    BY <2>3 DEF Local, Free, Remote, Check, Leftover, Transferred, Verify, Target, HasSource, Snapshot,
       Drop, RmDir, MkDir, End, Crash, pipeVars
  <2> QED
    BY <2>1, <2>2, <2>3 DEF Work, Running
<1> QED
  BY <1>1, <1>2 DEF Fault, RestoreInv, TypeOK, PipeOK

(* So it keeps what holds of all transfers.                                  *)
LEMMA WorkKeepsTransfers ==
    ASSUME RestoreInv, NEW p \in Procs, Work(p) \/ Crash(p)
    PROVE  PipeOK' /\ \A q \in Procs : Transfer(q)'
<1>0. PipeTypes /\ \A q \in Procs : Transfer(q)
  BY PipeOKTypes DEF RestoreInv, TypeOK
<1>1. PipeTypes' /\ \A q \in Procs : Transfer(q)'
  <2>1. CASE PipeMove(p)
    BY <1>0, <2>1, OwnStep, OthersKept
  <2>2. CASE UNCHANGED transfer
    BY <1>0, <2>2 DEF transfer, stream, ends, PipeTypes, Transfer, Flow, Roles, Answer, Broke, Open, Alive, Taking
  <2> QED
    BY <2>1, <2>2, WorkMoves
<1> QED
  BY <1>1, WorkMoves DEF Transfer, PipeOK, PipeTypes, Flow

(* What a step of an invocation leaves as it was: the other invocations, and *)
(* the copies and targets that are not its own.                              *)
Apart(p) ==
    /\ crossed' = crossed
    /\ \A q \in Procs \ {p} :
           /\ pc'[q] = pc[q] /\ pump'[q] = pump[q] /\ result'[q] = result[q]
           /\ receiver'[q] = receiver[q] /\ got'[q] = got[q]
    /\ \A n \in Names \ {Name(p)} : copy'[n] = copy[n] /\ (n \in stray' <=> n \in stray)
    /\ \A t \in Places \ {Place(p)} : at'[t] = at[t] /\ (t \in nested' <=> t \in nested)

(* No step of one restore touches what another holds.                       *)
LEMMA WorkApart == ASSUME RestoreInv, NEW p \in Procs, Work(p) \/ Crash(p) PROVE Apart(p)
<1>0. PipeTypes /\ RestoreTypes /\ Name(p) \in Names /\ Place(p) \in Places
  BY PipeOKTypes, TypeOKParts, WantType DEF RestoreInv
<1>1. \A q \in Procs \ {p} : /\ pump'[q] = pump[q] /\ result'[q] = result[q]
                             /\ receiver'[q] = receiver[q] /\ got'[q] = got[q]
  <2>1. CASE PipeMove(p)
    BY <1>0, <2>1 DEF PipeTypes, PipeMove, Program, SpawnSend, SpawnReceive, PumpRead, PumpWrite, Kill,
       WaitSend, WaitReceive, SenderWrites, SenderEnds, ReceiverReads, ReceiverSeesEnd, SenderLost,
       ReceiverLost, Rewind, GiveUp, To, Sender, Receiver, stream, ends
  <2>2. CASE UNCHANGED transfer
    BY <2>2 DEF transfer, stream, ends
  <2> QED
    BY <2>1, <2>2, WorkMoves
<1>2. \A q \in Procs \ {p} : pc'[q] = pc[q]
  BY <1>0 DEF RestoreTypes, Goto, Work, Crash, Local, Free, Remote, Check, Leftover, MkDir, Running,
     Sending, SenderLosesReplica, Receiving, ReceiverLosesCopy, Received, Transferred, Verify, Target,
     HasSource, Snapshot, Drop, RmDir, End
<1>3. crossed' = crossed
  BY DEF ghosts, Work, Crash, Local, Free, Remote, Check, Leftover, MkDir, Running, Sending,
     SenderLosesReplica, Receiving, ReceiverLosesCopy, Received, Transferred, Verify, Target, HasSource,
     Snapshot, Drop, RmDir, End
<1>4. \A n \in Names \ {Name(p)} : copy'[n] = copy[n] /\ (n \in stray' <=> n \in stray)
  BY <1>0 DEF RestoreTypes, disk, ghosts, DropCopy, Work, Crash, Local, Free, Remote, Check, Leftover,
     MkDir, Running, Sending, SenderLosesReplica, Receiving, ReceiverLosesCopy, Received, Transferred,
     Verify, Target, HasSource, Snapshot, Drop, RmDir, End
<1>5. \A t \in Places \ {Place(p)} : at'[t] = at[t] /\ (t \in nested' <=> t \in nested)
  BY <1>0 DEF RestoreTypes, disk, Work, Crash, Local, Free, Remote, Check, Leftover,
     MkDir, Running, Sending, SenderLosesReplica, Receiving, ReceiverLosesCopy, Received, Transferred,
     Verify, Target, HasSource, Snapshot, Drop, RmDir, End
<1> QED
  BY <1>1, <1>2, <1>3, <1>4, <1>5 DEF Apart

(* Nobody else's achievement is undone by it: an invocation that was not     *)
(* crossed works on another snapshot and another target.                     *)
LEMMA OthersAchieve ==
    ASSUME RestoreInv, NEW p \in Procs, Apart(p), Step(p) # "idle", NEW q \in Procs \ {p}
    PROVE  Phase(q)' /\ (q \in crossed' \/ Achieved(q)')
<1>1. Phase(q) /\ (q \in crossed \/ Achieved(q)) /\ Name(q) \in Names /\ Place(q) \in Places
  BY WantType DEF RestoreInv
<1>2. Phase(q)'
  BY <1>1 DEF Apart, Phase, Step
<1>3. CASE q \in crossed
  BY <1>2, <1>3 DEF Apart
<1>4. CASE q \notin crossed /\ Step(q) = "idle"
  BY <1>2, <1>4 DEF Apart, Achieved, Step
<1>5. CASE q \notin crossed /\ Step(q) # "idle"
  <2>1. Name(q) # Name(p) /\ Place(q) # Place(p)
    BY <1>5 DEF RestoreInv, Watched, Rivals
  <2> QED
    BY <1>1, <1>2, <1>5, <2>1 DEF Apart, Achieved, Restored, Step
<1> QED
  BY <1>3, <1>4, <1>5

(* Nor does it make two invocations rivals that were not.                    *)
LEMMA NoNewRivals ==
    ASSUME Watched, crossed' = crossed, \A q \in Procs : Step(q)' # "idle" => Step(q) # "idle"
    PROVE  Watched'
BY DEF Watched, Rivals, Step, Name, Place

(* What an invocation does keeps the types, the books on copies, and its own *)
(* place and achievement.                                                    *)
LEMMA OwnWork ==
    ASSUME RestoreInv, NEW p \in Procs, Work(p) \/ Crash(p)
    PROVE  RestoreTypes' /\ Copied' /\ Phase(p)' /\ (p \in crossed' \/ Achieved(p)')
<1>0. /\ RestoreTypes /\ Copied /\ Phase(p) /\ Transfer(p) /\ (p \in crossed \/ Achieved(p))
      /\ Name(p) \in Names /\ Place(p) \in Places /\ PipeTypes
      /\ pc[p] \in [step : Steps, remote : BOOLEAN]
  BY TypeOKParts, PipeOKTypes, WantType DEF RestoreInv, RestoreTypes
<1>a. crossed' = crossed
  BY WorkApart DEF Apart
<1>1. CASE Local(p)
  <2>0. pc' \in [Procs -> [step : Steps, remote : BOOLEAN]]
    BY <1>0, <1>1, GotoStep DEF Steps, Local, Check
  <2>a. /\ Step(p) = "local" /\ Step(p)' \in {"free", "failed"} /\ pc'[p].remote = pc[p].remote
        /\ UNCHANGED <<pump, result, receiver, got, copy, at, nested, stray>>
    BY <1>0, <1>1, GotoStep DEF Steps, Local, Check, pipeVars, transfer, stream, ends, disk, ghosts
  <2>1. RestoreTypes'
    BY <1>0, <1>1, <2>0 DEF RestoreTypes, Copied, Owns, Nobody, States, Check, Local, pipeVars, disk, ghosts
  <2>2. Copied'
    BY <1>0, <1>1 DEF RestoreTypes, Copied, Owns, Check, Local, pipeVars, disk, ghosts
  <2>3. Phase(p)'
    BY <1>0, <2>a DEF Phase
  <2>4. ASSUME p \notin crossed PROVE Achieved(p)'
    BY <1>0, <2>a, <2>4 DEF Achieved, Restored
  <2> QED
    BY <1>a, <2>1, <2>2, <2>3, <2>4
<1>2. CASE Free(p)
  <2>0. pc' \in [Procs -> [step : Steps, remote : BOOLEAN]]
    BY <1>0, <1>2, GotoStep DEF Steps, Free, Check
  <2>a. /\ Step(p) = "free" /\ Step(p)' \in {"remote", "failed"} /\ pc'[p].remote = pc[p].remote
        /\ UNCHANGED <<pump, result, receiver, got, copy, at, nested, stray>>
    BY <1>0, <1>2, GotoStep DEF Steps, Free, Check, pipeVars, transfer, stream, ends, disk, ghosts
  <2>1. RestoreTypes'
    BY <1>0, <1>2, <2>0 DEF RestoreTypes, Copied, Owns, Nobody, States, Check, Free, pipeVars, disk, ghosts
  <2>2. Copied'
    BY <1>0, <1>2 DEF RestoreTypes, Copied, Owns, Check, Free, pipeVars, disk, ghosts
  <2>3. Phase(p)'
    BY <1>0, <2>a DEF Phase
  <2>4. ASSUME p \notin crossed PROVE Achieved(p)'
    BY <1>0, <2>a, <2>4 DEF Achieved, Restored
  <2> QED
    BY <1>a, <2>1, <2>2, <2>3, <2>4
<1>3. CASE Remote(p)
  <2>0. pc' \in [Procs -> [step : Steps, remote : BOOLEAN]]
    BY <1>0, <1>3, GotoStep DEF Steps, Remote, Check
  <2>a. /\ Step(p) = "remote" /\ Step(p)' \in {"leftover", "failed"} /\ pc'[p].remote = pc[p].remote
        /\ UNCHANGED <<pump, result, receiver, got, copy, at, nested, stray>>
    BY <1>0, <1>3, GotoStep DEF Steps, Remote, Check, pipeVars, transfer, stream, ends, disk, ghosts
  <2>1. RestoreTypes'
    BY <1>0, <1>3, <2>0 DEF RestoreTypes, Copied, Owns, Nobody, States, Check, Remote, pipeVars, disk, ghosts
  <2>2. Copied'
    BY <1>0, <1>3 DEF RestoreTypes, Copied, Owns, Check, Remote, pipeVars, disk, ghosts
  <2>3. Phase(p)'
    BY <1>0, <2>a DEF Phase
  <2>4. ASSUME p \notin crossed PROVE Achieved(p)'
    BY <1>0, <2>a, <2>4 DEF Achieved, Restored
  <2> QED
    BY <1>a, <2>1, <2>2, <2>3, <2>4
<1>4. CASE Leftover(p)
  <2>0. pc' \in [Procs -> [step : Steps, remote : BOOLEAN]]
    BY <1>0, <1>4, GotoStep DEF Steps, Leftover
  <2>a. /\ Step(p) = "leftover" /\ Step(p)' \in {"mkdir", "failed"} /\ pc'[p].remote = pc[p].remote
        /\ UNCHANGED <<pump, result>>
    BY <1>0, <1>4, GotoStep DEF Steps, Leftover, transfer
  <2>1. RestoreTypes'
    <3>1. copy' \in [Names -> States] /\ by' \in [Names -> Procs \union {Nobody}]
      BY <1>0, <1>4 DEF RestoreTypes, States, Leftover, DropCopy
    <3>2. orphans' \subseteq orphans /\ (\A n \in Names : copy'[n] # "none" => copy[n] # "none")
      BY <1>0, <1>4 DEF RestoreTypes, Leftover, DropCopy
    <3>3. crossed' = crossed /\ stray' \subseteq stray \union {Name(p)}
      BY <1>4 DEF Leftover, ghosts
    <3> QED
      BY <1>0, <1>4, <2>0, <3>1, <3>2, <3>3 DEF RestoreTypes, Leftover
  <2>2. Copied'
    BY <1>0, <1>4 DEF RestoreTypes, Copied, Owns, Leftover, DropCopy
  <2>3. Phase(p)'
    BY <1>0, <2>a DEF Phase
  <2>4. ASSUME p \notin crossed PROVE Achieved(p)'
    BY <1>0, <2>a, <2>4 DEF Achieved, Restored
  <2> QED
    BY <1>a, <2>1, <2>2, <2>3, <2>4
<1>5. CASE MkDir(p)
  <2>0. pc' \in [Procs -> [step : Steps, remote : BOOLEAN]]
    BY <1>0, <1>5, GotoStep DEF Steps, MkDir
  <2>a. /\ Step(p) = "mkdir" /\ Step(p)' = "transfer" /\ pc'[p].remote = pc[p].remote
        /\ pump'[p] = "send" /\ receiver'[p] = "none"
    BY <1>0, <1>5, GotoStep DEF Steps, MkDir, Rewind, To, Receiver, PipeTypes
  <2>1. RestoreTypes'
    <3>1. dir' = TRUE /\ UNCHANGED <<here, replicas, copy, by, orphans, at, nested, crossed, stray>>
      BY <1>5 DEF MkDir, ghosts
    <3> QED
      BY <1>0, <2>0, <3>1 DEF RestoreTypes
  <2>2. Copied'
    BY <1>0, <1>5 DEF RestoreTypes, Copied, Owns, MkDir, ghosts
  <2>3. Phase(p)'
    BY <1>0, <2>a DEF Phase
  <2>4. ASSUME p \notin crossed PROVE Achieved(p)'
    BY <1>0, <2>a, <2>4 DEF Achieved, Restored
  <2> QED
    BY <1>a, <2>1, <2>2, <2>3, <2>4
<1>6. CASE Running(p)
  <2>0. Step(p) = "transfer" /\ pc[p].remote
    BY <1>0, <1>6, TransferRuns DEF Running, Program, SpawnSend, SpawnReceive, PumpRead, PumpWrite, Kill,
       WaitSend, WaitReceive, SenderEnds, ReceiverFails
  <2>a. /\ pc' = pc /\ UNCHANGED <<copy, at, nested, stray>>
        /\ (receiver'[p] = "ok" => receiver[p] = "ok") /\ got' = got
    BY <1>0, <1>6 DEF Running, disk, ghosts, PipeTypes, Program, SpawnSend, SpawnReceive, GiveUp, PumpRead, PumpWrite, Kill, WaitSend,
       WaitReceive, SenderEnds, ReceiverFails, Receiver, stream, ends
  <2>1. RestoreTypes'
    BY <1>0, <1>6, <2>0 DEF RestoreTypes, Copied, Owns, Nobody, States, Running, disk, ghosts
  <2>2. Copied'
    BY <1>0, <1>6 DEF RestoreTypes, Copied, Owns, Running, disk, ghosts
  <2>3. Phase(p)'
    BY <1>0, <2>0, <2>a DEF Phase, Step
  <2>4. ASSUME p \notin crossed PROVE Achieved(p)'
    BY <1>0, <2>0, <2>a, <2>4 DEF Achieved, Restored, Step
  <2> QED
    BY <1>a, <2>1, <2>2, <2>3, <2>4
<1>7. CASE Sending(p)
  <2>0. Step(p) = "transfer" /\ pc[p].remote
    BY <1>0, <1>7, TransferRuns DEF Sending, SenderWrites
  <2>a. /\ pc' = pc /\ UNCHANGED <<copy, at, nested, stray>>
        /\ receiver' = receiver /\ got' = got
    BY <1>0, <1>7 DEF Sending, SenderWrites, disk, ghosts, ends
  <2>1. RestoreTypes'
    BY <1>0, <1>7, <2>0 DEF RestoreTypes, Copied, Owns, Nobody, States, Sending, disk, ghosts
  <2>2. Copied'
    BY <1>0, <1>7 DEF RestoreTypes, Copied, Owns, Sending, disk, ghosts
  <2>3. Phase(p)'
    BY <1>0, <2>0, <2>a DEF Phase, Step
  <2>4. ASSUME p \notin crossed PROVE Achieved(p)'
    BY <1>0, <2>0, <2>a, <2>4 DEF Achieved, Restored, Step
  <2> QED
    BY <1>a, <2>1, <2>2, <2>3, <2>4
<1>8. CASE SenderLosesReplica(p)
  <2>0. Step(p) = "transfer" /\ pc[p].remote
    BY <1>0, <1>8, TransferRuns DEF SenderLosesReplica
  <2>a. /\ pc' = pc /\ UNCHANGED <<copy, at, nested, stray>>
        /\ receiver' = receiver /\ got' = got
    BY <1>0, <1>8 DEF SenderLosesReplica, disk, ghosts, stream
  <2>1. RestoreTypes'
    BY <1>0, <1>8, <2>0 DEF RestoreTypes, Copied, Owns, Nobody, States, SenderLosesReplica, disk, ghosts
  <2>2. Copied'
    BY <1>0, <1>8 DEF RestoreTypes, Copied, Owns, SenderLosesReplica, disk, ghosts
  <2>3. Phase(p)'
    BY <1>0, <2>0, <2>a DEF Phase, Step
  <2>4. ASSUME p \notin crossed PROVE Achieved(p)'
    BY <1>0, <2>0, <2>a, <2>4 DEF Achieved, Restored, Step
  <2> QED
    BY <1>a, <2>1, <2>2, <2>3, <2>4
<1>9. CASE Receiving(p)
  <2>0. Step(p) = "transfer" /\ pc[p].remote
    BY <1>0, <1>9, TransferRuns DEF Receiving, ReceiverReads
  <2>a. /\ pc' = pc
        /\ receiver'[p] = "run"
    BY <1>0, <1>9 DEF Receiving, ReceiverReads, ghosts, ends
  <2>1. RestoreTypes'
    BY <1>0, <1>9, <2>0 DEF RestoreTypes, Copied, Owns, Nobody, States, Receiving, ghosts
  <2>2. Copied'
    BY <1>0, <1>9 DEF RestoreTypes, Copied, Owns, Receiving, ghosts
  <2>3. Phase(p)'
    BY <1>0, <2>0, <2>a DEF Phase, Step
  <2>4. ASSUME p \notin crossed PROVE Achieved(p)'
    BY <1>0, <2>0, <2>a, <2>4 DEF Achieved, Restored, Step
  <2> QED
    BY <1>a, <2>1, <2>2, <2>3, <2>4
<1>10. CASE ReceiverLosesCopy(p)
  <2>0. Step(p) = "transfer" /\ pc[p].remote
    BY <1>0, <1>10, TransferRuns DEF ReceiverLosesCopy
  <2>a. /\ pc' = pc /\ UNCHANGED <<copy, at, nested, stray>>
        /\ receiver'[p] = "failed"
    BY <1>0, <1>10 DEF ReceiverLosesCopy, PipeTypes, Receiver, disk, ghosts
  <2>1. RestoreTypes'
    BY <1>0, <1>10, <2>0 DEF RestoreTypes, Copied, Owns, Nobody, States, ReceiverLosesCopy, disk, ghosts
  <2>2. Copied'
    BY <1>0, <1>10 DEF RestoreTypes, Copied, Owns, ReceiverLosesCopy, disk, ghosts
  <2>3. Phase(p)'
    BY <1>0, <2>0, <2>a DEF Phase, Step
  <2>4. ASSUME p \notin crossed PROVE Achieved(p)'
    BY <1>0, <2>0, <2>a, <2>4 DEF Achieved, Restored, Step
  <2> QED
    BY <1>a, <2>1, <2>2, <2>3, <2>4
<1>11. CASE Received(p)
  <2>0. Step(p) = "transfer" /\ pc[p].remote
    BY <1>0, <1>11, TransferRuns DEF Received, ReceiverSeesEnd
  <2>a. /\ pc' = pc
        /\ receiver'[p] = "ok" /\ got'[p] = Total => copy'[Name(p)] = "whole"
    BY <1>0, <1>11 DEF Received, ReceiverSeesEnd, RestoreTypes, Copied, Owns, stream, ghosts
  <2>1. RestoreTypes'
    <3>1. copy' \in [Names -> States] /\ UNCHANGED <<here, replicas, dir, by, orphans, at, nested, pc, crossed, stray>>
      BY <1>0, <1>11 DEF RestoreTypes, States, Received, ghosts
    <3>2. copy' = copy \/ got[p] # 0
      BY <1>0, <1>11 DEF Received
    <3>3. got[p] # 0 => copy[Name(p)] # "none"
      BY <1>0, <1>11 DEF PipeTypes, Copied, Owns, Nobody, Received
    <3>4. \A n \in Names : copy'[n] # "none" => copy[n] # "none"
      BY <1>0, <1>11, <3>2, <3>3 DEF RestoreTypes, Received
    <3> QED
      BY <1>0, <3>1, <3>4 DEF RestoreTypes
  <2>2. Copied'
    BY <1>0, <1>11 DEF RestoreTypes, Copied, Owns, Received, ghosts
  <2>3. Phase(p)'
    BY <1>0, <2>0, <2>a DEF Phase, Step
  <2>4. ASSUME p \notin crossed PROVE Achieved(p)'
    BY <1>0, <2>0, <2>a, <2>4 DEF Achieved, Restored, Step
  <2> QED
    BY <1>a, <2>1, <2>2, <2>3, <2>4
<1>12. CASE Transferred(p)
  <2>0. pc' \in [Procs -> [step : Steps, remote : BOOLEAN]]
    BY <1>0, <1>12, GotoStep DEF Steps, Transferred
  <2>a. /\ Step(p) = "transfer" /\ pc'[p].remote = pc[p].remote /\ pump[p] = "over"
        /\ IF result[p] = "ok" THEN Step(p)' = "verify" ELSE Step(p)' = "undo"
        /\ UNCHANGED <<pump, result, receiver, got, copy, at, nested, stray>>
    BY <1>0, <1>12, GotoStep DEF Steps, Transferred, pipeVars, transfer, stream, ends, disk, ghosts
  <2>1. RestoreTypes'
    BY <1>0, <1>12, <2>0 DEF RestoreTypes, Copied, Owns, Nobody, States, Transferred, pipeVars, disk, ghosts
  <2>2. Copied'
    BY <1>0, <1>12 DEF RestoreTypes, Copied, Owns, Transferred, pipeVars, disk, ghosts
  <2>3. Phase(p)'
    BY <1>0, <2>a DEF Phase
  <2>4. ASSUME p \notin crossed PROVE Achieved(p)'
    BY <1>0, <2>a, <2>4 DEF Achieved, Restored, Transfer, Answer
  <2> QED
    BY <1>a, <2>1, <2>2, <2>3, <2>4
<1>13. CASE Verify(p)
  <2>0. pc' \in [Procs -> [step : Steps, remote : BOOLEAN]]
    BY <1>0, <1>13, GotoStep DEF Steps, Verify
  <2>a. /\ Step(p) = "verify" /\ Step(p)' \in {"target", "undo"} /\ pc'[p].remote = pc[p].remote
        /\ UNCHANGED <<pump, result, copy, at, nested, stray>>
    BY <1>0, <1>13, GotoStep DEF Steps, Verify, transfer, disk, ghosts
  <2>1. RestoreTypes'
    BY <1>0, <1>13, <2>0 DEF RestoreTypes, Copied, Owns, Nobody, States, Verify, disk, ghosts
  <2>2. Copied'
    BY <1>0, <1>13 DEF RestoreTypes, Copied, Owns, Verify, disk, ghosts
  <2>3. Phase(p)'
    BY <1>0, <2>a DEF Phase
  <2>4. ASSUME p \notin crossed PROVE Achieved(p)'
    BY <1>0, <2>a, <2>4 DEF Achieved, Restored
  <2> QED
    BY <1>a, <2>1, <2>2, <2>3, <2>4
<1>14. CASE Target(p)
  <2>0. pc' \in [Procs -> [step : Steps, remote : BOOLEAN]]
    BY <1>0, <1>14, GotoStep DEF Steps, Target, Give
  <2>a. /\ Step(p) = "target" /\ pc'[p].remote = pc[p].remote
        /\ Step(p)' \in {"source", "undo", "failed"} /\ (Step(p)' = "undo" => pc[p].remote)
        /\ Step(p)' = "source" => at[Place(p)] = Nothing
        /\ UNCHANGED <<pump, result, copy, at, nested, stray>>
    BY <1>0, <1>14, GotoStep DEF Steps, Target, Give, pipeVars, transfer, stream, ends, disk, ghosts
  <2>1. RestoreTypes'
    BY <1>0, <1>14, <2>0 DEF RestoreTypes, Copied, Owns, Nobody, States, Target, Give, pipeVars, disk, ghosts
  <2>2. Copied'
    BY <1>0, <1>14 DEF RestoreTypes, Copied, Owns, Target, Give, pipeVars, disk, ghosts
  <2>3. Phase(p)'
    BY <1>0, <2>a DEF Phase
  <2>4. ASSUME p \notin crossed PROVE Achieved(p)'
    BY <1>0, <2>a, <2>4 DEF Achieved, Restored
  <2> QED
    BY <1>a, <2>1, <2>2, <2>3, <2>4
<1>15. CASE HasSource(p)
  <2>0. pc' \in [Procs -> [step : Steps, remote : BOOLEAN]]
    BY <1>0, <1>15, GotoStep DEF Steps, HasSource, Give
  <2>a. /\ Step(p) = "source" /\ pc'[p].remote = pc[p].remote
        /\ Step(p)' \in {"snapshot", "undo", "failed"} /\ (Step(p)' = "undo" => pc[p].remote)
        /\ UNCHANGED <<pump, result, copy, at, nested, stray>>
    BY <1>0, <1>15, GotoStep DEF Steps, HasSource, Give, pipeVars, transfer, stream, ends, disk, ghosts
  <2>1. RestoreTypes'
    BY <1>0, <1>15, <2>0 DEF RestoreTypes, Copied, Owns, Nobody, States, HasSource, Give, pipeVars, disk, ghosts
  <2>2. Copied'
    BY <1>0, <1>15 DEF RestoreTypes, Copied, Owns, HasSource, Give, pipeVars, disk, ghosts
  <2>3. Phase(p)'
    BY <1>0, <2>a DEF Phase
  <2>4. ASSUME p \notin crossed PROVE Achieved(p)'
    BY <1>0, <2>a, <2>4 DEF Achieved, Restored
  <2> QED
    BY <1>a, <2>1, <2>2, <2>3, <2>4
<1>16. CASE Snapshot(p)
  <2>0. pc' \in [Procs -> [step : Steps, remote : BOOLEAN]]
    BY <1>0, <1>16, GotoStep DEF Steps, Snapshot, Give
  <2>a. /\ Step(p) = "snapshot" /\ pc'[p].remote = pc[p].remote
        /\ Step(p)' \in {"drop", "done", "undo", "failed"}
        /\ (Step(p)' \in {"drop", "undo"} => pc[p].remote) /\ (Step(p)' = "done" => ~ pc[p].remote)
        /\ UNCHANGED <<pump, result, copy, stray>>
    BY <1>0, <1>16, GotoStep DEF Steps, Snapshot, Give, transfer, ghosts
  <2>1. RestoreTypes'
    <3>1. Source(p) \in States
      BY <1>0 DEF RestoreTypes, Source, States
    <3>2. at' \in [Places -> [name : Names \union {0}, state : States]]
      BY <1>0, <1>16, <3>1 DEF RestoreTypes, Snapshot
    <3>3. nested' \subseteq {t \in Places : at'[t] # Nothing}
      BY <1>0, <1>16 DEF RestoreTypes, Snapshot, Nothing
    <3>4. UNCHANGED <<here, replicas, dir, copy, by, orphans, crossed, stray>>
      BY <1>16 DEF Snapshot, ghosts
    <3> QED
      BY <1>0, <2>0, <3>2, <3>3, <3>4 DEF RestoreTypes
  <2>2. Copied'
    BY <1>0, <1>16 DEF RestoreTypes, Copied, Owns, Snapshot, Give, ghosts
  <2>3. Phase(p)'
    BY <1>0, <2>a DEF Phase
  <2>4. ASSUME p \notin crossed PROVE Achieved(p)'
    <3>1. at[Place(p)] = Nothing /\ Place(p) \notin nested
      BY <1>0, <2>a, <2>4 DEF RestoreTypes, Achieved
    <3>2. pc[p].remote => copy[Name(p)] = "whole"
      BY <1>0, <2>a, <2>4 DEF Achieved
    <3>3. Source(p) \in {"whole", "none"}
      BY <3>2 DEF Source
    <3>4. Step(p)' \in {"drop", "done"} => Restored(p)'
      BY <1>0, <1>16, <2>a, <3>1, <3>3, GotoStep DEF RestoreTypes, Snapshot, Restored, Give, Steps
    <3> QED
      BY <2>a, <3>4 DEF Achieved
  <2> QED
    BY <1>a, <2>1, <2>2, <2>3, <2>4
<1>17. CASE Drop(p)
  <2>0. pc' \in [Procs -> [step : Steps, remote : BOOLEAN]]
    BY <1>0, <1>17, GotoStep DEF Steps, Drop
  <2>a. /\ pc'[p].remote = pc[p].remote
        /\ \/ Step(p) = "drop" /\ Step(p)' = "rmdir"
           \/ Step(p) = "undo" /\ Step(p)' = "failed"
        /\ UNCHANGED <<pump, result, at, nested>>
    BY <1>0, <1>17, GotoStep DEF Steps, Drop, transfer
  <2>1. RestoreTypes'
    <3>1. copy' \in [Names -> States] /\ by' \in [Names -> Procs \union {Nobody}]
      BY <1>0, <1>17 DEF RestoreTypes, States, Drop, DropCopy
    <3>2. orphans' \subseteq orphans /\ (\A n \in Names : copy'[n] # "none" => copy[n] # "none")
      BY <1>0, <1>17 DEF RestoreTypes, Drop, DropCopy
    <3>3. crossed' = crossed /\ stray' \subseteq stray \union {Name(p)}
      BY <1>17 DEF Drop, ghosts
    <3> QED
      BY <1>0, <1>17, <2>0, <3>1, <3>2, <3>3 DEF RestoreTypes, Drop
  <2>2. Copied'
    BY <1>0, <1>17 DEF RestoreTypes, Copied, Owns, Drop, DropCopy
  <2>3. Phase(p)'
    BY <1>0, <2>a DEF Phase
  <2>4. ASSUME p \notin crossed PROVE Achieved(p)'
    <3>1. Name(p) \notin stray' => copy'[Name(p)] = "none"
      BY <1>0, <1>17 DEF RestoreTypes, Drop, DropCopy
    <3> QED
      BY <1>0, <2>a, <2>4, <3>1 DEF Achieved, Restored
  <2> QED
    BY <1>a, <2>1, <2>2, <2>3, <2>4
<1>18. CASE RmDir(p)
  <2>0. pc' \in [Procs -> [step : Steps, remote : BOOLEAN]]
    BY <1>0, <1>18, GotoStep DEF Steps, RmDir
  <2>a. /\ Step(p) = "rmdir" /\ Step(p)' \in {"done"} /\ pc'[p].remote = pc[p].remote
        /\ UNCHANGED <<pump, result, receiver, got, copy, at, nested, stray>>
    BY <1>0, <1>18, GotoStep DEF Steps, RmDir, pipeVars, transfer, stream, ends, disk, ghosts
  <2>1. RestoreTypes'
    BY <1>0, <1>18, <2>0 DEF RestoreTypes, Copied, Owns, Nobody, States, RmDir, pipeVars, ghosts
  <2>2. Copied'
    BY <1>0, <1>18 DEF RestoreTypes, Copied, Owns, RmDir, pipeVars, ghosts
  <2>3. Phase(p)'
    BY <1>0, <2>a DEF Phase
  <2>4. ASSUME p \notin crossed PROVE Achieved(p)'
    BY <1>0, <2>a, <2>4 DEF Achieved, Restored
  <2> QED
    BY <1>a, <2>1, <2>2, <2>3, <2>4
<1>19. CASE End(p)
  <2>0. pc' \in [Procs -> [step : Steps, remote : BOOLEAN]]
    BY <1>0, <1>19, GotoStep DEF Steps, End
  <2>a. /\ Step(p)' = "idle" /\ pump'[p] = "off"
    BY <1>0, <1>19, GotoStep DEF Steps, End, Rewind, To, PipeTypes
  <2>1. RestoreTypes'
    BY <1>0, <1>19, <2>0 DEF RestoreTypes, Copied, Owns, Nobody, States, End, disk, ghosts
  <2>2. Copied'
    BY <1>0, <1>19 DEF RestoreTypes, Copied, Owns, End, disk, ghosts
  <2>3. Phase(p)'
    BY <1>0, <2>a DEF Phase
  <2>4. ASSUME p \notin crossed PROVE Achieved(p)'
    BY <1>0, <2>a, <2>4 DEF Achieved, Restored
  <2> QED
    BY <1>a, <2>1, <2>2, <2>3, <2>4
<1>20. CASE Crash(p)
  <2>0. pc' \in [Procs -> [step : Steps, remote : BOOLEAN]]
    BY <1>0, <1>20, GotoStep DEF Steps, Crash
  <2>a. /\ Step(p)' = "idle" /\ pump'[p] = "off"
    BY <1>0, <1>20, GotoStep DEF Steps, Crash, Rewind, To, PipeTypes
  <2> DEFINE o == [name |-> Name(p), made |-> got[p] > 0, whole |-> fed[p] = Total]
  <2>b. o \in [name : Names, made : BOOLEAN, whole : BOOLEAN]
    BY <1>0
  <2>c. (orphans' = orphans \/ orphans' = orphans \union {o}) /\ (orphans' # orphans => (got[p] > 0 => Owns(p)))
    BY <1>20 DEF Crash
  <2>d. o.made => got[p] > 0
    OBVIOUS
  <2>e. got[p] > 0 /\ Owns(p) => copy[o.name] # "none"
    BY <1>0 DEF Copied, Owns, Nobody
  <2>f. UNCHANGED <<here, replicas, dir, copy, by, at, nested, crossed, stray>>
    BY <1>20 DEF Crash, ghosts
  <2> HIDE DEF o
  <2>1. RestoreTypes'
    BY <1>0, <2>0, <2>b, <2>c, <2>f DEF RestoreTypes
  <2>2. Copied'
    BY <1>0, <2>c, <2>d, <2>e, <2>f DEF Copied
  <2>3. Phase(p)'
    BY <1>0, <2>a DEF Phase
  <2>4. ASSUME p \notin crossed PROVE Achieved(p)'
    BY <1>0, <2>a, <2>4 DEF Achieved, Restored
  <2> QED
    BY <1>a, <2>1, <2>2, <2>3, <2>4
<1> QED
  BY <1>1, <1>2, <1>3, <1>4, <1>5, <1>6, <1>7, <1>8, <1>9, <1>10, <1>11, <1>12, <1>13, <1>14, <1>15, <1>16, <1>17, <1>18, <1>19, <1>20 DEF Work

(* Only an invocation that was started takes steps.                          *)
LEMMA WorkIsNotIdle ==
    ASSUME RestoreInv, NEW p \in Procs, Work(p) \/ Crash(p) PROVE Step(p) # "idle"
<1>1. CASE Running(p) \/ Sending(p) \/ SenderLosesReplica(p) \/ Receiving(p)
           \/ ReceiverLosesCopy(p) \/ Received(p)
  <2>1. pump[p] \notin {"off", "over"} \/ sender[p] = "run" \/ receiver[p] = "run"
    BY <1>1 DEF Running, Sending, SenderLosesReplica, Receiving, ReceiverLosesCopy, Received, Program,
       SpawnSend, SpawnReceive, PumpRead, PumpWrite, Kill, WaitSend, WaitReceive, SenderWrites,
       SenderEnds, ReceiverReads, ReceiverSeesEnd, ReceiverFails
  <2> QED
    BY <2>1, TransferRuns
<1>2. CASE ~ (Running(p) \/ Sending(p) \/ SenderLosesReplica(p) \/ Receiving(p)
              \/ ReceiverLosesCopy(p) \/ Received(p))
  BY <1>2 DEF Work, Crash, Local, Free, Remote, Check, Leftover, MkDir, Transferred, Verify, Target,
     HasSource, Snapshot, Drop, RmDir, End
<1> QED
  BY <1>1, <1>2

(* Every step of an invocation keeps the invariant.                          *)
LEMMA WorkStep ==
    ASSUME RestoreInv, NEW p \in Procs, Work(p) \/ Crash(p) PROVE RestoreInv'
<1>1. Apart(p) /\ Step(p) # "idle"
  BY WorkApart, WorkIsNotIdle
<1>2. PipeOK' /\ \A q \in Procs : Transfer(q)'
  BY WorkKeepsTransfers
<1>3. RestoreTypes' /\ Copied' /\ Phase(p)' /\ (p \in crossed' \/ Achieved(p)')
  BY OwnWork
<1>4. \A q \in Procs : Phase(q)' /\ (q \in crossed' \/ Achieved(q)')
  BY <1>1, <1>3, OthersAchieve
<1>5. Watched'
  <2>1. \A q \in Procs : Step(q)' # "idle" => Step(q) # "idle"
    BY <1>1 DEF Apart, Step
  <2> QED
    BY <1>1, <2>1, NoNewRivals DEF RestoreInv, Apart
<1>6. TypeOK'
  BY <1>2, <1>3 DEF TypeOK, RestoreTypes
<1> QED
  BY <1>2, <1>3, <1>4, <1>5, <1>6 DEF RestoreInv

(* So does the start of one, which takes note of its rivals.                 *)
LEMMA StartStep ==
    ASSUME RestoreInv, NEW p \in Procs, NEW from \in {"here", "replica"}, Start(p, from)
    PROVE  RestoreInv'
<1>0. /\ RestoreTypes /\ PipeTypes /\ PipeOK /\ Copied /\ Watched
      /\ \A q \in Procs : Transfer(q) /\ Phase(q) /\ (q \in crossed \/ Achieved(q))
  BY PipeOKTypes, TypeOKParts DEF RestoreInv
<1>1. /\ Step(p) = "idle"
      /\ \/ Step(p)' = "local" /\ pc'[p].remote
         \/ Step(p)' = "target" /\ ~ pc'[p].remote
      /\ \A q \in Procs \ {p} : pc'[q] = pc[q]
      /\ pc' \in [Procs -> [step : Steps, remote : BOOLEAN]]
  BY <1>0 DEF Start, RestoreTypes, Step, Steps
<1>2. UNCHANGED <<sent, read, fed, got, sender, receiver, pump, readErr, writeErr, result,
                  here, replicas, dir, copy, by, orphans, at, nested, stray>>
  BY DEF Start, transfer, stream, ends, disk
<1>3. crossed' = IF Rivals(p) = {} THEN crossed \ {p} ELSE crossed \union {p} \union Rivals(p)
  BY DEF Start
<1>4. TypeOK'
  <2>1. faults' \in 0 .. MaxFaults
    BY <1>0 DEF Start, Fault, PipeOK
  <2>2. PipeOK'
    BY <1>0, <1>2, <2>1 DEF PipeOK
  <2>3. RestoreTypes'
    BY <1>0, <1>1, <1>2, <1>3 DEF RestoreTypes, Rivals
  <2> QED
    BY <2>2, <2>3 DEF TypeOK, RestoreTypes
<1>5. Copied'
  BY <1>0, <1>2 DEF Copied
<1>6. Watched'
  <2> SUFFICES ASSUME NEW q \in Procs, Step(q)' # "idle", NEW r \in Rivals(q)' PROVE q \in crossed'
    BY DEF Watched
  <2>1. r \in Procs \ {q} /\ Step(r)' # "idle" /\ (Name(r) = Name(q) \/ Place(r) = Place(q))
    BY DEF Rivals, Name, Place
  <2>2. CASE q = p
    <3>1. r \in Rivals(p)
      BY <1>1, <2>1, <2>2 DEF Rivals, Step
    <3> QED
      BY <1>3, <2>2, <3>1
  <2>3. CASE q # p /\ r = p
    <3>1. q \in Rivals(p)
      BY <1>1, <2>1, <2>3 DEF Rivals, Step
    <3> QED
      BY <1>3, <3>1
  <2>4. CASE q # p /\ r # p
    <3>1. r \in Rivals(q) /\ Step(q) # "idle"
      BY <1>1, <2>1, <2>4 DEF Rivals, Step
    <3> QED
      BY <1>0, <1>3, <2>4, <3>1 DEF Watched
  <2> QED
    BY <2>2, <2>3, <2>4
<1>7. ASSUME NEW q \in Procs PROVE Transfer(q)' /\ Phase(q)' /\ (q \in crossed' \/ Achieved(q)')
  <2>1. Transfer(q)'
    BY <1>0, <1>2 DEF Transfer, Flow, Roles, Answer, Broke, Open, Alive, Taking
  <2>2. CASE q = p
    BY <1>0, <1>1, <1>2, <2>1, <2>2 DEF Phase, Achieved
  <2>3. CASE q # p
    BY <1>0, <1>1, <1>2, <1>3, <2>1, <2>3 DEF Phase, Achieved, Restored, Step
  <2> QED
    BY <2>2, <2>3
<1> QED
  BY <1>4, <1>5, <1>6, <1>7 DEF RestoreInv

(* What goes on around the invocations: the receive of a killed one, and     *)
(* snapshots and replicas that are deleted.                                  *)
LEMMA AroundStep ==
    ASSUME RestoreInv, UNCHANGED <<pipeVars, at, nested, pc, crossed, by, dir>>,
           RestoreTypes', Copied',
           \A n \in Names : copy[n] = "whole" => copy'[n] = "whole",
           \A n \in Names : n \notin stray' => n \notin stray /\ (copy[n] = "none" => copy'[n] = "none")
    PROVE  RestoreInv'
<1>0. /\ PipeOK /\ Watched
      /\ \A q \in Procs : Transfer(q) /\ Phase(q) /\ (q \in crossed \/ Achieved(q))
  BY TypeOKParts DEF RestoreInv
<1>1. UNCHANGED <<sent, read, fed, got, sender, receiver, pump, readErr, writeErr, result, faults>>
  BY DEF pipeVars, transfer, stream, ends
<1>2. PipeOK' /\ TypeOK'
  <2>1. PipeOK'
    BY <1>0, <1>1 DEF PipeOK
  <2> QED
    BY <2>1 DEF TypeOK, RestoreTypes
<1>3. Watched'
  BY <1>0 DEF Watched, Rivals, Step, Name, Place
<1>4. ASSUME NEW q \in Procs PROVE Transfer(q)' /\ Phase(q)' /\ (q \in crossed' \/ Achieved(q)')
  <2>1. Transfer(q)'
    BY <1>0, <1>1 DEF Transfer, Flow, Roles, Answer, Broke, Open, Alive, Taking
  <2>2. Phase(q)'
    BY <1>0, <1>1 DEF Phase, Step
  <2>3. q \in crossed' \/ Achieved(q)'
    BY <1>0, <1>1, WantType DEF Achieved, Restored, Step
  <2> QED
    BY <2>1, <2>2, <2>3
<1> QED
  BY <1>2, <1>3, <1>4 DEF RestoreInv

(* What an orphaned receive does afterwards disturbs no restore.            *)
LEMMA OrphanStep == ASSUME RestoreInv, NEW o \in orphans, OrphanCreates(o) \/ OrphanEnds(o)
                    PROVE  RestoreInv'
<1>0. /\ RestoreTypes /\ Copied /\ o.name \in Names
      /\ o \in [name : Names, made : BOOLEAN, whole : BOOLEAN]
  BY TypeOKParts DEF RestoreInv, RestoreTypes
<1>1. CASE OrphanCreates(o) /\ dir /\ copy[o.name] = "none"
  <2> DEFINE m == [o EXCEPT !.made = TRUE]
  <2>1. m \in [name : Names, made : BOOLEAN, whole : BOOLEAN] /\ m.name = o.name
    BY <1>0
  <2>2. /\ orphans' = (orphans \ {o}) \union {m}
        /\ copy' = [copy EXCEPT ![o.name] = "part"] /\ stray' = stray \union {o.name}
        /\ UNCHANGED <<pipeVars, here, replicas, dir, by, at, nested, pc, crossed>>
    BY <1>1 DEF OrphanCreates
  <2> HIDE DEF m
  <2>3. RestoreTypes'
    BY <1>0, <1>1, <2>1, <2>2 DEF RestoreTypes, States
  <2>4. Copied'
    BY <1>0, <2>1, <2>2 DEF RestoreTypes, Copied
  <2>5. \A n \in Names : copy[n] = "whole" => copy'[n] = "whole"
    BY <1>0, <1>1, <2>2 DEF RestoreTypes
  <2>6. \A n \in Names : n \notin stray' => n \notin stray /\ (copy[n] = "none" => copy'[n] = "none")
    BY <1>0, <2>2 DEF RestoreTypes
  <2> QED
    BY <2>2, <2>3, <2>4, <2>5, <2>6, AroundStep
<1>2. CASE OrphanCreates(o) /\ ~ (dir /\ copy[o.name] = "none")
  <2>1. /\ orphans' = orphans \ {o} /\ UNCHANGED <<copy, stray>>
        /\ UNCHANGED <<pipeVars, here, replicas, dir, by, at, nested, pc, crossed>>
    BY <1>2 DEF OrphanCreates
  <2>2. RestoreTypes' /\ Copied'
    BY <1>0, <2>1 DEF RestoreTypes, Copied
  <2> QED
    BY <2>1, <2>2, AroundStep
<1>3. CASE OrphanEnds(o)
  <2>1. /\ orphans' = orphans \ {o} /\ o.made
        /\ \/ copy[o.name] = "part"
              /\ copy' = [copy EXCEPT ![o.name] = IF o.whole THEN "whole" ELSE "short"]
           \/ copy' = copy
        /\ UNCHANGED <<pipeVars, here, replicas, dir, by, at, nested, pc, crossed, stray>>
    BY <1>3 DEF OrphanEnds, ghosts
  <2>2. copy[o.name] # "none"
    BY <1>0, <2>1 DEF Copied
  <2>3. /\ \A n \in Names : \/ copy'[n] = copy[n]
                            \/ n = o.name /\ copy[n] = "part" /\ copy'[n] \in {"whole", "short"}
        /\ copy' \in [Names -> States]
    <3> DEFINE s == IF o.whole THEN "whole" ELSE "short"
    <3>1. copy' = copy \/ (copy[o.name] = "part" /\ copy' = [copy EXCEPT ![o.name] = s])
      BY <2>1
    <3>a. s \in {"whole", "short"}
      OBVIOUS
    <3> HIDE DEF s
    <3>2. copy \in [Names -> States]
      BY <1>0 DEF RestoreTypes
    <3>3. CASE copy' = copy
      BY <3>2, <3>3
    <3>4. CASE copy[o.name] = "part" /\ copy' = [copy EXCEPT ![o.name] = s]
      BY <1>0, <3>a, <3>2, <3>4 DEF States
    <3> QED
      BY <3>1, <3>3, <3>4
  <2>4. RestoreTypes'
    BY <1>0, <2>1, <2>3 DEF RestoreTypes
  <2>5. \A n \in Names : copy[n] = "none" <=> copy'[n] = "none"
    BY <2>2, <2>3
  <2>6. Copied'
    BY <1>0, <2>1, <2>5 DEF RestoreTypes, Copied
  <2>7. \A n \in Names : copy[n] = "whole" => copy'[n] = "whole"
    BY <2>3
  <2> QED
    BY <2>1, <2>4, <2>5, <2>6, <2>7, AroundStep
<1> QED
  BY <1>1, <1>2, <1>3

(* RestoreInv is inductive.                                                 *)
LEMMA RestoreStep == RestoreInv /\ [Next]_vars => RestoreInv'
<1> SUFFICES ASSUME RestoreInv, [Next]_vars PROVE RestoreInv'
  OBVIOUS
<1>1. ASSUME NEW n \in Names, Rotate(n) \/ Prune(n) PROVE RestoreInv'
  <2>1. /\ here' \subseteq here /\ replicas' \subseteq replicas
        /\ UNCHANGED <<pipeVars, dir, copy, by, orphans, at, nested, pc, crossed, stray>>
    BY <1>1 DEF Rotate, Prune, ghosts
  <2>2. RestoreTypes' /\ Copied'
    BY <2>1, TypeOKParts DEF RestoreInv, RestoreTypes, Copied
  <2> QED
    BY <2>1, <2>2, AroundStep
<1>2. CASE UNCHANGED vars
  <2>1. UNCHANGED <<pipeVars, here, replicas, dir, copy, by, orphans, at, nested, pc, crossed, stray>>
    BY <1>2 DEF vars, disk, ghosts
  <2>2. RestoreTypes' /\ Copied'
    BY <2>1, TypeOKParts DEF RestoreInv, RestoreTypes, Copied
  <2> QED
    BY <2>1, <2>2, AroundStep
<1> QED
  BY <1>1, <1>2, WorkStep, StartStep, OrphanStep DEF Next, Orphan

(* RestoreInv holds before anything has started.                            *)
LEMMA RestoreInit == Init => RestoreInv
<1> SUFFICES ASSUME Init PROVE RestoreInv
  OBVIOUS
<1>1. PipeTypes /\ PipeOK
  BY DEF Init, PipeInit, PipeTypes, PipeOK, PumpSteps, Results
<1>2. \A p \in Procs : Transfer(p)
  <2> SUFFICES ASSUME NEW p \in Procs PROVE Transfer(p)
    OBVIOUS
  <2>1. /\ sent[p] = 0 /\ read[p] = 0 /\ fed[p] = 0 /\ got[p] = 0 /\ pump[p] = "off"
        /\ sender[p] = "none" /\ receiver[p] = "none" /\ result[p] = "none"
    BY DEF Init, PipeInit
  <2>2. ~ Broke(p) /\ ~ writeErr[p]
    BY DEF Init, PipeInit, Broke
  <2> QED
    BY <2>1, <2>2 DEF Transfer, Flow, Roles, Answer, Open, Alive, Taking
<1>3. RestoreTypes
  BY DEF Init, RestoreTypes, States, Steps, Nothing
<1>4. Copied /\ Watched
  BY DEF Init, Copied, Watched, Step
<1>5. \A p \in Procs : Phase(p) /\ Achieved(p)
  BY DEF Init, PipeInit, Phase, Achieved, Step
<1> QED
  BY <1>1, <1>2, <1>3, <1>4, <1>5 DEF RestoreInv, TypeOK, RestoreTypes

(* RestoreInv always holds.                                                 *)
LEMMA RestoreInvariant == Spec => []RestoreInv
BY RestoreInit, RestoreStep, PTL DEF Spec

-----------------------------------------------------------------------------
(* The type invariant: among others, the counters of a transfer never        *)
(* overtake one another, and a received copy is never outside .restore.      *)
THEOREM RestoreTypeCorrect == Spec => []TypeOK
<1>1. RestoreInv => TypeOK
  BY DEF RestoreInv
<1> QED
  BY <1>1, RestoreInvariant, PTL

(* A transfer is reported as done only if the whole stream was received and  *)
(* both commands succeeded, for streams and pipes of any size, whatever      *)
(* fails, hangs or is killed, and however the three processes interleave.    *)
THEOREM NoFalseSuccessCorrect == Spec => []NoFalseSuccess
<1>1. RestoreInv => NoFalseSuccess
  BY DEF RestoreInv, Transfer, Answer, NoFalseSuccess
<1> QED
  BY <1>1, RestoreInvariant, PTL

(* The side that the error blames failed by itself, unless reading from the  *)
(* sender failed.                                                            *)
THEOREM BlameIsCauseCorrect == Spec => []BlameIsCause
<1>1. RestoreInv => BlameIsCause
  BY DEF RestoreInv, Transfer, Answer, BlameIsCause
<1> QED
  BY <1>1, RestoreInvariant, PTL

(* A restore that succeeds has the whole snapshot at its target, and only    *)
(* there, unless another one worked on the same snapshot or target.          *)
THEOREM RestoredWholeCorrect == Spec => []RestoredWhole
<1>1. RestoreInv => RestoredWhole
  BY DEF RestoreInv, Achieved, RestoredWhole
<1> QED
  BY <1>1, RestoreInvariant, PTL

(* And it leaves no received copy behind, unless deleting that failed or the *)
(* receive of a killed invocation made it.                                   *)
THEOREM NothingLeftBehindCorrect == Spec => []NothingLeftBehind
<1>1. RestoreInv => NothingLeftBehind
  BY DEF RestoreInv, Achieved, NothingLeftBehind
<1> QED
  BY <1>1, RestoreInvariant, PTL
=============================================================================
