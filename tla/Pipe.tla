-------------------------------- MODULE Pipe --------------------------------
(***************************************************************************)
(* One transfer of an invocation: `btrfs send' writes into a pipe, pump    *)
(* copies it into a second one, `btrfs receive' reads that.  The program   *)
(* waits for both children and blames the side that broke.                 *)
(* send_and_receive (to a target) and receive_from_target (from one) are   *)
(* the same protocol, with ssh around one of the two commands.             *)
(*                                                                         *)
(* A stream is Total chunks.  Four counters place them: sent - read are in *)
(* the first pipe, read - fed in pump's buffer, fed - got in the second.   *)
(***************************************************************************)
EXTENDS Naturals

CONSTANTS Procs,
          Total,      \* chunks of a whole stream
          Capacity,   \* chunks a pipe holds
          MaxFaults   \* bound: failures, hangs and kills

ASSUME PipeAssumption == Total \in Nat \ {0} /\ Capacity \in Nat \ {0} /\ MaxFaults \in Nat

VARIABLES
    sent, read, fed, got,
    sender,    \* "none", "run", "hung", "ok", "failed" by itself, "broken"
               \* by a closed pipe, "killed"
    receiver,  \* "none", "run", "hung", "ok", "failed" by itself, "short"
               \* of stream
    pump,      \* next step of the program
    readErr, writeErr,
    result,    \* "none", "ok", or what the error names
    faults

stream == <<sent, read, fed, got>>
ends   == <<sender, receiver>>
transfer == <<stream, ends, pump, readErr, writeErr, result>>
pipeVars == <<transfer, faults>>

PumpSteps == {"off", "send", "receive", "read", "write", "kill",
              "waitsend", "waitreceive", "over"}
Results == {"none", "ok", "spawn", "send", "receive", "write", "read"}

PipeInit ==
    /\ sent = [p \in Procs |-> 0] /\ read = [p \in Procs |-> 0]
    /\ fed = [p \in Procs |-> 0] /\ got = [p \in Procs |-> 0]
    /\ sender = [p \in Procs |-> "none"] /\ receiver = [p \in Procs |-> "none"]
    /\ pump = [p \in Procs |-> "off"] /\ result = [p \in Procs |-> "none"]
    /\ readErr = [p \in Procs |-> FALSE] /\ writeErr = [p \in Procs |-> FALSE]
    /\ faults = 0

-----------------------------------------------------------------------------
Fault == faults < MaxFaults /\ faults' = faults + 1

To(p, step) == pump' = [pump EXCEPT ![p] = step]
Sender(p, s) == sender' = [sender EXCEPT ![p] = s]
Receiver(p, s) == receiver' = [receiver EXCEPT ![p] = s]

(* pump holds both ends; it drops them when it returns. *)
Open(p) == pump[p] \in {"receive", "read", "write"}
Alive(p) == sender[p] \in {"run", "hung"}
Taking(p) == receiver[p] \in {"run", "hung"}

(* The pipe variables of p as they are before a transfer. *)
Rewind(p, step) ==
    /\ sent' = [sent EXCEPT ![p] = 0] /\ read' = [read EXCEPT ![p] = 0]
    /\ fed' = [fed EXCEPT ![p] = 0] /\ got' = [got EXCEPT ![p] = 0]
    /\ Sender(p, "none") /\ Receiver(p, "none") /\ To(p, step)
    /\ readErr' = [readErr EXCEPT ![p] = FALSE]
    /\ writeErr' = [writeErr EXCEPT ![p] = FALSE]
    /\ result' = [result EXCEPT ![p] = "none"]

-----------------------------------------------------------------------------
(* The program. *)

GiveUp(p) == /\ Fault /\ To(p, "over") /\ result' = [result EXCEPT ![p] = "spawn"]

SpawnSend(p) ==
    /\ pump[p] = "send"
    /\ \/ Sender(p, "run") /\ To(p, "receive") /\ UNCHANGED <<faults, result>>
       \/ GiveUp(p) /\ UNCHANGED sender
    /\ UNCHANGED <<stream, receiver, readErr, writeErr>>

(* A sender that has no receiver is killed and waited for. *)
SpawnReceive(p) ==
    /\ pump[p] = "receive"
    /\ \/ Receiver(p, "run") /\ To(p, "read") /\ UNCHANGED <<faults, result, sender>>
       \/ /\ GiveUp(p) /\ UNCHANGED receiver
          /\ Sender(p, IF Alive(p) THEN "killed" ELSE sender[p])
    /\ UNCHANGED <<stream, readErr, writeErr>>

(* pump: read, until the sender closed its end and the pipe is empty. *)
PumpRead(p) ==
    /\ pump[p] = "read"
    /\ \/ /\ read[p] < sent[p]
          /\ read' = [read EXCEPT ![p] = @ + 1]
          /\ To(p, "write") /\ UNCHANGED <<readErr, faults>>
       \/ /\ read[p] = sent[p] /\ ~ Alive(p)
          /\ To(p, "kill") /\ UNCHANGED <<read, readErr, faults>>
       \/ /\ Fault /\ readErr' = [readErr EXCEPT ![p] = TRUE]
          /\ To(p, "kill") /\ UNCHANGED read
    /\ UNCHANGED <<sent, fed, got, ends, writeErr, result>>

(* write_all: blocks on a full pipe, as that of a receiver that hangs comes *)
(* to be, and fails once the receiver is gone.                              *)
PumpWrite(p) ==
    /\ pump[p] = "write"
    /\ \/ /\ Taking(p) /\ fed[p] - got[p] < Capacity
          /\ fed' = [fed EXCEPT ![p] = @ + 1]
          /\ To(p, "read") /\ UNCHANGED writeErr
       \/ /\ ~ Taking(p)
          /\ writeErr' = [writeErr EXCEPT ![p] = TRUE]
          /\ To(p, "kill") /\ UNCHANGED fed
    /\ UNCHANGED <<sent, read, got, ends, readErr, result, faults>>

KillNever(p) == \* a bug: the sender is waited for without being killed
    /\ pump[p] = "kill" /\ To(p, "waitsend")
    /\ UNCHANGED <<stream, ends, readErr, writeErr, result, faults>>

(* Both ends are closed by now; the sender is killed when one broke. *)
Kill(p) ==
    /\ pump[p] = "kill" /\ To(p, "waitsend")
    /\ Sender(p, IF (readErr[p] \/ writeErr[p]) /\ Alive(p) THEN "killed" ELSE sender[p])
    /\ UNCHANGED <<stream, receiver, readErr, writeErr, result, faults>>

WaitSend(p) ==
    /\ pump[p] = "waitsend" /\ ~ Alive(p) /\ To(p, "waitreceive")
    /\ UNCHANGED <<stream, ends, readErr, writeErr, result, faults>>

VerdictSenderFirst(p) == \* a bug: the consequence is reported, not the cause
    IF sender[p] # "ok" THEN "send"
    ELSE IF receiver[p] # "ok" THEN "receive"
    ELSE IF writeErr[p] THEN "write"
    ELSE IF readErr[p] THEN "read" ELSE "ok"

VerdictReceiverOnly(p) == \* a bug: the exit status of the sender is not looked at
    IF receiver[p] # "ok" THEN "receive"
    ELSE IF writeErr[p] THEN "write"
    ELSE IF readErr[p] THEN "read" ELSE "ok"

(* The first of these errors that applies. *)
Verdict(p) ==
    IF writeErr[p] /\ receiver[p] # "ok" THEN "receive"
    ELSE IF sender[p] # "ok" THEN "send"
    ELSE IF receiver[p] # "ok" THEN "receive"
    ELSE IF writeErr[p] THEN "write"
    ELSE IF readErr[p] THEN "read" ELSE "ok"

(* Without a time limit, as everything before it. *)
WaitReceive(p) ==
    /\ pump[p] = "waitreceive" /\ ~ Taking(p)
    /\ To(p, "over") /\ result' = [result EXCEPT ![p] = Verdict(p)]
    /\ UNCHANGED <<stream, ends, readErr, writeErr, faults>>

-----------------------------------------------------------------------------
(* The two commands. *)

SenderWrites(p) ==
    /\ sender[p] = "run" /\ Open(p)
    /\ sent[p] < Total /\ sent[p] - read[p] < Capacity
    /\ sent' = [sent EXCEPT ![p] = @ + 1]
    /\ UNCHANGED <<read, fed, got, ends, pump, readErr, writeErr, result, faults>>

SenderEnds(p) ==
    /\ sender[p] = "run"
    /\ \/ sent[p] = Total /\ Sender(p, "ok") /\ UNCHANGED faults
       \/ sent[p] < Total /\ ~ Open(p) /\ Sender(p, "broken") /\ UNCHANGED faults
       \/ Fault /\ \E s \in {"failed", "hung"} : Sender(p, s)
    /\ UNCHANGED <<stream, receiver, pump, readErr, writeErr, result>>

ReceiverReads(p) ==
    /\ receiver[p] = "run" /\ got[p] < fed[p]
    /\ got' = [got EXCEPT ![p] = @ + 1]
    /\ UNCHANGED <<sent, read, fed, ends, pump, readErr, writeErr, result, faults>>

(* At the end of its input: a stream cut between two commands looks whole. *)
ReceiverSeesEnd(p) ==
    /\ receiver[p] = "run" /\ got[p] = fed[p] /\ ~ Open(p)
    /\ \/ Receiver(p, "ok")
       \/ got[p] < Total /\ Receiver(p, "short")
    /\ UNCHANGED <<stream, sender, pump, readErr, writeErr, result, faults>>

ReceiverFails(p) ==
    /\ receiver[p] = "run" /\ Fault /\ \E s \in {"failed", "hung"} : Receiver(p, s)
    /\ UNCHANGED <<stream, sender, pump, readErr, writeErr, result>>

-----------------------------------------------------------------------------
Program(p) == \/ SpawnSend(p) \/ SpawnReceive(p) \/ PumpRead(p) \/ PumpWrite(p)
              \/ Kill(p) \/ WaitSend(p) \/ WaitReceive(p)

PipeOK ==
    /\ {sent, read, fed, got} \subseteq [Procs -> 0 .. Total]
    /\ \A p \in Procs : got[p] <= fed[p] /\ fed[p] <= read[p] /\ read[p] <= sent[p]
    /\ sender \in [Procs -> {"none", "run", "hung", "ok", "failed", "broken", "killed"}]
    /\ receiver \in [Procs -> {"none", "run", "hung", "ok", "failed", "short"}]
    /\ pump \in [Procs -> PumpSteps] /\ result \in [Procs -> Results]
    /\ readErr \in [Procs -> BOOLEAN] /\ writeErr \in [Procs -> BOOLEAN]
    /\ faults \in 0 .. MaxFaults

(* A transfer is reported as done only when the whole stream was received   *)
(* and both commands said so (replication.rs:431-463).                      *)
NoFalseSuccess ==
    \A p \in Procs : result[p] = "ok" =>
        got[p] = Total /\ sender[p] = "ok" /\ receiver[p] = "ok"

(* The side that is blamed failed by itself: it was not killed by the       *)
(* program, nor cut off by the other side (replication.rs:436).  A failed   *)
(* read from the sender is the exception: the sender it kills is blamed.    *)
BlameIsCause ==
    \A p \in Procs : ~ readErr[p] =>
        /\ result[p] = "send" => sender[p] = "failed"
        /\ result[p] = "receive" => receiver[p] = "failed"

(* The program waits for ever on a transfer only if the receiver hangs, or  *)
(* the sender does with nothing broken: a failure of either side, a failed  *)
(* read and a sender that hangs once the receiver is gone all come to an    *)
(* answer (replication.rs:427-435, 483-513).                                *)
Settles ==
    \A p \in Procs : pump[p] = "send" ~>
        \/ pump[p] \in {"off", "over"} \/ receiver[p] = "hung"
        \/ sender[p] = "hung" /\ ~ readErr[p] /\ ~ writeErr[p]
=============================================================================
