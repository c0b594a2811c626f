----------------------------- MODULE MCStartup -----------------------------
(* Instances of Startup for TLC. *)
EXTENDS Startup, TLC

a == "a"
b == "b"

(* --create from a unit: its directories from the command line, the file,  *)
(* both or neither.                                                        *)
Creates ==
    {c \in Command :
        c.op = "create" /\ c.config \in {{}, {"dest_dir"}} /\ c.replicate = "default" /\ ~ c.broken}

(* What runs beside it: a second --create, and each of the others with the *)
(* options that matter to it.                                              *)
Beside ==
    {c \in Command :
        \/ /\ c.op = "create" /\ c.cli = {"dest_dir"} /\ c.config = Options
           /\ c.replicate # "file" /\ ~ c.dry
        \/ /\ c.op = "restore" /\ c.config = Options /\ c.replicate = "default"
           /\ ~ c.broken /\ ~ c.list /\ ~ (c.dry /\ c.from_replica)
        \/ /\ c.op = "send" /\ c.config = {} /\ ~ c.broken /\ ~ c.list /\ ~ c.dry
        \/ /\ c.op = "none" /\ c.cli = {} /\ c.config = {"dest_dir"} /\ c.list
           /\ c.replicate = "default" /\ ~ c.broken}

MCCommands == (a :> Creates) @@ (b :> Beside)
=============================================================================
