--------------------------- MODULE StartupProofs ---------------------------
(***************************************************************************)
(* Every safety property of Startup, for any number of invocations with    *)
(* any command lines, any rows of an older version, and any errors and     *)
(* kills.                                                                  *)
(***************************************************************************)
EXTENDS Startup, TLAPS

OnDatabase == {"snapshots", "create", "pragma", "replicas", "add", "count", "strip"}
Over       == {"failed", "done"}

(* What an invocation has made sure of at each step, and others leave so. *)
Reached(p) ==
    /\ Step(p) \notin Over \union {"idle", "parse"} => opt[p] = Effective(command[p])
    /\ Step(p) \in {"required", "dest", "mkdest"} => Op(p) = "create"
    /\ Op(p) = "create" /\ Step(p) \notin Over \union {"idle", "parse", "normalize", "required"}
       => \A f \in Options : opt[p][f] # "default"
    /\ Step(p) \in {"mkdest", "mkparent"} => Op(p) = "create" /\ ~ command[p].dry
    /\ Step(p) = "connect" => DbDir \in dirs /\ (file \/ (Op(p) = "create" /\ ~ command[p].dry))
    /\ Step(p) \in OnDatabase => file
    /\ Step(p) \in {"pragma", "replicas", "add", "count", "strip"} => "snapshots" \in tables
    /\ Step(p) \in {"count", "strip"} => "replicas" \in tables
    /\ OnFile(p) => tables = Tables /\ \A r \in Rows : machines[r] # "quoted"
    /\ pc[p].memory => Step(p) \in Over \union {"operate", "list"}

(* The journal mode is set but for those who were stopped, or stand, just  *)
(* before they set it.                                                     *)
Journal == tables # {} => wal \/ cutShort \/ \E q \in Procs : Step(q) = "pragma"

StartupInv == TypeOK /\ Journal /\ \A p \in Procs : Reached(p)

(* What no step takes back. *)
Grows ==
    /\ command' = command
    /\ dirs \subseteq dirs' /\ (file => file') /\ tables \subseteq tables'
    /\ \A r \in Rows : machines[r] # "quoted" => machines'[r] # "quoted"

-----------------------------------------------------------------------------
(* The effective options are of their type: args.rs:122-158. *)
LEMMA EffectiveType ==
    ASSUME NEW c \in Command
    PROVE  /\ Effective(c) \in [Options \union {"replicate"} -> {"cli", "file", "default", "invalid"}]
           /\ \A f \in Options : Effective(c)[f] \in {"cli", "file", "default"}
<1>1. c.replicate \in {"default", "file", "invalid"}
  BY DEF Command
<1>2. \A f \in Options : Merged(c)[f] \in {"cli", "file", "default"}
  BY DEF Merged
<1> QED
  BY <1>1, <1>2 DEF Effective, Options

(* What an invocation has made sure of survives the steps of the others. *)
LEMMA OthersKeep ==
    ASSUME NEW q \in Procs, Reached(q), Grows, tables' \subseteq Tables,
           pc'[q] = pc[q], opt'[q] = opt[q]
    PROVE  Reached(q)'
<1>1. command'[q] = command[q]
  BY DEF Grows
<1>2. tables = Tables => tables' = Tables
  BY DEF Grows
<1> QED
  BY <1>1, <1>2 DEF Reached, Grows, Step, Op, OnFile, Working

(* A step that only looks. *)
LEMMA CheckStep ==
    ASSUME StartupInv, NEW p \in Procs, NEW s, NEW ok, NEW next \in Steps,
           s # "pragma", Check(p, s, ok, next)
    PROVE  /\ TypeOK' /\ Journal' /\ Grows
           /\ pc'[p] = [pc[p] EXCEPT !.step = IF ok THEN next ELSE "failed"]
           /\ \A q \in Procs \ {p} : pc'[q] = pc[q] /\ opt'[q] = opt[q]
<1>1. /\ pc \in [Procs -> [step : Steps, memory : BOOLEAN]]
      /\ UNCHANGED <<command, opt, dirs, db, faults, cutShort>>
      /\ pc' = [pc EXCEPT ![p].step = IF ok THEN next ELSE "failed"]
  BY DEF StartupInv, TypeOK, Check, Goto
<1>2. pc' \in [Procs -> [step : Steps, memory : BOOLEAN]]
  BY <1>1 DEF Steps
<1>3. /\ pc'[p] = [pc[p] EXCEPT !.step = IF ok THEN next ELSE "failed"]
      /\ \A q \in Procs \ {p} : pc'[q] = pc[q] /\ opt'[q] = opt[q]
  BY <1>1
<1>4. Journal'
  <2>1. \A q \in Procs : Step(q) = "pragma" => Step(q)' = "pragma"
    BY <1>3 DEF Check, Step
  <2> QED
    BY <1>1, <2>1 DEF StartupInv, Journal, db
<1> QED
  BY <1>1, <1>2, <1>3, <1>4 DEF StartupInv, TypeOK, Grows, db

(* A step keeps the invariant if it takes nothing back, its invocation has  *)
(* made sure of what the next step needs, and the others stay where they are. *)
LEMMA OneMoves ==
    ASSUME StartupInv, NEW p \in Procs, TypeOK', Journal', Grows, Reached(p)',
           \A q \in Procs \ {p} : pc'[q] = pc[q] /\ opt'[q] = opt[q]
    PROVE  StartupInv'
<1>1. ASSUME NEW q \in Procs, q # p PROVE Reached(q)'
  BY <1>1, OthersKeep DEF StartupInv, TypeOK
<1> QED
  BY <1>1 DEF StartupInv

(* Looking whether a table exists keeps the invariant, whatever is found.   *)
LEMMA Looked ==
    ASSUME StartupInv, NEW p \in Procs, NEW s, NEW ok, NEW next \in Steps,
           s # "pragma", Check(p, s, ok, next), Reached(p)'
    PROVE  StartupInv'
BY CheckStep, OneMoves

-----------------------------------------------------------------------------
(* Every step keeps the invariant. *)
LEMMA StartupStep == StartupInv /\ [Next]_vars => StartupInv'
<1> SUFFICES ASSUME StartupInv, [Next]_vars PROVE StartupInv'
  OBVIOUS
<1>0. /\ TypeOK /\ Journal /\ \A q \in Procs : Reached(q)
  BY DEF StartupInv
<1>1. ASSUME NEW p \in Procs, Start(p) PROVE StartupInv'
  <2>1. PICK ok \in BOOLEAN, go \in Steps : Check(p, "idle", ok, go)
    BY <1>1 DEF Start, Steps
  <2>2. Reached(p)'
    BY <1>0, <1>1 DEF TypeOK, Reached, Start, Check, Goto, Step, Op, OnFile, Working, OnDatabase, Over, db
  <2> QED
    BY <2>1, <2>2, Looked
<1>2. ASSUME NEW p \in Procs, FromMatches(p) PROVE StartupInv'
  <2>1. TypeOK'
    <3> DEFINE Opts == [Options \union {"replicate"} -> {"cli", "file", "default", "invalid"}]
    <3>1. Effective(command[p]) \in Opts /\ opt \in [Procs -> Opts]
      BY <1>0, EffectiveType DEF TypeOK
    <3>2. opt' \in [Procs -> Opts]
      <4>1. opt' = [opt EXCEPT ![p] = Effective(command[p])] \/ opt' = opt
        BY <1>2 DEF FromMatches
      <4> HIDE DEF Opts
      <4> QED
        BY <3>1, <4>1
    <3>3. pc' \in [Procs -> [step : Steps, memory : BOOLEAN]]
      <4>1. pc' = [pc EXCEPT ![p].step = "normalize"] \/ pc' = [pc EXCEPT ![p].step = "failed"]
        BY <1>2 DEF FromMatches, Goto
      <4>2. pc \in [Procs -> [step : Steps, memory : BOOLEAN]]
        BY <1>0 DEF TypeOK
      <4> QED
        BY <4>1, <4>2 DEF Steps
    <3> QED
      BY <1>0, <1>2, <3>2, <3>3 DEF TypeOK, FromMatches, db
  <2>2. Journal'
    BY <1>0, <1>2 DEF TypeOK, Journal, FromMatches, Goto, Step, db
  <2>3. Grows /\ \A q \in Procs \ {p} : pc'[q] = pc[q] /\ opt'[q] = opt[q]
    BY <1>0, <1>2 DEF TypeOK, Grows, FromMatches, Goto, db
  <2>4. Reached(p)'
    BY <1>0, <1>2 DEF TypeOK, Reached, FromMatches, Goto, Step, Op, OnFile, Working, OnDatabase, Over, db, Readable
  <2> QED
    BY <2>1, <2>2, <2>3, <2>4, OneMoves
<1>3. ASSUME NEW p \in Procs, Normalize(p) PROVE StartupInv'
  <2>1. PICK ok \in BOOLEAN, go \in Steps : Check(p, "normalize", ok, go)
    BY <1>3 DEF Normalize, Steps
  <2>2. Reached(p)'
    BY <1>0, <1>3 DEF TypeOK, Reached, Normalize, Check, Goto, Step, Op, OnFile, Working, OnDatabase, Over, db
  <2> QED
    BY <2>1, <2>2, Looked
<1>4. ASSUME NEW p \in Procs, CheckCreationRequirements(p) PROVE StartupInv'
  <2>1. PICK ok \in BOOLEAN, go \in Steps : Check(p, "required", ok, go)
    BY <1>4 DEF CheckCreationRequirements, Steps
  <2>2. Reached(p)'
    BY <1>0, <1>4 DEF TypeOK, Reached, CheckCreationRequirements, Check, Goto, Step, Op, OnFile, Working, OnDatabase, Over, db
  <2> QED
    BY <2>1, <2>2, Looked
<1>5. ASSUME NEW p \in Procs, LookForDest(p) PROVE StartupInv'
  <2>1. PICK ok \in BOOLEAN, go \in Steps : Check(p, "dest", ok, go)
    BY <1>5 DEF LookForDest, Steps
  <2>2. Reached(p)'
    BY <1>0, <1>5 DEF TypeOK, Reached, LookForDest, Check, Goto, Step, Op, OnFile, Working, OnDatabase, Over, db
  <2> QED
    BY <2>1, <2>2, Looked
<1>6. ASSUME NEW p \in Procs, MkDest(p) PROVE StartupInv'
  <2>1. TypeOK'
    <3>1. opt[p].dest_dir \in Dirs
      BY <1>0, <1>6, EffectiveType DEF TypeOK, Reached, MkDest, Step, Options, Over, Dirs
    <3> QED
      BY <1>0, <1>6, <3>1 DEF TypeOK, MkDest, Goto, Steps, db
  <2>2. Journal'
    BY <1>0, <1>6 DEF TypeOK, Journal, MkDest, Goto, Step, db
  <2>3. Grows /\ \A q \in Procs \ {p} : pc'[q] = pc[q] /\ opt'[q] = opt[q]
    BY <1>0, <1>6 DEF TypeOK, Grows, MkDest, Goto, db
  <2>4. Reached(p)'
    BY <1>0, <1>6 DEF TypeOK, Reached, MkDest, Goto, Step, Op, OnFile, Working, OnDatabase, Over, db, Options
  <2> QED
    BY <2>1, <2>2, <2>3, <2>4, OneMoves
<1>7. ASSUME NEW p \in Procs, LookForFile(p) PROVE StartupInv'
  <2>1. TypeOK'
    BY <1>0, <1>7 DEF TypeOK, LookForFile, Goto, Steps, db
  <2>2. Journal'
    BY <1>0, <1>7 DEF TypeOK, Journal, LookForFile, Goto, Step, db
  <2>3. Grows /\ \A q \in Procs \ {p} : pc'[q] = pc[q] /\ opt'[q] = opt[q]
    BY <1>0, <1>7 DEF TypeOK, Grows, LookForFile, Goto, db
  <2>4. Reached(p)'
    BY <1>0, <1>7 DEF TypeOK, Reached, LookForFile, Goto, Step, Op, OnFile, Working, OnDatabase, Over, db
  <2> QED
    BY <2>1, <2>2, <2>3, <2>4, OneMoves
<1>8. ASSUME NEW p \in Procs, MkParent(p) PROVE StartupInv'
  <2>1. TypeOK'
    BY <1>0, <1>8, StartupAssumption DEF TypeOK, Reached, OnDatabase, Step, MkParent, Goto, Steps, db
  <2>2. Journal'
    BY <1>0, <1>8 DEF TypeOK, Journal, MkParent, Goto, Step, db
  <2>3. Grows /\ \A q \in Procs \ {p} : pc'[q] = pc[q] /\ opt'[q] = opt[q]
    BY <1>0, <1>8 DEF TypeOK, Grows, MkParent, Goto, db
  <2>4. Reached(p)'
    BY <1>0, <1>8 DEF TypeOK, Reached, MkParent, Goto, Step, Op, OnFile, Working, OnDatabase, Over, db
  <2> QED
    BY <2>1, <2>2, <2>3, <2>4, OneMoves
<1>9. ASSUME NEW p \in Procs, Connect(p) PROVE StartupInv'
  <2>1. TypeOK'
    BY <1>0, <1>9, StartupAssumption DEF TypeOK, Reached, OnDatabase, Step, Connect, Goto, Steps
  <2>2. Journal'
    BY <1>0, <1>9 DEF TypeOK, Journal, Connect, Goto, Step
  <2>3. Grows /\ \A q \in Procs \ {p} : pc'[q] = pc[q] /\ opt'[q] = opt[q]
    BY <1>0, <1>9 DEF TypeOK, Grows, Connect, Goto
  <2>4. Reached(p)'
    BY <1>0, <1>9 DEF TypeOK, Reached, Connect, Goto, Step, Op, OnFile, Working, OnDatabase, Over
  <2> QED
    BY <2>1, <2>2, <2>3, <2>4, OneMoves
<1>10. ASSUME NEW p \in Procs, FindSnapshots(p) PROVE StartupInv'
  <2>1. PICK ok \in BOOLEAN, go \in Steps : Check(p, "snapshots", ok, go)
    BY <1>10 DEF FindSnapshots, Steps
  <2>2. Reached(p)'
    BY <1>0, <1>10 DEF TypeOK, Reached, FindSnapshots, Check, Goto, Step, Op, OnFile, Working, OnDatabase, Over, db
  <2> QED
    BY <2>1, <2>2, Looked
<1>11. ASSUME NEW p \in Procs, CreateSnapshots(p) PROVE StartupInv'
  <2>1. TypeOK'
    <3>1. pc' \in [Procs -> [step : Steps, memory : BOOLEAN]]
      BY <1>0, <1>11 DEF TypeOK, CreateSnapshots, CreateTable, Goto, Steps
    <3>2. tables' \subseteq Tables /\ (tables' # {} => file')
      BY <1>0, <1>11 DEF TypeOK, Reached, OnDatabase, Step, CreateSnapshots, CreateTable, Tables
    <3> QED
      BY <1>0, <1>11, <3>1, <3>2 DEF TypeOK, CreateSnapshots, CreateTable
  <2>2. Journal'
    BY <1>0, <1>11 DEF TypeOK, Journal, CreateSnapshots, Goto, Step, CreateTable, Tables, Reached
  <2>3. Grows /\ \A q \in Procs \ {p} : pc'[q] = pc[q] /\ opt'[q] = opt[q]
    BY <1>0, <1>11 DEF TypeOK, Grows, CreateSnapshots, Goto, CreateTable, Tables
  <2>4. Reached(p)'
    BY <1>0, <1>11 DEF TypeOK, Reached, CreateSnapshots, Goto, Step, Op, OnFile, Working, OnDatabase, Over, CreateTable, Tables
  <2> QED
    BY <2>1, <2>2, <2>3, <2>4, OneMoves
<1>12. ASSUME NEW p \in Procs, SetWal(p) PROVE StartupInv'
  <2>1. TypeOK'
    BY <1>0, <1>12 DEF TypeOK, SetWal, Goto, Steps
  <2>2. Journal'
    BY <1>0, <1>12 DEF TypeOK, Journal, SetWal, Goto, Step
  <2>3. Grows /\ \A q \in Procs \ {p} : pc'[q] = pc[q] /\ opt'[q] = opt[q]
    BY <1>0, <1>12 DEF TypeOK, Grows, SetWal, Goto
  <2>4. Reached(p)'
    BY <1>0, <1>12 DEF TypeOK, Reached, SetWal, Goto, Step, Op, OnFile, Working, OnDatabase, Over
  <2> QED
    BY <2>1, <2>2, <2>3, <2>4, OneMoves
<1>13. ASSUME NEW p \in Procs, FindReplicas(p) PROVE StartupInv'
  <2>1. PICK ok \in BOOLEAN, go \in Steps : Check(p, "replicas", ok, go)
    BY <1>13 DEF FindReplicas, Steps
  <2>2. Reached(p)'
    BY <1>0, <1>13 DEF TypeOK, Reached, FindReplicas, Check, Goto, Step, Op, OnFile, Working, OnDatabase, Over, db
  <2> QED
    BY <2>1, <2>2, Looked
<1>14. ASSUME NEW p \in Procs, CreateReplicas(p) PROVE StartupInv'
  <2>1. TypeOK'
    <3>1. pc' \in [Procs -> [step : Steps, memory : BOOLEAN]]
      BY <1>0, <1>14 DEF TypeOK, CreateReplicas, CreateTable, Goto, Steps
    <3>2. tables' \subseteq Tables /\ (tables' # {} => file')
      BY <1>0, <1>14 DEF TypeOK, Reached, OnDatabase, Step, CreateReplicas, CreateTable, Tables
    <3> QED
      BY <1>0, <1>14, <3>1, <3>2 DEF TypeOK, CreateReplicas, CreateTable
  <2>2. Journal'
    BY <1>0, <1>14 DEF TypeOK, Journal, CreateReplicas, Goto, Step, CreateTable, Tables, Reached
  <2>3. Grows /\ \A q \in Procs \ {p} : pc'[q] = pc[q] /\ opt'[q] = opt[q]
    BY <1>0, <1>14 DEF TypeOK, Grows, CreateReplicas, Goto, CreateTable, Tables
  <2>4. Reached(p)'
    BY <1>0, <1>14 DEF TypeOK, Reached, CreateReplicas, Goto, Step, Op, OnFile, Working, OnDatabase, Over, CreateTable, Tables
  <2> QED
    BY <2>1, <2>2, <2>3, <2>4, OneMoves
<1>15. ASSUME NEW p \in Procs, CountQuoted(p) PROVE StartupInv'
  <2>1. PICK ok \in BOOLEAN, go \in Steps : Check(p, "count", ok, go)
    BY <1>15 DEF CountQuoted, Steps
  <2>2. Reached(p)'
    BY <1>0, <1>15 DEF TypeOK, Reached, CountQuoted, Check, Goto, Step, Op, OnFile, Working, OnDatabase, Over, db, Tables
  <2> QED
    BY <2>1, <2>2, Looked
<1>16. ASSUME NEW p \in Procs, Strip(p) PROVE StartupInv'
  <2>1. TypeOK'
    BY <1>0, <1>16 DEF TypeOK, Strip, Goto, Steps, Unquoted
  <2>2. Journal'
    BY <1>0, <1>16 DEF TypeOK, Journal, Strip, Goto, Step, Unquoted
  <2>3. Grows /\ \A q \in Procs \ {p} : pc'[q] = pc[q] /\ opt'[q] = opt[q]
    BY <1>0, <1>16 DEF TypeOK, Grows, Strip, Goto, Unquoted
  <2>4. Reached(p)'
    <3>1. \A r \in Rows : machines'[r] # "quoted"
      BY <1>0, <1>16 DEF TypeOK, Strip, Unquoted
    <3>2. tables' = tables /\ (Step(p) = "strip" => tables = Tables)
      BY <1>0, <1>16 DEF TypeOK, Strip, Reached, Tables
    <3> QED
      BY <1>0, <1>16, <3>1, <3>2 DEF TypeOK, Reached, Strip, Goto, Step, Op, OnFile, Working, OnDatabase, Over
  <2> QED
    BY <2>1, <2>2, <2>3, <2>4, OneMoves
<1>17. ASSUME NEW p \in Procs, Operate(p) PROVE StartupInv'
  <2>0. machines' = machines \/ machines' = [machines EXCEPT ![p] = Given(p)]
    BY <1>17 DEF Operate
  <2>1. TypeOK'
    <3>1. pc' \in [Procs -> [step : Steps, memory : BOOLEAN]]
      <4>1. \E g \in {"list", "done", "failed"} : pc' = [pc EXCEPT ![p].step = g]
        BY <1>17 DEF Operate, Goto
      <4> QED
        BY <1>0, <4>1 DEF TypeOK, Steps
    <3>2. machines' \in [Rows \union Procs -> {"none", "plain", "quoted"}]
      <4>1. Given(p) \in {"none", "plain", "quoted"} /\ p \in Rows \union Procs
        BY DEF Given
      <4> QED
        BY <1>0, <2>0, <4>1 DEF TypeOK
    <3> QED
      BY <1>0, <1>17, <3>1, <3>2 DEF TypeOK, Operate
  <2>2. Journal'
    BY <1>0, <1>17 DEF TypeOK, Journal, Operate, Goto, Step
  <2>3. \A r \in Rows : machines'[r] = machines[r]
    BY <1>0, <2>0, StartupAssumption DEF TypeOK
  <2>4. Grows /\ \A q \in Procs \ {p} : pc'[q] = pc[q] /\ opt'[q] = opt[q]
    BY <1>0, <1>17, <2>3 DEF TypeOK, Grows, Operate, Goto
  <2>5. Reached(p)'
    BY <1>0, <1>17, <2>3 DEF TypeOK, Reached, Operate, Goto, Step, Op, OnFile, Working, OnDatabase, Over
  <2> QED
    BY <2>1, <2>2, <2>4, <2>5, OneMoves
<1>18. ASSUME NEW p \in Procs, List(p) PROVE StartupInv'
  <2>1. PICK ok \in BOOLEAN, go \in Steps : Check(p, "list", ok, go)
    BY <1>18 DEF List, Steps
  <2>2. Reached(p)'
    BY <1>0, <1>18 DEF TypeOK, Reached, List, Check, Goto, Step, Op, OnFile, Working, OnDatabase, Over, db
  <2> QED
    BY <2>1, <2>2, Looked
<1>19. ASSUME NEW p \in Procs, End(p) PROVE StartupInv'
  <2>1. TypeOK'
    BY <1>0, <1>19 DEF TypeOK, End, Goto, Steps, db, Unset, Options
  <2>2. Journal'
    BY <1>0, <1>19 DEF TypeOK, Journal, End, Goto, Step, db, Unset, Options
  <2>3. Grows /\ \A q \in Procs \ {p} : pc'[q] = pc[q] /\ opt'[q] = opt[q]
    BY <1>0, <1>19 DEF TypeOK, Grows, End, Goto, db, Unset, Options
  <2>4. Reached(p)'
    BY <1>0, <1>19 DEF TypeOK, Reached, End, Goto, Step, Op, OnFile, Working, OnDatabase, Over, db, Unset, Options
  <2> QED
    BY <2>1, <2>2, <2>3, <2>4, OneMoves
<1>20. ASSUME NEW p \in Procs, Stop(p) PROVE StartupInv'
  <2>1. TypeOK'
    <3>1. pc' \in [Procs -> [step : Steps, memory : BOOLEAN]]
      BY <1>0, <1>20 DEF TypeOK, Stop, Goto, Steps
    <3>2. faults' \in 0 .. MaxFaults
      BY <1>0, <1>20, StartupAssumption DEF TypeOK, Stop
    <3>3. cutShort' \in BOOLEAN
      BY <1>20 DEF Stop
    <3> QED
      BY <1>0, <1>20, <3>1, <3>2, <3>3 DEF TypeOK, Stop, db
  <2>2. Journal'
    BY <1>0, <1>20 DEF TypeOK, Journal, Stop, Goto, Step, db
  <2>3. Grows /\ \A q \in Procs \ {p} : pc'[q] = pc[q] /\ opt'[q] = opt[q]
    BY <1>0, <1>20 DEF TypeOK, Grows, Stop, Goto, db
  <2>4. Reached(p)'
    BY <1>0, <1>20 DEF TypeOK, Reached, Stop, Goto, Step, Op, OnFile, Working, OnDatabase, Over, db
  <2> QED
    BY <2>1, <2>2, <2>3, <2>4, OneMoves
<1>21. CASE UNCHANGED vars
  BY <1>21 DEF vars, db, StartupInv, TypeOK, Journal, Reached, Step, Op, OnFile, Working
<1> QED
  BY <1>1, <1>2, <1>3, <1>4, <1>5, <1>6, <1>7, <1>8, <1>9, <1>10, <1>11, <1>12, <1>13, <1>14, <1>15, <1>16, <1>17, <1>18, <1>19, <1>20, <1>21 DEF Next, Run

(* StartupInv holds before the first invocation.                            *)
LEMMA StartupInit == Init => StartupInv
<1> SUFFICES ASSUME Init PROVE StartupInv
  OBVIOUS
<1>1. TypeOK
  <2>1. command \in [Procs -> Command]
    BY StartupAssumption DEF Init
  <2>2. opt \in [Procs -> [Options \union {"replicate"} -> {"cli", "file", "default", "invalid"}]]
    BY DEF Init, Unset
  <2>3. machines \in [Rows \union Procs -> {"none", "plain", "quoted"}]
    BY DEF Init
  <2>4. wal \in BOOLEAN /\ file \in BOOLEAN /\ cutShort \in BOOLEAN
    BY DEF Init
  <2>5. faults \in 0 .. MaxFaults
    BY StartupAssumption DEF Init
  <2>6. pc \in [Procs -> [step : Steps, memory : BOOLEAN]]
    BY DEF Init, Steps
  <2>7. dirs \subseteq Dirs /\ tables \subseteq Tables
    BY DEF Init, Tables
  <2>8. (file => DbDir \in dirs) /\ (tables # {} => file)
    BY DEF Init
  <2> QED
    BY <2>1, <2>2, <2>3, <2>4, <2>5, <2>6, <2>7, <2>8 DEF TypeOK
<1>2. Journal
  BY DEF Init, Journal, Tables
<1>3. \A p \in Procs : Reached(p)
  BY DEF Init, Reached, Step, OnFile, Working, Over, OnDatabase
<1> QED
  BY <1>1, <1>2, <1>3 DEF StartupInv

(* StartupInv always holds.                                                 *)
LEMMA StartupInvariant == Spec => []StartupInv
BY StartupInit, StartupStep, PTL DEF Spec

-----------------------------------------------------------------------------
(* The shape of the state. *)
THEOREM StartupTypeCorrect == Spec => []TypeOK
BY StartupInvariant, PTL DEF StartupInv

(* Whoever gets past open() has both tables under it and finds no quoted    *)
(* machine name, whatever the others are doing to the database: what its    *)
(* own checks established no step of another takes back (database.rs:63-130). *)
THEOREM ReadyForWorkCorrect == Spec => []ReadyForWork
<1>1. StartupInv => ReadyForWork
  BY DEF StartupInv, Reached, ReadyForWork
<1> QED
  BY <1>1, StartupInvariant, PTL

(* The database that is worked on is in WAL mode, but for an invocation     *)
(* that ended or stands between CREATE TABLE and PRAGMA.                    *)
THEOREM WalCorrect == Spec => []WalUnlessCutShort
<1>1. StartupInv => WalUnlessCutShort
  BY DEF StartupInv, Reached, Journal, WalUnlessCutShort, Tables
<1> QED
  BY <1>1, StartupInvariant, PTL

(* The command line counts before the file, and a restore never goes to the *)
(* dest_dir of the file, for every command line clap lets through.          *)
THEOREM OptionsCorrect == Spec => []OptionsAsGiven
<1>1. StartupInv => OptionsAsGiven
  <2> SUFFICES ASSUME StartupInv, NEW p \in Procs, Working(p)
               PROVE  LET c == command[p] IN
                      /\ \A f \in c.cli : opt[p][f] = "cli"
                      /\ \A f \in c.config \ c.cli :
                            opt[p][f] = (IF f = "dest_dir" /\ c.op = "restore" THEN "default" ELSE "file")
                      /\ c.op = "create" => c.cli \union c.config = Options
                      /\ c.target => opt[p].replicate = "cli"
    BY DEF OptionsAsGiven
  <2> DEFINE c == command[p]
  <2>1. c \in Command /\ c.cli \subseteq Options /\ c.config \subseteq Options
    BY DEF StartupInv, TypeOK, Command
  <2>2. opt[p] = Effective(c) /\ (c.op = "create" => \A f \in Options : opt[p][f] # "default")
    BY DEF StartupInv, Reached, Working, Over, Op
  <2>3. \A f \in Options : opt[p][f] = IF f = "dest_dir" /\ c.op = "restore" /\ f \notin c.cli
                                       THEN "default" ELSE Merged(c)[f]
    BY <2>2 DEF Effective, Options
  <2>4. opt[p].replicate = IF c.target THEN "cli" ELSE c.replicate
    BY <2>2 DEF Effective
  <2> QED
    BY <2>1, <2>2, <2>3, <2>4 DEF Merged, Options
<1> QED
  BY <1>1, StartupInvariant, PTL

(* Only a --create that is not a dry run makes a directory or the file, even *)
(* when another invocation looked for the file before it was made.          *)
THEOREM OnlyCreateMakesCorrect == Spec => OnlyCreateMakes
<1>1. ASSUME StartupInv, [Next]_vars
      PROVE  dirs' # dirs \/ file' # file =>
                \E p \in Procs : Op(p) = "create" /\ ~ command[p].dry /\ pc'[p] # pc[p]
  <2>1. /\ TypeOK /\ \A p \in Procs : Reached(p)
    BY <1>1 DEF StartupInv
  <2>2. ASSUME dirs' # dirs \/ file' # file
        PROVE  \E p \in Procs : MkDest(p) \/ MkParent(p) \/ Connect(p)
    BY <1>1, <2>2 DEF Next, Run, vars, db, Start, FromMatches, Normalize, CheckCreationRequirements,
       LookForDest, LookForFile, FindSnapshots, CreateSnapshots, CreateTable, SetWal, FindReplicas,
       CreateReplicas, CountQuoted, Strip, Operate, List, End, Stop, Check
  <2>3. ASSUME NEW p \in Procs, MkDest(p) \/ MkParent(p) \/ Connect(p)
        PROVE  pc'[p] # pc[p]
    BY <2>1, <2>3 DEF TypeOK, MkDest, MkParent, Connect, Step, Goto
  <2>4. ASSUME NEW p \in Procs, MkDest(p) \/ MkParent(p) \/ Connect(p),
               dirs' # dirs \/ file' # file
        PROVE  Op(p) = "create" /\ ~ command[p].dry
    BY <2>1, <2>4 DEF TypeOK, Reached, MkDest, MkParent, Connect, Step
  <2> QED
    BY <2>2, <2>3, <2>4
<1> QED
  BY <1>1, StartupInvariant, PTL DEF Spec, OnlyCreateMakes
=============================================================================
