------------------------------- MODULE Launch -------------------------------
(***************************************************************************)
(* Clients of the config interface: a free script, the launcher of         *)
(* blockdiagram.lua, which configures in passes over the systems of a      *)
(* composition, and a C program such as platform_launch/main.c.            *)
(***************************************************************************)
EXTENDS Config, Sequences

CONSTANTS
  Clients,    \* the ones of this instance: "script", "blockdiagram", "program"
  Blocks,     \* the blocks of the composition, in the order of its tables
  NodeCfgs,   \* its node configs: [d, len], shadowed ones left out
  Compositions, \* what its configs may be, higher systems first: sequences of
              \* [b, n, len, d]; d is None for a plain value of length len, else
              \* the node config it refers to, in NodeCfgs or not
  Program     \* the calls of main: [op, b, n, len, must]; must: goto out if
              \* the call fails

SettingType == [b : Block, n : Name, len : Nat, d : NodeData \cup {None}]
ASSUME LaunchAssumption ==
  /\ Clients \subseteq {"script", "blockdiagram", "program"}
  /\ Blocks \in Seq(Block)
  /\ \A i \in DOMAIN NodeCfgs :
       NodeCfgs[i].d \in NodeData /\ NodeCfgs[i].len \in Lens[NodeType[NodeCfgs[i].d]]
  /\ Compositions \subseteq Seq(SettingType)
  /\ \A S \in Compositions : \A i \in DOMAIN S : S[i].len \in Lens[Type[S[i].n]]
  /\ \A i \in DOMAIN Program :
       /\ i \in Nat /\ Program[i].b \in Block
       /\ Program[i].op = "set" =>
            Program[i].n \in Name /\ Program[i].len \in Lens[Type[Program[i].n]]

\* main sets every config before the hook that reads it: the static ones before
\* the init of their block, the dynamic ones before its start.
ASSUME ProgramAssumption ==
  \A j \in DOMAIN Program, i \in DOMAIN Program :
    (i < j /\ Program[j].op = "set" /\ Program[i].b = Program[j].b) =>
      /\ Program[i].op # "start"
      /\ Program[i].op = "init" => Program[j].n \in Dynamic

VARIABLES
  settings,   \* the configs of the composition
  pass,       \* what the client does
  at,         \* the next item of the pass
  applied,    \* configured: the number of the setting that was applied, or 0
  nonexist    \* configs that were absent in the first pass
lvars == <<settings, pass, at, applied, nonexist>>

Key(s) == <<s.b, s.n>>
Keys == {Key(settings[i]) : i \in DOMAIN settings}

LInit ==
  /\ Init
  /\ pass \in {IF c = "blockdiagram" THEN "create" ELSE c : c \in Clients}
  /\ settings \in IF pass = "create" THEN Compositions ELSE {<<>>}
  /\ at = 1
  /\ applied = [k \in Keys |-> 0]
  /\ nonexist = {}

-----------------------------------------------------------------------------
Passes == <<"create", "nodecfgs", "apply", "init", "reapply", "start", "up">>
After(p) == LET i == CHOOSE j \in DOMAIN Passes : Passes[j] = p IN Passes[i + 1]
Items(p) == CASE p \in {"create", "init", "start"} -> Blocks
              [] p = "nodecfgs" -> NodeCfgs
              [] OTHER -> settings
Working(p) == pass = p /\ at \in DOMAIN Items(p)

Advance == at' = at + 1 /\ UNCHANGED <<settings, pass>>
ExitNot == UNCHANGED <<settings, pass, at>>   \* an error that is overlooked
\* err_exit of the launcher; main goes to the label out.
Exit == pass' = (IF pass = "program" THEN "rm" ELSE "exit") /\ UNCHANGED <<settings, at>>
Same == UNCHANGED <<applied, nonexist>>

EndPass ==
  /\ pass \in {Passes[i] : i \in 1 .. Len(Passes) - 1} /\ at \notin DOMAIN Items(pass)
  /\ pass' = After(pass) /\ at' = 1 /\ UNCHANGED settings
  /\ Same /\ UNCHANGED vars

\* ubx_block_create and data_alloc raise an error when they fail.
CreateBlock ==
  /\ Working("create")
  /\ (Create(Blocks[at]) /\ Advance) \/ (UNCHANGED vars /\ Exit)
  /\ Same
MakeNodeCfg ==
  /\ Working("nodecfgs")
  /\ \/ Alloc(NodeCfgs[at].d, NodeCfgs[at].len) /\ Advance
     \/ UNCHANGED vars /\ Exit
  /\ Same

\* apply_cfg_val: set a value, or assign a node config, if there is one of that
\* name and of the type of the config.
ApplyValue(s) ==
  \/ s.d = None /\ DataSet(cfg[s.b][s.n], s.len) /\ Advance
  \/ s.d = None /\ data[cfg[s.b][s.n]].len >= s.len /\ UNCHANGED vars /\ Advance
  \/ s.d # None /\ Assign(s.b, s.n, s.d) /\ Advance
  \/ s.d # None /\ (s.d \notin held \/ NodeType[s.d] # Type[s.n]) /\ UNCHANGED vars /\ Exit

\* The lower systems overwrite.
ConfigureAgain(s) == ApplyValue(s) /\ applied' = [applied EXCEPT ![Key(s)] = at]
Configure(s) ==
  IF applied[Key(s)] # 0 THEN Advance /\ UNCHANGED <<applied, vars>>
  ELSE ApplyValue(s) /\ applied' = [applied EXCEPT ![Key(s)] = at]

\* The block of the setting does not exist, or is not in the state it should be
\* in, which is overlooked.  The block_create and block_init before have ended
\* the launch in that case: a fresh node takes neither branch.
Unsettable(s) ==
  /\ IF state[s.b] = "none" THEN Exit ELSE Advance
  /\ UNCHANGED <<applied, nonexist, vars>>

\* apply_config
Absent(s) == nonexist' = nonexist \cup {Key(s)} /\ Advance /\ UNCHANGED <<applied, vars>>
Apply ==
  /\ Working("apply")
  /\ LET s == settings[at]
     IN IF state[s.b] # "preinit" THEN Unsettable(s)
        ELSE IF Has(s.b, s.n) THEN Configure(s) /\ UNCHANGED nonexist
        ELSE Absent(s)

\* reapply_config, for the configs that the init hooks have added.
LeftOver(s) == Key(s) \in nonexist
ConfigureLate(s) ==
  /\ \/ ~LeftOver(s) /\ Advance /\ UNCHANGED <<applied, vars>>
     \/ LeftOver(s) /\ Has(s.b, s.n) /\ Configure(s)
     \/ LeftOver(s) /\ ~Has(s.b, s.n) /\ Exit /\ UNCHANGED <<applied, vars>>
  /\ UNCHANGED nonexist
Reapply ==
  /\ Working("reapply")
  /\ LET s == settings[at]
     IN IF state[s.b] # "inactive" THEN Unsettable(s) ELSE ConfigureLate(s)

InitCall(b) == \/ InitOk(b) /\ Advance
               \/ (InitRefused(b) \/ InitFails(b)) /\ Exit
StartCall(b) == \/ Start(b) /\ Advance
                \/ UNCHANGED vars /\ Exit      \* refused, or the hook fails
InitBlocks == Working("init") /\ InitCall(Blocks[at]) /\ Same
StartBlocks == Working("start") /\ StartCall(Blocks[at]) /\ Same

Launcher == \/ CreateBlock \/ MakeNodeCfg \/ Apply \/ InitBlocks
            \/ Reapply \/ StartBlocks \/ EndPass

\* main: one call after the other.  A module that cannot be loaded ends it like
\* the first create that fails.
Main ==
  /\ pass = "program" /\ at \in DOMAIN Program
  /\ LET c == Program[at]
     IN \/ c.op = "create" /\ Create(c.b) /\ Advance
        \/ c.op = "create" /\ UNCHANGED vars /\ Exit
        \/ c.op = "set" /\ CfgSet(c.b, c.n, c.len) /\ Advance
        \/ c.op = "set" /\ ~Has(c.b, c.n) /\ UNCHANGED vars
                        /\ (IF c.must THEN Exit ELSE Advance)
        \/ c.op = "init" /\ InitCall(c.b)
        \/ c.op = "start" /\ StartCall(c.b)
  /\ Same
EndMain ==
  /\ pass = "program" /\ at \notin DOMAIN Program
  /\ pass' = "up" /\ UNCHANGED <<settings, at, vars>> /\ Same

NodeRm ==
  /\ pass = "up" /\ pass' = "rm"
  /\ UNCHANGED <<settings, at, vars>> /\ Same
\* A failed init is taken for a block that needs no removal.
TearDownSkips ==
  \/ /\ pass = "rm" /\ (\E b \in Block : Stop(b) \/ Cleanup(b))
     /\ UNCHANGED lvars
  \/ /\ pass = "rm" /\ \A b \in Block : state[b] \in {"none", "preinit"}
     /\ pass' = "removed" /\ UNCHANGED <<settings, at, vars>> /\ Same
\* ubx_node_rm, at the end of main and in pulldown of a launched node: blocks
\* are stopped, cleaned up and removed.
TearDown ==
  \/ /\ pass = "rm" /\ (\E b \in Block : Stop(b) \/ Cleanup(b) \/ Remove(b))
     /\ UNCHANGED lvars
  \/ /\ pass = "rm" /\ \A b \in Block : state[b] = "none"
     /\ pass' = "removed" /\ UNCHANGED <<settings, at, vars>> /\ Same

\* A launched node: blocks are stopped and started, the garbage collector runs
\* (_NC is a global that the next launch overwrites).
Up ==
  /\ pass = "up"
  /\ \/ \E b \in Block : Start(b) \/ Stop(b)
     \/ \E d \in NodeData : Collect(d)
  /\ UNCHANGED lvars

Script == pass = "script" /\ Next /\ UNCHANGED lvars

LNext == Launcher \/ Main \/ EndMain \/ NodeRm \/ TearDown \/ Up \/ Script
\* The launcher and main are single-threaded programs that run.
Fairness == WF_<<vars, lvars>>(Launcher \/ Main \/ EndMain \/ TearDown)
LSpec == LInit /\ [][LNext]_<<vars, lvars>> /\ Fairness
-----------------------------------------------------------------------------
(* Properties.                                                              *)

\* The order of the passes keeps every cached pointer good although settings
\* move buffers and node configs are shared: a config that an init hook reads is
\* not set any more after that hook has run, a dynamic one not after start.
LaunchedPointersCurrent ==
  pass # "script" => \A b \in Block, n \in Name : ptr[b][n] # Stale

\* "NCs defined higher in the composition tree override lower ones" holds for
\* configs as well, dynamic ones included: when the node is up, every config that
\* some system sets has the value of the highest one.
HighestWins ==
  (pass = "up" /\ \E k \in Keys : applied[k] # 0) =>
    \A i \in DOMAIN settings :
      LET k == Key(settings[i])
          s == settings[applied[k]]
      IN /\ applied[k] \in 1 .. i /\ Key(s) = k
         /\ IF s.d = None THEN data[cfg[s.b][s.n]].len = s.len
            ELSE cfg[s.b][s.n] = s.d

\* What main leaves behind: no data of any config, whether the blocks were all
\* started or an init failed in the middle.
NothingLeft == pass = "removed" => \A d \in Data \ held : data[d] = Free

\* A launch comes to an end, and a node that is taken down is taken down.
LaunchEnds == /\ <>(pass \in {"up", "exit", "removed", "script"})
              /\ (pass = "rm") ~> (pass = "removed")
=============================================================================
