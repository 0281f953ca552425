----------------------------- MODULE PtrigNode -----------------------------
(***************************************************************************)
(* A node that is launched, runs and is removed: a ptrig block (module     *)
(* Ptrig) and the computation blocks its chain triggers.  The main thread  *)
(* follows system.launch of blockdiagram.lua, then may stop and restart    *)
(* the trigger, and finally calls ubx_node_rm, while the trigger thread    *)
(* calls ubx_cblock_step on every block of the chain.                      *)
(***************************************************************************)
EXTENDS Ptrig, Sequences

CONSTANTS
  Order,     \* the blocks in creation order: HASH_ITER visits them so
  Triggees   \* the blocks of the chain, in the order they are triggered

Trig    == "ptrig"
CBlocks == {Order[i] : i \in DOMAIN Order} \ {Trig}
NoBlock == "none"

ASSUME PtrigNodeAssumption ==
  /\ Order \in Seq(STRING)
  /\ NoBlock \notin CBlocks
  /\ \A i, j \in DOMAIN Order : Order[i] = Order[j] => i = j
  /\ \E i \in DOMAIN Order : Order[i] = Trig
  /\ Triggees \in Seq(CBlocks)

VARIABLES
  phase,     \* which loop over the blocks the main thread is in
  turn,      \* the block of Order it is at
  hook,      \* the hook of a computation block the main thread is running
  cState,    \* block_state of the computation blocks
  ready,     \* history: start hook returned, cleanup hook not called
  stepping,  \* the block whose step hook the trigger thread is running
  pos        \* the triggee the trigger thread is at

launchVars == <<phase, turn>>
cblockVars == <<hook, cState, ready>>
stepVars   == <<stepping, pos>>
nodeVars   == <<vars, launchVars, cblockVars, stepVars>>

NoHook == [op |-> "none", block |-> NoBlock]
Phases == {"init", "start_passive", "start_active", "run",
           "clear_stop", "clear_cleanup", "clear_rm", "cleared"}

NodeTypeOK ==
  /\ TypeOK
  /\ phase \in Phases
  /\ turn \in 1 .. Len(Order) + 1
  /\ hook \in [op : {"none", "start", "stop", "cleanup"}, block : CBlocks \cup {NoBlock}]
  /\ cState \in [CBlocks -> {"preinit", "inactive", "active", "removed"}]
  /\ ready \in [CBlocks -> BOOLEAN]
  /\ stepping \in CBlocks \cup {NoBlock}
  /\ pos \in 1 .. Len(Triggees) + 1

NodeInit ==
  /\ Init
  /\ phase = "init"
  /\ turn = 1
  /\ hook = NoHook
  /\ cState = [b \in CBlocks |-> "preinit"]
  /\ ready = [b \in CBlocks |-> FALSE]
  /\ stepping = NoBlock
  /\ pos = 1

-----------------------------------------------------------------------------
(* Slips, as in Ptrig.                                                      *)

\* startup starts the active blocks first
PhaseAfterActiveFirst(p) ==
  CASE p = "init" -> "start_active"
    [] p = "start_active" -> "start_passive"
    [] p = "start_passive" -> "run"
    [] p = "clear_stop" -> "clear_cleanup"
    [] p = "clear_cleanup" -> "clear_rm"
    [] p = "clear_rm" -> "cleared"

\* ubx_node_clear cleans up before it has stopped anything
NodeRmCleanupFirst ==
  /\ phase = "run" /\ mpc = "idle"
  /\ phase' = "clear_cleanup" /\ turn' = 1
  /\ UNCHANGED <<vars, cblockVars, stepVars>>

-----------------------------------------------------------------------------
(* The loops of the main thread over the blocks.                            *)

AtBlock(b) ==
  /\ mpc = "idle" /\ hook = NoHook
  /\ turn <= Len(Order) /\ Order[turn] = b

StateOf(b) == IF b = Trig THEN blockState ELSE cState[b]

\* is_inactive_inst and is_active_inst in startup, the conditions on the state
\* in ubx_node_clear: the blocks a loop passes over
Skip(p, b) ==
  CASE p = "init" -> FALSE
    [] p = "start_passive" -> b = Trig
    [] p = "start_active" -> b # Trig
    [] p = "clear_stop" -> StateOf(b) # "active"
    [] p = "clear_cleanup" -> StateOf(b) # "inactive"
    [] p = "clear_rm" -> StateOf(b) # "preinit"
    [] OTHER -> FALSE

PhaseAfter(p) ==
  CASE p = "init" -> "start_passive"
    [] p = "start_passive" -> "start_active"
    [] p = "start_active" -> "run"
    [] p = "clear_stop" -> "clear_cleanup"
    [] p = "clear_cleanup" -> "clear_rm"
    [] p = "clear_rm" -> "cleared"

Looping == phase \notin {"run", "cleared"}

SkipBlock ==
  /\ Looping
  /\ \E b \in CBlocks \cup {Trig} : AtBlock(b) /\ Skip(phase, b)
  /\ turn' = turn + 1
  /\ UNCHANGED <<vars, phase, cblockVars, stepVars>>

NextPhase ==
  /\ Looping
  /\ mpc = "idle" /\ hook = NoHook /\ turn = Len(Order) + 1
  /\ phase' = PhaseAfter(phase)
  /\ turn' = 1
  /\ UNCHANGED <<vars, cblockVars, stepVars>>

\* ubx_node_rm may be called at any time once the system is launched
NodeRm ==
  /\ phase = "run" /\ mpc = "idle"
  /\ phase' = "clear_stop"
  /\ turn' = 1
  /\ UNCHANGED <<vars, cblockVars, stepVars>>

\* a life cycle call on the ptrig block is the turn of the loop it belongs to
TrigCall ==
  /\ AtBlock(Trig) /\ ~Skip(phase, Trig)
  /\ \/ phase = "init" /\ InitOk
     \/ phase = "start_active" /\ StartCall
     \/ phase = "clear_stop" /\ StopCall
     \/ phase = "clear_cleanup" /\ CleanupCall
  /\ turn' = turn + 1
  /\ UNCHANGED <<phase, cblockVars, stepVars>>

\* in a running system the trigger may be stopped and started again
TrigUserCall ==
  /\ phase = "run"
  /\ StopCall \/ StartCall
  /\ UNCHANGED <<launchVars, cblockVars, stepVars>>

TrigHook ==
  /\ ConfigChain \/ StartSignal \/ StopRequest \/ StopSeen \/ StopReturn
     \/ CleanupJoin
  /\ UNCHANGED <<launchVars, cblockVars, stepVars>>

-----------------------------------------------------------------------------
(* Life cycle calls on a computation block.  Hooks the trigger thread could  *)
(* overlap with have a beginning and an end.                                *)

CInit(b) ==
  /\ phase = "init" /\ AtBlock(b)
  /\ cState' = [cState EXCEPT ![b] = "inactive"]
  /\ turn' = turn + 1
  /\ UNCHANGED <<vars, phase, hook, ready, stepVars>>

\* ubx_block_start writes ACTIVE and then runs the start hook
CStart(b) ==
  /\ phase = "start_passive" /\ AtBlock(b)
  /\ cState' = [cState EXCEPT ![b] = "active"]
  /\ hook' = [op |-> "start", block |-> b]
  /\ UNCHANGED <<vars, launchVars, ready, stepVars>>

CStarted(b) ==
  /\ hook = [op |-> "start", block |-> b]
  /\ ready' = [ready EXCEPT ![b] = TRUE]
  /\ hook' = NoHook
  /\ turn' = turn + 1
  /\ UNCHANGED <<vars, phase, cState, stepVars>>

\* ubx_block_stop runs the stop hook and then writes INACTIVE
CStop(b) ==
  /\ phase = "clear_stop" /\ AtBlock(b)
  /\ cState[b] = "active"
  /\ hook' = [op |-> "stop", block |-> b]
  /\ UNCHANGED <<vars, launchVars, cState, ready, stepVars>>

CStopped(b) ==
  /\ hook = [op |-> "stop", block |-> b]
  /\ cState' = [cState EXCEPT ![b] = "inactive"]
  /\ hook' = NoHook
  /\ turn' = turn + 1
  /\ UNCHANGED <<vars, phase, ready, stepVars>>

CCleanup(b) ==
  /\ phase = "clear_cleanup" /\ AtBlock(b)
  /\ cState[b] = "inactive"
  /\ ready' = [ready EXCEPT ![b] = FALSE]
  /\ hook' = [op |-> "cleanup", block |-> b]
  /\ UNCHANGED <<vars, launchVars, cState, stepVars>>

CCleanedUp(b) ==
  /\ hook = [op |-> "cleanup", block |-> b]
  /\ cState' = [cState EXCEPT ![b] = "preinit"]
  /\ hook' = NoHook
  /\ turn' = turn + 1
  /\ UNCHANGED <<vars, phase, ready, stepVars>>

\* ubx_block_rm of an instance in PREINIT; the ptrig block has no state of its
\* own left to remove
BlockRm(b) ==
  /\ phase = "clear_rm" /\ AtBlock(b) /\ ~Skip(phase, b)
  /\ cState' = IF b = Trig THEN cState ELSE [cState EXCEPT ![b] = "removed"]
  /\ turn' = turn + 1
  /\ UNCHANGED <<vars, phase, hook, ready, stepVars>>

MainStep ==
  \/ SkipBlock \/ NextPhase \/ TrigCall \/ TrigHook \/ BlockRm(Trig)
  \/ \E b \in CBlocks :
       CInit(b) \/ CStart(b) \/ CStarted(b) \/ CStop(b) \/ CStopped(b)
       \/ CCleanup(b) \/ CCleanedUp(b) \/ BlockRm(b)

-----------------------------------------------------------------------------
(* The trigger thread: the loop of ubx_chain_trigger replaces the single    *)
(* step Trigger of module Ptrig.                                            *)

\* ubx_cblock_step of a block that is not ACTIVE: EWRONG_STATE
StepRefused ==
  /\ tpc = "trigger" /\ stepping = NoBlock /\ pos <= Len(Triggees)
  /\ cState[Triggees[pos]] # "active"
  /\ pos' = pos + 1
  /\ UNCHANGED <<vars, launchVars, cblockVars, stepping>>

StepEnter ==
  /\ tpc = "trigger" /\ stepping = NoBlock /\ pos <= Len(Triggees)
  /\ cState[Triggees[pos]] = "active"
  /\ stepping' = Triggees[pos]
  /\ UNCHANGED <<vars, launchVars, cblockVars, pos>>

StepLeave ==
  /\ stepping # NoBlock
  /\ stepping' = NoBlock
  /\ pos' = pos + 1
  /\ UNCHANGED <<vars, launchVars, cblockVars>>

ChainDone ==
  /\ pos = Len(Triggees) + 1
  /\ Trigger
  /\ pos' = 1
  /\ UNCHANGED <<launchVars, cblockVars, stepping>>

ThreadElse ==
  /\ \/ Lock \/ ObserveStopped \/ ObserveActive \/ OutputStats \/ CondWait
     \/ Wake \/ ReadActchain \/ CountStep \/ CountLastStep \/ AutostopRequest
     \/ AutostopState \/ Sleep
     \/ tpc # "trigger" /\ ThreadCancelled
  /\ UNCHANGED <<launchVars, cblockVars, stepVars>>

NodeThreadStep == StepRefused \/ StepEnter \/ StepLeave \/ ChainDone \/ ThreadElse

SpuriousWakeup ==
  SpuriousWake /\ UNCHANGED <<launchVars, cblockVars, stepVars>>

NodeNext ==
  MainStep \/ NodeRm \/ TrigUserCall \/ NodeThreadStep \/ SpuriousWakeup

NodeSpec == NodeInit /\ [][NodeNext]_nodeVars

\* as in Ptrig; nobody has to call ubx_node_rm nor to stop the trigger
NodeFairness ==
  /\ WF_nodeVars(MainStep)
  /\ SF_nodeVars(TrigHook)
  /\ WF_nodeVars(NodeThreadStep)
  /\ SF_nodeVars(ThreadElse)

NodeFairSpec == NodeSpec /\ NodeFairness

-----------------------------------------------------------------------------
(* Properties.                                                              *)

\* A step hook runs only on a block whose start hook has returned and whose
\* cleanup hook has not been called: startup starts the triggers last, and
\* ubx_node_clear stops every block before it cleans up the first.
StepOnlyReadyBlocks == stepping # NoBlock => ready[stepping]

\* While ubx_node_clear calls the stop hook of a block the trigger may still be
\* stepping it, unless the block was created after its trigger: the blocks are
\* stopped in the order of their creation.
NoStepDuringLaterStop ==
  \A i, j \in DOMAIN Order :
    (Order[i] = Trig /\ i < j) =>
      ~(stepping = Order[j] /\ hook = [op |-> "stop", block |-> Order[j]])

HookPhase == [start |-> "start_passive", stop |-> "clear_stop",
              cleanup |-> "clear_cleanup"]

\* Why StepOnlyReadyBlocks holds: the trigger is ACTIVE only in phases in which
\* every computation block is ready.  Inductive together with Handshake.
Phased ==
  /\ stepping # NoBlock => tpc = "trigger"
  /\ blockState = "active" => phase \in {"start_active", "run", "clear_stop"}
  /\ phase \in {"start_active", "run", "clear_stop"} => \A b \in CBlocks : ready[b]
  /\ phase = "start_passive" =>
       \A i \in DOMAIN Order : i < turn /\ Order[i] # Trig => ready[Order[i]]
  /\ hook # NoHook =>
       /\ turn <= Len(Order) /\ Order[turn] = hook.block /\ hook.block \in CBlocks
       /\ hook.op \in DOMAIN HookPhase /\ phase = HookPhase[hook.op]
  /\ (phase = "clear_stop" /\ blockState = "active"
       /\ \E i \in DOMAIN Order : i < turn /\ Order[i] = Trig)
     => mpc \in {"stop_lock", "stop_poll", "stop_ret"}

\* Nothing the trigger or its chain does keeps ubx_node_clear from finishing, and
\* then every block has been cleaned up and removed and the thread is gone.
ClearTerminates ==
  phase = "clear_stop" ~>
    /\ phase = "cleared" /\ \A b \in CBlocks : cState[b] = "removed"
    /\ blockState = "preinit" /\ tpc = "none" /\ stepping = NoBlock

=============================================================================
