------------------------------- MODULE Ptrig -------------------------------
(***************************************************************************)
(* The pthread based trigger block ubx/ptrig: the main thread, which calls *)
(* the life cycle functions of libubx on the block, and the trigger thread *)
(* of thread_startup, which share a mutex, a condition variable, two state *)
(* words of struct ptrig_inf and the block_state of the block.             *)
(*                                                                         *)
(* One action is one access to shared state.  A critical section of the    *)
(* main thread is one step, because the trigger thread reads and writes    *)
(* the fields it protects under the same mutex; the critical sections of   *)
(* the trigger thread are not, because ptrig_stop polls thread_state and   *)
(* ptrig_cleanup writes state without the mutex.                           *)
(***************************************************************************)
EXTENDS Naturals

CONSTANTS
  NumChains,      \* config num_chains
  AutostopSteps,  \* config autostop_steps, 0 when it is not set
  TstatsModes,    \* the values config tstats_mode may have at a start
  Faults          \* what may go wrong in the environment

ASSUME PtrigAssumption ==
  /\ NumChains \in Nat \ {0}
  /\ AutostopSteps \in Nat
  /\ TstatsModes \subseteq 0..2
  /\ TstatsModes # {}
  /\ Faults \subseteq {"stop_timeout", "thread_dies", "alloc"}

VARIABLES
  blockState,   \* b->block_state
  infState,     \* inf->state, "desired state requested by main"
  threadState,  \* inf->thread_state, "actual state reported by thread"
  mutex,        \* "thread" while the trigger thread holds inf->mutex
  signalled,    \* a signal of active_cond the waiting thread has not seen
  cancelled,    \* pthread_cancel was called on the thread
  tpc,          \* where the trigger thread is
  mpc,          \* where the main thread is
  cfgIdx,       \* the chain common_config_chains is at
  tstatsMode,   \* chain[i].tstats_mode, the same for every chain
  blkTstats,    \* chain[i].blk_tstats: "null", "live" or "freed"
  dynConfigs,   \* the chainN configs of common_init_chains exist
  autostop,     \* inf->autostop_steps
  actchain,     \* inf->actchain
  triggers,     \* history: chain triggers since the last start (bounded)
  unflushed     \* history: triggers whose statistics were not output

vars == <<blockState, infState, threadState, mutex, signalled, cancelled, tpc,
          mpc, cfgIdx, tstatsMode, blkTstats, dynConfigs, autostop, actchain,
          triggers, unflushed>>

chainVars   == <<tstatsMode, blkTstats, dynConfigs>>
historyVars == <<triggers, unflushed>>
threadVars  == <<tpc, actchain, autostop>>
mainVars    == <<mpc, cfgIdx, cancelled, chainVars>>

Chains == 0 .. NumChains - 1

\* where thread_startup can be: from the loop head through the wait and the
\* cyclic part to pthread_exit
InMutex == {"check", "stats", "towait"}
Cyclic  == {"read", "trigger", "count", "as_lock", "as_state", "sleep"}
ThreadPC == {"none", "lock", "wait", "exited"} \cup InMutex \cup Cyclic

MainPC == {"idle", "start_cfg", "start_lock",
           "stop_lock", "stop_poll", "stop_unconfig", "stop_ret", "join"}

TypeOK ==
  /\ blockState \in {"preinit", "inactive", "active"}
  /\ infState \in {"preinit", "inactive", "active"}
  /\ threadState \in {"inactive", "active"}
  /\ mutex \in {"free", "thread"}
  /\ signalled \in BOOLEAN
  /\ cancelled \in BOOLEAN
  /\ tpc \in ThreadPC
  /\ mpc \in MainPC
  /\ cfgIdx \in Chains
  /\ tstatsMode \in 0..2
  /\ blkTstats \in [Chains -> {"null", "live", "freed"}]
  /\ dynConfigs \in BOOLEAN
  /\ autostop \in 0..AutostopSteps
  /\ actchain \in Chains
  /\ triggers \in 0..(AutostopSteps + 1)
  /\ unflushed \in BOOLEAN

Init ==
  /\ blockState = "preinit"
  /\ infState = "preinit"
  /\ threadState = "inactive"
  /\ mutex = "free"
  /\ signalled = FALSE
  /\ cancelled = FALSE
  /\ tpc = "none"
  /\ mpc = "idle"
  /\ cfgIdx = 0
  /\ tstatsMode = 0
  /\ blkTstats = [c \in Chains |-> "null"]
  /\ dynConfigs = FALSE
  /\ autostop = 0
  /\ actchain = 0
  /\ triggers = 0
  /\ unflushed = FALSE

-----------------------------------------------------------------------------
(* Slips: actions below as a plausible mistake would write them, to see that *)
(* the properties notice.  None is part of Next.                             *)

\* ptrig_stop does not wait for thread_state
StopSeenUnchecked ==
  /\ mpc = "stop_poll" /\ mpc' = "stop_ret"
  /\ UNCHANGED <<blockState, infState, threadState, mutex, signalled, cancelled,
                 cfgIdx, chainVars, threadVars, historyVars>>

\* the retry counter of ptrig_stop is unsigned and never below zero
StopTimeoutNever ==
  /\ mpc = "stop_poll" /\ threadState = "active" /\ "stop_timeout" \in Faults
  /\ UNCHANGED vars

\* ptrig_start sets the state but does not signal
StartSignalMissing ==
  /\ mpc = "start_lock" /\ mutex = "free"
  /\ infState' = "active" /\ mpc' = "idle" /\ triggers' = 0
  /\ UNCHANGED <<blockState, threadState, mutex, signalled, cancelled, cfgIdx,
                 chainVars, threadVars, unflushed>>

\* ptrig_cleanup does not cancel the thread
CleanupCallNoCancel ==
  /\ mpc = "idle" /\ blockState = "inactive"
  /\ infState' = "preinit" /\ mpc' = "join"
  /\ UNCHANGED <<blockState, threadState, mutex, signalled, cancelled, cfgIdx,
                 chainVars, threadVars, historyVars>>

\* ptrig_cleanup does not join the thread
CleanupNoJoin ==
  /\ mpc = "join" /\ mpc' = "idle" /\ blockState' = "preinit"
  /\ dynConfigs' = FALSE
  /\ UNCHANGED <<infState, threadState, mutex, signalled, cancelled, cfgIdx,
                 tstatsMode, blkTstats, threadVars, historyVars>>

\* the thread reports that it has stopped before it outputs the statistics
ReportBeforeStats ==
  /\ tpc = "check" /\ infState # "active"
  /\ tpc' = "stats" /\ threadState' = "inactive"
  /\ UNCHANGED <<blockState, infState, mutex, signalled, autostop, actchain,
                 mainVars, historyVars>>

\* autostop leaves block_state to the main thread
AutostopStateMissing ==
  /\ tpc = "as_state" /\ tpc' = "lock"
  /\ UNCHANGED <<blockState, infState, threadState, mutex, signalled, autostop,
                 actchain, mainVars, historyVars>>

-----------------------------------------------------------------------------
(* The main thread: ubx_block_init, _start, _stop and _cleanup with the     *)
(* hooks of ptrig.                                                          *)

CanInit == mpc = "idle" /\ blockState = "preinit"

\* common_init_chains finds the chainN configs of an earlier failed init (or
\* a num_chains below 1), removes all dynamic configs and fails
InitChainsFail ==
  /\ CanInit
  /\ dynConfigs
  /\ dynConfigs' = FALSE
  /\ UNCHANGED <<blockState, infState, threadState, mutex, signalled, cancelled,
                 mpc, cfgIdx, tstatsMode, blkTstats, threadVars, historyVars>>

\* ptrig_handle_config or pthread_create fails: private_data is freed, the
\* chainN configs stay
InitConfigFail ==
  /\ CanInit
  /\ ~dynConfigs
  /\ dynConfigs' = TRUE
  /\ UNCHANGED <<blockState, infState, threadState, mutex, signalled, cancelled,
                 mpc, cfgIdx, tstatsMode, blkTstats, threadVars, historyVars>>

\* the thread is created; it runs from here on
InitOk ==
  /\ CanInit
  /\ ~dynConfigs
  /\ dynConfigs' = TRUE
  /\ blockState' = "inactive"
  /\ infState' = "inactive"
  /\ threadState' = "inactive"
  /\ tpc' = "lock"
  /\ autostop' = AutostopSteps
  /\ UNCHANGED <<mutex, signalled, cancelled, mpc, cfgIdx, tstatsMode,
                 blkTstats, actchain, historyVars>>

\* ubx_block_start: the block is ACTIVE before its start hook runs
StartCall ==
  /\ mpc = "idle"
  /\ blockState = "inactive"
  /\ blockState' = "active"
  /\ mpc' = "start_cfg"
  /\ cfgIdx' = 0
  /\ tstatsMode' \in TstatsModes
  /\ UNCHANGED <<infState, threadState, mutex, signalled, cancelled,
                 blkTstats, dynConfigs, threadVars, historyVars>>

\* one turn of common_config_chains: ubx_chain_init sizes blk_tstats with
\* realloc when the statistics are per block
ConfigChain ==
  /\ mpc = "start_cfg"
  /\ blkTstats' = IF tstatsMode = 2
                  THEN [blkTstats EXCEPT ![cfgIdx] = "live"] ELSE blkTstats
  /\ IF cfgIdx + 1 \in Chains
     THEN cfgIdx' = cfgIdx + 1 /\ mpc' = mpc
     ELSE cfgIdx' = 0 /\ mpc' = "start_lock"
  /\ UNCHANGED <<blockState, infState, threadState, mutex, signalled, cancelled,
                 tstatsMode, dynConfigs, threadVars, historyVars>>

\* ubx_chain_cleanup of the chains in S: free(blk_tstats), the pointer stays
FreeTstats(S) ==
  [c \in Chains |-> IF c \in S /\ blkTstats[c] # "null"
                    THEN "freed" ELSE blkTstats[c]]

\* realloc fails at cfgIdx: the chains before it are cleaned up, the start
\* hook fails and ubx_block_start takes the block back to INACTIVE
ConfigChainFail ==
  /\ mpc = "start_cfg"
  /\ tstatsMode = 2
  /\ "alloc" \in Faults
  /\ blkTstats' = [FreeTstats(0 .. cfgIdx - 1) EXCEPT ![cfgIdx] = "null"]
  /\ blockState' = "inactive"
  /\ mpc' = "idle"
  /\ cfgIdx' = 0
  /\ UNCHANGED <<infState, threadState, mutex, signalled, cancelled, tstatsMode,
                 dynConfigs, threadVars, historyVars>>

\* the critical section of ptrig_start; a signal without a waiter is lost
StartSignal ==
  /\ mpc = "start_lock"
  /\ mutex = "free"
  /\ infState' = "active"
  /\ signalled' = (signalled \/ tpc = "wait")
  /\ mpc' = "idle"
  /\ triggers' = 0
  /\ UNCHANGED <<blockState, threadState, mutex, cancelled, cfgIdx, chainVars,
                 threadVars, unflushed>>

StopCall ==
  /\ mpc = "idle"
  /\ blockState = "active"
  /\ mpc' = "stop_lock"
  /\ UNCHANGED <<blockState, infState, threadState, mutex, signalled, cancelled,
                 cfgIdx, chainVars, threadVars, historyVars>>

\* the critical section of __ptrig_stop, called by ptrig_stop
StopRequest ==
  /\ mpc = "stop_lock"
  /\ mutex = "free"
  /\ infState' = "inactive"
  /\ mpc' = "stop_poll"
  /\ UNCHANGED <<blockState, threadState, mutex, signalled, cancelled, cfgIdx,
                 chainVars, threadVars, historyVars>>

\* a poll of thread_state, without the mutex, finds the thread stopped
StopSeen ==
  /\ mpc = "stop_poll"
  /\ threadState = "inactive"
  /\ mpc' = "stop_ret"
  /\ UNCHANGED <<blockState, infState, threadState, mutex, signalled, cancelled,
                 cfgIdx, chainVars, threadVars, historyVars>>

\* the last of the THREAD_STOP_RETRIES + 1 polls fails
StopTimeout ==
  /\ mpc = "stop_poll"
  /\ threadState = "active"
  /\ "stop_timeout" \in Faults
  /\ mpc' = "stop_unconfig"
  /\ UNCHANGED <<blockState, infState, threadState, mutex, signalled, cancelled,
                 cfgIdx, chainVars, threadVars, historyVars>>

\* common_unconfig, which ptrig_stop reaches only after a timeout
StopUnconfig ==
  /\ mpc = "stop_unconfig"
  /\ blkTstats' = FreeTstats(Chains)
  /\ mpc' = "stop_ret"
  /\ UNCHANGED <<blockState, infState, threadState, mutex, signalled, cancelled,
                 cfgIdx, tstatsMode, dynConfigs, threadVars, historyVars>>

StopReturn ==
  /\ mpc = "stop_ret"
  /\ blockState' = "inactive"
  /\ mpc' = "idle"
  /\ UNCHANGED <<infState, threadState, mutex, signalled, cancelled, cfgIdx,
                 chainVars, threadVars, historyVars>>

\* ptrig_cleanup writes state without the mutex and cancels the thread
CleanupCall ==
  /\ mpc = "idle"
  /\ blockState = "inactive"
  /\ infState' = "preinit"
  /\ cancelled' = TRUE
  /\ mpc' = "join"
  /\ UNCHANGED <<blockState, threadState, mutex, signalled, cfgIdx, chainVars,
                 threadVars, historyVars>>

\* pthread_join returns: the chainN configs, the chains and private_data go.
\* The fields of the freed memory take their initial values again.
CleanupJoin ==
  /\ mpc = "join"
  /\ tpc = "exited"
  /\ tpc' = "none"
  /\ mpc' = "idle"
  /\ blockState' = "preinit"
  /\ dynConfigs' = FALSE
  /\ threadState' = "inactive"
  /\ mutex' = "free"
  /\ signalled' = FALSE
  /\ cancelled' = FALSE
  /\ tstatsMode' = 0
  /\ blkTstats' = [c \in Chains |-> "null"]
  /\ autostop' = 0
  /\ actchain' = 0
  /\ triggers' = 0
  /\ unflushed' = FALSE
  /\ UNCHANGED <<infState, cfgIdx>>

MainInit    == InitChainsFail \/ InitConfigFail \/ InitOk
MainStart   == StartCall \/ ConfigChain \/ ConfigChainFail \/ StartSignal
MainStop    == StopCall \/ StopRequest \/ StopSeen \/ StopTimeout
               \/ StopUnconfig \/ StopReturn
MainCleanup == CleanupCall \/ CleanupJoin

-----------------------------------------------------------------------------
(* The trigger thread: thread_startup.                                      *)

Lock ==
  /\ tpc = "lock"
  /\ mutex = "free"
  /\ mutex' = "thread"
  /\ tpc' = "check"
  /\ UNCHANGED <<blockState, infState, threadState, signalled, autostop,
                 actchain, mainVars, historyVars>>

\* while (inf->state != BLOCK_STATE_ACTIVE)
ObserveStopped ==
  /\ tpc = "check"
  /\ infState # "active"
  /\ tpc' = "stats"
  /\ UNCHANGED <<blockState, infState, threadState, mutex, signalled, autostop,
                 actchain, mainVars, historyVars>>

ObserveActive ==
  /\ tpc = "check"
  /\ infState = "active"
  /\ threadState' = "active"
  /\ mutex' = "free"
  /\ tpc' = "read"
  /\ UNCHANGED <<blockState, infState, signalled, autostop, actchain, mainVars,
                 historyVars>>

\* common_output_stats, _log_stats and _write_stats, then thread_state
OutputStats ==
  /\ tpc = "stats"
  /\ unflushed' = FALSE
  /\ threadState' = "inactive"
  /\ tpc' = "towait"
  /\ UNCHANGED <<blockState, infState, mutex, signalled, autostop, actchain,
                 mainVars, triggers>>

\* pthread_cond_wait releases the mutex ...
CondWait ==
  /\ tpc = "towait"
  /\ mutex' = "free"
  /\ tpc' = "wait"
  /\ UNCHANGED <<blockState, infState, threadState, signalled, autostop,
                 actchain, mainVars, historyVars>>

\* ... and takes it again when it is signalled ...
Wake ==
  /\ tpc = "wait"
  /\ ~cancelled
  /\ signalled
  /\ mutex = "free"
  /\ mutex' = "thread"
  /\ signalled' = FALSE
  /\ tpc' = "check"
  /\ UNCHANGED <<blockState, infState, threadState, autostop, actchain,
                 mainVars, historyVars>>

\* ... or, as POSIX allows, without a signal
SpuriousWake ==
  /\ tpc = "wait"
  /\ ~cancelled
  /\ ~signalled
  /\ mutex = "free"
  /\ mutex' = "thread"
  /\ tpc' = "check"
  /\ UNCHANGED <<blockState, infState, threadState, signalled, autostop,
                 actchain, mainVars, historyVars>>

\* common_read_actchain: no new value, a value out of range, or a chain
ReadActchain ==
  /\ tpc = "read"
  /\ actchain' \in Chains
  /\ tpc' = "trigger"
  /\ UNCHANGED <<blockState, infState, threadState, mutex, signalled, autostop,
                 mainVars, historyVars>>

\* ubx_chain_trigger of the active chain
Trigger ==
  /\ tpc = "trigger"
  /\ triggers' = IF triggers <= AutostopSteps THEN triggers + 1 ELSE triggers
  /\ unflushed' = TRUE
  /\ tpc' = "count"
  /\ UNCHANGED <<blockState, infState, threadState, mutex, signalled, autostop,
                 actchain, mainVars>>

CountStep ==
  /\ tpc = "count"
  /\ autostop # 1
  /\ autostop' = IF autostop > 0 THEN autostop - 1 ELSE autostop
  /\ tpc' = "sleep"
  /\ UNCHANGED <<blockState, infState, threadState, mutex, signalled, actchain,
                 mainVars, historyVars>>

CountLastStep ==
  /\ tpc = "count"
  /\ autostop = 1
  /\ autostop' = 0
  /\ tpc' = "as_lock"
  /\ UNCHANGED <<blockState, infState, threadState, mutex, signalled, actchain,
                 mainVars, historyVars>>

\* the critical section of __ptrig_stop, called by the thread itself
AutostopRequest ==
  /\ tpc = "as_lock"
  /\ mutex = "free"
  /\ infState' = "inactive"
  /\ tpc' = "as_state"
  /\ UNCHANGED <<blockState, threadState, mutex, signalled, autostop, actchain,
                 mainVars, historyVars>>

\* the thread writes the block_state of its own block, without any lock
AutostopState ==
  /\ tpc = "as_state"
  /\ blockState' = "inactive"
  /\ tpc' = "lock"
  /\ UNCHANGED <<infState, threadState, mutex, signalled, autostop, actchain,
                 mainVars, historyVars>>

\* ubx_nanosleep to the next period; a cancellation point
Sleep ==
  /\ tpc = "sleep"
  /\ ~cancelled
  /\ tpc' = "lock"
  /\ UNCHANGED <<blockState, infState, threadState, mutex, signalled, autostop,
                 actchain, mainVars, historyVars>>

\* ubx_gettime fails, or ubx_nanosleep does (EINTR): goto out
ThreadDies ==
  /\ tpc \in {"read", "sleep"}
  /\ "thread_dies" \in Faults
  /\ tpc' = "exited"
  /\ UNCHANGED <<blockState, infState, threadState, mutex, signalled, autostop,
                 actchain, mainVars, historyVars>>

\* a pending cancel takes effect at a cancellation point: the condition
\* variable, the sleep, and possibly the stdio of the statistics or a step hook
ThreadCancelled ==
  /\ cancelled
  /\ \/ tpc \in {"stats", "trigger", "sleep"} /\ mutex' = mutex
     \/ tpc = "wait" /\ mutex = "free" /\ mutex' = "thread"
  /\ tpc' = "exited"
  /\ UNCHANGED <<blockState, infState, threadState, signalled, autostop,
                 actchain, mainVars, historyVars>>

ThreadStep ==
  \/ Lock \/ ObserveStopped \/ ObserveActive \/ OutputStats \/ CondWait \/ Wake
  \/ ReadActchain \/ Trigger \/ CountStep \/ CountLastStep \/ AutostopRequest
  \/ AutostopState \/ Sleep \/ ThreadDies \/ ThreadCancelled

Next ==
  MainInit \/ MainStart \/ MainStop \/ MainCleanup \/ ThreadStep \/ SpuriousWake

Spec == Init /\ [][Next]_vars

-----------------------------------------------------------------------------
(* Fairness: a hook of the main thread that was called runs to its end and  *)
(* the trigger thread is scheduled.  Nothing is assumed of the calls        *)
(* themselves nor of spurious wakeups.  The two threads compete for the     *)
(* mutex; it is free for most of every period, so whoever waits for it gets *)
(* it in the end (strong fairness).                                         *)

MainProgress == ConfigChain \/ StopSeen \/ StopTimeout \/ StopUnconfig
                \/ StopReturn \/ CleanupJoin

Fairness ==
  /\ WF_vars(MainProgress)
  /\ SF_vars(StartSignal)
  /\ SF_vars(StopRequest)
  /\ WF_vars(ThreadStep)
  /\ SF_vars(Lock \/ Wake \/ AutostopRequest)

FairSpec == Spec /\ Fairness

-----------------------------------------------------------------------------
(* Properties.                                                              *)

\* Once ptrig_stop has seen the thread stopped, or the block has stopped
\* itself, the thread reads no active_chain, triggers no chain and calls no step
\* hook, and this lasts until the start hook has reconfigured the chains and
\* signalled it again.  It says nothing of the statistics: a thread that ptrig_stop
\* did not wait for, or that has stopped itself, may output those of the chains
\* while the next start hook initialises them (common_output_stats).
QuietAfterStop ==
  (mpc \in {"start_cfg", "start_lock", "stop_ret", "join"}
     \/ (mpc = "idle" /\ blockState # "active"))
  => tpc \notin {"read", "trigger"}

\* The statistics of every trigger have been output, logged and written when
\* ptrig_stop returns without a timeout: the thread reports THREAD_INACTIVE
\* only after it has done so.
StatsFlushedAtStop == mpc = "stop_ret" => ~unflushed

\* How the two threads agree, when no stop times out: a thread that is in the
\* cyclic part has reported so, its block is ACTIVE, and the main thread is not
\* past the wait of ptrig_stop.  It is inductive and implies QuietAfterStop and
\* StatsFlushedAtStop.
Handshake ==
  /\ tpc \in InMutex => mutex = "thread"
  /\ mutex = "thread" => tpc \in InMutex \cup {"exited"}
  /\ tpc \in Cyclic => threadState = "active"
  /\ tpc \in Cyclic =>
       blockState = "active" /\ mpc \in {"idle", "stop_lock", "stop_poll"}
  /\ infState = "active" => blockState = "active" /\ mpc \in {"idle", "stop_lock"}
  /\ tpc = "as_state" => infState = "inactive"
  /\ unflushed => threadState = "active"
  /\ mpc = "stop_ret" => threadState = "inactive"
  /\ mpc # "stop_unconfig"
  /\ mpc \in {"start_cfg", "start_lock"} => blockState = "active"
  /\ cancelled => mpc = "join"
  /\ mpc = "join" => blockState = "inactive"
  /\ blockState = "preinit" => tpc = "none" /\ mpc = "idle" /\ ~unflushed

\* private_data is freed only after the thread is gone (pthread_join).
NoThreadWithoutPrivateData == blockState = "preinit" => tpc = "none"

\* Nobody uses, resizes or frees a blk_tstats buffer that has been freed:
\* neither ubx_chain_init (realloc), nor common_unconfig (free), nor the
\* thread when it updates or outputs per block statistics.
NoUseOfFreedTstats ==
  /\ mpc = "start_cfg" /\ tstatsMode = 2 => blkTstats[cfgIdx] # "freed"
  /\ mpc = "stop_unconfig" => \A c \in Chains : blkTstats[c] # "freed"
  /\ tpc = "trigger" /\ tstatsMode = 2 /\ mpc \notin {"start_cfg", "start_lock"}
     => blkTstats[actchain] # "freed"

\* A block that was started with a step count left stops itself.
AutostopFires ==
  (blockState = "active" /\ mpc = "idle" /\ autostop > 0)
    ~> (blockState # "active")

\* ptrig_stop returns.
StopReturns == mpc = "stop_lock" ~> mpc = "idle"

\* ptrig_cleanup returns: the cancelled thread reaches a cancellation point.
CleanupReturns == mpc = "join" ~> mpc = "idle"

\* The block is a trigger service that is on from the signal of its start hook
\* until ubx_block_stop returns or the block stops itself.
Service == INSTANCE TriggerService WITH
  on     <- blockState = "active" /\ mpc \notin {"start_cfg", "start_lock"},
  firing <- tpc = "trigger"

\* ubx/ptrig implements the trigger service: no trigger while it is off, none
\* cut by a stop, and triggers for as long as it is on.
ImplementsService == Service!FairSpec

\* "if set and > 0, block stops itself after X steps" (ptrig.c:65)
AutostopEveryRun == AutostopSteps > 0 => triggers <= AutostopSteps

\* "wait some time for thread to shutdown cleanly" (ptrig.c:454): when the
\* wait ends without a timeout the thread is parked at the condition variable.
StopWaitsForThread ==
  [][StopSeen => tpc \in {"towait", "wait", "exited"}]_vars

\* cleanup: "free all memory, release all resources" (developing_blocks.rst:160)
CleanupFreesTstats ==
  [][CleanupJoin => \A c \in Chains : blkTstats[c] # "live"]_vars

=============================================================================
