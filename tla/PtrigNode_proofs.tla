-------------------------- MODULE PtrigNode_proofs --------------------------
(***************************************************************************)
(* Theorems about ubx/ptrig, for any number of chains, any step count and, *)
(* where it is not said otherwise, any faults; and about a node with a     *)
(* ptrig block, for any computation blocks in any order of creation and    *)
(* any chain, if no stop times out.                                        *)
(***************************************************************************)
EXTENDS PtrigNode, TLAPS

USE DEF InMutex, Cyclic

\* The values that Init and the hooks assign are in the sets of TypeOK.
LEMMA InitialValues ==
  /\ 0 \in Chains
  /\ 0 \in 0 .. AutostopSteps
  /\ 0 \in 0 .. (AutostopSteps + 1)
  /\ 0 \in 0 .. 2
  /\ [c \in Chains |-> "null"] \in [Chains -> {"null", "live", "freed"}]
<1>1. /\ 0 \in Chains
      /\ 0 \in 0 .. AutostopSteps
      /\ 0 \in 0 .. (AutostopSteps + 1)
      /\ 0 \in 0 .. 2
  BY PtrigAssumption DEF Chains
<1> QED
  BY <1>1

\* The steps of ptrig.c, hook by hook, for the case distinctions below.
LEMMA ActionsOfNext ==
  ASSUME Next
  PROVE  \/ InitChainsFail \/ InitConfigFail \/ InitOk
         \/ StartCall \/ ConfigChain \/ ConfigChainFail \/ StartSignal
         \/ StopCall \/ StopRequest \/ StopSeen \/ StopTimeout \/ StopUnconfig
         \/ StopReturn \/ CleanupCall \/ CleanupJoin
         \/ Lock \/ ObserveStopped \/ ObserveActive \/ OutputStats \/ CondWait
         \/ Wake \/ SpuriousWake \/ ReadActchain \/ Trigger \/ CountStep
         \/ CountLastStep \/ AutostopRequest \/ AutostopState \/ Sleep
         \/ ThreadDies \/ ThreadCancelled
  BY DEF Next, MainInit, MainStart, MainStop, MainCleanup, ThreadStep

-----------------------------------------------------------------------------
\* The variables of the model have their types: in particular the step counter
\* of autostop never goes below zero and cfgIdx and actchain stay chain indices.
THEOREM TypeCorrect == Spec => []TypeOK
<1>1. Init => TypeOK
  BY InitialValues DEF Init, TypeOK, ThreadPC, MainPC
<1>2. TypeOK /\ [Next]_vars => TypeOK'
  <2> SUFFICES ASSUME TypeOK, [Next]_vars PROVE TypeOK'
    OBVIOUS
  <2> USE DEF threadVars, chainVars, historyVars, mainVars
  <2>1. CASE InitChainsFail
    BY <2>1 DEF InitChainsFail, CanInit, TypeOK
  <2>2. CASE InitConfigFail
    BY <2>2 DEF InitConfigFail, CanInit, TypeOK
  <2>3. CASE InitOk
    BY <2>3, PtrigAssumption DEF InitOk, CanInit, TypeOK, ThreadPC
  <2>4. CASE StartCall
    BY <2>4, InitialValues, PtrigAssumption DEF StartCall, TypeOK, MainPC
  <2>5. CASE ConfigChain
    BY <2>5, InitialValues DEF ConfigChain, TypeOK, MainPC
  <2>6. CASE ConfigChainFail
    BY <2>6, InitialValues DEF ConfigChainFail, FreeTstats, TypeOK, MainPC
  <2>7. CASE StartSignal
    BY <2>7, InitialValues DEF StartSignal, TypeOK, MainPC
  <2>8. CASE StopCall
    BY <2>8 DEF StopCall, TypeOK, MainPC
  <2>9. CASE StopRequest
    BY <2>9 DEF StopRequest, TypeOK, MainPC
  <2>10. CASE StopSeen
    BY <2>10 DEF StopSeen, TypeOK, MainPC
  <2>11. CASE StopTimeout
    BY <2>11 DEF StopTimeout, TypeOK, MainPC
  <2>12. CASE StopUnconfig
    BY <2>12 DEF StopUnconfig, FreeTstats, TypeOK, MainPC
  <2>13. CASE StopReturn
    BY <2>13 DEF StopReturn, TypeOK, MainPC
  <2>14. CASE CleanupCall
    BY <2>14 DEF CleanupCall, TypeOK, MainPC
  <2>15. CASE CleanupJoin
    BY <2>15, InitialValues DEF CleanupJoin, TypeOK, MainPC, ThreadPC
  <2>16. CASE Lock
    BY <2>16 DEF Lock, TypeOK, ThreadPC
  <2>17. CASE ObserveStopped
    BY <2>17 DEF ObserveStopped, TypeOK, ThreadPC
  <2>18. CASE ObserveActive
    BY <2>18 DEF ObserveActive, TypeOK, ThreadPC
  <2>19. CASE OutputStats
    BY <2>19 DEF OutputStats, TypeOK, ThreadPC
  <2>20. CASE CondWait
    BY <2>20 DEF CondWait, TypeOK, ThreadPC
  <2>21. CASE Wake
    BY <2>21 DEF Wake, TypeOK, ThreadPC
  <2>22. CASE SpuriousWake
    BY <2>22 DEF SpuriousWake, TypeOK, ThreadPC
  <2>23. CASE ReadActchain
    BY <2>23 DEF ReadActchain, TypeOK, ThreadPC
  <2>24. CASE Trigger
    BY <2>24, PtrigAssumption DEF Trigger, TypeOK, ThreadPC
  <2>25. CASE CountStep
    BY <2>25, PtrigAssumption DEF CountStep, TypeOK, ThreadPC
  <2>26. CASE CountLastStep
    BY <2>26, PtrigAssumption DEF CountLastStep, TypeOK, ThreadPC
  <2>27. CASE AutostopRequest
    BY <2>27 DEF AutostopRequest, TypeOK, ThreadPC
  <2>28. CASE AutostopState
    BY <2>28 DEF AutostopState, TypeOK, ThreadPC
  <2>29. CASE Sleep
    BY <2>29 DEF Sleep, TypeOK, ThreadPC
  <2>30. CASE ThreadDies
    BY <2>30 DEF ThreadDies, TypeOK, ThreadPC
  <2>31. CASE ThreadCancelled
    BY <2>31 DEF ThreadCancelled, TypeOK, ThreadPC
  <2>32. CASE UNCHANGED vars
    BY <2>32 DEF vars, TypeOK
  <2> QED
    BY <2>1, <2>2, <2>3, <2>4, <2>5, <2>6, <2>7, <2>8, <2>9, <2>10, <2>11,
       <2>12, <2>13, <2>14, <2>15, <2>16, <2>17, <2>18, <2>19, <2>20, <2>21,
       <2>22, <2>23, <2>24, <2>25, <2>26, <2>27, <2>28, <2>29, <2>30, <2>31,
       <2>32, ActionsOfNext
<1> QED
  BY <1>1, <1>2, PTL DEF Spec

-----------------------------------------------------------------------------
\* Without stop timeouts the two threads keep their agreement: a thread in the
\* cyclic part has reported it, under an ACTIVE block and a main thread that is
\* not past the wait of ptrig_stop.
THEOREM HandshakeInvariant ==
  ASSUME "stop_timeout" \notin Faults
  PROVE  Spec => []Handshake
<1>1. Init => Handshake
  BY DEF Init, Handshake
<1>2. Handshake /\ [Next]_vars => Handshake'
  <2> SUFFICES ASSUME Handshake, [Next]_vars PROVE Handshake'
    OBVIOUS
  <2> USE DEF threadVars, chainVars, historyVars, mainVars
  <2>1. CASE InitChainsFail
    BY <2>1 DEF InitChainsFail, CanInit, Handshake
  <2>2. CASE InitConfigFail
    BY <2>2 DEF InitConfigFail, CanInit, Handshake
  <2>3. CASE InitOk
    BY <2>3 DEF InitOk, CanInit, Handshake
  <2>4. CASE StartCall
    BY <2>4 DEF StartCall, Handshake
  <2>5. CASE ConfigChain
    BY <2>5 DEF ConfigChain, Handshake
  <2>6. CASE ConfigChainFail
    BY <2>6 DEF ConfigChainFail, Handshake
  <2>7. CASE StartSignal
    BY <2>7 DEF StartSignal, Handshake
  <2>8. CASE StopCall
    BY <2>8 DEF StopCall, Handshake
  <2>9. CASE StopRequest
    BY <2>9 DEF StopRequest, Handshake
  <2>10. CASE StopSeen
    BY <2>10 DEF StopSeen, Handshake
  <2>11. CASE StopTimeout
    BY <2>11 DEF StopTimeout, Handshake
  <2>12. CASE StopUnconfig
    BY <2>12 DEF StopUnconfig, Handshake
  <2>13. CASE StopReturn
    BY <2>13 DEF StopReturn, Handshake
  <2>14. CASE CleanupCall
    BY <2>14 DEF CleanupCall, Handshake
  <2>15. CASE CleanupJoin
    BY <2>15 DEF CleanupJoin, Handshake
  <2>16. CASE Lock
    BY <2>16 DEF Lock, Handshake
  <2>17. CASE ObserveStopped
    BY <2>17 DEF ObserveStopped, Handshake
  <2>18. CASE ObserveActive
    BY <2>18 DEF ObserveActive, Handshake
  <2>19. CASE OutputStats
    BY <2>19 DEF OutputStats, Handshake
  <2>20. CASE CondWait
    BY <2>20 DEF CondWait, Handshake
  <2>21. CASE Wake
    BY <2>21 DEF Wake, Handshake
  <2>22. CASE SpuriousWake
    BY <2>22 DEF SpuriousWake, Handshake
  <2>23. CASE ReadActchain
    BY <2>23 DEF ReadActchain, Handshake
  <2>24. CASE Trigger
    BY <2>24 DEF Trigger, Handshake
  <2>25. CASE CountStep
    BY <2>25 DEF CountStep, Handshake
  <2>26. CASE CountLastStep
    BY <2>26 DEF CountLastStep, Handshake
  <2>27. CASE AutostopRequest
    BY <2>27 DEF AutostopRequest, Handshake
  <2>28. CASE AutostopState
    BY <2>28 DEF AutostopState, Handshake
  <2>29. CASE Sleep
    BY <2>29 DEF Sleep, Handshake
  <2>30. CASE ThreadDies
    BY <2>30 DEF ThreadDies, Handshake
  <2>31. CASE ThreadCancelled
    BY <2>31 DEF ThreadCancelled, Handshake
  <2>32. CASE UNCHANGED vars
    BY <2>32 DEF vars, Handshake
  <2> QED
    BY <2>1, <2>2, <2>3, <2>4, <2>5, <2>6, <2>7, <2>8, <2>9, <2>10, <2>11,
       <2>12, <2>13, <2>14, <2>15, <2>16, <2>17, <2>18, <2>19, <2>20, <2>21,
       <2>22, <2>23, <2>24, <2>25, <2>26, <2>27, <2>28, <2>29, <2>30, <2>31,
       <2>32, ActionsOfNext
<1> QED
  BY <1>1, <1>2, PTL DEF Spec

\* Without stop timeouts no chain is triggered, and so no step hook called, from
\* the moment ptrig_stop has seen the thread stopped, or the block has stopped
\* itself, until the next start has signalled the thread.
THEOREM QuietAfterStopHolds ==
  ASSUME "stop_timeout" \notin Faults
  PROVE  Spec => []QuietAfterStop
<1>1. Handshake => QuietAfterStop
  BY DEF Handshake, QuietAfterStop
<1> QED
  BY <1>1, HandshakeInvariant, PTL

\* Without stop timeouts the statistics of every trigger have been output when
\* ptrig_stop returns.
THEOREM StatsFlushed ==
  ASSUME "stop_timeout" \notin Faults
  PROVE  Spec => []StatsFlushedAtStop
<1>1. Handshake => StatsFlushedAtStop
  BY DEF Handshake, StatsFlushedAtStop
<1> QED
  BY <1>1, HandshakeInvariant, PTL

-----------------------------------------------------------------------------
\* Whatever fails, a thread never outlives the private_data of its block: the
\* block is back in PREINIT only after pthread_join.
THEOREM NoThreadWithoutPrivateDataHolds == Spec => []NoThreadWithoutPrivateData
<1> DEFINE Inv == blockState = "preinit" => tpc = "none" /\ mpc = "idle"
<1>1. Init => Inv
  BY DEF Init
<1>2. Inv /\ [Next]_vars => Inv'
  <2> SUFFICES ASSUME Inv, [Next]_vars PROVE Inv'
    OBVIOUS
  <2> USE DEF threadVars, chainVars, historyVars, mainVars
  <2>1. CASE InitChainsFail
    BY <2>1 DEF InitChainsFail, CanInit
  <2>2. CASE InitConfigFail
    BY <2>2 DEF InitConfigFail, CanInit
  <2>3. CASE InitOk
    BY <2>3 DEF InitOk, CanInit
  <2>4. CASE StartCall
    BY <2>4 DEF StartCall
  <2>5. CASE ConfigChain
    BY <2>5 DEF ConfigChain
  <2>6. CASE ConfigChainFail
    BY <2>6 DEF ConfigChainFail
  <2>7. CASE StartSignal
    BY <2>7 DEF StartSignal
  <2>8. CASE StopCall
    BY <2>8 DEF StopCall
  <2>9. CASE StopRequest
    BY <2>9 DEF StopRequest
  <2>10. CASE StopSeen
    BY <2>10 DEF StopSeen
  <2>11. CASE StopTimeout
    BY <2>11 DEF StopTimeout
  <2>12. CASE StopUnconfig
    BY <2>12 DEF StopUnconfig
  <2>13. CASE StopReturn
    BY <2>13 DEF StopReturn
  <2>14. CASE CleanupCall
    BY <2>14 DEF CleanupCall
  <2>15. CASE CleanupJoin
    BY <2>15 DEF CleanupJoin
  <2>16. CASE Lock
    BY <2>16 DEF Lock
  <2>17. CASE ObserveStopped
    BY <2>17 DEF ObserveStopped
  <2>18. CASE ObserveActive
    BY <2>18 DEF ObserveActive
  <2>19. CASE OutputStats
    BY <2>19 DEF OutputStats
  <2>20. CASE CondWait
    BY <2>20 DEF CondWait
  <2>21. CASE Wake
    BY <2>21 DEF Wake
  <2>22. CASE SpuriousWake
    BY <2>22 DEF SpuriousWake
  <2>23. CASE ReadActchain
    BY <2>23 DEF ReadActchain
  <2>24. CASE Trigger
    BY <2>24 DEF Trigger
  <2>25. CASE CountStep
    BY <2>25 DEF CountStep
  <2>26. CASE CountLastStep
    BY <2>26 DEF CountLastStep
  <2>27. CASE AutostopRequest
    BY <2>27 DEF AutostopRequest
  <2>28. CASE AutostopState
    BY <2>28 DEF AutostopState
  <2>29. CASE Sleep
    BY <2>29 DEF Sleep
  <2>30. CASE ThreadDies
    BY <2>30 DEF ThreadDies
  <2>31. CASE ThreadCancelled
    BY <2>31 DEF ThreadCancelled
  <2>32. CASE UNCHANGED vars
    BY <2>32 DEF vars
  <2> QED
    BY <2>1, <2>2, <2>3, <2>4, <2>5, <2>6, <2>7, <2>8, <2>9, <2>10, <2>11,
       <2>12, <2>13, <2>14, <2>15, <2>16, <2>17, <2>18, <2>19, <2>20, <2>21,
       <2>22, <2>23, <2>24, <2>25, <2>26, <2>27, <2>28, <2>29, <2>30, <2>31,
       <2>32, ActionsOfNext
<1>3. Inv => NoThreadWithoutPrivateData
  BY DEF NoThreadWithoutPrivateData
<1> QED
  BY <1>1, <1>2, <1>3, PTL DEF Spec

-----------------------------------------------------------------------------
\* Without stop timeouts ubx/ptrig implements the safety part of the trigger
\* service: signalling switches it on, the return of ubx_block_stop or the
\* thread's own write of block_state switches it off, and a chain is triggered
\* only in between.
THEOREM ImplementsTriggerService ==
  ASSUME "stop_timeout" \notin Faults
  PROVE  Spec => Service!Spec
<1>1. Init => Service!Init
  BY DEF Init, Service!Init
<1>2. Handshake /\ [Next]_vars => [Service!Next]_(Service!vars)
  <2> SUFFICES ASSUME Handshake, [Next]_vars
               PROVE  Service!Next \/ UNCHANGED Service!vars
    OBVIOUS
  <2> USE DEF Handshake, Service!Next, Service!vars,
              threadVars, chainVars, historyVars, mainVars
  <2>1. CASE InitChainsFail
    BY <2>1 DEF InitChainsFail, CanInit
  <2>2. CASE InitConfigFail
    BY <2>2 DEF InitConfigFail, CanInit
  <2>3. CASE InitOk
    BY <2>3 DEF InitOk, CanInit
  <2>4. CASE StartCall
    BY <2>4 DEF StartCall
  <2>5. CASE ConfigChain
    BY <2>5 DEF ConfigChain
  <2>6. CASE ConfigChainFail
    BY <2>6 DEF ConfigChainFail
  <2>7. CASE StartSignal
    BY <2>7 DEF StartSignal, Service!SwitchOn
  <2>8. CASE StopCall
    BY <2>8 DEF StopCall
  <2>9. CASE StopRequest
    BY <2>9 DEF StopRequest
  <2>10. CASE StopSeen
    BY <2>10 DEF StopSeen
  <2>11. CASE StopTimeout
    BY <2>11 DEF StopTimeout
  <2>12. CASE StopUnconfig
    BY <2>12 DEF StopUnconfig
  <2>13. CASE StopReturn
    BY <2>13 DEF StopReturn, Service!SwitchOff
  <2>14. CASE CleanupCall
    BY <2>14 DEF CleanupCall
  <2>15. CASE CleanupJoin
    BY <2>15 DEF CleanupJoin
  <2>16. CASE Lock
    BY <2>16 DEF Lock
  <2>17. CASE ObserveStopped
    BY <2>17 DEF ObserveStopped
  <2>18. CASE ObserveActive
    BY <2>18 DEF ObserveActive
  <2>19. CASE OutputStats
    BY <2>19 DEF OutputStats
  <2>20. CASE CondWait
    BY <2>20 DEF CondWait
  <2>21. CASE Wake
    BY <2>21 DEF Wake
  <2>22. CASE SpuriousWake
    BY <2>22 DEF SpuriousWake
  <2>23. CASE ReadActchain
    BY <2>23 DEF ReadActchain, Service!Fire
  <2>24. CASE Trigger
    BY <2>24 DEF Trigger, Service!Done
  <2>25. CASE CountStep
    BY <2>25 DEF CountStep
  <2>26. CASE CountLastStep
    BY <2>26 DEF CountLastStep
  <2>27. CASE AutostopRequest
    BY <2>27 DEF AutostopRequest
  <2>28. CASE AutostopState
    BY <2>28 DEF AutostopState, Service!SwitchOff
  <2>29. CASE Sleep
    BY <2>29 DEF Sleep
  <2>30. CASE ThreadDies
    BY <2>30 DEF ThreadDies
  <2>31. CASE ThreadCancelled
    BY <2>31 DEF ThreadCancelled
  <2>32. CASE UNCHANGED vars
    BY <2>32 DEF vars
  <2> QED
    BY <2>1, <2>2, <2>3, <2>4, <2>5, <2>6, <2>7, <2>8, <2>9, <2>10, <2>11,
       <2>12, <2>13, <2>14, <2>15, <2>16, <2>17, <2>18, <2>19, <2>20, <2>21,
       <2>22, <2>23, <2>24, <2>25, <2>26, <2>27, <2>28, <2>29, <2>30, <2>31,
       <2>32, ActionsOfNext
<1> QED
  BY <1>1, <1>2, HandshakeInvariant, PTL DEF Spec, Service!Spec
-----------------------------------------------------------------------------
\* When statistics are per block, the thread triggers a chain only with the
\* buffer ubx_chain_init has sized for it, and never with one that was freed
\* when an allocation failed in an earlier start or does so in this one
\* (common_config_chains, common_unconfig, ubx_chain_trigger).
TriggersWithBuffer ==
  tpc = "trigger" /\ tstatsMode = 2 => blkTstats[actchain] = "live"

\* Why it holds: a start that has come to chain cfgIdx has sized the buffers of
\* the chains before it, and nothing frees one while the block is ACTIVE.
BuffersSized ==
  tstatsMode = 2 /\ blockState = "active" =>
    \A c \in Chains :
      (mpc = "start_cfg" /\ c >= cfgIdx) \/ blkTstats[c] = "live"

LEMMA BuffersStep ==
  ASSUME TypeOK, Handshake, BuffersSized, [Next]_vars
  PROVE  BuffersSized'
<1> USE DEF threadVars, chainVars, historyVars, mainVars
<1>1. CASE InitChainsFail \/ InitConfigFail \/ InitOk
  BY <1>1 DEF InitChainsFail, InitConfigFail, InitOk, CanInit, BuffersSized
<1>2. CASE StartCall
  <2>1. \A c \in Chains : c >= 0
    BY PtrigAssumption DEF Chains
  <2> QED
    BY <1>2, <2>1 DEF StartCall, BuffersSized
<1>3. CASE ConfigChain
  <2> USE <1>3 DEF ConfigChain
  <2>1. /\ cfgIdx \in Chains /\ cfgIdx \in Nat /\ Chains = 0 .. NumChains - 1
        /\ NumChains \in Nat /\ blkTstats \in [Chains -> {"null", "live", "freed"}]
    BY PtrigAssumption DEF TypeOK, Chains
  <2> SUFFICES ASSUME tstatsMode = 2, blockState = "active", NEW c \in Chains
               PROVE  \/ mpc' = "start_cfg" /\ c >= cfgIdx'
                      \/ blkTstats'[c] = "live"
    BY DEF BuffersSized
  <2>2. c = cfgIdx => blkTstats'[c] = "live"
    BY <2>1
  <2>3. c # cfgIdx => blkTstats'[c] = blkTstats[c]
    BY <2>1
  <2>4. c < cfgIdx => blkTstats[c] = "live"
    BY <2>1 DEF BuffersSized
  <2>5. CASE cfgIdx + 1 \in Chains
    <3>1. mpc' = "start_cfg" /\ cfgIdx' = cfgIdx + 1
      BY <2>5
    <3> QED
      BY <2>1, <2>2, <2>3, <2>4, <3>1
  <2>6. CASE cfgIdx + 1 \notin Chains
    <3>1. c <= cfgIdx
      BY <2>1, <2>6
    <3> QED
      BY <2>1, <2>2, <2>3, <2>4, <3>1
  <2> QED
    BY <2>5, <2>6
<1>4. CASE ConfigChainFail
  BY <1>4 DEF ConfigChainFail, BuffersSized
<1>5. CASE StartSignal
  BY <1>5 DEF StartSignal, BuffersSized
<1>6. CASE StopCall \/ StopRequest \/ StopSeen \/ StopTimeout \/ StopReturn
  BY <1>6 DEF StopCall, StopRequest, StopSeen, StopTimeout, StopReturn,
              BuffersSized
<1>7. CASE StopUnconfig
  BY <1>7 DEF StopUnconfig, Handshake
<1>8. CASE CleanupCall
  BY <1>8 DEF CleanupCall, BuffersSized
<1>9. CASE CleanupJoin
  BY <1>9 DEF CleanupJoin, BuffersSized
<1>10. CASE Lock \/ ObserveStopped \/ ObserveActive \/ OutputStats \/ CondWait
            \/ Wake \/ SpuriousWake
  BY <1>10 DEF Lock, ObserveStopped, ObserveActive, OutputStats, CondWait, Wake,
               SpuriousWake, BuffersSized
<1>11. CASE ReadActchain \/ Trigger \/ CountStep \/ CountLastStep
            \/ AutostopRequest \/ AutostopState
  BY <1>11 DEF ReadActchain, Trigger, CountStep, CountLastStep,
               AutostopRequest, AutostopState, BuffersSized
<1>12. CASE Sleep \/ ThreadDies \/ ThreadCancelled
  BY <1>12 DEF Sleep, ThreadDies, ThreadCancelled, BuffersSized
<1>13. CASE UNCHANGED vars
  BY <1>13 DEF vars, BuffersSized
<1> QED
  BY <1>1, <1>2, <1>3, <1>4, <1>5, <1>6, <1>7, <1>8, <1>9, <1>10, <1>11,
     <1>12, <1>13, ActionsOfNext

THEOREM TriggersWithBufferHolds ==
  ASSUME "stop_timeout" \notin Faults
  PROVE  Spec => []TriggersWithBuffer
<1>1. Init => BuffersSized
  BY DEF Init, BuffersSized
<1>2. TypeOK /\ Handshake /\ BuffersSized => TriggersWithBuffer
  BY DEF TypeOK, Handshake, BuffersSized, TriggersWithBuffer
<1> QED
  BY <1>1, <1>2, TypeCorrect, HandshakeInvariant, BuffersStep, PTL DEF Spec

-----------------------------------------------------------------------------
(* A node with a ptrig block.                                               *)

\* The steps of a node, for the case distinctions below.
LEMMA CasesOfNodeNext ==
  ASSUME NodeNext
  PROVE  \/ SkipBlock \/ NextPhase \/ NodeRm \/ TrigCall \/ TrigUserCall
         \/ TrigHook \/ BlockRm(Trig) \/ StepRefused \/ StepEnter \/ StepLeave
         \/ ChainDone \/ ThreadElse \/ SpuriousWakeup
         \/ \E b \in CBlocks :
              CInit(b) \/ CStart(b) \/ CStarted(b) \/ CStop(b) \/ CStopped(b)
              \/ CCleanup(b) \/ CCleanedUp(b) \/ BlockRm(b)
  BY DEF NodeNext, MainStep, NodeThreadStep

\* A node runs its ptrig block as module Ptrig describes: the calls of the
\* launcher and of ubx_node_clear, and the steps of the chain, are calls and
\* stuttering steps of Ptrig.
THEOREM NodeImplementsPtrig == NodeSpec => Spec
<1>1. NodeInit => Init
  BY DEF NodeInit
<1>2. [NodeNext]_nodeVars => [Next]_vars
  <2> SUFFICES ASSUME [NodeNext]_nodeVars PROVE Next \/ UNCHANGED vars
    OBVIOUS
  <2> USE DEF Next, MainInit, MainStart, MainStop, MainCleanup, ThreadStep
  <2>1. CASE SkipBlock \/ NextPhase \/ NodeRm \/ BlockRm(Trig)
    BY <2>1 DEF SkipBlock, NextPhase, NodeRm, BlockRm
  <2>2. CASE TrigCall
    BY <2>2 DEF TrigCall
  <2>3. CASE TrigUserCall
    BY <2>3 DEF TrigUserCall
  <2>4. CASE TrigHook
    BY <2>4 DEF TrigHook
  <2>5. CASE StepRefused \/ StepEnter \/ StepLeave
    BY <2>5 DEF StepRefused, StepEnter, StepLeave
  <2>6. CASE ChainDone
    BY <2>6 DEF ChainDone
  <2>7. CASE ThreadElse
    BY <2>7 DEF ThreadElse
  <2>8. CASE SpuriousWakeup
    BY <2>8 DEF SpuriousWakeup
  <2>9. ASSUME NEW b \in CBlocks,
               CInit(b) \/ CStart(b) \/ CStarted(b) \/ CStop(b) \/ CStopped(b)
               \/ CCleanup(b) \/ CCleanedUp(b) \/ BlockRm(b)
        PROVE  UNCHANGED vars
    BY <2>9 DEF CInit, CStart, CStarted, CStop, CStopped, CCleanup, CCleanedUp,
                BlockRm
  <2>10. CASE UNCHANGED nodeVars
    BY <2>10 DEF nodeVars
  <2> QED
    BY <2>1, <2>2, <2>3, <2>4, <2>5, <2>6, <2>7, <2>8, <2>9, <2>10,
       CasesOfNodeNext
<1> QED
  BY <1>1, <1>2, PTL DEF NodeSpec, Spec

-----------------------------------------------------------------------------
\* The invariant that relates the two threads of ptrig.c holds in the node.
THEOREM NodeHandshake ==
  ASSUME "stop_timeout" \notin Faults
  PROVE  NodeSpec => []Handshake
  BY NodeImplementsPtrig, HandshakeInvariant, PTL

\* The order of creation names the trigger and every computation block.
LEMMA OrderFacts ==
  /\ Len(Order) \in Nat
  /\ DOMAIN Order = 1 .. Len(Order)
  /\ \A b \in CBlocks : \E i \in DOMAIN Order : Order[i] = b
  /\ \A b \in CBlocks : b # Trig
  /\ \A i \in DOMAIN Order : Order[i] # Trig => Order[i] \in CBlocks
  /\ \E i \in DOMAIN Order : Order[i] = Trig
  BY PtrigNodeAssumption DEF CBlocks, Trig

\* The chain names computation blocks.
LEMMA TriggeeFacts ==
  /\ Len(Triggees) \in Nat
  /\ \A i \in 1 .. Len(Triggees) : Triggees[i] \in CBlocks
  BY PtrigNodeAssumption

\* the types of the variables PtrigNode adds, and the bounds they rest on
NodeTypes ==
  /\ phase \in Phases
  /\ turn \in 1 .. Len(Order) + 1
  /\ hook \in [op : {"none", "start", "stop", "cleanup"}, block : CBlocks \cup {NoBlock}]
  /\ cState \in [CBlocks -> {"preinit", "inactive", "active", "removed"}]
  /\ ready \in [CBlocks -> BOOLEAN]
  /\ stepping \in CBlocks \cup {NoBlock}
  /\ pos \in 1 .. Len(Triggees) + 1
  /\ hook # NoHook => turn <= Len(Order)
  /\ stepping # NoBlock => pos <= Len(Triggees)

\* The variables that the node adds have their types after node creation ...
LEMMA NodeTypesInit == NodeInit => NodeTypes
  BY OrderFacts, TriggeeFacts DEF NodeInit, NodeTypes, Phases, NoHook

\* ... and after every step.
LEMMA NodeTypesStep ==
  ASSUME NodeTypes, [NodeNext]_nodeVars
  PROVE  NodeTypes'
<1> USE OrderFacts, TriggeeFacts DEF launchVars, cblockVars, stepVars
<1>1. CASE SkipBlock
  BY <1>1 DEF SkipBlock, AtBlock, NodeTypes
<1>2. CASE NextPhase
  BY <1>2 DEF NextPhase, PhaseAfter, Looping, Phases, NodeTypes
<1>3. CASE NodeRm
  BY <1>3 DEF NodeRm, Phases, NodeTypes, NoHook
<1>4. CASE TrigCall
  BY <1>4 DEF TrigCall, AtBlock, NodeTypes
<1>5. CASE TrigUserCall
  BY <1>5 DEF TrigUserCall, NodeTypes
<1>6. CASE TrigHook
  BY <1>6 DEF TrigHook, NodeTypes
<1>7. CASE BlockRm(Trig)
  BY <1>7 DEF BlockRm, AtBlock, NodeTypes
<1>8. CASE StepRefused
  BY <1>8 DEF StepRefused, NodeTypes
<1>9. CASE StepEnter
  BY <1>9 DEF StepEnter, NodeTypes
<1>10. CASE StepLeave
  BY <1>10 DEF StepLeave, NodeTypes
<1>11. CASE ChainDone
  BY <1>11 DEF ChainDone, NodeTypes
<1>12. CASE ThreadElse
  BY <1>12 DEF ThreadElse, NodeTypes
<1>13. CASE SpuriousWakeup
  BY <1>13 DEF SpuriousWakeup, NodeTypes
<1>14. ASSUME NEW b \in CBlocks, CInit(b) PROVE NodeTypes'
  BY <1>14 DEF CInit, AtBlock, NodeTypes
<1>15. ASSUME NEW b \in CBlocks, CStart(b) PROVE NodeTypes'
  BY <1>15 DEF CStart, AtBlock, NodeTypes
<1>16. ASSUME NEW b \in CBlocks, CStarted(b) PROVE NodeTypes'
  BY <1>16 DEF CStarted, NoHook, NodeTypes
<1>17. ASSUME NEW b \in CBlocks, CStop(b) PROVE NodeTypes'
  BY <1>17 DEF CStop, AtBlock, NodeTypes
<1>18. ASSUME NEW b \in CBlocks, CStopped(b) PROVE NodeTypes'
  BY <1>18 DEF CStopped, NoHook, NodeTypes
<1>19. ASSUME NEW b \in CBlocks, CCleanup(b) PROVE NodeTypes'
  BY <1>19 DEF CCleanup, AtBlock, NodeTypes
<1>20. ASSUME NEW b \in CBlocks, CCleanedUp(b) PROVE NodeTypes'
  BY <1>20 DEF CCleanedUp, NoHook, NodeTypes
<1>21. ASSUME NEW b \in CBlocks, BlockRm(b) PROVE NodeTypes'
  BY <1>21 DEF BlockRm, AtBlock, NodeTypes
<1>22. CASE UNCHANGED nodeVars
  BY <1>22 DEF nodeVars, NodeTypes
<1> QED
  BY <1>1, <1>2, <1>3, <1>4, <1>5, <1>6, <1>7, <1>8, <1>9, <1>10, <1>11,
     <1>12, <1>13, <1>14, <1>15, <1>16, <1>17, <1>18, <1>19, <1>20, <1>21,
     <1>22, CasesOfNodeNext

\* The bounds of NodeTypes hold in every state of a node.
LEMMA NodeTypesInvariant == NodeSpec => []NodeTypes
  BY NodeTypesInit, NodeTypesStep, PTL DEF NodeSpec

\* The variables of a node have their types; turn and pos stay within the
\* sequences they index.
THEOREM NodeTypeCorrect == NodeSpec => []NodeTypeOK
<1>1. NodeTypes /\ TypeOK => NodeTypeOK
  BY DEF NodeTypes, NodeTypeOK
<1> QED
  BY <1>1, NodeTypesInvariant, NodeImplementsPtrig, TypeCorrect, PTL

-----------------------------------------------------------------------------
\* What the conjuncts of Phased say of a loop that has come to its end, of the
\* hook that runs and of the calls on the ptrig block: every step of a node
\* keeps them, given the agreement of the two threads (Handshake).
LEMMA PhasedStep ==
  ASSUME Phased, Handshake, NodeTypes, [NodeNext]_nodeVars
  PROVE  Phased'
<1> USE OrderFacts DEF Trig, HookPhase
<1>1. CASE SkipBlock
  BY <1>1 DEF SkipBlock, AtBlock, Skip, StateOf, Looping, Phased, NodeTypes,
              vars, cblockVars, stepVars, NoHook
<1>2. CASE NextPhase
  <2>1. /\ UNCHANGED <<blockState, mpc, tpc, hook, ready, stepping>>
        /\ hook = NoHook /\ turn' = 1 /\ turn = Len(Order) + 1
        /\ phase' = PhaseAfter(phase) /\ phase \notin {"run", "cleared"}
    BY <1>2 DEF NextPhase, Looping, vars, cblockVars, stepVars
  <2>2. phase \in {"init", "start_passive", "start_active", "clear_stop",
                  "clear_cleanup", "clear_rm"}
    BY <2>1 DEF NodeTypes, Phases
  <2>3. /\ phase = "init" <=> phase' = "start_passive"
        /\ phase = "start_passive" <=> phase' = "start_active"
        /\ phase = "start_active" <=> phase' = "run"
        /\ phase' # "clear_stop"
    BY <2>1, <2>2 DEF PhaseAfter
  <2>4. phase = "start_passive" => \A b \in CBlocks : ready[b]
    BY <2>1, OrderFacts DEF Phased
  <2>5. blockState = "active" => phase # "clear_stop"
    BY <2>1, OrderFacts, <1>2 DEF Phased, NextPhase, Handshake
  <2>6. /\ blockState' = "active" => phase' \in {"start_active", "run", "clear_stop"}
        /\ phase' \in {"start_active", "run", "clear_stop"}
             => \A b \in CBlocks : ready'[b]
    BY <2>1, <2>3, <2>4, <2>5 DEF Phased
  <2>7. \A i \in DOMAIN Order : ~(i < 1)
    OBVIOUS
  <2> QED
    BY <2>1, <2>3, <2>6, <2>7 DEF Phased
<1>3. CASE NodeRm
  BY <1>3 DEF NodeRm, Phased, NodeTypes, vars, cblockVars, stepVars, NoHook
<1>4. CASE TrigCall
  <2> USE <1>4 DEF TrigCall, AtBlock, cblockVars, stepVars, NodeTypes
  <2>1. CASE phase = "init" /\ InitOk
    BY <2>1 DEF InitOk, CanInit, Phased, Handshake
  <2>2. CASE phase = "start_active" /\ StartCall
    BY <2>2 DEF StartCall, Phased, threadVars
  <2>3. CASE phase = "clear_stop" /\ StopCall
    BY <2>3 DEF StopCall, Phased, threadVars
  <2>4. CASE phase = "clear_cleanup" /\ CleanupCall
    BY <2>4 DEF CleanupCall, Phased, threadVars
  <2> QED
    BY <2>1, <2>2, <2>3, <2>4
<1>5. CASE TrigUserCall
  BY <1>5 DEF TrigUserCall, StopCall, StartCall, Phased, launchVars, cblockVars,
              stepVars, threadVars
<1>6. CASE TrigHook
  <2> USE <1>6 DEF TrigHook, launchVars, cblockVars, stepVars, Phased
  <2>1. CASE ConfigChain
    BY <2>1 DEF ConfigChain, threadVars
  <2>2. CASE StartSignal
    BY <2>2 DEF StartSignal, threadVars
  <2>3. CASE StopRequest
    BY <2>3 DEF StopRequest, threadVars
  <2>4. CASE StopSeen
    BY <2>4 DEF StopSeen, threadVars
  <2>5. CASE StopReturn
    BY <2>5 DEF StopReturn, threadVars
  <2>6. CASE CleanupJoin
    BY <2>6 DEF CleanupJoin
  <2> QED
    BY <2>1, <2>2, <2>3, <2>4, <2>5, <2>6
<1>7. CASE BlockRm(Trig)
  BY <1>7 DEF BlockRm, AtBlock, Phased, NodeTypes, vars, stepVars
<1>8. CASE StepRefused
  BY <1>8 DEF StepRefused, Phased, vars, launchVars, cblockVars
<1>9. CASE StepEnter
  BY <1>9 DEF StepEnter, Phased, vars, launchVars, cblockVars
<1>10. CASE StepLeave
  BY <1>10 DEF StepLeave, Phased, vars, launchVars, cblockVars
<1>11. CASE ChainDone
  <2>1. stepping = NoBlock
    BY <1>11, TriggeeFacts DEF ChainDone, NodeTypes
  <2>2. blockState' = blockState /\ mpc' = mpc /\ stepping' = stepping
    BY <1>11 DEF ChainDone, Trigger, mainVars
  <2> QED
    BY <1>11, <2>1, <2>2 DEF ChainDone, Phased, launchVars, cblockVars
<1>12. CASE ThreadElse
  <2>1. blockState' = "active" => blockState = "active"
    BY <1>12 DEF ThreadElse, Lock, ObserveStopped, ObserveActive, OutputStats,
                 CondWait, Wake, ReadActchain, CountStep, CountLastStep,
                 AutostopRequest, AutostopState, Sleep, ThreadCancelled
  <2>2. mpc' = mpc
    BY <1>12 DEF ThreadElse, Lock, ObserveStopped, ObserveActive, OutputStats,
                 CondWait, Wake, ReadActchain, CountStep, CountLastStep,
                 AutostopRequest, AutostopState, Sleep, ThreadCancelled, mainVars
  <2>3. tpc # "trigger"
    BY <1>12 DEF ThreadElse, Lock, ObserveStopped, ObserveActive, OutputStats,
                 CondWait, Wake, ReadActchain, CountStep, CountLastStep,
                 AutostopRequest, AutostopState, Sleep, ThreadCancelled
  <2> QED
    BY <1>12, <2>1, <2>2, <2>3
       DEF ThreadElse, Phased, launchVars, cblockVars, stepVars
<1>13. CASE SpuriousWakeup
  BY <1>13 DEF SpuriousWakeup, SpuriousWake, Phased, mainVars, launchVars,
               cblockVars, stepVars
<1>14. ASSUME NEW b \in CBlocks, CInit(b) PROVE Phased'
  BY <1>14 DEF CInit, AtBlock, Phased, NodeTypes, vars, stepVars, NoHook
<1>15. ASSUME NEW b \in CBlocks, CStart(b) PROVE Phased'
  BY <1>15 DEF CStart, AtBlock, Phased, NodeTypes, vars, launchVars, stepVars,
               NoHook
<1>16. ASSUME NEW b \in CBlocks, CStarted(b) PROVE Phased'
  BY <1>16 DEF CStarted, Phased, NodeTypes, vars, stepVars, NoHook
<1>17. ASSUME NEW b \in CBlocks, CStop(b) PROVE Phased'
  BY <1>17 DEF CStop, AtBlock, Phased, NodeTypes, vars, launchVars, stepVars,
               NoHook
<1>18. ASSUME NEW b \in CBlocks, CStopped(b) PROVE Phased'
  BY <1>18 DEF CStopped, Phased, NodeTypes, vars, stepVars, NoHook
<1>19. ASSUME NEW b \in CBlocks, CCleanup(b) PROVE Phased'
  BY <1>19 DEF CCleanup, AtBlock, Phased, NodeTypes, vars, launchVars, stepVars,
               NoHook
<1>20. ASSUME NEW b \in CBlocks, CCleanedUp(b) PROVE Phased'
  BY <1>20 DEF CCleanedUp, Phased, NodeTypes, vars, stepVars, NoHook
<1>21. ASSUME NEW b \in CBlocks, BlockRm(b) PROVE Phased'
  BY <1>21 DEF BlockRm, AtBlock, Phased, NodeTypes, vars, stepVars, NoHook
<1>22. CASE UNCHANGED nodeVars
  BY <1>22 DEF nodeVars, vars, launchVars, cblockVars, stepVars, Phased
<1> QED
  BY <1>1, <1>2, <1>3, <1>4, <1>5, <1>6, <1>7, <1>8, <1>9, <1>10, <1>11,
     <1>12, <1>13, <1>14, <1>15, <1>16, <1>17, <1>18, <1>19, <1>20, <1>21,
     <1>22, CasesOfNodeNext

\* The trigger of a node is ACTIVE only while every computation block of the
\* node has been started and none has been cleaned up.
THEOREM PhasedInvariant ==
  ASSUME "stop_timeout" \notin Faults
  PROVE  NodeSpec => []Phased
<1>1. NodeInit => Phased
  BY OrderFacts DEF NodeInit, Init, Phased, NoHook
<1>2. Phased /\ Handshake /\ NodeTypes /\ [NodeNext]_nodeVars => Phased'
  BY PhasedStep
<1> QED
  BY <1>1, <1>2, NodeHandshake, NodeTypesInvariant, PTL DEF NodeSpec

\* No step hook runs on a block that is not fully started or is being cleaned
\* up, for any blocks in any order and any chain.
THEOREM StepOnlyReady ==
  ASSUME "stop_timeout" \notin Faults
  PROVE  NodeSpec => []StepOnlyReadyBlocks
<1>1. Phased /\ Handshake /\ NodeTypes => StepOnlyReadyBlocks
  BY DEF Phased, Handshake, NodeTypes, StepOnlyReadyBlocks, Cyclic
<1> QED
  BY <1>1, PhasedInvariant, NodeHandshake, NodeTypesInvariant, PTL

-----------------------------------------------------------------------------
\* The ptrig block of a node is a trigger service as well, whatever the launcher,
\* the user and ubx_node_clear call in whatever phase.
THEOREM NodeImplementsTriggerService ==
  ASSUME "stop_timeout" \notin Faults
  PROVE  NodeSpec => Service!Spec
  BY NodeImplementsPtrig, ImplementsTriggerService, PTL

\* The main thread runs one hook at a time: none of a computation block while it
\* is in one of the ptrig block.
HookAlone == hook # NoHook => mpc = "idle"

LEMMA HookAloneStep ==
  ASSUME HookAlone, Phased, [NodeNext]_nodeVars
  PROVE  HookAlone'
<1>1. ASSUME hook' = NoHook PROVE HookAlone'
  BY <1>1 DEF HookAlone, NoHook, NoBlock
<1>2. ASSUME UNCHANGED <<hook, mpc>> PROVE HookAlone'
  BY <1>2 DEF HookAlone, NoHook, NoBlock
<1>3. ASSUME mpc' = "idle" PROVE HookAlone'
  BY <1>3 DEF HookAlone
<1>4. CASE SkipBlock \/ NextPhase \/ NodeRm \/ BlockRm(Trig)
  BY <1>2, <1>4 DEF SkipBlock, NextPhase, NodeRm, BlockRm, vars, cblockVars
<1>5. CASE TrigCall
  BY <1>1, <1>5 DEF TrigCall, AtBlock, cblockVars
<1>6. CASE TrigUserCall
  <2>1. hook = NoHook
    BY <1>6 DEF TrigUserCall, Phased, HookPhase
  <2> QED
    BY <1>1, <1>6, <2>1 DEF TrigUserCall, cblockVars
<1>7. CASE TrigHook
  <2>1. mpc # "idle"
    BY <1>7 DEF TrigHook, ConfigChain, StartSignal, StopRequest, StopSeen,
                StopReturn, CleanupJoin
  <2>2. hook = NoHook
    BY <2>1 DEF HookAlone
  <2> QED
    BY <1>1, <1>7, <2>2 DEF TrigHook, cblockVars
<1>8. CASE StepRefused \/ StepEnter \/ StepLeave
  BY <1>2, <1>8 DEF StepRefused, StepEnter, StepLeave, vars, cblockVars
<1>9. CASE ChainDone
  BY <1>2, <1>9 DEF ChainDone, Trigger, mainVars, cblockVars
<1>10. CASE ThreadElse
  <2>1. mpc' = mpc
    BY <1>10 DEF ThreadElse, Lock, ObserveStopped, ObserveActive, OutputStats,
                 CondWait, Wake, ReadActchain, CountStep, CountLastStep,
                 AutostopRequest, AutostopState, Sleep, ThreadCancelled, mainVars
  <2> QED
    BY <1>2, <1>10, <2>1 DEF ThreadElse, cblockVars
<1>11. CASE SpuriousWakeup
  BY <1>2, <1>11 DEF SpuriousWakeup, SpuriousWake, mainVars, cblockVars
<1>12. ASSUME NEW b \in CBlocks, CInit(b) \/ BlockRm(b) PROVE HookAlone'
  BY <1>2, <1>12 DEF CInit, BlockRm, vars
<1>13. ASSUME NEW b \in CBlocks, CStart(b) \/ CStop(b) \/ CCleanup(b)
       PROVE  HookAlone'
  BY <1>3, <1>13 DEF CStart, CStop, CCleanup, AtBlock, vars
<1>14. ASSUME NEW b \in CBlocks, CStarted(b) \/ CStopped(b) \/ CCleanedUp(b)
       PROVE  HookAlone'
  BY <1>1, <1>14 DEF CStarted, CStopped, CCleanedUp
<1>15. CASE UNCHANGED nodeVars
  BY <1>2, <1>15 DEF nodeVars, vars, cblockVars
<1> QED
  BY <1>4, <1>5, <1>6, <1>7, <1>8, <1>9, <1>10, <1>11, <1>12, <1>13, <1>14,
     <1>15, CasesOfNodeNext

\* When ubx_node_clear stops a block that was created after its trigger, the
\* trigger has been stopped and does not step it; a block created before may be
\* in its step hook when its stop hook is called.
THEOREM NoStepDuringLaterStopHolds ==
  ASSUME "stop_timeout" \notin Faults
  PROVE  NodeSpec => []NoStepDuringLaterStop
<1>1. NodeInit => HookAlone
  BY DEF NodeInit, HookAlone
<1>2. Phased /\ Handshake /\ NodeTypes /\ HookAlone => NoStepDuringLaterStop
  <2> SUFFICES ASSUME Phased, Handshake, NodeTypes, HookAlone,
                      NEW i \in DOMAIN Order, NEW j \in DOMAIN Order,
                      Order[i] = Trig, i < j, stepping = Order[j],
                      hook = [op |-> "stop", block |-> Order[j]]
               PROVE  FALSE
    BY DEF NoStepDuringLaterStop
  <2>1. hook # NoHook /\ hook.op = "stop" /\ hook.block = Order[j]
    BY DEF NoHook
  <2>2. mpc = "idle"
    BY <2>1 DEF HookAlone
  <2>3. /\ turn <= Len(Order) /\ Order[turn] = Order[j] /\ Order[j] \in CBlocks
        /\ phase = "clear_stop"
    BY <2>1 DEF Phased, HookPhase
  <2>4. turn \in DOMAIN Order
    BY <2>3, OrderFacts DEF NodeTypes
  <2>5. turn = j
    BY <2>3, <2>4, PtrigNodeAssumption
  <2>6. blockState # "active"
    BY <2>2, <2>3, <2>5 DEF Phased
  <2>7. stepping # NoBlock
    BY <2>3, PtrigNodeAssumption
  <2>8. tpc = "trigger"
    BY <2>7 DEF Phased
  <2> QED
    BY <2>6, <2>8 DEF Handshake
<1> QED
  BY <1>1, <1>2, HookAloneStep, PhasedInvariant, NodeHandshake,
     NodeTypesInvariant, PTL DEF NodeSpec
=============================================================================
