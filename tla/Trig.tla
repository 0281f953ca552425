-------------------------------- MODULE Trig --------------------------------
(***************************************************************************)
(* The trigger block ubx/trig: a computation block that, when it is        *)
(* stepped, triggers the active one of its chains.  The thread that steps  *)
(* it is the one that calls its life cycle functions.                      *)
(***************************************************************************)
EXTENDS Chain, FiniteSets, Functions

CONSTANTS
  NumChains,     \* config num_chains
  TriggeeLists,  \* the values a chainN config may have at a start
  Modes,         \* the values config tstats_mode may have
  Skips,         \* the values config tstats_skip_first may have, none negative
  AllocFails,    \* whether realloc may fail
  MaxTriggers    \* bound: triggers of all chains between a start and a stop

ASSUME TrigAssumption ==
  /\ NumChains \in Nat \ {0}
  /\ TriggeeLists \subseteq Seq([every : 0 .. W - 1, steps : Int])
  /\ Modes \subseteq Int
  /\ Skips \subseteq 0 .. W - 1
  /\ AllocFails \in BOOLEAN
  /\ MaxTriggers \in Nat

VARIABLES
  blockState,  \* b->block_state
  chain,       \* inf->chains
  actchain,    \* inf->actchain
  n,           \* history: triggers of each chain since the last start
  skipped,     \* history: tstats_skip_first at the last start
  stepped,     \* history: steps each triggee has made since the last start
  missed,      \* history: due triggers at which a triggee was not ACTIVE
  outs,        \* history: outputs of each record on port tstats since the start
  written      \* history: the chains the last stop has written to the file

historyVars == <<n, skipped, stepped, missed, outs>>
vars == <<blockState, chain, actchain, historyVars, written>>

Chains == 0 .. NumChains - 1
None   == [c \in Chains |-> <<>>]

TypeOK ==
  /\ blockState \in {"preinit", "inactive", "active"}
  /\ actchain \in Chains
  /\ \A c \in Chains :
       /\ chain[c].everyCnt \in 0 .. W - 1
       /\ chain[c].skip \in 0 .. W - 1
       /\ blockState = "active" => chain[c].outIdx \in 0 .. Len(chain[c].triggees)
       /\ chain[c].mem \in {"null", "live", "freed"}
       /\ n[c] \in 0 .. MaxTriggers

Zero == [c \in Chains |-> 0]

Init ==
  /\ blockState = "preinit"
  /\ chain = [c \in Chains |-> NewChain]
  /\ actchain = 0
  /\ n = Zero /\ skipped = 0
  /\ stepped = None /\ missed = None /\ outs = None
  /\ written = <<>>

-----------------------------------------------------------------------------
(* Slips.                                                                   *)

\* stop frees the statistics of the first chain only
StopLeavesBuffers ==
  /\ blockState = "active"
  /\ blockState' = "inactive"
  /\ chain' = [chain EXCEPT ![0] = Cleanup(@)]
  /\ n' = Zero /\ skipped' = 0
  /\ stepped' = None /\ missed' = None /\ outs' = None
  /\ UNCHANGED <<actchain, written>>

-----------------------------------------------------------------------------
\* a failed trig_init (num_chains below 1, no memory) changes nothing here
InitBlock ==
  /\ blockState = "preinit"
  /\ blockState' = "inactive"
  /\ chain' = [c \in Chains |-> NewChain]
  /\ actchain' = 0
  /\ UNCHANGED <<historyVars, written>>

\* the chains share tstats_mode and tstats_skip_first
StartBlock ==
  /\ blockState = "inactive"
  /\ \E lists \in [Chains -> TriggeeLists], m \in Modes, s \in Skips :
       /\ chain' = [c \in Chains |->
                      Configure(chain[c], [triggees |-> lists[c], mode |-> m, skip |-> s])]
       /\ stepped' = [c \in Chains |-> [i \in DOMAIN lists[c] |-> 0]]
       /\ missed'  = [c \in Chains |-> [i \in DOMAIN lists[c] |-> 0]]
       /\ outs'    = [c \in Chains |-> [i \in 0 .. Len(lists[c]) |-> 0]]
       /\ skipped' = s
  /\ blockState' = "active"
  /\ n' = Zero
  /\ written' = <<>>
  /\ UNCHANGED actchain

\* What a stop leaves of a chain that the next start may still see; the records
\* are freed or set anew before anything reads them.
Remainder(ch) ==
  [NewChain EXCEPT !.everyCnt = ch.everyCnt, !.outIdx = ch.outIdx, !.mem = ch.mem]

\* realloc fails for chain f: the chains before it are cleaned up
StartFails ==
  /\ AllocFails
  /\ blockState = "inactive"
  /\ \E lists \in [Chains -> TriggeeLists], m \in Modes, s \in Skips, f \in Chains :
       LET conf(c) == [triggees |-> lists[c], mode |-> m, skip |-> s] IN
       /\ m >= PerBlock
       /\ chain' = [c \in Chains |->
            IF c < f THEN Remainder(Cleanup(Configure(chain[c], conf(c))))
            ELSE IF c = f THEN Remainder(ConfigureFailed(chain[c], conf(c)))
            ELSE chain[c]]
  /\ UNCHANGED <<blockState, actchain, historyVars, written>>

\* trig_step: read the active chain and trigger it.  The triggees in off are
\* not ACTIVE: ubx_cblock_step refuses, the other triggees go on.  The
\* statistics are output if the interval since the last output has passed.
StepBlock ==
  /\ blockState = "active"
  /\ \E c \in Chains :
       LET ch == chain[c] IN
       /\ FoldFunction(+, 0, n) < MaxTriggers
       /\ actchain' = c
       /\ n' = [n EXCEPT ![c] = @ + 1]
       /\ \E off \in SUBSET Due(ch) :
            /\ stepped' = [stepped EXCEPT ![c] = [i \in DOMAIN @ |->
                 IF i \in Due(ch) \ off /\ ch.triggees[i].steps > 0
                 THEN @[i] + ch.triggees[i].steps ELSE @[i]]]
            /\ missed' = [missed EXCEPT ![c] = [i \in DOMAIN @ |->
                 IF i \in off THEN @[i] + 1 ELSE @[i]]]
       /\ \/ /\ chain' = [chain EXCEPT ![c] = Triggered(ch)]
             /\ outs' = outs
          \/ /\ Measures(ch)
             /\ chain' = [chain EXCEPT ![c] = [Triggered(ch) EXCEPT !.outIdx = NextOutput(ch)]]
             /\ outs' = [outs EXCEPT ![c][OutputRecord(ch)] = @ + 1]
  /\ UNCHANGED <<blockState, skipped, written>>

\* common_write_stats: the loop over the chains passes the first one each time
Written ==
  IF chain[0].mode \in {Global, PerBlock}
  THEN [i \in 1 .. NumChains |-> 0] ELSE <<>>

\* trig_stop: write and free the statistics
StopBlock ==
  /\ blockState = "active"
  /\ written' = Written
  /\ chain' = [c \in Chains |-> Remainder(Cleanup(chain[c]))]
  /\ blockState' = "inactive"
  /\ n' = Zero /\ skipped' = 0
  /\ stepped' = None /\ missed' = None /\ outs' = None
  /\ UNCHANGED actchain

CleanupBlock ==
  /\ blockState = "inactive"
  /\ blockState' = "preinit"
  /\ UNCHANGED <<chain, actchain, historyVars, written>>

Next == InitBlock \/ StartBlock \/ StartFails \/ StepBlock \/ StopBlock \/ CleanupBlock

Spec == Init /\ [][Next]_vars

-----------------------------------------------------------------------------
(* Properties.                                                              *)

\* how many of the triggers from the first-th on have a number divisible by e
Multiples(first, last, e) == Cardinality({k \in first .. last - 1 : k % e = 0})

\* A triggee has made num_steps steps at every every-th trigger of its chain at
\* which it was ACTIVE, and none else, however often the trigger switches
\* between its chains and other triggees refuse to step.
StepsDelivered ==
  blockState = "active" =>
    \A c \in Chains : chain[c].mode \in Disabled .. PerBlock =>
      \A i \in DOMAIN chain[c].triggees :
        LET t == chain[c].triggees[i] IN
        stepped[c][i] = (IF t.steps > 0 THEN t.steps ELSE 0)
                          * (Multiples(0, n[c], t.every) - missed[c][i])

\* The statistics count the triggers after the first tstats_skip_first: all of
\* them for the chain, the ones the divisor lets through for a block.
StatsCountTriggers ==
  blockState = "active" =>
    \A c \in Chains :
      /\ chain[c].mode \in {Global, PerBlock} =>
           chain[c].glob = IF n[c] > skipped THEN n[c] - skipped ELSE 0
      /\ chain[c].mode = PerBlock =>
           \A i \in DOMAIN chain[c].triggees :
             chain[c].blk[i] = Multiples(skipped, n[c], chain[c].triggees[i].every)

\* The throttled output is fair to the records of a chain: none has been output
\* twice more than another.
OutputRotates ==
  blockState = "active" =>
    \A c \in Chains : chain[c].mode = PerBlock =>
      \A i, j \in DOMAIN outs[c] : outs[c][i] <= outs[c][j] + 1

\* A chain that may be triggered with per block statistics has a buffer for
\* them, and an inactive block holds none.
BufferWhileActive ==
  \A c \in Chains :
    /\ blockState = "active" /\ chain[c].mode = PerBlock => chain[c].mem = "live"
    /\ blockState # "active" => chain[c].mem # "live"

\* "only trigger this block every 'every'th time" (triggee.h)
EveryNthTime ==
  [][\A c \in Chains :
       blockState = "active" /\ blockState' = "active" =>
         \A i \in DOMAIN stepped[c] :
           stepped'[c][i] # stepped[c][i] => n[c] % chain[c].triggees[i].every = 0]_vars

\* "It is OK to re-run this function multiple times (e.g. in start), as it will
\* resize existing buffers appropriately" (trig_utils.h): the buffer a start
\* resizes exists or was never allocated.
RestartResizes ==
  [][StartBlock => \A c \in Chains :
       chain'[c].mode >= PerBlock => chain[c].mem # "freed"]_vars

\* "write the stats of each chain" (common.c)
EachChainWritten ==
  [][StopBlock => \A c \in Chains : chain[c].mode # Disabled =>
       \E i \in DOMAIN written' : written'[i] = c]_vars

=============================================================================
