------------------------------- MODULE Chain -------------------------------
(***************************************************************************)
(* struct ubx_chain of libubx/trig_utils: a list of blocks to trigger with *)
(* divisors and step counts, and the counters of its statistics.  Times    *)
(* are left out: a statistics record is the number of its measurements.    *)
(***************************************************************************)
EXTENDS Integers, Sequences

CONSTANT W   \* the number of values of an unsigned int, 2^32 in the code

ASSUME ChainAssumption == W \in Nat \ {0}

Disabled == 0
Global   == 1
PerBlock == 2

\* 0 and 1 mean 1; -1 steps disables the block
Defaulted(t) ==
  [t EXCEPT !.every = IF @ = 0 THEN 1 ELSE @, !.steps = IF @ = 0 THEN 1 ELSE @]

\* the zeroed structure common_init_chains makes
NewChain ==
  [triggees |-> <<>>, mode |-> Disabled, skip |-> 0, everyCnt |-> 0,
   glob |-> 0, blk |-> <<>>, outIdx |-> 0, mem |-> "null"]

-----------------------------------------------------------------------------
(* Slips, as in module Ptrig.                                               *)

\* every_cnt survives a restart
ConfigureKeepCount(ch, conf) ==
  [ch EXCEPT !.triggees = [i \in DOMAIN conf.triggees |-> Defaulted(conf.triggees[i])],
             !.mode = conf.mode, !.skip = conf.skip % W,
             !.glob = 0, !.outIdx = 0,
             !.blk = IF conf.mode >= PerBlock THEN [i \in DOMAIN conf.triggees |-> 0] ELSE @,
             !.mem = IF conf.mode >= PerBlock THEN "live" ELSE @]

\* the first steps are measured, too
MeasuresAlways(ch) == ch.mode \in {Global, PerBlock}

-----------------------------------------------------------------------------
\* ubx_chain_init after common_config_chains has set the public fields.  It
\* sizes the buffer of the per block records with realloc; a buffer of an
\* earlier start stays allocated when the mode no longer needs it.
Configure(ch, conf) ==
  [ch EXCEPT !.triggees = [i \in DOMAIN conf.triggees |-> Defaulted(conf.triggees[i])],
             !.mode = conf.mode, !.skip = conf.skip % W, !.everyCnt = 0,
             !.glob = 0, !.outIdx = 0,
             !.blk = IF conf.mode >= PerBlock THEN [i \in DOMAIN conf.triggees |-> 0] ELSE @,
             !.mem = IF conf.mode >= PerBlock THEN "live" ELSE @]

\* the same when realloc fails
ConfigureFailed(ch, conf) ==
  [ch EXCEPT !.triggees = conf.triggees, !.mode = conf.mode, !.skip = conf.skip % W,
             !.glob = 0, !.outIdx = 0, !.mem = "null"]

\* ubx_chain_cleanup: the pointer keeps its value
Cleanup(ch) == [ch EXCEPT !.mem = IF @ = "null" THEN "null" ELSE "freed"]

\* a trigger measures unless it is one of the first tstats_skip_first
Measures(ch) == ch.skip = 0 /\ ch.mode \in {Global, PerBlock}

\* an unknown mode triggers nothing, once the first steps are skipped
Steps(ch) == ch.skip > 0 \/ ch.mode \in {Disabled, Global, PerBlock}

\* the triggees that are not passed over because of their divisor
Due(ch) ==
  {i \in DOMAIN ch.triggees : Steps(ch) /\ ch.everyCnt % ch.triggees[i].every = 0}

\* ubx_chain_trigger
Triggered(ch) ==
  [ch EXCEPT !.skip = IF @ > 0 THEN @ - 1 ELSE 0,
             !.everyCnt = (@ + 1) % W,
             !.glob = IF Measures(ch) THEN @ + 1 ELSE @,
             !.blk = IF Measures(ch) /\ ch.mode = PerBlock
                     THEN [i \in DOMAIN @ |-> IF i \in Due(ch) THEN @[i] + 1 ELSE @[i]]
                     ELSE @]

\* tstats_output_throttled: the record it writes next (0 is the first block,
\* the record of the whole chain comes last) and the record after it
WholeChain(ch)  == Len(ch.triggees)
OutputRecord(ch) == IF ch.mode = PerBlock THEN ch.outIdx ELSE WholeChain(ch)
NextOutput(ch) ==
  IF ch.mode = PerBlock THEN (ch.outIdx + 1) % (Len(ch.triggees) + 1) ELSE ch.outIdx

=============================================================================
