------------------------------ MODULE Sources -------------------------------
(***************************************************************************)
(* The blocks that only produce values: ubx/ramp, ubx/cconst and the       *)
(* example ubx/random.                                                     *)
(***************************************************************************)
EXTENDS Life

CONSTANTS
  Width,    \* bits of the type of a ramp of unsigned integers
  RandMax   \* RAND_MAX, the largest value of random()

ASSUME SourcesAssumption == {Width, RandMax} \subseteq Nat

-----------------------------------------------------------------------------
(* ubx/ramp.  inf.start is whether the pointer to config start was set.     *)

RampCreate ==
  /\ Created("ramp", [start |-> Unset, slope |-> Unset])
  /\ out = NoData /\ seen = [from |-> NoData, by |-> 0]

RampInit ==
  /\ kind = "ramp"
  /\ \/ /\ cfg.start # BadLen /\ Set("slope")
        /\ InitOk([cur |-> 0, start |-> Set("start")])
        /\ out' = NoData /\ seen' = [from |-> NoData, by |-> 0]
     \/ (cfg.start = BadLen \/ ~Set("slope")) /\ InitFails

\* Slip: a restart without start config goes back to the default
RampRestart == IF inf.start THEN cfg.start % 2^Width ELSE 0

\* a ramp without start config goes on where it was
RampResume == IF inf.start THEN cfg.start % 2^Width ELSE inf.cur

RampStart ==
  /\ kind = "ramp"
  /\ StartOk([inf EXCEPT !.cur = RampResume])
  /\ seen' = IF inf.start THEN [from |-> cfg.start, by |-> 0] ELSE seen

RampStep ==
  /\ kind = "ramp" /\ Stepping
  /\ out' = inf.cur
  /\ inf' = [inf EXCEPT !.cur = (@ + cfg.slope) % 2^Width]
  /\ seen' = [from |-> out', by |-> cfg.slope]

RampNext ==
  \/ RampInit \/ RampStart \/ RampStep
  \/ kind = "ramp" /\ (Stop \/ Cleanup \/ ConfigureAny)

\* The ramp is continuous: a value differs from the one before by the slope
\* that was in force then, modulo the width of the type, also over a stop and a
\* start, whatever is configured in between; only a block that had a start
\* value when it was initialised begins there again (ramp_start, ramp_step).
RampClimbs ==
  [][ RampStep /\ seen.from # NoData
        => out' = (seen.from + seen.by) % 2^Width ]_vars

-----------------------------------------------------------------------------
(* ubx/cconst.  Init adds its config value and its port, which are kept     *)
(* here with the private data; only the lengths of both matter.             *)

Lengths == {1, 2}

ConstCreate ==
  /\ \E t \in {Unset, "unknown", "known"}, n \in {Unset} \cup Lengths :
       Created("const", [type_name |-> t, data_len |-> n])
  /\ out = NoData /\ seen = Unset

ConstInit ==
  /\ kind = "const"
  /\ \/ /\ cfg.type_name = "known"
        /\ LET len == IF cfg.data_len = Unset THEN 1 ELSE cfg.data_len
           IN  InitOk([data_len |-> len, port |-> len, value |-> 0])
        /\ UNCHANGED <<out, seen>>
     \/ cfg.type_name # "known" /\ InitFails

\* the script sets config value, also while the block is running
ConstConfigure ==
  /\ kind = "const" /\ state # "preinit"
  /\ \E n \in Lengths : inf' = [inf EXCEPT !.value = n]
  /\ UNCHANGED <<kind, state, cfg, out, now, seen>>

\* refused while the length of the value is not data_len
ConstStart ==
  /\ kind = "const" /\ state = "inactive"
  /\ inf.value = inf.data_len
  /\ StartOk(inf) /\ UNCHANGED seen

\* __port_write of the config as it is now
ConstStep ==
  /\ kind = "const" /\ Stepping
  /\ out' = inf.value
  /\ UNCHANGED <<inf, seen>>

ConstNext ==
  \/ ConstInit \/ ConstConfigure \/ ConstStart \/ ConstStep
  \/ kind = "const" /\ (Stop \/ Cleanup)

-----------------------------------------------------------------------------
(* ubx/random, with the limits of a struct random_config.  INT_MAX, the     *)
(* default, is RAND_MAX; random() returns any number up to it.              *)

RandomCreate ==
  /\ \E l \in {Unset} \cup (0 .. RandMax) \X (0 .. RandMax) : Created("random", [limits |-> l])
  /\ out = NoData /\ seen = Unset

RandomInit == kind = "random" /\ InitOk([min |-> 0, max |-> 0]) /\ UNCHANGED <<out, seen>>

\* the limits are copied, whatever is configured later
RandomStart ==
  /\ kind = "random"
  /\ LET limits == IF cfg.limits = Unset THEN <<0, RandMax>> ELSE cfg.limits
     IN  StartOk([min |-> limits[1], max |-> limits[2]])
  /\ UNCHANGED seen

Folded(r, min, max) ==
  LET v == IF r > max THEN r % max ELSE r
  IN  IF v < min THEN (min + v) % max ELSE v

\* with max 0 the step divides by zero, unless both random() and min are 0
RandomStep ==
  /\ kind = "random" /\ state = "active"
  /\ \E r \in 0 .. RandMax :
       IF inf.max = 0 /\ (r > 0 \/ inf.min > 0)
       THEN state' = "crashed" /\ UNCHANGED out
       ELSE out' = Folded(r, inf.min, inf.max) /\ UNCHANGED state
  /\ UNCHANGED <<kind, cfg, inf, now, seen>>

RandomNext ==
  \/ RandomInit \/ RandomStart \/ RandomStep
  \/ kind = "random" /\ (Stop \/ Cleanup)

\* A random number is at most max, and at least min if min is at most half of
\* max: above that the second remainder may wrap below min again (rnd_step).
RandomInRange ==
  [][ RandomStep /\ state' # "crashed" =>
        /\ out' <= inf.max
        /\ 2 * inf.min <= inf.max => out' >= inf.min ]_vars

=============================================================================
