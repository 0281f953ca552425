------------------------------ MODULE MCBlocks ------------------------------
(* One block of each type with every order of the calls to it, the control    *)
(* loop of the tutorial, and two blocks that share a typed port accessor.     *)
EXTENDS Sources, Filters, LuaBlock, SimpleFifo, Platform, Accessors

CONSTANTS t1, t2

\* the math functions fabs and round, on integers
MCFunc(v) == IF v < 0 THEN -v ELSE v

MCValues == {-1, 2}

\* gain * time is 1/2 and 1, or 1/4, 1/2, 3/4 and 1, unless a step is late
MCSettings == { [initial |-> 0, limit |-> 6, gain |-> 2, target |-> 4],
                [initial |-> 1, limit |-> 8, gain |-> 1, target |-> -5] }
MCGarbage  == {-9, 9, NaN}

AccessorCreate ==
  /\ kind = "accessor" /\ state = Unset /\ cfg = Unset /\ inf = Unset
  /\ out = NoData /\ seen = Unset /\ now = Zero

Init ==
  /\ AccInit
  /\ \/ RampCreate \/ ConstCreate \/ RandomCreate
     \/ PidCreate \/ ThresholdCreate \/ SatCreate \/ MathCreate
     \/ LuaCreate \/ FifoCreate
     \/ PlatformCreate
     \/ AccessorCreate

BlockNext ==
  \/ RampNext \/ ConstNext \/ RandomNext
  \/ PidNext \/ ThresholdNext \/ SatNext \/ MathNext
  \/ LuaNext \/ FifoNext
  \/ PlatformNext

Next ==
  \/ BlockNext /\ UNCHANGED accVars
  \/ kind = "accessor" /\ AccNext /\ UNCHANGED vars

Spec == Init /\ [][Next]_<<vars, accVars>>

\* ubx_time.c agrees with the arithmetic of nanoseconds
Times == {t \in [sec : -2 .. 2, nsec : -NsecPerSec + 1 .. NsecPerSec - 1] : Normal(t)}

ASSUME \A a, b \in Times :
  /\ ts_to_ns(ts_add(a, b)) = ts_to_ns(a) + ts_to_ns(b)
  /\ ts_to_ns(ts_sub(a, b)) = ts_to_ns(a) - ts_to_ns(b)
  /\ Normal(ts_add(a, b)) /\ Normal(ts_sub(a, b))
  /\ ts_cmp(a, b) = 1 <=> ts_to_ns(a) > ts_to_ns(b)
  /\ ts_cmp(a, b) = 0 <=> ts_to_ns(a) = ts_to_ns(b)
  /\ \A d \in 1 .. 3 : ts_to_ns(ts_div(a, d)) = Quotient(ts_to_ns(a), d)
=============================================================================
