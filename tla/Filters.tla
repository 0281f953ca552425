------------------------------ MODULE Filters -------------------------------
(***************************************************************************)
(* The blocks that compute outputs from their inputs: ubx/pid, the example *)
(* ubx/threshold, the saturation and the math block.  A sample is read     *)
(* from each input in every step, and none, one of a wrong length or an    *)
(* error may come instead.  The functions of the math block are one here.  *)
(***************************************************************************)
EXTENDS Life, SequencesExt, Functions

CONSTANTS
  Func(_),   \* the function of the math block
  MaxErrors  \* bound: samples a pid block has used since it was initialised

ASSUME FiltersAssumption ==
  /\ \A v \in Values : Func(v) \in Int
  /\ MaxErrors \in Nat

-----------------------------------------------------------------------------
(* ubx/pid.  inf.kp, ki and kd are whether the pointers to the gains were   *)
(* set; the gains are read through them in every step.                      *)

Gains == {"kp", "ki", "kd"}

PidCreate ==
  /\ Created("pid", [g \in Gains |-> Unset])
  /\ out = NoData /\ seen = <<>>

PidInit ==
  /\ kind = "pid"
  /\ \/ /\ \A g \in Gains : cfg[g] # BadLen
        /\ InitOk([gain |-> [g \in Gains |-> Set(g)], err |-> 0, err_prev |-> 0,
                   integ |-> 0, has_err_prev |-> FALSE])
        /\ out' = NoData /\ seen' = <<>>
     \/ (\E g \in Gains : cfg[g] = BadLen) /\ InitFails

PidStart == kind = "pid" /\ StartOk(inf) /\ UNCHANGED seen

Part(g, x) == IF inf.gain[g] THEN cfg[g] * x ELSE 0

\* Slip: the pointers are not swapped
UsedUnswapped(e) ==
  /\ inf' = [inf EXCEPT !.err = e, !.has_err_prev = TRUE,
                        !.integ = IF inf.gain.ki THEN @ + e ELSE @]
  /\ out' = Part("kp", e) + Part("ki", inf'.integ)
              + (IF inf.has_err_prev THEN Part("kd", e - inf.err_prev) ELSE 0)

\* the error e = des - msr is computed into err, which becomes err_prev
Used(e) ==
  /\ inf' = [inf EXCEPT !.err = inf.err_prev, !.err_prev = e, !.has_err_prev = TRUE,
                        !.integ = IF inf.gain.ki THEN @ + e ELSE @]
  /\ out' = Part("kp", e) + Part("ki", inf'.integ)
              + (IF inf.has_err_prev THEN Part("kd", e - inf.err_prev) ELSE 0)

\* both inputs are read, then a sample that cannot be used ends the step
PidStep(msr, des) ==
  /\ kind = "pid" /\ Stepping
  /\ IF {msr, des} \subseteq Values
     THEN /\ Len(seen) < MaxErrors
          /\ Used(des - msr) /\ seen' = Append(seen, des - msr)
     ELSE UNCHANGED <<inf, out, seen>>

PidNext ==
  \/ PidInit \/ PidStart
  \/ \E msr, des \in Samples : PidStep(msr, des)
  \/ kind = "pid" /\ (Stop \/ Cleanup \/ ConfigureAny)

Total(s) == FoldFunction(LAMBDA x, y : x + y, 0, s)

\* The output is that of a discrete PID controller over the errors it has used
\* since it was initialised: the gains as they are now, if they had a value in
\* init, weigh the last error, the sum of all and the last difference.  Steps
\* without usable samples, stops and starts leave no trace (pid_step).
PidFormula ==
  [][ \A msr, des \in Values : PidStep(msr, des) =>
        LET e == des - msr IN
        out' = Part("kp", e) + Part("ki", e + Total(seen))
                 + (IF seen = <<>> THEN 0 ELSE Part("kd", e - Last(seen))) ]_vars

-----------------------------------------------------------------------------
(* ubx/threshold.  out.event is the direction of the last event; the time   *)
(* stamp is left out.  seen are the last two directions.                    *)

ThresholdCreate ==
  /\ Created("threshold", [threshold |-> Unset])
  /\ out = [state |-> NoData, event |-> NoData] /\ seen = <<NoData, NoData>>

\* the lengths are checked before the hook runs: min and max are 1
ThresholdInit ==
  /\ kind = "threshold"
  /\ \/ /\ Set("threshold") /\ InitOk([state |-> 0])
        /\ out' = [state |-> NoData, event |-> NoData] /\ seen' = <<NoData, NoData>>
     \/ ~Set("threshold") /\ InitFails

\* Slip: a start hook resets the state
ThresholdStartReset == kind = "threshold" /\ StartOk([state |-> 0]) /\ UNCHANGED seen

ThresholdStart == kind = "threshold" /\ StartOk(inf) /\ UNCHANGED seen

ThresholdStep(v) ==
  /\ kind = "threshold" /\ Stepping
  /\ IF v \in Values
     THEN LET s == IF v > cfg.threshold THEN 1 ELSE 0
          IN  /\ inf' = [state |-> s]
              /\ out' = [state |-> s, event |-> IF s = inf.state THEN out.event ELSE s]
              /\ seen' = IF s = inf.state THEN seen ELSE <<seen[2], s>>
     ELSE UNCHANGED <<inf, out, seen>>

ThresholdNext ==
  \/ ThresholdInit \/ ThresholdStart
  \/ \E v \in Samples \ {BadLen} : ThresholdStep(v)
  \/ kind = "threshold" /\ (Stop \/ Cleanup \/ ConfigureAny)

\* A reader of port event sees rising and falling in turn, beginning with
\* rising, and port state agrees with the last event, whatever is done to the
\* threshold and to the block from one initialisation to the next (thres_step).
ThresholdAlternates ==
  kind = "threshold" =>
    /\ seen[1] # seen[2] \/ seen = <<NoData, NoData>>
    /\ seen[1] = NoData => seen[2] \in {NoData, 1}
    /\ out.event = seen[2]
    /\ out.state = 1 <=> out.event = 1

-----------------------------------------------------------------------------
(* The saturation block: both limits must have the length of the data.      *)

SatCreate ==
  /\ Created("sat", [lower |-> Unset, upper |-> Unset])
  /\ out = NoData /\ seen = Unset

SatInit ==
  /\ kind = "sat"
  /\ \/ Set("lower") /\ Set("upper") /\ InitOk([val |-> 0]) /\ UNCHANGED <<out, seen>>
     \/ ~(Set("lower") /\ Set("upper")) /\ InitFails

SatStart == kind = "sat" /\ StartOk(inf) /\ UNCHANGED seen

Saturated(v) ==
  LET w == IF v > cfg.upper THEN cfg.upper ELSE v
  IN  IF w < cfg.lower THEN cfg.lower ELSE w

SatStep(v) ==
  /\ kind = "sat" /\ Stepping /\ UNCHANGED seen
  /\ IF v \in Values
     THEN inf' = [val |-> Saturated(v)] /\ out' = Saturated(v)
     ELSE UNCHANGED <<inf, out>>

SatNext ==
  \/ SatInit \/ SatStart
  \/ \E v \in Samples : SatStep(v)
  \/ kind = "sat" /\ (Stop \/ Cleanup \/ ConfigureAny)

-----------------------------------------------------------------------------
(* The math block: y = mul * func(x) + add, where mul and add are optional. *)

MathCreate ==
  /\ \E f \in {"known", "unknown"} :
       Created("math", [func |-> f, mul |-> Unset, add |-> Unset])
  /\ out = NoData /\ seen = Unset

\* an unknown function is reported after the lengths were checked
MathInit ==
  /\ kind = "math"
  /\ \/ /\ cfg.func = "known" /\ BadLen \notin {cfg.mul, cfg.add}
        /\ InitOk([mul |-> Set("mul"), add |-> Set("add")]) /\ UNCHANGED <<out, seen>>
     \/ (cfg.func = "unknown" \/ BadLen \in {cfg.mul, cfg.add}) /\ InitFails

MathStart == kind = "math" /\ StartOk(inf) /\ UNCHANGED seen

MathStep(x) ==
  /\ kind = "math" /\ Stepping /\ UNCHANGED <<inf, seen>>
  /\ IF x \in Values
     THEN out' = (IF inf.mul THEN cfg.mul ELSE 1) * Func(x) + (IF inf.add THEN cfg.add ELSE 0)
     ELSE UNCHANGED out

MathNext ==
  \/ MathInit \/ MathStart
  \/ \E x \in Samples : MathStep(x)
  \/ /\ kind = "math"
     /\ \/ Stop \/ Cleanup
        \/ \E c \in {"mul", "add"}, v \in Values \cup {Unset, BadLen} : Configure(c, v)
=============================================================================
