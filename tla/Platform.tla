------------------------------ MODULE Platform ------------------------------
(***************************************************************************)
(* The control loop of the tutorial: platform_2dof integrates a desired    *)
(* velocity over the time that has passed, platform_2dof_control computes  *)
(* the velocity from the measured position.  Two buffers of one element    *)
(* connect them.  One of the two joints is modelled.  Time is counted in   *)
(* nanoseconds, velocities, their limit and the gain in 1/Scale per        *)
(* nanosecond, so that a gain is any fraction.  The way of one step is     *)
(* cut off to a whole number, where a double rounds its last digit.        *)
(***************************************************************************)
EXTENDS Life

CONSTANTS
  Settings,  \* bound: values of initial, limit, gain and target
  Garbage,   \* bound: what an uninitialised double may hold
  NaN,
  Scale,     \* the fractions that gains, velocities and limits are counted in
  MaxTime    \* bound: the last nanosecond of the clock

Blocks == {"plat", "control"}

ASSUME PlatformAssumption ==
  /\ Settings \subseteq [initial : Int, limit : Nat, gain : Nat, target : Int]
  /\ Garbage \subseteq Int \cup {NaN} /\ NaN \notin Int
  /\ Scale \in Nat \ {0} /\ MaxTime \in Nat

\* state is that of both blocks, inf the one of plat, and out are the buffers.
\* The history: how long plat was active since it last read the clock, whether
\* a step of plat came late and whether control had no position.
PlatformCreate ==
  /\ kind = "platform" /\ state = [b \in Blocks |-> "preinit"]
  /\ cfg \in Settings
  /\ inf = Unset /\ now = Zero
  /\ out = [pos |-> NoData, vel |-> NoData]
  /\ seen = [active |-> 0, late |-> FALSE, blind |-> FALSE]

MoveTo(b, from, to) ==
  /\ kind = "platform" /\ state[b] = from
  /\ state' = [state EXCEPT ![b] = to]
  /\ UNCHANGED <<kind, cfg, out, now>>

PlatInit ==
  /\ MoveTo("plat", "preinit", "inactive")
  /\ inf' = [pos |-> cfg.initial, last_time |-> Zero]
  /\ UNCHANGED seen

\* Slip: the time while the block was stopped is integrated
PlatStartLate ==
  /\ MoveTo("plat", "inactive", "active")
  /\ inf' = [inf EXCEPT !.last_time = IF @ = Zero THEN now ELSE @]
  /\ seen' = [seen EXCEPT !.active = 0]

PlatStart ==
  /\ MoveTo("plat", "inactive", "active")
  /\ inf' = [inf EXCEPT !.last_time = now]
  /\ seen' = [seen EXCEPT !.active = 0]

PlatStop    == MoveTo("plat", "active", "inactive") /\ UNCHANGED <<inf, seen>>
PlatCleanup == MoveTo("plat", "inactive", "preinit") /\ inf' = Unset /\ UNCHANGED seen

\* fabs and sign make no case of NaN
Limited(v) ==
  IF v = NaN THEN NaN
  ELSE IF v > cfg.limit THEN cfg.limit
  ELSE IF v < -cfg.limit THEN -cfg.limit
  ELSE v

Plus(x, v, t) == IF NaN \in {x, v} THEN NaN ELSE x + Quotient(v * t, Scale)

\* the velocity is taken out of the buffer; without one the platform stands
PlatStep ==
  /\ kind = "platform" /\ state["plat"] = "active"
  /\ LET passed == ts_to_ns(ts_sub(now, inf.last_time))
         v      == IF out.vel = NoData THEN 0 ELSE Limited(out.vel)
     IN  /\ inf' = [pos |-> Plus(inf.pos, v, passed), last_time |-> now]
         /\ out' = [pos |-> inf'.pos, vel |-> NoData]
         /\ seen' = [seen EXCEPT !.active = 0, !.late = @ \/ cfg.gain * passed > Scale]
  /\ UNCHANGED <<kind, state, cfg, now>>

\* Init, start, stop and cleanup of control leave nothing behind.
ControlMoves ==
  /\ \/ MoveTo("control", "preinit", "inactive") \/ MoveTo("control", "inactive", "active")
     \/ MoveTo("control", "active", "inactive")  \/ MoveTo("control", "inactive", "preinit")
  /\ UNCHANGED <<inf, seen>>

\* Slip: the error has the wrong sign
ErrorReversed(x) == IF x = NaN THEN NaN ELSE (x - cfg.target) * cfg.gain

Error(x) == IF x = NaN THEN NaN ELSE (cfg.target - x) * cfg.gain

\* without a position the velocity is written as it is on the stack
ControlStep ==
  /\ kind = "platform" /\ state["control"] = "active"
  /\ IF out.pos = NoData
     THEN /\ \E g \in Garbage : out' = [out EXCEPT !.vel = g]
          /\ seen' = [seen EXCEPT !.blind = TRUE]
     ELSE out' = [pos |-> NoData, vel |-> Error(out.pos)] /\ UNCHANGED seen
  /\ UNCHANGED <<kind, state, cfg, inf, now>>

Tick ==
  /\ kind = "platform" /\ ts_to_ns(now) < MaxTime
  /\ now' = ts_add(now, [sec |-> 0, nsec |-> 1])
  /\ seen' = [seen EXCEPT !.active = IF state["plat"] = "active" THEN @ + 1 ELSE 0]
  /\ UNCHANGED <<kind, state, cfg, inf, out>>

PlatformNext ==
  \/ PlatInit \/ PlatStart \/ PlatStep \/ PlatStop \/ PlatCleanup
  \/ ControlMoves \/ ControlStep \/ Tick

\* The platform moves at most with the limit, for the time for which it was
\* started since the last step: whatever velocity it is given, and however long
\* it was stopped in between (platform_2dof_start, platform_2dof_step).
SpeedLimited ==
  [][ PlatStep /\ NaN \notin {inf.pos, inf'.pos} =>
        /\ Scale * (inf'.pos - inf.pos) <= cfg.limit * seen.active
        /\ Scale * (inf.pos - inf'.pos) <= cfg.limit * seen.active ]_vars

\* The loop does not overshoot: the position stays between the initial one and
\* the target as long as no step of plat comes later than 1/gain after the one
\* before and control always finds a position, whatever is stopped, started or
\* initialised again in between (platform_2dof_control_step).
NoOvershoot ==
  kind = "platform" /\ inf # Unset /\ ~seen.late /\ ~seen.blind =>
    \/ cfg.initial <= inf.pos /\ inf.pos <= cfg.target
    \/ cfg.target <= inf.pos /\ inf.pos <= cfg.initial
=============================================================================
