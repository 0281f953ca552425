---------------------------- MODULE Blocks_proofs ----------------------------
(***************************************************************************)
(* The computation blocks, for every value of the constants: any numbers   *)
(* as samples and configs, any width of a ramp, any stack of a Lua state,  *)
(* any settings of the control loop, any number of threads.                *)
(*                                                                         *)
(* - The time arithmetic computes with nanoseconds exactly.                *)
(* - The promises of the threshold, ramp, random and Lua blocks, each over *)
(*   one block of the type and every order of the calls to it.             *)
(* - The simple fifo keeps to its buffer.                                  *)
(* - The control loop keeps the speed limit and does not overshoot.        *)
(* - A call of a typed port accessor is judged as if it were alone.        *)
(***************************************************************************)
EXTENDS Sources, Filters, LuaBlock, SimpleFifo, Platform, Accessors, TLAPS

-----------------------------------------------------------------------------
(* ubx_time.c.                                                              *)

\* What \div leaves of a dividend that is not negative.
LEMMA Division ==
  ASSUME NEW a \in Nat, NEW b \in Nat \ {0}
  PROVE  /\ a \div b \in Nat
         /\ 0 <= a - b * (a \div b) /\ a - b * (a \div b) < b
<1>1. a \div b \in Nat
  OBVIOUS
<1>2. a = b * (a \div b) + (a % b) /\ a % b \in 0 .. b - 1
  OBVIOUS
<1> QED
  BY <1>1, <1>2

\* The quotient and the remainder of C: the remainder is smaller than the divisor
\* and has the sign of the dividend.
LEMMA Dividing ==
  ASSUME NEW a \in Int, NEW b \in Nat \ {0}
  PROVE  /\ Quotient(a, b) \in Int /\ Remainder(a, b) \in Int
         /\ a = Quotient(a, b) * b + Remainder(a, b)
         /\ -b < Remainder(a, b) /\ Remainder(a, b) < b
         /\ a >= 0 => Remainder(a, b) >= 0
         /\ a <= 0 => Remainder(a, b) <= 0
<1>1. CASE a >= 0
  <2>1. a \in Nat /\ Quotient(a, b) = a \div b
    BY <1>1 DEF Quotient
  <2> QED
    BY <1>1, <2>1, Division DEF Remainder
<1>2. CASE ~(a >= 0)
  <2>1. -a \in Nat /\ Quotient(a, b) = -((-a) \div b)
    BY <1>2 DEF Quotient
  <2>2. PICK q \in Nat : q = (-a) \div b
    BY <2>1, Division
  <2>3. 0 <= (-a) - b * q /\ (-a) - b * q < b
    BY <2>1, <2>2, Division
  <2>4. Quotient(a, b) = -q /\ Remainder(a, b) = a - b * (-q)
    BY <2>1, <2>2 DEF Remainder
  <2>5. b * (-q) = -(b * q) /\ b * q \in Nat
    OBVIOUS
  <2> QED
    BY <1>2, <2>3, <2>4, <2>5
<1> QED
  BY <1>1, <1>2

\* ts_norm gives any time a normal form, in which the parts have one sign and the
\* nanoseconds make no second, and does not change what time it is.
THEOREM NormKeepsTime ==
  ASSUME NEW t \in Timespecs
  PROVE  /\ ts_norm(t) \in Timespecs /\ Normal(ts_norm(t))
         /\ ts_to_ns(ts_norm(t)) = ts_to_ns(t)
<1> DEFINE N == NsecPerSec
           q == Quotient(t.nsec, N)
           r == Remainder(t.nsec, N)
<1>1. N \in Nat \ {0} /\ t.sec \in Int /\ t.nsec \in Int
  BY TimespecAssumption DEF Timespecs
<1>2. /\ q \in Int /\ r \in Int /\ t.nsec = q * N + r /\ -N < r /\ r < N
  BY <1>1, Dividing
<1>3. Carried(t) = [sec |-> t.sec + q, nsec |-> r]
  BY DEF Carried
<1> HIDE DEF q, r, N
<1>4. PICK s \in Int : s = t.sec + q
  BY <1>1, <1>2
<1>5. s * N + r = t.sec * N + t.nsec
  BY <1>1, <1>2, <1>4
<1>6. Carried(t) = [sec |-> s, nsec |-> r] /\ Carried(t).sec = s /\ Carried(t).nsec = r
  BY <1>3, <1>4
<1>7. CASE s > 0 /\ r < 0
  <2>1. ts_norm(t) = [sec |-> s - 1, nsec |-> r + N]
    BY <1>6, <1>7 DEF ts_norm, N
  <2>2. (s - 1) * N + (r + N) = s * N + r
    BY <1>1, <1>2
  <2>3. /\ s - 1 \in Int /\ r + N \in Int /\ s - 1 >= 0
        /\ -N < r + N /\ r + N < N /\ r + N >= 0
    BY <1>1, <1>2, <1>7
  <2> QED
    BY <1>5, <2>1, <2>2, <2>3 DEF Timespecs, Normal, ts_to_ns, N
<1>8. CASE s < 0 /\ r > 0
  <2>1. ts_norm(t) = [sec |-> s + 1, nsec |-> r - N]
    BY <1>6, <1>8 DEF ts_norm, N
  <2>2. (s + 1) * N + (r - N) = s * N + r
    BY <1>1, <1>2
  <2>3. /\ s + 1 \in Int /\ r - N \in Int /\ s + 1 <= 0
        /\ -N < r - N /\ r - N < N /\ r - N <= 0
    BY <1>1, <1>2, <1>8
  <2> QED
    BY <1>5, <2>1, <2>2, <2>3 DEF Timespecs, Normal, ts_to_ns, N
<1>9. CASE ~(s > 0 /\ r < 0) /\ ~(s < 0 /\ r > 0)
  <2>1. ts_norm(t) = [sec |-> s, nsec |-> r]
    BY <1>6, <1>9 DEF ts_norm, N
  <2>2. (s > 0 => r >= 0) /\ (s < 0 => r <= 0)
    BY <1>1, <1>2, <1>9
  <2> QED
    BY <1>2, <1>5, <2>1, <2>2 DEF Timespecs, Normal, ts_to_ns, N
<1> QED
  BY <1>7, <1>8, <1>9

\* Sums and differences of times, negative ones too, are those of their
\* nanoseconds, and they are in normal form (ubx_ts_add, ubx_ts_sub).
THEOREM TimeArithmetic ==
  ASSUME NEW a \in Timespecs, NEW b \in Timespecs
  PROVE  /\ ts_add(a, b) \in Timespecs /\ Normal(ts_add(a, b))
         /\ ts_to_ns(ts_add(a, b)) = ts_to_ns(a) + ts_to_ns(b)
         /\ ts_sub(a, b) \in Timespecs /\ Normal(ts_sub(a, b))
         /\ ts_to_ns(ts_sub(a, b)) = ts_to_ns(a) - ts_to_ns(b)
<1> DEFINE N == NsecPerSec
<1>1. /\ N \in Int /\ a.sec \in Int /\ a.nsec \in Int /\ b.sec \in Int /\ b.nsec \in Int
  BY TimespecAssumption DEF Timespecs
<1>2. /\ [sec |-> a.sec + b.sec, nsec |-> a.nsec + b.nsec] \in Timespecs
      /\ [sec |-> a.sec - b.sec, nsec |-> a.nsec - b.nsec] \in Timespecs
  BY <1>1 DEF Timespecs
<1>3. /\ (a.sec + b.sec) * N + (a.nsec + b.nsec) = (a.sec * N + a.nsec) + (b.sec * N + b.nsec)
      /\ (a.sec - b.sec) * N + (a.nsec - b.nsec) = (a.sec * N + a.nsec) - (b.sec * N + b.nsec)
  <2> HIDE DEF N
  <2> QED
    BY <1>1
<1>4. /\ ts_to_ns([sec |-> a.sec + b.sec, nsec |-> a.nsec + b.nsec]) = ts_to_ns(a) + ts_to_ns(b)
      /\ ts_to_ns([sec |-> a.sec - b.sec, nsec |-> a.nsec - b.nsec]) = ts_to_ns(a) - ts_to_ns(b)
  BY <1>3 DEF ts_to_ns
<1> QED
  BY <1>2, <1>4, NormKeepsTime DEF ts_add, ts_sub

\* One more second is more than any nanoseconds.
LEMMA SecondsDominate ==
  ASSUME NEW N \in Nat \ {0}, NEW s \in Int, NEW u \in Int, s > u
  PROVE  u * N + N <= s * N
<1>1. (s - u) * N >= N
  BY SMT
<1>2. (s - u) * N = s * N - u * N /\ s * N \in Int /\ u * N \in Int
  BY SMT
<1> QED
  BY <1>1, <1>2

LEMMA LaterIsMore ==
  ASSUME NEW a \in Timespecs, NEW b \in Timespecs, Normal(a), Normal(b), a.sec > b.sec
  PROVE  ts_to_ns(a) > ts_to_ns(b)
<1> DEFINE N == NsecPerSec
<1>1. /\ N \in Nat \ {0} /\ a.sec \in Int /\ a.nsec \in Int /\ b.sec \in Int /\ b.nsec \in Int
  BY TimespecAssumption DEF Timespecs
<1>2. b.sec * N + N <= a.sec * N /\ a.sec * N \in Int /\ b.sec * N \in Int
  BY <1>1, SecondsDominate
<1>3. /\ -N < a.nsec /\ a.nsec < N /\ -N < b.nsec /\ b.nsec < N
      /\ (a.sec > 0 => a.nsec >= 0) /\ (b.sec < 0 => b.nsec <= 0)
  BY DEF Normal
<1> HIDE DEF N
<1>4. CASE a.sec > 0
  BY <1>1, <1>2, <1>3, <1>4 DEF ts_to_ns, N
<1>5. CASE a.sec <= 0
  BY <1>1, <1>2, <1>3, <1>5 DEF ts_to_ns, N
<1> QED
  BY <1>1, <1>4, <1>5

LEMMA SameShift ==
  ASSUME NEW m \in Int, NEW x \in Int, NEW y \in Int
  PROVE  (m + x > m + y <=> x > y) /\ (m + x = m + y <=> x = y) /\ (m + x < m + y <=> x < y)
<1>1. m + x > m + y <=> x > y
  OBVIOUS
<1>2. m + x < m + y <=> x < y
  OBVIOUS
<1>3. m + x = m + y <=> x = y
  OBVIOUS
<1> QED
  BY <1>1, <1>2, <1>3

\* Of times in normal form, ubx_ts_cmp compares the nanoseconds, although it looks
\* at the seconds first.
THEOREM CompareIsOrder ==
  ASSUME NEW a \in Timespecs, NEW b \in Timespecs, Normal(a), Normal(b)
  PROVE  /\ ts_cmp(a, b) = 1 <=> ts_to_ns(a) > ts_to_ns(b)
         /\ ts_cmp(a, b) = 0 <=> ts_to_ns(a) = ts_to_ns(b)
         /\ ts_cmp(a, b) = -1 <=> ts_to_ns(a) < ts_to_ns(b)
<1> DEFINE N == NsecPerSec
<1>1. /\ N \in Int /\ a.sec \in Int /\ a.nsec \in Int /\ b.sec \in Int /\ b.nsec \in Int
  BY TimespecAssumption DEF Timespecs
<1>2. ts_to_ns(a) \in Int /\ ts_to_ns(b) \in Int
  <2> HIDE DEF N
  <2> QED
    BY <1>1 DEF ts_to_ns, N
<1>3. CASE a.sec > b.sec
  <2>1. ts_to_ns(a) > ts_to_ns(b)
    BY <1>3, LaterIsMore
  <2>2. ts_cmp(a, b) = 1
    BY <1>3 DEF ts_cmp
  <2> QED
    BY <1>2, <2>1, <2>2
<1>4. CASE a.sec < b.sec
  <2>1. ts_to_ns(b) > ts_to_ns(a)
    BY <1>1, <1>4, LaterIsMore
  <2>2. ts_cmp(a, b) = -1
    BY <1>1, <1>4 DEF ts_cmp
  <2> QED
    BY <1>2, <2>1, <2>2
<1>5. CASE a.sec = b.sec
  <2>1. PICK m \in Int : m = a.sec * N /\ m = b.sec * N
    BY <1>1, <1>5
  <2>2. ts_to_ns(a) = m + a.nsec /\ ts_to_ns(b) = m + b.nsec
    BY <2>1 DEF ts_to_ns
  <2>3. PICK x \in Int, y \in Int : x = a.nsec /\ y = b.nsec
    BY <1>1
  <2>4. (m + x > m + y <=> x > y) /\ (m + x = m + y <=> x = y) /\ (m + x < m + y <=> x < y)
    <3>1. m \in Int /\ x \in Int /\ y \in Int
      BY <2>1, <2>3
    <3> QED
      BY <3>1, SameShift, Zenon
  <2>5. ts_cmp(a, b) = IF x > y THEN 1 ELSE IF x < y THEN -1 ELSE 0
    BY <1>1, <1>5, <2>3 DEF ts_cmp
  <2>6. /\ ts_cmp(a, b) = 1 <=> x > y
        /\ ts_cmp(a, b) = 0 <=> x = y
        /\ ts_cmp(a, b) = -1 <=> x < y
    <3>1. CASE x > y
      BY <2>3, <2>5, <3>1
    <3>2. CASE x < y
      BY <2>3, <2>5, <3>2
    <3>3. CASE x = y
      BY <2>3, <2>5, <3>3
    <3> QED
      BY <2>3, <3>1, <3>2, <3>3
  <2> QED
    BY <2>2, <2>3, <2>4, <2>6
<1> QED
  BY <1>1, <1>3, <1>4, <1>5

\* ubx_ts_div divides the nanoseconds and drops the fraction.
THEOREM DivisionTruncates ==
  ASSUME NEW t \in Timespecs, NEW d \in Nat \ {0}
  PROVE  /\ ts_div(t, d) \in Timespecs
         /\ ts_to_ns(ts_div(t, d)) = Quotient(ts_to_ns(t), d)
<1>1. NsecPerSec \in Nat \ {0} /\ t.sec \in Int /\ t.nsec \in Int
  BY TimespecAssumption DEF Timespecs
<1>2. ts_to_ns(t) \in Int
  BY <1>1 DEF ts_to_ns
<1>3. PICK ns \in Int : ns = Quotient(ts_to_ns(t), d)
  BY <1>2, Dividing
<1>4. /\ Quotient(ns, NsecPerSec) \in Int /\ Remainder(ns, NsecPerSec) \in Int
      /\ ns = Quotient(ns, NsecPerSec) * NsecPerSec + Remainder(ns, NsecPerSec)
  BY <1>1, Dividing
<1>5. ts_div(t, d) = [sec |-> Quotient(ns, NsecPerSec), nsec |-> Remainder(ns, NsecPerSec)]
  BY <1>3 DEF ts_div
<1> QED
  BY <1>3, <1>4, <1>5 DEF Timespecs, ts_to_ns

-----------------------------------------------------------------------------
(* ubx/threshold.                                                           *)

ThresholdSpec == ThresholdCreate /\ [][ThresholdNext]_vars

\* the pairs of directions that may have been seen last
Turns == {<<NoData, NoData>>, <<NoData, 1>>, <<1, 0>>, <<0, 1>>}

ThresholdInv ==
  /\ kind = "threshold" /\ seen \in Turns
  /\ state # "preinit" => inf = [state |-> IF seen[2] = 1 THEN 1 ELSE 0]
  /\ out.event = seen[2]
  /\ out.state = 1 <=> out.event = 1

\* The pairs that were seen say what the property says.
LEMMA TurnsAreSafe == ThresholdInv => ThresholdAlternates
<1>1. NoData # 0 /\ NoData # 1
  BY LifeAssumption
<1> QED
  BY <1>1 DEF ThresholdInv, Turns, ThresholdAlternates

\* A step changes direction only away from the one that was seen last, because
\* the private state is that direction.
LEMMA Turning ==
  ASSUME ThresholdInv, NEW v, ThresholdStep(v)
  PROVE  ThresholdInv'
<1>1. NoData # 0 /\ NoData # 1
  BY LifeAssumption
<1>2. /\ kind' = "threshold" /\ state' = "active" /\ state = "active"
      /\ inf.state = IF seen[2] = 1 THEN 1 ELSE 0
  BY DEF ThresholdInv, ThresholdStep, Stepping
<1>3. CASE v \in Values
  <2>1. PICK s \in {0, 1} :
          /\ inf' = [state |-> s]
          /\ out' = [state |-> s, event |-> IF s = inf.state THEN out.event ELSE s]
          /\ seen' = IF s = inf.state THEN seen ELSE <<seen[2], s>>
    <3>1. (IF v > cfg.threshold THEN 1 ELSE 0) \in {0, 1}
      OBVIOUS
    <3> QED
      BY <1>3, <3>1 DEF ThresholdStep
  <2>2. CASE s = inf.state
    BY <1>1, <1>2, <2>1, <2>2 DEF ThresholdInv, Turns
  <2>3. CASE s # inf.state
    <3>1. seen' = <<seen[2], s>> /\ out' = [state |-> s, event |-> s]
      BY <2>1, <2>3
    <3>2. (s = 1 /\ seen[2] \in {NoData, 0}) \/ (s = 0 /\ seen[2] = 1)
      BY <1>1, <1>2, <2>1, <2>3 DEF ThresholdInv, Turns
    <3> QED
      BY <1>1, <1>2, <2>1, <3>1, <3>2 DEF ThresholdInv, Turns
  <2> QED
    BY <2>2, <2>3
<1>4. CASE v \notin Values
  BY <1>2, <1>4 DEF ThresholdInv, ThresholdStep
<1> QED
  BY <1>3, <1>4

\* Whatever the samples, the threshold and the calls to the block, rising and
\* falling events alternate, beginning with rising (thres_step).
THEOREM ThresholdAlternatesHolds == ThresholdSpec => []ThresholdAlternates
<1>1. ThresholdCreate => ThresholdInv
  <2>1. NoData # 0 /\ NoData # 1
    BY LifeAssumption
  <2> QED
    BY <2>1 DEF ThresholdCreate, Created, ThresholdInv, Turns
<1>2. ThresholdInv /\ [ThresholdNext]_vars => ThresholdInv'
  <2> SUFFICES ASSUME ThresholdInv, [ThresholdNext]_vars
               PROVE  ThresholdInv'
    OBVIOUS
  <2>0. NoData # 0 /\ NoData # 1
    BY LifeAssumption
  <2>1. CASE ThresholdInit
    BY <2>0, <2>1 DEF ThresholdInit, InitOk, InitFails, ThresholdInv, Turns
  <2>2. CASE ThresholdStart
    BY <2>2 DEF ThresholdStart, StartOk, ThresholdInv, Turns
  <2>3. CASE \E v \in Samples \ {BadLen} : ThresholdStep(v)
    BY <2>3, Turning
  <2>4. CASE Stop
    BY <2>4 DEF Stop, ThresholdInv, Turns
  <2>5. CASE Cleanup
    BY <2>5 DEF Cleanup, ThresholdInv, Turns
  <2>6. CASE ConfigureAny
    BY <2>6 DEF ConfigureAny, Configure, ThresholdInv, Turns
  <2>7. CASE UNCHANGED vars
    BY <2>7 DEF vars, ThresholdInv, Turns
  <2> QED
    BY <2>1, <2>2, <2>3, <2>4, <2>5, <2>6, <2>7 DEF ThresholdNext
<1> QED
  BY <1>1, <1>2, TurnsAreSafe, PTL DEF ThresholdSpec

-----------------------------------------------------------------------------
(* ubx/luablock.                                                            *)

LuaSpec == LuaCreate /\ [][LuaNext]_vars

LuaInv ==
  /\ kind = "lua" /\ seen \in Nat
  /\ state \in {"inactive", "active"} => inf \in Nat /\ inf <= seen

\* With a stack of any size, no more is left on it than errors and the values
\* that exec_str code has returned (call_hook, luablock_step).
THEOREM LuaStackKeptHolds == LuaSpec => []LuaStackKept
<1>1. LuaCreate => LuaInv
  BY DEF LuaCreate, Created, LuaInv
<1>2. LuaInv /\ [LuaNext]_vars => LuaInv'
  <2> SUFFICES ASSUME LuaInv, [LuaNext]_vars
               PROVE  LuaInv'
    OBVIOUS
  <2> USE DEF LuaInv
  <2>1. CASE LuaInit
    BY <2>1 DEF LuaInit, InitOk, InitFails
  <2>2. CASE LuaCleanup
    BY <2>2 DEF LuaCleanup, Cleanup
  <2>3. ASSUME NEW o \in Outcomes, LuaStart(o)
        PROVE  LuaInv'
    BY <2>3 DEF LuaStart, Leave, Left, Outcomes
  <2>4. ASSUME NEW o \in Outcomes, LuaStop(o)
        PROVE  LuaInv'
    BY <2>4 DEF LuaStop, Leave, Left, Outcomes
  <2>5. ASSUME NEW o \in Outcomes, NEW code \in {NoData, Failed} \cup 0 .. 1, LuaStep(code, o)
        PROVE  LuaInv'
    <3> DEFINE failed == code = Failed
               values == IF code \in Nat THEN code ELSE IF failed THEN 1 ELSE 0
               left   == IF failed THEN 0 ELSE Left(o, FALSE)
               errors == IF ~failed /\ o = "error" THEN 1 ELSE 0
    <3>1. values \in Nat /\ left = errors /\ errors \in Nat
      BY LifeAssumption DEF Left
    <3>2. /\ Leave(values + left, "active") /\ seen' = seen + values + errors
          /\ state = "active" /\ kind' = kind
      BY <2>5 DEF LuaStep
    <3> HIDE DEF values, left, errors
    <3> QED
      BY <3>1, <3>2 DEF Leave
  <2>6. CASE UNCHANGED vars
    BY <2>6 DEF vars
  <2> QED
    BY <2>1, <2>2, <2>3, <2>4, <2>5, <2>6 DEF LuaNext
<1>3. LuaInv => LuaStackKept
  BY DEF LuaInv, LuaStackKept
<1> QED
  BY <1>1, <1>2, <1>3, PTL DEF LuaSpec

-----------------------------------------------------------------------------
(* ubx/ramp.                                                                *)

RampSpec == RampCreate /\ [][RampNext]_vars

Settable == Int \cup {Unset, BadLen}

RampInv ==
  /\ kind = "ramp"
  /\ cfg \in [{"start", "slope"} -> Settable]
  /\ state # "preinit" =>
       /\ DOMAIN inf = {"cur", "start"} /\ inf \in [{"cur", "start"} -> {inf.cur, inf.start}]
       /\ inf.start => cfg.start \in Int
       /\ seen.from # NoData => inf.cur = (seen.from + seen.by) % 2^Width

\* For any slopes, start values and widths, and any stops, starts and settings in
\* between, a ramp goes on from its last value with the slope that was in force
\* (ramp_start, ramp_step).
THEOREM RampClimbsHolds == RampSpec => RampClimbs
<1>1. RampCreate => RampInv
  BY DEF RampCreate, Created, RampInv, Settable
<1>2. RampInv /\ [RampNext]_vars => RampInv'
  <2> SUFFICES ASSUME RampInv, [RampNext]_vars
               PROVE  RampInv'
    OBVIOUS
  <2> USE DEF RampInv
  <2>1. CASE RampInit
    <3>1. CASE InitFails
      BY <2>1, <3>1 DEF InitFails, RampInit
    <3>2. CASE InitOk([cur |-> 0, start |-> Set("start")]) /\ seen' = [from |-> NoData, by |-> 0]
      <4>1. /\ kind' = kind /\ cfg' = cfg /\ seen'.from = NoData
            /\ inf' = [cur |-> 0, start |-> Set("start")]
        BY <3>2 DEF InitOk
      <4>2. inf'.start = Set("start") /\ inf'.start = (cfg'.start \in Int)
        BY <4>1 DEF Set
      <4> QED
        BY <4>1, <4>2
    <3> QED
      BY <2>1, <3>1, <3>2 DEF RampInit
  <2>2. CASE RampStart
    <3>1. CASE inf.start
      BY <2>2, <3>1 DEF RampStart, StartOk, RampResume
    <3>2. CASE ~inf.start
      BY <2>2, <3>2 DEF RampStart, StartOk, RampResume
    <3> QED
      BY <3>1, <3>2
  <2>3. CASE RampStep
    BY <2>3 DEF RampStep, Stepping
  <2>4. CASE Stop
    BY <2>4 DEF Stop
  <2>5. CASE Cleanup
    BY <2>5 DEF Cleanup
  <2>6. CASE ConfigureAny
    BY <2>6, LifeAssumption DEF ConfigureAny, Configure, Settable
  <2>7. CASE UNCHANGED vars
    BY <2>7 DEF vars
  <2> QED
    BY <2>1, <2>2, <2>3, <2>4, <2>5, <2>6, <2>7 DEF RampNext
<1>3. RampInv /\ [RampNext]_vars =>
        [ RampStep /\ seen.from # NoData => out' = (seen.from + seen.by) % 2^Width ]_vars
  BY DEF RampInv, RampStep, Stepping
<1> QED
  BY <1>1, <1>2, <1>3, PTL DEF RampSpec, RampClimbs

-----------------------------------------------------------------------------
(* ubx/random.                                                              *)

RandomSpec == RandomCreate /\ [][RandomNext]_vars

Limits == (0 .. RandMax) \X (0 .. RandMax)

RandomInv ==
  /\ kind = "random" /\ cfg \in [{"limits"} -> Limits \cup {Unset}]
  /\ state = "active" => inf.min \in Nat /\ inf.max \in Nat

\* What the two remainders of rnd_step make of a random number.
LEMMA FoldedInRange ==
  ASSUME NEW r \in Nat, NEW min \in Nat, NEW max \in Nat,
         max # 0 \/ (r = 0 /\ min = 0)
  PROVE  /\ Folded(r, min, max) <= max
         /\ 2 * min <= max => Folded(r, min, max) >= min
<1> DEFINE v == IF r > max THEN r % max ELSE r
<1>1. v \in Nat /\ v <= max
  <2>1. CASE r > max
    <3>1. max \in Nat \ {0}
      BY <2>1
    <3>2. r % max \in 0 .. max - 1
      BY <3>1
    <3> QED
      BY <2>1, <3>2
  <2> QED
    BY <2>1
<1>2. Folded(r, min, max) = IF v < min THEN (min + v) % max ELSE v
  BY DEF Folded
<1> HIDE DEF v
<1>3. CASE v < min
  <2>1. max \in Nat \ {0} /\ min + v \in Nat
    BY <1>1, <1>3
  <2>2. (min + v) % max \in 0 .. max - 1
    BY <2>1
  <2>3. min + v < max => (min + v) % max = min + v
    BY <2>1
  <2>4. 2 * min <= max => min + v < max
    BY <1>1, <1>3
  <2>5. (min + v) % max <= max
    BY <2>1, <2>2
  <2>6. min + v >= min
    BY <1>1
  <2> QED
    BY <1>2, <1>3, <2>3, <2>4, <2>5, <2>6
<1>4. CASE ~(v < min)
  BY <1>1, <1>2, <1>4
<1> QED
  BY <1>3, <1>4

\* For any limits, also when min is greater than max, no random number is above
\* max, and none is below min as long as min is at most half of max (rnd_step).
THEOREM RandomInRangeHolds == RandomSpec => RandomInRange
<1>1. RandomCreate => RandomInv
  BY DEF RandomCreate, Created, RandomInv, Limits
<1>2. RandomInv /\ [RandomNext]_vars => RandomInv'
  <2> SUFFICES ASSUME RandomInv, [RandomNext]_vars
               PROVE  RandomInv'
    OBVIOUS
  <2>1. CASE RandomInit
    BY <2>1 DEF RandomInit, InitOk, RandomInv
  <2>2. CASE RandomStart
    <3> DEFINE limits == IF cfg.limits = Unset THEN <<0, RandMax>> ELSE cfg.limits
    <3>1. limits[1] \in Nat /\ limits[2] \in Nat
      BY SourcesAssumption DEF RandomInv, Limits
    <3>2. inf' = [min |-> limits[1], max |-> limits[2]] /\ UNCHANGED <<kind, cfg>>
      BY <2>2 DEF RandomStart, StartOk
    <3> QED
      BY <3>1, <3>2 DEF RandomInv
  <2>3. CASE RandomStep
    BY <2>3 DEF RandomStep, RandomInv
  <2>4. CASE Stop \/ Cleanup
    BY <2>4 DEF Stop, Cleanup, RandomInv
  <2>5. CASE UNCHANGED vars
    BY <2>5 DEF vars, RandomInv
  <2> QED
    BY <2>1, <2>2, <2>3, <2>4, <2>5 DEF RandomNext
<1>3. RandomInv /\ [RandomNext]_vars =>
        [ RandomStep /\ state' # "crashed" =>
            /\ out' <= inf.max
            /\ 2 * inf.min <= inf.max => out' >= inf.min ]_vars
  <2> SUFFICES ASSUME RandomInv, RandomStep, state' # "crashed"
               PROVE  /\ out' <= inf.max
                      /\ 2 * inf.min <= inf.max => out' >= inf.min
    OBVIOUS
  <2>1. inf.min \in Nat /\ inf.max \in Nat
    BY DEF RandomInv, RandomStep
  <2>2. PICK r \in 0 .. RandMax :
          /\ ~(inf.max = 0 /\ (r > 0 \/ inf.min > 0))
          /\ out' = Folded(r, inf.min, inf.max)
    BY DEF RandomStep
  <2>3. r \in Nat /\ (inf.max # 0 \/ (r = 0 /\ inf.min = 0))
    BY <2>1, <2>2, SourcesAssumption
  <2> QED
    BY <2>1, <2>2, <2>3, FoldedInRange
<1> QED
  BY <1>1, <1>2, <1>3, PTL DEF RandomSpec, RandomInRange

-----------------------------------------------------------------------------
(* ubx/simple_fifo.                                                         *)

FifoSpec == FifoCreate /\ [][FifoNext]_vars

Ring == [size : Nat \ {0}, rd : {0}, wr : Nat]

\* A read never moves the read offset from 0, so that the free space always ends
\* where the buffer ends.
FifoInv ==
  /\ kind = "fifo" /\ cfg.fifo_size \in Nat \cup {Unset}
  /\ state = "preinit" => inf = Unset
  /\ state # "preinit" => /\ inf \in Ring /\ inf.wr < inf.size
                          /\ seen \in [at : Nat, len : Nat, stored : {0, 1}]
                          /\ seen.at + seen.len <= inf.size

LEMMA FifoWriteInv ==
  ASSUME FifoInv, NEW len \in Messages, FifoWrite(len)
  PROVE  FifoInv'
<1>1. /\ len \in Nat \ {0} /\ state # "preinit" /\ inf \in Ring /\ inf.wr < inf.size
      /\ UNCHANGED <<kind, state, cfg>>
  BY SimpleFifoAssumption DEF FifoInv, FifoWrite, Stepping
<1>2. CASE empty_space < len
  <2>1. inf' = inf /\ seen' = seen
    BY <1>2 DEF FifoWrite
  <2> QED
    BY <1>1, <2>1 DEF FifoInv
<1>3. CASE ~(empty_space < len)
  <2> DEFINE size == inf.size
             wr == inf.wr
             next == IF wr + len >= size THEN 0 ELSE wr + len
  <2>1. size \in Nat \ {0} /\ wr \in Nat /\ wr < size /\ inf.rd = 0
    BY <1>1 DEF Ring
  <2>2. empty_space = size - wr
    BY <2>1 DEF empty_space
  <2>3. len <= size - wr
    BY <1>1, <1>3, <2>1, <2>2
  <2>4. inf' = [inf EXCEPT !.wr = next] /\ seen' = [at |-> wr, len |-> len, stored |-> 1]
    <3>1. ~(wr > inf.rd /\ len > size - wr)
      BY <1>1, <2>1, <2>3
    <3> QED
      BY <1>1, <1>3, <3>1 DEF FifoWrite, Advanced
  <2>5. next \in Nat /\ next < size
    BY <1>1, <2>1
  <2>6. inf' \in Ring /\ inf'.wr < inf'.size /\ inf'.size = size
    BY <1>1, <2>4, <2>5 DEF Ring
  <2>7. /\ seen'.at + seen'.len <= inf'.size
        /\ seen' \in [at : Nat, len : Nat, stored : {0, 1}]
    BY <1>1, <2>1, <2>3, <2>4, <2>6
  <2> QED
    BY <1>1, <2>6, <2>7 DEF FifoInv
<1> QED
  BY <1>2, <1>3

\* Whatever is written, read, stopped and started in whatever order, with any
\* sizes: the offsets and every copy stay in the buffer (fifo_write, fifo_read).
THEOREM FifoInBoundsHolds == FifoSpec => []FifoInBounds
<1>1. FifoCreate => FifoInv
  BY SimpleFifoAssumption DEF FifoCreate, Created, FifoInv
<1>2. FifoInv /\ [FifoNext]_vars => FifoInv'
  <2> SUFFICES ASSUME FifoInv, [FifoNext]_vars PROVE FifoInv'
    OBVIOUS
  <2>1. CASE FifoInit
    <3>1. CASE InitFails
      BY <3>1 DEF InitFails, FifoInv
    <3>2. CASE ~InitFails
      <4> DEFINE n == IF cfg.fifo_size = Unset THEN 16 ELSE cfg.fifo_size
      <4>1. /\ cfg.fifo_size # 0 /\ InitOk([size |-> n, rd |-> 0, wr |-> 0])
            /\ seen' = [at |-> 0, len |-> 0, stored |-> 0]
        BY <2>1, <3>2 DEF FifoInit
      <4>2. n \in Nat \ {0}
        BY <4>1 DEF FifoInv
      <4>3. inf' = [size |-> n, rd |-> 0, wr |-> 0] /\ state' = "inactive"
            /\ UNCHANGED <<kind, cfg>>
        BY <4>1 DEF InitOk
      <4> HIDE DEF n
      <4> QED
        BY <4>1, <4>2, <4>3 DEF FifoInv, Ring
    <3> QED
      BY <3>1, <3>2
  <2>2. CASE FifoStart
    BY <2>2 DEF FifoStart, StartOk, FifoInv
  <2>3. CASE FifoRead
    <3>1. state # "preinit" /\ UNCHANGED <<kind, state, cfg>>
      BY <2>3 DEF FifoRead, Stepping
    <3>2. inf \in Ring /\ inf.wr \in Nat /\ inf.rd = 0 /\ inf.wr < inf.size
      BY <3>1 DEF FifoInv, Ring
    <3>3. \/ UNCHANGED <<inf, seen>>
          \/ inf' = [inf EXCEPT !.rd = 0] /\ seen' = [seen EXCEPT !.at = 0, !.len = 0]
      <4>1. ~(inf.rd > inf.wr)
        BY <3>2
      <4> QED
        BY <2>3, <3>2, <4>1 DEF FifoRead
    <3>4. inf' = inf
      BY <3>2, <3>3 DEF Ring
    <3>5. /\ seen' \in [at : Nat, len : Nat, stored : {0, 1}]
          /\ seen'.at + seen'.len <= inf'.size
      <4>1. /\ seen \in [at : Nat, len : Nat, stored : {0, 1}]
            /\ seen.at + seen.len <= inf.size /\ inf.size \in Nat
        BY <3>1, <3>2 DEF FifoInv, Ring
      <4>2. CASE UNCHANGED <<inf, seen>>
        BY <4>1, <4>2
      <4>3. CASE seen' = [seen EXCEPT !.at = 0, !.len = 0]
        <5>1. /\ seen' \in [at : Nat, len : Nat, stored : {0, 1}]
              /\ seen'.at = 0 /\ seen'.len = 0
          BY <4>1, <4>3
        <5>2. inf'.size \in Nat
          BY <3>4, <4>1
        <5> QED
          BY <5>1, <5>2
      <4> QED
        BY <3>3, <4>2, <4>3
    <3> QED
      BY <3>1, <3>4, <3>5 DEF FifoInv
  <2>4. CASE \E n \in Messages : FifoWrite(n)
    BY <2>4, FifoWriteInv
  <2>5. CASE Stop \/ Cleanup
    BY <2>5 DEF Stop, Cleanup, FifoInv
  <2>6. CASE UNCHANGED vars
    BY <2>6 DEF vars, FifoInv
  <2> QED
    BY <2>1, <2>2, <2>3, <2>4, <2>5, <2>6 DEF FifoNext
<1>3. FifoInv => FifoInBounds
  BY DEF FifoInv, FifoInBounds, Ring
<1> QED
  BY <1>1, <1>2, <1>3, PTL DEF FifoSpec

-----------------------------------------------------------------------------
(* The control loop.                                                        *)

PlatformSpec == PlatformCreate /\ [][PlatformNext]_vars

LifeStates == {"preinit", "inactive", "active"}
Numbers == Int \cup {NaN}

PlatTypeOK ==
  /\ kind = "platform" /\ state \in [Blocks -> LifeStates] /\ cfg \in Settings
  /\ now \in Timespecs
  /\ out \in [pos : Numbers \cup {NoData}, vel : Numbers \cup {NoData}]
  /\ seen \in [active : Nat, late : BOOLEAN, blind : BOOLEAN]
  /\ state["plat"] = "preinit" => inf = Unset
  /\ state["plat"] # "preinit" => inf \in [pos : Numbers, last_time : Timespecs]

\* the time since plat has last read the clock
Elapsed ==
  state["plat"] = "active" => ts_to_ns(now) - ts_to_ns(inf.last_time) = seen.active

PlatInv == PlatTypeOK /\ Elapsed

LEMMA SettingTypes ==
  ASSUME cfg \in Settings
  PROVE  /\ cfg.initial \in Int /\ cfg.limit \in Nat /\ cfg.gain \in Nat /\ cfg.target \in Int
BY PlatformAssumption

LEMMA TimeIsInt ==
  ASSUME NEW t \in Timespecs
  PROVE  ts_to_ns(t) \in Int
<1>1. NsecPerSec \in Int /\ t.sec \in Int /\ t.nsec \in Int
  BY TimespecAssumption DEF Timespecs
<1> QED
  BY <1>1 DEF ts_to_ns

LEMMA Passed ==
  ASSUME PlatInv, state["plat"] = "active"
  PROVE  ts_to_ns(ts_sub(now, inf.last_time)) = seen.active
<1>1. now \in Timespecs /\ inf.last_time \in Timespecs
  BY DEF PlatInv, PlatTypeOK
<1> QED
  BY <1>1, TimeArithmetic DEF PlatInv, Elapsed

\* A velocity that is a number comes out within the limit.
LEMMA LimitedIsLimited ==
  ASSUME cfg \in Settings, NEW v \in Int
  PROVE  Limited(v) \in -cfg.limit .. cfg.limit
<1>1. cfg.limit \in Nat /\ v # NaN
  BY SettingTypes, PlatformAssumption
<1> QED
  BY <1>1 DEF Limited

\* the way of a step: towards zero from a / Scale
LEMMA Way ==
  ASSUME NEW a \in Int
  PROVE  \E w \in Int : /\ w = Quotient(a, Scale)
                        /\ a >= 0 => w >= 0 /\ Scale * w <= a
                        /\ a <= 0 => w <= 0 /\ a <= Scale * w
<1>1. Scale \in Nat \ {0}
  BY PlatformAssumption
<1>3. PICK w \in Int, r \in Int : /\ w = Quotient(a, Scale)
                                  /\ a = w * Scale + r
                                  /\ -Scale < r /\ r < Scale
                                  /\ a >= 0 => r >= 0
                                  /\ a <= 0 => r <= 0
  BY <1>1, Dividing
<1>4. w * Scale = Scale * w /\ Scale * w \in Int
  BY <1>1
<1>5. a >= 0 => w >= 0
  <2>1. SUFFICES ASSUME a >= 0, w <= -1 PROVE FALSE
    OBVIOUS
  <2>2. (-1 - w) * Scale >= 0
    BY <1>1, <2>1
  <2>3. (-1 - w) * Scale = -Scale - w * Scale
    BY <1>1
  <2> QED
    BY <1>1, <1>3, <1>4, <2>1, <2>2, <2>3
<1>6. a <= 0 => w <= 0
  <2>1. SUFFICES ASSUME a <= 0, w >= 1 PROVE FALSE
    OBVIOUS
  <2>2. (w - 1) * Scale >= 0
    BY <1>1, <2>1
  <2>3. (w - 1) * Scale = w * Scale - Scale
    BY <1>1
  <2> QED
    BY <1>1, <1>3, <1>4, <2>1, <2>2, <2>3
<1>7. /\ a >= 0 => Scale * w <= a
      /\ a <= 0 => a <= Scale * w
  BY <1>3, <1>4
<1> QED
  BY <1>3, <1>5, <1>6, <1>7

LEMMA PlusIsNumber ==
  ASSUME NEW x \in Numbers, NEW v \in Numbers, NEW t \in Nat
  PROVE  Plus(x, v, t) \in Numbers
<1>1. CASE NaN \in {x, v}
  BY <1>1 DEF Plus, Numbers
<1>2. CASE NaN \notin {x, v}
  <2>1. x \in Int /\ v \in Int
    BY <1>2 DEF Numbers
  <2>2. PICK w \in Int : w = Quotient(v * t, Scale)
    <3>1. v * t \in Int
      BY <2>1
    <3> QED
      BY <3>1, Way
  <2>3. Plus(x, v, t) = x + w
    BY <1>2, <2>2 DEF Plus
  <2> QED
    BY <2>1, <2>3 DEF Numbers
<1> QED
  BY <1>1, <1>2

\* the velocity of a step
Velocity == IF out.vel = NoData THEN 0 ELSE Limited(out.vel)

LEMMA VelocityType ==
  ASSUME PlatInv
  PROVE  Velocity = NaN \/ Velocity \in -cfg.limit .. cfg.limit
<1>1. cfg.limit \in Nat /\ cfg \in Settings
  BY SettingTypes DEF PlatInv, PlatTypeOK
<1>2. out.vel \in Int \/ out.vel = NaN \/ out.vel = NoData
  BY DEF PlatInv, PlatTypeOK, Numbers
<1>3. CASE out.vel = NoData
  BY <1>1, <1>3 DEF Velocity
<1>4. CASE out.vel # NoData /\ out.vel = NaN
  BY <1>4 DEF Velocity, Limited
<1>5. CASE out.vel # NoData /\ out.vel \in Int
  BY <1>1, <1>5, LimitedIsLimited DEF Velocity
<1> QED
  BY <1>2, <1>3, <1>4, <1>5

\* A step of plat, in terms of the time that it is late.
LEMMA Moved ==
  ASSUME PlatInv, PlatStep
  PROVE  /\ state["plat"] = "active"
         /\ inf' = [pos |-> Plus(inf.pos, Velocity, seen.active), last_time |-> now]
         /\ out' = [pos |-> Plus(inf.pos, Velocity, seen.active), vel |-> NoData]
         /\ seen' = [seen EXCEPT !.active = 0, !.late = @ \/ cfg.gain * seen.active > Scale]
         /\ UNCHANGED <<kind, state, cfg, now>>
BY Passed DEF PlatStep, Velocity

LEMMA PlatStepInv ==
  ASSUME PlatInv, PlatStep
  PROVE  PlatInv'
<1>1. Plus(inf.pos, Velocity, seen.active) \in Numbers
  <2>1. Velocity \in Numbers
    BY VelocityType DEF Numbers
  <2>2. inf.pos \in Numbers /\ seen.active \in Nat
    BY Moved DEF PlatInv, PlatTypeOK
  <2> QED
    BY <2>1, <2>2, PlusIsNumber
<1>2. PlatTypeOK'
  <2>1. seen' \in [active : Nat, late : BOOLEAN, blind : BOOLEAN]
    <3>1. PICK l \in BOOLEAN : seen' = [seen EXCEPT !.active = 0, !.late = l]
      <4>1. (seen.late \/ cfg.gain * seen.active > Scale) \in BOOLEAN
        OBVIOUS
      <4> QED
        BY <4>1, Moved
    <3> QED
      BY <3>1 DEF PlatInv, PlatTypeOK
  <2> QED
    BY <1>1, <2>1, Moved DEF PlatInv, PlatTypeOK
<1>3. Elapsed'
  <2>1. inf'.last_time = now /\ now' = now /\ seen'.active = 0
    <3>1. inf'.last_time = now /\ now' = now
      BY Moved
    <3>2. seen'.active = 0
      BY Moved DEF PlatInv, PlatTypeOK
    <3> QED
      BY <3>1, <3>2
  <2>2. ts_to_ns(now) \in Int
    BY TimeIsInt DEF PlatInv, PlatTypeOK
  <2> QED
    BY <2>1, <2>2 DEF Elapsed
<1> QED
  BY <1>2, <1>3 DEF PlatInv

LEMMA ZeroIsTime == Zero \in Timespecs
  BY DEF Zero, Timespecs

LEMMA PlatInvInit == PlatformCreate => PlatInv
<1> SUFFICES ASSUME PlatformCreate PROVE PlatInv
  OBVIOUS
<1>1. PlatTypeOK
  BY ZeroIsTime DEF PlatformCreate, PlatTypeOK, Blocks, LifeStates
<1>2. Elapsed
  BY DEF PlatformCreate, Elapsed, Blocks
<1> QED
  BY <1>1, <1>2 DEF PlatInv

LEMMA ErrorIsNumber ==
  ASSUME cfg \in Settings, NEW x \in Numbers
  PROVE  Error(x) \in Numbers
BY SettingTypes DEF Error, Numbers

LEMMA TickInv ==
  ASSUME PlatInv, Tick
  PROVE  PlatInv'
<1> DEFINE ns == [sec |-> 0, nsec |-> 1]
<1>1. ns \in Timespecs /\ ts_to_ns(ns) = 1
  BY TimespecAssumption DEF Timespecs, ts_to_ns
<1>2. now' \in Timespecs /\ ts_to_ns(now') = ts_to_ns(now) + 1
  <2>1. now' = ts_add(now, ns) /\ now \in Timespecs
    BY DEF Tick, PlatInv, PlatTypeOK
  <2> HIDE DEF ns
  <2> QED
    BY <1>1, <2>1, TimeArithmetic
<1>3. seen' \in [active : Nat, late : BOOLEAN, blind : BOOLEAN]
  BY DEF Tick, PlatInv, PlatTypeOK
<1>4. PlatTypeOK'
  BY <1>2, <1>3 DEF Tick, PlatInv, PlatTypeOK
<1>5. Elapsed'
  <2> SUFFICES ASSUME state["plat"] = "active"
               PROVE  ts_to_ns(now') - ts_to_ns(inf.last_time) = seen'.active
    BY DEF Tick, Elapsed
  <2>1. seen'.active = seen.active + 1 /\ seen.active \in Nat
    BY DEF Tick, PlatInv, PlatTypeOK
  <2>2. /\ ts_to_ns(now) \in Int /\ ts_to_ns(inf.last_time) \in Int
        /\ ts_to_ns(now) - ts_to_ns(inf.last_time) = seen.active
    BY TimeIsInt DEF PlatInv, PlatTypeOK, Elapsed
  <2> QED
    BY <1>2, <2>1, <2>2
<1> QED
  BY <1>4, <1>5 DEF PlatInv

\* Only start and step of plat touch the clock it remembers.
LEMMA PlatInvStep == PlatInv /\ [PlatformNext]_vars => PlatInv'
<1> SUFFICES ASSUME PlatInv, [PlatformNext]_vars
             PROVE  PlatInv'
  OBVIOUS
<1>1. CASE PlatInit
  <2>1. PlatTypeOK'
    BY <1>1, ZeroIsTime, SettingTypes
       DEF PlatInit, MoveTo, PlatInv, PlatTypeOK, Blocks, LifeStates, Numbers
  <2>2. Elapsed'
    BY <1>1 DEF PlatInit, MoveTo, PlatInv, PlatTypeOK, Elapsed, Blocks
  <2> QED
    BY <2>1, <2>2 DEF PlatInv
<1>2. CASE PlatStart
  <2>1. PlatTypeOK'
    BY <1>2 DEF PlatStart, MoveTo, PlatInv, PlatTypeOK, Blocks, LifeStates
  <2>2. inf'.last_time = now /\ now' = now /\ seen'.active = 0
    BY <1>2 DEF PlatStart, MoveTo, PlatInv, PlatTypeOK
  <2>3. Elapsed'
    BY <2>2, TimeIsInt DEF PlatInv, PlatTypeOK, Elapsed
  <2> QED
    BY <2>1, <2>3 DEF PlatInv
<1>3. CASE PlatStep
  BY <1>3, PlatStepInv
<1>4. CASE PlatStop
  <2>1. PlatTypeOK'
    BY <1>4 DEF PlatStop, MoveTo, PlatInv, PlatTypeOK, Blocks, LifeStates
  <2>2. Elapsed'
    BY <1>4 DEF PlatStop, MoveTo, PlatInv, PlatTypeOK, Elapsed, Blocks
  <2> QED
    BY <2>1, <2>2 DEF PlatInv
<1>5. CASE PlatCleanup
  <2>1. PlatTypeOK'
    BY <1>5 DEF PlatCleanup, MoveTo, PlatInv, PlatTypeOK, Blocks, LifeStates
  <2>2. Elapsed'
    BY <1>5 DEF PlatCleanup, MoveTo, PlatInv, PlatTypeOK, Elapsed, Blocks
  <2> QED
    BY <2>1, <2>2 DEF PlatInv
<1>6. CASE ControlMoves
  <2>1. PICK to \in LifeStates : state' = [state EXCEPT !["control"] = to]
    BY <1>6 DEF ControlMoves, MoveTo, LifeStates
  <2>2. UNCHANGED <<kind, cfg, inf, out, now, seen>>
    BY <1>6 DEF ControlMoves, MoveTo
  <2>3. state' \in [Blocks -> LifeStates] /\ state'["plat"] = state["plat"]
    BY <2>1 DEF PlatInv, PlatTypeOK, Blocks
  <2> QED
    BY <2>2, <2>3 DEF PlatInv, PlatTypeOK, Elapsed
<1>7. CASE ControlStep
  <2>1. out' \in [pos : Numbers \cup {NoData}, vel : Numbers \cup {NoData}]
    <3>1. CASE out.pos = NoData
      BY <1>7, <3>1, PlatformAssumption DEF ControlStep, PlatInv, PlatTypeOK, Numbers
    <3>2. CASE out.pos # NoData
      BY <1>7, <3>2, ErrorIsNumber DEF ControlStep, PlatInv, PlatTypeOK
    <3> QED
      BY <3>1, <3>2
  <2>2. seen' \in [active : Nat, late : BOOLEAN, blind : BOOLEAN] /\ seen'.active = seen.active
    BY <1>7 DEF ControlStep, PlatInv, PlatTypeOK
  <2>3. UNCHANGED <<kind, state, cfg, inf, now>>
    BY <1>7 DEF ControlStep
  <2> QED
    BY <2>1, <2>2, <2>3 DEF PlatInv, PlatTypeOK, Elapsed
<1>8. CASE Tick
  BY <1>8, TickInv
<1>9. CASE UNCHANGED vars
  BY <1>9 DEF vars, PlatInv, PlatTypeOK, Elapsed
<1> QED
  BY <1>1, <1>2, <1>3, <1>4, <1>5, <1>6, <1>7, <1>8, <1>9 DEF PlatformNext

\* |v| <= m, so that v * t is at most m * t
LEMMA Distance ==
  ASSUME NEW v \in Int, NEW m \in Nat, NEW t \in Nat, -m <= v, v <= m
  PROVE  v * t <= m * t /\ -(v * t) <= m * t /\ v * t \in Int /\ m * t \in Int
<1>1. (m - v) * t >= 0 /\ (m + v) * t >= 0
  BY SMT
<1>2. (m - v) * t = m * t - v * t /\ (m + v) * t = m * t + v * t
  BY SMT
<1>3. v * t \in Int /\ m * t \in Int
  OBVIOUS
<1> QED
  BY <1>1, <1>2, <1>3

\* For any settings, garbage and times, the platform moves at most with the limit
\* for the time it was started: by Elapsed, what the step integrates over is the
\* time since the last step or start (platform_2dof_start, platform_2dof_step).
THEOREM SpeedLimitedHolds == PlatformSpec => SpeedLimited
<1>1. PlatInv /\ [PlatformNext]_vars =>
        [ PlatStep /\ NaN \notin {inf.pos, inf'.pos} =>
            /\ Scale * (inf'.pos - inf.pos) <= cfg.limit * seen.active
            /\ Scale * (inf.pos - inf'.pos) <= cfg.limit * seen.active ]_vars
  <2> SUFFICES ASSUME PlatInv, PlatStep, inf.pos # NaN, inf'.pos # NaN
               PROVE  /\ Scale * (inf'.pos - inf.pos) <= cfg.limit * seen.active
                      /\ Scale * (inf.pos - inf'.pos) <= cfg.limit * seen.active
    OBVIOUS
  <2>1. inf'.pos = Plus(inf.pos, Velocity, seen.active) /\ state["plat"] = "active"
    BY Moved
  <2>2. cfg.limit \in Nat /\ seen.active \in Nat /\ inf.pos \in Int
    BY <2>1, SettingTypes DEF PlatInv, PlatTypeOK, Numbers
  <2>3. Velocity # NaN /\ inf'.pos = inf.pos + Quotient(Velocity * seen.active, Scale)
    BY <2>1 DEF Plus
  <2>4. Velocity \in -cfg.limit .. cfg.limit
    BY <2>3, VelocityType
  <2>5. PICK d \in Int : /\ d = Velocity * seen.active
                         /\ d <= cfg.limit * seen.active /\ -d <= cfg.limit * seen.active
                         /\ cfg.limit * seen.active \in Int
    BY <2>2, <2>4, Distance
  <2>6. PICK w \in Int : /\ w = Quotient(Velocity * seen.active, Scale)
                         /\ d >= 0 => w >= 0 /\ Scale * w <= d
                         /\ d <= 0 => w <= 0 /\ d <= Scale * w
    BY <2>5, Way
  <2>7. Scale \in Nat \ {0}
    BY PlatformAssumption
  <2>8. inf'.pos - inf.pos = w /\ inf.pos - inf'.pos = -w
    BY <2>2, <2>3, <2>6
  <2>9. Scale * (-w) = -(Scale * w) /\ Scale * w \in Int
    BY <2>7
  <2>10. d >= 0 => Scale * w >= 0
    BY <2>6, <2>7
  <2>11. d <= 0 => Scale * w <= 0
    BY <2>6, <2>7
  <2> QED
    BY <2>2, <2>5, <2>6, <2>8, <2>9, <2>10, <2>11
<1> QED
  BY <1>1, PlatInvInit, PlatInvStep, PTL DEF PlatformSpec, SpeedLimited

-----------------------------------------------------------------------------
(* The control loop does not overshoot.                                     *)

Between(x, a, b) == (a <= x /\ x <= b) \/ (b <= x /\ x <= a)

\* a position from which the target is not farther than it is from plat
Ahead(x) ==
  /\ Between(x, cfg.initial, cfg.target)
  /\ state["plat"] # "preinit" => Between(x, inf.pos, cfg.target)

\* while nothing came late: where plat is, and what is in the two buffers
Approach ==
  ~seen.late /\ ~seen.blind =>
    /\ state["plat"] # "preinit" =>
         inf.pos \in Int /\ Between(inf.pos, cfg.initial, cfg.target)
    /\ out.pos # NoData => out.pos \in Int /\ Ahead(out.pos)
    /\ out.vel # NoData => \E x \in Int : Ahead(x) /\ out.vel = (cfg.target - x) * cfg.gain

\* A velocity between 0 and distance * gain, for a time with gain * time at most
\* Scale, goes at most the distance.
LEMMA Reach ==
  ASSUME NEW e \in Nat, NEW g \in Nat, NEW d \in Nat, NEW v \in Nat,
         g * d <= Scale, v <= e * g
  PROVE  /\ v * d \in Nat
         /\ \A w \in Nat : Scale * w <= v * d => w <= e
<1>1. Scale \in Nat \ {0}
  BY PlatformAssumption
<1>2. v * d <= (e * g) * d
  <2>1. (e * g - v) * d >= 0
    OBVIOUS
  <2>2. (e * g - v) * d = (e * g) * d - v * d
    OBVIOUS
  <2> QED
    BY <2>1, <2>2
<1>3. (e * g) * d <= e * Scale
  <2>1. e * (Scale - g * d) >= 0
    BY <1>1
  <2>2. e * (Scale - g * d) = e * Scale - (e * g) * d
    BY <1>1
  <2> QED
    BY <1>1, <2>1, <2>2
<1>4. ASSUME NEW w \in Nat, Scale * w <= v * d, w >= e + 1
      PROVE  FALSE
  <2>1. Scale * (w - e) >= Scale
    BY <1>1, <1>4
  <2>2. Scale * (w - e) = Scale * w - e * Scale
    BY <1>1
  <2> QED
    BY <1>1, <1>2, <1>3, <1>4, <2>1, <2>2
<1> QED
  BY <1>4

\* Such a step does not pass the target.
LEMMA Landing ==
  ASSUME NEW p \in Int, NEW x \in Int, NEW t \in Int, NEW m \in Nat, NEW g \in Nat, NEW d \in Nat,
         g * d <= Scale, Between(x, p, t), NEW v \in Int,
         v = IF (t - x) * g > m THEN m ELSE IF (t - x) * g < -m THEN -m ELSE (t - x) * g
  PROVE  LET q == p + Quotient(v * d, Scale) IN q \in Int /\ Between(q, p, t)
<1>1. PICK w \in Int : /\ w = Quotient(v * d, Scale)
                       /\ v * d >= 0 => w >= 0 /\ Scale * w <= v * d
                       /\ v * d <= 0 => w <= 0 /\ v * d <= Scale * w
  <2>1. v * d \in Int
    OBVIOUS
  <2> QED
    BY <2>1, Way
<1>2. CASE x <= t
  <2>1. PICK e \in Nat : e = t - x
    BY <1>2
  <2>2. e * g \in Nat /\ (t - x) * g = e * g
    BY <2>1
  <2>3. v \in Nat /\ v <= e * g
    BY <2>2
  <2>4. v * d \in Nat
    BY <2>3
  <2>5. w \in Nat /\ Scale * w <= v * d
    BY <1>1, <2>4
  <2>6. w <= e
    BY <2>3, <2>5, Reach
  <2> QED
    BY <1>1, <1>2, <2>1, <2>5, <2>6 DEF Between
<1>3. CASE t <= x
  <2>1. PICK e \in Nat : e = x - t
    BY <1>3
  <2>2. e * g \in Nat /\ (t - x) * g = -(e * g)
    BY <2>1
  <2>3. PICK u \in Nat : u = -v /\ u <= e * g
    BY <2>2
  <2>4. u * d \in Nat /\ v * d = -(u * d)
    BY <2>3
  <2>5. PICK y \in Nat : y = -w
    BY <1>1, <2>4
  <2>6. Scale \in Nat /\ Scale * w = -(Scale * y)
    BY <2>5, PlatformAssumption
  <2>7. Scale * y <= u * d
    BY <1>1, <2>4, <2>6
  <2>8. y <= e
    BY <2>3, <2>7, Reach
  <2> QED
    BY <1>1, <1>3, <2>1, <2>5, <2>8 DEF Between
<1> QED
  BY <1>2, <1>3

LEMMA BetweenTrans ==
  ASSUME NEW x \in Int, NEW p \in Int, NEW i \in Int, NEW t \in Int,
         Between(x, p, t), Between(p, i, t)
  PROVE  Between(x, i, t)
BY DEF Between

LEMMA PlatStepApproach ==
  ASSUME PlatInv, Approach, PlatStep
  PROVE  Approach'
<1> DEFINE q == Plus(inf.pos, Velocity, seen.active)
<1>1. /\ state["plat"] = "active" /\ state' = state /\ cfg' = cfg
      /\ inf'.pos = q /\ out'.pos = q /\ out'.vel = NoData
  BY Moved
<1>2. seen'.late <=> seen.late \/ cfg.gain * seen.active > Scale
  <2>1. seen' = [seen EXCEPT !.active = 0, !.late = @ \/ cfg.gain * seen.active > Scale]
    BY Moved
  <2>2. seen \in [active : Nat, late : BOOLEAN, blind : BOOLEAN]
    BY DEF PlatInv, PlatTypeOK
  <2>3. PICK l \in BOOLEAN : l <=> seen.late \/ cfg.gain * seen.active > Scale
    OBVIOUS
  <2>4. l = (seen.late \/ cfg.gain * seen.active > Scale)
    BY <2>3, Zenon
  <2>5. seen' = [seen EXCEPT !.active = 0, !.late = l]
    BY <2>1, <2>4
  <2>6. seen'.late = l
    BY <2>2, <2>5
  <2> QED
    BY <2>3, <2>6
<1>9. seen'.blind = seen.blind
  BY Moved DEF PlatInv, PlatTypeOK
<1>3. /\ cfg.initial \in Int /\ cfg.limit \in Nat /\ cfg.gain \in Nat /\ cfg.target \in Int
      /\ seen.active \in Nat
  BY SettingTypes DEF PlatInv, PlatTypeOK
<1> SUFFICES ASSUME ~seen.late, ~(cfg.gain * seen.active > Scale), ~seen.blind
             PROVE  q \in Int /\ Between(q, cfg.initial, cfg.target)
  <2>1. q \in Int => Between(q, q, cfg.target)
    BY <1>3 DEF Between
  <2> HIDE DEF q
  <2> QED
    BY <1>1, <1>2, <1>9, <2>1 DEF Approach, Ahead
<1>4. inf.pos \in Int /\ Between(inf.pos, cfg.initial, cfg.target)
  BY <1>1 DEF Approach
<1>5. q \in Int /\ Between(q, inf.pos, cfg.target)
  <2>0. inf.pos # NaN
    BY <1>4, PlatformAssumption
  <2>1. CASE out.vel = NoData
    <3>1. Velocity = 0 /\ 0 # NaN
      BY <2>1, PlatformAssumption DEF Velocity
    <3>2. q = inf.pos + Quotient(0 * seen.active, Scale)
      BY <2>0, <3>1 DEF Plus
    <3>3. Quotient(0 * seen.active, Scale) = 0
      <4>1. PICK w \in Int : w = Quotient(0, Scale) /\ w >= 0 /\ w <= 0
        BY Way
      <4>2. 0 * seen.active = 0
        BY <1>3
      <4> QED
        BY <4>1, <4>2
    <3>4. q = inf.pos
      BY <1>4, <3>2, <3>3
    <3> QED
      BY <1>3, <1>4, <3>4 DEF Between
  <2>2. CASE out.vel # NoData
    <3>1. PICK x \in Int : Ahead(x) /\ out.vel = (cfg.target - x) * cfg.gain
      BY <2>2 DEF Approach
    <3>2. Between(x, inf.pos, cfg.target)
      BY <1>1, <3>1 DEF Ahead
    <3>3. PICK w \in Int : w = (cfg.target - x) * cfg.gain
      BY <1>3
    <3>4. w # NaN
      BY <3>3, PlatformAssumption
    <3>5. Velocity = IF w > cfg.limit THEN cfg.limit ELSE IF w < -cfg.limit THEN -cfg.limit ELSE w
      BY <2>2, <3>1, <3>3, <3>4 DEF Velocity, Limited
    <3>6. Velocity \in Int
      BY <1>3, <3>5
    <3>7. Velocity # NaN
      BY <3>6, PlatformAssumption
    <3>8. q = inf.pos + Quotient(Velocity * seen.active, Scale)
      BY <2>0, <3>7 DEF Plus
    <3>9. cfg.gain * seen.active <= Scale
      BY <1>3, PlatformAssumption
    <3>10. Velocity = IF (cfg.target - x) * cfg.gain > cfg.limit THEN cfg.limit
                      ELSE IF (cfg.target - x) * cfg.gain < -cfg.limit THEN -cfg.limit
                      ELSE (cfg.target - x) * cfg.gain
      BY <3>3, <3>5
    <3> HIDE DEF q
    <3> QED
      BY <1>3, <1>4, <3>2, <3>6, <3>8, <3>9, <3>10, Landing
  <2> QED
    BY <2>1, <2>2
<1> HIDE DEF q
<1> QED
  BY <1>3, <1>4, <1>5, BetweenTrans

\* A position in a buffer stays ahead of plat, whatever is stopped, cleaned up or
\* initialised: plat only moves by a velocity, or back to the initial position.
LEMMA ApproachStep == PlatInv /\ Approach /\ [PlatformNext]_vars => Approach'
<1> SUFFICES ASSUME PlatInv, Approach, [PlatformNext]_vars
             PROVE  Approach'
  OBVIOUS
<1>0. /\ cfg.initial \in Int /\ cfg.limit \in Nat /\ cfg.gain \in Nat /\ cfg.target \in Int
  BY SettingTypes DEF PlatInv, PlatTypeOK
<1>1. CASE PlatInit
  <2>1. /\ inf'.pos = cfg.initial /\ UNCHANGED <<cfg, out, seen>>
    BY <1>1 DEF PlatInit, MoveTo
  <2>2. Between(cfg.initial, cfg.initial, cfg.target)
    BY <1>0 DEF Between
  <2>3. \A x : Ahead(x) => Ahead(x)'
    BY <2>1 DEF Ahead
  <2> QED
    BY <1>0, <2>1, <2>2, <2>3 DEF Approach
<1>2. ASSUME PlatStart \/ PlatStop
      PROVE  Approach'
  <2>1. UNCHANGED <<cfg, out>> /\ seen'.late = seen.late /\ seen'.blind = seen.blind
    BY <1>2 DEF PlatStart, PlatStop, MoveTo, PlatInv, PlatTypeOK
  <2>2. state["plat"] # "preinit" /\ inf'.pos = inf.pos
    BY <1>2 DEF PlatStart, PlatStop, MoveTo, PlatInv, PlatTypeOK
  <2>3. \A x : Ahead(x) => Ahead(x)'
    BY <2>1, <2>2 DEF Ahead
  <2> QED
    BY <2>1, <2>2, <2>3 DEF Approach
<1>3. CASE PlatStep
  BY <1>3, PlatStepApproach
<1>4. CASE PlatCleanup
  <2>1. UNCHANGED <<cfg, out, seen>> /\ state'["plat"] = "preinit"
    BY <1>4 DEF PlatCleanup, MoveTo, PlatInv, PlatTypeOK, Blocks
  <2>2. \A x : Ahead(x) => Ahead(x)'
    BY <2>1 DEF Ahead
  <2> QED
    BY <2>1, <2>2 DEF Approach
<1>5. CASE ControlMoves
  <2>1. PICK to \in LifeStates : state' = [state EXCEPT !["control"] = to]
    BY <1>5 DEF ControlMoves, MoveTo, LifeStates
  <2>2. UNCHANGED <<cfg, inf, out, seen>>
    BY <1>5 DEF ControlMoves, MoveTo
  <2>3. state'["plat"] = state["plat"]
    BY <2>1 DEF PlatInv, PlatTypeOK, Blocks
  <2> QED
    BY <2>2, <2>3 DEF Approach, Ahead
<1>6. CASE ControlStep
  <2>1. UNCHANGED <<state, cfg, inf>>
    BY <1>6 DEF ControlStep
  <2>2. CASE out.pos = NoData
    <3>1. seen'.blind = TRUE
      BY <1>6, <2>2 DEF ControlStep, PlatInv, PlatTypeOK
    <3> QED
      BY <3>1 DEF Approach
  <2>3. CASE out.pos # NoData
    <3>1. seen' = seen /\ out'.pos = NoData /\ out'.vel = Error(out.pos)
      BY <1>6, <2>3 DEF ControlStep
    <3>2. SUFFICES ASSUME ~seen.late, ~seen.blind
                   PROVE  /\ state["plat"] # "preinit" =>
                               inf.pos \in Int /\ Between(inf.pos, cfg.initial, cfg.target)
                          /\ \E x \in Int : Ahead(x) /\ out'.vel = (cfg.target - x) * cfg.gain
      BY <2>1, <3>1 DEF Approach, Ahead
    <3>3. out.pos \in Int /\ Ahead(out.pos)
      BY <2>3, <3>2 DEF Approach
    <3>4. Error(out.pos) = (cfg.target - out.pos) * cfg.gain
      BY <3>3, PlatformAssumption DEF Error
    <3> QED
      BY <3>1, <3>2, <3>3, <3>4 DEF Approach
  <2> QED
    BY <2>2, <2>3
<1>7. CASE Tick
  <2>1. UNCHANGED <<state, cfg, inf, out>> /\ seen'.late = seen.late /\ seen'.blind = seen.blind
    BY <1>7 DEF Tick, PlatInv, PlatTypeOK
  <2> QED
    BY <2>1 DEF Approach, Ahead
<1>8. CASE UNCHANGED vars
  BY <1>8 DEF vars, Approach, Ahead
<1> QED
  BY <1>1, <1>2, <1>3, <1>4, <1>5, <1>6, <1>7, <1>8 DEF PlatformNext

\* For any settings, the loop does not overshoot as long as no step is late and
\* control finds a position.  The velocity on its way was computed from a position
\* that plat may have left since, but never beyond: Approach is what makes the
\* property inductive (platform_2dof_control_step, platform_2dof_step).
THEOREM NoOvershootHolds == PlatformSpec => []NoOvershoot
<1>1. PlatformCreate => Approach
  BY DEF PlatformCreate, Approach, Blocks
<1>2. PlatInv /\ Approach => NoOvershoot
  BY DEF PlatInv, PlatTypeOK, Approach, NoOvershoot, Between
<1> QED
  BY <1>1, <1>2, PlatInvInit, PlatInvStep, ApproachStep, PTL DEF PlatformSpec

-----------------------------------------------------------------------------
(* The static variable of a typed accessor does no harm, for any number of  *)
(* threads.  A thread that relies on the variable has compared it with its  *)
(* port; ports only have types that are registered, and the variable is     *)
(* only ever assigned a registered type.                                    *)

CallPositions == {"idle", "lookup", "check", "length"}
CallOutcomes  == {"none", "direction", "unregistered", "mismatch", "length", "passed"} \X Nat \X Nat

AccTypeOK ==
  /\ registered \in Nat /\ loads \in Nat /\ type \in Nat
  /\ ports \in [Threads -> [type : Nat, len : Nat]]
  /\ active \subseteq Threads
  /\ pc \in [Threads -> CallPositions]
  /\ reg \in [Threads -> Nat]
  /\ arg \in [Threads -> Nat]
  /\ outcome \in [Threads -> CallOutcomes]

\* the type of the accessor never is at the address of another one
Addresses == registered # Other /\ type # Other

\* a port has a type that is registered
PortTypes == \A t \in Threads : ports[t].type \in {NoType, Other, registered}

\* what a thread in the accessor may rely on
Reliance ==
  \A t \in Threads : pc[t] # "idle" =>
    /\ t \in active /\ ports[t].type # NoType /\ arg[t] \in PortLengths
    /\ pc[t] \in {"check", "length"} => reg[t] = registered /\ type = registered
    /\ pc[t] = "length" => ports[t].type = registered

AccInv == AccTypeOK /\ Addresses /\ PortTypes /\ Reliance /\ JudgedAlone

LEMMA AccInitInv == AccInit => AccInv
<1> SUFFICES ASSUME AccInit PROVE AccInv
    OBVIOUS
<1>1. AccTypeOK
      BY DEF AccInit, AccTypeOK, NoType, NoPort, None, CallPositions, CallOutcomes
<1>2. Addresses /\ PortTypes /\ Reliance
      BY DEF AccInit, Addresses, PortTypes, Reliance, NoType, Other, NoPort
<1>3. JudgedAlone
      BY DEF AccInit, JudgedAlone
<1> QED
    BY <1>1, <1>2, <1>3 DEF AccInv

\* The script: what it changes belongs to no thread in the accessor.
LEMMA ScriptStep ==
  ASSUME AccInv, NEW t \in Threads, Forget(t),
         NEW ty \in {NoType, Other, registered}, NEW n \in Nat,
         ports' = [ports EXCEPT ![t] = [type |-> ty, len |-> n]]
  PROVE  AccInv'
<1> USE DEF AccInv, Forget
<1>1. AccTypeOK'
  <2>1. [type |-> ty, len |-> n] \in [type : Nat, len : Nat]
        BY DEF AccTypeOK, NoType, Other
  <2>2. None \in CallOutcomes
        BY DEF None, CallOutcomes, NoType
  <2> QED
      BY <2>1, <2>2 DEF AccTypeOK
<1>2. \A s \in Threads \ {t} : ports'[s] = ports[s] /\ outcome'[s] = outcome[s]
      BY DEF AccTypeOK
<1>3. outcome'[t] = None
      BY DEF AccTypeOK
<1>4. Addresses'
      BY DEF Addresses
<1>5. PortTypes'
  <2>1. ports'[t].type = ty
        BY DEF AccTypeOK
  <2> QED
      BY <1>2, <2>1 DEF PortTypes
<1>6. Reliance'
      BY <1>2 DEF Reliance
<1>7. JudgedAlone'
  <2> SUFFICES ASSUME NEW s \in Threads, outcome'[s] # None
               PROVE  outcome'[s] \in Verdict(s)'
      BY DEF JudgedAlone
  <2>1. s # t
        BY <1>3
  <2> QED
      BY <2>1, <1>2 DEF JudgedAlone, Verdict
<1> QED
    BY <1>1, <1>4, <1>5, <1>6, <1>7

\* A thread that goes on in the accessor, with what it has to know there.
LEMMA ContinueStep ==
  ASSUME AccInv, NEW t \in Threads, NEW at \in CallPositions \ {"idle"}, NEW v \in Nat,
         NEW n \in PortLengths,
         Continue(t, at, v), UNCHANGED portVars,
         arg' = [arg EXCEPT ![t] = n],
         type' = type \/ type' = registered,
         t \in active, ports[t].type # NoType,
         at \in {"check", "length"} => v = registered /\ type' = registered,
         at = "length" => ports[t].type = registered
  PROVE  AccInv'
<1> USE AccessorsAssumption DEF AccInv, Continue, portVars
<1>1. AccTypeOK'
      BY DEF AccTypeOK, AccessorsAssumption, CallPositions
<1>2. Addresses' /\ PortTypes'
      BY DEF Addresses, PortTypes
<1>3. \A s \in Threads \ {t} : pc'[s] = pc[s] /\ reg'[s] = reg[s] /\ arg'[s] = arg[s]
      BY DEF AccTypeOK
<1>4. pc'[t] = at /\ reg'[t] = v /\ arg'[t] = n
      BY DEF AccTypeOK
<1>5. Reliance'
  <2> SUFFICES ASSUME NEW s \in Threads, pc'[s] # "idle"
               PROVE  /\ s \in active /\ ports[s].type # NoType /\ arg'[s] \in PortLengths
                      /\ pc'[s] \in {"check", "length"} => reg'[s] = registered /\ type' = registered
                      /\ pc'[s] = "length" => ports[s].type = registered
      BY DEF Reliance
  <2>1. CASE s = t
        BY <2>1, <1>4
  <2>2. CASE s # t
        BY <2>2, <1>3 DEF Reliance
  <2> QED
      BY <2>1, <2>2
<1>6. JudgedAlone'
      BY DEF JudgedAlone, Verdict
<1> QED
    BY <1>1, <1>2, <1>5, <1>6

\* A thread that returns with an outcome that its port justifies.
LEMMA ReturnStep ==
  ASSUME AccInv, NEW t \in Threads, NEW what, NEW ty, NEW n,
         Return(t, what, ty, n), UNCHANGED <<portVars, type>>,
         <<what, ty, n>> \in CallOutcomes, <<what, ty, n>> \in Verdict(t)
  PROVE  AccInv'
<1> USE DEF AccInv, Return, portVars
<1>1. AccTypeOK'
      BY DEF AccTypeOK, CallPositions, NoType
<1>2. Addresses' /\ PortTypes'
      BY DEF Addresses, PortTypes
<1>3. \A s \in Threads \ {t} :
        /\ pc'[s] = pc[s] /\ reg'[s] = reg[s] /\ arg'[s] = arg[s] /\ outcome'[s] = outcome[s]
      BY DEF AccTypeOK
<1>4. pc'[t] = "idle" /\ outcome'[t] = <<what, ty, n>>
      BY DEF AccTypeOK
<1>5. Reliance'
      BY <1>3, <1>4 DEF Reliance
<1>6. JudgedAlone'
  <2>1. \A s \in Threads : Verdict(s)' = Verdict(s)
        BY DEF Verdict
  <2> QED
      BY <2>1, <1>3, <1>4 DEF JudgedAlone
<1> QED
    BY <1>1, <1>2, <1>5, <1>6

LEMMA AccNextInv == AccInv /\ [AccNext]_accVars => AccInv'
<1> SUFFICES ASSUME AccInv, [AccNext]_accVars PROVE AccInv'
    OBVIOUS
<1> USE AccessorsAssumption
<1>1. ASSUME NEW t \in Threads, NEW n \in PortLengths, NEW ty \in Other .. Other + MaxLoads,
             PortAdd(t, ty, n)
      PROVE  AccInv'
  <2> DEFINE m == IF n = 0 THEN 1 ELSE n
  <2>1. m \in Nat
        BY DEF AccessorsAssumption
  <2> HIDE DEF m
  <2>2. /\ Forget(t) /\ ty \in {NoType, Other, registered}
        /\ ports' = [ports EXCEPT ![t] = [type |-> ty, len |-> m]]
        BY <1>1 DEF PortAdd, m
  <2> QED
      BY <2>1, <2>2, ScriptStep
<1>2. ASSUME NEW t \in Threads, OutportAdd(t) PROVE AccInv'
      BY <1>2, ScriptStep DEF OutportAdd
<1>3. ASSUME NEW t \in Threads, NEW n \in PortLengths, Resize(t, n) PROVE AccInv'
  <2> DEFINE ty == ports[t].type
  <2>1. ty \in {NoType, Other, registered} /\ n \in Nat
        BY DEF AccInv, PortTypes, AccessorsAssumption
  <2>2. ports' = [ports EXCEPT ![t] = [type |-> ty, len |-> n]]
        BY <1>3 DEF Resize, AccInv, AccTypeOK
  <2>3. Forget(t)
        BY <1>3 DEF Resize
  <2> HIDE DEF ty
  <2> QED
      BY <2>1, <2>2, <2>3, ScriptStep
<1>4. ASSUME NEW t \in Threads, PortRm(t) PROVE AccInv'
      BY <1>4, ScriptStep DEF PortRm, NoPort
<1>5. ASSUME NEW t \in Threads, StartStop(t) PROVE AccInv'
  <2> USE DEF AccInv, StartStop, callVars
  <2>1. AccTypeOK' /\ Addresses' /\ PortTypes'
        BY <1>5 DEF AccTypeOK, Addresses, PortTypes
  <2>2. Reliance'
        BY <1>5 DEF Reliance
  <2>3. JudgedAlone'
        BY <1>5 DEF JudgedAlone, Verdict
  <2> QED
      BY <2>1, <2>2, <2>3
<1>6. ASSUME NEW t \in Threads, NEW len \in PortLengths, Called(t, len) PROVE AccInv'
  <2>1. CASE ports[t].type = NoType
    <3>1. <<"direction", NoType, 0>> \in Verdict(t)
          BY <2>1 DEF Verdict, Errors
    <3>2. <<"direction", NoType, 0>> \in CallOutcomes
          BY DEF CallOutcomes, NoType
    <3>3. Return(t, "direction", NoType, 0) /\ UNCHANGED <<portVars, type>>
          BY <1>6, <2>1 DEF Called, Refuse
    <3> QED
        BY <3>1, <3>2, <3>3, ReturnStep
  <2>2. CASE ports[t].type # NoType
    <3> DEFINE at == IF ports[t].type = type THEN "length" ELSE "lookup"
    <3>1. /\ Continue(t, at, type) /\ arg' = [arg EXCEPT ![t] = len]
          /\ UNCHANGED portVars /\ type' = type /\ t \in active
          BY <1>6, <2>2 DEF Called
    <3>2. at \in CallPositions \ {"idle"} /\ at # "check"
          BY DEF CallPositions
    <3>3. at = "length" => ports[t].type = type
          OBVIOUS
    <3> HIDE DEF at
    <3>4. at = "length" => type = registered
          BY <3>3, <2>2 DEF AccInv, PortTypes, Addresses
    <3>5. type \in Nat
          BY DEF AccInv, AccTypeOK
    <3> QED
        BY <2>2, <3>1, <3>2, <3>3, <3>4, <3>5, ContinueStep
  <2> QED
      BY <2>1, <2>2
<1>7. ASSUME NEW t \in Threads, Lookup(t) PROVE AccInv'
  <2>1. /\ t \in active /\ ports[t].type # NoType /\ arg[t] \in PortLengths
        BY <1>7 DEF Lookup, AccInv, Reliance
  <2>2. arg' = [arg EXCEPT ![t] = arg[t]]
        BY <1>7 DEF Lookup, AccInv, AccTypeOK
  <2>3. type' = registered /\ Continue(t, "check", registered) /\ UNCHANGED portVars
        BY <1>7 DEF Lookup, Continue
  <2>4. "check" \in CallPositions \ {"idle"} /\ registered \in Nat
        BY DEF CallPositions, AccInv, AccTypeOK
  <2> QED
      BY <2>1, <2>2, <2>3, <2>4, ContinueStep
<1>8. ASSUME NEW t \in Threads, Check(t) PROVE AccInv'
  <2>1. /\ t \in active /\ ports[t].type # NoType /\ arg[t] \in PortLengths
        /\ reg[t] = registered /\ type = registered
        BY <1>8 DEF Check, AccInv, Reliance
  <2>2. UNCHANGED <<portVars, type>>
        BY <1>8 DEF Check
  <2>3. \/ registered = NoType /\ Refuse(t, "unregistered")
        \/ registered # NoType /\ ports[t].type # registered /\ Refuse(t, "mismatch")
        \/ ports[t].type = registered /\ Continue(t, "length", registered) /\ UNCHANGED arg
        BY <1>8, <2>1 DEF Check
  <2>4. CASE registered = NoType /\ Refuse(t, "unregistered")
    <3>1. <<"unregistered", NoType, 0>> \in Verdict(t)
          BY <2>1, <2>4 DEF Verdict, Errors
    <3>2. <<"unregistered", NoType, 0>> \in CallOutcomes
          BY DEF CallOutcomes, NoType
    <3> QED
        BY <2>2, <2>4, <3>1, <3>2, ReturnStep DEF Refuse
  <2>5. CASE registered # NoType /\ ports[t].type # registered /\ Refuse(t, "mismatch")
    <3>1. <<"mismatch", NoType, 0>> \in Verdict(t)
          BY <2>1, <2>5 DEF Verdict, Errors
    <3>2. <<"mismatch", NoType, 0>> \in CallOutcomes
          BY DEF CallOutcomes, NoType
    <3> QED
        BY <2>2, <2>5, <3>1, <3>2, ReturnStep DEF Refuse
  <2>6. CASE ports[t].type = registered /\ Continue(t, "length", registered) /\ UNCHANGED arg
    <3>1. arg' = [arg EXCEPT ![t] = arg[t]]
          BY <2>6 DEF AccInv, AccTypeOK
    <3>2. "length" \in CallPositions \ {"idle"} /\ registered \in Nat
          BY DEF CallPositions, AccInv, AccTypeOK
    <3> QED
        BY <2>1, <2>2, <2>6, <3>1, <3>2, ContinueStep
  <2> QED
      BY <2>3, <2>4, <2>5, <2>6
<1>9. ASSUME NEW t \in Threads, Pass(t) PROVE AccInv'
  <2>1. /\ ports[t].type # NoType /\ arg[t] \in PortLengths
        /\ reg[t] = registered /\ type = registered /\ ports[t].type = registered
        BY <1>9 DEF Pass, AccInv, Reliance
  <2>2. UNCHANGED <<portVars, type>>
        BY <1>9 DEF Pass
  <2>3. \/ Refuse(t, "length")
        \/ arg[t] <= ports[t].len /\ Return(t, "passed", registered, arg[t])
        BY <1>9, <2>1 DEF Pass, AccInv, AccTypeOK, AccessorsAssumption
  <2>4. CASE Refuse(t, "length")
    <3>1. <<"length", NoType, 0>> \in Verdict(t)
          BY <2>1 DEF Verdict, Errors
    <3>2. <<"length", NoType, 0>> \in CallOutcomes
          BY DEF CallOutcomes, NoType
    <3> QED
        BY <2>2, <2>4, <3>1, <3>2, ReturnStep DEF Refuse
  <2>5. CASE arg[t] <= ports[t].len /\ Return(t, "passed", registered, arg[t])
    <3>1. <<"passed", registered, arg[t]>> \in Verdict(t)
          BY <2>1, <2>5 DEF Verdict
    <3>2. <<"passed", registered, arg[t]>> \in CallOutcomes
          BY DEF CallOutcomes, AccInv, AccTypeOK
    <3> QED
        BY <2>2, <2>5, <3>1, <3>2, ReturnStep
  <2> QED
      BY <2>3, <2>4, <2>5
<1>10. ASSUME Load PROVE AccInv'
  <2> USE DEF AccInv
  <2>1. /\ \A t \in Threads : pc[t] = "idle" /\ outcome'[t] = None
        /\ outcome' = [t \in Threads |-> None]
        /\ UNCHANGED <<ports, active, type, pc, reg, arg>>
        BY <1>10 DEF Load
  <2>2. registered' \in Nat /\ loads' \in Nat /\ registered' # Other
        BY <1>10 DEF Load, AccTypeOK, NoType, Other
  <2>3. AccTypeOK'
    <3>1. None \in CallOutcomes
          BY DEF None, CallOutcomes, NoType
    <3> QED
        BY <2>1, <2>2, <3>1 DEF AccTypeOK
  <2>4. Addresses'
        BY <2>1, <2>2 DEF Addresses
  <2>5. PortTypes'
        BY <1>10, <2>1 DEF Load, PortTypes
  <2>6. Reliance' /\ JudgedAlone'
        BY <2>1 DEF Reliance, JudgedAlone
  <2> QED
      BY <2>3, <2>4, <2>5, <2>6
<1>11. CASE UNCHANGED accVars
  <2> USE <1>11 DEF AccInv, accVars, portVars, callVars
  <2>1. AccTypeOK' /\ Addresses' /\ PortTypes'
        BY DEF AccTypeOK, Addresses, PortTypes
  <2>2. Reliance'
        BY DEF Reliance
  <2>3. JudgedAlone'
        BY DEF JudgedAlone, Verdict
  <2> QED
      BY <2>1, <2>2, <2>3
<1> QED
    BY <1>1, <1>2, <1>3, <1>4, <1>5, <1>6, <1>7, <1>8, <1>9, <1>10, <1>11 DEF AccNext

\* Every call of a typed accessor comes to the outcome its port justifies, for
\* any number of threads that call it, of reloads of the type module and of
\* port lengths: the unlocked static variable is harmless in a process with
\* one node (def_port_readers, def_port_writers).
THEOREM JudgedAloneHolds == AccSpec => []JudgedAlone
<1>1. AccInv => JudgedAlone
      BY DEF AccInv
<1> QED
    BY AccInitInv, AccNextInv, <1>1, PTL DEF AccSpec

=============================================================================
