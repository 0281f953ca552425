------------------------------ MODULE Timespec ------------------------------
(***************************************************************************)
(* The time arithmetic of ubx_time.c: a time is a number of seconds and of *)
(* nanoseconds, whose signs agree once it is normalised.                   *)
(***************************************************************************)
EXTENDS Integers

CONSTANT NsecPerSec

ASSUME TimespecAssumption == NsecPerSec \in Nat \ {0}

Timespecs == [sec : Int, nsec : Int]
Zero      == [sec |-> 0, nsec |-> 0]

\* / and % of C for a positive divisor: towards zero
Quotient(a, b)  == IF a >= 0 THEN a \div b ELSE -((-a) \div b)
Remainder(a, b) == a - b * Quotient(a, b)

ts_cmp(a, b) ==
  IF a.sec > b.sec THEN 1
  ELSE IF a.sec < b.sec THEN -1
  ELSE IF a.nsec > b.nsec THEN 1
  ELSE IF a.nsec < b.nsec THEN -1
  ELSE 0

\* the first two steps: whole seconds move from nsec to sec
Carried(t) ==
  [sec |-> t.sec + Quotient(t.nsec, NsecPerSec), nsec |-> Remainder(t.nsec, NsecPerSec)]

\* the last two steps: nsec takes the sign of sec
ts_norm(t) ==
  LET c == Carried(t)
  IN  IF c.sec > 0 /\ c.nsec < 0 THEN [sec |-> c.sec - 1, nsec |-> c.nsec + NsecPerSec]
      ELSE IF c.sec < 0 /\ c.nsec > 0 THEN [sec |-> c.sec + 1, nsec |-> c.nsec - NsecPerSec]
      ELSE c

ts_sub(a, b) == ts_norm([sec |-> a.sec - b.sec, nsec |-> a.nsec - b.nsec])
ts_add(a, b) == ts_norm([sec |-> a.sec + b.sec, nsec |-> a.nsec + b.nsec])

\* the number of nanoseconds: ubx_ts_to_double times NSEC_PER_SEC, ubx_ts_to_ns
\* for times that are not negative
ts_to_ns(t) == t.sec * NsecPerSec + t.nsec

ts_div(t, d) ==
  LET ns == Quotient(ts_to_ns(t), d)
  IN  [sec |-> Quotient(ns, NsecPerSec), nsec |-> Remainder(ns, NsecPerSec)]

\* what ts_norm establishes
Normal(t) ==
  /\ -NsecPerSec < t.nsec /\ t.nsec < NsecPerSec
  /\ t.sec > 0 => t.nsec >= 0
  /\ t.sec < 0 => t.nsec <= 0
=============================================================================
