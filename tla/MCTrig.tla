------------------------------- MODULE MCTrig -------------------------------
(* Chain configs for ubx/trig: a disabled block, defaults, divisors.         *)
EXTENDS Trig

T(e, s) == [every |-> e, steps |-> s]

MCLists  == { <<>>, <<T(2, 0), T(0, 2)>>, <<T(1, -1)>> }
MCThirds == { <<T(3, 1)>> }

=============================================================================
