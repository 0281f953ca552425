--------------------------- MODULE TriggerService ---------------------------
(***************************************************************************)
(* What a trigger block promises to the rest of a node: it triggers its    *)
(* chain only while it is on, it is never switched on or off in the middle *)
(* of a trigger, and while it stays on it keeps triggering.                *)
(***************************************************************************)
VARIABLES
  on,      \* a start has succeeded and the stop that follows has not returned
  firing   \* the chain is being triggered

vars == <<on, firing>>

Init == on = FALSE /\ firing = FALSE

SwitchOn  == ~on /\ ~firing /\ on' = TRUE  /\ UNCHANGED firing
SwitchOff ==  on /\ ~firing /\ on' = FALSE /\ UNCHANGED firing
Fire      ==  on /\ ~firing /\ firing' = TRUE /\ UNCHANGED on
Done      ==  firing /\ firing' = FALSE /\ UNCHANGED on

Next == SwitchOn \/ SwitchOff \/ Fire \/ Done

Spec == Init /\ [][Next]_vars

FairSpec == Spec /\ WF_vars(Fire) /\ WF_vars(Done)

=============================================================================
