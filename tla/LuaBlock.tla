------------------------------ MODULE LuaBlock ------------------------------
(***************************************************************************)
(* ubx/luablock: its hooks call the functions of a user's script, which    *)
(* may return anything, raise an error or be missing.  Code that arrives   *)
(* on port exec_str is run before the step function.                       *)
(***************************************************************************)
EXTENDS Life

CONSTANT StackSlots  \* the stack of a Lua state: with one more value it panics

ASSUME LuaBlockAssumption == StackSlots \in Nat

\* inf is the height of the stack of the Lua state, out the last answer on port
\* exec_str, seen the errors and the values that exec_str code has returned
LuaCreate == Created("lua", <<>>) /\ out = NoData /\ seen = 0

Outcomes == {"missing", "error", "true", "false", "other"}

\* Slip: the result is not popped
LeftUnpopped(outcome, require_res) ==
  IF outcome = "error" \/ (require_res /\ outcome # "missing") THEN 1 ELSE 0

\* what call_hook leaves on the stack: the message of an error, and a result
\* that is not the bool it has to be
Left(outcome, require_res) ==
  IF outcome = "error" \/ (require_res /\ outcome = "other") THEN 1 ELSE 0

\* a missing function is fine, also where a result is required
Succeeds(outcome) == outcome \in {"missing", "true"}

\* the hook leaves n values on the stack and then the block is in state s
Leave(n, s) ==
  IF inf + n > StackSlots THEN state' = "crashed" /\ UNCHANGED inf
  ELSE state' = s /\ inf' = inf + n

\* a failure of the script or of its init function closes nothing
LuaInit ==
  /\ kind = "lua"
  /\ \/ InitOk(0) /\ out' = NoData /\ seen' = 0
     \/ InitFails

LuaStart(outcome) ==
  /\ kind = "lua" /\ state = "inactive"
  /\ Leave(Left(outcome, TRUE), IF Succeeds(outcome) THEN "active" ELSE "inactive")
  /\ seen' = IF outcome \in {"error", "other"} THEN seen + 1 ELSE seen
  /\ UNCHANGED <<kind, cfg, out, now>>

\* code is NoData, Failed if it raises an error, or the number of values the code returns
LuaStep(code, outcome) ==
  /\ kind = "lua" /\ state = "active"
  /\ LET failed == code = Failed
         values == IF code \in Nat THEN code ELSE IF failed THEN 1 ELSE 0
     IN  /\ Leave(values + IF failed THEN 0 ELSE Left(outcome, FALSE), "active")
         /\ seen' = seen + values + IF ~failed /\ outcome = "error" THEN 1 ELSE 0
         /\ out' = IF code = NoData THEN out ELSE IF failed THEN 1 ELSE 0
  /\ UNCHANGED <<kind, cfg, now>>

LuaStop(outcome) ==
  /\ kind = "lua" /\ state = "active"
  /\ Leave(Left(outcome, FALSE), "inactive")
  /\ seen' = IF outcome = "error" THEN seen + 1 ELSE seen
  /\ UNCHANGED <<kind, cfg, out, now>>

\* lua_close after the call
LuaCleanup == kind = "lua" /\ Cleanup

LuaNext ==
  \/ LuaInit \/ LuaCleanup
  \/ \E o \in Outcomes : LuaStart(o) \/ LuaStop(o)
  \/ \E o \in Outcomes, code \in {NoData, Failed} \cup 0 .. 1 : LuaStep(code, o)

\* A script that raises no error, returns a bool where it has to and whose
\* exec_str code returns nothing may run forever: the stack of its Lua state
\* only grows by what an error or such code leaves there, over any number of
\* starts and steps (call_hook, luablock_step).
LuaStackKept == kind = "lua" /\ state \in {"inactive", "active"} => inf <= seen

=============================================================================
