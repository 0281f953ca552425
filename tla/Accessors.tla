----------------------------- MODULE Accessors ------------------------------
(***************************************************************************)
(* The typed port accessors read_T_array and write_T_array, as several     *)
(* threads call one of them.  The accessor remembers the type it has last  *)
(* looked up in a static variable, which all threads and ports share       *)
(* without a lock.  Meanwhile a script adds, resizes and removes ports and *)
(* reloads the module that registers the type.  A type is a pointer: the   *)
(* type of the accessor is at another address each time it is loaded.      *)
(***************************************************************************)
EXTENDS Naturals

CONSTANTS
  Threads,     \* each steps a block with one port
  PortLengths, \* lengths of ports and of the calls
  MaxLoads     \* bound: how often the type is loaded

ASSUME AccessorsAssumption ==
  /\ PortLengths \subseteq Nat /\ MaxLoads \in Nat

VARIABLES
  registered, \* the type of the accessor as the node has it now
  loads,
  ports,      \* the port of each block
  active,     \* the threads whose block is ACTIVE; the others are PREINIT
  type,       \* the static variable
  pc,         \* where a thread is in the accessor
  reg,        \* the value of type the thread has last read
  arg,        \* the length it was called with
  outcome     \* what the last call came to

portVars == <<registered, loads, ports, active>>
callVars == <<type, pc, reg, arg, outcome>>
accVars  == <<portVars, callVars>>

NoType     == 0
Other      == 1
NoPort     == [type |-> NoType, len |-> 0]
HasPort(t) == ports[t] # NoPort
None       == <<"none", NoType, 0>>

AccInit ==
  /\ registered = NoType /\ loads = 0
  /\ ports = [t \in Threads |-> NoPort]
  /\ active = {}
  /\ type = NoType
  /\ pc = [t \in Threads |-> "idle"] /\ reg = [t \in Threads |-> NoType]
  /\ arg = [t \in Threads |-> 0] /\ outcome = [t \in Threads |-> None]

-----------------------------------------------------------------------------
(* The script.  It leaves the port of a block alone while the block steps.  *)

\* the outcome of a call on a port that has changed says nothing any more
Forget(t) ==
  /\ pc[t] = "idle"
  /\ outcome' = [outcome EXCEPT ![t] = None]
  /\ UNCHANGED <<registered, loads, active, type, pc, reg, arg>>

\* ubx_inport_add with a registered type; a port with data length 0 gets 1
PortAdd(t, ty, n) ==
  /\ ~HasPort(t)
  /\ ty \in {registered, Other} \ {NoType}
  /\ ports' = [ports EXCEPT ![t] = [type |-> ty, len |-> IF n = 0 THEN 1 ELSE n]]
  /\ Forget(t)

\* ubx_outport_add: the port cannot be read from
OutportAdd(t) ==
  /\ ~HasPort(t)
  /\ ports' = [ports EXCEPT ![t] = [type |-> NoType, len |-> 1]]
  /\ Forget(t)

\* ubx_inport_resize: only while the block is not yet initialised
Resize(t, n) ==
  /\ ports[t].type # NoType /\ t \notin active
  /\ ports' = [ports EXCEPT ![t] = [type |-> ports[t].type, len |-> n]]
  /\ Forget(t)

PortRm(t) ==
  /\ HasPort(t) /\ t \notin active
  /\ ports' = [ports EXCEPT ![t] = NoPort]
  /\ Forget(t)

\* from PREINIT to ACTIVE or back, with all hooks in between
StartStop(t) ==
  /\ pc[t] = "idle"
  /\ active' = IF t \in active THEN active \ {t} ELSE active \cup {t}
  /\ UNCHANGED <<registered, loads, ports, callVars>>

\* the type module is loaded, or unloaded when no block uses its type
Load ==
  /\ \/ /\ registered = NoType /\ loads < MaxLoads
        /\ loads' = loads + 1
        /\ registered' = Other + loads'
     \/ /\ registered # NoType
        /\ \A t \in Threads : ports[t].type # registered
        /\ registered' = NoType
        /\ UNCHANGED loads
  /\ \A t \in Threads : pc[t] = "idle"
  /\ outcome' = [t \in Threads |-> None]
  /\ UNCHANGED <<ports, active, type, pc, reg, arg>>

-----------------------------------------------------------------------------
(* The accessor.  Another thread may assign type between any two accesses;  *)
(* the build may or may not read it again.                                  *)

Return(t, what, ty, len) ==
  /\ pc' = [pc EXCEPT ![t] = "idle"]
  /\ reg' = [reg EXCEPT ![t] = NoType] /\ arg' = [arg EXCEPT ![t] = 0]
  /\ outcome' = [outcome EXCEPT ![t] = <<what, ty, len>>]

Refuse(t, error) == Return(t, error, NoType, 0)

Continue(t, at, value) ==
  /\ pc' = [pc EXCEPT ![t] = at]
  /\ reg' = [reg EXCEPT ![t] = value]
  /\ UNCHANGED outcome

\* Slip: the type is looked up on the first call only
CalledOnce(t, len) ==
  /\ pc[t] = "idle" /\ t \in active /\ HasPort(t)
  /\ IF ports[t].type = NoType THEN Refuse(t, "direction")
     ELSE /\ Continue(t, IF type = NoType THEN "lookup" ELSE "length", type)
          /\ arg' = [arg EXCEPT ![t] = len]
  /\ UNCHANGED <<portVars, type>>

\* the direction of the port, and whether its type is the one remembered
Called(t, len) ==
  /\ pc[t] = "idle" /\ t \in active /\ HasPort(t)
  /\ IF ports[t].type = NoType THEN Refuse(t, "direction")
     ELSE /\ Continue(t, IF ports[t].type = type THEN "length" ELSE "lookup", type)
          /\ arg' = [arg EXCEPT ![t] = len]
  /\ UNCHANGED <<portVars, type>>

\* ubx_type_get, assigned to type
Lookup(t) ==
  /\ pc[t] = "lookup"
  /\ type' = registered
  /\ Continue(t, "check", type')
  /\ UNCHANGED <<portVars, arg>>

Check(t) ==
  /\ pc[t] = "check"
  /\ \E v, w \in {reg[t], type} :
       IF v = NoType THEN Refuse(t, "unregistered")
       ELSE IF ports[t].type # w THEN Refuse(t, "mismatch")
       ELSE Continue(t, "length", w) /\ UNCHANGED arg
  /\ UNCHANGED <<portVars, type>>

\* data.type = type; then __port_read or __port_write, as module Ports has them
Pass(t) ==
  /\ pc[t] = "length"
  /\ \E v \in {reg[t], type} :
       IF arg[t] > ports[t].len THEN Refuse(t, "length") ELSE Return(t, "passed", v, arg[t])
  /\ UNCHANGED <<portVars, type>>

AccNext ==
  \/ \E t \in Threads :
       \/ \E n \in PortLengths, ty \in Other .. Other + MaxLoads : PortAdd(t, ty, n)
       \/ \E n \in PortLengths : Resize(t, n)
       \/ OutportAdd(t) \/ PortRm(t) \/ StartStop(t)
       \/ \E len \in PortLengths : Called(t, len)
       \/ Lookup(t) \/ Check(t) \/ Pass(t)
  \/ Load

AccSpec == AccInit /\ [][AccNext]_accVars

-----------------------------------------------------------------------------
Errors(S) == S \X {NoType} \X {0}

\* what a call on the port of t says when it is the only one in the process
Verdict(t) ==
  LET p == ports[t] IN
  IF p.type = NoType THEN Errors({"direction"})
  ELSE IF registered = NoType THEN Errors({"unregistered"})
  ELSE IF p.type # registered THEN Errors({"mismatch"})
  ELSE Errors({"length"}) \cup {<<"passed", p.type, n>> : n \in {k \in PortLengths : k <= p.len}}

\* A call comes to the same outcome as if there were no other in the process:
\* whatever the static variable was left with by other threads, other ports and
\* modules that were unloaded and loaded again, only a port of the type passes,
\* with a length it has and the type as it is registered now (def_port_readers,
\* def_port_writers).
JudgedAlone ==
  \A t \in Threads : outcome[t] # None => outcome[t] \in Verdict(t)
=============================================================================
