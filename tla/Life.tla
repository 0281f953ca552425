-------------------------------- MODULE Life --------------------------------
(***************************************************************************)
(* The life cycle that all computation blocks share, seen from one block:  *)
(* a script configures it, initialises it, starts it, steps it through a   *)
(* trigger, stops it and cleans it up, in any order the states allow, as   *)
(* often as it likes, and changes configs in any state.                    *)
(*                                                                         *)
(* The blocks treat the elements of their data arrays alike and apart, so  *)
(* that one element stands for an array: a config is Unset, has a BadLen   *)
(* or has the length of data_len and a value.                              *)
(***************************************************************************)
EXTENDS Integers, Sequences, Timespec

CONSTANTS
  Unset,    \* a config of length 0
  BadLen,   \* a config or sample whose length is not data_len
  NoData,   \* a port read that returns 0, a port that was not yet written
  Failed,   \* a port read that returns an error
  Values    \* numbers: samples and config values

ASSUME LifeAssumption ==
  /\ Values \subseteq Int
  /\ \A x \in {Unset, BadLen, NoData, Failed} : x \notin Int
  /\ Unset # BadLen

VARIABLES
  kind,   \* the type of the block
  state,  \* b->block_state
  cfg,    \* the configs of the block
  inf,    \* b->private_data, Unset when there is none
  out,    \* what the block has last written to its ports
  now,    \* the clock; only some blocks read it
  seen    \* history, for the properties

vars == <<kind, state, cfg, inf, out, now, seen>>

Samples == Values \cup {NoData, BadLen, Failed}
Set(c)  == cfg[c] \in Int

Created(k, configs) ==
  /\ kind = k /\ state = "preinit"
  /\ cfg = configs /\ inf = Unset /\ now = Zero

\* ubx_block_init with an init hook that leaves the private data i
InitOk(i) ==
  /\ state = "preinit"
  /\ state' = "inactive"
  /\ inf' = i
  /\ UNCHANGED <<kind, cfg, now>>

\* ubx_block_init when the lengths are refused or the hook fails
InitFails ==
  /\ state = "preinit"
  /\ inf' = Unset
  /\ UNCHANGED <<kind, state, cfg, out, now, seen>>

\* ubx_block_start with a start hook that leaves the private data i
StartOk(i) ==
  /\ state = "inactive"
  /\ state' = "active"
  /\ inf' = i
  /\ UNCHANGED <<kind, cfg, out, now>>

\* ubx_cblock_step: the step hook runs
Stepping == state = "active" /\ UNCHANGED <<kind, state, cfg, now>>

\* ubx_block_stop of a block without stop hook
Stop ==
  /\ state = "active"
  /\ state' = "inactive"
  /\ UNCHANGED <<kind, cfg, inf, out, now, seen>>

\* ubx_block_cleanup with a cleanup hook that frees everything
Cleanup ==
  /\ state = "inactive"
  /\ state' = "preinit"
  /\ inf' = Unset
  /\ UNCHANGED <<kind, cfg, out, now, seen>>

\* data_set of ubx.lua.  Once the block is initialised a config keeps its
\* length or is set for the first time: module Config has what else can happen.
Configure(c, v) ==
  /\ v \in Values \/ (state = "preinit" /\ v \in {Unset, BadLen})
  /\ state # "preinit" => cfg[c] # BadLen
  /\ cfg' = [cfg EXCEPT ![c] = v]
  /\ UNCHANGED <<kind, state, inf, out, now, seen>>

ConfigureAny == \E c \in DOMAIN cfg, v \in Values \cup {Unset, BadLen} : Configure(c, v)
=============================================================================
