# A verification project for microblx

microblx runs *blocks* - small C objects with ports, configs and hooks - in a
*node*.  This directory holds TLA+ models of its core - how blocks come and go,
how they are configured and launched, how they are triggered in real time, how
they exchange data and how they log - and of the standard blocks.  TLC checks the
models on small instances; TLAPS proves theorems about nearly all of them for every
value of their constants.

Paths are relative to the root of the repository.  Run the tools in this
directory: `tlc -config MCTrig.cfg MCTrig`, `tlapm Node_proofs.tla`.

## 1. The system

| component | state | operations | interacts with |
|---|---|---|---|
| **node** (`libubx/ubx.c`) | loaded modules, registered types with their sequence numbers, blocks by name | load and unload modules, register and unregister, create, clone and remove blocks, `init/start/stop/cleanup`, clear, cleanup, rm | modules call back to register; blocks run their hooks |
| **ports** (`ubx.c`) | per port the NULL-terminated arrays of interactions | connect, disconnect, `__port_read`, `__port_write` | call the `read` and `write` hooks of interaction blocks, from any thread that steps a block |
| **interactions** (`lfds_cyclic.c`, `mqueue.c`, `simple_fifo.c`) | a ring of elements; a kernel queue under a name; a byte ring | init, cleanup, `write`, `read` | used by several threads without a lock (lfds), by several processes through the kernel, with a mutex |
| **typed accessors** (`typemacros.h`) | the type of the last call, in a static variable | `read_T_array`, `write_T_array`, `cfg_getptr_T`, `cfg_set_T` | called by the hooks of blocks, from any thread |
| **configs and data** (`ubx.c`, `typemacros.h`) | typed values with a length and a reference count | add, set, assign, resize, remove, check of the limits | blocks cache pointers to them, scripts hold them |
| **trigger chains** (`trig_utils.c`, `trig/common.c`) | triggees with divisors, counters, statistics, output rotation | configure, trigger, output, unconfigure | call `ubx_cblock_step` |
| **trig** (`trig.c`) | chains, active chain | the hooks of a block | is stepped by another trigger |
| **ptrig** (`ptrig.c`) | mutex, condition, `state` and `thread_state`, autostop counter | init creates a thread; start, stop and cleanup talk to it | the thread triggers the chain and writes its own block's state |
| **real-time log** (`rtlog.c`, `rtlog_client.c`, `tools/ubx-log.c`) | a ring of messages and a write position in shared memory, a spinlock in it | log; attach, seek, status, read, reset | threads and processes write, a reader follows without a lock |
| **blockdiagram** (`lua/blockdiagram.lua`) | a tree of systems | validate, merge, create, configure, init, configure again, connect, start, shut down | drives the node |
| **computation blocks** (`std_blocks/ramp`, `const`, `pid`, `saturation`, `math`, `examples/random.c`, `threshold.c`) | gains, a running value, an integral, the last event | the hooks of a block | read configs through cached pointers, samples through accessors |
| **luablock** (`luablock.c`) | a Lua state and its stack | hooks that call a script | runs the user's code |
| **time** (`ubx_time.c`) | - | compare, add, subtract, divide, convert | used by every block that measures time |
| **platform tutorial** (`examples/platform`) | position, time of the last step | two blocks in closed loop, C programs that launch them | clients of all of the above |
| **ubx.lua**, tools, type modules, webif, md5, Lua support | - | - | wrappers, user interface, third-party |

What is hard in it:

* *Interleaving.*  `ptrig_stop` polls a flag of the trigger thread without the
  mutex; the thread writes the `block_state` of its own block; `ubx_node_rm`
  stops and frees blocks that the thread is stepping; several threads write to
  one ring buffer; the reader of the log has no lock.
* *Failure.*  A stop can time out, the thread can die in its sleep, `realloc`
  can fail in the middle of a configuration, the init of a module can fail
  after it has registered a type.
* *Ordering and long sequences.*  Restarts with other configs, modules loaded
  and unloaded in any order, instances that share a name with a prototype.
* *Limits.*  A full buffer, a ring that is overwritten while it is read,
  32-bit counters and offsets that wrap, the stack of a Lua state.
* *Stale state.*  Configs are read through pointers that a resize moves; a static
  variable of an accessor outlives the type it names; what a block remembers
  from before a stop.
* *Crashes.*  A process may die with a queue of the kernel open.
* *Liveness.*  Autostop, join of a cancelled thread, a spinlock, a start that
  must wake a thread, a launch that must end whatever fails.

What makes each of them correct is the list of properties in section 3;
`PROJECT.json` lists the hazards with the line where each bites and the
properties that cover it, and all components, the ones not modelled too.

## 2. The modules

| module | models | composes or implements |
|---|---|---|
| `Ptrig` | `ptrig.c`, both threads | implements `TriggerService` |
| `TriggerService` | what a trigger block promises | - |
| `PtrigNode`, `MCPtrigNode` | a launched node: startup, `ubx_node_clear`, `ubx_cblock_step` and the trigger thread | extends `Ptrig`, implements its `Spec` |
| `Chain` | `struct ubx_chain` of `trig_utils.c`, as operators | used by `Trig` |
| `Trig`, `MCTrig` | `trig.c` with several chains | extends `Chain` |
| `RtLog` | the real-time log, writers and reader | - |
| `Node`, `MCNode` | the registry and the life cycle of `ubx.c` | - |
| `Ports`, `MCPorts` | ports, connections, `lfds_cyclic`, `mqueue` of one process | - |
| `Mqueue`, `MCMqueue` | the life of `mqueue` blocks in processes that may crash | - |
| `Config` | configs, shared data and the pointers to it | - |
| `Launch`, `MCConfig` | a launch of `blockdiagram.lua`, a C main, a free script | extends and implements `Config` |
| `Accessors` | the typed accessors under a reloading script | - |
| `Timespec` | `ubx_time.c`, as operators | used by `Life` |
| `Life` | the life cycle of one block, as its hooks see it | extends `Timespec` |
| `Sources` | ramp, const, random | extends `Life` |
| `Filters` | pid, threshold, saturation, math | extends `Life` |
| `LuaBlock`, `SimpleFifo` | the blocks of these names | extend `Life` |
| `Platform` | the control loop of the platform tutorial | extends `Life` |
| `MCBlocks` | one instance of each of the above, and of `Accessors` | extends them all |
| `PtrigNode_proofs` | theorems about `Ptrig` and `PtrigNode` | extends `PtrigNode` |
| `Launch_proofs` | theorems about `Config` and `Launch` | extends `Launch` |
| `Blocks_proofs` | theorems about `Timespec`, `Sources`, `Filters`, `LuaBlock`, `SimpleFifo`, `Platform`, `Accessors` | extends them |
| `Trig_proofs`, `RtLog_proofs`, `Node_proofs`, `Ports_proofs`, `Mqueue_proofs` | theorems about the module of the name | extend their module |

Definitions marked "Slip" are plausible mistakes - a dropped guard, a missing
signal, a wrong order.  No specification uses them.
Each property is known to fail when the definition it is paired with in
`PROJECT.json` ("mutants") is replaced by such a slip, so none holds by the
shape of its model.

### Ptrig

*State.*  `infState` and `threadState` are `inf->state` and
`inf->thread_state`; `mutex`, `signalled` and `cancelled` stand for the
pthread objects; `mpc` and `tpc` are the places of the two threads;
`blkTstats` says for each chain whether its statistics buffer is null, live or
freed.  `triggers` and `unflushed` are history.

*Actions.*  One action is one access to shared state.  `ptrig_start` is
`StartCall`, `ConfigChain` (one per chain, or `ConfigChainFail`) and
`StartSignal`; `ptrig_stop` is `StopCall`, `StopRequest`, then a poll that ends
in `StopSeen` or `StopTimeout`, `StopUnconfig` and `StopReturn`;
`ptrig_cleanup` is `CleanupCall` and `CleanupJoin`.  `thread_startup` is `Lock`,
`ObserveStopped`/`ObserveActive`, `OutputStats`, `CondWait`, `Wake`, and in the
cyclic part `ReadActchain`, `Trigger`, `CountStep`, the autostop actions and
`Sleep`.  The block_state changes of `ubx_block_start` and friends are part of
these actions.  A wait may end spuriously.  `Faults` switches on stop timeouts,
a thread that exits when its sleep is interrupted, and failing allocations.

*Not in it:* periods and time stamps, the content of the statistics,
scheduling parameters, and a `pthread_setaffinity_np` that fails after the
thread was created.

### PtrigNode

The main thread runs the loops of `system.launch` and `ubx_node_clear`
(`phase`, `turn`) over the blocks in creation order, one hook at a time; the
hooks of computation blocks take time (`hook`), and the trigger thread can come
in between.  `Trigger` of `Ptrig` becomes a loop over the triggees
(`StepRefused`, `StepEnter`, `StepLeave`, `ChainDone`).  The user may stop and
restart the trigger, and may ask for the removal of the node at any time.

### Chain and Trig

`Chain` keeps the fields of `struct ubx_chain` that are not times; a statistics
record is the number of its measurements.  `W` is 2^32.  `Configure` is
`common_config_chains` with `ubx_chain_init`, `Triggered` is
`ubx_chain_trigger`, and so on.  In `Trig` a step triggers the active chain, whose
triggees may or may not be ACTIVE, and may switch to another chain first.

### RtLog

Memory is an array of words; a message is `FrameSize` words and is copied and
printed word by word, so a reader can see half of one.  The write position is
read and written in two steps under the spinlock.  `Joiners` are processes that
call `ubx_log_init` while others log, which initialises the spinlock again.
Offsets and wrap counters keep their width (`OffMod`, `WrapMod`).

### Node

`Code` says what the init and cleanup functions of each library do: the types
they register, whether they check the result, the prototype, what it needs and
what they unregister.  `ModuleLoad`, `ModuleLoadFails`, `ModuleUnload`,
`BlockCreate`, `BlockRm`, the four life cycle calls, `NodeClear` and
`NodeCleanup` are the functions of `ubx.c`.  A block's address is its number, so
that a name can be used again; `held` is the history of init hooks without
their cleanup.  A module may be unloaded whatever is in use, as the code allows, and
an init function may fail after it has registered types.  `careless` is the history of
the modules this has happened to, and `Excused` adds those whose cleanup function
does not take back what their init function registers; the properties are
about everything else.  Life cycle hooks that fail leave the state as it was and are
stuttering steps.

### Ports

Each port has a thread.  `conns` are the arrays of interactions, repacked by
`Removed` as `array_block_rm` does.  A write goes over all connections
(`BeginWrite`, `SkipTarget`, the steps of an interaction, `EndLoop`); a read ends
at the first that has data.  `cyclic_write` is `TakeFree` or `TakeOldest`, then
`CountOverrun` and `StoreOverrun` (the unlocked `overruns++`), `CopyIn`,
`PutWritten`; `cyclic_read` is `TakeRead`, `CopyOut`, `PutRead`; `mqueue` is `MqSend`
and `MqReceive`.  The ring buffer of liblfds and the queues of the kernel are
external: their operations are atomic.  An interaction that refuses the type or
length of a sample is a pair that is not in `Fits`.  A port is not reconnected
during a call on it, because the array is reallocated.

*Not in it:* the port `overruns`, partial messages, blocking queues, failing
allocation of a connection, removal of an interaction that is connected, and the
disconnect of a block from a port that was never connected (`array_block_rm` follows
the NULL of its array, section 5).

### Mqueue

A queue lives in the kernel (`queues`, and `linked` for the names); a block opens
one in `mqueue_init` and closes it in `mqueue_cleanup`, which also unlinks whatever
queue has the name at that time if config `unlink` says so.  A process may crash,
which closes its queues and leaves the names.  The blocks of a process that has
crashed begin again.  Messages are counted only.

### Config and Launch

A `ubx_data` is its length and its reference count.  The data that a block makes
for itself is named by the block and the config; node configs are data that a
script holds.  `Create` and `Remove` of a block, `Assign`, `CfgSet` and `DataSet` of
clients, garbage collection, and the life cycle calls with the check of the
limits (early ones before init, late ones before start) are the actions.  An
init hook caches pointers (`ptr`) and may add dynamic configs; it may fail after
that.  A pointer is `Stale` when the data it points to was freed or its buffer was
reallocated.  `data_set` of ubx.lua resizes to 1 for a number, which may grow or
shrink the data.  A set through one config concerns every config that shares the
data: `touched` gets all of them.

`Launch` drives these actions: the passes of `blockdiagram.lua` over the merged
settings of a composition (`create`, `nodecfgs`, `apply`, `init`, `reapply`, `start`),
the sequence of calls of a C `main` with its exits, or an arbitrary script.  Each
create, init and start may fail, of the launcher and of a main, and so may a setting that
refers to a node config that does not exist, or a late one of a config that does not
exist; a node that is up may be stopped, started and removed.

### Accessors

`type` is the static variable of the macro, read and written without a lock
(`pc` and `reg` say where each thread is), while a script adds, resizes and removes
ports and unloads and reloads the module of the type, but leaves the port of an
ACTIVE block alone.  The model is of one node per process: two nodes would
register the same static type structure.

### Life, Sources, Filters, LuaBlock, SimpleFifo, Platform

`Life` has the actions all blocks share: configuration in any state, init with
its failures, start, stop, cleanup.  One element stands for an array of data; a
config or sample is a number, of a wrong length, missing or an error.  Each block
gives its own init, start and step.  `Sources` keeps the width of the unsigned ramp
(`Width`) and the remainders of `rnd_step`; `Filters` has the two buffers of the
errors of pid and the event logic of threshold; `LuaBlock` has the height of the
Lua stack after each path through `call_hook`; `SimpleFifo` the offsets of the
ring, and a `read` that always returns 0.  `Platform` has two blocks, two buffers of
one element and a clock; one of the two axes is modelled, and a velocity that the
controller has not computed is any value of `Garbage`.  A velocity is a number of
`1/Scale` units, so that the gain is any fraction; the way of one step is
truncated to units of the position.

## 3. What is checked

### Runs

| run | configuration | states | shows |
|---|---|---|---|
| `ptrig` | `Ptrig.cfg`: 2 chains, autostop after 2 steps, statistics off or per block | 2.6 k | below |
| `ptrig_faults` | `PtrigFaults.cfg`: all faults | 11 k | stop and cleanup return whatever fails (`StopReturns`, `CleanupReturns`), and no thread outlives the private data of its block |
| `ptrig_node` | `MCPtrigNode.cfg`: a block before and one after the trigger in creation order, one stepped twice per period | 1.6 k | below |
| `trig` | `MCTrig.cfg`: 2 chains, 3 chain configs, all modes, failing `realloc`, 5 triggers, `W` = 4 | 200 k | below |
| `rtlog_safety` | `RtLogSafety.cfg`: 2 threads, 3 messages fit, 11 are written | 10 k | below |
| `rtlog_live` | `RtLogLive.cfg`: a second process joins, the reader seeks | 187 k | a thread that logs returns; the reader catches up |
| `node` | `MCNode.cfg`: 4 libraries as in the repository (types only, a block only, both, an incomplete cleanup), 4 blocks, an instance may take the name of a prototype | 1.3 M | below |
| `ports` | `MCPorts.cfg`: 2 writers, a reader, 2 ring buffers, a queue | 264 k | below |
| `mqueue` | `MCMqueue.cfg`: 3 blocks of one name in 2 processes, 4 queues | 328 k | below |
| `config` | `MCConfig.cfg`: 2 blocks, two node configs, one of them shared, a dynamic config, 6 compositions, a C program, a script | 299 k | below |
| `blocks` | `MCBlocks.cfg`: one block of each type, the control loop, two threads at an accessor | 147 k | below |
| `trig_restart` | `MCTrig_RestartResizes.cfg`: one property | - | finding, section 5 |

### Properties

*ptrig.*  `QuietAfterStop`: once a stop has seen the thread stopped, or the
block has stopped itself, no chain is triggered and no step hook called until the
next start signals.  The thread may still output statistics then (section 5).
`StatsFlushedAtStop`: the statistics of all triggers are out when a stop that
saw the thread returns.  `AutostopFires`: a block with a step count left stops
itself.
`ImplementsService`: the block is a trigger service - on exactly between the
signal and the return of the stop, never switched in the middle of a trigger,
and triggering as long as it is on.

*ptrig_node.*  `StepOnlyReadyBlocks`: a step hook runs only on a block whose start
hook has returned and whose cleanup hook has not been called.  `Phased`: the
trigger is ACTIVE only in phases in which every computation block is started.
`ClearTerminates`: the removal of the node ends, with everything cleaned up.

*trig.*  `StepsDelivered`: each triggee has made exactly `num_steps` steps for
each trigger its divisor lets through at which it was ACTIVE.
`StatsCountTriggers`: the statistics of the chain and of each block count the
triggers after the skipped ones.  `BufferWhileActive`: an ACTIVE block has its
statistics buffers and an inactive one has none, also if `realloc` has failed in
a start.

*rtlog.*  `MessagesIntact`: what was written and not overwritten is complete and
at its place.  `ReadsInOrder`: the reader
prints whole messages in order unless a writer has caught up with it.
`LogReturns`, `CatchesUp`: see the run.

*node.*  `ReferencesMapped`: nothing the node refers to is in an unloaded
library, but for the types and blocks of a module that is `Excused` and what refers to
them: a failed load or an unload in use damages nothing that belongs to others.
`NothingLeaks`: no initialised block is freed, unless its module was unloaded while in
use.  `CleanupEmpties`: a cleanup leaves no instance, and no type and prototype
but those of excused modules (ubx.c:350).

*ports.*  `ElementsOwned`: each element of a ring buffer is free, queued once or
held by one call.  `InOrder`: no port reads a sample after a newer one of the
same writer.  `OverrunsCounted`: `inf->overruns` never exceeds the samples lost
although it is incremented without a lock, and is exact with one writer.
`WriteNeverWaits`: with at least as many elements as users a writer gets one at
the first attempt.  `CallsReturn`: a read or write comes to its end.

*mqueue.*  `SharesQueue`: two open blocks of one name have the same queue, unless
it was unlinked while one of them had it open.  `NothingLeftBehind`: a queue that
no block has open was left by a block without `unlink` or by a crash.

*config.*  `RefsExact`: a data counts exactly its configs and scripts.
`PointersCurrent`: a cached pointer goes stale only by a set or assign that concerns
its value, through whatever config or script shares it; a removal, a cleanup, a failed
init and a garbage collection never free the value under it.
`LaunchedPointersCurrent`: in a launched node no pointer is stale, without an excuse.
`HighestWins`: of several settings of one config that of the highest system is in
force, also for configs that exist only after init.  `NothingLeft`: the removal of
a node frees every config, whatever the launch came to.  `LaunchEnds`.

*blocks.*  `RampClimbs`: the ramp is continuous over stops and starts.
`PidFormula`: the output is that of a discrete controller over all errors used
since init.  `ThresholdAlternates`: events alternate.  `LuaStackKept`: hooks that do
what they should leave nothing on the stack.  `SpeedLimited`: the platform moves at
most with its limit for the time it was started.  `NoOvershoot`: the loop stays
between start and target while no step is later than 1/gain and no sample is missing.
`JudgedAlone`: an accessor gives every call the verdict it would have alone in the
process.  The arithmetic of `ubx_time.c` is compared with that of nanoseconds by an
assumption of `MCBlocks`, for all pairs of a small range, negative ones included.

### Further invariants

These hold as well and are in no run, because another property says more or
they only describe the state.  Add `INVARIANT <name>` to the configuration:
`TypeOK` of `Ptrig`, `Trig`, `RtLog`, `Node`, `Ports` and `Config`, `NodeTypeOK`; `Handshake`
and `NoUseOfFreedTstats` (`Ptrig.cfg`, without faults); `NoStepDuringLaterStop` (`MCPtrigNode.cfg`);
`OutputRotates` (`MCTrig.cfg`); `WritePosition` and `StatusIsLag` (`RtLogSafety.cfg`);
`PrototypeExists` (without instances of instances and unloads in use) and `SeqidsOrder`
(`MCNode.cfg`); `ConnectionsKept` (`MCPorts.cfg`);
`LimitsKept` and, where no length is 0, `NoBufferLost` (`MCConfig.cfg`); `FifoInBounds`
and, as a PROPERTY, `RandomInRange` (`MCBlocks.cfg`).

### Bounds, and why they are enough

* *ptrig*: two chains, because configuration is a loop in which a later chain
  can fail after an earlier one succeeded; autostop counts to 2 so that a step that
  is not the last occurs.  The history of triggers is bounded by
  `AutostopSteps + 1`.  The theorems have no bound.
* *ptrig_node*: creation order and chain order differ; the theorems cover all
  orders.  Nothing happens after the removal, hence no deadlock check.
* *trig*: `W` = 4 lets the counter wrap within five triggers; divisors 1 and 2
  divide it.  Lists include an empty one, a disabled block and defaults.
* *rtlog*: 11 messages go over 3 places more than three times, so the wrap counter
  (3 values) wraps, too; two-word messages can be seen half written.  The
  liveness run has a smaller ring because a second process and a wrong start
  multiply the states.  The writers stop at `MaxMsgs`, hence no deadlock check.
* *node*: four addresses and sequence numbers, so removed names are used again and
  a module is loaded again; modules that need a type of another and are refused
  without it, one of them after it has registered its own.
* *ports*: three sets of connections, with a port connected twice, a
  non-fitting one, and unconnected interactions; one change of the main thread
  while the threads run (`MaxChanges`).  Both writers overrun the shared buffer at
  the same time; the buffer with a single writer has as many elements as users.
  Calls return for shorter buffers, too, but only because the number of samples
  is bounded: a writer may lose every race for the only element.
* *mqueue*: three blocks, so that one may unlink under two others; four queues, so
  that a name gets a new one after a crash and after an unlink.
* *config*: the compositions set one config from three systems, with and without a
  node config, set a dynamic config twice, refer to a node config that does not exist,
  and fail in each way the launcher can fail.  Lengths 1 and 2: data grows and
  shrinks.  Two branches of the launcher, a block that is missing or not in the state the
  pass wants, are in the model but no fresh node takes them.
* *blocks*: one negative and one positive value, so that errors and remainders
  change sign; ramps have three bits and wrap; a Lua stack of three slots
  overflows on the third value that is left; a buffer of 0, 2 and 3 bytes, and of 16 by
  default, with messages of 1, 2 and 17.  A clock of seven ticks has a stop, a late
  step and a restart; with gains of 1/4 and 1/2 (`Scale` 4) the
  platform covers 1/4, 1/2, 3/4 or all of the distance in a step, unless it is late.  The blocks may be left alone, hence no deadlock check.

### Fairness

* *ptrig*: a hook that was called runs to its end and the thread is scheduled
  (weak fairness).  Whoever waits for the mutex gets it in the end (strong
  fairness), because it is free for most of every period.  The calls of the user
  and spurious wakeups are not fair.
* *ptrig_node*: the same for the composed steps; hooks return.
* *rtlog*: a thread in `ubx_log_shm` runs and gets the spinlock in the end (strong
  fairness), which is held for one copy; the reader polls.  Nobody has to log.
* *ports*: a thread inside a call runs (weak fairness).  Nobody has to step,
  connect or start.
* *config*: the launcher and a C main are single-threaded programs that run (weak
  fairness); the user of a launched node and a free script do what they like.

The other runs check safety only.

## 4. What is proved

Safety only.  The shape of the proofs is the same throughout: an inductive
invariant that contains the property, shown for Init and for each action, and a
last step of temporal logic.  What the invariant has to add is said below.

**Ptrig** (in `PtrigNode_proofs`), for any number of chains, step count and modes.
`TypeCorrect`.  `HandshakeInvariant`: `Handshake` is inductive relative to the
types, if a stop does not time out (`"stop_timeout" \notin Faults`; after a
timeout the code gives up the agreement, see `ptrig_faults`).  It is needed
because no single thread sees the facts that make the stop safe: it says which
pairs of places are possible for each value of the two state words.  From it
follow `QuietAfterStopHolds`, `StatsFlushed` and `ImplementsTriggerService` - the
initial states and every step of `Ptrig` map to the service or to a stutter.
`TriggersWithBufferHolds` is about memory: with failing allocations allowed, a chain
is triggered only with a live statistics buffer.  Its invariant, `BuffersSized`,
follows a start through its loop over the chains.
`NoThreadWithoutPrivateDataHolds` needs no assumption on the faults.

**PtrigNode**, for any computation blocks, creation order and chain, if no stop
times out.  `NodeImplementsPtrig`: the node is a user of ptrig, so the theorems above
hold in it; `NodeImplementsTriggerService` composes the two refinements.
`PhasedInvariant` (with `Handshake`) is inductive: the trigger is ACTIVE only in
phases in which all computation blocks are started.  `StepOnlyReady` follows, and,
since the main thread runs one hook at a time (`HookAlone`),
`NoStepDuringLaterStopHolds`.

**Trig**, for any number of chains, triggees and triggers and any width of the
counter.  The invariant `TInv` says that the state of a chain is a function of
the number of its triggers: `every_cnt` is the number modulo `W`, the steps and
statistics are numbers of multiples.  `CountersFollowTriggers` and `BufferWhileActiveHolds` (which
covers a start whose `realloc` fails) have no assumption.  `StepsDeliveredHolds`,
`StatsCountTriggersHolds` and `EveryNthTimeHolds` assume `DivisorsDivide`: each divisor
divides the 2^32 values of the counter, as the powers of two do.  For other
divisors they are false once the counter has wrapped (section 5).
`OutputRotatesHolds` has an invariant of its own: the records before the next one
have been output once more than the others (`Rotated`).

**RtLog**, for any number of writers, any ring and widths of the counters.  The
writers' invariant `WInv` places every message that was written (`PositionOf`), although
the position is read and stored in two steps: `WritePositionHolds`,
`MessagesIntactHolds`.  The reader's, `RInv`, has no lock to rely on: what it has
printed of a message is right unless a writer has begun the message that takes its
place.  `ReadsInOrderHolds` and `StatusIsLagHolds` follow.  They assume `Joiners = {}`,
because a process that joins initialises a spinlock that may be held, and the ones
of the reader assume `ShowOld = FALSE`, because the oldest message is not always
where the reader looks for it; section 5 has both.

**Node**, for any libraries and any use of them; none of the theorems has an
assumption on what modules do.  `TypeCorrect`.  `NothingLeaksHolds`: the invariant
`HeldByState` says that the initialised blocks are the ones not in PREINIT, but for those
lost with a module unloaded in use.  `RegisteredInvariant` is inductive: what a
module that is not excused has registered is what its cleanup function drops, and it
has registered something only while it is loaded.  `ReferencesMappedHolds`,
`CleanupEmptiesHolds` and `SeqidsOrderHolds` follow.

**Ports**, for any number of ports and ring buffers of any length.
`ElementsOwnedHolds`: a step moves at most one element of one buffer; since there
are as many places as elements, none has two, so that an element that comes back
was not free.  The strengthening `PInv` adds that a port that holds an element is
configured for its buffer.  `WriteNeverWaitsHolds` follows by counting the holders.
`OverrunsCountedHolds` needs more (`Counting`), because threads lose each other's
increments and the counter may even go back: a value that a thread has read and
not yet stored is no larger than the losses that the others have counted.
`InOrderHolds` is about what goes through the buffers.  Its invariant `OInv` stands
samples of one writer in line: the ones read, the ones a reader has in its hands,
the queue, the one the writer is copying in, each group older than the next - in a
ring buffer whose elements are overwritten and in a kernel queue, while the
connections change.
`ConnectionsKeptHolds` counts the entries of a port's array: `CountRemoved` is the lemma
about `array_block_rm`, for arrays of any length and an entry at any place.

**Mqueue**, for any blocks in any processes.  `SharesQueueHolds` and
`NothingLeftBehindHolds`; both are inductive once the variables have their types.

**Config** (in `Launch_proofs`), for any blocks, configs, node configs and any order of
calls.  `RefsExactHolds`, from `Counted`: types, data with count -1 is free, and a config
refers to its own data or a node config, and to none before the block exists.
`PointersCurrentHolds`, which needs in addition that a cached pointer is the one of
the config, unless that was set or assigned since, through it or a config that shares
its data (`PointsToOwn`).  What they exclude is that a reference count goes wrong or
is not taken, so that somebody else's removal frees the value.
`LimitsKeptHolds`: data that has an owner keeps its length through every release and
assignment of others (`LengthKept`), so that what init and start have checked stays true
unless the value is set.  The
loglevel is left out: a refused init looks it up again in any state, which ends
the record that it was set, although nothing has been checked.

**Launch**, for any composition and any main that sets what it sets before the
hooks that read it (`ProgramAssumption`).  `LaunchImplementsConfig`: every step of the
launcher, of a main and of the user of a launched node is a step of `Config` or
none, so that the theorems of `Config` hold of every launch; `LaunchedRefsExact` is
one of them.  `LaunchInvariant` adds what the passes of the launcher have done so
far (`LInv`): which settings have been visited and applied, which had to wait for
an init hook, which configs a hook has read already.  `Staged` says that the blocks
are in the state the passes want.  From it
`LaunchedPointersCurrentHolds`, `HighestWinsHolds` - the induction over the settings is
the launcher's own loop - and `NothingLeftHolds`.

**Blocks** (in `Blocks_proofs`), each over one block of its type under any order of
calls to it and any values.  `ThresholdAlternatesHolds`, `LuaStackKeptHolds`,
`RampClimbsHolds`, `RandomInRangeHolds`.  `FifoInBoundsHolds` rests on the read offset, which
never leaves the start of the buffer, so that no message wraps.  The control loop: `SpeedLimitedHolds` needs that
what a step integrates over is the time since the last step or start
(`Elapsed`); `NoOvershootHolds` needs the velocity that is on its way and was computed
from an earlier position (`Approach`), and holds for any fraction as gain.  The time arithmetic of `Timespec`:
`NormKeepsTime`, `TimeArithmetic`, `CompareIsOrder`, `DivisionTruncates`, for all times, while
`MCBlocks` compares a small range.

**Accessors** (in `Blocks_proofs`), for any number of threads, lengths and reloads.
`JudgedAloneHolds`.  The invariant is what makes the unlocked static variable
harmless: ports only have types that are registered, the variable is only assigned
a type that is registered, and a thread that relies on it has compared it
with its port (`Reliance`).

**Only model-checked.**  Liveness under fairness is out of the prover's reach:
`AutostopFires`, `StopReturns`, `CleanupReturns`, `ClearTerminates`, `LogReturns`, `CatchesUp`,
`CallsReturn`, `LaunchEnds`, and the fair part of `ImplementsService`.  So is what a
recursive definition computes for every input: `PidFormula` is about a sum over all
errors of a run, which folds their sequence.  Of the invariants in no run,
`NoUseOfFreedTstats`, `PrototypeExists` and `NoBufferLost` have no proof yet; the last
two need assumptions, section 3 and `MCNode_PrototypeExists.cfg` say which.

## 5. Where code and documentation differ

One run finds a documented claim violated, with the finding in `PROJECT.json`:

* `trig_restart`: "it will resize existing buffers appropriately"
  (trig_utils.h:117).  With per block statistics the start after a stop hands
  the freed buffer to `realloc`.

Further claims the models refute, each with a configuration to run:

| configuration | claim | what happens |
|---|---|---|
| `Ptrig_StopWaitsForThread.cfg` | "wait some time for thread to shutdown cleanly" (ptrig.c:454) | a stop right after a start finds the thread not yet awake and returns; the thread then still outputs statistics |
| `Ptrig_AutostopEveryRun.cfg` | "block stops itself after X steps" (ptrig.c:65) | the counter is set in init only; a restarted block runs on |
| `Ptrig_CleanupFreesTstats.cfg` | cleanup releases all resources (developing_blocks.rst:160) | a block that stopped itself is cleaned up with its statistics buffer |
| `MCTrig_EveryNthTime.cfg` | "only trigger this block every 'every'th time" (triggee.h) | not when the 32-bit counter wraps and the divisor does not divide 2^32 |
| `MCTrig_EachChainWritten.cfg` | "write the stats of each chain" (common.c) | the file is rewritten for each chain, the last remains |
| `RtLog_OneWriter.cfg` | "we only have one writer" (rtlog.c:107) | a second process initialises the spinlock that the first may hold |
| `RtLog_SeeksToMessage.cfg` | "move the read ptr to the oldest valid log message" (rtlog_client.c:71) | after a wrap it may point into the middle of one |
| `MCNode_EverythingMapped.cfg` | a module that fails to load leaves nothing | a library that registers a type and then fails is closed, and the node keeps the type |
| `MCNode_CleanupLeavesNone.cfg` | "The node is empty" (ubx.c:350) | cppdemo unregisters its type under another name |
| `MCNode_PrototypeExists.cfg` | an instance has a prototype (ubx_types.h) | an instance cloned from an instance keeps a pointer to it after its removal |
| `MCMqueue_HoldsBufferLen.cfg` | buffer_len is the "max number of data elements the buffer shall hold" (mqueue.c) | a block that finds a queue under its name takes it with the length it has |
| `MCBlocks_FifoDelivers.cfg` | simple_fifo is a "functional" buffer (simple_fifo.c) | `read` copies and returns 0, so that the port reads no data |

`LoglevelCurrent` of `Config` (the pointer of the core to a loglevel stays good) fails,
too: cleanup keeps the pointer, and a removal or resize of the config moves it.

Read in the code, not checked: config slope of ramp has "(def: 1)" but an init
without it fails, and that init does not free its private data; the comments of
pid.h and ramp.h place the look-up of ports in start, the code does it in init; pid
has no start hook, so that the integral survives a stop; `rnd_step` with max = 0
divides by zero; `cblock_const` leaves its dynamic config behind if the output port
cannot be added; luablock never pops error messages, and a failed init leaves the
Lua state; `ubx_port_rm` does not look at the state of the block; `array_block_rm` follows the NULL
of a port that was never connected (ubx.c:1229); the thread of ptrig may be in
`common_output_stats` while the start hook initialises the statistics it reads - after
the first init, after it has stopped itself and after a stop right after a start - and
nothing protects them (ptrig.c:148).

## 6. Not modelled

* Webif with its vendored HTTP server and md5 are user interface and third-party
  code; the Lua support libraries are reflection and schema checks.
* The rand and hexdump blocks, skelleton and cppdemo keep no state that a property
  could be about; what they register is data of `MCNode`.
* Creation of the shared memory of the log, waiting for it with inotify and all
  formatting are input and output.
* Failing allocations of connections, configs and data; an affinity that cannot be
  set after the trigger thread was created; the removal of an interaction that is
  still connected.  The hazards in `PROJECT.json` that name no property say why.
* A change of a node by two threads at once: the code leaves that to the user.

`PROJECT.json` gives the reason for each component.

## 7. Plan

Written so far, in this order: `Ptrig`, `TriggerService`, `PtrigNode`, `Chain`,
`Trig`, `RtLog`, `Node`, `Ports`, `Config`, `Launch`, the blocks of `MCBlocks`,
`Accessors` and `Mqueue`, with the proofs of section 4.  Left:

1. `Ports`: an abstract lossy channel per writer and interaction, and a refinement
   to it with `InOrder` as its safety part; a connect that fails half way.
2. `Node`: `PrototypeExists` when blocks are only cloned from prototypes;
   `Config`: `NoBufferLost`, when no config is set to length 0.
3. `Trig`: its chains as users of `Chain` in `PtrigNode`, so that the counters of a
   chain are those of the trigger thread.
