------------------------------- MODULE Config -------------------------------
(***************************************************************************)
(* The configurations of blocks (ubx.c, typemacros.h): a config holds a    *)
(* reference counted ubx_data, scripts hold such data as well and may      *)
(* assign it to several configs (node configs), hooks cache raw pointers   *)
(* into its buffer, and setting a config may move that buffer.             *)
(***************************************************************************)
EXTENDS Integers, FiniteSets

CONSTANTS
  Block,      \* block instances
  Name,       \* names of configs
  Configs,    \* Configs[b]: the configs of the type of b, with the dynamic ones
  Dynamic,    \* the names that a block adds in its init and removes in cleanup
  Late,       \* the names with CONFIG_ATTR_CHECKLATE
  Min, Max,   \* Min[n], Max[n]: limits of the length, both 0 for none
  Type,       \* Type[n]: its type
  Loglevel,   \* the name that the core itself reads
  NodeData,   \* the ubx_data objects that scripts may hold
  NodeType,   \* NodeType[d]: the type they are allocated with
  Lens,       \* Lens[t]: the lengths that clients set for values of type t
  None,       \* NULL: no such config, no pointer
  Stale       \* a pointer to memory that was freed or has moved

\* The ubx_data that the core makes for config n of b is <<b, n>>: the one before
\* it is gone when it makes another.
Data == (Block \X Name) \cup NodeData

ASSUME ConfigAssumption ==
  /\ Configs \in [Block -> SUBSET Name]
  /\ Dynamic \subseteq Name /\ Late \subseteq Name
  /\ Loglevel \in Name \ Dynamic
  /\ IsFiniteSet(Block) /\ IsFiniteSet(Name)
  /\ IsFiniteSet(NodeData) /\ NodeData \cap (Block \X Name) = {}
  /\ \A n \in Name : Lens[Type[n]] \subseteq Nat
  /\ \A d \in NodeData : Lens[NodeType[d]] \subseteq Nat
  /\ None \notin Data /\ Stale \notin Data /\ None # Stale

Free == [len |-> 0, refs |-> -1, gone |-> FALSE]

VARIABLES
  state,    \* state[b]: "none" or its block_state
  cfg,      \* cfg[b][n]: the ubx_data of config n, None if b has no such config
  data,     \* data[d]: len, refcnt and "buffer freed by a failed realloc"
  held,     \* the data that scripts hold
  ptr,      \* ptr[b][n]: the data whose current buffer b has cached, or Stale
  touched   \* history: configs assigned, or their value set through whatever
            \* config or script shares it, since b cached their pointer
vars == <<state, cfg, data, held, ptr, touched>>

Has(b, n) == cfg[b][n] # None
Static(b) == Configs[b] \ Dynamic
Added(b) == Configs[b] \cap Dynamic
Owners(d) == {o \in Block \X Name : cfg[o[1]][o[2]] = d}

Init ==
  /\ state = [b \in Block |-> "none"]
  /\ cfg = [b \in Block |-> [n \in Name |-> None]]
  /\ data = [d \in Data |-> Free]
  /\ held = {}
  /\ ptr = [b \in Block |-> [n \in Name |-> None]]
  /\ touched = {}

-----------------------------------------------------------------------------
(* Allocation and release of data.                                          *)

\* __ubx_data_alloc: len elements, one reference.
Fresh(len) == [len |-> len, refs |-> 0, gone |-> FALSE]

\* ubx_data_free, k times: the object goes with its last reference.
\* Off by one: the object goes with its last reference but one.
DataFreeEarly(d, k) == IF data[d].refs - k <= 0 THEN Free
                       ELSE [data[d] EXCEPT !.refs = @ - k]
DataFree(d, k) == IF data[d].refs - k < 0 THEN Free
                  ELSE [data[d] EXCEPT !.refs = @ - k]

\* The data after the configs S of block b have been freed.
References(b, S, d) == Cardinality(Owners(d) \cap ({b} \X S))
Released(b, S) ==
  [d \in Data |-> IF \E n \in S : cfg[b][n] = d
                  THEN DataFree(d, References(b, S, d)) ELSE data[d]]

\* Pointers into the buffers of dead data do not point to anything any more.
Dangle(P, dead) ==
  [b \in Block |-> [n \in Name |-> IF P[b][n] \in dead THEN Stale ELSE P[b][n]]]
Freed(D) == {d \in Data : data[d] # Free /\ D[d] = Free}

\* ubx_data_resize: realloc may move the buffer, so that every pointer to the old
\* one counts as stale, whichever block has cached it.  One of size 0 frees it
\* and returns NULL, which is taken for an error.
Resize(d, len) ==
  /\ ~data[d].gone
  /\ data' = IF len = 0 /\ data[d].len > 0 THEN [data EXCEPT ![d].gone = TRUE]
             ELSE [data EXCEPT ![d].len = len]
  /\ ptr' = Dangle(ptr, {d})
  /\ touched' = touched \cup Owners(d)
  /\ UNCHANGED <<state, cfg, held>>
-----------------------------------------------------------------------------
(* Operations of clients: scripts and programs.                             *)

\* __ubx_config_add for the names S: each gets a value of length 0.
AddConfigs(b, S) ==
  /\ cfg' = [cfg EXCEPT ![b] = [n \in Name |-> IF n \in S THEN <<b, n>> ELSE @[n]]]
  /\ data' = [d \in Data |-> IF d \in {b} \X S THEN Fresh(0) ELSE data[d]]

\* ubx_block_create: a copy of the prototype, its configs of length 0.
Create(b) ==
  /\ state[b] = "none"
  /\ AddConfigs(b, Static(b))
  /\ state' = [state EXCEPT ![b] = "preinit"]
  /\ UNCHANGED <<held, ptr, touched>>

\* ubx_block_rm and ubx_block_free: every config of the block is freed.
Remove(b) ==
  /\ state[b] = "preinit"
  /\ data' = Released(b, Name)
  /\ cfg' = [cfg EXCEPT ![b] = [n \in Name |-> None]]
  /\ ptr' = Dangle([ptr EXCEPT ![b] = [n \in Name |-> None]], Freed(data'))
  /\ state' = [state EXCEPT ![b] = "none"]
  /\ touched' = touched \ ({b} \X Name)
  /\ UNCHANGED held

\* data_alloc of a script.
Alloc(d, len) ==
  /\ data[d] = Free
  /\ data' = [data EXCEPT ![d] = Fresh(len)]
  /\ held' = held \cup {d}
  /\ UNCHANGED <<state, cfg, ptr, touched>>

\* A collector that does not count references.
CollectAlways(d) ==
  /\ d \in held
  /\ data' = [data EXCEPT ![d] = Free]
  /\ held' = held \ {d}
  /\ ptr' = Dangle(ptr, {d})
  /\ UNCHANGED <<state, cfg, touched>>
\* The garbage collector finds data that no script refers to any more.
Collect(d) ==
  /\ d \in held
  /\ data' = [data EXCEPT ![d] = DataFree(d, 1)]
  /\ held' = held \ {d}
  /\ ptr' = Dangle(ptr, Freed(data'))
  /\ UNCHANGED <<state, cfg, touched>>

\* The new value is not counted.
AssignUncounted(b, n, d) ==
  /\ Has(b, n) /\ d \in held /\ NodeType[d] = Type[n]
  /\ data' = [data EXCEPT ![cfg[b][n]] = DataFree(cfg[b][n], 1)]
  /\ cfg' = [cfg EXCEPT ![b][n] = d]
  /\ ptr' = Dangle(ptr, Freed(data'))
  /\ touched' = touched \cup {<<b, n>>}
  /\ UNCHANGED <<state, held>>
\* ubx_config_assign: the old value is freed before the new one is counted,
\* which is why the caller needs a reference of its own to the new one.
Assign(b, n, d) ==
  /\ Has(b, n) /\ d \in held /\ NodeType[d] = Type[n]
  /\ LET left == [data EXCEPT ![cfg[b][n]] = DataFree(cfg[b][n], 1)]
     IN /\ data' = [left EXCEPT ![d].refs = @ + 1]
        /\ ptr' = Dangle(ptr, Freed(left))
  /\ cfg' = [cfg EXCEPT ![b][n] = d]
  /\ touched' = touched \cup {<<b, n>>}
  /\ UNCHANGED <<state, held>>

\* cfg_set_*: the buffer is reallocated, whatever its length, and written.
CfgSet(b, n, len) == Has(b, n) /\ Resize(cfg[b][n], len)

\* data_set of a script, on a config or on data it holds: the buffer grows if it
\* must, and a number makes it one of length 1; a table that fits is written in
\* place, which is no step here.
DataSet(d, len) == /\ data[d].len < len \/ (len = 1 /\ data[d].len > 1)
                   /\ Resize(d, len)
-----------------------------------------------------------------------------
(* The life cycle.                                                          *)

InLimits(b, n) ==
  LET len == data[cfg[b][n]].len
  IN (Min[n] = 0 /\ Max[n] = 0) \/ (Min[n] <= len /\ len <= Max[n])
CheckMinMax(b, late) ==
  \A n \in Name : Has(b, n) /\ (n \in Late <=> late) => InLimits(b, n)

\* cfg_getptr_*: NULL for a config that is absent or of length 0.
Pointer(b, n) == IF Has(b, n) /\ data[cfg[b][n]].len > 0 THEN cfg[b][n] ELSE None

\* The start of ubx_block_init, in every state: the loglevel is looked up.
Relogged(b) == [ptr EXCEPT ![b][Loglevel] = Pointer(b, Loglevel)]
Relookup(b) == /\ ptr' = Relogged(b)
               /\ touched' = touched \ {<<b, Loglevel>>}

\* Init is refused: wrong state, or a config out of its limits.
InitRefused(b) ==
  /\ state[b] # "none"
  /\ state[b] = "preinit" => ~CheckMinMax(b, FALSE)
  /\ Relookup(b)
  /\ UNCHANGED <<state, cfg, data, held>>

CanAdd(b) == \A n \in Added(b) : ~Has(b, n)
\* The init hook fails, before or after it has added its dynamic configs;
\* they stay, and the next init hook fails because of them.
InitFails(b) ==
  /\ state[b] = "preinit" /\ CheckMinMax(b, FALSE)
  /\ \/ UNCHANGED <<cfg, data>>
     \/ CanAdd(b) /\ AddConfigs(b, Added(b))
  /\ Relookup(b)
  /\ UNCHANGED <<state, held>>

\* The init hook adds the dynamic configs and caches the static ones.
InitOk(b) ==
  /\ state[b] = "preinit" /\ CheckMinMax(b, FALSE)
  /\ CanAdd(b) /\ AddConfigs(b, Added(b))
  /\ ptr' = [ptr EXCEPT ![b] = [n \in Name |-> IF n \in Static(b) THEN Pointer(b, n)
                                              ELSE None]]
  /\ touched' = touched \ ({b} \X Static(b))
  /\ state' = [state EXCEPT ![b] = "inactive"]
  /\ UNCHANGED held

\* The start hook caches the dynamic configs.
Start(b) ==
  /\ state[b] = "inactive" /\ CheckMinMax(b, TRUE)
  /\ ptr' = [ptr EXCEPT ![b] = [n \in Name |-> IF n \in Added(b) THEN Pointer(b, n)
                                              ELSE ptr[b][n]]]
  /\ touched' = touched \ ({b} \X Added(b))
  /\ state' = [state EXCEPT ![b] = "active"]
  /\ UNCHANGED <<cfg, data, held>>

Stop(b) ==
  /\ state[b] = "active"
  /\ state' = [state EXCEPT ![b] = "inactive"]
  /\ UNCHANGED <<cfg, data, held, ptr, touched>>

\* The cleanup hook frees the private data with the cached pointers, and
\* removes the dynamic configs with ubx_config_rm; the core keeps the pointer
\* to the loglevel.
Cleanup(b) ==
  /\ state[b] = "inactive"
  /\ data' = Released(b, Added(b))
  /\ cfg' = [cfg EXCEPT ![b] = [n \in Name |-> IF n \in Added(b) THEN None ELSE @[n]]]
  /\ ptr' = Dangle([ptr EXCEPT ![b] = [n \in Name |-> IF n = Loglevel THEN @[n]
                                                     ELSE None]], Freed(data'))
  /\ state' = [state EXCEPT ![b] = "preinit"]
  /\ UNCHANGED <<held, touched>>

Lifecycle(b) == \/ InitRefused(b) \/ InitFails(b) \/ InitOk(b)
                \/ Start(b) \/ Stop(b) \/ Cleanup(b)

Next ==
  \/ \E b \in Block : Create(b) \/ Remove(b) \/ Lifecycle(b)
  \/ \E d \in NodeData : \/ Collect(d)
                         \/ \E len \in Lens[NodeType[d]] : Alloc(d, len)
                         \/ d \in held /\ \E len \in Lens[NodeType[d]] : DataSet(d, len)
  \/ \E b \in Block, n \in Name :
       \/ \E d \in NodeData : Assign(b, n, d)
       \/ \E len \in Lens[Type[n]] : CfgSet(b, n, len)
       \/ Has(b, n) /\ \E len \in Lens[Type[n]] : DataSet(cfg[b][n], len)
Spec == Init /\ [][Next]_vars
-----------------------------------------------------------------------------
(* Properties.                                                              *)

DataRecord == [len : Nat, refs : Nat \cup {-1}, gone : BOOLEAN]
TypeOK ==
  /\ state \in [Block -> {"none", "preinit", "inactive", "active"}]
  /\ cfg \in [Block -> [Name -> Data \cup {None}]]
  /\ data \in [Data -> DataRecord]
  /\ held \subseteq Data
  /\ ptr \in [Block -> [Name -> Data \cup {None, Stale}]]
  /\ touched \subseteq Block \X Name

\* "reference counting, num_refs = refcnt + 1" (ubx_types.h): the counter is
\* one less than the configs and scripts that refer to the data, which exists
\* exactly as long as one of them does.
Holders(d) == Cardinality(Owners(d)) + (IF d \in held THEN 1 ELSE 0)
RefsExact == \A d \in Data : data[d].refs = Holders(d) - 1

\* A pointer that a block has cached goes bad only by a set or an assign that
\* concerns its value: an assign to that config, or a set of it, of any config
\* that shares its data or of the data itself, for realloc moves the one buffer
\* of them all.  No removal or cleanup of another block that shares the data, no
\* failed init and no garbage collection frees what it points to.
PointersCurrent ==
  \A b \in Block, n \in Name : ptr[b][n] = Stale => <<b, n>> \in touched

\* The limits hold from the check to the end of the cycle unless somebody sets
\* or assigns the value in between, through this config or through one that shares
\* its data: early ones from init, late ones from start.  The loglevel is left
\* out, as an init that is refused already looks it up again.
LimitsKept ==
  \A b \in Block, n \in Name \ {Loglevel} :
    /\ Has(b, n) /\ <<b, n>> \notin touched
    /\ \/ state[b] \in {"inactive", "active"} /\ n \notin Late \cup Dynamic
       \/ state[b] = "active" /\ n \in Late \cap Dynamic
    => InLimits(b, n)

\* No buffer is freed by a resize while the data keeps its address.
NoBufferLost == \A d \in Data : ~data[d].gone

\* The pointer of the core to the loglevel config is one to its value.
LoglevelCurrent == \A b \in Block : ptr[b][Loglevel] # Stale
=============================================================================
