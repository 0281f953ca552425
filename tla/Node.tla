-------------------------------- MODULE Node --------------------------------
(***************************************************************************)
(* A node (libubx/ubx.c): the modules it has loaded, the types and blocks  *)
(* they register, block instances and their life cycle.  One thread calls  *)
(* these functions; what the hooks of a block do is not modelled, only     *)
(* whether they succeed.                                                   *)
(*                                                                         *)
(* The code of a module, its hooks and its type structures are mapped as   *)
(* long as the module is loaded.  What calls into an unmapped module do is *)
(* not defined; the model goes on as if the memory were still there.       *)
(***************************************************************************)
EXTENDS Integers, Sequences, FiniteSets

CONSTANTS
  Modules,        \* shared libraries
  Code,           \* what the init and cleanup functions of each module do
  TypeNames,
  BlockNames,
  InstanceNames,  \* the names given to instances
  MaxBlocks,      \* bound: blocks ever allocated
  MaxTypes,       \* bound: types registered between two cleanups
  CloneInstances  \* ubx_block_create is also called for a type that is an instance

\* types: the order in which init registers them; checked: init returns at the
\* first that is refused; blocks: its prototype, if any, registered last; needs:
\* the types of its ports and configs
CodeType == [types : Seq(TypeNames), checked : BOOLEAN,
             blocks : {{}} \cup {{b} : b \in BlockNames}, needs : SUBSET TypeNames,
             dropTypes : SUBSET (TypeNames \cup {"misspelt"}),
             dropBlocks : SUBSET BlockNames]

ASSUME NodeAssumption ==
  /\ Code \in [Modules -> CodeType]
  /\ \A m \in Modules : \A i, j \in DOMAIN Code[m].types :
       Code[m].types[i] = Code[m].types[j] => i = j
  /\ InstanceNames \subseteq BlockNames
  /\ MaxBlocks \in Nat /\ MaxTypes \in Nat
  /\ CloneInstances \in BOOLEAN

VARIABLES
  modules,    \* nd->modules
  types,      \* nd->types: the module a registered type is in and its seqid
  blocks,     \* nd->blocks
  curSeqid,   \* nd->cur_seqid
  allocated,  \* history: blocks allocated, a block's address is its number
  held,       \* history: the blocks whose init hook ran and cleanup hook did not
  careless    \* history: the modules whose init failed and left a type, and those
              \* that an unload has closed, or whose block it has freed, while in use

vars == <<modules, types, blocks, curSeqid, allocated, held, careless>>

None == 0

TypeInfo  == [owner : Modules, seqid : Nat]
BlockInfo == [addr : 1 .. MaxBlocks, prototype : 0 .. MaxBlocks, owner : Modules,
              uses : SUBSET Modules, state : {"preinit", "inactive", "active"}]

TypeOK ==
  /\ modules \subseteq Modules
  /\ DOMAIN types \subseteq TypeNames
  /\ \A t \in DOMAIN types : types[t] \in TypeInfo
  /\ DOMAIN blocks \subseteq BlockNames
  /\ \A b \in DOMAIN blocks :
       /\ blocks[b] \in BlockInfo
       /\ blocks[b].prototype < blocks[b].addr
       /\ blocks[b].addr <= allocated
  /\ curSeqid \in Nat
  /\ allocated \in 0 .. MaxBlocks
  /\ held \subseteq [addr : 1 .. allocated, owner : Modules]
  /\ careless \subseteq Modules

\* ubx_node_init
Init ==
  /\ modules = {}
  /\ types = [t \in {} |-> 0]
  /\ blocks = [b \in {} |-> 0]
  /\ curSeqid = 0
  /\ allocated = 0
  /\ held = {}
  /\ careless = {}

Without(f, S) == [x \in DOMAIN f \ S |-> f[x]]

-----------------------------------------------------------------------------
(* Modules.                                                                 *)

\* the types of m that ubx_type_register accepts
Accepted(m) ==
  LET c == Code[m] IN
  {i \in DOMAIN c.types :
     IF c.checked THEN \A j \in 1 .. i : c.types[j] \notin DOMAIN types
     ELSE c.types[i] \notin DOMAIN types}

\* the table of types after the init function of m
WithTypes(m) ==
  LET Index(t) == CHOOSE i \in Accepted(m) : Code[m].types[i] = t
      new == {Code[m].types[i] : i \in Accepted(m)} IN
  [t \in DOMAIN types \cup new |->
     IF t \in new
     THEN [owner |-> m, seqid |-> curSeqid + Cardinality({j \in Accepted(m) : j < Index(t)})]
     ELSE types[t]]

\* whether the init function of m registers its prototype and returns 0
InitOk(m) ==
  /\ Code[m].checked => Accepted(m) = DOMAIN Code[m].types
  /\ Code[m].blocks # {} => Code[m].needs \subseteq DOMAIN WithTypes(m)
  /\ Code[m].blocks \cap DOMAIN blocks = {}

NewBlock(prototype, owner, uses) ==
  [addr |-> allocated + 1, prototype |-> prototype, owner |-> owner, uses |-> uses,
   state |-> "preinit"]

\* the table of blocks after ubx_node_clear: all blocks stopped and cleaned up,
\* all instances removed
Cleared == [b \in {x \in DOMAIN blocks : blocks[x].prototype = None} |->
              [blocks[b] EXCEPT !.state = "preinit"]]

\* what the init hook of b has allocated
Resources(b) == [addr |-> blocks[b].addr, owner |-> blocks[b].owner]

\* what the cleanup hooks it calls release
CleanedUp == {Resources(b) : b \in {x \in DOMAIN blocks : blocks[x].state # "preinit"}}

-----------------------------------------------------------------------------
(* Slips.                                                                   *)

\* "TODO: fail if not in state PREINIT" (ubx.c:1143)
BlockRmAnyState(b) ==
  /\ b \in DOMAIN blocks
  /\ blocks[b].prototype # None
  /\ blocks' = Without(blocks, {b})
  /\ UNCHANGED <<modules, types, curSeqid, allocated, held, careless>>

\* modules are closed, but their cleanup functions are not called
NodeCleanupCloseOnly ==
  /\ modules' = {}
  /\ blocks' = Cleared
  /\ curSeqid' = 0
  /\ held' = held \ CleanedUp
  /\ UNCHANGED <<types, allocated, careless>>

\* the instances are left
NodeCleanupLeaves ==
  /\ types' = Without(types, UNION {Code[m].dropTypes : m \in modules})
  /\ blocks' = Without(blocks, UNION {Code[m].dropBlocks : m \in modules})
  /\ modules' = {}
  /\ curSeqid' = 0
  /\ UNCHANGED <<allocated, held, careless>>

-----------------------------------------------------------------------------
\* ubx_module_load: the init function registers types and a prototype
ModuleLoad(m) ==
  /\ m \notin modules
  /\ InitOk(m)
  /\ curSeqid + Cardinality(Accepted(m)) <= MaxTypes
  /\ Code[m].blocks # {} => allocated < MaxBlocks
  /\ types' = WithTypes(m)
  /\ curSeqid' = curSeqid + Cardinality(Accepted(m))
  /\ blocks' = [b \in DOMAIN blocks \cup Code[m].blocks |->
                  IF b \in DOMAIN blocks THEN blocks[b]
                  ELSE NewBlock(None, m, {WithTypes(m)[t].owner : t \in Code[m].needs})]
  /\ allocated' = allocated + Cardinality(Code[m].blocks)
  /\ modules' = modules \cup {m}
  /\ UNCHANGED <<held, careless>>

\* The init function fails: the library is closed, what it has registered stays.
ModuleLoadFails(m) ==
  /\ m \notin modules
  /\ ~InitOk(m)
  /\ curSeqid + Cardinality(Accepted(m)) <= MaxTypes
  /\ types' = WithTypes(m)
  /\ curSeqid' = curSeqid + Cardinality(Accepted(m))
  /\ careless' = careless \cup {x \in {m} : Accepted(x) # {}}
  /\ UNCHANGED <<modules, blocks, allocated, held>>

\* the blocks with a hook or a type in m
Users(m) == {b \in DOMAIN blocks : blocks[b].owner = m \/ m \in blocks[b].uses}

\* the modules an unload of m spoils: m if more refers to it than it takes away,
\* and those of the blocks that it frees and that are not in state preinit
Spoilt(m) ==
  {x \in {m} : ~(Users(x) \subseteq Code[x].dropBlocks)} \cup
  {blocks[b].owner : b \in {x \in DOMAIN blocks \cap Code[m].dropBlocks :
                              blocks[x].state # "preinit"}}

\* ubx_module_unload: the module's cleanup function, then dlclose, whatever is in use
ModuleUnload(m) ==
  /\ m \in modules
  /\ types' = Without(types, Code[m].dropTypes)
  /\ blocks' = Without(blocks, Code[m].dropBlocks)
  /\ modules' = modules \ {m}
  /\ careless' = careless \cup Spoilt(m)
  /\ UNCHANGED <<curSeqid, allocated, held>>

-----------------------------------------------------------------------------
(* Blocks.                                                                  *)

\* ubx_block_create, ubx_block_clone
BlockCreate(type, b) ==
  /\ type \in DOMAIN blocks
  /\ CloneInstances \/ blocks[type].prototype = None
  /\ b \notin DOMAIN blocks
  /\ allocated < MaxBlocks
  /\ blocks' = [x \in DOMAIN blocks \cup {b} |->
                  IF x = b THEN NewBlock(blocks[type].addr, blocks[type].owner, blocks[type].uses)
                  ELSE blocks[x]]
  /\ allocated' = allocated + 1
  /\ UNCHANGED <<modules, types, curSeqid, held, careless>>

\* ubx_block_rm
BlockRm(b) ==
  /\ b \in DOMAIN blocks
  /\ blocks[b].prototype # None
  /\ blocks[b].state = "preinit"
  /\ blocks' = Without(blocks, {b})
  /\ UNCHANGED <<modules, types, curSeqid, allocated, held, careless>>

\* a life cycle call that succeeds; one whose hook fails changes nothing
Switch(b, from, to) ==
  /\ b \in DOMAIN blocks
  /\ blocks[b].state = from
  /\ blocks' = [blocks EXCEPT ![b].state = to]
  /\ UNCHANGED <<modules, types, curSeqid, allocated, careless>>

BlockInit(b)    == Switch(b, "preinit", "inactive") /\ held' = held \cup {Resources(b)}
BlockStart(b)   == Switch(b, "inactive", "active") /\ UNCHANGED held
BlockStop(b)    == Switch(b, "active", "inactive") /\ UNCHANGED held
BlockCleanup(b) == Switch(b, "inactive", "preinit") /\ held' = held \ {Resources(b)}

-----------------------------------------------------------------------------
(* The node.                                                                *)

NodeClear ==
  /\ blocks' = Cleared
  /\ held' = held \ CleanedUp
  /\ UNCHANGED <<modules, types, curSeqid, allocated, careless>>

\* ubx_node_cleanup
NodeCleanup ==
  /\ types' = Without(types, UNION {Code[m].dropTypes : m \in modules})
  /\ blocks' = Without(Cleared, UNION {Code[m].dropBlocks : m \in modules})
  /\ modules' = {}
  /\ curSeqid' = 0
  /\ held' = held \ CleanedUp
  /\ UNCHANGED <<allocated, careless>>

Next ==
  \/ \E m \in Modules : ModuleLoad(m) \/ ModuleLoadFails(m) \/ ModuleUnload(m)
  \/ \E type \in BlockNames, b \in InstanceNames : BlockCreate(type, b)
  \/ \E b \in BlockNames : \/ BlockRm(b) \/ BlockInit(b) \/ BlockStart(b)
                           \/ BlockStop(b) \/ BlockCleanup(b)
  \/ NodeClear \/ NodeCleanup

Spec == Init /\ [][Next]_vars

-----------------------------------------------------------------------------
(* Properties.                                                              *)

\* the cleanup function of m takes away all that its init function may register
Balanced(m) ==
  /\ {Code[m].types[i] : i \in DOMAIN Code[m].types} \subseteq Code[m].dropTypes
  /\ Code[m].blocks \subseteq Code[m].dropBlocks

\* the modules the node does not protect itself against
Excused == careless \cup {m \in Modules : ~Balanced(m)}

\* What the node refers to is mapped: the module of every type, and the modules
\* of the hooks and types of every block.  A call of a hook or a look at a type
\* depends on it.  An init that fails after it has registered a type
\* (threshold.c:147, random.c:135), an unload of a module in use and a cleanup
\* function that forgets something break it for the types and blocks of that module
\* and for references to it, and for nothing else, whatever is loaded, unloaded and
\* cleaned up before and after.
ReferencesMapped ==
  /\ \A t \in DOMAIN types : types[t].owner \in modules \cup Excused
  /\ \A b \in DOMAIN blocks :
       \/ blocks[b].owner \in Excused
       \/ {blocks[b].owner} \cup blocks[b].uses \subseteq modules \cup Excused

\* ReferencesMapped without the excuse: MCNode_EverythingMapped.cfg shows the init
\* function that breaks it.
EverythingMapped ==
  /\ \A t \in DOMAIN types : types[t].owner \in modules
  /\ \A b \in DOMAIN blocks : {blocks[b].owner} \cup blocks[b].uses \subseteq modules

\* "pointer to prototype block (if any)" (ubx_types.h): an instance points to a
\* block that is registered, as long as nothing was unloaded while in use.
PrototypeExists ==
  careless = {} =>
    \A b \in DOMAIN blocks : blocks[b].prototype # None =>
      \E p \in DOMAIN blocks : blocks[p].addr = blocks[b].prototype

\* The sequence numbers give the types a total order, in which the Lua side
\* declares them (ubx.lua:781), and the next one is larger.  Only a type that a
\* failed load or a cleanup function has left behind may share its number with
\* another, as ubx_node_cleanup starts again at 0 (ubx.c:383).
SeqidsOrder ==
  LET Kept == {t \in DOMAIN types : types[t].owner \notin Excused} IN
  /\ \A t, u \in Kept : types[t].seqid = types[u].seqid => t = u
  /\ \A t \in Kept : types[t].seqid < curSeqid

\* No block is freed with what its init hook has allocated, by whichever of the
\* ways to remove it, one by one or with the node: only an unload of its module
\* while it is in use does that.
NothingLeaks ==
  \A h \in held : \/ h.owner \in careless
                  \/ \E b \in DOMAIN blocks : blocks[b].addr = h.addr

\* "The node is empty but still valid afterwards." (ubx.c:350)  No instance is left,
\* and no type or prototype but those a failed load or an unload in use has left
\* before, or that the cleanup function of their module forgets.
CleanupEmpties ==
  [][NodeCleanup =>
       /\ \A t \in DOMAIN types' : types'[t].owner \in Excused'
       /\ \A b \in DOMAIN blocks' : /\ blocks'[b].prototype = None
                                    /\ blocks'[b].owner \in Excused']_vars

\* CleanupEmpties without the excuse: MCNode_CleanupLeavesNone.cfg shows a module of
\* the repository that breaks it.
CleanupLeavesNone ==
  [][NodeCleanup => DOMAIN types' = {} /\ DOMAIN blocks' = {}]_vars

=============================================================================
