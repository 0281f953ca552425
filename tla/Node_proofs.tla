---------------------------- MODULE Node_proofs -----------------------------
(***************************************************************************)
(* Theorems about a node, for any set of modules, whatever their init and  *)
(* cleanup functions register and unregister.                              *)
(***************************************************************************)
EXTENDS Node, FiniteSetTheorems, TLAPS

\* what the assumption says of the code of one module
LEMMA CodeIsTyped ==
  ASSUME NEW m \in Modules
  PROVE  /\ Code[m] \in CodeType
         /\ Code[m].types \in Seq(TypeNames)
         /\ Code[m].blocks = {} \/ \E b \in BlockNames : Code[m].blocks = {b}
<1>1. Code[m] \in CodeType
  BY NodeAssumption
<1>2. QED
  BY <1>1 DEF CodeType

\* the counts of types are numbers
LEMMA AcceptedFinite ==
  ASSUME NEW m \in Modules
  PROVE  /\ Cardinality(Accepted(m)) \in Nat
         /\ \A k : Cardinality({j \in Accepted(m) : j < k}) \in Nat
<1>1. PICK n \in Nat : DOMAIN Code[m].types = 1 .. n
  BY CodeIsTyped
<1>2. IsFiniteSet(1 .. n)
  BY <1>1, FS_Interval
<1>3. Accepted(m) \subseteq 1 .. n
  BY <1>1 DEF Accepted
<1>4. \A S \in SUBSET (1 .. n) : Cardinality(S) \in Nat
  <2>1. SUFFICES ASSUME NEW S \in SUBSET (1 .. n) PROVE Cardinality(S) \in Nat
    OBVIOUS
  <2>2. IsFiniteSet(S)
    BY <1>2, FS_Subset
  <2>3. QED
    BY <2>2, FS_CardinalityType
<1>5. \A k : {j \in Accepted(m) : j < k} \in SUBSET (1 .. n)
  BY <1>3
<1>6. QED
  BY <1>3, <1>4, <1>5

\* what an init function leaves in the table of types
LEMMA WithTypesTyped ==
  ASSUME TypeOK, NEW m \in Modules
  PROVE  /\ DOMAIN WithTypes(m) \subseteq TypeNames
         /\ \A t \in DOMAIN WithTypes(m) : WithTypes(m)[t] \in TypeInfo
         /\ curSeqid + Cardinality(Accepted(m)) \in Nat
<1> DEFINE new == {Code[m].types[i] : i \in Accepted(m)}
           Index(t) == CHOOSE i \in Accepted(m) : Code[m].types[i] = t
<1>1. new \subseteq TypeNames
  <2>1. Accepted(m) \subseteq DOMAIN Code[m].types
    BY DEF Accepted
  <2>2. QED
    BY <2>1, CodeIsTyped
<1>2. DOMAIN WithTypes(m) = DOMAIN types \cup new
  BY DEF WithTypes
<1>3. \A t \in DOMAIN WithTypes(m) : WithTypes(m)[t] \in TypeInfo
  <2>1. SUFFICES ASSUME NEW t \in DOMAIN types \cup new
                 PROVE  WithTypes(m)[t] \in TypeInfo
    BY <1>2
  <2>2. CASE t \in new
    <3>1. WithTypes(m)[t] = [owner |-> m,
            seqid |-> curSeqid + Cardinality({j \in Accepted(m) : j < Index(t)})]
      BY <2>2 DEF WithTypes
    <3>2. Cardinality({j \in Accepted(m) : j < Index(t)}) \in Nat
      BY AcceptedFinite
    <3>3. curSeqid \in Nat
      BY DEF TypeOK
    <3>4. QED
      BY <3>1, <3>2, <3>3 DEF TypeInfo
  <2>3. CASE t \notin new
    <3>1. WithTypes(m)[t] = types[t]
      BY <2>1, <2>3 DEF WithTypes
    <3>2. QED
      BY <2>3, <2>1, <3>1 DEF TypeOK
  <2>4. QED
    BY <2>2, <2>3
<1>4. curSeqid + Cardinality(Accepted(m)) \in Nat
  BY AcceptedFinite DEF TypeOK
<1>5. QED
  BY <1>1, <1>2, <1>3, <1>4 DEF TypeOK

-----------------------------------------------------------------------------
(* Type correctness.                                                        *)

\* the cases of a step
LEMMA ActionsOfNext ==
  ASSUME Next
  PROVE  \/ \E m \in Modules : ModuleLoad(m)
         \/ \E m \in Modules : ModuleLoadFails(m)
         \/ \E m \in Modules : ModuleUnload(m)
         \/ \E type \in BlockNames, b \in InstanceNames : BlockCreate(type, b)
         \/ \E b \in BlockNames : BlockRm(b)
         \/ \E b \in BlockNames : BlockInit(b)
         \/ \E b \in BlockNames : BlockStart(b)
         \/ \E b \in BlockNames : BlockStop(b)
         \/ \E b \in BlockNames : BlockCleanup(b)
         \/ NodeClear
         \/ NodeCleanup
BY DEF Next

\* a block that ubx_module_load or ubx_block_clone allocates is well-typed
LEMMA NewBlockTyped ==
  ASSUME TypeOK, allocated < MaxBlocks,
         NEW p \in 0 .. allocated, NEW m \in Modules, NEW u \in SUBSET Modules
  PROVE  /\ NewBlock(p, m, u) \in BlockInfo
         /\ NewBlock(p, m, u).prototype < NewBlock(p, m, u).addr
         /\ NewBlock(p, m, u).addr <= allocated + 1
<1>1. /\ allocated \in 0 .. MaxBlocks
      /\ MaxBlocks \in Nat
  BY NodeAssumption DEF TypeOK
<1>2. /\ allocated + 1 \in 1 .. MaxBlocks
      /\ p \in 0 .. MaxBlocks
      /\ p < allocated + 1
      /\ allocated + 1 <= allocated + 1
  BY <1>1
<1>3. QED
  BY <1>2 DEF NewBlock, BlockInfo

\* what is held stays well-typed when a block is allocated
LEMMA MoreAddresses ==
  ASSUME TypeOK
  PROVE  held \subseteq [addr : 1 .. allocated + 1, owner : Modules]
<1>1. allocated \in Nat /\ held \subseteq [addr : 1 .. allocated, owner : Modules]
  BY NodeAssumption DEF TypeOK
<1>2. 1 .. allocated \subseteq 1 .. allocated + 1
  BY <1>1
<1>3. QED
  BY <1>1, <1>2

\* TypeOK, action by action
LEMMA TypeLoad ==
  ASSUME TypeOK, NEW m \in Modules, ModuleLoad(m)
  PROVE  TypeOK'
<1>1. CASE Code[m].blocks = {}
  <2>1. Cardinality(Code[m].blocks) = 0
    BY <1>1, FS_EmptySet
  <2>2. /\ DOMAIN blocks' = DOMAIN blocks
        /\ \A b \in DOMAIN blocks : blocks'[b] = blocks[b]
        /\ allocated' = allocated
    BY <1>1, <2>1 DEF ModuleLoad, TypeOK
  <2>3. /\ modules' = modules \cup {m}
        /\ types' = WithTypes(m)
        /\ curSeqid' = curSeqid + Cardinality(Accepted(m))
        /\ held' = held
        /\ careless' = careless
    BY DEF ModuleLoad
  <2>4. /\ DOMAIN types' \subseteq TypeNames
        /\ \A t \in DOMAIN types' : types'[t] \in TypeInfo
        /\ curSeqid' \in Nat
    BY <2>3, WithTypesTyped
  <2>5. QED
    BY <2>2, <2>3, <2>4 DEF TypeOK
<1>2. CASE \E p \in BlockNames : Code[m].blocks = {p}
  <2>1. PICK p \in BlockNames : Code[m].blocks = {p}
    BY <1>2
  <2>2. Cardinality({p}) = 1
    BY FS_Singleton
  <2>3. /\ allocated' = allocated + 1
        /\ allocated < MaxBlocks
        /\ p \notin DOMAIN blocks
    BY <2>1, <2>2 DEF ModuleLoad, InitOk
  <2> DEFINE u == {WithTypes(m)[t].owner : t \in Code[m].needs}
  <2>4. u \in SUBSET Modules
    <3>1. Code[m].needs \subseteq DOMAIN WithTypes(m)
      BY <2>1 DEF ModuleLoad, InitOk
    <3>2. \A t \in Code[m].needs : WithTypes(m)[t].owner \in Modules
      BY <3>1, WithTypesTyped DEF TypeInfo
    <3>3. QED
      BY <3>2
  <2>5. /\ DOMAIN blocks' = DOMAIN blocks \cup {p}
        /\ \A b \in DOMAIN blocks : blocks'[b] = blocks[b]
        /\ blocks'[p] = NewBlock(None, m, u)
    BY <2>1, <2>3 DEF ModuleLoad
  <2>6. None \in 0 .. allocated
    BY DEF None, TypeOK
  <2>7. /\ blocks'[p] \in BlockInfo
        /\ blocks'[p].prototype < blocks'[p].addr
        /\ blocks'[p].addr <= allocated + 1
    BY <2>3, <2>4, <2>5, <2>6, NewBlockTyped
  <2>8. /\ modules' = modules \cup {m}
        /\ types' = WithTypes(m)
        /\ curSeqid' = curSeqid + Cardinality(Accepted(m))
        /\ held' = held
        /\ careless' = careless
    BY DEF ModuleLoad
  <2>9. /\ DOMAIN types' \subseteq TypeNames
        /\ \A t \in DOMAIN types' : types'[t] \in TypeInfo
        /\ curSeqid' \in Nat
    BY <2>8, WithTypesTyped
  <2>10. /\ DOMAIN blocks' \subseteq BlockNames
         /\ \A b \in DOMAIN blocks' : /\ blocks'[b] \in BlockInfo
                                      /\ blocks'[b].prototype < blocks'[b].addr
                                      /\ blocks'[b].addr <= allocated'
    <3>1. /\ DOMAIN blocks \subseteq BlockNames
          /\ \A b \in DOMAIN blocks : /\ blocks[b] \in BlockInfo
                                      /\ blocks[b].prototype < blocks[b].addr
                                      /\ blocks[b].addr <= allocated
          /\ allocated \in Nat
      BY DEF TypeOK
    <3>2. \A b \in DOMAIN blocks : blocks[b].addr \in Nat
      BY <3>1 DEF BlockInfo
    <3>3. QED
      BY <2>1, <2>3, <2>5, <2>7, <3>1, <3>2
  <2>11. /\ allocated' \in 0 .. MaxBlocks
         /\ held' \subseteq [addr : 1 .. allocated', owner : Modules]
    BY <2>3, <2>8, NodeAssumption, MoreAddresses DEF TypeOK
  <2>12. QED
    BY <2>8, <2>9, <2>10, <2>11 DEF TypeOK
<1>3. QED
  BY <1>1, <1>2, CodeIsTyped

\* a failed load keeps TypeOK: it changes the table of types only
LEMMA TypeLoadFails ==
  ASSUME TypeOK, NEW m \in Modules, ModuleLoadFails(m)
  PROVE  TypeOK'
<1>1. /\ DOMAIN types' \subseteq TypeNames
      /\ \A t \in DOMAIN types' : types'[t] \in TypeInfo
      /\ curSeqid' \in Nat
  BY WithTypesTyped DEF ModuleLoadFails
<1>2. careless' \subseteq Modules
  BY DEF ModuleLoadFails, TypeOK
<1>3. QED
  BY <1>1, <1>2 DEF ModuleLoadFails, TypeOK

\* an unload keeps TypeOK: the tables shrink
LEMMA TypeUnload ==
  ASSUME TypeOK, NEW m \in Modules, ModuleUnload(m)
  PROVE  TypeOK'
<1>1. /\ DOMAIN types' \subseteq DOMAIN types
      /\ \A t \in DOMAIN types' : types'[t] = types[t]
      /\ DOMAIN blocks' \subseteq DOMAIN blocks
      /\ \A b \in DOMAIN blocks' : blocks'[b] = blocks[b]
  BY DEF ModuleUnload, Without
<1>2. /\ modules' \subseteq modules
      /\ UNCHANGED <<curSeqid, allocated, held>>
  BY DEF ModuleUnload
<1>3. careless' \subseteq Modules
  <2>1. \A b \in DOMAIN blocks : blocks[b].owner \in Modules
    BY DEF TypeOK, BlockInfo
  <2>2. QED
    BY <2>1 DEF ModuleUnload, Spoilt, TypeOK
<1>4. QED
  BY <1>1, <1>2, <1>3 DEF TypeOK

\* ubx_block_rm keeps TypeOK: the table of blocks shrinks
LEMMA TypeRm ==
  ASSUME TypeOK, NEW b \in BlockNames, BlockRm(b)
  PROVE  TypeOK'
<1>1. /\ DOMAIN blocks' \subseteq DOMAIN blocks
      /\ \A x \in DOMAIN blocks' : blocks'[x] = blocks[x]
  BY DEF BlockRm, Without
<1>2. QED
  BY <1>1 DEF BlockRm, TypeOK

\* a clone is younger than its prototype
LEMMA TypeCreate ==
  ASSUME TypeOK, NEW type \in BlockNames, NEW b \in InstanceNames, BlockCreate(type, b)
  PROVE  TypeOK'
<1> DEFINE old == blocks[type]
<1>1. /\ old \in BlockInfo
      /\ old.addr \in 0 .. allocated
      /\ old.owner \in Modules
      /\ old.uses \in SUBSET Modules
  BY DEF BlockCreate, TypeOK, BlockInfo
<1>2. /\ NewBlock(old.addr, old.owner, old.uses) \in BlockInfo
      /\ NewBlock(old.addr, old.owner, old.uses).prototype
           < NewBlock(old.addr, old.owner, old.uses).addr
      /\ NewBlock(old.addr, old.owner, old.uses).addr <= allocated + 1
  BY <1>1, NewBlockTyped DEF BlockCreate
<1>3. /\ DOMAIN blocks' = DOMAIN blocks \cup {b}
      /\ blocks'[b] = NewBlock(old.addr, old.owner, old.uses)
      /\ \A x \in DOMAIN blocks : blocks'[x] = blocks[x]
      /\ allocated' = allocated + 1
  BY DEF BlockCreate
<1>4. /\ DOMAIN blocks' \subseteq BlockNames
      /\ \A x \in DOMAIN blocks' : /\ blocks'[x] \in BlockInfo
                                   /\ blocks'[x].prototype < blocks'[x].addr
                                   /\ blocks'[x].addr <= allocated'
  <2>1. /\ DOMAIN blocks \subseteq BlockNames
        /\ \A x \in DOMAIN blocks : /\ blocks[x] \in BlockInfo
                                    /\ blocks[x].prototype < blocks[x].addr
                                    /\ blocks[x].addr <= allocated
        /\ allocated \in Nat
        /\ b \in BlockNames
    BY NodeAssumption DEF TypeOK
  <2>2. \A x \in DOMAIN blocks : blocks[x].addr \in Nat
    BY <2>1 DEF BlockInfo
  <2>3. QED
    BY <1>2, <1>3, <2>1, <2>2
<1>5. /\ allocated' \in 0 .. MaxBlocks
      /\ held' \subseteq [addr : 1 .. allocated', owner : Modules]
  BY <1>3, NodeAssumption, MoreAddresses DEF BlockCreate, TypeOK
<1>6. QED
  BY <1>4, <1>5 DEF BlockCreate, TypeOK

\* the life cycle functions change one state
LEMMA TypeSwitch ==
  ASSUME TypeOK, NEW b \in BlockNames, NEW from,
         NEW to \in {"preinit", "inactive", "active"}, Switch(b, from, to),
         held' \subseteq held \cup {Resources(b)}
  PROVE  TypeOK'
<1>1. /\ DOMAIN blocks' = DOMAIN blocks
      /\ \A x \in DOMAIN blocks : x # b => blocks'[x] = blocks[x]
      /\ b \in DOMAIN blocks
      /\ blocks'[b] = [blocks[b] EXCEPT !.state = to]
  BY DEF Switch
<1>2. /\ blocks[b] \in BlockInfo
      /\ blocks'[b] \in BlockInfo
      /\ blocks'[b].prototype = blocks[b].prototype
      /\ blocks'[b].addr = blocks[b].addr
  BY <1>1 DEF TypeOK, BlockInfo
<1>3. held' \subseteq [addr : 1 .. allocated, owner : Modules]
  <2>1. /\ blocks[b].owner \in Modules
        /\ blocks[b].addr \in 1 .. allocated
    BY <1>1, <1>2 DEF TypeOK, BlockInfo
  <2>2. Resources(b) \in [addr : 1 .. allocated, owner : Modules]
    BY <2>1 DEF Resources
  <2>3. QED
    BY <2>2 DEF TypeOK
<1>4. QED
  BY <1>1, <1>2, <1>3 DEF Switch, TypeOK

\* ubx_node_clear leaves a well-typed table
LEMMA ClearedTyped ==
  ASSUME TypeOK
  PROVE  /\ DOMAIN Cleared \subseteq DOMAIN blocks
         /\ \A b \in DOMAIN Cleared : /\ Cleared[b] \in BlockInfo
                                      /\ Cleared[b].prototype = blocks[b].prototype
                                      /\ Cleared[b].addr = blocks[b].addr
                                      /\ Cleared[b].state = "preinit"
BY DEF Cleared, TypeOK, BlockInfo

\* ubx_node_cleanup keeps TypeOK: the tables shrink
LEMMA TypeNodeCleanup ==
  ASSUME TypeOK, NodeCleanup
  PROVE  TypeOK'
<1> DEFINE gone == UNION {Code[m].dropBlocks : m \in modules}
<1>1. /\ blocks' = Without(Cleared, gone)
      /\ allocated' = allocated
  BY DEF NodeCleanup
<1>2. /\ DOMAIN blocks' \subseteq DOMAIN Cleared
      /\ \A b \in DOMAIN blocks' : blocks'[b] = Cleared[b]
  BY <1>1 DEF Without
<1>3. /\ DOMAIN blocks' \subseteq BlockNames
      /\ \A b \in DOMAIN blocks' : /\ blocks'[b] \in BlockInfo
                                   /\ blocks'[b].prototype < blocks'[b].addr
                                   /\ blocks'[b].addr <= allocated'
  BY <1>1, <1>2, ClearedTyped DEF TypeOK
<1>4. /\ DOMAIN types' \subseteq DOMAIN types
      /\ \A t \in DOMAIN types' : types'[t] = types[t]
  BY DEF NodeCleanup, Without
<1>5. QED
  BY <1>3, <1>4 DEF NodeCleanup, TypeOK

\* Type correctness: after any sequence of loads, failed loads, unloads, creations,
\* removals and life cycle calls the tables hold well-formed entries, and a clone
\* is younger than what it was cloned from.
THEOREM TypeCorrect == Spec => []TypeOK
<1>1. Init => TypeOK
  BY NodeAssumption DEF Init, TypeOK
<1>2. TypeOK /\ [Next]_vars => TypeOK'
  <2> SUFFICES ASSUME TypeOK, [Next]_vars PROVE TypeOK'
    OBVIOUS
  <2>1. CASE \E m \in Modules : ModuleLoad(m)
    BY <2>1, TypeLoad
  <2>2. CASE \E m \in Modules : ModuleLoadFails(m)
    BY <2>2, TypeLoadFails
  <2>3. CASE \E m \in Modules : ModuleUnload(m)
    BY <2>3, TypeUnload
  <2>4. CASE \E type \in BlockNames, b \in InstanceNames : BlockCreate(type, b)
    BY <2>4, TypeCreate
  <2>5. CASE \E b \in BlockNames : BlockRm(b)
    BY <2>5, TypeRm
  <2>6. CASE \E b \in BlockNames : BlockInit(b)
    BY <2>6, TypeSwitch DEF BlockInit
  <2>7. CASE \E b \in BlockNames : BlockStart(b)
    BY <2>7, TypeSwitch DEF BlockStart
  <2>8. CASE \E b \in BlockNames : BlockStop(b)
    BY <2>8, TypeSwitch DEF BlockStop
  <2>9. CASE \E b \in BlockNames : BlockCleanup(b)
    BY <2>9, TypeSwitch DEF BlockCleanup
  <2>10. CASE NodeClear
    BY <2>10, ClearedTyped DEF NodeClear, TypeOK
  <2>11. CASE NodeCleanup
    BY <2>11, TypeNodeCleanup
  <2>12. CASE UNCHANGED vars
    BY <2>12 DEF vars, TypeOK
  <2>13. QED
    BY <2>1, <2>2, <2>3, <2>4, <2>5, <2>6, <2>7, <2>8, <2>9, <2>10, <2>11, <2>12,
       ActionsOfNext
<1>3. QED
  BY <1>1, <1>2, PTL DEF Spec

-----------------------------------------------------------------------------
(* Initialised blocks.  CleanedUp is what the blocks that are not in state   *)
(* preinit have allocated.                                                   *)

\* the inductive strengthening of NothingLeaks: what is held belongs to a block that
\* is not in state preinit, and only those can be freed that are
HeldByState == \A h \in held : h.owner \in careless \/ h \in CleanedUp

\* tables that keep the blocks that are not in state preinit
LEMMA NonPreinitKept ==
  ASSUME \A x \in DOMAIN blocks : blocks[x].state # "preinit" =>
           x \in DOMAIN blocks' /\ blocks'[x] = blocks[x]
  PROVE  CleanedUp \subseteq CleanedUp'
BY DEF CleanedUp, Resources

\* an unload frees only blocks in state preinit, or else their modules are careless
LEMMA HeldUnload ==
  ASSUME HeldByState, NEW m \in Modules, ModuleUnload(m)
  PROVE  HeldByState'
<1>1. /\ careless' = careless \cup Spoilt(m)
      /\ held' = held
      /\ DOMAIN blocks' = DOMAIN blocks \ Code[m].dropBlocks
      /\ \A b \in DOMAIN blocks' : blocks'[b] = blocks[b]
  BY DEF ModuleUnload, Without
<1>2. SUFFICES ASSUME NEW h \in held, h \in CleanedUp
               PROVE  h.owner \in careless' \/ h \in CleanedUp'
  BY <1>1 DEF HeldByState
<1>3. PICK x \in DOMAIN blocks : blocks[x].state # "preinit" /\ h = Resources(x)
  BY <1>2 DEF CleanedUp
<1>4. CASE x \in Code[m].dropBlocks
  <2>1. blocks[x].owner \in Spoilt(m)
    BY <1>3, <1>4 DEF Spoilt
  <2>2. h.owner = blocks[x].owner
    BY <1>3 DEF Resources
  <2>3. QED
    BY <1>1, <2>1, <2>2
<1>5. CASE x \notin Code[m].dropBlocks
  <2>1. x \in DOMAIN blocks' /\ blocks'[x] = blocks[x]
    BY <1>1, <1>5
  <2>2. QED
    BY <1>3, <2>1 DEF CleanedUp, Resources
<1>6. QED
  BY <1>4, <1>5

\* the life cycle functions keep what is held in step with the states
LEMMA HeldSwitch ==
  ASSUME HeldByState, NEW b \in BlockNames, NEW from, NEW to, Switch(b, from, to),
         held' \subseteq held \cup {Resources(b)},
         to = "preinit" => Resources(b) \notin held',
         TypeOK
  PROVE  HeldByState'
<1>1. /\ b \in DOMAIN blocks
      /\ DOMAIN blocks' = DOMAIN blocks
      /\ \A x \in DOMAIN blocks : x # b => blocks'[x] = blocks[x]
      /\ blocks'[b] = [blocks[b] EXCEPT !.state = to]
      /\ blocks[b] \in BlockInfo
      /\ careless' = careless
  BY DEF Switch, TypeOK
<1>2. /\ blocks'[b].addr = blocks[b].addr
      /\ blocks'[b].owner = blocks[b].owner
      /\ blocks'[b].state = to
  BY <1>1 DEF BlockInfo
<1>3. SUFFICES ASSUME NEW h \in held', h.owner \notin careless PROVE h \in CleanedUp'
  BY <1>1 DEF HeldByState
<1>4. CASE h = Resources(b)
  <2>1. to # "preinit"
    BY <1>3, <1>4
  <2>2. QED
    BY <1>1, <1>2, <1>4, <2>1 DEF CleanedUp, Resources
<1>5. CASE h # Resources(b)
  <2>1. h \in CleanedUp
    BY <1>3, <1>5 DEF HeldByState
  <2>2. PICK x \in DOMAIN blocks : blocks[x].state # "preinit" /\ h = Resources(x)
    BY <2>1 DEF CleanedUp
  <2>3. x # b
    BY <1>5, <2>2
  <2>4. QED
    BY <1>1, <2>2, <2>3 DEF CleanedUp, Resources
<1>6. QED
  BY <1>4, <1>5

\* No block is freed with what its init hook has allocated, whatever the modules
\* register and unregister, but by the unload of a module that is in use.
THEOREM NothingLeaksHolds == Spec => []NothingLeaks
<1>1. Init => HeldByState
  BY DEF Init, HeldByState
<1>2. TypeOK /\ HeldByState /\ [Next]_vars => HeldByState'
  <2> SUFFICES ASSUME TypeOK, HeldByState, [Next]_vars PROVE HeldByState'
    OBVIOUS
  <2>1. CASE \E m \in Modules : ModuleLoad(m)
    <3>1. CleanedUp \subseteq CleanedUp'
      BY <2>1, NonPreinitKept DEF ModuleLoad
    <3>2. held' = held /\ careless' = careless
      BY <2>1 DEF ModuleLoad
    <3>3. QED
      BY <3>1, <3>2 DEF HeldByState
  <2>2. CASE \E m \in Modules : ModuleLoadFails(m)
    <3>1. UNCHANGED <<blocks, held>> /\ careless \subseteq careless'
      BY <2>2 DEF ModuleLoadFails
    <3>2. QED
      BY <3>1 DEF HeldByState, CleanedUp, Resources
  <2>3. CASE \E m \in Modules : ModuleUnload(m)
    BY <2>3, HeldUnload
  <2>4. CASE \E type \in BlockNames, b \in InstanceNames : BlockCreate(type, b)
    <3>1. CleanedUp \subseteq CleanedUp'
      BY <2>4, NonPreinitKept DEF BlockCreate
    <3>2. held' = held /\ careless' = careless
      BY <2>4 DEF BlockCreate
    <3>3. QED
      BY <3>1, <3>2 DEF HeldByState
  <2>5. CASE \E b \in BlockNames : BlockRm(b)
    <3>1. CleanedUp \subseteq CleanedUp'
      BY <2>5, NonPreinitKept DEF BlockRm, Without
    <3>2. held' = held /\ careless' = careless
      BY <2>5 DEF BlockRm
    <3>3. QED
      BY <3>1, <3>2 DEF HeldByState
  <2>6. CASE \E b \in BlockNames : BlockInit(b)
    BY <2>6, HeldSwitch DEF BlockInit
  <2>7. CASE \E b \in BlockNames : BlockStart(b)
    BY <2>7, HeldSwitch DEF BlockStart
  <2>8. CASE \E b \in BlockNames : BlockStop(b)
    BY <2>8, HeldSwitch DEF BlockStop
  <2>9. CASE \E b \in BlockNames : BlockCleanup(b)
    BY <2>9, HeldSwitch DEF BlockCleanup
  <2>10. CASE NodeClear \/ NodeCleanup
    <3>1. held' = held \ CleanedUp /\ careless' = careless
      BY <2>10 DEF NodeClear, NodeCleanup
    <3>2. QED
      BY <3>1 DEF HeldByState
  <2>11. CASE UNCHANGED vars
    BY <2>11 DEF vars, HeldByState, CleanedUp, Resources
  <2>12. QED
    BY <2>1, <2>2, <2>3, <2>4, <2>5, <2>6, <2>7, <2>8, <2>9, <2>10, <2>11, ActionsOfNext
<1>3. HeldByState => NothingLeaks
  BY DEF HeldByState, NothingLeaks, CleanedUp, Resources
<1>4. QED
  BY <1>1, <1>2, <1>3, TypeCorrect, PTL DEF Spec

-----------------------------------------------------------------------------
(* What the modules register, and who takes it away.                         *)

\* the inductive strengthening of ReferencesMapped: the cleanup function of a loaded
\* module finds what the module has registered and takes it away, all but that of
\* the excused modules
Registered ==
  /\ ReferencesMapped
  /\ \A t \in DOMAIN types :
       types[t].owner \in Excused \/ t \in Code[types[t].owner].dropTypes
  /\ \A b \in DOMAIN blocks : blocks[b].prototype = None =>
       blocks[b].owner \in Excused \/ b \in Code[blocks[b].owner].dropBlocks

\* nobody is forgiven
LEMMA ExcusedGrows ==
  ASSUME careless \subseteq careless'
  PROVE  Excused \subseteq Excused'
BY DEF Excused, Balanced

\* the entries after the init function of m are its own and the old ones
LEMMA WithTypesEntries ==
  ASSUME NEW m \in Modules
  PROVE  /\ DOMAIN types \subseteq DOMAIN WithTypes(m)
         /\ \A t \in DOMAIN WithTypes(m) :
              \/ /\ \E i \in Accepted(m) : t = Code[m].types[i]
                 /\ WithTypes(m)[t].owner = m
              \/ /\ t \in DOMAIN types
                 /\ WithTypes(m)[t] = types[t]
<1> DEFINE new == {Code[m].types[i] : i \in Accepted(m)}
<1>1. DOMAIN WithTypes(m) = DOMAIN types \cup new
  BY DEF WithTypes
<1>2. SUFFICES ASSUME NEW t \in DOMAIN WithTypes(m)
               PROVE  \/ /\ \E i \in Accepted(m) : t = Code[m].types[i]
                         /\ WithTypes(m)[t].owner = m
                      \/ /\ t \in DOMAIN types
                         /\ WithTypes(m)[t] = types[t]
  BY <1>1
<1>3. CASE t \in new
  BY <1>3 DEF WithTypes
<1>4. CASE t \notin new
  BY <1>1, <1>4 DEF WithTypes
<1>5. QED
  BY <1>3, <1>4

\* the types that an init function registers are taken away by its cleanup function,
\* unless the module is excused
LEMMA TypesRegistered ==
  ASSUME TypeOK, Registered, NEW m \in Modules,
         types' = WithTypes(m), modules \subseteq modules', careless \subseteq careless',
         m \in modules' \cup Excused'
  PROVE  \A t \in DOMAIN types' :
           /\ types'[t].owner \in modules' \cup Excused'
           /\ types'[t].owner \in Excused' \/ t \in Code[types'[t].owner].dropTypes
<1>1. SUFFICES ASSUME NEW t \in DOMAIN WithTypes(m)
               PROVE  /\ WithTypes(m)[t].owner \in modules' \cup Excused'
                      /\ \/ WithTypes(m)[t].owner \in Excused'
                         \/ t \in Code[WithTypes(m)[t].owner].dropTypes
  OBVIOUS
<1>2. CASE t \in DOMAIN types /\ WithTypes(m)[t] = types[t]
  BY <1>2, ExcusedGrows DEF Registered, ReferencesMapped
<1>3. CASE (\E i \in Accepted(m) : t = Code[m].types[i]) /\ WithTypes(m)[t].owner = m
  <2>1. Balanced(m) => t \in Code[m].dropTypes
    BY <1>3 DEF Accepted, Balanced
  <2>2. ~Balanced(m) => m \in Excused'
    BY DEF Excused, Balanced
  <2>3. QED
    BY <1>3, <2>1, <2>2
<1>4. QED
  BY <1>1, <1>2, <1>3, WithTypesEntries

\* a load that succeeds adds what the module will take away
LEMMA RegisteredLoad ==
  ASSUME TypeOK, Registered, NEW m \in Modules, ModuleLoad(m)
  PROVE  Registered'
<1>1. /\ types' = WithTypes(m)
      /\ modules' = modules \cup {m}
      /\ careless' = careless
  BY DEF ModuleLoad
<1>2. Excused \subseteq Excused'
  BY <1>1, ExcusedGrows
<1>3. \A t \in DOMAIN types' :
        /\ types'[t].owner \in modules' \cup Excused'
        /\ types'[t].owner \in Excused' \/ t \in Code[types'[t].owner].dropTypes
  BY <1>1, TypesRegistered
<1>4. \A b \in DOMAIN blocks' :
        /\ \/ blocks'[b].owner \in Excused'
           \/ {blocks'[b].owner} \cup blocks'[b].uses \subseteq modules' \cup Excused'
        /\ blocks'[b].prototype = None =>
             blocks'[b].owner \in Excused' \/ b \in Code[blocks'[b].owner].dropBlocks
  <2>1. SUFFICES ASSUME NEW b \in DOMAIN blocks'
                 PROVE  /\ \/ blocks'[b].owner \in Excused'
                           \/ {blocks'[b].owner} \cup blocks'[b].uses
                                \subseteq modules' \cup Excused'
                        /\ blocks'[b].prototype = None =>
                             \/ blocks'[b].owner \in Excused'
                             \/ b \in Code[blocks'[b].owner].dropBlocks
    OBVIOUS
  <2>2. CASE b \in DOMAIN blocks
    <3>1. blocks'[b] = blocks[b]
      BY <2>2 DEF ModuleLoad
    <3>2. QED
      BY <1>1, <1>2, <2>2, <3>1 DEF Registered, ReferencesMapped
  <2>3. CASE b \notin DOMAIN blocks
    <3> DEFINE u == {WithTypes(m)[t].owner : t \in Code[m].needs}
    <3>1. b \in Code[m].blocks /\ blocks'[b] = NewBlock(None, m, u)
      BY <2>1, <2>3 DEF ModuleLoad
    <3>2. Code[m].needs \subseteq DOMAIN WithTypes(m)
      BY <3>1 DEF ModuleLoad, InitOk
    <3>3. u \subseteq modules' \cup Excused'
      BY <1>1, <1>3, <3>2
    <3>4. blocks'[b].owner = m /\ blocks'[b].uses = u
      BY <3>1 DEF NewBlock
    <3>5. m \in Excused' \/ b \in Code[m].dropBlocks
      BY <3>1 DEF Excused, Balanced
    <3>6. QED
      BY <1>1, <3>3, <3>4, <3>5
  <2>4. QED
    BY <2>2, <2>3
<1>5. QED
  BY <1>3, <1>4 DEF Registered, ReferencesMapped

\* a load that fails leaves types of a module that is careless then
LEMMA RegisteredLoadFails ==
  ASSUME TypeOK, Registered, NEW m \in Modules, ModuleLoadFails(m)
  PROVE  Registered'
<1>1. /\ types' = WithTypes(m)
      /\ UNCHANGED <<modules, blocks>>
      /\ careless' = careless \cup {x \in {m} : Accepted(x) # {}}
  BY DEF ModuleLoadFails
<1>2. Excused \subseteq Excused'
  BY <1>1, ExcusedGrows
<1>3. \A b \in DOMAIN blocks' :
        /\ \/ blocks'[b].owner \in Excused'
           \/ {blocks'[b].owner} \cup blocks'[b].uses \subseteq modules' \cup Excused'
        /\ blocks'[b].prototype = None =>
             blocks'[b].owner \in Excused' \/ b \in Code[blocks'[b].owner].dropBlocks
  BY <1>1, <1>2 DEF Registered, ReferencesMapped
<1>4. \A t \in DOMAIN types' :
        /\ types'[t].owner \in modules' \cup Excused'
        /\ types'[t].owner \in Excused' \/ t \in Code[types'[t].owner].dropTypes
  <2>1. CASE Accepted(m) = {}
    <3>1. /\ DOMAIN types' \subseteq DOMAIN types
          /\ \A t \in DOMAIN types' : types'[t] = types[t]
      BY <1>1, <2>1, WithTypesEntries
    <3>2. QED
      BY <1>1, <1>2, <3>1 DEF Registered, ReferencesMapped
  <2>2. CASE Accepted(m) # {}
    <3>1. m \in Excused'
      BY <1>1, <2>2 DEF Excused
    <3>2. QED
      BY <1>1, <3>1, TypesRegistered
  <2>3. QED
    BY <2>1, <2>2
<1>5. QED
  BY <1>3, <1>4 DEF Registered, ReferencesMapped

\* what is left after an unload does not refer to the module, or it is careless then
LEMMA RegisteredUnload ==
  ASSUME TypeOK, Registered, NEW m \in Modules, ModuleUnload(m)
  PROVE  Registered'
<1>1. /\ modules' = modules \ {m}
      /\ DOMAIN types' = DOMAIN types \ Code[m].dropTypes
      /\ \A t \in DOMAIN types' : types'[t] = types[t]
      /\ DOMAIN blocks' = DOMAIN blocks \ Code[m].dropBlocks
      /\ \A b \in DOMAIN blocks' : blocks'[b] = blocks[b]
      /\ careless' = careless \cup Spoilt(m)
  BY DEF ModuleUnload, Without
<1>2. Excused \subseteq Excused'
  BY <1>1, ExcusedGrows
<1>3. \A t \in DOMAIN types' : types'[t].owner # m \/ m \in Excused'
  BY <1>1, <1>2 DEF Registered
<1>4. ASSUME m \notin Excused'
      PROVE  \A b \in DOMAIN blocks' : blocks'[b].owner # m /\ m \notin blocks'[b].uses
  <2>1. Users(m) \subseteq Code[m].dropBlocks
    BY <1>1, <1>4 DEF Excused, Spoilt
  <2>2. QED
    BY <1>1, <2>1 DEF Users
<1>5. \A t \in DOMAIN types' :
        /\ types'[t].owner \in modules' \cup Excused'
        /\ types'[t].owner \in Excused' \/ t \in Code[types'[t].owner].dropTypes
  BY <1>1, <1>2, <1>3 DEF Registered, ReferencesMapped
<1>6. ASSUME NEW b \in DOMAIN blocks'
      PROVE  /\ \/ blocks'[b].owner \in Excused'
                \/ {blocks'[b].owner} \cup blocks'[b].uses \subseteq modules' \cup Excused'
             /\ blocks'[b].prototype = None =>
                  blocks'[b].owner \in Excused' \/ b \in Code[blocks'[b].owner].dropBlocks
  <2>1. /\ blocks'[b] = blocks[b]
        /\ b \in DOMAIN blocks
    BY <1>1
  <2>2. /\ \/ blocks[b].owner \in Excused
           \/ {blocks[b].owner} \cup blocks[b].uses \subseteq modules \cup Excused
        /\ blocks[b].prototype = None =>
             blocks[b].owner \in Excused \/ b \in Code[blocks[b].owner].dropBlocks
    BY <2>1 DEF Registered, ReferencesMapped
  <2>3. QED
    BY <1>1, <1>2, <1>4, <2>1, <2>2
<1>7. QED
  BY <1>5, <1>6 DEF Registered, ReferencesMapped

\* ubx_node_cleanup leaves nothing but what excused modules have registered
LEMMA CleanupLeavesExcused ==
  ASSUME TypeOK, Registered, NodeCleanup
  PROVE  /\ \A t \in DOMAIN types' : types'[t].owner \in Excused'
         /\ \A b \in DOMAIN blocks' : /\ blocks'[b].prototype = None
                                      /\ blocks'[b].owner \in Excused'
<1> DEFINE goneTypes == UNION {Code[m].dropTypes : m \in modules}
           goneBlocks == UNION {Code[m].dropBlocks : m \in modules}
<1>1. Excused' = Excused
  BY DEF NodeCleanup, Excused, Balanced
<1>2. /\ DOMAIN types' = DOMAIN types \ goneTypes
      /\ \A t \in DOMAIN types' : types'[t] = types[t]
  BY DEF NodeCleanup, Without
<1>3. /\ DOMAIN blocks' = DOMAIN Cleared \ goneBlocks
      /\ \A b \in DOMAIN blocks' : blocks'[b] = Cleared[b]
  BY DEF NodeCleanup, Without
<1>4. \A b \in DOMAIN Cleared : /\ b \in DOMAIN blocks
                                /\ Cleared[b].prototype = None
                                /\ blocks[b].prototype = None
                                /\ Cleared[b].owner = blocks[b].owner
  BY DEF Cleared, TypeOK, BlockInfo
<1>5. ASSUME NEW t \in DOMAIN types' PROVE types'[t].owner \in Excused'
  <2>1. t \in DOMAIN types /\ types'[t] = types[t] /\ t \notin goneTypes
    BY <1>2
  <2>2. types[t].owner \in modules => t \notin Code[types[t].owner].dropTypes
    BY <2>1
  <2>3. QED
    BY <1>1, <2>1, <2>2 DEF Registered, ReferencesMapped
<1>6. ASSUME NEW b \in DOMAIN blocks'
      PROVE  /\ blocks'[b].prototype = None
             /\ blocks'[b].owner \in Excused'
  <2>1. b \in DOMAIN Cleared /\ blocks'[b] = Cleared[b] /\ b \notin goneBlocks
    BY <1>3
  <2>2. blocks[b].owner \in modules => b \notin Code[blocks[b].owner].dropBlocks
    BY <2>1
  <2>3. QED
    BY <1>1, <1>4, <2>1, <2>2 DEF Registered, ReferencesMapped
<1>7. QED
  BY <1>5, <1>6

\* What the modules have registered is what they will take away: the inductive form
\* of ReferencesMapped and of CleanupEmpties, for any modules and any use of them.
THEOREM RegisteredInvariant == Spec => []Registered
<1>1. Init => Registered
  BY DEF Init, Registered, ReferencesMapped
<1>2. TypeOK /\ Registered /\ [Next]_vars => Registered'
  <2> SUFFICES ASSUME TypeOK, Registered, [Next]_vars PROVE Registered'
    OBVIOUS
  <2>1. CASE \E m \in Modules : ModuleLoad(m)
    BY <2>1, RegisteredLoad
  <2>2. CASE \E m \in Modules : ModuleLoadFails(m)
    BY <2>2, RegisteredLoadFails
  <2>3. CASE \E m \in Modules : ModuleUnload(m)
    BY <2>3, RegisteredUnload
  <2>4. CASE \E type \in BlockNames, b \in InstanceNames : BlockCreate(type, b)
    <3>1. PICK type \in BlockNames, b \in InstanceNames : BlockCreate(type, b)
      BY <2>4
    <3>2. /\ DOMAIN blocks' = DOMAIN blocks \cup {b}
          /\ \A x \in DOMAIN blocks : blocks'[x] = blocks[x]
          /\ blocks'[b].owner = blocks[type].owner
          /\ blocks'[b].uses = blocks[type].uses
          /\ blocks'[b].prototype = blocks[type].addr
          /\ type \in DOMAIN blocks
      BY <3>1 DEF BlockCreate, NewBlock
    <3>3. blocks[type].addr # None
      BY <3>2 DEF TypeOK, BlockInfo, None
    <3>4. UNCHANGED <<modules, types>> /\ Excused' = Excused
      BY <3>1 DEF BlockCreate, Excused, Balanced
    <3>5. QED
      BY <3>2, <3>3, <3>4 DEF Registered, ReferencesMapped
  <2>5. CASE \E b \in BlockNames : BlockRm(b)
    BY <2>5 DEF BlockRm, Without, Registered, ReferencesMapped, Excused, Balanced
  <2>6. CASE \E b \in BlockNames : BlockInit(b) \/ BlockStart(b) \/ BlockStop(b) \/ BlockCleanup(b)
    <3>1. PICK b \in BlockNames : \E from, to \in {"preinit", "inactive", "active"} : Switch(b, from, to)
      BY <2>6 DEF BlockInit, BlockStart, BlockStop, BlockCleanup
    <3>2. /\ DOMAIN blocks' = DOMAIN blocks
          /\ \A x \in DOMAIN blocks : /\ blocks'[x].owner = blocks[x].owner
                                      /\ blocks'[x].uses = blocks[x].uses
                                      /\ blocks'[x].prototype = blocks[x].prototype
      BY <3>1 DEF Switch, TypeOK, BlockInfo
    <3>3. UNCHANGED <<modules, types>> /\ Excused' = Excused
      BY <3>1 DEF Switch, Excused, Balanced
    <3>4. QED
      BY <3>2, <3>3 DEF Registered, ReferencesMapped
  <2>7. CASE NodeClear
    <3>1. /\ DOMAIN blocks' \subseteq DOMAIN blocks
          /\ \A x \in DOMAIN blocks' : /\ blocks'[x].owner = blocks[x].owner
                                       /\ blocks'[x].uses = blocks[x].uses
                                       /\ blocks'[x].prototype = blocks[x].prototype
      BY <2>7 DEF NodeClear, Cleared, TypeOK, BlockInfo
    <3>2. UNCHANGED <<modules, types>> /\ Excused' = Excused
      BY <2>7 DEF NodeClear, Excused, Balanced
    <3>3. QED
      BY <3>1, <3>2 DEF Registered, ReferencesMapped
  <2>8. CASE NodeCleanup
    BY <2>8, CleanupLeavesExcused DEF Registered, ReferencesMapped
  <2>9. CASE UNCHANGED vars
    BY <2>9 DEF vars, Registered, ReferencesMapped, Excused, Balanced
  <2>10. QED
    BY <2>1, <2>2, <2>3, <2>4, <2>5, <2>6, <2>7, <2>8, <2>9, ActionsOfNext
<1>3. QED
  BY <1>1, <1>2, TypeCorrect, PTL DEF Spec

\* What the node refers to is mapped, but for what a failed load, an unload in use
\* or an incomplete cleanup function has spoilt, and nothing else is spoilt by it.
THEOREM ReferencesMappedHolds == Spec => []ReferencesMapped
<1>1. Registered => ReferencesMapped
  BY DEF Registered
<1>2. QED
  BY <1>1, RegisteredInvariant, PTL

\* "The node is empty but still valid afterwards": ubx_node_cleanup leaves no instance,
\* and a type or prototype only of a module that has left it before or forgets it.
THEOREM CleanupEmptiesHolds == Spec => CleanupEmpties
<1>1. TypeOK /\ Registered /\ [Next]_vars =>
        [NodeCleanup =>
           /\ \A t \in DOMAIN types' : types'[t].owner \in Excused'
           /\ \A b \in DOMAIN blocks' : /\ blocks'[b].prototype = None
                                        /\ blocks'[b].owner \in Excused']_vars
  BY CleanupLeavesExcused
<1>2. QED
  BY <1>1, RegisteredInvariant, TypeCorrect, PTL DEF Spec, CleanupEmpties

-----------------------------------------------------------------------------
(* The order of the types.                                                  *)

\* The types a module registers get different numbers, all below the next one.
LEMMA NumbersDiffer ==
  ASSUME NEW m \in Modules, NEW i \in Accepted(m)
  PROVE  /\ Cardinality({j \in Accepted(m) : j < i}) < Cardinality(Accepted(m))
         /\ \A k \in Accepted(m) : i < k =>
              Cardinality({j \in Accepted(m) : j < i}) < Cardinality({j \in Accepted(m) : j < k})
<1> DEFINE Below(k) == {j \in Accepted(m) : j < k}
<1>1. PICK n \in Nat : DOMAIN Code[m].types = 1 .. n
  BY CodeIsTyped
<1>2. IsFiniteSet(1 .. n)
  BY <1>1, FS_Interval
<1>3. Accepted(m) \subseteq 1 .. n
  BY <1>1 DEF Accepted
<1>4. \A S \in SUBSET (1 .. n) : IsFiniteSet(S) /\ Cardinality(S) \in Nat
  <2>1. SUFFICES ASSUME NEW S \in SUBSET (1 .. n)
                 PROVE  IsFiniteSet(S) /\ Cardinality(S) \in Nat
    OBVIOUS
  <2>2. IsFiniteSet(S)
    BY <1>2, FS_Subset
  <2>3. QED
    BY <2>2, FS_CardinalityType
<1>5. \A S \in SUBSET (1 .. n) : \A T \in SUBSET S :
        i \in S /\ i \notin T => Cardinality(T) < Cardinality(S)
  <2>1. SUFFICES ASSUME NEW S \in SUBSET (1 .. n), NEW T \in SUBSET S, i \in S, i \notin T
                 PROVE  Cardinality(T) < Cardinality(S)
    OBVIOUS
  <2>2. /\ Cardinality(T) <= Cardinality(S)
        /\ Cardinality(S) = Cardinality(T) => S = T
    BY <1>4, FS_Subset
  <2>3. Cardinality(S) \in Nat /\ Cardinality(T) \in Nat
    BY <1>4
  <2>4. QED
    BY <2>1, <2>2, <2>3
<1>6. i \notin Below(i)
  BY <1>3
<1>7. Cardinality(Below(i)) < Cardinality(Accepted(m))
  BY <1>3, <1>5, <1>6
<1>8. ASSUME NEW k \in Accepted(m), i < k
      PROVE  Cardinality(Below(i)) < Cardinality(Below(k))
  <2>1. Below(k) \in SUBSET (1 .. n) /\ i \in Below(k)
    BY <1>3, <1>8
  <2>2. Below(i) \in SUBSET Below(k)
    BY <1>3, <1>8
  <2>3. QED
    BY <1>5, <1>6, <2>1, <2>2
<1>9. QED
  BY <1>7, <1>8

\* the types that the sequence numbers order
KeptTypes == {t \in DOMAIN types : types[t].owner \notin Excused}

\* what an init function registers comes after all that is there, in its order
LEMMA WithTypesOrdered ==
  ASSUME TypeOK, SeqidsOrder, NEW m \in Modules
  PROVE  LET all == KeptTypes \cup {Code[m].types[i] : i \in Accepted(m)} IN
         /\ \A t, u \in all : WithTypes(m)[t].seqid = WithTypes(m)[u].seqid => t = u
         /\ \A t \in all : WithTypes(m)[t].seqid < curSeqid + Cardinality(Accepted(m))
<1> DEFINE new == {Code[m].types[i] : i \in Accepted(m)}
           Index(t) == CHOOSE i \in Accepted(m) : Code[m].types[i] = t
           Number(i) == Cardinality({j \in Accepted(m) : j < i})
<1>1. curSeqid \in Nat /\ Cardinality(Accepted(m)) \in Nat /\ \A i : Number(i) \in Nat
  BY AcceptedFinite DEF TypeOK
<1>2. KeptTypes \subseteq DOMAIN types
  BY DEF KeptTypes
<1>3. \A t \in new : WithTypes(m)[t].seqid = curSeqid + Number(Index(t))
  BY DEF WithTypes
<1>4. \A t \in DOMAIN types \ new : WithTypes(m)[t] = types[t]
  BY DEF WithTypes
<1>5. \A t \in new : Index(t) \in Accepted(m) /\ Code[m].types[Index(t)] = t
  OBVIOUS
<1>6. \A i \in Accepted(m) : i \in Nat
  BY CodeIsTyped DEF Accepted
<1>7. \A t \in KeptTypes : types[t].seqid \in Nat /\ types[t].seqid < curSeqid
  BY DEF TypeOK, TypeInfo, SeqidsOrder, KeptTypes
<1>8. \A t \in new : Number(Index(t)) < Cardinality(Accepted(m))
  BY <1>5, NumbersDiffer
<1>9. \A i, k \in Accepted(m) : Number(i) = Number(k) => i = k
  <2>1. SUFFICES ASSUME NEW i \in Accepted(m), NEW k \in Accepted(m), Number(i) = Number(k)
                 PROVE  i = k
    OBVIOUS
  <2>2. i < k => Number(i) < Number(k)
    BY NumbersDiffer
  <2>3. k < i => Number(k) < Number(i)
    BY NumbersDiffer
  <2>4. QED
    BY <1>1, <1>6, <2>1, <2>2, <2>3
<1> HIDE DEF new, Index, Number
<1>10. \A t, u \in new : WithTypes(m)[t].seqid = WithTypes(m)[u].seqid => t = u
  <2>1. SUFFICES ASSUME NEW t \in new, NEW u \in new,
                        WithTypes(m)[t].seqid = WithTypes(m)[u].seqid
                 PROVE  t = u
    OBVIOUS
  <2>2. Number(Index(t)) = Number(Index(u))
    BY <1>1, <1>3, <2>1
  <2>3. QED
    BY <1>5, <1>9, <2>2
<1>11. \A t \in new, u \in KeptTypes \ new :
         WithTypes(m)[u].seqid < WithTypes(m)[t].seqid
  BY <1>1, <1>2, <1>3, <1>4, <1>7
<1>12. \A t, u \in KeptTypes \ new :
         WithTypes(m)[t].seqid = WithTypes(m)[u].seqid => t = u
  BY <1>2, <1>4 DEF SeqidsOrder, KeptTypes
<1>13. \A t \in KeptTypes \cup new : WithTypes(m)[t].seqid \in Nat
  BY <1>1, <1>2, <1>3, <1>4, <1>7
<1>14. \A t \in KeptTypes \cup new :
         WithTypes(m)[t].seqid < curSeqid + Cardinality(Accepted(m))
  BY <1>1, <1>2, <1>3, <1>4, <1>7, <1>8
<1>15. \A t, u \in KeptTypes \cup new :
         WithTypes(m)[t].seqid = WithTypes(m)[u].seqid => t = u
  <2>1. SUFFICES ASSUME NEW t \in KeptTypes \cup new, NEW u \in KeptTypes \cup new,
                        WithTypes(m)[t].seqid = WithTypes(m)[u].seqid
                 PROVE  t = u
    OBVIOUS
  <2>2. CASE t \in new /\ u \in new
    BY <1>10, <2>1, <2>2
  <2>3. CASE t \in new /\ u \notin new
    BY <1>11, <1>13, <2>1, <2>3
  <2>4. CASE t \notin new /\ u \in new
    BY <1>11, <1>13, <2>1, <2>4
  <2>5. CASE t \notin new /\ u \notin new
    BY <1>12, <2>1, <2>5
  <2>6. QED
    BY <2>2, <2>3, <2>4, <2>5
<1>16. QED
  BY <1>14, <1>15 DEF new

\* The numbers of the types are an order, whatever modules come and go, for all types
\* that no failed load and no cleanup function has left behind.
THEOREM SeqidsOrderHolds == Spec => []SeqidsOrder
<1>1. Init => SeqidsOrder
  BY DEF Init, SeqidsOrder
<1>2. TypeOK /\ Registered /\ SeqidsOrder /\ [Next]_vars => SeqidsOrder'
  <2> SUFFICES ASSUME TypeOK, Registered, SeqidsOrder, [Next]_vars PROVE SeqidsOrder'
    OBVIOUS
  <2>1. CASE \E m \in Modules : ModuleLoad(m) \/ ModuleLoadFails(m)
    <3>1. PICK m \in Modules : ModuleLoad(m) \/ ModuleLoadFails(m)
      BY <2>1
    <3> DEFINE all == KeptTypes \cup {Code[m].types[i] : i \in Accepted(m)}
    <3>2. types' = WithTypes(m) /\ curSeqid' = curSeqid + Cardinality(Accepted(m))
      BY <3>1 DEF ModuleLoad, ModuleLoadFails
    <3>3. careless \subseteq careless'
      BY <3>1 DEF ModuleLoad, ModuleLoadFails
    <3>4. \A t \in DOMAIN types' : types'[t].owner \notin Excused' => t \in all
      BY <3>2, <3>3, WithTypesEntries, ExcusedGrows DEF KeptTypes
    <3>5. /\ \A t, u \in all : types'[t].seqid = types'[u].seqid => t = u
          /\ \A t \in all : types'[t].seqid < curSeqid'
      BY <3>2, WithTypesOrdered
    <3> HIDE DEF all
    <3>6. QED
      BY <3>4, <3>5 DEF SeqidsOrder
  <2>2. CASE \E m \in Modules : ModuleUnload(m)
    <3>1. /\ DOMAIN types' \subseteq DOMAIN types
          /\ \A t \in DOMAIN types' : types'[t] = types[t]
          /\ curSeqid' = curSeqid
          /\ careless \subseteq careless'
      BY <2>2 DEF ModuleUnload, Without
    <3>2. Excused \subseteq Excused'
      BY <3>1, ExcusedGrows
    <3>3. QED
      BY <3>1, <3>2 DEF SeqidsOrder
  <2>3. CASE NodeCleanup
    BY <2>3, CleanupLeavesExcused DEF SeqidsOrder
  <2>4. CASE UNCHANGED <<types, curSeqid, careless>>
    BY <2>4 DEF SeqidsOrder, Excused, Balanced
  <2>5. QED
    BY <2>1, <2>2, <2>3, <2>4, ActionsOfNext
       DEF vars, BlockCreate, BlockRm, BlockInit, BlockStart, BlockStop, BlockCleanup,
           Switch, NodeClear
<1>3. QED
  BY <1>1, <1>2, RegisteredInvariant, TypeCorrect, PTL DEF Spec

=============================================================================
