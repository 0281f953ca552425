--------------------------- MODULE Launch_proofs ---------------------------
(***************************************************************************)
(* Theorems about configs and their clients, for any blocks, configs, node *)
(* configs, compositions and programs: the reference counts are exact, no  *)
(* cached pointer is invalidated behind the back of a block, and a launch  *)
(* configures what the composition says.                                   *)
(***************************************************************************)
EXTENDS Launch, FiniteSetTheorems, TLAPS

\* Data that a script or a config refers to.
InUse(d) == d \in held \/ Owners(d) # {}

\* The steps of the module, for the case distinctions below.
LEMMA CasesOfNext ==
  ASSUME TypeOK, Next
  PROVE  \/ \E b \in Block : \/ Create(b) \/ Remove(b) \/ InitRefused(b) \/ InitFails(b)
                             \/ InitOk(b) \/ Start(b) \/ Stop(b) \/ Cleanup(b)
         \/ \E d \in NodeData : Collect(d) \/ \E len \in Nat : Alloc(d, len)
         \/ \E d \in Data, len \in Nat : InUse(d) /\ Resize(d, len)
         \/ \E b \in Block, n \in Name, d \in NodeData : Assign(b, n, d)
<1> USE ConfigAssumption
<1>0. \A b \in Block, n \in Name : Has(b, n) => cfg[b][n] \in Data /\ InUse(cfg[b][n])
  <2> SUFFICES ASSUME NEW b \in Block, NEW n \in Name, Has(b, n)
               PROVE  cfg[b][n] \in Data /\ InUse(cfg[b][n])
    OBVIOUS
  <2>1. <<b, n>> \in Owners(cfg[b][n])
    BY DEF Owners
  <2> QED
    BY <2>1 DEF TypeOK, Has, InUse
<1>1. CASE \E b \in Block : Create(b) \/ Remove(b) \/ Lifecycle(b)
  BY <1>1 DEF Lifecycle
<1>2. CASE \E d \in NodeData :
             \/ Collect(d)
             \/ \E len \in Lens[NodeType[d]] : Alloc(d, len)
             \/ d \in held /\ \E len \in Lens[NodeType[d]] : DataSet(d, len)
  <2>1. PICK d \in NodeData :
               \/ Collect(d)
               \/ \E len \in Lens[NodeType[d]] : Alloc(d, len)
               \/ d \in held /\ \E len \in Lens[NodeType[d]] : DataSet(d, len)
    BY <1>2
  <2>2. d \in Data /\ Lens[NodeType[d]] \subseteq Nat
    BY DEF ConfigAssumption, Data
  <2> QED
    BY <2>1, <2>2 DEF DataSet, InUse
<1>3. CASE \E b \in Block, n \in Name :
             \/ \E d \in NodeData : Assign(b, n, d)
             \/ \E len \in Lens[Type[n]] : CfgSet(b, n, len)
             \/ Has(b, n) /\ \E len \in Lens[Type[n]] : DataSet(cfg[b][n], len)
  <2>1. PICK b \in Block, n \in Name :
             \/ \E d \in NodeData : Assign(b, n, d)
             \/ \E len \in Lens[Type[n]] : CfgSet(b, n, len)
             \/ Has(b, n) /\ \E len \in Lens[Type[n]] : DataSet(cfg[b][n], len)
    BY <1>3
  <2>2. Lens[Type[n]] \subseteq Nat
    BY DEF ConfigAssumption
  <2> QED
    BY <1>0, <2>1, <2>2 DEF CfgSet, DataSet
<1> QED
  BY <1>1, <1>2, <1>3 DEF Next

\* The owners of data are finitely many.
LEMMA OwnersFinite ==
  \A d : IsFiniteSet(Owners(d)) /\ Cardinality(Owners(d)) \in Nat
<1>1. IsFiniteSet(Block \X Name)
  BY ConfigAssumption, FS_Product DEF ConfigAssumption
<1>2. \A d : Owners(d) \in SUBSET (Block \X Name)
  BY DEF Owners
<1> QED
  BY <1>1, <1>2, FS_Subset, FS_CardinalityType

\* What the inductive invariant adds: who may own what, that a counter below
\* zero is that of data that does not exist, and that cached pointers are those
\* of the configs.
OwnersKnown ==
  /\ held \subseteq NodeData
  /\ \A b \in Block, n \in Name : cfg[b][n] \in NodeData \cup {None, <<b, n>>}
  /\ \A b \in Block : state[b] = "none" => \A n \in Name : cfg[b][n] = None
PointsToOwn ==
  \A b \in Block, n \in Name :
    ptr[b][n] \in Data => ptr[b][n] = cfg[b][n] \/ <<b, n>> \in touched
FreeOnly == \A d \in Data : data[d].refs = -1 => data[d] = Free
Counted == TypeOK /\ OwnersKnown /\ RefsExact /\ FreeOnly
IInv == Counted /\ PointsToOwn /\ PointersCurrent

LEMMA InitIInv == ASSUME Init PROVE IInv
<1> USE ConfigAssumption DEF Init
<1>1. TypeOK
  BY DEF TypeOK, Free, DataRecord
<1>2. OwnersKnown /\ FreeOnly /\ PointsToOwn /\ PointersCurrent
  BY DEF OwnersKnown, FreeOnly, PointsToOwn, PointersCurrent, Free, ConfigAssumption
<1>3. \A d \in Data : Owners(d) = {}
  BY DEF Owners, ConfigAssumption
<1>4. ASSUME NEW d \in Data PROVE Holders(d) = 0 /\ data[d].refs = -1
  <2>1. Cardinality(Owners(d)) = 0 /\ d \notin held
    BY <1>3, FS_EmptySet
  <2> QED
    BY <2>1 DEF Holders, Free
<1>5. RefsExact
  BY <1>4 DEF RefsExact
<1> QED
  BY <1>1, <1>2, <1>5 DEF IInv, Counted

-----------------------------------------------------------------------------
\* What a step does to the counters.

\* __ubx_config_add of configs that the block does not have.
LEMMA AddedCounted ==
  ASSUME Counted, NEW b \in Block, NEW S \in SUBSET Name,
         \A n \in S : cfg[b][n] = None, AddConfigs(b, S), held' = held
  PROVE  /\ cfg' \in [Block -> [Name -> Data \cup {None}]]
         /\ data' \in [Data -> DataRecord]
         /\ \A c \in Block, n \in Name : cfg'[c][n] \in NodeData \cup {None, <<c, n>>}
         /\ RefsExact' /\ FreeOnly'
<1> USE ConfigAssumption
<1>1. cfg' \in [Block -> [Name -> Data \cup {None}]]
  BY DEF AddConfigs, Counted, TypeOK, Data
<1>2. data' \in [Data -> DataRecord]
  BY DEF AddConfigs, Counted, TypeOK, DataRecord, Fresh
<1>3. \A c \in Block, n \in Name :
        /\ cfg'[c][n] = IF c = b /\ n \in S THEN <<c, n>> ELSE cfg[c][n]
        /\ cfg'[c][n] \in NodeData \cup {None, <<c, n>>}
  BY DEF AddConfigs, Counted, TypeOK, OwnersKnown
<1>4. ASSUME NEW d \in Data
      PROVE  data'[d].refs = Holders(d)' - 1 /\ (data'[d].refs = -1 => data'[d] = Free)
  <2>1. CASE d \in {b} \X S
    <3>1. PICK n \in S : d = <<b, n>>
      BY <2>1
    <3>2. Owners(d)' = {<<b, n>>}
      BY <1>3, <3>1 DEF Owners, Counted, OwnersKnown, ConfigAssumption, Data
    <3>3. d \notin held'
      BY <3>1 DEF Counted, OwnersKnown, ConfigAssumption
    <3>4. Cardinality(Owners(d))' = 1
      BY <3>2, FS_Singleton
    <3>5. data'[d] = Fresh(0)
      BY <2>1 DEF AddConfigs
    <3> QED
      BY <3>3, <3>4, <3>5 DEF Fresh, Holders
  <2>2. CASE d \notin {b} \X S
    <3>1. Owners(d)' = Owners(d)
      BY <1>3, <2>2 DEF Owners, Counted, ConfigAssumption
    <3>2. Holders(d)' = Holders(d)
      BY <3>1 DEF Holders
    <3>3. data'[d] = data[d]
      BY <2>2 DEF AddConfigs
    <3> QED
      BY <3>2, <3>3 DEF Counted, RefsExact, FreeOnly
  <2> QED
    BY <2>1, <2>2
<1> QED
  BY <1>1, <1>2, <1>3, <1>4 DEF RefsExact, FreeOnly

\* ubx_config_free of the configs S of a block.
LEMMA ReleasedCounted ==
  ASSUME Counted, NEW b \in Block, NEW S \in SUBSET Name, data' = Released(b, S),
         cfg' = [cfg EXCEPT ![b] = [n \in Name |-> IF n \in S THEN None ELSE @[n]]],
         held' = held
  PROVE  /\ cfg' \in [Block -> [Name -> Data \cup {None}]]
         /\ data' \in [Data -> DataRecord]
         /\ \A c \in Block, n \in Name : cfg'[c][n] \in NodeData \cup {None, <<c, n>>}
         /\ RefsExact' /\ FreeOnly'
<1> USE ConfigAssumption
<1>1. cfg' \in [Block -> [Name -> Data \cup {None}]]
  BY DEF Counted, TypeOK
<1>2. \A c \in Block, n \in Name :
        cfg'[c][n] = IF c = b /\ n \in S THEN None ELSE cfg[c][n]
  BY DEF Counted, TypeOK
<1>3. \A c \in Block, n \in Name : cfg'[c][n] \in NodeData \cup {None, <<c, n>>}
  BY <1>2 DEF Counted, OwnersKnown
<1>4. ASSUME NEW d \in Data
      PROVE  /\ data'[d] \in DataRecord
             /\ data'[d].refs = Holders(d)' - 1
             /\ data'[d].refs = -1 => data'[d] = Free
  <2> DEFINE k == Cardinality(Owners(d) \cap ({b} \X S))
  <2>1. Owners(d)' = Owners(d) \ ({b} \X S)
    BY <1>2 DEF Owners, ConfigAssumption
  <2>2. Cardinality(Owners(d))' = Cardinality(Owners(d)) - k
    BY <2>1, OwnersFinite, FS_Difference
  <2>3. /\ data[d] \in DataRecord /\ data[d].refs = Holders(d) - 1
        /\ data[d].refs = -1 => data[d] = Free
    BY DEF Counted, TypeOK, RefsExact, FreeOnly
  <2>4. k \in Nat /\ Cardinality(Owners(d))' \in Nat /\ Cardinality(Owners(d)) \in Nat
    <3>1. IsFiniteSet(Owners(d)) /\ (Owners(d) \cap ({b} \X S)) \in SUBSET Owners(d)
      BY OwnersFinite
    <3>2. k \in Nat /\ IsFiniteSet(Owners(d) \ ({b} \X S))
      BY <3>1, FS_Subset, FS_CardinalityType, FS_Difference
    <3> QED
      BY <2>1, <3>2, OwnersFinite, FS_CardinalityType
  <2>5. Holders(d)' = Holders(d) - k /\ Holders(d) \in Nat /\ Holders(d)' \in Nat
    BY <2>2, <2>4 DEF Holders
  <2> HIDE DEF k
  <2>6. CASE \E n \in S : cfg[b][n] = d
    <3>1. data'[d] = IF data[d].refs - k < 0 THEN Free ELSE [data[d] EXCEPT !.refs = @ - k]
      BY <2>6 DEF Released, References, DataFree, k
    <3> QED
      BY <2>3, <2>4, <2>5, <3>1 DEF DataRecord, Free
  <2>7. CASE ~\E n \in S : cfg[b][n] = d
    <3>1. data'[d] = data[d]
      BY <2>7 DEF Released
    <3>2. Owners(d) \cap ({b} \X S) = {}
      BY <2>7 DEF Owners
    <3>3. k = 0
      BY <3>2, FS_EmptySet DEF k
    <3> QED
      BY <2>3, <2>5, <3>1, <3>3
  <2> QED
    BY <2>6, <2>7
<1>5. data' \in [Data -> DataRecord]
  BY <1>4 DEF Released
<1> QED
  BY <1>1, <1>3, <1>4, <1>5 DEF RefsExact, FreeOnly
-----------------------------------------------------------------------------
(* Every step keeps the counters.                                           *)

LEMMA CreateCounted == ASSUME Counted, NEW b \in Block, Create(b) PROVE Counted'
<1> USE ConfigAssumption
<1> DEFINE S == Static(b)
<1>1. S \in SUBSET Name /\ \A n \in S : cfg[b][n] = None
  BY DEF Create, Counted, OwnersKnown, Static, ConfigAssumption
<1>2. AddConfigs(b, S) /\ held' = held
  BY DEF Create
<1> HIDE DEF S
<1>3. /\ cfg' \in [Block -> [Name -> Data \cup {None}]]
      /\ data' \in [Data -> DataRecord]
      /\ \A c \in Block, n \in Name : cfg'[c][n] \in NodeData \cup {None, <<c, n>>}
      /\ RefsExact' /\ FreeOnly'
  BY <1>1, <1>2, AddedCounted
<1>4. TypeOK'
  BY <1>3 DEF Create, Counted, TypeOK
<1>5. \A c \in Block : c # b => cfg'[c] = cfg[c]
  BY <1>2 DEF AddConfigs, Counted, TypeOK
<1>6. OwnersKnown'
  BY <1>3, <1>5 DEF Create, Counted, OwnersKnown, TypeOK
<1> QED
  BY <1>3, <1>4, <1>6 DEF Counted

LEMMA InitCounted ==
  ASSUME Counted, NEW b \in Block, InitFails(b) \/ InitOk(b) PROVE Counted'
<1> USE ConfigAssumption
<1>0. Loglevel \in Name /\ \A n \in Name : Pointer(b, n) \in Data \cup {None}
  BY DEF Pointer, Has, Counted, TypeOK, ConfigAssumption
<1>1. ptr' \in [Block -> [Name -> Data \cup {None, Stale}]] /\ touched' \subseteq Block \X Name
  <2>1. CASE InitFails(b)
    BY <1>0, <2>1 DEF InitFails, Relookup, Relogged, Counted, TypeOK
  <2>2. CASE InitOk(b)
    BY <1>0, <2>2 DEF InitOk, Counted, TypeOK
  <2> QED
    BY <2>1, <2>2
<1>2. state' \in [Block -> {"none", "preinit", "inactive", "active"}] /\ held' = held
  BY DEF InitFails, InitOk, Counted, TypeOK
<1>3. \A c \in Block : state'[c] = "none" => c # b /\ state[c] = "none"
  BY DEF InitFails, InitOk, Counted, TypeOK
<1>4. CASE UNCHANGED <<cfg, data>>
  <2>1. RefsExact' /\ FreeOnly'
    BY <1>2, <1>4 DEF Counted, RefsExact, Holders, Owners, FreeOnly
  <2> QED
    BY <1>1, <1>2, <1>3, <1>4, <2>1 DEF Counted, TypeOK, OwnersKnown
<1>5. CASE CanAdd(b) /\ AddConfigs(b, Added(b))
  <2> DEFINE S == Added(b)
  <2>1. S \in SUBSET Name /\ \A n \in S : cfg[b][n] = None
    BY <1>5 DEF CanAdd, Has, Added, ConfigAssumption
  <2>2. AddConfigs(b, S)
    BY <1>5
  <2> HIDE DEF S
  <2>3. /\ cfg' \in [Block -> [Name -> Data \cup {None}]]
        /\ data' \in [Data -> DataRecord]
        /\ \A c \in Block, n \in Name : cfg'[c][n] \in NodeData \cup {None, <<c, n>>}
        /\ RefsExact' /\ FreeOnly'
    BY <1>2, <2>1, <2>2, AddedCounted
  <2>4. \A c \in Block : c # b => cfg'[c] = cfg[c]
    BY <2>2 DEF AddConfigs, Counted, TypeOK
  <2> QED
    BY <1>1, <1>2, <1>3, <2>3, <2>4 DEF Counted, TypeOK, OwnersKnown
<1> QED
  BY <1>4, <1>5 DEF InitFails, InitOk

LEMMA DangleType ==
  ASSUME NEW P \in [Block -> [Name -> Data \cup {None, Stale}]], NEW D
  PROVE  Dangle(P, D) \in [Block -> [Name -> Data \cup {None, Stale}]]
BY DEF Dangle

\* Removal of a block and of the dynamic configs in cleanup.
LEMMA DropCounted ==
  ASSUME Counted, NEW b \in Block, Remove(b) \/ Cleanup(b) PROVE Counted'
<1> USE ConfigAssumption
<1> DEFINE S == IF Remove(b) THEN Name ELSE Added(b)
<1>1. S \in SUBSET Name
  BY DEF Added, ConfigAssumption
<1>2. /\ data' = Released(b, S) /\ held' = held
      /\ cfg' = [cfg EXCEPT ![b] = [n \in Name |-> IF n \in S THEN None ELSE @[n]]]
  <2>1. CASE Remove(b)
    <3>1. S = Name
      BY <2>1
    <3>2. [n \in Name |-> None] = [n \in Name |-> IF n \in S THEN None ELSE cfg[b][n]]
      BY <3>1
    <3> QED
      BY <2>1, <3>1, <3>2 DEF Remove, Counted, TypeOK
  <2>2. CASE ~Remove(b)
    BY <2>2 DEF Cleanup
  <2> QED
    BY <2>1, <2>2
<1>3. Loglevel \in Name
  BY DEF ConfigAssumption
<1>4. /\ state' \in [Block -> {"none", "preinit", "inactive", "active"}]
      /\ ptr' \in [Block -> [Name -> Data \cup {None, Stale}]]
      /\ touched' \subseteq Block \X Name
  <2>1. CASE Remove(b)
    <3>1. [ptr EXCEPT ![b] = [n \in Name |-> None]]
            \in [Block -> [Name -> Data \cup {None, Stale}]]
      BY DEF Counted, TypeOK
    <3> QED
      BY <2>1, <3>1, DangleType DEF Remove, Counted, TypeOK
  <2>2. CASE Cleanup(b)
    <3>1. [ptr EXCEPT ![b] = [n \in Name |-> IF n = Loglevel THEN @[n] ELSE None]]
            \in [Block -> [Name -> Data \cup {None, Stale}]]
      BY DEF Counted, TypeOK
    <3> QED
      BY <2>2, <3>1, DangleType DEF Cleanup, Counted, TypeOK
  <2> QED
    BY <2>1, <2>2
<1>5. \A c \in Block : state'[c] = "none" =>
        \/ c # b /\ state[c] = "none"
        \/ c = b /\ S = Name
  BY DEF Remove, Cleanup, Counted, TypeOK
<1> HIDE DEF S
<1>6. /\ cfg' \in [Block -> [Name -> Data \cup {None}]]
      /\ data' \in [Data -> DataRecord]
      /\ \A c \in Block, n \in Name : cfg'[c][n] \in NodeData \cup {None, <<c, n>>}
      /\ RefsExact' /\ FreeOnly'
  BY <1>1, <1>2, ReleasedCounted
<1>7. \A c \in Block : (c # b => cfg'[c] = cfg[c]) /\ (S = Name => \A n \in Name : cfg'[b][n] = None)
  BY <1>2 DEF Counted, TypeOK
<1> QED
  BY <1>2, <1>4, <1>5, <1>6, <1>7 DEF Counted, TypeOK, OwnersKnown

LEMMA AssignCounted ==
  ASSUME Counted, NEW b \in Block, NEW n \in Name, NEW d \in NodeData, Assign(b, n, d)
  PROVE  Counted'
<1> USE ConfigAssumption
<1> DEFINE old == cfg[b][n]
           left == [data EXCEPT ![old] = DataFree(old, 1)]
<1>1. old \in Data /\ d \in Data /\ d \in held /\ held' = held /\ state' = state
  BY DEF Assign, Has, Counted, TypeOK, Data
<1>2. /\ data' = [left EXCEPT ![d].refs = @ + 1]
      /\ cfg' = [cfg EXCEPT ![b][n] = d]
  BY DEF Assign
<1>3. \A c \in Block, m \in Name : cfg'[c][m] = IF c = b /\ m = n THEN d ELSE cfg[c][m]
  BY <1>2 DEF Counted, TypeOK
<1>4. <<b, n>> \in Owners(old)
  BY DEF Owners
<1> HIDE DEF old
<1>a. \A o \in Block \X Name :
        cfg'[o[1]][o[2]] = IF o = <<b, n>> THEN d ELSE cfg[o[1]][o[2]]
  BY <1>3
<1>b. cfg[b][n] = old
  BY DEF old
<1>5. ASSUME NEW x \in Data
      PROVE  /\ data'[x] \in DataRecord
             /\ data'[x].refs = Holders(x)' - 1
             /\ data'[x].refs = -1 => data'[x] = Free
  <2>1. /\ data[x] \in DataRecord /\ data[x].refs = Holders(x) - 1
        /\ data[x].refs = -1 => data[x] = Free
    BY DEF Counted, TypeOK, RefsExact, FreeOnly
  <2>2. Cardinality(Owners(x)) \in Nat /\ IsFiniteSet(Owners(x))
    BY OwnersFinite
  <2>3. CASE x = old /\ x = d
    <3>1. Owners(x)' = Owners(x)
      BY <1>a, <1>b, <2>3 DEF Owners
    <3>2. Owners(x) # {} /\ Cardinality(Owners(x)) # 0
      BY <1>4, <2>2, <2>3, FS_EmptySet
    <3>3. data[x].refs >= 1
      BY <1>1, <2>1, <2>2, <2>3, <3>2 DEF Holders
    <3>4. left[x] = [data[x] EXCEPT !.refs = @ - 1]
      BY <1>1, <2>1, <2>3, <3>3 DEF DataFree, Counted, TypeOK, DataRecord
    <3>5. data'[x] = [left[x] EXCEPT !.refs = @ + 1]
      BY <1>1, <1>2, <2>3 DEF Counted, TypeOK
    <3>6. Holders(x)' = Holders(x)
      BY <1>1, <3>1 DEF Holders
    <3> HIDE DEF left
    <3>7. left[x] \in DataRecord /\ left[x].refs = data[x].refs - 1
      BY <2>1, <3>3, <3>4 DEF DataRecord
    <3>8. data'[x].refs = data[x].refs /\ data'[x] \in DataRecord
      BY <2>1, <3>3, <3>5, <3>7 DEF DataRecord
    <3> QED
      BY <2>1, <3>3, <3>6, <3>8
  <2>4. CASE x = old /\ x # d
    <3>1. Owners(x)' = Owners(x) \ {<<b, n>>}
      BY <1>a, <1>b, <2>4 DEF Owners
    <3>2. Cardinality(Owners(x)') = Cardinality(Owners(x)) - 1
      <4>1. Cardinality(Owners(x) \ {<<b, n>>}) = Cardinality(Owners(x)) - 1
        BY <1>4, <2>2, <2>4, FS_RemoveElement
      <4> QED
        BY <3>1, <4>1
    <3>3. Holders(x)' = Holders(x) - 1
      BY <1>1, <2>2, <3>2 DEF Holders
    <3>4. data'[x] = DataFree(x, 1)
      BY <1>1, <1>2, <2>4 DEF Counted, TypeOK
    <3>5. Holders(x) >= 1 /\ Holders(x) \in Nat
      <4>1. Owners(x) # {} /\ Cardinality(Owners(x)) # 0
        BY <1>4, <2>2, <2>4, FS_EmptySet
      <4> QED
        BY <2>2, <4>1 DEF Holders
    <3> QED
      BY <2>1, <3>3, <3>4, <3>5 DEF DataFree, DataRecord, Free
  <2>5. CASE x # old /\ x = d
    <3>1. Owners(x)' = Owners(x) \cup {<<b, n>>} /\ <<b, n>> \notin Owners(x)
      BY <1>a, <1>b, <2>5 DEF Owners
    <3>2. Cardinality(Owners(x)') = Cardinality(Owners(x)) + 1
      <4>1. Cardinality(Owners(x) \cup {<<b, n>>}) = Cardinality(Owners(x)) + 1
        BY <2>2, <3>1, FS_AddElement
      <4> QED
        BY <3>1, <4>1
    <3>3. Holders(x)' = Holders(x) + 1 /\ Holders(x) >= 1
      BY <1>1, <2>2, <2>5, <3>2 DEF Holders
    <3>4. data'[x] = [data[x] EXCEPT !.refs = @ + 1]
      BY <1>1, <1>2, <2>5 DEF Counted, TypeOK
    <3>5. data[x].refs >= 0 /\ Holders(x) \in Nat
      BY <2>1, <2>2, <3>3 DEF Holders
    <3> QED
      BY <2>1, <3>3, <3>4, <3>5 DEF DataRecord
  <2>6. CASE x # old /\ x # d
    <3>1. Owners(x)' = Owners(x)
      BY <1>a, <1>b, <2>6 DEF Owners
    <3>2. Holders(x)' = Holders(x) /\ data'[x] = data[x]
      BY <1>1, <1>2, <2>6, <3>1 DEF Holders, Counted, TypeOK
    <3> QED
      BY <2>1, <3>2
  <2> QED
    BY <2>3, <2>4, <2>5, <2>6
<1>6. data' \in [Data -> DataRecord]
  <2>1. data' = [x \in Data |-> data'[x]]
    BY <1>1, <1>2 DEF Counted, TypeOK
  <2> QED
    BY <1>5, <2>1
<1> HIDE DEF left, old
<1>7. /\ ptr' \in [Block -> [Name -> Data \cup {None, Stale}]]
      /\ touched' \subseteq Block \X Name
  <2>1. ptr \in [Block -> [Name -> Data \cup {None, Stale}]] /\ touched \subseteq Block \X Name
    BY DEF Counted, TypeOK
  <2>2. \E dead : ptr' = Dangle(ptr, dead)
    BY DEF Assign
  <2>3. touched' = touched \cup {<<b, n>>}
    BY DEF Assign
  <2> QED
    BY <2>1, <2>2, <2>3, DangleType
<1>8. cfg' \in [Block -> [Name -> Data \cup {None}]]
  BY <1>1, <1>2 DEF Counted, TypeOK
<1>9. OwnersKnown'
  <2>1. \A c \in Block : state'[c] = "none" => c # b
    BY <1>1 DEF Assign, Has, Counted, OwnersKnown
  <2> QED
    BY <1>1, <1>3, <2>1 DEF Counted, OwnersKnown
<1>10. TypeOK'
  BY <1>1, <1>6, <1>7, <1>8 DEF Counted, TypeOK
<1> QED
  BY <1>5, <1>9, <1>10 DEF Counted, RefsExact, FreeOnly

\* Scripts allocate data and drop it.
LEMMA HeldCounted ==
  ASSUME Counted, NEW d \in NodeData, Collect(d) \/ \E len \in Nat : Alloc(d, len)
  PROVE  Counted'
<1> USE ConfigAssumption
<1>1. d \in Data /\ cfg' = cfg /\ state' = state
  BY DEF Collect, Alloc, Data
<1>2. ASSUME NEW x \in Data
      PROVE  /\ data'[x] \in DataRecord
             /\ data'[x].refs = Holders(x)' - 1
             /\ data'[x].refs = -1 => data'[x] = Free
  <2>1. /\ data[x] \in DataRecord /\ data[x].refs = Holders(x) - 1
        /\ data[x].refs = -1 => data[x] = Free
    BY DEF Counted, TypeOK, RefsExact, FreeOnly
  <2>2. Owners(x)' = Owners(x) /\ Cardinality(Owners(x)) \in Nat
    BY <1>1, OwnersFinite DEF Owners
  <2>3. CASE x # d
    BY <1>1, <2>1, <2>2, <2>3 DEF Holders, Collect, Alloc, Counted, TypeOK
  <2>4. CASE x = d /\ Collect(d)
    <3>1. data'[x] = DataFree(x, 1) /\ x \in held /\ x \notin held'
      BY <1>1, <2>4 DEF Collect, Counted, TypeOK
    <3> QED
      BY <2>1, <2>2, <3>1 DEF Holders, DataFree, DataRecord, Free
  <2>5. CASE x = d /\ \E len \in Nat : Alloc(d, len)
    <3>1. PICK len \in Nat : Alloc(d, len)
      BY <2>5
    <3>2. data'[x] = Fresh(len) /\ data[x].refs = -1 /\ x \in held'
      BY <1>1, <2>5, <3>1 DEF Alloc, Counted, TypeOK, Free
    <3>3. x \notin held /\ Cardinality(Owners(x)) = 0
      BY <2>1, <2>2, <3>2 DEF Holders
    <3> QED
      BY <2>1, <2>2, <3>2, <3>3 DEF Holders, Fresh, DataRecord
  <2> QED
    BY <2>3, <2>4, <2>5
<1>3. data' \in [Data -> DataRecord]
  <2>1. data' = [x \in Data |-> data'[x]]
    BY DEF Collect, Alloc, Counted, TypeOK
  <2> QED
    BY <1>2, <2>1
<1>4. /\ ptr' \in [Block -> [Name -> Data \cup {None, Stale}]]
      /\ touched' \subseteq Block \X Name /\ held' \subseteq NodeData
  BY DangleType DEF Collect, Alloc, Counted, TypeOK, OwnersKnown
<1>5. TypeOK' /\ OwnersKnown'
  BY <1>1, <1>3, <1>4 DEF Counted, TypeOK, OwnersKnown, Data
<1> QED
  BY <1>2, <1>5 DEF Counted, RefsExact, FreeOnly

LEMMA RestCounted ==
  ASSUME Counted,
         \/ \E b \in Block : InitRefused(b) \/ Start(b) \/ Stop(b)
         \/ \E d \in Data, len \in Nat : InUse(d) /\ Resize(d, len)
         \/ UNCHANGED vars
  PROVE  Counted'
<1> USE ConfigAssumption
<1>1. CASE \E b \in Block : InitRefused(b) \/ Start(b) \/ Stop(b)
  <2>1. PICK b \in Block : InitRefused(b) \/ Start(b) \/ Stop(b)
    BY <1>1
  <2>2. UNCHANGED <<cfg, data, held>>
    BY <2>1 DEF InitRefused, Start, Stop
  <2>3. \A n \in Name : Pointer(b, n) \in Data \cup {None}
    BY DEF Pointer, Has, Counted, TypeOK
  <2>4. ptr' \in [Block -> [Name -> Data \cup {None, Stale}]]
    <3>1. CASE InitRefused(b)
      BY <2>3, <3>1 DEF InitRefused, Relookup, Relogged, Counted, TypeOK, ConfigAssumption
    <3>2. CASE Start(b)
      BY <2>3, <3>2 DEF Start, Counted, TypeOK
    <3>3. CASE Stop(b)
      BY <3>3 DEF Stop, Counted, TypeOK
    <3> QED
      BY <2>1, <3>1, <3>2, <3>3
  <2>5. /\ touched' \subseteq Block \X Name
        /\ state' \in [Block -> {"none", "preinit", "inactive", "active"}]
        /\ \A c \in Block : state'[c] = "none" => state[c] = "none"
    BY <2>1 DEF InitRefused, Relookup, Start, Stop, Counted, TypeOK
  <2>6. RefsExact' /\ FreeOnly'
    BY <2>2 DEF Counted, RefsExact, FreeOnly, Holders, Owners
  <2> QED
    BY <2>2, <2>4, <2>5, <2>6 DEF Counted, TypeOK, OwnersKnown
<1>2. CASE \E d \in Data, len \in Nat : InUse(d) /\ Resize(d, len)
  <2>1. PICK d \in Data, len \in Nat : InUse(d) /\ Resize(d, len)
    BY <1>2
  <2>2. /\ ptr' \in [Block -> [Name -> Data \cup {None, Stale}]]
        /\ touched' \subseteq Block \X Name
    BY <2>1, DangleType DEF Resize, Owners, Counted, TypeOK
  <2>3. /\ data' \in [Data -> DataRecord]
        /\ \A x \in Data : data'[x].refs = data[x].refs
    BY <2>1 DEF Resize, Counted, TypeOK, DataRecord
  <2>4. data[d].refs # -1
    <3>1. Holders(d) \in Nat \ {0}
      BY <2>1, OwnersFinite, FS_EmptySet DEF InUse, Holders
    <3> QED
      BY <3>1 DEF Counted, RefsExact
  <2>5. FreeOnly'
    BY <2>1, <2>3, <2>4 DEF Resize, Counted, FreeOnly, TypeOK
  <2>6. RefsExact' /\ UNCHANGED <<cfg, state, held>>
    BY <2>1, <2>3 DEF Resize, Counted, RefsExact, Holders, Owners
  <2> QED
    BY <2>2, <2>3, <2>5, <2>6 DEF Counted, TypeOK, OwnersKnown
<1>3. CASE UNCHANGED vars
  BY <1>3 DEF vars, Counted, TypeOK, OwnersKnown, RefsExact, FreeOnly, Holders, Owners, DataRecord
<1> QED
  BY <1>1, <1>2, <1>3

LEMMA NextCounted == ASSUME Counted, [Next]_vars PROVE Counted'
<1>1. CASE UNCHANGED vars
  BY <1>1, RestCounted
<1>2. CASE Next
  <2>1. TypeOK
    BY DEF Counted
  <2> QED
    BY <1>2, <2>1, CasesOfNext, CreateCounted, InitCounted, DropCounted, AssignCounted,
       HeldCounted, RestCounted
<1> QED
  BY <1>1, <1>2

\* ubx_types.h: num_refs = refcnt + 1.  The counter of every ubx_data is one less
\* than the configs and scripts that refer to it, whatever blocks are created and
\* removed and whatever data is assigned, allocated and collected.
THEOREM RefsExactHolds == Spec => []RefsExact
<1>1. Init => Counted
  BY InitIInv DEF IInv
<1>2. Counted /\ [Next]_vars => Counted'
  BY NextCounted
<1>3. Counted => RefsExact
  BY DEF Counted
<1> QED
  BY <1>1, <1>2, <1>3, PTL DEF Spec

-----------------------------------------------------------------------------
(* Cached pointers.                                                         *)

\* Data that is gone has no owner.
LEMMA FreedUnowned ==
  ASSUME Counted'
  PROVE  \A d \in Data : data'[d] = Free => \A b \in Block, n \in Name : cfg'[b][n] # d
<1> SUFFICES ASSUME NEW d \in Data, data'[d] = Free,
                    NEW b \in Block, NEW n \in Name, cfg'[b][n] = d
             PROVE  FALSE
  OBVIOUS
<1>1. IsFiniteSet(Owners(d)') /\ Cardinality(Owners(d)') \in Nat
  <2>1. IsFiniteSet(Block \X Name)
    BY ConfigAssumption, FS_Product DEF ConfigAssumption
  <2>2. Owners(d)' \in SUBSET (Block \X Name)
    BY DEF Owners
  <2> QED
    BY <2>1, <2>2, FS_Subset, FS_CardinalityType
<1>2. Holders(d)' = 0
  <2>1. data'[d].refs = Holders(d)' - 1 /\ data'[d].refs = -1
    <3>1. RefsExact'
      BY DEF Counted
    <3>2. data'[d].refs = Holders(d)' - 1
      BY <3>1 DEF RefsExact
    <3>3. data'[d].refs = -1
      BY DEF Free
    <3> QED
      BY <3>2, <3>3
  <2>2. Holders(d)' \in Nat
    BY <1>1 DEF Holders
  <2> QED
    BY <2>1, <2>2
<1>3. Cardinality(Owners(d)') = 0
  BY <1>1, <1>2 DEF Holders
<1>4. Owners(d)' = {}
  BY <1>1, <1>3, FS_EmptySet
<1>5. <<b, n>> \in Owners(d)'
  BY DEF Owners
<1> QED
  BY <1>4, <1>5

Pointers == PointsToOwn /\ PointersCurrent

LEMMA LifecyclePointers ==
  ASSUME IInv, Counted', NEW b \in Block,
         \/ Create(b) \/ InitRefused(b) \/ InitFails(b) \/ InitOk(b) \/ Start(b) \/ Stop(b)
  PROVE  Pointers'
<1> USE ConfigAssumption
<1>0. \A n \in Name : Pointer(b, n) # None => Pointer(b, n) = cfg[b][n] /\ cfg[b][n] \in Data
  BY DEF Pointer, Has, IInv, Counted, TypeOK
<1>1. CASE Create(b)
  <2>1. \A c \in Block, n \in Name : cfg[c][n] # None => cfg'[c][n] = cfg[c][n]
    BY <1>1 DEF Create, AddConfigs, IInv, Counted, TypeOK, OwnersKnown
  <2> QED
    BY <1>1, <2>1 DEF Create, Pointers, PointsToOwn, PointersCurrent, IInv, ConfigAssumption
<1>2. CASE InitRefused(b) \/ InitFails(b)
  <2>1. \A c \in Block, n \in Name : cfg[c][n] # None => cfg'[c][n] = cfg[c][n]
    <3>1. CASE cfg' = cfg
      BY <3>1
    <3>2. CASE CanAdd(b) /\ AddConfigs(b, Added(b))
      BY <3>2 DEF CanAdd, Has, AddConfigs, IInv, Counted, TypeOK
    <3> QED
      BY <1>2, <3>1, <3>2 DEF InitRefused, InitFails
  <2>2. Relookup(b)
    BY <1>2 DEF InitRefused, InitFails
  <2>3. touched' = touched \ {<<b, Loglevel>>}
    BY <2>2 DEF Relookup
  <2>4. \A c \in Block, n \in Name :
          ptr'[c][n] = IF c = b /\ n = Loglevel THEN Pointer(b, n) ELSE ptr[c][n]
    BY <2>2 DEF Relookup, Relogged, IInv, Counted, TypeOK, ConfigAssumption
  <2> QED
    BY <1>0, <2>1, <2>3, <2>4 DEF Pointers, PointsToOwn, PointersCurrent, IInv, ConfigAssumption
<1>3. CASE InitOk(b)
  <2>1. \A c \in Block, n \in Name : cfg[c][n] # None => cfg'[c][n] = cfg[c][n]
    BY <1>3 DEF InitOk, CanAdd, Has, AddConfigs, IInv, Counted, TypeOK
  <2>2. \A c \in Block, n \in Name :
          /\ c # b => ptr'[c][n] = ptr[c][n]
          /\ c = b => ptr'[c][n] = IF n \in Static(b) THEN Pointer(b, n) ELSE None
          /\ <<c, n>> \in touched' <=> <<c, n>> \in touched /\ ~(c = b /\ n \in Static(b))
    BY <1>3 DEF InitOk, IInv, Counted, TypeOK
  <2> QED
    BY <1>0, <2>1, <2>2 DEF Pointers, PointsToOwn, PointersCurrent, IInv, ConfigAssumption
<1>4. CASE Start(b)
  <2>1. \A c \in Block, n \in Name :
          /\ ptr'[c][n] = IF c = b /\ n \in Added(b) THEN Pointer(b, n) ELSE ptr[c][n]
          /\ <<c, n>> \in touched' <=> <<c, n>> \in touched /\ ~(c = b /\ n \in Added(b))
          /\ cfg' = cfg
    BY <1>4 DEF Start, IInv, Counted, TypeOK
  <2> QED
    BY <1>0, <2>1 DEF Pointers, PointsToOwn, PointersCurrent, IInv, ConfigAssumption
<1>5. CASE Stop(b)
  BY <1>5 DEF Stop, Pointers, PointsToOwn, PointersCurrent, IInv
<1> QED
  BY <1>1, <1>2, <1>3, <1>4, <1>5

\* Steps that may free or move buffers.
LEMMA BufferPointers ==
  ASSUME IInv, Counted',
         \/ \E b \in Block : Remove(b) \/ Cleanup(b)
         \/ \E d \in NodeData : Collect(d) \/ \E len \in Nat : Alloc(d, len)
         \/ \E d \in Data, len \in Nat : InUse(d) /\ Resize(d, len)
  PROVE  Pointers'
<1> USE ConfigAssumption
<1>0. \A d \in Data : data'[d] = Free => \A c \in Block, n \in Name : cfg'[c][n] # d
  BY FreedUnowned
<1>1. ASSUME NEW b \in Block, Remove(b) PROVE Pointers'
  <2>1. \A c \in Block, n \in Name :
          /\ cfg'[c][n] = IF c = b THEN None ELSE cfg[c][n]
          /\ ptr'[c][n] = IF c = b THEN None ELSE IF ptr[c][n] \in Freed(data') THEN Stale ELSE ptr[c][n]
          /\ <<c, n>> \in touched' <=> <<c, n>> \in touched /\ c # b
    BY <1>1 DEF Remove, Dangle, Freed, IInv, Counted, TypeOK, ConfigAssumption
  <2> QED
    BY <1>0, <2>1 DEF Freed, Pointers, PointsToOwn, PointersCurrent, IInv, ConfigAssumption
<1>2. ASSUME NEW b \in Block, Cleanup(b) PROVE Pointers'
  <2>1. \A c \in Block, n \in Name :
          LET p == IF c = b /\ n # Loglevel THEN None ELSE ptr[c][n]
          IN /\ cfg'[c][n] = IF c = b /\ n \in Added(b) THEN None ELSE cfg[c][n]
             /\ ptr'[c][n] = IF p \in Freed(data') THEN Stale ELSE p
             /\ touched' = touched
    BY <1>2 DEF Cleanup, Dangle, IInv, Counted, TypeOK
  <2>2. Loglevel \notin Added(b)
    BY DEF Added, ConfigAssumption
  <2> QED
    BY <1>0, <2>1, <2>2 DEF Freed, Pointers, PointsToOwn, PointersCurrent, IInv, ConfigAssumption
<1>3. ASSUME NEW d \in NodeData, Collect(d) PROVE Pointers'
  <2>1. \A c \in Block, n \in Name :
          ptr'[c][n] = IF ptr[c][n] \in Freed(data') THEN Stale ELSE ptr[c][n]
    BY <1>3 DEF Collect, Dangle
  <2> QED
    BY <1>0, <1>3, <2>1 DEF Collect, Freed, Pointers, PointsToOwn, PointersCurrent, IInv, ConfigAssumption
<1>4. ASSUME NEW d \in NodeData, NEW len \in Nat, Alloc(d, len) PROVE Pointers'
  BY <1>4 DEF Alloc, Pointers, PointsToOwn, PointersCurrent, IInv
<1>5. ASSUME NEW d \in Data, NEW len \in Nat, Resize(d, len) PROVE Pointers'
  <2>1. \A c \in Block, n \in Name :
          /\ ptr'[c][n] = IF ptr[c][n] = d THEN Stale ELSE ptr[c][n]
          /\ cfg[c][n] = d => <<c, n>> \in touched'
          /\ <<c, n>> \in touched => <<c, n>> \in touched'
          /\ cfg' = cfg
    BY <1>5 DEF Resize, Dangle, Owners
  <2> QED
    BY <2>1 DEF Pointers, PointsToOwn, PointersCurrent, IInv, ConfigAssumption
<1> QED
  BY <1>1, <1>2, <1>3, <1>4, <1>5

LEMMA AssignPointers ==
  ASSUME IInv, Counted', NEW b \in Block, NEW n \in Name, NEW d \in NodeData, Assign(b, n, d)
  PROVE  Pointers'
<1> USE ConfigAssumption
<1> DEFINE old == cfg[b][n]
           left == [data EXCEPT ![old] = DataFree(old, 1)]
<1>1. old \in Data /\ d \in Data
  BY DEF Assign, Has, IInv, Counted, TypeOK, Data
<1>2. \A c \in Block, m \in Name :
        /\ cfg'[c][m] = IF c = b /\ m = n THEN d ELSE cfg[c][m]
        /\ ptr'[c][m] = IF ptr[c][m] \in Freed(left) THEN Stale ELSE ptr[c][m]
        /\ <<c, m>> \in touched' <=> <<c, m>> \in touched \/ (c = b /\ m = n)
  BY DEF Assign, Dangle, IInv, Counted, TypeOK
<1>3. \A x \in Freed(left) : x = old /\ data'[x] = Free
  <2>1. \A x \in Data : x # old => left[x] = data[x]
    BY DEF IInv, Counted, TypeOK
  <2>2. old \in Freed(left) => old # d
    <3> SUFFICES ASSUME old = d PROVE left[old] # Free
      BY DEF Freed
    <3>1. d \in held /\ <<b, n>> \in Owners(d)
      BY DEF Assign, Owners
    <3>2. data[d].refs >= 1
      <4>1. Cardinality(Owners(d)) \in Nat \ {0}
        BY <3>1, OwnersFinite, FS_EmptySet
      <4> QED
        BY <1>1, <3>1, <4>1 DEF IInv, Counted, RefsExact, Holders
    <3>3. left[old] = DataFree(old, 1) /\ data[d] \in DataRecord
      BY <1>1 DEF IInv, Counted, TypeOK
    <3>4. left[old].refs >= 0
      BY <3>2, <3>3 DEF DataFree, DataRecord
    <3> QED
      BY <3>4 DEF Free
  <2>3. old # d => data'[old] = left[old]
    BY <1>1 DEF Assign, IInv, Counted, TypeOK
  <2> QED
    BY <2>1, <2>2, <2>3 DEF Freed
<1> HIDE DEF left
<1>4. \A x \in Freed(left) : x \in Data /\ \A c \in Block, m \in Name : cfg'[c][m] # x
  BY <1>3, FreedUnowned DEF Freed
<1> QED
  BY <1>2, <1>4 DEF Pointers, PointsToOwn, PointersCurrent, IInv, ConfigAssumption

LEMMA NextIInv == ASSUME IInv, [Next]_vars PROVE IInv'
<1>1. Counted'
  BY NextCounted DEF IInv
<1>2. CASE UNCHANGED vars
  BY <1>1, <1>2 DEF vars, IInv, PointsToOwn, PointersCurrent
<1>3. CASE Next
  <2>1. TypeOK
    BY DEF IInv, Counted
  <2>2. Pointers'
    BY <1>1, <1>3, <2>1, CasesOfNext, LifecyclePointers, BufferPointers, AssignPointers
  <2> QED
    BY <1>1, <2>2 DEF IInv, Pointers
<1> QED
  BY <1>2, <1>3

\* A pointer that a block has cached in init or start is invalidated only by a set
\* or an assign that concerns its value, through whatever config or script shares
\* the data: no removal, no cleanup, no failed init of another block and no
\* garbage collection frees the value under it.
THEOREM PointersCurrentHolds == Spec => []PointersCurrent
<1>1. Init => IInv
  BY InitIInv
<1>2. IInv /\ [Next]_vars => IInv'
  BY NextIInv
<1>3. IInv => PointersCurrent
  BY DEF IInv
<1> QED
  BY <1>1, <1>2, <1>3, PTL DEF Spec
-----------------------------------------------------------------------------
(* What the launcher and main do to the configs is what clients may do.     *)

Composed == settings \in Compositions \cup {<<>>}

LEMMA ComposedKept == Composed /\ [LNext]_<<vars, lvars>> => Composed'
<1> SUFFICES ASSUME Composed, [LNext]_<<vars, lvars>> PROVE settings' = settings
  BY DEF Composed
<1> USE DEF Advance, Exit, lvars
<1>1. CASE Launcher
  <2>1. CASE CreateBlock \/ MakeNodeCfg \/ InitBlocks \/ StartBlocks \/ EndPass
    BY <2>1 DEF CreateBlock, MakeNodeCfg, InitBlocks, InitCall, StartBlocks, StartCall, EndPass
  <2>2. CASE Apply \/ Reapply
    BY <2>2 DEF Apply, Reapply, Unsettable, Absent, Configure, ConfigureLate, ApplyValue
  <2> QED
    BY <1>1, <2>1, <2>2 DEF Launcher
<1>2. CASE Main
  BY <1>2 DEF Main, InitCall, StartCall
<1>3. CASE EndMain \/ NodeRm \/ TearDown \/ Up \/ Script \/ UNCHANGED <<vars, lvars>>
  BY <1>3 DEF EndMain, NodeRm, TearDown, Up, Script
<1> QED
  BY <1>1, <1>2, <1>3 DEF LNext

\* apply_cfg_val sets a config or assigns to it.
LEMMA ApplyIsNext ==
  ASSUME NEW s, s.b \in Block, s.n \in Name, s.len \in Lens[Type[s.n]],
         s.d \in NodeData \cup {None}, Has(s.b, s.n), Configure(s)
  PROVE  Next \/ UNCHANGED vars
BY DEF Configure, ApplyValue, Next

LEMMA CallIsNext ==
  ASSUME NEW b \in Block, InitCall(b) \/ StartCall(b) PROVE Next \/ UNCHANGED vars
BY DEF InitCall, StartCall, Next, Lifecycle

LEMMA ItemKnown ==
  ASSUME Composed, at \in DOMAIN settings
  PROVE  LET s == settings[at]
         IN s.b \in Block /\ s.n \in Name /\ s.len \in Lens[Type[s.n]]
            /\ s.d \in NodeData \cup {None}
<1>1. settings \in Compositions
  BY DEF Composed
<1>2. settings[at] \in SettingType /\ settings[at].len \in Lens[Type[settings[at].n]]
  BY <1>1, LaunchAssumption DEF LaunchAssumption
<1> QED
  BY <1>2 DEF SettingType

\* The launcher of blockdiagram.lua, a main of a C program and a free script are
\* clients of the config interface: every one of their steps, in whatever
\* composition, is a step of module Config.
THEOREM LaunchImplementsConfig == LSpec => Spec
<1>1. LInit => Init /\ Composed
  BY DEF LInit, Composed
<1>2. Composed /\ [LNext]_<<vars, lvars>> => [Next]_vars
  <2> SUFFICES ASSUME Composed, [LNext]_<<vars, lvars>> PROVE Next \/ UNCHANGED vars
    OBVIOUS
  <2>1. CASE CreateBlock \/ InitBlocks \/ StartBlocks
    <3>1. pass \in {"create", "init", "start"} /\ at \in DOMAIN Items(pass)
      BY <2>1 DEF CreateBlock, InitBlocks, StartBlocks, Working
    <3>2. Blocks[at] \in Block
      BY <3>1, LaunchAssumption DEF LaunchAssumption, Items
    <3> QED
      BY <2>1, <3>2, CallIsNext DEF CreateBlock, InitBlocks, StartBlocks, Next
  <2>2. CASE MakeNodeCfg
    BY <2>2, LaunchAssumption DEF LaunchAssumption, MakeNodeCfg, Working, Items, Next
  <2>3. CASE Apply \/ Reapply
    <3>1. at \in DOMAIN settings
      BY <2>3 DEF Apply, Reapply, Working, Items
    <3> QED
      BY <2>3, <3>1, ItemKnown, ApplyIsNext
         DEF Apply, Reapply, Unsettable, Absent, ConfigureLate
  <2>4. CASE Main
    <3>1. at \in DOMAIN Program
      BY <2>4 DEF Main
    <3>2. CASE Program[at].op = "create" /\ Create(Program[at].b)
      BY <3>1, <3>2, LaunchAssumption DEF LaunchAssumption, Next
    <3>3. CASE Program[at].op = "set" /\ CfgSet(Program[at].b, Program[at].n, Program[at].len)
      BY <3>1, <3>3, LaunchAssumption DEF LaunchAssumption, Next
    <3>4. CASE InitCall(Program[at].b) \/ StartCall(Program[at].b)
      BY <3>1, <3>4, LaunchAssumption, CallIsNext DEF LaunchAssumption
    <3> QED
      BY <2>4, <3>2, <3>3, <3>4 DEF Main
  <2>5. CASE TearDown \/ Up \/ Script
    BY <2>5 DEF TearDown, Up, Script, Next, Lifecycle
  <2>6. CASE EndPass \/ EndMain \/ NodeRm \/ UNCHANGED <<vars, lvars>>
    BY <2>6 DEF EndPass, EndMain, NodeRm
  <2> QED
    BY <2>1, <2>2, <2>3, <2>4, <2>5, <2>6 DEF LNext, Launcher
<1> QED
  BY <1>1, <1>2, ComposedKept, PTL DEF LSpec, Spec

\* In a node that some client has launched, every config is freed with its last
\* reference and not before.
THEOREM LaunchedRefsExact == LSpec => []RefsExact
BY LaunchImplementsConfig, RefsExactHolds
-----------------------------------------------------------------------------
(* What the operations do to a single config.                               *)

\* Config m of block c, with its data, is left alone.
ConfigKept(c, m) == cfg'[c][m] = cfg[c][m] /\ data'[<<c, m>>] = data[<<c, m>>]

AddsTo(b, S) ==
  \A c \in Block, m \in Name :
    /\ c = b /\ m \in S => cfg'[c][m] = <<c, m>> /\ data'[<<c, m>>] = Fresh(0)
    /\ c # b \/ m \notin S => ConfigKept(c, m)

LEMMA AddedExist ==
  ASSUME NEW b \in Block, NEW S, AddsTo(b, S)
  PROVE  \A c \in Block, m \in Name :
           /\ c = b /\ m \in S => Has(c, m)'
           /\ c # b \/ m \notin S => cfg'[c][m] = cfg[c][m]
<1>1. \A c \in Block, m \in Name : <<c, m>> \in Data /\ <<c, m>> # None
  BY ConfigAssumption DEF ConfigAssumption, Data
<1>2. \A m \in Name : m \in S => cfg'[b][m] = <<b, m>>
  BY DEF AddsTo
<1>3. \A c \in Block, m \in Name : c # b \/ m \notin S => cfg'[c][m] = cfg[c][m]
  BY DEF AddsTo, ConfigKept
<1> QED
  BY <1>1, <1>2, <1>3 DEF Has

LEMMA AddedOwn ==
  ASSUME NEW b \in Block, NEW S, AddsTo(b, S)
  PROVE  \A c \in Block, m \in Name : cfg'[c][m] = <<c, m>> \/ cfg'[c][m] = cfg[c][m]
BY DEF AddsTo, ConfigKept

LEMMA AddEffect == ASSUME Counted, NEW b \in Block, NEW S, AddConfigs(b, S) PROVE AddsTo(b, S)
BY DEF AddsTo, ConfigKept, AddConfigs, Counted, TypeOK, Data

RelooksUp(b) ==
  /\ ptr'[b][Loglevel] = Pointer(b, Loglevel) /\ <<b, Loglevel>> \notin touched'
  /\ \A c \in Block, m \in Name :
       /\ c # b \/ m # Loglevel => ptr'[c][m] = ptr[c][m]
       /\ <<c, m>> \in touched' => <<c, m>> \in touched

LEMMA RelookEffect == ASSUME Counted, NEW b \in Block, Relookup(b) PROVE RelooksUp(b)
BY ConfigAssumption DEF RelooksUp, Relookup, Relogged, Counted, TypeOK, ConfigAssumption

\* The init hook of a block: its dynamic configs are there, with length 0, and it
\* has cached the static ones.
Caches(b, S) ==
  \A c \in Block, m \in Name :
    /\ c # b => ptr'[c][m] = ptr[c][m]
    /\ c = b /\ m \in S => ptr'[c][m] = Pointer(b, m) /\ <<c, m>> \notin touched'
    /\ <<c, m>> \in touched' => <<c, m>> \in touched
Initialises(b) ==
  /\ held' = held /\ state[b] = "preinit" /\ state'[b] = "inactive"
  /\ \A c \in Block : c # b => state'[c] = state[c]
  /\ \A m \in Added(b) : ~Has(b, m)
  /\ AddsTo(b, Added(b))
  /\ Caches(b, Static(b)) /\ \A m \in Name : m \notin Static(b) => ptr'[b][m] = None

LEMMA InitEffect == ASSUME Counted, NEW b \in Block, InitOk(b) PROVE Initialises(b)
<1>1. AddConfigs(b, Added(b)) /\ CanAdd(b)
  BY DEF InitOk
<1>2. AddsTo(b, Added(b)) /\ \A m \in Added(b) : ~Has(b, m)
  BY <1>1, AddEffect DEF CanAdd
<1>3. Caches(b, Static(b)) /\ \A m \in Name : m \notin Static(b) => ptr'[b][m] = None
  BY DEF Caches, InitOk, Counted, TypeOK
<1>4. /\ held' = held /\ state[b] = "preinit" /\ state'[b] = "inactive"
      /\ \A c \in Block : c # b => state'[c] = state[c]
  BY DEF InitOk, Counted, TypeOK
<1> QED
  BY <1>2, <1>3, <1>4 DEF Initialises

Creates(b) ==
  /\ UNCHANGED <<ptr, touched, held>>
  /\ state'[b] = "preinit" /\ \A c \in Block : c # b => state'[c] = state[c]
  /\ \A m \in Name : ~Has(b, m)
  /\ AddsTo(b, Static(b))

LEMMA CreateEffect == ASSUME Counted, NEW b \in Block, Create(b) PROVE Creates(b)
<1>1. AddsTo(b, Static(b))
  BY AddEffect DEF Create
<1> QED
  BY <1>1 DEF Creates, Create, Counted, TypeOK, OwnersKnown, Has

Starts(b) ==
  /\ UNCHANGED <<cfg, data, held>>
  /\ \A c \in Block : state'[c] = "none" => state[c] = "none"
  /\ Caches(b, Added(b)) /\ \A m \in Name : m \notin Added(b) => ptr'[b][m] = ptr[b][m]

LEMMA StartEffect == ASSUME Counted, NEW b \in Block, Start(b) PROVE Starts(b)
BY DEF Starts, Caches, Start, Counted, TypeOK

\* A config is touched, and no pointer appears.
Touches(b, n) ==
  /\ UNCHANGED <<state, held>>
  /\ \A c \in Block, m \in Name :
       /\ ptr[c][m] = None => ptr'[c][m] = None
       /\ c # b \/ m # n => cfg'[c][m] = cfg[c][m]
       /\ <<c, m>> \in touched' => <<c, m>> \in touched \/ (c = b /\ m = n)

\* A config is set that has its own data.
Sets(b, n, len) ==
  /\ Touches(b, n) /\ cfg'[b][n] = cfg[b][n]
  /\ \A c \in Block, m \in Name : c # b \/ m # n => data'[<<c, m>>] = data[<<c, m>>]
  /\ len > 0 => data'[<<b, n>>].len = len

LEMMA SetEffect ==
  ASSUME Counted, NEW b \in Block, NEW n \in Name, cfg[b][n] = <<b, n>>,
         NEW len \in Nat, Resize(<<b, n>>, len)
  PROVE  Sets(b, n, len)
<1>1. <<b, n>> \in Data /\ None \notin Data
  BY ConfigAssumption DEF Data, ConfigAssumption
<1>2. \A c \in Block, m \in Name : <<c, m>> \in Owners(<<b, n>>) => c = b /\ m = n
  BY ConfigAssumption DEF Owners, Counted, OwnersKnown, ConfigAssumption, Data
<1>3. UNCHANGED <<state, cfg, held>> /\ ptr' = Dangle(ptr, {<<b, n>>})
      /\ touched' = touched \cup Owners(<<b, n>>)
  BY DEF Resize
<1>4. \A c \in Block, m \in Name : ptr[c][m] = None => ptr'[c][m] = None
  BY <1>1, <1>3 DEF Dangle
<1>5. /\ \A x \in Data : x # <<b, n>> => data'[x] = data[x]
      /\ len > 0 => data'[<<b, n>>].len = len
  BY <1>1 DEF Resize, Counted, TypeOK, DataRecord
<1>6. \A c \in Block, m \in Name : <<c, m>> \in Data
  BY DEF Data
<1>7. Touches(b, n)
  BY <1>2, <1>3, <1>4 DEF Touches
<1> QED
  BY <1>3, <1>5, <1>6, <1>7 DEF Sets

Assigns(b, n, d) ==
  /\ Touches(b, n) /\ cfg'[b][n] = d
  /\ \A c \in Block, m \in Name : <<c, m>> # cfg[b][n] => data'[<<c, m>>] = data[<<c, m>>]

LEMMA AssignEffect ==
  ASSUME Counted, NEW b \in Block, NEW n \in Name, NEW d \in NodeData, Assign(b, n, d)
  PROVE  Assigns(b, n, d)
<1> DEFINE left == [data EXCEPT ![cfg[b][n]] = DataFree(cfg[b][n], 1)]
<1>1. /\ UNCHANGED <<state, held>> /\ cfg' = [cfg EXCEPT ![b][n] = d]
      /\ ptr' = Dangle(ptr, Freed(left)) /\ touched' = touched \cup {<<b, n>>}
      /\ data' = [left EXCEPT ![d].refs = @ + 1]
  BY DEF Assign
<1>2. None \notin Freed(left)
  BY ConfigAssumption DEF Freed, ConfigAssumption
<1>3. \A c \in Block, m \in Name : <<c, m>> # d /\ <<c, m>> \in Data
  BY ConfigAssumption DEF ConfigAssumption, Data
<1>4. \A x \in Data : x # d /\ x # cfg[b][n] => data'[x] = data[x]
  BY <1>1 DEF Counted, TypeOK
<1> HIDE DEF left
<1>5. \A c \in Block, m \in Name : ptr[c][m] = None => ptr'[c][m] = None
  BY <1>1, <1>2 DEF Dangle
<1>6. cfg'[b][n] = d /\ \A c \in Block, m \in Name : c # b \/ m # n => cfg'[c][m] = cfg[c][m]
  BY <1>1 DEF Counted, TypeOK
<1>7. Touches(b, n)
  BY <1>1, <1>5, <1>6 DEF Touches
<1> QED
  BY <1>3, <1>4, <1>6, <1>7 DEF Assigns
-----------------------------------------------------------------------------
\* A block that exists has its static configs, and no other than those of its type.
Present ==
  \A b \in Block :
    /\ \A n \in Name : Has(b, n) => n \in Configs[b]
    /\ state[b] # "none" => \A n \in Static(b) : Has(b, n)

LEMMA PresentKept == ASSUME Counted, Present, [Next]_vars PROVE Present'
<1> USE DEF Has
<1>0. /\ \A b \in Block, n \in Name : <<b, n>> # None
      /\ \A b \in Block : Static(b) \subseteq Name /\ Static(b) \subseteq Configs[b]
      /\ \A b \in Block : Added(b) \subseteq Name /\ Added(b) \subseteq Configs[b]
  BY ConfigAssumption DEF ConfigAssumption, Data, Static, Added
<1>1. ASSUME NEW b \in Block, Create(b) PROVE Present'
  <2>1. Creates(b)
    BY <1>1, CreateEffect
  <2> QED
    BY <1>0, <2>1, AddedExist DEF Creates, Present
<1>2. ASSUME NEW b \in Block, InitRefused(b) \/ Start(b) \/ Stop(b) PROVE Present'
  <2>1. cfg' = cfg /\ \A c \in Block : state'[c] = "none" <=> state[c] = "none"
    BY <1>2 DEF InitRefused, Start, Stop, Counted, TypeOK
  <2> QED
    BY <2>1 DEF Present
<1>3. ASSUME NEW b \in Block, InitFails(b) PROVE Present'
  <2>1. state' = state
    BY <1>3 DEF InitFails
  <2>2. CASE cfg' = cfg
    BY <2>1, <2>2 DEF Present
  <2>3. CASE AddConfigs(b, Added(b))
    <3>1. AddsTo(b, Added(b))
      BY <2>3, AddEffect
    <3> QED
      BY <1>0, <2>1, <3>1, AddedExist DEF Present
  <2> QED
    BY <1>3, <2>2, <2>3 DEF InitFails
<1>4. ASSUME NEW b \in Block, InitOk(b) PROVE Present'
  <2>1. Initialises(b)
    BY <1>4, InitEffect
  <2> QED
    BY <1>0, <2>1, AddedExist DEF Initialises, Present
<1>5. ASSUME NEW b \in Block, Remove(b) PROVE Present'
  <2>1. /\ \A c \in Block : c # b => cfg'[c] = cfg[c] /\ state'[c] = state[c]
        /\ state'[b] = "none" /\ \A n \in Name : cfg'[b][n] = None
    BY <1>5 DEF Remove, Counted, TypeOK
  <2> QED
    BY <2>1 DEF Present
<1>6. ASSUME NEW b \in Block, Cleanup(b) PROVE Present'
  <2>1. /\ \A c \in Block : c # b => cfg'[c] = cfg[c] /\ state'[c] = state[c]
        /\ state[b] # "none"
        /\ \A n \in Name : cfg'[b][n] = IF n \in Added(b) THEN None ELSE cfg[b][n]
    BY <1>6 DEF Cleanup, Counted, TypeOK
  <2>2. \A n \in Static(b) : n \in Name /\ n \notin Added(b)
    BY ConfigAssumption DEF Static, Added, ConfigAssumption
  <2> QED
    BY <2>1, <2>2 DEF Present
<1>7. ASSUME NEW d \in NodeData, Collect(d) \/ \E len \in Nat : Alloc(d, len) PROVE Present'
  BY <1>7 DEF Collect, Alloc, Present
<1>8. ASSUME NEW d \in Data, NEW len \in Nat, Resize(d, len) PROVE Present'
  BY <1>8 DEF Resize, Present
<1>9. ASSUME NEW b \in Block, NEW n \in Name, NEW d \in NodeData, Assign(b, n, d) PROVE Present'
  <2>1. Has(b, n) /\ d # None
    BY <1>9, ConfigAssumption DEF Assign, ConfigAssumption, Data
  <2>2. Assigns(b, n, d)
    BY <1>9, AssignEffect
  <2>3. state' = state /\ \A c \in Block, m \in Name : cfg'[c][m] # None <=> cfg[c][m] # None
    BY <2>1, <2>2 DEF Assigns, Touches
  <2> QED
    BY <1>0, <2>3 DEF Present
<1>10. CASE UNCHANGED vars
  BY <1>10 DEF vars, Present
<1>11. CASE Next
  <2>1. TypeOK
    BY DEF Counted
  <2> QED
    BY <2>1, <1>1, <1>2, <1>3, <1>4, <1>5, <1>6, <1>7, <1>8, <1>9, <1>11, CasesOfNext
<1> QED
  BY <1>10, <1>11

\* Configs are set and assigned before the block reads them.
Unread(b, n) == <<b, n>> \in touched => ptr[b][n] = None

\* Hooks cache what was touched anew, and removals forget pointers.
LEMMA UnreadKept ==
  ASSUME Counted, \A c \in Block, m \in Name : Unread(c, m),
         \/ \E b \in Block : Create(b) \/ Remove(b) \/ Lifecycle(b)
         \/ \E d \in NodeData : Collect(d) \/ \E len \in Nat : Alloc(d, len)
  PROVE  \A c \in Block, m \in Name : Unread(c, m)'
<1> USE ConfigAssumption DEF Unread
<1>0. None \notin Data
  BY DEF ConfigAssumption
<1>1. ASSUME NEW b \in Block, Create(b) \/ Stop(b)
      PROVE  \A c \in Block, m \in Name : Unread(c, m)'
  BY <1>1 DEF Create, Stop
<1>2. ASSUME NEW b \in Block, InitRefused(b) \/ InitFails(b)
      PROVE  \A c \in Block, m \in Name : Unread(c, m)'
  <2>1. Relookup(b)
    BY <1>2 DEF InitRefused, InitFails
  <2> QED
    BY <2>1, RelookEffect DEF RelooksUp
<1>3. ASSUME NEW b \in Block, InitOk(b) PROVE \A c \in Block, m \in Name : Unread(c, m)'
  BY <1>3, InitEffect DEF Initialises, Caches
<1>4. ASSUME NEW b \in Block, Start(b) PROVE \A c \in Block, m \in Name : Unread(c, m)'
  BY <1>4, StartEffect DEF Starts, Caches
<1>5. ASSUME NEW b \in Block, Remove(b) PROVE \A c \in Block, m \in Name : Unread(c, m)'
  <2>1. \A c \in Block, m \in Name :
          /\ ptr'[c][m] = IF c = b THEN None ELSE IF ptr[c][m] \in Freed(data') THEN Stale ELSE ptr[c][m]
          /\ <<c, m>> \in touched' => <<c, m>> \in touched
    BY <1>5 DEF Remove, Dangle, Freed, Counted, TypeOK, ConfigAssumption
  <2> QED
    BY <1>0, <2>1 DEF Freed
<1>6. ASSUME NEW b \in Block, Cleanup(b) PROVE \A c \in Block, m \in Name : Unread(c, m)'
  <2>1. \A c \in Block, m \in Name :
          LET p == IF c = b /\ m # Loglevel THEN None ELSE ptr[c][m]
          IN /\ ptr'[c][m] = IF p \in Freed(data') THEN Stale ELSE p
             /\ touched' = touched
    BY <1>6 DEF Cleanup, Dangle, Counted, TypeOK
  <2> QED
    BY <1>0, <2>1 DEF Freed
<1>7. ASSUME NEW d \in NodeData, Collect(d) \/ \E len \in Nat : Alloc(d, len)
      PROVE  \A c \in Block, m \in Name : Unread(c, m)'
  BY <1>0, <1>7 DEF Collect, Alloc, Dangle, Freed
<1> QED
  BY <1>1, <1>2, <1>3, <1>4, <1>5, <1>6, <1>7 DEF Lifecycle
-----------------------------------------------------------------------------
(* The passes of a launch and the calls of main.                            *)

Launching == {"create", "nodecfgs", "apply", "init", "reapply", "start", "up"}

LEMMA AfterPasses ==
  /\ After("create") = "nodecfgs" /\ After("nodecfgs") = "apply" /\ After("apply") = "init"
  /\ After("init") = "reapply" /\ After("reapply") = "start" /\ After("start") = "up"
  /\ Len(Passes) = 7
  /\ {Passes[i] : i \in 1 .. 6} = {"create", "nodecfgs", "apply", "init", "reapply", "start"}
<1>1. /\ DOMAIN Passes = 1 .. 7 /\ Len(Passes) = 7
      /\ Passes[1] = "create" /\ Passes[2] = "nodecfgs" /\ Passes[3] = "apply"
      /\ Passes[4] = "init" /\ Passes[5] = "reapply" /\ Passes[6] = "start" /\ Passes[7] = "up"
  BY DEF Passes
<1>2. ASSUME NEW i \in 1 .. 6 PROVE After(Passes[i]) = Passes[i + 1]
  <2>1. i \in DOMAIN Passes /\ \A j \in DOMAIN Passes : Passes[j] = Passes[i] => j = i
    BY <1>1
  <2>2. (CHOOSE j \in DOMAIN Passes : Passes[j] = Passes[i]) = i
    BY <2>1
  <2> QED
    BY <2>2 DEF After
<1>3. \A i \in 1 .. 6 : After(Passes[i]) = Passes[i + 1]
  BY <1>2
<1>4. \A i \in 1 .. 6 : i = 1 \/ i = 2 \/ i = 3 \/ i = 4 \/ i = 5 \/ i = 6
  OBVIOUS
<1>5. {Passes[i] : i \in 1 .. 6} = {"create", "nodecfgs", "apply", "init", "reapply", "start"}
  BY <1>1, <1>4
<1>6. /\ After(Passes[1]) = Passes[2] /\ After(Passes[2]) = Passes[3]
      /\ After(Passes[3]) = Passes[4] /\ After(Passes[4]) = Passes[5]
      /\ After(Passes[5]) = Passes[6] /\ After(Passes[6]) = Passes[7]
  BY <1>3
<1> QED
  BY <1>1, <1>5, <1>6

LType ==
  /\ pass \in Launching \cup {"script", "program", "rm", "removed", "exit"}
  /\ at \in Nat \ {0}
  /\ applied \in [Keys -> Nat]

\* No block has cached a pointer before the init pass, dynamic configs are cached
\* in the start pass, and main has called the hook that has cached a pointer.
Hooked(b, n) ==
  \E i \in DOMAIN Program :
    /\ i < at /\ Program[i].b = b
    /\ Program[i].op = "start" \/ (Program[i].op = "init" /\ n \notin Dynamic)
Cached ==
  \A b \in Block, n \in Name :
    /\ pass \in {"create", "nodecfgs", "apply"} => ptr[b][n] = None
    /\ (pass \in {"init", "reapply"} /\ n \notin Static(b)) => ptr[b][n] = None
    /\ (pass = "program" /\ ptr[b][n] # None) => Hooked(b, n)
    /\ pass # "script" => Unread(b, n)

\* What the first passes have not done yet.
NotYet ==
  /\ pass \in {"create", "nodecfgs"} => nonexist = {} /\ \A k \in Keys : applied[k] = 0
  /\ pass \in {"apply", "init", "reapply"} =>
       \A b \in Block : \A n \in Static(b) : <<b, n>> \in nonexist => state[b] = "none"

Own(b, n, len) == cfg[b][n] = <<b, n>> /\ data[<<b, n>>].len = len
\* A config that was not set has its own data, of length 0.
Unset ==
  \A b \in Block, n \in Name :
    Has(b, n) =>
      /\ pass \in {"create", "nodecfgs"} => Own(b, n, 0)
      /\ (pass \in {"apply", "init", "reapply"} /\ <<b, n>> \in Keys /\ applied[<<b, n>>] = 0)
           => Own(b, n, 0)
ByMain ==
  pass = "program" =>
    settings = <<>> /\ held = {} /\ \A b \in Block, n \in Name : Has(b, n) => cfg[b][n] = <<b, n>>
Removed == pass = "removed" => \A b \in Block : state[b] = "none"

\* A config that was set has the value of its highest setting.
Valued(b, n, i) ==
  /\ i \in DOMAIN settings /\ settings[i].b = b /\ settings[i].n = n
  /\ \A j \in DOMAIN settings : settings[j].b = b /\ settings[j].n = n => i <= j
  /\ IF settings[i].d = None THEN Own(b, n, settings[i].len) ELSE cfg[b][n] = settings[i].d
Value ==
  pass \in Launching =>
    \A b \in Block, n \in Name :
      <<b, n>> \in Keys /\ applied[<<b, n>>] # 0 => Valued(b, n, applied[<<b, n>>])

\* What has become of the settings that a pass is done with.
Visited ==
  \A i \in DOMAIN settings :
    LET k == Key(settings[i])
    IN /\ (pass = "apply" /\ i < at) \/ pass \in {"init", "reapply"} =>
            k \in nonexist \/ applied[k] # 0
       /\ (pass = "reapply" /\ i < at) \/ pass \in {"start", "up"} => applied[k] # 0
       /\ pass = "apply" /\ k \in nonexist => ~Has(settings[i].b, settings[i].n)

LInv == LType /\ Cached /\ NotYet /\ Unset /\ ByMain /\ Removed /\ Value /\ Visited

\* The state of the blocks in the passes: those of the composition exist, and the
\* init pass is done with the first ones of its list.
BeforeStart == {"create", "nodecfgs", "apply", "init", "reapply"}
Staged ==
  \A b \in Block :
    /\ pass \in {"create", "nodecfgs", "apply"} => state[b] \in {"none", "preinit"}
    /\ pass \in BeforeStart => state[b] \in {"none", "preinit", "inactive"}
    /\ (pass \in {"create", "nodecfgs", "apply", "init"} /\ state[b] # "none") =>
         \E i \in DOMAIN Blocks :
           Blocks[i] = b /\ (pass = "init" /\ i < at => state[b] = "inactive")
    /\ pass = "reapply" => state[b] # "preinit"

Known == Counted /\ Present /\ Composed /\ Staged

LEMMA LInvInit == LInit => LInv
<1> SUFFICES ASSUME LInit PROVE LInv
  OBVIOUS
<1>1. pass \in {"create", "script", "program"} /\ (pass = "program" => settings = <<>>)
  BY LaunchAssumption DEF LInit, LaunchAssumption
<1>2. /\ at = 1 /\ nonexist = {} /\ applied = [k \in Keys |-> 0] /\ held = {} /\ touched = {}
      /\ \A b \in Block, n \in Name : ptr[b][n] = None /\ ~Has(b, n)
  BY DEF LInit, Init, Has
<1>3. LType
  BY <1>1, <1>2 DEF LType, Launching
<1>4. Cached /\ NotYet /\ Unset /\ ByMain /\ Removed
  BY <1>1, <1>2 DEF Cached, NotYet, Unset, ByMain, Removed, Unread
<1>5. Value
  BY <1>2 DEF Value
<1>6. Visited
  BY <1>1, <1>2 DEF Visited
<1> QED
  BY <1>3, <1>4, <1>5, <1>6 DEF LInv

\* What holds of a launcher that gives up, and of a node that is removed.
LEMMA LeaveKept ==
  ASSUME LInv, pass' \in {"exit", "rm"}, at' = at, settings' = settings,
         applied' \in [Keys -> Nat], \A b \in Block, n \in Name : Unread(b, n)'
  PROVE  LInv'
<1>1. LType' /\ Cached'
  BY DEF LInv, LType, Cached, Keys, Launching
<1>2. NotYet' /\ Unset' /\ ByMain' /\ Removed' /\ Value' /\ Visited'
  BY DEF NotYet, Unset, ByMain, Removed, Value, Visited, Launching
<1> QED
  BY <1>1, <1>2 DEF LInv

LEMMA ItemFacts ==
  ASSUME Composed
  PROVE  /\ settings \in Seq(SettingType) /\ Keys \subseteq Block \X Name
         /\ \A i \in DOMAIN settings :
              /\ i \in Nat /\ settings[i].b \in Block /\ settings[i].n \in Name
              /\ settings[i].len \in Nat /\ settings[i].d \in NodeData \cup {None}
              /\ Key(settings[i]) = <<settings[i].b, settings[i].n>>
              /\ <<settings[i].b, settings[i].n>> \in Keys
<1>1. settings \in Seq(SettingType)
  <2>1. <<>> \in Seq(SettingType)
    OBVIOUS
  <2>2. Compositions \subseteq Seq(SettingType)
    BY LaunchAssumption DEF LaunchAssumption
  <2> QED
    BY <2>1, <2>2 DEF Composed
<1>2. \A i \in DOMAIN settings : i \in Nat /\ settings[i] \in SettingType
  BY <1>1
<1>3. \A i \in DOMAIN settings :
        /\ settings[i].b \in Block /\ settings[i].n \in Name
        /\ settings[i].len \in Nat /\ settings[i].d \in NodeData \cup {None}
  BY <1>2 DEF SettingType
<1>4. \A i \in DOMAIN settings : Key(settings[i]) \in Keys
  BY DEF Keys
<1> QED
  BY <1>1, <1>2, <1>3, <1>4 DEF Key, Keys

\* A setting that is applied: its config gets its value, the others stay.
Applied(s) ==
  /\ UNCHANGED <<state, held>>
  /\ \A c \in Block, m \in Name :
       /\ ptr[c][m] = None => ptr'[c][m] = None
       /\ c # s.b \/ m # s.n => ConfigKept(c, m)
       /\ <<c, m>> \in touched' => <<c, m>> \in touched \/ (c = s.b /\ m = s.n)
  /\ cfg'[s.b][s.n] # None
  /\ s.d = None =>
       cfg'[s.b][s.n] = <<s.b, s.n>> /\ data'[<<s.b, s.n>>].len = s.len
  /\ s.d # None => cfg'[s.b][s.n] = s.d

LEMMA ApplyEffect ==
  ASSUME Counted, NEW s, s.b \in Block, s.n \in Name, s.len \in Nat,
         s.d \in NodeData \cup {None}, Own(s.b, s.n, 0), ApplyValue(s)
  PROVE  \/ Applied(s) /\ Advance
         \/ UNCHANGED vars /\ Exit
<1>1. s.d # None => s.d \in NodeData
  OBVIOUS
<1>a. cfg[s.b][s.n] = <<s.b, s.n>> /\ <<s.b, s.n>> # None /\ data[<<s.b, s.n>>].len = 0
  BY ConfigAssumption DEF ConfigAssumption, Data, Own
<1>2. ASSUME s.d # None, Assign(s.b, s.n, s.d) PROVE Applied(s)
  <2>1. Assigns(s.b, s.n, s.d)
    BY <1>2, AssignEffect
  <2>2. Touches(s.b, s.n) /\ cfg'[s.b][s.n] = s.d
    BY <2>1 DEF Assigns
  <2>3. \A c \in Block, m \in Name :
          c # s.b \/ m # s.n => data'[<<c, m>>] = data[<<c, m>>]
    BY <1>a, <2>1 DEF Assigns
  <2> QED
    BY <1>2, <2>2, <2>3 DEF Touches, Applied, ConfigKept
<1>3. ASSUME s.d = None, s.len > 0, DataSet(cfg[s.b][s.n], s.len) PROVE Applied(s)
  <2>1. Sets(s.b, s.n, s.len)
    BY <1>3, <1>a, SetEffect DEF DataSet
  <2>2. /\ Touches(s.b, s.n) /\ cfg'[s.b][s.n] = <<s.b, s.n>>
        /\ data'[<<s.b, s.n>>].len = s.len
    BY <1>3, <1>a, <2>1 DEF Sets
  <2>3. \A c \in Block, m \in Name :
          c # s.b \/ m # s.n => data'[<<c, m>>] = data[<<c, m>>]
    BY <2>1 DEF Sets
  <2> QED
    BY <1>3, <1>a, <2>2, <2>3 DEF Touches, Applied, ConfigKept
<1>4. ASSUME s.d = None, s.len = 0, UNCHANGED vars PROVE Applied(s)
  BY <1>a, <1>4 DEF vars, Applied, ConfigKept
<1>5. data[cfg[s.b][s.n]].len = 0
  BY DEF Own
<1>7. DataSet(cfg[s.b][s.n], s.len) => s.len > 0
  BY <1>5 DEF DataSet
<1>6. \/ s.d = None /\ s.len > 0 /\ DataSet(cfg[s.b][s.n], s.len) /\ Advance
      \/ s.d = None /\ s.len = 0 /\ UNCHANGED vars /\ Advance
      \/ s.d # None /\ Assign(s.b, s.n, s.d) /\ Advance
      \/ s.d # None /\ UNCHANGED vars /\ Exit
  BY <1>5, <1>7 DEF ApplyValue
<1> QED
  BY <1>2, <1>3, <1>4, <1>6

\* apply_config and reapply_config do nothing with a config that was set.
LEMMA SkipKept ==
  ASSUME Known, LInv, at \in DOMAIN settings, pass \in {"apply", "reapply"},
         applied[Key(settings[at])] # 0, Advance, UNCHANGED <<vars, applied, nonexist>>
  PROVE  LInv'
<1>1. at \in Nat \ {0} /\ at' = at + 1 /\ pass' = pass /\ settings' = settings
      /\ UNCHANGED <<state, cfg, data, held, ptr, touched, applied, nonexist>>
  BY DEF LInv, LType, Advance, vars
<1>2. LType' /\ Cached' /\ NotYet' /\ ByMain' /\ Removed'
  BY <1>1 DEF LInv, LType, Cached, Unread, NotYet, ByMain, Has, Removed, Keys
<1>3. Unset' /\ Value'
  BY <1>1 DEF LInv, Unset, Own, Has, Keys, Value, Valued
<1>4. ASSUME NEW i \in DOMAIN settings
      PROVE  LET k == Key(settings[i])
             IN /\ (pass = "apply" /\ i < at + 1) \/ pass \in {"init", "reapply"} =>
                     k \in nonexist \/ applied[k] # 0
                /\ (pass = "reapply" /\ i < at + 1) \/ pass \in {"start", "up"} => applied[k] # 0
                /\ pass = "apply" /\ k \in nonexist => ~Has(settings[i].b, settings[i].n)
  <2>1. i \in Nat
    BY ItemFacts DEF Known
  <2>2. i < at + 1 => i < at \/ i = at
    BY <1>1, <2>1
  <2> QED
    BY <2>2 DEF LInv, Visited
<1>5. Visited'
  BY <1>1, <1>4 DEF Visited, Has, Key
<1> QED
  BY <1>2, <1>3, <1>5 DEF LInv

\* apply_cfg_val of a config that was not set.
LEMMA ApplyKept ==
  ASSUME Known, LInv, at \in DOMAIN settings, pass \in {"apply", "reapply"},
         NEW s, s = settings[at], Has(s.b, s.n), applied[<<s.b, s.n>>] = 0,
         pass = "reapply" => <<s.b, s.n>> \in nonexist,
         Applied(s), Advance, applied' = [applied EXCEPT ![<<s.b, s.n>>] = at],
         nonexist' = nonexist
  PROVE  LInv'
<1> DEFINE k == <<s.b, s.n>>
<1>1. /\ at \in Nat \ {0} /\ at' = at + 1 /\ pass' = pass /\ settings' = settings
      /\ state' = state /\ held' = held /\ Keys' = Keys
      /\ applied \in [Keys -> Nat]
  BY DEF LInv, LType, Advance, Keys, Applied
<1>2. /\ s.b \in Block /\ s.n \in Name /\ k \in Keys /\ Keys \subseteq Block \X Name
      /\ \A i \in DOMAIN settings :
           /\ i \in Nat /\ settings[i].b \in Block /\ settings[i].n \in Name
           /\ Key(settings[i]) = <<settings[i].b, settings[i].n>>
           /\ <<settings[i].b, settings[i].n>> \in Keys
  BY ItemFacts DEF Known
<1>a. \A i \in DOMAIN settings : i \in Nat
  BY <1>2
<1>3. applied'[k] = at /\ \A x \in Keys : x # k => applied'[x] = applied[x]
  BY <1>1, <1>2
<1>4. \A c \in Block, m \in Name : <<c, m>> # k => ConfigKept(c, m)
  BY DEF Applied
<1>5. \A c \in Block, m \in Name : Has(c, m)' <=> Has(c, m)
  <2>1. Has(s.b, s.n) /\ cfg'[s.b][s.n] # None
    BY DEF Applied
  <2> QED
    BY <2>1 DEF Applied, ConfigKept, Has
<1>6. LType'
  BY <1>1, <1>2 DEF LInv, LType
<1>7. Cached'
  <2>1. ptr[s.b][s.n] = None
    <3>1. CASE pass = "apply"
      BY <1>2, <3>1 DEF LInv, Cached
    <3>2. CASE pass = "reapply"
      <4>1. s.n \notin Static(s.b)
        <5> SUFFICES ASSUME s.n \in Static(s.b) PROVE FALSE
          OBVIOUS
        <5>1. state[s.b] = "none"
          BY <1>2, <3>2 DEF LInv, NotYet
        <5> QED
          BY <1>2, <5>1 DEF Known, Counted, OwnersKnown, Has
      <4> QED
        BY <1>2, <3>2, <4>1 DEF LInv, Cached
    <3> QED
      BY <3>1, <3>2
  <2>2. ASSUME NEW c \in Block, NEW m \in Name
        PROVE  /\ pass = "apply" => ptr'[c][m] = None
               /\ pass = "reapply" /\ m \notin Static(c) => ptr'[c][m] = None
               /\ Unread(c, m)'
    <3>1. ptr[c][m] = None => ptr'[c][m] = None
      BY DEF Applied
    <3>2. <<c, m>> \in touched' => ptr[c][m] = None
      BY <2>1 DEF Applied, LInv, Cached, Unread
    <3> QED
      BY <3>1, <3>2 DEF LInv, Cached, Unread
  <2> QED
    BY <1>1, <2>2 DEF Cached
<1>8. NotYet' /\ ByMain' /\ Removed'
  BY <1>1 DEF LInv, NotYet, ByMain, Removed
<1>9. Unset'
  <2> SUFFICES ASSUME NEW c \in Block, NEW m \in Name, Has(c, m),
                      <<c, m>> \in Keys, applied'[<<c, m>>] = 0
               PROVE  Own(c, m, 0)'
    BY <1>1, <1>5 DEF Unset
  <2>1. <<c, m>> # k /\ applied[<<c, m>>] = 0
    BY <1>1, <1>3
  <2>2. ConfigKept(c, m) /\ Own(c, m, 0)
    BY <1>4, <2>1 DEF LInv, Unset
  <2> QED
    BY <2>2 DEF ConfigKept, Own
<1>10. Value'
  <2> SUFFICES ASSUME NEW c \in Block, NEW m \in Name, NEW i, i = applied'[<<c, m>>],
                      <<c, m>> \in Keys, i # 0
               PROVE  /\ i \in DOMAIN settings /\ settings[i].b = c /\ settings[i].n = m
                      /\ \A j \in DOMAIN settings :
                           settings[j].b = c /\ settings[j].n = m => i <= j
                      /\ IF settings[i].d = None
                         THEN cfg'[c][m] = <<c, m>> /\ data'[<<c, m>>].len = settings[i].len
                         ELSE cfg'[c][m] = settings[i].d
    BY <1>1 DEF Value, Valued, Own
  <2>1. CASE <<c, m>> = k
    <3>1. c = s.b /\ m = s.n /\ i = at
      BY <1>3, <2>1
    <3>2. ASSUME NEW j \in DOMAIN settings, settings[j].b = c, settings[j].n = m, j < at PROVE FALSE
      <4>1. Key(settings[j]) = k
        BY <1>2, <3>1, <3>2
      <4>2. pass = "apply" /\ k \in nonexist
        BY <3>2, <4>1 DEF LInv, Visited
      <4> QED
        BY <3>1, <3>2, <4>1, <4>2 DEF LInv, Visited
    <3>3. \A j \in DOMAIN settings : settings[j].b = c /\ settings[j].n = m => at <= j
      BY <1>1, <1>a, <3>2
    <3>4. IF s.d = None
          THEN cfg'[c][m] = <<c, m>> /\ data'[<<c, m>>].len = s.len
          ELSE cfg'[c][m] = s.d
      BY <3>1 DEF Applied
    <3> QED
      BY <3>1, <3>3, <3>4
  <2>2. CASE <<c, m>> # k
    <3>1. i = applied[<<c, m>>] /\ Valued(c, m, i)
      BY <1>3, <2>2 DEF LInv, Value, Launching
    <3>2. cfg'[c][m] = cfg[c][m] /\ data'[<<c, m>>] = data[<<c, m>>]
      BY <1>4, <2>2 DEF ConfigKept
    <3> QED
      BY <3>1, <3>2 DEF Valued, Own
  <2> QED
    BY <2>1, <2>2
<1>11. Visited'
  <2> SUFFICES ASSUME NEW i \in DOMAIN settings
               PROVE  LET x == Key(settings[i])
                      IN /\ (pass = "apply" /\ i < at + 1) \/ pass \in {"init", "reapply"} =>
                              x \in nonexist \/ applied'[x] # 0
                         /\ (pass = "reapply" /\ i < at + 1) \/ pass \in {"start", "up"} =>
                              applied'[x] # 0
                         /\ pass = "apply" /\ x \in nonexist =>
                              ~Has(settings[i].b, settings[i].n)
    BY <1>1, <1>2, <1>5 DEF Visited, Key, Has
  <2>1. i < at + 1 => i < at \/ i = at
    BY <1>1, <1>a
  <2>2. Key(settings[at]) = k
    BY <1>2
  <2>3. CASE Key(settings[i]) = k
    <3>1. applied'[Key(settings[i])] # 0
      BY <1>1, <1>3, <2>3
    <3> QED
      BY <3>1 DEF LInv, Visited
  <2>4. CASE Key(settings[i]) # k
    <3>1. applied'[Key(settings[i])] = applied[Key(settings[i])]
      BY <1>2, <1>3, <2>4
    <3>2. i < at + 1 => i < at
      BY <2>1, <2>2, <2>4
    <3> QED
      BY <3>1, <3>2 DEF LInv, Visited
  <2> QED
    BY <2>3, <2>4
<1> QED
  BY <1>6, <1>7, <1>8, <1>9, <1>10, <1>11 DEF LInv

\* Configure, in either pass.
LEMMA ConfigureKept ==
  ASSUME Known, LInv, at \in DOMAIN settings, pass \in {"apply", "reapply"},
         pass = "reapply" => Key(settings[at]) \in nonexist,
         Has(settings[at].b, settings[at].n), Configure(settings[at]), nonexist' = nonexist
  PROVE  LInv'
<1>1. CASE applied[Key(settings[at])] # 0
  BY <1>1, SkipKept DEF Configure
<1>2. CASE applied[Key(settings[at])] = 0
  <2>1. PICK s : s = settings[at]
    OBVIOUS
  <2>2. /\ s.b \in Block /\ s.n \in Name /\ s.len \in Nat /\ s.d \in NodeData \cup {None}
        /\ Key(s) = <<s.b, s.n>> /\ <<s.b, s.n>> \in Keys
    BY <2>1, ItemFacts DEF Known
  <2>3. /\ Has(s.b, s.n) /\ applied[<<s.b, s.n>>] = 0
        /\ pass = "reapply" => <<s.b, s.n>> \in nonexist
        /\ ApplyValue(s) /\ applied' = [applied EXCEPT ![<<s.b, s.n>>] = at]
    BY <1>2, <2>1, <2>2 DEF Configure
  <2>4. Own(s.b, s.n, 0)
    BY <2>2, <2>3 DEF LInv, Unset
  <2>5. CASE Applied(s) /\ Advance
    BY <2>1, <2>3, <2>5, ApplyKept
  <2>6. CASE UNCHANGED vars /\ Exit
    <3>1. pass' = "exit" /\ at' = at /\ settings' = settings
      BY <2>6 DEF Exit
    <3>2. applied' \in [Keys -> Nat]
      BY <2>2, <2>3 DEF LInv, LType
    <3>3. \A b \in Block, n \in Name : Unread(b, n)'
      BY <2>6 DEF vars, Unread, LInv, Cached
    <3> QED
      BY <3>1, <3>2, <3>3, LeaveKept
  <2>7. Counted
    BY DEF Known
  <2> QED
    BY <2>2, <2>3, <2>4, <2>5, <2>6, <2>7, ApplyEffect
<1> QED
  BY <1>1, <1>2

\* A launcher that misses a block gives up.
LEMMA UnsettableKept ==
  ASSUME LInv, NEW s, pass \in {"apply", "reapply"}, state[s.b] = "none", Unsettable(s)
  PROVE  LInv'
<1>1. pass' = "exit" /\ UNCHANGED <<at, settings, applied, nonexist, vars>>
  BY DEF Unsettable, Exit
<1>2. \A b \in Block, n \in Name : Unread(b, n)'
  BY <1>1 DEF vars, Unread, LInv, Cached
<1> QED
  BY <1>1, <1>2, LeaveKept DEF LInv, LType

LEMMA ApplyPassKept == ASSUME Known, LInv, Apply PROVE LInv'
<1>1. pass = "apply" /\ at \in DOMAIN settings
  BY DEF Apply, Working, Items
<1>2. CASE Has(settings[at].b, settings[at].n) /\ Configure(settings[at]) /\ UNCHANGED nonexist
  BY <1>1, <1>2, ConfigureKept
<1>3. CASE ~Has(settings[at].b, settings[at].n) /\ Absent(settings[at])
  <2>1. PICK b \in Block, n \in Name :
          settings[at].b = b /\ settings[at].n = n /\ Key(settings[at]) = <<b, n>>
    BY <1>1, ItemFacts DEF Known
  <2>2. /\ at \in Nat \ {0} /\ at' = at + 1 /\ pass' = pass /\ settings' = settings
        /\ nonexist' = nonexist \cup {<<b, n>>} /\ ~Has(b, n)
        /\ UNCHANGED <<state, cfg, data, held, ptr, touched, applied>>
    BY <1>3, <2>1 DEF Absent, LInv, LType, Advance, vars
  <2>3. LType' /\ Cached' /\ Unset' /\ ByMain' /\ Removed' /\ Value'
    BY <1>1, <2>2 DEF LInv, LType, Cached, Unread, ByMain, Removed, Keys, Unset, Own, Has,
                      Value, Valued
  <2>4. NotYet'
    <3> SUFFICES ASSUME NEW c \in Block, NEW m \in Static(c), <<c, m>> \in nonexist'
                 PROVE  state[c] = "none"
      BY <1>1, <2>2 DEF NotYet
    <3>1. CASE <<c, m>> = <<b, n>>
      BY <2>2, <3>1 DEF Known, Present
    <3>2. CASE <<c, m>> # <<b, n>>
      BY <1>1, <2>2, <3>2 DEF LInv, NotYet
    <3> QED
      BY <3>1, <3>2
  <2>5. ASSUME NEW i \in DOMAIN settings
        PROVE  LET k == Key(settings[i])
               IN /\ i < at + 1 => k \in nonexist' \/ applied[k] # 0
                  /\ k \in nonexist' => ~Has(settings[i].b, settings[i].n)
    <3>1. i \in Nat /\ Key(settings[i]) = <<settings[i].b, settings[i].n>>
      BY ItemFacts DEF Known
    <3>2. i < at + 1 => i < at \/ i = at
      BY <2>2, <3>1
    <3> QED
      BY <1>1, <2>1, <2>2, <3>1, <3>2 DEF LInv, Visited
  <2>6. Visited'
    BY <1>1, <2>2, <2>5 DEF Visited, Key, Has
  <2> QED
    BY <2>3, <2>4, <2>6 DEF LInv
<1>4. CASE state[settings[at].b] # "preinit" /\ Unsettable(settings[at])
  <2>1. state[settings[at].b] = "none"
    BY <1>1, <1>4, ItemFacts DEF Known, Staged
  <2> QED
    BY <1>1, <1>4, <2>1, UnsettableKept
<1> QED
  BY <1>2, <1>3, <1>4 DEF Apply

LEMMA ReapplyPassKept == ASSUME Known, LInv, Reapply PROVE LInv'
<1>1. pass = "reapply" /\ at \in DOMAIN settings /\ nonexist' = nonexist
  BY DEF Reapply, Working, Items, Unsettable, ConfigureLate
<1>2. CASE ~LeftOver(settings[at]) /\ Advance /\ UNCHANGED <<applied, vars>>
  <2>1. applied[Key(settings[at])] # 0
    BY <1>1, <1>2 DEF LeftOver, LInv, Visited
  <2> QED
    BY <1>1, <1>2, <2>1, SkipKept
<1>3. CASE LeftOver(settings[at]) /\ Has(settings[at].b, settings[at].n) /\ Configure(settings[at])
  BY <1>1, <1>3, ConfigureKept DEF LeftOver
<1>4. CASE Exit /\ UNCHANGED <<applied, vars>>
  <2>1. pass' = "exit" /\ at' = at /\ settings' = settings /\ applied' = applied
    BY <1>1, <1>4 DEF Exit
  <2>2. \A b \in Block, n \in Name : Unread(b, n)'
    BY <1>1, <1>4 DEF vars, Unread, LInv, Cached
  <2> QED
    BY <2>1, <2>2, LeaveKept DEF LInv, LType
<1>5. CASE state[settings[at].b] # "inactive" /\ Unsettable(settings[at])
  <2>1. state[settings[at].b] = "none"
    BY <1>1, <1>5, ItemFacts DEF Known, Staged, BeforeStart
  <2> QED
    BY <1>1, <1>5, <2>1, UnsettableKept
<1> QED
  BY <1>2, <1>3, <1>4, <1>5 DEF Reapply, ConfigureLate

\* A create or a data_alloc that fails.
LEMMA GiveUpKept ==
  ASSUME LInv, pass \in {"create", "nodecfgs"}, UNCHANGED vars, Exit, Same PROVE LInv'
<1>1. pass' = "exit" /\ UNCHANGED <<at, settings, applied>>
  BY DEF Exit, Same
<1>2. \A b \in Block, n \in Name : Unread(b, n)'
  BY DEF vars, Unread, LInv, Cached
<1> QED
  BY <1>1, <1>2, LeaveKept DEF LInv, LType

LEMMA CreatePassKept ==
  ASSUME Known, LInv, Working("create"), Create(Blocks[at]), Advance, Same PROVE LInv'
<1>1. /\ pass = "create" /\ at \in DOMAIN Blocks /\ Create(Blocks[at])
      /\ at' = at + 1 /\ UNCHANGED <<settings, pass, applied, nonexist>>
  BY DEF Working, Items, Advance, Same
<1>2. PICK b \in Block : Create(b)
  BY <1>1, LaunchAssumption DEF LaunchAssumption
<1>3. Creates(b)
  BY <1>2, CreateEffect DEF Known
<1>4. /\ UNCHANGED <<ptr, touched, held>> /\ at \in Nat \ {0} /\ Keys' = Keys
      /\ \A c \in Block, m \in Name :
           \/ cfg'[c][m] = <<c, m>> /\ data'[<<c, m>>] = Fresh(0)
           \/ ConfigKept(c, m)
  BY <1>1, <1>3 DEF Creates, AddsTo, LInv, LType, Keys
<1>5. LType' /\ Cached' /\ NotYet' /\ ByMain' /\ Removed'
  BY <1>1, <1>4 DEF LInv, LType, Cached, Unread, NotYet, ByMain, Removed
<1>6. ASSUME NEW c \in Block, NEW m \in Name, Has(c, m)' PROVE Own(c, m, 0)'
  BY <1>1, <1>4, <1>6 DEF LInv, Unset, Has, Own, ConfigKept, Fresh
<1>7. Unset' /\ Value' /\ Visited'
  BY <1>1, <1>4, <1>6 DEF LInv, NotYet, Unset, Value, Visited
<1> QED
  BY <1>5, <1>7 DEF LInv

LEMMA NodeCfgPassKept ==
  ASSUME Known, LInv, Working("nodecfgs"),
         Alloc(NodeCfgs[at].d, NodeCfgs[at].len), Advance, Same
  PROVE  LInv'
<1>1. /\ pass = "nodecfgs" /\ at' = at + 1 /\ at \in Nat \ {0}
      /\ UNCHANGED <<settings, pass, applied, nonexist>>
  BY DEF Working, Items, Advance, Same, LInv, LType
<1>2. PICK d \in NodeData, len \in Nat : Alloc(d, len)
  <2>1. at \in DOMAIN NodeCfgs /\ Alloc(NodeCfgs[at].d, NodeCfgs[at].len)
    BY DEF Working, Items
  <2>2. NodeCfgs[at].d \in NodeData /\ NodeCfgs[at].len \in Nat
    BY <2>1, LaunchAssumption, ConfigAssumption DEF LaunchAssumption, ConfigAssumption
  <2> QED
    BY <2>1, <2>2
<1>3. \A c \in Block, m \in Name : <<c, m>> \in Data /\ <<c, m>> # d
  BY ConfigAssumption DEF ConfigAssumption, Data
<1>4. UNCHANGED <<state, cfg, ptr, touched>> /\ data' = [data EXCEPT ![d] = Fresh(len)]
  BY <1>2 DEF Alloc
<1>5. \A c \in Block, m \in Name : data'[<<c, m>>] = data[<<c, m>>]
  BY <1>3, <1>4 DEF Known, Counted, TypeOK
<1>6. LType' /\ Cached' /\ NotYet' /\ ByMain' /\ Removed' /\ Value' /\ Visited'
  BY <1>1, <1>4 DEF LInv, LType, Cached, Unread, NotYet, ByMain, Removed, Keys, Value, Visited
<1>7. Unset'
  BY <1>1, <1>4, <1>5 DEF LInv, Unset, Has, Own
<1> QED
  BY <1>6, <1>7 DEF LInv

\* An init hook caches the static configs and adds the dynamic ones.
LEMMA InitialisesKept ==
  ASSUME Known, LInv, NEW b \in Block, Initialises(b),
         pass = "init", at' = at + 1, UNCHANGED <<settings, pass, applied, nonexist>>
  PROVE  LInv'
<1>1. /\ at \in Nat \ {0} /\ Keys' = Keys
      /\ \A c \in Block, m \in Name :
           \/ ConfigKept(c, m)
           \/ c = b /\ m \in Added(b) /\ ~Has(c, m) /\ cfg'[c][m] = <<c, m>>
              /\ data'[<<c, m>>] = Fresh(0)
  BY DEF LInv, LType, Keys, Initialises, AddsTo
<1>2. Cached'
  <2>1. \A c \in Block, m \in Name :
          /\ m \notin Static(c) => ptr'[c][m] = None
          /\ Unread(c, m)'
    <3>1. \A c \in Block, m \in Name :
            /\ m \notin Static(c) => ptr[c][m] = None
            /\ <<c, m>> \in touched => ptr[c][m] = None
      BY DEF LInv, Cached, Unread
    <3> QED
      BY <3>1 DEF Initialises, Caches, Unread
  <2> QED
    BY <2>1 DEF Cached
<1>3. NotYet'
  <2> SUFFICES ASSUME NEW c \in Block, NEW m \in Static(c), <<c, m>> \in nonexist
               PROVE  state'[c] = "none"
    BY DEF NotYet
  <2>1. state[c] = "none"
    BY DEF LInv, NotYet
  <2> QED
    BY <2>1 DEF Initialises
<1>4. LType' /\ ByMain' /\ Removed' /\ Visited'
  BY <1>1 DEF LInv, LType, ByMain, Removed, Visited
<1>5. Unset'
  <2> SUFFICES ASSUME NEW c \in Block, NEW m \in Name, Has(c, m)',
                      <<c, m>> \in Keys, applied[<<c, m>>] = 0
               PROVE  Own(c, m, 0)'
    BY <1>1 DEF Unset
  <2>1. CASE ConfigKept(c, m)
    <3>1. Has(c, m)
      BY <2>1 DEF ConfigKept, Has
    <3>2. Own(c, m, 0)
      BY <3>1 DEF LInv, Unset
    <3> QED
      BY <2>1, <3>2 DEF ConfigKept, Own
  <2>2. CASE cfg'[c][m] = <<c, m>> /\ data'[<<c, m>>] = Fresh(0)
    BY <2>2 DEF Own, Fresh
  <2> QED
    BY <1>1, <2>1, <2>2
<1>6. Value'
  <2> SUFFICES ASSUME NEW c \in Block, NEW m \in Name, NEW i, i = applied[<<c, m>>],
                      <<c, m>> \in Keys, i # 0
               PROVE  Valued(c, m, i)'
    BY <1>1 DEF Value
  <2>1. Valued(c, m, i)
    BY DEF LInv, Value, Launching
  <2>2. Has(c, m)
    <3>1. <<c, m>> # None /\ None \notin NodeData
      BY ConfigAssumption DEF ConfigAssumption, Data
    <3>2. settings[i].d \in NodeData \cup {None}
      BY <2>1, ItemFacts DEF Valued, Known
    <3> QED
      BY <2>1, <3>1, <3>2 DEF Valued, Own, Has
  <2>3. ConfigKept(c, m)
    BY <1>1, <2>2
  <2> QED
    BY <2>1, <2>3 DEF ConfigKept, Valued, Own
<1> QED
  BY <1>2, <1>3, <1>4, <1>5, <1>6 DEF LInv

\* A call that fails, of the launcher or of main.
LEMMA FailedCall ==
  ASSUME Known, LInv, NEW b \in Block, pass \in {"init", "start", "program"}, Exit, Same,
         InitRefused(b) \/ InitFails(b) \/ UNCHANGED vars
  PROVE  LInv'
<1>1. pass' \in {"exit", "rm"} /\ at' = at /\ settings' = settings /\ applied' = applied
  BY DEF Exit, Same
<1>2. \A c \in Block, m \in Name : Unread(c, m)
  BY DEF LInv, Cached
<1>3. \A c \in Block, m \in Name : Unread(c, m)'
  <2>1. CASE UNCHANGED vars
    BY <1>2, <2>1 DEF vars, Unread
  <2>2. CASE InitRefused(b) \/ InitFails(b)
    BY <1>2, <2>2, UnreadKept DEF Known, Lifecycle
  <2> QED
    BY <2>1, <2>2
<1> QED
  BY <1>1, <1>3, LeaveKept DEF LInv, LType

LEMMA InitPassKept == ASSUME Known, LInv, InitBlocks PROVE LInv'
<1>1. pass = "init" /\ at \in DOMAIN Blocks /\ InitCall(Blocks[at]) /\ Same
  BY DEF InitBlocks, Working, Items
<1>2. PICK b \in Block : InitCall(b)
  BY <1>1, LaunchAssumption DEF LaunchAssumption
<1>3. CASE InitOk(b) /\ Advance
  <2>1. Initialises(b)
    BY <1>3, InitEffect DEF Known
  <2> QED
    BY <1>1, <1>3, <2>1, InitialisesKept DEF Advance, Same
<1>4. CASE (InitRefused(b) \/ InitFails(b)) /\ Exit
  BY <1>1, <1>4, FailedCall
<1> QED
  BY <1>2, <1>3, <1>4 DEF InitCall

\* Steps of the launcher and of a launched node that set no config.
LEMMA UpKept ==
  ASSUME Known, LInv, pass \in {"start", "up"}, pass' = pass, at' \in Nat \ {0},
         UNCHANGED <<settings, applied, nonexist, cfg>>,
         \A c \in Block, m \in Name : data'[<<c, m>>] = data[<<c, m>>] /\ Unread(c, m)'
  PROVE  LInv'
<1>0. pass' = pass /\ settings' = settings /\ applied' = applied /\ Keys' = Keys
  BY DEF Keys
<1>3. LType' /\ Cached'
  BY <1>0 DEF LInv, LType, Cached
<1>4. NotYet' /\ Unset' /\ ByMain' /\ Removed'
  BY <1>0 DEF NotYet, Unset, ByMain, Removed
<1>1. Visited'
  BY <1>0 DEF LInv, Visited, Key
<1>2. Value'
  <2> SUFFICES ASSUME NEW c \in Block, NEW m \in Name, NEW i, i = applied[<<c, m>>],
                      <<c, m>> \in Keys, i # 0
               PROVE  Valued(c, m, i)'
    BY DEF Value, Keys, Key
  <2>1. Valued(c, m, i)
    BY DEF LInv, Value, Launching
  <2> QED
    BY <2>1 DEF Valued, Own
<1> QED
  BY <1>1, <1>2, <1>3, <1>4 DEF LInv

LEMMA StartPassKept == ASSUME Known, LInv, StartBlocks PROVE LInv'
<1>1. pass = "start" /\ at \in DOMAIN Blocks /\ StartCall(Blocks[at]) /\ Same
  BY DEF StartBlocks, Working, Items
<1>2. PICK b \in Block : StartCall(b)
  BY <1>1, LaunchAssumption DEF LaunchAssumption
<1>3. CASE Start(b) /\ Advance
  <2>1. \A c \in Block, m \in Name : Unread(c, m)'
    BY <1>1, <1>3, UnreadKept DEF Known, Lifecycle, LInv, Cached
  <2>2. UNCHANGED <<cfg, data>> /\ at' = at + 1 /\ at \in Nat
    BY <1>3 DEF Start, Advance, LInv, LType
  <2> QED
    BY <1>1, <1>3, <2>1, <2>2, UpKept DEF Advance, Same
<1>4. CASE UNCHANGED vars /\ Exit
  BY <1>1, <1>4, FailedCall
<1> QED
  BY <1>2, <1>3, <1>4 DEF StartCall

LEMMA EndPassKept == ASSUME Known, LInv, EndPass PROVE LInv'
<1>1. /\ pass \in {"create", "nodecfgs", "apply", "init", "reapply", "start"}
      /\ pass' = After(pass) /\ at' = 1 /\ at \notin DOMAIN Items(pass)
      /\ UNCHANGED <<settings, applied, nonexist, state, cfg, data, held, ptr, touched>>
  BY AfterPasses DEF EndPass, Same, vars
<1>2. /\ Keys' = Keys /\ pass' \in Launching \ {"create"}
      /\ pass' = "nodecfgs" => pass = "create"
      /\ pass' = "apply" => pass = "nodecfgs"
      /\ pass' = "init" => pass = "apply"
      /\ pass' = "reapply" => pass = "init"
      /\ pass' = "start" => pass = "reapply"
      /\ pass' = "up" => pass = "start"
  BY <1>1, AfterPasses DEF Keys, Launching
<1>3. LType' /\ Cached' /\ ByMain' /\ Removed'
  BY <1>1, <1>2 DEF LInv, LType, Cached, Unread, ByMain, Removed, Launching
<1>4. NotYet'
  BY <1>1, <1>2 DEF LInv, NotYet, Launching
<1>5. Unset'
  BY <1>1, <1>2 DEF LInv, Unset, Own, Has, Launching
<1>6. Value'
  <2> SUFFICES ASSUME NEW c \in Block, NEW m \in Name, NEW i, i = applied[<<c, m>>],
                      <<c, m>> \in Keys, i # 0
               PROVE  Valued(c, m, i)'
    BY <1>1, <1>2 DEF Value
  <2>1. Valued(c, m, i)
    BY <1>1 DEF LInv, Value, Launching
  <2> QED
    BY <1>1, <2>1 DEF Valued, Own
<1>7. Visited'
  <2> SUFFICES ASSUME NEW i \in DOMAIN settings
               PROVE  LET k == Key(settings[i])
                      IN /\ pass' \in {"init", "reapply"} => k \in nonexist \/ applied[k] # 0
                         /\ ~(pass' \in {"apply", "reapply"} /\ i < 1)
                         /\ pass' \in {"start", "up"} => applied[k] # 0
                         /\ pass' = "apply" => k \notin nonexist
    BY <1>1 DEF Visited, Key, Has
  <2>1. i \in 1 .. Len(settings) /\ DOMAIN settings = 1 .. Len(settings) /\ Len(settings) \in Nat
    BY ItemFacts DEF Known
  <2>2. at \in Nat \ {0}
    BY DEF LInv, LType
  <2>3. CASE pass \in {"apply", "reapply"}
    <3>1. at \notin DOMAIN settings
      BY <1>1, <2>3 DEF Items
    <3>2. i < at
      BY <2>1, <2>2, <3>1
    <3> QED
      BY <1>2, <2>1, <2>3, <3>2 DEF LInv, Visited
  <2>4. CASE pass \notin {"apply", "reapply"}
    BY <1>1, <1>2, <2>1, <2>4 DEF LInv, Visited, NotYet
  <2> QED
    BY <2>3, <2>4
<1> QED
  BY <1>3, <1>4, <1>5, <1>6, <1>7 DEF LInv

\* The next call of main.
LEMMA MainKept == ASSUME Known, LInv, Main PROVE LInv'
<1> DEFINE call == Program[at]
<1>1. /\ pass = "program" /\ at \in DOMAIN Program /\ Same
      /\ at \in Nat \ {0} /\ call.b \in Block
      /\ \A i \in DOMAIN Program : i \in Nat
  BY LaunchAssumption DEF LaunchAssumption, Main, LInv, LType
<1>2. /\ settings = <<>> /\ held = {}
      /\ \A b \in Block, n \in Name :
           /\ Has(b, n) => cfg[b][n] = <<b, n>>
           /\ ptr[b][n] # None => Hooked(b, n)
           /\ Unread(b, n)
  BY <1>1 DEF LInv, ByMain, Cached
\* What a call has to keep.
<1>3. ASSUME Advance, held' = {},
             \A c \in Block, m \in Name :
               /\ cfg'[c][m] # None => cfg'[c][m] = <<c, m>>
               /\ ptr'[c][m] # None =>
                    \/ ptr[c][m] # None
                    \/ call.b = c /\ (call.op = "start" \/ (call.op = "init" /\ m \notin Dynamic))
               /\ <<c, m>> \in touched' => ptr'[c][m] = None
      PROVE  LInv'
  <2>1. at' = at + 1 /\ pass' = "program" /\ UNCHANGED <<settings, applied, nonexist>> /\ Keys' = Keys
    BY <1>1, <1>3 DEF Advance, Same, Keys
  <2>2. \A c \in Block, m \in Name : ptr'[c][m] # None =>
          \E i \in DOMAIN Program :
            /\ i < at + 1 /\ Program[i].b = c
            /\ Program[i].op = "start" \/ (Program[i].op = "init" /\ m \notin Dynamic)
    <3> SUFFICES ASSUME NEW c \in Block, NEW m \in Name, ptr'[c][m] # None
                 PROVE  \E i \in DOMAIN Program :
                          /\ i < at + 1 /\ Program[i].b = c
                          /\ Program[i].op = "start" \/ (Program[i].op = "init" /\ m \notin Dynamic)
      OBVIOUS
    <3>1. CASE ptr[c][m] # None
      <4>1. PICK i \in DOMAIN Program :
              /\ i < at /\ Program[i].b = c
              /\ Program[i].op = "start" \/ (Program[i].op = "init" /\ m \notin Dynamic)
        BY <1>2, <3>1 DEF Hooked
      <4>2. i < at + 1
        BY <1>1, <4>1
      <4> QED
        BY <4>1, <4>2
    <3>2. CASE ptr[c][m] = None
      <4>1. at < at + 1
        BY <1>1
      <4> QED
        BY <1>1, <1>3, <3>2, <4>1
    <3> QED
      BY <3>1, <3>2
  <2>3. Cached'
    <3>1. \A c \in Block, m \in Name : ptr'[c][m] # None => Hooked(c, m)'
      BY <2>1, <2>2 DEF Hooked
    <3>2. \A c \in Block, m \in Name : Unread(c, m)'
      BY <1>3 DEF Unread
    <3> QED
      BY <2>1, <3>1, <3>2 DEF Cached
  <2>4. LType' /\ NotYet' /\ Unset' /\ Removed' /\ Value' /\ Visited'
    BY <1>1, <2>1 DEF LInv, LType, NotYet, Unset, Removed, Value, Visited, Launching
  <2>5. ByMain'
    BY <1>2, <1>3, <2>1 DEF ByMain, Has
  <2> QED
    BY <2>3, <2>4, <2>5 DEF LInv
<1> HIDE DEF call
<1>4. CASE call.op = "create" /\ Create(call.b) /\ Advance
  <2>1. Creates(call.b)
    BY <1>1, <1>4, CreateEffect DEF Known
  <2>2. \A c \in Block, m \in Name : cfg'[c][m] # None => cfg'[c][m] = <<c, m>>
    BY <1>1, <1>2, <2>1, AddedOwn DEF Creates, Has
  <2> QED
    BY <1>2, <1>3, <1>4, <2>1, <2>2 DEF Creates, Unread
<1>5. CASE call.op = "set" /\ CfgSet(call.b, call.n, call.len) /\ Advance
  <2>1. call.n \in Name /\ call.len \in Nat
    BY <1>1, <1>5, LaunchAssumption, ConfigAssumption
       DEF LaunchAssumption, ConfigAssumption, call
  <2>2. /\ cfg[call.b][call.n] = <<call.b, call.n>>
        /\ Resize(<<call.b, call.n>>, call.len)
    BY <1>1, <1>2, <1>5, <2>1 DEF CfgSet, Has
  <2>3. Sets(call.b, call.n, call.len)
    BY <1>1, <2>1, <2>2, SetEffect DEF Known
  <2>4. ptr[call.b][call.n] = None
    BY <1>1, <1>2, <1>5, <2>1, ProgramAssumption DEF ProgramAssumption, Hooked, call
  <2>5. \A c \in Block, m \in Name :
          /\ cfg'[c][m] = cfg[c][m]
          /\ ptr[c][m] = None => ptr'[c][m] = None
          /\ <<c, m>> \in touched' => ptr[c][m] = None
    BY <1>2, <2>3, <2>4 DEF Sets, Touches, Unread
  <2> QED
    BY <1>2, <1>3, <1>5, <2>3, <2>5 DEF Sets, Touches, Has
<1>6. CASE UNCHANGED vars /\ Advance
  BY <1>2, <1>3, <1>6 DEF vars, Unread, Has
<1>7. CASE UNCHANGED vars /\ Exit
  BY <1>1, <1>7, FailedCall
<1>8. CASE call.op = "init" /\ InitCall(call.b)
  <2>1. CASE InitOk(call.b) /\ Advance
    <3>1. Initialises(call.b)
      BY <1>1, <2>1, InitEffect DEF Known
    <3>2. \A c \in Block, m \in Name : cfg'[c][m] # None => cfg'[c][m] = <<c, m>>
      BY <1>1, <1>2, <3>1, AddedOwn DEF Initialises, Has
    <3>3. \A m \in Name : m \in Static(call.b) => m \notin Dynamic
      BY DEF Static
    <3>4. \A c \in Block, m \in Name :
            /\ ptr'[c][m] # None =>
                 ptr[c][m] # None \/ (call.b = c /\ m \notin Dynamic)
            /\ <<c, m>> \in touched' => ptr'[c][m] = None
      BY <1>2, <3>1, <3>3 DEF Initialises, Caches, Unread
    <3> QED
      BY <1>2, <1>3, <1>8, <2>1, <3>1, <3>2, <3>4 DEF Initialises
  <2>2. CASE (InitRefused(call.b) \/ InitFails(call.b)) /\ Exit
    BY <1>1, <2>2, FailedCall
  <2> QED
    BY <1>8, <2>1, <2>2 DEF InitCall
<1>9. CASE call.op = "start" /\ StartCall(call.b)
  <2>1. CASE Start(call.b) /\ Advance
    <3>1. Starts(call.b)
      BY <1>1, <2>1, StartEffect DEF Known
    <3>2. \A c \in Block, m \in Name :
            /\ ptr'[c][m] # None => ptr[c][m] # None \/ call.b = c
            /\ <<c, m>> \in touched' => ptr'[c][m] = None
      BY <1>2, <3>1 DEF Starts, Caches, Unread
    <3> QED
      BY <1>2, <1>3, <1>9, <2>1, <3>1, <3>2 DEF Starts, Has
  <2>2. CASE UNCHANGED vars /\ Exit
    BY <1>1, <2>2, FailedCall
  <2> QED
    BY <1>9, <2>1, <2>2 DEF StartCall
<1> QED
  BY <1>4, <1>5, <1>6, <1>7, <1>8, <1>9 DEF Main, call

\* A node that is up, taken down, or run by a script.
LEMMA OthersKept ==
  ASSUME Known, LInv, EndMain \/ NodeRm \/ TearDown \/ Up \/ Script \/ UNCHANGED <<vars, lvars>>
  PROVE  LInv'
<1>1. CASE EndMain
  <2>1. /\ pass = "program" /\ pass' = "up" /\ settings = <<>>
        /\ UNCHANGED <<settings, at, applied, nonexist, state, cfg, data, held, ptr, touched>>
    BY <1>1 DEF EndMain, Same, vars, LInv, ByMain
  <2>2. Keys = {} /\ Keys' = {}
    BY <2>1 DEF Keys
  <2>3. LType' /\ Cached' /\ NotYet' /\ Unset' /\ ByMain' /\ Removed' /\ Value' /\ Visited'
    BY <2>1, <2>2 DEF LInv, LType, Cached, Unread, NotYet, Unset, ByMain, Removed, Value,
                      Visited, Launching
  <2> QED
    BY <2>3 DEF LInv
<1>2. CASE NodeRm
  <2>1. /\ pass = "up" /\ pass' = "rm" /\ at' = at /\ settings' = settings /\ applied' = applied
        /\ UNCHANGED <<ptr, touched>>
    BY <1>2 DEF NodeRm, Same, vars
  <2>2. \A b \in Block, n \in Name : Unread(b, n)'
    BY <2>1 DEF LInv, Cached, Unread
  <2> QED
    BY <2>1, <2>2, LeaveKept DEF LInv, LType
<1>3. CASE TearDown
  <2>1. CASE (\E b \in Block : Stop(b) \/ Cleanup(b) \/ Remove(b)) /\ UNCHANGED lvars
    <3>1. pass = "rm" /\ pass' = "rm" /\ at' = at /\ settings' = settings /\ applied' = applied
      BY <1>3, <2>1 DEF TearDown, lvars
    <3>2. \A b \in Block, n \in Name : Unread(b, n)'
      BY <2>1, <3>1, UnreadKept DEF LInv, Cached, Known, Lifecycle
    <3> QED
      BY <3>1, <3>2, LeaveKept DEF LInv, LType
  <2>2. CASE /\ \A b \in Block : state[b] = "none"
             /\ pass' = "removed" /\ UNCHANGED <<settings, at, vars>> /\ Same
    <3>1. LType' /\ Cached' /\ Removed'
      BY <1>3, <2>2 DEF TearDown, Same, vars, LInv, LType, Cached, Unread, Removed, Keys
    <3>2. NotYet' /\ Unset' /\ ByMain' /\ Value' /\ Visited'
      BY <2>2 DEF NotYet, Unset, ByMain, Value, Visited, Launching
    <3> QED
      BY <3>1, <3>2 DEF LInv
  <2> QED
    BY <1>3, <2>1, <2>2 DEF TearDown
<1>4. CASE Up
  <2>1. /\ pass = "up" /\ UNCHANGED <<pass, at, settings, applied, nonexist>> /\ at \in Nat \ {0}
    BY <1>4 DEF Up, lvars, LInv, LType
  <2>2. (\E b \in Block : Start(b) \/ Stop(b)) \/ (\E d \in NodeData : Collect(d))
    BY <1>4 DEF Up
  <2>3. \A b \in Block, n \in Name : Unread(b, n)'
    BY <2>1, <2>2, UnreadKept DEF LInv, Cached, Known, Lifecycle
  <2>4. cfg' = cfg /\ \A c \in Block, m \in Name : data'[<<c, m>>] = data[<<c, m>>]
    <3>1. CASE \E b \in Block : Start(b) \/ Stop(b)
      BY <3>1 DEF Start, Stop
    <3>2. CASE \E d \in NodeData : Collect(d)
      <4>1. PICK d \in NodeData : Collect(d)
        BY <3>2
      <4>2. \A c \in Block, m \in Name : <<c, m>> \in Data /\ <<c, m>> # d
        BY ConfigAssumption DEF ConfigAssumption, Data
      <4> QED
        BY <4>1, <4>2 DEF Collect, Known, Counted, TypeOK
    <3> QED
      BY <2>2, <3>1, <3>2
  <2> QED
    BY <2>1, <2>3, <2>4, UpKept
<1>5. CASE Script
  <2>1. pass = "script" /\ UNCHANGED <<pass, at, settings, applied, nonexist>> /\ Keys' = Keys
    BY <1>5 DEF Script, lvars, Keys
  <2>2. LType' /\ Cached' /\ NotYet' /\ Unset' /\ ByMain' /\ Removed' /\ Value' /\ Visited'
    BY <2>1 DEF LInv, LType, Cached, NotYet, Unset, ByMain, Removed, Value, Visited, Launching
  <2> QED
    BY <2>2 DEF LInv
<1>6. CASE UNCHANGED <<vars, lvars>>
  <2>1. UNCHANGED <<pass, at, settings, applied, nonexist, state, cfg, data, held, ptr, touched>>
    BY <1>6 DEF vars, lvars
  <2>2. Keys' = Keys
    BY <2>1 DEF Keys
  <2>3. LType' /\ Cached' /\ NotYet' /\ ByMain' /\ Removed' /\ Visited'
    BY <2>1, <2>2 DEF LInv, LType, Cached, Unread, Hooked, NotYet, ByMain, Has, Removed, Visited, Key
  <2>4. Unset' /\ Value'
    BY <2>1, <2>2 DEF LInv, Unset, Has, Own, Value, Valued
  <2> QED
    BY <2>3, <2>4 DEF LInv
<1> QED
  BY <1>1, <1>2, <1>3, <1>4, <1>5, <1>6

LEMMA LInvKept == ASSUME Known, LInv, [LNext]_<<vars, lvars>> PROVE LInv'
<1>1. CASE CreateBlock
  <2>1. pass = "create"
    BY <1>1 DEF CreateBlock, Working
  <2> QED
    BY <1>1, <2>1, CreatePassKept, GiveUpKept DEF CreateBlock
<1>2. CASE MakeNodeCfg
  <2>1. pass = "nodecfgs"
    BY <1>2 DEF MakeNodeCfg, Working
  <2> QED
    BY <1>2, <2>1, NodeCfgPassKept, GiveUpKept DEF MakeNodeCfg
<1> QED
  BY <1>1, <1>2, ApplyPassKept, InitPassKept, ReapplyPassKept, StartPassKept, EndPassKept,
     MainKept, OthersKept DEF LNext, Launcher

\* The blocks are where the passes want them.
LEMMA StagedKept == ASSUME Known, LInv, [LNext]_<<vars, lvars>> PROVE Staged'
<1>1. at \in Nat \ {0} /\ state \in [Block -> {"none", "preinit", "inactive", "active"}]
      /\ DOMAIN Blocks \subseteq Nat
  BY LaunchAssumption DEF LaunchAssumption, LInv, LType, Known, Counted, TypeOK
<1>2. ASSUME pass' \notin BeforeStart PROVE Staged'
  BY <1>2 DEF Staged, BeforeStart
<1>3. ASSUME pass' = pass, state' = state, at' = at \/ pass # "init" PROVE Staged'
  BY <1>3 DEF Known, Staged, BeforeStart
<1>4. CASE CreateBlock
  <2>1. CASE Exit
    BY <1>2, <1>4, <2>1 DEF CreateBlock, Working, Exit, BeforeStart
  <2>2. CASE Create(Blocks[at]) /\ Advance
    <3>1. /\ pass = "create" /\ pass' = pass /\ at \in DOMAIN Blocks
          /\ state' = [state EXCEPT ![Blocks[at]] = "preinit"]
      BY <1>4, <2>2 DEF CreateBlock, Working, Items, Create, Advance
    <3> QED
      BY <1>1, <3>1 DEF Known, Staged, BeforeStart
  <2> QED
    BY <1>4, <2>1, <2>2 DEF CreateBlock
<1>5. CASE MakeNodeCfg \/ Apply \/ Reapply
  <2>1. pass \in {"nodecfgs", "apply", "reapply"} /\ state' = state /\ (pass' = pass \/ pass' = "exit")
    <3>1. CASE MakeNodeCfg
      BY <3>1 DEF MakeNodeCfg, Working, Alloc, Advance, Exit, vars
    <3>2. CASE Apply \/ Reapply
      BY <3>2 DEF Apply, Reapply, Working, Unsettable, Absent, Configure, ConfigureLate,
                  ApplyValue, DataSet, Resize, Assign, Advance, Exit, vars
    <3> QED
      BY <1>5, <3>1, <3>2
  <2> QED
    BY <1>2, <1>3, <2>1 DEF BeforeStart
<1>6. CASE InitBlocks
  <2>1. CASE Exit
    BY <1>2, <1>6, <2>1 DEF InitBlocks, Working, Exit, BeforeStart
  <2>2. CASE InitOk(Blocks[at]) /\ Advance
    <3>1. /\ pass = "init" /\ pass' = pass /\ at \in DOMAIN Blocks /\ at' = at + 1
          /\ state' = [state EXCEPT ![Blocks[at]] = "inactive"]
      BY <1>6, <2>2 DEF InitBlocks, Working, Items, InitOk, Advance
    <3>2. ASSUME NEW b \in Block, state'[b] # "none"
          PROVE  \E i \in DOMAIN Blocks : Blocks[i] = b /\ (i < at + 1 => state'[b] = "inactive")
      <4>1. CASE b = Blocks[at]
        BY <1>1, <3>1, <4>1
      <4>2. CASE b # Blocks[at]
        <5>1. state'[b] = state[b]
          BY <1>1, <3>1, <4>2
        <5>2. PICK i \in DOMAIN Blocks : Blocks[i] = b /\ (i < at => state[b] = "inactive")
          BY <3>1, <3>2, <5>1 DEF Known, Staged
        <5>3. i \in Nat /\ i # at
          BY <1>1, <4>2, <5>2
        <5> QED
          BY <1>1, <5>1, <5>2, <5>3
      <4> QED
        BY <4>1, <4>2
    <3>3. \A b \in Block : state'[b] \in {"none", "preinit", "inactive"}
      BY <1>1, <3>1 DEF Known, Staged, BeforeStart
    <3> QED
      BY <3>1, <3>2, <3>3 DEF Staged
  <2> QED
    BY <1>6, <2>1, <2>2 DEF InitBlocks, InitCall
<1>7. CASE EndPass
  <2>1. /\ pass \in {"create", "nodecfgs", "apply", "init", "reapply", "start"}
        /\ pass' = After(pass) /\ at' = 1 /\ at \notin DOMAIN Items(pass) /\ state' = state
    BY <1>7, AfterPasses DEF EndPass, vars
  <2>2. CASE pass \in {"create", "nodecfgs"}
    BY <2>1, <2>2, AfterPasses DEF Known, Staged, BeforeStart
  <2>3. CASE pass = "apply"
    <3>1. \A i \in DOMAIN Blocks : ~(i < 1) \/ i = 0
      BY <1>1
    <3>2. 0 \notin DOMAIN Blocks
      BY LaunchAssumption DEF LaunchAssumption
    <3> QED
      BY <2>1, <2>3, <3>1, <3>2, AfterPasses DEF Known, Staged, BeforeStart
  <2>4. CASE pass = "init"
    <3>1. \A i \in DOMAIN Blocks : i < at
      <4>1. DOMAIN Blocks = 1 .. Len(Blocks) /\ Len(Blocks) \in Nat /\ at \notin DOMAIN Blocks
        BY <2>1, <2>4, LaunchAssumption DEF LaunchAssumption, Items
      <4> QED
        BY <1>1, <4>1
    <3> QED
      BY <2>1, <2>4, <3>1, AfterPasses DEF Known, Staged, BeforeStart
  <2>5. CASE pass \in {"reapply", "start"}
    BY <1>2, <2>1, <2>5, AfterPasses DEF BeforeStart
  <2> QED
    BY <2>1, <2>2, <2>3, <2>4, <2>5
<1>8. CASE StartBlocks \/ Main \/ EndMain \/ NodeRm \/ TearDown \/ Up \/ Script
  <2>1. pass' \notin BeforeStart
    <3>1. CASE StartBlocks \/ Main
      BY <3>1 DEF StartBlocks, StartCall, Main, InitCall, Working, Advance, Exit, BeforeStart
    <3>2. CASE EndMain \/ NodeRm \/ TearDown \/ Up \/ Script
      BY <3>2 DEF EndMain, NodeRm, TearDown, Up, Script, lvars, BeforeStart
    <3> QED
      BY <1>8, <3>1, <3>2
  <2> QED
    BY <1>2, <2>1
<1>9. CASE UNCHANGED <<vars, lvars>>
  BY <1>3, <1>9 DEF vars, lvars
<1> QED
  BY <1>4, <1>5, <1>6, <1>7, <1>8, <1>9 DEF LNext, Launcher

\* Everything that is known of the configs of a node, whoever launches it.
THEOREM LaunchInvariant == LSpec => [](IInv /\ Known /\ LInv)
<1>1. Init => IInv /\ Present
  <2>1. Init => Present
    BY DEF Init, Present, Has
  <2> QED
    BY <2>1, InitIInv
<1>2. IInv /\ Present /\ [Next]_vars => (IInv /\ Present)'
  BY NextIInv, PresentKept DEF IInv
<1>3. Spec => [](IInv /\ Present)
  BY <1>1, <1>2, PTL DEF Spec
<1>4. LInit => LInv /\ Composed /\ Staged
  BY LInvInit DEF LInit, Init, Composed, Staged, BeforeStart
<1>5. IInv /\ Present /\ Composed /\ Staged /\ LInv /\ [LNext]_<<vars, lvars>> =>
        LInv' /\ Composed' /\ Staged'
  BY LInvKept, ComposedKept, StagedKept DEF IInv, Known
<1>6. IInv /\ Present /\ Composed /\ Staged => Known
  BY DEF IInv, Known
<1> QED
  BY <1>3, <1>4, <1>5, <1>6, LaunchImplementsConfig, PTL DEF LSpec

\* typemacros.h and blockdiagram.lua: no pointer that a hook has cached is
\* invalidated by the launcher, whatever the composition shares and overrides, or
\* by a main that sets every config before the hook that reads it.
THEOREM LaunchedPointersCurrentHolds == LSpec => []LaunchedPointersCurrent
<1>1. IInv /\ LInv => LaunchedPointersCurrent
  BY ConfigAssumption
     DEF ConfigAssumption, IInv, PointersCurrent, LInv, Cached, Unread, LaunchedPointersCurrent
<1> QED
  BY <1>1, LaunchInvariant, PTL

\* blockdiagram.lua, "NCs defined higher in the composition tree override lower
\* ones": in a launched node every config that some system sets has the value of
\* the highest system that sets it, whether the config is there from the start or
\* added by an init hook.
THEOREM HighestWinsHolds == LSpec => []HighestWins
<1>1. Known /\ LInv => HighestWins
  <2> SUFFICES ASSUME Known, LInv, pass = "up", NEW i \in DOMAIN settings
               PROVE  LET k == Key(settings[i])
                          s == settings[applied[k]]
                      IN /\ applied[k] \in 1 .. i /\ Key(s) = k
                         /\ IF s.d = None THEN data[cfg[s.b][s.n]].len = s.len
                            ELSE cfg[s.b][s.n] = s.d
    BY DEF HighestWins
  <2>1. PICK b \in Block, n \in Name :
          /\ settings[i].b = b /\ settings[i].n = n
          /\ Key(settings[i]) = <<b, n>> /\ <<b, n>> \in Keys
    BY ItemFacts DEF Known
  <2>2. PICK j : j = applied[<<b, n>>]
    OBVIOUS
  <2>3. j # 0 /\ j \in Nat /\ i \in Nat
    BY <2>1, <2>2, ItemFacts DEF LInv, Visited, LType, Known
  <2>4. Valued(b, n, j)
    BY <2>1, <2>2, <2>3 DEF LInv, Value, Launching
  <2>5. j \in 1 .. i
    BY <2>1, <2>3, <2>4 DEF Valued
  <2>6. Key(settings[j]) = <<b, n>>
    BY <2>4 DEF Valued, Key
  <2>7. IF settings[j].d = None THEN data[cfg[b][n]].len = settings[j].len
        ELSE cfg[b][n] = settings[j].d
    BY <2>4 DEF Valued, Own
  <2> QED
    BY <2>1, <2>2, <2>4, <2>5, <2>6, <2>7 DEF Valued
<1> QED
  BY <1>1, LaunchInvariant, PTL

\* ubx_node_rm at the end of main: when it is done, no data of any config is left
\* that no script holds, whether the blocks were all started or an init hook failed.
THEOREM NothingLeftHolds == LSpec => []NothingLeft
<1>1. Known /\ LInv => NothingLeft
  <2> SUFFICES ASSUME Known, LInv, pass = "removed", NEW d \in Data, d \notin held
               PROVE  data[d] = Free
    BY DEF NothingLeft
  <2>1. \A b \in Block, n \in Name : cfg[b][n] = None
    BY DEF LInv, Removed, Known, Counted, OwnersKnown
  <2>2. Owners(d) = {}
    BY <2>1, ConfigAssumption DEF ConfigAssumption, Owners
  <2>3. Cardinality(Owners(d)) = 0
    BY <2>2, FS_EmptySet
  <2>4. data[d].refs = -1
    BY <2>3 DEF Known, Counted, RefsExact, Holders
  <2> QED
    BY <2>4 DEF Known, Counted, FreeOnly
<1> QED
  BY <1>1, LaunchInvariant, PTL
-----------------------------------------------------------------------------
(* The limits of configs.                                                   *)

\* A config whose data stays and that is not touched keeps its length.
LEMMA LengthKept ==
  ASSUME Counted, Counted', Next, NEW c \in Block, NEW m \in Name,
         Has(c, m), cfg'[c][m] = cfg[c][m], <<c, m>> \notin touched'
  PROVE  data'[cfg[c][m]].len = data[cfg[c][m]].len
<1> USE ConfigAssumption
<1> DEFINE d == cfg[c][m]
<1>1. /\ d \in Data /\ d \in NodeData \cup {<<c, m>>} /\ <<c, m>> \in Owners(d)
      /\ data[d] \in DataRecord /\ data'[d] # Free
  <2>1. d \in Data /\ d \in NodeData \cup {<<c, m>>} /\ <<c, m>> \in Owners(d)
    BY DEF Has, Counted, TypeOK, OwnersKnown, Owners
  <2> QED
    BY <2>1, FreedUnowned DEF Counted, TypeOK
<1>2. data[d].refs >= 0
  <2>1. Cardinality(Owners(d)) \in Nat \ {0}
    BY <1>1, OwnersFinite, FS_EmptySet
  <2> QED
    BY <1>1, <2>1 DEF Counted, RefsExact, Holders
<1>3. \A k \in Nat : DataFree(d, k) # Free => DataFree(d, k).len = data[d].len
  BY <1>1 DEF DataFree, DataRecord
<1> HIDE DEF d
<1>4. ASSUME NEW b \in Block, NEW S \in SUBSET Name, AddConfigs(b, S),
             \A n \in S : ~Has(b, n)
      PROVE  data'[d].len = data[d].len
  <2>1. d \notin {b} \X S
    BY <1>1, <1>4 DEF d, Has, ConfigAssumption
  <2> QED
    BY <1>1, <1>4, <2>1 DEF AddConfigs
<1>5. ASSUME NEW b \in Block, NEW S, data' = Released(b, S)
      PROVE  data'[d].len = data[d].len
  <2> DEFINE k == References(b, S, d)
  <2>1. k \in Nat
    <3>1. (Owners(d) \cap ({b} \X S)) \in SUBSET Owners(d)
      OBVIOUS
    <3> QED
      BY <3>1, OwnersFinite, FS_Subset, FS_CardinalityType DEF References
  <2>2. data'[d] = data[d] \/ data'[d] = DataFree(d, k)
    BY <1>1, <1>5 DEF Released
  <2> HIDE DEF k
  <2> QED
    BY <1>1, <1>3, <2>1, <2>2
<1>6. ASSUME NEW b \in Block,
             \/ Create(b) \/ Remove(b) \/ InitRefused(b) \/ InitFails(b)
             \/ InitOk(b) \/ Start(b) \/ Stop(b) \/ Cleanup(b)
      PROVE  data'[d].len = data[d].len
  <2>1. Static(b) \in SUBSET Name /\ Added(b) \in SUBSET Name
    BY DEF Static, Added, ConfigAssumption
  <2>2. CASE Create(b)
    <3>1. \A n \in Static(b) : ~Has(b, n)
      BY <2>1, <2>2 DEF Create, Has, Counted, OwnersKnown
    <3> QED
      BY <1>4, <2>1, <2>2, <3>1 DEF Create
  <2>3. CASE InitFails(b) \/ InitOk(b)
    <3>1. data' = data \/ (CanAdd(b) /\ AddConfigs(b, Added(b)))
      BY <2>3 DEF InitFails, InitOk
    <3> QED
      BY <1>4, <2>1, <3>1 DEF CanAdd
  <2>4. CASE Remove(b) \/ Cleanup(b)
    BY <1>5, <2>4 DEF Remove, Cleanup
  <2>5. CASE InitRefused(b) \/ Start(b) \/ Stop(b)
    BY <2>5 DEF InitRefused, Start, Stop
  <2> QED
    BY <1>6, <2>2, <2>3, <2>4, <2>5
<1>7. ASSUME NEW e \in NodeData, Collect(e) PROVE data'[d].len = data[d].len
  <2>1. data'[d] = IF d = e THEN DataFree(d, 1) ELSE data[d]
    BY <1>1, <1>7 DEF Collect, Counted, TypeOK
  <2> QED
    BY <1>1, <1>3, <2>1
<1>8. ASSUME NEW e \in NodeData, NEW len \in Nat, Alloc(e, len)
      PROVE  data'[d].len = data[d].len
  <2>1. d # e
    BY <1>2, <1>8 DEF Alloc, Free
  <2> QED
    BY <1>1, <1>8, <2>1 DEF Alloc, Counted, TypeOK
<1>9. ASSUME NEW e \in Data, NEW len \in Nat, Resize(e, len)
      PROVE  data'[d].len = data[d].len
  <2>1. d # e
    BY <1>1, <1>9 DEF Resize
  <2> QED
    BY <1>1, <1>9, <2>1 DEF Resize, Counted, TypeOK
<1>10. ASSUME NEW b \in Block, NEW n \in Name, NEW e \in NodeData, Assign(b, n, e)
       PROVE  data'[d].len = data[d].len
  <2> DEFINE old == cfg[b][n]
             left == [data EXCEPT ![old] = DataFree(old, 1)]
  <2>1. old \in Data /\ e \in Data
    BY <1>10 DEF Assign, Has, Counted, TypeOK, Data
  <2>2. left[d] = IF d = old THEN DataFree(d, 1) ELSE data[d]
    BY <1>1 DEF Counted, TypeOK
  <2>3. data' = [left EXCEPT ![e].refs = @ + 1] /\ DOMAIN left = Data
    BY <1>10 DEF Assign, Counted, TypeOK
  <2> HIDE DEF left
  <2>4. data'[d] = IF d = e THEN [left[d] EXCEPT !.refs = @ + 1] ELSE left[d]
    BY <1>1, <2>3
  <2>5. CASE d = old /\ d = e
    <3>1. data[d].refs >= 1
      <4>1. e \in held
        BY <1>10 DEF Assign
      <4>2. Cardinality(Owners(d)) \in Nat \ {0}
        BY <1>1, OwnersFinite, FS_EmptySet
      <4> QED
        BY <1>1, <2>5, <4>1, <4>2 DEF Counted, RefsExact, Holders
    <3>2. DataFree(d, 1) = [data[d] EXCEPT !.refs = @ - 1]
      BY <1>1, <3>1 DEF DataFree, DataRecord
    <3> QED
      BY <1>1, <2>2, <2>4, <2>5, <3>2 DEF DataRecord
  <2>6. CASE d = old /\ d # e
    <3>1. data'[d] = DataFree(d, 1)
      BY <2>2, <2>4, <2>6
    <3> QED
      BY <1>1, <1>3, <3>1
  <2>7. CASE d # old
    <3>1. left[d] = data[d]
      BY <2>2, <2>7
    <3> QED
      BY <1>1, <2>4, <3>1 DEF DataRecord
  <2> QED
    BY <2>5, <2>6, <2>7
<1>11. TypeOK
  BY DEF Counted
<1> QED
  BY <1>6, <1>7, <1>8, <1>9, <1>10, <1>11, CasesOfNext DEF d

\* The configs that LimitsKept is about.
Guarded(b, n) ==
  /\ Has(b, n) /\ <<b, n>> \notin touched
  /\ \/ state[b] \in {"inactive", "active"} /\ n \notin Late \cup Dynamic
     \/ state[b] = "active" /\ n \in Late \cap Dynamic

\* A config that is guarded after a step had the same data before and was in its
\* limits: it was guarded, or init or start has just checked it.
LEMMA WasInLimits ==
  ASSUME Counted, LimitsKept, Next, NEW c \in Block, NEW m \in Name \ {Loglevel},
         Guarded(c, m)'
  PROVE  Has(c, m) /\ cfg'[c][m] = cfg[c][m] /\ InLimits(c, m)
<1> USE ConfigAssumption
<1> DEFINE Goal == Has(c, m) /\ cfg'[c][m] = cfg[c][m] /\ InLimits(c, m)
<1>1. /\ cfg'[c][m] # None /\ <<c, m>> \notin touched'
      /\ \/ state'[c] \in {"inactive", "active"} /\ m \notin Late \cup Dynamic
         \/ state'[c] = "active" /\ m \in Late \cap Dynamic
  BY DEF Guarded, Has
<1>2. ASSUME state'[c] = state[c], cfg'[c][m] = cfg[c][m], <<c, m>> \notin touched
      PROVE  Goal
  BY <1>1, <1>2 DEF LimitsKept, Has
<1>3. ASSUME NEW b \in Block, Create(b) \/ Remove(b) \/ InitFails(b) \/ Cleanup(b)
      PROVE  Goal
  <2>1. state'[b] \in {"none", "preinit"} /\ \A x \in Block : x # b => state'[x] = state[x]
    BY <1>3 DEF Create, Remove, InitFails, Cleanup, Counted, TypeOK
  <2>2. c # b
    BY <1>1, <2>1
  <2>3. cfg'[c][m] = cfg[c][m]
    BY <1>3, <2>2 DEF Create, Remove, InitFails, Cleanup, AddConfigs, Counted, TypeOK
  <2>4. <<c, m>> \in touched => <<c, m>> \in touched'
    BY <1>3, <2>2 DEF Create, Remove, InitFails, Cleanup, Relookup
  <2> QED
    BY <1>1, <1>2, <2>1, <2>2, <2>3, <2>4
<1>4. ASSUME NEW b \in Block, InitRefused(b) PROVE Goal
  BY <1>1, <1>2, <1>4 DEF InitRefused, Relookup
<1>5. ASSUME NEW b \in Block, InitOk(b) PROVE Goal
  <2>1. CASE c # b
    <3>1. state'[c] = state[c] /\ cfg'[c][m] = cfg[c][m] /\ <<c, m>> \notin touched
      BY <1>1, <1>5, <2>1 DEF InitOk, AddConfigs, Counted, TypeOK
    <3> QED
      BY <1>2, <3>1
  <2>2. CASE c = b
    <3>1. state'[c] = "inactive"
      BY <1>5, <2>2 DEF InitOk, Counted, TypeOK
    <3>2. m \notin Late /\ m \notin Dynamic
      BY <1>1, <3>1
    <3>3. cfg'[c][m] = cfg[c][m]
      BY <1>5, <2>2, <3>2 DEF InitOk, AddConfigs, Added, Counted, TypeOK
    <3>4. InLimits(c, m)
      BY <1>1, <1>5, <2>2, <3>2, <3>3 DEF InitOk, CheckMinMax, Has
    <3> QED
      BY <1>1, <3>3, <3>4 DEF Has
  <2> QED
    BY <2>1, <2>2
<1>6. ASSUME NEW b \in Block, Start(b) PROVE Goal
  <2>1. cfg' = cfg /\ \A x \in Block : x # b => state'[x] = state[x]
    BY <1>6 DEF Start, Counted, TypeOK
  <2>2. CASE c = b /\ m \in Late
    BY <1>1, <1>6, <2>1, <2>2 DEF Start, CheckMinMax, Has
  <2>3. CASE c = b /\ m \notin Late
    <3>1. m \notin Dynamic /\ state[c] = "inactive"
      BY <1>1, <1>6, <2>3 DEF Start
    <3>2. <<c, m>> \notin touched
      BY <1>1, <1>6, <3>1 DEF Start, Added
    <3> QED
      BY <1>1, <2>1, <2>3, <3>1, <3>2 DEF LimitsKept, Has
  <2>4. CASE c # b
    <3>1. <<c, m>> \notin touched
      BY <1>1, <1>6, <2>4 DEF Start
    <3> QED
      BY <1>2, <2>1, <2>4, <3>1
  <2> QED
    BY <2>2, <2>3, <2>4
<1>7. ASSUME NEW b \in Block, Stop(b) PROVE Goal
  <2>1. cfg' = cfg /\ touched' = touched
    BY <1>7 DEF Stop
  <2>2. CASE c = b
    <3>1. state[c] = "active" /\ state'[c] = "inactive"
      BY <1>7, <2>2 DEF Stop, Counted, TypeOK
    <3> QED
      BY <1>1, <2>1, <3>1 DEF LimitsKept, Has
  <2>3. CASE c # b
    <3>1. state'[c] = state[c]
      BY <1>7, <2>3 DEF Stop, Counted, TypeOK
    <3> QED
      BY <1>1, <1>2, <2>1, <3>1
  <2> QED
    BY <2>2, <2>3
<1>8. ASSUME \/ \E d \in NodeData : Collect(d) \/ \E len \in Nat : Alloc(d, len)
             \/ \E d \in Data, len \in Nat : InUse(d) /\ Resize(d, len)
      PROVE  Goal
  <2>1. state' = state /\ cfg' = cfg /\ touched \subseteq touched'
    BY <1>8 DEF Collect, Alloc, Resize
  <2> QED
    BY <1>1, <1>2, <2>1
<1>9. ASSUME NEW b \in Block, NEW n \in Name, NEW d \in NodeData, Assign(b, n, d) PROVE Goal
  <2>1. state' = state /\ touched' = touched \cup {<<b, n>>}
    BY <1>9 DEF Assign
  <2>2. c # b \/ m # n
    BY <1>1, <2>1
  <2>3. cfg'[c][m] = cfg[c][m]
    BY <1>9, <2>2 DEF Assign, Counted, TypeOK
  <2> QED
    BY <1>1, <1>2, <2>1, <2>3
<1>10. TypeOK
  BY DEF Counted
<1> HIDE DEF Goal
<1>11. Goal
  BY <1>3, <1>4, <1>5, <1>6, <1>7, <1>8, <1>9, <1>10, CasesOfNext
<1> QED
  BY <1>11 DEF Goal

LEMMA LimitsNext == ASSUME IInv, LimitsKept, [Next]_vars PROVE LimitsKept'
<1>1. CASE UNCHANGED vars
  BY <1>1 DEF vars, LimitsKept, Has, InLimits
<1>2. CASE Next
  <2>1. Counted /\ Counted'
    BY NextIInv DEF IInv
  <2>2. ASSUME NEW c \in Block, NEW m \in Name \ {Loglevel}, Guarded(c, m)'
        PROVE  InLimits(c, m)'
    <3>1. Has(c, m) /\ cfg'[c][m] = cfg[c][m] /\ InLimits(c, m)
      BY <1>2, <2>1, <2>2, WasInLimits
    <3>2. <<c, m>> \notin touched'
      BY <2>2 DEF Guarded
    <3>3. data'[cfg[c][m]].len = data[cfg[c][m]].len
      BY <1>2, <2>1, <3>1, <3>2, LengthKept
    <3> QED
      BY <3>1, <3>3 DEF InLimits
  <2> QED
    BY <2>2 DEF LimitsKept, Guarded
<1> QED
  BY <1>1, <1>2

\* What ubx_block_init and ubx_block_start have checked stays true unless somebody
\* sets or assigns the value afterwards, through this config or through one that
\* shares its data: no removal, no cleanup, no failed init of another block and no
\* garbage collection changes the length of a value that a block relies on.
THEOREM LimitsKeptHolds == Spec => []LimitsKept
<1>1. Init => LimitsKept
  BY DEF Init, LimitsKept, Has
<1>2. Init => IInv
  BY InitIInv
<1>3. IInv /\ [Next]_vars => IInv'
  BY NextIInv
<1>4. IInv /\ LimitsKept /\ [Next]_vars => LimitsKept'
  BY LimitsNext
<1> QED
  BY <1>1, <1>2, <1>3, <1>4, PTL DEF Spec

=============================================================================
