SPECIFICATION LSpec
CONSTANTS
  Block <- MCBlock
  Name <- MCName
  Configs <- MCConfigs
  Dynamic = {"value"}
  Late = {"value"}
  Min <- MCMin
  Max <- MCMax
  Loglevel = "loglevel"
  Type <- MCType
  NodeType <- MCNodeType
  NC = nc
  Other = other
  NodeData = {nc, other}
  Lens <- MCLens
  None = None
  Stale = Stale
  Clients = {"script", "blockdiagram", "program"}
  Blocks <- MCBlocks
  NodeCfgs <- MCNodeCfgs
  Compositions <- MCCompositions
  Program <- MCProgram
INVARIANTS
  RefsExact
  PointersCurrent
  LaunchedPointersCurrent
  HighestWins
  NothingLeft
PROPERTY
  LaunchEnds
CHECK_DEADLOCK FALSE
