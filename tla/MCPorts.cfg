SPECIFICATION FairSpec
CONSTANTS
  w1 = w1
  w2 = w2
  r = r
  c1 = c1
  c2 = c2
  m = m
  Outs = {w1, w2}
  Ins = {r}
  Cyclics = {c1, c2}
  Mqueues = {m}
  BufferLen <- MCBufferLen
  Fits <- MCFits
  MaxMsgs <- MCMaxMsgs
  Topologies <- MCTopologies
  MaxConns = 2
  MaxChanges = 1
INVARIANTS
  ElementsOwned
  OverrunsCounted
  WriteNeverWaits
PROPERTIES
  InOrder
  CallsReturn
