SPECIFICATION Spec
CONSTANTS
  w = w
  r = r
  l = l
  p = p
  q = q
  n = n
  Blocks = {w, r, l}
  Processes = {p, q}
  ProcessOf <- MCProcessOf
  mq_name <- MCName
  buffer_len <- MCBufferLen
  unlink <- MCUnlink
  NoQueue = NoQueue
  MaxQueues = 4
INVARIANTS
  SharesQueue
  NothingLeftBehind
CHECK_DEADLOCK FALSE
