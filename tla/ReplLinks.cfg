SPECIFICATION Spec
CONSTANTS
  dial = dial
  accept = accept
  peer = peer
  advertised = advertised
  configured = configured
  NoID = NoID
  Links = {dial, accept}
  Nodes = {peer}
  Addrs = {advertised, configured}
  remoteNode <- MCNode
  remoteID <- MCNode
  addr <- MCAddr
  inbound <- MCInbound
  Writers = {w1, w2}
  QueueDepth = 1
  MaxSeq = 2
SYMMETRY MCWriters
INVARIANTS TypeOK OneLinkPerNode CacheFresh ReplicateNeverBlocks
\* Every link may have closed and every event been sent.
CHECK_DEADLOCK FALSE
