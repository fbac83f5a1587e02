SPECIFICATION MCSpec
CONSTANTS
  MaxMessages = 1
  MaxBytes = 100
  FrameSizes = {1}
  Events = {"output", "reserved"}
  MaxResponses = 2
  MaxChannels = 3
  NInvokes = 0
  Invokes = {}
  Mutations = {}
  ServedProtocols <- SameProtocol
  ClientProtocol = 1
  MaxEpoch = 2
  Foreground = {1}
  MaxTries = 1
  MaxSeq = 2
  Faults = {"cut", "crash", "encode"}
  Traffic = {"session"}
INVARIANTS
  TypeOK
  LossIsLoud
CHECK_DEADLOCK FALSE
