SPECIFICATION FairSpec
CONSTANTS
  Clients = {c1, c2}
  TicksCap = 1
  BroadcastCap = 1
  SendCap = 1
  MaxTicks = 3
INVARIANTS TypeOK ChannelOpen DrainReady NoGaps
PROPERTIES DeadClientLeaves Delivered
CHECK_DEADLOCK FALSE
