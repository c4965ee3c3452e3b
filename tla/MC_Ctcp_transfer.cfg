\* A streams two one-byte chunks to B over a carrier that loses, duplicates,
\* reorders and corrupts datagrams; neither side reaches EOF.
CONSTANTS
  Engines <- MCEngines
  Input <- MCInputOpen
  MaxSegData = 2
  SendWindow = 2
  RecvWindow = 2
  RtTimeout = 200
  TimerPeriod = 100
  SinkCap = 2
  Faults = {"loss", "dup", "reorder", "corrupt"}
  BusyWait = {"spin", "elided"}
  MaxTimeouts = 1
  ChannelCap = 2
  LossTo <- MCEngines
SPECIFICATION Spec
INVARIANTS
  TypeOK
  SendQueueAccounting
  RecvQueueAccounting
  RetransmitArmed
