\* A sends one chunk and keeps its stdin open.  The carrier may lose the
\* datagrams towards A but is fair; the timeout counter is free to wrap.
CONSTANTS
  Engines <- MCEngines
  Input <- MCInputGiveUp
  MaxSegData = 2
  SendWindow = 2
  RecvWindow = 2
  RtTimeout = 200
  TimerPeriod = 200
  SinkCap = 2
  Faults = {"loss"}
  BusyWait = {"spin"}
  MaxTimeouts = 256
  ChannelCap = 1
  LossTo <- MCOnlyA
SPECIFICATION FairLossSpec
PROPERTY
  SentDataAcked
