\* A sends one chunk and keeps its stdin open.  The carrier loses nothing and
\* ctcp_receive is strongly fair; the timeout counter is free to wrap.
CONSTANTS
  Engines <- MCEngines
  Input <- MCInputGiveUp
  MaxSegData = 2
  SendWindow = 2
  RecvWindow = 2
  RtTimeout = 200
  TimerPeriod = 200
  SinkCap = 2
  Faults = {}
  BusyWait = {"spin"}
  MaxTimeouts = 256
  ChannelCap = 2
  LossTo <- MCEngines
SPECIFICATION FairLossSpec
PROPERTY
  SentDataAcked
