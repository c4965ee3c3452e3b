\* Both stdins end: A after a chunk, B at once.  The carrier is lossy; the
\* build keeps the loops.  Simultaneous close against OrderlyClose.
CONSTANTS
  Engines <- MCEngines
  Input <- MCInputBothClose
  MaxSegData = 2
  SendWindow = 2
  RecvWindow = 2
  RtTimeout = 200
  TimerPeriod = 200
  SinkCap = 2
  Faults = {"loss"}
  BusyWait = {"spin"}
  MaxTimeouts = 3
  ChannelCap = 2
  LossTo <- MCEngines
SPECIFICATION Spec
INVARIANT
  OrderlyClose
