\* As the close run (A: chunk, truncated read, EOF; B passive; lossy
\* carrier), with six timeouts allowed so that ctcp_timer gives up.
CONSTANTS
  Engines <- MCEngines
  Input <- MCInputClose
  MaxSegData = 2
  SendWindow = 2
  RecvWindow = 2
  RtTimeout = 200
  TimerPeriod = 200
  SinkCap = 2
  Faults = {"loss"}
  BusyWait = {"spin"}
  MaxTimeouts = 6
  ChannelCap = 2
  LossTo <- MCEngines
SPECIFICATION Spec
INVARIANT
  OrderlyClose
