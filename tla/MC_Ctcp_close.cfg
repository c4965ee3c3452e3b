\* A sends a two-byte chunk, a truncated read and EOF; B closes when A's FIN
\* comes.  The carrier loses datagrams, B's stdout may take a write in
\* parts, and the build keeps the empty while loops.
CONSTANTS
  Engines <- MCEngines
  Input <- MCInputCloseWide
  MaxSegData = 2
  SendWindow = 2
  RecvWindow = 2
  RtTimeout = 200
  TimerPeriod = 200
  SinkCap = 2
  Faults = {"loss", "shortwrite"}
  BusyWait = {"spin"}
  MaxTimeouts = 6
  ChannelCap = 2
  LossTo <- MCEngines
SPECIFICATION Spec
INVARIANTS
  SendQueueAccounting
  RecvQueueAccounting
  RetransmitArmed
