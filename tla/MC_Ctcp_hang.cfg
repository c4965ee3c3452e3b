\* A perfect carrier, a build in which the empty while loops spin.
CONSTANTS
  Engines <- MCEngines
  Input <- MCInputBothClose
  MaxSegData = 2
  SendWindow = 2
  RecvWindow = 2
  RtTimeout = 200
  TimerPeriod = 200
  SinkCap = 2
  Faults = {}
  BusyWait = {"spin"}
  MaxTimeouts = 3
  ChannelCap = 3
  LossTo <- MCEngines
SPECIFICATION Spec
INVARIANT NoBusyWaitHang
