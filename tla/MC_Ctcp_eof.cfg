\* A perfect carrier, a build that removed the empty while loops.
CONSTANTS
  Engines <- MCEngines
  Input <- MCInputHello
  MaxSegData = 2
  SendWindow = 2
  RecvWindow = 2
  RtTimeout = 200
  TimerPeriod = 200
  SinkCap = 2
  Faults = {}
  BusyWait = {"elided"}
  MaxTimeouts = 3
  ChannelCap = 3
  LossTo <- MCEngines
SPECIFICATION Spec
INVARIANT EofAfterData
