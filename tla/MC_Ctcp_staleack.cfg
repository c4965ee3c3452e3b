\* A perfect carrier; B sends a chunk, A reads EOF; the build keeps the loops.
CONSTANTS
  Engines <- MCEngines
  Input <- MCInputPassive
  MaxSegData = 2
  SendWindow = 2
  RecvWindow = 2
  RtTimeout = 200
  TimerPeriod = 200
  SinkCap = 2
  Faults = {}
  BusyWait = {"spin"}
  MaxTimeouts = 3
  ChannelCap = 3
  LossTo <- MCEngines
SPECIFICATION Spec
INVARIANT PassiveCloseConfirmed
