\* A perfect FIFO carrier: B must write A's bytes once each, in order.
CONSTANTS
  Engines <- MCEngines
  Input <- MCInputOpen
  MaxSegData = 2
  SendWindow = 2
  RecvWindow = 2
  RtTimeout = 200
  TimerPeriod = 200
  SinkCap = 2
  Faults = {}
  BusyWait = {"spin"}
  MaxTimeouts = 3
  ChannelCap = 3
  LossTo <- MCEngines
SPECIFICATION Spec
PROPERTY StreamRefines
