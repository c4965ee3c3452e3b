\* Both stdins end, in either order, over a carrier that loses nothing and
\* keeps order; ctcp_receive is strongly fair.  MaxTimeouts 7 lets the
\* sixth timeout's give-up FIN go out.
CONSTANTS
  Engines <- MCEngines
  Input <- MCInputBothEof
  MaxSegData = 2
  SendWindow = 2
  RecvWindow = 2
  RtTimeout = 200
  TimerPeriod = 200
  SinkCap = 2
  Faults = {}
  BusyWait = {"spin"}
  MaxTimeouts = 7
  ChannelCap = 3
  LossTo <- MCEngines
SPECIFICATION FairLossSpec
PROPERTY ActiveCloseTerminates
