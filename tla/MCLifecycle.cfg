\* Bootstrap, connections and up to two signals.
SPECIFICATION FairSpec
CONSTANTS
  k1 = k1
  k2 = k2
  Sockets <- MCSockets
  HandlerTime = 3
  KeepAlive = 4
  DrainWait = 4
  ForceAfter = 8
  MaxSignals = 2
INVARIANTS
  EndsInTime
  NoHandlerCutOff
  ForcedOnlyWhenLate
PROPERTIES
  SignalledEnds
CHECK_DEADLOCK FALSE
