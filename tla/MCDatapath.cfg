SPECIFICATION Spec
CONSTANTS
  f1 = f1
  f2 = f2
  Flow = {f1, f2}
  BackendId = {0, 1}
  MaxFlows = 1
  Timeout <- MCTimeout
  MaxNow = 2
  MaglevTable <- MCTable
  NoView = NoView
  NoPacket = NoPacket
  Frame <- MCFrame
  Outer <- MCOuter
  MaxPackets = 2
INVARIANTS GaugeIsExact Conservation DrainDropsNothing FramesStayInBuffer OuterHeaderVerifies
PROPERTIES DrainedTakesNoFlows FlowsKeepBackend
