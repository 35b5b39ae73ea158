\* Restarts of a warp that waits at a barrier.
CONSTANTS
  NumWarps = 2
  MaxId = 8
  Programs <- WaitSet
  Lanes = {0, 1}
  IBufSize = 2
  Limit = 2
  Banks = 2
  MulDepth = 2
  DivLatency = 2
  CsrLatency = 1
  FpuDepth = 2
  RequestSize = 2
  LoadTags = 2
  FpuTags = 1
  RestartWaiting = TRUE
SPECIFICATION Spec
INVARIANT RestartKeepsContext
