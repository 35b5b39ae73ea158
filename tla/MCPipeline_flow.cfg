\* Two warps with programs of three or four instructions, one cancellation in some, and
\* one warp with programs of eight.
CONSTANTS
  NumWarps = 2
  MaxId = 8
  Programs <- AllSet
  Lanes = {0, 1}
  IBufSize = 2
  Limit = 2
  Banks = 2
  MulDepth = 2
  DivLatency = 2
  CsrLatency = 1
  FpuDepth = 2
  RequestSize = 2
  LoadTags = 2
  FpuTags = 1
  RestartWaiting = FALSE
SPECIFICATION FairSpec
INVARIANTS NoFault ScoreboardExact CreditsSound CountersExact ControlWaits
PROPERTY BecomesIdle
