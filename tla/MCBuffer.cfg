\* Two producers around the watermarks; every cancellation and close; a timer
\* that never has to fire.
SPECIFICATION SlowTimerSpec
CONSTANTS
  p1 = p1
  p2 = p2
  Consumer = consumer
  Producers <- MCProducers
  Fragments <- MCFragments
  Keys <- MCKeys
  Coalesceable <- MCCoalesceable
  CallIndex = {0}
  CallId = {"a", "b"}
  NoId = ""
  Overhead <- MCOverhead
  HighCfg = 3
  LowCfg = 2
  DefaultHigh = 8
  CoalesceWait = TRUE
  Errors = {"reset"}
  NoErr = NoErr
  NoSegment = NoSegment
  Shapes <- MCShapes
  MaxSegmentBytes = 2
  MaxAppends <- MCMaxAppends
INVARIANTS BytesExact ByteBound BarrierExact NoLostWakeup MaximalRuns InOrder
PROPERTIES ClosedIsFinal BarrierEndsWait CloseReleases
