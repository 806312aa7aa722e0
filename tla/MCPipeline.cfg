\* One session: safety, its refinement of CoalescingStream, and its end.
SPECIFICATION FairSpec
CONSTANTS
  Reader = reader
  Consumer = writer
  Producers = {reader}
  Fragments <- MCFragments
  Keys <- MCKeys
  Coalesceable <- MCCoalesceable
  CallIndex = {}
  CallId = {}
  NoId = ""
  Overhead <- MCOverhead
  HighCfg = 3
  LowCfg = 2
  DefaultHigh = 4
  CoalesceWait = TRUE
  Errors = {"canceled", "reset"}
  NoErr = "nil"
  NoSegment = NoSegment
  Events <- MCEvents
  UsageKeys = {"usage"}
  UsageTokens = 100
  MaxSegmentBytes = 2
  MaxFragments = 3
INVARIANTS NilMeansEverything ReportedTokensFinal
PROPERTIES ImplementsStream Delivers GoroutinesEnd CancelReturns EndReturns PauseEnds
