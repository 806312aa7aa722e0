\* Streams of four events.
SPECIFICATION Spec
CONSTANTS
  TextTypes = {"output_text"}
  ReasoningTypes = {"reasoning"}
  ToolTypes = {"arguments"}
  OtherTypes = {"completed"}
  Items = {"i1", "i2"}
  CallIds = {"c1", "c2"}
  None = None
  Events <- MCEvents
  MaxEvents = 4
INVARIANTS ResumeExact LogprobsFollowText MetadataPreserved
PROPERTY ImplementsStream
