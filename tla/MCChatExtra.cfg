\* Unknown root fields.
SPECIFICATION Spec
CONSTANTS
  ChoiceIndices = {0, 1}
  Roles = {"assistant", "tool"}
  Fields = {"reasoning"}
  ToolIndices = {0, 1}
  ToolIds = {"a", "b", "c"}
  None = None
  Chunks <- MCExtraChunks
  MaxChunks = 2
INVARIANT NoConcurrentMapAccess
