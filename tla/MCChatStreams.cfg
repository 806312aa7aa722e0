\* Streams of three chunks.
SPECIFICATION Spec
CONSTANTS
  ChoiceIndices = {0, 1}
  Roles = {"assistant", "tool"}
  Fields = {"reasoning"}
  ToolIndices = {0, 1}
  ToolIds = {"a", "b", "c"}
  None = None
  Chunks <- MCChunks
  MaxChunks = 3
INVARIANTS RolesExact CausalOrder ToolCallsIsolated
