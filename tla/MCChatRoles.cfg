\* A role that comes twice.
SPECIFICATION Spec
CONSTANTS
  ChoiceIndices = {0, 1}
  Roles = {"assistant", "tool"}
  Fields = {"reasoning"}
  ToolIndices = {0, 1}
  ToolIds = {"a", "b", "c"}
  None = None
  Chunks <- MCRoleChunks
  MaxChunks = 2
INVARIANT DuplicateRoleIgnored
