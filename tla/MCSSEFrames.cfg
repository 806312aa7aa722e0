\* Lines around the size of the buffer.
SPECIFICATION Spec
CONSTANTS
  BufSize = 3
  Fields = {"data", "event", "comment"}
  MaxLines = 4
  MaxLength = 3
INVARIANT FittingFramesExact
