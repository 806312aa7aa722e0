\* Lines longer than the buffer, with other cells behind them.
SPECIFICATION Spec
CONSTANTS
  BufSize = 3
  Fields = {"data"}
  MaxLines = 2
  MaxLength = 4
INVARIANT EventsGenuine
