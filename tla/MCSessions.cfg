\* Two requests, and a viewer that comes and goes.
SPECIFICATION Spec
CONSTANTS
  Requests = {r1, r2}
  Models = {m1}
  Viewers = {v1}
  NoModel = ""
  Capacity = 2
  MaxChunks = 1
  Nil = Nil
INVARIANTS NoSendOnClosed SessionsInOrder EndIsSeen
PROPERTY RequestsEnd
