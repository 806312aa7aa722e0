\* Two responses that pass encoders on.
SPECIFICATION Spec
CONSTANTS
  r1 = r1
  r2 = r2
  Responses <- MCResponses
  Requests <- MCRequests
  Answers <- MCAnswers
  EncoderIds <- MCEncoderIds
  MaxWrites = 2
  None = None
INVARIANTS OwnBytesOnly FlushedIsSeen CompleteAtEnd
  HeaderNamesCoding BytesReportedOnce
