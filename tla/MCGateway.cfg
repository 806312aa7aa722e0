\* Named and unnamed upstreams, with slashes in ids and with compression.
SPECIFICATION Spec
CONSTANTS
  Flags <- MCFlags
  Offers <- MCOffers
  Snapshot <- MCSnapshot
  Accepts <- MCAccepts
  Ids <- MCIds
  MaxRequests = 4
  MaxCompletions = 1
  None = None
INVARIANTS ListedIsRouted KeysStayApart
