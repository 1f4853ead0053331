SPECIFICATION FairSpec
CONSTANTS
  r1 = r1
  r2 = r2
  openai = openai
  ollama = ollama
  NoModel = NoModel
  Requests <- TwoRequests
  Models <- BothAdapters
  Wired <- WiredAdapter
  Preserves <- KeepNone
  MaxRows = 2
  MaxDeltas = 2
  MaxSummaries = 0
INVARIANTS
  InFlightOwned
  OutcomeStored
  ChargedAtMostOnce
PROPERTIES
  AbortEnds
  HeadersBounded
