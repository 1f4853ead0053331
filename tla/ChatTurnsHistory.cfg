SPECIFICATION Spec
CONSTANTS
  r1 = r1
  r2 = r2
  openai = openai
  ollama = ollama
  NoModel = NoModel
  Requests <- TwoRequests
  Models <- OneModel
  Wired <- WiredAdapter
  Preserves <- KeepUpToOne
  MaxRows = 3
  MaxDeltas = 1
  MaxSummaries = 2
SYMMETRY RequestSymmetry
CONSTRAINT LongIsCalm
INVARIANTS
  TypeOK
  HistoryCovered
PROPERTIES
  IsTranscript
