SPECIFICATION MCSpec
CONSTANTS
  None = None
  DefaultLimit = 2
  MaxLimit = 3
  MaxTag = 2
  MaxTags = 2
  j1 = j1
  j2 = j2
  User = User
  Agent = Agent
  a1 = a1
  Jobs = {j1, j2}
  Owners = {User, Agent}
  Profile = User
  Artifacts = {a1}
  Bodies <- MCBodies
  Streamed <- MCStreamed
  Buckets <- MCBuckets
  References <- MCReferences
  FileNames <- MCFileNames
  MaxBytes = 2
  MaxTime = 2
  MaxVersion = 2
  Root <- MCRoot
  Links <- MCLinks
  Elsewhere <- MCElsewhere
SYMMETRY Slots
INVARIANTS
  ReadersServed
  FilesAccounted
