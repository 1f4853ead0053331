SPECIFICATION Spec
CONSTANTS
  p1 = p1
  i1 = i1
  i2 = i2
  a1 = a1
  v1 = v1
  v2 = v2
  u1 = u1
  s1 = s1
  s2 = s2
  q1 = q1
  q2 = q2
  None = None
  Blank = Blank
  Providers = {p1}
  Identifiers = {i1, i2}
  Agents = {a1}
  Metas = {v1, v2}
  Urls = {u1}
  Slots = {s1, s2}
  Procs = {q1, q2}
  MaxAnswer = 2
SYMMETRY Alike
\* The ids are spent once the provider is deleted, and with a key file cut
\* short no process finds a key.
CHECK_DEADLOCK FALSE
CONSTRAINT KeysOrModels
INVARIANTS
  TypeOK
  CredentialsReadable
  CatalogueIsOneAnswer
  DiscoveryIdempotent
  ProvidersSound
PROPERTIES
  DiscoveryRespects
