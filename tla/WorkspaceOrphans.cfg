SPECIFICATION Spec
CONSTANTS
  t1 = t1
  p1 = p1
  c1 = c1
  s1 = s1
  m1 = m1
  g1 = g1
  None = None
  Agents = {1, 2, 3}
  Teams = {t1}
  Projects = {p1}
  Chats = {c1}
  Prompts = {s1}
  Memories = {m1}
  Shared = {g1}
  MaxPosition = 3
CONSTRAINT RostersOrRows
INVARIANTS
  OwnersCanGo
