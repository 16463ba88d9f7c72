SPECIFICATION Spec
CONSTANTS
  w1 = w1
  w2 = w2
  t1 = t1
  t2 = t2
  n1 = n1
  n2 = n2
  n3 = n3
  p1 = p1
  s1 = s1
  r1 = r1
  g1 = g1
  q1 = q1
  NoTopic = NoTopic
  NoNode = NoNode
  NoTag = NoTag
  NoSession = NoSession
  Writer = {w1, w2}
  Topic = {t1, t2}
  Node = {n1, n2, n3}
  Proc = {p1}
  Session = {s1}
  Rule = {r1}
  Tag = {g1}
  Proposal = {q1}
  ProcOf <- RootItems
  InitialFiles <- Files
  Audited <- AllTags
  CallerMetadata <- CallerMaps
  CallerUpdates <- Updates
  Tasks = 2
  MaxSaves = 2
CHECK_DEADLOCK FALSE
SYMMETRY Writers
INVARIANTS TypeOK TreeWellFormed SessionsExist MetadataAgrees VersionNamesContent
PROPERTIES SavesAdvance ImplementsDocument
