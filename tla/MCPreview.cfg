SPECIFICATION PreviewSpec
CONSTANTS
  fork = fork
  ask = ask
  explain = explain
  tell = tell
  end = end
  a = a
  b = b
  v1 = v1
  v2 = v2
  v3 = v3
  t1 = t1
  t2 = t2
  t3 = t3
  alice = alice
  bob = bob
  Nodes = {fork, ask, explain, tell, end}
  Options = {a, b}
  Drafts <- MCDrafts
  Previews = {v1, v2, v3}
  Authors = {alice, bob}
  Pages = {t1, t2, t3}
  Author <- MCAuthor
  PreviewMax = 2
  MaxVersion = 5
  MaxCalls = 2
  NoOption = NoOption
  NoPage = NoPage
  NoStep = NoStep
  NoPreview = NoPreview
CONSTRAINT Worlds
SYMMETRY Symmetry
CHECK_DEADLOCK FALSE
INVARIANTS
  PreviewTypeOK
  HistoryIsWalk
  PageTrailsPreview
PROPERTIES
  OneStepPerPress
