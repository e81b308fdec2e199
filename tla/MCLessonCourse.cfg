SPECIFICATION Spec
CONSTANTS
  l1 = l1
  l2 = l2
  l3 = l3
  ask = ask
  renamed = renamed
  choose = choose
  tell = tell
  end = end
  s1 = s1
  s2 = s2
  s3 = s3
  k1 = k1
  q1 = q1
  q2 = q2
  Lessons = {l1, l2, l3}
  Revisions = {1, 2}
  LessonsOf <- MCLessonsOf
  Before <- MCBefore
  Nodes = {ask, renamed, choose, tell, end}
  Graph <- MCGraph
  Keys = {k1}
  Sessions = {s1, s2, s3}
  MaxProgress = 2
  MaxVersion = 3
  Starts = {q1, q2}
CONSTRAINT WalkedOnce
SYMMETRY Symmetry
INVARIANTS
  OneOpenSession
  PrerequisitesEarned
PROPERTIES
  CompletionEarned
