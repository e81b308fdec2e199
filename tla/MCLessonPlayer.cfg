SPECIFICATION PlayerSpec
CONSTANTS
  lesson = lesson  choose = choose  ask = ask  explain = explain  outro = outro  end = end
  s1 = s1  s2 = s2  t1 = t1  t2 = t2
  NoTab = NoTab  NoStep = NoStep  NoKey = NoKey
  Lessons = {lesson}
  Revisions = {1}
  LessonsOf <- MCLessonsOf
  Before <- MCBefore
  Nodes = {choose, ask, explain, outro, end}
  Graph <- MCGraph
  Keys <- MCKeys
  Sessions = {s1, s2}
  MaxProgress = 1
  MaxVersion = 4
  Starts = {t1, t2}
  Tabs = {t1, t2}
CONSTRAINT FewSteps
SYMMETRY Symmetry
INVARIANTS
  OneAwardPerVisit
  PathIsWalk
  PageTrailsSession
  FeedbackIsRecorded
PROPERTIES
  ReloadResumes
