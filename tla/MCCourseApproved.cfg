CONSTANTS
  taught = taught  other = other  platform = platform  m1 = m1  m2 = m2  e1 = e1  e2 = e2
  pA = pA  pB = pB  q1 = q1  q2 = q2  r1 = r1  r2 = r2  l1 = l1  s1 = s1
  Courses <- MCCourses
  TeacherCourses <- MCTaught
  ModuleIds <- MCModuleIds
  LessonIds <- MCLessonIds
  Contents <- StoredOutlines
  Empty <- NoModules
  Publishable <- MCPublishable
  Requests <- MCRequests
  Reviews <- MCReviews
  Pages <- MCPages
  NoLesson = NoLesson  NoFetch = NoFetch  Nobody = Nobody
  MaxVersion = 3
  MaxRevisions = 2
  Links = {l1}
  Students = {s1}
SPECIFICATION Spec
SYMMETRY Symmetry
CONSTRAINT OneCaseAtATime
CHECK_DEADLOCK FALSE
INVARIANTS
  ApprovedAsSubmitted
