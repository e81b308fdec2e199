CONSTANTS
  s1 = s1  f1 = f1  o1 = o1  o2 = o2  a1 = a1  a2 = a2
  l1 = l1  l2 = l2  Loads = {l1, l2}
  platform = platform  algebra = algebra
  Students = {s1}
  Offers = {f1}
  Orders = {o1, o2}
  Targets <- MCTargets
  Platform = platform
  CourseOf <- MCCourseOf
  OfferTarget <- MCOfferTarget
  Prices = {1, 2}
  FreeCounts <- MCFreeCounts
  AdminRefs = {a1, a2}
  PaymentIds = {}
  NoOrder = NoOrder
  NoRows = NoRows  Loading = Loading
SPECIFICATION CounterSpec
SYMMETRY Symmetry
CONSTRAINT OneTabAtATime
CHECK_DEADLOCK FALSE
INVARIANTS
  NoDoubleUse
  DialogTellsTheOrder
  AnswersAreTrue
PROPERTY
  SalesAreFinal
