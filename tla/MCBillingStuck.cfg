CONSTANTS
  s1 = s1  f1 = f1  o1 = o1  o2 = o2  a1 = a1
  p1 = p1  p2 = p2  c1 = c1  c2 = c2
  Students = {s1}
  Offers = {f1}
  Orders = {o1}
  Targets <- PlatformOnly
  Platform = "platform"
  CourseOf <- PlatformCourseOf
  OfferTarget <- PlatformOffer
  Prices = {1}
  AdminRefs = {a1}
  PaymentIds = {p1}
  NoOrder = NoOrder
  Callers = {c1}
  NoPayment = NoPayment
SPECIFICATION MCFairSpec
PROPERTIES ConfirmedIsAlwaysSettled
CHECK_DEADLOCK FALSE
