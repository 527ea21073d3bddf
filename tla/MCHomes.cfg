SPECIFICATION Spec
CONSTANTS
  bob = bob
  bobby = bobby
  User = {bob, bobby}
  Session = {s1, s2}
  SameStart <- MCSameStart
  Kind <- MCKind
  Strategy <- MCStrategy
  MaxBoots = 3
INVARIANTS TypeOK SessionsHaveHomes LinksResolve
PROPERTIES CleanedBeforeUse ImagesKeepData
SYMMETRY Sessions
CHECK_DEADLOCK FALSE
