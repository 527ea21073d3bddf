SPECIFICATION Spec
CONSTANTS
  bob = bob
  bobby = bobby
  User = {bob, bobby}
  Session = {s1, s2}
  SameStart <- MCSameStart
  Kind <- MCKind
  Strategy <- MCMove
  MaxBoots = 2
PROPERTY SavedDataSurvives
CHECK_DEADLOCK FALSE
