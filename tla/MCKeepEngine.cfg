SPECIFICATION Spec
CONSTANTS
  Segment <- MCSegment
  Unicode <- MCUnicode
  Glob <- MCGlob
  MaxLength = 3
  Pattern <- MCPattern
  MaxRules = 3
  Trees <- MCTrees
  Dir <- MCDir
INVARIANTS TypeOK LastRuleDecides DeletedPathsAreGone
PROPERTIES KeptPathsSurvive
CHECK_DEADLOCK FALSE
