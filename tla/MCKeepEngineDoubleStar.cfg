SPECIFICATION Spec
CONSTANTS
  Segment <- MCSegment
  Unicode <- MCUnicode
  Glob <- MCGlob
  MaxLength = 3
  Pattern <- MCInnerPattern
  MaxRules = 3
  Trees <- MCInnerTrees
  Dir <- MCDir
INVARIANT LastRuleDecides
CHECK_DEADLOCK FALSE
