SPECIFICATION Spec
CONSTANTS
  Programs <- Moving
  Values <- IntsAndReal
  Checkpoint = 2
  MaxForces = 1
  Debugger = TRUE
  Referenced = {"d"}
INVARIANTS ForcesHold
PROPERTY RetainSurvives
