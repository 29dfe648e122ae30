SPECIFICATION Spec
CONSTANTS
  MaxDeploys = 2
  Protocols = {"upp"}
  AutoStart = TRUE
INVARIANTS CodeNotBehindMeta
PROPERTY AckedSurvivesCrash
