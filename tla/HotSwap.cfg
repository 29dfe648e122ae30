SPECIFICATION Spec
CONSTANTS
  Program = "Main"
  Default = "default"
  Modules <- MCWellTyped
  MaxLocals = 3
INVARIANTS NoMixUp
PROPERTY ChangeKeepsLocals
