CONSTANTS
  Model = 3
  HaltAction = "default"
  Refresh = 1
  Ins = {0}
  IrqBound = 2
  NmiBound = 1
  Top = 240
  Nest = 8
  Programs <- MCPrograms
  Disturbed <- MCDisturbed
  End <- MCEnd
  Stack <- MCStack
SPECIFICATION TaskSpec
INVARIANTS DecimalTrue StackBounded
PROPERTIES ArithmeticTrue Transparent ProgramEnds
CHECK_DEADLOCK FALSE
