SPECIFICATION Spec
CONSTANTS
  Msgs = {m1, m2, m3}
  Shapes <- ComposioShapes
  NoPending = NoPending
SYMMETRY MsgSymmetry
INVARIANTS ConfirmedMeansYes
CHECK_DEADLOCK FALSE
