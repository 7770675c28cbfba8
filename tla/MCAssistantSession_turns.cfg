SPECIFICATION Spec
CONSTANTS
  Msgs = {m1, m2, m3}
  Shapes <- MCShapes
  NoPending = NoPending
SYMMETRY MsgSymmetry
INVARIANTS RunsAreConfirmed RunsOnce
PROPERTIES ActsWithItsPlugin RefusedStaysRefused AnswersAreKept ImplementsPromise
\* The conversation stops when its messages have been sent.
CHECK_DEADLOCK FALSE
