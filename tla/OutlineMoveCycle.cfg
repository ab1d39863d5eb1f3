\* The whole interface, with MoveRem: two users share the table.
SPECIFICATION Spec
CONSTANTS
  Rem = {r1, r2, r3}
  User = {u1, u2}
  Content = {list}
  ListText = {list}
  BlankText = {}
  Position = {0, 1}
  MaxOrder = 2
  Nil = Nil
SYMMETRY RemUserSymmetry
INVARIANT AncestorsReachRoot
CHECK_DEADLOCK FALSE
