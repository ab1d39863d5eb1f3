\* The whole interface, with MoveRem: two users share three rows, whose texts
\* are list cards or blank.
SPECIFICATION Spec
CONSTANTS
  Rem = {r1, r2, r3}
  User = {u1, u2}
  Content = {list, blank}
  ListText = {list}
  BlankText = {blank}
  Position = {0}
  MaxOrder = 1
  Nil = Nil
SYMMETRY RemUserSymmetry
INVARIANTS TypeOK ParentOwned
PROPERTY ListFreshOnLoss
CHECK_DEADLOCK FALSE
