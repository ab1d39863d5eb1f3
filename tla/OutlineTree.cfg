\* Shape and order of the outline: four bullets, one user, one kind of text.
SPECIFICATION EditorSpec
CONSTANTS
  Rem = {r1, r2, r3, r4}
  User = {u1}
  Content = {plain}
  ListText = {}
  BlankText = {}
  Position = {1}
  MaxOrder = 2
  Nil = Nil
SYMMETRY RemUserSymmetry
INVARIANTS Acyclic DistinctOrders
PROPERTIES ReadingOrder ImplementsNestedLists
