\* As many calls as connections: five requests for the due cards.
SPECIFICATION Spec
CONSTANTS
  Call = {c1, c2, c3, c4, c5}
  Pool = 5
  MaxTodo = 1
  Nil = Nil
SYMMETRY CallSymmetry
INVARIANT NoPoolDeadlock
