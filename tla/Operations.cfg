\* Three calls share four connections; the file has two states.
SPECIFICATION OpFairSpec
CONSTANTS
  Call = {c1, c2, c3}
  Pool = 4
  MaxTodo = 2
  Nil = Nil
  Data = {d1, d2}
INVARIANTS TypeOK Accounted NoPoolDeadlock
PROPERTIES ImplementsAtomicOps Answered
