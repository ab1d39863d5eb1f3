CONSTANTS
  Note = {n1, n2, n3}
  Text = {t1, t2}
  Account = {ada, bob}
  Process = {p1, p2}
  Call = {c1, c2}
  Default = default
  Nil = Nil
SPECIFICATION BoundedSpec
SYMMETRY Symmetry
INVARIANTS
  TypeOK
  FamiliesStayTogether
  
  OneProcessKeepsCards
