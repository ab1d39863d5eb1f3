\* Three rows in any arrangement, and four acts of the user.
SPECIFICATION Spec
CONSTANTS
  Row = {r1, r2, r3}
  Fresh = {e1, e2}
  Text = {x, y}
  Title = {t}
  Blank = Blank
  Nil = Nil
  MaxActs = 4
SYMMETRY EditorSymmetry
INVARIANTS TypeOK SavedWhereTyped ScreenMirrorsServer
\* Once the user has stopped and all is quiet, nothing is left to do.
CHECK_DEADLOCK FALSE
