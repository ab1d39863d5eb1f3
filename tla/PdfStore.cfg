\* Three uploads of two users, two highlights, three concurrent requests.
SPECIFICATION Spec
CONSTANTS
  Doc = {d1, d2, d3}
  Highlight = {h1, h2}
  User = {u1, u2}
  Request = {q1, q2, q3}
  Nil = Nil
SYMMETRY PdfSymmetry
INVARIANTS TypeOK RecordHasFile HighlightsBelong NothingLeftBehind
\* Once every id has been drawn, or every user deleted, nothing is left to do.
CHECK_DEADLOCK FALSE
