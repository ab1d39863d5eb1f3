\* An import of three lines at most into an outline of at most three operations,
\* with two more between its lines; in the end nothing is left to do.
SPECIFICATION Spec
CONSTANTS
  Rem = {r1, r2, r3, r4}
  go = go
  google = google
  Title = {go, google}
  NoTitle = NoTitle
  Text <- AllTexts
  Docs <- AllDocs
  Blank = Blank
  Nil = Nil
  MaxActs = 2
  MaxFree = 3
SYMMETRY ImportSymmetry
INVARIANTS TypeOK BacklinksComplete NamedIsLinked NestingKept RoundTrip
PROPERTY LinksStay
CHECK_DEADLOCK FALSE
