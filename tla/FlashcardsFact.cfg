\* Edits: two bullets and three cards, texts with every delimiter and clozes.
SPECIFICATION Spec
CONSTANTS
  Rem = {r1, r2}
  Card = {k1, k2, k3}
  Fact = {fa, fb}
  fa = fa
  fb = fb
  Text <- AllTexts
  Stability = {4, 12, 32, 157}
  First <- Weights
  Rating = {1, 3}
  MaxInterval = 36500
  MaxDay = 1
  MaxReviews = 2
  Nil = Nil
SYMMETRY CardSymmetry
PROPERTY HistoryFollowsFact
