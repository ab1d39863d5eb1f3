\* Edits of two bullets with three cards between texts of every kind, reviews in
\* between; and the reviews of one card on five days, every rating.
SPECIFICATION BoundedSpec
CONSTANTS
  Rem = {r1, r2}
  Card = {k1, k2, k3}
  Fact = {fa, fb}
  fa = fa
  fb = fb
  Text <- AllTexts
  Stability = {2, 4, 12, 32, 157}
  First <- Weights
  Rating = {0, 1, 2, 3, 4}
  MaxInterval = 36500
  MaxDay = 4
  MaxReviews = 3
  Nil = Nil
SYMMETRY CardSymmetry
INVARIANTS TypeOK CardsMatchText LogExplainsCard RelearningIsALapse
PROPERTY EditKeepsCards
