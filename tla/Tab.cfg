\* One browser tab: a review of lists of at most two of three cards, a reader of
\* two documents, and a little of both.  Deadlock is not an error: the user stops
\* at the bound, and then nothing is on its way any more.
SPECIFICATION BoundedSpec
CONSTANTS
  Doc = {da, db}
  da = da
  db = db
  Pages <- ThePages
  Recorded <- TheRecorded
  Scale = {1, 2}
  First = 1
  Earlier = db
  Nil = Nil
  MaxActs = 3
  Card = {k1, k2, k3}
  k1 = k1
  k2 = k2
  k3 = k3
  Limit = 2
  Done = Done
  MaxReviewActs = 4
INVARIANTS TabTypeOK RatedAsShown DoneMeansDone PinsAgree ReaderAgrees
CHECK_DEADLOCK FALSE
