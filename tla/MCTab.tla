------------------------------- MODULE MCTab -------------------------------
(* Instances of Tab for TLC.                                                *)
EXTENDS Tab, TLC

CONSTANTS
  da, db,      \* two documents: one of two pages, one of one
  k1, k2, k3   \* three cards

ThePages == da :> 2 @@ db :> 1
TheRecorded == [d \in Doc |-> 1]

\* Cards differ by their names only: up to a permutation of them, these are
\* all the initial states.
Firsts == {{}, {k1}, {k1, k2}, {k1, k2, k3}}
BoundedInit == TabInit /\ cards \in Firsts /\ due \in Firsts

\* Bound: each part runs to the bound of its acts while the other does nothing
\* (the reviewer is not left, and the reader runs in a tab without cards);
\* together they have one act each, with one card.  No page is being drawn by
\* more than two calls at a time.
Together == acts <= 1 /\ reviewActs <= 1 /\ Cardinality(cards) = 1
ReviewerTurn == acts = 0 \/ Together
ReaderTurn == (reviewActs = 0 /\ cards = {}) \/ Together

BoundedNext ==
  \/ ReviewerTurn /\ ReviewerPart /\ (SwitchAway => Together)
  \/ ReaderTurn /\ ReaderPart /\ \A p \in Page : Len(renders'[p]) <= 2

BoundedSpec == BoundedInit /\ [][BoundedNext]_<<view, vars, review>>
=============================================================================
