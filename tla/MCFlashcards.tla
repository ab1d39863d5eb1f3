---------------------------- MODULE MCFlashcards ----------------------------
(* Instances of Flashcards for TLC.                                         *)
EXTENDS Flashcards, TLC

CONSTANTS fa, fb   \* two facts

Says(d, s) == [delimiter |-> d, clozes |-> s]
C(n, f) == [index |-> n, hides |-> f]

\* Edits around two clozes, with and without indices, and around delimiters.
ClozeTexts == {Says("none", <<>>),
               Says("none", <<C(0, fa)>>),
               Says("none", <<C(0, fa), C(0, fb)>>),
               Says("::", <<C(0, fb)>>),
               Says("none", <<C(2, fa), C(0, fb)>>),
               Says("none", <<C(1, fa), C(2, fb)>>)}

DelimiterTexts == {Says("none", <<>>), Says("::", <<>>), Says(":::", <<>>), Says(";;", <<>>),
                   Says("==>", <<C(0, fa)>>), Says("==> inline", <<>>)}

AllTexts == ClozeTexts \union DelimiterTexts

Edits == \E r \in Rem : \/ \E t \in Text : CreateRem(r, t) \/ UpdateRem(r, t)
                          \/ ResyncParent(r)
                          \/ DeleteRem(r)

Reviews(ratings, crams) ==
  \E c \in Card, rating \in ratings, isCram \in crams : ReviewCard(c, rating, isCram)

\* Bound: among several cards, at most two reviews, on two days, Again or none
\* of the grades; more days, reviews, grades and cram are for one bullet of one card.
FewReviews ==
  /\ now <= 1
  /\ LogSize <= 2
  /\ \A c \in Card : \A i \in DOMAIN log[c] : log[c][i].rating \in {0, Again} /\ ~log[c][i].cram

OneCard(r) ==
  /\ text[r] = Says("::", <<>>)
  /\ \A other \in Rem \ {r} : text[other] = Nil

Bounded ==
  \/ FewReviews /\ Edits
  \/ FewReviews /\ LogSize < 2 /\ Reviews({0, Again}, {FALSE})
  \/ now < 1 /\ NextDay
  \/ \E r \in Rem : OneCard(r) /\ (DeleteRem(r) \/ Reviews(Rating, BOOLEAN) \/ NextDay)
  \/ \E r \in Rem : text = [other \in Rem |-> Nil] /\ CreateRem(r, Says("::", <<>>))

BoundedSpec == Init /\ [][Bounded]_vars

\* w0 to w3 in tenths of a day.
Weights == <<4, 12, 32, 157>>

CardSymmetry == Permutations(Card) \union Permutations(Rem)
=============================================================================
