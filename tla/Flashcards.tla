----------------------------- MODULE Flashcards -----------------------------
(***************************************************************************)
(* The cards and card_reviews tables: which cards a bullet has after an    *)
(* edit (syncCardsAndRefsTx with what ParseContent finds), and what a      *)
(* rating makes of a card (ReviewCard with the scheduler of srs/fsrs.go).  *)
(* Texts are what the parser tells apart: a delimiter and a sequence of    *)
(* clozes.  Time is counted in days, stabilities in tenths of a day from a *)
(* small set; the difficulty only decides how much a recall lengthens the  *)
(* stability, so it is left out and the growth is any that the formulas    *)
(* allow.                                                                  *)
(***************************************************************************)
EXTENDS Integers, Sequences, FiniteSets

CONSTANTS
  Rem,         \* bullets
  Card,        \* ids of cards
  Text,        \* what a bullet can say: see IsText
  Fact,        \* phrases that clozes hide
  Stability,   \* the stabilities that occur, in tenths of a day
  First,       \* the initial stability for each grade (w0 to w3)
  Rating,      \* the numbers clients send as a rating
  MaxInterval, \* days (36500)
  MaxDay,      \* bound: the last day
  MaxReviews,  \* bound: reviews in the log
  Nil

Grade == 1..4
Again == 1
Hard == 2
Good == 3
Easy == 4

Delimiters == {"none", "::", ":::", ";;", "==>", "==> inline"}

Cloze == [index : Nat, hides : Fact]   \* index 0: the cloze names none

IsText(t) == /\ DOMAIN t = {"delimiter", "clozes"}
             /\ t.delimiter \in Delimiters
             /\ t.clozes \in Seq(Cloze)

\* The rows of cards and of card_reviews.
CardRows == [rem : Rem, type : {"cloze", "forward", "backward", "descriptor", "list"},
             index : Nat, asks : SUBSET Fact,
             state : {"New", "Learning", "Review", "Relearning"}, stability : Stability,
             reps : Nat, lapses : Nat, last : Nat \union {Nil}, due : Nat]

ReviewRows == [rating : Rating, cram : BOOLEAN, state : {"Learning", "Review", "Relearning"},
               stability : Stability, days : 1..MaxInterval, at : Nat]

ASSUME FlashcardsAssumption ==
  /\ \A t \in Text : IsText(t)
  /\ Stability \subseteq Nat \ {0}
  /\ First \in [Grade -> Stability]
  /\ Rating \subseteq Int
  /\ MaxInterval \in Nat \ {0}
  /\ MaxDay \in Nat
  /\ MaxReviews \in Nat
  /\ Nil \notin Text \union Nat /\ Nil \notin CardRows

VARIABLES
  text,   \* rems.content, Nil when there is no such bullet
  card,   \* the rows of cards, Nil when there is none with the id
  log,    \* the rows of card_reviews for each card, oldest first
  now     \* today

vars == <<text, card, log, now>>

Cards == {c \in Card : card[c] # Nil}
CardsOf(r) == {c \in Cards : card[c].rem = r}

----------------------------------------------------------------------------
(* ParseContent.                                                            *)

\* A cloze without an index is numbered by its place among all clozes.
Index(t, i) == IF t.clozes[i].index > 0 THEN t.clozes[i].index ELSE i

\* Clozes with one index are hidden together and make one card.
ClozeCards(t) ==
  LET indices == {Index(t, i) : i \in DOMAIN t.clozes}
      Hidden(n) == {t.clozes[i].hides : i \in {j \in DOMAIN t.clozes : Index(t, j) = n}}
  IN {[type |-> "cloze", index |-> n, asks |-> Hidden(n)] : n \in indices}

DelimiterCards(t) ==
  LET types == CASE t.delimiter = "::" -> {"forward"}
                 [] t.delimiter = ":::" -> {"forward", "backward"}
                 [] t.delimiter = ";;" -> {"descriptor"}
                 [] t.delimiter \in {"==>", "==> inline"} -> {"list"}
                 [] OTHER -> {}
  IN {[type |-> k, index |-> 0, asks |-> {}] : k \in types}

ParsedCards(t) == DelimiterCards(t) \union ClozeCards(t)

Key(x) == <<x.type, x.index>>

----------------------------------------------------------------------------
(* syncCardsAndRefsTx.                                                      *)

NewCard(r, p) ==
  [rem |-> r, type |-> p.type, index |-> p.index, asks |-> p.asks,
   state |-> "New", stability |-> First[Good], reps |-> 0, lapses |-> 0,
   last |-> Nil, due |-> now]

\* Variant: a card is kept only if it asks the same.
MatchesExactly(c, p) == Key(card[c]) = Key(p) /\ card[c].asks = p.asks

\* A parsed card takes over the card of its type and index, whatever the front
\* said: parsed cards differ in type or index, so the code's first try (type,
\* front and index) finds no other card than its second (type and index).
Matches(c, p) == Key(card[c]) = Key(p)

\* Variant: cards that nothing takes over stay.
ObsoleteNone(r, kept) == {}

Obsolete(r, kept) == CardsOf(r) \ kept

\* The bullet r says t: each parsed card takes over its card or becomes a new
\* one, and cards of r that nothing takes over are deleted with their reviews.
\* A list card without an inline back exists only while the bullet has
\* children to list; which it has is Outline's matter.
Sync(r, t) ==
  \E omitted \in SUBSET (IF t.delimiter = "==>" THEN {"list"} ELSE {}) :
    LET parsed == {p \in ParsedCards(t) : p.type \notin omitted}
        kept == {c \in CardsOf(r) : \E p \in parsed : Matches(c, p)}
        fresh == {p \in parsed : \A c \in kept : ~Matches(c, p)}
        By(c) == CHOOSE p \in parsed : Matches(c, p)
    IN \E id \in [fresh -> Card \ Cards] :
         /\ \A p, q \in fresh : id[p] = id[q] => p = q
         /\ card' = [c \in Card |->
              IF c \in kept THEN [card[c] EXCEPT !.asks = By(c).asks]
              ELSE IF \E p \in fresh : id[p] = c
                   THEN NewCard(r, CHOOSE p \in fresh : id[p] = c)
              ELSE IF c \in Obsolete(r, kept) THEN Nil
              ELSE card[c]]
         /\ log' = [c \in Card |-> IF c \in Obsolete(r, kept) THEN <<>> ELSE log[c]]

CreateRem(r, t) ==
  /\ text[r] = Nil
  /\ text' = [text EXCEPT ![r] = t]
  /\ Sync(r, t)
  /\ UNCHANGED now

UpdateRem(r, t) ==
  /\ text[r] # Nil
  /\ t # text[r]
  /\ text' = [text EXCEPT ![r] = t]
  /\ Sync(r, t)
  /\ UNCHANGED now

\* A child of r comes, goes or changes, and r holds a list card.
ResyncParent(r) ==
  /\ text[r] # Nil
  /\ text[r].delimiter \in {"==>", "==> inline"}
  /\ Sync(r, text[r])
  /\ UNCHANGED <<text, now>>

\* Variant: the reviews of the deleted cards stay.
DeleteRemKeepsReviews(r) ==
  /\ text[r] # Nil
  /\ text' = [text EXCEPT ![r] = Nil]
  /\ card' = [c \in Card |-> IF c \in CardsOf(r) THEN Nil ELSE card[c]]
  /\ UNCHANGED <<log, now>>

\* The foreign keys delete the cards with the bullet and the reviews with them.
DeleteRem(r) ==
  /\ text[r] # Nil
  /\ text' = [text EXCEPT ![r] = Nil]
  /\ card' = [c \in Card |-> IF c \in CardsOf(r) THEN Nil ELSE card[c]]
  /\ log' = [c \in Card |-> IF c \in CardsOf(r) THEN <<>> ELSE log[c]]
  /\ UNCHANGED now

----------------------------------------------------------------------------
(* srs/fsrs.go.                                                             *)

Larger(a, b) == IF a >= b THEN a ELSE b
Smaller(a, b) == IF a <= b THEN a ELSE b

\* At the requested retention of 0.9 the interval is the stability, rounded.
NextInterval(s) == Smaller(Larger((s + 5) \div 10, 1), MaxInterval)

\* At least four days for an Easy card that leaves (re)learning.
FirstInterval(g, s) ==
  IF g = Easy THEN Larger(NextInterval(s), 4) ELSE NextInterval(s)

Outcome(state, stability, days) ==
  [state |-> state, stability |-> stability,
   days |-> Smaller(Larger(days, 1), MaxInterval)]

\* Variant: a forgotten new card goes to relearning.
OfNewRelearns(g) ==
  IF g \in {Again, Hard} THEN Outcome("Relearning", First[g], 1)
  ELSE Outcome("Review", First[g], FirstInterval(g, First[g]))

OfNew(g) ==
  IF g \in {Again, Hard} THEN Outcome("Learning", First[g], 1)
  ELSE Outcome("Review", First[g], FirstInterval(g, First[g]))

OfLearning(k, g) ==
  CASE g = Again -> Outcome(k.state, First[Again], 1)
    [] g = Hard -> Outcome(k.state, k.stability, 1)
    [] OTHER -> Outcome("Review", k.stability, FirstInterval(g, k.stability))

\* Recalls lengthen the stability s after e days by growths h <= g <= z for
\* Hard, Good and Easy, and not at all on the same day.
Recalls(s, e) ==
  IF e = 0 THEN {<<s, s, s>>}
  ELSE {x \in Stability \X Stability \X Stability :
          s <= x[1] /\ x[1] <= x[2] /\ x[2] <= x[3]}

\* What each grade makes of a card in review, x being the stabilities after a
\* recall and f the one after forgetting, e days after the last review.
OfReview(x, f, e) ==
  LET days == [g \in Hard..Easy |-> NextInterval(x[g - 1])]
      hard == IF days[Hard] <= e THEN e + 1 ELSE days[Hard]
      easy == IF days[Easy] <= days[Good] THEN days[Good] + 1 ELSE days[Easy]
  IN <<Outcome("Relearning", f, 1), Outcome("Review", x[1], hard),
       Outcome("Review", x[2], days[Good]), Outcome("Review", x[3], easy)>>

\* Days since the last review.
Elapsed(k) == IF k.last = Nil THEN 0 ELSE now - k.last

\* What the four grades would make of the card now: Review for each, and what
\* PreviewRatings shows on the buttons.
Previews(k) ==
  CASE k.state = "New" -> {[g \in Grade |-> OfNew(g)]}
    [] k.state \in {"Learning", "Relearning"} -> {[g \in Grade |-> OfLearning(k, g)]}
    [] k.state = "Review" ->
         {OfReview(x, f, Elapsed(k)) :
            x \in Recalls(k.stability, Elapsed(k)),
            f \in {f \in Stability : f <= k.stability}}

\* A rating that is none counts as Good.
Graded(rating) == IF rating \in Grade THEN rating ELSE Good

Reviewed(k, g, o) ==
  [k EXCEPT !.state = o.state, !.stability = o.stability, !.reps = @ + 1,
            !.lapses = IF g = Again THEN @ + 1 ELSE @,
            !.last = now, !.due = now + o.days]

LogSize == LET Size[S \in SUBSET Card] ==
                 IF S = {} THEN 0
                 ELSE LET c == CHOOSE c \in S : TRUE IN Len(log[c]) + Size[S \ {c}]
           IN Size[Card]

\* Variant: cram reviews are persisted too.
ReviewCardAlways(c, rating, isCram) ==
  /\ card[c] # Nil
  /\ LogSize < MaxReviews
  /\ \E preview \in Previews(card[c]) :
       LET g == Graded(rating)
           o == preview[g]
           entry == [rating |-> rating, cram |-> isCram, state |-> o.state,
                     stability |-> o.stability, days |-> o.days, at |-> now]
       IN /\ log' = [log EXCEPT ![c] = Append(@, entry)]
          /\ card' = [card EXCEPT ![c] = Reviewed(@, g, o)]
  /\ UNCHANGED <<text, now>>

\* The log gets the rating as it came in; a cram review leaves the card alone.
ReviewCard(c, rating, isCram) ==
  /\ card[c] # Nil
  /\ LogSize < MaxReviews
  /\ \E preview \in Previews(card[c]) :
       LET g == Graded(rating)
           o == preview[g]
           entry == [rating |-> rating, cram |-> isCram, state |-> o.state,
                     stability |-> o.stability, days |-> o.days, at |-> now]
       IN /\ log' = [log EXCEPT ![c] = Append(@, entry)]
          /\ IF isCram THEN UNCHANGED card
             ELSE card' = [card EXCEPT ![c] = Reviewed(@, g, o)]
  /\ UNCHANGED <<text, now>>

NextDay ==
  /\ now < MaxDay
  /\ now' = now + 1
  /\ UNCHANGED <<text, card, log>>

----------------------------------------------------------------------------
Init ==
  /\ text = [r \in Rem |-> Nil]
  /\ card = [c \in Card |-> Nil]
  /\ log = [c \in Card |-> <<>>]
  /\ now = 0

Next ==
  \/ \E r \in Rem : \/ \E t \in Text : CreateRem(r, t) \/ UpdateRem(r, t)
                    \/ ResyncParent(r)
                    \/ DeleteRem(r)
  \/ \E c \in Card, rating \in Rating, isCram \in BOOLEAN : ReviewCard(c, rating, isCram)
  \/ NextDay

Spec == Init /\ [][Next]_vars

----------------------------------------------------------------------------
\* Types; reviews belong to a card and a card to a bullet.
TypeOK ==
  /\ text \in [Rem -> Text \union {Nil}]
  /\ card \in [Card -> CardRows \union {Nil}]
  /\ log \in [Card -> Seq(ReviewRows)]
  /\ now \in 0..MaxDay
  /\ \A c \in Card :
       /\ card[c] = Nil => log[c] = <<>>
       /\ card[c] # Nil => text[card[c].rem] # Nil
       /\ \A i \in DOMAIN log[c] : log[c][i].at <= now

\* Apart from list cards, which need children, a bullet has one card for each
\* card of its text, and it asks what the text says.
CardsMatchText ==
  \A r \in Rem : text[r] # Nil =>
    LET has == {[type |-> card[c].type, index |-> card[c].index, asks |-> card[c].asks] :
                  c \in CardsOf(r)}
        says == ParsedCards(text[r])
    IN /\ has \subseteq says
       /\ \A p \in says \ has : text[r].delimiter = "==>" /\ p.type = "list"
       /\ \A b, c \in CardsOf(r) : Key(card[b]) = Key(card[c]) => b = c

\* "preserve SRS history across front edits/typo fixes": an edit that leaves a
\* bullet a card of some type and index, lists aside, leaves it the same card.
EditKeepsCards ==
  [][\A c \in Cards :
       LET t == text'[card[c].rem] IN
       /\ t # Nil
       /\ card[c].type # "list"
       /\ \E p \in ParsedCards(t) : Key(p) = Key(card[c])
       => card'[c] # Nil /\ Key(card'[c]) = Key(card[c])]_vars

\* The reviews of c outside cram mode, by their places in the log.
Real(c) == {i \in DOMAIN log[c] : ~log[c][i].cram}

\* The schedule of a card is what its reviews outside cram mode add up to:
\* nothing else, and no edit, touches it.
LogExplainsCard ==
  \A c \in Cards :
    /\ card[c].reps = Cardinality(Real(c))
    /\ card[c].lapses = Cardinality({i \in Real(c) : log[c][i].rating = Again})
    /\ Real(c) = {} =>
         card[c].state = "New" /\ card[c].last = Nil /\ card[c].stability = First[Good]
    /\ Real(c) # {} => \E n \in Real(c) :
         /\ \A i \in Real(c) : i <= n
         /\ card[c].state = log[c][n].state
         /\ card[c].stability = log[c][n].stability
         /\ card[c].last = log[c][n].at
         /\ card[c].due = log[c][n].at + log[c][n].days

\* A card is in relearning exactly when its last lapse came after it had been
\* in review, and has not been recalled since.
RelearningIsALapse ==
  \A c \in Cards : card[c].state = "Relearning" =>
    \E b, i \in Real(c) :
      /\ b < i /\ \A j \in Real(c) : j <= b \/ i <= j
      /\ log[c][b].state = "Review"
      /\ log[c][i].rating = Again
      /\ \A j \in Real(c) : i <= j =>
           log[c][j].state = "Relearning" /\ log[c][j].rating \in {Again, Hard}

----------------------------------------------------------------------------
(* What a comment says and the code does not do.                            *)

\* "preserve SRS history": a cloze that is still asked after an edit keeps the
\* card that asked it.
HistoryFollowsFact ==
  [][\A c \in Cards :
       LET t == text'[card[c].rem] IN
       /\ t # Nil
       /\ card[c].type = "cloze"
       /\ \E p \in ParsedCards(t) : p.type = "cloze" /\ p.asks = card[c].asks
       => card'[c] # Nil /\ card'[c].asks = card[c].asks]_vars
=============================================================================
