-------------------------- MODULE FlashcardsProofs --------------------------
(* For any texts, cards and reviews: a bullet has the cards its text calls   *)
(* for, an edit keeps the cards that are still asked, and the schedule of a  *)
(* card is what its log of reviews adds up to.                               *)
EXTENDS Flashcards, TLAPS, FiniteSetTheorems

\* What ParseContent finds.
Parsed == [type : {"cloze", "forward", "backward", "descriptor", "list"},
           index : Nat, asks : SUBSET Fact]

Inv == TypeOK /\ CardsMatchText /\ LogExplainsCard /\ RelearningIsALapse

----------------------------------------------------------------------------
(* ParseContent.                                                            *)

\* The cards of delimiters are without index, and differ in their types.
LEMMA DelimitersParse ==
  ASSUME NEW t
  PROVE  /\ DelimiterCards(t) \subseteq Parsed
         /\ \A p \in DelimiterCards(t) : p.type # "cloze"
         /\ \A p, q \in DelimiterCards(t) : Key(p) = Key(q) => p = q
<1> DEFINE types == CASE t.delimiter = "::" -> {"forward"}
                      [] t.delimiter = ":::" -> {"forward", "backward"}
                      [] t.delimiter = ";;" -> {"descriptor"}
                      [] t.delimiter \in {"==>", "==> inline"} -> {"list"}
                      [] OTHER -> {}
<1>1. types \subseteq {"forward", "backward", "descriptor", "list"}
  OBVIOUS
<1>2. DelimiterCards(t) = {[type |-> k, index |-> 0, asks |-> {}] : k \in types}
  BY DEF DelimiterCards
<1> HIDE DEF types
<1>3. ASSUME NEW p \in DelimiterCards(t)
      PROVE  \E k \in types : p = [type |-> k, index |-> 0, asks |-> {}]
  BY <1>2
<1>4. ASSUME NEW p \in DelimiterCards(t) PROVE p \in Parsed /\ p.type # "cloze"
  BY <1>1, <1>3 DEF Parsed
<1>5. ASSUME NEW p \in DelimiterCards(t), NEW q \in DelimiterCards(t), Key(p) = Key(q)
      PROVE  p = q
  BY <1>3, <1>5 DEF Key
<1> QED BY <1>4, <1>5

\* The cards of clozes have the indices of the clozes, one card for each.
LEMMA ClozesParse ==
  ASSUME NEW t, IsText(t)
  PROVE  /\ ClozeCards(t) \subseteq Parsed
         /\ \A p \in ClozeCards(t) : p.type = "cloze"
         /\ \A p, q \in ClozeCards(t) : Key(p) = Key(q) => p = q
<1> DEFINE indices == {Index(t, i) : i \in DOMAIN t.clozes}
           Hidden(n) == {t.clozes[i].hides : i \in {j \in DOMAIN t.clozes : Index(t, j) = n}}
<1>1. ClozeCards(t) = {[type |-> "cloze", index |-> n, asks |-> Hidden(n)] : n \in indices}
  BY DEF ClozeCards
<1>2. \A i \in DOMAIN t.clozes : t.clozes[i] \in Cloze /\ i \in Nat
  BY DEF IsText
<1>3. \A i \in DOMAIN t.clozes : Index(t, i) \in Nat /\ t.clozes[i].hides \in Fact
  BY <1>2 DEF Index, Cloze
<1>4. \A n : Hidden(n) \in SUBSET Fact
  BY <1>3
<1>5. indices \subseteq Nat
  BY <1>3
<1> HIDE DEF indices, Hidden
<1>6. ASSUME NEW p \in ClozeCards(t)
      PROVE  \E n \in indices : p = [type |-> "cloze", index |-> n, asks |-> Hidden(n)]
  BY <1>1
<1>7. ASSUME NEW p \in ClozeCards(t) PROVE p \in Parsed /\ p.type = "cloze"
  BY <1>4, <1>5, <1>6 DEF Parsed
<1>8. ASSUME NEW p \in ClozeCards(t), NEW q \in ClozeCards(t), Key(p) = Key(q)
      PROVE  p = q
  BY <1>6, <1>8 DEF Key
<1> QED BY <1>7, <1>8

\* The cards of a text differ in type or index.
LEMMA TextParses ==
  ASSUME NEW t \in Text
  PROVE  /\ ParsedCards(t) \subseteq Parsed
         /\ \A p, q \in ParsedCards(t) : Key(p) = Key(q) => p = q
<1>1. IsText(t)
  BY FlashcardsAssumption
<1>2. /\ ParsedCards(t) = DelimiterCards(t) \union ClozeCards(t)
      /\ \A p \in DelimiterCards(t), q \in ClozeCards(t) : Key(p) # Key(q)
  BY <1>1, DelimitersParse, ClozesParse DEF ParsedCards, Key
<1> QED BY <1>1, <1>2, DelimitersParse, ClozesParse

----------------------------------------------------------------------------
(* syncCardsAndRefsTx.                                                      *)

\* What may become of a card when the bullet r is synced: it is not of r, it is
\* taken over by the parsed card p, it is new and made for p, or it is deleted.
Stays(c, r) ==
  /\ card[c] # Nil => card[c].rem # r
  /\ card'[c] = card[c] /\ log'[c] = log[c]

Takes(c, r, p) ==
  /\ c \in CardsOf(r) /\ Key(p) = Key(card[c])
  /\ card'[c] = [card[c] EXCEPT !.asks = p.asks] /\ log'[c] = log[c]

Comes(c, r, p) ==
  /\ card[c] = Nil /\ card'[c] = NewCard(r, p) /\ log'[c] = log[c]
  /\ \A d \in CardsOf(r) : Key(p) # Key(card[d])

Goes(c, r) ==
  /\ c \in CardsOf(r) /\ card'[c] = Nil /\ log'[c] = <<>>

\* Every card does one of these, for the cards parsed of t, list cards possibly
\* omitted; every parsed card takes over one or comes, and none comes twice.
Synced(r, t, parsed) ==
  /\ parsed \subseteq ParsedCards(t)
  /\ \A p \in ParsedCards(t) \ parsed : t.delimiter = "==>" /\ p.type = "list"
  /\ \A c \in Card : \/ Stays(c, r)
                     \/ \E p \in parsed : Takes(c, r, p) \/ Comes(c, r, p)
                     \/ Goes(c, r) /\ \A p \in parsed : Key(p) # Key(card[c])
  /\ \A p \in parsed : \E c \in Card : Takes(c, r, p) \/ Comes(c, r, p)
  /\ \A p \in parsed : \A b, c \in Card : Comes(b, r, p) /\ Comes(c, r, p) => b = c

\* A new card.
LEMMA NewCardRow ==
  ASSUME TypeOK, NEW r \in Rem, NEW p \in Parsed
  PROVE  /\ NewCard(r, p) \in CardRows /\ NewCard(r, p) # Nil
         /\ NewCard(r, p).rem = r /\ NewCard(r, p).asks = p.asks
         /\ NewCard(r, p).type = p.type /\ NewCard(r, p).index = p.index
         /\ Key(NewCard(r, p)) = Key(p)
<1>1. First[Good] \in Stability /\ now \in Nat
  BY FlashcardsAssumption DEF TypeOK, Good, Grade
<1>2. NewCard(r, p) \in CardRows
  BY <1>1 DEF NewCard, CardRows, Parsed
<1> QED BY <1>2, FlashcardsAssumption DEF NewCard, Key

LEMMA SyncSyncs ==
  ASSUME TypeOK, NEW r \in Rem, NEW t \in Text, Sync(r, t)
  PROVE  \E parsed : Synced(r, t, parsed)
<1>1. PICK omitted \in SUBSET (IF t.delimiter = "==>" THEN {"list"} ELSE {}) :
        LET parsed == {p \in ParsedCards(t) : p.type \notin omitted}
            kept == {c \in CardsOf(r) : \E p \in parsed : Matches(c, p)}
            fresh == {p \in parsed : \A c \in kept : ~Matches(c, p)}
            By(c) == CHOOSE p \in parsed : Matches(c, p)
        IN \E id \in [fresh -> Card \ Cards] :
             /\ \A p, q \in fresh : id[p] = id[q] => p = q
             /\ card' = [c \in Card |->
                  IF c \in kept THEN [card[c] EXCEPT !.asks = By(c).asks]
                  ELSE IF \E p \in fresh : id[p] = c
                       THEN NewCard(r, CHOOSE p \in fresh : id[p] = c)
                  ELSE IF c \in Obsolete(r, kept) THEN Nil
                  ELSE card[c]]
             /\ log' = [c \in Card |-> IF c \in Obsolete(r, kept) THEN <<>> ELSE log[c]]
  BY DEF Sync
<1> DEFINE parsed == {p \in ParsedCards(t) : p.type \notin omitted}
           kept == {c \in CardsOf(r) : \E p \in parsed : Matches(c, p)}
           fresh == {p \in parsed : \A c \in kept : ~Matches(c, p)}
           By(c) == CHOOSE p \in parsed : Matches(c, p)
<1>2. PICK id \in [fresh -> Card \ Cards] :
        /\ \A p, q \in fresh : id[p] = id[q] => p = q
        /\ card' = [c \in Card |->
             IF c \in kept THEN [card[c] EXCEPT !.asks = By(c).asks]
             ELSE IF \E p \in fresh : id[p] = c
                  THEN NewCard(r, CHOOSE p \in fresh : id[p] = c)
             ELSE IF c \in Obsolete(r, kept) THEN Nil
             ELSE card[c]]
        /\ log' = [c \in Card |-> IF c \in Obsolete(r, kept) THEN <<>> ELSE log[c]]
  BY <1>1
<1>3. /\ parsed \subseteq ParsedCards(t)
      /\ \A p \in ParsedCards(t) \ parsed : t.delimiter = "==>" /\ p.type = "list"
  OBVIOUS
<1>4. \A c \in CardsOf(r) : c \in kept <=> \E p \in parsed : Key(p) = Key(card[c])
  BY DEF Matches
<1>5. \A p \in parsed : p \in fresh <=> \A c \in CardsOf(r) : Key(p) # Key(card[c])
  BY <1>4 DEF Matches
<1>6. \A c \in kept : By(c) \in parsed /\ Key(By(c)) = Key(card[c])
  BY DEF Matches
<1>7. kept \subseteq CardsOf(r) /\ fresh \subseteq parsed
  OBVIOUS
<1>8. \A p, q \in parsed : Key(p) = Key(q) => p = q
  BY <1>3, TextParses
<1>9. \A c \in Card :
        /\ card'[c] = IF c \in kept THEN [card[c] EXCEPT !.asks = By(c).asks]
                      ELSE IF \E p \in fresh : id[p] = c
                           THEN NewCard(r, CHOOSE p \in fresh : id[p] = c)
                      ELSE IF c \in CardsOf(r) THEN Nil
                      ELSE card[c]
        /\ log'[c] = IF c \in CardsOf(r) \ kept THEN <<>> ELSE log[c]
  BY <1>2 DEF Obsolete
<1> HIDE DEF parsed, kept, fresh, By
<1>10. CardsOf(r) \subseteq Cards /\ CardsOf(r) \subseteq Card
  BY DEF CardsOf, Cards
<1>11. ASSUME NEW c \in kept PROVE c \in Card /\ Takes(c, r, By(c)) /\ By(c) \in parsed
  BY <1>6, <1>7, <1>9, <1>10, <1>11 DEF Takes
<1>12. ASSUME NEW p \in fresh PROVE id[p] \in Card /\ Comes(id[p], r, p)
  <2>1. id[p] \in Card /\ card[id[p]] = Nil /\ id[p] \notin CardsOf(r)
    BY <1>2, <1>10 DEF Cards
  <2>2. (CHOOSE q \in fresh : id[q] = id[p]) = p
    BY <1>2
  <2>3. card'[id[p]] = NewCard(r, p) /\ log'[id[p]] = log[id[p]]
    BY <1>7, <1>9, <2>1, <2>2
  <2> QED BY <1>5, <1>7, <2>1, <2>3 DEF Comes
<1>13. ASSUME NEW c \in Card
       PROVE  \/ Stays(c, r)
              \/ \E p \in parsed : Takes(c, r, p) \/ Comes(c, r, p)
              \/ Goes(c, r) /\ \A p \in parsed : Key(p) # Key(card[c])
  <2>1. CASE c \in kept
    BY <1>11, <2>1
  <2>2. CASE \E p \in fresh : id[p] = c
    BY <1>7, <1>12, <2>2
  <2>3. CASE c \in CardsOf(r) \ kept
    <3>1. ~\E p \in fresh : id[p] = c
      BY <1>2, <1>10, <2>3
    <3> QED BY <1>4, <1>9, <2>3, <3>1 DEF Goes
  <2>4. CASE c \notin CardsOf(r) /\ ~\E p \in fresh : id[p] = c
    <3>1. card[c] # Nil => card[c].rem # r
      BY <2>4 DEF CardsOf, Cards
    <3> QED BY <1>7, <1>9, <2>4, <3>1 DEF Stays
  <2> QED BY <2>1, <2>2, <2>3, <2>4
<1>14. ASSUME NEW p \in parsed PROVE \E c \in Card : Takes(c, r, p) \/ Comes(c, r, p)
  <2>1. CASE p \in fresh
    BY <1>12, <2>1
  <2>2. CASE p \notin fresh
    <3>1. PICK c \in CardsOf(r) : Key(p) = Key(card[c])
      BY <1>5, <2>2
    <3>2. c \in kept
      BY <1>4, <3>1
    <3>3. By(c) = p
      BY <1>6, <1>8, <3>1, <3>2
    <3> QED BY <1>11, <3>2, <3>3
  <2> QED BY <2>1, <2>2
<1>15. ASSUME NEW p \in parsed, NEW b \in Card, NEW c \in Card, Comes(b, r, p), Comes(c, r, p)
       PROVE  b = c
  <2>1. ASSUME NEW d \in Card, Comes(d, r, p) PROVE d = id[p] /\ p \in fresh
    <3>1. p \in fresh /\ d \notin kept
      BY <1>5, <1>7, <1>10, <2>1 DEF Comes, Cards
    <3>2. d \notin CardsOf(r) /\ card[d] = Nil /\ card'[d] = NewCard(r, p) /\ p \in Parsed
      BY <1>3, <1>10, <2>1, TextParses DEF Comes, Cards
    <3>3. card'[d] # Nil
      BY <3>2, NewCardRow
    <3>4. PICK q \in fresh : id[q] = d
      BY <1>9, <3>1, <3>2, <3>3
    <3>5. (CHOOSE x \in fresh : id[x] = d) = q
      BY <1>2, <3>4
    <3>6. card'[d] = NewCard(r, q) /\ q \in parsed /\ q \in Parsed
      <4>1. q \in parsed /\ q \in Parsed
        BY <1>3, <1>7, <3>4, TextParses
      <4>2. d \in Card /\ d \notin kept /\ \E x \in fresh : id[x] = d
        BY <3>1, <3>4
      <4>3. card'[d] = NewCard(r, CHOOSE x \in fresh : id[x] = d)
        BY <1>9, <4>2
      <4> QED BY <3>5, <4>1, <4>3
    <3>7. Key(q) = Key(p)
      <4>1. Key(NewCard(r, p)) = Key(p)
        BY <3>2, NewCardRow
      <4>2. Key(NewCard(r, q)) = Key(q)
        BY <3>6, NewCardRow
      <4>3. NewCard(r, p) = NewCard(r, q)
        BY <3>2, <3>6
      <4> QED BY <4>1, <4>2, <4>3
    <3> QED BY <1>8, <3>1, <3>4, <3>6, <3>7
  <2> QED BY <1>15, <2>1
<1> QED BY <1>3, <1>13, <1>14, <1>15 DEF Synced

----------------------------------------------------------------------------
(* What a sync does to the invariants: the bullet r says t from now on.     *)

Says(r, t) ==
  /\ \A q \in Rem : text'[q] = IF q = r THEN t ELSE text[q]
  /\ text' \in [Rem -> Text \union {Nil}]
  /\ now' = now
  /\ Sync(r, t)

\* The same card, whatever it asks.
SameCard(k, l) ==
  /\ k.rem = l.rem /\ Key(k) = Key(l) /\ k.state = l.state
  /\ k.stability = l.stability /\ k.reps = l.reps /\ k.lapses = l.lapses
  /\ k.last = l.last /\ k.due = l.due

\* A row of cards is a row, and what it asks can be replaced.
LEMMA AsksOther ==
  ASSUME NEW k \in CardRows, NEW a \in SUBSET Fact
  PROVE  /\ [k EXCEPT !.asks = a] \in CardRows
         /\ [k EXCEPT !.asks = a].asks = a
         /\ SameCard([k EXCEPT !.asks = a], k)
         /\ [k EXCEPT !.asks = a].type = k.type /\ [k EXCEPT !.asks = a].index = k.index
BY DEF CardRows, SameCard, Key

LEMMA RowOfCard ==
  ASSUME TypeOK, NEW c \in Card, card[c] # Nil
  PROVE  card[c] \in CardRows
BY DEF TypeOK

\* A card that is there after a sync was there before, with its reviews, or is
\* new and without any.
LEMMA SyncedCard ==
  ASSUME TypeOK, NEW r \in Rem, NEW t \in Text, Sync(r, t), NEW c \in Card
  PROVE  /\ card'[c] \in CardRows \union {Nil}
         /\ card'[c] = Nil => log'[c] = <<>>
         /\ log'[c] \in {log[c], <<>>}
         /\ card'[c] # Nil =>
              \/ card[c] # Nil /\ SameCard(card'[c], card[c]) /\ log'[c] = log[c]
              \/ \E p \in Parsed : card'[c] = NewCard(r, p) /\ log'[c] = <<>>
<1>1. PICK parsed : Synced(r, t, parsed)
  BY SyncSyncs
<1>2. parsed \subseteq Parsed
  BY <1>1, TextParses DEF Synced
<1>3. card[c] = Nil => log[c] = <<>>
  BY DEF TypeOK
<1>4. CASE Stays(c, r)
  BY <1>3, <1>4, RowOfCard DEF Stays, SameCard
<1>5. ASSUME NEW p \in parsed, Takes(c, r, p)
      PROVE  /\ card'[c] \in CardRows /\ card[c] # Nil
             /\ SameCard(card'[c], card[c]) /\ log'[c] = log[c]
  <2>1. card[c] # Nil /\ card'[c] = [card[c] EXCEPT !.asks = p.asks] /\ log'[c] = log[c]
    BY <1>5 DEF Takes, CardsOf, Cards
  <2>2. card[c] \in CardRows /\ p.asks \in SUBSET Fact
    BY <1>2, <2>1, RowOfCard DEF Parsed
  <2> QED BY <2>1, <2>2, AsksOther
<1>6. ASSUME NEW p \in parsed, Comes(c, r, p)
      PROVE  card'[c] \in CardRows /\ card'[c] = NewCard(r, p) /\ p \in Parsed /\ log'[c] = <<>>
  <2>1. card'[c] = NewCard(r, p) /\ log'[c] = <<>> /\ p \in Parsed
    BY <1>2, <1>3, <1>6 DEF Comes
  <2> QED BY <2>1, NewCardRow
<1>7. CASE Goes(c, r)
  BY <1>7 DEF Goes
<1>8. Nil \notin CardRows
  BY FlashcardsAssumption
<1>9. \/ Stays(c, r) \/ Goes(c, r)
      \/ \E p \in parsed : Takes(c, r, p) \/ Comes(c, r, p)
  BY <1>1 DEF Synced
<1> QED BY <1>4, <1>5, <1>6, <1>7, <1>8, <1>9

LEMMA SaysTypes ==
  ASSUME TypeOK, NEW r \in Rem, NEW t \in Text, Says(r, t)
  PROVE  TypeOK'
<1> USE DEF Says
<1>1. DOMAIN card' = Card /\ DOMAIN log' = Card /\ card' = [c \in Card |-> card'[c]]
        /\ log' = [c \in Card |-> log'[c]]
  BY DEF Sync
<1>2. \A c \in Card : log[c] \in Seq(ReviewRows) /\ <<>> \in Seq(ReviewRows)
  BY DEF TypeOK
<1>3. card' \in [Card -> CardRows \union {Nil}] /\ log' \in [Card -> Seq(ReviewRows)]
  BY <1>1, <1>2, SyncedCard
<1>4. ASSUME NEW c \in Card
      PROVE  /\ card'[c] = Nil => log'[c] = <<>>
             /\ card'[c] # Nil => text'[card'[c].rem] # Nil
             /\ \A i \in DOMAIN log'[c] : log'[c][i].at <= now'
  <2>1. card'[c] = Nil => log'[c] = <<>>
    BY SyncedCard
  <2>2. ASSUME card'[c] # Nil PROVE text'[card'[c].rem] # Nil
    <3>1. t # Nil
      BY FlashcardsAssumption
    <3>2. CASE card[c] # Nil /\ SameCard(card'[c], card[c])
      <4>1. card[c].rem \in Rem /\ text[card[c].rem] # Nil /\ card'[c].rem = card[c].rem
        BY <3>2, RowOfCard DEF TypeOK, CardRows, SameCard
      <4> QED BY <3>1, <4>1
    <3>3. ASSUME NEW p \in Parsed, card'[c] = NewCard(r, p) PROVE card'[c].rem = r
      BY <3>3, NewCardRow
    <3> QED BY <2>2, <3>1, <3>2, <3>3, SyncedCard
  <2>3. \A i \in DOMAIN log'[c] : log'[c][i].at <= now'
    <3>1. CASE log'[c] = <<>>
      BY <3>1
    <3>2. CASE log'[c] = log[c]
      BY <3>2 DEF TypeOK
    <3> QED BY <3>1, <3>2, SyncedCard
  <2> QED BY <2>1, <2>2, <2>3
<1> QED BY <1>3, <1>4 DEF TypeOK

\* What CardsMatchText says of one bullet.
Asks(c) == [type |-> card[c].type, index |-> card[c].index, asks |-> card[c].asks]

Matched(r) ==
  LET has == {Asks(c) : c \in CardsOf(r)}
      says == ParsedCards(text[r])
  IN /\ has \subseteq says
     /\ \A p \in says \ has : text[r].delimiter = "==>" /\ p.type = "list"
     /\ \A b, c \in CardsOf(r) : Key(card[b]) = Key(card[c]) => b = c

LEMMA MatchedBullets == CardsMatchText <=> \A r \in Rem : text[r] # Nil => Matched(r)
BY DEF CardsMatchText, Matched, Asks

\* Two records of what is parsed are the same if their fields are.
LEMMA SameParsed ==
  ASSUME NEW p \in Parsed, NEW k, k.type = p.type, k.index = p.index, k.asks = p.asks
  PROVE  [type |-> k.type, index |-> k.index, asks |-> k.asks] = p
BY DEF Parsed

\* After a sync a bullet has the cards that were parsed: each once.
LEMMA SyncMatches ==
  ASSUME TypeOK, CardsMatchText, NEW r \in Rem, NEW t \in Text, Says(r, t)
  PROVE  Matched(r)'
<1>1. PICK parsed : Synced(r, t, parsed)
  BY SyncSyncs DEF Says
<1>2. /\ parsed \subseteq ParsedCards(t) /\ parsed \subseteq Parsed /\ text'[r] = t
      /\ \A p, q \in parsed : Key(p) = Key(q) => p = q
  BY <1>1, TextParses DEF Synced, Says
<1>3. ASSUME NEW c \in Card, NEW p \in parsed, Takes(c, r, p)
      PROVE  c \in CardsOf(r)' /\ Asks(c)' = p /\ Key(card'[c]) = Key(p)
  <2>1. /\ card[c] # Nil /\ card[c].rem = r
        /\ card'[c] = [card[c] EXCEPT !.asks = p.asks] /\ Key(p) = Key(card[c])
    BY <1>3 DEF Takes, CardsOf, Cards
  <2>2. card[c] \in CardRows /\ p.asks \in SUBSET Fact
    BY <1>2, <2>1, RowOfCard DEF Parsed
  <2>3. /\ card'[c] \in CardRows /\ card'[c].asks = p.asks /\ card'[c].rem = r
        /\ card'[c].type = p.type /\ card'[c].index = p.index
    BY <2>1, <2>2, AsksOther DEF SameCard, Key
  <2> QED BY <1>2, <2>3, SameParsed, FlashcardsAssumption DEF CardsOf, Cards, Asks, Key
<1>4. ASSUME NEW c \in Card, NEW p \in parsed, Comes(c, r, p)
      PROVE  c \in CardsOf(r)' /\ Asks(c)' = p /\ Key(card'[c]) = Key(p)
  <2>1. card'[c] = NewCard(r, p)
    BY <1>4 DEF Comes
  <2>2. /\ card'[c] # Nil /\ card'[c].asks = p.asks /\ card'[c].rem = r
        /\ card'[c].type = p.type /\ card'[c].index = p.index
    BY <1>2, <2>1, NewCardRow
  <2> QED BY <1>2, <2>2, SameParsed DEF CardsOf, Cards, Asks, Key
<1>5. ASSUME NEW c \in CardsOf(r)'
      PROVE  c \in Card /\ \E p \in parsed : Takes(c, r, p) \/ Comes(c, r, p)
  <2>1. c \in Card /\ card'[c] # Nil /\ card'[c].rem = r
    BY DEF CardsOf, Cards
  <2>2. ~Stays(c, r) /\ ~Goes(c, r)
    BY <2>1 DEF Stays, Goes
  <2> QED BY <1>1, <2>1, <2>2 DEF Synced
<1>6. {Asks(c)' : c \in CardsOf(r)'} \subseteq ParsedCards(text'[r])
  BY <1>2, <1>3, <1>4, <1>5
<1>7. \A p \in ParsedCards(text'[r]) \ {Asks(c)' : c \in CardsOf(r)'} :
        text'[r].delimiter = "==>" /\ p.type = "list"
  <2>1. \A p \in parsed : p \in {Asks(c)' : c \in CardsOf(r)'}
    BY <1>1, <1>3, <1>4 DEF Synced
  <2> QED BY <1>1, <1>2, <2>1 DEF Synced
<1>8. ASSUME NEW b \in CardsOf(r)', NEW c \in CardsOf(r)', Key(card'[b]) = Key(card'[c])
      PROVE  b = c
  <2>1. PICK p \in parsed : Takes(b, r, p) \/ Comes(b, r, p)
    BY <1>5
  <2>2. PICK q \in parsed : Takes(c, r, q) \/ Comes(c, r, q)
    BY <1>5
  <2>3. b \in Card /\ c \in Card
    BY <1>5
  <2>4. p = q
    BY <1>2, <1>3, <1>4, <1>8, <2>1, <2>2, <2>3
  <2>5. CASE Takes(b, r, p) /\ Takes(c, r, p)
    <3>1. Matched(r)
      BY <2>5, MatchedBullets DEF Takes, CardsOf, Cards, TypeOK
    <3> QED BY <2>5, <3>1 DEF Takes, Matched
  <2>6. CASE Comes(b, r, p) /\ Comes(c, r, p)
    BY <1>1, <2>3, <2>6 DEF Synced
  <2>7. ~(Takes(b, r, p) /\ Comes(c, r, p)) /\ ~(Comes(b, r, p) /\ Takes(c, r, p))
    BY DEF Takes, Comes
  <2> QED BY <2>1, <2>2, <2>4, <2>5, <2>6, <2>7
<1> QED BY <1>6, <1>7, <1>8 DEF Matched

\* And the cards of the others are what they were.
LEMMA SyncLeavesOthers ==
  ASSUME TypeOK, CardsMatchText, NEW r \in Rem, NEW t \in Text, Says(r, t),
         NEW q \in Rem \ {r}, text'[q] # Nil
  PROVE  Matched(q)'
<1>1. PICK parsed : Synced(r, t, parsed)
  BY SyncSyncs DEF Says
<1>2. text'[q] = text[q] /\ Matched(q)
  BY MatchedBullets DEF Says
<1>3. ASSUME NEW c \in Card
      PROVE  /\ c \in CardsOf(q) <=> c \in CardsOf(q)'
             /\ c \in CardsOf(q) => card'[c] = card[c]
  <2>1. CASE Stays(c, r)
    BY <2>1 DEF Stays, CardsOf, Cards
  <2>2. ASSUME NEW p \in parsed, Takes(c, r, p) PROVE c \notin CardsOf(q) /\ c \notin CardsOf(q)'
    <3>1. card[c] # Nil /\ card[c].rem = r /\ card'[c] = [card[c] EXCEPT !.asks = p.asks]
      BY <2>2 DEF Takes, CardsOf, Cards
    <3>2. card'[c].rem = r
      BY <3>1, RowOfCard DEF CardRows
    <3> QED BY <3>1, <3>2 DEF CardsOf
  <2>3. ASSUME NEW p \in parsed, Comes(c, r, p) PROVE c \notin CardsOf(q) /\ c \notin CardsOf(q)'
    <3>1. card[c] = Nil /\ card'[c] = NewCard(r, p) /\ p \in Parsed
      BY <1>1, <2>3, TextParses DEF Comes, Synced
    <3>2. card'[c].rem = r
      BY <3>1, NewCardRow
    <3> QED BY <3>1, <3>2 DEF CardsOf, Cards
  <2>4. CASE Goes(c, r)
    BY <2>4 DEF Goes, CardsOf, Cards
  <2> QED BY <1>1, <2>1, <2>2, <2>3, <2>4 DEF Synced
<1>4. CardsOf(q)' = CardsOf(q) /\ \A c \in CardsOf(q) : card'[c] = card[c]
  BY <1>3 DEF CardsOf, Cards
<1>5. {Asks(c)' : c \in CardsOf(q)'} = {Asks(c) : c \in CardsOf(q)}
  BY <1>4 DEF Asks
<1> QED BY <1>2, <1>4, <1>5 DEF Matched

LEMMA SaysMatches ==
  ASSUME TypeOK, CardsMatchText, NEW r \in Rem, NEW t \in Text, Says(r, t)
  PROVE  CardsMatchText'
<1>1. \A q \in Rem : text'[q] # Nil => Matched(q)'
  BY SyncMatches, SyncLeavesOthers
<1>2. CardsMatchText' <=> \A q \in Rem : text'[q] # Nil => Matched(q)'
  BY DEF CardsMatchText, Matched, Asks
<1> QED BY <1>1, <1>2

----------------------------------------------------------------------------
(* The schedule of one card and its log.                                    *)

\* What LogExplainsCard and RelearningIsALapse say of one card.
Explained(c) ==
  /\ card[c].reps = Cardinality(Real(c))
  /\ card[c].lapses = Cardinality({i \in Real(c) : log[c][i].rating = Again})
  /\ Real(c) = {} =>
       card[c].state = "New" /\ card[c].last = Nil /\ card[c].stability = First[Good]
  /\ Real(c) # {} => \E n \in Real(c) :
       /\ \A i \in Real(c) : i <= n
       /\ card[c].state = log[c][n].state
       /\ card[c].stability = log[c][n].stability
       /\ card[c].last = log[c][n].at
       /\ card[c].due = log[c][n].at + log[c][n].days

Lapsed(c) ==
  \E b, i \in Real(c) :
    /\ b < i /\ \A j \in Real(c) : j <= b \/ i <= j
    /\ log[c][b].state = "Review"
    /\ log[c][i].rating = Again
    /\ \A j \in Real(c) : i <= j =>
         log[c][j].state = "Relearning" /\ log[c][j].rating \in {Again, Hard}

Story(c) == Explained(c) /\ (card[c].state = "Relearning" => Lapsed(c))

LEMMA Stories == LogExplainsCard /\ RelearningIsALapse <=> \A c \in Cards : Story(c)
BY DEF LogExplainsCard, RelearningIsALapse, Story, Explained, Lapsed

LEMMA StoriesNext ==
  LogExplainsCard' /\ RelearningIsALapse' <=> \A c \in Cards' : Story(c)'
BY DEF LogExplainsCard, RelearningIsALapse, Story, Explained, Lapsed

\* A card with its reviews that stays the same keeps its story.
LEMMA SameStory ==
  ASSUME NEW c \in Card, Story(c), SameCard(card'[c], card[c]), log'[c] = log[c]
  PROVE  Story(c)'
<1>1. Real(c)' = Real(c)
  BY DEF Real
<1> QED BY <1>1 DEF Story, Explained, Lapsed, SameCard

\* A new card has none.
LEMMA NewStory ==
  ASSUME NEW c \in Card, NEW r \in Rem, NEW p \in Parsed,
         card'[c] = NewCard(r, p), log'[c] = <<>>
  PROVE  Story(c)'
<1>1. Real(c)' = {} /\ {i \in Real(c)' : log'[c][i].rating = Again} = {}
  BY DEF Real
<1>2. /\ card'[c].reps = 0 /\ card'[c].lapses = 0 /\ card'[c].state = "New"
      /\ card'[c].last = Nil /\ card'[c].stability = First[Good]
  BY DEF NewCard
<1> QED BY <1>1, <1>2, FS_EmptySet DEF Story, Explained

LEMMA SaysStories ==
  ASSUME Inv, NEW r \in Rem, NEW t \in Text, Says(r, t)
  PROVE  LogExplainsCard' /\ RelearningIsALapse'
<1> SUFFICES ASSUME NEW c \in Cards' PROVE Story(c)'
  BY StoriesNext
<1>1. c \in Card /\ card'[c] # Nil /\ TypeOK
  BY DEF Cards, Inv
<1>2. CASE card[c] # Nil /\ SameCard(card'[c], card[c]) /\ log'[c] = log[c]
  <2>1. Story(c)
    BY <1>1, <1>2, Stories DEF Inv, Cards
  <2> QED BY <1>1, <1>2, <2>1, SameStory
<1>3. ASSUME NEW p \in Parsed, card'[c] = NewCard(r, p), log'[c] = <<>> PROVE Story(c)'
  BY <1>1, <1>3, NewStory
<1> QED BY <1>1, <1>2, <1>3, SyncedCard DEF Says

----------------------------------------------------------------------------
(* srs/fsrs.go.                                                             *)

Outcomes == [state : {"Learning", "Review", "Relearning"}, stability : Stability,
             days : 1..MaxInterval]

LEMMA OutcomeType ==
  ASSUME NEW x \in {"Learning", "Review", "Relearning"}, NEW s \in Stability, NEW d \in Int
  PROVE  Outcome(x, s, d) \in Outcomes /\ Outcome(x, s, d).state = x
<1>1. Smaller(Larger(d, 1), MaxInterval) \in 1..MaxInterval
  BY FlashcardsAssumption DEF Smaller, Larger
<1> QED BY <1>1 DEF Outcome, Outcomes

LEMMA IntervalType ==
  ASSUME NEW s \in Stability
  PROVE  /\ NextInterval(s) \in Int
         /\ \A g : FirstInterval(g, s) \in Int
<1>1. s \in Nat /\ MaxInterval \in Int /\ (s + 5) \div 10 \in Int
  BY FlashcardsAssumption
<1>2. NextInterval(s) \in Int
  BY <1>1 DEF NextInterval, Smaller, Larger
<1> QED BY <1>2 DEF FirstInterval, Larger

\* What each grade would make of a card: relearning comes of forgetting a card
\* in review and of not recalling one in relearning.
LEMMA PreviewTypes ==
  ASSUME NEW k \in CardRows, now \in Nat, NEW preview \in Previews(k), NEW g \in Grade
  PROVE  /\ preview[g] \in Outcomes
         /\ preview[g].state = "Relearning" =>
              \/ k.state = "Review" /\ g = Again
              \/ k.state = "Relearning" /\ g \in {Again, Hard}
<1> USE DEF Grade, Again, Hard, Good, Easy
<1>1. First[g] \in Stability /\ First[Again] \in Stability /\ k.stability \in Stability
  BY FlashcardsAssumption DEF CardRows
<1>2. CASE k.state = "New"
  <2>1. preview[g] = OfNew(g)
    BY <1>2 DEF Previews
  <2>2. Outcome("Learning", First[g], 1) \in Outcomes
        /\ Outcome("Learning", First[g], 1).state = "Learning"
    BY <1>1, OutcomeType
  <2>3. Outcome("Review", First[g], FirstInterval(g, First[g])) \in Outcomes
        /\ Outcome("Review", First[g], FirstInterval(g, First[g])).state = "Review"
    BY <1>1, OutcomeType, IntervalType
  <2> QED BY <2>1, <2>2, <2>3 DEF OfNew
<1>3. CASE k.state \in {"Learning", "Relearning"}
  <2>1. preview[g] = OfLearning(k, g)
    BY <1>3 DEF Previews
  <2>2. Outcome(k.state, First[Again], 1) \in Outcomes
        /\ Outcome(k.state, First[Again], 1).state = k.state
    BY <1>1, <1>3, OutcomeType
  <2>3. Outcome(k.state, k.stability, 1) \in Outcomes
        /\ Outcome(k.state, k.stability, 1).state = k.state
    BY <1>1, <1>3, OutcomeType
  <2>4. Outcome("Review", k.stability, FirstInterval(g, k.stability)) \in Outcomes
        /\ Outcome("Review", k.stability, FirstInterval(g, k.stability)).state = "Review"
    BY <1>1, OutcomeType, IntervalType
  <2>5. CASE g = Again
    BY <1>3, <2>1, <2>2, <2>5 DEF OfLearning
  <2>6. CASE g = Hard
    BY <1>3, <2>1, <2>3, <2>6 DEF OfLearning
  <2>7. CASE g \notin {Again, Hard}
    BY <1>3, <2>1, <2>4, <2>7 DEF OfLearning
  <2> QED BY <2>5, <2>6, <2>7
<1>4. CASE k.state = "Review"
  <2> DEFINE e == Elapsed(k)
  <2>1. e \in Int
    BY FlashcardsAssumption DEF Elapsed, CardRows
  <2>2. PICK x \in Recalls(k.stability, e), f \in {f \in Stability : f <= k.stability} :
          preview = OfReview(x, f, e)
    BY <1>4 DEF Previews
  <2>3. x[1] \in Stability /\ x[2] \in Stability /\ x[3] \in Stability /\ f \in Stability
    BY <1>1, <2>2 DEF Recalls
  <2> HIDE DEF e
  <2> DEFINE days == [h \in Hard..Easy |-> NextInterval(x[h - 1])]
             hard == IF days[Hard] <= e THEN e + 1 ELSE days[Hard]
             easy == IF days[Easy] <= days[Good] THEN days[Good] + 1 ELSE days[Easy]
  <2>4. days[2] = NextInterval(x[1]) /\ days[3] = NextInterval(x[2])
        /\ days[4] = NextInterval(x[3])
    OBVIOUS
  <2>5. preview = <<Outcome("Relearning", f, 1), Outcome("Review", x[1], hard),
                    Outcome("Review", x[2], days[Good]), Outcome("Review", x[3], easy)>>
    BY <2>2 DEF OfReview
  <2> HIDE DEF days
  <2>6. days[2] \in Int /\ days[3] \in Int /\ days[4] \in Int
    BY <2>3, <2>4, IntervalType
  <2>7. hard \in Int /\ easy \in Int
    BY <2>1, <2>6
  <2> HIDE DEF hard, easy
  <2>8. /\ Outcome("Relearning", f, 1) \in Outcomes
        /\ Outcome("Review", x[1], hard) \in Outcomes
        /\ Outcome("Review", x[1], hard).state = "Review"
        /\ Outcome("Review", x[2], days[3]) \in Outcomes
        /\ Outcome("Review", x[2], days[3]).state = "Review"
        /\ Outcome("Review", x[3], easy) \in Outcomes
        /\ Outcome("Review", x[3], easy).state = "Review"
    BY <2>3, <2>6, <2>7, OutcomeType
  <2> QED BY <1>4, <2>5, <2>8
<1> QED BY <1>2, <1>3, <1>4 DEF CardRows

----------------------------------------------------------------------------
(* ReviewCard.                                                              *)

\* What a review with the outcome o adds to the log, and makes of the card.
Entry(rating, isCram, o) ==
  [rating |-> rating, cram |-> isCram, state |-> o.state,
   stability |-> o.stability, days |-> o.days, at |-> now]

Reviewing(c, rating, isCram, o) ==
  /\ card[c] # Nil /\ o \in Outcomes
  /\ o.state = "Relearning" =>
       \/ card[c].state = "Review" /\ rating = Again
       \/ card[c].state = "Relearning" /\ rating \in {Again, Hard}
  /\ log' = [log EXCEPT ![c] = Append(@, Entry(rating, isCram, o))]
  /\ IF isCram THEN UNCHANGED card
     ELSE card' = [card EXCEPT ![c] = Reviewed(@, Graded(rating), o)]
  /\ UNCHANGED <<text, now>>

LEMMA ReviewReviews ==
  ASSUME TypeOK, NEW c \in Card, NEW rating \in Rating, NEW isCram \in BOOLEAN,
         ReviewCard(c, rating, isCram)
  PROVE  \E o : Reviewing(c, rating, isCram, o)
<1> DEFINE g == Graded(rating)
<1>1. g \in Grade /\ (g \in {Again, Hard} => rating = g)
  BY DEF Graded, Grade, Good, Again, Hard
<1>2. card[c] # Nil /\ card[c] \in CardRows /\ now \in Nat
  BY RowOfCard DEF ReviewCard, TypeOK
<1>3. PICK preview \in Previews(card[c]) :
        /\ log' = [log EXCEPT ![c] = Append(@, Entry(rating, isCram, preview[g]))]
        /\ IF isCram THEN UNCHANGED card
           ELSE card' = [card EXCEPT ![c] = Reviewed(@, g, preview[g])]
  BY DEF ReviewCard, Entry
<1> HIDE DEF g
<1>4. /\ preview[g] \in Outcomes
      /\ preview[g].state = "Relearning" =>
           \/ card[c].state = "Review" /\ g = Again
           \/ card[c].state = "Relearning" /\ g \in {Again, Hard}
  BY <1>1, <1>2, PreviewTypes
<1>5. /\ preview[g].state = "Relearning" =>
           \/ card[c].state = "Review" /\ rating = Again
           \/ card[c].state = "Relearning" /\ rating \in {Again, Hard}
  BY <1>1, <1>4 DEF Again, Hard
<1>6. Reviewing(c, rating, isCram, preview[g])
  BY <1>2, <1>3, <1>4, <1>5 DEF Reviewing, ReviewCard, g
<1> QED BY <1>6

\* The card after a review.
LEMMA ReviewedRow ==
  ASSUME NEW k \in CardRows, NEW g, NEW o \in Outcomes, now \in Nat
  PROVE  LET l == Reviewed(k, g, o)
         IN /\ l \in CardRows
            /\ l.rem = k.rem /\ l.type = k.type /\ l.index = k.index /\ l.asks = k.asks
            /\ l.state = o.state /\ l.stability = o.stability /\ l.reps = k.reps + 1
            /\ l.lapses = IF g = Again THEN k.lapses + 1 ELSE k.lapses
            /\ l.last = now /\ l.due = now + o.days
<1> DEFINE m == IF g = Again THEN k.lapses + 1 ELSE k.lapses
<1>1. /\ k.reps + 1 \in Nat /\ m \in Nat /\ now + o.days \in Nat
      /\ o.state \in {"New", "Learning", "Review", "Relearning"} /\ o.stability \in Stability
  BY FlashcardsAssumption DEF CardRows, Outcomes
<1>2. Reviewed(k, g, o) =
        [k EXCEPT !.state = o.state, !.stability = o.stability, !.reps = k.reps + 1,
                  !.lapses = m, !.last = now, !.due = now + o.days]
  BY DEF Reviewed, CardRows
<1> HIDE DEF m
<1>3. Reviewed(k, g, o) \in CardRows
  BY <1>1, <1>2 DEF CardRows
<1>4. /\ Reviewed(k, g, o).rem = k.rem /\ Reviewed(k, g, o).type = k.type
      /\ Reviewed(k, g, o).index = k.index /\ Reviewed(k, g, o).asks = k.asks
      /\ Reviewed(k, g, o).state = o.state /\ Reviewed(k, g, o).stability = o.stability
      /\ Reviewed(k, g, o).reps = k.reps + 1 /\ Reviewed(k, g, o).lapses = m
      /\ Reviewed(k, g, o).last = now /\ Reviewed(k, g, o).due = now + o.days
  BY <1>2 DEF CardRows
<1> QED BY <1>3, <1>4 DEF m

LEMMA EntryRow ==
  ASSUME NEW rating \in Rating, NEW isCram \in BOOLEAN, NEW o \in Outcomes, now \in Nat
  PROVE  Entry(rating, isCram, o) \in ReviewRows
BY DEF Entry, ReviewRows, Outcomes

\* What an append does to a log.
LEMMA Appended ==
  ASSUME NEW l \in Seq(ReviewRows), NEW e \in ReviewRows
  PROVE  /\ Append(l, e) \in Seq(ReviewRows)
         /\ Len(l) \in Nat /\ DOMAIN l = 1..Len(l)
         /\ DOMAIN Append(l, e) = DOMAIN l \union {Len(l) + 1}
         /\ Append(l, e)[Len(l) + 1] = e
         /\ \A i \in DOMAIN l : Append(l, e)[i] = l[i] /\ i < Len(l) + 1
OBVIOUS

LEMMA ReviewTypes ==
  ASSUME TypeOK, NEW c \in Card, NEW rating \in Rating, NEW isCram \in BOOLEAN, NEW o,
         Reviewing(c, rating, isCram, o)
  PROVE  /\ TypeOK'
         /\ \A d \in Card \ {c} : card'[d] = card[d] /\ log'[d] = log[d]
         /\ log'[c] = Append(log[c], Entry(rating, isCram, o))
         /\ card'[c] = IF isCram THEN card[c] ELSE Reviewed(card[c], Graded(rating), o)
<1>1. /\ o \in Outcomes /\ now \in Nat /\ card[c] \in CardRows /\ card[c] # Nil
      /\ log[c] \in Seq(ReviewRows) /\ UNCHANGED <<text, now>>
  BY RowOfCard DEF Reviewing, TypeOK
<1>2. Entry(rating, isCram, o) \in ReviewRows /\ Entry(rating, isCram, o).at = now
  BY <1>1, EntryRow DEF Entry
<1>3. /\ log' \in [Card -> Seq(ReviewRows)]
      /\ log'[c] = Append(log[c], Entry(rating, isCram, o))
      /\ \A d \in Card \ {c} : log'[d] = log[d]
  BY <1>1, <1>2, Appended DEF Reviewing, TypeOK
<1>4. /\ Reviewed(card[c], Graded(rating), o) \in CardRows
      /\ Reviewed(card[c], Graded(rating), o).rem = card[c].rem
  BY <1>1, ReviewedRow
<1>5. /\ card' \in [Card -> CardRows \union {Nil}]
      /\ card'[c] = IF isCram THEN card[c] ELSE Reviewed(card[c], Graded(rating), o)
      /\ \A d \in Card \ {c} : card'[d] = card[d]
  BY <1>1, <1>4 DEF Reviewing, TypeOK
<1>6. card'[c] \in CardRows /\ card'[c] # Nil /\ card'[c].rem = card[c].rem
  BY <1>1, <1>4, <1>5, FlashcardsAssumption
<1>7. \A i \in DOMAIN log'[c] : log'[c][i].at <= now
  BY <1>1, <1>2, <1>3, Appended DEF TypeOK
<1>8. ASSUME NEW d \in Card
      PROVE  /\ card'[d] = Nil => log'[d] = <<>>
             /\ card'[d] # Nil => text'[card'[d].rem] # Nil
             /\ \A i \in DOMAIN log'[d] : log'[d][i].at <= now'
  <2>1. CASE d = c
    BY <1>1, <1>6, <1>7, <2>1 DEF TypeOK
  <2>2. CASE d # c
    BY <1>1, <1>3, <1>5, <2>2 DEF TypeOK
  <2> QED BY <2>1, <2>2
<1>9. text' \in [Rem -> Text \union {Nil}] /\ now' \in 0..MaxDay
  BY <1>1 DEF TypeOK
<1> QED BY <1>3, <1>5, <1>8, <1>9 DEF TypeOK

\* A review leaves each bullet the cards that it had, asking what they asked.
LEMMA ReviewMatches ==
  ASSUME TypeOK, CardsMatchText, NEW c \in Card, NEW rating \in Rating,
         NEW isCram \in BOOLEAN, NEW o, Reviewing(c, rating, isCram, o)
  PROVE  CardsMatchText'
<1>1. /\ o \in Outcomes /\ now \in Nat /\ card[c] \in CardRows /\ card[c] # Nil
      /\ text' = text
  BY RowOfCard DEF Reviewing, TypeOK
<1>2. ASSUME NEW d \in Card
      PROVE  /\ card'[d] # Nil <=> card[d] # Nil
             /\ card[d] # Nil =>
                  /\ card'[d].rem = card[d].rem /\ Key(card'[d]) = Key(card[d])
                  /\ Asks(d)' = Asks(d)
  <2>1. CASE d # c
    BY <2>1, ReviewTypes DEF Asks
  <2>2. CASE d = c /\ isCram
    BY <2>2, ReviewTypes DEF Asks
  <2>3. CASE d = c /\ ~isCram
    <3>1. card'[c] = Reviewed(card[c], Graded(rating), o)
      BY <2>3, ReviewTypes
    <3>2. /\ card'[c] \in CardRows
          /\ card'[c].rem = card[c].rem /\ card'[c].type = card[c].type
          /\ card'[c].index = card[c].index /\ card'[c].asks = card[c].asks
      BY <1>1, <3>1, ReviewedRow
    <3> QED BY <1>1, <2>3, <3>2, FlashcardsAssumption DEF Asks, Key
  <2> QED BY <2>1, <2>2, <2>3
<1>3. \A r \in Rem : CardsOf(r)' = CardsOf(r)
  BY <1>2 DEF CardsOf, Cards
<1>4. ASSUME NEW r \in Rem, NEW d \in CardsOf(r)
      PROVE  Asks(d)' = Asks(d) /\ Key(card'[d]) = Key(card[d])
  BY <1>2 DEF CardsOf, Cards
<1>5. ASSUME NEW r \in Rem, text'[r] # Nil PROVE Matched(r)'
  <2>1. Matched(r)
    BY <1>1, <1>5, MatchedBullets
  <2>2. {Asks(d)' : d \in CardsOf(r)'} = {Asks(d) : d \in CardsOf(r)}
    BY <1>3, <1>4
  <2> QED BY <1>1, <1>3, <1>4, <2>1, <2>2 DEF Matched
<1>6. CardsMatchText' <=> \A q \in Rem : text'[q] # Nil => Matched(q)'
  BY DEF CardsMatchText, Matched, Asks
<1> QED BY <1>5, <1>6

\* The places of the reviews outside cram mode after a review of c.
LEMMA RealAppended ==
  ASSUME TypeOK, NEW c \in Card, NEW rating \in Rating, NEW isCram \in BOOLEAN, NEW o,
         Reviewing(c, rating, isCram, o)
  PROVE  LET m == Len(log[c]) + 1
         IN /\ m \in Nat /\ Real(c) \subseteq Nat /\ m \notin Real(c)
            /\ \A i \in Real(c) : i < m /\ log'[c][i] = log[c][i]
            /\ log'[c][m] = Entry(rating, isCram, o)
            /\ Real(c)' = IF isCram THEN Real(c) ELSE Real(c) \union {m}
            /\ IsFiniteSet(Real(c))
<1> DEFINE m == Len(log[c]) + 1
           e == Entry(rating, isCram, o)
<1>1. /\ log[c] \in Seq(ReviewRows) /\ e \in ReviewRows
      /\ log'[c] = Append(log[c], e)
  BY ReviewTypes, EntryRow DEF TypeOK, Reviewing
<1>2. e.cram = isCram
  BY DEF Entry
<1>3. /\ Len(log[c]) \in Nat /\ DOMAIN log[c] = 1..Len(log[c])
      /\ DOMAIN log'[c] = DOMAIN log[c] \union {m}
      /\ log'[c][m] = e
      /\ \A i \in DOMAIN log[c] : log'[c][i] = log[c][i] /\ i < m
  BY <1>1, Appended
<1>4. Real(c)' = {i \in DOMAIN log[c] \union {m} : ~log'[c][i].cram}
  BY <1>3 DEF Real
<1>5. m \notin DOMAIN log[c] /\ m \in Nat
  BY <1>3
<1> HIDE DEF m, e
<1>6. Real(c)' = IF isCram THEN Real(c) ELSE Real(c) \union {m}
  BY <1>2, <1>3, <1>4, <1>5 DEF Real
<1>7. IsFiniteSet(1..Len(log[c]))
  <2>1. Len(log[c]) \in Int /\ 1 \in Int
    BY <1>3
  <2> QED BY <2>1, FS_Interval
<1>8. IsFiniteSet(Real(c)) /\ Real(c) \subseteq DOMAIN log[c]
  BY <1>3, <1>7, FS_Subset DEF Real
<1>9. Real(c) \subseteq Nat
  BY <1>3, <1>8
<1> QED BY <1>3, <1>5, <1>6, <1>8, <1>9 DEF m, e

\* A review in cram mode leaves the story of the card.
LEMMA CramStory ==
  ASSUME TypeOK, NEW c \in Card, NEW rating \in Rating, NEW o,
         Reviewing(c, rating, TRUE, o), Story(c)
  PROVE  Story(c)'
<1>1. Real(c)' = Real(c) /\ \A i \in Real(c) : log'[c][i] = log[c][i]
  BY RealAppended
<1>2. card'[c] = card[c]
  BY DEF Reviewing
<1>3. {i \in Real(c)' : log'[c][i].rating = Again} = {i \in Real(c) : log[c][i].rating = Again}
  BY <1>1
<1>4. Explained(c)'
  BY <1>1, <1>2, <1>3 DEF Story, Explained
<1>5. Lapsed(c) => Lapsed(c)'
  BY <1>1 DEF Lapsed
<1> QED BY <1>2, <1>4, <1>5 DEF Story

\* Any other review adds to it.
LEMMA ReviewStory ==
  ASSUME TypeOK, NEW c \in Card, NEW rating \in Rating, NEW o,
         Reviewing(c, rating, FALSE, o), Story(c)
  PROVE  Story(c)'
<1> DEFINE m == Len(log[c]) + 1
           e == Entry(rating, FALSE, o)
           agains == {i \in Real(c) : log[c][i].rating = Again}
           agains1 == {i \in Real(c)' : log'[c][i].rating = Again}
<1>1. /\ m \in Nat /\ Real(c) \subseteq Nat /\ m \notin Real(c)
      /\ \A i \in Real(c) : i < m /\ log'[c][i] = log[c][i]
      /\ log'[c][m] = e /\ Real(c)' = Real(c) \union {m}
      /\ IsFiniteSet(Real(c))
  BY RealAppended, ZenonT(40)
<1>2. /\ e.rating = rating /\ e.state = o.state /\ e.stability = o.stability
      /\ e.days = o.days /\ e.at = now
  BY DEF Entry
<1>3. /\ o \in Outcomes /\ now \in Nat /\ card[c] # Nil /\ card[c] \in CardRows
      /\ o.state = "Relearning" =>
           \/ card[c].state = "Review" /\ rating = Again
           \/ card[c].state = "Relearning" /\ rating \in {Again, Hard}
  BY RowOfCard DEF Reviewing, TypeOK
<1>4. card'[c] = Reviewed(card[c], Graded(rating), o)
  BY ReviewTypes
<1>5. /\ card'[c].state = o.state /\ card'[c].stability = o.stability
      /\ card'[c].reps = card[c].reps + 1
      /\ card'[c].lapses = IF Graded(rating) = Again THEN card[c].lapses + 1 ELSE card[c].lapses
      /\ card'[c].last = now /\ card'[c].due = now + o.days
  BY <1>3, <1>4, ReviewedRow
<1>6. Graded(rating) = Again <=> rating = Again
  BY DEF Graded, Again, Good, Grade
<1> HIDE DEF m, e
<1>7. card'[c].reps = Cardinality(Real(c)')
  <2>1. Cardinality(Real(c)') = Cardinality(Real(c)) + 1
    BY <1>1, FS_AddElement
  <2> QED BY <1>5, <2>1 DEF Story, Explained
<1>8. card'[c].lapses = Cardinality(agains1)
  <2>1. IsFiniteSet(agains) /\ m \notin agains
    BY <1>1, FS_Subset
  <2>2. card[c].lapses = Cardinality(agains)
    BY DEF Story, Explained
  <2>3. CASE rating = Again
    <3>1. agains1 = agains \union {m}
      BY <1>1, <1>2, <2>3
    <3>2. Cardinality(agains \union {m}) = Cardinality(agains) + 1
      BY <2>1, FS_AddElement
    <3> QED BY <1>5, <1>6, <2>2, <2>3, <3>1, <3>2
  <2>4. CASE rating # Again
    <3>1. agains1 = agains
      BY <1>1, <1>2, <2>4
    <3> QED BY <1>5, <1>6, <2>2, <2>4, <3>1
  <2> QED BY <2>3, <2>4
<1>9. Real(c)' # {} /\ \E n \in Real(c)' :
        /\ \A i \in Real(c)' : i <= n
        /\ card'[c].state = log'[c][n].state
        /\ card'[c].stability = log'[c][n].stability
        /\ card'[c].last = log'[c][n].at
        /\ card'[c].due = log'[c][n].at + log'[c][n].days
  <2>1. m \in Real(c)' /\ \A i \in Real(c)' : i <= m
    BY <1>1
  <2> QED BY <1>1, <1>2, <1>5, <2>1
<1>10. Explained(c)'
  BY <1>7, <1>8, <1>9 DEF Explained
<1>11. ASSUME card'[c].state = "Relearning" PROVE Lapsed(c)'
  <2>1. CASE card[c].state = "Review" /\ rating = Again
    <3>1. Real(c) # {}
      BY <2>1 DEF Story, Explained
    <3>2. PICK n \in Real(c) : /\ \A i \in Real(c) : i <= n
                               /\ log[c][n].state = "Review"
      BY <2>1, <3>1 DEF Story, Explained
    <3>3. n \in Real(c)' /\ m \in Real(c)' /\ n < m
      BY <1>1
    <3>4. \A j \in Real(c)' : j <= n \/ m <= j
      BY <1>1, <3>2
    <3>5. \A j \in Real(c)' : m <= j => j = m
      BY <1>1
    <3>6. log'[c][n].state = "Review" /\ log'[c][m].rating = Again
          /\ log'[c][m].state = "Relearning"
      BY <1>1, <1>2, <1>5, <1>11, <2>1, <3>2
    <3> QED BY <3>3, <3>4, <3>5, <3>6 DEF Lapsed
  <2>2. CASE card[c].state = "Relearning" /\ rating \in {Again, Hard}
    <3>1. PICK b \in Real(c), i \in Real(c) :
            /\ b < i /\ \A j \in Real(c) : j <= b \/ i <= j
            /\ log[c][b].state = "Review"
            /\ log[c][i].rating = Again
            /\ \A j \in Real(c) : i <= j =>
                 log[c][j].state = "Relearning" /\ log[c][j].rating \in {Again, Hard}
      BY <2>2 DEF Story, Lapsed
    <3>2. b \in Real(c)' /\ i \in Real(c)' /\ i < m
      BY <1>1
    <3>3. \A j \in Real(c)' : j <= b \/ i <= j
      BY <1>1, <3>1, <3>2
    <3>4. \A j \in Real(c)' : i <= j =>
            log'[c][j].state = "Relearning" /\ log'[c][j].rating \in {Again, Hard}
      <4> TAKE j \in Real(c)'
      <4>1. CASE j = m
        BY <1>1, <1>2, <1>5, <1>11, <2>2, <4>1
      <4>2. CASE j \in Real(c)
        BY <1>1, <3>1, <4>2
      <4> QED BY <1>1, <4>1, <4>2
    <3> QED BY <1>1, <3>1, <3>2, <3>3, <3>4 DEF Lapsed
  <2> QED BY <1>3, <1>5, <1>11, <2>1, <2>2
<1> QED BY <1>10, <1>11 DEF Story

LEMMA ReviewStories ==
  ASSUME Inv, NEW c \in Card, NEW rating \in Rating, NEW isCram \in BOOLEAN, NEW o,
         Reviewing(c, rating, isCram, o)
  PROVE  LogExplainsCard' /\ RelearningIsALapse'
<1> SUFFICES ASSUME NEW d \in Cards' PROVE Story(d)'
  BY StoriesNext
<1>1. d \in Card /\ card'[d] # Nil /\ TypeOK
  BY DEF Cards, Inv
<1>2. \A k \in Cards : Story(k)
  BY Stories DEF Inv
<1>3. CASE d = c
  <2>1. Story(c)
    BY <1>2 DEF Reviewing, Cards
  <2> QED BY <1>1, <1>3, <2>1, CramStory, ReviewStory
<1>4. CASE d # c
  <2>1. card'[d] = card[d] /\ log'[d] = log[d]
    BY <1>1, <1>4, ReviewTypes
  <2>2. Story(d)
    BY <1>1, <1>2, <2>1 DEF Cards
  <2> QED BY <1>1, <2>1, <2>2, SameStory DEF SameCard
<1> QED BY <1>3, <1>4

----------------------------------------------------------------------------
\* A bullet is deleted with its cards and their reviews.
LEMMA DeleteKeeps ==
  ASSUME Inv, NEW r \in Rem, DeleteRem(r)
  PROVE  Inv'
<1>1. TypeOK
  BY DEF Inv
<1>2. ASSUME NEW c \in Card
      PROVE  \/ card'[c] = Nil /\ log'[c] = <<>>
             \/ card[c] # Nil /\ card'[c] = card[c] /\ log'[c] = log[c] /\ card[c].rem # r
  <2>1. CASE c \in CardsOf(r)
    BY <2>1 DEF DeleteRem
  <2>2. CASE c \notin CardsOf(r)
    BY <1>1, <2>2 DEF DeleteRem, CardsOf, Cards, TypeOK
  <2> QED BY <2>1, <2>2
<1>3. /\ text' \in [Rem -> Text \union {Nil}] /\ text'[r] = Nil /\ now' = now
      /\ \A q \in Rem \ {r} : text'[q] = text[q]
  BY <1>1 DEF DeleteRem, TypeOK
<1>4. TypeOK'
  <2>1. card' \in [Card -> CardRows \union {Nil}]
    BY <1>1 DEF DeleteRem, TypeOK
  <2>2. log' \in [Card -> Seq(ReviewRows)]
    BY <1>1 DEF DeleteRem, TypeOK
  <2>3. ASSUME NEW c \in Card
        PROVE  /\ card'[c] = Nil => log'[c] = <<>>
               /\ card'[c] # Nil => text'[card'[c].rem] # Nil
               /\ \A i \in DOMAIN log'[c] : log'[c][i].at <= now'
    <3>1. CASE card'[c] = Nil /\ log'[c] = <<>>
      BY <3>1
    <3>2. CASE /\ card[c] # Nil /\ card'[c] = card[c] /\ log'[c] = log[c]
               /\ card[c].rem # r
      <4>1. card[c].rem \in Rem
        BY <1>1, <3>2, RowOfCard DEF CardRows
      <4> QED BY <1>1, <1>3, <3>2, <4>1 DEF TypeOK
    <3> QED BY <1>2, <3>1, <3>2
  <2> QED BY <1>1, <1>3, <2>1, <2>2, <2>3 DEF TypeOK
<1>5. CardsMatchText'
  <2>1. ASSUME NEW q \in Rem, text'[q] # Nil PROVE Matched(q)'
    <3>1. q # r /\ text'[q] = text[q] /\ Matched(q)
      BY <1>3, <2>1, MatchedBullets DEF Inv
    <3>2. \A c \in Card : /\ c \in CardsOf(q)' <=> c \in CardsOf(q)
                          /\ c \in CardsOf(q) => card'[c] = card[c]
      BY <1>2, <3>1 DEF CardsOf, Cards, DeleteRem
    <3>3. CardsOf(q)' = CardsOf(q) /\ \A c \in CardsOf(q) : card'[c] = card[c]
      BY <3>2 DEF CardsOf, Cards
    <3>4. {Asks(c)' : c \in CardsOf(q)'} = {Asks(c) : c \in CardsOf(q)}
      BY <3>3 DEF Asks
    <3> QED BY <3>1, <3>3, <3>4 DEF Matched
  <2>2. CardsMatchText' <=> \A q \in Rem : text'[q] # Nil => Matched(q)'
    BY DEF CardsMatchText, Matched, Asks
  <2> QED BY <2>1, <2>2
<1>6. LogExplainsCard' /\ RelearningIsALapse'
  <2> SUFFICES ASSUME NEW c \in Cards' PROVE Story(c)'
    BY StoriesNext
  <2>1. /\ c \in Card /\ card[c] # Nil /\ card'[c] = card[c] /\ log'[c] = log[c]
    BY <1>2 DEF Cards
  <2>2. Story(c)
    BY <2>1, Stories DEF Inv, Cards
  <2> QED BY <2>1, <2>2, SameStory DEF SameCard
<1> QED BY <1>4, <1>5, <1>6 DEF Inv

\* Creating, updating and re-syncing a bullet are all syncs.
LEMMA EditsSay ==
  ASSUME TypeOK, NEW r \in Rem
  PROVE  /\ \A t \in Text : CreateRem(r, t) \/ UpdateRem(r, t) => Says(r, t)
         /\ ResyncParent(r) => text[r] \in Text /\ Says(r, text[r])
<1>1. text \in [Rem -> Text \union {Nil}]
  BY DEF TypeOK
<1>2. ASSUME NEW t \in Text, CreateRem(r, t) \/ UpdateRem(r, t) PROVE Says(r, t)
  BY <1>1, <1>2 DEF CreateRem, UpdateRem, Says
<1>3. ASSUME ResyncParent(r) PROVE text[r] \in Text /\ Says(r, text[r])
  BY <1>1, <1>3 DEF ResyncParent, Says
<1> QED BY <1>2, <1>3

LEMMA InitInv == Init => Inv
<1> SUFFICES ASSUME Init PROVE Inv
  OBVIOUS
<1>1. Cards = {} /\ \A r \in Rem : text[r] = Nil
  BY DEF Init, Cards
<1>2. TypeOK
  BY FlashcardsAssumption DEF Init, TypeOK
<1> QED BY <1>1, <1>2 DEF Inv, CardsMatchText, LogExplainsCard, RelearningIsALapse

LEMMA Step == Inv /\ [Next]_vars => Inv'
<1> SUFFICES ASSUME Inv, [Next]_vars PROVE Inv'
  OBVIOUS
<1>1. ASSUME NEW r \in Rem, NEW t \in Text, Says(r, t) PROVE Inv'
  BY <1>1, SaysTypes, SaysMatches, SaysStories DEF Inv
<1>2. ASSUME NEW r \in Rem, NEW t \in Text, CreateRem(r, t) \/ UpdateRem(r, t) PROVE Inv'
  BY <1>1, <1>2, EditsSay DEF Inv
<1>3. ASSUME NEW r \in Rem, ResyncParent(r) PROVE Inv'
  BY <1>1, <1>3, EditsSay DEF Inv
<1>4. ASSUME NEW r \in Rem, DeleteRem(r) PROVE Inv'
  BY <1>4, DeleteKeeps
<1>5. ASSUME NEW c \in Card, NEW rating \in Rating, NEW isCram \in BOOLEAN,
             ReviewCard(c, rating, isCram)
      PROVE  Inv'
  <2>1. PICK o : Reviewing(c, rating, isCram, o)
    BY <1>5, ReviewReviews DEF Inv
  <2> QED BY <2>1, ReviewTypes, ReviewMatches, ReviewStories DEF Inv
<1>6. CASE UNCHANGED <<text, card, log>> /\ now' \in 0..MaxDay /\ now <= now'
  <2>1. TypeOK'
    <3>1. ASSUME NEW c \in Card, NEW i \in DOMAIN log[c] PROVE log[c][i].at <= now'
      <4>1. log[c] \in Seq(ReviewRows) /\ log[c][i].at <= now /\ now \in Nat
        BY DEF Inv, TypeOK
      <4>2. log[c][i] \in ReviewRows
        BY <4>1
      <4>3. log[c][i].at \in Nat
        BY <4>2 DEF ReviewRows
      <4> QED BY <1>6, <4>1, <4>3
    <3> QED BY <1>6, <3>1 DEF Inv, TypeOK
  <2>2. CardsMatchText'
    BY <1>6 DEF Inv, CardsMatchText, CardsOf, Cards
  <2>3. LogExplainsCard' /\ RelearningIsALapse'
    BY <1>6 DEF Inv, LogExplainsCard, RelearningIsALapse, Real, Cards
  <2> QED BY <2>1, <2>2, <2>3 DEF Inv
<1>7. CASE NextDay
  <2>1. now' \in 0..MaxDay /\ now <= now'
    BY <1>7, FlashcardsAssumption DEF NextDay, Inv, TypeOK
  <2> QED BY <1>6, <1>7, <2>1 DEF NextDay
<1>8. CASE UNCHANGED vars
  <2>1. now' \in 0..MaxDay /\ now <= now'
    BY <1>8 DEF vars, Inv, TypeOK
  <2> QED BY <1>6, <1>8, <2>1 DEF vars
<1> QED BY <1>2, <1>3, <1>4, <1>5, <1>7, <1>8 DEF Next

\* The inductive invariant.
LEMMA Invariance == Spec => []Inv
BY InitInv, Step, PTL DEF Spec

\* Bullets, cards and reviews keep their types; a card belongs to a bullet and
\* reviews to a card, and none dates from a later day.
THEOREM TypeCorrect == Spec => []TypeOK
<1>1. Inv => TypeOK
  BY DEF Inv
<1> QED BY <1>1, Invariance, PTL

\* After any edits, a bullet has exactly the cards that its text calls for,
\* each once, list cards aside.
THEOREM MatchesText == Spec => []CardsMatchText
<1>1. Inv => CardsMatchText
  BY DEF Inv
<1> QED BY <1>1, Invariance, PTL

\* The schedule of a card is what its reviews outside cram mode add up to, for
\* any weights and any growth of the stability.
THEOREM LogExplains == Spec => []LogExplainsCard
<1>1. Inv => LogExplainsCard
  BY DEF Inv
<1> QED BY <1>1, Invariance, PTL

\* A card is in relearning only after a lapse out of review.
THEOREM Relearning == Spec => []RelearningIsALapse
<1>1. Inv => RelearningIsALapse
  BY DEF Inv
<1> QED BY <1>1, Invariance, PTL

\* What EditKeepsCards says of one card in a step.
Keeps(c) ==
  LET t == text'[card[c].rem] IN
  /\ t # Nil
  /\ card[c].type # "list"
  /\ \E p \in ParsedCards(t) : Key(p) = Key(card[c])
  => card'[c] # Nil /\ Key(card'[c]) = Key(card[c])

\* A sync deletes only cards that are not asked any more.
LEMMA SyncKeeps ==
  ASSUME TypeOK, NEW r \in Rem, NEW t \in Text, Says(r, t), NEW c \in Cards
  PROVE  Keeps(c)
<1>1. PICK parsed : Synced(r, t, parsed)
  BY SyncSyncs DEF Says
<1>2. c \in Card /\ card[c] # Nil /\ card[c] \in CardRows
  BY RowOfCard DEF Cards
<1>3. CASE Stays(c, r)
  BY <1>2, <1>3 DEF Stays, Keeps
<1>4. ASSUME NEW p \in parsed, Takes(c, r, p) PROVE Keeps(c)
  <2>1. /\ card'[c] = [card[c] EXCEPT !.asks = p.asks] /\ p.asks \in SUBSET Fact
    BY <1>1, <1>4, TextParses DEF Takes, Synced, Parsed
  <2>2. card'[c] \in CardRows /\ Key(card'[c]) = Key(card[c])
    BY <1>2, <2>1, AsksOther DEF SameCard
  <2> QED BY <2>2, FlashcardsAssumption DEF Keeps
<1>5. CASE Goes(c, r) /\ \A p \in parsed : Key(p) # Key(card[c])
  <2>1. text'[card[c].rem] = t
    BY <1>2, <1>5 DEF Goes, CardsOf, Says, CardRows
  <2>2. ASSUME NEW p \in ParsedCards(t), Key(p) = Key(card[c]) PROVE card[c].type = "list"
    <3>1. p.type = card[c].type
      BY <2>2 DEF Key
    <3> QED BY <1>1, <1>5, <2>2, <3>1 DEF Synced
  <2> QED BY <2>1, <2>2 DEF Keeps
<1> QED BY <1>1, <1>2, <1>3, <1>4, <1>5 DEF Synced, Comes

\* An edit never takes from a bullet a card that its new text asks under the
\* same type and index, and so never the history of the card, lists aside.
THEOREM EditsKeepCards == Spec => EditKeepsCards
<1>1. ASSUME Inv, [Next]_vars, NEW c \in Cards PROVE Keeps(c) \/ UNCHANGED vars
  <2>0. TypeOK /\ c \in Card /\ card[c] # Nil
    BY <1>1 DEF Inv, Cards
  <2>1. ASSUME NEW r \in Rem, NEW t \in Text, Says(r, t) PROVE Keeps(c)
    BY <1>1, <2>0, <2>1, SyncKeeps
  <2>2. ASSUME NEW r \in Rem, NEW t \in Text, CreateRem(r, t) \/ UpdateRem(r, t)
        PROVE  Keeps(c)
    BY <2>0, <2>1, <2>2, EditsSay
  <2>3. ASSUME NEW r \in Rem, ResyncParent(r) PROVE Keeps(c)
    BY <2>0, <2>1, <2>3, EditsSay
  <2>4. ASSUME NEW r \in Rem, DeleteRem(r) PROVE Keeps(c)
    <3>1. CASE card[c].rem = r
      BY <2>0, <2>4, <3>1 DEF DeleteRem, Keeps, TypeOK
    <3>2. CASE card[c].rem # r
      BY <2>0, <2>4, <3>2 DEF DeleteRem, Keeps, CardsOf
    <3> QED BY <3>1, <3>2
  <2>5. ASSUME NEW d \in Card, NEW rating \in Rating, NEW isCram \in BOOLEAN,
               ReviewCard(d, rating, isCram)
        PROVE  Keeps(c)
    <3>1. PICK o : Reviewing(d, rating, isCram, o)
      BY <2>0, <2>5, ReviewReviews
    <3>2. CASE c # d \/ isCram
      BY <2>0, <3>1, <3>2, ReviewTypes DEF Keeps
    <3>3. CASE c = d /\ ~isCram
      <4>1. card[c] \in CardRows /\ o \in Outcomes /\ now \in Nat
        BY <2>0, <3>1, RowOfCard DEF Reviewing, TypeOK
      <4>2. card'[c] = Reviewed(card[c], Graded(rating), o)
        BY <2>0, <3>1, <3>3, ReviewTypes
      <4>3. /\ card'[c] \in CardRows /\ card'[c].type = card[c].type
            /\ card'[c].index = card[c].index
        BY <4>1, <4>2, ReviewedRow
      <4> QED BY <4>3, FlashcardsAssumption DEF Keeps, Key
    <3> QED BY <3>2, <3>3
  <2>6. CASE NextDay
    BY <2>0, <2>6 DEF NextDay, Keeps
  <2>7. CASE UNCHANGED vars
    BY <2>7
  <2> QED BY <1>1, <2>2, <2>3, <2>4, <2>5, <2>6, <2>7 DEF Next
<1>2. Inv /\ [Next]_vars =>
        [\A c \in Cards :
           LET t == text'[card[c].rem] IN
           /\ t # Nil
           /\ card[c].type # "list"
           /\ \E p \in ParsedCards(t) : Key(p) = Key(card[c])
           => card'[c] # Nil /\ Key(card'[c]) = Key(card[c])]_vars
  BY <1>1 DEF Keeps
<1> QED BY <1>2, Invariance, PTL DEF Spec, EditKeepsCards
=============================================================================
