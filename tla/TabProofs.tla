------------------------------ MODULE TabProofs ------------------------------
(***************************************************************************)
(* Theorems about Tab and with it ReviewSession and PdfReader, for any     *)
(* cards, documents and bounds.                                            *)
(***************************************************************************)
EXTENDS Tab, SequenceTheorems, FiniteSetTheorems, TLAPS

----------------------------------------------------------------------------
(* Sequences.                                                               *)

\* The element at i is replaced.
LEMMA ElementReplaced ==
  ASSUME NEW S, NEW s \in Seq(S), NEW i \in DOMAIN s, NEW e \in S, NEW t, t = [s EXCEPT ![i] = e]
  PROVE  t \in Seq(S) /\ DOMAIN t = DOMAIN s /\ t[i] = e /\ \A j \in DOMAIN s \ {i} : t[j] = s[j]
OBVIOUS

\* The element at i is taken out.
LEMMA ElementRemoved ==
  ASSUME NEW S, NEW s \in Seq(S), NEW i \in DOMAIN s, NEW t, t = RemoveAt(s, i)
  PROVE  /\ t \in Seq(S) /\ Len(t) = Len(s) - 1 /\ Len(s) \in Nat
         /\ DOMAIN s = 1..Len(s) /\ DOMAIN t = 1..Len(s) - 1 /\ i \in 1..Len(s)
         /\ \A j \in 1..Len(s) - 1 : t[j] = s[IF j < i THEN j ELSE j + 1]
<1> DEFINE a == SubSeq(s, 1, i - 1)
           b == SubSeq(s, i + 1, Len(s))
<1>0. i \in 1..Len(s) /\ Len(s) \in Nat /\ DOMAIN s = 1..Len(s)
  OBVIOUS
<1>1. /\ a \in Seq(S) /\ Len(a) = i - 1
      /\ \A j \in 1..i - 1 : a[j] = s[j]
  BY <1>0
<1>2. /\ b \in Seq(S) /\ Len(b) = Len(s) - i
      /\ \A j \in 1..Len(s) - i : b[j] = s[i + j]
  BY <1>0, SMTT(20)
<1>3. t = a \o b
  BY DEF RemoveAt
<1> HIDE DEF a, b
<1>4. /\ t \in Seq(S) /\ Len(t) = Len(a) + Len(b)
      /\ \A j \in 1..Len(a) + Len(b) : t[j] = IF j <= Len(a) THEN a[j] ELSE b[j - Len(a)]
  <2>1. /\ a \o b \in Seq(S) /\ Len(a \o b) = Len(a) + Len(b)
        /\ \A j \in 1..Len(a) + Len(b) : (a \o b)[j] = IF j <= Len(a) THEN a[j] ELSE b[j - Len(a)]
    BY <1>1, <1>2, ConcatProperties
  <2> QED BY <1>3, <2>1, Zenon
<1>5. Len(a) + Len(b) = Len(s) - 1 /\ Len(a) \in Nat
  BY <1>0, <1>1, <1>2
<1>6. DOMAIN t = 1..Len(s) - 1
  BY <1>4, <1>5
<1>7. ASSUME NEW j \in 1..Len(s) - 1
      PROVE  t[j] = s[IF j < i THEN j ELSE j + 1]
  <2>0. t[j] = IF j <= Len(a) THEN a[j] ELSE b[j - Len(a)]
    BY <1>4, <1>5
  <2>1. CASE j < i
    <3>1. j \in 1..i - 1 /\ j <= Len(a)
      BY <1>0, <1>1, <2>1
    <3> QED BY <1>1, <2>0, <2>1, <3>1
  <2>2. CASE ~ (j < i)
    <3>1. j - Len(a) \in 1..Len(s) - i /\ i + (j - Len(a)) = j + 1 /\ ~ (j <= Len(a))
      BY <1>0, <1>1, <2>2
    <3>2. b[j - Len(a)] = s[j + 1]
      BY <1>2, <3>1
    <3>3. t[j] = s[j + 1]
      BY <2>0, <3>1, <3>2
    <3> QED BY <2>2, <3>3
  <2> QED BY <2>1, <2>2
<1> QED BY <1>0, <1>4, <1>5, <1>6, <1>7

----------------------------------------------------------------------------
(* The calls of the reviewer, as a sequence.                                *)

Mode == BOOLEAN

Call == [kind : {"load", "rate"}, cram : Mode, card : Card \union {Nil},
         seen : {Nil} \union ((Card \union {Done, Nil}) \X Mode),
         state : {"sent", "answered", "lost"}, list : Seq(Card) \union {Nil}]

HasLoad(s) == \E i \in DOMAIN s : s[i].kind = "load"

OneLoad(s) == \A i, j \in DOMAIN s : s[i].kind = "load" /\ s[j].kind = "load" => i = j

\* What is true of a call after it is added at the end.
LEMMA CallAdded ==
  ASSUME NEW s \in Seq(Call), NEW c \in Call, NEW t, t = Append(s, c)
  PROVE  /\ t \in Seq(Call) /\ Len(t) = Len(s) + 1 /\ Len(s) \in Nat
         /\ DOMAIN t = DOMAIN s \union {Len(t)} /\ Len(t) \notin DOMAIN s
         /\ \A i \in DOMAIN s : t[i] = s[i]
         /\ t[Len(t)] = c
<1>1. /\ t \in Seq(Call) /\ Len(t) = Len(s) + 1 /\ Len(s) \in Nat
      /\ \A i \in 1..Len(s) + 1 : t[i] = IF i < Len(s) + 1 THEN s[i] ELSE c
  OBVIOUS
<1>2. DOMAIN t = 1..Len(s) + 1 /\ DOMAIN s = 1..Len(s)
  BY <1>1
<1>3. Len(t) \in 1..Len(s) + 1 /\ \A i \in 1..Len(s) : i \in 1..Len(s) + 1 /\ i < Len(s) + 1
  BY <1>1
<1>4. DOMAIN t = DOMAIN s \union {Len(t)} /\ Len(t) \notin DOMAIN s
  BY <1>1, <1>2
<1>5. t[Len(t)] = c
  BY <1>1, <1>3
<1>6. \A i \in DOMAIN s : t[i] = s[i]
  BY <1>1, <1>2, <1>3
<1> QED BY <1>1, <1>4, <1>5, <1>6

\* A call is given another state.
LEMMA CallChanged ==
  ASSUME NEW s \in Seq(Call), NEW i \in DOMAIN s, NEW c \in Call, NEW t, t = [s EXCEPT ![i] = c]
  PROVE  /\ t \in Seq(Call) /\ Len(t) = Len(s) /\ DOMAIN t = DOMAIN s
         /\ t[i] = c /\ \A j \in DOMAIN s \ {i} : t[j] = s[j]
         /\ c.kind = s[i].kind => (HasLoad(t) <=> HasLoad(s)) /\ (OneLoad(s) => OneLoad(t))
<1>1. /\ t \in Seq(Call) /\ Len(t) = Len(s) /\ DOMAIN t = DOMAIN s
      /\ t[i] = c /\ \A j \in DOMAIN s \ {i} : t[j] = s[j]
  OBVIOUS
<1>2. ASSUME c.kind = s[i].kind
      PROVE  \A j \in DOMAIN s : t[j].kind = s[j].kind
  BY <1>1, <1>2
<1> QED BY <1>1, <1>2 DEF HasLoad, OneLoad

\* A call ends.
LEMMA CallRemoved ==
  ASSUME NEW s \in Seq(Call), NEW i \in DOMAIN s, NEW t, t = RemoveAt(s, i)
  PROVE  /\ t \in Seq(Call) /\ Len(t) = Len(s) - 1 /\ Len(s) \in Nat
         /\ \A j \in DOMAIN t : \E k \in DOMAIN s : t[j] = s[k]
         /\ OneLoad(s) => OneLoad(t)
         /\ s[i].kind # "load" => (HasLoad(s) <=> HasLoad(t))
         /\ OneLoad(s) /\ s[i].kind = "load" => ~HasLoad(t)
         /\ Len(s) = 1 => DOMAIN t = {}
<1> DEFINE From(j) == IF j < i THEN j ELSE j + 1
           To(j) == IF j < i THEN j ELSE j - 1
<1>1. /\ t \in Seq(Call) /\ Len(t) = Len(s) - 1 /\ Len(s) \in Nat
      /\ DOMAIN s = 1..Len(s) /\ DOMAIN t = 1..Len(s) - 1 /\ i \in 1..Len(s)
      /\ \A j \in 1..Len(s) - 1 : t[j] = s[From(j)]
  BY ElementRemoved
<1>2. \A j \in DOMAIN t : From(j) \in DOMAIN s \ {i}
  BY <1>1
<1>3. \A j, k \in DOMAIN t : From(j) = From(k) => j = k
  BY <1>1
<1>4. \A j \in DOMAIN s \ {i} : To(j) \in DOMAIN t /\ From(To(j)) = j
  BY <1>1
<1>5. Len(s) = 1 => DOMAIN t = {}
  BY <1>1
<1> HIDE DEF From, To
<1>6. \A j \in DOMAIN t : t[j] = s[From(j)]
  BY <1>1
<1>7. \A j \in DOMAIN t : \E k \in DOMAIN s : t[j] = s[k]
  BY <1>2, <1>6
<1>8. OneLoad(s) => OneLoad(t)
  BY <1>2, <1>3, <1>6 DEF OneLoad
<1>9. ASSUME s[i].kind # "load"
       PROVE  HasLoad(s) <=> HasLoad(t)
  BY <1>2, <1>4, <1>6, <1>9 DEF HasLoad
<1>10. ASSUME OneLoad(s), s[i].kind = "load"
       PROVE  ~HasLoad(t)
  BY <1>2, <1>6, <1>10 DEF HasLoad, OneLoad
<1> QED BY <1>1, <1>5, <1>7, <1>8, <1>9, <1>10

----------------------------------------------------------------------------
(* The inductive invariant of the reviewer.                                 *)

\* Types; every call that is added and every card that has been rated has
\* cost an act.
Typed ==
  /\ Review!TypeOK
  /\ calls \in Seq(Call)
  /\ reviewActs \in 0..MaxReviewActs
  /\ index + Len(calls) <= reviewActs + 1

\* A list has cards that there are or were: none can become due again.
Known ==
  /\ queue # Nil => \A j \in DOMAIN queue : queue[j] \in cards \union gone
  /\ \A i \in DOMAIN calls :
       LET l == calls[i].list IN l # Nil => \A j \in DOMAIN l : l[j] \in cards \union gone

\* The card that is shown is that of the index, unless a list is on its way.
Shown ==
  lined =>
    /\ OneLoad(calls)
    /\ \A i \in DOMAIN calls : calls[i].kind = "load" => calls[i].cram = cram
    /\ ~HasLoad(calls) =>
         /\ cram = listed
         /\ Review!HasCard => screen = queue[index] /\ (revealed => answer)

\* Cards before the index have been rated, and when the rating of that of the
\* index has been answered it is not due either.
Rated ==
  steady /\ ~HasLoad(calls) =>
    /\ lined /\ Len(calls) <= 1
    /\ queue # Nil /\ ~listed =>
         /\ \A j \in DOMAIN queue : j < index => queue[j] \notin due
         /\ \A i \in DOMAIN calls :
              /\ Review!HasCard /\ calls[i].card = queue[index] /\ ~calls[i].cram
              /\ calls[i].state = "answered" => queue[index] \notin due

ReviewInv == Typed /\ Known /\ Shown /\ Rated /\ Review!RatedAsShown

LEMMA LoadingIs == Review!Loading <=> HasLoad(calls)
BY DEF Review!Loading, HasLoad

LEMMA ReviewInit == TabInit => ReviewInv
<1> SUFFICES ASSUME TabInit PROVE ReviewInv
  OBVIOUS
<1>1. /\ Review!Init /\ calls = <<>> /\ queue = <<>> /\ index = 1 /\ reviewActs = 0
      /\ lined = FALSE /\ steady = FALSE
  BY DEF TabInit, Review!Init
<1>2. calls \in Seq(Call) /\ queue \in Seq(Card) /\ Len(calls) = 0 /\ DOMAIN calls = {} /\ DOMAIN queue = {}
  BY <1>1, EmptySeq
<1>3. Typed
  <2>1. index \in 1..MaxReviewActs + 1 /\ reviewActs \in 0..MaxReviewActs /\ index + Len(calls) <= reviewActs + 1
    BY <1>1, <1>2, TabAssumption
  <2>2. due \subseteq cards /\ cards \subseteq Card /\ gone \subseteq Card \ cards
    BY <1>1 DEF Review!Init
  <2>3. cram \in BOOLEAN /\ listed \in BOOLEAN /\ revealed \in BOOLEAN /\ answer \in BOOLEAN
    BY <1>1 DEF Review!Init
  <2>4. screen \in Card \union {Done, Nil}
    BY <1>1 DEF Review!Init
  <2> QED BY <1>2, <2>1, <2>2, <2>3, <2>4 DEF Typed, Review!TypeOK
<1> QED BY <1>1, <1>2, <1>3 DEF ReviewInv, Known, Shown, Rated, Review!RatedAsShown

\* A new session.
LEMMA StartKeeps ==
  ASSUME ReviewInv, NEW mode \in BOOLEAN, Review!StartReviewSession(mode)
  PROVE  ReviewInv'
<1> DEFINE c == Review!Load(mode)
<1>1. c \in Call /\ c.kind = "load" /\ c.cram = mode /\ c.list = Nil
  BY DEF Review!Load, Call, Mode
<1>2. /\ UNCHANGED <<cards, gone, due, queue, screen, answer, listed, steady>>
      /\ cram' = mode /\ index' = 1 /\ revealed' = FALSE
      /\ calls' = Append(calls, c) /\ lined' = ~HasLoad(calls)
      /\ reviewActs < MaxReviewActs /\ reviewActs' = reviewActs + 1
  BY LoadingIs DEF Review!StartReviewSession, Review!Act, Review!server
<1> HIDE DEF c
<1>3. Typed
  BY DEF ReviewInv
<1>4. /\ calls' \in Seq(Call) /\ Len(calls') = Len(calls) + 1 /\ Len(calls) \in Nat
      /\ DOMAIN calls' = DOMAIN calls \union {Len(calls')} /\ Len(calls') \notin DOMAIN calls
      /\ \A i \in DOMAIN calls : calls'[i] = calls[i]
      /\ calls'[Len(calls')] = c
  BY <1>1, <1>2, <1>3, CallAdded DEF Typed
<1>5. Typed'
  <2>1. index' + Len(calls') <= reviewActs' + 1 /\ reviewActs' \in 0..MaxReviewActs
    BY <1>2, <1>3, <1>4, TabAssumption DEF Typed, Review!TypeOK
  <2>2. index' \in 1..MaxReviewActs + 1
    BY <1>2, TabAssumption
  <2>3. cram' \in BOOLEAN /\ listed' \in BOOLEAN /\ revealed' \in BOOLEAN /\ answer' \in BOOLEAN
    BY <1>2, <1>3 DEF Typed, Review!TypeOK
  <2>4. Review!TypeOK'
    BY <1>2, <1>3, <2>2, <2>3 DEF Typed, Review!TypeOK
  <2> QED BY <1>4, <2>1, <2>4 DEF Typed
<1>6. Known'
  BY <1>1, <1>2, <1>4 DEF ReviewInv, Known
<1>7. HasLoad(calls')
  BY <1>1, <1>4 DEF HasLoad
<1>8. Shown'
  BY <1>1, <1>2, <1>4, <1>7 DEF Shown, HasLoad, OneLoad
<1>9. Review!RatedAsShown'
  BY <1>1, <1>4 DEF ReviewInv, Review!RatedAsShown
<1> QED BY <1>5, <1>6, <1>7, <1>8, <1>9 DEF ReviewInv, Rated

LEMMA RevealKeeps ==
  ASSUME ReviewInv, Review!RevealAnswer
  PROVE  ReviewInv'
<1>1. /\ UNCHANGED <<cards, gone, due, cram, queue, index, screen, calls, listed, lined, steady, reviewActs>>
      /\ revealed' = TRUE /\ answer' = TRUE
  BY DEF Review!RevealAnswer, Review!server, Review!session, Review!history
<1>2. Typed'
  BY <1>1 DEF ReviewInv, Typed, Review!TypeOK
<1>3. Known' /\ Shown' /\ Rated' /\ Review!RatedAsShown'
  BY <1>1 DEF ReviewInv, Known, Shown, Rated, Review!RatedAsShown, Review!HasCard
<1> QED BY <1>2, <1>3 DEF ReviewInv

\* A rating is for the card that is shown.
LEMMA RateKeeps ==
  ASSUME ReviewInv, Review!RateCard
  PROVE  ReviewInv'
<1> DEFINE c == Review!Rate(queue[index], cram)
<1>0. Typed /\ Known /\ Shown /\ Rated
  BY DEF ReviewInv
<1>1. /\ UNCHANGED <<cards, gone, due, cram, queue, index, screen, answer, revealed, listed, lined>>
      /\ calls' = Append(calls, c) /\ steady' = (steady /\ calls = <<>>)
      /\ reviewActs < MaxReviewActs /\ reviewActs' = reviewActs + 1
      /\ Review!HasCard /\ (revealed \/ answer)
  BY DEF Review!RateCard, Review!Act, Review!server, Review!session, Review!display
<1>2. queue # Nil /\ queue \in Seq(Card) /\ index \in 1..Len(queue) /\ index \in DOMAIN queue /\ queue[index] \in Card
  <2>1. queue # Nil /\ queue \in Seq(Card) /\ index <= Len(queue) /\ index \in 1..MaxReviewActs + 1
    BY <1>0, <1>1 DEF Typed, Review!TypeOK, Review!HasCard
  <2>2. index \in 1..Len(queue)
    BY <2>1, TabAssumption
  <2> QED BY <2>1, <2>2
<1>3. /\ c.kind = "rate" /\ c.card = queue[index] /\ c.cram = cram /\ c.list = Nil /\ c.state = "sent"
      /\ c.seen = IF HasLoad(calls) \/ ~lined THEN Nil ELSE <<IF answer THEN screen ELSE Nil, listed>>
  BY LoadingIs DEF Review!Rate, Review!Before
<1>4. c \in Call
  <2>1. c.seen \in {Nil} \union ((Card \union {Done, Nil}) \X Mode)
    BY <1>0, <1>3 DEF Typed, Review!TypeOK, Mode
  <2>2. cram \in Mode
    BY <1>0 DEF Typed, Review!TypeOK, Mode
  <2> QED BY <1>2, <2>1, <2>2 DEF Review!Rate, Call
<1> HIDE DEF c
<1>5. /\ calls' \in Seq(Call) /\ Len(calls') = Len(calls) + 1 /\ Len(calls) \in Nat
      /\ DOMAIN calls' = DOMAIN calls \union {Len(calls')} /\ Len(calls') \notin DOMAIN calls
      /\ \A i \in DOMAIN calls : calls'[i] = calls[i]
      /\ calls'[Len(calls')] = c
  BY <1>0, <1>1, <1>4, CallAdded DEF Typed
<1>6. Typed'
  <2>1. index' + Len(calls') <= reviewActs' + 1 /\ reviewActs' \in 0..MaxReviewActs
    BY <1>0, <1>1, <1>5, TabAssumption DEF Typed, Review!TypeOK
  <2>2. Review!TypeOK'
    BY <1>0, <1>1 DEF Typed, Review!TypeOK
  <2> QED BY <1>5, <2>1, <2>2 DEF Typed
<1>7. Known'
  BY <1>0, <1>1, <1>3, <1>5 DEF Known
<1>8. HasLoad(calls') <=> HasLoad(calls)
  BY <1>3, <1>5 DEF HasLoad
<1>9. Shown'
  <2>1. OneLoad(calls) => OneLoad(calls')
    BY <1>3, <1>5 DEF OneLoad
  <2>2. Review!HasCard' <=> Review!HasCard
    BY <1>1 DEF Review!HasCard
  <2> QED BY <1>0, <1>1, <1>3, <1>5, <1>8, <2>1, <2>2 DEF Shown
<1>10. lined /\ ~HasLoad(calls) => cram = listed /\ screen = queue[index] /\ (revealed => answer)
  BY <1>0, <1>1 DEF Shown
<1>11. Rated'
  <2> SUFFICES ASSUME steady, calls = <<>>, ~HasLoad(calls)
               PROVE  /\ lined /\ Len(calls') <= 1
                      /\ queue # Nil /\ ~listed =>
                           /\ \A j \in DOMAIN queue : j < index => queue[j] \notin due
                           /\ \A i \in DOMAIN calls' :
                                /\ Review!HasCard /\ calls'[i].card = queue[index] /\ ~calls'[i].cram
                                /\ calls'[i].state = "answered" => queue[index] \notin due
    BY <1>1, <1>8 DEF Rated, Review!HasCard
  <2>1. Len(calls') = 1 /\ DOMAIN calls' = {Len(calls')}
    BY <1>5, EmptySeq
  <2>2. lined /\ (~listed => \A j \in DOMAIN queue : j < index => queue[j] \notin due)
    BY <1>0, <1>2 DEF Rated
  <2> QED BY <1>1, <1>3, <1>5, <1>10, <2>1, <2>2
<1>12. c.seen # Nil => c.seen = <<c.card, c.cram>>
  <2> SUFFICES ASSUME lined, ~HasLoad(calls) PROVE c.seen = <<c.card, c.cram>>
    BY <1>3
  <2>1. answer
    BY <1>1, <1>10
  <2> QED BY <1>3, <1>10, <2>1
<1>13. Review!RatedAsShown'
  BY <1>3, <1>5, <1>12 DEF ReviewInv, Review!RatedAsShown
<1> QED BY <1>6, <1>7, <1>9, <1>11, <1>13 DEF ReviewInv

LEMMA Counting == \A S : Review!Cardinality(S) = Cardinality(S)
BY Zenon DEF Cardinality, Review!Cardinality

\* What the server answers.
LEMMA ListsKnown ==
  ASSUME Typed, NEW mode, NEW l \in Review!Lists(mode)
  PROVE  l = Nil \/ (l \in Seq(Card) /\ \A j \in DOMAIN l : l[j] \in cards)
<1> DEFINE all == IF mode THEN cards ELSE due
           Prefix(s) == SubSeq(s, 1, IF Len(s) < Limit THEN Len(s) ELSE Limit)
<1>1. all \subseteq cards /\ cards \subseteq Card /\ Limit \in Nat
  BY TabAssumption DEF Typed, Review!TypeOK
<1>2. Cardinality(all) \in Nat
  BY <1>1, TabAssumption, FS_Subset, FS_CardinalityType
<1>3. l = Nil \/ \E s \in SetToSeqs(all) : l = Prefix(s)
  <2>1. CASE mode
    BY <2>1, Counting DEF Review!Lists, SetToSeqs, Review!SetToSeqs
  <2>2. CASE ~mode
    BY <2>2, Counting DEF Review!Lists, SetToSeqs, Review!SetToSeqs
  <2> QED BY <2>1, <2>2
<1> HIDE DEF all
<1>4. ASSUME NEW s \in SetToSeqs(all), l = Prefix(s)
      PROVE  l \in Seq(cards)
  <2>1. s \in [1..Cardinality(all) -> all]
    BY DEF SetToSeqs
  <2>2. s \in Seq(all)
    BY <1>2, <2>1
  <2>3. s \in Seq(cards) /\ Len(s) \in Nat
    BY <1>1, <2>2
  <2>4. (IF Len(s) < Limit THEN Len(s) ELSE Limit) \in 0..Len(s)
    BY <1>1, <2>3
  <2> QED BY <1>4, <2>3, <2>4
<1>5. l \in Seq(cards) => l \in Seq(Card) /\ \A j \in DOMAIN l : l[j] \in cards
  BY <1>1
<1> QED BY <1>3, <1>4, <1>5

\* A request is served or lost.
LEMMA ServeKeeps ==
  ASSUME ReviewInv, NEW i \in DOMAIN calls,
         Review!ServeLoad(i) \/ Review!ServeRating(i) \/ Review!Lose(i)
  PROVE  ReviewInv'
<1>0. Typed /\ Known /\ Shown /\ Rated
  BY DEF ReviewInv
<1>1. /\ UNCHANGED <<cards, gone, cram, queue, index, screen, answer, revealed, listed, lined, steady>>
      /\ reviewActs' \in {reviewActs, reviewActs + 1} /\ (reviewActs' # reviewActs => reviewActs < MaxReviewActs)
  BY DEF Review!ServeLoad, Review!ServeRating, Review!Lose, Review!Act, Review!server, Review!display,
         Review!session, Review!history
<1>2. calls[i] \in Call /\ calls \in Seq(Call)
  BY <1>0 DEF Typed
<1>3. PICK c \in Call :
        /\ calls' = [calls EXCEPT ![i] = c]
        /\ c.kind = calls[i].kind /\ c.cram = calls[i].cram /\ c.card = calls[i].card /\ c.seen = calls[i].seen
        /\ c.list # Nil => c.list = calls[i].list \/ \A j \in DOMAIN c.list : c.list[j] \in cards
        /\ c.kind = "rate" /\ c.state = "answered" /\ ~c.cram => due' = due \ {c.card}
  <2>1. CASE Review!ServeLoad(i)
    <3>1. PICK l \in Review!Lists(calls[i].cram) :
            calls' = [calls EXCEPT ![i].state = "answered", ![i].list = l]
      BY <2>1 DEF Review!ServeLoad
    <3>2. l = Nil \/ (l \in Seq(Card) /\ \A j \in DOMAIN l : l[j] \in cards)
      BY <1>0, ListsKnown
    <3> DEFINE c == [calls[i] EXCEPT !.state = "answered", !.list = l]
    <3>3. calls' = [calls EXCEPT ![i] = c]
      BY <3>1
    <3>4. c \in Call
      BY <1>2, <3>2 DEF Call
    <3>5. c.kind = "load" /\ c.kind = calls[i].kind
      BY <1>2, <2>1 DEF Call, Review!ServeLoad
    <3>6. c.cram = calls[i].cram /\ c.card = calls[i].card /\ c.seen = calls[i].seen /\ c.list = l
      BY <1>2 DEF Call
    <3> HIDE DEF c
    <3> QED BY <3>2, <3>3, <3>4, <3>5, <3>6
  <2>2. CASE Review!ServeRating(i)
    <3> DEFINE c == [calls[i] EXCEPT !.state = "answered"]
    <3>1. calls' = [calls EXCEPT ![i] = c] /\ due' = IF calls[i].cram THEN due ELSE due \ {calls[i].card}
      BY <2>2 DEF Review!ServeRating
    <3>2. c \in Call
      BY <1>2 DEF Call
    <3>3. /\ c.kind = calls[i].kind /\ c.cram = calls[i].cram /\ c.card = calls[i].card
          /\ c.seen = calls[i].seen /\ c.list = calls[i].list
      BY <1>2 DEF Call
    <3> HIDE DEF c
    <3> QED BY <3>1, <3>2, <3>3
  <2>3. CASE Review!Lose(i)
    <3> DEFINE c == [calls[i] EXCEPT !.state = "lost"]
    <3>1. calls' = [calls EXCEPT ![i] = c]
      BY <2>3 DEF Review!Lose
    <3>2. c \in Call
      BY <1>2 DEF Call
    <3>3. /\ c.kind = calls[i].kind /\ c.cram = calls[i].cram /\ c.card = calls[i].card
          /\ c.seen = calls[i].seen /\ c.list = calls[i].list /\ c.state = "lost"
      BY <1>2 DEF Call
    <3> HIDE DEF c
    <3> QED BY <3>1, <3>2, <3>3
  <2> QED BY <2>1, <2>2, <2>3
<1>4. due' \subseteq due
  BY DEF Review!ServeLoad, Review!ServeRating, Review!Lose, Review!server
<1>5. /\ calls' \in Seq(Call) /\ Len(calls') = Len(calls) /\ DOMAIN calls' = DOMAIN calls
      /\ calls'[i] = c /\ \A j \in DOMAIN calls \ {i} : calls'[j] = calls[j]
      /\ HasLoad(calls') <=> HasLoad(calls)
      /\ OneLoad(calls) => OneLoad(calls')
  <2>1. calls' = [calls EXCEPT ![i] = c] /\ c.kind = calls[i].kind
    BY <1>3
  <2>2. calls \in Seq(Call)
    BY <1>0 DEF Typed
  <2>3. /\ calls' \in Seq(Call) /\ Len(calls') = Len(calls) /\ DOMAIN calls' = DOMAIN calls
        /\ calls'[i] = c /\ \A j \in DOMAIN calls \ {i} : calls'[j] = calls[j]
    BY <1>3, <2>1, <2>2
  <2>4. \A j \in DOMAIN calls : calls'[j].kind = calls[j].kind
    BY <2>1, <2>3
  <2> QED BY <2>3, <2>4 DEF HasLoad, OneLoad
<1>6. Typed'
  <2>1. index' + Len(calls') <= reviewActs' + 1 /\ reviewActs' \in 0..MaxReviewActs
    <3>1. Len(calls) \in Nat /\ index \in Int /\ reviewActs \in Int /\ index + Len(calls) <= reviewActs + 1
      BY <1>0, TabAssumption DEF Typed, Review!TypeOK
    <3> QED BY <1>0, <1>1, <1>5, <3>1, TabAssumption DEF Typed
  <2>2. Review!TypeOK'
    BY <1>0, <1>1, <1>4 DEF Typed, Review!TypeOK
  <2> QED BY <1>5, <2>1, <2>2 DEF Typed
<1>7. Known'
  <2>1. queue' # Nil => \A j \in DOMAIN queue' : queue'[j] \in cards' \union gone'
    BY <1>0, <1>1 DEF Known
  <2>2. ASSUME NEW k \in DOMAIN calls', calls'[k].list # Nil, NEW j \in DOMAIN calls'[k].list
        PROVE  calls'[k].list[j] \in cards' \union gone'
    <3>1. CASE k = i
      BY <1>0, <1>1, <1>3, <1>5, <2>2, <3>1 DEF Known
    <3>2. CASE k # i
      BY <1>0, <1>1, <1>5, <2>2, <3>2 DEF Known
    <3> QED BY <3>1, <3>2
  <2> QED BY <2>1, <2>2 DEF Known
<1>8. Shown'
  <2>1. \A k \in DOMAIN calls : calls'[k].kind = calls[k].kind /\ calls'[k].cram = calls[k].cram
    BY <1>3, <1>5
  <2>2. Review!HasCard' <=> Review!HasCard
    BY <1>1 DEF Review!HasCard
  <2> QED BY <1>0, <1>1, <1>5, <2>1, <2>2 DEF Shown
<1>9. Rated'
  <2> SUFFICES ASSUME steady, ~HasLoad(calls)
               PROVE  /\ lined /\ Len(calls') <= 1
                      /\ queue # Nil /\ ~listed =>
                           /\ \A j \in DOMAIN queue : j < index => queue[j] \notin due'
                           /\ \A k \in DOMAIN calls' :
                                /\ Review!HasCard /\ calls'[k].card = queue[index] /\ ~calls'[k].cram
                                /\ calls'[k].state = "answered" => queue[index] \notin due'
    BY <1>1, <1>5 DEF Rated, Review!HasCard
  <2>1. lined /\ Len(calls') <= 1
    BY <1>0, <1>5 DEF Rated
  <2>2. ASSUME queue # Nil, ~listed
        PROVE  /\ \A j \in DOMAIN queue : j < index => queue[j] \notin due'
               /\ \A k \in DOMAIN calls' :
                    /\ Review!HasCard /\ calls'[k].card = queue[index] /\ ~calls'[k].cram
                    /\ calls'[k].state = "answered" => queue[index] \notin due'
    <3>1. \A j \in DOMAIN queue : j < index => queue[j] \notin due'
      BY <1>0, <1>4, <2>2 DEF Rated
    <3>2. \A k \in DOMAIN calls :
            /\ Review!HasCard /\ calls[k].card = queue[index] /\ ~calls[k].cram
            /\ calls[k].state = "answered" => queue[index] \notin due
      BY <1>0, <2>2 DEF Rated
    <3>3. c.kind = "rate"
      <4>1. c.kind # "load"
        BY <1>3 DEF HasLoad
      <4> QED BY <4>1 DEF Call
    <3>4. ASSUME NEW k \in DOMAIN calls'
          PROVE  /\ Review!HasCard /\ calls'[k].card = queue[index] /\ ~calls'[k].cram
                 /\ calls'[k].state = "answered" => queue[index] \notin due'
      <4>1. CASE k = i
        BY <1>3, <1>5, <3>2, <3>3, <4>1
      <4>2. CASE k # i
        BY <1>4, <1>5, <3>2, <4>2
      <4> QED BY <4>1, <4>2
    <3> QED BY <3>1, <3>4
  <2> QED BY <2>1, <2>2
<1>10. Review!RatedAsShown'
  <2>1. \A k \in DOMAIN calls : /\ calls'[k].kind = calls[k].kind /\ calls'[k].cram = calls[k].cram
                                /\ calls'[k].card = calls[k].card /\ calls'[k].seen = calls[k].seen
    BY <1>3, <1>5
  <2> QED BY <1>5, <2>1 DEF ReviewInv, Review!RatedAsShown
<1> QED BY <1>6, <1>7, <1>8, <1>9, <1>10 DEF ReviewInv

\* The list of a session comes.
LEMMA ListKeeps ==
  ASSUME ReviewInv, NEW i \in DOMAIN calls, Review!ListArrives(i)
  PROVE  ReviewInv'
<1> DEFINE c == calls[i]
<1>0. Typed /\ Known /\ Shown /\ Rated
  BY DEF ReviewInv
<1>1. /\ UNCHANGED <<cards, gone, due, cram, index, lined, reviewActs>>
      /\ c.kind = "load" /\ queue' = c.list /\ calls' = RemoveAt(calls, i)
      /\ listed' = c.cram /\ steady' = (lined /\ Len(calls) = 1 /\ index = 1)
      /\ IF c.list = Nil THEN UNCHANGED <<screen, answer, revealed>> ELSE Review!Render(c.list, index)
  <2>1. /\ UNCHANGED <<cards, gone, due, cram, index, lined, reviewActs>>
        /\ c.kind = "load" /\ queue' = c.list /\ calls' = RemoveAt(calls, i)
    BY DEF Review!ListArrives, Review!server, RemoveAt, Review!RemoveAt
  <2>2. listed' = c.cram /\ steady' = (lined /\ Len(calls) = 1 /\ index = 1)
    BY Zenon DEF Review!ListArrives
  <2>3. IF c.list = Nil THEN UNCHANGED <<screen, answer, revealed>> ELSE Review!Render(c.list, index)
    BY DEF Review!ListArrives, Review!display
  <2> QED BY <2>1, <2>2, <2>3
<1>2. c \in Call /\ c.cram \in BOOLEAN /\ (c.list = Nil \/ c.list \in Seq(Card))
  <2>1. c \in Call
    BY <1>0 DEF Typed
  <2> QED BY <2>1 DEF Call, Mode
<1> HIDE DEF c
<1>3. /\ calls' \in Seq(Call) /\ Len(calls') = Len(calls) - 1 /\ Len(calls) \in Nat
      /\ \A j \in DOMAIN calls' : \E k \in DOMAIN calls : calls'[j] = calls[k]
      /\ OneLoad(calls) => OneLoad(calls')
      /\ OneLoad(calls) /\ calls[i].kind = "load" => ~HasLoad(calls')
      /\ Len(calls) = 1 => DOMAIN calls' = {}
  BY <1>0, <1>1, CallRemoved DEF Typed
<1>4. index \in Nat \ {0}
  BY <1>0, TabAssumption DEF Typed, Review!TypeOK
<1>5. queue' # Nil => /\ index > Len(queue') => screen' = Done
                      /\ ~ (index > Len(queue')) => screen' = queue'[index] /\ revealed' = FALSE
                      /\ answer' = FALSE /\ revealed' \in {revealed, FALSE}
  BY <1>1 DEF Review!Render
<1>6. queue' # Nil => queue' \in Seq(Card) /\ Len(queue') \in Nat /\ DOMAIN queue' = 1..Len(queue')
  BY <1>1, <1>2
<1>7. Typed'
  <2>1. index' + Len(calls') <= reviewActs' + 1 /\ reviewActs' \in 0..MaxReviewActs
    BY <1>0, <1>1, <1>3, <1>4 DEF Typed
  <2>2. screen' \in Card \union {Done, Nil}
    <3>1. CASE queue' = Nil
      BY <1>0, <1>1, <3>1 DEF Typed, Review!TypeOK
    <3>2. CASE queue' # Nil /\ index > Len(queue')
      BY <1>5, <3>2
    <3>3. CASE queue' # Nil /\ ~ (index > Len(queue'))
      <4>1. index \in 1..Len(queue')
        BY <1>4, <1>6, <3>3
      <4>2. queue'[index] \in Card
        BY <1>6, <3>3, <4>1
      <4> QED BY <1>5, <3>3, <4>2
    <3> QED BY <3>1, <3>2, <3>3
  <2>3. revealed' \in BOOLEAN /\ answer' \in BOOLEAN
    <3>1. revealed \in BOOLEAN /\ answer \in BOOLEAN
      BY <1>0 DEF Typed, Review!TypeOK
    <3>2. CASE queue' = Nil
      BY <1>1, <3>1, <3>2
    <3>3. CASE queue' # Nil
      BY <1>5, <3>1, <3>3
    <3> QED BY <3>2, <3>3
  <2>4. queue' = Nil \/ queue' \in Seq(Card)
    BY <1>6
  <2>5. Review!TypeOK'
    BY <1>0, <1>1, <1>2, <2>2, <2>3, <2>4 DEF Typed, Review!TypeOK
  <2> QED BY <1>3, <2>1, <2>5 DEF Typed
<1>8. Known'
  <2>1. queue' # Nil => \A j \in DOMAIN queue' : queue'[j] \in cards' \union gone'
    BY <1>0, <1>1 DEF Known, c
  <2>2. ASSUME NEW j \in DOMAIN calls', calls'[j].list # Nil, NEW k \in DOMAIN calls'[j].list
        PROVE  calls'[j].list[k] \in cards' \union gone'
    <3>1. PICK h \in DOMAIN calls : calls'[j] = calls[h]
      BY <1>3
    <3> QED BY <1>0, <1>1, <2>2, <3>1 DEF Known
  <2> QED BY <2>1, <2>2 DEF Known
<1>9. Shown'
  <2> SUFFICES ASSUME lined
               PROVE  /\ OneLoad(calls')
                      /\ \A j \in DOMAIN calls' : calls'[j].kind = "load" => calls'[j].cram = cram
                      /\ ~HasLoad(calls') =>
                           /\ cram = listed'
                           /\ Review!HasCard' => screen' = queue'[index] /\ (revealed' => answer')
    BY <1>1 DEF Shown
  <2>1. OneLoad(calls') /\ ~HasLoad(calls') /\ cram = listed'
    BY <1>0, <1>1, <1>3 DEF Shown, c
  <2>2. Review!HasCard' => screen' = queue'[index] /\ ~revealed'
    <3>1. Review!HasCard' => queue' # Nil /\ index <= Len(queue')
      BY <1>1 DEF Review!HasCard
    <3>2. queue' # Nil /\ index <= Len(queue') => ~ (index > Len(queue'))
      BY <1>4, <1>6
    <3> QED BY <1>5, <3>1, <3>2
  <2> QED BY <2>1, <2>2 DEF HasLoad
<1>10. Rated'
  <2> SUFFICES ASSUME lined, Len(calls) = 1, index = 1
               PROVE  /\ Len(calls') <= 1
                      /\ DOMAIN calls' = {}
                      /\ queue' # Nil => \A j \in DOMAIN queue' : ~ (j < index)
    BY <1>1 DEF Rated
  <2>1. queue' # Nil => \A j \in DOMAIN queue' : ~ (j < 1)
    BY <1>6
  <2> QED BY <1>3, <2>1
<1>11. Review!RatedAsShown'
  BY <1>3 DEF ReviewInv, Review!RatedAsShown
<1> QED BY <1>7, <1>8, <1>9, <1>10, <1>11 DEF ReviewInv

\* It does not come.
LEMMA ListLostKeeps ==
  ASSUME ReviewInv, NEW i \in DOMAIN calls, Review!ListLost(i)
  PROVE  ReviewInv'
<1>0. Typed /\ Known /\ Shown /\ Rated
  BY DEF ReviewInv
<1>1. /\ UNCHANGED <<cards, gone, due, cram, queue, index, screen, answer, revealed, listed, reviewActs>>
      /\ calls' = RemoveAt(calls, i) /\ lined' = FALSE /\ steady' = FALSE
  <2>1. /\ UNCHANGED <<cards, gone, due, cram, queue, index, screen, answer, revealed, listed, reviewActs>>
        /\ calls' = RemoveAt(calls, i)
    BY DEF Review!ListLost, Review!server, Review!display, Review!session, RemoveAt, Review!RemoveAt
  <2>2. lined' = FALSE /\ steady' = FALSE
    BY DEF Review!ListLost
  <2> QED BY <2>1, <2>2
<1>2. /\ calls' \in Seq(Call) /\ Len(calls') = Len(calls) - 1 /\ Len(calls) \in Nat
      /\ \A j \in DOMAIN calls' : \E k \in DOMAIN calls : calls'[j] = calls[k]
  BY <1>0, <1>1, CallRemoved DEF Typed
<1>3. Typed'
  <2>1. index' + Len(calls') <= reviewActs' + 1 /\ reviewActs' \in 0..MaxReviewActs
    BY <1>0, <1>1, <1>2, TabAssumption DEF Typed, Review!TypeOK
  <2>2. Review!TypeOK'
    BY <1>0, <1>1 DEF Typed, Review!TypeOK
  <2> QED BY <1>2, <2>1, <2>2 DEF Typed
<1>4. Known'
  <2>1. queue' # Nil => \A j \in DOMAIN queue' : queue'[j] \in cards' \union gone'
    BY <1>0, <1>1 DEF Known
  <2>2. ASSUME NEW j \in DOMAIN calls', calls'[j].list # Nil, NEW k \in DOMAIN calls'[j].list
        PROVE  calls'[j].list[k] \in cards' \union gone'
    <3>1. PICK h \in DOMAIN calls : calls'[j] = calls[h]
      BY <1>2
    <3> QED BY <1>0, <1>1, <2>2, <3>1 DEF Known
  <2> QED BY <2>1, <2>2 DEF Known
<1>5. Shown' /\ Rated'
  BY <1>1 DEF Shown, Rated
<1>6. Review!RatedAsShown'
  BY <1>2 DEF ReviewInv, Review!RatedAsShown
<1> QED BY <1>3, <1>4, <1>5, <1>6 DEF ReviewInv

\* A rating is answered, or not: the next card is shown.
LEMMA RatingKeeps ==
  ASSUME ReviewInv, NEW i \in DOMAIN calls, Review!RatingReturns(i)
  PROVE  ReviewInv'
<1>0. Typed /\ Known /\ Shown /\ Rated
  BY DEF ReviewInv
<1>1. /\ UNCHANGED <<cards, gone, due, cram, queue, listed, lined, reviewActs>>
      /\ calls[i].kind = "rate" /\ calls[i].state # "sent" /\ index' = index + 1
      /\ calls' = RemoveAt(calls, i) /\ steady' = (steady /\ calls[i].state # "lost")
      /\ IF queue = Nil THEN UNCHANGED <<screen, answer, revealed>> ELSE Review!Render(queue, index + 1)
  <2>1. /\ UNCHANGED <<cards, gone, due, cram, queue, listed, lined, reviewActs>>
        /\ calls[i].kind = "rate" /\ calls[i].state # "sent"
        /\ index' = index + 1 /\ calls' = RemoveAt(calls, i)
    BY DEF Review!RatingReturns, Review!server, RemoveAt, Review!RemoveAt
  <2>2. steady' = (steady /\ calls[i].state # "lost")
    BY Zenon DEF Review!RatingReturns
  <2>3. IF queue = Nil THEN UNCHANGED <<screen, answer, revealed>> ELSE Review!Render(queue, index + 1)
    BY DEF Review!RatingReturns, Review!display
  <2> QED BY <2>1, <2>2, <2>3
<1>2. calls[i] \in Call
  BY <1>0 DEF Typed
<1>3. /\ calls' \in Seq(Call) /\ Len(calls') = Len(calls) - 1 /\ Len(calls) \in Nat
      /\ \A j \in DOMAIN calls' : \E k \in DOMAIN calls : calls'[j] = calls[k]
      /\ OneLoad(calls) => OneLoad(calls')
      /\ calls[i].kind # "load" => (HasLoad(calls) <=> HasLoad(calls'))
      /\ Len(calls) = 1 => DOMAIN calls' = {}
  BY <1>0, <1>1, CallRemoved DEF Typed
<1>4. index \in Nat \ {0} /\ index' \in Nat \ {0}
  BY <1>0, <1>1, TabAssumption DEF Typed, Review!TypeOK
<1>5. queue # Nil => /\ index' > Len(queue) => screen' = Done
                     /\ ~ (index' > Len(queue)) => screen' = queue[index'] /\ revealed' = FALSE
                     /\ answer' = FALSE /\ revealed' \in {revealed, FALSE}
  BY <1>1 DEF Review!Render
<1>6. queue # Nil => queue \in Seq(Card) /\ Len(queue) \in Nat /\ DOMAIN queue = 1..Len(queue)
  BY <1>0 DEF Typed, Review!TypeOK
<1>7. Typed'
  <2>1. index' + Len(calls') <= reviewActs' + 1 /\ reviewActs' \in 0..MaxReviewActs
    BY <1>0, <1>1, <1>3, <1>4 DEF Typed
  <2>2. index' \in 1..MaxReviewActs + 1
    BY <1>3, <1>4, <2>1, TabAssumption
  <2>3. screen' \in Card \union {Done, Nil}
    <3>1. CASE queue = Nil
      BY <1>0, <1>1, <3>1 DEF Typed, Review!TypeOK
    <3>2. CASE queue # Nil /\ index' > Len(queue)
      BY <1>5, <3>2
    <3>3. CASE queue # Nil /\ ~ (index' > Len(queue))
      <4>1. index' \in 1..Len(queue)
        BY <1>4, <1>6, <3>3
      <4>2. queue[index'] \in Card
        BY <1>6, <3>3, <4>1
      <4> QED BY <1>5, <3>3, <4>2
    <3> QED BY <3>1, <3>2, <3>3
  <2>4. revealed' \in BOOLEAN /\ answer' \in BOOLEAN
    <3>1. revealed \in BOOLEAN /\ answer \in BOOLEAN
      BY <1>0 DEF Typed, Review!TypeOK
    <3>2. CASE queue = Nil
      BY <1>1, <3>1, <3>2
    <3>3. CASE queue # Nil
      BY <1>5, <3>1, <3>3
    <3> QED BY <3>2, <3>3
  <2>5. Review!TypeOK'
    BY <1>0, <1>1, <2>2, <2>3, <2>4 DEF Typed, Review!TypeOK
  <2> QED BY <1>3, <2>1, <2>5 DEF Typed
<1>8. Known'
  <2>1. queue' # Nil => \A j \in DOMAIN queue' : queue'[j] \in cards' \union gone'
    BY <1>0, <1>1 DEF Known
  <2>2. ASSUME NEW j \in DOMAIN calls', calls'[j].list # Nil, NEW k \in DOMAIN calls'[j].list
        PROVE  calls'[j].list[k] \in cards' \union gone'
    <3>1. PICK h \in DOMAIN calls : calls'[j] = calls[h]
      BY <1>3
    <3> QED BY <1>0, <1>1, <2>2, <3>1 DEF Known
  <2> QED BY <2>1, <2>2 DEF Known
<1>9. HasLoad(calls) <=> HasLoad(calls')
  BY <1>1, <1>3
<1>10. Shown'
  <2> SUFFICES ASSUME lined
               PROVE  /\ OneLoad(calls')
                      /\ \A j \in DOMAIN calls' : calls'[j].kind = "load" => calls'[j].cram = cram
                      /\ ~HasLoad(calls') =>
                           /\ cram = listed
                           /\ Review!HasCard' => screen' = queue[index'] /\ (revealed' => answer')
    BY <1>1 DEF Shown
  <2>1. OneLoad(calls') /\ (~HasLoad(calls') => cram = listed)
    BY <1>0, <1>3, <1>9 DEF Shown
  <2>2. \A j \in DOMAIN calls' : calls'[j].kind = "load" => calls'[j].cram = cram
    BY <1>0, <1>3 DEF Shown
  <2>3. Review!HasCard' => screen' = queue[index'] /\ ~revealed'
    <3>1. Review!HasCard' => queue # Nil /\ index' <= Len(queue)
      BY <1>1 DEF Review!HasCard
    <3>2. queue # Nil /\ index' <= Len(queue) => ~ (index' > Len(queue))
      BY <1>4, <1>6
    <3> QED BY <1>5, <3>1, <3>2
  <2> QED BY <2>1, <2>2, <2>3
<1>11. Rated'
  <2> SUFFICES ASSUME steady, calls[i].state # "lost", ~HasLoad(calls)
               PROVE  /\ lined /\ Len(calls') <= 1 /\ DOMAIN calls' = {}
                      /\ queue # Nil /\ ~listed => \A j \in DOMAIN queue : j < index' => queue[j] \notin due
    BY <1>1, <1>9 DEF Rated
  <2>1. lined /\ Len(calls) <= 1
    BY <1>0 DEF Rated
  <2>2. Len(calls) = 1
    <3>1. calls \in Seq(Call)
      BY <1>0 DEF Typed
    <3>2. Len(calls) \in Nat /\ DOMAIN calls = 1..Len(calls)
      BY <3>1
    <3> QED BY <2>1, <3>2
  <2>3. calls[i].state = "answered"
    <3>1. calls[i].state \in {"sent", "answered", "lost"}
      BY <1>2 DEF Call
    <3> QED BY <1>1, <3>1
  <2>4. ASSUME queue # Nil, ~listed, NEW j \in DOMAIN queue, j < index'
        PROVE  queue[j] \notin due
    <3>1. queue[index] \notin due /\ \A k \in DOMAIN queue : k < index => queue[k] \notin due
      BY <1>0, <2>3, <2>4 DEF Rated
    <3>2. j = index \/ j < index
      BY <1>1, <1>4, <1>6, <2>4
    <3> QED BY <3>1, <3>2
  <2> QED BY <1>3, <2>1, <2>2, <2>4
<1>12. Review!RatedAsShown'
  BY <1>3 DEF ReviewInv, Review!RatedAsShown
<1> QED BY <1>7, <1>8, <1>10, <1>11, <1>12 DEF ReviewInv

\* Cards come and go.
LEMMA OthersKeep ==
  ASSUME ReviewInv, NEW c \in Card, Review!OtherReview(c) \/ Review!CardMade(c) \/ Review!CardDeleted(c)
  PROVE  ReviewInv'
<1>0. Typed /\ Known /\ Shown /\ Rated
  BY DEF ReviewInv
<1>1. /\ UNCHANGED <<cram, queue, index, screen, answer, revealed, calls, listed, lined, steady>>
      /\ reviewActs < MaxReviewActs /\ reviewActs' = reviewActs + 1
  BY DEF Review!OtherReview, Review!CardMade, Review!CardDeleted, Review!Act, Review!display,
         Review!session, Review!history
<1>2. /\ cards \union gone \subseteq cards' \union gone'
      /\ due' \subseteq due \union {x \in Card : x \notin cards \union gone}
      /\ due' \subseteq cards' /\ cards' \subseteq Card /\ gone' \subseteq Card \ cards'
  BY <1>0 DEF Typed, Review!TypeOK, Review!OtherReview, Review!CardMade, Review!CardDeleted
<1>3. Typed'
  <2>1. index' + Len(calls') <= reviewActs' + 1 /\ reviewActs' \in 0..MaxReviewActs
    <3>1. Len(calls) \in Nat /\ index \in Int
      BY <1>0, TabAssumption DEF Typed, Review!TypeOK
    <3> QED BY <1>0, <1>1, <3>1, TabAssumption DEF Typed
  <2>2. Review!TypeOK'
    BY <1>0, <1>1, <1>2 DEF Typed, Review!TypeOK
  <2> QED BY <1>0, <1>1, <2>1, <2>2 DEF Typed
<1>4. Known'
  BY <1>0, <1>1, <1>2 DEF Known
<1>5. queue # Nil => \A j \in DOMAIN queue : queue[j] \notin due => queue[j] \notin due'
  BY <1>0, <1>2 DEF Known
<1>6. Rated'
  <2>1. Review!HasCard' <=> Review!HasCard
    BY <1>1 DEF Review!HasCard
  <2>2. Review!HasCard => index \in DOMAIN queue
    <3> SUFFICES ASSUME Review!HasCard PROVE index \in DOMAIN queue
      OBVIOUS
    <3>1. queue \in Seq(Card) /\ index \in Nat \ {0} /\ index <= Len(queue)
      BY <1>0, TabAssumption DEF Typed, Review!TypeOK, Review!HasCard
    <3> QED BY <3>1
  <2> QED BY <1>0, <1>1, <1>5, <2>1, <2>2 DEF Rated
<1>7. Shown' /\ Review!RatedAsShown'
  BY <1>0, <1>1 DEF ReviewInv, Shown, Review!RatedAsShown, Review!HasCard
<1> QED BY <1>3, <1>4, <1>6, <1>7 DEF ReviewInv

LEMMA ReviewUnchanged == ReviewInv /\ UNCHANGED review => ReviewInv'
BY DEF ReviewInv, Typed, Known, Shown, Rated, Review!RatedAsShown, Review!TypeOK, Review!HasCard, review

LEMMA ReviewNext == ReviewInv /\ [TabNext]_<<view, vars, review>> => ReviewInv'
<1> SUFFICES ASSUME ReviewInv, [TabNext]_<<view, vars, review>> PROVE ReviewInv'
  OBVIOUS
<1>1. cram \in BOOLEAN /\ (~cram) \in BOOLEAN
  BY DEF ReviewInv, Typed, Review!TypeOK
<1>2. CASE ReviewerPart
  <2>1. CASE SwitchToReviewer
    BY <1>1, <2>1, StartKeeps DEF SwitchToReviewer, Review!SwitchToReviewer
  <2>2. CASE SwitchAway
    BY <2>2, ReviewUnchanged DEF SwitchAway
  <2>3. CASE ReviewerKey
    <3>1. CASE Review!ToggleCramMode
      BY <1>1, <3>1, StartKeeps DEF Review!ToggleCramMode
    <3>2. CASE Review!RevealAnswer \/ Review!RateCard
      BY <3>2, RevealKeeps, RateKeeps
    <3> QED BY <2>3, <3>1, <3>2 DEF ReviewerKey, Review!Keys
  <2>4. CASE Review!Requests
    <3>1. PICK i \in DOMAIN calls :
            \/ Review!ServeLoad(i) \/ Review!ServeRating(i) \/ Review!Lose(i)
            \/ Review!ListArrives(i) \/ Review!ListLost(i) \/ Review!RatingReturns(i)
      BY <2>4 DEF Review!Requests
    <3> QED BY <3>1, ServeKeeps, ListKeeps, ListLostKeeps, RatingKeeps
  <2>5. CASE Review!Others
    BY <2>5, OthersKeep DEF Review!Others
  <2> QED BY <1>2, <2>1, <2>2, <2>3, <2>4, <2>5 DEF ReviewerPart
<1>3. CASE ReaderPart \/ UNCHANGED <<view, vars, review>>
  <2>1. UNCHANGED review
    BY <1>3 DEF ReaderPart, OpenReaderFrom, ReaderClick, Header
  <2> QED BY <2>1, ReviewUnchanged
<1> QED BY <1>2, <1>3 DEF TabNext

----------------------------------------------------------------------------
(* What the reader works with.                                              *)

Spot == [doc : Doc, page : Page, of : Doc]

Note == [doc : Doc, page : Page, hl : Nat, of : Doc]

Nexts == {"nothing", "scroll", "second"}

Drawer == [of : Doc, step : {"page", "queued", "drawing"}, scale : Nat,
           spoilt : BOOLEAN, off : BOOLEAN, next : Nexts]

Sheet == [drawn : {<<>>} \union (Doc \X Nat), boxes : SUBSET Nat]

Views == [pdf : Doc \union {Nil}, rendered : SUBSET Page, rendering : SUBSET Page,
          renders : [Page -> Seq(Drawer)], length : Nat]

LEMMA PageRange ==
  /\ Page \subseteq Nat \ {0}
  /\ \A d \in Doc : 1..Pages[d] \subseteq Page /\ Pages[d] \in Nat \ {0} /\ 1 \in 1..Pages[d]
<1>1. \A d \in Doc : Pages[d] \in Nat \ {0}
  BY PdfReaderAssumption
<1>2. Page \subseteq Nat \ {0}
  BY <1>1 DEF Page
<1>3. \A d \in Doc : 1 \in 1..Pages[d]
  BY <1>1
<1> QED BY <1>1, <1>2, <1>3 DEF Page

----------------------------------------------------------------------------
(* The calls that draw pages, as functions of a view.                       *)

\* A page is being drawn only as long as a call for it is under way.
RunningIn(v) == \A p \in v.rendering : v.renders[p] # <<>>

\* There is one call for each page that is being drawn and none for a page
\* that is drawn; it draws the file that is decoded, at the zoom there is.
SmoothIn(v, s) ==
  /\ v.rendered \intersect v.rendering = {}
  /\ \A p \in Page :
       /\ Len(v.renders[p]) <= 1
       /\ v.renders[p] # <<>> => p \in v.rendering
       /\ p \in v.rendering => v.renders[p] # <<>>
       /\ \A i \in DOMAIN v.renders[p] :
            LET r == v.renders[p][i] IN
            /\ ~r.off /\ ~r.spoilt
            /\ r.step # "page" => r.scale = s
            /\ v.pdf # Nil => r.of = v.pdf /\ p <= Pages[v.pdf]

\* No page is forgotten: all have been asked for, or a call that asks for more
\* when it ends is under way.
AllIn(v) == 1..Pages[v.pdf] \subseteq v.rendered \union v.rendering

ChainIn(v) == \E p \in Page : v.renders[p] # <<>> /\ v.renders[p][1].next # "nothing"

ChainedIn(v) == v.pdf # Nil => AllIn(v) \/ ChainIn(v)

\* The pages of ps that Request asks for, and with which call.
Unasked(v, ps) == {p \in ps \ (v.rendered \union v.rendering) : p <= Pages[v.pdf]}
Drawing0(v, next) ==
  [of |-> v.pdf, step |-> "page", scale |-> 0, spoilt |-> FALSE, off |-> FALSE, next |-> next]

LEMMA RequestNothing ==
  ASSUME NEW v, NEW ps, NEW next, NEW w, w = Request(v, ps, next), v.pdf = Nil
  PROVE  w = v
BY DEF Request

LEMMA RequestIs ==
  ASSUME NEW v \in Views, NEW ps \in SUBSET (Nat \ {0}), NEW next \in Nexts,
         NEW w, w = Request(v, ps, next), v.pdf # Nil
  PROVE  /\ w \in Views /\ w.pdf = v.pdf /\ w.length = v.length /\ w.rendered = v.rendered
         /\ Unasked(v, ps) \subseteq Page
         /\ w.rendering = v.rendering \union Unasked(v, ps)
         /\ Drawing0(v, next) \in Drawer
         /\ \A p \in Page : w.renders[p] =
              IF p \in Unasked(v, ps) THEN Append(v.renders[p], Drawing0(v, next)) ELSE v.renders[p]
         /\ Unasked(v, ps) = {} => w = v
<1> DEFINE new == Unasked(v, ps)
           c == Drawing0(v, next)
           f == [p \in Page |-> IF p \in new THEN Append(v.renders[p], c) ELSE v.renders[p]]
<1>1. v.pdf \in Doc /\ v.renders \in [Page -> Seq(Drawer)] /\ v.rendering \subseteq Page
  BY DEF Views
<1>2. new \subseteq Page
  <2>1. PICK n \in Nat : n = Pages[v.pdf]
    BY <1>1, PageRange
  <2>2. \A p \in new : p \in Nat \ {0} /\ p <= n
    BY <2>1 DEF Unasked
  <2>3. new \subseteq 1..n
    BY <2>1, <2>2
  <2> QED BY <1>1, <2>1, <2>3, PageRange
<1>3. c \in Drawer
  BY <1>1 DEF Drawing0, Drawer
<1>4. w = [v EXCEPT !.rendering = @ \union new, !.renders = f]
  BY DEF Request, Unasked, Drawing0
<1>5. ASSUME new = {}
      PROVE  f = v.renders /\ v.rendering \union new = v.rendering
  BY <1>1, <1>5
<1> HIDE DEF new, c
<1>6. f \in [Page -> Seq(Drawer)]
  <2> SUFFICES ASSUME NEW p \in Page
               PROVE  (IF p \in new THEN Append(v.renders[p], c) ELSE v.renders[p]) \in Seq(Drawer)
    OBVIOUS
  <2>1. PICK a \in Seq(Drawer) : a = v.renders[p]
    BY <1>1
  <2>2. Append(a, c) \in Seq(Drawer)
    BY <1>3
  <2> QED BY <2>1, <2>2
<1>7. \A p \in Page : f[p] = IF p \in new THEN Append(v.renders[p], c) ELSE v.renders[p]
  OBVIOUS
<1> HIDE DEF f
<1>8. /\ w \in Views /\ w.pdf = v.pdf /\ w.length = v.length /\ w.rendered = v.rendered
      /\ w.rendering = v.rendering \union new /\ w.renders = f
  BY <1>1, <1>2, <1>4, <1>6 DEF Views
<1>9. new = {} => w = v
  BY <1>4, <1>5 DEF Views
<1> QED BY <1>2, <1>3, <1>7, <1>8, <1>9 DEF new, c

\* Asking for pages forgets none, draws none twice, and when all of the file
\* are asked for all are drawn.
LEMMA RequestKeeps ==
  ASSUME NEW v \in Views, NEW ps \in SUBSET (Nat \ {0}), NEW next \in Nexts,
         NEW w, w = Request(v, ps, next)
  PROVE  /\ w \in Views /\ w.pdf = v.pdf /\ w.length = v.length /\ w.rendered = v.rendered
         /\ RunningIn(v) => RunningIn(w)
         /\ \A s : SmoothIn(v, s) => SmoothIn(w, s)
         /\ ChainedIn(v) => ChainedIn(w)
         /\ v.pdf # Nil /\ AllIn(v) => w.rendering = v.rendering
         /\ v.pdf # Nil /\ 1..Pages[v.pdf] \subseteq ps => AllIn(w)
<1>0. \A p \in Page : v.renders[p] \in Seq(Drawer)
  BY DEF Views
<1>1. CASE v.pdf = Nil
  <2>1. w = v
    BY <1>1, RequestNothing
  <2> QED BY <1>1, <2>1
<1>2. CASE v.pdf # Nil
  <2> DEFINE new == Unasked(v, ps)
             c == Drawing0(v, next)
  <2>1. /\ w \in Views /\ w.pdf = v.pdf /\ w.length = v.length /\ w.rendered = v.rendered
        /\ new \subseteq Page /\ w.rendering = v.rendering \union new /\ c \in Drawer
        /\ \A p \in Page : w.renders[p] = IF p \in new THEN Append(v.renders[p], c) ELSE v.renders[p]
    BY <1>2, RequestIs
  <2>2. /\ new \intersect (v.rendered \union v.rendering) = {}
        /\ \A p \in new : p <= Pages[v.pdf]
        /\ \A p \in ps : p <= Pages[v.pdf] => p \in v.rendered \union v.rendering \union new
    BY DEF Unasked
  <2>3. c.of = v.pdf /\ c.step = "page" /\ c.spoilt = FALSE /\ c.off = FALSE /\ c.next = next
    BY DEF Drawing0
  <2> HIDE DEF new, c
  <2>4. \A p \in new : /\ w.renders[p] # <<>> /\ Len(w.renders[p]) = Len(v.renders[p]) + 1
                       /\ v.renders[p] # <<>> => w.renders[p][1] = v.renders[p][1]
                       /\ v.renders[p] = <<>> => Len(w.renders[p]) = 1 /\ DOMAIN w.renders[p] = {1} /\ w.renders[p][1] = c
    <3> SUFFICES ASSUME NEW p \in new
                 PROVE  /\ w.renders[p] # <<>> /\ Len(w.renders[p]) = Len(v.renders[p]) + 1
                        /\ v.renders[p] # <<>> => w.renders[p][1] = v.renders[p][1]
                        /\ v.renders[p] = <<>> => /\ Len(w.renders[p]) = 1 /\ DOMAIN w.renders[p] = {1}
                                                 /\ w.renders[p][1] = c
      BY Zenon
    <3>1. PICK a \in Seq(Drawer) : a = v.renders[p]
      BY <1>0, <2>1
    <3>2. PICK b : b = w.renders[p]
      OBVIOUS
    <3>3. b = Append(a, c)
      BY <2>1, <3>1, <3>2
    <3>4. /\ b # <<>> /\ Len(b) = Len(a) + 1
          /\ a # <<>> => b[1] = a[1]
          /\ a = <<>> => Len(b) = 1 /\ DOMAIN b = {1} /\ b[1] = c
      BY <2>1, <3>3
    <3> QED BY <3>1, <3>2, <3>4
  <2>5. RunningIn(v) => RunningIn(w)
    BY <2>1, <2>4 DEF RunningIn, Views
  <2>6. ASSUME NEW s, SmoothIn(v, s)
        PROVE  SmoothIn(w, s)
    <3>1. w.rendered \intersect w.rendering = {}
      BY <2>1, <2>2, <2>6 DEF SmoothIn
    <3>2. ASSUME NEW p \in Page, p \notin new
          PROVE  /\ w.renders[p] = v.renders[p]
                 /\ p \in w.rendering <=> p \in v.rendering
      BY <2>1, <3>2
    <3>3. ASSUME NEW p \in new
          PROVE  v.renders[p] = <<>> /\ p \in w.rendering
      BY <2>1, <2>2, <2>6, <3>3 DEF SmoothIn
    <3> QED BY <2>1, <2>2, <2>3, <2>4, <2>6, <3>1, <3>2, <3>3 DEF SmoothIn
  <2>7. ASSUME ChainedIn(v)
        PROVE  ChainedIn(w)
    <3>1. CASE AllIn(v)
      BY <2>1, <3>1 DEF ChainedIn, AllIn
    <3>2. CASE ChainIn(v)
      <4>1. PICK p \in Page : v.renders[p] # <<>> /\ v.renders[p][1].next # "nothing"
        BY <3>2 DEF ChainIn
      <4>2. w.renders[p] # <<>> /\ w.renders[p][1] = v.renders[p][1]
        BY <2>1, <2>4, <4>1
      <4> QED BY <4>1, <4>2 DEF ChainedIn, ChainIn
    <3> QED BY <1>2, <2>7, <3>1, <3>2 DEF ChainedIn
  <2>8. ASSUME AllIn(v)
        PROVE  w.rendering = v.rendering
    <3>1. new = {}
      <4> SUFFICES ASSUME NEW p \in new PROVE FALSE
        OBVIOUS
      <4>1. p \in 1..Pages[v.pdf]
        BY <1>2, <2>1, <2>2, PageRange DEF Views
      <4> QED BY <2>2, <2>8, <4>1 DEF AllIn
    <3> QED BY <2>1, <3>1
  <2>9. ASSUME 1..Pages[v.pdf] \subseteq ps
        PROVE  AllIn(w)
    <3> SUFFICES ASSUME NEW p \in 1..Pages[v.pdf] PROVE p \in w.rendered \union w.rendering
      BY <2>1 DEF AllIn
    <3>1. p <= Pages[v.pdf]
      BY <1>2, PageRange DEF Views
    <3> QED BY <2>1, <2>2, <2>9, <3>1
  <2> QED BY <1>2, <2>1, <2>5, <2>6, <2>7, <2>8, <2>9
<1> QED BY <1>1, <1>2

LEMMA ScrolledKeeps ==
  ASSUME NEW v \in Views, NEW w, w = Scrolled(v)
  PROVE  /\ w \in Views /\ w.pdf = v.pdf /\ w.length = v.length /\ w.rendered = v.rendered
         /\ RunningIn(v) => RunningIn(w)
         /\ \A s : SmoothIn(v, s) => SmoothIn(w, s)
         /\ ChainedIn(v) => ChainedIn(w)
         /\ v.pdf # Nil /\ AllIn(v) => w.rendering = v.rendering
         /\ v.pdf # Nil /\ v.length = Pages[v.pdf] => AllIn(w)
<1>1. PICK ps : ps = 1..v.length
  OBVIOUS
<1>2. v.length \in Nat
  BY DEF Views
<1>3. ps \in SUBSET (Nat \ {0})
  BY <1>1, <1>2
<1>4. w = Request(v, ps, "nothing") /\ "nothing" \in Nexts
  BY <1>1 DEF Scrolled, Nexts
<1>5. v.length = Pages[v.pdf] => 1..Pages[v.pdf] \subseteq ps
  BY <1>1
<1> QED BY <1>3, <1>4, <1>5, RequestKeeps

\* A call ends: what is left when its page is freed, before its caller goes on.
Freed(v, p, i, ok) ==
  [v EXCEPT !.renders[p] = RemoveAt(@, i),
            !.rendering = @ \ {p},
            !.rendered = IF ok THEN @ \union {p} ELSE @]

\* What it keeps.
AfterFreed(u, v, p, i, ok) ==
  /\ u \in Views /\ u.pdf = v.pdf /\ u.length = v.length
  /\ u.rendered = IF ok THEN v.rendered \union {p} ELSE v.rendered
  /\ RunningIn(v) => RunningIn(u)
  /\ \A s : SmoothIn(v, s) => /\ SmoothIn(u, s) /\ i = 1
                              /\ \A q \in Page \ {p} : u.renders[q] = v.renders[q]
  /\ ok /\ AllIn(v) => AllIn(u)

LEMMA FreedKeeps ==
  ASSUME NEW v \in Views, NEW p \in Page, NEW i \in DOMAIN v.renders[p], NEW ok \in BOOLEAN,
         NEW u, u = Freed(v, p, i, ok)
  PROVE  AfterFreed(u, v, p, i, ok)
<1>0. /\ v.renders \in [Page -> Seq(Drawer)] /\ v.rendering \subseteq Page /\ v.rendered \subseteq Page
      /\ v.renders[p] \in Seq(Drawer)
  BY DEF Views
<1>1. PICK b : b = RemoveAt(v.renders[p], i)
  OBVIOUS
<1>2. b \in Seq(Drawer) /\ Len(b) = Len(v.renders[p]) - 1 /\ i \in 1..Len(v.renders[p])
  BY <1>0, <1>1, ElementRemoved
<1>3. /\ u \in Views /\ u.pdf = v.pdf /\ u.length = v.length
      /\ u.rendered = (IF ok THEN v.rendered \union {p} ELSE v.rendered)
      /\ u.rendering = v.rendering \ {p} /\ u.renders = [v.renders EXCEPT ![p] = b]
  <2>1. u = [v EXCEPT !.renders = [v.renders EXCEPT ![p] = b],
                      !.rendering = v.rendering \ {p},
                      !.rendered = IF ok THEN v.rendered \union {p} ELSE v.rendered]
    BY <1>1 DEF Freed, Views
  <2>2. [v.renders EXCEPT ![p] = b] \in [Page -> Seq(Drawer)]
    BY <1>0, <1>2
  <2>3. (IF ok THEN v.rendered \union {p} ELSE v.rendered) \in SUBSET Page
    BY <1>0
  <2>4. v.rendering \ {p} \in SUBSET Page
    BY <1>0
  <2> QED BY <2>1, <2>2, <2>3, <2>4 DEF Views
<1>4. u.renders[p] = b /\ \A q \in Page \ {p} : u.renders[q] = v.renders[q]
  BY <1>0, <1>3
<1>5. RunningIn(v) => RunningIn(u)
  BY <1>0, <1>3, <1>4 DEF RunningIn
<1>6. ASSUME NEW s, SmoothIn(v, s)
      PROVE  SmoothIn(u, s) /\ i = 1
  <2>1. Len(v.renders[p]) <= 1
    BY <1>6 DEF SmoothIn
  <2>2. i = 1 /\ Len(b) = 0 /\ b = <<>> /\ DOMAIN b = {}
    <3>1. Len(v.renders[p]) \in Nat
      BY <1>0
    <3>2. i = 1 /\ Len(b) = 0
      <4>1. PICK n \in Nat : n = Len(v.renders[p])
        BY <3>1
      <4>2. n <= 1 /\ i \in 1..n /\ Len(b) = n - 1
        BY <1>2, <2>1, <4>1
      <4> QED BY <4>2
    <3>3. b = <<>>
      BY <1>2, <3>2, EmptySeq
    <3> QED BY <3>2, <3>3
  <2>3. p \in v.rendering
    <3>1. v.renders[p] # <<>>
      BY <1>0
    <3> QED BY <1>6, <3>1 DEF SmoothIn
  <2>4. u.rendered \intersect u.rendering = {}
    BY <1>3, <1>6 DEF SmoothIn
  <2>5. ASSUME NEW q \in Page
        PROVE  /\ Len(u.renders[q]) <= 1
               /\ u.renders[q] # <<>> => q \in u.rendering
               /\ q \in u.rendering => u.renders[q] # <<>>
               /\ \A j \in DOMAIN u.renders[q] :
                    LET r == u.renders[q][j] IN
                    /\ ~r.off /\ ~r.spoilt
                    /\ r.step # "page" => r.scale = s
                    /\ u.pdf # Nil => r.of = u.pdf /\ q <= Pages[u.pdf]
    <3>1. CASE q = p
      BY <1>3, <1>4, <2>2, <3>1
    <3>2. CASE q # p
      <4>1. u.renders[q] = v.renders[q] /\ (q \in u.rendering <=> q \in v.rendering) /\ u.pdf = v.pdf
        BY <1>3, <1>4, <3>2
      <4> QED BY <1>6, <4>1 DEF SmoothIn
    <3> QED BY <3>1, <3>2
  <2> QED BY <2>2, <2>4, <2>5 DEF SmoothIn
<1>7. ok /\ AllIn(v) => AllIn(u)
  BY <1>3 DEF AllIn
<1> QED BY <1>3, <1>4, <1>5, <1>6, <1>7 DEF AfterFreed

\* When a call ends no page is forgotten, as long as calls end by drawing.
AfterEnded(w, v, p, ok) ==
  /\ w \in Views /\ w.pdf = v.pdf
  /\ w.rendered = IF ok THEN v.rendered \union {p} ELSE v.rendered
  /\ RunningIn(v) => RunningIn(w)
  /\ \A s : SmoothIn(v, s) => SmoothIn(w, s)
  /\ \A s : /\ SmoothIn(v, s) /\ ok /\ ChainedIn(v)
            /\ v.pdf # Nil => v.length = Pages[v.pdf]
            => ChainedIn(w)

LEMMA EndedKeeps ==
  ASSUME NEW v \in Views, NEW p \in Page, NEW i \in DOMAIN v.renders[p], NEW ok \in BOOLEAN,
         NEW w, w = Ended(v, p, i, ok)
  PROVE  AfterEnded(w, v, p, ok)
<1>1. PICK u : u = Freed(v, p, i, ok)
  OBVIOUS
<1>2. PICK next : next = v.renders[p][i].next
  OBVIOUS
<1>3. w = Resumed(u, next)
  BY <1>1, <1>2 DEF Ended, Freed
<1>4. next \in Nexts
  <2>1. v.renders[p] \in Seq(Drawer)
    BY DEF Views
  <2>2. v.renders[p][i] \in Drawer
    BY <2>1
  <2> QED BY <1>2, <2>2 DEF Drawer
<1>5. /\ u \in Views /\ u.pdf = v.pdf /\ u.length = v.length
      /\ u.rendered = IF ok THEN v.rendered \union {p} ELSE v.rendered
      /\ RunningIn(v) => RunningIn(u)
      /\ \A s : SmoothIn(v, s) => /\ SmoothIn(u, s) /\ i = 1
                                  /\ \A q \in Page \ {p} : u.renders[q] = v.renders[q]
      /\ ok /\ AllIn(v) => AllIn(u)
  <2>1. AfterFreed(u, v, p, i, ok)
    BY <1>1, FreedKeeps
  <2> QED BY <2>1 DEF AfterFreed
<1>6. /\ w \in Views /\ w.pdf = u.pdf /\ w.rendered = u.rendered
      /\ RunningIn(u) => RunningIn(w)
      /\ \A s : SmoothIn(u, s) => SmoothIn(w, s)
      /\ ChainedIn(u) => ChainedIn(w)
      /\ \A s : /\ SmoothIn(u, s) /\ u.pdf # Nil /\ u.length = Pages[u.pdf] /\ next # "nothing"
                => ChainedIn(w)
  <2>1. CASE next = "nothing"
    BY <1>3, <1>5, <2>1 DEF Resumed
  <2>2. ASSUME w = Scrolled(u)
        PROVE  /\ w \in Views /\ w.pdf = u.pdf /\ w.rendered = u.rendered
               /\ RunningIn(u) => RunningIn(w)
               /\ \A s : SmoothIn(u, s) => SmoothIn(w, s)
               /\ ChainedIn(u) => ChainedIn(w)
               /\ u.pdf # Nil /\ u.length = Pages[u.pdf] => ChainedIn(w)
    BY <1>5, <2>2, ScrolledKeeps DEF ChainedIn
  <2>3. CASE next = "scroll"
    BY <1>3, <2>2, <2>3 DEF Resumed
  <2>4. CASE next = "second"
    <3>1. PICK x : x = Request(u, {2}, "scroll")
      OBVIOUS
    <3>2. w = IF x = u THEN Scrolled(u) ELSE x
      BY <1>3, <2>4, <3>1 DEF Resumed
    <3>3. CASE x = u
      BY <2>2, <3>2, <3>3
    <3>4. CASE x # u
      <4>1. w = x
        BY <3>2, <3>4
      <4>2. {2} \in SUBSET (Nat \ {0}) /\ "scroll" \in Nexts
        BY DEF Nexts
      <4>3. /\ w \in Views /\ w.pdf = u.pdf /\ w.rendered = u.rendered
            /\ RunningIn(u) => RunningIn(w)
            /\ \A s : SmoothIn(u, s) => SmoothIn(w, s)
            /\ ChainedIn(u) => ChainedIn(w)
        <5>1. w = Request(u, {2}, "scroll")
          BY <3>1, <4>1
        <5> QED BY <1>5, <4>2, <5>1, RequestKeeps
      <4>4. ASSUME NEW s, SmoothIn(u, s), u.pdf # Nil
            PROVE  ChainIn(w)
        <5>1. /\ Unasked(u, {2}) \subseteq Page /\ Unasked(u, {2}) # {}
              /\ \A q \in Page : w.renders[q] =
                   IF q \in Unasked(u, {2}) THEN Append(u.renders[q], Drawing0(u, "scroll"))
                                            ELSE u.renders[q]
          BY <1>5, <3>1, <3>4, <4>1, <4>2, <4>4, RequestIs
        <5>2. 2 \in Page /\ 2 \in Unasked(u, {2}) /\ 2 \notin u.rendering
          BY <5>1 DEF Unasked
        <5>3. u.renders[2] = <<>>
          BY <4>4, <5>2 DEF SmoothIn
        <5>4. w.renders[2] = Append(<<>>, Drawing0(u, "scroll"))
          BY <5>1, <5>2, <5>3
        <5>5. w.renders[2] # <<>> /\ w.renders[2][1] = Drawing0(u, "scroll")
          BY <5>4
        <5> QED BY <5>2, <5>5 DEF ChainIn, Drawing0
      <4> QED BY <4>3, <4>4 DEF ChainedIn
    <3> QED BY <3>3, <3>4
  <2> QED BY <1>4, <2>1, <2>3, <2>4 DEF Nexts
<1>7. ASSUME NEW s, SmoothIn(v, s), ok, ChainedIn(v), v.pdf # Nil => v.length = Pages[v.pdf]
      PROVE  ChainedIn(w)
  <2>1. CASE v.pdf = Nil
    BY <1>5, <1>6, <2>1 DEF ChainedIn
  <2>2. CASE v.pdf # Nil /\ AllIn(v)
    <3>1. AllIn(u)
      BY <1>5, <1>7, <2>2
    <3> QED BY <1>6, <3>1 DEF ChainedIn
  <2>3. CASE v.pdf # Nil /\ ChainIn(v) /\ next # "nothing"
    BY <1>5, <1>6, <1>7, <2>3
  <2>4. CASE v.pdf # Nil /\ ChainIn(v) /\ next = "nothing"
    <3>1. PICK q \in Page : v.renders[q] # <<>> /\ v.renders[q][1].next # "nothing"
      BY <2>4 DEF ChainIn
    <3>2. q # p /\ u.renders[q] = v.renders[q]
      BY <1>2, <1>5, <1>7, <2>4, <3>1
    <3>3. ChainIn(u)
      BY <3>1, <3>2 DEF ChainIn
    <3> QED BY <1>6, <3>3 DEF ChainedIn
  <2> QED BY <1>7, <2>1, <2>2, <2>3, <2>4 DEF ChainedIn
<1> QED BY <1>5, <1>6, <1>7 DEF AfterEnded

----------------------------------------------------------------------------
(* The requests of the reader.                                              *)

Two == {"sent", "answered"}

LoadAsk == [kind : {"load"}, doc : Doc, step : {"doc", "list", "listed", "pdf"}, got : SUBSET Nat]
PatchAsk == [kind : {"patch"}, doc : Doc, step : {"sent"}, count : Nat]
HighlightAsk == [kind : {"highlight"}, step : Two, at : Spot, withNote : BOOLEAN, hl : Nat]
NoteAsk == [kind : {"note"}, step : Two, note : Note]
DeleteAsk == [kind : {"delete"}, step : Two, hl : Nat]
DropAsk == [kind : {"drop"}, step : Two, doc : Doc]
Ask == LoadAsk \union PatchAsk \union HighlightAsk \union NoteAsk \union DeleteAsk \union DropAsk

Asks(s) == {s[i] : i \in DOMAIN s}

LoadIn(s) == \E r \in Asks(s) : r.kind = "load"

\* A load past its first answer.
PastIn(s) == \E r \in Asks(s) : r.kind = "load" /\ r.step # "doc"

\* The answer to the deletion of h, or of d, is on its way, or the id of h.
Deleting(s, h) == \E r \in Asks(s) : r.kind = "delete" /\ r.step = "answered" /\ r.hl = h
Dropping(s, d) == \E r \in Asks(s) : r.kind = "drop" /\ r.step = "answered" /\ r.doc = d
IsComing(r) == r.kind = "highlight" /\ r.step = "answered"
Coming(s, h) == \E r \in Asks(s) : IsComing(r) /\ r.hl = h

\* No id is on its way twice.
ComeOnce(s) ==
  \A i, j \in DOMAIN s : IsComing(s[i]) /\ IsComing(s[j]) /\ s[i].hl = s[j].hl => i = j

LEMMA AskKinds ==
  ASSUME NEW r \in Ask
  PROVE  /\ r.kind = "load" => r \in LoadAsk
         /\ r.kind = "patch" => r \in PatchAsk
         /\ r.kind = "highlight" => r \in HighlightAsk
         /\ r.kind = "note" => r \in NoteAsk
         /\ r.kind = "delete" => r \in DeleteAsk
         /\ r.kind = "drop" => r \in DropAsk
BY DEF Ask, LoadAsk, PatchAsk, HighlightAsk, NoteAsk, DeleteAsk, DropAsk

\* Requests come, change and end.
AfterAdded(t, s, c) ==
  /\ t \in Seq(Ask) /\ Len(s) \in Nat /\ Len(t) = Len(s) + 1
  /\ Asks(t) = Asks(s) \union {c}
  /\ ComeOnce(s) /\ ~IsComing(c) => ComeOnce(t)
  /\ s = <<>> => Len(t) = 1 /\ Asks(t) = {c}

LEMMA AskAdded ==
  ASSUME NEW s \in Seq(Ask), NEW c \in Ask, NEW t, t = Append(s, c)
  PROVE  AfterAdded(t, s, c)
<1>1. /\ t \in Seq(Ask) /\ Len(t) = Len(s) + 1 /\ Len(s) \in Nat
      /\ \A i \in 1..Len(s) + 1 : t[i] = IF i < Len(s) + 1 THEN s[i] ELSE c
  OBVIOUS
<1>2. DOMAIN t = 1..Len(s) + 1 /\ DOMAIN s = 1..Len(s)
  BY <1>1
<1>3. Len(t) \in 1..Len(s) + 1 /\ \A i \in 1..Len(s) : i \in 1..Len(s) + 1 /\ i < Len(s) + 1
  BY <1>1
<1>4. DOMAIN t = DOMAIN s \union {Len(t)} /\ Len(t) \notin DOMAIN s
  BY <1>1, <1>2
<1>5. t[Len(t)] = c
  BY <1>1, <1>3
<1>6. \A i \in DOMAIN s : t[i] = s[i]
  BY <1>1, <1>2, <1>3
<1>7. Asks(t) = Asks(s) \union {c}
  BY <1>4, <1>5, <1>6 DEF Asks
<1>8. ComeOnce(s) /\ ~IsComing(c) => ComeOnce(t)
  BY <1>4, <1>5, <1>6 DEF ComeOnce
<1>9. s = <<>> => Len(t) = 1 /\ Asks(t) = {c}
  BY <1>1, <1>7 DEF Asks
<1> QED BY <1>1, <1>7, <1>8, <1>9 DEF AfterAdded

AfterChanged(t, s, i, c) ==
  /\ t \in Seq(Ask) /\ Len(t) = Len(s)
  /\ c \in Asks(t) /\ Asks(t) \subseteq Asks(s) \union {c} /\ Asks(s) \ {s[i]} \subseteq Asks(t)
  /\ ComeOnce(s) /\ (IsComing(c) => ~Coming(s, c.hl)) => ComeOnce(t)
  /\ Len(s) = 1 => Asks(t) = {c}

LEMMA AskChanged ==
  ASSUME NEW s \in Seq(Ask), NEW i \in DOMAIN s, NEW c \in Ask, NEW t, t = [s EXCEPT ![i] = c]
  PROVE  AfterChanged(t, s, i, c)
<1>1. /\ t \in Seq(Ask) /\ Len(t) = Len(s) /\ DOMAIN t = DOMAIN s
      /\ t[i] = c /\ \A j \in DOMAIN s \ {i} : t[j] = s[j]
  OBVIOUS
<1>2. c \in Asks(t) /\ Asks(t) \subseteq Asks(s) \union {c} /\ Asks(s) \ {s[i]} \subseteq Asks(t)
  BY <1>1 DEF Asks
<1>3. ASSUME ComeOnce(s), IsComing(c) => ~Coming(s, c.hl)
      PROVE  ComeOnce(t)
  BY <1>1, <1>3 DEF ComeOnce, Coming, Asks
<1>4. ASSUME Len(s) = 1
      PROVE  Asks(t) = {c}
  <2>1. DOMAIN s = {1}
    BY <1>4
  <2>2. DOMAIN t = {1} /\ t[1] = c
    BY <1>1, <2>1
  <2> QED BY <2>2 DEF Asks
<1> QED BY <1>1, <1>2, <1>3, <1>4 DEF AfterChanged

AfterRemoved(t, s, i) ==
  /\ t \in Seq(Ask) /\ Len(s) \in Nat /\ Len(t) = Len(s) - 1
  /\ Asks(t) \subseteq Asks(s) /\ Asks(s) \ {s[i]} \subseteq Asks(t)
  /\ ComeOnce(s) => ComeOnce(t) /\ (IsComing(s[i]) => ~Coming(t, s[i].hl))
  /\ Len(s) = 1 => Asks(t) = {} /\ t = <<>>

LEMMA AskRemoved ==
  ASSUME NEW s \in Seq(Ask), NEW i \in DOMAIN s, NEW t, t = RemoveAt(s, i)
  PROVE  AfterRemoved(t, s, i)
<1> DEFINE From(j) == IF j < i THEN j ELSE j + 1
           To(j) == IF j < i THEN j ELSE j - 1
<1>1. /\ t \in Seq(Ask) /\ Len(t) = Len(s) - 1 /\ Len(s) \in Nat
      /\ DOMAIN s = 1..Len(s) /\ DOMAIN t = 1..Len(s) - 1 /\ i \in 1..Len(s)
      /\ \A j \in 1..Len(s) - 1 : t[j] = s[From(j)]
  BY ElementRemoved
<1>2. \A j \in DOMAIN t : From(j) \in DOMAIN s \ {i}
  BY <1>1
<1>3. \A j, k \in DOMAIN t : From(j) = From(k) => j = k
  BY <1>1
<1>4. \A j \in DOMAIN s \ {i} : To(j) \in DOMAIN t /\ From(To(j)) = j
  BY <1>1
<1> HIDE DEF From, To
<1>5. \A j \in DOMAIN t : t[j] = s[From(j)]
  BY <1>1
<1>6. Asks(t) \subseteq Asks(s)
  BY <1>2, <1>5 DEF Asks
<1>7. Asks(s) \ {s[i]} \subseteq Asks(t)
  <2> SUFFICES ASSUME NEW j \in DOMAIN s \ {i} PROVE s[j] \in Asks(t)
    BY DEF Asks
  <2>1. To(j) \in DOMAIN t /\ t[To(j)] = s[j]
    BY <1>4, <1>5
  <2> QED BY <2>1 DEF Asks
<1>8. ASSUME ComeOnce(s)
      PROVE  ComeOnce(t)
  BY <1>2, <1>3, <1>5, <1>8 DEF ComeOnce
<1>9. ASSUME ComeOnce(s), IsComing(s[i])
      PROVE  ~Coming(t, s[i].hl)
  <2> SUFFICES ASSUME NEW j \in DOMAIN t, IsComing(t[j]), t[j].hl = s[i].hl PROVE FALSE
    BY DEF Coming, Asks
  <2> QED BY <1>2, <1>5, <1>9 DEF ComeOnce
<1>10. Len(s) = 1 => Asks(t) = {} /\ t = <<>>
  <2> SUFFICES ASSUME Len(s) = 1 PROVE Asks(t) = {} /\ t = <<>>
    OBVIOUS
  <2>1. Len(t) = 0
    BY <1>1
  <2>2. t = <<>>
    BY <1>1, <2>1, EmptySeq
  <2> QED BY <2>2 DEF Asks
<1> QED BY <1>1, <1>6, <1>7, <1>8, <1>9, <1>10 DEF AfterRemoved

\* What is the only request.
LEMMA AskOnly ==
  ASSUME NEW s \in Seq(Ask)
  PROVE  /\ \A i \in DOMAIN s : s[i] \in Asks(s) /\ s[i] \in Ask
         /\ \A r \in Asks(s) : r \in Ask
         /\ Len(s) = 1 => \A r, q \in Asks(s) : r = q
         /\ s = <<>> => Asks(s) = {}
<1>1. Len(s) = 1 => \A r, q \in Asks(s) : r = q
  <2> SUFFICES ASSUME Len(s) = 1 PROVE \A r, q \in Asks(s) : r = q
    OBVIOUS
  <2>1. DOMAIN s = {1}
    OBVIOUS
  <2> QED BY <2>1 DEF Asks
<1>2. s = <<>> => Asks(s) = {}
  BY DEF Asks
<1> QED BY <1>1, <1>2 DEF Asks

----------------------------------------------------------------------------
(* The inductive invariant of the reader.                                   *)

ServerTypes ==
  /\ docs \subseteq Doc
  /\ count \in [Doc -> Nat] /\ \A d \in Doc : count[d] \in {Recorded[d], Pages[d]}
  /\ hl \in Seq(Spot)
  /\ live \subseteq DOMAIN hl /\ \A h \in live : hl[h].doc \in docs
  /\ notes \subseteq Note

PageTypes ==
  /\ stage \in Seq(Sheet) /\ DOMAIN stage \subseteq Page
  /\ rendered \subseteq Page /\ rendering \subseteq Page
  /\ renders \in [Page -> Seq(Drawer)]
  /\ scale \in Scale

ReaderTypes ==
  /\ doc \in {Nil} \union [id : Doc, count : Nat]
  /\ pdf \in Doc \union {Nil}
  /\ list \subseteq DOMAIN hl
  /\ sel \in {Nil} \union [doc : Doc \union {Nil}, page : Page, of : Doc]

AskTypes == requests \in Seq(Ask) /\ calm \in BOOLEAN

\* A pin names a highlight and its document and page.
PinFits(n) ==
  n.hl \in DOMAIN hl /\ hl[n.hl] = [doc |-> n.doc, page |-> n.page, of |-> n.of]

AskFits(r) ==
  /\ r.kind = "load" => r.got \subseteq DOMAIN hl
  /\ r.kind = "patch" => r.count = Pages[r.doc]
  /\ IsComing(r) => r.hl \in DOMAIN hl /\ hl[r.hl] = r.at
  /\ r.kind = "note" => PinFits(r.note)
  /\ r.kind = "delete" => r.hl \in DOMAIN hl /\ (r.step = "answered" => r.hl \notin live)

\* Pins agree, those that are saved and those on their way; a highlight that
\* has been deleted does not come back.
Fits ==
  /\ \A n \in notes : PinFits(n)
  /\ \A r \in Asks(requests) : AskFits(r)

\* The passages that are selected, sent and saved are of the documents they
\* are said to be of.
Read ==
  calm =>
    /\ \A h \in DOMAIN hl : hl[h].of = hl[h].doc
    /\ \A r \in Asks(requests) : r.kind = "highlight" => r.at.of = r.at.doc
    /\ sel # Nil /\ sel.doc # Nil => sel.of = sel.doc

Running == RunningIn(View)

Drawn == calm => SmoothIn(View, scale) /\ ChainedIn(View)

\* The stage is that of the file.
Staged ==
  calm /\ pdf # Nil =>
    /\ DOMAIN stage = 1..Pages[pdf]
    /\ \A p \in DOMAIN stage :
         /\ stage[p].drawn = <<>> \/ stage[p].drawn[1] = pdf
         /\ p \in rendered => stage[p].drawn = <<pdf, scale>>

\* A document is loaded while nothing else is under way; otherwise the file is
\* that of the document.
Alone ==
  calm =>
    /\ LoadIn(requests) => Len(requests) = 1 /\ rendering = {}
    /\ \A r \in Asks(requests) : r.kind = "load" =>
         /\ r.step # "doc" => doc # Nil /\ doc.id = r.doc /\ r.doc \in docs
         /\ r.step = "listed" => r.got = HighlightsOf(r.doc)
         /\ r.step = "pdf" => list = HighlightsOf(r.doc)
    /\ doc = Nil => pdf = Nil
    /\ doc # Nil /\ ~PastIn(requests) => pdf = doc.id

\* The list is that of the server up to the answers that are on their way.
Listed ==
  calm /\ doc # Nil /\ ~PastIn(requests) =>
    /\ \A h \in list :
         /\ hl[h].doc = doc.id
         /\ h \in live \/ Deleting(requests, h) \/ Dropping(requests, doc.id)
    /\ \A h \in HighlightsOf(doc.id) : h \in list \/ Coming(requests, h)
    /\ ComeOnce(requests)
    /\ \A r \in Asks(requests) :
         /\ r.kind = "highlight" => r.at.doc = doc.id
         /\ IsComing(r) => r.hl \notin list /\ (r.hl \in live \/ Dropping(requests, doc.id))
         /\ r.kind = "delete" => r.hl \in list \/ r.hl \notin live

\* The boxes on a drawn page are those of the list.
Boxed ==
  calm /\ doc # Nil /\ ~PastIn(requests) =>
    \A p \in rendered \intersect DOMAIN stage : stage[p].boxes = BoxesOn(p, list)

PdfTypes == ServerTypes /\ PageTypes /\ ReaderTypes /\ AskTypes

PdfInv ==
  /\ PdfTypes /\ Fits /\ Read /\ Running /\ Drawn /\ Staged /\ Alone /\ Listed /\ Boxed

LEMMA LoadingIn == Loading <=> LoadIn(requests)
BY DEF Loading, LoadIn, Asks

LEMMA ViewIs ==
  ASSUME PageTypes, ReaderTypes
  PROVE  /\ View \in Views
         /\ View.pdf = pdf /\ View.rendered = rendered /\ View.rendering = rendering
         /\ View.renders = renders /\ View.length = Len(stage)
         /\ Len(stage) \in Nat /\ DOMAIN stage = 1..Len(stage)
<1>1. Len(stage) \in Nat /\ DOMAIN stage = 1..Len(stage)
  BY DEF PageTypes
<1> QED BY <1>1 DEF PageTypes, ReaderTypes, View, Views

\* What is drawn does not depend on anything else.
LEMMA PagesStay ==
  ASSUME PageTypes, Running, Drawn, Staged, UNCHANGED <<rendered, rendering, renders, scale>>,
         pdf' \in {pdf, Nil}, calm' => calm,
         stage' \in Seq(Sheet), DOMAIN stage' = DOMAIN stage,
         \A p \in DOMAIN stage : stage'[p].drawn = stage[p].drawn
  PROVE  PageTypes' /\ Running' /\ Drawn' /\ Staged'
<1>1. PageTypes'
  BY DEF PageTypes
<1>2. Running'
  BY DEF Running, RunningIn, View
<1>3. Drawn'
  <2> SUFFICES ASSUME calm' PROVE SmoothIn(View, scale)' /\ ChainedIn(View)'
    BY DEF Drawn
  <2>1. SmoothIn(View, scale) /\ ChainedIn(View)
    BY DEF Drawn
  <2>2. CASE pdf' = pdf
    BY <2>1, <2>2 DEF SmoothIn, ChainedIn, AllIn, ChainIn, View
  <2>3. CASE pdf' = Nil
    BY <2>1, <2>3 DEF SmoothIn, ChainedIn, View
  <2> QED BY <2>2, <2>3
<1>4. Staged'
  BY DEF Staged
<1> QED BY <1>1, <1>2, <1>3, <1>4

\* What the reader becomes by a view.
LEMMA ViewBecomes ==
  ASSUME NEW w \in Views, Becomes(w), w.pdf = pdf', RunningIn(w),
         calm' => SmoothIn(w, scale') /\ ChainedIn(w)
  PROVE  Running' /\ Drawn' /\ rendered' \subseteq Page /\ rendering' \subseteq Page
         /\ renders' \in [Page -> Seq(Drawer)]
<1>1. /\ View'.pdf = w.pdf /\ View'.rendered = w.rendered
      /\ View'.rendering = w.rendering /\ View'.renders = w.renders
  BY DEF View, Becomes
<1>2. Running'
  BY <1>1 DEF Running, RunningIn
<1>3. Drawn'
  BY <1>1 DEF Drawn, SmoothIn, ChainedIn, AllIn, ChainIn
<1> QED BY <1>2, <1>3 DEF Views, Becomes

\* A page is drawn, or changes, and nothing else.
LEMMA PagesMove ==
  ASSUME PdfInv, UNCHANGED <<server, doc, pdf, list, sel, requests>>, calm' => calm, calm' \in BOOLEAN,
         PageTypes', Running', Drawn', Staged', Boxed',
         calm' /\ LoadIn(requests) => rendering' = {}
  PROVE  PdfInv'
<1>1. ServerTypes' /\ ReaderTypes' /\ AskTypes'
  BY DEF PdfInv, PdfTypes, ServerTypes, ReaderTypes, AskTypes, server
<1>2. Fits'
  BY DEF PdfInv, Fits, AskFits, PinFits, server
<1>3. Read'
  BY DEF PdfInv, Read, server
<1>4. Alone'
  BY DEF PdfInv, Alone, HighlightsOf, server
<1>5. Listed'
  BY DEF PdfInv, Listed, HighlightsOf, server
<1> QED BY <1>1, <1>2, <1>3, <1>4, <1>5 DEF PdfInv, PdfTypes

LEMMA PdfInit == Init => PdfInv
<1> SUFFICES ASSUME Init PROVE PdfInv
  OBVIOUS
<1> DEFINE s == [doc |-> Earlier, page |-> 1, of |-> Earlier]
<1>1. Earlier \in Doc /\ 1 \in Page
  BY PdfReaderAssumption, PageRange
<1>2. s \in Spot
  BY <1>1 DEF Spot
<1>3. hl = <<s>> /\ live = {1} /\ notes = {Pin(Earlier, 1, 1, Earlier)} /\ docs = Doc /\ count = Recorded
  BY DEF Init
<1>4. hl \in Seq(Spot) /\ DOMAIN hl = {1} /\ hl[1] = s
  BY <1>2, <1>3
<1>5. ServerTypes
  <2>1. notes \subseteq Note
    BY <1>1, <1>3 DEF Note, Pin
  <2>2. \A h \in live : hl[h].doc \in docs
    BY <1>1, <1>3, <1>4
  <2>3. count \in [Doc -> Nat] /\ \A d \in Doc : count[d] \in {Recorded[d], Pages[d]}
    BY <1>3, PdfReaderAssumption
  <2> QED BY <1>3, <1>4, <2>1, <2>2, <2>3 DEF ServerTypes
<1>6. /\ doc = Nil /\ pdf = Nil /\ list = {} /\ stage = <<>> /\ rendered = {} /\ rendering = {}
      /\ renders = [p \in Page |-> <<>>] /\ scale = First /\ sel = Nil /\ requests = <<>> /\ calm = TRUE
  BY DEF Init
<1>7. PageTypes
  <2>1. <<>> \in Seq(Sheet) /\ <<>> \in Seq(Drawer) /\ DOMAIN <<>> = {}
    BY EmptySeq
  <2>2. First \in Scale
    BY PdfReaderAssumption
  <2> QED BY <1>6, <2>1, <2>2 DEF PageTypes
<1>8. ReaderTypes /\ AskTypes
  BY <1>6, EmptySeq DEF ReaderTypes, AskTypes
<1>9. Asks(requests) = {}
  BY <1>6 DEF Asks
<1>10. Fits
  BY <1>3, <1>4, <1>9 DEF Fits, PinFits, Pin
<1>11. Read
  BY <1>4, <1>6, <1>9 DEF Read
<1>12. Running /\ Drawn
  <2>1. /\ View.pdf = pdf /\ View.rendered = rendered /\ View.rendering = rendering
        /\ View.renders = renders
    BY <1>7, <1>8, ViewIs
  <2>2. \A p \in Page : View.renders[p] = <<>>
    BY <1>6, <2>1
  <2>3. Len(<<>>) = 0 /\ DOMAIN <<>> = {}
    OBVIOUS
  <2> QED BY <1>6, <2>1, <2>2, <2>3 DEF Running, RunningIn, Drawn, SmoothIn, ChainedIn
<1>13. Staged /\ Alone /\ Listed /\ Boxed
  BY <1>6, <1>9 DEF Staged, Alone, Listed, Boxed, LoadIn
<1> QED BY <1>5, <1>7, <1>8, <1>10, <1>11, <1>12, <1>13 DEF PdfInv, PdfTypes

----------------------------------------------------------------------------
(* Drawing.                                                                 *)

\* A page of the stage changes what is drawn on it, or all that is.
Redrawn(s, p, d) == [s EXCEPT ![p].drawn = d]
Finished(s, p, d, b) == [s EXCEPT ![p].drawn = d, ![p].boxes = b]

Drawings == {<<>>} \union (Doc \X Nat)

LEMMA SheetChanged ==
  ASSUME NEW s \in Seq(Sheet), NEW p \in DOMAIN s, NEW d \in Drawings,
         NEW t, t = Redrawn(s, p, d)
  PROVE  /\ t \in Seq(Sheet) /\ DOMAIN t = DOMAIN s /\ t[p].drawn = d
         /\ \A q \in DOMAIN s \ {p} : t[q] = s[q]
         /\ \A q \in DOMAIN s : t[q].boxes = s[q].boxes
<1>1. s[p] \in Sheet
  OBVIOUS
<1>2. PICK e : e = [s[p] EXCEPT !.drawn = d]
  OBVIOUS
<1>3. e \in Sheet /\ e.drawn = d /\ e.boxes = s[p].boxes
  BY <1>1, <1>2 DEF Sheet, Drawings
<1>4. t = [s EXCEPT ![p] = e]
  BY <1>2 DEF Redrawn
<1>5. t \in Seq(Sheet) /\ DOMAIN t = DOMAIN s /\ t[p] = e /\ \A q \in DOMAIN s \ {p} : t[q] = s[q]
  BY <1>3, <1>4
<1> QED BY <1>3, <1>5

LEMMA SheetDrawn ==
  ASSUME NEW s \in Seq(Sheet), NEW p \in Nat, NEW d \in Drawings,
         NEW b \in SUBSET Nat, NEW t, t = Finished(s, p, d, b)
  PROVE  /\ t \in Seq(Sheet) /\ DOMAIN t = DOMAIN s
         /\ p \in DOMAIN s => t[p].drawn = d /\ t[p].boxes = b
         /\ \A q \in DOMAIN s \ {p} : t[q] = s[q]
<1>1. CASE p \in DOMAIN s
  <2>1. s[p] \in Sheet
    BY <1>1
  <2>2. PICK e : e = [s[p] EXCEPT !.drawn = d, !.boxes = b]
    OBVIOUS
  <2>3. e \in Sheet /\ e.drawn = d /\ e.boxes = b
    BY <2>1, <2>2 DEF Sheet, Drawings
  <2>4. PICK x : x = [s EXCEPT ![p] = e]
    OBVIOUS
  <2>5. x \in Seq(Sheet) /\ DOMAIN x = DOMAIN s /\ x[p] = e /\ \A q \in DOMAIN s \ {p} : x[q] = s[q]
    BY <1>1, <2>3, <2>4, ElementReplaced
  <2>6. t = x
    BY <1>1, <2>1, <2>2, <2>4 DEF Sheet, Finished
  <2> QED BY <2>3, <2>5, <2>6
<1>2. CASE p \notin DOMAIN s
  <2>1. t = s
    BY <1>2 DEF Finished
  <2> QED BY <1>2, <2>1
<1> QED BY <1>1, <1>2

\* What is known of a call under way.
LEMMA DrawerIs ==
  ASSUME PdfInv, NEW p \in Page, NEW i \in DOMAIN renders[p]
  PROVE  /\ renders[p] \in Seq(Drawer) /\ renders[p][i] \in Drawer
         /\ renders[p] # <<>>
         /\ calm => /\ i = 1 /\ DOMAIN renders[p] = {1} /\ Len(renders[p]) = 1
                    /\ p \in rendering /\ p \notin rendered /\ ~LoadIn(requests)
                    /\ ~renders[p][i].off /\ ~renders[p][i].spoilt
                    /\ renders[p][i].step # "page" => renders[p][i].scale = scale
                    /\ pdf # Nil => /\ renders[p][i].of = pdf /\ p \in DOMAIN stage
                                    /\ Len(stage) = Pages[pdf]
<1>1. PageTypes /\ ReaderTypes
  BY DEF PdfInv, PdfTypes
<1>2. renders[p] \in Seq(Drawer)
  BY <1>1 DEF PageTypes
<1>3. renders[p][i] \in Drawer /\ renders[p] # <<>>
  BY <1>2
<1>4. ASSUME calm
      PROVE  /\ p \in rendering /\ p \notin rendered /\ Len(renders[p]) <= 1
             /\ ~renders[p][i].off /\ ~renders[p][i].spoilt
             /\ renders[p][i].step # "page" => renders[p][i].scale = scale
             /\ pdf # Nil => renders[p][i].of = pdf /\ p <= Pages[pdf]
  <2>1. SmoothIn(View, scale)
    BY <1>4 DEF PdfInv, Drawn
  <2> QED BY <1>1, <1>3, <2>1, ViewIs DEF SmoothIn
<1>5. ASSUME calm
      PROVE  i = 1 /\ DOMAIN renders[p] = {1} /\ Len(renders[p]) = 1
  <2>1. PICK n \in Nat : n = Len(renders[p]) /\ DOMAIN renders[p] = 1..n
    BY <1>2
  <2>2. n <= 1 /\ i \in 1..n
    BY <1>4, <1>5, <2>1
  <2>3. n = 1 /\ i = 1 /\ 1..n = {1}
    BY <2>2
  <2> QED BY <2>1, <2>3
<1>6. calm => ~LoadIn(requests)
  BY <1>4 DEF PdfInv, Alone
<1>7. ASSUME calm, pdf # Nil
      PROVE  p \in DOMAIN stage /\ Len(stage) = Pages[pdf]
  <2>1. DOMAIN stage = 1..Pages[pdf] /\ DOMAIN stage = 1..Len(stage) /\ Len(stage) \in Nat
    BY <1>1, <1>7, ViewIs DEF PdfInv, Staged
  <2>2. Pages[pdf] \in Nat /\ p \in Nat \ {0} /\ p <= Pages[pdf]
    BY <1>1, <1>4, <1>7, PageRange DEF ReaderTypes
  <2> QED BY <2>1, <2>2
<1> QED BY <1>2, <1>3, <1>4, <1>5, <1>6, <1>7

\* The number of pages on the stage is that of the file.
LEMMA StageLength ==
  ASSUME PdfInv, calm, pdf # Nil
  PROVE  Len(stage) = Pages[pdf] /\ Pages[pdf] \in Nat /\ pdf \in Doc
<1>1. PageTypes /\ ReaderTypes
  BY DEF PdfInv, PdfTypes
<1>2. DOMAIN stage = 1..Pages[pdf] /\ DOMAIN stage = 1..Len(stage) /\ Len(stage) \in Nat
  BY <1>1, ViewIs DEF PdfInv, Staged
<1>3. Pages[pdf] \in Nat /\ pdf \in Doc
  BY <1>1, PageRange DEF ReaderTypes
<1> QED BY <1>2, <1>3

\* A call ends.
LEMMA CallEnds ==
  ASSUME PdfInv, NEW p \in Page, NEW i \in DOMAIN renders[p], NEW ok \in BOOLEAN,
         Becomes(Ended(View, p, i, ok)), UNCHANGED <<pdf, scale>>, calm' => calm,
         calm /\ pdf # Nil => ok
  PROVE  /\ Running' /\ Drawn' /\ rendered' \subseteq Page /\ rendering' \subseteq Page
         /\ renders' \in [Page -> Seq(Drawer)]
         /\ rendered' = IF ok THEN rendered \union {p} ELSE rendered
<1>0. PageTypes /\ ReaderTypes
  BY DEF PdfInv, PdfTypes
<1>1. PICK v : v = View
  OBVIOUS
<1>2. /\ v \in Views /\ v.pdf = pdf /\ v.rendered = rendered /\ v.rendering = rendering
      /\ v.renders = renders /\ v.length = Len(stage)
  BY <1>0, <1>1, ViewIs
<1>3. PICK w : w = Ended(v, p, i, ok)
  OBVIOUS
<1>4. i \in DOMAIN v.renders[p]
  BY <1>2
<1>5. /\ w \in Views /\ w.pdf = v.pdf
      /\ w.rendered = IF ok THEN v.rendered \union {p} ELSE v.rendered
      /\ RunningIn(v) => RunningIn(w)
      /\ \A s : SmoothIn(v, s) => SmoothIn(w, s)
      /\ \A s : /\ SmoothIn(v, s) /\ ok /\ ChainedIn(v)
                /\ v.pdf # Nil => v.length = Pages[v.pdf]
                => ChainedIn(w)
  <2>1. AfterEnded(w, v, p, ok)
    BY <1>2, <1>3, <1>4, EndedKeeps
  <2> QED BY <2>1 DEF AfterEnded
<1>6. Becomes(w)
  BY <1>1, <1>3
<1>7. RunningIn(w)
  BY <1>1, <1>5 DEF PdfInv, Running
<1>8. ASSUME calm'
      PROVE  SmoothIn(w, scale') /\ ChainedIn(w)
  <2>1. SmoothIn(v, scale) /\ ChainedIn(v)
    BY <1>1, <1>8 DEF PdfInv, Drawn
  <2>2. pdf # Nil => v.length = Pages[v.pdf]
    BY <1>2, <1>8, StageLength
  <2>3. CASE pdf = Nil
    BY <1>2, <1>5, <2>1, <2>3 DEF ChainedIn
  <2>4. CASE pdf # Nil
    BY <1>5, <1>8, <2>1, <2>2, <2>4
  <2> QED BY <2>3, <2>4
<1>9. Running' /\ Drawn' /\ rendered' \subseteq Page /\ rendering' \subseteq Page
      /\ renders' \in [Page -> Seq(Drawer)]
  BY <1>2, <1>5, <1>6, <1>7, <1>8, ViewBecomes
<1> QED BY <1>2, <1>5, <1>6, <1>9 DEF Becomes

\* Calls for one page change their state, and not what they draw and for whom.
LEMMA CallsChange ==
  ASSUME PdfInv, NEW p \in Page, NEW f \in Seq(Drawer), renders' = [renders EXCEPT ![p] = f],
         DOMAIN f = DOMAIN renders[p],
         \A j \in DOMAIN f : /\ f[j].of = renders[p][j].of /\ f[j].next = renders[p][j].next
                             /\ f[j].off = renders[p][j].off,
         calm => \A j \in DOMAIN f : ~f[j].spoilt /\ (f[j].step # "page" => f[j].scale = scale),
         UNCHANGED <<pdf, rendered, rendering, scale>>, calm' => calm
  PROVE  Running' /\ Drawn' /\ renders' \in [Page -> Seq(Drawer)]
<1>0. PageTypes /\ ReaderTypes
  BY DEF PdfInv, PdfTypes
<1>1. /\ renders' \in [Page -> Seq(Drawer)] /\ renders'[p] = f
      /\ \A q \in Page \ {p} : renders'[q] = renders[q]
  BY <1>0 DEF PageTypes
<1>2. Len(f) = Len(renders[p]) /\ (f = <<>> <=> renders[p] = <<>>)
  <2>1. PICK g \in Seq(Drawer) : g = renders[p]
    BY <1>0 DEF PageTypes
  <2>2. Len(f) = Len(g)
    BY <2>1
  <2>3. f = <<>> <=> g = <<>>
    BY <2>2, EmptySeq
  <2> QED BY <2>1, <2>2, <2>3
<1>3. /\ View'.pdf = pdf /\ View'.rendered = rendered /\ View'.rendering = rendering
      /\ View'.renders = renders'
  BY DEF View
<1>4. /\ View.pdf = pdf /\ View.rendered = rendered /\ View.rendering = rendering
      /\ View.renders = renders
  BY DEF View
<1>5. Running'
  <2>1. \A q \in rendering : renders[q] # <<>>
    BY <1>4 DEF PdfInv, Running, RunningIn
  <2>2. \A q \in rendering : renders'[q] # <<>>
    BY <1>0, <1>1, <1>2, <2>1 DEF PageTypes
  <2> QED BY <1>3, <2>2 DEF Running, RunningIn
<1>6. ASSUME calm
      PROVE  SmoothIn(View', scale) /\ ChainedIn(View')
  <2>1. SmoothIn(View, scale) /\ ChainedIn(View)
    BY <1>6 DEF PdfInv, Drawn
  <2>2. ASSUME NEW q \in Page
        PROVE  /\ Len(renders'[q]) <= 1
               /\ renders'[q] # <<>> => q \in rendering
               /\ q \in rendering => renders'[q] # <<>>
               /\ \A i \in DOMAIN renders'[q] :
                    LET r == renders'[q][i] IN
                    /\ ~r.off /\ ~r.spoilt
                    /\ r.step # "page" => r.scale = scale
                    /\ pdf # Nil => r.of = pdf /\ q <= Pages[pdf]
    <3>1. /\ Len(renders[q]) <= 1
          /\ renders[q] # <<>> => q \in rendering
          /\ q \in rendering => renders[q] # <<>>
          /\ \A i \in DOMAIN renders[q] :
               LET r == renders[q][i] IN
               /\ ~r.off /\ ~r.spoilt
               /\ r.step # "page" => r.scale = scale
               /\ pdf # Nil => r.of = pdf /\ q <= Pages[pdf]
      BY <1>4, <2>1 DEF SmoothIn
    <3>2. CASE q # p
      BY <1>1, <3>1, <3>2
    <3>3. CASE q = p
      BY <1>1, <1>2, <1>6, <3>1, <3>3
    <3> QED BY <3>2, <3>3
  <2>3. SmoothIn(View', scale)
    BY <1>3, <1>4, <2>1, <2>2 DEF SmoothIn
  <2>4. ChainIn(View) => ChainIn(View')
    <3> SUFFICES ASSUME NEW q \in Page, renders[q] # <<>>, renders[q][1].next # "nothing"
                 PROVE  renders'[q] # <<>> /\ renders'[q][1].next # "nothing"
      BY <1>3, <1>4 DEF ChainIn
    <3>1. CASE q # p
      BY <1>1, <3>1
    <3>2. CASE q = p
      <4>1. 1 \in DOMAIN f
        <5>1. PICK g \in Seq(Drawer) : g = renders[p]
          BY <1>0 DEF PageTypes
        <5>2. 1 \in DOMAIN g
          BY <3>2, <5>1
        <5> QED BY <5>1, <5>2
      <4> QED BY <1>1, <1>2, <3>2, <4>1
    <3> QED BY <3>1, <3>2
  <2>5. AllIn(View) => AllIn(View')
    BY <1>3, <1>4 DEF AllIn
  <2> QED BY <1>3, <1>4, <2>1, <2>3, <2>4, <2>5 DEF ChainedIn
<1>7. Drawn'
  BY <1>6 DEF Drawn
<1> QED BY <1>1, <1>5, <1>7

\* getPage has answered.
LEMMA PageReadyKeeps ==
  ASSUME PdfInv, NEW p \in Page, NEW i \in DOMAIN renders[p], PageReady(p, i)
  PROVE  PdfInv'
<1>0. PdfTypes /\ PageTypes /\ ReaderTypes /\ AskTypes
  BY DEF PdfInv, PdfTypes
<1>1. /\ renders[p][i].step = "page"
      /\ UNCHANGED <<server, open, doc, pdf, list, sel, scale, requests, calm>>
  BY DEF PageReady, reader
<1>2. /\ renders[p] \in Seq(Drawer) /\ renders[p][i] \in Drawer
      /\ calm => /\ i = 1 /\ DOMAIN renders[p] = {1}
                 /\ p \in rendering /\ p \notin rendered /\ ~LoadIn(requests)
                 /\ ~renders[p][i].off /\ ~renders[p][i].spoilt
                 /\ pdf # Nil => renders[p][i].of = pdf /\ p \in DOMAIN stage
  BY DrawerIs
<1>3. CASE p \in DOMAIN stage
  <2> DEFINE f == Sized(p, i)
  <2>1. /\ stage' = [stage EXCEPT ![p].drawn = <<>>]
        /\ renders' = [renders EXCEPT ![p] = f]
        /\ UNCHANGED <<rendered, rendering>>
    <3>1. /\ stage' = [stage EXCEPT ![p].drawn = <<>>]
          /\ UNCHANGED <<rendered, rendering>>
      BY <1>3 DEF PageReady
    <3>2. renders' = [renders EXCEPT ![p] = f]
      BY <1>3 DEF PageReady
    <3> QED BY <3>1, <3>2
  <2>2. ASSUME NEW j \in DOMAIN renders[p]
        PROVE  /\ f[j] \in Drawer
               /\ f[j].of = renders[p][j].of /\ f[j].next = renders[p][j].next
               /\ f[j].off = renders[p][j].off
               /\ j = i => f[j].spoilt = renders[p][j].spoilt /\ f[j].scale = scale
    <3>1. renders[p][j] \in Drawer /\ scale \in Nat
      BY <1>0, <1>2, PdfReaderAssumption DEF PageTypes
    <3>2. CASE j = i
      BY <3>1, <3>2 DEF Drawer, Sized
    <3>3. CASE j # i
      <4>1. PICK b \in BOOLEAN : b = (renders[p][j].spoilt \/ OnCanvas(p, j, FALSE))
        OBVIOUS
      <4>2. f[j] = [renders[p][j] EXCEPT !.spoilt = b]
        BY <3>3, <4>1 DEF Sized
      <4> QED BY <3>1, <3>3, <4>2 DEF Drawer
    <3> QED BY <3>2, <3>3
  <2>3. DOMAIN f = DOMAIN renders[p]
    BY DEF Sized
  <2> HIDE DEF f
  <2>4. f \in Seq(Drawer)
    <3>1. PICK n \in Nat : DOMAIN renders[p] = 1..n
      BY <1>2
    <3>2. f \in [1..n -> Drawer]
      <4>1. f = [j \in 1..n |-> f[j]]
        BY <3>1 DEF f, Sized
      <4> QED BY <2>2, <3>1, <4>1
    <3> QED BY <3>2
  <2>5. calm => \A j \in DOMAIN f : ~f[j].spoilt /\ (f[j].step # "page" => f[j].scale = scale)
    BY <1>2, <2>2, <2>3
  <2>6. Running' /\ Drawn' /\ renders' \in [Page -> Seq(Drawer)]
    <3>1. \A j \in DOMAIN f : /\ f[j].of = renders[p][j].of /\ f[j].next = renders[p][j].next
                              /\ f[j].off = renders[p][j].off
      BY <2>2, <2>3
    <3>2. UNCHANGED <<pdf, rendered, rendering, scale>> /\ (calm' => calm)
      BY <1>1, <2>1
    <3> QED BY <2>1, <2>3, <2>4, <2>5, <3>1, <3>2, CallsChange
  <2>7. /\ stage' \in Seq(Sheet) /\ DOMAIN stage' = DOMAIN stage /\ stage'[p].drawn = <<>>
        /\ \A q \in DOMAIN stage \ {p} : stage'[q] = stage[q]
        /\ \A q \in DOMAIN stage : stage'[q].boxes = stage[q].boxes
    <3>1. stage \in Seq(Sheet) /\ <<>> \in Drawings
      BY <1>0 DEF PageTypes, Drawings
    <3>2. stage' = Redrawn(stage, p, <<>>)
      BY <2>1 DEF Redrawn
    <3> QED BY <1>3, <3>1, <3>2, SheetChanged
  <2>8. PageTypes'
    BY <1>0, <1>1, <2>1, <2>6, <2>7 DEF PageTypes
  <2>9. Staged'
    BY <1>1, <1>2, <2>1, <2>7 DEF PdfInv, Staged
  <2>10. Boxed'
    BY <1>1, <2>1, <2>7 DEF PdfInv, Boxed, BoxesOn, server
  <2> QED BY <1>0, <1>1, <1>2, <2>6, <2>8, <2>9, <2>10, PagesMove DEF AskTypes
<1>4. CASE p \notin DOMAIN stage
  <2>1. Becomes(Ended(View, p, i, FALSE)) /\ UNCHANGED stage
    BY <1>4 DEF PageReady
  <2>2. calm => pdf = Nil
    BY <1>2, <1>4
  <2>3. /\ Running' /\ Drawn' /\ rendered' \subseteq Page /\ rendering' \subseteq Page
        /\ renders' \in [Page -> Seq(Drawer)] /\ rendered' = rendered
    BY <1>1, <2>1, <2>2, CallEnds
  <2>4. PageTypes'
    BY <1>0, <1>1, <2>1, <2>3 DEF PageTypes
  <2>5. Staged' /\ Boxed'
    BY <1>1, <2>1, <2>3 DEF PdfInv, Staged, Boxed, BoxesOn, server
  <2> QED BY <1>0, <1>1, <1>2, <2>3, <2>4, <2>5, PagesMove DEF AskTypes
<1> QED BY <1>3, <1>4

LEMMA DrawingBeginsKeeps ==
  ASSUME PdfInv, NEW p \in Page, NEW i \in DOMAIN renders[p], DrawingBegins(p, i)
  PROVE  PdfInv'
<1>0. PdfTypes /\ PageTypes /\ ReaderTypes /\ AskTypes
  BY DEF PdfInv, PdfTypes
<1>1. /\ renders[p][i].step = "queued"
      /\ UNCHANGED <<server, open, doc, pdf, list, sel, stage, scale, requests, calm>>
  BY DEF DrawingBegins, reader
<1>2. /\ renders[p] \in Seq(Drawer) /\ renders[p][i] \in Drawer
      /\ calm => /\ i = 1 /\ DOMAIN renders[p] = {1}
                 /\ p \in rendering /\ p \notin rendered /\ ~LoadIn(requests)
                 /\ ~renders[p][i].off /\ ~renders[p][i].spoilt
                 /\ renders[p][i].step # "page" => renders[p][i].scale = scale
  BY DrawerIs
<1>3. ASSUME Running', Drawn', renders' \in [Page -> Seq(Drawer)], rendering' \subseteq Page,
             UNCHANGED rendered
      PROVE  PdfInv'
  <2>1. PageTypes'
    BY <1>0, <1>1, <1>3 DEF PageTypes
  <2>2. Staged' /\ Boxed'
    BY <1>1, <1>3 DEF PdfInv, Staged, Boxed, BoxesOn, server
  <2> QED BY <1>0, <1>1, <1>2, <1>3, <2>1, <2>2, PagesMove DEF AskTypes
<1>4. CASE \E j \in DOMAIN renders[p] : OnCanvas(p, j, renders[p][i].off)
  <2>1. Becomes(Ended(View, p, i, FALSE))
    BY <1>4 DEF DrawingBegins
  <2>2. ~calm
    BY <1>1, <1>2, <1>4 DEF OnCanvas
  <2>3. /\ Running' /\ Drawn' /\ rendering' \subseteq Page
        /\ renders' \in [Page -> Seq(Drawer)] /\ rendered' = rendered
    BY <1>1, <2>1, <2>2, CallEnds
  <2> QED BY <1>3, <2>3
<1>5. CASE ~ \E j \in DOMAIN renders[p] : OnCanvas(p, j, renders[p][i].off)
  <2>1. PICK c : c = [renders[p][i] EXCEPT !.step = "drawing"]
    OBVIOUS
  <2>2. /\ c \in Drawer /\ c.of = renders[p][i].of /\ c.next = renders[p][i].next
        /\ c.off = renders[p][i].off /\ c.spoilt = renders[p][i].spoilt /\ c.scale = renders[p][i].scale
    BY <1>2, <2>1 DEF Drawer
  <2>3. PICK f : f = [renders[p] EXCEPT ![i] = c]
    OBVIOUS
  <2>4. /\ f \in Seq(Drawer) /\ DOMAIN f = DOMAIN renders[p] /\ f[i] = c
        /\ \A j \in DOMAIN renders[p] \ {i} : f[j] = renders[p][j]
    BY <1>2, <2>2, <2>3, ElementReplaced
  <2>5. renders' = [renders EXCEPT ![p] = f] /\ UNCHANGED <<rendered, rendering>>
    BY <1>5, <2>1, <2>3 DEF DrawingBegins
  <2>6. \A j \in DOMAIN f : /\ f[j].of = renders[p][j].of /\ f[j].next = renders[p][j].next
                            /\ f[j].off = renders[p][j].off
    BY <2>2, <2>4
  <2>7. calm => \A j \in DOMAIN f : ~f[j].spoilt /\ (f[j].step # "page" => f[j].scale = scale)
    BY <1>1, <1>2, <2>2, <2>4
  <2>8. Running' /\ Drawn' /\ renders' \in [Page -> Seq(Drawer)]
    BY <1>1, <2>4, <2>5, <2>6, <2>7, CallsChange
  <2> QED BY <1>0, <1>3, <2>5, <2>8 DEF PageTypes
<1> QED BY <1>4, <1>5

LEMMA DrawingEndsKeeps ==
  ASSUME PdfInv, NEW p \in Page, NEW i \in DOMAIN renders[p], DrawingEnds(p, i)
  PROVE  PdfInv'
<1>0. PdfTypes /\ PageTypes /\ ReaderTypes /\ AskTypes /\ ServerTypes
  BY DEF PdfInv, PdfTypes
<1> DEFINE r == renders[p][i]
           d == IF r.spoilt THEN <<r.of, 0>> ELSE <<r.of, r.scale>>
           b == BoxesOn(p, list)
<1>1. /\ r.step = "drawing"
      /\ stage' = IF r.off THEN stage ELSE [stage EXCEPT ![p].drawn = d, ![p].boxes = b]
      /\ Becomes(Ended(View, p, i, TRUE))
      /\ UNCHANGED <<server, open, doc, pdf, list, sel, scale, requests, calm>>
  BY DEF DrawingEnds, reader
<1>2. /\ r \in Drawer
      /\ calm => /\ ~LoadIn(requests) /\ ~r.off /\ ~r.spoilt /\ r.scale = scale
                 /\ pdf # Nil => r.of = pdf /\ p \in DOMAIN stage
  BY <1>1, DrawerIs
<1>3. d \in Doc \X Nat /\ (calm /\ pdf # Nil => d = <<pdf, scale>>)
  BY <1>2 DEF Drawer
<1>4. b \in SUBSET Nat
  <2>1. DOMAIN hl \subseteq Nat
    BY <1>0 DEF ServerTypes
  <2> QED BY <1>0, <2>1 DEF BoxesOn, ReaderTypes
<1>5. p \in Nat
  BY PageRange
<1> HIDE DEF r, d, b
<1>6. /\ stage' \in Seq(Sheet) /\ DOMAIN stage' = DOMAIN stage
      /\ ~r.off /\ p \in DOMAIN stage => stage'[p].drawn = d /\ stage'[p].boxes = b
      /\ \A q \in DOMAIN stage \ {p} : stage'[q] = stage[q]
  <2>1. PICK t : t = [stage EXCEPT ![p].drawn = d, ![p].boxes = b]
    OBVIOUS
  <2>2. /\ t \in Seq(Sheet) /\ DOMAIN t = DOMAIN stage
        /\ p \in DOMAIN stage => t[p].drawn = d /\ t[p].boxes = b
        /\ \A q \in DOMAIN stage \ {p} : t[q] = stage[q]
    <3>1. stage \in Seq(Sheet) /\ d \in Drawings
      BY <1>0, <1>3 DEF PageTypes, Drawings
    <3>2. t = Finished(stage, p, d, b)
      BY <2>1 DEF Finished
    <3> QED BY <1>4, <1>5, <3>1, <3>2, SheetDrawn
  <2>3. stage' = IF r.off THEN stage ELSE t
    BY <1>1, <2>1
  <2> QED BY <1>0, <2>2, <2>3 DEF PageTypes
<1>7. /\ Running' /\ Drawn' /\ rendered' \subseteq Page /\ rendering' \subseteq Page
      /\ renders' \in [Page -> Seq(Drawer)] /\ rendered' = rendered \union {p}
  BY <1>1, CallEnds
<1>8. PageTypes'
  BY <1>0, <1>1, <1>6, <1>7 DEF PageTypes
<1>9. Staged'
  <2> SUFFICES ASSUME calm, pdf # Nil
               PROVE  /\ DOMAIN stage' = 1..Pages[pdf]
                      /\ \A q \in DOMAIN stage' :
                           /\ stage'[q].drawn = <<>> \/ stage'[q].drawn[1] = pdf
                           /\ q \in rendered' => stage'[q].drawn = <<pdf, scale>>
    BY <1>1 DEF Staged
  <2>1. stage'[p].drawn = <<pdf, scale>> /\ <<pdf, scale>>[1] = pdf
    BY <1>2, <1>3, <1>6
  <2>2. /\ DOMAIN stage = 1..Pages[pdf]
        /\ \A q \in DOMAIN stage :
             /\ stage[q].drawn = <<>> \/ stage[q].drawn[1] = pdf
             /\ q \in rendered => stage[q].drawn = <<pdf, scale>>
    BY DEF PdfInv, Staged
  <2> QED BY <1>6, <1>7, <2>1, <2>2
<1>10. Boxed'
  <2> SUFFICES ASSUME calm, doc # Nil, ~PastIn(requests), NEW q \in rendered' \intersect DOMAIN stage'
               PROVE  stage'[q].boxes = BoxesOn(q, list)
    BY <1>1 DEF Boxed, BoxesOn, server
  <2>1. q # p => q \in rendered \intersect DOMAIN stage /\ stage[q].boxes = BoxesOn(q, list)
    BY <1>6, <1>7 DEF PdfInv, Boxed
  <2>2. q = p => stage'[q].boxes = BoxesOn(q, list)
    BY <1>2, <1>6 DEF b
  <2> QED BY <1>6, <2>1, <2>2
<1> QED BY <1>0, <1>1, <1>2, <1>7, <1>8, <1>9, <1>10, PagesMove DEF AskTypes

\* More pages are asked for.
LEMMA MoreAsked ==
  ASSUME PdfInv, NEW w \in Views, Becomes(w), w.pdf = pdf, w.rendered = rendered,
         RunningIn(View) => RunningIn(w),
         \A s : SmoothIn(View, s) => SmoothIn(w, s),
         ChainedIn(View) => ChainedIn(w),
         pdf = Nil => w.rendering = rendering,
         pdf # Nil /\ AllIn(View) => w.rendering = rendering,
         UNCHANGED <<server, doc, pdf, list, sel, requests, stage, scale>>, calm' => calm, calm' \in BOOLEAN
  PROVE  PdfInv'
<1>0. PdfTypes /\ PageTypes /\ ReaderTypes /\ AskTypes
  BY DEF PdfInv, PdfTypes
<1>1. /\ View.pdf = pdf /\ View.rendered = rendered /\ View.rendering = rendering
      /\ View.renders = renders
  BY <1>0, ViewIs
<1>2. RunningIn(w) /\ (calm' => SmoothIn(w, scale') /\ ChainedIn(w))
  BY DEF PdfInv, Running, Drawn
<1>3. Running' /\ Drawn' /\ rendered' \subseteq Page /\ rendering' \subseteq Page
      /\ renders' \in [Page -> Seq(Drawer)]
  BY <1>2, ViewBecomes
<1>4. rendered' = rendered /\ rendering' = w.rendering
  BY DEF Becomes
<1>5. PageTypes'
  BY <1>0, <1>3 DEF PageTypes
<1>6. Staged' /\ Boxed'
  BY <1>4 DEF PdfInv, Staged, Boxed, BoxesOn, server
<1>7. ASSUME calm', LoadIn(requests)
      PROVE  rendering' = {}
  <2>1. rendering = {}
    BY <1>7 DEF PdfInv, Alone
  <2>2. pdf # Nil => AllIn(View)
    <3> SUFFICES ASSUME pdf # Nil, ChainIn(View) PROVE FALSE
      BY <1>1, <1>7 DEF PdfInv, Drawn, ChainedIn
    <3>1. PICK p \in Page : renders[p] # <<>>
      BY <1>1 DEF ChainIn
    <3>2. SmoothIn(View, scale)
      BY <1>7 DEF PdfInv, Drawn
    <3> QED BY <1>1, <2>1, <3>1, <3>2 DEF SmoothIn
  <2> QED BY <1>4, <2>1, <2>2
<1> QED BY <1>3, <1>5, <1>6, <1>7, PagesMove

LEMMA ScrollKeeps ==
  ASSUME PdfInv, ScrollPdf
  PROVE  PdfInv'
<1>0. PageTypes /\ ReaderTypes /\ AskTypes
  BY DEF PdfInv, PdfTypes
<1>1. PICK v : v = View
  OBVIOUS
<1>2. v \in Views /\ v.pdf = pdf /\ v.rendered = rendered /\ v.rendering = rendering
  BY <1>0, <1>1, ViewIs
<1>3. PICK w : w = Scrolled(v)
  OBVIOUS
<1>4. /\ Becomes(w)
      /\ UNCHANGED <<server, doc, pdf, list, sel, requests, stage, scale, calm>>
  BY <1>1, <1>3 DEF ScrollPdf, reader
<1>5. /\ w \in Views /\ w.pdf = pdf /\ w.rendered = rendered
      /\ RunningIn(v) => RunningIn(w)
      /\ \A s : SmoothIn(v, s) => SmoothIn(w, s)
      /\ ChainedIn(v) => ChainedIn(w)
      /\ pdf # Nil /\ AllIn(v) => w.rendering = rendering
  BY <1>2, <1>3, ScrolledKeeps
<1>6. pdf = Nil => w.rendering = rendering
  BY <1>2, <1>3, RequestNothing DEF Scrolled
<1> QED BY <1>0, <1>1, <1>4, <1>5, <1>6, MoreAsked DEF AskTypes

\* A pin of the document that is open.
LEMMA JumpWithinKeeps ==
  ASSUME PdfInv, NEW n \in notes, JumpToPdfPin(n), ~ (doc = Nil \/ doc.id # n.doc)
  PROVE  PdfInv'
<1>0. PageTypes /\ ReaderTypes /\ AskTypes /\ ServerTypes
  BY DEF PdfInv, PdfTypes
<1>1. PICK v : v = View
  OBVIOUS
<1>2. v \in Views /\ v.pdf = pdf /\ v.rendered = rendered /\ v.rendering = rendering
  BY <1>0, <1>1, ViewIs
<1>3. PICK ps : ps = {n.page}
  OBVIOUS
<1>4. ps \in SUBSET (Nat \ {0}) /\ "nothing" \in Nexts
  BY <1>0, <1>3, PageRange DEF ServerTypes, Note, Nexts
<1>5. PICK w : w = Request(v, ps, "nothing")
  OBVIOUS
<1>6. /\ Becomes(w)
      /\ UNCHANGED <<server, doc, pdf, list, sel, requests, stage, scale, calm>>
  BY <1>1, <1>3, <1>5 DEF JumpToPdfPin
<1>7. /\ w \in Views /\ w.pdf = pdf /\ w.rendered = rendered
      /\ RunningIn(v) => RunningIn(w)
      /\ \A s : SmoothIn(v, s) => SmoothIn(w, s)
      /\ ChainedIn(v) => ChainedIn(w)
      /\ pdf # Nil /\ AllIn(v) => w.rendering = rendering
  BY <1>2, <1>4, <1>5, RequestKeeps
<1>8. pdf = Nil => w.rendering = rendering
  BY <1>2, <1>5, RequestNothing
<1> QED BY <1>0, <1>1, <1>6, <1>7, <1>8, MoreAsked DEF AskTypes

LEMMA ZoomKeeps ==
  ASSUME PdfInv, NEW s \in Scale, ZoomPdf(s)
  PROVE  PdfInv'
<1>0. PageTypes /\ ReaderTypes /\ AskTypes
  BY DEF PdfInv, PdfTypes
<1>1. PICK v : v = [View EXCEPT !.rendered = {}, !.rendering = {}]
  OBVIOUS
<1>2. /\ v \in Views /\ v.pdf = pdf /\ v.rendered = {} /\ v.rendering = {}
      /\ v.renders = renders /\ v.length = Len(stage)
  <2>1. View \in Views /\ View.pdf = pdf /\ View.renders = renders /\ View.length = Len(stage)
    BY <1>0, ViewIs
  <2> QED BY <1>1, <2>1 DEF Views
<1>3. PICK w : w = Scrolled(v)
  OBVIOUS
<1>4. /\ Becomes(w) /\ scale' = s
      /\ calm' = (calm /\ ~Drawing /\ ~Loading)
      /\ UNCHANGED <<server, doc, pdf, list, sel, requests, stage>>
  BY <1>1, <1>3 DEF ZoomPdf, reader
<1>5. /\ w \in Views /\ w.pdf = pdf /\ w.rendered = {}
      /\ RunningIn(v) => RunningIn(w)
      /\ \A z : SmoothIn(v, z) => SmoothIn(w, z)
      /\ pdf # Nil /\ Len(stage) = Pages[pdf] => AllIn(w)
  BY <1>2, <1>3, ScrolledKeeps
<1>6. RunningIn(w)
  BY <1>2, <1>5 DEF RunningIn
<1>7. ASSUME calm'
      PROVE  SmoothIn(w, scale') /\ ChainedIn(w)
  <2>1. \A p \in Page : renders[p] = <<>>
    BY <1>4, <1>7 DEF Drawing
  <2>2. SmoothIn(v, s)
    <3>1. Len(<<>>) <= 1 /\ DOMAIN <<>> = {}
      OBVIOUS
    <3> QED BY <1>2, <2>1, <3>1 DEF SmoothIn
  <2>3. pdf # Nil => AllIn(w)
    BY <1>4, <1>5, <1>7, StageLength
  <2> QED BY <1>4, <1>5, <2>2, <2>3 DEF ChainedIn
<1>8. Running' /\ Drawn' /\ rendered' \subseteq Page /\ rendering' \subseteq Page
      /\ renders' \in [Page -> Seq(Drawer)]
  BY <1>4, <1>5, <1>6, <1>7, ViewBecomes
<1>9. rendered' = {}
  BY <1>4, <1>5 DEF Becomes
<1>10. PageTypes'
  BY <1>0, <1>4, <1>8 DEF PageTypes
<1>11. Staged' /\ Boxed'
  BY <1>4, <1>9 DEF PdfInv, Staged, Boxed
<1>12. calm' => ~LoadIn(requests)
  BY <1>4, LoadingIn
<1> QED BY <1>0, <1>4, <1>8, <1>10, <1>11, <1>12, PagesMove DEF AskTypes

----------------------------------------------------------------------------
(* Requests and answers.                                                    *)

LEMMA FitsStay ==
  ASSUME Fits, UNCHANGED <<hl, notes>>, live' \subseteq live,
         NEW c, AskFits(c)', Asks(requests') \subseteq Asks(requests) \union {c}
  PROVE  Fits'
<1>1. \A n : PinFits(n)' <=> PinFits(n)
  BY DEF PinFits
<1>2. \A n \in notes' : PinFits(n)'
  BY <1>1 DEF Fits
<1>3. ASSUME NEW r \in Asks(requests')
      PROVE  AskFits(r)'
  <2>1. CASE r = c
    BY <2>1
  <2>2. CASE r \in Asks(requests)
    <3>1. AskFits(r)
      BY <2>2 DEF Fits
    <3> QED BY <1>1, <3>1 DEF AskFits
  <2> QED BY <1>3, <2>1, <2>2
<1> QED BY <1>2, <1>3 DEF Fits

LEMMA ReadStays ==
  ASSUME Read, UNCHANGED hl, calm' => calm, NEW c,
         Asks(requests') \subseteq Asks(requests) \union {c},
         c.kind = "highlight" => c.at.of = c.at.doc \/ ~calm' \/ c \in Asks(requests),
         sel' \in {sel, Nil}
  PROVE  Read'
<1> SUFFICES ASSUME calm'
             PROVE  /\ \A h \in DOMAIN hl : hl[h].of = hl[h].doc
                    /\ \A r \in Asks(requests') : r.kind = "highlight" => r.at.of = r.at.doc
                    /\ sel' # Nil /\ sel'.doc # Nil => sel'.of = sel'.doc
  BY DEF Read
<1>1. \A r \in Asks(requests) : r.kind = "highlight" => r.at.of = r.at.doc
  BY DEF Read
<1> QED BY <1>1 DEF Read

\* The pages stay as they are.
LEMMA AsksMove ==
  ASSUME PdfInv, UNCHANGED <<rendered, rendering, renders, scale, stage>>,
         pdf' \in {pdf, Nil}, calm' => calm,
         ServerTypes', ReaderTypes', AskTypes', Fits', Read', Alone', Listed', Boxed'
  PROVE  PdfInv'
<1>1. stage' \in Seq(Sheet)
  BY DEF PdfInv, PdfTypes, PageTypes
<1>2. PageTypes' /\ Running' /\ Drawn' /\ Staged'
  BY <1>1, PagesStay DEF PdfInv, PdfTypes
<1> QED BY <1>2 DEF PdfInv, PdfTypes

LEMMA AskAt ==
  ASSUME PdfInv, NEW i \in DOMAIN requests
  PROVE  /\ requests \in Seq(Ask) /\ requests[i] \in Ask /\ requests[i] \in Asks(requests)
         /\ AskFits(requests[i])
BY AskOnly DEF PdfInv, PdfTypes, AskTypes, Fits

\* A document is opened.
LEMMA LoadBegins ==
  ASSUME PdfInv, NEW d \in Doc, requests' = Append(requests, Load(d)),
         calm' = (calm /\ ~Drawing /\ requests = <<>>),
         UNCHANGED <<server, pages, doc, pdf, list, sel>>
  PROVE  PdfInv'
<1>0. PdfTypes /\ ServerTypes /\ ReaderTypes /\ AskTypes /\ PageTypes
  BY DEF PdfInv, PdfTypes
<1>1. PICK c : c = Load(d)
  OBVIOUS
<1>2. c \in Ask /\ c.kind = "load" /\ c.step = "doc" /\ c.got = {} /\ c.doc = d
  BY <1>1 DEF Load, Ask, LoadAsk
<1>3. AfterAdded(requests', requests, c)
  BY <1>0, <1>1, <1>2, AskAdded DEF AskTypes
<1>4. /\ Asks(requests') = Asks(requests) \union {c}
      /\ requests = <<>> => Len(requests') = 1 /\ Asks(requests') = {c} /\ Asks(requests) = {}
      /\ requests' \in Seq(Ask)
      /\ ComeOnce(requests) => ComeOnce(requests')
  BY <1>0, <1>2, <1>3, AskOnly DEF AfterAdded, IsComing, AskTypes
<1>5. ServerTypes' /\ ReaderTypes' /\ AskTypes'
  BY <1>0, <1>4 DEF ServerTypes, ReaderTypes, AskTypes, server
<1>6. Fits'
  <2>1. AskFits(c)'
    BY <1>2 DEF AskFits, IsComing
  <2> QED BY <1>4, <2>1, FitsStay DEF PdfInv, server
<1>7. Read'
  BY <1>2, <1>4, ReadStays DEF PdfInv, server
<1>8. Alone'
  <2> SUFFICES ASSUME calm, ~Drawing, requests = <<>>
               PROVE  /\ Len(requests') = 1 /\ rendering = {}
                      /\ \A r \in Asks(requests') : r.step = "doc"
                      /\ doc = Nil => pdf = Nil
                      /\ doc # Nil => pdf = doc.id
    BY DEF Alone, pages
  <2>1. rendering = {}
    <3>1. \A p \in rendering : renders[p] # <<>>
      BY DEF PdfInv, Running, RunningIn, View
    <3>2. \A p \in rendering : p \in Page
      BY <1>0 DEF PageTypes
    <3> QED BY <3>1, <3>2 DEF Drawing
  <2>2. ~PastIn(requests)
    BY <1>4 DEF PastIn
  <2> QED BY <1>2, <1>4, <2>1, <2>2 DEF PdfInv, Alone
<1>9. calm' => calm /\ ~PastIn(requests) /\ Asks(requests) = {}
  BY <1>4 DEF PastIn
<1>10. Listed'
  <2> SUFFICES ASSUME calm', doc # Nil
               PROVE  /\ \A h \in list :
                           /\ hl[h].doc = doc.id
                           /\ h \in live \/ Deleting(requests', h) \/ Dropping(requests', doc.id)
                      /\ \A h \in HighlightsOf(doc.id) : h \in list \/ Coming(requests', h)
                      /\ ComeOnce(requests')
                      /\ \A r \in Asks(requests') : r = c
    BY <1>2 DEF Listed, HighlightsOf, server, IsComing
  <2> QED BY <1>4, <1>9 DEF PdfInv, Listed, Deleting, Dropping, Coming
<1>11. Boxed'
  BY <1>9 DEF PdfInv, Boxed, BoxesOn, server, pages
<1> QED BY <1>5, <1>6, <1>7, <1>8, <1>10, <1>11, AsksMove DEF pages

\* When a load is under way and the user has waited, it is the only request.
LEMMA LoadAlone ==
  ASSUME PdfInv, calm, NEW i \in DOMAIN requests, requests[i].kind = "load"
  PROVE  /\ Len(requests) = 1 /\ Asks(requests) = {requests[i]} /\ rendering = {}
         /\ PastIn(requests) <=> requests[i].step # "doc"
<1>0. requests \in Seq(Ask)
  BY DEF PdfInv, PdfTypes, AskTypes
<1>1. requests[i] \in Asks(requests) /\ LoadIn(requests)
  BY DEF Asks, LoadIn
<1>2. Len(requests) = 1 /\ rendering = {}
  BY <1>1 DEF PdfInv, Alone
<1>3. \A r \in Asks(requests) : r = requests[i]
  BY <1>0, <1>1, <1>2, AskOnly
<1>4. Asks(requests) = {requests[i]}
  BY <1>1, <1>3
<1>5. PastIn(requests) <=> requests[i].step # "doc"
  BY <1>4 DEF PastIn
<1> QED BY <1>2, <1>4, <1>5

\* The answer that there is no such document: the load ends.
LEMMA LoadEndsKeeps ==
  ASSUME PdfInv, NEW i \in DOMAIN requests, requests' = RemoveAt(requests, i),
         calm /\ calm' => requests[i].kind = "load" /\ requests[i].step = "doc", calm' => calm, calm' \in BOOLEAN,
         UNCHANGED <<server, pages, doc, pdf, list, sel>>
  PROVE  PdfInv'
<1>0. PdfTypes /\ ServerTypes /\ ReaderTypes /\ AskTypes /\ PageTypes
  BY DEF PdfInv, PdfTypes
<1>1. AfterRemoved(requests', requests, i)
  BY <1>0, AskRemoved DEF AskTypes
<1>2. requests' \in Seq(Ask) /\ Asks(requests') \subseteq Asks(requests)
  BY <1>1 DEF AfterRemoved
<1>3. calm' => Asks(requests') = {} /\ Asks(requests) = {requests[i]} /\ ~PastIn(requests) /\ ComeOnce(requests')
  BY <1>1, LoadAlone DEF AfterRemoved, ComeOnce
<1>4. ServerTypes' /\ ReaderTypes' /\ AskTypes'
  BY <1>0, <1>2 DEF ServerTypes, ReaderTypes, AskTypes, server
<1>5. requests[i] \in Asks(requests) /\ AskFits(requests[i])
  BY AskAt
<1>6. Fits'
  <2>1. PICK c : c = requests[i]
    OBVIOUS
  <2>2. AskFits(c)'
    BY <1>5, <2>1 DEF AskFits, PinFits, server
  <2> QED BY <1>2, <2>2, FitsStay DEF PdfInv, server
<1>7. Read'
  <2>1. PICK c : c = requests[i]
    OBVIOUS
  <2> QED BY <1>2, <1>5, <2>1, ReadStays DEF PdfInv, server
<1>8. Alone'
  BY <1>3 DEF PdfInv, Alone, LoadIn
<1>9. Listed'
  <2> SUFFICES ASSUME calm', doc # Nil
               PROVE  /\ \A h \in list :
                           /\ hl[h].doc = doc.id
                           /\ h \in live \/ Deleting(requests', h) \/ Dropping(requests', doc.id)
                      /\ \A h \in HighlightsOf(doc.id) : h \in list \/ Coming(requests', h)
                      /\ ComeOnce(requests')
                      /\ Asks(requests') = {}
    BY DEF Listed, HighlightsOf, server
  <2>1. \A h : ~Deleting(requests, h) /\ ~Dropping(requests, doc.id) /\ ~Coming(requests, h)
    BY <1>3 DEF Deleting, Dropping, Coming, IsComing
  <2> QED BY <1>3, <2>1 DEF PdfInv, Listed
<1>10. Boxed'
  BY <1>3 DEF PdfInv, Boxed, BoxesOn, server, pages
<1> QED BY <1>4, <1>6, <1>7, <1>8, <1>9, <1>10, AsksMove DEF pages

\* A load goes on.
Stepped(r, s) == [r EXCEPT !.step = s]
Got(r, s, g) == [r EXCEPT !.step = s, !.got = g]
Steps == {"doc", "list", "listed", "pdf"}

LEMMA StepOfLoad ==
  ASSUME NEW r \in LoadAsk, NEW s \in Steps, NEW c, c = Stepped(r, s)
  PROVE  c \in Ask /\ c.kind = "load" /\ c.step = s /\ c.doc = r.doc /\ c.got = r.got
BY DEF LoadAsk, Ask, Stepped, Steps

LEMMA ListOfLoad ==
  ASSUME NEW r \in LoadAsk, NEW s \in Steps, NEW g \in SUBSET Nat, NEW c, c = Got(r, s, g)
  PROVE  c \in Ask /\ c.kind = "load" /\ c.step = s /\ c.doc = r.doc /\ c.got = g
BY DEF LoadAsk, Ask, Got, Steps

\* A load past its first answer: only what it knows matters.
LEMMA LoadGoesOn ==
  ASSUME PdfInv, NEW i \in DOMAIN requests, requests[i].kind = "load",
         NEW c \in Ask, requests' = [requests EXCEPT ![i] = c],
         c.kind = "load" /\ c.step # "doc" /\ c.got \subseteq DOMAIN hl /\ c.doc \in Doc,
         UNCHANGED <<server, pages, pdf, sel, calm>>,
         doc' \in {Nil} \union [id : Doc, count : Nat], list' \subseteq DOMAIN hl,
         calm => /\ doc' # Nil /\ doc'.id = c.doc /\ c.doc \in docs
                 /\ c.step = "listed" => c.got = HighlightsOf(c.doc)
                 /\ c.step = "pdf" => list' = HighlightsOf(c.doc)
  PROVE  PdfInv'
<1>0. PdfTypes /\ ServerTypes /\ ReaderTypes /\ AskTypes /\ PageTypes
  BY DEF PdfInv, PdfTypes
<1>1. AfterChanged(requests', requests, i, c)
  BY <1>0, AskChanged DEF AskTypes
<1>2. /\ requests' \in Seq(Ask) /\ Asks(requests') \subseteq Asks(requests) \union {c}
      /\ c \in Asks(requests')
  BY <1>1 DEF AfterChanged
<1>3. calm => Asks(requests') = {c} /\ Len(requests') = 1 /\ rendering = {} /\ PastIn(requests')
  <2>1. calm => Asks(requests') = {c} /\ Len(requests') = 1 /\ rendering = {}
    BY <1>1, LoadAlone DEF AfterChanged
  <2> QED BY <1>2, <2>1 DEF PastIn
<1>4. ServerTypes' /\ ReaderTypes' /\ AskTypes'
  BY <1>0, <1>2 DEF ServerTypes, ReaderTypes, AskTypes, server
<1>5. Fits'
  <2>1. AskFits(c)'
    BY DEF AskFits, IsComing, server
  <2> QED BY <1>2, <2>1, FitsStay DEF PdfInv, server
<1>6. Read'
  BY <1>2, ReadStays DEF PdfInv, server
<1>7. Alone'
  <2> SUFFICES ASSUME calm
               PROVE  /\ Len(requests') = 1 /\ rendering = {}
                      /\ \A r \in Asks(requests') : r.kind = "load" =>
                           /\ r.step # "doc" => doc' # Nil /\ doc'.id = r.doc /\ r.doc \in docs
                           /\ r.step = "listed" => r.got = HighlightsOf(r.doc)
                           /\ r.step = "pdf" => list' = HighlightsOf(r.doc)
                      /\ doc' # Nil /\ PastIn(requests')
    BY DEF Alone, HighlightsOf, server, pages
  <2> QED BY <1>3
<1>8. Listed' /\ Boxed'
  BY <1>3 DEF Listed, Boxed
<1> QED BY <1>4, <1>5, <1>6, <1>7, <1>8, AsksMove DEF pages

\* The document that is loaded.
LEMMA LoadIs ==
  ASSUME PdfInv, NEW i \in DOMAIN requests, requests[i].kind = "load"
  PROVE  /\ requests[i] \in LoadAsk /\ requests[i].doc \in Doc /\ requests[i].got \subseteq DOMAIN hl
         /\ calm => /\ requests[i].step # "doc" =>
                         doc # Nil /\ doc.id = requests[i].doc /\ requests[i].doc \in docs
                    /\ requests[i].step = "listed" => requests[i].got = HighlightsOf(requests[i].doc)
                    /\ requests[i].step = "pdf" => list = HighlightsOf(requests[i].doc)
<1>1. requests[i] \in Ask /\ requests[i] \in Asks(requests) /\ AskFits(requests[i])
  BY AskAt
<1>2. requests[i] \in LoadAsk
  BY <1>1, AskKinds
<1>3. requests[i].doc \in Doc
  BY <1>2 DEF LoadAsk
<1>4. requests[i].got \subseteq DOMAIN hl
  BY <1>1 DEF AskFits
<1> QED BY <1>1, <1>2, <1>3, <1>4 DEF PdfInv, Alone

LEMMA HighlightsAre ==
  ASSUME ServerTypes, NEW d
  PROVE  HighlightsOf(d) \subseteq DOMAIN hl /\ DOMAIN hl \subseteq Nat
BY DEF ServerTypes, HighlightsOf

LEMMA DocArrivesKeeps ==
  ASSUME PdfInv, NEW i \in DOMAIN requests, DocArrives(i)
  PROVE  PdfInv'
<1>0. PdfTypes /\ ServerTypes /\ ReaderTypes /\ AskTypes
  BY DEF PdfInv, PdfTypes
<1>1. PICK r : r = requests[i]
  OBVIOUS
<1>2. /\ r.kind = "load" /\ r.step = "doc"
      /\ UNCHANGED <<server, pages, pdf, list, sel, calm>>
  BY <1>1 DEF DocArrives
<1>3. r \in LoadAsk /\ r.doc \in Doc /\ r.got \subseteq DOMAIN hl
  BY <1>1, <1>2, LoadIs
<1>4. CASE r.doc \in docs
  <2>1. PICK c : c = Stepped(r, "list")
    OBVIOUS
  <2>2. doc' = [id |-> r.doc, count |-> count[r.doc]] /\ requests' = [requests EXCEPT ![i] = c]
    BY <1>1, <1>4, <2>1 DEF DocArrives, Stepped
  <2>3. c \in Ask /\ c.kind = "load" /\ c.step = "list" /\ c.doc = r.doc /\ c.got = r.got
    <3>1. "list" \in Steps
      BY DEF Steps
    <3> QED BY <1>3, <2>1, <3>1, StepOfLoad
  <2>4. doc' \in [id : Doc, count : Nat] /\ doc'.id = r.doc
    BY <1>0, <1>3, <2>2 DEF ServerTypes
  <2>5. doc' # Nil
    BY <2>4, PdfReaderAssumption
  <2>6. list' \subseteq DOMAIN hl
    BY <1>0, <1>2 DEF ReaderTypes
  <2> QED BY <1>1, <1>2, <1>3, <1>4, <2>2, <2>3, <2>4, <2>5, <2>6, LoadGoesOn
<1>5. CASE r.doc \notin docs
  <2>1. requests' = RemoveAt(requests, i) /\ UNCHANGED doc
    BY <1>1, <1>5 DEF DocArrives
  <2>2. calm \in BOOLEAN
    BY <1>0 DEF AskTypes
  <2> QED BY <1>1, <1>2, <2>1, <2>2, LoadEndsKeeps
<1> QED BY <1>4, <1>5

LEMMA ServeListKeeps ==
  ASSUME PdfInv, NEW i \in DOMAIN requests, ServeList(i)
  PROVE  PdfInv'
<1>0. PdfTypes /\ ServerTypes /\ ReaderTypes /\ AskTypes
  BY DEF PdfInv, PdfTypes
<1>1. PICK r : r = requests[i]
  OBVIOUS
<1>2. PICK g : g = HighlightsOf(r.doc)
  OBVIOUS
<1>3. PICK c : c = Got(r, "listed", g)
  OBVIOUS
<1>4. /\ r.kind = "load" /\ r.step = "list"
      /\ requests' = [requests EXCEPT ![i] = c]
      /\ UNCHANGED <<server, pages, doc, pdf, list, sel, calm>>
  BY <1>1, <1>2, <1>3 DEF ServeList, reader, Got
<1>5. /\ r \in LoadAsk /\ r.doc \in Doc
      /\ calm => doc # Nil /\ doc.id = r.doc /\ r.doc \in docs
  BY <1>1, <1>4, LoadIs
<1>6. g \subseteq DOMAIN hl /\ g \in SUBSET Nat
  BY <1>0, <1>2, HighlightsAre
<1>7. c \in Ask /\ c.kind = "load" /\ c.step = "listed" /\ c.doc = r.doc /\ c.got = g
  <2>1. "listed" \in Steps
    BY DEF Steps
  <2> QED BY <1>3, <1>5, <1>6, <2>1, ListOfLoad
<1>8. list' \subseteq DOMAIN hl /\ doc' \in {Nil} \union [id : Doc, count : Nat]
  BY <1>0, <1>4 DEF ReaderTypes
<1> QED BY <1>1, <1>2, <1>4, <1>5, <1>6, <1>7, <1>8, LoadGoesOn

LEMMA ListArrivesKeeps ==
  ASSUME PdfInv, NEW i \in DOMAIN requests, ListArrives(i)
  PROVE  PdfInv'
<1>0. PdfTypes /\ ServerTypes /\ ReaderTypes /\ AskTypes
  BY DEF PdfInv, PdfTypes
<1>1. PICK r : r = requests[i]
  OBVIOUS
<1>2. /\ r.kind = "load" /\ r.step = "listed" /\ list' = r.got
      /\ UNCHANGED <<server, pages, doc, pdf, sel, calm>>
  BY <1>1 DEF ListArrives
<1>3. /\ r \in LoadAsk /\ r.doc \in Doc /\ r.got \subseteq DOMAIN hl
      /\ calm => /\ doc # Nil /\ doc.id = r.doc /\ r.doc \in docs
                 /\ r.got = HighlightsOf(r.doc)
  BY <1>1, <1>2, LoadIs
<1>4. CASE doc # Nil
  <2>1. PICK c : c = Stepped(r, "pdf")
    OBVIOUS
  <2>2. requests' = [requests EXCEPT ![i] = c]
    BY <1>1, <1>4, <2>1 DEF ListArrives, Stepped
  <2>3. c \in Ask /\ c.kind = "load" /\ c.step = "pdf" /\ c.doc = r.doc /\ c.got = r.got
    <3>1. "pdf" \in Steps
      BY DEF Steps
    <3> QED BY <1>3, <2>1, <3>1, StepOfLoad
  <2>4. doc' \in {Nil} \union [id : Doc, count : Nat]
    BY <1>0, <1>2 DEF ReaderTypes
  <2> QED BY <1>1, <1>2, <1>3, <2>2, <2>3, <2>4, LoadGoesOn
<1>5. CASE doc = Nil
  <2>1. requests' = RemoveAt(requests, i) /\ ~calm
    BY <1>1, <1>3, <1>5 DEF ListArrives
  <2>2. AfterRemoved(requests', requests, i)
    BY <1>0, <2>1, AskRemoved DEF AskTypes
  <2>3. requests' \in Seq(Ask) /\ Asks(requests') \subseteq Asks(requests)
    BY <2>2 DEF AfterRemoved
  <2>4. ServerTypes' /\ ReaderTypes' /\ AskTypes'
    BY <1>0, <1>2, <1>3, <2>3 DEF ServerTypes, ReaderTypes, AskTypes, server
  <2>5. Fits'
    <3>1. r \in Asks(requests) /\ AskFits(r)
      BY <1>1, AskAt
    <3>2. AskFits(r)'
      BY <1>2, <3>1 DEF AskFits, PinFits, server
    <3> QED BY <1>2, <2>3, <3>2, FitsStay DEF PdfInv, server
  <2>6. Read' /\ Alone' /\ Listed' /\ Boxed'
    BY <1>2, <2>1 DEF Read, Alone, Listed, Boxed
  <2> QED BY <1>2, <2>4, <2>5, <2>6, AsksMove DEF pages
<1> QED BY <1>4, <1>5

\* A call that draws on the old stage, or has not begun to.
Off(r) == IF r.step = "page" THEN r ELSE [r EXCEPT !.off = TRUE]

LEMMA OffStageIs ==
  ASSUME renders \in [Page -> Seq(Drawer)], NEW o, o = OffStage
  PROVE  o \in [Page -> Seq(Drawer)] /\ \A p \in Page : renders[p] = <<>> => o[p] = <<>>
<1>1. o = [p \in Page |-> o[p]] /\ \A p \in Page : o[p] = [j \in DOMAIN renders[p] |-> Off(renders[p][j])]
  BY DEF OffStage, Off
<1>2. ASSUME NEW p \in Page
      PROVE  o[p] \in Seq(Drawer) /\ (renders[p] = <<>> => o[p] = <<>>)
  <2>1. PICK s \in Seq(Drawer) : s = renders[p]
    OBVIOUS
  <2>2. PICK n \in Nat : n = Len(s) /\ DOMAIN s = 1..n
    OBVIOUS
  <2>3. o[p] = [j \in 1..n |-> Off(s[j])]
    BY <1>1, <2>1, <2>2
  <2>4. \A j \in 1..n : Off(s[j]) \in Drawer
    <3> SUFFICES ASSUME NEW j \in 1..n PROVE Off(s[j]) \in Drawer
      OBVIOUS
    <3>1. s[j] \in Drawer
      BY <2>2
    <3> QED BY <3>1 DEF Off, Drawer
  <2>5. o[p] \in [1..n -> Drawer]
    BY <2>3, <2>4
  <2>6. o[p] \in Seq(Drawer) /\ Len(o[p]) = n
    <3>1. PICK x \in [1..n -> Drawer] : x = o[p]
      BY <2>5
    <3>2. x \in Seq(Drawer) /\ Len(x) = n
      OBVIOUS
    <3> QED BY <3>1, <3>2
  <2>7. s = <<>> => o[p] = <<>>
    BY <2>2, <2>6, EmptySeq
  <2> QED BY <2>1, <2>6, <2>7
<1>3. \A p \in Page : o[p] \in Seq(Drawer)
  BY <1>2
<1>4. o \in [Page -> Seq(Drawer)]
  BY <1>1, <1>3
<1> QED BY <1>2, <1>4

LEMMA ClearedIs ==
  ASSUME PageTypes, NEW d \in Doc, NEW v, v = Cleared(d)
  PROVE  /\ v \in Views /\ v.pdf = d /\ v.rendered = {} /\ v.rendering = {}
         /\ v.length = Pages[d]
         /\ \A p \in Page : renders[p] = <<>> => v.renders[p] = <<>>
<1>1. PICK o : o = OffStage
  OBVIOUS
<1>2. o \in [Page -> Seq(Drawer)] /\ \A p \in Page : renders[p] = <<>> => o[p] = <<>>
  BY <1>1, OffStageIs DEF PageTypes
<1>3. v = [pdf |-> d, rendered |-> {}, rendering |-> {}, renders |-> o, length |-> Pages[d]]
  BY <1>1 DEF Cleared
<1>4. Pages[d] \in Nat
  BY PageRange
<1> QED BY <1>2, <1>3, <1>4 DEF Views

LEMMA BlankIs ==
  ASSUME NEW d \in Doc, NEW t, t = Blank(d)
  PROVE  /\ t \in Seq(Sheet) /\ DOMAIN t = 1..Pages[d] /\ DOMAIN t \subseteq Page
         /\ \A p \in DOMAIN t : t[p].drawn = <<>>
<1>1. PICK n \in Nat : n = Pages[d]
  BY PageRange
<1>2. PICK e : e = [drawn |-> <<>>, boxes |-> {}]
  OBVIOUS
<1>3. e \in Sheet /\ e.drawn = <<>>
  BY <1>2 DEF Sheet
<1>4. t = [p \in 1..n |-> e]
  BY <1>1, <1>2 DEF Blank
<1>5. t \in [1..n -> Sheet] /\ DOMAIN t = 1..n /\ \A p \in DOMAIN t : t[p] = e
  BY <1>3, <1>4
<1>6. t \in Seq(Sheet)
  BY <1>5
<1> QED BY <1>1, <1>3, <1>5, <1>6, PageRange

\* Without waiting only little is promised.
LEMMA UnawaitedKeeps ==
  ASSUME ServerTypes', PageTypes', ReaderTypes', AskTypes', Fits', Running', ~calm'
  PROVE  PdfInv'
BY DEF PdfInv, PdfTypes, Read, Drawn, Staged, Alone, Listed, Boxed

\* Page 1 is asked for, and with it all others.
LEMMA FirstAsked ==
  ASSUME PageTypes, NEW d \in Doc, NEW next \in Nexts, next # "nothing",
         NEW w, w = Request(Cleared(d), {1}, next)
  PROVE  /\ w \in Views /\ w.pdf = d /\ w.rendered = {} /\ RunningIn(w)
         /\ (\A p \in Page : renders[p] = <<>>) => \A s : SmoothIn(w, s) /\ ChainedIn(w)
<1>1. PICK v : v = Cleared(d)
  OBVIOUS
<1>2. /\ v \in Views /\ v.pdf = d /\ v.rendered = {} /\ v.rendering = {}
      /\ v.length = Pages[d]
      /\ \A p \in Page : renders[p] = <<>> => v.renders[p] = <<>>
  BY <1>1, ClearedIs
<1>3. PICK ps : ps = {1}
  OBVIOUS
<1>4. ps \in SUBSET (Nat \ {0}) /\ w = Request(v, ps, next) /\ d # Nil
  BY <1>1, <1>3, PdfReaderAssumption
<1>5. /\ w \in Views /\ w.pdf = d /\ w.rendered = {}
      /\ RunningIn(v) => RunningIn(w)
      /\ \A s : SmoothIn(v, s) => SmoothIn(w, s)
  <2>1. v \in Views /\ ps \in SUBSET (Nat \ {0}) /\ w = Request(v, ps, next)
    BY <1>2, <1>4
  <2>2. /\ w \in Views /\ w.pdf = v.pdf /\ w.rendered = v.rendered
        /\ RunningIn(v) => RunningIn(w)
        /\ \A s : SmoothIn(v, s) => SmoothIn(w, s)
    BY <2>1, RequestKeeps, SMTT(30)
  <2> QED BY <1>2, <2>2
<1>6. RunningIn(v)
  BY <1>2 DEF RunningIn
<1>7. ASSUME \A p \in Page : renders[p] = <<>>, NEW s
      PROVE  SmoothIn(w, s) /\ ChainedIn(w)
  <2>1. \A p \in Page : v.renders[p] = <<>>
    BY <1>2, <1>7
  <2>2. SmoothIn(v, s)
    <3>1. Len(<<>>) <= 1 /\ DOMAIN <<>> = {}
      OBVIOUS
    <3> QED BY <1>2, <2>1, <3>1 DEF SmoothIn
  <2>3. 1 \in Page /\ 1 <= Pages[d]
    BY PageRange
  <2>4. 1 \in Unasked(v, ps)
    BY <1>2, <1>3, <2>3 DEF Unasked
  <2>5. PICK c : c = Drawing0(v, next)
    OBVIOUS
  <2>6. w.renders[1] = Append(v.renders[1], c)
    <3>1. v \in Views /\ ps \in SUBSET (Nat \ {0}) /\ w = Request(v, ps, next) /\ v.pdf # Nil
      BY <1>2, <1>4
    <3>2. \A p \in Page : w.renders[p] =
             IF p \in Unasked(v, ps) THEN Append(v.renders[p], Drawing0(v, next)) ELSE v.renders[p]
      BY <3>1, RequestIs, SMTT(30)
    <3> QED BY <2>3, <2>4, <2>5, <3>2
  <2>7. w.renders[1] = Append(<<>>, c) /\ c.next = next
    BY <2>1, <2>3, <2>5, <2>6 DEF Drawing0
  <2>8. w.renders[1] # <<>> /\ w.renders[1][1] = c
    <3>1. Append(<<>>, c) = <<c>> /\ <<c>> # <<>> /\ <<c>>[1] = c
      OBVIOUS
    <3> QED BY <2>7, <3>1
  <2> QED BY <1>5, <2>2, <2>3, <2>7, <2>8 DEF ChainedIn, ChainIn
<1> QED BY <1>5, <1>6, <1>7

\* The page count is asked to be corrected, or not.
LEMMA PatchMaybe ==
  ASSUME NEW s \in Seq(Ask), NEW d \in Doc, NEW t, t \in {s, Append(s, Patch(d))}
  PROVE  /\ t \in Seq(Ask) /\ Asks(t) \subseteq Asks(s) \union {Patch(d)}
         /\ Patch(d).kind = "patch" /\ Patch(d).count = Pages[d] /\ Patch(d).doc = d
<1>1. Patch(d) \in Ask /\ Patch(d).kind = "patch" /\ Patch(d).count = Pages[d] /\ Patch(d).doc = d
  <2>1. Pages[d] \in Nat
    BY PageRange
  <2> QED BY <2>1 DEF Patch, PatchAsk, Ask
<1>2. PICK c \in Ask : c = Patch(d)
  BY <1>1
<1>3. CASE t = s
  BY <1>1, <1>3
<1>4. CASE t = Append(s, Patch(d))
  <2>1. AfterAdded(t, s, c)
    BY <1>2, <1>4, AskAdded
  <2> QED BY <1>1, <1>2, <2>1 DEF AfterAdded
<1> QED BY <1>3, <1>4

LEMMA PdfArrivesKeeps ==
  ASSUME PdfInv, NEW i \in DOMAIN requests, PdfArrives(i)
  PROVE  PdfInv'
<1>0. PdfTypes /\ ServerTypes /\ ReaderTypes /\ AskTypes /\ PageTypes
  BY DEF PdfInv, PdfTypes
<1>1. PICK r : r = requests[i]
  OBVIOUS
<1>2. PICK d : d = r.doc
  OBVIOUS
<1>3. PICK rest : rest = RemoveAt(requests, i)
  OBVIOUS
<1>4. /\ r.kind = "load" /\ r.step = "pdf"
      /\ UNCHANGED <<server, list, sel, calm>>
  BY <1>1 DEF PdfArrives
<1>5. /\ d \in Doc /\ d # Nil
      /\ calm => doc # Nil /\ doc.id = d /\ d \in docs /\ list = HighlightsOf(d)
  <2>1. /\ r.doc \in Doc
        /\ calm => /\ doc # Nil /\ doc.id = r.doc /\ r.doc \in docs
                   /\ list = HighlightsOf(r.doc)
    BY <1>1, <1>4, LoadIs
  <2> QED BY <1>2, <2>1, PdfReaderAssumption
<1>6. rest \in Seq(Ask) /\ Asks(rest) \subseteq Asks(requests)
  <2>1. AfterRemoved(rest, requests, i)
    BY <1>0, <1>3, AskRemoved DEF AskTypes
  <2> QED BY <2>1 DEF AfterRemoved
<1>7. calm => Asks(rest) = {} /\ rendering = {}
  <2>1. AfterRemoved(rest, requests, i)
    BY <1>0, <1>3, AskRemoved DEF AskTypes
  <2> QED BY <1>1, <1>4, <2>1, LoadAlone DEF AfterRemoved
<1>8. ServerTypes'
  BY <1>0, <1>4 DEF ServerTypes, server
<1>9. ASSUME Asks(requests') \subseteq Asks(rest) \union {Patch(d)}
      PROVE  Fits'
  <2>1. PICK c : c = Patch(d)
    OBVIOUS
  <2>2. AskFits(c)'
    BY <2>1 DEF AskFits, Patch, IsComing
  <2> QED BY <1>4, <1>6, <1>9, <2>1, <2>2, FitsStay DEF PdfInv, server
<1>10. CASE d \notin docs /\ requests' = rest /\ UNCHANGED <<pages, doc, pdf>>
  BY <1>0, <1>3, <1>4, <1>5, <1>10, LoadEndsKeeps DEF AskTypes
<1>11. CASE /\ doc = Nil /\ pdf' = d /\ stage' = <<>> /\ Becomes(Cleared(d))
            /\ requests' = rest /\ UNCHANGED <<scale, doc>>
  <2>1. PICK w : w = Cleared(d)
    OBVIOUS
  <2>2. w \in Views /\ w.pdf = d /\ w.rendering = {}
    BY <1>0, <1>5, <2>1, ClearedIs
  <2>3. ~calm'
    BY <1>4, <1>5, <1>11
  <2>4. RunningIn(w)
    BY <2>2 DEF RunningIn
  <2>5. Running' /\ rendered' \subseteq Page /\ rendering' \subseteq Page /\ renders' \in [Page -> Seq(Drawer)]
    BY <1>11, <2>1, <2>2, <2>3, <2>4, ViewBecomes
  <2>6. PageTypes'
    <3>1. <<>> \in Seq(Sheet) /\ DOMAIN <<>> = {}
      BY EmptySeq
    <3> QED BY <1>0, <1>11, <2>5, <3>1 DEF PageTypes
  <2>7. ReaderTypes' /\ AskTypes'
    BY <1>0, <1>4, <1>5, <1>6, <1>11 DEF ReaderTypes, AskTypes, server
  <2> QED BY <1>8, <1>9, <1>11, <2>3, <2>5, <2>6, <2>7, UnawaitedKeeps
<1>12. CASE /\ doc # Nil /\ pdf' = d /\ stage' = Blank(d)
            /\ Becomes(Request(Cleared(d), {1}, IF Pages[d] >= 2 THEN "second" ELSE "scroll"))
            /\ doc' = [doc EXCEPT !.count = Pages[d]]
            /\ requests' = (IF doc.count = Pages[d] THEN rest ELSE Append(rest, Patch(d)))
            /\ UNCHANGED scale
  <2>1. PICK next : next = IF Pages[d] >= 2 THEN "second" ELSE "scroll"
    OBVIOUS
  <2>2. next \in Nexts /\ next # "nothing"
    BY <2>1 DEF Nexts
  <2>3. PICK w : w = Request(Cleared(d), {1}, next)
    OBVIOUS
  <2>4. /\ w \in Views /\ w.pdf = d /\ w.rendered = {} /\ RunningIn(w)
        /\ (\A p \in Page : renders[p] = <<>>) => \A s : SmoothIn(w, s) /\ ChainedIn(w)
    BY <1>0, <1>5, <2>2, <2>3, FirstAsked
  <2>5. Becomes(w)
    BY <1>12, <2>1, <2>3
  <2>6. calm => SmoothIn(w, scale) /\ ChainedIn(w)
    <3> SUFFICES ASSUME calm, NEW p \in Page PROVE renders[p] = <<>>
      BY <2>4
    <3>1. SmoothIn(View, scale)
      BY DEF PdfInv, Drawn
    <3>2. View.renders = renders /\ View.rendering = {}
      BY <1>7 DEF View
    <3> QED BY <3>1, <3>2 DEF SmoothIn
  <2>7. Running' /\ Drawn' /\ rendered' \subseteq Page /\ rendering' \subseteq Page /\ renders' \in [Page -> Seq(Drawer)]
    BY <1>4, <1>12, <2>4, <2>5, <2>6, ViewBecomes
  <2>8. /\ stage' \in Seq(Sheet) /\ DOMAIN stage' = 1..Pages[d] /\ DOMAIN stage' \subseteq Page
        /\ \A p \in DOMAIN stage' : stage'[p].drawn = <<>>
    BY <1>5, <1>12, BlankIs
  <2>9. PageTypes'
    BY <1>0, <1>12, <2>7, <2>8 DEF PageTypes
  <2>10. requests' \in Seq(Ask) /\ Asks(requests') \subseteq Asks(rest) \union {Patch(d)} /\ Patch(d).kind = "patch"
    <3>1. requests' \in {rest, Append(rest, Patch(d))}
      BY <1>12
    <3> QED BY <1>5, <1>6, <3>1, PatchMaybe
  <2>11. doc' \in [id : Doc, count : Nat] /\ doc'.id = doc.id /\ doc' # Nil
    <3>1. doc \in [id : Doc, count : Nat] /\ Pages[d] \in Nat
      BY <1>0, <1>5, <1>12, PageRange DEF ReaderTypes
    <3>2. doc' \in [id : Doc, count : Nat] /\ doc'.id = doc.id
      BY <1>12, <3>1
    <3> QED BY <3>2, PdfReaderAssumption
  <2>12. ReaderTypes' /\ AskTypes'
    BY <1>0, <1>4, <1>5, <1>12, <2>10, <2>11 DEF ReaderTypes, AskTypes, server
  <2>13. Fits'
    BY <1>9, <2>10
  <2>14. Read'
    <3>1. PICK c : c = Patch(d)
      OBVIOUS
    <3> QED BY <1>4, <1>6, <2>10, <3>1, ReadStays DEF PdfInv, server
  <2>15. rendered' = {}
    BY <2>4, <2>5 DEF Becomes
  <2>16. Staged' /\ Boxed'
    BY <1>12, <2>8, <2>15 DEF Staged, Boxed
  <2>17. calm => \A q \in Asks(requests') : q.kind = "patch"
    BY <1>7, <2>10
  <2>18. Alone'
    BY <1>4, <1>5, <1>12, <2>11, <2>17 DEF Alone, LoadIn
  <2>19. Listed'
    <3> SUFFICES ASSUME calm
                 PROVE  /\ \A h \in list : hl[h].doc = d /\ h \in live
                        /\ \A h \in HighlightsOf(d) : h \in list
                        /\ ComeOnce(requests')
                        /\ \A q \in Asks(requests') : q.kind = "patch"
      BY <1>4, <1>5, <2>11 DEF Listed, HighlightsOf, server, IsComing
    <3>1. ComeOnce(requests')
      BY <2>17 DEF ComeOnce, IsComing, Asks
    <3> QED BY <1>5, <2>17, <3>1 DEF HighlightsOf
  <2> QED BY <1>8, <2>7, <2>9, <2>12, <2>13, <2>14, <2>16, <2>18, <2>19 DEF PdfInv, PdfTypes
<1> QED BY <1>1, <1>2, <1>3, <1>10, <1>11, <1>12 DEF PdfArrives

----------------------------------------------------------------------------
(* Highlights, notes and deletions.                                         *)

\* When another call is under way and the user has waited, none is a load.
LEMMA NoLoad ==
  ASSUME PdfInv, calm, NEW i \in DOMAIN requests, requests[i].kind # "load"
  PROVE  ~LoadIn(requests)
<1>0. requests \in Seq(Ask)
  BY DEF PdfInv, PdfTypes, AskTypes
<1> SUFFICES ASSUME NEW r \in Asks(requests), r.kind = "load" PROVE FALSE
  BY DEF LoadIn
<1>1. Len(requests) = 1
  BY DEF PdfInv, Alone, LoadIn
<1>2. requests[i] \in Asks(requests)
  BY DEF Asks
<1>3. r = requests[i]
  BY <1>0, <1>1, <1>2, AskOnly
<1> QED BY <1>3

LEMMA AloneStays ==
  ASSUME PdfInv, calm' => calm /\ ~LoadIn(requests) /\ ~LoadIn(requests'), UNCHANGED <<doc, pdf>>
  PROVE  Alone'
<1> SUFFICES ASSUME calm'
             PROVE  /\ ~LoadIn(requests')
                    /\ doc = Nil => pdf = Nil
                    /\ doc # Nil => pdf = doc.id
  BY DEF Alone, LoadIn
<1>1. ~PastIn(requests)
  BY DEF PastIn, LoadIn
<1> QED BY <1>1 DEF PdfInv, Alone

LEMMA BoxedStays ==
  ASSUME PdfInv, calm' => calm /\ ~LoadIn(requests), UNCHANGED <<list, stage, rendered>>,
         doc' \in {doc, Nil}, \A h \in list : hl'[h].page = hl[h].page
  PROVE  Boxed'
<1> SUFFICES ASSUME calm', doc # Nil, NEW p \in rendered \intersect DOMAIN stage
             PROVE  stage[p].boxes = {h \in list : hl'[h].page = p}
  BY DEF Boxed, BoxesOn
<1>1. ~PastIn(requests)
  BY DEF PastIn, LoadIn
<1>2. stage[p].boxes = {h \in list : hl[h].page = p}
  BY <1>1 DEF PdfInv, Boxed, BoxesOn
<1> QED BY <1>2

\* What the list is to the highlights, when no document is being opened.
ListIs ==
  doc # Nil =>
    /\ \A h \in list :
         /\ hl[h].doc = doc.id
         /\ h \in live \/ Deleting(requests, h) \/ Dropping(requests, doc.id)
    /\ \A h \in live : hl[h].doc = doc.id => h \in list \/ Coming(requests, h)
    /\ ComeOnce(requests)
    /\ \A r \in Asks(requests) :
         /\ r.kind = "highlight" => r.at.doc = doc.id
         /\ IsComing(r) => r.hl \notin list /\ (r.hl \in live \/ Dropping(requests, doc.id))
         /\ r.kind = "delete" => r.hl \in list \/ r.hl \notin live

LEMMA ListIsListed ==
  /\ PdfInv /\ calm /\ ~LoadIn(requests) => ListIs
  /\ ListIs \/ ~calm \/ doc = Nil => Listed
BY DEF PdfInv, Listed, ListIs, HighlightsOf, PastIn, LoadIn

\* Calls come and go that the list does not depend on.
LEMMA QuietMove ==
  ASSUME PdfInv, NEW c, ServerTypes', Fits', requests' \in Seq(Ask), calm' \in BOOLEAN,
         UNCHANGED <<hl, live, list, doc, pdf, pages>>, sel' \in {sel, Nil},
         Asks(requests') \subseteq Asks(requests) \union {c},
         calm' => /\ calm /\ ~LoadIn(requests) /\ ~LoadIn(requests')
                  /\ ComeOnce(requests) => ComeOnce(requests')
                  /\ \A r \in Asks(requests) : r.step = "answered" /\ r.kind # "note" =>
                       \/ r \in Asks(requests')
                       \/ r.kind = "drop" /\ (doc # Nil => r.doc # doc.id)
                  /\ \/ c \in Asks(requests)
                     \/ /\ c.kind = "highlight" =>
                             ~IsComing(c) /\ doc # Nil /\ c.at.doc = doc.id /\ c.at.of = c.at.doc
                        /\ c.kind = "delete" => c.hl \in list
  PROVE  PdfInv'
<1>0. ReaderTypes /\ calm \in BOOLEAN
  BY DEF PdfInv, PdfTypes, AskTypes
<1>1. ReaderTypes' /\ AskTypes'
  BY <1>0 DEF ReaderTypes, AskTypes
<1>2. Read'
  BY ReadStays DEF PdfInv
<1>3. Alone'
  BY AloneStays
<1>4. Boxed'
  BY BoxedStays DEF pages
<1>5. ASSUME calm'
      PROVE  ListIs'
  <2>0. ListIs
    BY <1>5, ListIsListed
  <2> SUFFICES ASSUME doc # Nil
               PROVE  /\ \A h \in list :
                           /\ hl[h].doc = doc.id
                           /\ h \in live \/ Deleting(requests', h) \/ Dropping(requests', doc.id)
                      /\ \A h \in live : hl[h].doc = doc.id => h \in list \/ Coming(requests', h)
                      /\ ComeOnce(requests')
                      /\ \A r \in Asks(requests') :
                           /\ r.kind = "highlight" => r.at.doc = doc.id
                           /\ IsComing(r) => r.hl \notin list /\ (r.hl \in live \/ Dropping(requests', doc.id))
                           /\ r.kind = "delete" => r.hl \in list \/ r.hl \notin live
    BY DEF ListIs
  <2>1. \A h : Deleting(requests, h) => Deleting(requests', h)
    BY <1>5 DEF Deleting
  <2>2. \A h : Coming(requests, h) => Coming(requests', h)
    BY <1>5 DEF Coming, IsComing
  <2>3. Dropping(requests, doc.id) => Dropping(requests', doc.id)
    BY <1>5 DEF Dropping
  <2>4. /\ \A h \in list :
             hl[h].doc = doc.id /\ (h \in live \/ Deleting(requests, h) \/ Dropping(requests, doc.id))
        /\ \A h \in live : hl[h].doc = doc.id => h \in list \/ Coming(requests, h)
        /\ ComeOnce(requests)
    BY <2>0 DEF ListIs
  <2>5. ASSUME NEW r \in Asks(requests')
        PROVE  /\ r.kind = "highlight" => r.at.doc = doc.id
               /\ IsComing(r) => r.hl \notin list /\ (r.hl \in live \/ Dropping(requests', doc.id))
               /\ r.kind = "delete" => r.hl \in list \/ r.hl \notin live
    <3>1. CASE r \in Asks(requests)
      BY <2>0, <2>3, <3>1 DEF ListIs
    <3>2. CASE r \notin Asks(requests)
      <4>1. r = c
        BY <3>2
      <4> QED BY <1>5, <3>2, <4>1 DEF IsComing
    <3> QED BY <3>1, <3>2
  <2> QED BY <1>5, <2>1, <2>2, <2>3, <2>4, <2>5
<1>6. Listed'
  <2>1. ListIs' \/ ~calm' \/ doc' = Nil => Listed'
    BY DEF Listed, ListIs, HighlightsOf
  <2> QED BY <1>5, <2>1
<1> QED BY <1>1, <1>2, <1>3, <1>4, <1>6, AsksMove DEF pages

\* The selection changes, and nothing else.
LEMMA SelMoves ==
  ASSUME PdfInv, UNCHANGED <<server, pages, doc, pdf, list, requests>>, calm' => calm,
         calm' \in BOOLEAN, ReaderTypes', Read'
  PROVE  PdfInv'
<1>1. ServerTypes' /\ AskTypes'
  BY DEF PdfInv, PdfTypes, ServerTypes, AskTypes, server
<1>2. Fits'
  BY DEF PdfInv, Fits, AskFits, PinFits, server
<1>3. Alone'
  BY DEF PdfInv, Alone, HighlightsOf, server, pages
<1>4. Listed'
  BY DEF PdfInv, Listed, HighlightsOf, server
<1>5. Boxed'
  BY DEF PdfInv, Boxed, BoxesOn, server, pages
<1> QED BY <1>1, <1>2, <1>3, <1>4, <1>5, AsksMove DEF pages

LEMMA LeavingKeeps ==
  ASSUME PdfInv, Leaving
  PROVE  PdfInv'
<1>1. UNCHANGED <<server, pages, doc, pdf, list, requests, calm>> /\ sel' = Nil
  BY DEF Leaving, ClosePdfReader, Deselect
<1>2. ReaderTypes'
  BY <1>1 DEF PdfInv, PdfTypes, ReaderTypes, server
<1>3. Read'
  BY <1>1 DEF PdfInv, Read, server
<1> QED BY <1>1, <1>2, <1>3, SelMoves DEF PdfInv, PdfTypes, AskTypes

LEMMA SelectKeeps ==
  ASSUME PdfInv, NEW p \in Page, Select(p)
  PROVE  PdfInv'
<1>0. ReaderTypes /\ PageTypes /\ AskTypes
  BY DEF PdfInv, PdfTypes
<1>1. PICK d : d = stage[p].drawn
  OBVIOUS
<1>2. PICK o : o = IF doc = Nil THEN Nil ELSE doc.id
  OBVIOUS
<1>3. /\ p \in DOMAIN stage /\ d # <<>> /\ calm' = (calm /\ ~Loading)
      /\ sel' = [doc |-> o, page |-> p, of |-> d[1]]
      /\ UNCHANGED <<server, pages, doc, pdf, list, requests>>
  BY <1>1, <1>2 DEF Select
<1>4. d[1] \in Doc
  <2>1. stage[p] \in Sheet
    BY <1>0, <1>3 DEF PageTypes
  <2>2. d \in Doc \X Nat
    BY <1>1, <1>3, <2>1 DEF Sheet
  <2> QED BY <2>2
<1>5. o \in Doc \union {Nil}
  BY <1>0, <1>2 DEF ReaderTypes
<1>6. ReaderTypes'
  BY <1>0, <1>3, <1>4, <1>5 DEF ReaderTypes, server
<1>7. calm' => calm /\ ~LoadIn(requests)
  BY <1>3, LoadingIn
<1>8. Read'
  <2> SUFFICES ASSUME calm', o # Nil PROVE d[1] = o
    BY <1>3, <1>7 DEF PdfInv, Read, server
  <2>1. doc # Nil /\ o = doc.id
    BY <1>2
  <2>2. ~PastIn(requests)
    BY <1>7 DEF PastIn, LoadIn
  <2>3. pdf = o
    BY <1>7, <2>1, <2>2 DEF PdfInv, Alone
  <2>4. d[1] = pdf
    BY <1>1, <1>3, <1>7, <2>3 DEF PdfInv, Staged
  <2> QED BY <2>3, <2>4
<1> QED BY <1>0, <1>3, <1>6, <1>7, <1>8, SelMoves DEF AskTypes

\* No load comes by any other call.
LEMMA NoneCome ==
  ASSUME ~LoadIn(requests), NEW c, Asks(requests') \subseteq Asks(requests) \union {c},
         c.kind # "load" \/ c \in Asks(requests)
  PROVE  ~LoadIn(requests')
BY DEF LoadIn

\* A new request that is not yet answered.
LEMMA SentKeeps ==
  ASSUME PdfInv, NEW c \in Ask, c.kind # "load", ~IsComing(c), AskFits(c),
         requests' = Append(requests, c), calm' \in BOOLEAN,
         UNCHANGED <<server, pages, doc, pdf, list, sel>>,
         calm' => /\ calm /\ ~LoadIn(requests)
                  /\ c.kind = "highlight" => doc # Nil /\ c.at.doc = doc.id /\ c.at.of = c.at.doc
                  /\ c.kind = "delete" => c.hl \in list
  PROVE  PdfInv'
<1>0. ServerTypes /\ AskTypes
  BY DEF PdfInv, PdfTypes
<1>1. AfterAdded(requests', requests, c)
  BY <1>0, AskAdded DEF AskTypes
<1>2. /\ requests' \in Seq(Ask) /\ Asks(requests') = Asks(requests) \union {c}
      /\ ComeOnce(requests) => ComeOnce(requests')
  BY <1>1 DEF AfterAdded
<1>3. ServerTypes'
  BY <1>0 DEF ServerTypes, server
<1>4. AskFits(c)'
  BY DEF AskFits, PinFits, server
<1>5. Fits'
  BY <1>2, <1>4, FitsStay DEF PdfInv, server
<1>6. ~LoadIn(requests) => ~LoadIn(requests')
  BY <1>2, NoneCome
<1> QED BY <1>2, <1>3, <1>5, <1>6, QuietMove DEF server

\* A request that ends, with an answer that changes nothing here.
LEMMA EndedQuietly ==
  ASSUME PdfInv, NEW i \in DOMAIN requests, requests[i].kind # "load",
         requests' = RemoveAt(requests, i), ServerTypes', UNCHANGED <<hl, live, notes>>,
         UNCHANGED <<pages, doc, pdf, list, calm>>, sel' \in {sel, Nil},
         \/ requests[i].step = "sent"
         \/ requests[i].kind = "note"
         \/ requests[i].kind = "drop" /\ (doc # Nil => requests[i].doc # doc.id)
  PROVE  PdfInv'
<1>0. AskTypes
  BY DEF PdfInv, PdfTypes
<1>1. PICK r : r = requests[i]
  OBVIOUS
<1>2. AfterRemoved(requests', requests, i)
  BY <1>0, AskRemoved DEF AskTypes
<1>3. /\ requests' \in Seq(Ask) /\ Asks(requests') \subseteq Asks(requests)
      /\ Asks(requests) \ {r} \subseteq Asks(requests')
      /\ ComeOnce(requests) => ComeOnce(requests')
  BY <1>1, <1>2 DEF AfterRemoved
<1>4. r \in Asks(requests) /\ AskFits(r)
  BY <1>1, AskAt
<1>5. Fits'
  <2>1. AskFits(r)'
    BY <1>4 DEF AskFits, PinFits
  <2> QED BY <1>3, <2>1, FitsStay DEF PdfInv
<1>6. calm => ~LoadIn(requests)
  BY NoLoad
<1>7. ~LoadIn(requests) => ~LoadIn(requests')
  BY <1>3, <1>4, NoneCome
<1>8. \A q \in Asks(requests) : q.step = "answered" /\ q.kind # "note" =>
        \/ q \in Asks(requests')
        \/ q.kind = "drop" /\ (doc # Nil => q.doc # doc.id)
  BY <1>1, <1>3
<1> QED BY <1>0, <1>3, <1>4, <1>5, <1>6, <1>7, <1>8, QuietMove DEF AskTypes

LEMMA ServePatchKeeps ==
  ASSUME PdfInv, NEW i \in DOMAIN requests, ServePatch(i)
  PROVE  PdfInv'
<1>0. ServerTypes
  BY DEF PdfInv, PdfTypes
<1>1. PICK r : r = requests[i]
  OBVIOUS
<1>2. /\ r.kind = "patch" /\ requests' = RemoveAt(requests, i)
      /\ count' = IF r.doc \in docs THEN [count EXCEPT ![r.doc] = r.count] ELSE count
      /\ UNCHANGED <<docs, hl, live, notes, pages, doc, pdf, list, sel, calm>>
  BY <1>1 DEF ServePatch, reader
<1>3. r \in PatchAsk /\ r.count = Pages[r.doc]
  <2>1. r \in Ask /\ AskFits(r)
    BY <1>1, AskAt
  <2> QED BY <1>2, <2>1, AskKinds DEF AskFits
<1>4. count' \in [Doc -> Nat] /\ \A d \in Doc : count'[d] \in {Recorded[d], Pages[d]}
  <2>1. r.doc \in Doc /\ r.count \in Nat
    BY <1>3 DEF PatchAsk
  <2> QED BY <1>0, <1>2, <1>3, <2>1 DEF ServerTypes
<1>5. ServerTypes'
  BY <1>0, <1>2, <1>4 DEF ServerTypes
<1>6. r.step = "sent"
  BY <1>3 DEF PatchAsk
<1> QED BY <1>1, <1>2, <1>5, <1>6, EndedQuietly

LEMMA CreateHighlightKeeps ==
  ASSUME PdfInv, NEW withNote \in BOOLEAN, CreateHighlight(withNote)
  PROVE  PdfInv'
<1>0. ReaderTypes /\ AskTypes
  BY DEF PdfInv, PdfTypes
<1>1. PICK c : c = [kind |-> "highlight", step |-> "sent", at |-> sel, withNote |-> withNote, hl |-> 0]
  OBVIOUS
<1>2. /\ sel # Nil /\ sel.doc # Nil /\ requests' = Append(requests, c)
      /\ calm' = (calm /\ ~Loading /\ doc # Nil /\ sel.doc = doc.id)
      /\ UNCHANGED <<server, pages, doc, pdf, list, sel>>
  BY <1>1 DEF CreateHighlight, reader
<1>3. sel \in Spot
  BY <1>0, <1>2 DEF ReaderTypes, Spot
<1>4. c \in Ask
  BY <1>1, <1>3 DEF Ask, HighlightAsk, Two
<1>5. c.kind = "highlight" /\ ~IsComing(c) /\ c.at = sel
  BY <1>1 DEF IsComing
<1>6. AskFits(c)
  BY <1>5 DEF AskFits
<1>7. calm' => /\ calm /\ ~LoadIn(requests) /\ doc # Nil
               /\ c.at.doc = doc.id /\ c.at.of = c.at.doc
  BY <1>2, <1>5, LoadingIn DEF PdfInv, Read
<1> QED BY <1>0, <1>2, <1>4, <1>5, <1>6, <1>7, SentKeeps DEF AskTypes

LEMMA DeletePdfHighlightKeeps ==
  ASSUME PdfInv, NEW h \in list, DeletePdfHighlight(h)
  PROVE  PdfInv'
<1>0. ReaderTypes /\ AskTypes /\ ServerTypes
  BY DEF PdfInv, PdfTypes
<1>1. PICK c : c = [kind |-> "delete", step |-> "sent", hl |-> h]
  OBVIOUS
<1>2. /\ requests' = Append(requests, c) /\ calm' = (calm /\ ~Loading)
      /\ UNCHANGED <<server, pages, doc, pdf, list, sel>>
  BY <1>1 DEF DeletePdfHighlight, reader
<1>3. h \in DOMAIN hl /\ h \in Nat
  BY <1>0 DEF ReaderTypes, ServerTypes
<1>4. c \in Ask
  BY <1>1, <1>3 DEF Ask, DeleteAsk, Two
<1>5. c.kind = "delete" /\ c.step = "sent" /\ c.hl = h /\ ~IsComing(c)
  BY <1>1 DEF IsComing
<1>6. AskFits(c)
  BY <1>3, <1>5 DEF AskFits
<1>7. calm' => calm /\ ~LoadIn(requests)
  BY <1>2, LoadingIn
<1> QED BY <1>0, <1>2, <1>4, <1>5, <1>6, <1>7, SentKeeps DEF AskTypes

LEMMA ConfirmDeletePdfKeeps ==
  ASSUME PdfInv, NEW d \in Doc, ConfirmDeletePdf(d)
  PROVE  PdfInv'
<1>0. AskTypes
  BY DEF PdfInv, PdfTypes
<1>1. PICK c : c = [kind |-> "drop", step |-> "sent", doc |-> d]
  OBVIOUS
<1>2. /\ requests' = Append(requests, c) /\ calm' = (calm /\ ~Drawing /\ requests = <<>>)
      /\ UNCHANGED <<server, pages, doc, pdf, list, sel>>
  BY <1>1 DEF ConfirmDeletePdf, reader
<1>3. c \in Ask
  BY <1>1 DEF Ask, DropAsk, Two
<1>4. c.kind = "drop" /\ ~IsComing(c)
  BY <1>1 DEF IsComing
<1>5. AskFits(c)
  BY <1>4 DEF AskFits
<1>6. calm' => calm /\ ~LoadIn(requests)
  BY <1>0, <1>2, AskOnly DEF LoadIn, AskTypes
<1> QED BY <1>0, <1>2, <1>3, <1>4, <1>5, <1>6, SentKeeps DEF AskTypes

\* A request is answered, with the id of a new highlight or not.
Answered(r) == [r EXCEPT !.step = "answered"]
AnsweredBy(r, h) == [r EXCEPT !.step = "answered", !.hl = h]

LEMMA AnswerIs ==
  ASSUME NEW r, NEW c, c = Answered(r)
  PROVE  /\ r \in NoteAsk => c \in NoteAsk /\ c.step = "answered" /\ c.kind = "note" /\ c.note = r.note
         /\ r \in DeleteAsk => c \in DeleteAsk /\ c.step = "answered" /\ c.kind = "delete" /\ c.hl = r.hl
         /\ r \in DropAsk => c \in DropAsk /\ c.step = "answered" /\ c.kind = "drop" /\ c.doc = r.doc
<1>1. r \in NoteAsk => c \in NoteAsk /\ c.step = "answered" /\ c.kind = "note" /\ c.note = r.note
  BY DEF NoteAsk, Two, Answered
<1>2. r \in DeleteAsk => c \in DeleteAsk /\ c.step = "answered" /\ c.kind = "delete" /\ c.hl = r.hl
  BY DEF DeleteAsk, Two, Answered
<1>3. r \in DropAsk => c \in DropAsk /\ c.step = "answered" /\ c.kind = "drop" /\ c.doc = r.doc
  BY DEF DropAsk, Two, Answered
<1> QED BY <1>1, <1>2, <1>3

LEMMA HighlightAnswerIs ==
  ASSUME NEW r \in HighlightAsk, NEW h \in Nat, NEW c, c = AnsweredBy(r, h)
  PROVE  c \in HighlightAsk /\ c.step = "answered" /\ c.kind = "highlight" /\ c.hl = h /\ c.at = r.at
BY DEF HighlightAsk, Two, AnsweredBy

LEMMA LoseKeeps ==
  ASSUME PdfInv, NEW i \in DOMAIN requests, Lose(i)
  PROVE  PdfInv'
<1>1. /\ requests' = RemoveAt(requests, i) /\ calm' = FALSE
      /\ UNCHANGED <<server, pages, doc, pdf, list, sel>>
  BY DEF Lose, reader
<1> QED BY <1>1, LoadEndsKeeps

LEMMA ServeNoteKeeps ==
  ASSUME PdfInv, NEW i \in DOMAIN requests, ServeNote(i)
  PROVE  PdfInv'
<1>0. ServerTypes /\ AskTypes
  BY DEF PdfInv, PdfTypes
<1>1. PICK r : r = requests[i]
  OBVIOUS
<1>2. PICK c : c = Answered(r)
  OBVIOUS
<1>3. /\ r.kind = "note" /\ notes' = notes \union {r.note} /\ requests' = [requests EXCEPT ![i] = c]
      /\ UNCHANGED <<docs, count, hl, live, pages, doc, pdf, list, sel, calm>>
  BY <1>1, <1>2 DEF ServeNote, reader, Answered
<1>4. r \in NoteAsk /\ PinFits(r.note) /\ r \in Asks(requests)
  <2>1. r \in Ask /\ AskFits(r) /\ r \in Asks(requests)
    BY <1>1, AskAt
  <2> QED BY <1>3, <2>1, AskKinds DEF AskFits
<1>5. c \in Ask /\ c.kind = "note" /\ c.note = r.note
  BY <1>2, <1>4, AnswerIs DEF Ask
<1>6. AfterChanged(requests', requests, i, c)
  BY <1>0, <1>3, <1>5, AskChanged DEF AskTypes
<1>7. /\ requests' \in Seq(Ask) /\ Asks(requests') \subseteq Asks(requests) \union {c}
      /\ Asks(requests) \ {r} \subseteq Asks(requests')
      /\ ComeOnce(requests) => ComeOnce(requests')
  BY <1>1, <1>5, <1>6 DEF AfterChanged, IsComing
<1>8. ServerTypes'
  <2>1. r.note \in Note
    BY <1>4 DEF NoteAsk
  <2> QED BY <1>0, <1>3, <2>1 DEF ServerTypes
<1>9. Fits'
  <2>1. \A n : PinFits(n)' <=> PinFits(n)
    BY <1>3 DEF PinFits
  <2>2. \A q \in Asks(requests') : AskFits(q)'
    <3> SUFFICES ASSUME NEW q \in Asks(requests') PROVE AskFits(q)'
      OBVIOUS
    <3>1. CASE q = c
      BY <1>4, <1>5, <2>1, <3>1 DEF AskFits, IsComing
    <3>2. CASE q \in Asks(requests)
      BY <1>3, <2>1, <3>2 DEF PdfInv, Fits, AskFits
    <3> QED BY <1>7, <3>1, <3>2
  <2> QED BY <1>3, <1>4, <2>1, <2>2 DEF PdfInv, Fits
<1>10. calm => ~LoadIn(requests)
  BY <1>1, <1>3, NoLoad
<1>11. ~LoadIn(requests) => ~LoadIn(requests')
  BY <1>5, <1>7, NoneCome
<1> QED BY <1>0, <1>3, <1>5, <1>7, <1>8, <1>9, <1>10, <1>11, QuietMove DEF AskTypes

LEMMA NoteReturnsKeeps ==
  ASSUME PdfInv, NEW i \in DOMAIN requests, NoteReturns(i)
  PROVE  PdfInv'
<1>1. /\ requests[i].kind = "note" /\ requests' = RemoveAt(requests, i) /\ sel' = Nil
      /\ UNCHANGED <<server, pages, doc, pdf, list, calm>>
  BY DEF NoteReturns
<1>2. ServerTypes'
  BY <1>1 DEF PdfInv, PdfTypes, ServerTypes, server
<1> QED BY <1>1, <1>2, EndedQuietly DEF server

\* The list stays as it is while the server or a call changes.
LEMMA ListMoves ==
  ASSUME PdfInv, UNCHANGED <<pages, doc, pdf, list, sel>>, calm' => calm /\ ~LoadIn(requests) /\ ~LoadIn(requests'),
         ServerTypes', AskTypes', Fits', Read', list \subseteq DOMAIN hl',
         \A h \in list : hl'[h].page = hl[h].page, calm' => ListIs'
  PROVE  PdfInv'
<1>1. ReaderTypes'
  BY DEF PdfInv, PdfTypes, ReaderTypes
<1>2. Alone'
  BY AloneStays
<1>3. Boxed'
  BY BoxedStays DEF pages
<1>4. Listed'
  BY DEF Listed, ListIs, HighlightsOf
<1> QED BY <1>1, <1>2, <1>3, <1>4, AsksMove DEF pages

LEMMA ServeHighlightKeeps ==
  ASSUME PdfInv, NEW i \in DOMAIN requests, ServeHighlight(i)
  PROVE  PdfInv'
<1>0. ServerTypes /\ AskTypes /\ ReaderTypes
  BY DEF PdfInv, PdfTypes
<1>1. PICK r : r = requests[i]
  OBVIOUS
<1>2. /\ r.kind = "highlight" /\ r.step = "sent"
      /\ UNCHANGED <<docs, count, notes, pages, doc, pdf, list, sel, calm>>
  BY <1>1 DEF ServeHighlight, reader
<1>3. r \in HighlightAsk /\ r.at \in Spot /\ r \in Asks(requests)
  <2>1. r \in Ask /\ r \in Asks(requests)
    BY <1>1, AskAt
  <2>2. r \in HighlightAsk
    BY <1>2, <2>1, AskKinds
  <2> QED BY <2>1, <2>2 DEF HighlightAsk
<1>4. CASE r.at.doc \notin docs
  <2>1. requests' = RemoveAt(requests, i) /\ UNCHANGED <<hl, live>>
    BY <1>1, <1>4 DEF ServeHighlight
  <2>2. ServerTypes'
    BY <1>0, <1>2, <2>1 DEF ServerTypes
  <2> QED BY <1>1, <1>2, <2>1, <2>2, EndedQuietly
<1>5. CASE r.at.doc \in docs
  <2>1. PICK n \in Nat : n = Len(hl) /\ DOMAIN hl = 1..n
    BY <1>0 DEF ServerTypes
  <2>2. PICK g : g = n + 1
    OBVIOUS
  <2>3. /\ hl' \in Seq(Spot) /\ Len(hl') = g /\ DOMAIN hl' = DOMAIN hl \union {g} /\ g \notin DOMAIN hl
        /\ hl'[g] = r.at /\ \A h \in DOMAIN hl : hl'[h] = hl[h]
    <3>1. hl' = Append(hl, r.at) /\ hl \in Seq(Spot)
      BY <1>0, <1>1, <1>5 DEF ServeHighlight, ServerTypes
    <3>2. PICK s \in Seq(Spot) : s = hl /\ Len(s) = n
      BY <2>1, <3>1
    <3>3. PICK t : t = hl'
      OBVIOUS
    <3>4. PICK e \in Spot : e = r.at
      BY <1>3
    <3>5. t = Append(s, e)
      BY <3>1, <3>2, <3>3, <3>4
    <3>6. t \in Seq(Spot) /\ Len(t) = n + 1 /\ t[n + 1] = e /\ \A h \in 1..n : t[h] = s[h]
      BY <3>2, <3>5
    <3>7. DOMAIN t = 1..n + 1
      BY <3>6
    <3>8. 1..n + 1 = 1..n \union {n + 1} /\ n + 1 \notin 1..n
      OBVIOUS
    <3> QED BY <2>1, <2>2, <3>2, <3>3, <3>4, <3>6, <3>7, <3>8
  <2>4. PICK c : c = AnsweredBy(r, g)
    OBVIOUS
  <2>5. live' = live \union {g} /\ requests' = [requests EXCEPT ![i] = c]
    <3>1. live' = live \union {Len(hl')}
      BY <1>1, <1>5 DEF ServeHighlight
    <3>2. requests' = [requests EXCEPT ![i] = AnsweredBy(r, Len(hl'))]
      BY <1>1, <1>5 DEF ServeHighlight, AnsweredBy
    <3> QED BY <2>3, <2>4, <3>1, <3>2
  <2>6. /\ c \in Ask /\ c.kind = "highlight" /\ IsComing(c) /\ c.hl = g /\ c.at = r.at
    <3>1. g \in Nat
      BY <2>2
    <3>2. c \in HighlightAsk /\ c.step = "answered" /\ c.kind = "highlight" /\ c.hl = g /\ c.at = r.at
      BY <1>3, <2>4, <3>1, HighlightAnswerIs
    <3> QED BY <3>2 DEF Ask, IsComing
  <2>7. AfterChanged(requests', requests, i, c)
    BY <1>0, <2>5, <2>6, AskChanged DEF AskTypes
  <2>8. /\ requests' \in Seq(Ask) /\ Asks(requests') \subseteq Asks(requests) \union {c}
        /\ c \in Asks(requests') /\ Asks(requests) \ {r} \subseteq Asks(requests')
        /\ ComeOnce(requests) /\ ~Coming(requests, g) => ComeOnce(requests')
    BY <1>1, <2>6, <2>7 DEF AfterChanged
  <2>9. ServerTypes'
    BY <1>0, <1>2, <1>3, <1>5, <2>3, <2>5 DEF ServerTypes
  <2>10. /\ \A m \in notes : PinFits(m) /\ m.hl \in DOMAIN hl
         /\ \A q \in Asks(requests) : AskFits(q)
    BY DEF PdfInv, Fits, PinFits
  <2>11. \A m : PinFits(m) => PinFits(m)'
    BY <2>3 DEF PinFits
  <2>12. Fits'
    <3>1. ASSUME NEW q \in Asks(requests')
          PROVE  AskFits(q)'
      <4>1. CASE q = c
        BY <2>3, <2>6, <4>1 DEF AskFits, IsComing
      <4>2. CASE q \in Asks(requests)
        <5>1. AskFits(q)
          BY <2>10, <4>2
        <5> QED BY <2>3, <2>5, <2>11, <5>1 DEF AskFits
      <4> QED BY <2>8, <3>1, <4>1, <4>2
    <3> QED BY <1>2, <2>10, <2>11, <3>1 DEF Fits
  <2>13. Read'
    <3> SUFFICES ASSUME calm'
                 PROVE  /\ \A h \in DOMAIN hl' : hl'[h].of = hl'[h].doc
                        /\ \A q \in Asks(requests') : q.kind = "highlight" => q.at.of = q.at.doc
                        /\ sel' # Nil /\ sel'.doc # Nil => sel'.of = sel'.doc
      BY DEF Read
    <3>1. /\ \A h \in DOMAIN hl : hl[h].of = hl[h].doc
          /\ \A q \in Asks(requests) : q.kind = "highlight" => q.at.of = q.at.doc
          /\ sel # Nil /\ sel.doc # Nil => sel.of = sel.doc
      BY <1>2 DEF PdfInv, Read
    <3>2. r.at.of = r.at.doc
      BY <1>2, <1>3, <3>1
    <3> QED BY <1>2, <2>3, <2>6, <2>8, <3>1, <3>2
  <2>14. calm' => calm /\ ~LoadIn(requests)
    BY <1>1, <1>2, NoLoad
  <2>15. ~LoadIn(requests) => ~LoadIn(requests')
    BY <2>6, <2>8, NoneCome
  <2>16. ASSUME calm'
         PROVE  ListIs'
    <3>0. ListIs
      BY <2>14, <2>16, ListIsListed
    <3> SUFFICES ASSUME doc # Nil
                 PROVE  /\ \A h \in list :
                             /\ hl'[h].doc = doc.id
                             /\ h \in live' \/ Deleting(requests', h) \/ Dropping(requests', doc.id)
                        /\ \A h \in live' : hl'[h].doc = doc.id => h \in list \/ Coming(requests', h)
                        /\ ComeOnce(requests')
                        /\ \A q \in Asks(requests') :
                             /\ q.kind = "highlight" => q.at.doc = doc.id
                             /\ IsComing(q) => q.hl \notin list /\ (q.hl \in live' \/ Dropping(requests', doc.id))
                             /\ q.kind = "delete" => q.hl \in list \/ q.hl \notin live'
      BY <1>2 DEF ListIs
    <3>1. \A h : Deleting(requests, h) => Deleting(requests', h)
      BY <1>2, <2>8 DEF Deleting
    <3>2. \A h : Coming(requests, h) => Coming(requests', h)
      BY <1>2, <2>8 DEF Coming, IsComing
    <3>3. Dropping(requests, doc.id) => Dropping(requests', doc.id)
      BY <1>2, <2>8 DEF Dropping
    <3>4. Coming(requests', g)
      BY <2>6, <2>8 DEF Coming
    <3>5. list \subseteq DOMAIN hl /\ live \subseteq DOMAIN hl
      BY <1>0 DEF ReaderTypes, ServerTypes
    <3>6. ~Coming(requests, g)
      BY <2>3, <2>10 DEF Coming, AskFits
    <3>7. /\ \A h \in list :
               hl[h].doc = doc.id /\ (h \in live \/ Deleting(requests, h) \/ Dropping(requests, doc.id))
          /\ \A h \in live : hl[h].doc = doc.id => h \in list \/ Coming(requests, h)
          /\ ComeOnce(requests)
          /\ \A q \in Asks(requests) :
               /\ q.kind = "highlight" => q.at.doc = doc.id
               /\ IsComing(q) => q.hl \notin list /\ (q.hl \in live \/ Dropping(requests, doc.id))
               /\ q.kind = "delete" => q.hl \in list \/ q.hl \notin live
      BY <3>0 DEF ListIs
    <3>8. ASSUME NEW q \in Asks(requests')
          PROVE  /\ q.kind = "highlight" => q.at.doc = doc.id
                 /\ IsComing(q) => q.hl \notin list /\ (q.hl \in live' \/ Dropping(requests', doc.id))
                 /\ q.kind = "delete" => q.hl \in list \/ q.hl \notin live'
      <4>1. CASE q = c
        <5>1. r.at.doc = doc.id
          BY <1>2, <1>3, <3>7
        <5> QED BY <2>3, <2>5, <2>6, <3>5, <4>1, <5>1
      <4>2. CASE q \in Asks(requests)
        <5>1. q.kind = "delete" => q.hl \in DOMAIN hl
          BY <2>10, <4>2 DEF AskFits
        <5> QED BY <2>3, <2>5, <3>3, <3>7, <4>2, <5>1
      <4> QED BY <2>8, <3>8, <4>1, <4>2
    <3>9. \A h \in list :
            /\ hl'[h].doc = doc.id
            /\ h \in live' \/ Deleting(requests', h) \/ Dropping(requests', doc.id)
      BY <2>3, <2>5, <3>1, <3>3, <3>5, <3>7
    <3>10. \A h \in live' : hl'[h].doc = doc.id => h \in list \/ Coming(requests', h)
      BY <2>3, <2>5, <3>2, <3>4, <3>5, <3>7
    <3> QED BY <2>8, <3>6, <3>7, <3>8, <3>9, <3>10
  <2>17. AskTypes' /\ list \subseteq DOMAIN hl' /\ \A h \in list : hl'[h].page = hl[h].page
    BY <1>0, <1>2, <2>3, <2>8 DEF AskTypes, ReaderTypes
  <2> QED BY <1>2, <2>9, <2>12, <2>13, <2>14, <2>15, <2>16, <2>17, ListMoves
<1> QED BY <1>4, <1>5

LEMMA ServeDeleteKeeps ==
  ASSUME PdfInv, NEW i \in DOMAIN requests, ServeDelete(i)
  PROVE  PdfInv'
<1>0. ServerTypes /\ AskTypes /\ ReaderTypes
  BY DEF PdfInv, PdfTypes
<1>1. PICK r : r = requests[i]
  OBVIOUS
<1>2. /\ r.kind = "delete" /\ r.step = "sent" /\ live' = live \ {r.hl}
      /\ UNCHANGED <<docs, count, hl, notes, pages, doc, pdf, list, sel, calm>>
  BY <1>1 DEF ServeDelete, reader
<1>3. r \in DeleteAsk /\ r \in Asks(requests) /\ r.hl \in DOMAIN hl
  <2>1. r \in Ask /\ r \in Asks(requests) /\ AskFits(r)
    BY <1>1, AskAt
  <2>2. r \in DeleteAsk
    BY <1>2, <2>1, AskKinds
  <2> QED BY <1>2, <2>1, <2>2 DEF AskFits
<1>4. ServerTypes'
  BY <1>0, <1>2 DEF ServerTypes
<1>5. CASE r.hl \notin live
  <2>1. requests' = RemoveAt(requests, i) /\ live' = live
    BY <1>1, <1>2, <1>5 DEF ServeDelete
  <2> QED BY <1>1, <1>2, <1>4, <2>1, EndedQuietly
<1>6. CASE r.hl \in live
  <2>1. PICK c : c = Answered(r)
    OBVIOUS
  <2>2. requests' = [requests EXCEPT ![i] = c]
    BY <1>1, <1>6, <2>1 DEF ServeDelete, Answered
  <2>3. c \in Ask /\ c.kind = "delete" /\ c.step = "answered" /\ c.hl = r.hl
    BY <1>3, <2>1, AnswerIs DEF Ask
  <2>4. AfterChanged(requests', requests, i, c)
    BY <1>0, <2>2, <2>3, AskChanged DEF AskTypes
  <2>5. /\ requests' \in Seq(Ask) /\ Asks(requests') \subseteq Asks(requests) \union {c}
        /\ c \in Asks(requests') /\ Asks(requests) \ {r} \subseteq Asks(requests')
        /\ ComeOnce(requests) => ComeOnce(requests')
    BY <1>1, <2>3, <2>4 DEF AfterChanged, IsComing
  <2>6. Fits'
    <3>1. AskFits(c)'
      BY <1>2, <1>3, <2>3 DEF AskFits, IsComing
    <3> QED BY <1>2, <2>5, <3>1, FitsStay DEF PdfInv
  <2>7. Read'
    BY <1>2, <2>3, <2>5, ReadStays DEF PdfInv
  <2>8. calm' => calm /\ ~LoadIn(requests)
    BY <1>1, <1>2, NoLoad
  <2>9. ~LoadIn(requests) => ~LoadIn(requests')
    BY <2>3, <2>5, NoneCome
  <2>10. ASSUME calm'
         PROVE  ListIs'
    <3>0. ListIs
      BY <2>8, <2>10, ListIsListed
    <3> SUFFICES ASSUME doc # Nil
                 PROVE  /\ \A h \in list :
                             /\ hl[h].doc = doc.id
                             /\ h \in live' \/ Deleting(requests', h) \/ Dropping(requests', doc.id)
                        /\ \A h \in live' : hl[h].doc = doc.id => h \in list \/ Coming(requests', h)
                        /\ ComeOnce(requests')
                        /\ \A q \in Asks(requests') :
                             /\ q.kind = "highlight" => q.at.doc = doc.id
                             /\ IsComing(q) => q.hl \notin list /\ (q.hl \in live' \/ Dropping(requests', doc.id))
                             /\ q.kind = "delete" => q.hl \in list \/ q.hl \notin live'
      BY <1>2 DEF ListIs
    <3>1. \A h : Deleting(requests, h) => Deleting(requests', h)
      BY <1>2, <2>5 DEF Deleting
    <3>2. \A h : Coming(requests, h) => Coming(requests', h)
      BY <1>2, <2>5 DEF Coming, IsComing
    <3>3. Dropping(requests, doc.id) => Dropping(requests', doc.id)
      BY <1>2, <2>5 DEF Dropping
    <3>4. Deleting(requests', r.hl)
      BY <2>3, <2>5 DEF Deleting
    <3>5. /\ \A h \in list :
               hl[h].doc = doc.id /\ (h \in live \/ Deleting(requests, h) \/ Dropping(requests, doc.id))
          /\ \A h \in live : hl[h].doc = doc.id => h \in list \/ Coming(requests, h)
          /\ ComeOnce(requests)
          /\ \A q \in Asks(requests) :
               /\ q.kind = "highlight" => q.at.doc = doc.id
               /\ IsComing(q) => q.hl \notin list /\ (q.hl \in live \/ Dropping(requests, doc.id))
               /\ q.kind = "delete" => q.hl \in list \/ q.hl \notin live
      BY <3>0 DEF ListIs
    <3>6. r.hl \in list
      BY <1>2, <1>3, <1>6, <3>5
    <3>7. ASSUME NEW q \in Asks(requests')
          PROVE  /\ q.kind = "highlight" => q.at.doc = doc.id
                 /\ IsComing(q) => q.hl \notin list /\ (q.hl \in live' \/ Dropping(requests', doc.id))
                 /\ q.kind = "delete" => q.hl \in list \/ q.hl \notin live'
      <4>1. CASE q = c
        BY <2>3, <3>6, <4>1 DEF IsComing
      <4>2. CASE q \in Asks(requests)
        BY <1>2, <3>3, <3>5, <3>6, <4>2
      <4> QED BY <2>5, <3>7, <4>1, <4>2
    <3> QED BY <1>2, <2>5, <3>1, <3>2, <3>3, <3>4, <3>5, <3>7
  <2>11. AskTypes' /\ list \subseteq DOMAIN hl'
    BY <1>0, <1>2, <2>5 DEF AskTypes, ReaderTypes
  <2> QED BY <1>2, <1>4, <2>6, <2>7, <2>8, <2>9, <2>10, <2>11, ListMoves
<1> QED BY <1>5, <1>6

LEMMA ServeDropKeeps ==
  ASSUME PdfInv, NEW i \in DOMAIN requests, ServeDrop(i)
  PROVE  PdfInv'
<1>0. ServerTypes /\ AskTypes /\ ReaderTypes
  BY DEF PdfInv, PdfTypes
<1>1. PICK r : r = requests[i]
  OBVIOUS
<1>2. PICK d : d = r.doc
  OBVIOUS
<1>3. /\ r.kind = "drop" /\ r.step = "sent" /\ docs' = docs \ {d}
      /\ live' = {h \in live : hl[h].doc # d}
      /\ UNCHANGED <<count, hl, notes, pages, doc, pdf, list, sel, calm>>
  BY <1>1, <1>2 DEF ServeDrop, reader, HighlightsOf
<1>4. r \in DropAsk /\ r \in Asks(requests)
  <2>1. r \in Ask /\ r \in Asks(requests)
    BY <1>1, AskAt
  <2> QED BY <1>3, <2>1, AskKinds
<1>5. ServerTypes'
  BY <1>0, <1>3 DEF ServerTypes
<1>6. CASE d \notin docs
  <2>1. requests' = RemoveAt(requests, i)
    BY <1>1, <1>2, <1>6 DEF ServeDrop
  <2>2. live' = live
    BY <1>0, <1>3, <1>6 DEF ServerTypes
  <2> QED BY <1>1, <1>3, <1>5, <2>1, <2>2, EndedQuietly
<1>7. CASE d \in docs
  <2>1. PICK c : c = Answered(r)
    OBVIOUS
  <2>2. requests' = [requests EXCEPT ![i] = c]
    BY <1>1, <1>2, <1>7, <2>1 DEF ServeDrop, Answered
  <2>3. c \in Ask /\ c.kind = "drop" /\ c.step = "answered" /\ c.doc = d
    BY <1>2, <1>4, <2>1, AnswerIs DEF Ask
  <2>4. AfterChanged(requests', requests, i, c)
    BY <1>0, <2>2, <2>3, AskChanged DEF AskTypes
  <2>5. /\ requests' \in Seq(Ask) /\ Asks(requests') \subseteq Asks(requests) \union {c}
        /\ c \in Asks(requests') /\ Asks(requests) \ {r} \subseteq Asks(requests')
        /\ ComeOnce(requests) => ComeOnce(requests')
    BY <1>1, <2>3, <2>4 DEF AfterChanged, IsComing
  <2>6. Fits'
    <3>1. AskFits(c)'
      BY <2>3 DEF AskFits, IsComing
    <3> QED BY <1>3, <2>5, <3>1, FitsStay DEF PdfInv
  <2>7. Read'
    BY <1>3, <2>3, <2>5, ReadStays DEF PdfInv
  <2>8. calm' => calm /\ ~LoadIn(requests)
    BY <1>1, <1>3, NoLoad
  <2>9. ~LoadIn(requests) => ~LoadIn(requests')
    BY <2>3, <2>5, NoneCome
  <2>10. ASSUME calm'
         PROVE  ListIs'
    <3>0. ListIs
      BY <2>8, <2>10, ListIsListed
    <3> SUFFICES ASSUME doc # Nil
                 PROVE  /\ \A h \in list :
                             /\ hl[h].doc = doc.id
                             /\ h \in live' \/ Deleting(requests', h) \/ Dropping(requests', doc.id)
                        /\ \A h \in live' : hl[h].doc = doc.id => h \in list \/ Coming(requests', h)
                        /\ ComeOnce(requests')
                        /\ \A q \in Asks(requests') :
                             /\ q.kind = "highlight" => q.at.doc = doc.id
                             /\ IsComing(q) => q.hl \notin list /\ (q.hl \in live' \/ Dropping(requests', doc.id))
                             /\ q.kind = "delete" => q.hl \in list \/ q.hl \notin live'
      BY <1>3 DEF ListIs
    <3>1. \A h : Deleting(requests, h) => Deleting(requests', h)
      BY <1>3, <2>5 DEF Deleting
    <3>2. \A h : Coming(requests, h) => Coming(requests', h)
      BY <1>3, <2>5 DEF Coming, IsComing
    <3>3. Dropping(requests, doc.id) => Dropping(requests', doc.id)
      BY <1>3, <2>5 DEF Dropping
    <3>4. Dropping(requests', d)
      BY <2>3, <2>5 DEF Dropping
    <3>5. /\ \A h \in list :
               hl[h].doc = doc.id /\ (h \in live \/ Deleting(requests, h) \/ Dropping(requests, doc.id))
          /\ \A h \in live : hl[h].doc = doc.id => h \in list \/ Coming(requests, h)
          /\ ComeOnce(requests)
          /\ \A q \in Asks(requests) :
               /\ q.kind = "highlight" => q.at.doc = doc.id
               /\ IsComing(q) => q.hl \notin list /\ (q.hl \in live \/ Dropping(requests, doc.id))
               /\ q.kind = "delete" => q.hl \in list \/ q.hl \notin live
      BY <3>0 DEF ListIs
    <3>6. \A h \in live : hl[h].doc = doc.id => h \in live' \/ Dropping(requests', doc.id)
      BY <1>3, <3>4
    <3>7. ASSUME NEW q \in Asks(requests')
          PROVE  /\ q.kind = "highlight" => q.at.doc = doc.id
                 /\ IsComing(q) => q.hl \notin list /\ (q.hl \in live' \/ Dropping(requests', doc.id))
                 /\ q.kind = "delete" => q.hl \in list \/ q.hl \notin live'
      <4>1. CASE q = c
        BY <2>3, <4>1 DEF IsComing
      <4>2. CASE q \in Asks(requests)
        <5>1. IsComing(q) => hl[q.hl].doc = doc.id
          BY <3>5, <4>2 DEF PdfInv, Fits, AskFits, IsComing
        <5> QED BY <1>3, <3>3, <3>5, <3>6, <4>2, <5>1
      <4> QED BY <2>5, <3>7, <4>1, <4>2
    <3>8. \A h \in list : /\ hl[h].doc = doc.id
                          /\ h \in live' \/ Deleting(requests', h) \/ Dropping(requests', doc.id)
      BY <3>1, <3>3, <3>5, <3>6
    <3>9. \A h \in live' : hl[h].doc = doc.id => h \in list \/ Coming(requests', h)
      BY <1>3, <3>2, <3>5
    <3> QED BY <2>5, <3>5, <3>7, <3>8, <3>9
  <2>11. AskTypes' /\ list \subseteq DOMAIN hl'
    BY <1>0, <1>3, <2>5 DEF AskTypes, ReaderTypes
  <2> QED BY <1>3, <1>5, <2>6, <2>7, <2>8, <2>9, <2>10, <2>11, ListMoves
<1> QED BY <1>6, <1>7

LEMMA DropReturnsKeeps ==
  ASSUME PdfInv, NEW i \in DOMAIN requests, DropReturns(i)
  PROVE  PdfInv'
<1>0. ServerTypes /\ AskTypes /\ ReaderTypes
  BY DEF PdfInv, PdfTypes
<1>1. PICK r : r = requests[i]
  OBVIOUS
<1>2. /\ r.kind = "drop" /\ r.step = "answered" /\ requests' = RemoveAt(requests, i)
      /\ UNCHANGED <<server, pages, list, calm>>
  BY <1>1 DEF DropReturns
<1>3. ServerTypes'
  BY <1>0, <1>2 DEF ServerTypes, server
<1>4. CASE doc # Nil /\ doc.id = r.doc
  <2>1. doc' = Nil /\ pdf' = Nil /\ sel' = Nil
    BY <1>1, <1>4 DEF DropReturns
  <2>2. AfterRemoved(requests', requests, i)
    BY <1>0, <1>2, AskRemoved DEF AskTypes
  <2>3. requests' \in Seq(Ask) /\ Asks(requests') \subseteq Asks(requests)
    BY <2>2 DEF AfterRemoved
  <2>4. ReaderTypes' /\ AskTypes'
    BY <1>0, <1>2, <2>1, <2>3 DEF ReaderTypes, AskTypes, server
  <2>5. r \in Asks(requests) /\ AskFits(r)
    BY <1>1, AskAt
  <2>6. Fits'
    <3>1. AskFits(r)'
      BY <1>2, <2>5 DEF AskFits, PinFits, server
    <3> QED BY <1>2, <2>3, <3>1, FitsStay DEF PdfInv, server
  <2>7. Read'
    BY <1>2, <2>1, <2>3, <2>5, ReadStays DEF PdfInv, server
  <2>8. calm => ~LoadIn(requests')
    <3>1. calm => ~LoadIn(requests)
      BY <1>1, <1>2, NoLoad
    <3> QED BY <1>2, <2>3, <2>5, <3>1, NoneCome
  <2>9. Alone'
    BY <1>2, <2>1, <2>8 DEF Alone, LoadIn
  <2>10. Listed' /\ Boxed'
    BY <2>1 DEF Listed, Boxed
  <2> QED BY <1>2, <1>3, <2>1, <2>4, <2>6, <2>7, <2>9, <2>10, AsksMove DEF pages
<1>5. CASE ~ (doc # Nil /\ doc.id = r.doc)
  <2>1. UNCHANGED <<doc, pdf, sel>>
    BY <1>1, <1>5 DEF DropReturns
  <2> QED BY <1>1, <1>2, <1>3, <1>5, <2>1, EndedQuietly DEF server
<1> QED BY <1>4, <1>5

\* The list and the boxes change together.
LEMMA BoxesMove ==
  ASSUME PdfInv, UNCHANGED <<server, rendered, rendering, renders, scale, doc, pdf, calm>>,
         sel' \in {sel, Nil}, list' \subseteq DOMAIN hl, requests' \in Seq(Ask),
         stage' \in Seq(Sheet), DOMAIN stage' = DOMAIN stage,
         \A p \in DOMAIN stage : stage'[p].drawn = stage[p].drawn,
         Fits', Read', calm => ~LoadIn(requests) /\ ~LoadIn(requests'), calm => ListIs',
         calm /\ doc # Nil => \A p \in rendered \intersect DOMAIN stage : stage'[p].boxes = BoxesOn(p, list)'
  PROVE  PdfInv'
<1>0. PdfTypes /\ ServerTypes /\ ReaderTypes /\ AskTypes /\ PageTypes
  BY DEF PdfInv, PdfTypes
<1>1. PageTypes' /\ Running' /\ Drawn' /\ Staged'
  BY <1>0, PagesStay DEF PdfInv
<1>2. ServerTypes' /\ ReaderTypes' /\ AskTypes'
  BY <1>0 DEF ServerTypes, ReaderTypes, AskTypes, server
<1>3. Alone'
  BY AloneStays
<1>4. Listed'
  BY DEF Listed, ListIs, HighlightsOf
<1>5. Boxed'
  BY DEF Boxed
<1> QED BY <1>1, <1>2, <1>3, <1>4, <1>5 DEF PdfInv, PdfTypes

\* The boxes of a page are those of a list; a box is taken off all pages.
WithBoxes(s, p, b) == IF p \in DOMAIN s THEN [s EXCEPT ![p].boxes = b] ELSE s
Unboxed(s, h) == [p \in DOMAIN s |-> [s[p] EXCEPT !.boxes = @ \ {h}]]

LEMMA BoxedOnIs ==
  ASSUME NEW s \in Seq(Sheet), NEW p \in Nat, NEW b \in SUBSET Nat,
         NEW t, t = WithBoxes(s, p, b)
  PROVE  /\ t \in Seq(Sheet) /\ DOMAIN t = DOMAIN s
         /\ p \in DOMAIN s => t[p].boxes = b
         /\ \A q \in DOMAIN s \ {p} : t[q] = s[q]
         /\ \A q \in DOMAIN s : t[q].drawn = s[q].drawn
<1>1. CASE p \in DOMAIN s
  <2>1. PICK e : e = [s[p] EXCEPT !.boxes = b]
    OBVIOUS
  <2>2. s[p] \in Sheet
    BY <1>1
  <2>3. e \in Sheet /\ e.boxes = b /\ e.drawn = s[p].drawn
    BY <2>1, <2>2 DEF Sheet
  <2>4. t = [s EXCEPT ![p] = e]
    BY <1>1, <2>1 DEF WithBoxes
  <2>5. t \in Seq(Sheet) /\ DOMAIN t = DOMAIN s /\ t[p] = e /\ \A q \in DOMAIN s \ {p} : t[q] = s[q]
    BY <1>1, <2>3, <2>4, ElementReplaced
  <2> QED BY <2>3, <2>5
<1>2. CASE p \notin DOMAIN s
  BY <1>2 DEF WithBoxes
<1> QED BY <1>1, <1>2

LEMMA UnboxedIs ==
  ASSUME NEW s \in Seq(Sheet), NEW h,
         NEW t, t = Unboxed(s, h)
  PROVE  /\ t \in Seq(Sheet) /\ DOMAIN t = DOMAIN s
         /\ \A q \in DOMAIN s : t[q].drawn = s[q].drawn /\ t[q].boxes = s[q].boxes \ {h}
<1>1. PICK n \in Nat : n = Len(s) /\ DOMAIN s = 1..n
  OBVIOUS
<1>2. ASSUME NEW p \in 1..n
      PROVE  t[p] \in Sheet /\ t[p].drawn = s[p].drawn /\ t[p].boxes = s[p].boxes \ {h}
  <2>1. s[p] \in Sheet
    BY <1>1
  <2>2. PICK b \in SUBSET Nat : b = s[p].boxes \ {h}
    BY <2>1 DEF Sheet
  <2>3. t[p] = [s[p] EXCEPT !.boxes = b]
    BY <1>1, <2>2 DEF Unboxed
  <2> QED BY <2>1, <2>2, <2>3 DEF Sheet
<1>3. DOMAIN t = 1..n /\ t = [p \in 1..n |-> t[p]]
  BY <1>1 DEF Unboxed
<1>4. t \in [1..n -> Sheet]
  BY <1>2, <1>3
<1>5. t \in Seq(Sheet)
  BY <1>4
<1> QED BY <1>1, <1>2, <1>3, <1>5

LEMMA HighlightReturnsKeeps ==
  ASSUME PdfInv, NEW i \in DOMAIN requests, HighlightReturns(i)
  PROVE  PdfInv'
<1>0. ServerTypes /\ AskTypes /\ ReaderTypes /\ PageTypes
  BY DEF PdfInv, PdfTypes
<1>1. PICK r : r = requests[i]
  OBVIOUS
<1>2. PICK rest : rest = RemoveAt(requests, i)
  OBVIOUS
<1>3. PICK c : c = [kind |-> "note", step |-> "sent", note |-> Pinned(r)]
  OBVIOUS
<1>4. /\ r.kind = "highlight" /\ r.step = "answered" /\ list' = list \union {r.hl}
      /\ stage' = BoxedOn(r.at.page, list')
      /\ requests' \in {rest, Append(rest, c)} /\ sel' \in {sel, Nil}
      /\ UNCHANGED <<server, rendered, rendering, renders, scale, doc, pdf, calm>>
  BY <1>1, <1>2, <1>3 DEF HighlightReturns
<1>5. /\ r \in HighlightAsk /\ r \in Asks(requests) /\ AskFits(r) /\ IsComing(r)
      /\ r.hl \in DOMAIN hl /\ hl[r.hl] = r.at /\ r.at \in Spot
  <2>1. r \in Ask /\ r \in Asks(requests) /\ AskFits(r) /\ IsComing(r)
    BY <1>1, <1>4, AskAt DEF IsComing
  <2>2. r \in HighlightAsk
    BY <1>4, <2>1, AskKinds
  <2> QED BY <2>1, <2>2 DEF HighlightAsk, AskFits
<1>6. c \in Ask /\ c.kind = "note" /\ ~IsComing(c) /\ PinFits(c.note)
  <2>1. PICK m : m = Pinned(r)
    OBVIOUS
  <2>2. m = [doc |-> r.at.doc, page |-> r.at.page, hl |-> r.hl, of |-> r.at.of]
    BY <2>1 DEF Pinned, Pin
  <2>3. r.at.doc \in Doc /\ r.at.page \in Page /\ r.at.of \in Doc /\ r.hl \in Nat
    BY <1>5 DEF Spot, HighlightAsk
  <2>4. m \in Note
    BY <2>2, <2>3 DEF Note
  <2>5. c \in NoteAsk /\ c.kind = "note" /\ c.note = m
    BY <1>3, <2>1, <2>4 DEF NoteAsk, Two
  <2>6. r.at = [doc |-> r.at.doc, page |-> r.at.page, of |-> r.at.of]
    BY <1>5 DEF Spot
  <2>7. PinFits(m)
    BY <1>5, <2>2, <2>6 DEF PinFits
  <2> QED BY <2>5, <2>7 DEF Ask, IsComing
<1>7. AfterRemoved(rest, requests, i)
  BY <1>0, <1>2, AskRemoved DEF AskTypes
<1>8. /\ rest \in Seq(Ask) /\ Asks(rest) \subseteq Asks(requests)
      /\ Asks(requests) \ {r} \subseteq Asks(rest)
      /\ ComeOnce(requests) => ComeOnce(rest) /\ ~Coming(rest, r.hl)
  BY <1>1, <1>5, <1>7 DEF AfterRemoved
<1>9. /\ requests' \in Seq(Ask) /\ Asks(requests') \subseteq Asks(rest) \union {c}
      /\ Asks(requests) \ {r} \subseteq Asks(requests')
      /\ ComeOnce(rest) => ComeOnce(requests')
  <2>1. CASE requests' = rest
    BY <1>8, <2>1
  <2>2. CASE requests' = Append(rest, c)
    <3>1. AfterAdded(requests', rest, c)
      BY <1>6, <1>8, <2>2, AskAdded
    <3> QED BY <1>6, <1>8, <3>1 DEF AfterAdded
  <2> QED BY <1>4, <2>1, <2>2
<1>10. Fits'
  <2>1. AskFits(c)'
    BY <1>4, <1>6 DEF AskFits, PinFits, IsComing, server
  <2> QED BY <1>4, <1>8, <1>9, <2>1, FitsStay DEF PdfInv, server
<1>11. Read'
  BY <1>4, <1>6, <1>8, <1>9, ReadStays DEF PdfInv, server
<1>12. list' \subseteq DOMAIN hl /\ list' \subseteq Nat
  BY <1>0, <1>4, <1>5 DEF ReaderTypes, ServerTypes
<1>13. PICK p : p = r.at.page
  OBVIOUS
<1>14. PICK b : b = {h \in list' : hl[h].page = p}
  OBVIOUS
<1>15. /\ stage' \in Seq(Sheet) /\ DOMAIN stage' = DOMAIN stage
       /\ p \in DOMAIN stage => stage'[p].boxes = b
       /\ \A q \in DOMAIN stage \ {p} : stage'[q] = stage[q]
       /\ \A q \in DOMAIN stage : stage'[q].drawn = stage[q].drawn
  <2>1. p \in Nat
    BY <1>5, <1>13, PageRange DEF Spot
  <2>2. b \in SUBSET Nat
    BY <1>12, <1>14
  <2>3. stage' = WithBoxes(stage, p, b)
    BY <1>4, <1>13, <1>14 DEF BoxedOn, BoxesOn, WithBoxes, server
  <2> QED BY <1>0, <2>1, <2>2, <2>3, BoxedOnIs DEF PageTypes
<1>16. calm => ~LoadIn(requests)
  BY <1>1, <1>4, NoLoad
<1>17. ~LoadIn(requests) => ~LoadIn(requests')
  BY <1>6, <1>8, <1>9, NoneCome
<1>18. ASSUME calm
       PROVE  ListIs'
  <2>0. ListIs
    BY <1>16, <1>18, ListIsListed
  <2> SUFFICES ASSUME doc # Nil
               PROVE  /\ \A h \in list' :
                           /\ hl[h].doc = doc.id
                           /\ h \in live \/ Deleting(requests', h) \/ Dropping(requests', doc.id)
                      /\ \A h \in live : hl[h].doc = doc.id => h \in list' \/ Coming(requests', h)
                      /\ ComeOnce(requests')
                      /\ \A q \in Asks(requests') :
                           /\ q.kind = "highlight" => q.at.doc = doc.id
                           /\ IsComing(q) => q.hl \notin list' /\ (q.hl \in live \/ Dropping(requests', doc.id))
                           /\ q.kind = "delete" => q.hl \in list' \/ q.hl \notin live
    BY <1>4 DEF ListIs, server
  <2>1. \A h : Deleting(requests, h) => Deleting(requests', h)
    BY <1>4, <1>9 DEF Deleting
  <2>2. Dropping(requests, doc.id) => Dropping(requests', doc.id)
    BY <1>4, <1>9 DEF Dropping
  <2>3. \A h : Coming(requests, h) => h = r.hl \/ Coming(requests', h)
    BY <1>9 DEF Coming
  <2>4. /\ \A h \in list :
             hl[h].doc = doc.id /\ (h \in live \/ Deleting(requests, h) \/ Dropping(requests, doc.id))
        /\ \A h \in live : hl[h].doc = doc.id => h \in list \/ Coming(requests, h)
        /\ ComeOnce(requests)
        /\ \A q \in Asks(requests) :
             /\ q.kind = "highlight" => q.at.doc = doc.id
             /\ IsComing(q) => q.hl \notin list /\ (q.hl \in live \/ Dropping(requests, doc.id))
             /\ q.kind = "delete" => q.hl \in list \/ q.hl \notin live
    BY <2>0 DEF ListIs
  <2>5. ~Coming(rest, r.hl)
    BY <1>8, <2>4
  <2>6. hl[r.hl].doc = doc.id /\ (r.hl \in live \/ Dropping(requests', doc.id))
    BY <1>4, <1>5, <2>2, <2>4
  <2>7. ASSUME NEW q \in Asks(requests')
        PROVE  /\ q.kind = "highlight" => q.at.doc = doc.id
               /\ IsComing(q) => q.hl \notin list' /\ (q.hl \in live \/ Dropping(requests', doc.id))
               /\ q.kind = "delete" => q.hl \in list' \/ q.hl \notin live
    <3>1. CASE q = c
      BY <1>6, <3>1
    <3>2. CASE q \in Asks(rest)
      <4>1. q \in Asks(requests) /\ (IsComing(q) => q.hl # r.hl)
        BY <1>8, <2>5, <3>2 DEF Coming
      <4> QED BY <1>4, <2>2, <2>4, <4>1
    <3> QED BY <1>9, <2>7, <3>1, <3>2
  <2> QED BY <1>4, <1>8, <1>9, <2>1, <2>2, <2>3, <2>4, <2>6, <2>7
<1>19. ASSUME calm, doc # Nil, NEW q \in rendered \intersect DOMAIN stage
       PROVE  stage'[q].boxes = BoxesOn(q, list)'
  <2>1. BoxesOn(q, list)' = {h \in list' : hl[h].page = q}
    BY <1>4 DEF BoxesOn, server
  <2>2. CASE q = p
    BY <1>14, <1>15, <1>19, <2>1, <2>2
  <2>3. CASE q # p
    <3>1. ~PastIn(requests)
      BY <1>16, <1>19 DEF PastIn, LoadIn
    <3>2. stage[q].boxes = {h \in list : hl[h].page = q}
      BY <1>19, <3>1 DEF PdfInv, Boxed, BoxesOn
    <3>3. hl[r.hl].page # q
      BY <1>5, <1>13, <2>3
    <3> QED BY <1>4, <1>15, <1>19, <2>1, <2>3, <3>2, <3>3
  <2> QED BY <2>2, <2>3
<1> QED BY <1>4, <1>9, <1>10, <1>11, <1>12, <1>15, <1>16, <1>17, <1>18, <1>19, BoxesMove

LEMMA DeleteReturnsKeeps ==
  ASSUME PdfInv, NEW i \in DOMAIN requests, DeleteReturns(i)
  PROVE  PdfInv'
<1>0. ServerTypes /\ AskTypes /\ ReaderTypes /\ PageTypes
  BY DEF PdfInv, PdfTypes
<1>1. PICK r : r = requests[i]
  OBVIOUS
<1>2. PICK h0 : h0 = r.hl
  OBVIOUS
<1>3. /\ r.kind = "delete" /\ r.step = "answered" /\ list' = list \ {h0}
      /\ stage' = Unboxed(stage, h0)
      /\ requests' = RemoveAt(requests, i)
      /\ UNCHANGED <<server, rendered, rendering, renders, scale, doc, pdf, sel, calm>>
  BY <1>1, <1>2 DEF DeleteReturns, Unboxed
<1>4. r \in Asks(requests) /\ AskFits(r) /\ h0 \notin live
  <2>1. r \in Asks(requests) /\ AskFits(r)
    BY <1>1, AskAt
  <2> QED BY <1>2, <1>3, <2>1 DEF AskFits
<1>5. AfterRemoved(requests', requests, i)
  BY <1>0, <1>3, AskRemoved DEF AskTypes
<1>6. /\ requests' \in Seq(Ask) /\ Asks(requests') \subseteq Asks(requests)
      /\ Asks(requests) \ {r} \subseteq Asks(requests')
      /\ ComeOnce(requests) => ComeOnce(requests')
  BY <1>1, <1>5 DEF AfterRemoved
<1>7. Fits'
  <2>1. AskFits(r)'
    BY <1>3, <1>4 DEF AskFits, PinFits, server
  <2> QED BY <1>3, <1>6, <2>1, FitsStay DEF PdfInv, server
<1>8. Read'
  BY <1>3, <1>4, <1>6, ReadStays DEF PdfInv, server
<1>9. /\ stage' \in Seq(Sheet) /\ DOMAIN stage' = DOMAIN stage
      /\ \A q \in DOMAIN stage : stage'[q].drawn = stage[q].drawn /\ stage'[q].boxes = stage[q].boxes \ {h0}
  BY <1>0, <1>3, UnboxedIs DEF PageTypes
<1>10. calm => ~LoadIn(requests)
  BY <1>1, <1>3, NoLoad
<1>11. ~LoadIn(requests) => ~LoadIn(requests')
  BY <1>4, <1>6, NoneCome
<1>12. ASSUME calm
       PROVE  ListIs'
  <2>0. ListIs
    BY <1>10, <1>12, ListIsListed
  <2> SUFFICES ASSUME doc # Nil
               PROVE  /\ \A h \in list' :
                           /\ hl[h].doc = doc.id
                           /\ h \in live \/ Deleting(requests', h) \/ Dropping(requests', doc.id)
                      /\ \A h \in live : hl[h].doc = doc.id => h \in list' \/ Coming(requests', h)
                      /\ ComeOnce(requests')
                      /\ \A q \in Asks(requests') :
                           /\ q.kind = "highlight" => q.at.doc = doc.id
                           /\ IsComing(q) => q.hl \notin list' /\ (q.hl \in live \/ Dropping(requests', doc.id))
                           /\ q.kind = "delete" => q.hl \in list' \/ q.hl \notin live
    BY <1>3 DEF ListIs, server
  <2>1. \A h : Deleting(requests, h) => h = h0 \/ Deleting(requests', h)
    BY <1>2, <1>6 DEF Deleting
  <2>2. Dropping(requests, doc.id) => Dropping(requests', doc.id)
    BY <1>3, <1>6 DEF Dropping
  <2>3. \A h : Coming(requests, h) => Coming(requests', h)
    BY <1>3, <1>6 DEF Coming, IsComing
  <2> QED BY <1>3, <1>4, <1>6, <2>0, <2>1, <2>2, <2>3 DEF ListIs
<1>13. ASSUME calm, doc # Nil, NEW q \in rendered \intersect DOMAIN stage
       PROVE  stage'[q].boxes = BoxesOn(q, list)'
  <2>1. BoxesOn(q, list)' = {h \in list' : hl[h].page = q}
    BY <1>3 DEF BoxesOn, server
  <2>2. ~PastIn(requests)
    BY <1>10, <1>13 DEF PastIn, LoadIn
  <2>3. stage[q].boxes = {h \in list : hl[h].page = q}
    BY <1>13, <2>2 DEF PdfInv, Boxed, BoxesOn
  <2> QED BY <1>3, <1>9, <1>13, <2>1, <2>3
<1>14. list' \subseteq DOMAIN hl
  BY <1>0, <1>3 DEF ReaderTypes
<1> QED BY <1>3, <1>6, <1>7, <1>8, <1>9, <1>10, <1>11, <1>12, <1>13, <1>14, BoxesMove

----------------------------------------------------------------------------
(* The tab.                                                                 *)

LEMMA PdfUnchanged == PdfInv /\ UNCHANGED vars => PdfInv'
<1> SUFFICES ASSUME PdfInv, UNCHANGED vars PROVE PdfInv'
  OBVIOUS
<1>1. UNCHANGED <<server, pages, doc, pdf, list, sel, requests, calm>>
  BY DEF vars, reader
<1>2. ReaderTypes'
  BY <1>1 DEF PdfInv, PdfTypes, ReaderTypes, server
<1>3. Read'
  BY <1>1 DEF PdfInv, Read, server
<1> QED BY <1>1, <1>2, <1>3, SelMoves DEF PdfInv, PdfTypes, AskTypes

LEMMA OpeningKeeps ==
  ASSUME PdfInv, Opening
  PROVE  PdfInv'
<1>1. ASSUME NEW d \in Doc, OpenReader(d)
      PROVE  PdfInv'
  BY <1>1, LoadBegins DEF OpenReader
<1>2. ASSUME NEW n \in notes, JumpToPdfPin(n)
      PROVE  PdfInv'
  <2>1. CASE doc = Nil \/ doc.id # n.doc
    <3>1. n.doc \in Doc
      BY DEF PdfInv, PdfTypes, ServerTypes, Note
    <3>2. /\ requests' = Append(requests, Load(n.doc))
          /\ calm' = (calm /\ ~Drawing /\ requests = <<>>)
          /\ UNCHANGED <<server, pages, doc, pdf, list, sel>>
      BY <1>2, <2>1 DEF JumpToPdfPin, pages
    <3> QED BY <3>1, <3>2, LoadBegins
  <2>2. CASE ~ (doc = Nil \/ doc.id # n.doc)
    BY <1>2, <2>2, JumpWithinKeeps
  <2> QED BY <2>1, <2>2
<1> QED BY <1>1, <1>2 DEF Opening

LEMMA ReadingKeeps ==
  ASSUME PdfInv, Reading
  PROVE  PdfInv'
BY ConfirmDeletePdfKeeps, ZoomKeeps, ScrollKeeps, SelectKeeps, CreateHighlightKeeps,
   DeletePdfHighlightKeeps DEF Reading

LEMMA AnswersKeep ==
  ASSUME PdfInv, Answers
  PROVE  PdfInv'
<1>1. PICK i \in DOMAIN requests :
        \/ DocArrives(i) \/ ServeList(i) \/ ListArrives(i) \/ PdfArrives(i) \/ ServePatch(i)
        \/ ServeHighlight(i) \/ HighlightReturns(i) \/ ServeNote(i) \/ NoteReturns(i)
        \/ ServeDelete(i) \/ DeleteReturns(i) \/ ServeDrop(i) \/ DropReturns(i)
        \/ Lose(i)
  BY DEF Answers
<1>2. CASE DocArrives(i) \/ ServeList(i) \/ ListArrives(i) \/ PdfArrives(i) \/ ServePatch(i)
  BY <1>2, DocArrivesKeeps, ServeListKeeps, ListArrivesKeeps, PdfArrivesKeeps, ServePatchKeeps
<1>3. CASE ServeHighlight(i) \/ HighlightReturns(i) \/ ServeNote(i) \/ NoteReturns(i)
  BY <1>3, ServeHighlightKeeps, HighlightReturnsKeeps, ServeNoteKeeps, NoteReturnsKeeps
<1>4. CASE ServeDelete(i) \/ DeleteReturns(i) \/ ServeDrop(i) \/ DropReturns(i) \/ Lose(i)
  BY <1>4, ServeDeleteKeeps, DeleteReturnsKeeps, ServeDropKeeps, DropReturnsKeeps, LoseKeeps
<1> QED BY <1>1, <1>2, <1>3, <1>4

LEMMA RendersKeep ==
  ASSUME PdfInv, Renders
  PROVE  PdfInv'
BY PageReadyKeeps, DrawingBeginsKeeps, DrawingEndsKeeps DEF Renders

LEMMA ReaderNext == PdfInv /\ [TabNext]_<<view, vars, review>> => PdfInv'
<1> SUFFICES ASSUME PdfInv, [TabNext]_<<view, vars, review>> PROVE PdfInv'
  OBVIOUS
<1>1. CASE ReviewerPart
  <2>1. UNCHANGED vars
    BY <1>1 DEF ReviewerPart, SwitchToReviewer, SwitchAway, ReviewerKey
  <2> QED BY <2>1, PdfUnchanged
<1>2. CASE ReaderPart
  BY <1>2, OpeningKeeps, ReadingKeeps, LeavingKeeps, AnswersKeep, RendersKeep
     DEF ReaderPart, OpenReaderFrom, ReaderClick, Header
<1>3. CASE UNCHANGED <<view, vars, review>>
  BY <1>3, PdfUnchanged
<1> QED BY <1>1, <1>2, <1>3 DEF TabNext

LEMMA ReaderInit == TabInit => PdfInv
BY PdfInit DEF TabInit

\* Whatever the user presses and whichever answers are late or lost, and while
\* cards come and go, a rating is recorded for the card whose back was shown,
\* in the mode of its list, unless a list was on its way or had been lost.
THEOREM RatingsAreAsShown == TabSpec => []RatedAsShown
<1>1. ReviewInv => RatedAsShown
  BY DEF ReviewInv, RatedAsShown
<1> QED BY <1>1, ReviewInit, ReviewNext, PTL DEF TabSpec

\* When the reviewer says that all is done no card of the list is due: each one
\* has been rated and the rating has been recorded, if the user rated one at a
\* time and nothing was lost.
THEOREM DoneIsDone == TabSpec => []DoneMeansDone
<1>1. ReviewInv => DoneMeansDone
  <2> SUFFICES ASSUME ReviewInv, screen = Done, steady, ~listed, ~HasLoad(calls), queue # Nil,
                      NEW j \in DOMAIN queue
               PROVE  queue[j] \notin due
    BY LoadingIs DEF DoneMeansDone, Review!DoneMeansDone
  <2>1. lined /\ \A k \in DOMAIN queue : k < index => queue[k] \notin due
    BY DEF ReviewInv, Rated
  <2>2. queue \in Seq(Card) /\ index \in Nat \ {0}
    BY TabAssumption DEF ReviewInv, Typed, Review!TypeOK
  <2>3. ~ (index <= Len(queue))
    <3> SUFFICES ASSUME index <= Len(queue) PROVE FALSE
      OBVIOUS
    <3>1. screen = queue[index]
      BY <2>1 DEF ReviewInv, Shown, Review!HasCard
    <3>2. queue[index] \in Card
      BY <2>2
    <3> QED BY <3>1, <3>2, TabAssumption
  <2>4. j \in Nat /\ j <= Len(queue) /\ Len(queue) \in Nat
    BY <2>2
  <2> QED BY <2>1, <2>2, <2>3, <2>4
<1> QED BY <1>1, ReviewInit, ReviewNext, PTL DEF TabSpec

\* However late the answers are and whatever is opened, zoomed, highlighted or
\* deleted meanwhile, the pin of a note names the highlight of its passage with
\* that highlight's document and page, and if the user has waited where waiting
\* matters the document is the one the passage was read in.
THEOREM PinsAreRight == TabSpec => []PinsAgree
<1>1. PdfInv => PinsAgree
  <2> SUFFICES ASSUME PdfInv, NEW n \in notes
               PROVE  /\ hl[n.hl].doc = n.doc /\ hl[n.hl].page = n.page
                      /\ calm => n.of = n.doc
    BY DEF PinsAgree
  <2>1. n.hl \in DOMAIN hl /\ hl[n.hl] = [doc |-> n.doc, page |-> n.page, of |-> n.of]
    BY DEF PdfInv, Fits, PinFits
  <2>2. hl[n.hl].doc = n.doc /\ hl[n.hl].page = n.page /\ hl[n.hl].of = n.of
    BY <2>1
  <2>3. calm => hl[n.hl].of = hl[n.hl].doc
    BY <2>1 DEF PdfInv, Read
  <2> QED BY <2>2, <2>3
<1> QED BY <1>1, ReaderInit, ReaderNext, PTL DEF TabSpec

\* When all answers have come and no page is being drawn, no page counts as
\* being drawn, and if the user has waited where waiting matters the reader
\* shows the document that is open: its file, all its pages at the zoom there
\* is, its highlights in the list and on their pages.
THEOREM ReaderShowsDocument == TabSpec => []ReaderAgrees
<1>1. PdfInv => ReaderAgrees
  <2> SUFFICES ASSUME PdfInv, requests = <<>>, ~Drawing
               PROVE  /\ rendering = {}
                      /\ calm /\ doc # Nil =>
                           /\ pdf = doc.id
                           /\ list = HighlightsOf(doc.id)
                           /\ DOMAIN stage = 1..Pages[doc.id]
                           /\ \A p \in DOMAIN stage :
                                stage[p].drawn = <<doc.id, scale>> /\ stage[p].boxes = BoxesOn(p, list)
    BY DEF ReaderAgrees
  <2>0. PageTypes /\ ReaderTypes
    BY DEF PdfInv, PdfTypes
  <2>1. \A p \in Page : renders[p] = <<>>
    BY DEF Drawing
  <2>2. rendering = {}
    <3>1. \A p \in rendering : renders[p] # <<>>
      BY DEF PdfInv, Running, RunningIn, View
    <3> QED BY <2>0, <2>1, <3>1 DEF PageTypes
  <2>3. Asks(requests) = {}
    BY DEF Asks
  <2>4. ASSUME calm, doc # Nil
        PROVE  /\ pdf = doc.id /\ pdf # Nil
               /\ list = HighlightsOf(doc.id)
               /\ DOMAIN stage = 1..Pages[doc.id]
               /\ \A p \in DOMAIN stage :
                    stage[p].drawn = <<doc.id, scale>> /\ stage[p].boxes = BoxesOn(p, list)
    <3>1. ~PastIn(requests)
      BY <2>3 DEF PastIn
    <3>2. pdf = doc.id /\ pdf # Nil
      <4>1. pdf = doc.id
        BY <2>4, <3>1 DEF PdfInv, Alone
      <4>2. doc.id \in Doc
        BY <2>0, <2>4 DEF ReaderTypes
      <4> QED BY <4>1, <4>2, PdfReaderAssumption
    <3>3. list = HighlightsOf(doc.id)
      BY <2>3, <2>4, <3>1 DEF PdfInv, Listed, Deleting, Dropping, Coming, HighlightsOf
    <3>4. /\ DOMAIN stage = 1..Pages[doc.id]
          /\ \A p \in DOMAIN stage : p \in rendered => stage[p].drawn = <<doc.id, scale>>
      BY <2>4, <3>2 DEF PdfInv, Staged
    <3>5. 1..Pages[doc.id] \subseteq rendered
      <4>1. View.pdf = pdf /\ View.rendered = rendered /\ View.rendering = {} /\ View.renders = renders
        BY <2>2 DEF View
      <4>2. ~ChainIn(View)
        BY <2>1, <4>1 DEF ChainIn
      <4> QED BY <2>4, <3>2, <4>1, <4>2 DEF PdfInv, Drawn, ChainedIn, AllIn
    <3>6. \A p \in DOMAIN stage : stage[p].boxes = BoxesOn(p, list)
      BY <2>4, <3>1, <3>4, <3>5 DEF PdfInv, Boxed
    <3> QED BY <3>2, <3>3, <3>4, <3>5, <3>6
  <2> QED BY <2>2, <2>4
<1> QED BY <1>1, ReaderInit, ReaderNext, PTL DEF TabSpec

\* The types of both parts, for every tab.
THEOREM TabTyped == TabSpec => []TabTypeOK
<1> DEFINE Viewed == view \in {"reviewer", "other"}
<1>1. TabInit => Viewed
  BY DEF TabInit
<1>2. Viewed /\ [TabNext]_<<view, vars, review>> => Viewed'
  BY DEF TabNext, ReviewerPart, ReaderPart, SwitchToReviewer, SwitchAway, ReviewerKey,
         OpenReaderFrom, ReaderClick, Header
<1>3. PdfInv => TypeOK
  <2> SUFFICES ASSUME PdfInv PROVE TypeOK
    OBVIOUS
  <2>1. ServerTypes /\ PageTypes /\ ReaderTypes
    BY DEF PdfInv, PdfTypes
  <2>2. doc = Nil \/ doc.id \in Doc
    BY <2>1 DEF ReaderTypes
  <2> QED BY <2>1, <2>2 DEF TypeOK, ServerTypes, PageTypes, ReaderTypes
<1>4. ReviewInv => Review!TypeOK
  BY DEF ReviewInv, Typed
<1>5. Viewed /\ PdfInv /\ ReviewInv => TabTypeOK
  BY <1>3, <1>4 DEF TabTypeOK
<1> HIDE DEF Viewed
<1> QED BY <1>1, <1>2, <1>5, ReaderInit, ReaderNext, ReviewInit, ReviewNext, PTL DEF TabSpec
=============================================================================
