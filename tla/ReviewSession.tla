--------------------------- MODULE ReviewSession ---------------------------
(***************************************************************************)
(* The reviewer of one browser tab over the cards of its user.  A session  *)
(* is a list of cards fetched once and an index into it; the card on the   *)
(* screen, the index and the mode are separate state, and between a key    *)
(* and what it leads to lies a request that can be late or lost.  Others   *)
(* (an MCP client, another tab) review, add and delete cards meanwhile.    *)
(* All happens within one day, on which a card that has been reviewed does *)
(* not become due again.                                                   *)
(***************************************************************************)
EXTENDS Integers, Sequences, SequencesExt

CONSTANTS
  Card,      \* ids of cards
  Limit,     \* the most cards that a list has (50 due, 100 for cram)
  Done,      \* on the screen: "All done!"
  Nil,       \* on the screen: no card yet; as a list: null
  MaxActs    \* acts of the user, of others and of the network (bound)

VARIABLES
  cards,     \* server: the cards there are
  gone,      \* server: the cards there were; an id is used once
  due,       \* server: those that are due
  cram,      \* isCramMode
  queue,     \* dueCards
  index,     \* currentCardIndex, counted from 1
  revealed,  \* isAnswerRevealed
  screen,    \* the card whose front is shown
  answer,    \* its back and the rating buttons are visible
  calls,     \* requests and answers on their way, oldest first
  listed,    \* history: the mode that queue was fetched in
  lined,     \* history: the latest session was begun with no other list on
             \* its way, and its list was not lost
  steady,    \* history: queue came alone and with the index at its start, and
             \* since then there was one request at a time and none was lost
  acts       \* acts so far, counted

server == <<cards, gone, due>>
display == <<screen, answer, revealed>>
session == <<cram, queue, index>>
history == <<listed, lined, steady>>
vars == <<server, display, session, calls, history, acts>>

Act == acts < MaxActs /\ acts' = acts + 1

Loading == \E i \in DOMAIN calls : calls[i].kind = "load"

\* What the user has before them: the card whose back is shown, and the mode
\* of the list it comes from.  Nothing is promised while a list is on its way.
Before ==
  IF Loading \/ ~lined THEN Nil
  ELSE <<IF answer THEN screen ELSE Nil, listed>>

Load(mode) ==
  [kind |-> "load", cram |-> mode, card |-> Nil, seen |-> Nil, state |-> "sent", list |-> Nil]
Rate(c, mode) ==
  [kind |-> "rate", cram |-> mode, card |-> c, seen |-> Before, state |-> "sent", list |-> Nil]

\* There is a list and the index is in it; with null the code throws.
HasCard == queue # Nil /\ index <= Len(queue)

\* renderCurrentCard, with n the current index into the list q.
Render(q, n) ==
  /\ screen' = IF n > Len(q) THEN Done ELSE q[n]
  /\ revealed' = IF n > Len(q) THEN revealed ELSE FALSE
  /\ answer' = FALSE

----------------------------------------------------------------------------
(* The user.                                                                *)

\* The list is fetched in the given mode.  Until it comes, the screen stays
\* as it is, while the index is that of the first card.
StartReviewSession(mode) ==
  /\ Act
  /\ cram' = mode
  /\ index' = 1
  /\ revealed' = FALSE
  /\ calls' = Append(calls, Load(mode))
  /\ lined' = ~Loading
  /\ UNCHANGED <<server, queue, screen, answer, listed, steady>>

\* switchView("reviewer").
SwitchToReviewer == StartReviewSession(cram)

ToggleCramMode == StartReviewSession(~cram)

RevealAnswer ==
  /\ ~revealed \/ ~answer         \* the space bar, or the button
  /\ HasCard
  /\ revealed' = TRUE
  /\ answer' = TRUE
  /\ UNCHANGED <<server, screen, session, calls, history, acts>>

\* Variant: the index moves on before the request is made.
RateNext ==
  /\ revealed \/ answer
  /\ HasCard
  /\ Act
  /\ calls' = Append(calls, Rate(queue[IF index < Len(queue) THEN index + 1 ELSE index], cram))
  /\ steady' = (steady /\ calls = <<>>)
  /\ UNCHANGED <<server, display, session, listed, lined>>

\* Variant: the next card is shown at once, and the index moves on again when
\* the answer comes.
RateEager ==
  /\ revealed \/ answer
  /\ HasCard
  /\ Act
  /\ calls' = Append(calls, Rate(queue[index], cram))
  /\ index' = index + 1
  /\ steady' = (steady /\ calls = <<>>)
  /\ Render(queue, index + 1)
  /\ UNCHANGED <<server, cram, queue, listed, lined>>

\* rateCard until its request: by key (revealed) or button (answer).
RateCard ==
  /\ revealed \/ answer
  /\ HasCard
  /\ Act
  /\ calls' = Append(calls, Rate(queue[index], cram))
  /\ steady' = (steady /\ calls = <<>>)
  /\ UNCHANGED <<server, display, session, listed, lined>>

----------------------------------------------------------------------------
(* Requests.                                                                *)

\* GetDueCards and GetCramCards: some of the cards, up to the limit, in some
\* order; no cards make null.
Lists(mode) ==
  LET all == IF mode THEN cards ELSE due
      Prefix(s) == SubSeq(s, 1, IF Len(s) < Limit THEN Len(s) ELSE Limit)
  IN IF all = {} THEN {Nil} ELSE {Prefix(s) : s \in SetToSeqs(all)}

ServeLoad(i) ==
  /\ calls[i].kind = "load" /\ calls[i].state = "sent"
  /\ \E l \in Lists(calls[i].cram) :
       calls' = [calls EXCEPT ![i].state = "answered", ![i].list = l]
  /\ UNCHANGED <<server, display, session, history, acts>>

\* ReviewCard: outside cram mode the card is due again tomorrow at the
\* earliest.  A card that is gone is an error, which the client ignores.
ServeRating(i) ==
  LET c == calls[i].card IN
  /\ calls[i].kind = "rate" /\ calls[i].state = "sent"
  /\ calls' = [calls EXCEPT ![i].state = "answered"]
  /\ due' = IF calls[i].cram THEN due ELSE due \ {c}
  /\ UNCHANGED <<cards, gone, display, session, history, acts>>

\* A request does not come to the server, or fetch fails.
Lose(i) ==
  /\ calls[i].state = "sent"
  /\ Act
  /\ calls' = [calls EXCEPT ![i].state = "lost"]
  /\ UNCHANGED <<server, display, session, history>>

\* startReviewSession after its await.  With null the counters throw before
\* anything is shown.
ListArrives(i) ==
  LET c == calls[i] IN
  /\ c.kind = "load" /\ c.state = "answered"
  /\ queue' = c.list
  /\ IF c.list = Nil THEN UNCHANGED display ELSE Render(c.list, index)
  /\ calls' = RemoveAt(calls, i)
  /\ listed' = c.cram
  /\ steady' = (lined /\ Len(calls) = 1 /\ index = 1)
  /\ UNCHANGED <<server, cram, index, lined, acts>>

ListLost(i) ==
  /\ calls[i].kind = "load" /\ calls[i].state = "lost"
  /\ calls' = RemoveAt(calls, i)
  /\ lined' = FALSE
  /\ steady' = FALSE
  /\ UNCHANGED <<server, display, session, listed, acts>>

\* rateCard after its await: it goes on to the next card whatever came back.
RatingReturns(i) ==
  LET c == calls[i] IN
  /\ c.kind = "rate" /\ c.state # "sent"
  /\ index' = index + 1
  /\ IF queue = Nil THEN UNCHANGED display ELSE Render(queue, index + 1)
  /\ calls' = RemoveAt(calls, i)
  /\ steady' = (steady /\ c.state # "lost")
  /\ UNCHANGED <<server, cram, queue, listed, lined, acts>>

----------------------------------------------------------------------------
(* Others.                                                                  *)

\* review_flashcard of the MCP server, or another tab.
OtherReview(c) ==
  /\ c \in due
  /\ Act
  /\ due' = due \ {c}
  /\ UNCHANGED <<cards, gone, display, session, calls, history>>

\* An edit elsewhere makes a card, which is due at once, or deletes one.
CardMade(c) ==
  /\ c \notin cards \union gone
  /\ Act
  /\ cards' = cards \union {c}
  /\ due' = due \union {c}
  /\ UNCHANGED <<gone, display, session, calls, history>>

\* Variant: its schedule stays.
CardDeletedStillDue(c) ==
  /\ c \in cards
  /\ Act
  /\ cards' = cards \ {c}
  /\ gone' = gone \union {c}
  /\ UNCHANGED <<due, display, session, calls, history>>

CardDeleted(c) ==
  /\ c \in cards
  /\ Act
  /\ cards' = cards \ {c}
  /\ gone' = gone \union {c}
  /\ due' = due \ {c}
  /\ UNCHANGED <<display, session, calls, history>>

----------------------------------------------------------------------------
Init ==
  /\ cards \in SUBSET Card
  /\ gone = {}
  /\ due \in SUBSET cards
  /\ cram = FALSE
  /\ queue = <<>>
  /\ index = 1
  /\ revealed = FALSE
  /\ screen = Nil
  /\ answer = FALSE
  /\ calls = <<>>
  /\ listed = FALSE
  /\ lined = FALSE
  /\ steady = FALSE
  /\ acts = 0

Keys == ToggleCramMode \/ RevealAnswer \/ RateCard

Requests ==
  \E i \in DOMAIN calls :
    \/ ServeLoad(i) \/ ServeRating(i) \/ Lose(i)
    \/ ListArrives(i) \/ ListLost(i) \/ RatingReturns(i)

Others == \E c \in Card : OtherReview(c) \/ CardMade(c) \/ CardDeleted(c)

Next == SwitchToReviewer \/ Keys \/ Requests \/ Others

\* Nothing is assumed of when requests are served, or whether.
Spec == Init /\ [][Next]_vars

----------------------------------------------------------------------------
\* Types.
TypeOK ==
  /\ due \subseteq cards /\ cards \subseteq Card /\ gone \subseteq Card \ cards
  /\ cram \in BOOLEAN /\ listed \in BOOLEAN
  /\ queue = Nil \/ queue \in Seq(Card)
  /\ index \in 1..(MaxActs + 1)
  /\ revealed \in BOOLEAN /\ answer \in BOOLEAN
  /\ screen \in Card \union {Done, Nil}

\* A rating asks the server to record it for the card whose back the user saw
\* when rating it, in the mode of the list that card was on, so that practice
\* leaves the schedule alone: ratings that are doubled, late or lost do not
\* change that, nor cards that come and go.
\* (Nothing is promised for a rating made before the list of a new session has
\* come, after one was lost, or after two were on their way at once.)
RatedAsShown ==
  \A i \in DOMAIN calls :
    LET r == calls[i] IN r.kind = "rate" /\ r.seen # Nil => r.seen = <<r.card, r.cram>>

\* "All done! You've reviewed all due flashcards": when the user has rated one
\* card at a time and nothing was lost, no card of the list is due any more.
DoneMeansDone ==
  screen = Done /\ steady /\ ~listed /\ ~Loading /\ queue # Nil =>
    \A i \in DOMAIN queue : queue[i] \notin due
=============================================================================
