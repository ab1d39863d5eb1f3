-------------------------------- MODULE Tab --------------------------------
(***************************************************************************)
(* A browser tab with its reviewer and its PDF reader.  One of them is on  *)
(* the screen at a time, keys and clicks go to that one, and the answers   *)
(* to what the other has asked for come all the same.  The pin on a card   *)
(* leads from the reviewer to the reader.                                  *)
(***************************************************************************)
EXTENDS PdfReader

CONSTANTS
  Card, Limit, Done,   \* see ReviewSession
  MaxReviewActs        \* its acts (bound)

\* A user has finitely many cards.
ASSUME TabAssumption ==
  /\ IsFiniteSet(Card) /\ Done \notin Card
  /\ Limit \in Nat /\ MaxReviewActs \in Nat

VARIABLES
  view,                \* activeView: "reviewer" or any other
  cards, gone, due, cram, queue, index, revealed, screen, answer, calls,
  listed, lined, steady, reviewActs

review == <<cards, gone, due, cram, queue, index, revealed, screen, answer, calls,
            listed, lined, steady, reviewActs>>

Review == INSTANCE ReviewSession WITH acts <- reviewActs, MaxActs <- MaxReviewActs

\* switchView("reviewer") begins a new session each time.
SwitchToReviewer ==
  /\ view' = "reviewer"
  /\ Review!SwitchToReviewer
  /\ UNCHANGED vars

\* Another view by its button.
SwitchAway ==
  /\ view = "reviewer"
  /\ view' = "other"
  /\ UNCHANGED <<vars, review>>

ReviewerKey ==
  /\ view = "reviewer"
  /\ Review!Keys
  /\ UNCHANGED <<view, vars>>

\* From the library, or by a pin, which may be on the card under review.
OpenReaderFrom ==
  /\ Opening
  /\ view' = "other"
  /\ UNCHANGED review

ReaderClick ==
  /\ view = "other"
  /\ Reading
  /\ UNCHANGED <<view, review>>

\* The header has a button that closes the reader in every view, and a click
\* anywhere drops the selection.
Header == Leaving /\ UNCHANGED <<view, review>>

ReviewerPart ==
  \/ SwitchToReviewer \/ SwitchAway \/ ReviewerKey
  \/ (Review!Requests \/ Review!Others) /\ UNCHANGED <<view, vars>>

ReaderPart ==
  \/ OpenReaderFrom \/ ReaderClick \/ Header
  \/ (Answers \/ Renders) /\ UNCHANGED <<view, review>>

TabInit == view = "other" /\ Init /\ Review!Init

TabNext == ReviewerPart \/ ReaderPart

TabSpec == TabInit /\ [][TabNext]_<<view, vars, review>>

----------------------------------------------------------------------------
\* Types of both parts.
TabTypeOK == view \in {"reviewer", "other"} /\ TypeOK /\ Review!TypeOK

\* See ReviewSession: also a session that is left for a PDF and its answers
\* that come meanwhile record each rating for the card that was shown.
RatedAsShown == Review!RatedAsShown

\* See ReviewSession.
DoneMeansDone == Review!DoneMeansDone
=============================================================================
