# TLA+ models of remgo

remgo is a single-binary outliner with flashcards: an HTTP server and an MCP
server over one SQLite file and one directory of PDF files, and a web client
written in plain JavaScript.  This directory holds TLA+ models of its core
logic, the TLC configurations that check them on small instances, and proofs
for TLAPS.  Paths below are relative to the repository.

## 1. Inventory

| component | state it keeps | operations |
|---|---|---|
| outline store, `internal/db/rems.go` | `rems`: owner, parent, sort order, content, collapsed | create, create after, update, delete, indent, outdent, move, toggle; tree, ancestors, search, backlinks |
| flashcard sync, `internal/db/cards.go` 68-197 | `cards` of a bullet | run inside every outline operation that changes a text or a level |
| reference sync, `internal/db/cards.go` 22-66 | `references_map` | delete and re-insert the references of a bullet, resolve older ones that name it |
| review scheduling, `internal/srs/fsrs.go`, `internal/db/cards.go` 200-470 | schedule columns of `cards`, `card_reviews` | review (also in cram mode), previews, due and cram queries, statistics |
| lock and pool, `internal/db/db.go` | `DB.mu`, five connections | every operation takes the one and, under it, the others |
| accounts, `internal/db/users.go`, `internal/api/auth_handlers.go`, `internal/auth` | `users`, `sessions`, `api_keys` | set-up, register, log in and out, keys, adoption of the default user's notes |
| PDF store, `internal/db/pdfs.go`, `internal/api/pdf_handlers.go` | `pdfs`, `pdf_highlights`, the files | upload, delete, highlight, page count, stream |
| import, export, graph, `internal/db/graph.go` | none of their own | Markdown import (one `CreateRem` per line), export, graph |
| parser, `internal/parser/parser.go` | none | delimiters, clozes, references, clean text |
| HTTP server, `internal/api/handlers.go` | mode and default user chosen at start | one handler per operation |
| MCP server, `internal/mcp/server.go` | none | tools over the same operations, also as a second process on the same file |
| web client, `internal/web/static/app.js` | the shown tree, editors with debounced saves, review session, PDF reader | requests to the HTTP server, several at a time |
| start-up, `cmd/remgo/main.go` | none | flags, mode, seeding of the first document |

How they interact.  A handler calls one operation of `internal/db`, rarely two;
an operation takes `DB.mu` (readers or writer), and under it connections of the
pool.  Outline operations call the card and reference sync in their own
transaction, and the sync calls the parser.  A bullet whose text ends in `==>`
holds a list card whose back is a copy of the children, so operations on a
child also re-sync the parent.  Reviews read and write the columns of `cards`
that the sync leaves alone.  PDF operations pair a row with a file.  A second
process (`remgo mcp`, `remgo create-user`) has a `DB.mu` of its own and meets
the server only in SQLite.

What is hard.  Sort orders and parents after long sequences of operations;
copies that must be refreshed (list cards); history that must survive edits;
the lock and the pool together; two stores without a common transaction (files
and rows); rounding and bumping of intervals; a client that has several
requests under way, timers that fire late and answers that change whatever is
current when they come; a long import with others in between.  `PROJECT.json` lists each hazard
at its line with the properties that would catch it.

What makes each component correct:

- *outline*: the parents form a forest within one user, siblings have distinct
  orders, no operation reorders what it does not move; to the user it is nested
  lists.
- *flashcards*: the cards of a bullet are those its text calls for, and each
  keeps its history through edits; a list card shows the children.
- *scheduling*: the schedule of a card is what its logged reviews outside cram
  mode add up to; the four buttons are in order.
- *lock and pool*: operations of several statements behave as single steps, no
  connection is lost, every request is answered.
- *references*: a reference leads to a bullet that it names, whichever of the two
  is written first, and stays there; backlinks are complete.
- *import and export*: each line goes where its indentation says, and comes out
  again as it went in.
- *web client*: what is typed is saved, in the place where it was typed, and
  what is shown is what is saved; a rating is recorded for the card that was
  rated; the reader shows the current document, and a note made from it leads
  back to its passage.
- *accounts*: a note and what is below it have one owner, no note is left with a
  user nobody can log in as, and its owner has its cards.
- *PDF store*: a listed document can always be opened, a highlight has its
  document, nothing is left behind when nothing fails.

## 2. Modules

| module | models | checked by |
|---|---|---|
| `Outline` | `rems.go` on the `rems` table, with the backs of list cards | `MCOutline`, three `Outline*.cfg` |
| `NestedLists` | what the outline promises its user: a list of bullets under each bullet, no sort orders | as the abstract side of the next |
| `OutlineRefines` | `Outline` implements `NestedLists` | `OutlineTree.cfg` |
| `OutlineProofs` | theorems about `Outline` and `OutlineRefines` | tlapm |
| `LockPool` | `DB.mu` and the connection pool under concurrent requests | `MCLockPool`, `LockPoolFull.cfg`, and through `Operations` |
| `Operations` | what the statements of an operation read and write; extends `LockPool` | `Operations.cfg` |
| `AtomicOps` | what the operations promise: each happens in one step | as the abstract side of the one before |
| `LockPoolProofs` | theorems about `LockPool` and `Operations` | tlapm |
| `Flashcards` | card sync, parser as far as it decides which cards exist, scheduler, review log | `MCFlashcards`, two `Flashcards*.cfg` |
| `FlashcardsProofs` | theorems about `Flashcards` | tlapm |
| `References` | what saving and deleting bullets does to `references_map`, and backlinks | through `Import` |
| `Import` | Markdown import and export, and the outline operations that meet them; extends `References` | `MCImport`, `Import.cfg` |
| `ImportProofs` | theorems about `References` and `Import` | tlapm |
| `PdfStore` | files and rows of PDFs, highlights, kills | `MCPdfStore`, `PdfStore.cfg` |
| `PdfStoreProofs` | theorems about `PdfStore` | tlapm |
| `Editor` | a tab of the web client: saves, views, keys, and the requests they cause | `MCEditor`, `Editor.cfg` |
| `EditorProofs` | theorems about `Editor` | tlapm |
| `ReviewSession` | the reviewer of a tab, and others who use the same cards | through `Tab` |
| `PdfReader` | the PDF reader of a tab: opening, drawing, zooming, highlights, notes with pins | through `Tab` |
| `Tab` | a tab with both, one of them on the screen; extends `PdfReader`, instantiates `ReviewSession` | `MCTab`, `Tab.cfg` |
| `TabProofs` | theorems about `Tab`, the part of `ReviewSession` | tlapm |
| `Accounts` | accounts, the notes they own and adopt, and the processes that share the data file | `MCAccounts`, `Accounts.cfg` |
| `AccountsProofs` | theorems about `Accounts` | tlapm |

### Outline

State: one function per column (`owner`, `parent`, `sort`, `content`,
`collapsed`), `back` (the items of the list card of a bullet) and `hung` (a
recursive query that does not end keeps `DB.mu`).  Each operation holds `DB.mu`
for writing, reads, and runs one transaction, so it is one action; that this is
sound is the subject of `Operations`.  A request that ends in an error
changes nothing and is no step.  `Subtree` is the least set closed under
children, which is what `WITH RECURSIVE ... UNION ALL` returns when it returns;
on a cycle it never does, and `QueryNeverEnds` takes that outcome.  `Resync`
stands for `syncCardsAndRefsTx` on the rows an operation passes to it, at the
end of its transaction.  Texts are ordinary, list cards without an inline back,
or blank after `CleanDelimiters`.

There are two next-state relations.  `EditorNext` has the operations the web
client uses; `Next` adds `POST /api/rems/{id}/move`, which the client never
calls and which lacks several of the checks of the others: no shift of
siblings, no re-sync, no test for a move below a descendant.  The properties
that hold only without it are checked and proved for `EditorSpec`.

`NestedLists` has neither orders nor gaps.  `OutlineRefines` maps the list of a
level to its rows sorted by `sort_order`; every operation of `EditorSpec` is
then an insertion at one place, a removal of a branch, an indent to the end of
the list above, an outdent to right after the parent, or no change at all.

### LockPool and Operations

A call is a goroutine that runs one operation after the other.  `RLock`,
`Lock`, `Announce`, `Locked`, `RUnlock`, `Unlock` are `sync.RWMutex` with its
two phases of writing (announce and hold back new readers; wait for the old
ones); `Acquire` and `AcquireNested` are connections from `database/sql`.
`kind` tells operations that use one connection at a time from `GetDueCards`
and `GetCramCards`, which run the ancestors query inside the loop over their
own rows.

`Operations` adds the file (`content`) and what the statements of each call have
seen of it (`seen`).  A statement is atomic in SQLite, and a transaction counts
as one; but `UpdateRem` and `ReviewCard` read before their transactions,
`MoveRem` and `ToggleCollapse` have none, and neither has any operation that
reads.  In `AtomicOps` an operation is asked for and performed, and is performed
in one step from one state.  The mapping is `askedFor` (an operation under way),
`content` itself, and `basis`: the states an answer was computed from, which
the caller has once the operation has returned.  This is what lets `Outline`,
`Flashcards`, `PdfStore` and `Import` take an operation for one action.  It holds
among the calls of one process: two processes share no `DB.mu`.

### Flashcards

A text is a delimiter and a sequence of clozes, each with an index or none and
the fact it hides; `ParsedCards` is what `ParseContent` makes of it.  `Sync` is
the matching of parsed cards with stored ones.  Time is counted in days and
stabilities in tenths of a day.  The stability after a recall or a lapse is any
value of `Stability` that the formulas allow: a recall does not shorten it,
Hard lengthens it no more than Good and Good no more than Easy, none does on
the same day, and forgetting does not lengthen it.  At the requested retention
of 0.9 the interval is the stability rounded, which is exact (19/81 cancels).

### References and Import

`text` and `link` are `rems.content` and `references_map`, one target for each
title that a bullet names.  A text is a record of what the sync looks at: its
title (`clean_text`), the titles its stored content begins with (what
`content LIKE 'title%'` finds), the titles it refers to, and whether it lists its
children.  `Synced` is the reference part of `syncCardsAndRefsTx` for one saved
bullet, with every choice that a query without `ORDER BY` leaves open.  `Save`
is the sync of one transaction: the bullet itself, then up to two parents that
list their children (`Again`).  `Without` is what the foreign keys do on
deletion.

`Import` has one action per line of `ImportMarkdown`, because each line is a
`CreateRem` of its own and other requests run in between; `stack` is its stack
of open levels, `Popped` the loop that pops it, and `made` remembers which
bullet each line has become.  `Parent`, `Place` and `Taken` say where a bullet is
and what its list is without it.  Levels are lists as in `NestedLists`, since
`Outline` is shown to implement those.  `Export` is the recursion of
`ExportMarkdown`; a content is one line, so how a content of several lines, or
one that begins with a dash, comes out is left out.

### ReviewSession, PdfReader and Tab

One browser tab again, beside the one of `Editor`, with what the code keeps
between awaits.  Every call that waits for an answer is a record in `calls`
(reviewer), `requests` or `renders` (reader) with the step it is at; answers are
acted on in any order, and any may be lost.

In `ReviewSession` the list (`queue`), the index, the mode and what is on the
screen are separate state, as they are in the code.  The server side is which
cards there are and which are due; everything happens on one day, on which a
card once reviewed does not become due again.  Others review, add and delete
cards.

In `PdfReader` a call of `renderPdfPage` waits for the page, then for pdf.js to
draw it, and its page is in `renderingPdfPages` from its start and in
`renderedPdfPages` from its end, unless something has cleared these sets
meanwhile.  What is drawn is the document and the zoom it was drawn for, or zoom
0 for a canvas that was resized under the drawing.  A call keeps the stage it
began on (`off` when it has left the screen).  Documents are so short that all
their pages are near the viewport.  pdf.js is external: it refuses to draw on a
canvas it is drawing on.  On the server there are documents, their page count,
highlights, and notes with their pins; which bullet a note goes under is the
business of `Editor`.

`Tab` puts the two together: a review may be left for a document at any moment,
by a pin too, and the answers of both come all the same.

Three history variables name the sequences about which nothing can be promised.
`lined` (reviewer): the session was begun with no other list on its way and its
list was not lost.  `steady`: in addition one card has been rated at a time and
no rating was lost.  `calm` (reader): documents were opened and deleted only
when nothing was on its way or being drawn, zoomed only when nothing was being
drawn, and passages selected and highlights made or deleted only when no
document was being opened.

### PdfStore

Files and rows are separate state.  A request goes through the steps of its
operation, `mutex` is `DB.mu` held for writing between them, and `Restart`
kills the process between any two.  `DeleteUser` is in the model although no
handler calls it yet; it is what makes the insert of an upload under way fail.
It lists the files before it deletes the user, and goes on when the query fails
or ends early (`users.go` 251): any part of the files may be on its list.
`mishap` records a kill, a failed file operation or a short list, because
`NothingLeftBehind` can only be expected before.  A kill of the process loses
nothing that SQLite has committed; a power failure under
`synchronous(NORMAL)` could, and is not modelled.

### Editor

One browser tab.  On the server's side there are `content` and `home` (the
parent); levels and orders are the business of `Outline`.  On the client's side
there is what the code keeps in the DOM and in closures: `shown` and `timer` for
the bullets on screen, `orphan` for bullets that have been replaced and whose
300 ms timer still runs, `fresh` for the editors of empty views, which have no
row until the answer to their POST sets `dataset.id`, `doc` (`currentDocID`) and
`header` with `headline` (the title input, set only when a view is rendered).
`calls` are requests on their way, handled in any order, and answers the client
acts on; `loads` are calls of `zoomTo`, which await two answers one after the
other.  Every await is a place where other actions can come in between.  Any
request or answer can be lost.  Texts are without markup, so that `cleanText`
leaves the title as it is.

`said` is a history variable: what was typed into bullets that showed a row.
`calm` stays true as long as the user waits: types into a bullet only when none
of its saves and no view is on the way, and leaves a view, presses Enter or
deletes only when everything has been saved and answered.

### Accounts

The web server, `remgo mcp` and `remgo create-user` are processes with a
`DB.mu` each; only SQLite's transactions hold between them.  `Start` settles
`proc[p]` from the flags and the accounts of that moment: whether requests need
a login, and which user the others act for.  `Ask` is `getUser`: the user of a
request is settled when it arrives, and what it does with that user comes
later.  What it asks for is chosen only when it gets the lock, which allows the
same behaviours as choosing on arrival and fewer states.  `CreateRem` is one
step (`Add`), because it asks for the parent and its owner in its transaction.
`CreateRemAfter`, `UpdateRem` and `CreateUser` are two each, since they read
before their transactions begin: the sibling (`Look`, `AddAfter`), the row
(`Read`, `Write`), the number of accounts (`Count`, `Insert`).  Any transaction
may fail and be rolled back (`Fails`).  `cards` says, for each note and user,
from which content the cards and references of that user were made, which is
all that is needed to tell whether they are up to date.  Deletions and moves are
the business of `Outline`.

The data file starts empty.  A web server that finds neither accounts nor notes
seeds it before it listens: one `CreateRem` of the default user after the other
(`Seed`), the first at the top and the others below one made before, until all
are made or the first has failed (`EndSeeding`).  Other processes run in between.

`alone`, `asDefault` and `torn` are history variables.  `alone` holds until two
processes have run at once.  `asDefault` becomes true when somebody works for
the default user although there are accounts: through a process that was started
before the first, through one started with `-no-auth` and no sole account to
stand in, in a request under way while an account is created, or by seeding the
file meanwhile.  `torn` becomes true when an adoption comes between the two
halves of a `CreateRemAfter` below a note that it adopts; this takes a second
process, which `FamiliesStayTogether` also says.

## 3. Runs

| cfg | instance | shows |
|---|---|---|
| `OutlineTree` | 4 bullets, 1 user, insertion at order 1, orders up to 2 | `Acyclic`, `DistinctOrders`, `ReadingOrder`, `ImplementsNestedLists` |
| `OutlineMove` | 3 bullets, 2 users, list and blank texts, with move | `TypeOK`, `ParentOwned`, `ListFreshOnLoss` |
| `OutlineMoveCycle` | 3 bullets, 2 users, with move | *violated*: `AncestorsReachRoot` |
| `Operations` | 3 calls, 4 connections, up to 2 statements or rows, 2 states of the file, under `OpFairSpec` | `TypeOK`, `Accounted`, `NoPoolDeadlock`, `ImplementsAtomicOps`, `Answered` |
| `LockPoolFull` | 5 calls, 5 connections | *violated*: `NoPoolDeadlock` |
| `Flashcards` | 2 bullets, 3 cards, 11 texts, 2 days, 2 reviews; of one card 5 days, 3 reviews, ratings 0 to 4 | `TypeOK`, `CardsMatchText`, `EditKeepsCards`, `LogExplainsCard`, `RelearningIsALapse` |
| `FlashcardsFact` | 2 bullets, 3 cards, 11 texts, 2 days, 2 reviews | *violated*: `HistoryFollowsFact` |
| `Import` | 4 bullets, 2 titles, one the beginning of the other, 32 documents of three lines; up to 3 operations before and 2 meanwhile | `TypeOK`, `BacklinksComplete`, `NamedIsLinked`, `LinksStay`, `NestingKept`, `RoundTrip` |
| `PdfStore` | 3 documents, 2 highlights, 2 users, 3 requests | `TypeOK`, `RecordHasFile`, `HighlightsBelong`, `NothingLeftBehind` |
| `Editor` | 3 rows in every arrangement, 4 keys or clicks | `TypeOK`, `SavedWhereTyped`, `ScreenMirrorsServer` |
| `Tab` | 3 cards in lists of 2, 4 acts; documents of 2 pages and of 1, 2 zooms, 3 acts | `TabTypeOK`, `RatedAsShown`, `DoneMeansDone`, `PinsAgree`, `ReaderAgrees` |
| `Accounts` | 3 notes, 2 texts, 2 accounts, 2 processes, 2 requests at a time | `TypeOK`, `FamiliesStayTogether`, `NothingStranded`, `OneProcessKeepsCards` |

Bounds.  Four bullets are the fewest with which a bullet, its parent, its
grandparent and a sibling exist together, so that an outdent has something to
pass and an indent something to go under.  `MaxOrder` leaves room for one gap
beyond the dense orders of a level.  Two users are enough for ownership, since
no operation names more than two.  In the pool three calls are a reader, a
writer and a third that arrives while one waits; with four connections they are
the most for which the pool cannot run dry (the theorem below has the general
bound).  Two states of the file tell an old one from a new one, and two
statements are one before and one after whatever another call does.  `MaxOrder` and the numbers of reviews and days only cut off further
repetitions of the same steps.  Three reviews are a lapse, a
recall and what follows; five days allow an early, a timely and a late review.
`BoundedSpec`
of `MCFlashcards` keeps the two questions apart: many texts with few reviews, or
one text with all days, ratings and cram reviews (`FewReviews`, `OneCard`).  The
texts are every delimiter and every way two clozes can
come, go and be renumbered.  Three requests on documents are an upload, a
deletion and a highlight at once.  In `Editor` three rows are a document with
two bullets, a bullet below a bullet, or several documents; four acts of the
user are what the longest of the races needs (type, leave, type again, leave
again) with all that timers, requests and answers do in between.  In `Accounts`
three notes are a parent, a child and the one added after it, two accounts are
the one that adopts and one that does not, and two requests are the creation of
an account and whatever it meets; nothing counts, so processes may start and
stop and requests come and go without a bound.  Two texts tell a content from an
older one; `BoundedSpec` of `MCAccounts` has both in use only while one process
runs at a time and there are no more than two notes, since
`OneProcessKeepsCards` is the only property that tells texts apart.

In `Import` three lines at indents 0, 2 and 5 are every shape of three lines:
deeper by one or by more, back to a level that was there or to one that was not.
Four bullets leave one for somebody else; three operations (`MaxFree`) before
the import are a source, a target and what happens to one of them, two
(`MaxActs`) while it runs are a bullet moved and another deleted.  The texts have
a title that is the beginning of another, one with markup before it, a text that
refers to itself, and lists with a title of their own or with one that is a
reference.

In `Tab` three cards and lists of two (`Limit`) make a list that does not show
all that is due.  Four acts (`MaxReviewActs`) begin a session and rate both cards
with one act of somebody else, a loss, or a second session.  A document of two
pages and one of one make the old stage longer or shorter than the new; the
second has a highlight and a note of it from an earlier session (`Earlier`); three
acts (`MaxActs`) open one, highlight or zoom, and open or delete another, with
every order of what they cause.  `BoundedSpec` of `MCTab` lets the reviewer and
the reader each run to its bound alone, and together for one act each with one
card; no page is drawn by more than two calls at once.  The initial states are
those up to a permutation of the cards.

Symmetry is used for sets of model values in safety runs only.  Deadlock is
switched off only where the instance runs out of moves by itself: with a hung
query (`OutlineMove`), and when every id of a document has been drawn and every
user deleted (`PdfStore`), when the user has stopped and all is saved or has
come (`Editor`, `Tab`), and when the import is over and the others have done
what their bound allows (`Import`).

Fairness (`OpFairSpec` only, stated in `LockPool`).  A goroutine that can run
runs (weak fairness).  Writers that queue for the mutex and requests that queue
for a connection are not passed over for ever (strong fairness): `sync.Mutex`
hands over to a waiter after a millisecond, `database/sql` gives a returned
connection to a waiting request.  Nothing is assumed of arrivals.

### Disagreements found

Each is a run that TLC ends with a counterexample; `PROJECT.json` quotes the
line of the repository that says otherwise.

1. `MoveRem` accepts a descendant as the new parent: the branch leaves the tree
   and the queries on it do not end (`rems.go` 453).
2. Five concurrent requests for due or cram cards block each other and, through
   `DB.mu`, everybody else (`cards.go` 266, 362).
3. Removing the first of two unnumbered clozes gives its review history to the
   second and deletes the second's (`cards.go` 145, `parser.go` 248).

The models also contain the following, which a reader of the code may not
expect; no run is spent on them.  `OutdentRem` does not refresh the list card
of the bullet that receives the child (`rems.go` 427), so `ListFreshOnLoss` is
about the cards that lose one.  A second Again while relearning sets the
stability to that of a first Again, which can be more than it was (`fsrs.go`
295).  Every Again is due a day later.  For a very late card Hard promises a
later date than Good (`fsrs.go` 328).  A rating that is none is applied as Good
and logged as it came (`cards.go` 422).  And a user of the web client who does
not wait can lose text in several ways, none of which `ScreenMirrorsServer`
excludes, since each of them makes `calm` false: Enter within 300 ms of typing
shows the old text again (`app.js` 794); a title or a bullet typed just before a
click on another document is saved to that one (`app.js` 885, 764); two saves of
one bullet can be handled in the wrong order (`app.js` 756); typing on while a
new bullet is being created makes two (`app.js` 763).  What is typed into a
bullet is at least never saved to a row that the bullet has not shown
(`SavedWhereTyped`), wherever the bullet has gone meanwhile.

References depend on the order of events (`cards.go` 30): `[[Go]]` saved when
there is only "Google" leads to "Google" and stays there when "Go" is written
later, while the other order leads to "Go"; a bullet that consists of `[[Go]]`
has "Go" as its own title and captures references nobody else has; a title
inside markup is found only by references that are older.  A reference whose
target was deleted leads nowhere until its own text is saved again, even when a
bullet of that title comes back, which is why `NamedIsLinked` excepts it.
Saving a child may change the references of a parent that lists its children,
for the same reason: they are looked up anew.  And when a bullet is deleted, a
parent whose title it was named by may take over the references it leaves
behind, if that parent lists its children and is saved again because it has lost
one; this is the one case in which `LinksStay` lets a reference lead elsewhere.

In the reviewer a second press before the answer rates the same card again and
passes over the next (`app.js` 1024); a rating that failed counts as made
(`app.js` 1035); an answer that comes between the start of a session and its
list begins that session at the second card (`app.js` 1038); with two lists
under way a list of practice cards may be shown in the mode of due cards
(`app.js` 946); and no cards at all leave the old card on the screen, because the
counters throw on null (`app.js` 938).  "All done" is about the list that was
fetched; cards beyond its limit may still be due.

In the reader two documents opened at once may mix (`app.js` 1655), a page that
was still being drawn when the next document came stays blank there (1806), as
does one that was being drawn when the zoom changed (1921), and a passage
selected while another document is being opened makes a note that leads to the
wrong one (2253).  `ReaderAgrees` and `PinsAgree` say that these are the only
ways.

With two processes on one data file `CardsFollowText` of `Accounts` fails:
`UpdateRem` in one process reads a row, another process changes its text or
adopts it, and the first writes the text back that it has read without touching
the cards (`rems.go` 198), or makes cards for the default user.
`CreateRemAfter` in one process reads the parent of a sibling, another adopts
both, and the first inserts a note of the default user below a note that is now
somebody else's (`rems.go` 117, 138); `FamiliesStayTogether` says that families
are parted in no other way.  And notes stay with a user nobody can log in as
when a server started before the first account goes on serving requests without
a login (`main.go` 100), when one is told not to ask for a login and there is no
sole account (`main.go` 233), when an account is created while a request of the
default user is under way, or while a server seeds the file, which asks for
accounts first and then adds its notes one by one (`main.go` 297);
`NothingStranded` says that these, which `asDefault` names, are the only ways as
long as the statements of an adoption do not fail.
PDF documents and their highlights are not adopted at all: they stay with the
default user when the notes next to them move (`users.go` 122).

## 4. Proofs

`OutlineProofs`, for any finite set of bullets and any sets of users and texts:

- `TypeCorrect`, `Ownership`: `Spec => []TypeOK`, `Spec => []ParentOwned`, move
  included.
- `ListsLoseNothingUnseen`: `Spec => ListFreshOnLoss`, an action property.
- `Acyclicity`, `ChainsReachRoot`, `OrdersDistinct`: under `EditorSpec` there is no
  cycle of parents, the parents of every bullet lead up to the root (which
  `OutlineMoveCycle` shows to fail under `Spec`), and siblings have distinct
  orders.
- `NestedListsImplemented`: `EditorSpec => ImplementsNestedLists`, the refinement.
- `ReadingOrderKept`: `EditorSpec => ReadingOrder`, an action property over all
  bullets at once.

The invariants are inductive only together, and each theorem adds a conjunct to
the ones before it: `ParentOwned` needs `TypeOK` (a missing row has no parent),
`Acyclic` needs both (a new bullet must not be anybody's parent already), and
`AncestorsReachRoot` needs all three, because every chain of parents of a finite
forest reaches a root (`AcyclicReaches`).  `DistinctOrders` rests on `TypeOK` and
`ParentOwned`: a bullet that changes level takes an order that is free there
(`PlaceDistinct`).  The lemmas about `Subtree` say that the rows of the
recursive query are the least closed set, which is what a deletion and an indent
need to know.  `ListFreshOnLoss` needs `CardsOnLists`, that only a row with a
list text has a card: an operation re-syncs the lists it takes from, and a
bullet that it passes over because it is no list must have no card to go stale.

The refinement has three layers.  Rows with distinct orders have exactly one
sequence in order (`SomeOrder`, `OneOrder`: the place of a row is the number of
rows before it, plus one).  So a list is the same after a step that keeps its
rows in their order, closes up around a row that it loses, and opens up around
one that it gains (`SameList`, `LosesOne`, `GainsOne`), whatever the orders
themselves have become.  And each operation either gives one row a place in a
level with room made for it (`PlaceLevels`, used for both ways to create a
bullet, for indent and for outdent) or removes a branch; what remains is where
the row ends up (`InsertIsAdd`, `IndentIsIndent`, `OutdentIsOutdent`,
`DeleteIsPrune`).  The invariant `Good` is the conjunction of the theorems
above; without distinct orders there would be several lists in order, and the
mapping would not be one.

`ReadingOrder` does not follow from the refinement, since it relates bullets of
different lists.  One bullet is above another when it is an ancestor of it or
when they lie below two siblings in order (`Shown`, which `ShownPairsAre` shows
to be `ShownBefore`).  So it is enough that no row leaves the subtree of an
ancestor (`SubtreeKept`) and that siblings which stay siblings keep their
order.  An insert does both, an indent moves the bullet below the sibling that
was just above it, and an outdent breaks the first for the subtree of the old
parent only, which is the pairs `MovedPast` names.

`LockPoolProofs`, for any finite set of calls, any pool and any contents of the
file:

- `TypeCorrect`, `MutualExclusion`, `PoolAccounting`: `TypeOK`, `Exclusive` and
  `Accounted` are invariants.  (No run checks `Exclusive` by itself: what two
  calls inside can do to each other is what `ImplementsAtomicOps` forbids.)  The inductive invariant `LockInv` adds that the
  readers are exactly the calls inside an operation that reads, that the writer
  is the one call that drains the readers or is inside one that writes, and
  that there are no readers in the second case.
- `NoDeadlockBelowPool`: with fewer calls than connections the calls never all
  wait for a connection.  It follows from the accounting by counting: if
  everybody who holds a connection holds one and waits for a second, there are
  at most as many connections in use as calls.  The violation run shows that
  the bound is exact.
- `OperationsAreAtomic`: `OpSpec => ImplementsAtomicOps`, the refinement.  Beside
  the invariant of the lock it needs `FileInv`: an operation under way has seen
  nothing but what the file holds now.  Only a write changes the file, and then
  `LockInv` says that nobody else is inside; the readers it lets in have seen
  nothing yet.

`PdfStoreProofs`, for any sets of documents, highlights, users and requests:

- `TypeCorrect`, `RecordsKeepFiles`, `HighlightsStayOnDocuments`,
  `FilesAreAccountedFor`: `TypeOK`, `RecordHasFile`, `HighlightsBelong` and
  `NothingLeftBehind` are invariants.  The inductive invariant adds
  `Bookkeeping`, what a request may rely on after it has released the lock: an
  id is drawn once, so a row that was found is either unchanged or gone for
  good, and the id of an upload under way has no row that anybody could have
  found.  Without it `HighlightsBelong` is not inductive: a highlight could join
  a document of the same id that belongs to somebody else.

`EditorProofs`, for any sets of rows, editors and texts, and any number of
requests and views under way:

- `TypeCorrect`, `TextsStayInTheirRows`: `TypeOK` and `SavedWhereTyped` are
  invariants.  A text can wait in many places before it is saved or shown, so the
  inductive invariant `SaidEverywhere` says of each that it waits for its row:
  on the server, on the screen, in the timers of bullets off the screen, in
  requests, in the snapshots of views, and in the editor whose row is still
  being created.
- `ScreenMirrors`: `ScreenMirrorsServer` is an invariant.  It speaks of a tab at
  rest, and the invariant `Following` says what holds on the way there while
  `calm` does.  While no view is being changed, the screen shows the document
  but for what is under way (`Viewed`): each text on it is the server's or has
  one timer or one save that will make it so (`Due`), saves go to rows on the
  screen only, and at most one row is being created, for the editor that shows
  it (`Creating`).  While a view is changed nothing else is under way, and what
  has been loaded of it is what the server has (`Faithful`).  `Grounded`, that the
  rows form trees, is why a deletion never takes the current document.

`FlashcardsProofs`, for any sets of bullets, cards and texts, any stabilities and
any number of days and reviews:

- `TypeCorrect`, `MatchesText`, `LogExplains`, `Relearning`: `TypeOK`,
  `CardsMatchText`, `LogExplainsCard` and `RelearningIsALapse` are invariants;
  `EditsKeepCards`: `Spec => EditKeepsCards`.  Together the invariants are
  inductive as they stand: the sync matches by type and index, which is a key
  among the parsed cards of any text (`TextParses`) and, by `CardsMatchText`,
  among the stored ones.  What one card's log has to do with its schedule is
  `Story`, proved for a review that counts, for one in cram mode, and for a sync
  that leaves the card, makes it or takes it.

`ImportProofs`, for any sets of bullets, titles, texts and documents and any number
of operations of others:

- `TypeCorrect`, `BacklinksAreComplete`, `NamedAreLinked`, `NestingIsKept`: `TypeOK`,
  `BacklinksComplete`, `NamedIsLinked` and `NestingKept` are invariants;
  `LinksAreKept`: `Spec => LinksStay`.
- The inductive invariant adds `Rooted`, that any set of bullets has one that is
  under none of them, so there are no cycles, because an outdent below its own parent would otherwise be possible;
  `MadeOnce`, that two lines never make one bullet; and `Frontier`, what the
  stack is: one entry per level, made by lines in order, and after or at each
  line one that is indented no more.  From it follows that the bullet on top of
  what `Popped` leaves is that of `LineOver`, the last earlier line that is
  indented less, which is what `NestingKept` says of the document.

`AccountsProofs`, for any sets of accounts, notes, processes and requests:

- `TypeCorrect`, `FamiliesTogether`, `NoneStranded`, `CardsOfOneProcess`: `TypeOK`,
  `FamiliesStayTogether`, `NothingStranded` and `OneProcessKeepsCards` are
  invariants.
- The inductive invariant adds what a request still knows when it acts: `Known`
  (its process runs, its user exists, the rows it read are there), `Placed`
  (unless `torn`, the note below which it is about to insert another is its
  user's), `Strays` (once there are accounts and unless `asDefault`, nothing on
  its way works for the default user and no server seeds), and `Fresh` (while
  only one process has run, the row that a request read is the row that it
  writes: it kept the lock between).  Whatever adds a note, be it `Add`,
  `AddAfter` or `Seed`, is `Adding`: it adds a row to a user who may have it
  (`Rightful`).

`TabProofs`, for any finite set of cards, any limit of a list, any documents with
any numbers of pages, any passages, any zooms, and any number of acts:

- `RatingsAreAsShown`, `DoneIsDone`: `RatedAsShown` and `DoneMeansDone` are
  invariants.  The inductive invariant has four parts: `Typed`, with the bound
  that each act moves the index or adds a call; `Known`, that a list has no
  cards that could become due again; `Shown`, that the card on the screen is
  that of the index unless a list is on its way; and `Rated`, that the cards
  before the index are done.
- `TabTyped`, `PinsAreRight`, `ReaderShowsDocument`: `TabTypeOK`, `PinsAgree` and
  `ReaderAgrees` are invariants.  `ReaderAgrees` speaks of a reader at rest; the
  inductive invariant `PdfInv` says what holds on the way there:
  - always: `PdfTypes`; `Fits`, that a pin, on the page or on its way, names a
    highlight's own document and page, and that no deleted highlight comes back;
    and `Running`, that each page that counts as being drawn has a call that
    draws it;
  - while `calm` holds: `Read`, that a passage is of the document it is said to
    be of; `Drawn`, that each such page has one call, which draws at the current
    zoom, and that no page is forgotten: all are asked for, or a call is under
    way that asks for more when it ends; `Staged`, what has been put on the stage
    at each point of a load; `Alone`, that nothing else is under way during a
    load; `Listed`, that the list of highlights is the server's but for the
    answers on their way; and `Boxed`, that a drawn page has the boxes of the
    list.

The assumptions are the named ones of the modules (`OutlineAssumption`,
`LockPoolAssumption`, `PdfStoreAssumption`, `EditorAssumption`,
`FlashcardsAssumption`, `ReferencesAssumption`, `ImportAssumption`,
`AccountsAssumption`, `TabAssumption`, `PdfReaderAssumption`): finiteness where something is counted,
the types of the texts and documents, and that `Nil` and its like are no other
value.  TLC evaluates them on each run.

Only model-checked: the liveness property `Answered` (fairness is outside the
prover's reach), and `RoundTrip`, which computes with a function that is
recursive over the tree.

## 5. Not modelled

- Search and full-text ranking and the knowledge graph: queries that change
  nothing.
- In the parser, which of several delimiters in one text wins and what
  `CleanDelimiters` leaves: functions of a string with no state, which tests
  reach.  The models have texts for the outcomes.
- The tools of the MCP server one by one: each calls operations that the other
  models have, and the server keeps nothing between two of them.
- Sessions, tokens and keys, except that a request may carry the credential of
  any account there is; reviews, deletions and moves by two processes at once.
- In the web client: the Tab key (its effect on the rows is in `Outline`, its
  reload is that of Enter), the creation of a document, the sidebar, search and
  graph; a second tab of the editor or the reader.  In the reader, pages beyond
  the reach of the viewport, and a highlight that flashes.
- Hashing, tokens and cookies; layout, PDF rendering and the vendored pdf.js.
- Failures of single SQL statements inside an operation: a transaction that
  fails is rolled back.  In the models are the failed insert of a document and
  the failed list of a deleted user's files (`PdfStore`) and the failure of any
  transaction of `Accounts` as a whole.  Not in them are statements whose errors
  the code passes over and commits all the same: parent re-syncs (`rems.go` 97
  and its like), shifts of siblings (`rems.go` 46 and its like), the four updates
  of an adoption (`users.go` 123), and a scanner that stops at a line too long in
  the middle of an import (`graph.go` 229).
- Details on which no property depends: elapsed time in fractions of a day
  (`fsrs.go` 256; the models count days); the order of `GetTree` by the text of
  `printf('%08d', sort_order)`, which is the numeric order from 0 to 99,999,999
  (`rems.go` 508); the page that `fitPdfWidth` waits for before it sets the zoom
  (`app.js` 1933; only `zoomPdf` is modelled); the waits for the canvas and for
  the text layer of a page, which are one step (`app.js` 1779, 1789, 1798); and
  the note of a highlight that is not made because the reader was closed before
  the answer came (`app.js` 2367; the model always makes it).

## 6. Plan

Done: the outline and its abstract specification, the lock and the pool and the
operations under them, cards and reviews, PDF files, references, import and
export, accounts and the processes that share a file, and of the web client the
editor, the reviewer and the PDF reader.  All properties of the passing runs
are proved but the two that section 4 names.  Next: the failure of a single
statement inside an outline transaction, for the ignored errors of parent
re-syncs.
