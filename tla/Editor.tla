------------------------------- MODULE Editor -------------------------------
(***************************************************************************)
(* One browser tab of the web client over the rows of rems.  Bullets and   *)
(* the title are edited in place and saved when the user has paused; a     *)
(* view is loaded with two requests and then replaces the one on screen;   *)
(* several requests are on their way at once and overtake each other.      *)
(* The row and the document a request is about are partly fixed when the   *)
(* user acts and partly looked up when a timer fires or an answer arrives. *)
(***************************************************************************)
EXTENDS Integers, FiniteSets

CONSTANTS
  Row,       \* ids of rems
  Fresh,     \* the editors of an empty view, which have no rem yet
  Text,      \* what the user types into bullets
  Title,     \* what the user types into the title
  Blank,     \* the empty content
  Nil,       \* no row; as a view, the home view
  MaxActs    \* keys and clicks of the user (bound of the model)

ASSUME EditorAssumption ==
  /\ Nil \notin Row \union Text \union Title \union {Blank}
  /\ Text \intersect Title = {} /\ Blank \notin Text \union Title
  /\ MaxActs \in Nat

VARIABLES
  content,   \* server: the content of each row, Nil when there is none
  home,      \* server: its parent, Nil at the top level
  doc,       \* currentDocID
  header,    \* the document whose title the title input shows, Nil: disabled
  headline,  \* the text of the title input
  titled,    \* titleTimeout: the text it will save, Nil when it does not run
  shown,     \* the text of the bullet of each row on screen, Nil: not there
  timer,     \* bullets on screen whose timer runs
  orphan,    \* row and text of bullets off screen whose timer still runs
  fresh,     \* the editors of empty views
  calls,     \* requests that the server has not handled, and its answers
  loads,     \* views being loaded
  said,      \* for each row, what was typed into bullets that showed it
  calm,      \* the user has waited for the tab, and no request has failed
  acts       \* what the user has done so far, counted

server == <<content, home>>
head == <<header, headline>>
screen == <<head, shown, timer, orphan, fresh>>
watch == <<calm, acts>>
vars == <<server, doc, screen, titled, calls, loads, said, watch>>

Words == Text \union Title \union {Blank}
Empty == [r \in Row |-> Nil]
NoEditor == [row |-> Nil, text |-> Blank, timer |-> FALSE, live |-> FALSE]

Kinds == {"put", "post", "enter", "delete",  \* requests
          "posted", "reload"}                \* answers

Call(kind, r, t, at, by) ==
  [kind |-> kind, row |-> r, text |-> t, at |-> at, by |-> by]
Put(r, t) == Call("put", r, t, Nil, Nil)

Send(c) == calls' = calls \union {c}

\* The server handles c; an answer that the client acts on replaces it.
Answer(c, answers) == calls' = (calls \ {c}) \union answers

\* The user acts, and has waited before if patient.
Act(patient) ==
  /\ acts < MaxActs
  /\ acts' = acts + 1
  /\ calm' = (calm /\ patient)

There == {r \in Row : content[r] # Nil}

\* GetTree: the rows strictly below d, all rows for the home view.
Below(d) ==
  LET Closed == {S \in SUBSET There :
                   \A r \in There : home[r] \in S \union {d} => r \in S}
  IN IF d = Nil THEN There ELSE {r \in There : \A S \in Closed : r \in S}

Tree(d) == [r \in Row |-> IF r \in Below(d) THEN content[r] ELSE Nil]

\* The rows whose bullets are on screen.
OnScreen ==
  {r \in Row : shown[r] # Nil} \union
  ({fresh[e].row : e \in {f \in Fresh : fresh[f].live}} \ {Nil})

TextOf(r) ==
  IF shown[r] # Nil THEN {shown[r]}
  ELSE {fresh[e].text : e \in {f \in Fresh : fresh[f].live /\ fresh[f].row = r}}

\* Nothing runs and nothing is under way.
Quiet ==
  /\ titled = Nil /\ timer = {} /\ orphan = {}
  /\ \A e \in Fresh : ~fresh[e].timer
  /\ calls = {} /\ loads = {}

\* No view is being loaded, nor will be on an answer.
Settled == loads = {} /\ \A c \in calls : c.kind \in {"put", "post", "posted"}

----------------------------------------------------------------------------
(* The timers of the bullets.                                              *)

\* The user types into the bullet of r, which starts its timer again.
Type(r, t) ==
  /\ shown[r] \notin {Nil, t}
  /\ shown' = [shown EXCEPT ![r] = t]
  /\ timer' = timer \union {r}
  /\ said' = [said EXCEPT ![r] = @ \union {t}]
  /\ Act(Settled /\ \A c \in calls : c.row # r)
  /\ UNCHANGED <<server, doc, head, titled, orphan, fresh, calls, loads>>

TypeFresh(e, t) ==
  /\ fresh[e].live /\ fresh[e].text # t
  /\ fresh' = [fresh EXCEPT ![e].text = t, ![e].timer = TRUE]
  /\ said' = IF fresh[e].row = Nil THEN said
             ELSE [said EXCEPT ![fresh[e].row] = @ \union {t}]
  /\ Act(Settled /\ calls = {})
  /\ UNCHANGED <<server, doc, head, titled, shown, timer, orphan, calls, loads>>

\* Variant: the save goes to the document on screen, like that of the title.
FireIntoDocument(r) ==
  /\ r \in timer
  /\ timer' = timer \ {r}
  /\ Send(Put(IF doc = Nil THEN r ELSE doc, shown[r]))
  /\ UNCHANGED <<server, doc, head, titled, shown, orphan, fresh, loads, said, watch>>

\* The timer of a bullet that has a row.
Fire(r) ==
  /\ r \in timer
  /\ timer' = timer \ {r}
  /\ Send(Put(r, shown[r]))
  /\ UNCHANGED <<server, doc, head, titled, shown, orphan, fresh, loads, said, watch>>

\* The timer of a bullet that has been taken off the screen meanwhile.
FireOrphan(o) ==
  /\ orphan' = orphan \ {o}
  /\ Send(Put(o.row, o.text))
  /\ UNCHANGED <<server, doc, head, titled, shown, timer, fresh, loads, said, watch>>

\* An editor off the screen without a timer or a request is gone.
Kept(f, cs) ==
  [e \in Fresh |->
     IF f[e].live \/ f[e].timer \/ \E c \in cs : c.by = e THEN f[e] ELSE NoEditor]

\* The timer of the editor of an empty view: a row is created, below the
\* document that is current now, and from the answer on the editor is its
\* bullet.
FireFresh(e) ==
  /\ fresh[e].timer
  /\ IF fresh[e].row # Nil
     THEN Send(Put(fresh[e].row, fresh[e].text))
     ELSE IF fresh[e].text # Blank
          THEN Send(Call("post", Nil, fresh[e].text, doc, e))
          ELSE UNCHANGED calls
  /\ fresh' = Kept([fresh EXCEPT ![e].timer = FALSE], calls')
  /\ UNCHANGED <<server, doc, head, titled, shown, timer, orphan, loads, said, watch>>

\* The id of the new row arrives.
Posted(c) ==
  /\ c.kind = "posted"
  /\ Answer(c, {})
  /\ said' = [said EXCEPT ![c.row] = @ \union {fresh[c.by].text}]
  /\ fresh' = Kept([fresh EXCEPT ![c.by].row = c.row], calls')
  /\ UNCHANGED <<server, doc, head, titled, shown, timer, orphan, loads, watch>>

----------------------------------------------------------------------------
(* The title.                                                              *)

TypeTitle(t) ==
  /\ header # Nil /\ headline # t
  /\ headline' = t
  /\ titled' = IF doc # Nil THEN t ELSE titled
  /\ Act(loads = {} /\ calls = {})
  /\ UNCHANGED <<server, doc, header, shown, timer, orphan, fresh, calls, loads, said>>

\* The title is saved to the document that is current now.  (In the home view
\* there is none and the request fails.)
FireTitle ==
  /\ titled # Nil
  /\ titled' = Nil
  /\ IF doc # Nil THEN Send(Put(doc, titled)) ELSE UNCHANGED calls
  /\ UNCHANGED <<server, doc, screen, loads, said, watch>>

----------------------------------------------------------------------------
(* Views.                                                                  *)

\* zoomTo: the document is current at once, the screen follows.
BeginLoad(d) ==
  /\ doc' = d
  /\ loads' = loads \union {[at |-> d, stage |-> IF d = Nil THEN "tree" ELSE "rem",
                             title |-> Blank, tree |-> Empty]}

\* A bullet, an item of the sidebar or the home link is clicked.
Zoom(d) ==
  /\ d \in There \union OnScreen \union {Nil}
  /\ BeginLoad(d)
  /\ Act(Quiet)
  /\ UNCHANGED <<server, screen, titled, calls, said>>

\* GET /api/rems/{id}: nothing more happens when the row is gone.
GetRem(l) ==
  /\ l.stage = "rem"
  /\ loads' = (loads \ {l}) \union
       (IF l.at \notin There THEN {}
        ELSE {[l EXCEPT !.stage = "tree", !.title = content[l.at]]})
  /\ UNCHANGED <<server, doc, screen, titled, calls, said, watch>>

\* GET /api/tree; a null tree when the document has gone since.
GetTree(l) ==
  /\ l.stage = "tree"
  /\ loads' = (loads \ {l}) \union
       {[l EXCEPT !.stage = IF l.at \notin There \union {Nil} THEN "null" ELSE "back",
                  !.tree = Tree(l.at)]}
  /\ UNCHANGED <<server, doc, screen, titled, calls, said, watch>>

\* Variant: root.innerHTML is not cleared.
AddBullets(tree) ==
  /\ shown' = [r \in Row |-> IF tree[r] # Nil THEN tree[r] ELSE shown[r]]
  /\ UNCHANGED <<timer, orphan>>
  /\ IF tree = Empty
     THEN \E e \in Fresh : fresh[e] = NoEditor
            /\ fresh' = [fresh EXCEPT ![e].live = TRUE]
     ELSE UNCHANGED fresh

\* The bullets on screen are thrown away with what has been typed into them,
\* but their timers run on.
ReplaceBullets(tree) ==
  /\ shown' = tree
  /\ timer' = {}
  /\ orphan' = orphan \union {[row |-> r, text |-> shown[r]] : r \in timer}
  /\ LET off == Kept([e \in Fresh |-> [fresh[e] EXCEPT !.live = FALSE]], calls)
     IN IF tree = Empty
        THEN \E e \in Fresh : off[e] = NoEditor
               /\ fresh' = [off EXCEPT ![e].live = TRUE]
        ELSE fresh' = off

Render(l) ==
  /\ l.stage = "back"
  /\ header' = l.at /\ headline' = l.title
  /\ ReplaceBullets(l.tree)
  /\ loads' = loads \ {l}
  /\ UNCHANGED <<server, doc, titled, calls, said, watch>>

\* The title is set before the null tree raises a TypeError.
RenderNull(l) ==
  /\ l.stage = "null"
  /\ header' = l.at /\ headline' = l.title
  /\ loads' = loads \ {l}
  /\ UNCHANGED <<server, doc, titled, shown, timer, orphan, fresh, calls, said, watch>>

----------------------------------------------------------------------------
(* Keys in a bullet that has a row.                                        *)

Enter(r) ==
  /\ r \in OnScreen
  /\ Send(Call("enter", r, Blank, Nil, Nil))
  /\ Act(Quiet)
  /\ UNCHANGED <<server, doc, screen, titled, loads, said>>

Backspace(r) ==
  /\ r \in OnScreen /\ Blank \in TextOf(r)
  /\ Send(Call("delete", r, Blank, Nil, Nil))
  /\ Act(Quiet)
  /\ UNCHANGED <<server, doc, screen, titled, loads, said>>

\* reloadCurrentView, when the answer arrives.
Reload(c) ==
  /\ c.kind = "reload"
  /\ Answer(c, {})
  /\ BeginLoad(doc)
  /\ UNCHANGED <<server, screen, titled, said, watch>>

----------------------------------------------------------------------------
(* The server.                                                             *)

\* PUT /api/rems/{id}.
ServePut(c) ==
  /\ c.kind = "put"
  /\ Answer(c, {})
  /\ content' = IF c.row \in There THEN [content EXCEPT ![c.row] = c.text] ELSE content
  /\ UNCHANGED <<home, doc, screen, titled, loads, said, watch>>

\* A row with an id that has never been used.
Insert(b, p, t) ==
  /\ said[b] = {}
  /\ content' = [content EXCEPT ![b] = t]
  /\ home' = [home EXCEPT ![b] = p]
  /\ said' = [said EXCEPT ![b] = {t}]

\* POST /api/rems with a parent: refused when the parent is gone.
ServePost(c) ==
  /\ c.kind = "post"
  /\ IF c.at \in There \union {Nil}
     THEN \E b \in Row : Insert(b, c.at, c.text)
                         /\ Answer(c, {Call("posted", b, Blank, Nil, c.by)})
                         /\ UNCHANGED fresh
     ELSE /\ Answer(c, {})
          /\ fresh' = Kept(fresh, calls')
          /\ UNCHANGED <<server, said>>
  /\ UNCHANGED <<doc, head, titled, shown, timer, orphan, loads, watch>>

\* POST /api/rems with a sibling: refused when the sibling is gone.
ServeEnter(c) ==
  /\ c.kind = "enter"
  /\ IF c.row \in There
     THEN \E b \in Row : Insert(b, home[c.row], Blank)
                         /\ Answer(c, {Call("reload", Nil, Blank, Nil, Nil)})
     ELSE Answer(c, {}) /\ UNCHANGED <<server, said>>
  /\ UNCHANGED <<doc, screen, titled, loads, watch>>

\* Variant: the client does not look at the tree again after a deletion.
ServeDeleteQuietly(c) ==
  /\ c.kind = "delete"
  /\ LET gone == {c.row} \union Below(c.row)
     IN /\ content' = [r \in Row |-> IF r \in gone THEN Nil ELSE content[r]]
        /\ home' = [r \in Row |-> IF r \in gone THEN Nil ELSE home[r]]
  /\ Answer(c, {})
  /\ UNCHANGED <<doc, screen, titled, loads, said, watch>>

\* DELETE /api/rems/{id}: the view is loaded again whether it worked or not.
ServeDelete(c) ==
  /\ c.kind = "delete"
  /\ LET gone == {c.row} \union Below(c.row)
     IN /\ content' = [r \in Row |-> IF r \in gone THEN Nil ELSE content[r]]
        /\ home' = [r \in Row |-> IF r \in gone THEN Nil ELSE home[r]]
  /\ Answer(c, {Call("reload", Nil, Blank, Nil, Nil)})
  /\ UNCHANGED <<doc, screen, titled, loads, said, watch>>

\* A request or its answer is lost.  Nothing is sent again.
Fail(c) ==
  /\ Answer(c, {})
  /\ fresh' = Kept(fresh, calls')
  /\ calm' = FALSE
  /\ UNCHANGED <<server, doc, head, titled, shown, timer, orphan, loads, said, acts>>

FailLoad(l) ==
  /\ loads' = loads \ {l}
  /\ calm' = FALSE
  /\ UNCHANGED <<server, doc, screen, titled, calls, said, acts>>

----------------------------------------------------------------------------
\* A document with its bullets is on screen, beside other documents.
Init ==
  \E d \in Row, rows \in SUBSET Row :
    /\ d \in rows
    /\ content = [r \in Row |-> IF r \in rows THEN Blank ELSE Nil]
    /\ home \in [Row -> {Nil, d}]
    /\ \A r \in Row : home[r] = d => r \in rows \ {d}
    /\ doc = d /\ header = d /\ headline = Blank
    /\ titled = Nil
    /\ shown = Tree(d)
    /\ timer = {} /\ orphan = {} /\ calls = {} /\ loads = {}
    /\ \/ shown # Empty /\ fresh = [e \in Fresh |-> NoEditor]
       \/ shown = Empty /\ \E e \in Fresh :
            fresh = [[f \in Fresh |-> NoEditor] EXCEPT ![e].live = TRUE]
    /\ said = [r \in Row |-> IF r \in rows THEN {Blank} ELSE {}]
    /\ calm = TRUE /\ acts = 0

User ==
  \/ \E t \in Text \union {Blank} :
       (\E r \in Row : Type(r, t)) \/ (\E e \in Fresh : TypeFresh(e, t))
  \/ \E t \in Title : TypeTitle(t)
  \/ \E d \in Row \union {Nil} : Zoom(d)
  \/ \E r \in Row : Enter(r) \/ Backspace(r)

Client ==
  \/ \E r \in Row : Fire(r)
  \/ \E o \in orphan : FireOrphan(o)
  \/ \E e \in Fresh : FireFresh(e)
  \/ FireTitle
  \/ \E l \in loads : Render(l) \/ RenderNull(l)
  \/ \E c \in calls : Posted(c) \/ Reload(c)

Server ==
  \/ \E c \in calls : ServePut(c) \/ ServePost(c) \/ ServeEnter(c) \/ ServeDelete(c) \/ Fail(c)
  \/ \E l \in loads : GetRem(l) \/ GetTree(l) \/ FailLoad(l)

Next == User \/ Client \/ Server

Spec == Init /\ [][Next]_vars

----------------------------------------------------------------------------
\* Types; only the current view has an editor without a row, and only when it
\* is empty.
TypeOK ==
  /\ content \in [Row -> Words \union {Nil}]
  /\ home \in [Row -> Row \union {Nil}]
  /\ {doc, header} \subseteq Row \union {Nil}
  /\ headline \in Words
  /\ titled \in Title \union {Nil}
  /\ shown \in [Row -> Words \union {Nil}]
  /\ timer \subseteq {r \in Row : shown[r] # Nil}
  /\ orphan \subseteq [row : Row, text : Words]
  /\ fresh \in [Fresh -> [row : Row \union {Nil}, text : Words,
                          timer : BOOLEAN, live : BOOLEAN]]
  /\ \A e \in Fresh : fresh[e].live =>
       shown = Empty /\ \A f \in Fresh \ {e} : ~fresh[f].live
  /\ calls \subseteq [kind : Kinds, row : Row \union {Nil}, text : Words,
                      at : Row \union {Nil}, by : Fresh \union {Nil}]
  /\ loads \subseteq [at : Row \union {Nil}, stage : {"rem", "tree", "null", "back"},
                      title : Words, tree : [Row -> Words \union {Nil}]]
  /\ said \in [Row -> SUBSET Words]
  /\ calm \in BOOLEAN /\ acts \in 0..MaxActs

\* What is typed into a bullet is never saved to a row that the bullet does not
\* show, however views are replaced, timers run on and requests overtake each
\* other.
SavedWhereTyped == \A r \in Row : content[r] \in Text => content[r] \in said[r]

\* If the user has not acted on a bullet while its save or a new view was on
\* the way, nor left a view before its saves were done, and no request has
\* failed, then, when all is quiet, the screen shows what the server has:
\* every bullet of the document, no other one, each with its text, and the
\* title.
ScreenMirrorsServer ==
  calm /\ Quiet =>
    /\ OnScreen = Below(doc)
    /\ \A r \in OnScreen : TextOf(r) = {content[r]}
    /\ header = doc
    /\ doc # Nil => headline = content[doc]
=============================================================================
