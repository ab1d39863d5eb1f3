---------------------------- MODULE EditorProofs ----------------------------
(* What is typed into a bullet stays with the rows the bullet shows, and a    *)
(* user who waits sees what the server has, for any number of rows, editors,  *)
(* requests and views under way.                                              *)
EXTENDS Editor, TLAPS

\* The record types of TypeOK, by name.
Editors == [row : Row \union {Nil}, text : Words, timer : BOOLEAN, live : BOOLEAN]
Calls == [kind : Kinds, row : Row \union {Nil}, text : Words,
          at : Row \union {Nil}, by : Fresh \union {Nil}]
Loads == [at : Row \union {Nil}, stage : {"rem", "tree", "null", "back"},
          title : Words, tree : [Row -> Words \union {Nil}]]

\* What TypeOK says of the editors of empty views.
Live ==
  /\ fresh \in [Fresh -> Editors]
  /\ \A e \in Fresh : fresh[e].live =>
       shown = Empty /\ \A f \in Fresh \ {e} : ~fresh[f].live

\* If t is something typed into a bullet, it was typed into one of r.
Said(r, t) == t \in Text => t \in said[r]

\* Wherever a text waits to be saved or shown, it waits for its row: on the
\* server, on the screen, in the timers of bullets off the screen, in requests
\* and in the snapshots of views.
SaidEverywhere ==
  /\ \A r \in Row : Said(r, content[r]) /\ Said(r, shown[r])
  /\ \A o \in orphan : Said(o.row, o.text)
  /\ \A e \in Fresh : fresh[e].row \in Row => Said(fresh[e].row, fresh[e].text)
  /\ \A c \in calls : c.kind = "put" => c.row \in Row /\ Said(c.row, c.text)
  /\ \A c \in calls : c.kind = "post" => c.by \in Fresh
  /\ \A c \in calls : c.kind = "posted" => c.by \in Fresh /\ c.row \in Row
  /\ \A c \in calls : c.kind = "delete" => c.row \in Row
  /\ \A l \in loads : \A r \in Row : Said(r, l.tree[r])

Inv == TypeOK /\ SaidEverywhere

\* What becomes of the editors when the timer of one of them fires.
LEMMA TimerSet ==
  ASSUME NEW f \in [Fresh -> Editors], NEW e \in Fresh
  PROVE  /\ [f EXCEPT ![e].timer = FALSE] \in [Fresh -> Editors]
         /\ \A g \in Fresh :
              /\ [f EXCEPT ![e].timer = FALSE][g].live = f[g].live
              /\ [f EXCEPT ![e].timer = FALSE][g].row = f[g].row
              /\ [f EXCEPT ![e].timer = FALSE][g].text = f[g].text
BY DEF Editors

\* When one is put on the screen.
LEMMA LiveSet ==
  ASSUME NEW f \in [Fresh -> Editors], NEW e \in Fresh
  PROVE  /\ [f EXCEPT ![e].live = TRUE] \in [Fresh -> Editors]
         /\ \A g \in Fresh :
              /\ [f EXCEPT ![e].live = TRUE][g].live = IF g = e THEN TRUE ELSE f[g].live
              /\ [f EXCEPT ![e].live = TRUE][g].row = f[g].row
              /\ [f EXCEPT ![e].live = TRUE][g].text = f[g].text
BY DEF Editors

\* When one becomes the bullet of a row.
LEMMA RowSet ==
  ASSUME NEW f \in [Fresh -> Editors], NEW e \in Fresh, NEW r \in Row \union {Nil}
  PROVE  /\ [f EXCEPT ![e].row = r] \in [Fresh -> Editors]
         /\ \A g \in Fresh :
              /\ [f EXCEPT ![e].row = r][g].live = f[g].live
              /\ [f EXCEPT ![e].row = r][g].row = IF g = e THEN r ELSE f[g].row
              /\ [f EXCEPT ![e].row = r][g].text = f[g].text
BY DEF Editors

\* When all are taken off the screen.
LEMMA EditorsOff ==
  ASSUME NEW f \in [Fresh -> Editors]
  PROVE  LET g == [e \in Fresh |-> [f[e] EXCEPT !.live = FALSE]]
         IN /\ g \in [Fresh -> Editors]
            /\ \A e \in Fresh :
                 g[e].live = FALSE /\ g[e].row = f[e].row /\ g[e].text = f[e].text
BY DEF Editors

\* What becomes of a view being loaded when the first answer has arrived.
LEMMA RemArrived ==
  ASSUME NEW l \in Loads, NEW t \in Words
  PROVE  /\ [l EXCEPT !.stage = "tree", !.title = t] \in Loads
         /\ [l EXCEPT !.stage = "tree", !.title = t].tree = l.tree
BY DEF Loads

\* Only editors off the screen are gone.
LEMMA KeptType ==
  ASSUME NEW f \in [Fresh -> Editors], NEW cs
  PROVE  /\ Kept(f, cs) \in [Fresh -> Editors]
         /\ \A e \in Fresh : Kept(f, cs)[e].live = f[e].live
         /\ \A e \in Fresh : Kept(f, cs)[e].row \in Row =>
              Kept(f, cs)[e].row = f[e].row /\ Kept(f, cs)[e].text = f[e].text
BY EditorAssumption DEF Kept, NoEditor, Editors, Words

\* The editors when the user types into one of them.
LEMMA TypedEditors ==
  ASSUME fresh \in [Fresh -> Editors], NEW e \in Fresh,
         NEW t \in Text \union {Blank}, TypeFresh(e, t)
  PROVE  /\ fresh' \in [Fresh -> Editors]
         /\ \A f \in Fresh : fresh'[f].live = fresh[f].live
<1>1. fresh' = [fresh EXCEPT ![e].text = t, ![e].timer = TRUE] /\ t \in Words
  BY DEF TypeFresh, Words
<1> QED BY <1>1 DEF Editors

\* When the timer of one fires: those that are left with a row
\* keep it, and their texts.
LEMMA FiredEditors ==
  ASSUME fresh \in [Fresh -> Editors], NEW e \in Fresh, FireFresh(e)
  PROVE  /\ fresh' \in [Fresh -> Editors]
         /\ \A f \in Fresh : fresh'[f].live = fresh[f].live
         /\ \A f \in Fresh : fresh'[f].row \in Row =>
              fresh'[f].row = fresh[f].row /\ fresh'[f].text = fresh[f].text
<1> DEFINE g == [fresh EXCEPT ![e].timer = FALSE]
<1>1. /\ g \in [Fresh -> Editors]
      /\ \A f \in Fresh : /\ g[f].live = fresh[f].live
                          /\ g[f].row = fresh[f].row /\ g[f].text = fresh[f].text
  BY TimerSet
<1>2. fresh' = Kept(g, calls')
  BY DEF FireFresh
<1> HIDE DEF g
<1> QED BY <1>1, <1>2, KeptType

\* When a new row becomes the one of an editor.
LEMMA PostedEditors ==
  ASSUME fresh \in [Fresh -> Editors],
         NEW c, c.by \in Fresh, c.row \in Row, Posted(c)
  PROVE  /\ fresh' \in [Fresh -> Editors]
         /\ \A f \in Fresh : fresh'[f].live = fresh[f].live
         /\ \A f \in Fresh : fresh'[f].row \in Row =>
              /\ fresh'[f].row = IF f = c.by THEN c.row ELSE fresh[f].row
              /\ fresh'[f].text = fresh[f].text
<1> DEFINE g == [fresh EXCEPT ![c.by].row = c.row]
<1>1. /\ g \in [Fresh -> Editors]
      /\ \A f \in Fresh : /\ g[f].live = fresh[f].live
                          /\ g[f].row = IF f = c.by THEN c.row ELSE fresh[f].row
                          /\ g[f].text = fresh[f].text
  BY RowSet
<1>2. fresh' = Kept(g, calls')
  BY DEF Posted
<1> HIDE DEF g
<1> QED BY <1>1, <1>2, KeptType

\* When a view replaces the one on screen: the view has an editor of its own
\* if it is empty, and the others are off the screen.
LEMMA RenderedEditors ==
  ASSUME fresh \in [Fresh -> Editors], NEW tree, ReplaceBullets(tree)
  PROVE  /\ fresh' \in [Fresh -> Editors]
         /\ \A e \in Fresh : fresh'[e].live =>
              tree = Empty /\ \A f \in Fresh \ {e} : ~fresh'[f].live
         /\ \A f \in Fresh : fresh'[f].row \in Row =>
              fresh'[f].row = fresh[f].row /\ fresh'[f].text = fresh[f].text
<1> DEFINE g == [e \in Fresh |-> [fresh[e] EXCEPT !.live = FALSE]]
           off == Kept(g, calls)
<1>1. /\ g \in [Fresh -> Editors]
      /\ \A e \in Fresh : /\ g[e].live = FALSE
                          /\ g[e].row = fresh[e].row /\ g[e].text = fresh[e].text
  BY EditorsOff
<1>2. \/ tree = Empty /\ \E e \in Fresh : fresh' = [off EXCEPT ![e].live = TRUE]
      \/ fresh' = off
  BY DEF ReplaceBullets
<1> HIDE DEF g
<1>3. /\ off \in [Fresh -> Editors]
      /\ \A e \in Fresh : off[e].live = FALSE
      /\ \A e \in Fresh : off[e].row \in Row =>
           off[e].row = fresh[e].row /\ off[e].text = fresh[e].text
  BY <1>1, KeptType
<1> HIDE DEF off
<1>4. ASSUME NEW e \in Fresh, tree = Empty, fresh' = [off EXCEPT ![e].live = TRUE]
      PROVE  /\ fresh' \in [Fresh -> Editors]
             /\ \A f \in Fresh : /\ fresh'[f].live = IF f = e THEN TRUE ELSE off[f].live
                                 /\ fresh'[f].row = off[f].row
                                 /\ fresh'[f].text = off[f].text
  BY <1>3, <1>4, LiveSet
<1>5. CASE fresh' = off
  BY <1>3, <1>5
<1>6. CASE tree = Empty /\ \E e \in Fresh : fresh' = [off EXCEPT ![e].live = TRUE]
  <2>1. PICK e \in Fresh : fresh' = [off EXCEPT ![e].live = TRUE]
    BY <1>6
  <2>2. \A f \in Fresh : /\ fresh'[f].live = IF f = e THEN TRUE ELSE off[f].live
                        /\ fresh'[f].row = off[f].row
                        /\ fresh'[f].text = off[f].text
    BY <1>4, <1>6, <2>1
  <2>3. fresh' \in [Fresh -> Editors]
    BY <1>4, <1>6, <2>1
  <2> QED BY <1>3, <1>6, <2>2, <2>3
<1> QED BY <1>2, <1>5, <1>6

\* A snapshot of the tree has the server's texts.
LEMMA TreeType ==
  ASSUME TypeOK, NEW d
  PROVE  /\ Tree(d) \in [Row -> Words \union {Nil}]
         /\ \A r \in Row : Tree(d)[r] \in {content[r], Nil}
BY DEF Tree, TypeOK

\* When the second answer has arrived, the view holds a snapshot.
LEMMA TreeArrived ==
  ASSUME TypeOK, NEW l \in loads, GetTree(l)
  PROVE  \A k \in loads' : k \in loads \/ (k \in Loads /\ k.tree = Tree(l.at))
<1>1. l \in Loads /\ Tree(l.at) \in [Row -> Words \union {Nil}]
  BY TreeType DEF TypeOK, Loads
<1>2. ASSUME NEW s \in {"null", "back"}, NEW w \in [Row -> Words \union {Nil}]
      PROVE  /\ [l EXCEPT !.stage = s, !.tree = w] \in Loads
             /\ [l EXCEPT !.stage = s, !.tree = w].tree = w
  BY <1>1 DEF Loads
<1>3. PICK s \in {"null", "back"} :
        loads' = (loads \ {l}) \union {[l EXCEPT !.stage = s, !.tree = Tree(l.at)]}
  BY DEF GetTree
<1> DEFINE k == [l EXCEPT !.stage = s, !.tree = Tree(l.at)]
<1>4. k \in Loads /\ k.tree = Tree(l.at)
  BY <1>1, <1>2
<1> HIDE DEF k
<1> QED BY <1>3, <1>4 DEF k

\* The first view is loaded and nothing has been typed.
LEMMA InitInv == Init => Inv
<1> SUFFICES ASSUME Init PROVE Inv
  OBVIOUS
<1> USE EditorAssumption DEF Init
<1>1. Blank \in Words
  BY DEF Words
<1>2. content \in [Row -> Words \union {Nil}] /\ home \in [Row -> Row \union {Nil}]
  BY <1>1
<1>3. PICK d \in Row : doc = d /\ header = d /\ shown = Tree(d)
  OBVIOUS
<1>4. /\ shown \in [Row -> Words \union {Nil}]
      /\ \A r \in Row : shown[r] \in {content[r], Nil}
  BY <1>2, <1>3 DEF Tree
<1>5. Live /\ \A e \in Fresh : fresh[e].row = Nil
  <2>1. NoEditor \in Editors /\ NoEditor.row = Nil /\ ~NoEditor.live
    BY <1>1 DEF NoEditor, Editors
  <2>2. CASE fresh = [e \in Fresh |-> NoEditor]
    BY <2>1, <2>2 DEF Live
  <2>3. ASSUME shown = Empty, NEW e \in Fresh,
               fresh = [[f \in Fresh |-> NoEditor] EXCEPT ![e].live = TRUE]
        PROVE  Live /\ \A f \in Fresh : fresh[f].row = Nil
    BY <2>1, <2>3 DEF Live, Editors
  <2> QED BY <2>2, <2>3
<1>6. TypeOK
  BY <1>1, <1>2, <1>3, <1>4, <1>5 DEF TypeOK, Live, Editors
<1>7. SaidEverywhere
  BY <1>4, <1>5 DEF SaidEverywhere, Said
<1> QED BY <1>6, <1>7 DEF Inv

\* Every step keeps the types, and an editor on screen the only thing there.
LEMMA TypeStep == Inv /\ [Next]_vars => TypeOK'
<1> SUFFICES ASSUME Inv, [Next]_vars PROVE TypeOK'
  OBVIOUS
<1> USE EditorAssumption
    DEF Inv, TypeOK, SaidEverywhere, Words, Kinds, Call, Put, Send, Answer, Act, There,
        server, head, screen, watch
<1>1. ASSUME NEW r \in Row, NEW t \in Text \union {Blank}, Type(r, t) PROVE TypeOK'
  BY <1>1 DEF Type, Empty
<1>2. ASSUME NEW e \in Fresh, NEW t \in Text \union {Blank}, TypeFresh(e, t) PROVE TypeOK'
  <2>1. fresh \in [Fresh -> Editors]
    BY DEF Editors
  <2>2. /\ fresh' \in [Fresh -> Editors]
        /\ \A f \in Fresh : fresh'[f].live = fresh[f].live
    BY <1>2, <2>1, TypedEditors
  <2>3. Live'
    BY <1>2, <2>2 DEF TypeFresh, Live
  <2>4. said' \in [Row -> SUBSET Words]
    BY <1>2 DEF TypeFresh
  <2> QED BY <1>2, <2>3, <2>4 DEF TypeFresh, Live, Editors
<1>3. ASSUME NEW t \in Title, TypeTitle(t) PROVE TypeOK'
  BY <1>3 DEF TypeTitle
<1>4. ASSUME NEW d \in Row \union {Nil}, Zoom(d) PROVE TypeOK'
  BY <1>4 DEF Zoom, BeginLoad, Empty
<1>5. ASSUME NEW r \in Row, Enter(r) PROVE TypeOK'
  BY <1>5 DEF Enter
<1>6. ASSUME NEW r \in Row, Backspace(r) PROVE TypeOK'
  BY <1>6 DEF Backspace
<1>7. ASSUME NEW r \in Row, Fire(r) PROVE TypeOK'
  BY <1>7 DEF Fire
<1>8. ASSUME NEW o \in orphan, FireOrphan(o) PROVE TypeOK'
  BY <1>8 DEF FireOrphan
<1>9. ASSUME NEW e \in Fresh, FireFresh(e) PROVE TypeOK'
  <2>1. fresh \in [Fresh -> Editors]
    BY DEF Editors
  <2>2. /\ fresh' \in [Fresh -> Editors]
        /\ \A f \in Fresh : fresh'[f].live = fresh[f].live
    BY <1>9, <2>1, FiredEditors
  <2>3. Live'
    BY <1>9, <2>2 DEF FireFresh, Live
  <2>4. fresh[e].row \in Row \union {Nil} /\ fresh[e].text \in Words
    BY <2>1 DEF Editors
  <2>5. calls' \subseteq Calls
    BY <1>9, <2>4 DEF FireFresh, Calls
  <2> QED BY <1>9, <2>3, <2>5 DEF FireFresh, Live, Calls, Editors
<1>10. ASSUME FireTitle PROVE TypeOK'
  BY <1>10 DEF FireTitle
<1>11. ASSUME NEW l \in loads, Render(l) PROVE TypeOK'
  <2>1. fresh \in [Fresh -> Editors]
    BY DEF Editors
  <2>2. /\ l.tree \in [Row -> Words \union {Nil}]
        /\ l.at \in Row \union {Nil} /\ l.title \in Words
    OBVIOUS
  <2>3. Live'
    BY <1>11, <2>1, RenderedEditors DEF Render, ReplaceBullets, Live
  <2> QED BY <1>11, <2>2, <2>3 DEF Render, ReplaceBullets, Live, Editors
<1>12. ASSUME NEW l \in loads, RenderNull(l) PROVE TypeOK'
  BY <1>12 DEF RenderNull
<1>13. ASSUME NEW c \in calls, Posted(c) PROVE TypeOK'
  <2>1. fresh \in [Fresh -> Editors]
    BY DEF Editors
  <2>2. c.by \in Fresh /\ c.row \in Row
    BY <1>13 DEF Posted
  <2>3. Live'
    BY <1>13, <2>1, <2>2, PostedEditors DEF Posted, Live
  <2>4. fresh[c.by].text \in Words
    BY <2>1, <2>2 DEF Editors
  <2>5. said' \in [Row -> SUBSET Words]
    BY <1>13, <2>2, <2>4 DEF Posted
  <2> QED BY <1>13, <2>3, <2>5 DEF Posted, Live, Editors
<1>14. ASSUME NEW c \in calls, Reload(c) PROVE TypeOK'
  BY <1>14 DEF Reload, BeginLoad, Empty
<1>15. ASSUME NEW c \in calls, ServePut(c) PROVE TypeOK'
  BY <1>15 DEF ServePut
<1>16. ASSUME NEW c \in calls, ServePost(c) PROVE TypeOK'
  <2>1. fresh \in [Fresh -> Editors]
    BY DEF Editors
  <2>2. c.at \in Row \union {Nil} /\ c.text \in Words /\ c.by \in Fresh
    BY <1>16 DEF ServePost
  <2>3. CASE c.at \in There \union {Nil}
    <3>1. PICK b \in Row : Insert(b, c.at, c.text)
                        /\ Answer(c, {Call("posted", b, Blank, Nil, c.by)})
                        /\ UNCHANGED fresh
      BY <1>16, <2>3 DEF ServePost
    <3>2. /\ content' \in [Row -> Words \union {Nil}]
          /\ home' \in [Row -> Row \union {Nil}]
          /\ said' \in [Row -> SUBSET Words]
      BY <2>2, <3>1 DEF Insert
    <3>3. calls' \subseteq Calls
      BY <2>2, <3>1 DEF Calls
    <3> QED BY <1>16, <3>1, <3>2, <3>3 DEF ServePost, Calls
  <2>4. CASE c.at \notin There \union {Nil}
    <3>1. Live'
      BY <1>16, <2>1, <2>4, KeptType DEF ServePost, Live
    <3> QED BY <1>16, <2>4, <3>1 DEF ServePost, Live, Editors
  <2> QED BY <2>3, <2>4
<1>17. ASSUME NEW c \in calls, ServeEnter(c) PROVE TypeOK'
  BY <1>17 DEF ServeEnter, Insert
<1>18. ASSUME NEW c \in calls, ServeDelete(c) PROVE TypeOK'
  BY <1>18 DEF ServeDelete
<1>19. ASSUME NEW c \in calls, Fail(c) PROVE TypeOK'
  <2>1. fresh \in [Fresh -> Editors]
    BY DEF Editors
  <2>2. Live'
    BY <1>19, <2>1, KeptType DEF Fail, Live
  <2> QED BY <1>19, <2>2 DEF Fail, Live, Editors
<1>20. ASSUME NEW l \in loads, GetRem(l) PROVE TypeOK'
  <2>1. l \in Loads /\ (l.at \in There => content[l.at] \in Words)
    BY DEF Loads
  <2>2. ASSUME l.at \in There
        PROVE  [l EXCEPT !.stage = "tree", !.title = content[l.at]] \in Loads
    BY <2>1, <2>2, RemArrived
  <2>3. loads' \subseteq Loads
    BY <1>20, <2>2 DEF GetRem, Loads
  <2> QED BY <1>20, <2>3 DEF GetRem, Loads
<1>21. ASSUME NEW l \in loads, GetTree(l) PROVE TypeOK'
  <2>1. loads' \subseteq Loads
    BY <1>21, TreeArrived DEF Loads
  <2> QED BY <1>21, <2>1 DEF GetTree, Loads
<1>22. ASSUME NEW l \in loads, FailLoad(l) PROVE TypeOK'
  BY <1>22 DEF FailLoad
<1>23. CASE UNCHANGED vars
  BY <1>23 DEF vars
<1> QED
  BY <1>1, <1>2, <1>3, <1>4, <1>5, <1>6, <1>7, <1>8, <1>9, <1>10, <1>11, <1>12,
     <1>13, <1>14, <1>15, <1>16, <1>17, <1>18, <1>19, <1>20, <1>21, <1>22, <1>23
  DEF Next, User, Client, Server

\* Every step keeps the texts with their rows.
LEMMA SaidStep == Inv /\ [Next]_vars => SaidEverywhere'
<1> SUFFICES ASSUME Inv, [Next]_vars PROVE SaidEverywhere'
  OBVIOUS
<1> USE EditorAssumption
    DEF Inv, TypeOK, SaidEverywhere, Said, Words, Call, Put, Send, Answer, Act, There,
        server, head, screen, watch
<1>1. ASSUME NEW r \in Row, NEW t \in Text \union {Blank}, Type(r, t) PROVE SaidEverywhere'
  BY <1>1 DEF Type, Empty
<1>2. ASSUME NEW e \in Fresh, NEW t \in Text \union {Blank}, TypeFresh(e, t) PROVE SaidEverywhere'
  BY <1>2 DEF TypeFresh
<1>3. ASSUME NEW t \in Title, TypeTitle(t) PROVE SaidEverywhere'
  BY <1>3 DEF TypeTitle
<1>4. ASSUME NEW d \in Row \union {Nil}, Zoom(d) PROVE SaidEverywhere'
  BY <1>4 DEF Zoom, BeginLoad, Empty
<1>5. ASSUME NEW r \in Row, Enter(r) PROVE SaidEverywhere'
  BY <1>5 DEF Enter
<1>6. ASSUME NEW r \in Row, Backspace(r) PROVE SaidEverywhere'
  BY <1>6 DEF Backspace
<1>7. ASSUME NEW r \in Row, Fire(r) PROVE SaidEverywhere'
  BY <1>7 DEF Fire
<1>8. ASSUME NEW o \in orphan, FireOrphan(o) PROVE SaidEverywhere'
  BY <1>8 DEF FireOrphan
<1>9. ASSUME NEW e \in Fresh, FireFresh(e) PROVE SaidEverywhere'
  <2>1. fresh \in [Fresh -> Editors]
    BY DEF Editors
  <2>2. \A f \in Fresh : fresh'[f].row \in Row =>
          fresh'[f].row = fresh[f].row /\ fresh'[f].text = fresh[f].text
    BY <1>9, <2>1, FiredEditors
  <2>3. \A f \in Fresh : fresh'[f].row \in Row => Said(fresh'[f].row, fresh'[f].text)
    BY <2>2
  <2>4. \A c \in calls' \ calls :
          \/ c = Put(fresh[e].row, fresh[e].text) /\ fresh[e].row \in Row
          \/ c = Call("post", Nil, fresh[e].text, doc, e)
    BY <1>9, <2>1 DEF FireFresh, Editors
  <2>5. \A c \in calls' \ calls :
          /\ c.kind \in {"put", "post"}
          /\ c.kind = "put" => c.row \in Row /\ Said(c.row, c.text)
          /\ c.kind = "post" => c.by \in Fresh
    BY <2>4
  <2> QED BY <1>9, <2>3, <2>5 DEF FireFresh
<1>10. ASSUME FireTitle PROVE SaidEverywhere'
  BY <1>10 DEF FireTitle
<1>11. ASSUME NEW l \in loads, Render(l) PROVE SaidEverywhere'
  <2>1. fresh \in [Fresh -> Editors]
    BY DEF Editors
  <2>2. \A f \in Fresh : fresh'[f].row \in Row =>
          fresh'[f].row = fresh[f].row /\ fresh'[f].text = fresh[f].text
    BY <1>11, <2>1, RenderedEditors DEF Render
  <2>3. \A f \in Fresh : fresh'[f].row \in Row => Said(fresh'[f].row, fresh'[f].text)
    BY <2>2
  <2>4. \A o \in orphan' : Said(o.row, o.text)
    BY <1>11 DEF Render, ReplaceBullets
  <2> QED BY <1>11, <2>3, <2>4 DEF Render, ReplaceBullets
<1>12. ASSUME NEW l \in loads, RenderNull(l) PROVE SaidEverywhere'
  BY <1>12 DEF RenderNull
<1>13. ASSUME NEW c \in calls, Posted(c) PROVE SaidEverywhere'
  <2>1. fresh \in [Fresh -> Editors]
    BY DEF Editors
  <2>2. c.by \in Fresh /\ c.row \in Row
    BY <1>13 DEF Posted
  <2>3. \A f \in Fresh : fresh'[f].row \in Row =>
          /\ fresh'[f].row = IF f = c.by THEN c.row ELSE fresh[f].row
          /\ fresh'[f].text = fresh[f].text
    BY <1>13, <2>1, <2>2, PostedEditors
  <2>4. /\ \A r \in Row : said[r] \subseteq said'[r]
        /\ fresh[c.by].text \in said'[c.row]
    BY <1>13, <2>2 DEF Posted
  <2>5. \A f \in Fresh : fresh'[f].row \in Row =>
          (fresh'[f].text \in Text => fresh'[f].text \in said'[fresh'[f].row])
    BY <2>2, <2>3, <2>4
  <2> QED BY <1>13, <2>4, <2>5 DEF Posted
<1>14. ASSUME NEW c \in calls, Reload(c) PROVE SaidEverywhere'
  BY <1>14 DEF Reload, BeginLoad, Empty
<1>15. ASSUME NEW c \in calls, ServePut(c) PROVE SaidEverywhere'
  BY <1>15 DEF ServePut
<1>16. ASSUME NEW c \in calls, ServePost(c) PROVE SaidEverywhere'
  <2>1. fresh \in [Fresh -> Editors]
    BY DEF Editors
  <2>2. c.at \in Row \union {Nil} /\ c.text \in Words /\ c.by \in Fresh
    BY <1>16 DEF ServePost
  <2>3. CASE c.at \in There \union {Nil}
    <3>1. PICK b \in Row : Insert(b, c.at, c.text)
                        /\ Answer(c, {Call("posted", b, Blank, Nil, c.by)})
                        /\ UNCHANGED fresh
      BY <1>16, <2>3 DEF ServePost
    <3>2. /\ \A r \in Row : said[r] \subseteq said'[r]
          /\ \A r \in Row : content'[r] \in Text => content'[r] \in said'[r]
      BY <2>2, <3>1 DEF Insert
    <3> QED BY <1>16, <2>2, <3>1, <3>2 DEF ServePost
  <2>4. CASE c.at \notin There \union {Nil}
    <3>1. \A f \in Fresh : fresh'[f].row \in Row =>
            fresh'[f].row = fresh[f].row /\ fresh'[f].text = fresh[f].text
      BY <1>16, <2>1, <2>4, KeptType DEF ServePost
    <3> QED BY <1>16, <2>4, <3>1 DEF ServePost
  <2> QED BY <2>3, <2>4
<1>17. ASSUME NEW c \in calls, ServeEnter(c) PROVE SaidEverywhere'
  BY <1>17 DEF ServeEnter, Insert
<1>18. ASSUME NEW c \in calls, ServeDelete(c) PROVE SaidEverywhere'
  BY <1>18 DEF ServeDelete
<1>19. ASSUME NEW c \in calls, Fail(c) PROVE SaidEverywhere'
  <2>1. fresh \in [Fresh -> Editors]
    BY DEF Editors
  <2>2. \A f \in Fresh : fresh'[f].row \in Row =>
          fresh'[f].row = fresh[f].row /\ fresh'[f].text = fresh[f].text
    BY <1>19, <2>1, KeptType DEF Fail
  <2> QED BY <1>19, <2>2 DEF Fail
<1>20. ASSUME NEW l \in loads, GetRem(l) PROVE SaidEverywhere'
  <2>1. l \in Loads /\ (l.at \in There => content[l.at] \in Words)
    BY DEF Loads
  <2>2. l.at \in There => [l EXCEPT !.stage = "tree", !.title = content[l.at]].tree = l.tree
    BY <2>1, RemArrived
  <2>3. \A k \in loads' : k \in loads \/ k.tree = l.tree
    BY <1>20, <2>2 DEF GetRem
  <2> QED BY <1>20, <2>3 DEF GetRem
<1>21. ASSUME NEW l \in loads, GetTree(l) PROVE SaidEverywhere'
  <2>1. \A k \in loads' : k \in loads \/ k.tree = Tree(l.at)
    BY <1>21, TreeArrived
  <2>2. \A r \in Row : Said(r, Tree(l.at)[r])
    BY TreeType
  <2> QED BY <1>21, <2>1, <2>2 DEF GetTree
<1>22. ASSUME NEW l \in loads, FailLoad(l) PROVE SaidEverywhere'
  BY <1>22 DEF FailLoad
<1>23. CASE UNCHANGED vars
  BY <1>23 DEF vars
<1> QED
  BY <1>1, <1>2, <1>3, <1>4, <1>5, <1>6, <1>7, <1>8, <1>9, <1>10, <1>11, <1>12,
     <1>13, <1>14, <1>15, <1>16, <1>17, <1>18, <1>19, <1>20, <1>21, <1>22, <1>23
  DEF Next, User, Client, Server

\* The inductive invariant.
LEMMA SpecInv == Spec => []Inv
<1>1. Inv /\ [Next]_vars => Inv'
  BY TypeStep, SaidStep DEF Inv
<1> QED BY InitInv, <1>1, PTL DEF Spec

\* Rows, bullets, requests and views keep their types, and an empty editor is
\* on screen only in an empty view.
THEOREM TypeCorrect == Spec => []TypeOK
<1>1. Inv => TypeOK
  BY DEF Inv
<1> QED BY SpecInv, <1>1, PTL

\* No save of a bullet reaches a row that the bullet does not show: not after
\* the bullet has left the screen, not when its row was only just created, and
\* not when requests overtake each other or are lost.
THEOREM TextsStayInTheirRows == Spec => []SavedWhereTyped
<1>1. Inv => SavedWhereTyped
  BY DEF Inv, SaidEverywhere, Said, SavedWhereTyped
<1> QED BY SpecInv, <1>1, PTL

(***************************************************************************)
(* What the screen shows.                                                  *)
(***************************************************************************)

\* The rows form trees: a row that has a parent is there, and so is the parent,
\* and among any rows there is one whose parent is another.  A row into which
\* nothing has been typed is not there.
Grounded ==
  /\ \A r \in Row : said[r] = {} => content[r] = Nil
  /\ \A r \in Row : home[r] # Nil => r \in There /\ home[r] \in There
  /\ \A S \in SUBSET Row : S # {} => \E r \in S : home[r] \notin S

\* The row of r will say t once all saves are done; a timer for it runs.
Due(r, t, runs) ==
  /\ \A c \in calls : c.kind = "put" /\ c.row = r => c.text = t /\ ~runs
  /\ runs \/ content[r] = t \/ \E c \in calls : c.kind = "put" /\ c.row = r

\* What is on the screen is saved, or will be, and nothing else will.
Saving ==
  /\ titled # Nil => doc # Nil /\ titled = headline
  /\ doc # Nil => Due(doc, headline, titled # Nil)
  /\ \A r \in Row : shown[r] # Nil => Due(r, shown[r], r \in timer)
  /\ \A e \in Fresh : fresh[e].live /\ fresh[e].row # Nil =>
       Due(fresh[e].row, fresh[e].text, fresh[e].timer)
  /\ \A c \in calls : c.kind = "put" => c.row \in OnScreen \union {doc}

\* The rows whose ids are on their way to an editor.
Made == {c.row : c \in {d \in calls : d.kind = "posted"}}

\* At most one row is being created, for the editor on the screen, which waits.
Creating ==
  \A c \in calls : c.kind \in {"post", "posted"} =>
    /\ fresh[c.by].live /\ fresh[c.by].row = Nil /\ ~fresh[c.by].timer
    /\ c.kind = "post" => c.at = doc /\ c.text = fresh[c.by].text
    /\ c.kind = "posted" => content[c.row] = fresh[c.by].text
    /\ \A d \in calls : d.kind \in {"post", "posted"} => d = c

\* The screen shows the current document but for what is under way.
Viewed ==
  /\ header = doc
  /\ orphan = {} /\ \A e \in Fresh : fresh[e].timer => fresh[e].live
  /\ Below(doc) = OnScreen \union Made
  /\ Saving /\ Creating

Still ==
  titled = Nil /\ timer = {} /\ orphan = {} /\ \A e \in Fresh : ~fresh[e].timer

\* What a view that is being loaded has got so far.
Faithful(l) ==
  /\ l.at = doc /\ l.stage # "null"
  /\ l.stage = "rem" => doc # Nil
  /\ l.stage # "rem" /\ doc # Nil => l.title = content[doc]
  /\ l.stage = "back" => l.tree = Tree(doc)

\* A request after which the view is loaded.
Turning == {c \in calls : c.kind \in {"enter", "delete", "reload"}}

\* If the user has waited, a view is changed while nothing else is under way;
\* otherwise the screen follows the server.
Following ==
  calm =>
    /\ doc \in There \union {Nil}
    /\ Turning # {} => Still /\ loads = {} /\ \E c \in calls : calls = {c}
    /\ loads # {} => Still /\ calls = {} /\ \E l \in loads : loads = {l}
    /\ \A c \in calls : c.kind \in {"enter", "delete"} => c.row \in OnScreen
    /\ \A l \in loads : Faithful(l)
    /\ loads = {} /\ (\A c \in calls : c.kind # "reload") => Viewed

\* The rows below d in a tree: T are the rows, h gives the parent of each.
Under(T, h, d) ==
  {r \in T : \A S \in SUBSET T : (\A x \in T : h[x] \in S \union {d} => x \in S) => r \in S}

\* What is below a document is the least set that is closed under children.
LEMMA BelowIs ==
  ASSUME NEW d PROVE Below(d) = IF d = Nil THEN There ELSE Under(There, home, d)
BY DEF Below, Under

\* Rows whose parent is d, or below d, are below d.
LEMMA UnderFacts ==
  ASSUME NEW T, NEW h, NEW d
  PROVE  /\ Under(T, h, d) \subseteq T
         /\ \A x \in T : h[x] \in Under(T, h, d) \union {d} => x \in Under(T, h, d)
<1>1. ASSUME NEW x \in T, h[x] \in Under(T, h, d) \union {d} PROVE x \in Under(T, h, d)
  <2> SUFFICES ASSUME NEW S \in SUBSET T, \A y \in T : h[y] \in S \union {d} => y \in S
               PROVE  x \in S
    BY DEF Under
  <2> QED BY <1>1 DEF Under
<1>2. Under(T, h, d) \subseteq T
  BY DEF Under
<1> QED BY <1>1, <1>2

\* Any set closed under children holds all of it.
LEMMA UnderLeast ==
  ASSUME NEW T, NEW h, NEW d, NEW S \in SUBSET T,
         \A x \in T : h[x] \in S \union {d} => x \in S
  PROVE  Under(T, h, d) \subseteq S
BY DEF Under

\* Nothing is below d but what has a parent there, or d itself.
LEMMA UnderHasParent ==
  ASSUME NEW T, NEW h, NEW d
  PROVE  \A r \in Under(T, h, d) : h[r] \in Under(T, h, d) \union {d}
<1> DEFINE U == Under(T, h, d)
           S == {r \in U : h[r] \in U \union {d}}
<1>1. S \in SUBSET T
  BY UnderFacts
<1>2. \A x \in T : h[x] \in S \union {d} => x \in S
  <2>1. S \subseteq U
    OBVIOUS
  <2>2. \A x \in T : h[x] \in U \union {d} => x \in U
    BY UnderFacts
  <2> HIDE DEF U
  <2> QED BY <2>1, <2>2
<1>3. U \subseteq S
  <2> HIDE DEF S
  <2> QED BY <1>1, <1>2, UnderLeast, Zenon DEF U
<1> QED BY <1>3

\* What is below a row below d is below d.
LEMMA UnderIsTransitive ==
  ASSUME NEW T, NEW h, NEW d, NEW c \in Under(T, h, d)
  PROVE  Under(T, h, c) \subseteq Under(T, h, d)
<1> DEFINE U == Under(T, h, d)
<1>1. U \in SUBSET T
  BY UnderFacts
<1>2. \A x \in T : h[x] \in U \union {c} => x \in U
  BY UnderFacts
<1> HIDE DEF U
<1>3. Under(T, h, c) \subseteq U
  BY <1>1, <1>2, UnderLeast, Zenon
<1> QED BY <1>3 DEF U

\* No row is below itself.
LEMMA NotBelowItself ==
  ASSUME Grounded, NEW d \in Row PROVE d \notin Under(There, home, d)
<1> DEFINE U == Under(There, home, d)
<1> SUFFICES ASSUME d \in U PROVE FALSE
  OBVIOUS
<1>1. U \subseteq Row
  BY UnderFacts DEF There
<1>2. \A r \in U : home[r] \in U
  <2>1. \A r \in U : home[r] \in U \union {d}
    BY UnderHasParent, Zenon
  <2> HIDE DEF U
  <2> QED BY <2>1
<1> HIDE DEF U
<1> QED BY <1>1, <1>2 DEF Grounded

\* The parents h2 are those of h, with a new row b below p.
Planted(T, h, h2, b, p) ==
  /\ b \notin T /\ p # b /\ h2[b] = p
  /\ \A x \in T : h[x] # b /\ h2[x] = h[x]

\* Below its parent is then the new row and what was there before.
OneMoreUnder(T, h, h2, b, p) ==
  Under(T \union {b}, h2, p) = Under(T, h, p) \union {b}

\* A new row joins what is below its parent, and nothing else does.
LEMMA InsertUnder ==
  ASSUME NEW T, NEW h, NEW h2, NEW b, NEW p, Planted(T, h, h2, b, p)
  PROVE  OneMoreUnder(T, h, h2, b, p)
<1> DEFINE U == Under(T, h, p)
           V == Under(T \union {b}, h2, p)
<1> USE DEF Planted
<1>1. /\ U \subseteq T
      /\ \A x \in T : h[x] \in U \union {p} => x \in U
      /\ V \subseteq T \union {b}
      /\ \A x \in T \union {b} : h2[x] \in V \union {p} => x \in V
  BY UnderFacts
<1>2. U \union {b} \in SUBSET (T \union {b})
  BY <1>1
<1>3. \A x \in T \union {b} : h2[x] \in U \union {b} \union {p} => x \in U \union {b}
  <2> HIDE DEF U
  <2> QED BY <1>1
<1>4. V \subseteq U \union {b}
  <2> HIDE DEF U
  <2> QED BY <1>2, <1>3, UnderLeast, Zenon
<1>5. V \ {b} \in SUBSET T
  BY <1>1
<1>6. \A x \in T : h[x] \in (V \ {b}) \union {p} => x \in V \ {b}
  <2> HIDE DEF V
  <2> QED BY <1>1
<1>7. U \subseteq V \ {b}
  <2> DEFINE S == V \ {b}
  <2>1. S \in SUBSET T /\ \A x \in T : h[x] \in S \union {p} => x \in S
    BY <1>5, <1>6
  <2> HIDE DEF S
  <2>2. U \subseteq S
    BY <2>1, UnderLeast, Zenon
  <2> QED BY <2>2 DEF S
<1>8. b \in V
  <2> HIDE DEF V
  <2> QED BY <1>1
<1> HIDE DEF U, V
<1>9. V = U \union {b}
  BY <1>4, <1>7, <1>8
<1> QED BY <1>9 DEF U, V, OneMoreUnder

\* No id that has never been used is a row, or the parent of one.
LEMMA UnusedId ==
  ASSUME Grounded, NEW b \in Row, said[b] = {}
  PROVE  b \notin There /\ home[b] = Nil /\ \A r \in Row : home[r] # b
BY EditorAssumption DEF Grounded, There

\* What is below a document depends on the rows and their parents only.
LEMMA SameBelow ==
  ASSUME There' = There, home' = home, NEW d PROVE Below(d)' = Below(d)
<1>1. Below(d)' = IF d = Nil THEN There' ELSE Under(There', home', d)
  BY DEF Below, Under
<1> QED BY <1>1, BelowIs

\* Only rows are below a document, and not the document itself.
LEMMA BelowFacts ==
  ASSUME Grounded, NEW d \in There \union {Nil}
  PROVE  Below(d) \subseteq There /\ d \notin Below(d)
<1>1. Nil \notin Row /\ There \subseteq Row
  BY EditorAssumption DEF There
<1>2. CASE d = Nil
  BY <1>1, <1>2, BelowIs
<1>3. CASE d # Nil
  <2>1. Under(There, home, d) \subseteq There
    BY UnderFacts
  <2>2. d \notin Under(There, home, d)
    BY <1>1, <1>3, NotBelowItself
  <2> QED BY <1>3, <2>1, <2>2, BelowIs
<1> QED BY <1>2, <1>3

\* A new row is below its parent.
LEMMA InsertBelow ==
  ASSUME TypeOK, Grounded, NEW b \in Row, NEW p \in There \union {Nil}, NEW t \in Words,
         Insert(b, p, t)
  PROVE  /\ There' = There \union {b} /\ b \notin There
         /\ Below(p)' = Below(p) \union {b}
         /\ \A r \in Row \ {b} : content'[r] = content[r]
<1>1. b \notin There /\ home[b] = Nil /\ \A r \in Row : home[r] # b
  BY UnusedId DEF Insert
<1>2. /\ content' = [content EXCEPT ![b] = t]
      /\ home' = [home EXCEPT ![b] = p]
  BY DEF Insert
<1>3. t # Nil /\ There \subseteq Row
  BY EditorAssumption DEF Words, There
<1>4. There' = There \union {b} /\ \A r \in Row \ {b} : content'[r] = content[r]
  BY <1>2, <1>3 DEF There, TypeOK
<1>5. \A x \in There : home[x] # b /\ home'[x] = home[x]
  BY <1>1, <1>2, <1>3 DEF TypeOK
<1>6. home'[b] = p /\ p # b
  BY <1>1, <1>2, EditorAssumption DEF TypeOK
<1>7. Under(There \union {b}, home', p) = Under(There, home, p) \union {b}
  <2>1. Planted(There, home, home', b, p)
    BY <1>1, <1>5, <1>6 DEF Planted
  <2>2. OneMoreUnder(There, home, home', b, p)
    BY <2>1, InsertUnder, Zenon
  <2> QED BY <2>2 DEF OneMoreUnder
<1>8. Below(p)' = IF p = Nil THEN There' ELSE Under(There', home', p)
  BY DEF Below, Under
<1> QED BY <1>1, <1>4, <1>7, <1>8, BelowIs

\* The tree stays one when no row comes, goes or moves.
LEMMA GroundedKept ==
  ASSUME Grounded, There' = There, home' = home, \A r \in Row : said'[r] = {} => said[r] = {}
  PROVE  Grounded'
<1>1. \A r \in Row : said'[r] = {} => content'[r] = Nil
  BY DEF Grounded, There
<1> QED BY <1>1 DEF Grounded

\* A row is inserted below another or at the top.
LEMMA GroundedInsert ==
  ASSUME TypeOK, Grounded, NEW b \in Row, NEW p \in There \union {Nil}, NEW t \in Words,
         Insert(b, p, t)
  PROVE  Grounded'
<1>1. b \notin There /\ home[b] = Nil /\ \A r \in Row : home[r] # b
  BY UnusedId DEF Insert
<1>2. There' = There \union {b} /\ \A r \in Row \ {b} : content'[r] = content[r]
  BY InsertBelow
<1>3. /\ home'[b] = p /\ p # b
      /\ \A r \in Row \ {b} : home'[r] = home[r]
  BY <1>1, EditorAssumption DEF TypeOK, Insert
<1>4. \A r \in Row : said'[r] = {} => r # b /\ said[r] = {}
  BY DEF TypeOK, Insert
<1>5. \A r \in Row : said'[r] = {} => content'[r] = Nil
  BY <1>2, <1>4 DEF Grounded
<1>6. \A r \in Row : home'[r] # Nil => r \in There' /\ home'[r] \in There'
  BY <1>2, <1>3 DEF Grounded
<1>7. ASSUME NEW S \in SUBSET Row, S # {} PROVE \E r \in S : home'[r] \notin S
  <2>1. CASE S = {b}
    BY <1>3, <2>1
  <2>2. CASE S # {b}
    <3>1. S \ {b} \in SUBSET Row /\ S \ {b} # {}
      BY <1>7, <2>2
    <3>2. PICK r \in S \ {b} : home[r] \notin S \ {b}
      BY <3>1 DEF Grounded
    <3>3. home[r] # b
      BY <1>1, <1>7
    <3> QED BY <1>3, <1>7, <3>2, <3>3
  <2> QED BY <2>1, <2>2
<1> QED BY <1>5, <1>6, <1>7 DEF Grounded

\* A row is deleted with what is below it.
LEMMA GroundedDelete ==
  ASSUME TypeOK, SaidEverywhere, Grounded, NEW c \in calls, ServeDelete(c)
  PROVE  /\ Grounded'
         /\ There' = There \ ({c.row} \union Below(c.row))
         /\ \A r \in There' : content'[r] = content[r]
<1> DEFINE gone == {c.row} \union Below(c.row)
<1>1. c.row \in Row /\ c.row # Nil
  BY EditorAssumption DEF ServeDelete, SaidEverywhere
<1>2. /\ content' = [r \in Row |-> IF r \in gone THEN Nil ELSE content[r]]
      /\ home' = [r \in Row |-> IF r \in gone THEN Nil ELSE home[r]]
      /\ said' = said
  BY DEF ServeDelete
<1>3. \A x \in There : home[x] \in gone => x \in gone
  BY <1>1, BelowIs, UnderFacts
<1> HIDE DEF gone
<1>4. There' = There \ gone /\ \A r \in There' : content'[r] = content[r]
  BY <1>2 DEF There
<1>5. \A r \in Row : said'[r] = {} => content'[r] = Nil
  BY <1>2 DEF Grounded
<1>6. \A r \in Row : home'[r] # Nil => r \in There' /\ home'[r] \in There'
  BY <1>2, <1>3, <1>4 DEF Grounded
<1>7. ASSUME NEW S \in SUBSET Row, S # {} PROVE \E r \in S : home'[r] \notin S
  <2>1. PICK r \in S : home[r] \notin S
    BY <1>7 DEF Grounded
  <2>2. home'[r] \in {Nil, home[r]} /\ Nil \notin S
    BY <1>2, <1>7, EditorAssumption
  <2> QED BY <2>1, <2>2
<1>8. Grounded'
  BY <1>5, <1>6, <1>7 DEF Grounded
<1> QED BY <1>4, <1>8 DEF gone

\* The rows always form trees.
LEMMA GroundedStep == Inv /\ Grounded /\ [Next]_vars => Grounded'
<1> SUFFICES ASSUME Inv, Grounded, [Next]_vars PROVE Grounded'
  OBVIOUS
<1> USE DEF Inv
<1> DEFINE Same == content' = content /\ home' = home
                   /\ \A r \in Row : said'[r] = {} => said[r] = {}
<1>1. ASSUME Same PROVE Grounded'
  <2>1. There' = There
    BY <1>1 DEF There
  <2> QED BY <1>1, <2>1, GroundedKept
<1>2. ASSUME NEW r \in Row, NEW t \in Text \union {Blank}, Type(r, t) PROVE Grounded'
  BY <1>1, <1>2 DEF Type, server, TypeOK
<1>3. ASSUME NEW e \in Fresh, NEW t \in Text \union {Blank}, TypeFresh(e, t) PROVE Grounded'
  BY <1>1, <1>3 DEF TypeFresh, server, TypeOK
<1>4. ASSUME NEW c \in calls, Posted(c) PROVE Grounded'
  BY <1>1, <1>4 DEF Posted, server, TypeOK
<1>5. ASSUME UNCHANGED <<server, said>> PROVE Grounded'
  BY <1>1, <1>5 DEF server
<1>6. ASSUME NEW c \in calls, ServePut(c) PROVE Grounded'
  <2>1. c.text \in Words
    BY DEF TypeOK
  <2>2. There' = There
    BY <1>6, <2>1, EditorAssumption DEF ServePut, There, TypeOK, Words
  <2> QED BY <1>6, <2>2, GroundedKept DEF ServePut
<1>7. ASSUME NEW c \in calls, ServePost(c) PROVE Grounded'
  <2>1. CASE c.at \in There \union {Nil}
    <3>1. PICK b \in Row : Insert(b, c.at, c.text)
      BY <1>7, <2>1 DEF ServePost
    <3>2. c.text \in Words
      BY DEF TypeOK
    <3> QED BY <2>1, <3>1, <3>2, GroundedInsert
  <2>2. CASE c.at \notin There \union {Nil}
    BY <1>5, <1>7, <2>2 DEF ServePost
  <2> QED BY <2>1, <2>2
<1>8. ASSUME NEW c \in calls, ServeEnter(c) PROVE Grounded'
  <2>1. CASE c.row \in There
    <3>1. PICK b \in Row : Insert(b, home[c.row], Blank)
      BY <1>8, <2>1 DEF ServeEnter
    <3>2. Blank \in Words /\ home[c.row] \in There \union {Nil}
      BY <2>1 DEF Words, Grounded, There
    <3> QED BY <3>1, <3>2, GroundedInsert
  <2>2. CASE c.row \notin There
    BY <1>5, <1>8, <2>2 DEF ServeEnter
  <2> QED BY <2>1, <2>2
<1>9. ASSUME NEW c \in calls, ServeDelete(c) PROVE Grounded'
  BY <1>9, GroundedDelete
<1> HIDE DEF Same
<1> QED
  <2>1. ASSUME User PROVE Grounded'
    BY <1>2, <1>3, <1>5, <2>1
       DEF User, TypeTitle, Zoom, BeginLoad, Enter, Backspace
  <2>2. ASSUME Client PROVE Grounded'
    BY <1>4, <1>5, <2>2
       DEF Client, Fire, FireOrphan, FireFresh, FireTitle, Render, RenderNull, Reload
  <2>3. ASSUME Server PROVE Grounded'
    BY <1>5, <1>6, <1>7, <1>8, <1>9, <2>3 DEF Server, Fail, GetRem, GetTree, FailLoad
  <2>4. CASE UNCHANGED vars
    BY <1>5, <2>4 DEF vars
  <2> QED BY <2>1, <2>2, <2>3, <2>4 DEF Next

\* No view is being changed.
Resting == loads = {} /\ Turning = {}

\* An editor that is on the screen stays as it is.
LEMMA KeptFacts ==
  ASSUME NEW f \in [Fresh -> Editors], NEW cs, NEW e \in Fresh
  PROVE  /\ Kept(f, cs)[e].live = f[e].live
         /\ Kept(f, cs)[e].timer = f[e].timer
         /\ f[e].live => Kept(f, cs)[e] = f[e]
BY DEF Kept, NoEditor, Editors

\* The screen is that of the rows and editors that are on it.
LEMMA SameScreen ==
  ASSUME \A r \in Row : shown'[r] = Nil <=> shown[r] = Nil,
         \A e \in Fresh : /\ fresh'[e].live <=> fresh[e].live
                          /\ fresh[e].live => fresh'[e].row = fresh[e].row
  PROVE  OnScreen' = OnScreen
BY DEF OnScreen

\* A view at rest is what Following says of it.
LEMMA RestingIs ==
  ASSUME Inv, Grounded, Following, calm, Resting
  PROVE  /\ Viewed /\ doc \in There \union {Nil}
         /\ \A c \in calls : c.kind \in {"put", "post", "posted"}
         /\ OnScreen \subseteq There /\ doc \notin OnScreen
         /\ Made \subseteq There /\ doc \notin Made
<1>1. \A c \in calls : c.kind \in {"put", "post", "posted"}
  BY DEF Resting, Turning, Inv, TypeOK, Kinds
<1>2. Viewed /\ doc \in There \union {Nil}
  BY <1>1 DEF Following, Resting
<1>3. Below(doc) \subseteq There /\ doc \notin Below(doc)
  BY <1>2, BelowFacts
<1> QED BY <1>1, <1>2, <1>3 DEF Viewed

\* The rows below the current document are the same when no row comes, goes or
\* moves.
LEMMA SameTree ==
  ASSUME There' = There, home' = home, doc' = doc PROVE Below(doc)' = Below(doc)
<1> PICK d : d = doc
  OBVIOUS
<1>1. Below(d)' = Below(d)
  BY SameBelow
<1> QED BY <1>1

\* Nothing else is under way when a view is being changed: a timer that runs
\* or a save says that none is.
LEMMA RestsWhile ==
  ASSUME Inv, Following, calm
  PROVE  /\ \A r \in timer : Resting
         /\ titled # Nil => Resting
         /\ \A e \in Fresh : fresh[e].timer => Resting
         /\ orphan # {} => Resting
         /\ \A c \in calls : c.kind \in {"put", "post", "posted"} => Resting
<1>1. ~Resting => Still
  BY DEF Following, Resting
<1>2. ASSUME NEW c \in calls, c.kind \in {"put", "post", "posted"} PROVE Resting
  <2>1. loads = {}
    BY DEF Following
  <2>2. Turning = {}
    BY <1>2 DEF Following, Turning
  <2> QED BY <2>1, <2>2 DEF Resting
<1> QED BY <1>1, <1>2 DEF Still

\* The user types into a bullet.
LEMMA TypeFollows ==
  ASSUME Inv, Grounded, Following, calm', NEW r \in Row, NEW t \in Text \union {Blank},
         Type(r, t)
  PROVE  Following'
<1>1. /\ calm /\ Settled /\ \A c \in calls : c.row # r
      /\ shown[r] # Nil
      /\ shown' = [shown EXCEPT ![r] = t] /\ timer' = timer \union {r}
      /\ UNCHANGED <<content, home, doc, header, headline, titled, orphan, fresh, calls, loads>>
  BY DEF Type, Act, server, head
<1>2. Resting
  BY <1>1 DEF Settled, Resting, Turning
<1>3. /\ Viewed /\ doc \in There \union {Nil}
      /\ \A c \in calls : c.kind \in {"put", "post", "posted"}
  BY <1>1, <1>2, RestingIs
<1>4. shown \in [Row -> Words \union {Nil}] /\ t # Nil
  BY EditorAssumption DEF Inv, TypeOK, Words
<1>5. OnScreen' = OnScreen
  BY <1>1, <1>4, SameScreen
<1>6. There' = There /\ Below(doc)' = Below(doc) /\ Made' = Made
  <2>1. There' = There
    BY <1>1 DEF There
  <2>2. Made' = Made
    BY <1>1 DEF Made
  <2> QED BY <1>1, <2>1, <2>2, SameTree
<1>7. Saving'
  BY <1>1, <1>3, <1>4, <1>5 DEF Viewed, Saving, Due
<1>8. Creating'
  BY <1>1, <1>3 DEF Viewed, Creating
<1>9. Viewed'
  BY <1>1, <1>3, <1>5, <1>6, <1>7, <1>8 DEF Viewed
<1> QED BY <1>1, <1>2, <1>3, <1>6, <1>9 DEF Following, Turning, Resting

\* The user types into the editor of an empty view.
LEMMA TypeFreshFollows ==
  ASSUME Inv, Grounded, Following, calm', NEW e \in Fresh, NEW t \in Text \union {Blank},
         TypeFresh(e, t)
  PROVE  Following'
<1>1. /\ calm /\ loads = {} /\ calls = {} /\ fresh[e].live
      /\ fresh' = [fresh EXCEPT ![e].text = t, ![e].timer = TRUE]
      /\ UNCHANGED <<content, home, doc, header, headline, titled, shown, timer, orphan,
                     calls, loads>>
  BY DEF TypeFresh, Act, Settled, server, head
<1>2. Resting
  BY <1>1 DEF Resting, Turning
<1>3. Viewed /\ doc \in There \union {Nil}
  BY <1>1, <1>2, RestingIs
<1>4. fresh \in [Fresh -> Editors]
  BY DEF Inv, TypeOK, Editors
<1>5. \A g \in Fresh :
        /\ fresh'[g].live = fresh[g].live /\ fresh'[g].row = fresh[g].row
        /\ fresh'[g].text = (IF g = e THEN t ELSE fresh[g].text)
        /\ fresh'[g].timer = (IF g = e THEN TRUE ELSE fresh[g].timer)
  BY <1>1, <1>4 DEF Editors
<1>6. OnScreen' = OnScreen
  BY <1>1, <1>5, SameScreen
<1>7. There' = There /\ Below(doc)' = Below(doc) /\ Made' = Made
  <2>1. There' = There
    BY <1>1 DEF There
  <2>2. Made' = Made
    BY <1>1 DEF Made
  <2> QED BY <1>1, <2>1, <2>2, SameTree
<1>8. Saving'
  <2>1. ASSUME NEW g \in Fresh, fresh[g].live', (fresh[g].row # Nil)'
        PROVE  Due(fresh[g].row, fresh[g].text, fresh[g].timer)'
    <3>1. CASE g = e
      BY <1>1, <1>5, <3>1 DEF Due
    <3>2. CASE g # e
      <4>1. Due(fresh[g].row, fresh[g].text, fresh[g].timer)
        BY <1>3, <1>5, <2>1, <3>2 DEF Viewed, Saving
      <4> QED BY <1>1, <1>5, <3>2, <4>1 DEF Due
    <3> QED BY <3>1, <3>2
  <2>2. doc' # Nil => Due(doc, headline, titled # Nil)'
    BY <1>1, <1>3 DEF Viewed, Saving, Due
  <2>3. \A x \in Row : shown'[x] # Nil => Due(x, shown[x], x \in timer)'
    BY <1>1, <1>3 DEF Viewed, Saving, Due
  <2> QED BY <1>1, <1>3, <2>1, <2>2, <2>3 DEF Viewed, Saving
<1>9. Viewed'
  <2>1. Creating'
    BY <1>1 DEF Creating
  <2>2. \A g \in Fresh : fresh'[g].timer => fresh'[g].live
    BY <1>1, <1>3, <1>5 DEF Viewed
  <2> QED BY <1>1, <1>3, <1>6, <1>7, <1>8, <2>1, <2>2 DEF Viewed
<1> QED BY <1>1, <1>3, <1>7, <1>9 DEF Following, Turning

\* The user types into the title.
LEMMA TypeTitleFollows ==
  ASSUME Inv, Grounded, Following, calm', NEW t \in Title, TypeTitle(t)
  PROVE  Following'
<1>1. /\ calm /\ loads = {} /\ calls = {} /\ header # Nil
      /\ headline' = t /\ titled' = IF doc # Nil THEN t ELSE titled
      /\ UNCHANGED <<content, home, doc, header, shown, timer, orphan, fresh, calls, loads>>
  BY DEF TypeTitle, Act, server
<1>2. Resting
  BY <1>1 DEF Resting, Turning
<1>3. Viewed /\ doc \in There \union {Nil}
  BY <1>1, <1>2, RestingIs
<1>4. doc # Nil /\ titled' = t /\ t # Nil
  BY <1>1, <1>3, EditorAssumption DEF Viewed
<1>5. OnScreen' = OnScreen
  BY <1>1, SameScreen
<1>6. There' = There /\ Below(doc)' = Below(doc) /\ Made' = Made
  <2>1. There' = There
    BY <1>1 DEF There
  <2>2. Made' = Made
    BY <1>1 DEF Made
  <2> QED BY <1>1, <2>1, <2>2, SameTree
<1>7. Saving'
  BY <1>1, <1>3, <1>4, <1>5 DEF Viewed, Saving, Due
<1>8. Viewed'
  BY <1>1, <1>3, <1>5, <1>6, <1>7 DEF Viewed, Creating
<1> QED BY <1>1, <1>3, <1>6, <1>8 DEF Following, Turning

\* The timer of a bullet fires.
LEMMA FireFollows ==
  ASSUME Inv, Grounded, Following, calm', NEW r \in Row, Fire(r)
  PROVE  Following'
<1>1. /\ calm /\ r \in timer /\ timer' = timer \ {r}
      /\ calls' = calls \union {Put(r, shown[r])}
      /\ UNCHANGED <<content, home, doc, header, headline, titled, shown, orphan, fresh, loads>>
  BY DEF Fire, Send, server, head, watch
<1>2. Resting
  BY <1>1, RestsWhile
<1>3. /\ Viewed /\ doc \in There \union {Nil}
      /\ \A c \in calls : c.kind \in {"put", "post", "posted"}
      /\ doc \notin OnScreen
  BY <1>1, <1>2, RestingIs
<1> DEFINE new == Put(r, shown[r])
<1>4. new.kind = "put" /\ new.row = r /\ new.text = shown[r]
  BY DEF Put, Call
<1> HIDE DEF new
<1>5. shown[r] # Nil /\ r \in OnScreen /\ r # doc
  BY <1>1, <1>3 DEF Inv, TypeOK, OnScreen
<1>6. \A e \in Fresh : ~fresh[e].live
  BY <1>5 DEF Inv, TypeOK, Empty
<1>7. OnScreen' = OnScreen
  BY <1>1, SameScreen
<1>8. There' = There /\ Below(doc)' = Below(doc) /\ Made' = Made
  <2>1. There' = There
    BY <1>1 DEF There
  <2>2. Made' = Made
    BY <1>1, <1>4 DEF Made, new
  <2> QED BY <1>1, <2>1, <2>2, SameTree
<1>9. Saving'
  <2>1. \A c \in calls' : c.kind = "put" => c \in calls \/ (c.row = r /\ c.text = shown[r])
    BY <1>1, <1>4 DEF new
  <2>2. \A c \in calls : c.kind = "put" => c.row # r
    BY <1>1, <1>3, <1>5 DEF Viewed, Saving, Due
  <2>3. Due(r, shown[r], FALSE)'
    BY <1>1, <1>4, <2>1, <2>2 DEF Due, new
  <2>4. ASSUME NEW x \in Row, x # r, NEW t, NEW b \in BOOLEAN, Due(x, t, b)
        PROVE  Due(x, t, b)'
    BY <1>1, <2>1, <2>4 DEF Due
  <2>5. \A x \in Row : shown'[x] # Nil => Due(x, shown[x], x \in timer)'
    <3> TAKE x \in Row
    <3>1. CASE x = r
      BY <1>1, <2>3, <3>1 DEF Due
    <3>2. CASE x # r
      BY <1>1, <1>3, <2>1, <3>2 DEF Viewed, Saving, Due
    <3> QED BY <3>1, <3>2
  <2>6. doc' # Nil => Due(doc, headline, titled # Nil)'
    BY <1>1, <1>3, <1>5, <2>1 DEF Viewed, Saving, Due
  <2>7. \A c \in calls' : c.kind = "put" => c.row \in OnScreen' \union {doc'}
    BY <1>1, <1>3, <1>5, <1>7, <2>1 DEF Viewed, Saving
  <2> QED BY <1>1, <1>3, <1>6, <2>5, <2>6, <2>7 DEF Viewed, Saving
<1>10. Creating'
  BY <1>1, <1>3, <1>4 DEF Viewed, Creating, new
<1>11. Viewed'
  BY <1>1, <1>3, <1>7, <1>8, <1>9, <1>10 DEF Viewed
<1> QED BY <1>1, <1>2, <1>3, <1>4, <1>8, <1>11 DEF Following, Turning, Resting, new

\* The timer of the title fires.
LEMMA FireTitleFollows ==
  ASSUME Inv, Grounded, Following, calm', FireTitle
  PROVE  Following'
<1>1. calm /\ titled # Nil
  BY DEF FireTitle, watch
<1>2. Resting
  BY <1>1, RestsWhile
<1>3. /\ Viewed /\ doc \in There \union {Nil}
      /\ \A c \in calls : c.kind \in {"put", "post", "posted"}
      /\ doc \notin OnScreen
  BY <1>1, <1>2, RestingIs
<1>4. doc # Nil /\ doc \in Row /\ titled = headline
  BY <1>1, <1>3 DEF Viewed, Saving, There
<1> DEFINE new == Put(doc, titled)
<1>5. new.kind = "put" /\ new.row = doc /\ new.text = headline
  BY <1>4 DEF Put, Call
<1>6. /\ titled' = Nil /\ calls' = calls \union {new}
      /\ UNCHANGED <<content, home, doc, header, headline, shown, timer, orphan, fresh, loads>>
  BY <1>4 DEF FireTitle, Send, server, screen, head
<1>7. \A c \in calls' : c \in calls \/ c = new
  BY <1>6
<1>8. new \in calls'
  BY <1>6
<1>9. calls \subseteq calls'
  BY <1>6
<1> HIDE DEF new
<1>10. OnScreen' = OnScreen
  BY <1>6, SameScreen
<1>11. There' = There /\ Below(doc)' = Below(doc) /\ Made' = Made
  <2>1. There' = There
    BY <1>6 DEF There
  <2>2. Made' = Made
    BY <1>5, <1>7, <1>9 DEF Made
  <2> QED BY <1>6, <2>1, <2>2, SameTree
<1>12. Saving'
  <2>1. \A c \in calls : c.kind = "put" => c.row # doc
    BY <1>1, <1>3, <1>4 DEF Viewed, Saving, Due
  <2>2. Due(doc, headline, FALSE)'
    BY <1>5, <1>6, <1>7, <1>8, <2>1 DEF Due
  <2>3. \A x \in Row : shown'[x] # Nil => Due(x, shown[x], x \in timer)'
    <3> TAKE x \in Row
    <3>1. shown[x] # Nil => x # doc /\ Due(x, shown[x], x \in timer)
      BY <1>3 DEF Viewed, Saving, OnScreen
    <3> QED BY <1>5, <1>6, <1>7, <1>9, <3>1 DEF Due
  <2>4. \A e \in Fresh : fresh'[e].live /\ fresh'[e].row # Nil =>
          Due(fresh[e].row, fresh[e].text, fresh[e].timer)'
    <3> TAKE e \in Fresh
    <3>1. fresh[e].live /\ fresh[e].row # Nil =>
            fresh[e].row # doc /\ Due(fresh[e].row, fresh[e].text, fresh[e].timer)
      BY <1>3 DEF Viewed, Saving, OnScreen
    <3> QED BY <1>5, <1>6, <1>7, <1>9, <3>1 DEF Due
  <2>5. \A c \in calls' : c.kind = "put" => c.row \in OnScreen' \union {doc'}
    BY <1>3, <1>5, <1>6, <1>7, <1>10 DEF Viewed, Saving
  <2> QED BY <1>6, <2>2, <2>3, <2>4, <2>5 DEF Saving
<1>13. Creating'
  BY <1>3, <1>5, <1>6, <1>7 DEF Viewed, Creating
<1>14. Viewed'
  BY <1>3, <1>6, <1>10, <1>11, <1>12, <1>13 DEF Viewed
<1> QED BY <1>2, <1>3, <1>5, <1>6, <1>7, <1>11, <1>14 DEF Following, Turning, Resting

\* What the firing of its timer leaves of an editor.
LEMMA FiredFacts ==
  ASSUME fresh \in [Fresh -> Editors], NEW e \in Fresh, FireFresh(e)
  PROVE  \A g \in Fresh :
           /\ fresh'[g].live = fresh[g].live
           /\ fresh'[g].timer = (IF g = e THEN FALSE ELSE fresh[g].timer)
           /\ fresh[g].live => fresh'[g].row = fresh[g].row /\ fresh'[g].text = fresh[g].text
<1> DEFINE f == [fresh EXCEPT ![e].timer = FALSE]
<1>1. fresh' = Kept(f, calls')
  BY DEF FireFresh
<1>2. /\ f \in [Fresh -> Editors]
      /\ \A g \in Fresh :
           /\ f[g].live = fresh[g].live /\ f[g].row = fresh[g].row /\ f[g].text = fresh[g].text
           /\ f[g].timer = (IF g = e THEN FALSE ELSE fresh[g].timer)
  BY DEF Editors
<1> HIDE DEF f
<1> TAKE g \in Fresh
<1>3. /\ Kept(f, calls')[g].live = f[g].live
      /\ Kept(f, calls')[g].timer = f[g].timer
      /\ f[g].live => Kept(f, calls')[g] = f[g]
  BY <1>2, KeptFacts, ZenonT(30)
<1> QED BY <1>1, <1>2, <1>3

\* What the id of its row makes of an editor.
LEMMA PostedFacts ==
  ASSUME fresh \in [Fresh -> Editors], NEW c, c.by \in Fresh, Posted(c)
  PROVE  \A g \in Fresh :
           /\ fresh'[g].live = fresh[g].live /\ fresh'[g].timer = fresh[g].timer
           /\ fresh[g].live =>
                /\ fresh'[g].row = (IF g = c.by THEN c.row ELSE fresh[g].row)
                /\ fresh'[g].text = fresh[g].text
<1> DEFINE f == [fresh EXCEPT ![c.by].row = c.row]
<1>1. fresh' = Kept(f, calls')
  BY DEF Posted
<1>2. \A g \in Fresh :
           /\ f[g].live = fresh[g].live /\ f[g].timer = fresh[g].timer
           /\ f[g].text = fresh[g].text
           /\ f[g].row = (IF g = c.by THEN c.row ELSE fresh[g].row)
  BY DEF Editors
<1> HIDE DEF f
<1> TAKE g \in Fresh
<1>3. \/ Kept(f, calls')[g] = f[g]
      \/ ~f[g].live /\ ~f[g].timer /\ Kept(f, calls')[g] = NoEditor
  BY DEF Kept
<1>4. NoEditor.live = FALSE /\ NoEditor.timer = FALSE
  BY DEF NoEditor
<1>5. fresh[g].live \in BOOLEAN /\ fresh[g].timer \in BOOLEAN
  BY DEF Editors
<1>6. CASE Kept(f, calls')[g] = f[g]
  BY <1>1, <1>2, <1>6
<1>7. CASE ~f[g].live /\ ~f[g].timer /\ Kept(f, calls')[g] = NoEditor
  <2>1. ~fresh[g].live /\ ~fresh[g].timer
    BY <1>2, <1>7
  <2>2. fresh'[g] = NoEditor
    BY <1>1, <1>7
  <2>3. fresh'[g].live = FALSE /\ fresh'[g].timer = FALSE
    BY <1>4, <2>2
  <2>4. fresh[g].live = FALSE /\ fresh[g].timer = FALSE
    BY <1>5, <2>1
  <2> QED BY <2>1, <2>3, <2>4
<1> QED BY <1>3, <1>6, <1>7

\* The timer of an editor of an empty view fires.
LEMMA FireFreshFollows ==
  ASSUME Inv, Grounded, Following, calm', NEW e \in Fresh, FireFresh(e)
  PROVE  Following'
<1>1. /\ calm /\ fresh[e].timer
      /\ UNCHANGED <<content, home, doc, header, headline, titled, shown, timer, orphan, loads>>
  BY DEF FireFresh, server, head, watch
<1>2. Resting
  BY <1>1, RestsWhile
<1>3. /\ Viewed /\ doc \in There \union {Nil}
      /\ \A c \in calls : c.kind \in {"put", "post", "posted"}
      /\ doc \notin OnScreen
  BY <1>1, <1>2, RestingIs
<1>4. fresh \in [Fresh -> Editors]
  BY DEF Inv, TypeOK, Editors
<1>5. \A g \in Fresh :
        /\ fresh'[g].live = fresh[g].live
        /\ fresh'[g].timer = (IF g = e THEN FALSE ELSE fresh[g].timer)
        /\ fresh[g].live => fresh'[g].row = fresh[g].row /\ fresh'[g].text = fresh[g].text
  BY <1>4, FiredFacts
<1>6. /\ fresh[e].live /\ \A g \in Fresh : fresh[g].live => g = e
      /\ \A x \in Row : shown[x] = Nil
  BY <1>1, <1>3 DEF Viewed, Inv, TypeOK, Empty
<1>7. OnScreen' = OnScreen
  BY <1>1, <1>5, SameScreen
<1>8. There' = There /\ Below(doc)' = Below(doc)
  <2>1. There' = There
    BY <1>1 DEF There
  <2> QED BY <1>1, <2>1, SameTree
<1>9. CASE calls' = calls
  <2>1. Made' = Made
    BY <1>9 DEF Made
  <2>2. Saving'
    <3>2. calls' = calls => fresh[e].row = Nil
      <4>1. ASSUME fresh[e].row # Nil PROVE Put(fresh[e].row, fresh[e].text) \notin calls
        <5>1. Put(fresh[e].row, fresh[e].text).kind = "put"
              /\ Put(fresh[e].row, fresh[e].text).row = fresh[e].row
          BY DEF Put, Call
        <5> QED BY <1>1, <1>3, <1>6, <4>1, <5>1 DEF Viewed, Saving, Due
      <4> QED BY <4>1 DEF FireFresh, Send
    <3>3. \A g \in Fresh : fresh[g].live' => (fresh[g].row = Nil)'
      BY <1>5, <1>6, <1>9, <3>2
    <3>4. doc' # Nil => Due(doc, headline, titled # Nil)'
      BY <1>1, <1>3, <1>9 DEF Viewed, Saving, Due
    <3>5. \A c \in calls' : c.kind = "put" => c.row \in OnScreen' \union {doc'}
      BY <1>1, <1>3, <1>7, <1>9 DEF Viewed, Saving
    <3> QED BY <1>1, <1>3, <1>6, <3>3, <3>4, <3>5 DEF Viewed, Saving
  <2>3. Creating'
    <3>1. ASSUME NEW c \in calls, c.kind \in {"post", "posted"}
          PROVE  /\ fresh[c.by].live' /\ (fresh[c.by].row = Nil)' /\ ~fresh[c.by].timer'
                 /\ fresh'[c.by].text = fresh[c.by].text
      BY <1>3, <1>5, <3>1 DEF Viewed, Creating, Inv, SaidEverywhere
    <3> QED BY <1>1, <1>3, <1>9, <3>1 DEF Viewed, Creating
  <2>4. Viewed'
    BY <1>1, <1>3, <1>5, <1>7, <1>8, <2>1, <2>2, <2>3 DEF Viewed
  <2> QED BY <1>1, <1>2, <1>3, <1>8, <1>9, <2>4 DEF Following, Turning, Resting
<1>10. CASE fresh[e].row # Nil
  <2> DEFINE new == Put(fresh[e].row, fresh[e].text)
  <2>1. new.kind = "put" /\ new.row = fresh[e].row /\ new.text = fresh[e].text
    BY DEF Put, Call
  <2>2. calls' = calls \union {new}
    BY <1>10 DEF FireFresh, Send
  <2> HIDE DEF new
  <2>3. /\ \A c \in calls' : c \in calls \/ c = new
        /\ new \in calls' /\ calls \subseteq calls'
    BY <2>2
  <2>4. fresh[e].row \in OnScreen /\ fresh[e].row # doc
    BY <1>3, <1>6, <1>10 DEF OnScreen
  <2>5. Made' = Made
    BY <2>1, <2>3 DEF Made
  <2>6. \A c \in calls : c.kind = "put" => c.row # fresh[e].row
    BY <1>1, <1>3, <1>6, <1>10 DEF Viewed, Saving, Due
  <2>7. Saving'
    <3>1. Due(fresh[e].row, fresh[e].text, fresh[e].timer)'
      BY <1>5, <1>6, <2>1, <2>3, <2>6 DEF Due
    <3>2. \A g \in Fresh : fresh[g].live' /\ (fresh[g].row # Nil)' =>
            Due(fresh[g].row, fresh[g].text, fresh[g].timer)'
      BY <1>5, <1>6, <3>1
    <3>3. doc' # Nil => Due(doc, headline, titled # Nil)'
      BY <1>1, <1>3, <2>1, <2>3, <2>4 DEF Viewed, Saving, Due
    <3>4. \A c \in calls' : c.kind = "put" => c.row \in OnScreen' \union {doc'}
      BY <1>1, <1>3, <1>7, <2>1, <2>3, <2>4 DEF Viewed, Saving
    <3> QED BY <1>1, <1>3, <1>6, <3>2, <3>3, <3>4 DEF Viewed, Saving
  <2>8. Creating'
    <3>1. ASSUME NEW c \in calls, c.kind \in {"post", "posted"}
          PROVE  /\ fresh[c.by].live' /\ (fresh[c.by].row = Nil)' /\ ~fresh[c.by].timer'
                 /\ fresh'[c.by].text = fresh[c.by].text
      BY <1>3, <1>5, <3>1 DEF Viewed, Creating, Inv, SaidEverywhere
    <3>2. \A c \in calls' : c.kind \in {"post", "posted"} => c \in calls
      BY <2>1, <2>3
    <3> QED BY <1>1, <1>3, <3>1, <3>2 DEF Viewed, Creating
  <2>9. Viewed'
    BY <1>1, <1>3, <1>5, <1>7, <1>8, <2>5, <2>7, <2>8 DEF Viewed
  <2> QED BY <1>1, <1>2, <1>3, <1>8, <2>1, <2>3, <2>9 DEF Following, Turning, Resting
<1>11. CASE fresh[e].row = Nil /\ calls' # calls
  <2> DEFINE new == Call("post", Nil, fresh[e].text, doc, e)
  <2>1. new.kind = "post" /\ new.at = doc /\ new.text = fresh[e].text /\ new.by = e
    BY DEF Call
  <2>2. calls' = calls \union {new}
    BY <1>11 DEF FireFresh, Send
  <2> HIDE DEF new
  <2>3. /\ \A c \in calls' : c \in calls \/ c = new
        /\ new \in calls' /\ calls \subseteq calls'
    BY <2>2
  <2>4. \A c \in calls : c.kind = "put"
    BY <1>1, <1>3, <1>6 DEF Viewed, Creating, Inv, SaidEverywhere
  <2>5. Made' = Made
    BY <2>1, <2>3 DEF Made
  <2>6. Saving'
    <3>1. \A g \in Fresh : fresh[g].live' => (fresh[g].row = Nil)'
      BY <1>5, <1>6, <1>11
    <3>2. doc' # Nil => Due(doc, headline, titled # Nil)'
      BY <1>1, <1>3, <2>1, <2>3 DEF Viewed, Saving, Due
    <3>3. \A c \in calls' : c.kind = "put" => c.row \in OnScreen' \union {doc'}
      BY <1>1, <1>3, <1>7, <2>1, <2>3 DEF Viewed, Saving
    <3> QED BY <1>1, <1>3, <1>6, <3>1, <3>2, <3>3 DEF Viewed, Saving
  <2>7. Creating'
    <3>1. \A c \in calls' : c.kind \in {"post", "posted"} => c = new
      BY <2>1, <2>3, <2>4
    <3>2. new.kind # "posted"
      BY <2>1
    <3>3. /\ fresh[e].live' /\ (fresh[e].row = Nil)' /\ ~fresh[e].timer'
          /\ fresh'[e].text = fresh[e].text
      BY <1>5, <1>6, <1>11
    <3>4. new.at = doc' /\ new.text = fresh'[e].text /\ new.by = e
      BY <1>1, <2>1, <3>3
    <3> QED BY <3>1, <3>2, <3>3, <3>4 DEF Creating
  <2>8. Viewed'
    BY <1>1, <1>3, <1>5, <1>7, <1>8, <2>5, <2>6, <2>7 DEF Viewed
  <2> QED BY <1>1, <1>2, <1>3, <1>8, <2>1, <2>3, <2>8 DEF Following, Turning, Resting
<1> QED BY <1>9, <1>10, <1>11

\* The id of a new row arrives at its editor.
LEMMA PostedFollows ==
  ASSUME Inv, Grounded, Following, calm', NEW c \in calls, Posted(c)
  PROVE  Following'
<1>1. /\ calm /\ c.kind = "posted" /\ calls' = calls \ {c}
      /\ UNCHANGED <<content, home, doc, header, headline, titled, shown, timer, orphan, loads>>
  BY DEF Posted, Answer, server, head, watch
<1>2. Resting
  BY <1>1, RestsWhile
<1>3. /\ Viewed /\ doc \in There \union {Nil}
      /\ \A d \in calls : d.kind \in {"put", "post", "posted"}
      /\ doc \notin OnScreen /\ Made \subseteq There /\ doc \notin Made
  BY <1>1, <1>2, RestingIs
<1>4. fresh \in [Fresh -> Editors] /\ c.by \in Fresh /\ c.row \in Row
  BY <1>1 DEF Inv, TypeOK, Editors, SaidEverywhere
<1>5. \A g \in Fresh :
        /\ fresh'[g].live = fresh[g].live /\ fresh'[g].timer = fresh[g].timer
        /\ fresh[g].live => /\ fresh'[g].row = (IF g = c.by THEN c.row ELSE fresh[g].row)
                            /\ fresh'[g].text = fresh[g].text
  BY <1>4, PostedFacts
<1>6. /\ fresh[c.by].live /\ fresh[c.by].row = Nil /\ ~fresh[c.by].timer
      /\ content[c.row] = fresh[c.by].text
      /\ \A d \in calls : d.kind \in {"post", "posted"} => d = c
  BY <1>1, <1>3 DEF Viewed, Creating
<1>7. /\ \A g \in Fresh : fresh[g].live => g = c.by
      /\ \A x \in Row : shown[x] = Nil
  BY <1>4, <1>6 DEF Inv, TypeOK, Empty
<1>8. Made = {c.row} /\ Made' = {}
  BY <1>1, <1>6 DEF Made
<1>9. OnScreen = {} /\ OnScreen' = {c.row}
  <2>1. c.row # Nil
    BY <1>4, EditorAssumption
  <2>2. {g \in Fresh : fresh[g].live} = {c.by} /\ {g \in Fresh : fresh'[g].live} = {c.by}
    BY <1>4, <1>5, <1>6, <1>7
  <2>3. {x \in Row : shown[x] # Nil} = {} /\ {x \in Row : shown'[x] # Nil} = {}
    BY <1>1, <1>7
  <2>4. fresh'[c.by].row = c.row
    BY <1>4, <1>5, <1>6
  <2> QED BY <1>6, <2>1, <2>2, <2>3, <2>4 DEF OnScreen
<1>10. There' = There /\ Below(doc)' = Below(doc)
  <2>1. There' = There
    BY <1>1 DEF There
  <2> QED BY <1>1, <2>1, SameTree
<1>11. Saving'
  <2>1. \A d \in calls : d.kind = "put" => d.row # c.row
    BY <1>3, <1>8, <1>9 DEF Viewed, Saving
  <2>2. ASSUME NEW g \in Fresh, fresh[g].live' /\ (fresh[g].row # Nil)'
        PROVE  Due(fresh[g].row, fresh[g].text, fresh[g].timer)'
    <3>1. g = c.by
      BY <1>5, <1>7, <2>2
    <3>2. fresh'[g].row = c.row /\ fresh'[g].text = content[c.row]
      BY <1>5, <1>6, <3>1
    <3> QED BY <1>1, <2>1, <3>2 DEF Due
  <2>3. doc' # Nil => Due(doc, headline, titled # Nil)'
    BY <1>1, <1>3 DEF Viewed, Saving, Due
  <2>4. \A d \in calls' : d.kind = "put" => d.row \in OnScreen' \union {doc'}
    BY <1>1, <1>3, <1>9 DEF Viewed, Saving
  <2> QED BY <1>1, <1>3, <1>7, <2>2, <2>3, <2>4 DEF Viewed, Saving
<1>12. Creating'
  BY <1>1, <1>6 DEF Creating
<1>13. Viewed'
  BY <1>1, <1>3, <1>5, <1>8, <1>9, <1>10, <1>11, <1>12 DEF Viewed
<1> QED BY <1>1, <1>2, <1>3, <1>10, <1>13 DEF Following, Turning, Resting

\* The server saves a text.
LEMMA ServePutFollows ==
  ASSUME Inv, Grounded, Following, calm', NEW c \in calls, ServePut(c)
  PROVE  Following'
<1>1. /\ calm /\ c.kind = "put" /\ calls' = calls \ {c}
      /\ UNCHANGED <<home, doc, header, headline, titled, shown, timer, orphan, fresh, loads>>
      /\ content' = IF c.row \in There THEN [content EXCEPT ![c.row] = c.text] ELSE content
  BY DEF ServePut, Answer, screen, head, watch
<1>2. Resting
  BY <1>1, RestsWhile
<1>3. /\ Viewed /\ doc \in There \union {Nil}
      /\ \A d \in calls : d.kind \in {"put", "post", "posted"}
      /\ OnScreen \subseteq There /\ doc \notin OnScreen /\ doc \notin Made
  BY <1>1, <1>2, RestingIs
<1>4. /\ c.row \in There /\ c.row # Nil /\ c.text \in Words /\ c.text # Nil
      /\ c.row \in OnScreen \union {doc}
  <2>1. c.row \in Row
    BY <1>1 DEF Inv, SaidEverywhere
  <2> QED BY <1>1, <1>3, <2>1, EditorAssumption DEF Viewed, Saving, Inv, TypeOK, Words
<1>5. content \in [Row -> Words \union {Nil}] /\ There \subseteq Row
  BY DEF Inv, TypeOK, There
<1>6. \A x \in Row : content'[x] = (IF x = c.row THEN c.text ELSE content[x])
  BY <1>1, <1>4, <1>5
<1>7. OnScreen' = OnScreen
  BY <1>1, SameScreen
<1>8. There' = There /\ Below(doc)' = Below(doc) /\ Made' = Made
  <2>1. There' = There
    BY <1>4, <1>6 DEF There
  <2>2. Made' = Made
    BY <1>1 DEF Made
  <2> QED BY <1>1, <2>1, <2>2, SameTree
<1>9. ASSUME NEW x \in Row, NEW t, NEW b \in BOOLEAN, Due(x, t, b) PROVE Due(x, t, b)'
  <2>1. CASE x = c.row
    BY <1>1, <1>6, <1>9, <2>1 DEF Due
  <2>2. CASE x # c.row
    BY <1>1, <1>6, <1>9, <2>2 DEF Due
  <2> QED BY <2>1, <2>2
<1>10. Saving'
  <2>1. doc' # Nil => Due(doc, headline, titled # Nil)'
    <3> SUFFICES ASSUME doc # Nil PROVE Due(doc, headline, titled # Nil)'
      BY <1>1
    <3> PICK x, t, b : x = doc /\ t = headline /\ b = (titled # Nil)
      OBVIOUS
    <3>1. x \in Row /\ b \in BOOLEAN /\ Due(x, t, b)
      BY <1>3, <1>5 DEF Viewed, Saving
    <3>2. Due(x, t, b)'
      BY <1>9, <3>1
    <3> QED BY <1>1, <3>2
  <2>2. \A x \in Row : shown'[x] # Nil => Due(x, shown[x], x \in timer)'
    <3> SUFFICES ASSUME NEW x \in Row, shown[x] # Nil PROVE Due(x, shown[x], x \in timer)'
      BY <1>1
    <3> PICK t, b : t = shown[x] /\ b = (x \in timer)
      OBVIOUS
    <3>1. b \in BOOLEAN /\ Due(x, t, b)
      BY <1>3 DEF Viewed, Saving
    <3>2. Due(x, t, b)'
      BY <1>9, <3>1
    <3> QED BY <1>1, <3>2
  <2>3. ASSUME NEW g \in Fresh, fresh[g].live, fresh[g].row # Nil
        PROVE  Due(fresh[g].row, fresh[g].text, fresh[g].timer)'
    <3> PICK x, t, b : x = fresh[g].row /\ t = fresh[g].text /\ b = fresh[g].timer
      OBVIOUS
    <3>1. x \in Row /\ b \in BOOLEAN /\ Due(x, t, b)
      BY <1>3, <2>3 DEF Viewed, Saving, Inv, TypeOK
    <3>2. Due(x, t, b)'
      BY <1>9, <3>1
    <3> QED BY <1>1, <3>2
  <2>4. \A d \in calls' : d.kind = "put" => d.row \in OnScreen' \union {doc'}
    BY <1>1, <1>3, <1>7 DEF Viewed, Saving
  <2> QED BY <1>1, <1>3, <2>1, <2>2, <2>3, <2>4 DEF Viewed, Saving
<1>11. Creating'
  <2>1. ASSUME NEW d \in calls, d.kind = "posted" PROVE d.row \in Row /\ d.row # c.row
    <3>1. d.by \in Fresh /\ d.row \in Row
      BY <2>1 DEF Inv, SaidEverywhere
    <3>2. fresh[d.by].live /\ fresh[d.by].row = Nil
      BY <1>3, <2>1 DEF Viewed, Creating
    <3>3. OnScreen = {}
      BY <3>1, <3>2 DEF OnScreen, Inv, TypeOK, Empty
    <3> QED BY <1>3, <1>4, <2>1, <3>1, <3>3 DEF Made
  <2> QED BY <1>1, <1>3, <1>6, <2>1 DEF Viewed, Creating
<1>12. Viewed'
  BY <1>1, <1>3, <1>7, <1>8, <1>10, <1>11 DEF Viewed
<1> QED BY <1>1, <1>2, <1>3, <1>8, <1>12 DEF Following, Turning, Resting

\* The server creates the row of an editor.
LEMMA ServePostFollows ==
  ASSUME Inv, Grounded, Following, calm', NEW c \in calls, ServePost(c)
  PROVE  Following'
<1>1. /\ calm /\ c.kind = "post"
      /\ UNCHANGED <<doc, header, headline, titled, shown, timer, orphan, loads>>
  BY DEF ServePost, head, watch
<1>2. Resting
  BY <1>1, RestsWhile
<1>3. /\ Viewed /\ doc \in There \union {Nil}
      /\ \A d \in calls : d.kind \in {"put", "post", "posted"}
      /\ OnScreen \subseteq There
  BY <1>1, <1>2, RestingIs
<1>4. /\ fresh[c.by].live /\ fresh[c.by].row = Nil /\ ~fresh[c.by].timer
      /\ c.at = doc /\ c.text = fresh[c.by].text
      /\ \A d \in calls : d.kind \in {"post", "posted"} => d = c
  BY <1>1, <1>3 DEF Viewed, Creating
<1>5. PICK b \in Row : /\ Insert(b, doc, c.text)
                       /\ Answer(c, {Call("posted", b, Blank, Nil, c.by)})
                       /\ UNCHANGED fresh
  BY <1>3, <1>4 DEF ServePost
<1> DEFINE new == Call("posted", b, Blank, Nil, c.by)
<1>6. new.kind = "posted" /\ new.row = b /\ new.by = c.by
  BY DEF Call
<1>7. calls' = (calls \ {c}) \union {new}
  BY <1>5 DEF Answer
<1> HIDE DEF new
<1>8. /\ There' = There \union {b} /\ b \notin There
      /\ Below(doc)' = Below(doc) \union {b}
      /\ \A r \in Row \ {b} : content'[r] = content[r]
      /\ content'[b] = c.text
  <2>1. c.text \in Words /\ content \in [Row -> Words \union {Nil}]
    BY DEF Inv, TypeOK
  <2> PICK d \in There \union {Nil} : d = doc
    BY <1>3
  <2>2. TypeOK /\ Insert(b, d, c.text)
    BY <1>5 DEF Inv
  <2>3. /\ There' = There \union {b} /\ b \notin There
        /\ Below(d)' = Below(d) \union {b}
        /\ \A r \in Row \ {b} : content'[r] = content[r]
    BY <2>1, <2>2, InsertBelow
  <2> QED BY <1>1, <1>5, <2>1, <2>3 DEF Insert
<1>9. /\ \A d \in calls' : (d \in calls /\ d.kind = "put") \/ d = new
      /\ new \in calls' /\ \A d \in calls : d.kind = "put" => d \in calls'
  BY <1>1, <1>3, <1>4, <1>7
<1>10. OnScreen' = OnScreen
  BY <1>1, <1>5, SameScreen
<1>11. Made = {} /\ Made' = {b}
  BY <1>1, <1>4, <1>6, <1>9 DEF Made
<1>12. There \subseteq Row /\ \A r \in There : content'[r] = content[r]
  BY <1>8 DEF There
<1>13. ASSUME NEW x \in There, NEW t, NEW q \in BOOLEAN, Due(x, t, q) PROVE Due(x, t, q)'
  BY <1>6, <1>9, <1>12, <1>13 DEF Due
<1>14. Saving'
  <2>1. doc' # Nil => Due(doc, headline, titled # Nil)'
    <3> SUFFICES ASSUME doc # Nil PROVE Due(doc, headline, titled # Nil)'
      BY <1>1
    <3> PICK x, t, q : x = doc /\ t = headline /\ q = (titled # Nil)
      OBVIOUS
    <3>1. x \in There /\ q \in BOOLEAN /\ Due(x, t, q)
      BY <1>3 DEF Viewed, Saving
    <3>2. Due(x, t, q)'
      BY <1>13, <3>1
    <3> QED BY <1>1, <3>2
  <2>2. /\ \A x \in Row : shown[x] = Nil
        /\ \A g \in Fresh : fresh[g].live => fresh[g].row = Nil
    <3>1. c.by \in Fresh
      BY <1>1 DEF Inv, SaidEverywhere
    <3> QED BY <1>4, <3>1 DEF Inv, TypeOK, Empty
  <2>3. \A d \in calls' : d.kind = "put" => d.row \in OnScreen' \union {doc'}
    BY <1>1, <1>3, <1>6, <1>9, <1>10 DEF Viewed, Saving
  <2> QED BY <1>1, <1>3, <1>5, <2>1, <2>2, <2>3 DEF Viewed, Saving
<1>15. Creating'
  BY <1>1, <1>4, <1>5, <1>6, <1>8, <1>9 DEF Creating
<1>16. Viewed'
  BY <1>1, <1>3, <1>5, <1>8, <1>10, <1>11, <1>14, <1>15 DEF Viewed
<1> QED BY <1>1, <1>2, <1>3, <1>6, <1>8, <1>9, <1>16 DEF Following, Turning, Resting

\* A snapshot is what it was when the server's rows are.
LEMMA SameSnapshot ==
  ASSUME content' = content, home' = home, doc' = doc
  PROVE  There' = There /\ Tree(doc)' = Tree(doc)
<1>1. There' = There
  BY DEF There
<1>2. Below(doc)' = Below(doc)
  BY <1>1, SameTree
<1> QED BY <1>1, <1>2 DEF Tree

\* While a view is being loaded nothing else is under way.
LEMMA LoadingIs ==
  ASSUME Inv, Following, calm, NEW l \in loads
  PROVE  /\ calls = {} /\ loads = {l} /\ Still /\ Faithful(l) /\ doc \in There \union {Nil}
BY DEF Following

\* Neither while the server handles a request after which the view is loaded.
LEMMA TurningIs ==
  ASSUME Inv, Following, calm, NEW c \in calls, c.kind \in {"enter", "delete", "reload"}
  PROVE  /\ calls = {c} /\ loads = {} /\ Still /\ doc \in There \union {Nil}
         /\ c.kind # "reload" => Viewed /\ c.row \in OnScreen
<1>1. c \in Turning
  BY DEF Turning
<1>2. calls = {c} /\ loads = {} /\ Still /\ doc \in There \union {Nil}
  BY <1>1 DEF Following
<1> QED BY <1>2 DEF Following

\* A view that has begun to be loaded, with nothing else under way, is what
\* Following asks for.
LEMMA LoadFollows ==
  ASSUME doc' \in There' \union {Nil}, calls' = {}, Still',
         NEW l, loads' = {l}, Faithful(l)'
  PROVE  Following'
<1>1. Turning' = {}
  BY DEF Turning
<1> QED BY <1>1 DEF Following

\* The first step of loading a view.
LEMMA BeginFollows ==
  ASSUME NEW d, d \in There' \union {Nil}, BeginLoad(d), loads = {}, calls' = {}, Still'
  PROVE  Following'
<1> DEFINE l == [at |-> d, stage |-> IF d = Nil THEN "tree" ELSE "rem",
                 title |-> Blank, tree |-> Empty]
<1>1. doc' = d /\ loads' = {l}
  BY DEF BeginLoad
<1>2. l.at = d /\ l.stage = (IF d = Nil THEN "tree" ELSE "rem")
  OBVIOUS
<1> HIDE DEF l
<1>3. Faithful(l)'
  BY <1>1, <1>2 DEF Faithful
<1> QED BY <1>1, <1>3, LoadFollows

\* The user clicks another document.
LEMMA ZoomFollows ==
  ASSUME Inv, Grounded, Following, calm', NEW d \in Row \union {Nil}, Zoom(d)
  PROVE  Following'
<1>1. /\ calm /\ Quiet /\ d \in There \union OnScreen \union {Nil} /\ BeginLoad(d)
      /\ UNCHANGED <<content, titled, timer, orphan, fresh, calls>>
  BY DEF Zoom, Act, server, screen
<1>2. Resting
  BY <1>1 DEF Quiet, Resting, Turning
<1>3. OnScreen \subseteq There
  BY <1>1, <1>2, RestingIs
<1>4. d \in There' \union {Nil}
  BY <1>1, <1>3 DEF There
<1>5. loads = {} /\ calls' = {} /\ Still'
  BY <1>1 DEF Quiet, Still
<1> QED BY <1>1, <1>4, <1>5, BeginFollows

\* A key after which the view is loaded again.
LEMMA KeyFollows ==
  ASSUME Inv, Grounded, Following, calm, Quiet, NEW c, c.kind \in {"enter", "delete"},
         c.row \in OnScreen, Send(c), UNCHANGED <<server, doc, screen, titled, loads>>
  PROVE  Following'
<1>1. calls' = {c} /\ calls = {} /\ loads = {}
  BY DEF Send, Quiet
<1>2. Resting
  BY <1>1 DEF Resting, Turning
<1>3. Viewed /\ doc \in There \union {Nil}
  BY <1>1, <1>2, RestingIs
<1>4. UNCHANGED <<content, home, doc, header, headline, titled, shown, timer, orphan, fresh, loads>>
  BY DEF server, screen, head
<1>5. OnScreen' = OnScreen
  BY <1>4, SameScreen
<1>6. There' = There /\ Below(doc)' = Below(doc) /\ Made' = Made
  <2>1. There' = There
    BY <1>4 DEF There
  <2>2. Made' = Made
    BY <1>1 DEF Made
  <2> QED BY <1>4, <2>1, <2>2, SameTree
<1>7. Saving'
  BY <1>1, <1>3, <1>4, <1>5 DEF Viewed, Saving, Due
<1>8. Viewed'
  BY <1>1, <1>3, <1>4, <1>5, <1>6, <1>7 DEF Viewed, Creating
<1>9. Still'
  BY <1>4 DEF Quiet, Still
<1> QED BY <1>1, <1>3, <1>4, <1>5, <1>6, <1>8, <1>9 DEF Following

\* The answer to such a key arrives.
LEMMA ReloadFollows ==
  ASSUME Inv, Grounded, Following, calm', NEW c \in calls, Reload(c)
  PROVE  Following'
<1>1. /\ calm /\ c.kind = "reload" /\ calls' = calls \ {c} /\ BeginLoad(doc)
      /\ UNCHANGED <<content, titled, timer, orphan, fresh>>
  BY DEF Reload, Answer, server, screen, watch
<1>2. calls = {c} /\ loads = {} /\ Still /\ doc \in There \union {Nil}
  BY <1>1, TurningIs
<1>3. doc \in There' \union {Nil} /\ calls' = {} /\ Still'
  BY <1>1, <1>2 DEF There, Still
<1> PICK d : d = doc
  OBVIOUS
<1> QED BY <1>1, <1>2, <1>3, BeginFollows

\* The title of the document arrives.
LEMMA GetRemFollows ==
  ASSUME Inv, Grounded, Following, calm', NEW l \in loads, GetRem(l)
  PROVE  Following'
<1>1. /\ calm /\ l.stage = "rem"
      /\ UNCHANGED <<content, home, doc, titled, timer, orphan, fresh, calls>>
  BY DEF GetRem, server, screen, watch
<1>2. calls = {} /\ loads = {l} /\ Still /\ Faithful(l) /\ doc \in There \union {Nil}
  BY <1>1, LoadingIs
<1>3. l.at = doc /\ doc \in There
  BY <1>1, <1>2 DEF Faithful
<1> PICK k : k = [l EXCEPT !.stage = "tree", !.title = content[l.at]]
  OBVIOUS
<1>4. loads' = {k}
  BY <1>2, <1>3 DEF GetRem
<1>5. k.at = doc /\ k.stage = "tree" /\ k.title = content[doc]
  BY <1>3 DEF Inv, TypeOK
<1>6. Faithful(k)'
  BY <1>1, <1>5 DEF Faithful
<1>7. doc' \in There' \union {Nil} /\ calls' = {} /\ Still'
  BY <1>1, <1>2 DEF There, Still
<1> QED BY <1>4, <1>6, <1>7, LoadFollows

\* The tree arrives.
LEMMA GetTreeFollows ==
  ASSUME Inv, Grounded, Following, calm', NEW l \in loads, GetTree(l)
  PROVE  Following'
<1>1. /\ calm /\ l.stage = "tree"
      /\ UNCHANGED <<content, home, doc, titled, timer, orphan, fresh, calls>>
  BY DEF GetTree, server, screen, watch
<1>2. calls = {} /\ loads = {l} /\ Still /\ Faithful(l) /\ doc \in There \union {Nil}
  BY <1>1, LoadingIs
<1>3. l.at = doc /\ (doc # Nil => l.title = content[doc])
  BY <1>1, <1>2 DEF Faithful
<1> PICK k : k = [l EXCEPT !.stage = "back", !.tree = Tree(l.at)]
  OBVIOUS
<1>4. loads' = {k}
  BY <1>2, <1>3 DEF GetTree
<1>5. k.at = doc /\ k.stage = "back" /\ k.title = l.title /\ k.tree = Tree(doc)
  BY <1>3 DEF Inv, TypeOK
<1>6. There' = There /\ Tree(doc)' = Tree(doc)
  BY <1>1, SameSnapshot
<1>7. Faithful(k)'
  BY <1>1, <1>3, <1>5, <1>6 DEF Faithful
<1>8. doc' \in There' \union {Nil} /\ calls' = {} /\ Still'
  BY <1>1, <1>2, <1>6 DEF Still
<1> QED BY <1>4, <1>7, <1>8, LoadFollows

\* What a snapshot shows is what is below its document.
LEMMA SnapshotShows ==
  ASSUME Grounded, doc \in There \union {Nil}
  PROVE  /\ {r \in Row : Tree(doc)[r] # Nil} = Below(doc)
         /\ \A r \in Row : Tree(doc)[r] # Nil => Tree(doc)[r] = content[r]
<1>1. Below(doc) \subseteq There
  BY BelowFacts
<1>2. \A r \in There : r \in Row /\ content[r] # Nil
  BY DEF There
<1>3. \A r \in Row : Tree(doc)[r] = IF r \in Below(doc) THEN content[r] ELSE Nil
  BY DEF Tree
<1> QED BY <1>1, <1>2, <1>3

\* The editors when a view is put on the screen while none is busy.
LEMMA RenderedFacts ==
  ASSUME fresh \in [Fresh -> Editors], NEW tree, ReplaceBullets(tree),
         calls = {}, \A e \in Fresh : ~fresh[e].timer
  PROVE  \A e \in Fresh : ~fresh'[e].timer /\ fresh'[e].row = Nil
<1> DEFINE g == [e \in Fresh |-> [fresh[e] EXCEPT !.live = FALSE]]
           off == Kept(g, calls)
<1>1. \A e \in Fresh : ~g[e].live /\ ~g[e].timer
  BY DEF Editors
<1>2. \/ tree = Empty /\ \E e \in Fresh : fresh' = [off EXCEPT ![e].live = TRUE]
      \/ fresh' = off
  BY DEF ReplaceBullets
<1> HIDE DEF g
<1>3. off = [e \in Fresh |-> NoEditor]
  BY <1>1 DEF Kept
<1>4. NoEditor.row = Nil /\ ~NoEditor.timer
  BY DEF NoEditor
<1> HIDE DEF off
<1>5. CASE fresh' = off
  BY <1>3, <1>4, <1>5
<1>6. CASE \E e \in Fresh : fresh' = [off EXCEPT ![e].live = TRUE]
  <2>1. PICK e \in Fresh : fresh' = [off EXCEPT ![e].live = TRUE]
    BY <1>6
  <2>2. [NoEditor EXCEPT !.live = TRUE].row = Nil /\ ~[NoEditor EXCEPT !.live = TRUE].timer
    BY DEF NoEditor
  <2>3. \A f \in Fresh : fresh'[f] = NoEditor \/ fresh'[f] = [NoEditor EXCEPT !.live = TRUE]
    BY <1>3, <2>1
  <2> QED BY <1>4, <2>2, <2>3
<1> QED BY <1>2, <1>5, <1>6

\* The view replaces the one on the screen.
LEMMA RenderFollows ==
  ASSUME Inv, Grounded, Following, calm', NEW l \in loads, Render(l)
  PROVE  Following'
<1>1. /\ calm /\ l.stage = "back" /\ header' = l.at /\ headline' = l.title
      /\ ReplaceBullets(l.tree) /\ loads' = loads \ {l}
      /\ UNCHANGED <<content, home, doc, titled, calls>>
  BY DEF Render, server, watch
<1>2. calls = {} /\ loads = {l} /\ Still /\ Faithful(l) /\ doc \in There \union {Nil}
  BY <1>1, LoadingIs
<1>3. /\ l.at = doc /\ l.tree = Tree(doc) /\ (doc # Nil => l.title = content[doc])
      /\ titled = Nil /\ timer = {} /\ orphan = {} /\ \A e \in Fresh : ~fresh[e].timer
  BY <1>1, <1>2 DEF Faithful, Still
<1>4. shown' = Tree(doc) /\ timer' = {} /\ orphan' = {}
  BY <1>1, <1>3 DEF ReplaceBullets
<1>5. \A e \in Fresh : ~fresh'[e].timer /\ fresh'[e].row = Nil
  <2>1. fresh \in [Fresh -> Editors]
    BY DEF Inv, TypeOK, Editors
  <2> QED BY <1>1, <1>2, <1>3, <2>1, RenderedFacts
<1>6. There' = There /\ Below(doc)' = Below(doc) /\ Made' = {}
  <2>1. There' = There
    BY <1>1 DEF There
  <2>2. Made' = {}
    BY <1>1, <1>2 DEF Made
  <2> QED BY <1>1, <2>1, <2>2, SameTree
<1>7. /\ {r \in Row : shown'[r] # Nil} = Below(doc)
      /\ \A r \in Row : shown'[r] # Nil => shown'[r] = content[r]
  BY <1>2, <1>4, SnapshotShows
<1>8. OnScreen' = Below(doc)
  <2>1. {fresh'[e].row : e \in {f \in Fresh : fresh'[f].live}} \ {Nil} = {}
    BY <1>5
  <2> QED BY <1>7, <2>1 DEF OnScreen
<1>9. Saving'
  BY <1>1, <1>2, <1>3, <1>4, <1>5, <1>7 DEF Saving, Due
<1>10. Viewed'
  BY <1>1, <1>2, <1>3, <1>4, <1>5, <1>6, <1>8, <1>9 DEF Viewed, Creating
<1> QED BY <1>1, <1>2, <1>6, <1>10 DEF Following, Turning

\* The server inserts a bullet after another.
LEMMA ServeEnterFollows ==
  ASSUME Inv, Grounded, Following, calm', NEW c \in calls, ServeEnter(c)
  PROVE  Following'
<1>1. /\ calm /\ c.kind = "enter"
      /\ UNCHANGED <<doc, titled, timer, orphan, fresh, loads>>
  BY DEF ServeEnter, screen, watch
<1>2. calls = {c} /\ loads = {} /\ Still /\ doc \in There \union {Nil} /\ Viewed /\ c.row \in OnScreen
  BY <1>1, TurningIs
<1>3. c.row \in There
  BY <1>2, BelowFacts DEF Viewed
<1> DEFINE new == Call("reload", Nil, Blank, Nil, Nil)
<1>4. PICK b \in Row : Insert(b, home[c.row], Blank) /\ Answer(c, {new})
  BY <1>3 DEF ServeEnter
<1>5. new.kind = "reload"
  BY DEF Call
<1> HIDE DEF new
<1>6. calls' = {new}
  BY <1>2, <1>4 DEF Answer
<1>7. There \subseteq There'
  <2>1. Blank \in Words /\ home[c.row] \in There \union {Nil}
    BY <1>3 DEF Words, Grounded, There
  <2> PICK p \in There \union {Nil} : p = home[c.row]
    BY <2>1
  <2>2. TypeOK /\ Insert(b, p, Blank)
    BY <1>4 DEF Inv
  <2> QED BY <2>1, <2>2, InsertBelow
<1>8. Still'
  BY <1>1, <1>2 DEF Still
<1> QED BY <1>1, <1>2, <1>5, <1>6, <1>7, <1>8 DEF Following

\* The server deletes a bullet with what is below it, but not the document.
LEMMA ServeDeleteFollows ==
  ASSUME Inv, Grounded, Following, calm', NEW c \in calls, ServeDelete(c)
  PROVE  Following'
<1> DEFINE new == Call("reload", Nil, Blank, Nil, Nil)
<1>1. /\ calm /\ c.kind = "delete" /\ Answer(c, {new})
      /\ UNCHANGED <<doc, titled, timer, orphan, fresh, loads>>
  BY DEF ServeDelete, screen, watch
<1>2. calls = {c} /\ loads = {} /\ Still /\ doc \in There \union {Nil} /\ Viewed /\ c.row \in OnScreen
  BY <1>1, TurningIs
<1>3. new.kind = "reload"
  BY DEF Call
<1> HIDE DEF new
<1>4. calls' = {new}
  BY <1>1, <1>2 DEF Answer
<1>5. There' = There \ ({c.row} \union Below(c.row))
  BY GroundedDelete DEF Inv
<1>6. doc # Nil => doc \notin {c.row} \union Below(c.row)
  <2> SUFFICES ASSUME doc # Nil PROVE doc \notin {c.row} \union Below(c.row)
    OBVIOUS
  <2>1. c.row \in Below(doc) /\ doc \notin Below(doc)
    BY <1>2, BelowFacts DEF Viewed
  <2>2. c.row # Nil
    BY <1>1, EditorAssumption DEF Inv, SaidEverywhere
  <2>3. c.row \in Under(There, home, doc)
    BY <2>1, BelowIs
  <2>4. Under(There, home, c.row) \subseteq Under(There, home, doc)
    BY <2>3, UnderIsTransitive, Zenon
  <2>5. Below(c.row) \subseteq Below(doc)
    BY <2>2, <2>4, BelowIs
  <2> QED BY <2>1, <2>5
<1>7. doc' \in There' \union {Nil}
  BY <1>1, <1>2, <1>5, <1>6
<1>8. Still'
  BY <1>1, <1>2 DEF Still
<1> QED BY <1>1, <1>2, <1>3, <1>4, <1>7, <1>8 DEF Following

\* A document is on the screen.
LEMMA InitGrounded == Init => Grounded
<1> SUFFICES ASSUME Init PROVE Grounded
  OBVIOUS
<1>1. PICK d \in Row, rows \in SUBSET Row :
        /\ d \in rows
        /\ content = [r \in Row |-> IF r \in rows THEN Blank ELSE Nil]
        /\ home \in [Row -> {Nil, d}]
        /\ \A r \in Row : home[r] = d => r \in rows \ {d}
        /\ said = [r \in Row |-> IF r \in rows THEN {Blank} ELSE {}]
  BY DEF Init
<1>2. There = rows /\ Nil \notin Row
  BY <1>1, EditorAssumption DEF There
<1>3. \A r \in Row : said[r] = {} => content[r] = Nil
  BY <1>1
<1>4. \A r \in Row : home[r] # Nil => r \in There /\ home[r] \in There
  BY <1>1, <1>2
<1>5. ASSUME NEW S \in SUBSET Row, S # {} PROVE \E r \in S : home[r] \notin S
  <2>1. home[d] \notin Row
    BY <1>1, <1>2
  <2>2. CASE d \in S
    BY <1>5, <2>1, <2>2
  <2>3. CASE d \notin S
    <3>1. PICK r \in S : r \in Row
      BY <1>5
    <3>2. home[r] \notin S
      BY <1>1, <1>2, <1>5, <2>3, <3>1
    <3> QED BY <3>2
  <2> QED BY <2>2, <2>3
<1> QED BY <1>3, <1>4, <1>5 DEF Grounded

\* And it is what the server has.
LEMMA InitFollowing == Init => Following
<1> SUFFICES ASSUME Init PROVE Following
  OBVIOUS
<1>1. PICK d \in Row :
        /\ doc = d /\ header = d /\ headline = Blank /\ titled = Nil
        /\ shown = Tree(d) /\ timer = {} /\ orphan = {} /\ calls = {} /\ loads = {}
        /\ content[d] = Blank
  BY DEF Init
<1>2. d \in There
  BY <1>1, EditorAssumption DEF There
<1>3. \A e \in Fresh : fresh[e].row = Nil /\ ~fresh[e].timer
  <2>1. NoEditor.row = Nil /\ ~NoEditor.timer
    BY DEF NoEditor
  <2>2. [NoEditor EXCEPT !.live = TRUE].row = Nil /\ ~[NoEditor EXCEPT !.live = TRUE].timer
    BY DEF NoEditor
  <2>3. \/ fresh = [e \in Fresh |-> NoEditor]
        \/ \E e \in Fresh : fresh = [[f \in Fresh |-> NoEditor] EXCEPT ![e].live = TRUE]
    BY DEF Init
  <2>4. \A f \in Fresh : fresh[f] = NoEditor \/ fresh[f] = [NoEditor EXCEPT !.live = TRUE]
    BY <2>3
  <2> QED BY <2>1, <2>2, <2>4
<1>4. /\ {r \in Row : shown[r] # Nil} = Below(doc)
      /\ \A r \in Row : shown[r] # Nil => shown[r] = content[r]
  BY <1>1, <1>2, InitGrounded, SnapshotShows
<1>5. OnScreen = Below(doc) /\ Made = {}
  <2>1. {fresh[e].row : e \in {f \in Fresh : fresh[f].live}} \ {Nil} = {}
    BY <1>3
  <2> QED BY <1>1, <1>4, <2>1 DEF OnScreen, Made
<1>6. Viewed
  BY <1>1, <1>3, <1>4, <1>5 DEF Viewed, Saving, Creating, Due
<1> QED BY <1>1, <1>2, <1>6 DEF Following, Turning

\* Every step keeps the screen in step with the server, if the user has waited.
LEMMA FollowingStep == Inv /\ Grounded /\ Following /\ [Next]_vars => Following'
<1> SUFFICES ASSUME Inv, Grounded, Following, [Next]_vars, calm' PROVE Following'
  BY DEF Following
<1>1. ASSUME NEW r \in Row, NEW t \in Text \union {Blank}, Type(r, t) PROVE Following'
  BY <1>1, TypeFollows
<1>2. ASSUME NEW e \in Fresh, NEW t \in Text \union {Blank}, TypeFresh(e, t) PROVE Following'
  BY <1>2, TypeFreshFollows
<1>3. ASSUME NEW t \in Title, TypeTitle(t) PROVE Following'
  BY <1>3, TypeTitleFollows
<1>4. ASSUME NEW d \in Row \union {Nil}, Zoom(d) PROVE Following'
  BY <1>4, ZoomFollows
<1>5. ASSUME NEW r \in Row, Enter(r) PROVE Following'
  <2> DEFINE c == Call("enter", r, Blank, Nil, Nil)
  <2>1. c.kind = "enter" /\ c.row = r
    BY DEF Call
  <2>2. /\ r \in OnScreen /\ Send(c) /\ calm /\ Quiet
        /\ UNCHANGED <<server, doc, screen, titled, loads>>
    BY <1>5 DEF Enter, Act
  <2> PICK k : k = c
    OBVIOUS
  <2> HIDE DEF c
  <2>3. k.kind \in {"enter", "delete"} /\ k.row \in OnScreen /\ Send(k)
    BY <2>1, <2>2
  <2> QED BY <2>2, <2>3, KeyFollows
<1>6. ASSUME NEW r \in Row, Backspace(r) PROVE Following'
  <2> DEFINE c == Call("delete", r, Blank, Nil, Nil)
  <2>1. c.kind = "delete" /\ c.row = r
    BY DEF Call
  <2>2. /\ r \in OnScreen /\ Send(c) /\ calm /\ Quiet
        /\ UNCHANGED <<server, doc, screen, titled, loads>>
    BY <1>6 DEF Backspace, Act
  <2> PICK k : k = c
    OBVIOUS
  <2> HIDE DEF c
  <2>3. k.kind \in {"enter", "delete"} /\ k.row \in OnScreen /\ Send(k)
    BY <2>1, <2>2
  <2> QED BY <2>2, <2>3, KeyFollows
<1>7. ASSUME NEW r \in Row, Fire(r) PROVE Following'
  BY <1>7, FireFollows
<1>8. ASSUME NEW o \in orphan, FireOrphan(o) PROVE FALSE
  <2>1. calm
    BY <1>8 DEF FireOrphan, watch
  <2>2. Resting
    BY <1>8, <2>1, RestsWhile
  <2> QED BY <1>8, <2>1, <2>2, RestingIs DEF Viewed
<1>9. ASSUME NEW e \in Fresh, FireFresh(e) PROVE Following'
  BY <1>9, FireFreshFollows
<1>10. ASSUME FireTitle PROVE Following'
  BY <1>10, FireTitleFollows
<1>11. ASSUME NEW l \in loads, Render(l) PROVE Following'
  BY <1>11, RenderFollows
<1>12. ASSUME NEW l \in loads, RenderNull(l) PROVE FALSE
  <2>1. calm /\ l.stage = "null"
    BY <1>12 DEF RenderNull, watch
  <2>2. Faithful(l)
    BY <2>1, LoadingIs
  <2> QED BY <2>1, <2>2 DEF Faithful
<1>13. ASSUME NEW c \in calls, Posted(c) PROVE Following'
  BY <1>13, PostedFollows
<1>14. ASSUME NEW c \in calls, Reload(c) PROVE Following'
  BY <1>14, ReloadFollows
<1>15. ASSUME NEW c \in calls, ServePut(c) PROVE Following'
  BY <1>15, ServePutFollows
<1>16. ASSUME NEW c \in calls, ServePost(c) PROVE Following'
  BY <1>16, ServePostFollows
<1>17. ASSUME NEW c \in calls, ServeEnter(c) PROVE Following'
  BY <1>17, ServeEnterFollows
<1>18. ASSUME NEW c \in calls, ServeDelete(c) PROVE Following'
  BY <1>18, ServeDeleteFollows
<1>19. ASSUME NEW c \in calls, Fail(c) PROVE FALSE
  BY <1>19 DEF Fail
<1>20. ASSUME NEW l \in loads, GetRem(l) PROVE Following'
  BY <1>20, GetRemFollows
<1>21. ASSUME NEW l \in loads, GetTree(l) PROVE Following'
  BY <1>21, GetTreeFollows
<1>22. ASSUME NEW l \in loads, FailLoad(l) PROVE FALSE
  BY <1>22 DEF FailLoad
<1>23. ASSUME UNCHANGED vars PROVE Following'
  <2>1. /\ There' = There /\ Below(doc)' = Below(doc) /\ Tree(doc)' = Tree(doc)
        /\ OnScreen' = OnScreen /\ Made' = Made
    BY <1>23, SameSnapshot, SameTree DEF vars, server, screen, head, watch, OnScreen, Made
  <2>2. Saving' = Saving /\ Creating' = Creating
    BY <1>23, <2>1 DEF vars, server, screen, head, watch, Saving, Due, Creating
  <2>3. Viewed' = Viewed
    BY <1>23, <2>1, <2>2 DEF vars, server, screen, head, watch, Viewed
  <2>4. \A l \in loads : Faithful(l)' = Faithful(l)
    BY <1>23, <2>1 DEF vars, server, screen, head, watch, Faithful
  <2>5. Still' = Still /\ Turning' = Turning
    BY <1>23 DEF vars, server, screen, head, watch, Still, Turning
  <2> QED BY <1>23, <2>1, <2>3, <2>4, <2>5 DEF vars, server, screen, head, watch, Following
<1> QED
  BY <1>1, <1>2, <1>3, <1>4, <1>5, <1>6, <1>7, <1>8, <1>9, <1>10, <1>11, <1>12,
     <1>13, <1>14, <1>15, <1>16, <1>17, <1>18, <1>19, <1>20, <1>21, <1>22, <1>23
  DEF Next, User, Client, Server

\* The screen shows the document with its bullets once all is quiet.
LEMMA FollowingMirrors == Inv /\ Grounded /\ Following => ScreenMirrorsServer
<1> SUFFICES ASSUME Inv, Grounded, Following, calm, Quiet
             PROVE  /\ OnScreen = Below(doc)
                    /\ \A r \in OnScreen : TextOf(r) = {content[r]}
                    /\ header = doc
                    /\ doc # Nil => headline = content[doc]
  BY DEF ScreenMirrorsServer
<1>1. calls = {} /\ titled = Nil /\ timer = {} /\ (\A e \in Fresh : ~fresh[e].timer) /\ Resting
  BY DEF Quiet, Resting, Turning
<1>2. Viewed
  BY <1>1, RestingIs
<1>3. Made = {}
  BY <1>1 DEF Made
<1>4. ASSUME NEW r \in OnScreen PROVE TextOf(r) = {content[r]}
  <2>1. CASE shown[r] # Nil /\ r \in Row
    BY <1>1, <1>2, <2>1 DEF Viewed, Saving, Due, TextOf
  <2>2. CASE ~(shown[r] # Nil /\ r \in Row)
    <3>1. PICK e \in Fresh : fresh[e].live /\ fresh[e].row = r /\ r # Nil
      BY <2>2 DEF OnScreen
    <3>2. r \in Row
      BY <3>1 DEF Inv, TypeOK
    <3>3. \A f \in Fresh : fresh[f].live => f = e
      BY <3>1 DEF Inv, TypeOK
    <3>4. fresh[e].text = content[r]
      BY <1>1, <1>2, <3>1 DEF Viewed, Saving, Due
    <3>5. {f \in Fresh : fresh[f].live /\ fresh[f].row = r} = {e}
      BY <3>1, <3>3
    <3>6. TextOf(r) = {fresh[f].text : f \in {e}}
      BY <2>2, <3>2, <3>5 DEF TextOf
    <3> QED BY <3>4, <3>6
  <2> QED BY <2>1, <2>2
<1> QED BY <1>1, <1>2, <1>3, <1>4 DEF Viewed, Saving, Due

\* If the user has waited for the tab where that matters, and no request has
\* failed, then once all is quiet the screen shows what the server has: the
\* bullets of the document, with their texts, and the title.
THEOREM ScreenMirrors == Spec => []ScreenMirrorsServer
<1>1. Init => Grounded /\ Following
  BY InitGrounded, InitFollowing
<1>2. Inv /\ Grounded /\ Following /\ [Next]_vars => Grounded' /\ Following'
  BY GroundedStep, FollowingStep
<1>3. Inv /\ Grounded /\ Following => ScreenMirrorsServer
  BY FollowingMirrors
<1>4. Spec => [](Grounded /\ Following)
  BY <1>1, <1>2, SpecInv, PTL DEF Spec
<1> QED BY <1>3, <1>4, SpecInv, PTL
=============================================================================
