----------------------------- MODULE PdfReader -----------------------------
(***************************************************************************)
(* The PDF reader of one browser tab: opening a document, drawing its      *)
(* pages, highlighting passages and making notes of them.  Opening awaits  *)
(* three answers one after the other, drawing a page awaits pdf.js, and    *)
(* every answer changes state that is shared by all of them: the document, *)
(* the decoded file, the list of highlights, the pages on the stage, and   *)
(* which pages are drawn or being drawn.  Documents are so short that all  *)
(* pages are within reach of the viewport.                                 *)
(***************************************************************************)
EXTENDS Integers, Sequences, SequencesExt, FiniteSets

CONSTANTS
  Doc,        \* ids of documents
  Pages,      \* how many pages each has
  Recorded,   \* how many the server counted when it was uploaded
  Scale,      \* zoom levels
  First,      \* the one a tab begins with
  Earlier,    \* the document whose first page has a highlight and a note of it
  Nil,
  MaxActs     \* acts of the user and of the network (bound)

ASSUME PdfReaderAssumption ==
  /\ Pages \in [Doc -> Nat \ {0}]
  /\ Recorded \in [Doc -> Nat]
  /\ First \in Scale /\ Scale \subseteq Nat \ {0}
  /\ Earlier \in Doc /\ Nil \notin Doc \union [id : Doc, count : Nat]

VARIABLES
  docs,       \* server: the documents there are
  count,      \* server: their page_count
  hl,         \* every highlight ever made; its index is its id
  live,       \* server: the ids of those there are
  notes,      \* server: notes made of passages, each with a pin
  open,       \* isPdfSplitActive
  doc,        \* currentPdfDoc: id and page_count, or Nil
  pdf,        \* currentPdf: the document that is decoded, or Nil
  list,       \* pdfHighlights
  stage,      \* the pages on the stage: what is drawn, highlight boxes
  rendered,   \* renderedPdfPages
  rendering,  \* renderingPdfPages
  renders,    \* the calls of renderPdfPage under way, for each page
  scale,      \* pdfScale
  sel,        \* activePdfSelection; "of" is the document the text is from
  requests,   \* other calls and their requests under way
  calm,       \* history: the user has waited where waiting matters
  acts        \* acts so far, counted

server == <<docs, count, hl, live, notes>>
pages == <<stage, rendered, rendering, renders, scale>>
reader == <<open, doc, pdf, list, sel>>
vars == <<server, pages, reader, requests, calm, acts>>

Page == UNION {1..Pages[d] : d \in Doc}

Act == acts < MaxActs /\ acts' = acts + 1

Drawing == \E p \in Page : renders[p] # <<>>
Loading == \E i \in DOMAIN requests : requests[i].kind = "load"

HighlightsOf(d) == {h \in live : hl[h].doc = d}
BoxesOn(p, hls) == {h \in hls : hl[h].page = p}

----------------------------------------------------------------------------
(* renderPdfPage, as a function of what it reads and changes.               *)

View == [pdf |-> pdf, rendered |-> rendered, rendering |-> rendering,
         renders |-> renders, length |-> Len(stage)]

\* Calls for pages until their first await; "next" is what the caller awaits
\* them for.
Request(v, ps, next) ==
  LET new == {p \in ps \ (v.rendered \union v.rendering) : p <= Pages[v.pdf]}
      call == [of |-> v.pdf, step |-> "page", scale |-> 0,
               spoilt |-> FALSE, off |-> FALSE, next |-> next]
  IN IF v.pdf = Nil THEN v
     ELSE [v EXCEPT !.rendering = @ \union new,
                    !.renders = [p \in Page |-> IF p \in new THEN Append(@[p], call) ELSE @[p]]]

\* onPdfViewportScroll.
Scrolled(v) == Request(v, 1..v.length, "nothing")

\* What loadPdfDocument does after it has awaited page 1, and after page 2.
Resumed(v, next) ==
  CASE next = "nothing" -> v
    [] next = "scroll" -> Scrolled(v)
    [] next = "second" -> LET w == Request(v, {2}, "scroll") IN IF w = v THEN Scrolled(v) ELSE w

\* The i-th call for page p ends, and finally frees the page.
Ended(v, p, i, ok) ==
  LET next == v.renders[p][i].next
  IN Resumed([v EXCEPT !.renders[p] = RemoveAt(@, i),
                       !.rendering = @ \ {p},
                       !.rendered = IF ok THEN @ \union {p} ELSE @], next)

Becomes(v) ==
  /\ rendered' = v.rendered
  /\ rendering' = v.rendering
  /\ renders' = v.renders

\* The j-th call for page p is drawing on the stage, or on one that has gone.
OnCanvas(p, j, off) == renders[p][j].step = "drawing" /\ renders[p][j].off = off

\* The calls for page p when the i-th gives the canvas its size, which wipes it
\* and spoils what another call is drawing on it.
Sized(p, i) ==
  [j \in DOMAIN renders[p] |->
     IF j = i THEN [renders[p][j] EXCEPT !.step = "queued", !.scale = scale]
     ELSE [renders[p][j] EXCEPT !.spoilt = @ \/ OnCanvas(p, j, FALSE)]]

\* getPage has answered.
PageReady(p, i) ==
  /\ renders[p][i].step = "page"
  /\ IF p \in DOMAIN stage
     THEN /\ stage' = [stage EXCEPT ![p].drawn = <<>>]
          /\ renders' = [renders EXCEPT ![p] = Sized(p, i)]
          /\ UNCHANGED <<rendered, rendering>>
     ELSE /\ Becomes(Ended(View, p, i, FALSE))
          /\ UNCHANGED stage
  /\ UNCHANGED <<server, reader, scale, requests, calm, acts>>

\* pdf.js refuses a canvas on which it is drawing already.
DrawingBegins(p, i) ==
  LET busy == \E j \in DOMAIN renders[p] : OnCanvas(p, j, renders[p][i].off)
  IN /\ renders[p][i].step = "queued"
     /\ IF busy THEN Becomes(Ended(View, p, i, FALSE))
        ELSE /\ renders' = [renders EXCEPT ![p][i].step = "drawing"]
             /\ UNCHANGED <<rendered, rendering>>
     /\ UNCHANGED <<server, reader, stage, scale, requests, calm, acts>>

\* Canvas, text and highlight boxes are done.  A page that has left the stage
\* is drawn all the same, and its number counts as rendered.
DrawingEnds(p, i) ==
  LET r == renders[p][i]
      drawn == IF r.spoilt THEN <<r.of, 0>> ELSE <<r.of, r.scale>>
  IN /\ r.step = "drawing"
     /\ stage' = IF r.off THEN stage
                 ELSE [stage EXCEPT ![p].drawn = drawn, ![p].boxes = BoxesOn(p, list)]
     /\ Becomes(Ended(View, p, i, TRUE))
     /\ UNCHANGED <<server, reader, scale, requests, calm, acts>>

----------------------------------------------------------------------------
(* loadPdfDocument.                                                         *)

Load(d) == [kind |-> "load", doc |-> d, step |-> "doc", got |-> {}]

\* openPdfReader, from the library, after an upload or by the split button.
OpenReader(d) ==
  /\ Act
  /\ open' = TRUE
  /\ requests' = Append(requests, Load(d))
  /\ calm' = (calm /\ ~Drawing /\ requests = <<>>)
  /\ UNCHANGED <<server, pages, doc, pdf, list, sel>>

DocArrives(i) ==
  LET d == requests[i].doc IN
  /\ requests[i].kind = "load" /\ requests[i].step = "doc"
  /\ IF d \in docs
     THEN /\ doc' = [id |-> d, count |-> count[d]]
          /\ requests' = [requests EXCEPT ![i].step = "list"]
     ELSE /\ requests' = RemoveAt(requests, i)
          /\ UNCHANGED doc
  /\ UNCHANGED <<server, pages, open, pdf, list, sel, calm, acts>>

\* An error of the server is an empty list.
ServeList(i) ==
  LET d == requests[i].doc IN
  /\ requests[i].kind = "load" /\ requests[i].step = "list"
  /\ requests' = [requests EXCEPT ![i].step = "listed", ![i].got = HighlightsOf(d)]
  /\ UNCHANGED <<server, pages, reader, calm, acts>>

\* With the document gone meanwhile the toolbar throws.
ListArrives(i) ==
  /\ requests[i].kind = "load" /\ requests[i].step = "listed"
  /\ list' = requests[i].got
  /\ requests' = IF doc = Nil THEN RemoveAt(requests, i)
                 ELSE [requests EXCEPT ![i].step = "pdf"]
  /\ UNCHANGED <<server, pages, open, doc, pdf, sel, calm, acts>>

\* Calls that draw on pages of the old stage go on there.
OffStage ==
  [p \in Page |-> [j \in DOMAIN renders[p] |->
     IF renders[p][j].step = "page" THEN renders[p][j] ELSE [renders[p][j] EXCEPT !.off = TRUE]]]

\* Variant: pages of the last document still count as rendered.
ClearedLate(d) ==
  [pdf |-> d, rendered |-> rendered, rendering |-> {}, renders |-> OffStage, length |-> Pages[d]]

Cleared(d) ==
  [pdf |-> d, rendered |-> {}, rendering |-> {}, renders |-> OffStage, length |-> Pages[d]]

Blank(d) == [p \in 1..Pages[d] |-> [drawn |-> <<>>, boxes |-> {}]]

Patch(d) == [kind |-> "patch", doc |-> d, step |-> "sent", count |-> Pages[d]]

\* The file is decoded and the stage is set for it.  With the document gone
\* meanwhile, reading its page count throws once the old stage is cleared.
PdfArrives(i) ==
  LET d == requests[i].doc
      rest == RemoveAt(requests, i)
  IN /\ requests[i].kind = "load" /\ requests[i].step = "pdf"
     /\ \/ /\ d \notin docs
           /\ requests' = rest
           /\ UNCHANGED <<pages, doc, pdf>>
        \/ /\ d \in docs /\ doc = Nil
           /\ pdf' = d
           /\ stage' = <<>>
           /\ Becomes(Cleared(d))
           /\ requests' = rest
           /\ UNCHANGED <<scale, doc>>
        \/ /\ d \in docs /\ doc # Nil
           /\ pdf' = d
           /\ stage' = Blank(d)
           /\ Becomes(Request(Cleared(d), {1}, IF Pages[d] >= 2 THEN "second" ELSE "scroll"))
           /\ doc' = [doc EXCEPT !.count = Pages[d]]
           /\ requests' = IF doc.count = Pages[d] THEN rest ELSE Append(rest, Patch(d))
           /\ UNCHANGED scale
     /\ UNCHANGED <<server, open, list, sel, calm, acts>>

\* handleUpdatePDF.
ServePatch(i) ==
  /\ requests[i].kind = "patch"
  /\ count' = IF requests[i].doc \in docs
              THEN [count EXCEPT ![requests[i].doc] = requests[i].count] ELSE count
  /\ requests' = RemoveAt(requests, i)
  /\ UNCHANGED <<docs, hl, live, notes, pages, reader, calm, acts>>

----------------------------------------------------------------------------
(* Moving about.                                                            *)

\* Nothing is cancelled: calls under way go on at the old scale.
ZoomPdf(s) ==
  /\ open
  /\ Act
  /\ scale' = s
  /\ Becomes(Scrolled([View EXCEPT !.rendered = {}, !.rendering = {}]))
  /\ calm' = (calm /\ ~Drawing /\ ~Loading)
  /\ UNCHANGED <<server, reader, stage, requests>>

ScrollPdf ==
  /\ open
  /\ Scrolled(View) # View
  /\ Act
  /\ Becomes(Scrolled(View))
  /\ UNCHANGED <<server, reader, stage, scale, requests, calm>>

ClosePdfReader ==
  /\ open
  /\ Act
  /\ open' = FALSE
  /\ sel' = Nil
  /\ UNCHANGED <<server, pages, doc, pdf, list, requests, calm>>

\* The pin of a note.  Another document is opened first, which draws all its
\* pages.  (That a jump whose document is gone then asks for a page of the old
\* one is left out: that page has been asked for before.)
JumpToPdfPin(n) ==
  /\ Act
  /\ open' = TRUE
  /\ IF doc = Nil \/ doc.id # n.doc
     THEN /\ requests' = Append(requests, Load(n.doc))
          /\ calm' = (calm /\ ~Drawing /\ requests = <<>>)
          /\ UNCHANGED <<rendered, rendering, renders>>
     ELSE /\ Becomes(Request(View, {n.page}, "nothing"))
          /\ UNCHANGED <<requests, calm>>
  /\ UNCHANGED <<server, stage, scale, doc, pdf, list, sel>>

----------------------------------------------------------------------------
(* Highlights.                                                              *)

\* The passage is on the stage; the document is the current one.
Select(p) ==
  /\ open
  /\ p \in DOMAIN stage /\ stage[p].drawn # <<>>
  /\ sel' = [doc |-> IF doc = Nil THEN Nil ELSE doc.id, page |-> p, of |-> stage[p].drawn[1]]
  /\ sel' # sel
  /\ calm' = (calm /\ ~Loading)
  /\ UNCHANGED <<server, pages, open, doc, pdf, list, requests, acts>>

\* A click anywhere.
Deselect ==
  /\ sel # Nil
  /\ sel' = Nil
  /\ UNCHANGED <<server, pages, open, doc, pdf, list, requests, calm, acts>>

\* createHighlightFromSelection, copySelectionAsBullet, and with a note
\* extractExcerptToOutline and createCardFromSelection.
CreateHighlight(withNote) ==
  /\ open
  /\ sel # Nil /\ sel.doc # Nil
  /\ Act
  /\ requests' = Append(requests, [kind |-> "highlight", step |-> "sent", at |-> sel,
                                   withNote |-> withNote, hl |-> 0])
  /\ calm' = (calm /\ ~Loading /\ doc # Nil /\ sel.doc = doc.id)
  /\ UNCHANGED <<server, pages, reader>>

\* handleCreatePDFHighlight; an error of the server is ignored.
ServeHighlight(i) ==
  LET at == requests[i].at IN
  /\ requests[i].kind = "highlight" /\ requests[i].step = "sent"
  /\ IF at.doc \in docs
     THEN /\ hl' = Append(hl, at)
          /\ live' = live \union {Len(hl')}
          /\ requests' = [requests EXCEPT ![i].step = "answered", ![i].hl = Len(hl')]
     ELSE /\ requests' = RemoveAt(requests, i)
          /\ UNCHANGED <<hl, live>>
  /\ UNCHANGED <<docs, count, notes, pages, reader, calm, acts>>

Pin(d, p, h, of) == [doc |-> d, page |-> p, hl |-> h, of |-> of]

\* Variant: the pin names the document that is open now.
PinnedToCurrent(r) == Pin(IF doc = Nil THEN Nil ELSE doc.id, r.at.page, r.hl, r.at.of)

\* The pin names the document of the selection that the call began with.
Pinned(r) == Pin(r.at.doc, r.at.page, r.hl, r.at.of)

\* renderHighlightsForPage of the page of that number on the stage.
BoxedOn(p, hls) ==
  IF p \in DOMAIN stage THEN [stage EXCEPT ![p].boxes = BoxesOn(p, hls)] ELSE stage

HighlightReturns(i) ==
  LET r == requests[i] IN
  /\ r.kind = "highlight" /\ r.step = "answered"
  /\ list' = list \union {r.hl}
  /\ stage' = BoxedOn(r.at.page, list')
  /\ IF r.withNote
     THEN /\ requests' = Append(RemoveAt(requests, i),
                                [kind |-> "note", step |-> "sent", note |-> Pinned(r)])
          /\ UNCHANGED sel
     ELSE /\ requests' = RemoveAt(requests, i)
          /\ sel' = Nil
  /\ UNCHANGED <<server, rendered, rendering, renders, scale, open, doc, pdf, calm, acts>>

\* handleCreateRem; which bullet the note goes under is the editor's matter.
ServeNote(i) ==
  /\ requests[i].kind = "note" /\ requests[i].step = "sent"
  /\ notes' = notes \union {requests[i].note}
  /\ requests' = [requests EXCEPT ![i].step = "answered"]
  /\ UNCHANGED <<docs, count, hl, live, pages, reader, calm, acts>>

NoteReturns(i) ==
  /\ requests[i].kind = "note" /\ requests[i].step = "answered"
  /\ sel' = Nil
  /\ requests' = RemoveAt(requests, i)
  /\ UNCHANGED <<server, pages, open, doc, pdf, list, calm, acts>>

DeletePdfHighlight(h) ==
  /\ open
  /\ h \in list
  /\ Act
  /\ requests' = Append(requests, [kind |-> "delete", step |-> "sent", hl |-> h])
  /\ calm' = (calm /\ ~Loading)
  /\ UNCHANGED <<server, pages, reader>>

ServeDelete(i) ==
  LET h == requests[i].hl IN
  /\ requests[i].kind = "delete" /\ requests[i].step = "sent"
  /\ live' = live \ {h}
  /\ requests' = IF h \in live THEN [requests EXCEPT ![i].step = "answered"]
                 ELSE RemoveAt(requests, i)
  /\ UNCHANGED <<docs, count, hl, notes, pages, reader, calm, acts>>

DeleteReturns(i) ==
  LET h == requests[i].hl IN
  /\ requests[i].kind = "delete" /\ requests[i].step = "answered"
  /\ list' = list \ {h}
  /\ stage' = [p \in DOMAIN stage |-> [stage[p] EXCEPT !.boxes = @ \ {h}]]
  /\ requests' = RemoveAt(requests, i)
  /\ UNCHANGED <<server, rendered, rendering, renders, scale, open, doc, pdf, sel, calm, acts>>

----------------------------------------------------------------------------
(* Deleting a document, and failures.                                       *)

ConfirmDeletePdf(d) ==
  /\ d \in docs
  /\ Act
  /\ requests' = Append(requests, [kind |-> "drop", step |-> "sent", doc |-> d])
  /\ calm' = (calm /\ ~Drawing /\ requests = <<>>)
  /\ UNCHANGED <<server, pages, reader>>

ServeDrop(i) ==
  LET d == requests[i].doc IN
  /\ requests[i].kind = "drop" /\ requests[i].step = "sent"
  /\ docs' = docs \ {d}
  /\ live' = live \ HighlightsOf(d)
  /\ requests' = IF d \in docs THEN [requests EXCEPT ![i].step = "answered"]
                 ELSE RemoveAt(requests, i)
  /\ UNCHANGED <<count, hl, notes, pages, reader, calm, acts>>

DropReturns(i) ==
  /\ requests[i].kind = "drop" /\ requests[i].step = "answered"
  /\ requests' = RemoveAt(requests, i)
  /\ IF doc # Nil /\ doc.id = requests[i].doc
     THEN open' = FALSE /\ doc' = Nil /\ pdf' = Nil /\ sel' = Nil
     ELSE UNCHANGED <<open, doc, pdf, sel>>
  /\ UNCHANGED <<server, pages, list, calm, acts>>

\* A request or its answer is lost, and the call ends where it is.
Lose(i) ==
  /\ Act
  /\ requests' = RemoveAt(requests, i)
  /\ calm' = FALSE
  /\ UNCHANGED <<server, pages, reader>>

----------------------------------------------------------------------------
Init ==
  /\ docs = Doc
  /\ count = Recorded
  /\ hl = <<[doc |-> Earlier, page |-> 1, of |-> Earlier]>>
  /\ live = {1}
  /\ notes = {Pin(Earlier, 1, 1, Earlier)}
  /\ open = FALSE
  /\ doc = Nil
  /\ pdf = Nil
  /\ list = {}
  /\ stage = <<>>
  /\ rendered = {}
  /\ rendering = {}
  /\ renders = [p \in Page |-> <<>>]
  /\ scale = First
  /\ sel = Nil
  /\ requests = <<>>
  /\ calm = TRUE
  /\ acts = 0

Opening ==
  \/ \E d \in Doc : OpenReader(d)
  \/ \E n \in notes : JumpToPdfPin(n)

Reading ==
  \/ \E d \in Doc : ConfirmDeletePdf(d)
  \/ \E s \in Scale : ZoomPdf(s)
  \/ ScrollPdf
  \/ \E p \in Page : Select(p)
  \/ \E withNote \in BOOLEAN : CreateHighlight(withNote)
  \/ \E h \in list : DeletePdfHighlight(h)

Leaving == ClosePdfReader \/ Deselect

Answers ==
  \E i \in DOMAIN requests :
    \/ DocArrives(i) \/ ServeList(i) \/ ListArrives(i) \/ PdfArrives(i) \/ ServePatch(i)
    \/ ServeHighlight(i) \/ HighlightReturns(i) \/ ServeNote(i) \/ NoteReturns(i)
    \/ ServeDelete(i) \/ DeleteReturns(i) \/ ServeDrop(i) \/ DropReturns(i)
    \/ Lose(i)

Renders ==
  \E p \in Page : \E i \in DOMAIN renders[p] :
    PageReady(p, i) \/ DrawingBegins(p, i) \/ DrawingEnds(p, i)

Next == Opening \/ Reading \/ Leaving \/ Answers \/ Renders

Spec == Init /\ [][Next]_vars

----------------------------------------------------------------------------
\* Types; the page count of a document is the one of its upload or the real
\* one, whichever document the reader has moved on to meanwhile.
TypeOK ==
  /\ docs \subseteq Doc
  /\ \A d \in Doc : count[d] \in {Recorded[d], Pages[d]}
  /\ live \subseteq DOMAIN hl
  /\ \A h \in live : hl[h].doc \in docs
  /\ doc = Nil \/ doc.id \in Doc
  /\ pdf \in Doc \union {Nil}
  /\ list \subseteq DOMAIN hl
  /\ rendered \subseteq Page /\ rendering \subseteq Page
  /\ scale \in Scale

\* A note made of a passage leads back to it: its pin names the highlight that
\* was saved for the passage and that highlight's document and page, however
\* the reader has moved on before the note was written; and the document is
\* the one the passage was read in, if no passage was selected in one document
\* while another was being opened.
PinsAgree ==
  \A n \in notes :
    /\ hl[n.hl].doc = n.doc /\ hl[n.hl].page = n.page
    /\ calm => n.of = n.doc

\* Once everything asked for has come, no page is taken for one that is still
\* being drawn.  If in addition the user has opened documents and zoomed only
\* when nothing was being drawn, and none was opened or deleted while anything
\* was on its way, the reader shows the current document: its file, every page
\* at the current zoom, its highlights in the list and on their pages.
ReaderAgrees ==
  requests = <<>> /\ ~Drawing =>
    /\ rendering = {}
    /\ calm /\ doc # Nil =>
         /\ pdf = doc.id
         /\ list = HighlightsOf(doc.id)
         /\ DOMAIN stage = 1..Pages[doc.id]
         /\ \A p \in DOMAIN stage :
              stage[p].drawn = <<doc.id, scale>> /\ stage[p].boxes = BoxesOn(p, list)
=============================================================================
