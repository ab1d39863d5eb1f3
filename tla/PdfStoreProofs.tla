--------------------------- MODULE PdfStoreProofs ---------------------------
(* The rows and files of PdfStore agree for any number of documents, users   *)
(* and requests, wherever the process is killed.                             *)
EXTENDS PdfStore, TLAPS

\* q has found its document and waits for the lock.
Waiting(q) == req[q].does \in {"delete", "highlight"}

\* q has drawn an id that has no row yet.
Uploading(q) == req[q].does \in {"write", "insert", "undo"}

\* What a request knows of its document, although rows come and go: an id is
\* never drawn again, so the row that was found is there or gone for good, and
\* nobody has found the row of an upload under way.
Bookkeeping ==
  /\ \A d \in Doc : doc[d] # Nil => d \in drawn
  /\ \A q \in Request : Waiting(q) =>
       /\ req[q].doc \in drawn
       /\ doc[req[q].doc] \in {Nil, req[q].of}
  /\ \A q \in Request : Uploading(q) =>
       /\ req[q].doc \in drawn
       /\ doc[req[q].doc] = Nil
       /\ \A p \in Request : Waiting(p) => req[p].doc # req[q].doc
  /\ \A q \in Request : req[q].does = "insert" => file[req[q].doc] = "whole"
  /\ \A q \in Request : req[q].does = "unlink" => \A d \in req[q].doc : doc[d] = Nil

Inv == TypeOK /\ Bookkeeping /\ RecordHasFile /\ HighlightsBelong /\ NothingLeftBehind

\* A request is idle, at a step of one document, or removing a set of files.
LEMMA RequestTypes ==
  ASSUME TypeOK, NEW q \in Request
  PROVE  /\ req[q].does \in Steps
         /\ Waiting(q) \/ Uploading(q) => req[q].of \in User /\ req[q].doc \in Doc
         /\ req[q].does = "unlink" => req[q].of \in User /\ req[q].doc \in SUBSET Doc
         /\ ToUnlink(q) \in SUBSET Doc
BY DEF TypeOK, Waiting, Uploading, ToUnlink, Steps, Idle

LEMMA InitInv == Init => Inv
<1> SUFFICES ASSUME Init PROVE Inv
  OBVIOUS
<1>1. TypeOK
  BY PdfStoreAssumption DEF Init, TypeOK, Idle, Files
<1>2. Bookkeeping
  BY DEF Init, Bookkeeping, Waiting, Uploading, Idle
<1>3. RecordHasFile /\ HighlightsBelong /\ NothingLeftBehind
  BY DEF Init, RecordHasFile, HighlightsBelong, NothingLeftBehind
<1> QED BY <1>1, <1>2, <1>3 DEF Inv

\* Types, and who holds the lock, step by step.
LEMMA TypeStep == TypeOK /\ [Next]_vars => TypeOK'
<1> SUFFICES ASSUME TypeOK, [Next]_vars PROVE TypeOK'
  OBVIOUS
<1> USE PdfStoreAssumption, RequestTypes
    DEF TypeOK, Begin, Continue, End, Idle, Steps, Files, Locks, Holds, Waiting, Uploading
<1>1. ASSUME NEW q \in Request, NEW u \in User, NEW d \in Doc,
             BeginSave(q, u, d) \/ FindToDelete(q, u, d) \/ FindToHighlight(q, u, d)
      PROVE  TypeOK'
  <2>1. CASE BeginSave(q, u, d) BY <2>1 DEF BeginSave
  <2>2. CASE FindToDelete(q, u, d) BY <2>2 DEF FindToDelete
  <2>3. CASE FindToHighlight(q, u, d) BY <2>3 DEF FindToHighlight
  <2> QED BY <1>1, <2>1, <2>2, <2>3
<1>2. ASSUME NEW q \in Request, EndWrite(q) PROVE TypeOK'
  BY <1>2 DEF EndWrite
<1>3. ASSUME NEW q \in Request, WriteFails(q) PROVE TypeOK'
  BY <1>3 DEF WriteFails
<1>4. ASSUME NEW q \in Request, Insert(q) PROVE TypeOK'
  BY <1>4 DEF Insert
<1>5. ASSUME NEW q \in Request, InsertFails(q) PROVE TypeOK'
  BY <1>5 DEF InsertFails
<1>6. ASSUME NEW q \in Request, DeleteRow(q) PROVE TypeOK'
  BY <1>6 DEF DeleteRow, Without
<1>7. ASSUME NEW q \in Request, NothingToDelete(q) PROVE TypeOK'
  BY <1>7 DEF NothingToDelete
<1>8. ASSUME NEW q \in Request, Remove(q) PROVE TypeOK'
  <2>1. PICK d \in ToUnlink(q) :
          /\ file' = [file EXCEPT ![d] = "none"] \/ file' = file
          /\ mishap' \in {mishap, TRUE}
          /\ Begin(q, "unlink", req[q].of, ToUnlink(q) \ {d})
    BY <1>8 DEF Remove
  <2>2. req[q].does \in {"undo", "unlink"}
    BY <1>8, <2>1 DEF ToUnlink
  <2>3. req[q].of \in User
    BY <2>2
  <2>4. ToUnlink(q) \ {d} \in SUBSET Doc
    BY RequestTypes
  <2>5. req' \in [Request -> {Idle}
                   \union [does : Steps \ {"nothing", "unlink"}, of : User, doc : Doc]
                   \union [does : {"unlink"}, of : User, doc : SUBSET Doc]]
    BY <2>1, <2>3, <2>4
  <2>6. file' \in [Doc -> Files]
    BY <2>1
  <2>7. mishap' \in BOOLEAN
    BY <2>1
  <2>8. \A p \in Request :
          mutex' = p <=> req'[p].does \in {"write", "insert", "undo", "unlink"}
    <3>1. /\ req'[q].does = "unlink" /\ mutex' = q
          /\ \A p \in Request : p # q => req'[p] = req[p]
      BY <1>8, <2>1 DEF Remove
    <3> QED BY <1>8, <3>1 DEF Remove
  <2> QED BY <1>8, <2>5, <2>6, <2>7, <2>8 DEF Remove
<1>9. ASSUME NEW q \in Request, Return(q) PROVE TypeOK'
  BY <1>9 DEF Return
<1>10. ASSUME NEW q \in Request, CreateHighlight(q) PROVE TypeOK'
  BY <1>10 DEF CreateHighlight
<1>11. ASSUME NEW q \in Request, NEW u \in User, DeleteUser(q, u) PROVE TypeOK'
  <2> DEFINE gone == {d \in Doc : doc[d] = u}
  <2>1. PICK listed \in SUBSET gone :
          Begin(q, "unlink", u, listed) /\ mishap' = (mishap \/ listed # gone)
    BY <1>11 DEF DeleteUser
  <2>2. listed \in SUBSET Doc /\ mishap' \in BOOLEAN
    BY <2>1
  <2> HIDE DEF gone
  <2> QED BY <1>11, <2>1, <2>2 DEF DeleteUser, Without
<1>12. ASSUME NEW u \in User, NEW h \in Highlight, DeleteHighlight(u, h) PROVE TypeOK'
  BY <1>12 DEF DeleteHighlight
<1>13. CASE Restart
  BY <1>13 DEF Restart
<1>14. CASE UNCHANGED vars
  BY <1>14 DEF vars
<1> QED
  BY <1>1, <1>2, <1>3, <1>4, <1>5, <1>6, <1>7, <1>8, <1>9, <1>10, <1>11, <1>12, <1>13, <1>14
  DEF Next

\* Other requests cannot bring back a row that was found and is gone, nor give
\* a row to an upload.
LEMMA BookkeepingStep == TypeOK /\ Bookkeeping /\ [Next]_vars => Bookkeeping'
<1> SUFFICES ASSUME TypeOK, Bookkeeping, [Next]_vars PROVE Bookkeeping'
  OBVIOUS
<1> USE PdfStoreAssumption, RequestTypes
    DEF TypeOK, Bookkeeping, Begin, Continue, End, Idle, Steps, Files, Locks, Holds,
        Waiting, Uploading
<1>1. ASSUME NEW q \in Request, NEW u \in User, NEW d \in Doc,
             BeginSave(q, u, d) \/ FindToDelete(q, u, d) \/ FindToHighlight(q, u, d)
      PROVE  Bookkeeping'
  <2>1. CASE BeginSave(q, u, d) BY <2>1 DEF BeginSave
  <2>2. CASE FindToDelete(q, u, d) BY <2>2 DEF FindToDelete
  <2>3. CASE FindToHighlight(q, u, d) BY <2>3 DEF FindToHighlight
  <2> QED BY <1>1, <2>1, <2>2, <2>3
<1>2. ASSUME NEW q \in Request, EndWrite(q) PROVE Bookkeeping'
  BY <1>2 DEF EndWrite
<1>3. ASSUME NEW q \in Request, WriteFails(q) PROVE Bookkeeping'
  BY <1>3 DEF WriteFails
<1>4. ASSUME NEW q \in Request, Insert(q) PROVE Bookkeeping'
  BY <1>4 DEF Insert
<1>5. ASSUME NEW q \in Request, InsertFails(q) PROVE Bookkeeping'
  BY <1>5 DEF InsertFails
<1>6. ASSUME NEW q \in Request, DeleteRow(q) PROVE Bookkeeping'
  BY <1>6 DEF DeleteRow
<1>7. ASSUME NEW q \in Request, NothingToDelete(q) PROVE Bookkeeping'
  BY <1>7 DEF NothingToDelete
<1>8. ASSUME NEW q \in Request, Remove(q) PROVE Bookkeeping'
  <2>1. PICK d \in ToUnlink(q) :
          /\ file' = [file EXCEPT ![d] = "none"] \/ file' = file
          /\ Begin(q, "unlink", req[q].of, ToUnlink(q) \ {d})
    BY <1>8 DEF Remove
  <2>2. \A e \in ToUnlink(q) : doc[e] = Nil
    BY DEF ToUnlink
  <2>3. \A p \in Request : p # q => req'[p] = req[p] /\ req[p].does # "insert"
    BY <1>8, <2>1 DEF Remove
  <2>4. /\ req'[q].does = "unlink"
        /\ \A e \in req'[q].doc : doc[e] = Nil
    BY <2>1, <2>2
  <2> QED BY <1>8, <2>3, <2>4 DEF Remove
<1>9. ASSUME NEW q \in Request, Return(q) PROVE Bookkeeping'
  BY <1>9 DEF Return
<1>10. ASSUME NEW q \in Request, CreateHighlight(q) PROVE Bookkeeping'
  BY <1>10 DEF CreateHighlight
<1>11. ASSUME NEW q \in Request, NEW u \in User, DeleteUser(q, u) PROVE Bookkeeping'
  BY <1>11 DEF DeleteUser
<1>12. ASSUME NEW u \in User, NEW h \in Highlight, DeleteHighlight(u, h) PROVE Bookkeeping'
  BY <1>12 DEF DeleteHighlight
<1>13. CASE Restart
  BY <1>13 DEF Restart
<1>14. CASE UNCHANGED vars
  BY <1>14 DEF vars
<1> QED
  BY <1>1, <1>2, <1>3, <1>4, <1>5, <1>6, <1>7, <1>8, <1>9, <1>10, <1>11, <1>12, <1>13, <1>14
  DEF Next

\* Rows appear only in Insert, beside a whole file, and a file goes only when
\* its row is gone.
LEMMA RecordStep == Inv /\ [Next]_vars => RecordHasFile'
<1> SUFFICES ASSUME Inv, [Next]_vars PROVE RecordHasFile'
  OBVIOUS
<1> USE RequestTypes
    DEF Inv, TypeOK, Bookkeeping, RecordHasFile, Locks, Holds, Waiting, Uploading
<1>1. ASSUME NEW q \in Request, NEW u \in User, NEW d \in Doc, BeginSave(q, u, d)
      PROVE  RecordHasFile'
  BY <1>1 DEF BeginSave
<1>2. ASSUME NEW q \in Request, EndWrite(q) PROVE RecordHasFile'
  BY <1>2 DEF EndWrite
<1>3. ASSUME NEW q \in Request, Insert(q) PROVE RecordHasFile'
  BY <1>3 DEF Insert
<1>4. ASSUME NEW q \in Request, DeleteRow(q) PROVE RecordHasFile'
  BY <1>4 DEF DeleteRow
<1>5. ASSUME NEW q \in Request, Remove(q) PROVE RecordHasFile'
  <2>1. \A d \in ToUnlink(q) : doc[d] = Nil
    BY DEF ToUnlink
  <2> QED BY <1>5, <2>1 DEF Remove
<1>6. ASSUME NEW q \in Request, NEW u \in User, DeleteUser(q, u) PROVE RecordHasFile'
  BY <1>6 DEF DeleteUser
<1>7. CASE UNCHANGED <<doc, file>>
  BY <1>7
<1> QED
  BY <1>1, <1>2, <1>3, <1>4, <1>5, <1>6, <1>7
  DEF Next, vars, WriteFails, InsertFails, NothingToDelete, Return, CreateHighlight,
      DeleteHighlight, FindToDelete, FindToHighlight, Restart

\* A new highlight joins a document that its request once found, so that, if
\* it is still there, it is still the same user's; the cascades do the rest.
LEMMA HighlightStep == Inv /\ [Next]_vars => HighlightsBelong'
<1> SUFFICES ASSUME Inv, [Next]_vars PROVE HighlightsBelong'
  OBVIOUS
<1> USE PdfStoreAssumption, RequestTypes
    DEF Inv, TypeOK, Bookkeeping, HighlightsBelong, Locks, Holds, Waiting, Uploading
<1>1. ASSUME NEW q \in Request, Insert(q) PROVE HighlightsBelong'
  BY <1>1 DEF Insert
<1>2. ASSUME NEW q \in Request, DeleteRow(q) PROVE HighlightsBelong'
  BY <1>2 DEF DeleteRow, Without
<1>3. ASSUME NEW q \in Request, CreateHighlight(q) PROVE HighlightsBelong'
  BY <1>3 DEF CreateHighlight
<1>4. ASSUME NEW q \in Request, NEW u \in User, DeleteUser(q, u) PROVE HighlightsBelong'
  BY <1>4 DEF DeleteUser, Without
<1>5. ASSUME NEW u \in User, NEW h \in Highlight, DeleteHighlight(u, h) PROVE HighlightsBelong'
  BY <1>5 DEF DeleteHighlight
<1>6. CASE UNCHANGED <<user, doc, note>>
  BY <1>6
<1> QED
  BY <1>1, <1>2, <1>3, <1>4, <1>5, <1>6
  DEF Next, vars, BeginSave, EndWrite, WriteFails, InsertFails, NothingToDelete, Remove,
      Return, FindToDelete, FindToHighlight, Restart

\* While nothing goes wrong, the request that removes a row, or is refused one,
\* keeps the lock until the file is gone.
LEMMA LeftoverStep == Inv /\ [Next]_vars => NothingLeftBehind'
<1> SUFFICES ASSUME Inv, [Next]_vars PROVE NothingLeftBehind'
  OBVIOUS
<1> USE PdfStoreAssumption, RequestTypes
    DEF Inv, TypeOK, Bookkeeping, NothingLeftBehind, ToUnlink, Begin, Continue, End, Idle,
        Steps, Locks, Holds, Waiting, Uploading
<1>1. ASSUME NEW q \in Request, NEW u \in User, NEW d \in Doc,
             BeginSave(q, u, d) \/ FindToDelete(q, u, d) \/ FindToHighlight(q, u, d)
      PROVE  NothingLeftBehind'
  BY <1>1 DEF BeginSave, FindToDelete, FindToHighlight
<1>2. ASSUME NEW q \in Request, EndWrite(q) PROVE NothingLeftBehind'
  BY <1>2 DEF EndWrite
<1>3. ASSUME NEW q \in Request, WriteFails(q) PROVE NothingLeftBehind'
  BY <1>3 DEF WriteFails
<1>4. ASSUME NEW q \in Request, Insert(q) PROVE NothingLeftBehind'
  BY <1>4 DEF Insert
<1>5. ASSUME NEW q \in Request, InsertFails(q) PROVE NothingLeftBehind'
  BY <1>5 DEF InsertFails
<1>6. ASSUME NEW q \in Request, DeleteRow(q) PROVE NothingLeftBehind'
  BY <1>6 DEF DeleteRow
<1>7. ASSUME NEW q \in Request, NothingToDelete(q) PROVE NothingLeftBehind'
  BY <1>7 DEF NothingToDelete
<1>8. ASSUME NEW q \in Request, Remove(q) PROVE NothingLeftBehind'
  BY <1>8 DEF Remove
<1>9. ASSUME NEW q \in Request, Return(q) PROVE NothingLeftBehind'
  BY <1>9 DEF Return
<1>10. ASSUME NEW q \in Request, CreateHighlight(q) PROVE NothingLeftBehind'
  BY <1>10 DEF CreateHighlight
<1>11. ASSUME NEW q \in Request, NEW u \in User, DeleteUser(q, u) PROVE NothingLeftBehind'
  <2> DEFINE gone == {d \in Doc : doc[d] = u}
  <2>1. /\ req[q].does = "nothing" /\ UNCHANGED file
        /\ \A d \in Doc : doc'[d] = IF d \in gone THEN Nil ELSE doc[d]
    BY <1>11 DEF DeleteUser
  <2>2. PICK listed \in SUBSET gone :
          Begin(q, "unlink", u, listed) /\ mishap' = (mishap \/ listed # gone)
    BY <1>11 DEF DeleteUser
  <2>3. /\ req'[q].does = "unlink" /\ req'[q].doc = listed
        /\ \A p \in Request \ {q} : req'[p] = req[p]
    BY <2>2
  <2> SUFFICES ASSUME ~mishap', NEW d \in Doc, file'[d] # "none", doc'[d] = Nil
               PROVE  \E p \in Request :
                        \/ req'[p].does \in {"write", "insert"} /\ req'[p].doc = d
                        \/ d \in ToUnlink(p)'
    OBVIOUS
  <2>4. ~mishap /\ listed = gone
    BY <2>2
  <2>5. CASE d \in gone
    BY <2>3, <2>4, <2>5
  <2>6. CASE d \notin gone
    <3>1. PICK p \in Request : \/ req[p].does \in {"write", "insert"} /\ req[p].doc = d
                              \/ d \in ToUnlink(p)
      BY <2>1, <2>4, <2>6
    <3>2. p # q
      BY <2>1, <3>1
    <3> QED BY <2>3, <3>1, <3>2
  <2> QED BY <2>5, <2>6
<1>12. ASSUME NEW u \in User, NEW h \in Highlight, DeleteHighlight(u, h)
       PROVE  NothingLeftBehind'
  BY <1>12 DEF DeleteHighlight
<1>13. CASE Restart
  BY <1>13 DEF Restart
<1>14. CASE UNCHANGED vars
  BY <1>14 DEF vars
<1> QED
  BY <1>1, <1>2, <1>3, <1>4, <1>5, <1>6, <1>7, <1>8, <1>9, <1>10, <1>11, <1>12, <1>13, <1>14
  DEF Next

LEMMA SpecInv == Spec => []Inv
<1>1. Inv /\ [Next]_vars => Inv'
  BY TypeStep, BookkeepingStep, RecordStep, HighlightStep, LeftoverStep DEF Inv
<1> QED BY InitInv, <1>1, PTL DEF Spec

\* Requests and rows keep their types, and exactly the request that changes rows
\* or files holds DB.mu.
THEOREM TypeCorrect == Spec => []TypeOK
<1>1. Inv => TypeOK
  BY DEF Inv
<1> QED BY SpecInv, <1>1, PTL

\* SavePDF, DeletePDF and DeleteUser never leave a row whose file is missing or
\* half written, for any requests and wherever the process is killed.
THEOREM RecordsKeepFiles == Spec => []RecordHasFile
<1>1. Inv => RecordHasFile
  BY DEF Inv
<1> QED BY SpecInv, <1>1, PTL

\* CreatePDFHighlight never leaves a highlight on a document that is gone or is
\* another user's, although it looks the document up under an earlier lock.
THEOREM HighlightsStayOnDocuments == Spec => []HighlightsBelong
<1>1. Inv => HighlightsBelong
  BY DEF Inv
<1> QED BY SpecInv, <1>1, PTL

\* A file without a row is in the hands of a request, as long as nothing has
\* been killed, no file operation has failed and the files of every deleted user
\* could be listed; the errors of that list are the ones DeleteUser passes over.
THEOREM FilesAreAccountedFor == Spec => []NothingLeftBehind
<1>1. Inv => NothingLeftBehind
  BY DEF Inv
<1> QED BY SpecInv, <1>1, PTL
=============================================================================
