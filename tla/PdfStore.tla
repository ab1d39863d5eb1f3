------------------------------ MODULE PdfStore ------------------------------
(***************************************************************************)
(* The PDF files in the data directory, the rows of pdfs and of            *)
(* pdf_highlights, and the requests at work on them.  A file and its row   *)
(* cannot change in one transaction: an upload writes the file and then    *)
(* the row, a deletion removes the row and then the file, and the process  *)
(* may be killed between the two.  A deletion and a new highlight look the *)
(* document up under one lock and act on it under another.                 *)
(***************************************************************************)
EXTENDS Integers, FiniteSets

CONSTANTS
  Doc,        \* ids of documents; an upload draws a new one
  Highlight,  \* ids of highlights
  User,
  Request,    \* goroutines that serve requests
  Nil

ASSUME PdfStoreAssumption == Nil \notin User \union Doc \union Request

VARIABLES
  user,    \* rows of users
  doc,     \* pdfs: the owner of each document, Nil when there is no such row
  file,    \* the file of each document
  note,    \* pdf_highlights: document and owner, Nil when there is none
  drawn,   \* ids that an upload has drawn
  req,     \* what each request is about to do
  mutex,   \* the request that holds DB.mu for writing, Nil when none does
  mishap   \* the process was killed, a file operation failed, or not all files
           \* of a deleted user could be listed

vars == <<user, doc, file, note, drawn, req, mutex, mishap>>

Files == {"none", "partial", "whole"}

Idle == [does |-> "nothing", of |-> Nil, doc |-> Nil]

Steps == {"nothing",
          "write", "insert", "undo",      \* SavePDF
          "delete", "unlink",             \* DeletePDF, DeleteUser
          "highlight"}                    \* CreatePDFHighlight

Begin(q, does, u, d) == req' = [req EXCEPT ![q] = [does |-> does, of |-> u, doc |-> d]]
Continue(q, does) == req' = [req EXCEPT ![q].does = does]
End(q) == req' = [req EXCEPT ![q] = Idle]

\* q is at step does, and DB.mu is free.
Locks(q, does) == req[q].does = does /\ mutex = Nil

\* q is at step does and holds DB.mu.
Holds(q, does) == req[q].does = does /\ mutex = q

\* The cascades: a highlight goes with its document.
Without(gone) ==
  [h \in Highlight |-> IF note[h] # Nil /\ note[h].doc \in gone THEN Nil ELSE note[h]]

----------------------------------------------------------------------------
(* SavePDF.                                                                 *)

\* The body is read and checked, an id is drawn, the file is created.  (When
\* the directory or the file cannot be created, nothing has happened.)
BeginSave(q, u, d) ==
  /\ req[q] = Idle /\ mutex = Nil
  /\ u \in user /\ d \notin drawn
  /\ drawn' = drawn \union {d}
  /\ mutex' = q
  /\ file' = [file EXCEPT ![d] = "partial"]
  /\ Begin(q, "write", u, d)
  /\ UNCHANGED <<user, doc, note, mishap>>

EndWrite(q) ==
  /\ Holds(q, "write")
  /\ file' = [file EXCEPT ![req[q].doc] = "whole"]
  /\ Continue(q, "insert")
  /\ UNCHANGED <<user, doc, note, drawn, mutex, mishap>>

\* os.WriteFile fails: what it has written stays.
WriteFails(q) ==
  /\ Holds(q, "write")
  /\ End(q)
  /\ mutex' = Nil
  /\ mishap' = TRUE
  /\ UNCHANGED <<user, doc, file, note, drawn>>

\* Variant: the row is inserted before the file has been written.
InsertEarly(q) ==
  /\ Holds(q, "insert") \/ Holds(q, "write")
  /\ req[q].of \in user
  /\ doc' = [doc EXCEPT ![req[q].doc] = req[q].of]
  /\ End(q)
  /\ mutex' = Nil
  /\ UNCHANGED <<user, file, note, drawn, mishap>>

Insert(q) ==
  /\ Holds(q, "insert")
  /\ req[q].of \in user
  /\ doc' = [doc EXCEPT ![req[q].doc] = req[q].of]
  /\ End(q)
  /\ mutex' = Nil
  /\ UNCHANGED <<user, file, note, drawn, mishap>>

\* Variant: an upload whose row is refused just returns the error.
InsertFailsAndReturns(q) ==
  /\ Holds(q, "insert")
  /\ End(q)
  /\ mutex' = Nil
  /\ UNCHANGED <<user, doc, file, note, drawn, mishap>>

\* The row is refused, because the user is gone or for any other reason.
InsertFails(q) ==
  /\ Holds(q, "insert")
  /\ Continue(q, "undo")
  /\ UNCHANGED <<user, doc, file, note, drawn, mutex, mishap>>

----------------------------------------------------------------------------
(* DeletePDF and DeleteUser.                                                *)

FindToDelete(q, u, d) ==
  /\ req[q] = Idle /\ mutex = Nil
  /\ doc[d] = u
  /\ Begin(q, "delete", u, d)
  /\ UNCHANGED <<user, doc, file, note, drawn, mutex, mishap>>

\* Variant: the second half of the deletion does not take the lock.
DeleteRowUnlocked(q) ==
  /\ Locks(q, "delete")
  /\ doc[req[q].doc] = req[q].of
  /\ doc' = [doc EXCEPT ![req[q].doc] = Nil]
  /\ note' = Without({req[q].doc})
  /\ Begin(q, "unlink", req[q].of, {req[q].doc})
  /\ UNCHANGED <<user, file, drawn, mutex, mishap>>

DeleteRow(q) ==
  /\ Locks(q, "delete")
  /\ doc[req[q].doc] = req[q].of
  /\ doc' = [doc EXCEPT ![req[q].doc] = Nil]
  /\ note' = Without({req[q].doc})
  /\ mutex' = q
  /\ Begin(q, "unlink", req[q].of, {req[q].doc})
  /\ UNCHANGED <<user, file, drawn, mishap>>

\* Somebody else has deleted the document meanwhile: an error.
NothingToDelete(q) ==
  /\ Locks(q, "delete")
  /\ doc[req[q].doc] # req[q].of
  /\ End(q)
  /\ UNCHANGED <<user, doc, file, note, drawn, mutex, mishap>>

\* The row of the user goes, and with it the user's documents and highlights;
\* then the files, one after the other.  They are listed before the row goes, and
\* the row goes all the same when the query fails, ends early or a row of it
\* cannot be read.
DeleteUser(q, u) ==
  /\ req[q] = Idle /\ mutex = Nil
  /\ u \in user
  /\ user' = user \ {u}
  /\ LET gone == {d \in Doc : doc[d] = u}
     IN /\ doc' = [d \in Doc |-> IF d \in gone THEN Nil ELSE doc[d]]
        /\ note' = Without(gone)
        /\ \E listed \in SUBSET gone :
             /\ Begin(q, "unlink", u, listed)
             /\ mishap' = (mishap \/ listed # gone)
  /\ mutex' = q
  /\ UNCHANGED <<file, drawn>>

\* The files that q still has to remove.
ToUnlink(q) ==
  CASE req[q].does = "undo" -> {req[q].doc}
    [] req[q].does = "unlink" -> req[q].doc
    [] OTHER -> {}

\* os.Remove on one of the files; its error is ignored.
Remove(q) ==
  /\ mutex = q
  /\ \E d \in ToUnlink(q) :
       /\ \/ file' = [file EXCEPT ![d] = "none"] /\ UNCHANGED mishap
          \/ mishap' = TRUE /\ UNCHANGED file
       /\ Begin(q, "unlink", req[q].of, ToUnlink(q) \ {d})
  /\ UNCHANGED <<user, doc, note, drawn, mutex>>

Return(q) ==
  /\ Holds(q, "unlink")
  /\ ToUnlink(q) = {}
  /\ End(q)
  /\ mutex' = Nil
  /\ UNCHANGED <<user, doc, file, note, drawn, mishap>>

----------------------------------------------------------------------------
(* Highlights.                                                              *)

FindToHighlight(q, u, d) ==
  /\ req[q] = Idle /\ mutex = Nil
  /\ doc[d] = u
  /\ Begin(q, "highlight", u, d)
  /\ UNCHANGED <<user, doc, file, note, drawn, mutex, mishap>>

\* Variant: the foreign key to pdfs is not enforced.
CreateHighlightUnchecked(q) ==
  /\ Locks(q, "highlight")
  /\ \E h \in Highlight :
       /\ note[h] = Nil
       /\ note' = [note EXCEPT ![h] = [doc |-> req[q].doc, of |-> req[q].of]]
  /\ End(q)
  /\ UNCHANGED <<user, doc, file, drawn, mutex, mishap>>

\* The foreign keys to pdfs and users refuse a highlight of what is gone.
CreateHighlight(q) ==
  /\ Locks(q, "highlight")
  /\ IF doc[req[q].doc] # Nil /\ req[q].of \in user
     THEN \E h \in Highlight :
            /\ note[h] = Nil
            /\ note' = [note EXCEPT ![h] = [doc |-> req[q].doc, of |-> req[q].of]]
     ELSE UNCHANGED note
  /\ End(q)
  /\ UNCHANGED <<user, doc, file, drawn, mutex, mishap>>

\* With the document or without it: DELETE /api/highlights/{id} names none.
DeleteHighlight(u, h) ==
  /\ mutex = Nil
  /\ note[h] # Nil /\ note[h].of = u
  /\ note' = [note EXCEPT ![h] = Nil]
  /\ UNCHANGED <<user, doc, file, drawn, req, mutex, mishap>>

----------------------------------------------------------------------------
\* The process is killed and started again.
Restart ==
  /\ \E q \in Request : req[q] # Idle
  /\ req' = [q \in Request |-> Idle]
  /\ mutex' = Nil
  /\ mishap' = TRUE
  /\ UNCHANGED <<user, doc, file, note, drawn>>

Init ==
  /\ user = User
  /\ doc = [d \in Doc |-> Nil]
  /\ file = [d \in Doc |-> "none"]
  /\ note = [h \in Highlight |-> Nil]
  /\ drawn = {}
  /\ req = [q \in Request |-> Idle]
  /\ mutex = Nil
  /\ mishap = FALSE

Next ==
  \/ \E q \in Request, u \in User, d \in Doc :
       BeginSave(q, u, d) \/ FindToDelete(q, u, d) \/ FindToHighlight(q, u, d)
  \/ \E q \in Request :
       \/ EndWrite(q) \/ WriteFails(q) \/ Insert(q) \/ InsertFails(q)
       \/ DeleteRow(q) \/ NothingToDelete(q) \/ Remove(q) \/ Return(q)
       \/ CreateHighlight(q)
       \/ \E u \in User : DeleteUser(q, u)
  \/ \E u \in User, h \in Highlight : DeleteHighlight(u, h)
  \/ Restart

Spec == Init /\ [][Next]_vars

----------------------------------------------------------------------------
\* Types; a request that changes rows or files holds the lock.
TypeOK ==
  /\ user \subseteq User
  /\ doc \in [Doc -> User \union {Nil}]
  /\ file \in [Doc -> Files]
  /\ note \in [Highlight -> [doc : Doc, of : User] \union {Nil}]
  /\ drawn \subseteq Doc
  /\ req \in [Request -> {Idle}
                \union [does : Steps \ {"nothing", "unlink"}, of : User, doc : Doc]
                \union [does : {"unlink"}, of : User, doc : SUBSET Doc]]
  /\ mutex \in Request \union {Nil}
  /\ mishap \in BOOLEAN
  /\ \A q \in Request : mutex = q <=> req[q].does \in {"write", "insert", "undo", "unlink"}

\* Every document that can be listed can be opened, whole, at any moment: also
\* after a kill between the two halves of an upload or a deletion, and after a
\* failed write.
RecordHasFile == \A d \in Doc : doc[d] # Nil => file[d] = "whole"

\* A highlight is on a document that exists and belongs to the same user,
\* although the document may go between the look-up and the insertion.
HighlightsBelong ==
  \A h \in Highlight : note[h] # Nil =>
    note[h].of \in user /\ doc[note[h].doc] = note[h].of

\* As long as nothing is killed, no file operation fails and the files of every
\* deleted user are listed, no file is left without a row, except the one a
\* request is still busy with.
NothingLeftBehind ==
  ~mishap => \A d \in Doc : file[d] # "none" =>
    \/ doc[d] # Nil
    \/ \E q \in Request : \/ req[q].does \in {"write", "insert"} /\ req[q].doc = d
                         \/ d \in ToUnlink(q)
=============================================================================
