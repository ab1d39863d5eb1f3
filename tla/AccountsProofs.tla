--------------------------- MODULE AccountsProofs ---------------------------
(* For any number of people, processes and requests at a time: notes stay    *)
(* with the notes above them, none is stranded with the default user, and    *)
(* a process alone with the file keeps cards and notes together.             *)
EXTENDS Accounts, TLAPS, FiniteSetTheorems

\* The records of TypeOK, by name.
Calls == [does : Steps, at : Process \union {Nil}, user : User \union {Nil},
          note : Note \union {Nil}, text : Text \union {Nil}, changed : BOOLEAN]

\* The steps at which a call holds a lock.
Locked == {"write", "add after", "insert first", "insert"}

\* What a call knows is still so when it uses it: its process runs, its user
\* is the default user or has an account, and the row it read is there.
Known ==
  /\ \A n \in Notes : note[n].up \in Notes \union {Nil}
  /\ \A p \in Process : proc[p] # Nil =>
       proc[p].default \in account \union {Default} /\ proc[p].seeds \subseteq Notes
  /\ \A c \in Call :
       /\ call[c].user \in account \union {Default, Nil}
       /\ call[c].does = "nothing" => call[c] = Idle
       /\ call[c].does # "nothing" => call[c].at \in Process /\ proc[call[c].at] # Nil
       /\ call[c].user # Nil <=> call[c].does \in {"request", "write", "add after"}
       /\ call[c].does = "write" => call[c].note \in Notes /\ call[c].text \in Text
       /\ call[c].does = "add after" => call[c].note \in Notes \union {Nil} /\ call[c].text \in Text
       /\ call[c].does = "insert" => account # {}

\* Nothing works for the default user once there are accounts, unless
\* somebody was asDefault or it has been so since before the first account.
Strays ==
  /\ IsFiniteSet(account)
  /\ NothingStranded
  /\ account # {} /\ ~asDefault => \A c \in Call : call[c].user # Default
  /\ \A p \in Process :
       proc[p] # Nil /\ ~proc[p].auth /\ proc[p].default = Default => proc[p].early \/ asDefault
  /\ account # {} /\ ~asDefault => \A p \in Process : proc[p] # Nil => ~proc[p].seeding

\* Unless an adoption has come between, the note below which a request is about
\* to insert another is its user's, as it was when the request looked.
Placed ==
  ~torn => \A c \in Call : call[c].does = "add after" /\ call[c].note # Nil =>
    note[call[c].note].owner = call[c].user

\* Notes that are not there have no cards; while no second process has run, the
\* row that a request read is the row it writes.
Fresh ==
  /\ \A n \in Note : note[n] = Nil => \A u \in User : cards[n][u] = Nil
  /\ alone => \A p, q \in Process : proc[p] # Nil /\ proc[q] # Nil => p = q
  /\ alone => \A c \in Call : call[c].does = "write" =>
       /\ note[call[c].note].owner = call[c].user
       /\ ~call[c].changed => call[c].text = note[call[c].note].text

Inv == /\ TypeOK /\ Known /\ Placed /\ FamiliesStayTogether /\ Strays /\ Fresh
       /\ OneProcessKeepsCards

----------------------------------------------------------------------------
(* What the steps do to the calls and to the locks.                         *)

\* What is known of a note that is there.
LEMMA NoteRow ==
  ASSUME TypeOK, NEW n \in Notes
  PROVE  n \in Note /\ note[n] \in Rows /\ note[n] # Nil
<1>1. note \in [Note -> Rows \union {Nil}]
  BY DEF TypeOK
<1> QED BY <1>1 DEF Notes

\* A call that is not under way.
LEMMA IdleCall ==
  /\ Idle \in Calls /\ Idle.does = "nothing" /\ Idle.user = Nil
BY DEF Idle, Calls, Steps

\* The end of a call.
LEMMA EndCall ==
  ASSUME call \in [Call -> Calls], NEW c \in Call, End(c)
  PROVE  /\ call' \in [Call -> Calls]
         /\ \A d \in Call : call'[d] = IF d = c THEN Idle ELSE call[d]
BY IdleCall DEF End

\* A call that goes on to another step and keeps the rest.
LEMMA NextDoes ==
  ASSUME call \in [Call -> Calls], NEW c \in Call, NEW s \in Steps,
         call' = [call EXCEPT ![c].does = s]
  PROVE  /\ call' \in [Call -> Calls]
         /\ \A d \in Call \ {c} : call'[d] = call[d]
         /\ call'[c].does = s
         /\ call'[c].at = call[c].at /\ call'[c].user = call[c].user
BY DEF Calls

\* A request that arrives.
LEMMA Arrived ==
  ASSUME call \in [Call -> Calls], NEW c \in Call, NEW p \in Process, NEW u \in User,
         call' = [call EXCEPT ![c] = [Idle EXCEPT !.does = "request", !.at = p, !.user = u]]
  PROVE  /\ call' \in [Call -> Calls]
         /\ \A d \in Call \ {c} : call'[d] = call[d]
         /\ call'[c].does = "request" /\ call'[c].at = p /\ call'[c].user = u
BY DEF Calls, Idle, Steps

\* One for an account.
LEMMA ArrivedForAccount ==
  ASSUME call \in [Call -> Calls], NEW c \in Call, NEW p \in Process,
         call' = [call EXCEPT ![c] = [Idle EXCEPT !.does = "register", !.at = p]]
  PROVE  /\ call' \in [Call -> Calls]
         /\ \A d \in Call \ {c} : call'[d] = call[d]
         /\ call'[c].does = "register" /\ call'[c].at = p /\ call'[c].user = Nil
BY DEF Calls, Idle, Steps

\* A request that has read the row it is to write.
LEMMA HasRead ==
  ASSUME TypeOK, NEW c \in Call, NEW n \in Notes, NEW t \in Text \union {Nil},
         call' = [call EXCEPT ![c] = Writing(@, n, t)]
  PROVE  /\ call' \in [Call -> Calls]
         /\ \A d \in Call \ {c} : call'[d] = call[d]
         /\ call'[c].does = "write" /\ call'[c].note = n
         /\ call'[c].at = call[c].at /\ call'[c].user = call[c].user
         /\ call'[c].text \in Text
         /\ ~call'[c].changed => call'[c].text = note[n].text
<1>1. note[n] \in Rows /\ n \in Note
  BY NoteRow
<1>2. call[c] \in Calls /\ call \in [Call -> Calls]
  BY DEF TypeOK, Calls
<1>3. Writing(call[c], n, t) \in Calls
  BY <1>1, <1>2, AccountsAssumption, ZenonT(40) DEF Writing, Calls, Steps, Rows
<1>4. call'[c] = Writing(call[c], n, t)
  BY <1>2
<1>5. (IF t = Nil THEN note[n].text ELSE t) \in Text
  BY <1>1 DEF Rows
<1>6. /\ call'[c].does = "write" /\ call'[c].note = n
      /\ call'[c].at = call[c].at /\ call'[c].user = call[c].user
      /\ call'[c].text = IF t = Nil THEN note[n].text ELSE t
      /\ call'[c].changed = (t \notin {Nil, note[n].text})
  BY <1>2, <1>4 DEF Writing, Calls
<1> QED BY <1>2, <1>3, <1>5, <1>6

\* One that has read the sibling of the note that it is to insert.
LEMMA HasLooked ==
  ASSUME TypeOK, NEW c \in Call, NEW n \in Notes, NEW t \in Text,
         call' = [call EXCEPT ![c] =
                    [@ EXCEPT !.does = "add after", !.note = note[n].up, !.text = t]]
  PROVE  /\ call' \in [Call -> Calls]
         /\ \A d \in Call \ {c} : call'[d] = call[d]
         /\ call'[c].does = "add after" /\ call'[c].note = note[n].up
         /\ call'[c].at = call[c].at /\ call'[c].user = call[c].user
         /\ call'[c].text \in Text
<1>1. note[n].up \in Note \union {Nil}
  BY NoteRow DEF Rows
<1>2. call[c] \in Calls /\ call \in [Call -> Calls]
  BY DEF TypeOK, Calls
<1> QED BY <1>1, <1>2 DEF Calls, Steps

\* What a transaction that writes a row makes of the notes: nothing but the
\* content of that row changes.
LEMMA Written ==
  ASSUME TypeOK, Known, NEW c \in Call, Write(c)
  PROVE  /\ note' \in [Note -> Rows \union {Nil}]
         /\ Notes' = Notes
         /\ \A n \in Notes : /\ note'[n].owner = note[n].owner /\ note'[n].up = note[n].up
                             /\ n # call[c].note => note'[n] = note[n]
         /\ note[call[c].note].owner = call[c].user => note'[call[c].note].text = call[c].text
<1> DEFINE n == call[c].note
<1>0. note \in [Note -> Rows \union {Nil}]
  BY DEF TypeOK
<1>1. n \in Notes /\ call[c].text \in Text /\ note[n] \in Rows /\ n \in Note
  BY NoteRow DEF Write, Known
<1>2. CASE note[n].owner = call[c].user
  <2>1. note' = [note EXCEPT ![n].text = call[c].text]
    BY <1>2 DEF Write
  <2>2. /\ note'[n] \in Rows
        /\ note'[n].owner = note[n].owner /\ note'[n].up = note[n].up
        /\ note'[n].text = call[c].text
    BY <1>0, <1>1, <2>1 DEF Rows
  <2>3. \A m \in Note \ {n} : note'[m] = note[m]
    BY <1>0, <2>1
  <2>4. note' \in [Note -> Rows \union {Nil}]
    BY <1>0, <1>1, <2>1, <2>2, <2>3
  <2>5. Notes' = Notes
    BY <1>1, <2>2, <2>3, AccountsAssumption DEF Notes
  <2> QED BY <1>1, <2>2, <2>3, <2>4, <2>5 DEF Notes
<1>3. CASE note[n].owner # call[c].user
  <2>1. note' = note
    BY <1>3 DEF Write
  <2> QED BY <1>0, <1>3, <2>1 DEF Notes
<1> QED BY <1>2, <1>3

\* What becomes of the notes when an account adopts them.
LEMMA AdoptedNotes ==
  ASSUME TypeOK, NEW u \in Account, Adopt(u)
  PROVE  /\ note' \in [Note -> Rows \union {Nil}]
         /\ Notes' = Notes
         /\ \A n \in Notes :
              /\ note'[n].owner = IF note[n].owner = Default THEN u ELSE note[n].owner
              /\ note'[n].up = note[n].up /\ note'[n].text = note[n].text
<1> DEFINE f(n) == IF n \in Notes /\ note[n].owner = Default THEN [note[n] EXCEPT !.owner = u]
                   ELSE note[n]
<1>1. note' = [n \in Note |-> f(n)]
  BY DEF Adopt
<1>2. ASSUME NEW n \in Notes
      PROVE  /\ n \in Note /\ note[n] \in Rows /\ f(n) \in Rows
             /\ f(n).owner = IF note[n].owner = Default THEN u ELSE note[n].owner
             /\ f(n).up = note[n].up /\ f(n).text = note[n].text
  <2>1. n \in Note /\ note[n] \in Rows
    BY NoteRow
  <2> QED BY <2>1 DEF Rows, User
<1>3. \A n \in Note : note'[n] = f(n)
  BY <1>1
<1>4. \A n \in Note \ Notes : f(n) = Nil
  BY DEF Notes
<1> HIDE DEF f
<1>5. note' \in [Note -> Rows \union {Nil}]
  BY <1>1, <1>2, <1>4
<1>6. \A n \in Note : note'[n] # Nil <=> n \in Notes
  BY <1>2, <1>3, <1>4, AccountsAssumption
<1>7. Notes' = Notes
  BY <1>6 DEF Notes
<1> QED BY <1>2, <1>3, <1>5, <1>7

\* What becomes of them when one is added.
LEMMA AddedNote ==
  ASSUME TypeOK, NEW u \in User, NEW up \in Note \union {Nil}, NEW t \in Text,
         NEW n \in Note \ Notes, NewNote(n, u, up, t)
  PROVE  /\ note' \in [Note -> Rows \union {Nil}]
         /\ Notes' = Notes \union {n}
         /\ note'[n].owner = u /\ note'[n].up = up /\ note'[n].text = t
         /\ \A m \in Note \ {n} : note'[m] = note[m]
<1> DEFINE row == [owner |-> u, up |-> up, text |-> t]
<1>1. row \in Rows /\ row # Nil
  BY AccountsAssumption DEF Rows
<1>2. note \in [Note -> Rows \union {Nil}]
  BY DEF TypeOK
<1>3. note'[n] = row /\ \A m \in Note \ {n} : note'[m] = note[m]
  BY <1>2 DEF NewNote
<1>4. note' \in [Note -> Rows \union {Nil}]
  BY <1>1, <1>2 DEF NewNote
<1> QED BY <1>1, <1>3, <1>4 DEF Notes

----------------------------------------------------------------------------
(* Types.                                                                   *)

\* The parts of TypeOK about the calls and their locks.
CallTypes ==
  /\ call \in [Call -> Calls]
  /\ mutex \in [Process -> Call \union {Nil}]
  /\ \A c \in Call, p \in Process :
       mutex[p] = c <=> call[c].at = p /\ call[c].does \in Locked

\* And those about everything else.
DataTypes ==
  /\ account \subseteq Account
  /\ note \in [Note -> Rows \union {Nil}]
  /\ \A n \in Notes : note[n].owner \in account \union {Default}
  /\ cards \in [Note -> [User -> Text \union {Nil}]]
  /\ proc \in [Process -> Started \union {Nil}]
  /\ alone \in BOOLEAN /\ asDefault \in BOOLEAN /\ torn \in BOOLEAN

\* Together they are TypeOK.
LEMMA Typed == TypeOK <=> DataTypes /\ CallTypes
BY DEF TypeOK, DataTypes, CallTypes, Calls, Locked

LEMMA TypedNext == TypeOK' <=> DataTypes' /\ CallTypes'
BY Typed, PTL

\* A step that ends a call without a lock.
LEMMA EndsUnlocked ==
  ASSUME CallTypes, NEW c \in Call, call[c].does \notin Locked, End(c), mutex' = mutex
  PROVE  CallTypes'
<1>1. /\ call' \in [Call -> Calls]
      /\ \A d \in Call : call'[d] = IF d = c THEN Idle ELSE call[d]
  BY EndCall DEF CallTypes
<1>2. ASSUME NEW d \in Call, NEW p \in Process
      PROVE  mutex'[p] = d <=> call'[d].at = p /\ call'[d].does \in Locked
  <2>1. mutex[p] = d <=> call[d].at = p /\ call[d].does \in Locked
    BY DEF CallTypes
  <2>2. Idle.does \notin Locked
    BY IdleCall DEF Locked
  <2> QED BY <1>1, <2>1, <2>2
<1> QED BY <1>1, <1>2 DEF CallTypes

\* One that ends a call and gives its lock back.
LEMMA EndsLocked ==
  ASSUME CallTypes, NEW c \in Call, call[c].does \in Locked, call[c].at \in Process,
         Unlock(c), End(c)
  PROVE  CallTypes'
<1>1. /\ call' \in [Call -> Calls]
      /\ \A d \in Call : call'[d] = IF d = c THEN Idle ELSE call[d]
  BY EndCall DEF CallTypes
<1>2. /\ mutex' \in [Process -> Call \union {Nil}]
      /\ \A p \in Process : mutex'[p] = IF p = call[c].at THEN Nil ELSE mutex[p]
  BY DEF CallTypes, Unlock
<1>3. mutex[call[c].at] = c
  BY DEF CallTypes
<1>4. ASSUME NEW d \in Call, NEW p \in Process
      PROVE  mutex'[p] = d <=> call'[d].at = p /\ call'[d].does \in Locked
  <2>1. mutex[p] = d <=> call[d].at = p /\ call[d].does \in Locked
    BY DEF CallTypes
  <2>2. Idle.does \notin Locked /\ Nil \notin Call
    BY IdleCall, AccountsAssumption DEF Locked
  <2>3. CASE d = c
    BY <1>1, <1>2, <1>3, <2>1, <2>2, <2>3
  <2>4. CASE d # c
    BY <1>1, <1>2, <1>3, <2>1, <2>2, <2>4
  <2> QED BY <2>3, <2>4
<1> QED BY <1>1, <1>2, <1>4 DEF CallTypes

\* One that takes a call to another step where it holds no lock.
LEMMA GoesOnUnlocked ==
  ASSUME CallTypes, NEW c \in Call, call[c].does \notin Locked,
         call' \in [Call -> Calls], \A d \in Call \ {c} : call'[d] = call[d],
         call'[c].does \notin Locked, mutex' = mutex
  PROVE  CallTypes'
<1>1. ASSUME NEW d \in Call, NEW p \in Process
      PROVE  mutex'[p] = d <=> call'[d].at = p /\ call'[d].does \in Locked
  <2>1. CASE d = c
    BY <2>1 DEF CallTypes
  <2>2. CASE d # c
    BY <2>2 DEF CallTypes
  <2> QED BY <2>1, <2>2
<1> QED BY <1>1 DEF CallTypes

\* One that takes it to a step where it does.
LEMMA GoesOnLocked ==
  ASSUME CallTypes, NEW c \in Call, call[c].at \in Process, Lock(c),
         call' \in [Call -> Calls], \A d \in Call \ {c} : call'[d] = call[d],
         call'[c].does \in Locked, call'[c].at = call[c].at
  PROVE  CallTypes'
<1>1. /\ mutex[call[c].at] = Nil
      /\ mutex' \in [Process -> Call \union {Nil}]
      /\ \A p \in Process : mutex'[p] = IF p = call[c].at THEN c ELSE mutex[p]
  BY DEF CallTypes, Lock, Free
<1>2. ASSUME NEW d \in Call, NEW p \in Process
      PROVE  mutex'[p] = d <=> call'[d].at = p /\ call'[d].does \in Locked
  <2>1. CASE d = c
    <3>1. mutex[p] # c
      BY <1>1, AccountsAssumption DEF CallTypes
    <3> QED BY <1>1, <2>1, <3>1
  <2>2. CASE d # c
    BY <1>1, <2>2, AccountsAssumption DEF CallTypes
  <2> QED BY <2>1, <2>2
<1> QED BY <1>1, <1>2 DEF CallTypes

\* A process that stops takes its calls and its lock with it.
LEMMA StopsCalls ==
  ASSUME CallTypes, NEW p \in Process, Stop(p)
  PROVE  /\ CallTypes'
         /\ \A c \in Call : call'[c] = IF call[c].at = p THEN Idle ELSE call[c]
<1>1. /\ call' \in [Call -> Calls]
      /\ \A c \in Call : call'[c] = IF call[c].at = p THEN Idle ELSE call[c]
  BY IdleCall DEF CallTypes, Stop
<1>2. /\ mutex' \in [Process -> Call \union {Nil}]
      /\ \A q \in Process : mutex'[q] = IF q = p THEN Nil ELSE mutex[q]
  BY DEF CallTypes, Stop
<1>3. ASSUME NEW d \in Call, NEW q \in Process
      PROVE  mutex'[q] = d <=> call'[d].at = q /\ call'[d].does \in Locked
  <2>1. mutex[q] = d <=> call[d].at = q /\ call[d].does \in Locked
    BY DEF CallTypes
  <2>2. Idle.does \notin Locked /\ Nil \notin Call
    BY IdleCall, AccountsAssumption DEF Locked
  <2>3. CASE call[d].at = p
    BY <1>1, <1>2, <2>1, <2>2, <2>3
  <2>4. CASE call[d].at # p
    BY <1>1, <1>2, <2>1, <2>2, <2>4
  <2> QED BY <2>3, <2>4
<1> QED BY <1>1, <1>2, <1>3 DEF CallTypes

\* Every step keeps the calls and the locks to their types, and to each other.
LEMMA CallTypesStep == Inv /\ [Next]_vars => CallTypes'
<1> SUFFICES ASSUME Inv, [Next]_vars PROVE CallTypes'
  OBVIOUS
<1>1. TypeOK /\ CallTypes /\ call \in [Call -> Calls]
  BY Typed DEF Inv, CallTypes
<1>2. ASSUME NEW p \in Process, NEW mode, NEW u, NEW web, Start(p, mode, u, web) PROVE CallTypes'
  BY <1>1, <1>2 DEF Start, CallTypes
<1>3. ASSUME NEW p \in Process, Stop(p) PROVE CallTypes'
  BY <1>1, <1>3, StopsCalls
<1>4. ASSUME NEW c \in Call, NEW p \in Process, NEW u \in User, Ask(c, p, u) PROVE CallTypes'
  <2>1. call[c].does \notin Locked
    BY <1>4, IdleCall DEF Ask, Locked
  <2>2. /\ call' \in [Call -> Calls]
        /\ \A d \in Call \ {c} : call'[d] = call[d]
        /\ call'[c].does \notin Locked
    BY <1>1, <1>4, Arrived DEF Ask, Locked
  <2> QED BY <1>1, <1>4, <2>1, <2>2, GoesOnUnlocked DEF Ask
<1>5. ASSUME NEW c \in Call, NEW p \in Process, AskForAccount(c, p) PROVE CallTypes'
  <2>1. call[c].does \notin Locked
    BY <1>5, IdleCall DEF AskForAccount, Locked
  <2>2. /\ call' \in [Call -> Calls]
        /\ \A d \in Call \ {c} : call'[d] = call[d]
        /\ call'[c].does \notin Locked
    BY <1>1, <1>5, ArrivedForAccount DEF AskForAccount, Locked
  <2> QED BY <1>1, <1>5, <2>1, <2>2, GoesOnUnlocked DEF AskForAccount
<1>6. ASSUME NEW c \in Call, NEW up, NEW t, Add(c, up, t) PROVE CallTypes'
  BY <1>1, <1>6, EndsUnlocked DEF Add, Locked
<1>7. ASSUME NEW c \in Call, NEW n, NEW t \in Text \union {Nil}, Read(c, n, t) PROVE CallTypes'
  <2>1. call[c].does \notin Locked /\ call[c].at \in Process
    BY <1>7 DEF Read, Locked, Inv, Known
  <2>2. CASE n \in Notes /\ note[n].owner = call[c].user
    <3>1. Lock(c) /\ call' = [call EXCEPT ![c] = Writing(@, n, t)]
      BY <1>7, <2>2 DEF Read
    <3>2. /\ call' \in [Call -> Calls]
          /\ \A d \in Call \ {c} : call'[d] = call[d]
          /\ call'[c].does \in Locked /\ call'[c].at = call[c].at
      BY <1>1, <2>2, <3>1, HasRead DEF Locked
    <3> QED BY <1>1, <2>1, <3>1, <3>2, GoesOnLocked
  <2>3. CASE ~(n \in Notes /\ note[n].owner = call[c].user)
    BY <1>1, <1>7, <2>1, <2>3, EndsUnlocked DEF Read
  <2> QED BY <2>2, <2>3
<1>8. ASSUME NEW c \in Call, Write(c) PROVE CallTypes'
  <2>1. call[c].does \in Locked /\ call[c].at \in Process
    BY <1>8 DEF Write, Locked, Inv, Known
  <2> QED BY <1>1, <1>8, <2>1, EndsLocked DEF Write
<1>9. ASSUME NEW c \in Call, NEW n, NEW t \in Text, Look(c, n, t) PROVE CallTypes'
  <2>1. call[c].does \notin Locked /\ call[c].at \in Process
    BY <1>9 DEF Look, Locked, Inv, Known
  <2>2. CASE n \in Notes /\ note[n].owner = call[c].user
    <3>1. /\ Lock(c)
          /\ call' = [call EXCEPT ![c] =
                        [@ EXCEPT !.does = "add after", !.note = note[n].up, !.text = t]]
      BY <1>9, <2>2 DEF Look
    <3>2. /\ call' \in [Call -> Calls]
          /\ \A d \in Call \ {c} : call'[d] = call[d]
          /\ call'[c].does \in Locked /\ call'[c].at = call[c].at
      BY <1>1, <2>2, <3>1, HasLooked DEF Locked
    <3> QED BY <1>1, <2>1, <3>1, <3>2, GoesOnLocked
  <2>3. CASE ~(n \in Notes /\ note[n].owner = call[c].user)
    BY <1>1, <1>9, <2>1, <2>3, EndsUnlocked DEF Look
  <2> QED BY <2>2, <2>3
<1>10. ASSUME NEW c \in Call, Count(c) PROVE CallTypes'
  <2> DEFINE s == IF account = {} THEN "insert first" ELSE "insert"
  <2>1. s \in Steps /\ s \in Locked
    BY DEF Steps, Locked
  <2>2. Lock(c) /\ call' = [call EXCEPT ![c].does = s] /\ call[c].at \in Process
    BY <1>10 DEF Count, Inv, Known
  <2> HIDE DEF s
  <2>3. /\ call' \in [Call -> Calls]
        /\ \A d \in Call \ {c} : call'[d] = call[d]
        /\ call'[c].does \in Locked /\ call'[c].at = call[c].at
    BY <1>1, <2>1, <2>2, NextDoes
  <2> QED BY <1>1, <2>2, <2>3, GoesOnLocked
<1>11. ASSUME NEW c \in Call, NEW u, Insert(c, u) PROVE CallTypes'
  <2>1. call[c].does \in Locked /\ call[c].at \in Process
    BY <1>11 DEF Insert, Locked, Inv, Known
  <2> QED BY <1>1, <1>11, <2>1, EndsLocked DEF Insert
<1>12. ASSUME NEW c \in Call, Fails(c) PROVE CallTypes'
  <2>1. call[c].does \in Locked /\ call[c].at \in Process
    BY <1>12 DEF Fails, Locked, Inv, Known
  <2> QED BY <1>1, <1>12, <2>1, EndsLocked DEF Fails
<1>13. CASE UNCHANGED vars
  BY <1>1, <1>13 DEF vars, CallTypes
<1>14. ASSUME NEW c \in Call, AddAfter(c) PROVE CallTypes'
  <2>1. call[c].does \in Locked /\ call[c].at \in Process
    BY <1>14 DEF AddAfter, Locked, Inv, Known
  <2> QED BY <1>1, <1>14, <2>1, EndsLocked DEF AddAfter
<1>15. ASSUME NEW p \in Process, NEW up, NEW t, Seed(p, up, t) \/ EndSeeding(p) PROVE CallTypes'
  BY <1>1, <1>15 DEF Seed, EndSeeding, CallTypes
<1> QED
  BY <1>2, <1>3, <1>4, <1>5, <1>6, <1>7, <1>8, <1>9, <1>10, <1>11, <1>12, <1>13, <1>14, <1>15
  DEF Next, Processes, Requests, Handlers, Setup

\* What a user gets from the default user's cards has the type of cards.
LEMMA AdoptedCards ==
  ASSUME cards \in [Note -> [User -> Text \union {Nil}]], NEW u \in Account, Adopt(u)
  PROVE  /\ cards' \in [Note -> [User -> Text \union {Nil}]]
         /\ \A n \in Note, v \in User :
              cards'[n][v] = IF v = Default THEN Nil
                             ELSE IF v = u /\ cards[n][Default] # Nil THEN cards[n][Default]
                             ELSE cards[n][v]
<1>1. Default \in User
  BY DEF User
<1>2. \A n \in Note : Adopted(n, u) \in [User -> Text \union {Nil}]
  BY <1>1 DEF Adopted
<1>3. cards' = [n \in Note |-> Adopted(n, u)]
  BY DEF Adopt
<1> QED BY <1>2, <1>3 DEF Adopted

\* The data when u has a new note n, below up if that is not Nil.
Added(u, up, t, n) ==
  /\ u \in account \union {Default} /\ u \in User
  /\ n \in Note \ Notes
  /\ up # Nil => up \in Notes
  /\ note' \in [Note -> Rows \union {Nil}]
  /\ Notes' = Notes \union {n}
  /\ note'[n].owner = u /\ note'[n].up = up /\ note'[n].text = t
  /\ \A m \in Note \ {n} : note'[m] = note[m]
  /\ cards' = [cards EXCEPT ![n][u] = t]
  /\ UNCHANGED <<account, alone, asDefault, torn>>

\* Whether u may: the parent is its own unless an adoption has come between, and
\* it is not the default user once there are accounts.
Rightful(u, up) ==
  /\ ~torn /\ up # Nil => note[up].owner = u
  /\ account # {} /\ ~asDefault => u # Default

\* A step that adds a note adds it to its user, who may have it.
Adding == \E u \in User, up \in Note \union {Nil}, t \in Text, n \in Note :
            Added(u, up, t, n) /\ Rightful(u, up)

LEMMA NewNoteAdded ==
  ASSUME TypeOK, NEW u \in account \union {Default}, NEW up \in Notes \union {Nil},
         NEW t \in Text, NEW n \in Note \ Notes, NewNote(n, u, up, t),
         UNCHANGED <<account, alone, asDefault, torn>>
  PROVE  u \in User /\ up \in Note \union {Nil} /\ Added(u, up, t, n)
<1>1. u \in User /\ up \in Note \union {Nil}
  BY DEF TypeOK, User, Notes
<1>2. /\ note' \in [Note -> Rows \union {Nil}]
      /\ Notes' = Notes \union {n}
      /\ note'[n].owner = u /\ note'[n].up = up /\ note'[n].text = t
      /\ \A m \in Note \ {n} : note'[m] = note[m]
  BY <1>1, AddedNote
<1>3. cards' = [cards EXCEPT ![n][u] = t]
  BY DEF NewNote
<1> QED BY <1>1, <1>2, <1>3 DEF Added

\* CreateRem, which asks for the owner of the parent in its transaction.
LEMMA AddAdds ==
  ASSUME Inv, NEW c \in Call, NEW up \in Note \union {Nil}, NEW t \in Text, Add(c, up, t)
  PROVE  UNCHANGED <<account, note, cards>> \/ Adding
<1>1. /\ call[c].user \in account \union {Default} /\ TypeOK
      /\ account # {} /\ ~asDefault => call[c].user # Default
  BY DEF Inv, Add, Known, Strays
<1>2. UNCHANGED <<account, alone, asDefault, torn>>
  BY DEF Add
<1>3. CASE up = Nil \/ (up \in Notes /\ note[up].owner = call[c].user)
  <2>1. PICK n \in Note \ Notes : NewNote(n, call[c].user, up, t)
    BY <1>3 DEF Add
  <2>2. call[c].user \in User /\ Added(call[c].user, up, t, n)
    BY <1>1, <1>2, <1>3, <2>1, NewNoteAdded
  <2>3. Rightful(call[c].user, up)
    BY <1>1, <1>3 DEF Rightful
  <2> QED BY <2>2, <2>3 DEF Adding
<1>4. CASE ~(up = Nil \/ (up \in Notes /\ note[up].owner = call[c].user))
  BY <1>2, <1>4 DEF Add
<1> QED BY <1>3, <1>4

\* CreateRemAfter, which relies on what it has looked up.
LEMMA AddAfterAdds ==
  ASSUME Inv, NEW c \in Call, AddAfter(c)
  PROVE  Adding
<1> DEFINE u == call[c].user
           up == call[c].note
           t == call[c].text
<1>1. /\ u \in account \union {Default} /\ up \in Notes \union {Nil} /\ t \in Text /\ TypeOK
      /\ account # {} /\ ~asDefault => u # Default
  BY DEF Inv, AddAfter, Known, Strays
<1>2. UNCHANGED <<account, alone, asDefault, torn>>
  BY DEF AddAfter
<1>3. PICK n \in Note \ Notes : NewNote(n, u, up, t)
  BY DEF AddAfter
<1>4. ~torn /\ up # Nil => note[up].owner = u
  BY DEF Inv, Placed, AddAfter
<1> HIDE DEF u, up, t
<1>5. u \in User /\ up \in Note \union {Nil} /\ Added(u, up, t, n)
  BY <1>1, <1>2, <1>3, NewNoteAdded
<1> QED BY <1>1, <1>4, <1>5 DEF Adding, Rightful

\* The starter notes, each a CreateRem.
LEMMA SeedAdds ==
  ASSUME Inv, NEW p \in Process, NEW up \in Note \union {Nil}, NEW t \in Text, Seed(p, up, t)
  PROVE  Adding
<1>1. TypeOK /\ (account # {} => asDefault) /\ Default \in account \union {Default}
  BY DEF Inv, Seed, Strays
<1>2. UNCHANGED <<account, alone, asDefault, torn>>
  BY DEF Seed
<1>3. up # Nil => note[up].owner = Default /\ up \in Notes
  <2> SUFFICES ASSUME up # Nil PROVE note[up].owner = Default /\ up \in proc[p].seeds
    BY DEF Inv, Known, Seed
  <2> QED BY DEF Seed
<1>4. PICK n \in Note \ Notes : NewNote(n, Default, up, t)
  BY DEF Seed
<1>5. Default \in User /\ Added(Default, up, t, n)
  BY <1>1, <1>2, <1>3, <1>4, NewNoteAdded
<1> QED BY <1>1, <1>3, <1>5 DEF Adding, Rightful

\* Every step keeps the data, the processes and the history to their types.
LEMMA DataTypesStep == Inv /\ [Next]_vars => DataTypes'
<1> SUFFICES ASSUME Inv, [Next]_vars PROVE DataTypes'
  OBVIOUS
<1>1. TypeOK /\ DataTypes /\ Known
  BY Typed DEF Inv
<1> USE DEF data
<1>2. ASSUME NEW p \in Process, NEW mode, NEW u \in account \union {Default, Nil},
             NEW web \in BOOLEAN, Start(p, mode, u, web)
      PROVE  DataTypes'
  <2> DEFINE auth == mode = "auth" \/ (mode = "auto" /\ account # {})
             sole == {a \in account : ~auth /\ account = {a}}
  <2>1. PICK d \in IF ~auth /\ u # Nil THEN {u} ELSE IF sole # {} THEN sole ELSE {Default} :
          proc' = [proc EXCEPT ![p] =
                     [auth |-> auth, default |-> d, early |-> ~auth /\ account = {},
                      seeding |-> Seeds(web), seeds |-> {}]]
    BY <1>2 DEF Start
  <2>2. d \in User
    BY <1>1, <2>1 DEF DataTypes, User
  <2>3. proc' \in [Process -> Started \union {Nil}]
    BY <1>1, <2>1, <2>2 DEF DataTypes, Started, Seeds
  <2>4. alone' \in BOOLEAN /\ asDefault' \in BOOLEAN /\ torn' \in BOOLEAN
    BY <1>1, <1>2 DEF Start, DataTypes
  <2>5. UNCHANGED <<account, note, cards>>
    BY <1>2 DEF Start
  <2> QED BY <1>1, <2>3, <2>4, <2>5 DEF DataTypes, Notes
<1>3. ASSUME NEW p \in Process, Stop(p) PROVE DataTypes'
  BY <1>1, <1>3 DEF Stop, DataTypes, Notes
<1>4. ASSUME NEW c \in Call, NEW p \in Process, NEW u \in User, Ask(c, p, u) PROVE DataTypes'
  <2>1. asDefault' \in BOOLEAN
    BY <1>1, <1>4 DEF Ask, DataTypes
  <2> QED BY <1>1, <1>4, <2>1 DEF Ask, DataTypes, Notes
<1>5. ASSUME NEW c \in Call, NEW p \in Process, AskForAccount(c, p) PROVE DataTypes'
  BY <1>1, <1>5 DEF AskForAccount, DataTypes, Notes
<1>6. ASSUME NEW u \in User, NEW up, NEW t \in Text, NEW n \in Note, Added(u, up, t, n),
             proc' \in [Process -> Started \union {Nil}]
      PROVE  DataTypes'
  <2>1. cards' \in [Note -> [User -> Text \union {Nil}]]
    BY <1>1, <1>6 DEF Added, DataTypes
  <2>2. \A m \in Notes' : note'[m].owner \in account \union {Default}
    <3>1. \A m \in Notes : m \in Note /\ note[m].owner \in account \union {Default}
      BY <1>1 DEF DataTypes, Notes
    <3> QED BY <1>6, <3>1 DEF Added
  <2> QED BY <1>1, <1>6, <2>1, <2>2 DEF Added, DataTypes
<1>14. ASSUME NEW c \in Call, NEW up \in Note \union {Nil}, NEW t \in Text, Add(c, up, t)
      PROVE  DataTypes'
  <2>1. UNCHANGED <<account, proc, mutex, alone, asDefault, torn>>
    BY <1>14 DEF Add
  <2>2. CASE UNCHANGED <<account, note, cards>>
    BY <1>1, <2>1, <2>2 DEF DataTypes, Notes
  <2> QED BY <1>1, <1>6, <1>14, <2>1, <2>2, AddAdds DEF Adding, DataTypes
<1>15. ASSUME NEW c \in Call, AddAfter(c) PROVE DataTypes'
  <2>1. UNCHANGED proc
    BY <1>15 DEF AddAfter
  <2> QED BY <1>1, <1>6, <1>15, <2>1, AddAfterAdds DEF Adding, DataTypes
<1>16. ASSUME NEW p \in Process, NEW up \in Note \union {Nil}, NEW t \in Text, Seed(p, up, t)
       PROVE  DataTypes'
  <2>1. PICK n \in Note : proc' = [proc EXCEPT ![p].seeds = @ \union {n}]
    BY <1>16 DEF Seed
  <2>2. proc[p] \in Started
    BY <1>1, <1>16 DEF Seed, DataTypes
  <2>3. proc' \in [Process -> Started \union {Nil}]
    BY <1>1, <2>1, <2>2 DEF DataTypes, Started
  <2> QED BY <1>6, <1>16, <2>3, SeedAdds DEF Adding
<1>17. ASSUME NEW p \in Process, EndSeeding(p) PROVE DataTypes'
  <2>1. proc[p] \in Started
    BY <1>1, <1>17 DEF EndSeeding, DataTypes
  <2>2. proc' \in [Process -> Started \union {Nil}]
    BY <1>1, <1>17, <2>1 DEF EndSeeding, DataTypes, Started
  <2> QED BY <1>1, <1>17, <2>2 DEF EndSeeding, DataTypes, Notes
<1>7. ASSUME NEW c \in Call, NEW n, NEW t, Read(c, n, t) PROVE DataTypes'
  BY <1>1, <1>7 DEF Read, DataTypes, Notes
<1>8. ASSUME NEW c \in Call, Write(c) PROVE DataTypes'
  <2>1. /\ note' \in [Note -> Rows \union {Nil}]
        /\ \A n \in Notes' : note'[n].owner \in account \union {Default}
    BY <1>1, <1>8, Written DEF DataTypes
  <2>2. call[c].user \in User /\ call[c].text \in Text
    BY <1>1, <1>8 DEF Write, Known, DataTypes, User
  <2>3. cards' \in [Note -> [User -> Text \union {Nil}]]
    BY <1>1, <1>8, <2>2 DEF Write, DataTypes
  <2> QED BY <1>1, <1>8, <2>1, <2>3 DEF Write, DataTypes
<1>9. ASSUME NEW c \in Call, NEW n, NEW t, Look(c, n, t) PROVE DataTypes'
  BY <1>1, <1>9 DEF Look, DataTypes, Notes
<1>10. ASSUME NEW c \in Call, Count(c) PROVE DataTypes'
  BY <1>1, <1>10 DEF Count, DataTypes, Notes
<1>11. ASSUME NEW c \in Call, NEW u \in Account, Insert(c, u) PROVE DataTypes'
  <2>1. /\ account' = account \union {u}
        /\ asDefault' \in BOOLEAN /\ torn' \in BOOLEAN
        /\ UNCHANGED <<proc, alone>>
    BY <1>11 DEF Insert
  <2>2. CASE call[c].does = "insert first"
    <3>1. Adopt(u)
      BY <1>11, <2>2 DEF Insert
    <3>2. /\ note' \in [Note -> Rows \union {Nil}]
          /\ \A n \in Notes' : note'[n].owner \in account' \union {Default}
      BY <1>1, <2>1, <3>1, AdoptedNotes DEF DataTypes
    <3>3. cards' \in [Note -> [User -> Text \union {Nil}]]
      BY <1>1, <3>1, AdoptedCards DEF DataTypes
    <3> QED BY <1>1, <2>1, <3>2, <3>3 DEF DataTypes
  <2>3. CASE call[c].does # "insert first"
    <3>1. UNCHANGED <<note, cards>>
      BY <1>11, <2>3 DEF Insert
    <3> QED BY <1>1, <2>1, <3>1 DEF DataTypes, Notes
  <2> QED BY <2>2, <2>3
<1>12. ASSUME NEW c \in Call, Fails(c) PROVE DataTypes'
  BY <1>1, <1>12 DEF Fails, DataTypes, Notes
<1>13. CASE UNCHANGED vars
  BY <1>1, <1>13 DEF vars, DataTypes, Notes
<1> QED
  BY <1>2, <1>3, <1>4, <1>5, <1>7, <1>8, <1>9, <1>10, <1>11, <1>12, <1>13, <1>14, <1>15,
     <1>16, <1>17
  DEF Next, Processes, Requests, Handlers, Setup

----------------------------------------------------------------------------
(* What calls know.                                                         *)

\* What Known says of one call.
Knows(c) ==
  /\ call[c].user \in account \union {Default, Nil}
  /\ call[c].does = "nothing" => call[c] = Idle
  /\ call[c].does # "nothing" => call[c].at \in Process /\ proc[call[c].at] # Nil
  /\ call[c].user # Nil <=> call[c].does \in {"request", "write", "add after"}
  /\ call[c].does = "write" => call[c].note \in Notes /\ call[c].text \in Text
  /\ call[c].does = "add after" => call[c].note \in Notes \union {Nil} /\ call[c].text \in Text
  /\ call[c].does = "insert" => account # {}

\* A call that a step leaves alone knows what it knew: accounts and notes are
\* never deleted, and its process has not stopped.
LEMMA KeepsKnowing ==
  ASSUME Known, NEW c \in Call, call'[c] = call[c],
         account \subseteq account', Notes \subseteq Notes',
         call[c].at \in Process /\ proc[call[c].at] # Nil => proc'[call[c].at] # Nil
  PROVE  Knows(c)'
BY DEF Known, Knows

\* A call that has ended knows nothing.
LEMMA IdleKnows ==
  ASSUME NEW c \in Call, call'[c] = Idle
  PROVE  Knows(c)'
<1>1. call'[c].does = "nothing" /\ call'[c].user = Nil
  BY IdleCall
<1> QED BY <1>1 DEF Knows

\* Only the transactions change accounts and notes.
LEMMA Transactions ==
  ASSUME Inv, [Next]_vars
  PROVE  \/ Adding
         \/ \E c \in Call : Write(c)
         \/ \E c \in Call, u \in Account : Insert(c, u)
         \/ UNCHANGED data
<1>1. ASSUME NEW c \in Call, NEW up \in Note \union {Nil}, NEW t \in Text, Add(c, up, t)
      PROVE  Adding \/ UNCHANGED data
  BY <1>1, AddAdds DEF data
<1>2. ASSUME NEW c \in Call, AddAfter(c) PROVE Adding
  BY <1>2, AddAfterAdds
<1>3. ASSUME NEW p \in Process, NEW up \in Note \union {Nil}, NEW t \in Text, Seed(p, up, t)
      PROVE  Adding
  BY <1>3, SeedAdds
<1> HIDE DEF Adding
<1>4. ASSUME Processes
      PROVE  Adding \/ UNCHANGED data
  BY <1>3, <1>4 DEF Processes, Start, Stop, EndSeeding
<1>5. ASSUME Requests
      PROVE  UNCHANGED data
  BY <1>5 DEF Requests, Ask, AskForAccount, Setup
<1>6. ASSUME Handlers
      PROVE  \/ Adding
             \/ \E c \in Call : Write(c)
             \/ \E c \in Call, u \in Account : Insert(c, u)
             \/ UNCHANGED data
  BY <1>1, <1>2, <1>6 DEF Handlers, Look, Read, Count, Fails
<1> QED BY <1>4, <1>5, <1>6 DEF Next, vars, data

\* No step deletes a note or an account.
LEMMA Grows == Inv /\ [Next]_vars => account \subseteq account' /\ Notes \subseteq Notes'
<1> SUFFICES ASSUME Inv, [Next]_vars PROVE account \subseteq account' /\ Notes \subseteq Notes'
  OBVIOUS
<1> USE DEF data
<1>1. CASE Adding
  BY <1>1 DEF Adding, Added
<1>2. ASSUME NEW c \in Call, Write(c) PROVE account \subseteq account' /\ Notes \subseteq Notes'
  BY <1>2, Written DEF Write, Inv
<1>3. ASSUME NEW c \in Call, NEW u \in Account, Insert(c, u)
      PROVE  account \subseteq account' /\ Notes \subseteq Notes'
  <2>1. account' = account \union {u}
    BY <1>3 DEF Insert
  <2>2. CASE call[c].does = "insert first"
    BY <1>3, <2>1, <2>2, AdoptedNotes DEF Insert, Inv
  <2>3. CASE call[c].does # "insert first"
    BY <1>3, <2>1, <2>3 DEF Insert, Notes
  <2> QED BY <2>2, <2>3
<1>4. CASE UNCHANGED <<account, note>>
  BY <1>4 DEF Notes
<1> QED BY <1>1, <1>2, <1>3, <1>4, Transactions

\* No step takes a note from the one above it.
LEMMA ParentsStay ==
  ASSUME Inv, [Next]_vars, NEW n \in Notes'
  PROVE  /\ note'[n].up \in Notes' \union {Nil}
         /\ n \in Notes => note'[n].up = note[n].up
<1>1. /\ TypeOK /\ Known
      /\ \A m \in Notes : m \in Note /\ note[m].up \in Notes \union {Nil}
  BY DEF Inv, Known, Notes
<1>2. Notes \subseteq Notes'
  BY Grows
<1>3. CASE Adding
  BY <1>1, <1>3 DEF Adding, Added
<1>4. ASSUME NEW c \in Call, Write(c)
      PROVE  note'[n].up \in Notes' \union {Nil} /\ (n \in Notes => note'[n].up = note[n].up)
  BY <1>1, <1>4, Written
<1>5. ASSUME NEW c \in Call, NEW u \in Account, Insert(c, u)
      PROVE  note'[n].up \in Notes' \union {Nil} /\ (n \in Notes => note'[n].up = note[n].up)
  <2>1. CASE call[c].does = "insert first"
    BY <1>1, <1>5, <2>1, AdoptedNotes DEF Insert
  <2>2. CASE call[c].does # "insert first"
    BY <1>1, <1>5, <2>2 DEF Insert, Notes
  <2> QED BY <2>1, <2>2
<1>6. CASE UNCHANGED data
  BY <1>1, <1>6 DEF Notes, data
<1> QED BY <1>3, <1>4, <1>5, <1>6, Transactions

\* Every step keeps what calls know.
LEMMA KnownStep == Inv /\ [Next]_vars => Known'
<1> SUFFICES ASSUME Inv, [Next]_vars PROVE Known'
  OBVIOUS
<1>1. /\ TypeOK /\ Known /\ CallTypes /\ DataTypes
      /\ call \in [Call -> Calls] /\ proc \in [Process -> Started \union {Nil}]
  BY Typed DEF Inv, CallTypes, DataTypes
<1>2. account \subseteq account' /\ Notes \subseteq Notes'
  BY Grows
<1> SUFFICES
      /\ \A p \in Process : proc'[p] # Nil =>
           proc'[p].default \in account' \union {Default} /\ proc'[p].seeds \subseteq Notes'
      /\ \A c \in Call : Knows(c)'
  BY ParentsStay DEF Known, Knows
<1> DEFINE Settled == \A p \in Process : proc'[p] # Nil =>
             proc'[p].default \in account' \union {Default} /\ proc'[p].seeds \subseteq Notes'
           Rest == Settled /\ \A c \in Call : Knows(c)'
<1>3. ASSUME UNCHANGED proc PROVE Settled
  BY <1>1, <1>2, <1>3 DEF Known
<1>4. ASSUME UNCHANGED proc, NEW c \in Call, \A d \in Call \ {c} : call'[d] = call[d], Knows(c)'
      PROVE  Rest
  BY <1>1, <1>2, <1>3, <1>4, KeepsKnowing
<1>5. ASSUME UNCHANGED proc, NEW c \in Call, End(c) PROVE Rest
  <2>1. \A d \in Call : call'[d] = IF d = c THEN Idle ELSE call[d]
    BY <1>1, <1>5, EndCall
  <2> QED BY <1>4, <1>5, <2>1, IdleKnows
<1> HIDE DEF Rest
<1>6. ASSUME NEW p \in Process, NEW mode, NEW u \in account \union {Default, Nil},
             NEW web \in BOOLEAN, Start(p, mode, u, web)
      PROVE  Rest
  <2> DEFINE auth == mode = "auth" \/ (mode = "auto" /\ account # {})
             sole == {a \in account : ~auth /\ account = {a}}
  <2>1. PICK d \in IF ~auth /\ u # Nil THEN {u} ELSE IF sole # {} THEN sole ELSE {Default} :
          proc' = [proc EXCEPT ![p] =
                     [auth |-> auth, default |-> d, early |-> ~auth /\ account = {},
                      seeding |-> Seeds(web), seeds |-> {}]]
    BY <1>6 DEF Start
  <2>2. d \in account \union {Default}
    BY <2>1
  <2> DEFINE s == [auth |-> auth, default |-> d, early |-> ~auth /\ account = {},
                  seeding |-> Seeds(web), seeds |-> {}]
  <2>3. s.default = d /\ s.seeds = {} /\ s \in Started
    BY <1>1, <2>2 DEF Started, User, DataTypes, Seeds
  <2>4. proc' = [proc EXCEPT ![p] = s]
    BY <2>1
  <2> HIDE DEF s
  <2>5. Settled
    BY <1>1, <1>2, <2>2, <2>3, <2>4 DEF Known
  <2>6. \A q \in Process : proc[q] # Nil => proc'[q] # Nil
    BY <1>1, <2>3, <2>4, AccountsAssumption
  <2>7. call' = call
    BY <1>6 DEF Start
  <2>8. \A c \in Call : Knows(c)'
    BY <1>1, <1>2, <2>6, <2>7, KeepsKnowing
  <2> QED BY <2>5, <2>8 DEF Rest
<1>7. ASSUME NEW p \in Process, Stop(p) PROVE Rest
  <2>1. \A q \in Process : proc'[q] = IF q = p THEN Nil ELSE proc[q]
    BY <1>1, <1>7 DEF Stop
  <2>2. Settled
    BY <1>1, <1>2, <2>1 DEF Known
  <2>3. \A c \in Call : call'[c] = IF call[c].at = p THEN Idle ELSE call[c]
    BY <1>1, <1>7, StopsCalls
  <2>4. \A c \in Call : Knows(c)'
    <3> TAKE c \in Call
    <3>1. CASE call[c].at = p
      BY <2>3, <3>1, IdleKnows
    <3>2. CASE call[c].at # p
      BY <1>1, <1>2, <2>1, <2>3, <3>2, KeepsKnowing
    <3> QED BY <3>1, <3>2
  <2> QED BY <2>2, <2>4 DEF Rest
<1>8. ASSUME NEW c \in Call, NEW p \in Process, NEW u \in User, Ask(c, p, u) PROVE Rest
  <2>1. /\ \A d \in Call \ {c} : call'[d] = call[d]
        /\ call'[c].does = "request" /\ call'[c].at = p /\ call'[c].user = u
    <3>1. call' = [call EXCEPT ![c] = [Idle EXCEPT !.does = "request", !.at = p, !.user = u]]
      BY <1>8 DEF Ask
    <3> QED BY <1>1, <3>1, Arrived, ZenonT(40)
  <2>2. proc[p] # Nil /\ u \in account \union {Default} /\ UNCHANGED <<proc, account>>
    BY <1>1, <1>8 DEF Ask, Serves, Known, data
  <2>3. Knows(c)'
    BY <2>1, <2>2, AccountsAssumption DEF Knows
  <2> QED BY <1>4, <2>1, <2>2, <2>3
<1>9. ASSUME NEW c \in Call, NEW p \in Process, AskForAccount(c, p) PROVE Rest
  <2>1. /\ \A d \in Call \ {c} : call'[d] = call[d]
        /\ call'[c].does = "register" /\ call'[c].at = p /\ call'[c].user = Nil
    BY <1>1, <1>9, ArrivedForAccount DEF AskForAccount
  <2>2. proc[p] # Nil /\ UNCHANGED proc
    BY <1>9 DEF AskForAccount, Serves
  <2>3. Knows(c)'
    BY <2>1, <2>2 DEF Knows
  <2> QED BY <1>4, <2>1, <2>2, <2>3
<1>10. ASSUME NEW c \in Call, NEW up, NEW t, Add(c, up, t) PROVE Rest
  BY <1>5, <1>10 DEF Add
<1>11. ASSUME NEW c \in Call, NEW n, NEW t \in Text \union {Nil}, Read(c, n, t) PROVE Rest
  <2>1. UNCHANGED proc
    BY <1>11 DEF Read
  <2>2. CASE n \in Notes /\ note[n].owner = call[c].user
    <3>1. call' = [call EXCEPT ![c] = Writing(@, n, t)]
      BY <1>11, <2>2 DEF Read
    <3>2. /\ \A d \in Call \ {c} : call'[d] = call[d]
          /\ call'[c].does = "write" /\ call'[c].note = n
          /\ call'[c].at = call[c].at /\ call'[c].user = call[c].user
          /\ call'[c].text \in Text
      BY <1>1, <2>2, <3>1, HasRead
    <3>3. /\ call[c].user \in account \union {Default} /\ call[c].user # Nil
          /\ call[c].at \in Process /\ proc[call[c].at] # Nil
      BY <1>1, <1>11 DEF Read, Known
    <3>4. Knows(c)'
      BY <1>2, <2>1, <2>2, <3>2, <3>3 DEF Knows
    <3> QED BY <1>4, <2>1, <3>2, <3>4
  <2>3. CASE ~(n \in Notes /\ note[n].owner = call[c].user)
    BY <1>5, <1>11, <2>1, <2>3 DEF Read
  <2> QED BY <2>2, <2>3
<1>12. ASSUME NEW c \in Call, Write(c) PROVE Rest
  BY <1>5, <1>12 DEF Write
<1>13. ASSUME NEW c \in Call, NEW n, NEW t \in Text, Look(c, n, t) PROVE Rest
  <2>1. UNCHANGED proc
    BY <1>13 DEF Look
  <2>2. CASE n \in Notes /\ note[n].owner = call[c].user
    <3>1. call' = [call EXCEPT ![c] =
                     [@ EXCEPT !.does = "add after", !.note = note[n].up, !.text = t]]
      BY <1>13, <2>2 DEF Look
    <3>2. TypeOK /\ n \in Notes
      BY <1>1, <2>2
    <3>6. /\ \A d \in Call \ {c} : call'[d] = call[d]
          /\ call'[c].does = "add after" /\ call'[c].note = note[n].up
          /\ call'[c].at = call[c].at /\ call'[c].user = call[c].user
          /\ call'[c].text \in Text
      BY <3>1, <3>2, HasLooked
    <3>3. /\ call[c].user \in account \union {Default} /\ call[c].user # Nil
          /\ call[c].at \in Process /\ proc[call[c].at] # Nil
      BY <1>1, <1>13 DEF Look, Known
    <3>4. note[n].up \in Notes \union {Nil}
      BY <1>1, <2>2 DEF Known
    <3>5. Knows(c)'
      BY <1>2, <2>1, <2>2, <3>3, <3>4, <3>6 DEF Knows
    <3> QED BY <1>4, <2>1, <3>5, <3>6
  <2>3. CASE ~(n \in Notes /\ note[n].owner = call[c].user)
    BY <1>5, <1>13, <2>1, <2>3 DEF Look
  <2> QED BY <2>2, <2>3
<1>14. ASSUME NEW c \in Call, Count(c) PROVE Rest
  <2> DEFINE s == IF account = {} THEN "insert first" ELSE "insert"
  <2>1. s \in Steps /\ s \in {"insert first", "insert"} /\ (s = "insert" => account # {})
    BY DEF Steps
  <2>2. /\ call' = [call EXCEPT ![c].does = s] /\ UNCHANGED <<proc, account>>
        /\ call[c].user = Nil /\ call[c].at \in Process /\ proc[call[c].at] # Nil
    BY <1>1, <1>14 DEF Count, Known, data
  <2> HIDE DEF s
  <2>3. /\ \A d \in Call \ {c} : call'[d] = call[d]
        /\ call'[c].does = s
        /\ call'[c].at = call[c].at /\ call'[c].user = call[c].user
    BY <1>1, <2>1, <2>2, NextDoes
  <2>4. Knows(c)'
    BY <2>1, <2>2, <2>3 DEF Knows
  <2> QED BY <1>4, <2>2, <2>3, <2>4
<1>15. ASSUME NEW c \in Call, NEW u, Insert(c, u) PROVE Rest
  BY <1>5, <1>15 DEF Insert
<1>16. ASSUME NEW c \in Call, Fails(c) \/ AddAfter(c) PROVE Rest
  BY <1>5, <1>16 DEF Fails, AddAfter
<1>17. CASE UNCHANGED vars
  BY <1>1, <1>2, <1>3, <1>17, KeepsKnowing DEF vars, Rest
<1>18. ASSUME UNCHANGED call, \A q \in Process : proc[q] # Nil => proc'[q] # Nil, Settled
       PROVE  Rest
  BY <1>1, <1>2, <1>18, KeepsKnowing DEF Rest
<1>19. ASSUME NEW p \in Process, NEW up \in Note \union {Nil}, NEW t \in Text, Seed(p, up, t)
       PROVE  Rest
  <2>1. PICK n \in Note \ Notes :
          /\ NewNote(n, Default, up, t)
          /\ proc' = [proc EXCEPT ![p].seeds = @ \union {n}]
    BY <1>19 DEF Seed
  <2>2. n \in Notes' /\ Default \in User
    <3>1. Default \in User /\ up \in Note \union {Nil}
      BY DEF User
    <3> QED BY <1>1, <2>1, <3>1, AddedNote
  <2>3. proc[p] \in Started /\ proc[p] # Nil /\ UNCHANGED <<account, call>>
    BY <1>1, <1>19 DEF Seed
  <2>4. /\ proc'[p].seeds = proc[p].seeds \union {n} /\ proc'[p].default = proc[p].default
        /\ proc'[p] \in Started
        /\ \A q \in Process \ {p} : proc'[q] = proc[q]
    BY <1>1, <2>1, <2>3 DEF Started
  <2>5. Settled
    BY <1>1, <1>2, <2>2, <2>3, <2>4 DEF Known
  <2>6. \A q \in Process : proc[q] # Nil => proc'[q] # Nil
    BY <2>4, AccountsAssumption
  <2> QED BY <1>18, <2>3, <2>5, <2>6
<1>20. ASSUME NEW p \in Process, EndSeeding(p) PROVE Rest
  <2>1. proc[p] \in Started /\ proc[p] # Nil /\ UNCHANGED <<account, call>>
    BY <1>1, <1>20 DEF EndSeeding, data
  <2>2. /\ proc'[p].seeds = {} /\ proc'[p].default = proc[p].default
        /\ proc'[p] \in Started
        /\ \A q \in Process \ {p} : proc'[q] = proc[q]
    BY <1>1, <1>20, <2>1 DEF EndSeeding, Started
  <2>3. Settled
    BY <1>1, <1>2, <2>1, <2>2 DEF Known
  <2>4. \A q \in Process : proc[q] # Nil => proc'[q] # Nil
    BY <2>2, AccountsAssumption
  <2> QED BY <1>18, <2>1, <2>3, <2>4
<1> QED
  BY <1>6, <1>7, <1>8, <1>9, <1>10, <1>11, <1>12, <1>13, <1>14, <1>15, <1>16, <1>17, <1>19,
     <1>20
  DEF Next, Processes, Requests, Handlers, Setup, Rest

----------------------------------------------------------------------------
(* Owners.                                                                  *)

\* Two calls of the one process that runs cannot both hold its lock.
LEMMA OneWrites ==
  ASSUME Inv, alone, NEW c \in Call, call[c].does \in Locked,
         NEW d \in Call, call[d].does \in Locked
  PROVE  c = d
<1>1. call[c].at \in Process /\ proc[call[c].at] # Nil
  BY DEF Inv, Known, Locked
<1>2. call[d].at \in Process /\ proc[call[d].at] # Nil
  BY DEF Inv, Known, Locked
<1>3. call[c].at = call[d].at
  BY <1>1, <1>2 DEF Inv, Fresh
<1>4. mutex[call[c].at] = c /\ mutex[call[d].at] = d
  BY <1>1, <1>2, Typed DEF Inv, CallTypes
<1> QED BY <1>3, <1>4

\* Processes run one at a time as long as no second one is started.
LEMMA AloneStep ==
  ASSUME Inv, [Next]_vars, alone'
  PROVE  /\ alone
         /\ \A p, q \in Process : proc'[p] # Nil /\ proc'[q] # Nil => p = q
<1>1. /\ proc \in [Process -> Started \union {Nil}] /\ alone \in BOOLEAN
      /\ alone => \A p, q \in Process : proc[p] # Nil /\ proc[q] # Nil => p = q
  BY Typed DEF Inv, DataTypes, Fresh
<1>2. ASSUME NEW p \in Process, NEW mode, NEW u, NEW web, Start(p, mode, u, web)
      PROVE  /\ alone
             /\ \A q, r \in Process : proc'[q] # Nil /\ proc'[r] # Nil => q = r
  <2>1. alone /\ \A q \in Process : proc[q] = Nil
    BY <1>2 DEF Start
  <2>2. \A q \in Process \ {p} : proc'[q] = proc[q]
    BY <1>1, <1>2 DEF Start
  <2> QED BY <2>1, <2>2
<1>3. ASSUME NEW p \in Process, Stop(p)
      PROVE  /\ alone
             /\ \A q, r \in Process : proc'[q] # Nil /\ proc'[r] # Nil => q = r
  BY <1>1, <1>3 DEF Stop
<1>4. CASE UNCHANGED <<proc, alone>>
  BY <1>1, <1>4
<1>5. ASSUME NEW p \in Process, NEW up, NEW t, Seed(p, up, t) \/ EndSeeding(p)
      PROVE  /\ alone
             /\ \A q, r \in Process : proc'[q] # Nil /\ proc'[r] # Nil => q = r
  <2>1. alone /\ proc[p] # Nil
    BY <1>5 DEF Seed, EndSeeding
  <2>2. \A q \in Process \ {p} : proc'[q] = proc[q]
    BY <1>1, <1>5 DEF Seed, EndSeeding
  <2> QED BY <1>1, <2>1, <2>2
<1> QED
  BY <1>2, <1>3, <1>4, <1>5
  DEF Next, Processes, Requests, Handlers, Ask, AskForAccount, Add, Look, AddAfter, Read,
      Write, Setup, Count, Insert, Fails, vars

\* Only an adoption tears, and only another process's.
LEMMA TornStep ==
  ASSUME Inv, [Next]_vars
  PROVE  /\ torn => torn'
         /\ alone' => ~torn'
<1>1. torn \in BOOLEAN /\ (alone => ~torn)
  BY DEF Inv, TypeOK, FamiliesStayTogether
<1>2. ASSUME alone' PROVE alone
  BY <1>2, AloneStep
<1>3. ASSUME NEW c \in Call, NEW u \in Account, Insert(c, u)
      PROVE  (torn => torn') /\ (alone' => ~torn')
  <2>1. torn' = (torn \/ (call[c].does = "insert first" /\ \E d \in Call : Straddles(d)))
    BY <1>3 DEF Insert
  <2>2. ASSUME alone, call[c].does = "insert first", NEW d \in Call, Straddles(d) PROVE FALSE
    BY <2>2, OneWrites DEF Straddles, Locked
  <2> QED BY <1>1, <1>2, <2>1, <2>2
<1>4. CASE UNCHANGED torn
  BY <1>1, <1>2, <1>4
<1> QED
  BY <1>3, <1>4
  DEF Next, Processes, Requests, Handlers, Start, Stop, Seed, EndSeeding, Ask,
      AskForAccount, Add, Look, AddAfter, Read, Write, Setup, Count, Fails, vars

\* A step that tears nothing leaves the notes of accounts, and those below which
\* a request is about to insert another, with their owners.
LEMMA OwnersStay ==
  ASSUME Inv, [Next]_vars, ~torn', NEW n \in Notes
  PROVE  /\ note[n].owner # Default => note'[n].owner = note[n].owner
         /\ \A c \in Call : call[c].does = "add after" /\ call[c].note = n =>
              note'[n].owner = note[n].owner
<1>1. TypeOK /\ Known /\ Placed /\ ~torn /\ n \in Note /\ n # Nil
  BY TornStep, AccountsAssumption DEF Inv, Notes
<1>2. CASE Adding
  BY <1>1, <1>2 DEF Adding, Added
<1>3. ASSUME NEW c \in Call, Write(c) PROVE note'[n].owner = note[n].owner
  BY <1>1, <1>3, Written
<1>4. ASSUME NEW c \in Call, NEW u \in Account, Insert(c, u)
      PROVE  /\ note[n].owner # Default => note'[n].owner = note[n].owner
             /\ \A d \in Call : call[d].does = "add after" /\ call[d].note = n =>
                  note'[n].owner = note[n].owner
  <2>1. CASE call[c].does = "insert first"
    <3>1. note'[n].owner = IF note[n].owner = Default THEN u ELSE note[n].owner
      BY <1>1, <1>4, <2>1, AdoptedNotes DEF Insert
    <3>2. ASSUME NEW d \in Call, call[d].does = "add after", call[d].note = n
          PROVE  note[n].owner # Default
      <4>1. ~Straddles(d)
        BY <1>4, <2>1 DEF Insert
      <4>2. note[n].owner = call[d].user
        BY <1>1, <3>2 DEF Placed
      <4> QED BY <1>1, <3>2, <4>1, <4>2 DEF Straddles
    <3> QED BY <3>1, <3>2
  <2>2. CASE call[c].does # "insert first"
    BY <1>4, <2>2 DEF Insert
  <2> QED BY <2>1, <2>2
<1>5. CASE UNCHANGED data
  BY <1>5 DEF data
<1> QED BY <1>2, <1>3, <1>4, <1>5, Transactions

\* Every step keeps notes and the notes below them with one user, unless an
\* adoption has come between.  What adds a note asks whose its parent is, or has
\* looked and finds it as it was; and an adoption takes both or none.
LEMMA FamiliesStep == Inv /\ [Next]_vars => FamiliesStayTogether'
<1> SUFFICES ASSUME Inv, [Next]_vars PROVE FamiliesStayTogether'
  OBVIOUS
<1> SUFFICES ASSUME ~torn', NEW n \in Notes', note'[n].up # Nil
             PROVE  note'[n].up \in Notes' /\ note'[note'[n].up].owner = note'[n].owner
  BY TornStep DEF FamiliesStayTogether
<1>1. TypeOK /\ Known /\ ~torn
  BY TornStep DEF Inv
<1>2. \A m \in Notes : note[m].up # Nil =>
        note[m].up \in Notes /\ note[note[m].up].owner = note[m].owner
  BY <1>1 DEF Inv, FamiliesStayTogether
<1> DEFINE Together == note'[note'[n].up].owner = note'[n].owner
<1>3. CASE Adding
  <2>1. PICK u \in User, up \in Note \union {Nil}, t \in Text, m \in Note :
          Added(u, up, t, m) /\ Rightful(u, up)
    BY <1>3 DEF Adding
  <2>2. CASE n = m
    BY <1>1, <2>1, <2>2 DEF Added, Rightful, Notes
  <2>3. CASE n # m
    <3>1. n \in Notes /\ note'[n] = note[n] /\ n \in Note
      BY <2>1, <2>3 DEF Added, Notes
    <3>2. note[n].up \in Notes /\ note[n].up \in Note \ {m}
      BY <1>2, <2>1, <3>1 DEF Added, Notes
    <3> QED BY <1>2, <2>1, <3>1, <3>2 DEF Added
  <2> QED BY <2>2, <2>3
<1>4. ASSUME NEW c \in Call, Write(c) PROVE Together
  BY <1>1, <1>2, <1>4, Written
<1>5. ASSUME NEW c \in Call, NEW u \in Account, Insert(c, u) PROVE Together
  <2>1. CASE call[c].does = "insert first"
    <3>1. Adopt(u)
      BY <1>5, <2>1 DEF Insert
    <3> QED BY <1>1, <1>2, <3>1, AdoptedNotes
  <2>2. CASE call[c].does # "insert first"
    <3>1. note' = note
      BY <1>5, <2>2 DEF Insert
    <3> QED BY <1>2, <3>1 DEF Notes
  <2> QED BY <2>1, <2>2
<1>6. CASE UNCHANGED data
  BY <1>2, <1>6 DEF Notes, data
<1>7. Together
  BY <1>3, <1>4, <1>5, <1>6, Transactions
<1> QED BY <1>7, ParentsStay

\* A call that is about to insert after a step was so before, or has just looked.
LEMMA AboutToAdd ==
  ASSUME Inv, [Next]_vars, NEW c \in Call, call'[c].does = "add after"
  PROVE  \/ call'[c] = call[c]
         \/ \E n \in Notes :
              /\ note' = note /\ note[n].owner = call[c].user
              /\ call'[c].note = note[n].up /\ call'[c].user = call[c].user
<1> DEFINE Or == \/ call'[c] = call[c]
                 \/ \E n \in Notes :
                      /\ note' = note /\ note[n].owner = call[c].user
                      /\ call'[c].note = note[n].up /\ call'[c].user = call[c].user
<1>1. TypeOK /\ Known /\ CallTypes /\ call \in [Call -> Calls]
  BY Typed DEF Inv, CallTypes
<1>2. Idle.does # "add after"
  BY IdleCall
<1>3. ASSUME NEW d \in Call, End(d) PROVE Or
  <2>1. call'[c] = IF c = d THEN Idle ELSE call[c]
    BY <1>1, <1>3, EndCall
  <2> QED BY <1>2, <2>1
<1> USE DEF data
<1>4. ASSUME NEW p \in Process, Stop(p) PROVE Or
  <2>1. call'[c] = IF call[c].at = p THEN Idle ELSE call[c]
    BY <1>1, <1>4, StopsCalls
  <2> QED BY <1>2, <2>1
<1>5. ASSUME NEW d \in Call, \A e \in Call \ {d} : call'[e] = call[e],
             call'[d].does # "add after"
      PROVE  Or
  BY <1>5
<1>6. ASSUME NEW d \in Call, NEW p \in Process, NEW u \in User, Ask(d, p, u) PROVE Or
  <2>1. call' = [call EXCEPT ![d] = [Idle EXCEPT !.does = "request", !.at = p, !.user = u]]
    BY <1>6 DEF Ask
  <2> QED BY <1>1, <1>5, <2>1, Arrived
<1>7. ASSUME NEW d \in Call, NEW p \in Process, AskForAccount(d, p) PROVE Or
  BY <1>1, <1>5, <1>7, ArrivedForAccount DEF AskForAccount
<1>8. ASSUME NEW d \in Call, NEW n, NEW t \in Text, Look(d, n, t) PROVE Or
  <2>1. CASE n \in Notes /\ note[n].owner = call[d].user
    <3>1. /\ note' = note
          /\ call' = [call EXCEPT ![d] =
                        [@ EXCEPT !.does = "add after", !.note = note[n].up, !.text = t]]
      BY <1>8, <2>1 DEF Look
    <3>2. /\ \A e \in Call \ {d} : call'[e] = call[e]
          /\ call'[d].note = note[n].up /\ call'[d].user = call[d].user
      BY <1>1, <2>1, <3>1, HasLooked
    <3> QED BY <2>1, <3>1, <3>2
  <2>2. CASE ~(n \in Notes /\ note[n].owner = call[d].user)
    BY <1>3, <1>8, <2>2 DEF Look
  <2> QED BY <2>1, <2>2
<1>9. ASSUME NEW d \in Call, NEW n, NEW t \in Text \union {Nil}, Read(d, n, t) PROVE Or
  <2>1. CASE n \in Notes /\ note[n].owner = call[d].user
    <3>1. call' = [call EXCEPT ![d] = Writing(@, n, t)]
      BY <1>9, <2>1 DEF Read
    <3>2. (\A e \in Call \ {d} : call'[e] = call[e]) /\ call'[d].does = "write"
      BY <1>1, <2>1, <3>1, HasRead
    <3> QED BY <1>5, <3>2
  <2>2. CASE ~(n \in Notes /\ note[n].owner = call[d].user)
    BY <1>3, <1>9, <2>2 DEF Read
  <2> QED BY <2>1, <2>2
<1>10. ASSUME NEW d \in Call, Count(d) PROVE Or
  <2> DEFINE s == IF account = {} THEN "insert first" ELSE "insert"
  <2>1. s \in Steps /\ s # "add after"
    BY DEF Steps
  <2>2. call' = [call EXCEPT ![d].does = s]
    BY <1>10 DEF Count
  <2> HIDE DEF s
  <2>3. (\A e \in Call \ {d} : call'[e] = call[e]) /\ call'[d].does = s
    BY <1>1, <2>1, <2>2, NextDoes
  <2> QED BY <1>5, <2>1, <2>3
<1>11. CASE UNCHANGED call
  BY <1>11
<1>12. ASSUME Handlers PROVE Or
  <2>1. ASSUME NEW d \in Call, NEW up, NEW t, NEW u,
               Add(d, up, t) \/ AddAfter(d) \/ Write(d) \/ Insert(d, u) \/ Fails(d)
        PROVE  Or
    BY <1>3, <2>1 DEF Add, AddAfter, Write, Insert, Fails
  <2> QED BY <1>8, <1>9, <1>10, <1>12, <2>1 DEF Handlers
<1>13. ASSUME Requests PROVE Or
  BY <1>6, <1>7, <1>13 DEF Requests, Setup
<1>14. ASSUME Processes PROVE Or
  BY <1>4, <1>11, <1>14 DEF Processes, Start, Seed, EndSeeding
<1> QED BY <1>11, <1>12, <1>13, <1>14 DEF Next, vars

\* Every step keeps the note below which a call is about to insert one with the
\* user of the call, unless an adoption comes between.
LEMMA PlacedStep == Inv /\ [Next]_vars => Placed'
<1> SUFFICES ASSUME Inv, [Next]_vars, ~torn',
                    NEW c \in Call, call'[c].does = "add after", call'[c].note # Nil
             PROVE  note'[call'[c].note].owner = call'[c].user
  BY DEF Placed
<1>1. Known /\ Placed /\ FamiliesStayTogether /\ ~torn
  BY TornStep DEF Inv
<1>2. CASE call'[c] = call[c]
  <2>1. call[c].note \in Notes /\ note[call[c].note].owner = call[c].user
    BY <1>1, <1>2 DEF Known, Placed
  <2> QED BY <1>2, <2>1, OwnersStay
<1>3. ASSUME NEW n \in Notes, note' = note, note[n].owner = call[c].user,
             call'[c].note = note[n].up, call'[c].user = call[c].user
      PROVE  note'[call'[c].note].owner = call'[c].user
  BY <1>1, <1>3 DEF FamiliesStayTogether
<1> QED BY <1>2, <1>3, AboutToAdd

\* Where there are accounts and no sole one, there is more than one.
LEMMA NoSole ==
  ASSUME IsFiniteSet(account), account # {}, \A a \in account : account # {a}
  PROVE  Cardinality(account) > 1
<1>1. Cardinality(account) \in Nat
  BY FS_CardinalityType
<1>2. Cardinality(account) # 0
  BY FS_EmptySet
<1>3. Cardinality(account) # 1
  BY FS_Singleton
<1> QED BY <1>1, <1>2, <1>3

\* Every step keeps calls and notes away from the default user once there are
\* accounts, or is asDefault.
LEMMA StraysStep == Inv /\ [Next]_vars => Strays'
<1> SUFFICES ASSUME Inv, [Next]_vars PROVE Strays'
  OBVIOUS
<1>1. /\ TypeOK /\ Known /\ DataTypes /\ call \in [Call -> Calls]
      /\ proc \in [Process -> Started \union {Nil}]
  BY Typed DEF Inv, CallTypes, DataTypes
<1>2. /\ IsFiniteSet(account)
      /\ account # {} /\ ~asDefault => \A n \in Notes : note[n].owner # Default
      /\ account # {} /\ ~asDefault => \A c \in Call : call[c].user # Default
      /\ \A p \in Process : proc[p] # Nil /\ ~proc[p].auth /\ proc[p].default = Default =>
           proc[p].early \/ asDefault
      /\ account # {} /\ ~asDefault => \A p \in Process : proc[p] # Nil => ~proc[p].seeding
  BY DEF Inv, Strays, NothingStranded
<1> DEFINE
      NoCalls == account' # {} /\ ~asDefault' => \A c \in Call : call'[c].user # Default
      NoNotes == account' # {} /\ ~asDefault' => \A n \in Notes' : note'[n].owner # Default
      NoProcs == \A p \in Process :
                   proc'[p] # Nil /\ ~proc'[p].auth /\ proc'[p].default = Default =>
                     proc'[p].early \/ asDefault'
      NoSeeds == account' # {} /\ ~asDefault' =>
                   \A p \in Process : proc'[p] # Nil => ~proc'[p].seeding
      Kept == IsFiniteSet(account') /\ NoNotes /\ NoCalls /\ NoProcs /\ NoSeeds
<1> SUFFICES Kept
  BY DEF Strays, NothingStranded
<1> USE DEF data
<1>3. ASSUME UNCHANGED <<account, note, proc, asDefault>>, NoCalls PROVE Kept
  BY <1>2, <1>3 DEF Notes
<1>4. ASSUME UNCHANGED <<account, asDefault>>, NEW c \in Call, call[c].user # Default => call'[c].user # Default,
             \A d \in Call \ {c} : call'[d] = call[d]
      PROVE  NoCalls
  BY <1>2, <1>4
<1>5. ASSUME NEW c \in Call, End(c)
      PROVE  \A d \in Call : call'[d] = IF d = c THEN Idle ELSE call[d]
  BY <1>1, <1>5, EndCall
<1>6. Idle.user # Default
  BY IdleCall, AccountsAssumption DEF User
<1>7. ASSUME NEW p \in Process, NEW mode \in {"auth", "no-auth", "auto"},
             NEW u \in account \union {Default, Nil}, NEW web \in BOOLEAN,
             Start(p, mode, u, web)
      PROVE  Kept
  <2> DEFINE auth == mode = "auth" \/ (mode = "auto" /\ account # {})
             sole == {a \in account : ~auth /\ account = {a}}
  <2>1. PICK d \in IF ~auth /\ u # Nil THEN {u} ELSE IF sole # {} THEN sole ELSE {Default} :
          proc' = [proc EXCEPT ![p] =
                     [auth |-> auth, default |-> d, early |-> ~auth /\ account = {},
                      seeding |-> Seeds(web), seeds |-> {}]]
    BY <1>7 DEF Start
  <2>2. /\ asDefault' = (asDefault \/ (mode = "no-auth" /\ account # {} /\
                          (u = Default \/ (u = Nil /\ Cardinality(account) > 1))))
        /\ UNCHANGED <<account, note, call>>
    BY <1>7 DEF Start
  <2>3. ASSUME ~auth, d = Default, account # {} PROVE asDefault'
    <3>1. mode = "no-auth"
      BY <2>3
    <3>2. CASE u # Nil
      BY <2>1, <2>2, <2>3, <3>1, <3>2
    <3>3. CASE u = Nil
      <4>1. sole = {}
        BY <1>1, <2>1, <2>3, <3>3, AccountsAssumption DEF DataTypes
      <4>2. Cardinality(account) > 1
        BY <1>2, <2>3, <4>1, NoSole
      <4> QED BY <2>2, <2>3, <3>1, <3>3, <4>2
    <3> QED BY <3>2, <3>3
  <2>4. asDefault => asDefault'
    BY <2>2
  <2> DEFINE s == [auth |-> auth, default |-> d, early |-> ~auth /\ account = {},
                  seeding |-> Seeds(web), seeds |-> {}]
  <2>5. ~s.auth /\ s.default = Default => s.early \/ asDefault'
    BY <2>3
  <2>6. proc' = [proc EXCEPT ![p] = s]
    BY <2>1
  <2> HIDE DEF s
  <2>7. NoProcs
    BY <1>1, <1>2, <2>4, <2>5, <2>6
  <2>8. NoNotes /\ NoCalls
    BY <1>2, <2>2, <2>4 DEF Notes
  <2>9. NoSeeds
    <3>1. s.seeding => account = {}
      BY DEF s, Seeds
    <3> QED BY <1>1, <1>2, <2>2, <2>4, <2>6, <3>1
  <2> QED BY <1>2, <2>2, <2>7, <2>8, <2>9
<1>8. ASSUME NEW p \in Process, Stop(p) PROVE Kept
  <2>1. /\ \A q \in Process : proc'[q] = IF q = p THEN Nil ELSE proc[q]
        /\ UNCHANGED <<account, note, asDefault>>
    BY <1>1, <1>8 DEF Stop
  <2>2. \A c \in Call : call'[c] = IF call[c].at = p THEN Idle ELSE call[c]
    BY <1>8, StopsCalls, Typed DEF Inv
  <2>3. NoCalls
    BY <1>2, <1>6, <2>1, <2>2
  <2> QED BY <1>2, <2>1, <2>3 DEF Notes
<1>9. ASSUME NEW c \in Call, NEW p \in Process, NEW u \in User, Ask(c, p, u) PROVE Kept
  <2>1. call' = [call EXCEPT ![c] = [Idle EXCEPT !.does = "request", !.at = p, !.user = u]]
    BY <1>9 DEF Ask
  <2>2. /\ \A d \in Call \ {c} : call'[d] = call[d]
        /\ call'[c].user = u
    <3>1. call \in [Call -> Calls]
      BY Typed DEF CallTypes, Inv
    <3> QED BY <2>1, <3>1, Arrived, ZenonT(40)
  <2>3. UNCHANGED <<account, note, proc>> /\ proc[p] # Nil
    BY <1>9 DEF Ask, Serves
  <2>4. (asDefault => asDefault') /\ (u = Default /\ account # {} => asDefault')
    <3>1. CASE u \in account /\ UNCHANGED asDefault
      BY <1>1, <3>1, AccountsAssumption DEF DataTypes
    <3>2. CASE /\ ~proc[p].auth /\ u = proc[p].default
               /\ asDefault' = (asDefault \/ (u = Default /\ proc[p].early /\ account # {}))
      BY <1>2, <2>3, <3>2
    <3> QED BY <1>9, <3>1, <3>2 DEF Ask
  <2> QED BY <1>2, <2>2, <2>3, <2>4 DEF Notes
<1>10. ASSUME NEW c \in Call, NEW p \in Process, AskForAccount(c, p) PROVE Kept
  <2>1. /\ \A d \in Call \ {c} : call'[d] = call[d]
        /\ call'[c].user = Nil
    BY <1>1, <1>10, ArrivedForAccount DEF AskForAccount
  <2>2. Nil # Default
    BY AccountsAssumption DEF User
  <2> QED BY <1>3, <1>4, <1>10, <2>1, <2>2 DEF AskForAccount
<1>11. ASSUME Adding PROVE NoNotes
  BY <1>2, <1>11 DEF Adding, Added, Rightful, Notes
<1>19. ASSUME Adding, UNCHANGED proc, NoCalls PROVE Kept
  <2>1. UNCHANGED <<account, asDefault>>
    BY <1>19 DEF Adding, Added
  <2> QED BY <1>2, <1>11, <1>19, <2>1
<1>20. ASSUME NEW c \in Call, NEW up \in Note \union {Nil}, NEW t \in Text, Add(c, up, t)
       PROVE  Kept
  <2>1. UNCHANGED <<account, proc, asDefault>> /\ End(c)
    BY <1>20 DEF Add
  <2>2. NoCalls
    BY <1>4, <1>5, <1>6, <2>1
  <2> QED BY <1>3, <1>19, <1>20, <2>1, <2>2, AddAdds
<1>21. ASSUME NEW c \in Call, AddAfter(c) PROVE Kept
  <2>1. UNCHANGED <<account, proc, asDefault>> /\ End(c)
    BY <1>21 DEF AddAfter
  <2>2. NoCalls
    BY <1>4, <1>5, <1>6, <2>1
  <2> QED BY <1>19, <1>21, <2>1, <2>2, AddAfterAdds
<1>22. ASSUME NEW p \in Process, NEW up \in Note \union {Nil}, NEW t \in Text, Seed(p, up, t)
       PROVE  Kept
  <2>1. /\ UNCHANGED <<account, asDefault, call>> /\ proc[p] \in Started /\ Adding
        /\ account # {} => asDefault
    BY <1>1, <1>2, <1>22, SeedAdds DEF Seed
  <2>2. PICK n \in Note : proc' = [proc EXCEPT ![p].seeds = @ \union {n}]
    BY <1>22 DEF Seed
  <2>3. /\ proc'[p].auth = proc[p].auth /\ proc'[p].default = proc[p].default
        /\ proc'[p].early = proc[p].early
        /\ \A q \in Process \ {p} : proc'[q] = proc[q]
    BY <1>1, <2>1, <2>2 DEF Started
  <2>4. NoProcs
    BY <1>2, <1>22, <2>1, <2>3 DEF Seed
  <2> QED BY <1>2, <1>11, <2>1, <2>4
<1>23. ASSUME NEW p \in Process, EndSeeding(p) PROVE Kept
  <2>1. /\ UNCHANGED <<account, note, asDefault, call>> /\ proc[p] \in Started
        /\ proc[p] # Nil
    BY <1>1, <1>23 DEF EndSeeding
  <2>2. /\ proc'[p].auth = proc[p].auth /\ proc'[p].default = proc[p].default
        /\ proc'[p].early = proc[p].early /\ ~proc'[p].seeding
        /\ \A q \in Process \ {p} : proc'[q] = proc[q]
    BY <1>1, <1>23, <2>1 DEF EndSeeding, Started
  <2>3. NoProcs
    BY <1>2, <2>1, <2>2
  <2>4. NoSeeds
    BY <1>2, <2>1, <2>2
  <2> QED BY <1>2, <2>1, <2>3, <2>4 DEF Notes
<1>12. ASSUME NEW c \in Call, NEW n, NEW t \in Text \union {Nil}, Read(c, n, t) PROVE Kept
  <2>1. UNCHANGED <<account, note, proc, asDefault>>
    BY <1>12 DEF Read
  <2>2. CASE n \in Notes /\ note[n].owner = call[c].user
    <3>1. call' = [call EXCEPT ![c] = Writing(@, n, t)]
      BY <1>12, <2>2 DEF Read
    <3>2. /\ \A d \in Call \ {c} : call'[d] = call[d]
          /\ call'[c].user = call[c].user
      BY <1>1, <2>2, <3>1, HasRead
    <3> QED BY <1>3, <1>4, <2>1, <3>2
  <2>3. CASE ~(n \in Notes /\ note[n].owner = call[c].user)
    BY <1>3, <1>4, <1>5, <1>6, <1>12, <2>1, <2>3 DEF Read
  <2> QED BY <2>2, <2>3
<1>13. ASSUME NEW c \in Call, Write(c) PROVE Kept
  <2>1. UNCHANGED <<account, proc, asDefault>> /\ End(c)
    BY <1>13 DEF Write
  <2>2. NoCalls
    BY <1>4, <1>5, <1>6, <2>1
  <2>3. NoNotes
    BY <1>1, <1>2, <1>13, <2>1, Written
  <2> QED BY <1>2, <2>1, <2>2, <2>3
<1>14. ASSUME NEW c \in Call, NEW n, NEW t \in Text, Look(c, n, t) PROVE Kept
  <2>1. UNCHANGED <<account, note, proc, asDefault>>
    BY <1>14 DEF Look
  <2>2. CASE n \in Notes /\ note[n].owner = call[c].user
    <3>1. call' = [call EXCEPT ![c] =
                     [@ EXCEPT !.does = "add after", !.note = note[n].up, !.text = t]]
      BY <1>14, <2>2 DEF Look
    <3>2. /\ \A d \in Call \ {c} : call'[d] = call[d]
          /\ call'[c].user = call[c].user
      BY <1>1, <2>2, <3>1, HasLooked
    <3> QED BY <1>3, <1>4, <2>1, <3>2
  <2>3. CASE ~(n \in Notes /\ note[n].owner = call[c].user)
    BY <1>3, <1>4, <1>5, <1>6, <1>14, <2>1, <2>3 DEF Look
  <2> QED BY <2>2, <2>3
<1>15. ASSUME NEW c \in Call, Count(c) PROVE Kept
  <2> DEFINE s == IF account = {} THEN "insert first" ELSE "insert"
  <2>1. s \in Steps
    BY DEF Steps
  <2>2. call' = [call EXCEPT ![c].does = s] /\ UNCHANGED <<account, note, proc, asDefault>>
    BY <1>15 DEF Count
  <2> HIDE DEF s
  <2>3. /\ \A d \in Call \ {c} : call'[d] = call[d]
        /\ call'[c].user = call[c].user
    BY <1>1, <2>1, <2>2, NextDoes
  <2> QED BY <1>3, <1>4, <2>2, <2>3
<1>16. ASSUME NEW c \in Call, NEW u \in Account, Insert(c, u) PROVE Kept
  <2>1. /\ account' = account \union {u} /\ UNCHANGED proc /\ End(c)
        /\ asDefault' = (asDefault \/ \/ \E d \in Call : call[d].user = Default
                                    \/ \E p \in Process : proc[p] # Nil /\ proc[p].seeding)
        /\ call[c].does \in {"insert first", "insert"}
    BY <1>16 DEF Insert
  <2>2. IsFiniteSet(account')
    BY <1>2, <2>1, FS_AddElement
  <2>3. NoCalls
    BY <1>5, <1>6, <2>1
  <2>4. NoProcs /\ NoSeeds
    BY <1>2, <2>1
  <2>5. CASE call[c].does = "insert first"
    <3>1. Adopt(u) /\ u # Default
      BY <1>16, <2>5, AccountsAssumption DEF Insert
    <3>2. NoNotes
      BY <1>1, <3>1, AdoptedNotes
    <3> QED BY <2>2, <2>3, <2>4, <3>2
  <2>6. CASE call[c].does = "insert"
    <3>1. note' = note /\ account # {}
      BY <1>1, <1>16, <2>6 DEF Insert, Known
    <3> QED BY <1>2, <2>1, <2>2, <2>3, <2>4, <3>1 DEF Notes
  <2> QED BY <2>1, <2>5, <2>6
<1>17. ASSUME NEW c \in Call, Fails(c) PROVE Kept
  <2>1. UNCHANGED <<account, note, proc, asDefault>> /\ End(c)
    BY <1>17 DEF Fails
  <2> QED BY <1>3, <1>4, <1>5, <1>6, <2>1
<1>18. CASE UNCHANGED vars
  BY <1>2, <1>18 DEF vars, Notes
<1> HIDE DEF Kept
<1> QED
  BY <1>7, <1>8, <1>9, <1>10, <1>12, <1>13, <1>14, <1>15, <1>16, <1>17, <1>18, <1>20, <1>21,
     <1>22, <1>23
  DEF Next, Processes, Requests, Handlers, Setup

----------------------------------------------------------------------------
(* One process at a time.                                                   *)

\* What Fresh says of a call that writes.
Current(c) ==
  /\ note[call[c].note].owner = call[c].user
  /\ ~call[c].changed => call[c].text = note[call[c].note].text

\* A call that does not begin to write in a step, and whose row the step leaves
\* alone, is as current as before.
LEMMA StaysCurrent ==
  ASSUME Inv, alone, NEW c \in Call, call'[c].does = "write", call'[c] = call[c],
         note'[call[c].note] = note[call[c].note]
  PROVE  Current(c)'
BY DEF Inv, Fresh, Current

\* No step by another call takes from a call of the one process what it read.
LEMMA CurrentStep ==
  ASSUME Inv, [Next]_vars, alone'
  PROVE  \A c \in Call : call'[c].does = "write" => Current(c)'
<1> SUFFICES ASSUME NEW c \in Call, call'[c].does = "write" PROVE Current(c)'
  OBVIOUS
<1>0. alone
  BY AloneStep
<1>1. TypeOK /\ Known /\ CallTypes /\ call \in [Call -> Calls]
  BY Typed DEF Inv, CallTypes
<1>2. Idle.does # "write"
  BY IdleCall
<1>3. ASSUME UNCHANGED note, call'[c] = call[c] PROVE Current(c)'
  BY <1>0, <1>3, StaysCurrent
<1>4. ASSUME NEW d \in Call, End(d)
      PROVE  c # d /\ call'[c] = call[c]
  <2>1. call'[c] = IF c = d THEN Idle ELSE call[c]
    BY <1>1, <1>4, EndCall
  <2> QED BY <1>2, <2>1
<1> USE DEF data
<1>5. ASSUME NEW p \in Process, Stop(p) PROVE Current(c)'
  <2>1. call'[c] = IF call[c].at = p THEN Idle ELSE call[c]
    BY <1>1, <1>5, StopsCalls
  <2>2. call'[c] = call[c]
    BY <1>2, <2>1
  <2> QED BY <1>3, <1>5, <2>2 DEF Stop
<1>6. ASSUME NEW d \in Call, NEW p \in Process, NEW u \in User, Ask(d, p, u) PROVE Current(c)'
  <2>1. call' = [call EXCEPT ![d] = [Idle EXCEPT !.does = "request", !.at = p, !.user = u]]
    BY <1>6 DEF Ask
  <2>2. /\ \A e \in Call \ {d} : call'[e] = call[e]
        /\ call'[d].does = "request"
    BY <1>1, <2>1, Arrived
  <2> QED BY <1>3, <1>6, <2>2 DEF Ask
<1>7. ASSUME NEW d \in Call, NEW p \in Process, AskForAccount(d, p) PROVE Current(c)'
  <2>1. /\ \A e \in Call \ {d} : call'[e] = call[e]
        /\ call'[d].does = "register"
    BY <1>1, <1>7, ArrivedForAccount DEF AskForAccount
  <2> QED BY <1>3, <1>7, <2>1 DEF AskForAccount
<1>8. ASSUME Adding, call'[c] = call[c] PROVE Current(c)'
  <2>1. call[c].note \in Notes
    BY <1>1, <1>8 DEF Known
  <2>2. note'[call[c].note] = note[call[c].note]
    BY <1>8, <2>1 DEF Adding, Added, Notes
  <2> QED BY <1>0, <1>8, <2>2, StaysCurrent
<1>18. ASSUME NEW d \in Call, NEW up \in Note \union {Nil}, NEW t \in Text, Add(d, up, t)
       PROVE  Current(c)'
  <2>1. call'[c] = call[c]
    BY <1>4, <1>18 DEF Add
  <2> QED BY <1>3, <1>8, <1>18, <2>1, AddAdds
<1>19. ASSUME NEW d \in Call, AddAfter(d) PROVE Current(c)'
  <2>1. call'[c] = call[c]
    BY <1>4, <1>19 DEF AddAfter
  <2> QED BY <1>8, <1>19, <2>1, AddAfterAdds
<1>20. ASSUME NEW p \in Process, NEW up \in Note \union {Nil}, NEW t \in Text, Seed(p, up, t)
       PROVE  Current(c)'
  BY <1>8, <1>20, SeedAdds DEF Seed
<1>21. ASSUME NEW p \in Process, EndSeeding(p) PROVE Current(c)'
  BY <1>3, <1>21 DEF EndSeeding
<1>9. ASSUME NEW d \in Call, NEW n, NEW t \in Text \union {Nil}, Read(d, n, t) PROVE Current(c)'
  <2>1. note' = note
    BY <1>9 DEF Read
  <2>2. CASE n \in Notes /\ note[n].owner = call[d].user
    <3>1. call' = [call EXCEPT ![d] = Writing(@, n, t)]
      BY <1>9, <2>2 DEF Read
    <3>2. /\ \A e \in Call \ {d} : call'[e] = call[e]
          /\ call'[d].note = n /\ call'[d].user = call[d].user
          /\ ~call'[d].changed => call'[d].text = note[n].text
      BY <1>1, <2>2, <3>1, HasRead, ZenonT(40)
    <3>3. CASE c = d
      BY <2>1, <2>2, <3>2, <3>3 DEF Current
    <3>4. CASE c # d
      BY <1>3, <2>1, <3>2, <3>4
    <3> QED BY <3>3, <3>4
  <2>3. CASE ~(n \in Notes /\ note[n].owner = call[d].user)
    BY <1>3, <1>4, <1>9, <2>1, <2>3 DEF Read
  <2> QED BY <2>2, <2>3
<1>10. ASSUME NEW d \in Call, Write(d) PROVE Current(c)'
  <2>1. c # d /\ call'[c] = call[c]
    BY <1>4, <1>10 DEF Write
  <2>2. call[d].does \in Locked /\ call[c].does \in Locked
    BY <1>10, <2>1 DEF Write, Locked
  <2> QED BY <1>0, <2>1, <2>2, OneWrites
<1>11. ASSUME NEW d \in Call, NEW n, NEW t \in Text, Look(d, n, t) PROVE Current(c)'
  <2>1. note' = note
    BY <1>11 DEF Look
  <2>2. CASE n \in Notes /\ note[n].owner = call[d].user
    <3>1. call' = [call EXCEPT ![d] =
                     [@ EXCEPT !.does = "add after", !.note = note[n].up, !.text = t]]
      BY <1>11, <2>2 DEF Look
    <3>2. (\A e \in Call \ {d} : call'[e] = call[e]) /\ call'[d].does = "add after"
      BY <1>1, <2>2, <3>1, HasLooked
    <3> QED BY <1>3, <2>1, <3>2
  <2>3. CASE ~(n \in Notes /\ note[n].owner = call[d].user)
    BY <1>3, <1>4, <1>11, <2>1, <2>3 DEF Look
  <2> QED BY <2>2, <2>3
<1>12. ASSUME NEW d \in Call, Count(d) PROVE Current(c)'
  <2> DEFINE s == IF account = {} THEN "insert first" ELSE "insert"
  <2>1. s \in Steps /\ s # "write"
    BY DEF Steps
  <2>2. call' = [call EXCEPT ![d].does = s]
    BY <1>12 DEF Count
  <2> HIDE DEF s
  <2>3. (\A e \in Call \ {d} : call'[e] = call[e]) /\ call'[d].does = s
    BY <1>1, <2>1, <2>2, NextDoes
  <2> QED BY <1>3, <1>12, <2>1, <2>3 DEF Count
<1>13. ASSUME NEW d \in Call, NEW u \in Account, Insert(d, u) PROVE Current(c)'
  <2>1. c # d /\ call'[c] = call[c]
    BY <1>4, <1>13 DEF Insert
  <2>2. call[d].does \in Locked /\ call[c].does \in Locked
    BY <1>13, <2>1 DEF Insert, Locked
  <2> QED BY <1>0, <2>1, <2>2, OneWrites
<1>14. ASSUME NEW d \in Call, Fails(d) PROVE Current(c)'
  BY <1>3, <1>4, <1>14 DEF Fails
<1>15. CASE UNCHANGED <<note, call>>
  BY <1>3, <1>15
<1>16. ASSUME NEW p \in Process, NEW mode, NEW u, NEW web, Start(p, mode, u, web) PROVE Current(c)'
  BY <1>15, <1>16 DEF Start
<1>17. CASE UNCHANGED vars
  BY <1>15, <1>17 DEF vars
<1> QED
  BY <1>5, <1>6, <1>7, <1>9, <1>10, <1>11, <1>12, <1>13, <1>14, <1>16, <1>17, <1>18, <1>19,
     <1>20, <1>21
  DEF Next, Processes, Requests, Handlers, Setup

\* What CardsFollowText says, user by user.
Own(n, u) == cards[n][u] = IF u = note[n].owner THEN note[n].text ELSE Nil

LEMMA ByUser ==
  ASSUME TypeOK
  PROVE  CardsFollowText <=> \A n \in Notes, u \in User : Own(n, u)
<1>1. \A n \in Notes : cards[n] \in [User -> Text \union {Nil}]
  BY NoteRow DEF TypeOK
<1>2. ASSUME NEW n \in Notes
      PROVE  cards[n] = [u \in User |-> IF u = note[n].owner THEN note[n].text ELSE Nil]
               <=> \A u \in User : Own(n, u)
  <2>1. cards[n] \in [User -> Text \union {Nil}]
    BY <1>1
  <2> QED BY <2>1 DEF Own
<1> QED BY <1>2 DEF CardsFollowText

LEMMA ByUserNext == TypeOK' => (CardsFollowText' <=> \A n \in Notes', u \in User : Own(n, u)')
<1> DEFINE Owned == \A n \in Notes, u \in User : Own(n, u)
<1>1. TypeOK => (CardsFollowText <=> Owned)
  BY ByUser
<1> HIDE DEF Owned
<1>2. TypeOK' => (CardsFollowText' <=> Owned')
  BY <1>1, PTL
<1> QED BY <1>2 DEF Owned

\* Every step keeps notes that are not there without cards, and the notes and
\* the cards of one process together.
LEMMA CardsStep ==
  ASSUME Inv, [Next]_vars, TypeOK'
  PROVE  /\ \A n \in Note : note'[n] = Nil => \A u \in User : cards'[n][u] = Nil
         /\ alone' => CardsFollowText'
<1>1. /\ TypeOK /\ Known
      /\ cards \in [Note -> [User -> Text \union {Nil}]]
      /\ \A n \in Note : note[n] = Nil => \A u \in User : cards[n][u] = Nil
  BY Typed DEF Inv, Fresh, DataTypes
<1> DEFINE Bare == \A n \in Note : note'[n] = Nil => \A u \in User : cards'[n][u] = Nil
           Follow == \A n \in Notes', u \in User : Own(n, u)'
<1> SUFFICES Bare /\ (alone' => Follow)
  BY ByUserNext
<1>2. ASSUME alone'
      PROVE  /\ alone
             /\ \A n \in Notes, u \in User : Own(n, u)
             /\ \A c \in Call : call[c].does = "write" => Current(c)
  BY <1>1, <1>2, AloneStep, ByUser DEF Inv, OneProcessKeepsCards, Fresh, Current
<1>3. ASSUME NEW u \in User, NEW up, NEW t \in Text, NEW n \in Note, Added(u, up, t, n)
      PROVE  Bare /\ (alone' => Follow)
  <2>1. note[n] = Nil
    BY <1>3 DEF Added, Notes
  <2>2. \A m \in Note, v \in User :
          cards'[m][v] = IF m = n /\ v = u THEN t ELSE cards[m][v]
    BY <1>1, <1>3 DEF Added
  <2>3. Bare
    BY <1>1, <1>3, <2>2 DEF Added, Notes
  <2>4. ASSUME alone', NEW m \in Notes', NEW v \in User PROVE Own(m, v)'
    <3>1. CASE m = n
      BY <1>1, <1>3, <2>1, <2>2, <3>1 DEF Added, Own
    <3>2. CASE m # n
      BY <1>2, <1>3, <2>2, <2>4, <3>2 DEF Added, Own, Notes
    <3> QED BY <3>1, <3>2
  <2> QED BY <2>3, <2>4
<1>4. ASSUME NEW c \in Call, Write(c) PROVE Bare /\ (alone' => Follow)
  <2> DEFINE n == call[c].note
             u == call[c].user
  <2>1. n \in Notes /\ n \in Note /\ u \in User /\ call[c].does = "write"
    BY <1>1, <1>4, NoteRow DEF Write, Known, TypeOK, User
  <2>2. \A m \in Note, v \in User :
          cards'[m][v] = IF call[c].changed /\ m = n /\ v = u THEN call[c].text ELSE cards[m][v]
    BY <1>1, <1>4, <2>1 DEF Write
  <2>3. /\ Notes' = Notes
        /\ \A m \in Notes : /\ note'[m].owner = note[m].owner
                            /\ m # n => note'[m] = note[m]
        /\ note[n].owner = u => note'[n].text = call[c].text
    BY <1>1, <1>4, Written
  <2>4. Bare
    BY <1>1, <2>1, <2>2, <2>3 DEF Notes
  <2>5. ASSUME alone', NEW m \in Notes', NEW v \in User PROVE Own(m, v)'
    <3>1. Current(c) /\ Own(m, v) /\ m \in Note
      BY <1>2, <2>1, <2>3, <2>5 DEF Notes
    <3>2. CASE m = n
      BY <2>1, <2>2, <2>3, <3>1, <3>2 DEF Current, Own
    <3>3. CASE m # n
      BY <2>2, <2>3, <3>1, <3>3 DEF Own
    <3> QED BY <3>2, <3>3
  <2> QED BY <2>4, <2>5
<1>5. ASSUME NEW c \in Call, NEW u \in Account, Insert(c, u)
      PROVE  Bare /\ (alone' => Follow)
  <2>1. CASE call[c].does = "insert first"
    <3>1. Adopt(u) /\ u # Default /\ Default \in User
      BY <1>5, <2>1, AccountsAssumption DEF Insert, User
    <3>2. \A m \in Note, v \in User :
            cards'[m][v] = IF v = Default THEN Nil
                           ELSE IF v = u /\ cards[m][Default] # Nil THEN cards[m][Default]
                           ELSE cards[m][v]
      BY <1>1, <3>1, AdoptedCards
    <3>3. /\ Notes' = Notes
          /\ \A m \in Notes :
               /\ note'[m].owner = IF note[m].owner = Default THEN u ELSE note[m].owner
               /\ note'[m].text = note[m].text
      BY <1>1, <3>1, AdoptedNotes
    <3>4. Bare
      BY <1>1, <3>1, <3>2, <3>3 DEF Notes
    <3>5. ASSUME alone', NEW m \in Notes', NEW v \in User PROVE Own(m, v)'
      <4>1. /\ Own(m, v) /\ Own(m, Default) /\ m \in Note
            /\ note[m] \in Rows
        BY <1>1, <1>2, <3>1, <3>3, <3>5, NoteRow
      <4>2. note[m].text # Nil
        BY <4>1, AccountsAssumption DEF Rows
      <4>3. CASE note[m].owner = Default
        BY <3>1, <3>2, <3>3, <4>1, <4>2, <4>3 DEF Own
      <4>4. CASE note[m].owner # Default
        BY <3>1, <3>2, <3>3, <4>1, <4>4 DEF Own
      <4> QED BY <4>3, <4>4
    <3> QED BY <3>4, <3>5
  <2>2. CASE call[c].does # "insert first"
    <3>1. UNCHANGED <<note, cards>>
      BY <1>5, <2>2 DEF Insert
    <3> QED BY <1>1, <1>2, <3>1 DEF Own, Notes
  <2> QED BY <2>1, <2>2
<1>6. CASE UNCHANGED <<account, note, cards>>
  BY <1>1, <1>2, <1>6 DEF Own, Notes
<1> QED BY <1>3, <1>4, <1>5, <1>6, Transactions DEF Adding, data

----------------------------------------------------------------------------
LEMMA InitInv == Init => Inv
<1> SUFFICES ASSUME Init PROVE Inv
  OBVIOUS
<1>1. /\ note = [n \in Note |-> Nil] /\ Notes = {}
      /\ cards = [n \in Note |-> [u \in User |-> Nil]]
  BY DEF Init, Notes
<1>2. DataTypes
  BY <1>1 DEF Init, DataTypes
<1>3. CallTypes
  BY IdleCall, AccountsAssumption DEF Init, CallTypes, Locked
<1>4. TypeOK
  BY <1>2, <1>3, Typed
<1>5. Known
  BY <1>1, IdleCall DEF Init, Known
<1>6. FamiliesStayTogether /\ Placed
  BY <1>1, IdleCall DEF Init, FamiliesStayTogether, Placed
<1>7. Strays
  BY FS_EmptySet DEF Init, Strays, NothingStranded
<1>8. Fresh
  BY <1>1, IdleCall DEF Init, Fresh
<1>9. OneProcessKeepsCards
  BY <1>1 DEF OneProcessKeepsCards, CardsFollowText
<1> QED BY <1>4, <1>5, <1>6, <1>7, <1>8, <1>9 DEF Inv

\* The inductive invariant.
LEMMA Invariance == Spec => []Inv
<1>1. Inv /\ [Next]_vars => Inv'
  <2> SUFFICES ASSUME Inv, [Next]_vars PROVE Inv'
    OBVIOUS
  <2>1. TypeOK'
    BY CallTypesStep, DataTypesStep, TypedNext
  <2>2. Fresh' /\ OneProcessKeepsCards'
    BY <2>1, CardsStep, CurrentStep, AloneStep DEF Fresh, OneProcessKeepsCards, Current
  <2> QED BY <2>1, <2>2, KnownStep, PlacedStep, FamiliesStep, StraysStep DEF Inv
<1> QED BY <1>1, InitInv, PTL DEF Spec

\* Accounts, notes, processes and calls keep their types, and a call holds the
\* lock of its process exactly between its look at the rows and the end of its
\* transaction.
THEOREM TypeCorrect == Spec => []TypeOK
<1>1. Inv => TypeOK
  BY DEF Inv
<1> QED BY <1>1, Invariance, PTL

\* A note and the notes below it belong to one user, whichever processes seed
\* the file, add notes at the top, below a note or after one, and count and adopt
\* between each other's looks and transactions; unless an adoption comes between
\* the two halves of CreateRemAfter in the tree that it adopts, which the requests
\* of one process cannot bring about.
THEOREM FamiliesTogether == Spec => []FamiliesStayTogether
<1>1. Inv => FamiliesStayTogether
  BY DEF Inv
<1> QED BY <1>1, Invariance, PTL

\* Once there are accounts, no note belongs to the default user, unless somebody
\* worked for it although there were accounts, or a request of its or a server's
\* seeding was under way when one was created.
THEOREM NoneStranded == Spec => []NothingStranded
<1>1. Inv => NothingStranded
  BY DEF Inv, Strays
<1> QED BY <1>1, Invariance, PTL

\* As long as no two processes have had the data file open at a time, the cards
\* of every note are made from its content, and its owner has them.
THEOREM CardsOfOneProcess == Spec => []OneProcessKeepsCards
<1>1. Inv => OneProcessKeepsCards
  BY DEF Inv
<1> QED BY <1>1, Invariance, PTL
=============================================================================
