------------------------------ MODULE Accounts ------------------------------
(***************************************************************************)
(* Accounts and the notes they own, in one data file that several          *)
(* processes may have open: the web server, `remgo mcp` and                *)
(* `remgo create-user`.  Every process has a DB.mu of its own.  Whom a     *)
(* request acts for depends on how its process was started, perhaps long   *)
(* before the account was created that adopts the notes of the default     *)
(* user, and so does what the web server seeds an empty file with.         *)
(***************************************************************************)
EXTENDS Integers, FiniteSets

CONSTANTS
  Note,     \* ids of rems
  Text,     \* contents, each of which makes cards or references
  Account,  \* people, by the usernames they would take
  Process,
  Call,     \* goroutines that serve requests
  Default,  \* DefaultUserID
  Nil

User == Account \union {Default}

\* The rows of rems, and what processes were started with.
Rows == [owner : User, up : Note \union {Nil}, text : Text]
Started == [auth : BOOLEAN, default : User, early : BOOLEAN,
            seeding : BOOLEAN, seeds : SUBSET Note]

ASSUME AccountsAssumption ==
  /\ Default \notin Account
  /\ Nil \notin User \union Note \union Text \union Process \union Call
  /\ Nil \notin Rows /\ Nil \notin Started

VARIABLES
  account,   \* rows of users other than the default user
  note,      \* rems: owner, parent and content, Nil when the id is not used
  cards,     \* the content from which the cards and references that each user
             \* has for a note were made, Nil when the user has none
  proc,      \* how each process was started: whether it asks for a login, whom it
             \* takes for the user of requests without one, and whether that was
             \* settled before there were accounts; whether it is seeding the file,
             \* and with which notes so far; Nil when it does not run
  call,      \* what each request is about to do; what it asks for is said when
             \* it gets the lock, its user when it arrives
  mutex,     \* for each process, the call that holds its DB.mu for writing
  alone,     \* no two processes have run at the same time
  asDefault, \* somebody has worked for the default user when there were accounts,
             \* or was about to when one was created: without a login, or by
             \* seeding the file
  torn       \* an adoption has come between the look at a sibling and the
             \* insertion after it, in the tree that it adopts

data == <<account, note, cards>>
vars == <<data, proc, call, mutex, alone, asDefault, torn>>

Notes == {n \in Note : note[n] # Nil}

Idle == [does |-> "nothing", at |-> Nil, user |-> Nil, note |-> Nil, text |-> Nil,
         changed |-> FALSE]

Steps == {"nothing", "request", "write", "add after", "register",
          "insert first", "insert"}

End(c) == call' = [call EXCEPT ![c] = Idle]
Free(c) == mutex[call[c].at] = Nil
Lock(c) == Free(c) /\ mutex' = [mutex EXCEPT ![call[c].at] = c]
Holds(c) == mutex[call[c].at] = c
Unlock(c) == mutex' = [mutex EXCEPT ![call[c].at] = Nil]

\* p answers requests.
Serves(p) == proc[p] # Nil /\ ~proc[p].seeding

\* It is the web server, and finds neither accounts nor notes.
Seeds(web) == web /\ account = {} /\ Notes = {}

\* A new row with its cards.
NewNote(n, u, up, t) ==
  /\ note' = [note EXCEPT ![n] = [owner |-> u, up |-> up, text |-> t]]
  /\ cards' = [cards EXCEPT ![n][u] = t]

----------------------------------------------------------------------------
(* Processes.                                                              *)

\* Variant: single-user mode does not look for a sole account.
StartAsDefault(p, mode, u, web) ==
  LET auth == mode = "auth" \/ (mode = "auto" /\ account # {})
  IN /\ proc[p] = Nil
     /\ proc' = [proc EXCEPT ![p] =
          [auth |-> auth, default |-> IF ~auth /\ u # Nil THEN u ELSE Default,
           early |-> ~auth /\ account = {},
           seeding |-> Seeds(web), seeds |-> {}]]
     /\ alone' = (alone /\ \A q \in Process : proc[q] = Nil)
     /\ asDefault' = (asDefault \/ (mode = "no-auth" /\ account # {} /\
                       (u = Default \/ (u = Nil /\ Cardinality(account) > 1))))
     /\ UNCHANGED <<data, call, mutex, torn>>

\* The mode and the user of requests without a credential are settled when the
\* process starts, from the flags and the accounts of that moment.  Where a login
\* is asked for there are no such requests, and their user does not matter.  The
\* web server looks for accounts and notes once more before it seeds; both only
\* come and never go, so that it finds none as if it had looked now, or else does
\* as a process that never looks.
Start(p, mode, u, web) ==
  LET auth == mode = "auth" \/ (mode = "auto" /\ account # {})
      sole == {a \in account : ~auth /\ account = {a}}
  IN /\ proc[p] = Nil
     /\ \E d \in IF ~auth /\ u # Nil THEN {u} ELSE IF sole # {} THEN sole ELSE {Default} :
          proc' = [proc EXCEPT ![p] =
                     [auth |-> auth, default |-> d, early |-> ~auth /\ account = {},
                      seeding |-> Seeds(web), seeds |-> {}]]
     /\ alone' = (alone /\ \A q \in Process : proc[q] = Nil)
     /\ asDefault' = (asDefault \/ (mode = "no-auth" /\ account # {} /\
                       (u = Default \/ (u = Nil /\ Cardinality(account) > 1))))
     /\ UNCHANGED <<data, call, mutex, torn>>

\* A process ends or is killed; SQLite rolls an open transaction back.
Stop(p) ==
  /\ proc[p] # Nil
  /\ proc' = [proc EXCEPT ![p] = Nil]
  /\ call' = [c \in Call |-> IF call[c].at = p THEN Idle ELSE call[c]]
  /\ mutex' = [mutex EXCEPT ![p] = Nil]
  /\ UNCHANGED <<data, alone, asDefault, torn>>

\* Each starter note is a CreateRem of the default user's, the first at the top
\* and the others below one made before.
Seed(p, up, t) ==
  /\ proc[p] # Nil /\ proc[p].seeding
  /\ IF proc[p].seeds = {} THEN up = Nil
     ELSE up \in proc[p].seeds /\ note[up].owner = Default
  /\ \E n \in Note \ Notes :
       /\ NewNote(n, Default, up, t)
       /\ proc' = [proc EXCEPT ![p].seeds = @ \union {n}]
  /\ UNCHANGED <<account, call, mutex, alone, asDefault, torn>>

\* When all are made, or the first fails; the others may fail one by one, as they
\* do when the first has been adopted.
EndSeeding(p) ==
  /\ proc[p] # Nil /\ proc[p].seeding
  /\ proc' = [proc EXCEPT ![p].seeding = FALSE, ![p].seeds = {}]
  /\ UNCHANGED <<data, call, mutex, alone, asDefault, torn>>

\* A request arrives at p, with the credential of an account or without one;
\* to look the user up takes the read lock.
Ask(c, p, u) ==
  /\ call[c] = Idle /\ Serves(p) /\ mutex[p] = Nil
  /\ \/ u \in account /\ UNCHANGED asDefault
     \/ /\ ~proc[p].auth /\ u = proc[p].default
        /\ asDefault' = (asDefault \/ (u = Default /\ proc[p].early /\ account # {}))
  /\ call' = [call EXCEPT ![c] =
       [Idle EXCEPT !.does = "request", !.at = p, !.user = u]]
  /\ UNCHANGED <<data, proc, mutex, alone, torn>>

\* A request that creates an account needs no login.
AskForAccount(c, p) ==
  /\ call[c] = Idle /\ Serves(p)
  /\ call' = [call EXCEPT ![c] = [Idle EXCEPT !.does = "register", !.at = p]]
  /\ UNCHANGED <<data, proc, mutex, alone, asDefault, torn>>

----------------------------------------------------------------------------
(* Notes.                                                                  *)

\* Variant: a parent needs only to exist.
AddAnywhere(c, up, t) ==
  /\ call[c].does = "request" /\ Free(c)
  /\ LET u == call[c].user
     IN IF up = Nil \/ up \in Notes
        THEN \E n \in Note \ Notes : NewNote(n, u, up, t)
        ELSE UNCHANGED <<note, cards>>
  /\ End(c)
  /\ UNCHANGED <<account, proc, mutex, alone, asDefault, torn>>

\* CreateRem: the lock is held throughout, and everything happens in one
\* transaction.
Add(c, up, t) ==
  /\ call[c].does = "request" /\ Free(c)
  /\ LET u == call[c].user
     IN IF up = Nil \/ (up \in Notes /\ note[up].owner = u)
        THEN \E n \in Note \ Notes : NewNote(n, u, up, t)
        ELSE UNCHANGED <<note, cards>>
  /\ End(c)
  /\ UNCHANGED <<account, proc, mutex, alone, asDefault, torn>>

\* Variant: the sibling is read under the read lock, which is given back.
LookReadOnly(c, n, t) ==
  /\ call[c].does = "request" /\ Free(c)
  /\ IF n \in Notes /\ note[n].owner = call[c].user
     THEN call' = [call EXCEPT ![c] =
                     [@ EXCEPT !.does = "add after", !.note = note[n].up, !.text = t]]
     ELSE End(c)
  /\ UNCHANGED <<data, proc, mutex, alone, asDefault, torn>>

\* CreateRemAfter: the sibling is read, before the transaction begins.
Look(c, n, t) ==
  /\ call[c].does = "request"
  /\ IF n \in Notes /\ note[n].owner = call[c].user
     THEN /\ Lock(c)
          /\ call' = [call EXCEPT ![c] =
                        [@ EXCEPT !.does = "add after", !.note = note[n].up, !.text = t]]
     ELSE Free(c) /\ End(c) /\ UNCHANGED mutex
  /\ UNCHANGED <<data, proc, alone, asDefault, torn>>

\* The transaction: nobody asks whose the parent of the sibling is by now.
AddAfter(c) ==
  /\ call[c].does = "add after"
  /\ \E n \in Note \ Notes : NewNote(n, call[c].user, call[c].note, call[c].text)
  /\ Unlock(c) /\ End(c)
  /\ UNCHANGED <<account, proc, alone, asDefault, torn>>

\* What k is to write: the row it reads, with t for its content unless t is Nil
\* and the request only folds or unfolds the note.
Writing(k, n, t) ==
  [k EXCEPT !.does = "write", !.note = n, !.text = IF t = Nil THEN note[n].text ELSE t,
            !.changed = t \notin {Nil, note[n].text}]

\* Variant: the row is read under the read lock, which is given back.
ReadOnly(c, n, t) ==
  /\ call[c].does = "request" /\ Free(c)
  /\ IF n \in Notes /\ note[n].owner = call[c].user
     THEN call' = [call EXCEPT ![c] = Writing(@, n, t)]
     ELSE End(c)
  /\ UNCHANGED <<data, proc, mutex, alone, asDefault, torn>>

\* UpdateRem: the row is read, before the transaction begins.
Read(c, n, t) ==
  /\ call[c].does = "request"
  /\ IF n \in Notes /\ note[n].owner = call[c].user
     THEN Lock(c) /\ call' = [call EXCEPT ![c] = Writing(@, n, t)]
     ELSE Free(c) /\ End(c) /\ UNCHANGED mutex
  /\ UNCHANGED <<data, proc, alone, asDefault, torn>>

\* The transaction: the whole row is written, whether or not the request has a
\* content, and the cards are made anew when it has one that differed from the
\* row read.
Write(c) ==
  /\ call[c].does = "write"
  /\ LET u == call[c].user
         n == call[c].note
         t == call[c].text
     IN /\ note' = IF note[n].owner = u THEN [note EXCEPT ![n].text = t] ELSE note
        /\ cards' = IF call[c].changed THEN [cards EXCEPT ![n][u] = t] ELSE cards
  /\ Unlock(c) /\ End(c)
  /\ UNCHANGED <<account, proc, alone, asDefault, torn>>

----------------------------------------------------------------------------
(* Accounts.                                                               *)

\* handleAuthSetup: refused once there are accounts; else CreateUser follows, as
\* for any other request.
Setup(c, p) ==
  /\ account = {} /\ mutex[p] = Nil
  /\ AskForAccount(c, p)

\* CreateUser: the accounts are counted, before the transaction begins.
Count(c) ==
  /\ call[c].does = "register" /\ Lock(c)
  /\ call' = [call EXCEPT ![c].does = IF account = {} THEN "insert first" ELSE "insert"]
  /\ UNCHANGED <<data, proc, alone, asDefault, torn>>

\* What u has for n, from the default user's and its own.
Adopted(n, u) ==
  [v \in User |-> IF v = Default THEN Nil
                  ELSE IF v = u /\ cards[n][Default] # Nil THEN cards[n][Default]
                  ELSE cards[n][v]]

\* Variant: only the notes are adopted.
AdoptNotes(u) ==
  /\ note' = [n \in Note |->
       IF n \in Notes /\ note[n].owner = Default THEN [note[n] EXCEPT !.owner = u]
       ELSE note[n]]
  /\ UNCHANGED cards

\* Everything of the default user's becomes u's.
Adopt(u) ==
  /\ note' = [n \in Note |->
       IF n \in Notes /\ note[n].owner = Default THEN [note[n] EXCEPT !.owner = u]
       ELSE note[n]]
  /\ cards' = [n \in Note |-> Adopted(n, u)]

\* d is about to insert a note into the tree of the default user.
Straddles(d) ==
  call[d].does = "add after" /\ call[d].user = Default /\ call[d].note # Nil

\* The transaction.
Insert(c, u) ==
  /\ call[c].does \in {"insert first", "insert"}
  /\ u \notin account
  /\ account' = account \union {u}
  /\ IF call[c].does = "insert first" THEN Adopt(u) ELSE UNCHANGED <<note, cards>>
  /\ asDefault' = (asDefault \/ \/ \E d \in Call : call[d].user = Default
                              \/ \E p \in Process : proc[p] # Nil /\ proc[p].seeding)
  /\ torn' = (torn \/ (call[c].does = "insert first" /\ \E d \in Call : Straddles(d)))
  /\ Unlock(c) /\ End(c)
  /\ UNCHANGED <<proc, alone>>

\* A transaction fails, because the username is taken or for any other reason,
\* and is rolled back.
Fails(c) ==
  /\ call[c].does \in {"write", "add after", "insert first", "insert"}
  /\ Unlock(c) /\ End(c)
  /\ UNCHANGED <<data, proc, alone, asDefault, torn>>

----------------------------------------------------------------------------
\* A new data file.
Init ==
  /\ account = {}
  /\ note = [n \in Note |-> Nil]
  /\ cards = [n \in Note |-> [u \in User |-> Nil]]
  /\ proc = [p \in Process |-> Nil]
  /\ call = [c \in Call |-> Idle]
  /\ mutex = [p \in Process |-> Nil]
  /\ alone = TRUE
  /\ asDefault = FALSE
  /\ torn = FALSE

Processes ==
  \E p \in Process :
    \/ \E mode \in {"auth", "no-auth", "auto"}, u \in account \union {Default, Nil},
          web \in BOOLEAN : Start(p, mode, u, web)
    \/ \E up \in Note \union {Nil}, t \in Text : Seed(p, up, t)
    \/ EndSeeding(p)
    \/ Stop(p)

Requests ==
  \E c \in Call, p \in Process :
    \/ \E u \in User : Ask(c, p, u)
    \/ AskForAccount(c, p) \/ Setup(c, p)

Handlers ==
  \E c \in Call :
    \/ \E up \in Note \union {Nil}, t \in Text : Add(c, up, t)
    \/ \E n \in Note, t \in Text : Look(c, n, t)
    \/ AddAfter(c)
    \/ \E n \in Note, t \in Text \union {Nil} : Read(c, n, t)
    \/ Write(c)
    \/ Count(c) \/ Fails(c)
    \/ \E u \in Account : Insert(c, u)

Next == Processes \/ Requests \/ Handlers

Spec == Init /\ [][Next]_vars

----------------------------------------------------------------------------
\* Types; a call that holds a DB.mu is between its look at the rows and its
\* transaction, and the other way round.
TypeOK ==
  /\ account \subseteq Account
  /\ note \in [Note -> Rows \union {Nil}]
  /\ \A n \in Notes : note[n].owner \in account \union {Default}
  /\ cards \in [Note -> [User -> Text \union {Nil}]]
  /\ proc \in [Process -> Started \union {Nil}]
  /\ call \in [Call -> [does : Steps, at : Process \union {Nil}, user : User \union {Nil},
                        note : Note \union {Nil}, text : Text \union {Nil},
                        changed : BOOLEAN]]
  /\ mutex \in [Process -> Call \union {Nil}]
  /\ \A c \in Call, p \in Process :
       mutex[p] = c <=> call[c].at = p /\ call[c].does \in {"write", "add after", "insert first", "insert"}
  /\ {alone, asDefault, torn} \subseteq BOOLEAN

\* A note and the notes below it belong to one user.  One way to part them is
\* an adoption between the two halves of CreateRemAfter, and there is no other,
\* whichever processes seed, add, count and adopt at the same time; it takes two
\* processes.
FamiliesStayTogether ==
  /\ alone => ~torn
  /\ ~torn => \A n \in Notes : LET up == note[n].up
                               IN up # Nil => up \in Notes /\ note[up].owner = note[n].owner

\* Once there is an account, no note is left with the default user, whom
\* nobody can log in as: over restarts in every mode, as long as everybody logs
\* in who was not asked to before, and no account comes while somebody who was
\* not asked to, or a server that seeds, is at work.
NothingStranded ==
  account # {} /\ ~asDefault => \A n \in Notes : note[n].owner # Default

\* The cards and references of a note are those of its content, and the owner
\* of the note has them.
CardsFollowText ==
  \A n \in Notes : cards[n] = [u \in User |-> IF u = note[n].owner THEN note[n].text ELSE Nil]

\* One process at a time keeps them so, whatever its requests do at once.
OneProcessKeepsCards == alone => CardsFollowText
=============================================================================
