------------------------------ MODULE LockPool ------------------------------
(***************************************************************************)
(* How concurrent requests get at the database: every operation of         *)
(* internal/db holds DB.mu (a sync.RWMutex) and, under it, takes           *)
(* connections from the pool of database/sql that Open limits to five.     *)
(* One call is one goroutine that runs one operation after another.        *)
(* GetDueCards and GetCramCards ask for the ancestors of each card while   *)
(* the result set of the cards is open, so they hold one connection and    *)
(* wait for a second; every other operation uses one at a time.            *)
(***************************************************************************)
EXTENDS Integers, FiniteSets

CONSTANTS
  Call,      \* goroutines that serve requests
  Pool,      \* SetMaxOpenConns
  MaxTodo,   \* bound: statements of an operation, or rows of a card query
  Nil        \* no writer

ASSUME LockPoolAssumption ==
  /\ IsFiniteSet(Call)
  /\ Pool \in Nat \ {0}
  /\ MaxTodo \in Nat \ {0}
  /\ Nil \notin Call

VARIABLES
  pc,       \* where each call is: see Places
  kind,     \* the operation it runs: see Kinds
  todo,     \* the statements, or rows, it still has to go through
  readers,  \* the calls that hold DB.mu for reading
  writer,   \* the call that holds, or waits for the readers to drain and holds
            \* back new ones, DB.mu for writing
  inUse     \* connections handed out by the pool

vars == <<pc, kind, todo, readers, writer, inUse>>

Kinds == {"write", "read", "cards"}

Places == {"idle",      \* no operation
           "rlock",     \* waits in RLock
           "lock",      \* waits in Lock for another writer
           "drain",     \* waits in Lock for the readers
           "query",     \* holds DB.mu, waits for a connection
           "rows",      \* ... has a connection with an open statement
           "nested",    \* ... has an open result set and waits for a second one
           "inner"}     \* ... has both

At(place) == {c \in Call : pc[c] = place}

\* The calls with a connection.
Holding == At("rows") \union At("nested") \union At("inner")

\* c is between Lock and Unlock, or RLock and RUnlock.
Inside(c) == pc[c] \in {"query", "rows", "nested", "inner"}

Goto(c, place) == pc' = [pc EXCEPT ![c] = place]

Init ==
  /\ pc = [c \in Call |-> "idle"]
  /\ kind = [c \in Call |-> "read"]
  /\ todo = [c \in Call |-> 0]
  /\ readers = {}
  /\ writer = Nil
  /\ inUse = 0

----------------------------------------------------------------------------
(* sync.RWMutex.                                                            *)

\* An operation that only reads: at once, unless a writer holds or announced.
RLock(c) ==
  /\ pc[c] = "idle"
  /\ \E k \in {"read", "cards"}, n \in 1..MaxTodo :
       kind' = [kind EXCEPT ![c] = k] /\ todo' = [todo EXCEPT ![c] = n]
  /\ IF writer = Nil
     THEN Goto(c, "query") /\ readers' = readers \union {c}
     ELSE Goto(c, "rlock") /\ UNCHANGED readers
  /\ UNCHANGED <<writer, inUse>>

\* An operation that writes asks for the lock.
Lock(c) ==
  /\ pc[c] = "idle"
  /\ \E n \in 1..MaxTodo : todo' = [todo EXCEPT ![c] = n]
  /\ kind' = [kind EXCEPT ![c] = "write"]
  /\ Goto(c, "lock")
  /\ UNCHANGED <<readers, writer, inUse>>

\* One writer at a time gets to the front and holds back new readers.
Announce(c) ==
  /\ pc[c] = "lock"
  /\ writer = Nil
  /\ writer' = c
  /\ Goto(c, "drain")
  /\ UNCHANGED <<kind, todo, readers, inUse>>

\* Variant: the writer does not wait for the readers.
LockedEarly(c) ==
  /\ pc[c] = "drain"
  /\ Goto(c, "query")
  /\ UNCHANGED <<kind, todo, readers, writer, inUse>>

Locked(c) ==
  /\ pc[c] = "drain"
  /\ readers = {}
  /\ Goto(c, "query")
  /\ UNCHANGED <<kind, todo, readers, writer, inUse>>

----------------------------------------------------------------------------
(* The pool and what an operation does with it.                             *)

HasFree == inUse < Pool

Acquire(c) ==
  /\ pc[c] = "query"
  /\ HasFree
  /\ inUse' = inUse + 1
  /\ Goto(c, "rows")
  /\ UNCHANGED <<kind, todo, readers, writer>>

\* A row of the card query: getAncestorsInternal asks for a connection.
NextRow(c) ==
  /\ pc[c] = "rows"
  /\ kind[c] = "cards"
  /\ todo[c] > 0
  /\ Goto(c, "nested")
  /\ UNCHANGED <<kind, todo, readers, writer, inUse>>

\* Variant: the limit is not applied to a second connection.
AcquireNestedBeyond(c) ==
  /\ pc[c] = "nested"
  /\ inUse' = inUse + 1
  /\ Goto(c, "inner")
  /\ UNCHANGED <<kind, todo, readers, writer>>

AcquireNested(c) ==
  /\ pc[c] = "nested"
  /\ HasFree
  /\ inUse' = inUse + 1
  /\ Goto(c, "inner")
  /\ UNCHANGED <<kind, todo, readers, writer>>

\* Variant: the result set of the ancestors stays open.
EndNestedLeaks(c) ==
  /\ pc[c] = "inner"
  /\ todo' = [todo EXCEPT ![c] = @ - 1]
  /\ Goto(c, "rows")
  /\ UNCHANGED <<kind, readers, writer, inUse>>

\* getAncestorsInternal closes its result set and returns.
EndNested(c) ==
  /\ pc[c] = "inner"
  /\ todo' = [todo EXCEPT ![c] = @ - 1]
  /\ inUse' = inUse - 1
  /\ Goto(c, "rows")
  /\ UNCHANGED <<kind, readers, writer>>

\* A statement, or a transaction, of the other operations is done and another
\* one follows.
NextStatement(c) ==
  /\ pc[c] = "rows"
  /\ kind[c] # "cards"
  /\ todo[c] > 1
  /\ todo' = [todo EXCEPT ![c] = @ - 1]
  /\ inUse' = inUse - 1
  /\ Goto(c, "query")
  /\ UNCHANGED <<kind, readers, writer>>

Done(c) ==
  /\ pc[c] = "rows"
  /\ todo[c] = (IF kind[c] = "cards" THEN 0 ELSE 1)

RUnlock(c) ==
  /\ Done(c)
  /\ kind[c] # "write"
  /\ inUse' = inUse - 1
  /\ readers' = readers \ {c}
  /\ Goto(c, "idle")
  /\ UNCHANGED <<kind, todo, writer>>

\* Variant: the readers held back meanwhile are not let in.
UnlockForgets(c) ==
  /\ Done(c)
  /\ kind[c] = "write"
  /\ inUse' = inUse - 1
  /\ writer' = Nil
  /\ Goto(c, "idle")
  /\ UNCHANGED <<kind, todo, readers>>

\* The readers that were held back get the lock before any other writer.
Unlock(c) ==
  /\ Done(c)
  /\ kind[c] = "write"
  /\ inUse' = inUse - 1
  /\ writer' = Nil
  /\ readers' = readers \union At("rlock")
  /\ pc' = [b \in Call |-> IF b = c THEN "idle"
                           ELSE IF pc[b] = "rlock" THEN "query" ELSE pc[b]]
  /\ UNCHANGED <<kind, todo>>

----------------------------------------------------------------------------
Start(c) == RLock(c) \/ Lock(c)

\* The steps that a call takes as soon as it is scheduled.
Run(c) == \/ Locked(c) \/ NextRow(c) \/ EndNested(c) \/ NextStatement(c)
          \/ RUnlock(c) \/ Unlock(c)

Next == \E c \in Call : \/ Start(c) \/ Announce(c) \/ Acquire(c)
                        \/ AcquireNested(c) \/ Run(c)

\* What a call queues for: the mutex of the writers, or a connection.
Queue(c) == Announce(c) \/ Acquire(c) \/ AcquireNested(c)

\* A scheduled goroutine runs (weak fairness).  Nobody who queues is passed over
\* for ever (strong fairness): sync.Mutex hands over to a writer that waited for
\* a millisecond, and database/sql gives a returned connection to one of the
\* waiting requests, never to a newcomer.
Fairness == \A c \in Call : WF_vars(Run(c)) /\ SF_vars(Queue(c))

Spec == Init /\ [][Next]_vars

----------------------------------------------------------------------------
\* Types; the pool never hands out more connections than it has.
TypeOK ==
  /\ pc \in [Call -> Places]
  /\ kind \in [Call -> Kinds]
  /\ todo \in [Call -> 0..MaxTodo]
  /\ readers \in SUBSET Call
  /\ writer \in Call \union {Nil}
  /\ inUse \in 0..Pool

\* Only one writer is between Lock and Unlock of DB.mu, and then nobody else
\* is: what Outline and the other models take for one step is one.
Exclusive ==
  \A b, c \in Call : Inside(b) /\ Inside(c) /\ b # c =>
    kind[b] # "write" /\ kind[c] # "write"

\* The pool's count is what the calls hold, so no connection is lost.
Accounted == inUse = Cardinality(Holding) + Cardinality(At("inner"))

\* Somebody who holds a connection can go on without another one, or there is
\* a free one: the calls never all wait for each other.
NoPoolDeadlock ==
  HasFree \/ \E c \in Call : pc[c] \in {"rows", "inner"}

\* Every operation that started ends.
Answered == \A c \in Call : pc[c] # "idle" ~> pc[c] = "idle"
=============================================================================
