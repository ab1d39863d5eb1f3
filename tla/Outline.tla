------------------------------ MODULE Outline ------------------------------
(***************************************************************************)
(* The outline of remgo: the rems table of every user and the operations   *)
(* of internal/db/rems.go on it.  Each operation holds DB.mu for writing   *)
(* and runs in one transaction, so it is one action; an operation that     *)
(* returns an error changes nothing and is no step.  The re-generation of  *)
(* the list card of a parent ("Title ==>" with the children as the back)   *)
(* is part of the operation that triggers it.                              *)
(***************************************************************************)
EXTENDS Integers, FiniteSets, Sequences, SequencesExt

CONSTANTS
  Rem,        \* ids a rem can have (an id is free again once no row has it)
  User,       \* users; every query is scoped by user_id
  Content,    \* what a bullet can say
  ListText,   \* the contents that are list cards without an inline back
  BlankText,  \* the contents that CleanDelimiters reduces to the empty string
  Position,   \* the sort orders a client asks for
  MaxOrder,   \* bound: no step takes a sort order above it
  Nil         \* SQL NULL: no parent, no user, no text, no requested position

ASSUME OutlineAssumption ==
  /\ IsFiniteSet(Rem)
  /\ ListText \subseteq Content
  /\ BlankText \subseteq Content
  /\ Position \subseteq Int
  /\ MaxOrder \in Nat
  /\ Nil \notin Rem \union User \union Content \union Int

VARIABLES
  owner,      \* rems.user_id, Nil when there is no such row
  parent,     \* rems.parent_id
  sort,       \* rems.sort_order
  content,    \* rems.content
  collapsed,  \* rems.collapsed
  back,       \* the items of the rem's list card, <<>> when it has no such card
  hung        \* a recursive query that never ends holds DB.mu

vars == <<owner, parent, sort, content, collapsed, back, hung>>

----------------------------------------------------------------------------
(* The rows and the tree they form.                                         *)

Live == {r \in Rem : owner[r] # Nil}

Level(u, p) == {r \in Live : owner[r] = u /\ parent[r] = p}

Children(r) == Level(owner[r], r)

\* The rows WITH RECURSIVE reaches from r: the least set that holds r and the
\* children of its members.
Subtree(r) ==
  LET Closed == {S \in SUBSET Live :
                   r \in S /\ \A y \in Live : parent[y] \in S => y \in S}
  IN {x \in Live : \A S \in Closed : x \in S}

OnCycle(r) == parent[r] \in Subtree(r)

\* The chain of parents of r ends at a bullet without a parent.
ReachesRoot(r) == \E a \in Live : parent[a] = Nil /\ r \in Subtree(a)

\* Variant: as many as the level has rows, which a gap in the orders makes too
\* few.
EndOfByCount(u, p) == {Cardinality(Level(u, p))}

\* One past the last order of a level (a singleton).
EndOf(u, p) ==
  IF Level(u, p) = {} THEN {0}
  ELSE {sort[m] + 1 : m \in {m \in Level(u, p) :
                               \A q \in Level(u, p) : sort[q] <= sort[m]}}

----------------------------------------------------------------------------
(* List cards.                                                              *)

\* The children a list card shows, in each order ORDER BY sort_order allows.
Arrangements(r) ==
  {s \in SetToSeqs({x \in Children(r) : content[x] \notin BlankText}) :
     \A i, j \in DOMAIN s : i < j => sort[s[i]] <= sort[s[j]]}

Backs(r) ==
  IF r \in Live /\ content[r] \in ListText
  THEN {[i \in DOMAIN s |-> content[s[i]]] : s \in Arrangements(r)}
  ELSE {<<>>}

\* Each rem of S gets the list card its row and its children call for.
Resync(S) ==
  \E b \in [S -> UNION {Backs(r)' : r \in S}] :
    /\ \A r \in S : b[r] \in Backs(r)'
    /\ back' = [r \in Rem |-> IF r \in S THEN b[r] ELSE back[r]]

\* The row that is re-synced on behalf of a child: p if it holds a list card.
ListParent(p) == {q \in Live : q = p /\ content[q] \in ListText}

----------------------------------------------------------------------------
Init ==
  /\ owner = [r \in Rem |-> Nil]
  /\ parent = [r \in Rem |-> Nil]
  /\ sort = [r \in Rem |-> 0]
  /\ content = [r \in Rem |-> Nil]
  /\ collapsed = [r \in Rem |-> FALSE]
  /\ back = [r \in Rem |-> <<>>]
  /\ hung = FALSE

InRange == \A r \in Rem : sort'[r] <= MaxOrder

Owned(u, r) == r \in Live /\ owner[r] = u

\* sort_order = sort_order + 1 for the rows of S.
Shifted(S) == [r \in Rem |-> IF r \in S THEN sort[r] + 1 ELSE sort[r]]

Insert(u, id, p, c, o, following) ==
  /\ owner' = [owner EXCEPT ![id] = u]
  /\ parent' = [parent EXCEPT ![id] = p]
  /\ sort' = [Shifted(following) EXCEPT ![id] = o]
  /\ content' = [content EXCEPT ![id] = c]
  /\ collapsed' = [collapsed EXCEPT ![id] = FALSE]
  /\ UNCHANGED hung
  /\ InRange
  /\ Resync({id} \union ListParent(p))

\* Appends to the level of p, or inserts at a requested position.
CreateRem(u, id, p, c, at) ==
  /\ ~hung
  /\ id \notin Live
  /\ p = Nil \/ Owned(u, p)
  /\ IF at = Nil
     THEN \E o \in EndOf(u, p) : Insert(u, id, p, c, o, {})
     ELSE Insert(u, id, p, c, at, {q \in Level(u, p) : sort[q] >= at})

\* Variant: the row already at the new order is not shifted.
CreateRemAfterNoShift(u, id, prev, c) ==
  /\ ~hung
  /\ id \notin Live
  /\ Owned(u, prev)
  /\ LET o == sort[prev] + 1 IN
     Insert(u, id, parent[prev], c, o,
            {q \in Level(u, parent[prev]) : sort[q] > o})

CreateRemAfter(u, id, prev, c) ==
  /\ ~hung
  /\ id \notin Live
  /\ Owned(u, prev)
  /\ LET o == sort[prev] + 1 IN
     Insert(u, id, parent[prev], c, o,
            {q \in Level(u, parent[prev]) : sort[q] >= o})

\* A field the request omits keeps its value, so c and k range over all values.
UpdateRem(u, r, c, k) ==
  /\ ~hung
  /\ Owned(u, r)
  /\ content' = [content EXCEPT ![r] = c]
  /\ collapsed' = [collapsed EXCEPT ![r] = k]
  /\ UNCHANGED <<owner, parent, sort, hung>>
  /\ IF c # content[r]
     THEN Resync({r} \union ListParent(parent[r]))
     ELSE UNCHANGED back

\* Variant: the cards of the deleted rows stay.
DeleteRemKeepsCards(u, r) ==
  /\ ~hung
  /\ Owned(u, r)
  /\ ~OnCycle(r)
  /\ LET gone == Subtree(r)
         Cleared(f, v) == [x \in Rem |-> IF x \in gone THEN v ELSE f[x]]
     IN /\ owner' = Cleared(owner, Nil)
        /\ parent' = Cleared(parent, Nil)
        /\ sort' = Cleared(sort, 0)
        /\ content' = Cleared(content, Nil)
        /\ collapsed' = Cleared(collapsed, FALSE)
        /\ Resync(ListParent(parent[r]))
  /\ UNCHANGED hung

\* The recursive query of a rem on a cycle does not end: see QueryNeverEnds.
DeleteRem(u, r) ==
  /\ ~hung
  /\ Owned(u, r)
  /\ ~OnCycle(r)
  /\ LET gone == Subtree(r)
         Cleared(f, v) == [x \in Rem |-> IF x \in gone THEN v ELSE f[x]]
     IN /\ owner' = Cleared(owner, Nil)
        /\ parent' = Cleared(parent, Nil)
        /\ sort' = Cleared(sort, 0)
        /\ content' = Cleared(content, Nil)
        /\ collapsed' = Cleared(collapsed, FALSE)
        /\ Resync(gone \union ListParent(parent[r]))
  /\ UNCHANGED hung

\* Variant: any bullet of the user with a smaller order counts as a sibling.
PrecedingAnywhere(u, r) ==
  LET before == {q \in Live : owner[q] = u /\ sort[q] < sort[r]}
  IN {q \in before : \A x \in before : sort[x] <= sort[q]}

\* The siblings ORDER BY sort_order DESC LIMIT 1 can return.
PrecedingSiblings(u, r) ==
  LET before == {q \in Level(u, parent[r]) : sort[q] < sort[r]}
  IN {q \in before : \A x \in before : sort[x] <= sort[q]}

\* Variant: the list card of the parent that loses the bullet is not re-synced.
IndentRemNewParentOnly(u, r) ==
  /\ ~hung
  /\ Owned(u, r)
  /\ \E prev \in PrecedingSiblings(u, r) : \E o \in EndOf(u, prev) :
       /\ parent' = [parent EXCEPT ![r] = prev]
       /\ sort' = [sort EXCEPT ![r] = o]
       /\ UNCHANGED <<owner, content, collapsed, hung>>
       /\ InRange
       /\ Resync(ListParent(prev))

IndentRem(u, r) ==
  /\ ~hung
  /\ Owned(u, r)
  /\ \E prev \in PrecedingSiblings(u, r) : \E o \in EndOf(u, prev) :
       /\ parent' = [parent EXCEPT ![r] = prev]
       /\ sort' = [sort EXCEPT ![r] = o]
       /\ UNCHANGED <<owner, content, collapsed, hung>>
       /\ InRange
       /\ Resync(ListParent(parent[r]) \union ListParent(prev))

\* Variant: the bullet takes the place before its old parent.
OutdentRemBefore(u, r) ==
  LET p == parent[r] IN
  /\ ~hung
  /\ Owned(u, r)
  /\ p # Nil
  /\ Owned(u, p)
  /\ parent' = [parent EXCEPT ![r] = parent[p]]
  /\ sort' = [Shifted({q \in Level(u, parent[p]) : sort[q] >= sort[p]})
                EXCEPT ![r] = sort[p]]
  /\ UNCHANGED <<owner, content, collapsed, hung>>
  /\ InRange
  /\ Resync(ListParent(p))

\* Only the old parent is re-synced: the new one may hold a list card too.
OutdentRem(u, r) ==
  LET p == parent[r] IN
  /\ ~hung
  /\ Owned(u, r)
  /\ p # Nil
  /\ Owned(u, p)
  /\ parent' = [parent EXCEPT ![r] = parent[p]]
  /\ sort' = [Shifted({q \in Level(u, parent[p]) : sort[q] > sort[p]})
                EXCEPT ![r] = sort[p] + 1]
  /\ UNCHANGED <<owner, content, collapsed, hung>>
  /\ InRange
  /\ Resync(ListParent(p))

\* Variant: the target may be anybody's.
MoveRemAnywhere(u, r, p, o) ==
  /\ ~hung
  /\ Owned(u, r)
  /\ p = Nil \/ (p # r /\ p \in Live)
  /\ parent' = [parent EXCEPT ![r] = p]
  /\ sort' = [sort EXCEPT ![r] = o]
  /\ UNCHANGED <<owner, content, collapsed, back, hung>>

\* No sibling is shifted, no card is re-synced, and only r itself is refused
\* as its new parent.
MoveRem(u, r, p, o) ==
  /\ ~hung
  /\ Owned(u, r)
  /\ p = Nil \/ (p # r /\ Owned(u, p))
  /\ parent' = [parent EXCEPT ![r] = p]
  /\ sort' = [sort EXCEPT ![r] = o]
  /\ UNCHANGED <<owner, content, collapsed, back, hung>>

ToggleCollapse(u, r) ==
  /\ ~hung
  /\ Owned(u, r)
  /\ collapsed' = [collapsed EXCEPT ![r] = ~@]
  /\ UNCHANGED <<owner, parent, sort, content, back, hung>>

\* UNION ALL never runs dry on a cycle: GetAncestors of a rem whose parents
\* never reach the root, and DeleteRem, GetTree and GetCramCards of a rem on
\* the cycle, keep DB.mu for ever.
QueryNeverEnds(u, r) ==
  /\ ~hung
  /\ Owned(u, r)
  /\ ~ReachesRoot(r)
  /\ hung' = TRUE
  /\ UNCHANGED <<owner, parent, sort, content, collapsed, back>>

----------------------------------------------------------------------------
\* The operations the web client uses.
EditorNext ==
  \E u \in User, r \in Rem :
    \/ \E p \in Rem \union {Nil}, c \in Content, at \in Position \union {Nil} :
         CreateRem(u, r, p, c, at)
    \/ \E prev \in Rem, c \in Content : CreateRemAfter(u, r, prev, c)
    \/ \E c \in Content, k \in BOOLEAN : UpdateRem(u, r, c, k)
    \/ DeleteRem(u, r)
    \/ IndentRem(u, r)
    \/ OutdentRem(u, r)
    \/ ToggleCollapse(u, r)
    \/ QueryNeverEnds(u, r)

Move == \E u \in User, r \in Rem, p \in Rem \union {Nil}, o \in Position :
          MoveRem(u, r, p, o)

\* The whole interface of the server, POST /api/rems/{id}/move included.
Next == EditorNext \/ Move

EditorSpec == Init /\ [][EditorNext]_vars
Spec == Init /\ [][Next]_vars

----------------------------------------------------------------------------
\* Types; a row has a text, and an id without a row has no columns and no card
\* left (the cascades of the schema).
TypeOK ==
  /\ owner \in [Rem -> User \union {Nil}]
  /\ parent \in [Rem -> Rem \union {Nil}]
  /\ sort \in [Rem -> Int]
  /\ content \in [Rem -> Content \union {Nil}]
  /\ collapsed \in [Rem -> BOOLEAN]
  /\ back \in [Rem -> Seq(Content)]
  /\ hung \in BOOLEAN
  /\ \A r \in Rem :
       IF r \in Live THEN content[r] \in Content
       ELSE parent[r] = Nil /\ content[r] = Nil /\ back[r] = <<>>

\* A parent is a row of the same user: no operation leaves a bullet below a
\* deleted one, or hangs one user's bullet below another's.
ParentOwned ==
  \A r \in Rem : parent[r] # Nil =>
    r \in Live /\ parent[r] \in Live /\ owner[parent[r]] = owner[r]

\* There is no cycle of parents: every set of rows has a member whose parent
\* lies outside it.
Acyclic == \A S \in SUBSET Live : S # {} => \E r \in S : parent[r] \notin S

\* GetAncestors "returns the chain of parent Rems leading up to root".
AncestorsReachRoot == \A r \in Live : ReachesRoot(r)

\* Two siblings never have the same sort order, so ORDER BY sort_order
\* determines what the outline, the list cards and IndentRem see.
DistinctOrders ==
  \A u \in User, p \in Rem \union {Nil} : \A q, r \in Level(u, p) :
    q # r => sort[q] # sort[r]

\* A list card is right after every step that takes a child from its rem,
\* deletes one, or rewrites one, a move aside.
ListFreshOnLoss ==
  [][Move \/ \A r \in Live :
       /\ r \in Live'
       /\ \E x \in Children(r) : x \notin Children(r)' \/ content'[x] # content[x]
       => back'[r] \in Backs(r)']_vars

\* The pairs of bullets of which the first is shown above the second: it is an
\* ancestor, or its branch comes earlier.
ShownBefore ==
  LET below == {e \in Live \X Live : e[2] \in Subtree(e[1])}
      earlier == {e \in Live \X Live :
                    /\ owner[e[1]] = owner[e[2]]
                    /\ parent[e[1]] = parent[e[2]]
                    /\ sort[e[1]] < sort[e[2]]}
  IN {e \in Live \X Live :
        \/ e[1] # e[2] /\ e \in below
        \/ \E f \in earlier : <<f[1], e[1]>> \in below /\ <<f[2], e[2]>> \in below}

\* Two bullets swap places only when the earlier one is part of what an
\* outdent moves past the rest of its old parent's subtree: no insertion,
\* indent, edit or deletion reorders anything that stays.
ReadingOrder ==
  [][(\E r \in Live \intersect Live' : parent'[r] # parent[r] \/ sort'[r] # sort[r]) =>
     \A e \in ShownBefore \ ShownBefore' : e \in Live' \X Live' =>
       \E r \in Live : /\ parent[r] # Nil
                       /\ parent'[r] = parent[parent[r]]
                       /\ e[1] \in Subtree(r)
                       /\ e[2] \in Subtree(parent[r])]_vars
=============================================================================
