--------------------------- MODULE OutlineProofs ---------------------------
(***************************************************************************)
(* Theorems about Outline for any finite set of ids, any users, contents   *)
(* and positions.  The order of the file: facts about the operators, the   *)
(* type invariant, the ownership of parents, the absence of cycles and its *)
(* consequence for DB.mu, distinct orders, list cards, the refinement of   *)
(* NestedLists, and the order in which the bullets are shown.              *)
(***************************************************************************)
EXTENDS OutlineRefines, SequenceTheorems, FiniteSetTheorems, TLAPS

----------------------------------------------------------------------------
(* Facts about the operators.                                               *)

\* A subtree consists of rows, holds its root, and with a row its children.
LEMMA SubtreeFacts ==
  ASSUME NEW r \in Live
  PROVE  /\ r \in Subtree(r)
         /\ Subtree(r) \subseteq Live
         /\ \A y \in Live : parent[y] \in Subtree(r) => y \in Subtree(r)
BY DEF Subtree

\* ... and it lies in every set of rows with these two properties.
LEMMA SubtreeLeast ==
  ASSUME NEW r \in Live, NEW S \in SUBSET Live, r \in S,
         \A y \in Live : parent[y] \in S => y \in S
  PROVE  Subtree(r) \subseteq S
BY DEF Subtree

\* The part of TypeOK the list cards rest on: a row always has a text.
RowsHaveText == \A x \in Live : content[x] \in Content

\* The list card the sync computes is a sequence of contents.
LEMMA BacksType == RowsHaveText => \A r : Backs(r) \subseteq Seq(Content)
<1> SUFFICES ASSUME RowsHaveText, NEW r, NEW b \in Backs(r)
             PROVE  b \in Seq(Content)
  OBVIOUS
<1>1. CASE b = <<>>
  BY <1>1
<1>2. CASE b # <<>>
  <2> DEFINE items == {x \in Children(r) : content[x] \notin BlankText}
             n == Cardinality(items)
  <2>1. PICK s \in Arrangements(r) : b = [i \in DOMAIN s |-> content[s[i]]]
    BY <1>2 DEF Backs
  <2>2. items \subseteq Live
    BY DEF Children, Level
  <2>3. IsFiniteSet(items)
    BY <2>2, FS_Subset, OutlineAssumption DEF Live
  <2>4. n \in Nat
    BY <2>3, FS_CardinalityType
  <2>5. s \in [1..n -> items]
    BY <2>1 DEF Arrangements, SetToSeqs
  <2> HIDE DEF n
  <2>6. \A i \in 1..n : content[s[i]] \in Content
    BY <2>2, <2>5 DEF RowsHaveText
  <2>7. b = [i \in 1..n |-> content[s[i]]]
    BY <2>1, <2>5
  <2> QED BY <2>4, <2>6, <2>7
<1> QED BY <1>1, <1>2

\* Re-syncing the rems of S leaves the other cards alone, keeps back well
\* typed, and leaves no card to a rem of S without a row.
LEMMA ResyncEffect ==
  ASSUME TypeOK, NEW S \in SUBSET Rem, Resync(S), RowsHaveText'
  PROVE  /\ back' \in [Rem -> Seq(Content)]
         /\ \A r \in Rem : r \in S \/ back'[r] = back[r]
         /\ \A r \in S : r \notin Live' => back'[r] = <<>>
<1>1. PICK b \in [S -> UNION {Backs(r)' : r \in S}] :
        /\ \A r \in S : b[r] \in Backs(r)'
        /\ back' = [r \in Rem |-> IF r \in S THEN b[r] ELSE back[r]]
  BY DEF Resync
<1>2. (RowsHaveText => \A r : Backs(r) \subseteq Seq(Content))'
  BY BacksType, PTL
<1>3. \A r \in S : b[r] \in Seq(Content)
  BY <1>1, <1>2
<1>4. \A r \in S : r \notin Live' => b[r] = <<>>
  BY <1>1 DEF Backs
<1> QED BY <1>1, <1>3, <1>4 DEF TypeOK

----------------------------------------------------------------------------
(* Types.                                                                   *)

\* The place CreateRem and IndentRem append at is a sort order.
LEMMA EndOfType == ASSUME TypeOK, NEW u, NEW p PROVE EndOf(u, p) \subseteq Int
  BY DEF TypeOK, EndOf, Level, Live

\* Insert, for CreateRem and CreateRemAfter.
LEMMA InsertType ==
  ASSUME TypeOK, NEW u \in User, NEW id \in Rem, NEW p \in Rem \union {Nil},
         NEW c \in Content, NEW o \in Int, NEW S \in SUBSET Rem,
         Insert(u, id, p, c, o, S)
  PROVE  TypeOK'
<1> USE OutlineAssumption DEF TypeOK, Insert
<1>1. owner' \in [Rem -> User \union {Nil}] /\ content' \in [Rem -> Content \union {Nil}]
  OBVIOUS
<1>2. Live' = Live \union {id}
  BY DEF Live
<1>3. RowsHaveText'
  BY <1>2 DEF RowsHaveText, Live
<1>4. Resync({id} \union ListParent(p)) /\ {id} \union ListParent(p) \in SUBSET Rem
  BY DEF ListParent, Live
<1>5. /\ back' \in [Rem -> Seq(Content)]
      /\ \A r \in Rem : r \in {id} \union ListParent(p) \/ back'[r] = back[r]
  BY <1>3, <1>4, ResyncEffect
<1>6. sort' \in [Rem -> Int]
  BY DEF Shifted
<1>7. \A r \in Rem : IF r \in Live' THEN content'[r] \in Content
                     ELSE parent'[r] = Nil /\ content'[r] = Nil /\ back'[r] = <<>>
  BY <1>2, <1>3, <1>5 DEF RowsHaveText, Live, ListParent
<1> QED BY <1>1, <1>5, <1>6, <1>7

\* Editing the text of a bullet, and the cards that follows from it, keeps the
\* types.
LEMMA UpdateRemType ==
  ASSUME TypeOK, NEW u \in User, NEW r \in Rem, NEW c \in Content,
         NEW k \in BOOLEAN, UpdateRem(u, r, c, k)
  PROVE  TypeOK'
<1> USE DEF TypeOK, UpdateRem
<1>1. Live' = Live /\ r \in Live
  BY DEF Live, Owned
<1>2. RowsHaveText'
  BY <1>1 DEF RowsHaveText, Live
<1>3. /\ back' \in [Rem -> Seq(Content)]
      /\ \A x \in Rem : x \in Live \/ back'[x] = back[x]
  <2>1. CASE c = content[r]
    BY <2>1
  <2>2. CASE c # content[r]
    <3>1. {r} \union ListParent(parent[r]) \subseteq Live
      BY <1>1 DEF ListParent
    <3> QED BY <1>2, <2>2, <3>1, ResyncEffect DEF Live
  <2> QED BY <2>1, <2>2
<1> QED BY <1>1, <1>2, <1>3 DEF RowsHaveText

\* Deleting a subtree clears every column and every card of the deleted rows.
LEMMA DeleteRemType ==
  ASSUME TypeOK, NEW u \in User, NEW r \in Rem, DeleteRem(u, r)
  PROVE  TypeOK'
<1> DEFINE gone == Subtree(r)
           S == gone \union ListParent(parent[r])
<1> USE DEF TypeOK, DeleteRem
<1>1. gone \subseteq Live /\ ListParent(parent[r]) \subseteq Live
  BY DEF Subtree, ListParent
<1> HIDE DEF gone
<1>2. Live' = Live \ gone
  BY <1>1 DEF Live, gone
<1>3. RowsHaveText'
  BY <1>2 DEF RowsHaveText, Live, gone
<1>4. /\ back' \in [Rem -> Seq(Content)]
      /\ \A x \in Rem : x \in S \/ back'[x] = back[x]
      /\ \A x \in S : x \notin Live' => back'[x] = <<>>
  BY <1>1, <1>3, ResyncEffect DEF Live, gone
<1>5. \A x \in Rem : IF x \in Live' THEN content'[x] \in Content
                     ELSE parent'[x] = Nil /\ content'[x] = Nil /\ back'[x] = <<>>
  BY <1>2, <1>3, <1>4 DEF RowsHaveText, gone
<1>6. /\ owner' \in [Rem -> User \union {Nil}]
      /\ parent' \in [Rem -> Rem \union {Nil}]
      /\ sort' \in [Rem -> Int]
      /\ content' \in [Rem -> Content \union {Nil}]
  OBVIOUS
<1>7. collapsed' \in [Rem -> BOOLEAN]
  OBVIOUS
<1> QED BY <1>4, <1>5, <1>6, <1>7

\* Indenting a bullet, with the list cards of both parents, keeps the types.
LEMMA IndentRemType ==
  ASSUME TypeOK, NEW u \in User, NEW r \in Rem, IndentRem(u, r)
  PROVE  TypeOK'
<1> USE DEF TypeOK
<1>1. PICK prev \in PrecedingSiblings(u, r) : \E o \in EndOf(u, prev) :
        /\ parent' = [parent EXCEPT ![r] = prev]
        /\ sort' = [sort EXCEPT ![r] = o]
        /\ UNCHANGED <<owner, content, collapsed, hung>>
        /\ Resync(ListParent(parent[r]) \union ListParent(prev))
  BY DEF IndentRem
<1>2. prev \in Live /\ r \in Live
  BY DEF PrecedingSiblings, Level, IndentRem, Owned
<1>3. Live' = Live /\ RowsHaveText'
  BY <1>1 DEF Live, RowsHaveText
<1>4. ListParent(parent[r]) \union ListParent(prev) \subseteq Live
  BY DEF ListParent
<1>5. /\ back' \in [Rem -> Seq(Content)]
      /\ \A x \in Rem : x \in Live \/ back'[x] = back[x]
  BY <1>1, <1>3, <1>4, ResyncEffect DEF Live
<1>6. sort' \in [Rem -> Int] /\ parent' \in [Rem -> Rem \union {Nil}]
  BY <1>1, <1>2, EndOfType DEF Live
<1> QED BY <1>1, <1>2, <1>3, <1>5, <1>6

\* Outdenting a bullet, with the list card of its old parent, keeps the types.
LEMMA OutdentRemType ==
  ASSUME TypeOK, NEW u \in User, NEW r \in Rem, OutdentRem(u, r)
  PROVE  TypeOK'
<1> USE DEF TypeOK, OutdentRem
<1>1. r \in Live /\ parent[r] \in Live
  BY DEF Owned
<1>2. Live' = Live /\ RowsHaveText'
  BY DEF Live, RowsHaveText
<1>3. ListParent(parent[r]) \subseteq Live
  BY DEF ListParent
<1>4. /\ back' \in [Rem -> Seq(Content)]
      /\ \A x \in Rem : x \in Live \/ back'[x] = back[x]
  BY <1>2, <1>3, ResyncEffect DEF Live
<1>5. sort' \in [Rem -> Int] /\ parent' \in [Rem -> Rem \union {Nil}]
  BY <1>1 DEF Shifted, Live
<1> QED BY <1>1, <1>2, <1>4, <1>5

\* Inserting at the end of a level or at a requested place keeps the types.
LEMMA CreateRemType ==
  ASSUME TypeOK, NEW u \in User, NEW id \in Rem, NEW p \in Rem \union {Nil},
         NEW c \in Content, NEW at \in Position \union {Nil},
         CreateRem(u, id, p, c, at)
  PROVE  TypeOK'
<1>1. CASE at = Nil
  BY <1>1, InsertType, EndOfType DEF CreateRem
<1>2. CASE at # Nil
  <2>1. at \in Int /\ {q \in Level(u, p) : sort[q] >= at} \in SUBSET Rem
    BY <1>2, OutlineAssumption DEF Level, Live
  <2> QED BY <1>2, <2>1, InsertType DEF CreateRem
<1> QED BY <1>1, <1>2

\* Inserting after a sibling keeps the types.
LEMMA CreateRemAfterType ==
  ASSUME TypeOK, NEW u \in User, NEW id \in Rem, NEW prev \in Rem,
         NEW c \in Content, CreateRemAfter(u, id, prev, c)
  PROVE  TypeOK'
<1>1. sort[prev] + 1 \in Int /\ parent[prev] \in Rem \union {Nil}
  BY DEF TypeOK
<1>2. {q \in Level(u, parent[prev]) : sort[q] >= sort[prev] + 1} \in SUBSET Rem
  BY DEF Level, Live
<1> QED BY <1>1, <1>2, InsertType DEF CreateRemAfter

\* No operation of the server breaks a type.
LEMMA TypeStep == TypeOK /\ [Next]_vars => TypeOK'
<1> SUFFICES ASSUME TypeOK, [Next]_vars PROVE TypeOK'
  OBVIOUS
<1>1. CASE UNCHANGED vars
  BY <1>1 DEF TypeOK, vars, Live
<1>2. ASSUME NEW u \in User, NEW r \in Rem, NEW p \in Rem \union {Nil},
             NEW o \in Position, MoveRem(u, r, p, o)
      PROVE  TypeOK'
  <2>1. Live' = Live /\ r \in Live
    BY <1>2 DEF MoveRem, Live, Owned
  <2> QED BY <1>2, <2>1, OutlineAssumption DEF MoveRem, TypeOK
<1>3. ASSUME NEW u \in User, NEW r \in Rem,
             ToggleCollapse(u, r) \/ QueryNeverEnds(u, r)
      PROVE  TypeOK'
  BY <1>3 DEF ToggleCollapse, QueryNeverEnds, TypeOK, Live
<1>4. CASE EditorNext
  BY <1>3, <1>4, CreateRemType, CreateRemAfterType, UpdateRemType,
     DeleteRemType, IndentRemType, OutdentRemType DEF EditorNext
<1> QED BY <1>1, <1>2, <1>4 DEF Next, Move

\* An empty database is well typed.
LEMMA InitTypes == Init => TypeOK
<1> SUFFICES ASSUME Init PROVE TypeOK
  OBVIOUS
<1>1. back \in [Rem -> Seq(Content)]
  BY DEF Init
<1>2. \A r \in Rem : r \notin Live /\ parent[r] = Nil /\ content[r] = Nil /\ back[r] = <<>>
  BY DEF Init, Live
<1>3. collapsed \in [Rem -> BOOLEAN] /\ hung \in BOOLEAN
  BY Zenon DEF Init
<1> QED BY <1>1, <1>2, <1>3 DEF Init, TypeOK

\* Every column keeps its type, a row always has a text, and a deleted row
\* leaves neither columns nor a card behind: for every operation, MoveRem
\* included.
THEOREM TypeCorrect == Spec => []TypeOK
  BY InitTypes, TypeStep, PTL DEF Spec

----------------------------------------------------------------------------
(* Ownership of parents.                                                    *)

\* Both ways to create a bullet insert it below nothing or below a row of u,
\* and shift exactly the siblings from its order on.
LEMMA CreateIsInsert ==
  ASSUME TypeOK, ParentOwned, NEW u, NEW id, NEW c,
         \/ \E p \in Rem \union {Nil}, at \in Position \union {Nil} :
              CreateRem(u, id, p, c, at)
         \/ \E prev \in Rem : CreateRemAfter(u, id, prev, c)
  PROVE  /\ id \notin Live
         /\ \E p \in Rem \union {Nil}, o \in Int, S \in SUBSET Rem :
              /\ p = Nil \/ Owned(u, p)
              /\ S = {q \in Level(u, p) : sort[q] >= o}
              /\ Insert(u, id, p, c, o, S)
<1>1. ASSUME NEW p \in Rem \union {Nil}, NEW at \in Position \union {Nil},
             CreateRem(u, id, p, c, at), at = Nil
      PROVE  \E o \in Int, S \in SUBSET Rem :
               S = {q \in Level(u, p) : sort[q] >= o} /\ Insert(u, id, p, c, o, S)
  <2>1. PICK o \in EndOf(u, p) : Insert(u, id, p, c, o, {})
    BY <1>1 DEF CreateRem
  <2>2. o \in Int
    BY EndOfType
  <2>3. \A q \in Level(u, p) : sort[q] \in Int /\ sort[q] < o
    BY <2>1 DEF EndOf, TypeOK, Level, Live
  <2>4. {} = {q \in Level(u, p) : sort[q] >= o}
    BY <2>2, <2>3
  <2> QED BY <2>1, <2>2, <2>4
<1>2. ASSUME NEW p \in Rem \union {Nil}, NEW at \in Position \union {Nil},
             CreateRem(u, id, p, c, at), at # Nil
      PROVE  \E o \in Int, S \in SUBSET Rem :
               S = {q \in Level(u, p) : sort[q] >= o} /\ Insert(u, id, p, c, o, S)
  <2>1. at \in Int /\ {q \in Level(u, p) : sort[q] >= at} \in SUBSET Rem
    BY <1>2, OutlineAssumption DEF Level, Live
  <2> QED BY <1>2, <2>1 DEF CreateRem
<1>3. CASE \E p \in Rem \union {Nil}, at \in Position \union {Nil} :
             CreateRem(u, id, p, c, at)
  BY <1>1, <1>2, <1>3 DEF CreateRem
<1>4. CASE \E prev \in Rem : CreateRemAfter(u, id, prev, c)
  <2>1. PICK prev \in Rem : CreateRemAfter(u, id, prev, c)
    BY <1>4
  <2>2. parent[prev] = Nil \/ Owned(u, parent[prev])
    BY <2>1 DEF CreateRemAfter, Owned, ParentOwned
  <2>3. /\ parent[prev] \in Rem \union {Nil}
        /\ sort[prev] + 1 \in Int
        /\ {q \in Level(u, parent[prev]) : sort[q] >= sort[prev] + 1} \in SUBSET Rem
    BY DEF TypeOK, Level, Live
  <2> QED BY <2>1, <2>2, <2>3 DEF CreateRemAfter
<1> QED BY <1>3, <1>4

\* A new bullet is below nothing or below a row of its owner, and an id that
\* was free has no children to inherit.
LEMMA InsertOwned ==
  ASSUME TypeOK, ParentOwned, NEW u \in User, NEW id \in Rem, id \notin Live,
         NEW p \in Rem \union {Nil}, p = Nil \/ Owned(u, p),
         NEW c, NEW o, NEW S, Insert(u, id, p, c, o, S)
  PROVE  ParentOwned'
<1>1. /\ owner' = [owner EXCEPT ![id] = u]
      /\ parent' = [parent EXCEPT ![id] = p]
  BY DEF Insert
<1>2. Live' = Live \union {id}
  BY <1>1, OutlineAssumption DEF TypeOK, Live
<1>3. ASSUME NEW r \in Rem, parent'[r] # Nil
      PROVE  r \in Live' /\ parent'[r] \in Live' /\ owner'[parent'[r]] = owner'[r]
  <2>1. CASE r = id
    BY <1>1, <1>2, <1>3, <2>1 DEF Owned, TypeOK
  <2>2. CASE r # id
    BY <1>1, <1>2, <1>3, <2>2 DEF ParentOwned, TypeOK
  <2> QED BY <2>1, <2>2
<1> QED BY <1>3 DEF ParentOwned

\* A deletion takes the whole subtree, so nobody's parent disappears.
LEMMA DeleteOwned ==
  ASSUME TypeOK, ParentOwned, NEW u \in User, NEW r \in Rem, DeleteRem(u, r)
  PROVE  ParentOwned'
<1> DEFINE gone == Subtree(r)
<1>1. r \in Live
  BY DEF DeleteRem, Owned
<1>2. /\ owner' = [x \in Rem |-> IF x \in gone THEN Nil ELSE owner[x]]
      /\ parent' = [x \in Rem |-> IF x \in gone THEN Nil ELSE parent[x]]
  BY DEF DeleteRem
<1>3. \A y \in Live : parent[y] \in gone => y \in gone
  BY <1>1, SubtreeFacts
<1> HIDE DEF gone
<1>4. Live' = Live \ gone
  BY <1>2 DEF Live
<1> QED BY <1>2, <1>3, <1>4 DEF ParentOwned, TypeOK, Live

\* A row r that gets a parent of its owner, or none, every other row keeping
\* its own: IndentRem, OutdentRem and MoveRem.
LEMMA ReparentOwned ==
  ASSUME TypeOK, ParentOwned, NEW u \in User, NEW r \in Rem, Owned(u, r),
         NEW p \in Rem \union {Nil}, p = Nil \/ Owned(u, p),
         UNCHANGED owner, parent' = [parent EXCEPT ![r] = p]
  PROVE  ParentOwned'
BY DEF ParentOwned, TypeOK, Owned, Live

\* No operation of the server leaves a bullet below a row of somebody else.
LEMMA OwnedStep == TypeOK /\ ParentOwned /\ [Next]_vars => ParentOwned'
<1> SUFFICES ASSUME TypeOK, ParentOwned, [Next]_vars PROVE ParentOwned'
  OBVIOUS
<1>1. CASE UNCHANGED <<owner, parent>>
  BY <1>1 DEF ParentOwned, Live
<1>2. ASSUME NEW u \in User, NEW r \in Rem, NEW p \in Rem \union {Nil},
             NEW o \in Position, MoveRem(u, r, p, o)
      PROVE  ParentOwned'
  BY <1>2, ReparentOwned DEF MoveRem
<1>3. ASSUME NEW u \in User, NEW r \in Rem, NEW p \in Rem \union {Nil},
             NEW c \in Content, NEW at \in Position \union {Nil},
             CreateRem(u, r, p, c, at)
      PROVE  ParentOwned'
  BY <1>3, InsertOwned DEF CreateRem
<1>4. ASSUME NEW u \in User, NEW r \in Rem, NEW prev \in Rem, NEW c \in Content,
             CreateRemAfter(u, r, prev, c)
      PROVE  ParentOwned'
  <2>1. parent[prev] \in Rem \union {Nil}
    BY DEF TypeOK
  <2>2. parent[prev] = Nil \/ Owned(u, parent[prev])
    BY <1>4 DEF CreateRemAfter, Owned, ParentOwned
  <2> QED BY <1>4, <2>1, <2>2, InsertOwned DEF CreateRemAfter
<1>5. ASSUME NEW u \in User, NEW r \in Rem, IndentRem(u, r)
      PROVE  ParentOwned'
  <2>1. PICK prev \in PrecedingSiblings(u, r) :
          parent' = [parent EXCEPT ![r] = prev] /\ UNCHANGED owner
    BY <1>5 DEF IndentRem
  <2>2. prev \in Rem /\ Owned(u, prev)
    BY DEF PrecedingSiblings, Level, Live, Owned
  <2> QED BY <1>5, <2>1, <2>2, ReparentOwned DEF IndentRem
<1>6. ASSUME NEW u \in User, NEW r \in Rem, OutdentRem(u, r)
      PROVE  ParentOwned'
  <2>1. parent[r] \in Rem /\ parent[parent[r]] \in Rem \union {Nil}
    BY <1>6 DEF OutdentRem, TypeOK
  <2>2. parent[parent[r]] = Nil \/ Owned(u, parent[parent[r]])
    BY <1>6, <2>1 DEF OutdentRem, Owned, ParentOwned
  <2> QED BY <1>6, <2>1, <2>2, ReparentOwned DEF OutdentRem
<1>7. CASE EditorNext
  BY <1>1, <1>3, <1>4, <1>5, <1>6, <1>7, DeleteOwned
  DEF EditorNext, UpdateRem, ToggleCollapse, QueryNeverEnds
<1> QED BY <1>1, <1>2, <1>7 DEF Next, Move, vars

\* A parent is a row of the same user whatever the server is asked to do, moves
\* included: no operation leaves a bullet below a deleted one or below a
\* bullet of somebody else.
THEOREM Ownership == Spec => []ParentOwned
<1>1. Init => ParentOwned
  BY DEF Init, ParentOwned
<1> QED BY <1>1, OwnedStep, TypeCorrect, PTL DEF Spec

----------------------------------------------------------------------------
(* No cycles in what the web client does.                                   *)

\* No operation of the web client closes a cycle of parents.
LEMMA AcyclicStep == TypeOK /\ ParentOwned /\ Acyclic /\ [EditorNext]_vars => Acyclic'
<1> SUFFICES ASSUME TypeOK, ParentOwned, Acyclic, [EditorNext]_vars,
                    NEW S \in SUBSET Live', S # {},
                    \A x \in S : parent'[x] \in S
             PROVE  FALSE
  BY DEF Acyclic
<1>1. CASE UNCHANGED <<owner, parent>>
  BY <1>1 DEF Acyclic, Live
<1>2. ASSUME NEW u \in User, NEW id \in Rem, NEW p, NEW c, NEW o, NEW T,
             id \notin Live, p = Nil \/ Owned(u, p), Insert(u, id, p, c, o, T)
      PROVE  FALSE
  <2>1. Live' = Live \union {id} /\ parent' = [parent EXCEPT ![id] = p]
    BY <1>2, OutlineAssumption DEF Insert, TypeOK, Live
  <2>2. S \ {id} \subseteq Live /\ \A x \in S \ {id} : parent[x] \in S \ {id}
    <3>1. S \ {id} \subseteq Live
      BY <2>1
    <3>2. ASSUME NEW x \in S \ {id} PROVE parent[x] \in S \ {id}
      <4>1. parent[x] = parent'[x] /\ parent[x] \in S /\ x \in Rem
        BY <2>1, <3>1, <3>2 DEF TypeOK, Live
      <4>2. parent[x] \in Rem
        BY <4>1 DEF Live
      <4> QED BY <1>2, <4>1, <4>2, OutlineAssumption DEF ParentOwned
    <3> QED BY <3>1, <3>2
  <2>3. S \ {id} # {}
    BY <1>2, <2>1, OutlineAssumption DEF Owned, TypeOK, Live
  <2> QED BY <2>2, <2>3 DEF Acyclic
<1>3. ASSUME NEW u \in User, NEW r \in Rem, DeleteRem(u, r)
      PROVE  FALSE
  <2>1. Subtree(r) \subseteq Live
    BY <1>3, SubtreeFacts DEF DeleteRem, Owned
  <2>2. /\ owner' = [x \in Rem |-> IF x \in Subtree(r) THEN Nil ELSE owner[x]]
        /\ parent' = [x \in Rem |-> IF x \in Subtree(r) THEN Nil ELSE parent[x]]
    BY <1>3 DEF DeleteRem
  <2>3. S \subseteq Live \ Subtree(r)
    BY <2>2 DEF Live
  <2> QED BY <2>2, <2>3 DEF Acyclic, Live
<1>4. ASSUME NEW u \in User, NEW r \in Rem, IndentRem(u, r)
      PROVE  FALSE
  <2>1. PICK prev \in PrecedingSiblings(u, r) :
          parent' = [parent EXCEPT ![r] = prev] /\ UNCHANGED owner
    BY <1>4 DEF IndentRem
  <2>2. S \subseteq Live
    BY <2>1 DEF Live
  <2>3. r \in S
    <3> SUFFICES ASSUME r \notin S PROVE FALSE
      OBVIOUS
    <3>1. \A x \in S : parent[x] \in S
      BY <2>1, <2>2 DEF TypeOK, Live
    <3> QED BY <2>2, <3>1 DEF Acyclic
  <2>4. prev \in S /\ prev # r /\ parent[prev] = parent[r]
    BY <2>1, <2>3 DEF PrecedingSiblings, Level, TypeOK, Live
  <2>5. parent[r] \in S
    BY <2>1, <2>2, <2>4 DEF TypeOK, Live
  <2> QED BY <2>1, <2>2, <2>5 DEF Acyclic, TypeOK, Live
<1>5. ASSUME NEW u \in User, NEW r \in Rem, OutdentRem(u, r)
      PROVE  FALSE
  <2> DEFINE p == parent[r]
  <2>1. /\ p \in Live
        /\ parent' = [parent EXCEPT ![r] = parent[p]]
        /\ UNCHANGED owner
    BY <1>5 DEF OutdentRem, Owned
  <2>2. S \subseteq Live
    BY <2>1 DEF Live
  <2>3. r \in S
    <3> SUFFICES ASSUME r \notin S PROVE FALSE
      OBVIOUS
    <3>1. \A x \in S : parent[x] \in S
      BY <2>1, <2>2 DEF TypeOK, Live
    <3> QED BY <2>2, <3>1 DEF Acyclic
  <2>4. parent[p] \in S
    BY <2>1, <2>3 DEF TypeOK
  <2>5. \A x \in S \union {p} : parent[x] \in S \union {p}
    BY <2>1, <2>2, <2>4 DEF TypeOK, Live
  <2> QED BY <2>1, <2>2, <2>5 DEF Acyclic
<1>6. ASSUME NEW u \in User, NEW r \in Rem, NEW c,
             \/ \E p \in Rem \union {Nil}, at \in Position \union {Nil} :
                  CreateRem(u, r, p, c, at)
             \/ \E prev \in Rem : CreateRemAfter(u, r, prev, c)
      PROVE  FALSE
  BY <1>2, <1>6, CreateIsInsert
<1>7. ASSUME NEW u \in User, NEW r \in Rem,
             \/ \E c \in Content, k \in BOOLEAN : UpdateRem(u, r, c, k)
             \/ ToggleCollapse(u, r)
             \/ QueryNeverEnds(u, r)
      PROVE  FALSE
  BY <1>1, <1>7 DEF UpdateRem, ToggleCollapse, QueryNeverEnds
<1>8. CASE EditorNext
  BY <1>3, <1>4, <1>5, <1>6, <1>7, <1>8 DEF EditorNext
<1> QED BY <1>1, <1>8 DEF vars

\* Inserting, editing, deleting, indenting and outdenting never close a cycle
\* of parents: an indented bullet goes below a sibling, which is not below it,
\* and an outdented one goes up.  (MoveRem does close cycles.)
THEOREM Acyclicity == EditorSpec => []Acyclic
<1>1. Init => TypeOK /\ ParentOwned /\ Acyclic
  BY InitTypes DEF Init, ParentOwned, Acyclic, Live
<1>2. TypeOK /\ ParentOwned /\ Acyclic /\ [EditorNext]_vars
        => (TypeOK /\ ParentOwned /\ Acyclic)'
  BY TypeStep, OwnedStep, AcyclicStep DEF Next
<1> QED BY <1>1, <1>2, PTL DEF EditorSpec

\* Without a cycle the chain of parents of every row ends at the root.
LEMMA AcyclicReaches ==
  TypeOK /\ ParentOwned /\ Acyclic => AncestorsReachRoot
<1> SUFFICES ASSUME TypeOK, ParentOwned, Acyclic, NEW r \in Live
             PROVE  ReachesRoot(r)
  BY DEF AncestorsReachRoot
<1> DEFINE A == {a \in Live : r \in Subtree(a)}
<1>1. PICK a \in A : parent[a] \notin A
  BY SubtreeFacts DEF Acyclic
<1>2. parent[a] = Nil
  <2> SUFFICES ASSUME parent[a] # Nil PROVE FALSE
    OBVIOUS
  <2> DEFINE p == parent[a]
  <2>1. p \in Live
    BY DEF ParentOwned, Live
  <2>2. a \in Subtree(p)
    BY <2>1, SubtreeFacts
  <2>3. Subtree(a) \subseteq Subtree(p)
    BY <2>1, <2>2, SubtreeFacts, SubtreeLeast
  <2> QED BY <1>1, <2>1, <2>3
<1> QED BY <1>1, <1>2 DEF ReachesRoot

\* What the comment of GetAncestors says of it holds under the operations of the
\* web client: whatever bullet is asked about, its parents lead up to the root,
\* and no recursive query over them runs for ever.  (MoveRem breaks it.)
THEOREM ChainsReachRoot == EditorSpec => []AncestorsReachRoot
<1>1. Init => TypeOK /\ ParentOwned /\ Acyclic
  BY InitTypes DEF Init, ParentOwned, Acyclic, Live
<1>2. TypeOK /\ ParentOwned /\ Acyclic /\ [EditorNext]_vars
        => (TypeOK /\ ParentOwned /\ Acyclic)'
  BY TypeStep, OwnedStep, AcyclicStep DEF Next
<1> QED BY <1>1, <1>2, AcyclicReaches, PTL DEF EditorSpec

----------------------------------------------------------------------------
(* Sort orders.                                                             *)

\* Putting r into a level at order o, with one step of room made at o, keeps
\* the orders of every level distinct.
LEMMA PlaceDistinct ==
  ASSUME TypeOK, DistinctOrders, NEW u \in User, NEW r \in Rem, NEW p, NEW o \in Int,
         NEW S \in SUBSET Level(u, p),
         \A q \in Level(u, p) : q \in S <=> sort[q] >= o,
         owner' = [owner EXCEPT ![r] = u],
         parent' = [parent EXCEPT ![r] = p],
         sort' = [Shifted(S) EXCEPT ![r] = o]
  PROVE  DistinctOrders'
<1> SUFFICES ASSUME NEW w \in User, NEW t \in Rem \union {Nil},
                    NEW x \in Level(w, t)', NEW y \in Level(w, t)', x # y
             PROVE  sort'[x] # sort'[y]
  BY DEF DistinctOrders
<1>1. \A q \in Rem : q # r => sort'[q] = IF q \in S THEN sort[q] + 1 ELSE sort[q]
  BY DEF Shifted, TypeOK
<1>2. sort'[r] = o
  BY DEF Shifted, TypeOK
<1>3. \A q \in Level(w, t)' : q # r => q \in Level(w, t) /\ q \in Rem
  BY DEF Level, Live, TypeOK
<1>4. r \in Level(w, t)' => w = u /\ t = p
  BY DEF Level, Live, TypeOK
<1>5. CASE x # r /\ y # r
  <2>1. sort[x] # sort[y] /\ sort[x] \in Int /\ sort[y] \in Int
    BY <1>3, <1>5 DEF DistinctOrders, TypeOK
  <2>2. CASE w = u /\ t = p
    BY <1>1, <1>3, <1>5, <2>1, <2>2
  <2>3. CASE ~(w = u /\ t = p)
    BY <1>1, <1>3, <1>5, <2>1, <2>3 DEF Level
  <2> QED BY <2>2, <2>3
<1>6. ASSUME NEW q \in Level(w, t)', q # r, r \in Level(w, t)'
      PROVE  sort'[q] # o
  BY <1>1, <1>3, <1>4, <1>6 DEF TypeOK
<1> QED BY <1>2, <1>5, <1>6

\* No operation of the web client gives two siblings one sort order.
LEMMA DistinctStep ==
  TypeOK /\ ParentOwned /\ DistinctOrders /\ [EditorNext]_vars => DistinctOrders'
<1> SUFFICES ASSUME TypeOK, ParentOwned, DistinctOrders, [EditorNext]_vars
             PROVE  DistinctOrders'
  OBVIOUS
<1>1. CASE UNCHANGED <<owner, parent, sort>>
  BY <1>1 DEF DistinctOrders, Level, Live
<1>2. ASSUME NEW u \in User, NEW id \in Rem, NEW c \in Content,
             \/ \E p \in Rem \union {Nil}, at \in Position \union {Nil} :
                  CreateRem(u, id, p, c, at)
             \/ \E prev \in Rem : CreateRemAfter(u, id, prev, c)
      PROVE  DistinctOrders'
  <2>1. PICK p \in Rem \union {Nil}, o \in Int, S \in SUBSET Rem :
          /\ S = {q \in Level(u, p) : sort[q] >= o}
          /\ Insert(u, id, p, c, o, S)
    BY <1>2, CreateIsInsert
  <2>2. S \in SUBSET Level(u, p) /\ \A q \in Level(u, p) : q \in S <=> sort[q] >= o
    BY <2>1
  <2>3. /\ owner' = [owner EXCEPT ![id] = u]
        /\ parent' = [parent EXCEPT ![id] = p]
        /\ sort' = [Shifted(S) EXCEPT ![id] = o]
    BY <2>1 DEF Insert
  <2> QED BY <2>2, <2>3, PlaceDistinct
<1>3. ASSUME NEW u \in User, NEW r \in Rem, DeleteRem(u, r)
      PROVE  DistinctOrders'
  <2>1. /\ owner' = [x \in Rem |-> IF x \in Subtree(r) THEN Nil ELSE owner[x]]
        /\ parent' = [x \in Rem |-> IF x \in Subtree(r) THEN Nil ELSE parent[x]]
        /\ sort' = [x \in Rem |-> IF x \in Subtree(r) THEN 0 ELSE sort[x]]
    BY <1>3 DEF DeleteRem
  <2>2. ASSUME NEW u1 \in User, NEW p \in Rem \union {Nil}, NEW q \in Level(u1, p)'
        PROVE  q \in Level(u1, p) /\ sort'[q] = sort[q]
    BY <2>1, <2>2 DEF Level, Live
  <2> QED BY <2>2 DEF DistinctOrders
<1>4. ASSUME NEW u \in User, NEW r \in Rem, IndentRem(u, r)
      PROVE  DistinctOrders'
  <2>1. PICK prev \in PrecedingSiblings(u, r) : \E o \in EndOf(u, prev) :
          /\ parent' = [parent EXCEPT ![r] = prev]
          /\ sort' = [sort EXCEPT ![r] = o]
          /\ UNCHANGED owner
    BY <1>4 DEF IndentRem
  <2>2. PICK o \in EndOf(u, prev) : sort' = [sort EXCEPT ![r] = o]
    BY <2>1
  <2>3. o \in Int /\ \A q \in Level(u, prev) : ~(sort[q] >= o)
    BY EndOfType DEF EndOf, TypeOK, Level, Live
  <2>4. sort' = [Shifted({}) EXCEPT ![r] = o] /\ owner' = [owner EXCEPT ![r] = u]
    <3>1. Shifted({}) = sort
      BY DEF Shifted, TypeOK
    <3>2. owner[r] = u
      BY <1>4 DEF IndentRem, Owned
    <3>3. owner' = [owner EXCEPT ![r] = u]
      BY <2>1, <3>2 DEF TypeOK
    <3> QED BY <2>2, <3>1, <3>3
  <2>5. {} \in SUBSET Level(u, prev) /\ \A q \in Level(u, prev) : q \in {} <=> sort[q] >= o
    BY <2>3
  <2>6. parent' = [parent EXCEPT ![r] = prev]
    BY <2>1
  <2> DEFINE S == {}
  <2>7. /\ S \in SUBSET Level(u, prev)
        /\ \A q \in Level(u, prev) : q \in S <=> sort[q] >= o
        /\ sort' = [Shifted(S) EXCEPT ![r] = o]
    BY <2>4, <2>5
  <2> HIDE DEF S
  <2> QED BY <2>3, <2>4, <2>6, <2>7, PlaceDistinct
<1>5. ASSUME NEW u \in User, NEW r \in Rem, OutdentRem(u, r)
      PROVE  DistinctOrders'
  <2> DEFINE p == parent[r]
             S == {q \in Level(u, parent[p]) : sort[q] > sort[p]}
  <2>1. /\ p \in Rem
        /\ parent' = [parent EXCEPT ![r] = parent[p]]
        /\ sort' = [Shifted(S) EXCEPT ![r] = sort[p] + 1]
        /\ owner' = [owner EXCEPT ![r] = u]
    BY <1>5 DEF OutdentRem, Owned, TypeOK, Live
  <2>2. /\ sort[p] + 1 \in Int
        /\ \A q \in Level(u, parent[p]) : q \in S <=> sort[q] >= sort[p] + 1
    BY <2>1 DEF TypeOK, Level, Live
  <2> QED BY <2>1, <2>2, PlaceDistinct
<1>6. CASE EditorNext
  BY <1>1, <1>2, <1>3, <1>4, <1>5, <1>6
  DEF EditorNext, UpdateRem, ToggleCollapse, QueryNeverEnds
<1> QED BY <1>1, <1>6 DEF vars

\* As long as nobody moves a bullet to an order of his choice, two siblings
\* never share a sort order: ORDER BY sort_order has one answer everywhere.
THEOREM OrdersDistinct == EditorSpec => []DistinctOrders
<1>1. Init => TypeOK /\ ParentOwned /\ DistinctOrders
  BY InitTypes DEF Init, ParentOwned, DistinctOrders, Level, Live
<1>2. TypeOK /\ ParentOwned /\ DistinctOrders /\ [EditorNext]_vars
        => (TypeOK /\ ParentOwned /\ DistinctOrders)'
  BY TypeStep, OwnedStep, DistinctStep DEF Next
<1> QED BY <1>1, <1>2, PTL DEF EditorSpec

----------------------------------------------------------------------------
(* List cards.                                                              *)

\* Only a row whose text asks for a list card has one.
CardsOnLists == \A r \in Rem : back[r] # <<>> => r \in Live /\ content[r] \in ListText

\* A rem that is re-synced has the card its row and its children call for, and
\* the others keep theirs.
LEMMA ResyncFresh ==
  ASSUME NEW S \in SUBSET Rem, Resync(S)
  PROVE  /\ \A r \in S : back'[r] \in Backs(r)'
         /\ \A r \in Rem \ S : back'[r] = back[r]
BY DEF Resync

\* ... and none when its row is gone or has another kind of text.
OtherBacksEmpty == \A r : (r \in Live /\ content[r] \in ListText) \/ Backs(r) = {<<>>}

LEMMA BacksOnLists == OtherBacksEmpty
BY DEF OtherBacksEmpty, Backs

\* The card of a bullet that gets a text of another kind goes with the old
\* text, and that of a deleted one with its row.
LEMMA ResyncOnLists ==
  ASSUME TypeOK, CardsOnLists, NEW S \in SUBSET Rem, Resync(S),
         \A r \in Live \ S : r \in Live' /\ content'[r] = content[r]
  PROVE  CardsOnLists'
<1>1. OtherBacksEmpty'
  BY BacksOnLists, PTL
<1>2. ASSUME NEW r \in Rem, back'[r] # <<>>
      PROVE  r \in Live' /\ content'[r] \in ListText
  <2>1. CASE r \in S
    BY <1>1, <1>2, <2>1, ResyncFresh DEF OtherBacksEmpty
  <2>2. CASE r \notin S
    BY <1>2, <2>2, ResyncFresh DEF CardsOnLists
  <2> QED BY <2>1, <2>2
<1> QED BY <1>2 DEF CardsOnLists

\* A list card that is not up to date after a step lost nothing in it: what
\* remains to show for one operation is that it re-syncs each list it takes a
\* child from.
LEMMA FreshOrEmpty ==
  ASSUME CardsOnLists, NEW S \in SUBSET Rem, Resync(S),
         NEW r \in Live, r \in Live', content'[r] = content[r],
         content[r] \in ListText => r \in S
  PROVE  back'[r] \in Backs(r)'
<1>1. CASE r \in S
  BY <1>1, ResyncFresh
<1>2. CASE r \notin S
  <2>1. back'[r] = back[r] /\ back[r] = <<>>
    BY <1>2, ResyncFresh DEF CardsOnLists, Live
  <2>2. OtherBacksEmpty'
    BY BacksOnLists, PTL
  <2> QED BY <1>2, <2>1, <2>2 DEF OtherBacksEmpty
<1> QED BY <1>1, <1>2

\* Whatever leaves with a subtree, its root aside, has its parent in it.
LEMMA SubtreeParents ==
  ASSUME NEW r \in Live, NEW x \in Subtree(r), x # r
  PROVE  parent[x] \in Subtree(r)
<1> DEFINE S == {r} \union {y \in Subtree(r) : parent[y] \in Subtree(r)}
<1>1. S \in SUBSET Live /\ r \in S
  BY SubtreeFacts
<1>2. S \subseteq Subtree(r)
  BY SubtreeFacts
<1>3. \A y \in Live : parent[y] \in S => y \in S
  BY <1>2, SubtreeFacts
<1> HIDE DEF S
<1>4. Subtree(r) \subseteq S
  BY <1>1, <1>3, SubtreeLeast
<1>5. x \in S
  BY <1>4
<1> QED BY <1>5 DEF S

\* A bullet is in the list of its parent and in no other.
LEMMA ChildHasParent == \A r, x : x \in Children(r) => x \in Live /\ parent[x] = r
BY DEF Children, Level

\* What one operation does to the list cards: see ListFreshOnLoss.
LostAreFresh ==
  \A r \in Live :
    (/\ r \in Live'
     /\ \E x \in Children(r) : x \notin Children(r)' \/ content'[x] # content[x])
    => back'[r] \in Backs(r)'

\* A new bullet takes nothing from a list.
LEMMA InsertCards ==
  ASSUME TypeOK, CardsOnLists, NEW u \in User, NEW id \in Rem, id \notin Live,
         NEW p \in Rem \union {Nil}, NEW c \in Content, NEW o, NEW T,
         Insert(u, id, p, c, o, T)
  PROVE  CardsOnLists' /\ LostAreFresh
<1>1. /\ owner' = [owner EXCEPT ![id] = u] /\ parent' = [parent EXCEPT ![id] = p]
      /\ content' = [content EXCEPT ![id] = c]
      /\ Resync({id} \union ListParent(p)) /\ {id} \union ListParent(p) \in SUBSET Rem
  BY DEF Insert, ListParent, Live
<1>2. Live' = Live \union {id}
  BY <1>1, OutlineAssumption DEF TypeOK, Live
<1>3. CardsOnLists'
  <2>1. \A r \in Live \ ({id} \union ListParent(p)) : r \in Live' /\ content'[r] = content[r]
    BY <1>1, <1>2 DEF TypeOK, Live
  <2> QED BY <1>1, <2>1, ResyncOnLists
<1>4. LostAreFresh
  <2> SUFFICES ASSUME NEW r \in Live, NEW x \in Children(r)
               PROVE  x \in Children(r)' /\ content'[x] = content[x]
    BY DEF LostAreFresh
  <2>1. x # id /\ r # id /\ x \in Rem /\ r \in Rem
    BY ChildHasParent DEF Live
  <2>2. owner'[r] = owner[r] /\ owner'[x] = owner[x] /\ parent'[x] = parent[x] /\ content'[x] = content[x]
    BY <1>1, <2>1 DEF TypeOK
  <2> QED BY <1>2, <2>2 DEF Children, Level
<1> QED BY <1>3, <1>4

\* A bullet that is rewritten has its parent's card made again.
LEMMA UpdateCards ==
  ASSUME TypeOK, CardsOnLists, NEW u \in User, NEW y \in Rem, NEW c \in Content,
         NEW k \in BOOLEAN, UpdateRem(u, y, c, k)
  PROVE  CardsOnLists' /\ LostAreFresh
<1>1. /\ content' = [content EXCEPT ![y] = c] /\ UNCHANGED <<owner, parent>>
      /\ y \in Live
  BY DEF UpdateRem, Owned
<1>2. Live' = Live /\ \A r : Children(r)' = Children(r)
  BY <1>1 DEF Live, Children, Level
<1>3. CASE c = content[y]
  <2>1. content' = content /\ back' = back
    BY <1>1, <1>3 DEF UpdateRem, TypeOK
  <2> QED BY <1>2, <2>1 DEF CardsOnLists, LostAreFresh
<1>4. CASE c # content[y]
  <2> DEFINE S == {y} \union ListParent(parent[y])
  <2>1. Resync(S) /\ S \in SUBSET Rem
    BY <1>4 DEF UpdateRem, ListParent, Live
  <2>2. \A r \in Live : r # y => content'[r] = content[r]
    BY <1>1 DEF TypeOK, Live
  <2>3. CardsOnLists'
    BY <1>2, <2>1, <2>2, ResyncOnLists
  <2>4. ASSUME NEW r \in Live, NEW x \in Children(r), content'[x] # content[x]
        PROVE  back'[r] \in Backs(r)'
    <3>1. x = y /\ parent[y] = r
      BY <2>2, <2>4, ChildHasParent
    <3>2. CASE r = y
      BY <2>1, <3>2, ResyncFresh
    <3>3. CASE r # y
      <4>1. content[r] \in ListText => r \in S
        BY <3>1 DEF ListParent
      <4>2. r \in Live' /\ content'[r] = content[r]
        BY <1>2, <2>2, <3>3
      <4> QED BY <2>1, <4>1, <4>2, FreshOrEmpty
    <3> QED BY <3>2, <3>3
  <2> QED BY <1>2, <2>3, <2>4 DEF LostAreFresh
<1> QED BY <1>3, <1>4

\* Of the bullets that go with a branch only its root leaves a list that stays.
LEMMA DeleteCards ==
  ASSUME TypeOK, CardsOnLists, NEW u \in User, NEW y \in Rem, DeleteRem(u, y)
  PROVE  CardsOnLists' /\ LostAreFresh
<1> DEFINE S == Subtree(y) \union ListParent(parent[y])
<1>1. /\ owner' = [x \in Rem |-> IF x \in Subtree(y) THEN Nil ELSE owner[x]]
      /\ parent' = [x \in Rem |-> IF x \in Subtree(y) THEN Nil ELSE parent[x]]
      /\ content' = [x \in Rem |-> IF x \in Subtree(y) THEN Nil ELSE content[x]]
      /\ Resync(S) /\ y \in Live
  BY DEF DeleteRem, Owned
<1>2. S \in SUBSET Rem
  BY SubtreeFacts, <1>1 DEF ListParent, Live
<1>3. Live' = Live \ Subtree(y)
  BY <1>1 DEF Live
<1>4. CardsOnLists'
  <2>1. \A r \in Live \ S : r \in Live' /\ content'[r] = content[r]
    BY <1>1, <1>3 DEF Live
  <2> QED BY <1>1, <1>2, <2>1, ResyncOnLists
<1>5. ASSUME NEW r \in Live, r \in Live', NEW x \in Children(r),
             x \notin Children(r)' \/ content'[x] # content[x]
      PROVE  back'[r] \in Backs(r)'
  <2>1. x \in Live /\ parent[x] = r /\ owner[x] = owner[r]
    BY DEF Children, Level
  <2>2. x \in Subtree(y)
    <3> SUFFICES ASSUME x \notin Subtree(y) PROVE FALSE
      OBVIOUS
    <3>1. r \notin Subtree(y) /\ x \in Rem /\ r \in Rem /\ x \in Live'
      BY <1>3, <1>5, <2>1 DEF Live
    <3>2. owner'[x] = owner[x] /\ parent'[x] = parent[x] /\ owner'[r] = owner[r] /\ content'[x] = content[x]
      BY <1>1, <3>1
    <3> QED BY <1>5, <2>1, <3>1, <3>2 DEF Children, Level
  <2>3. x = y
    BY <1>1, <1>3, <1>5, <2>1, <2>2, SubtreeParents
  <2>4. content[r] \in ListText => r \in S
    BY <2>1, <2>3 DEF ListParent
  <2>5. content'[r] = content[r]
    BY <1>1, <1>3, <1>5 DEF Live
  <2> QED BY <1>1, <1>2, <1>5, <2>4, <2>5, FreshOrEmpty
<1> QED BY <1>4, <1>5 DEF LostAreFresh

\* A bullet that is indented or outdented leaves one list.
LEMMA ReparentCards ==
  ASSUME TypeOK, CardsOnLists, NEW y \in Live, NEW q, parent' = [parent EXCEPT ![y] = q],
         UNCHANGED <<owner, content>>,
         NEW S \in SUBSET Rem, ListParent(parent[y]) \subseteq S, Resync(S)
  PROVE  CardsOnLists' /\ LostAreFresh
<1>1. Live' = Live
  BY DEF Live
<1>2. CardsOnLists'
  BY <1>1, ResyncOnLists
<1>3. ASSUME NEW r \in Live, NEW x \in Children(r), x \notin Children(r)'
      PROVE  back'[r] \in Backs(r)'
  <2>1. x = y
    <3> SUFFICES ASSUME x # y PROVE FALSE
      OBVIOUS
    <3>1. parent'[x] = parent[x]
      BY ChildHasParent DEF TypeOK, Live
    <3> QED BY <1>1, <1>3, <3>1 DEF Children, Level
  <2>2. parent[y] = r
    BY <2>1, ChildHasParent
  <2>3. content[r] \in ListText => r \in S
    BY <2>2 DEF ListParent
  <2> QED BY <1>1, <2>3, FreshOrEmpty
<1> QED BY <1>2, <1>3 DEF LostAreFresh

\* No operation leaves a card to a row without a list text, and, a move aside,
\* each one makes the list cards again that lose something by it.
LEMMA CardsStep ==
  TypeOK /\ ParentOwned /\ CardsOnLists /\ [Next]_vars
    => CardsOnLists' /\ [Move \/ LostAreFresh]_vars
<1> SUFFICES ASSUME TypeOK, ParentOwned, CardsOnLists, [Next]_vars
             PROVE  CardsOnLists' /\ [Move \/ LostAreFresh]_vars
  OBVIOUS
<1>1. CASE UNCHANGED vars
  BY <1>1 DEF CardsOnLists, vars, Live
<1>2. CASE Move
  BY <1>2 DEF Move, MoveRem, CardsOnLists, Live
<1>3. ASSUME NEW u \in User, NEW r \in Rem, NEW c \in Content,
             \/ \E p \in Rem \union {Nil}, at \in Position \union {Nil} :
                  CreateRem(u, r, p, c, at)
             \/ \E prev \in Rem : CreateRemAfter(u, r, prev, c)
      PROVE  CardsOnLists' /\ LostAreFresh
  <2>1. r \notin Live /\ \E p \in Rem \union {Nil}, o \in Int, S \in SUBSET Rem : Insert(u, r, p, c, o, S)
    BY <1>3, CreateIsInsert
  <2> QED BY <2>1, InsertCards
<1>4. ASSUME NEW u \in User, NEW r \in Rem, IndentRem(u, r)
      PROVE  CardsOnLists' /\ LostAreFresh
  <2>1. PICK prev \in PrecedingSiblings(u, r) :
          /\ parent' = [parent EXCEPT ![r] = prev]
          /\ UNCHANGED <<owner, content>>
          /\ Resync(ListParent(parent[r]) \union ListParent(prev))
    BY <1>4 DEF IndentRem
  <2>2. /\ r \in Live /\ ListParent(parent[r]) \union ListParent(prev) \in SUBSET Rem
    BY <1>4 DEF IndentRem, Owned, ListParent, Live
  <2> QED BY <2>1, <2>2, ReparentCards
<1>5. ASSUME NEW u \in User, NEW r \in Rem, OutdentRem(u, r)
      PROVE  CardsOnLists' /\ LostAreFresh
  <2>1. /\ parent' = [parent EXCEPT ![r] = parent[parent[r]]]
        /\ UNCHANGED <<owner, content>>
        /\ Resync(ListParent(parent[r]))
        /\ r \in Live /\ ListParent(parent[r]) \in SUBSET Rem
    BY <1>5 DEF OutdentRem, Owned, ListParent, Live
  <2> QED BY <2>1, ReparentCards
<1>6. ASSUME NEW u \in User, NEW r \in Rem, ToggleCollapse(u, r) \/ QueryNeverEnds(u, r)
      PROVE  CardsOnLists' /\ LostAreFresh
  <2>1. UNCHANGED <<owner, parent, content, back>>
    BY <1>6 DEF ToggleCollapse, QueryNeverEnds
  <2>2. Live' = Live /\ \A r1 : Children(r1)' = Children(r1)
    BY <2>1 DEF Live, Children, Level
  <2> QED BY <2>1, <2>2 DEF CardsOnLists, LostAreFresh
<1>7. CASE EditorNext
  <2>1. PICK u \in User, r \in Rem :
          \/ \E c \in Content :
               \/ \E p \in Rem \union {Nil}, at \in Position \union {Nil} : CreateRem(u, r, p, c, at)
               \/ \E prev \in Rem : CreateRemAfter(u, r, prev, c)
          \/ \E c \in Content, k \in BOOLEAN : UpdateRem(u, r, c, k)
          \/ DeleteRem(u, r) \/ IndentRem(u, r) \/ OutdentRem(u, r)
          \/ ToggleCollapse(u, r) \/ QueryNeverEnds(u, r)
    BY <1>7 DEF EditorNext
  <2> QED BY <1>3, <1>4, <1>5, <1>6, <2>1, UpdateCards, DeleteCards
<1> QED BY <1>1, <1>2, <1>7 DEF Next

\* Whatever the server is asked to do, a list card is right after a step that
\* takes a child from its rem, deletes one or rewrites one, a move aside: the
\* parent that loses a bullet is always among those that are re-synced, or has
\* no list card.
THEOREM ListsLoseNothingUnseen == Spec => ListFreshOnLoss
<1>1. Init => CardsOnLists
  BY DEF Init, CardsOnLists
<1>2. [Move \/ LostAreFresh]_vars
      => [Move \/ \A r \in Live :
            /\ r \in Live'
            /\ \E x \in Children(r) : x \notin Children(r)' \/ content'[x] # content[x]
            => back'[r] \in Backs(r)']_vars
  BY DEF LostAreFresh
<1> QED BY <1>1, <1>2, CardsStep, TypeCorrect, Ownership, PTL DEF Spec, ListFreshOnLoss

----------------------------------------------------------------------------
(* Lists in order.                                                          *)

\* No two rows of S have one key.
Separated(S, key) == \A q, r \in S : q # r => key[q] # key[r]

\* What a list of the rows of S in order is, element by element.
Listing(s, S, key) ==
  /\ s \in Seq(S) /\ Len(s) = Cardinality(S) /\ Len(s) \in Nat /\ DOMAIN s = 1..Len(s)
  /\ \A i \in DOMAIN s : s[i] \in S /\ key[s[i]] \in Int
  /\ \A i, j \in DOMAIN s : i # j => s[i] # s[j]
  /\ \A i, j \in DOMAIN s : i < j <=> key[s[i]] < key[s[j]]
  /\ \A x \in S : \E i \in DOMAIN s : s[i] = x

LEMMA InOrderFacts ==
  ASSUME NEW S \in SUBSET Rem, NEW key \in [Rem -> Int], Separated(S, key), NEW s \in InOrder(S, key)
  PROVE  Listing(s, S, key)
<1> DEFINE n == Cardinality(S)
<1>1. IsFiniteSet(S)
  BY OutlineAssumption, FS_Subset
<1>2. n \in Nat
  BY <1>1, FS_CardinalityType
<1>3. /\ s \in [1..n -> S] /\ \A i, j \in 1..n : i # j => s[i] # s[j]
      /\ \A i, j \in DOMAIN s : i < j => key[s[i]] <= key[s[j]]
  BY DEF InOrder, SetToSeqs
<1> HIDE DEF n
<1>4. DOMAIN s = 1..n /\ Len(s) = n /\ s \in Seq(S)
  BY <1>2, <1>3
<1>5. \A i \in DOMAIN s : s[i] \in S /\ key[s[i]] \in Int
  BY <1>3, <1>4
<1>6. \A i, j \in DOMAIN s : i < j <=> key[s[i]] < key[s[j]]
  <2> SUFFICES ASSUME NEW i \in DOMAIN s, NEW j \in DOMAIN s
               PROVE  i < j <=> key[s[i]] < key[s[j]]
    OBVIOUS
  <2>1. i \in Int /\ j \in Int /\ key[s[i]] \in Int /\ key[s[j]] \in Int
    BY <1>4, <1>5
  <2>2. i # j => key[s[i]] # key[s[j]]
    BY <1>3, <1>4, <1>5 DEF Separated
  <2>3. (i < j => key[s[i]] <= key[s[j]]) /\ (j < i => key[s[j]] <= key[s[i]])
    BY <1>3
  <2>4. CASE i < j
    BY <2>1, <2>2, <2>3, <2>4
  <2>5. CASE j < i
    BY <2>1, <2>2, <2>3, <2>5
  <2>6. CASE i = j
    BY <2>1, <2>6
  <2> QED BY <2>1, <2>4, <2>5, <2>6
<1>7. \A x \in S : \E i \in DOMAIN s : s[i] = x
  <2>1. s \in Injection(1..n, S)
    BY <1>3 DEF Injection, IsInjective
  <2>2. Cardinality(1..n) = Cardinality(S)
    BY <1>2, FS_Interval DEF n
  <2>3. s \in Surjection(1..n, S)
    BY <1>1, <2>1, <2>2, FS_Injection
  <2> QED BY <1>4, <2>3 DEF Surjection
<1> QED BY <1>2, <1>3, <1>4, <1>5, <1>6, <1>7 DEF n, Listing

\* ... and the other way round: a sequence that has each row of S, in order,
\* is such a list.
LEMMA InOrderIs ==
  ASSUME NEW S \in SUBSET Rem, NEW key \in [Rem -> Int],
         NEW n \in Nat, NEW s \in [1..n -> S],
         \A x \in S : \E i \in 1..n : s[i] = x,
         \A i, j \in 1..n : i < j => key[s[i]] < key[s[j]]
  PROVE  s \in InOrder(S, key)
<1>1. \A i, j \in 1..n : i # j => s[i] # s[j]
  <2> SUFFICES ASSUME NEW i \in 1..n, NEW j \in 1..n, i # j, s[i] = s[j] PROVE FALSE
    OBVIOUS
  <2>1. key[s[i]] \in Int
    OBVIOUS
  <2>2. i < j \/ j < i
    OBVIOUS
  <2> QED BY <2>1, <2>2
<1>2. s \in Bijection(1..n, S)
  BY <1>1 DEF Bijection, Injection, IsInjective, Surjection
<1>3. Cardinality(S) = n
  BY <1>2, FS_CountingElements DEF ExistsBijection
<1>4. \A i, j \in 1..n : i < j => key[s[i]] <= key[s[j]]
  <2> SUFFICES ASSUME NEW i \in 1..n, NEW j \in 1..n, i < j PROVE key[s[i]] <= key[s[j]]
    OBVIOUS
  <2>1. key[s[i]] \in Int /\ key[s[j]] \in Int /\ key[s[i]] < key[s[j]]
    OBVIOUS
  <2> QED BY <2>1
<1> QED BY <1>1, <1>3, <1>4 DEF InOrder, SetToSeqs

\* The rows of S before x.
Before(S, key, x) == {q \in S : key[q] < key[x]}

\* The place of a row in a list is one more than there are rows before it ...
LEMMA PlaceIs ==
  ASSUME NEW S \in SUBSET Rem, NEW key \in [Rem -> Int], Separated(S, key),
         NEW s \in InOrder(S, key), NEW i \in DOMAIN s
  PROVE  Cardinality(Before(S, key, s[i])) = i - 1
<1> DEFINE f == [j \in 1..(i - 1) |-> s[j]]
           B == Before(S, key, s[i])
<1>1. /\ Len(s) \in Nat /\ DOMAIN s = 1..Len(s)
      /\ \A j \in DOMAIN s : s[j] \in S
      /\ \A j, k \in DOMAIN s : j # k => s[j] # s[k]
      /\ \A j, k \in DOMAIN s : j < k <=> key[s[j]] < key[s[k]]
      /\ \A x \in S : \E j \in DOMAIN s : s[j] = x
  <2>1. Listing(s, S, key)
    BY InOrderFacts
  <2> QED BY <2>1 DEF Listing
<1>2. i \in Nat /\ i - 1 \in Nat /\ \A j \in 1..(i - 1) : j \in DOMAIN s /\ j < i
  BY <1>1
<1>3. \A j \in 1..(i - 1) : f[j] \in B
  BY <1>1, <1>2 DEF Before
<1>4. \A j, k \in 1..(i - 1) : j # k => f[j] # f[k]
  BY <1>1, <1>2
<1>5. \A x \in B : \E j \in 1..(i - 1) : f[j] = x
  <2> SUFFICES ASSUME NEW x \in B PROVE \E j \in 1..(i - 1) : f[j] = x
    OBVIOUS
  <2>1. PICK j \in DOMAIN s : s[j] = x
    BY <1>1 DEF Before
  <2>2. j < i /\ j \in 1..(i - 1)
    BY <1>1, <1>2, <2>1 DEF Before
  <2> QED BY <2>1, <2>2
<1>6. f \in Bijection(1..(i - 1), B)
  <2>1. f \in [1..(i - 1) -> B]
    BY <1>3
  <2> HIDE DEF f, B
  <2> QED BY <1>4, <1>5, <2>1 DEF Bijection, Injection, IsInjective, Surjection
<1> QED BY <1>2, <1>6, FS_CountingElements DEF ExistsBijection

\* ... so there is only one list ...
LEMMA OneOrder ==
  ASSUME NEW S \in SUBSET Rem, NEW key \in [Rem -> Int], Separated(S, key),
         NEW s \in InOrder(S, key), NEW t \in InOrder(S, key)
  PROVE  s = t
<1>0. Listing(s, S, key) /\ Listing(t, S, key)
  BY InOrderFacts, Zenon
<1>1. /\ s \in Seq(S) /\ Len(s) = Cardinality(S) /\ Len(s) \in Nat /\ DOMAIN s = 1..Len(s)
      /\ \A i \in DOMAIN s : s[i] \in S
  BY <1>0 DEF Listing
<1>2. /\ t \in Seq(S) /\ Len(t) = Cardinality(S) /\ Len(t) \in Nat /\ DOMAIN t = 1..Len(t)
      /\ \A x \in S : \E i \in DOMAIN t : t[i] = x
  BY <1>0 DEF Listing
<1>3. ASSUME NEW i \in DOMAIN s PROVE s[i] = t[i]
  <2>1. PICK j \in DOMAIN t : t[j] = s[i]
    BY <1>1, <1>2
  <2>2. i - 1 = j - 1
    BY <2>1, PlaceIs
  <2>3. i = j
    BY <1>1, <1>2, <2>2
  <2> QED BY <2>1, <2>3
<1> DEFINE n == Cardinality(S)
<1>4. s = [i \in 1..n |-> s[i]] /\ t = [i \in 1..n |-> t[i]]
  BY <1>1, <1>2
<1>5. \A i \in 1..n : s[i] = t[i]
  BY <1>1, <1>3
<1> HIDE DEF n
<1> QED BY <1>4, <1>5

\* ... and there is one: each row of S at the place that its rank gives it.
LEMMA SomeOrder ==
  ASSUME NEW S \in SUBSET Rem, NEW key \in [Rem -> Int], Separated(S, key)
  PROVE  \E s : s \in InOrder(S, key)
<1> DEFINE n == Cardinality(S)
           rank == [x \in S |-> Cardinality(Before(S, key, x)) + 1]
<1>1. IsFiniteSet(S)
  BY OutlineAssumption, FS_Subset
<1>2. n \in Nat
  BY <1>1, FS_CardinalityType
<1>3. \A x \in S : /\ Before(S, key, x) \in SUBSET S /\ x \notin Before(S, key, x)
                   /\ IsFiniteSet(Before(S, key, x))
                   /\ Cardinality(Before(S, key, x)) \in Nat
  <2> SUFFICES ASSUME NEW x \in S
               PROVE  /\ Before(S, key, x) \in SUBSET S /\ x \notin Before(S, key, x)
                      /\ IsFiniteSet(Before(S, key, x))
                      /\ Cardinality(Before(S, key, x)) \in Nat
    OBVIOUS
  <2>1. Before(S, key, x) \in SUBSET S /\ x \notin Before(S, key, x)
    <3>1. key[x] \in Int
      OBVIOUS
    <3> QED BY <3>1 DEF Before
  <2> QED BY <1>1, <2>1, FS_Subset, FS_CardinalityType
<1>4. \A x \in S : rank[x] \in 1..n
  <2> SUFFICES ASSUME NEW x \in S PROVE rank[x] \in 1..n
    OBVIOUS
  <2>1. Cardinality(Before(S, key, x)) <= n /\ Cardinality(Before(S, key, x)) # n
    BY <1>1, <1>3, FS_Subset
  <2> QED BY <1>2, <1>3, <2>1
<1>5. \A x, y \in S : key[x] < key[y] => rank[x] < rank[y]
  <2> SUFFICES ASSUME NEW x \in S, NEW y \in S, key[x] < key[y] PROVE rank[x] < rank[y]
    OBVIOUS
  <2>1. key[x] \in Int /\ key[y] \in Int /\ \A q \in S : key[q] \in Int
    OBVIOUS
  <2>2. Before(S, key, x) \in SUBSET Before(S, key, y)
    BY <2>1 DEF Before
  <2>3. x \in Before(S, key, y)
    BY DEF Before
  <2>4. Before(S, key, x) # Before(S, key, y)
    BY <1>3, <2>3
  <2>5. /\ Cardinality(Before(S, key, x)) <= Cardinality(Before(S, key, y))
        /\ Cardinality(Before(S, key, x)) # Cardinality(Before(S, key, y))
    BY <1>3, <2>2, <2>4, FS_Subset
  <2> QED BY <1>3, <2>5
<1> HIDE DEF rank, n
<1>6. \A x, y \in S : x # y => rank[x] # rank[y] /\ (rank[x] < rank[y] => key[x] < key[y])
  <2> SUFFICES ASSUME NEW x \in S, NEW y \in S, x # y
               PROVE  rank[x] # rank[y] /\ (rank[x] < rank[y] => key[x] < key[y])
    OBVIOUS
  <2>1. key[x] \in Int /\ key[y] \in Int /\ key[x] # key[y] /\ rank[x] \in Int /\ rank[y] \in Int
    BY <1>2, <1>4 DEF Separated
  <2>2. key[x] < key[y] \/ key[y] < key[x]
    BY <2>1
  <2>3. CASE key[x] < key[y]
    BY <1>5, <2>1, <2>3
  <2>4. CASE key[y] < key[x]
    BY <1>5, <2>1, <2>4
  <2> QED BY <2>2, <2>3, <2>4
<1>7. \A i \in 1..n : \E x \in S : rank[x] = i
  <2>1. rank \in [S -> 1..n]
    <3>1. rank = [x \in S |-> rank[x]]
      BY DEF rank
    <3> QED BY <1>4, <3>1
  <2>2. rank \in Injection(S, 1..n)
    BY <1>6, <2>1 DEF Injection, IsInjective
  <2>3. IsFiniteSet(1..n) /\ Cardinality(S) = Cardinality(1..n)
    BY <1>2, FS_Interval DEF n
  <2>4. rank \in Surjection(S, 1..n)
    BY <2>2, <2>3, FS_Injection
  <2> QED BY <2>4 DEF Surjection
<1> DEFINE s == [i \in 1..n |-> CHOOSE x \in S : rank[x] = i]
<1>8. \A i \in 1..n : s[i] \in S /\ rank[s[i]] = i
  BY <1>7
<1>9. s \in [1..n -> S]
  BY <1>8
<1> HIDE DEF s
<1>10. \A x \in S : \E i \in 1..n : s[i] = x
  BY <1>4, <1>6, <1>8
<1>11. \A i, j \in 1..n : i < j => key[s[i]] < key[s[j]]
  <2> SUFFICES ASSUME NEW i \in 1..n, NEW j \in 1..n, i < j PROVE key[s[i]] < key[s[j]]
    OBVIOUS
  <2>1. i # j /\ s[i] \in S /\ s[j] \in S /\ rank[s[i]] = i /\ rank[s[j]] = j
    BY <1>8
  <2> QED BY <1>6, <2>1
<1> QED BY <1>2, <1>9, <1>10, <1>11, InOrderIs

\* What one list after another is.
Join(t, a, b, T) ==
  /\ t \in Seq(T) /\ Len(t) = Len(a) + Len(b)
  /\ \A j \in 1..Len(a) : t[j] = a[j]
  /\ \A j \in 1..Len(b) : t[Len(a) + j] = b[j]

LEMMA Joined ==
  ASSUME NEW T, NEW a \in Seq(T), NEW b \in Seq(T)
  PROVE  Join(a \o b, a, b, T)
<1>1. /\ a \o b \in Seq(T) /\ Len(a \o b) = Len(a) + Len(b)
      /\ \A j \in 1..Len(a) + Len(b) : (a \o b)[j] = IF j <= Len(a) THEN a[j] ELSE b[j - Len(a)]
  BY ConcatProperties
<1>2. Len(a) \in Nat /\ Len(b) \in Nat
  OBVIOUS
<1>3. \A j \in 1..Len(a) : (a \o b)[j] = a[j]
  BY <1>1, <1>2
<1>4. ASSUME NEW j \in 1..Len(b) PROVE (a \o b)[Len(a) + j] = b[j]
  <2>1. Len(a) + j \in 1..Len(a) + Len(b) /\ ~ (Len(a) + j <= Len(a)) /\ (Len(a) + j) - Len(a) = j
    BY <1>2
  <2> QED BY <1>1, <2>1
<1> QED BY <1>1, <1>3, <1>4 DEF Join

\* What is taken out of a list, and put into one.
Removal(t, s, i, T) ==
  /\ t \in [1..(Len(s) - 1) -> T] /\ Len(t) = Len(s) - 1
  /\ \A j \in 1..(Len(s) - 1) : t[j] = IF j < i THEN s[j] ELSE s[j + 1]

LEMMA RemovedAt ==
  ASSUME NEW T, NEW s \in Seq(T), NEW i \in 1..Len(s)
  PROVE  Removal(Lists!RemoveAt(s, i), s, i, T)
<1> DEFINE a == SubSeq(s, 1, i - 1)
           b == SubSeq(s, i + 1, Len(s))
<1>1. Len(s) \in Nat /\ i \in Nat /\ 1 <= i /\ i <= Len(s)
  OBVIOUS
<1>2. a \in Seq(T) /\ Len(a) = i - 1 /\ \A j \in 1..(i - 1) : a[j] = s[j]
  BY <1>1
<1>3. b \in Seq(T) /\ Len(b) = Len(s) - i /\ \A j \in 1..(Len(s) - i) : b[j] = s[i + j]
  <2>1. b = [j \in 1..(Len(s) - i) |-> s[i + j]]
    BY <1>1
  <2> HIDE DEF b
  <2> QED BY <1>1, <2>1
<1> HIDE DEF a, b
<1> DEFINE t == a \o b
<1>4. /\ t \in Seq(T) /\ Len(t) = Len(a) + Len(b)
      /\ \A j \in 1..Len(a) : t[j] = a[j]
      /\ \A j \in 1..Len(b) : t[Len(a) + j] = b[j]
  <2>1. a \in Seq(T) /\ b \in Seq(T)
    BY <1>2, <1>3
  <2>2. Join(t, a, b, T)
    BY <2>1, Joined
  <2> HIDE DEF t
  <2> QED BY <2>2 DEF Join
<1> HIDE DEF t
<1>5. ASSUME NEW j \in 1..(Len(s) - 1)
      PROVE  t[j] = IF j < i THEN s[j] ELSE s[j + 1]
  <2>1. CASE j < i
    BY <1>1, <1>2, <1>4, <2>1
  <2>2. CASE ~ (j < i)
    <3> DEFINE k == j - Len(a)
    <3>1. k \in 1..Len(b) /\ i + k = j + 1 /\ Len(a) + k = j
      BY <1>1, <1>2, <1>3, <2>2
    <3> HIDE DEF k
    <3>2. t[j] = b[k] /\ b[k] = s[i + k]
      BY <1>3, <1>4, <3>1
    <3> QED BY <2>2, <3>1, <3>2
  <2> QED BY <2>1, <2>2
<1>6. Lists!RemoveAt(s, i) = t
  BY DEF Lists!RemoveAt, a, b, t
<1>7. Len(t) = Len(s) - 1 /\ t \in [1..(Len(s) - 1) -> T]
  BY <1>1, <1>2, <1>3, <1>4
<1> QED BY <1>5, <1>6, <1>7 DEF Removal

Insertion(t, s, i, x, T) ==
  /\ t \in Seq(T) /\ Len(t) = Len(s) + 1
  /\ \A j \in 1..(Len(s) + 1) : t[j] = IF j < i THEN s[j] ELSE IF j = i THEN x ELSE s[j - 1]

LEMMA InsertedAt ==
  ASSUME NEW T, NEW s \in Seq(T), NEW i \in 1..(Len(s) + 1), NEW x \in T
  PROVE  Insertion(Lists!InsertAt(s, i, x), s, i, x, T)
<1> DEFINE a == SubSeq(s, 1, i - 1)
           b == SubSeq(s, i, Len(s))
           m == <<x>>
<1>1. Len(s) \in Nat /\ i \in Nat /\ 1 <= i /\ i <= Len(s) + 1
  OBVIOUS
<1>2. a \in Seq(T) /\ Len(a) = i - 1 /\ \A j \in 1..(i - 1) : a[j] = s[j]
  BY <1>1
<1>3. b \in Seq(T) /\ Len(b) = Len(s) + 1 - i /\ \A j \in 1..(Len(s) + 1 - i) : b[j] = s[i + j - 1]
  <2>1. b = [j \in 1..(Len(s) + 1 - i) |-> s[i + j - 1]]
    BY <1>1
  <2> HIDE DEF b
  <2>2. \A j \in 1..(Len(s) + 1 - i) : s[i + j - 1] \in T
    BY <1>1
  <2> QED BY <1>1, <2>1, <2>2
<1>4. m \in Seq(T) /\ Len(m) = 1 /\ m[1] = x
  OBVIOUS
<1> HIDE DEF a, b, m
<1> DEFINE c == a \o m
<1>5. /\ c \in Seq(T) /\ Len(c) = Len(a) + Len(m)
      /\ \A j \in 1..Len(a) : c[j] = a[j]
      /\ \A j \in 1..Len(m) : c[Len(a) + j] = m[j]
  <2>1. a \in Seq(T) /\ m \in Seq(T)
    BY <1>2, <1>4
  <2>2. Join(c, a, m, T)
    BY <2>1, Joined
  <2> HIDE DEF c
  <2> QED BY <2>2 DEF Join
<1> HIDE DEF c
<1>6. c \in Seq(T) /\ Len(c) = i /\ (\A j \in 1..(i - 1) : c[j] = s[j]) /\ c[i] = x
  <2>1. 1 \in 1..Len(m) /\ Len(a) + 1 = i /\ Len(a) + Len(m) = i
    BY <1>1, <1>2, <1>4
  <2> QED BY <1>2, <1>4, <1>5, <2>1
<1> DEFINE t == c \o b
<1>7. /\ t \in Seq(T) /\ Len(t) = Len(c) + Len(b)
      /\ \A j \in 1..Len(c) : t[j] = c[j]
      /\ \A j \in 1..Len(b) : t[Len(c) + j] = b[j]
  <2>1. c \in Seq(T) /\ b \in Seq(T)
    BY <1>6, <1>3
  <2>2. Join(t, c, b, T)
    BY <2>1, Joined
  <2> HIDE DEF t
  <2> QED BY <2>2 DEF Join
<1> HIDE DEF t
<1>8. ASSUME NEW j \in 1..(Len(s) + 1)
      PROVE  t[j] = IF j < i THEN s[j] ELSE IF j = i THEN x ELSE s[j - 1]
  <2>1. CASE j < i
    BY <1>1, <1>6, <1>7, <2>1
  <2>2. CASE j = i
    BY <1>1, <1>6, <1>7, <2>2
  <2>3. CASE i < j
    <3> DEFINE k == j - i
    <3>1. k \in 1..Len(b) /\ i + k - 1 = j - 1 /\ i + k = j /\ k \in 1..(Len(s) + 1 - i)
      BY <1>1, <1>3, <2>3
    <3> HIDE DEF k
    <3>2. t[j] = b[k] /\ b[k] = s[i + k - 1]
      BY <1>3, <1>6, <1>7, <3>1
    <3>3. j # i /\ ~ (j < i)
      BY <1>1, <2>3
    <3> QED BY <3>1, <3>2, <3>3
  <2> QED BY <1>1, <2>1, <2>2, <2>3
<1>9. Lists!InsertAt(s, i, x) = t
  BY DEF Lists!InsertAt, a, b, c, m, t
<1>10. Len(t) = Len(s) + 1
  BY <1>1, <1>3, <1>6, <1>7
<1> QED BY <1>7, <1>8, <1>9, <1>10 DEF Insertion

\* What has been taken out can be put back.
LEMMA PutBack ==
  ASSUME NEW T, NEW s \in Seq(T), NEW i \in 1..Len(s)
  PROVE  /\ s = Lists!InsertAt(Lists!RemoveAt(s, i), i, s[i])
         /\ Len(Lists!RemoveAt(s, i)) = Len(s) - 1
<1> DEFINE r == Lists!RemoveAt(s, i)
           t == Lists!InsertAt(r, i, s[i])
<1>1. Len(s) \in Nat /\ s[i] \in T
  OBVIOUS
<1>2. /\ r \in [1..(Len(s) - 1) -> T] /\ Len(r) = Len(s) - 1
      /\ \A j \in 1..(Len(s) - 1) : r[j] = IF j < i THEN s[j] ELSE s[j + 1]
  <2>1. Removal(r, s, i, T)
    BY RemovedAt
  <2> HIDE DEF r
  <2> QED BY <2>1 DEF Removal
<1>3. r \in Seq(T) /\ i \in 1..(Len(r) + 1) /\ Len(r) + 1 = Len(s)
  BY <1>1, <1>2
<1> HIDE DEF r
<1>4. /\ t \in Seq(T) /\ Len(t) = Len(r) + 1
      /\ \A j \in 1..(Len(r) + 1) : t[j] = IF j < i THEN r[j] ELSE IF j = i THEN s[i] ELSE r[j - 1]
  <2>1. Insertion(t, r, i, s[i], T)
    BY <1>1, <1>3, InsertedAt
  <2> HIDE DEF t
  <2> QED BY <2>1 DEF Insertion
<1> HIDE DEF t
<1>5. ASSUME NEW j \in 1..Len(s) PROVE t[j] = s[j]
  <2>1. CASE j < i
    <3>1. j \in 1..(Len(s) - 1) /\ j \in 1..(Len(r) + 1)
      BY <1>1, <1>3, <2>1
    <3>2. t[j] = r[j] /\ r[j] = s[j]
      BY <1>2, <1>4, <2>1, <3>1
    <3> QED BY <3>2
  <2>2. CASE j = i
    <3>1. j \in 1..(Len(r) + 1) /\ ~ (j < i)
      BY <1>1, <1>3, <2>2
    <3> QED BY <1>4, <2>2, <3>1
  <2>3. CASE i < j
    <3>1. j - 1 \in 1..(Len(s) - 1) /\ ~ (j - 1 < i) /\ (j - 1) + 1 = j
      BY <1>1, <2>3
    <3>2. t[j] = r[j - 1]
      BY <1>1, <1>3, <1>4, <2>3
    <3>3. r[j - 1] = s[j]
      BY <1>2, <3>1
    <3> QED BY <3>2, <3>3
  <2> QED BY <1>1, <2>1, <2>2, <2>3
<1>6. t = s
  BY <1>1, <1>3, <1>4, <1>5
<1> QED BY <1>2, <1>6 DEF r, t

\* A list stays in order when the keys do.
LEMMA OrderKept ==
  ASSUME NEW S \in SUBSET Rem, NEW key \in [Rem -> Int], Separated(S, key), NEW s \in InOrder(S, key),
         NEW key2 \in [Rem -> Int], \A q, r \in S : key[q] < key[r] => key2[q] < key2[r]
  PROVE  s \in InOrder(S, key2)
<1>1. Listing(s, S, key)
  BY InOrderFacts
<1> DEFINE n == Len(s)
<1>2. n \in Nat /\ s \in [1..n -> S] /\ \A x \in S : \E i \in 1..n : s[i] = x
  BY <1>1 DEF Listing
<1>3. \A i, j \in 1..n : i < j => key2[s[i]] < key2[s[j]]
  BY <1>1 DEF Listing
<1> HIDE DEF n
<1> QED BY <1>2, <1>3, InOrderIs

\* A list without one of its rows is a list of the others.
LEMMA OrderWithout ==
  ASSUME NEW S \in SUBSET Rem, NEW key \in [Rem -> Int], Separated(S, key), NEW s \in InOrder(S, key),
         NEW i \in DOMAIN s, NEW key2 \in [Rem -> Int],
         \A q, r \in S \ {s[i]} : key[q] < key[r] => key2[q] < key2[r]
  PROVE  Lists!RemoveAt(s, i) \in InOrder(S \ {s[i]}, key2)
<1>1. Listing(s, S, key)
  BY InOrderFacts
<1> DEFINE n == Len(s) - 1
           t == Lists!RemoveAt(s, i)
           T == S \ {s[i]}
<1>2. s \in Seq(S) /\ Len(s) \in Nat /\ i \in 1..Len(s) /\ n \in Nat /\ DOMAIN s = 1..Len(s) /\ i \in Nat
  BY <1>1 DEF Listing
<1>3. Removal(t, s, i, S)
  <2>1. s \in Seq(S) /\ i \in 1..Len(s)
    BY <1>2
  <2> QED BY <2>1, RemovedAt
<1> HIDE DEF t
<1>4. \A j \in 1..n : /\ j \in DOMAIN s /\ j + 1 \in DOMAIN s /\ j \in Int
                      /\ j < i => t[j] = s[j] /\ j # i
                      /\ ~ (j < i) => t[j] = s[j + 1] /\ j + 1 # i
  <2> SUFFICES ASSUME NEW j \in 1..n
               PROVE  /\ j \in DOMAIN s /\ j + 1 \in DOMAIN s /\ j \in Int
                      /\ j < i => t[j] = s[j] /\ j # i
                      /\ ~ (j < i) => t[j] = s[j + 1] /\ j + 1 # i
    OBVIOUS
  <2>1. /\ j \in DOMAIN s /\ j + 1 \in DOMAIN s /\ j \in Int
        /\ j < i => j # i
        /\ ~ (j < i) => j + 1 # i
    BY <1>2
  <2>2. t[j] = IF j < i THEN s[j] ELSE s[j + 1]
    BY <1>3 DEF Removal
  <2> QED BY <2>1, <2>2
<1>5. t \in [1..n -> T]
  <2>1. ASSUME NEW j \in 1..n PROVE t[j] \in T
    <3>1. PICK k \in DOMAIN s : k # i /\ t[j] = s[k]
      BY <1>4
    <3> QED BY <1>1, <3>1 DEF Listing
  <2>2. t = [j \in 1..n |-> t[j]]
    BY <1>3 DEF Removal
  <2> QED BY <2>1, <2>2
<1>6. ASSUME NEW x \in T PROVE \E j \in 1..n : t[j] = x
  <2>1. PICK k \in DOMAIN s : s[k] = x /\ k # i
    BY <1>1 DEF Listing
  <2>2. CASE k < i
    <3>1. k \in 1..n
      BY <1>2, <2>2
    <3>2. t[k] = s[k]
      BY <1>4, <2>2, <3>1
    <3> QED BY <2>1, <3>1, <3>2
  <2>3. CASE i < k
    <3>1. k - 1 \in 1..n /\ ~ (k - 1 < i) /\ (k - 1) + 1 = k
      <4>1. i \in Nat /\ 1 <= i /\ k \in Nat /\ k <= Len(s) /\ Len(s) \in Nat
        BY <1>2
      <4> QED BY <2>3, <4>1
    <3>2. t[k - 1] = s[k]
      BY <1>4, <3>1
    <3> QED BY <2>1, <3>1, <3>2
  <2>4. k < i \/ i < k
    BY <1>2, <2>1
  <2> QED BY <2>2, <2>3, <2>4
<1>7. ASSUME NEW j \in 1..n, NEW k \in 1..n, j < k PROVE key2[t[j]] < key2[t[k]]
  <2> DEFINE At(m) == IF m < i THEN m ELSE m + 1
  <2>1. \A m \in 1..n : At(m) \in DOMAIN s /\ t[m] = s[At(m)]
    BY <1>4
  <2>2. At(j) < At(k)
    <3>1. i \in Int /\ j \in Int /\ k \in Int
      BY <1>2
    <3> QED BY <1>7, <3>1
  <2> HIDE DEF At
  <2>3. key[s[At(j)]] < key[s[At(k)]]
    BY <1>1, <2>1, <2>2 DEF Listing
  <2>4. key[t[j]] < key[t[k]]
    BY <2>1, <2>3
  <2>5. t[j] \in T /\ t[k] \in T
    BY <1>5
  <2> QED BY <2>4, <2>5
<1> HIDE DEF n
<1>8. T \in SUBSET Rem
  OBVIOUS
<1> HIDE DEF T
<1> QED
  <2>1. t \in InOrder(T, key2)
    BY <1>2, <1>5, <1>6, <1>7, <1>8, InOrderIs
  <2> QED BY <2>1 DEF t, T

----------------------------------------------------------------------------
(* The lists of the outline.                                                *)

Good == TypeOK /\ ParentOwned /\ Acyclic /\ DistinctOrders

\* Each list has the rows of its level, in order.
Listed ==
  /\ sort \in [Rem -> Int]
  /\ \A u \in User, p \in Rem \union {Nil} :
       /\ Level(u, p) \in SUBSET Rem /\ Separated(Level(u, p), sort)
       /\ lists[<<u, p>>] \in InOrder(Level(u, p), sort)
       /\ Listing(lists[<<u, p>>], Level(u, p), sort)

LEMMA GoodListed == Good => Listed
<1> SUFFICES ASSUME Good, NEW u \in User, NEW p \in Rem \union {Nil}
             PROVE  /\ Level(u, p) \in SUBSET Rem /\ Separated(Level(u, p), sort)
                    /\ lists[<<u, p>>] \in InOrder(Level(u, p), sort)
                    /\ Listing(lists[<<u, p>>], Level(u, p), sort)
  BY DEF Listed, Good, TypeOK
<1>1. sort \in [Rem -> Int] /\ Level(u, p) \in SUBSET Rem /\ Separated(Level(u, p), sort)
  BY DEF Good, TypeOK, Level, Live, Separated, DistinctOrders
<1>2. lists[<<u, p>>] = Sorted(u, p)
  BY DEF lists
<1>3. lists[<<u, p>>] \in InOrder(Level(u, p), sort)
  BY <1>1, <1>2, SomeOrder DEF Sorted
<1> QED BY <1>1, <1>3, InOrderFacts

\* A step leaves the rows of S in their order.
SameOrder(S) == \A q, x \in S : sort[q] < sort[x] <=> sort'[q] < sort'[x]

\* A list that keeps its rows in their order stays as it is ...
LEMMA SameList ==
  ASSUME Listed, Listed', NEW u \in User, NEW p \in Rem \union {Nil},
         Level(u, p)' = Level(u, p), SameOrder(Level(u, p))
  PROVE  lists'[<<u, p>>] = lists[<<u, p>>]
<1> DEFINE S == Level(u, p)
           s == lists[<<u, p>>]
           t == lists'[<<u, p>>]
<1>1. /\ S \in SUBSET Rem /\ sort \in [Rem -> Int] /\ Separated(S, sort) /\ s \in InOrder(S, sort)
      /\ \A q, x \in S : sort[q] < sort[x] => sort'[q] < sort'[x]
  BY DEF Listed, SameOrder
<1>2. sort' \in [Rem -> Int] /\ Separated(S, sort') /\ t \in InOrder(S, sort')
  BY DEF Listed
<1> HIDE DEF S, s, t
<1>3. s \in InOrder(S, sort')
  BY <1>1, <1>2, OrderKept
<1>4. t = s
  BY <1>1, <1>2, <1>3, OneOrder
<1> QED BY <1>4 DEF s, t

\* ... one that loses a row closes up ...
LEMMA LosesOne ==
  ASSUME Listed, Listed', NEW u \in User, NEW p \in Rem \union {Nil}, NEW r \in Level(u, p),
         Level(u, p)' = Level(u, p) \ {r}, SameOrder(Level(u, p) \ {r})
  PROVE  \E i \in DOMAIN lists[<<u, p>>] :
           /\ lists[<<u, p>>][i] = r
           /\ lists'[<<u, p>>] = Lists!RemoveAt(lists[<<u, p>>], i)
<1> DEFINE S == Level(u, p)
           s == lists[<<u, p>>]
           t == lists'[<<u, p>>]
<1>1. /\ S \in SUBSET Rem /\ sort \in [Rem -> Int] /\ Separated(S, sort) /\ s \in InOrder(S, sort)
      /\ Listing(s, S, sort) /\ r \in S
      /\ \A q, x \in S \ {r} : sort[q] < sort[x] => sort'[q] < sort'[x]
  BY DEF Listed, SameOrder
<1>2. sort' \in [Rem -> Int] /\ Separated(S \ {r}, sort') /\ t \in InOrder(S \ {r}, sort')
  BY DEF Listed
<1> HIDE DEF S, s, t
<1>3. PICK i \in DOMAIN s : s[i] = r
  BY <1>1 DEF Listing
<1>4. Lists!RemoveAt(s, i) \in InOrder(S \ {r}, sort')
  <2>1. Lists!RemoveAt(s, i) \in InOrder(S \ {s[i]}, sort')
    BY <1>1, <1>2, <1>3, OrderWithout
  <2> QED BY <1>3, <2>1
<1>5. t = Lists!RemoveAt(s, i)
  <2>1. S \ {r} \in SUBSET Rem
    BY <1>1
  <2> DEFINE R == S \ {r}
             w == Lists!RemoveAt(s, i)
  <2>2. R \in SUBSET Rem /\ sort' \in [Rem -> Int] /\ Separated(R, sort')
        /\ t \in InOrder(R, sort') /\ w \in InOrder(R, sort')
    BY <1>2, <1>4, <2>1
  <2> HIDE DEF R, w
  <2>3. t = w
    BY <2>2, OneOrder
  <2> QED BY <2>3 DEF w
<1> QED BY <1>3, <1>5 DEF s, t

\* ... and one that gets a row has it inserted.
LEMMA GainsOne ==
  ASSUME Listed, Listed', NEW u \in User, NEW p \in Rem \union {Nil}, NEW r \in Rem,
         r \notin Level(u, p), Level(u, p)' = Level(u, p) \union {r}, SameOrder(Level(u, p))
  PROVE  \E i \in 1..(Len(lists[<<u, p>>]) + 1) :
           /\ lists'[<<u, p>>] = Lists!InsertAt(lists[<<u, p>>], i, r)
           /\ i \in DOMAIN lists'[<<u, p>>] /\ lists'[<<u, p>>][i] = r
           /\ lists[<<u, p>>] = Lists!RemoveAt(lists'[<<u, p>>], i)
           /\ Len(lists'[<<u, p>>]) = Len(lists[<<u, p>>]) + 1
<1> DEFINE S == Level(u, p)
           T == S \union {r}
           s == lists[<<u, p>>]
           t == lists'[<<u, p>>]
<1>1. /\ S \in SUBSET Rem /\ sort \in [Rem -> Int] /\ Separated(S, sort) /\ s \in InOrder(S, sort)
      /\ Listing(s, S, sort)
      /\ \A q, x \in S : sort'[q] < sort'[x] => sort[q] < sort[x]
  BY DEF Listed, SameOrder
<1>2. /\ T \in SUBSET Rem /\ sort' \in [Rem -> Int] /\ Separated(T, sort') /\ t \in InOrder(T, sort')
      /\ Listing(t, T, sort')
  BY DEF Listed
<1>3. T \ {r} = S /\ r \in T
  OBVIOUS
<1> HIDE DEF S, T, s, t
<1>4. PICK i \in DOMAIN t : t[i] = r
  BY <1>2, <1>3 DEF Listing
<1> DEFINE w == Lists!RemoveAt(t, i)
<1>5. w \in InOrder(S, sort)
  <2>1. T \ {t[i]} = S
    BY <1>3, <1>4
  <2>2. Lists!RemoveAt(t, i) \in InOrder(T \ {t[i]}, sort)
    BY <1>1, <1>2, <2>1, OrderWithout
  <2> QED BY <2>1, <2>2
<1>6. t = Lists!InsertAt(w, i, t[i]) /\ Len(w) = Len(t) - 1
  <2>1. t \in Seq(T) /\ i \in 1..Len(t)
    BY <1>2 DEF Listing
  <2> QED BY <2>1, PutBack
<1> HIDE DEF w
<1>7. w = s
  BY <1>1, <1>5, OneOrder
<1>8. Len(t) = Len(s) + 1 /\ i \in 1..(Len(s) + 1)
  <2>1. Len(t) \in Nat /\ DOMAIN t = 1..Len(t) /\ Len(s) = Len(t) - 1
    BY <1>2, <1>6, <1>7 DEF Listing
  <2> QED BY <2>1
<1> QED BY <1>4, <1>6, <1>7, <1>8 DEF s, t, w

\* Two rows of a list with none between their orders are neighbours.
LEMMA Neighbours ==
  ASSUME NEW S, NEW key, NEW s, Listing(s, S, key), NEW h \in DOMAIN s, NEW i \in DOMAIN s,
         key[s[h]] < key[s[i]],
         \A x \in S : ~ (key[s[h]] < key[x] /\ key[x] < key[s[i]])
  PROVE  h = i - 1 /\ i > 1
<1>1. Len(s) \in Nat /\ DOMAIN s = 1..Len(s) /\ h < i
  BY DEF Listing
<1>2. CASE h < i - 1
  <2>1. h + 1 \in DOMAIN s /\ h < h + 1 /\ h + 1 < i
    BY <1>1, <1>2
  <2>2. s[h + 1] \in S /\ key[s[h]] < key[s[h + 1]] /\ key[s[h + 1]] < key[s[i]]
    BY <2>1 DEF Listing
  <2> QED BY <2>2
<1> QED BY <1>1, <1>2

\* What is inserted after the last row is appended.
LEMMA InsertedLast ==
  ASSUME NEW T, NEW s \in Seq(T), NEW x \in T
  PROVE  Lists!InsertAt(s, Len(s) + 1, x) = Append(s, x)
<1> DEFINE n == Len(s) + 1
           t == Lists!InsertAt(s, n, x)
<1>1. Len(s) \in Nat /\ n \in 1..(Len(s) + 1)
  OBVIOUS
<1>2. /\ t \in Seq(T) /\ Len(t) = Len(s) + 1
      /\ \A j \in 1..(Len(s) + 1) : t[j] = IF j < n THEN s[j] ELSE IF j = n THEN x ELSE s[j - 1]
  <2> HIDE DEF n
  <2>1. Insertion(t, s, n, x, T)
    BY <1>1, InsertedAt
  <2> HIDE DEF t
  <2> QED BY <2>1 DEF Insertion
<1> HIDE DEF t
<1>3. \A j \in 1..(Len(s) + 1) : t[j] = Append(s, x)[j]
  BY <1>1, <1>2
<1>4. t = Append(s, x)
  BY <1>1, <1>2, <1>3
<1> QED BY <1>4 DEF t, n

\* r gets the order o in the level of p: it leaves the level it was in, what
\* else there is keeps its order, and no other level changes.
Placed(u, r, p, o) ==
  /\ Level(u, p)' = Level(u, p) \union {r}
  /\ \A w \in User, t \in Rem \union {Nil} :
       /\ SameOrder(Level(w, t) \ {r})
       /\ ~ (w = u /\ t = p) => Level(w, t)' = Level(w, t) \ {r}
  /\ \A q \in Level(u, p) \ {r} : sort'[q] < o \/ sort'[q] > o
  /\ \A q \in Level(u, p) \ {r} : sort[q] < o <=> sort'[q] < o
  /\ sort'[r] = o

\* Shifting the rows from o on makes room for a row at o.
LEMMA PlaceLevels ==
  ASSUME TypeOK, NEW u \in User, NEW r \in Rem, NEW p, NEW o \in Int,
         NEW S \in SUBSET Level(u, p),
         \A q \in Level(u, p) : q \in S <=> sort[q] >= o,
         owner' = [owner EXCEPT ![r] = u],
         parent' = [parent EXCEPT ![r] = p],
         sort' = [Shifted(S) EXCEPT ![r] = o]
  PROVE  Placed(u, r, p, o)
<1>1. \A q \in Rem : q # r => /\ sort'[q] = IF q \in S THEN sort[q] + 1 ELSE sort[q]
                              /\ owner'[q] = owner[q] /\ parent'[q] = parent[q]
  BY DEF Shifted, TypeOK
<1>2. sort'[r] = o /\ owner'[r] = u /\ parent'[r] = p /\ u # Nil
  BY OutlineAssumption DEF Shifted, TypeOK
<1>3. Level(u, p)' = Level(u, p) \union {r}
  BY <1>1, <1>2 DEF Level, Live
<1>4. ASSUME NEW w \in User, NEW t \in Rem \union {Nil}, ~ (w = u /\ t = p)
      PROVE  Level(w, t)' = Level(w, t) \ {r}
  BY <1>1, <1>2, <1>4 DEF Level, Live
<1>5. ASSUME NEW w \in User, NEW t \in Rem \union {Nil},
             NEW q \in Level(w, t) \ {r}, NEW x \in Level(w, t) \ {r}
      PROVE  sort[q] < sort[x] <=> sort'[q] < sort'[x]
  <2>1. q \in Rem /\ x \in Rem /\ sort[q] \in Int /\ sort[x] \in Int
    BY DEF Level, Live, TypeOK
  <2>2. CASE w = u /\ t = p
    BY <1>1, <2>1, <2>2
  <2>3. CASE ~ (w = u /\ t = p)
    <3>1. q \notin S /\ x \notin S
      BY <2>3 DEF Level
    <3> QED BY <1>1, <2>1, <3>1
  <2> QED BY <2>2, <2>3
<1>6. ASSUME NEW q \in Level(u, p) \ {r}
      PROVE  (sort'[q] < o \/ sort'[q] > o) /\ (sort[q] < o <=> sort'[q] < o)
  <2>1. q \in Rem /\ sort[q] \in Int
    BY DEF Level, Live, TypeOK
  <2> QED BY <1>1, <2>1
<1> QED BY <1>2, <1>3, <1>4, <1>5, <1>6 DEF Placed, SameOrder

----------------------------------------------------------------------------
(* The operations of the outline as operations on lists.                    *)

LEMMA ToSetIs == ASSUME NEW S, NEW key, NEW s, Listing(s, S, key) PROVE Lists!ToSet(s) = S
BY DEF Listing, Lists!ToSet

\* What changes in one list, or in two.
LEMMA OneChanged ==
  ASSUME NEW u \in User, NEW p \in Rem \union {Nil}, NEW v, lists'[<<u, p>>] = v,
         \A w \in User, t \in Rem \union {Nil} : ~ (w = u /\ t = p) => lists'[<<w, t>>] = lists[<<w, t>>]
  PROVE  lists' = [lists EXCEPT ![<<u, p>>] = v]
<1> DEFINE L == User \X (Rem \union {Nil})
<1>1. lists = [l \in L |-> lists[l]] /\ lists' = [l \in L |-> lists'[l]]
  BY DEF lists
<1>2. \A l \in L : l[1] \in User /\ l[2] \in Rem \union {Nil} /\ l = <<l[1], l[2]>>
  OBVIOUS
<1>3. \A l \in L : l # <<u, p>> => lists'[l] = lists[l]
  BY <1>2
<1>4. <<u, p>> \in L
  OBVIOUS
<1> HIDE DEF L
<1> QED BY <1>1, <1>3, <1>4

LEMMA TwoChanged ==
  ASSUME NEW u \in User, NEW p \in Rem \union {Nil}, NEW q \in Rem \union {Nil}, p # q,
         NEW v, NEW y, lists'[<<u, p>>] = v, lists'[<<u, q>>] = y,
         \A w \in User, t \in Rem \union {Nil} :
           ~ (w = u /\ t = p) /\ ~ (w = u /\ t = q) => lists'[<<w, t>>] = lists[<<w, t>>]
  PROVE  lists' = [lists EXCEPT ![<<u, p>>] = v, ![<<u, q>>] = y]
<1> DEFINE L == User \X (Rem \union {Nil})
<1>1. lists = [l \in L |-> lists[l]] /\ lists' = [l \in L |-> lists'[l]]
  BY DEF lists
<1>2. \A l \in L : l[1] \in User /\ l[2] \in Rem \union {Nil} /\ l = <<l[1], l[2]>>
  OBVIOUS
<1>3. \A l \in L : l # <<u, p>> /\ l # <<u, q>> => lists'[l] = lists[l]
  BY <1>2
<1>4. <<u, p>> \in L /\ <<u, q>> \in L /\ <<u, p>> # <<u, q>>
  OBVIOUS
<1> HIDE DEF L
<1> QED BY <1>1, <1>3, <1>4

\* A new bullet is added to one list.
LEMMA InsertIsAdd ==
  ASSUME Good, Listed, Listed', NEW u \in User, NEW id \in Rem, id \notin Live,
         NEW p \in Rem \union {Nil}, p = Nil \/ Owned(u, p), NEW c, NEW o \in Int,
         Insert(u, id, p, c, o, {q \in Level(u, p) : sort[q] >= o})
  PROVE  Lists!Next
<1> DEFINE S == {q \in Level(u, p) : sort[q] >= o}
           l == <<u, p>>
<1>1. /\ owner' = [owner EXCEPT ![id] = u]
      /\ parent' = [parent EXCEPT ![id] = p]
      /\ sort' = [Shifted(S) EXCEPT ![id] = o]
  BY DEF Insert
<1>2. Placed(u, id, p, o)
  <2>1. S \in SUBSET Level(u, p) /\ \A q \in Level(u, p) : q \in S <=> sort[q] >= o
    OBVIOUS
  <2> HIDE DEF S
  <2> QED BY <1>1, <2>1, PlaceLevels DEF Good
<1>3. \A w \in User, t \in Rem \union {Nil} :
        id \notin Level(w, t) /\ Level(w, t) \ {id} = Level(w, t)
  BY DEF Level
<1>4. \A w \in User, t \in Rem \union {Nil} : ~ (w = u /\ t = p) => lists'[<<w, t>>] = lists[<<w, t>>]
  <2> SUFFICES ASSUME NEW w \in User, NEW t \in Rem \union {Nil}, ~ (w = u /\ t = p)
               PROVE  lists'[<<w, t>>] = lists[<<w, t>>]
    OBVIOUS
  <2>1. Level(w, t)' = Level(w, t) \ {id} /\ SameOrder(Level(w, t) \ {id})
    BY <1>2 DEF Placed
  <2>2. Level(w, t) \ {id} = Level(w, t)
    BY <1>3
  <2>3. Level(w, t)' = Level(w, t) /\ SameOrder(Level(w, t))
    BY <2>1, <2>2
  <2> QED BY <2>3, SameList
<1>5. PICK i \in 1..(Len(lists[l]) + 1) : lists'[l] = Lists!InsertAt(lists[l], i, id)
  <2>1. SameOrder(Level(u, p)) /\ id \notin Level(u, p) /\ Level(u, p)' = Level(u, p) \union {id}
    BY <1>2, <1>3 DEF Placed
  <2> QED BY <2>1, GainsOne
<1>6. lists' = [lists EXCEPT ![l] = Lists!InsertAt(lists[l], i, id)]
  <2> DEFINE v == Lists!InsertAt(lists[l], i, id)
  <2>1. lists'[<<u, p>>] = v
    BY <1>5
  <2> HIDE DEF v
  <2>2. lists' = [lists EXCEPT ![<<u, p>>] = v]
    BY <1>4, <2>1, OneChanged
  <2> QED BY <2>2 DEF v
<1>7. id \notin Lists!Shown
  <2> SUFFICES ASSUME NEW m \in Lists!Levels PROVE id \notin Lists!ToSet(lists[m])
    BY DEF Lists!Shown
  <2>1. PICK w \in User, t \in Rem \union {Nil} : m = <<w, t>>
    BY DEF Lists!Levels
  <2>2. Listing(lists[m], Level(w, t), sort)
    BY <2>1 DEF Listed
  <2> QED BY <1>3, <2>2, ToSetIs
<1>8. Lists!Exists(l)
  <2>1. CASE p = Nil
    BY <2>1 DEF Lists!Exists
  <2>2. CASE p # Nil
    <3>1. p \in Level(u, parent[p]) /\ parent[p] \in Rem \union {Nil}
      BY <2>2 DEF Owned, Level, Good, TypeOK, Live
    <3>2. Listing(lists[<<u, parent[p]>>], Level(u, parent[p]), sort)
      BY <3>1 DEF Listed
    <3>3. p \in Lists!ToSet(lists[<<u, parent[p]>>])
      BY <3>1, <3>2, ToSetIs
    <3> QED BY <3>1, <3>3 DEF Lists!Exists
  <2> QED BY <2>1, <2>2
<1>9. l \in Lists!Levels
  BY DEF Lists!Levels
<1>10. Lists!Add(l, i, id)
  BY <1>6, <1>7, <1>8 DEF Lists!Add
<1> HIDE DEF l
<1> QED BY <1>5, <1>9, <1>10 DEF Lists!Next

\* The branch of a bullet is its subtree.
LEMMA BranchIs ==
  ASSUME Good, Listed, NEW r \in Live
  PROVE  Lists!Branch(r) = Subtree(r)
<1> DEFINE Under(S) == UNION {Lists!ToSet(lists[l]) : l \in {l \in Lists!Levels : l[2] \in S}}
           Closed == {S \in SUBSET Rem : r \in S /\ Under(S) \subseteq S}
<1>1. \A w \in User, t \in Rem \union {Nil} : Lists!ToSet(lists[<<w, t>>]) = Level(w, t)
  <2> SUFFICES ASSUME NEW w \in User, NEW t \in Rem \union {Nil}
               PROVE  Lists!ToSet(lists[<<w, t>>]) = Level(w, t)
    OBVIOUS
  <2>1. Listing(lists[<<w, t>>], Level(w, t), sort)
    BY DEF Listed
  <2> QED BY <2>1, ToSetIs
<1>2. ASSUME NEW S \in SUBSET Rem, NEW z
      PROVE  z \in Under(S) <=> z \in Live /\ parent[z] \in S
  <2>1. ASSUME z \in Under(S) PROVE z \in Live /\ parent[z] \in S
    <3>1. PICK l \in Lists!Levels : l[2] \in S /\ z \in Lists!ToSet(lists[l])
      BY <2>1
    <3>2. PICK w \in User, t \in Rem \union {Nil} : l = <<w, t>>
      BY DEF Lists!Levels
    <3>3. z \in Level(w, t) /\ t \in S
      BY <1>1, <3>1, <3>2
    <3> QED BY <3>3 DEF Level
  <2>2. ASSUME z \in Live, parent[z] \in S PROVE z \in Under(S)
    <3> DEFINE l == <<owner[z], parent[z]>>
    <3>1. owner[z] \in User /\ parent[z] \in Rem \union {Nil} /\ z \in Level(owner[z], parent[z])
      BY <2>2 DEF Good, TypeOK, Live, Level
    <3>2. l \in Lists!Levels /\ l[2] \in S
      BY <2>2, <3>1 DEF Lists!Levels
    <3>3. z \in Lists!ToSet(lists[l])
      BY <1>1, <3>1
    <3> HIDE DEF l
    <3> QED BY <3>2, <3>3
  <2> QED BY <2>1, <2>2
<1>3. Lists!Branch(r) = {x \in Rem : \A S \in Closed : x \in S}
  BY DEF Lists!Branch
<1> HIDE DEF Under
<1>4. Subtree(r) \in Closed
  <2>1. Subtree(r) \in SUBSET Rem /\ r \in Subtree(r)
    BY SubtreeFacts DEF Live
  <2>2. Under(Subtree(r)) \subseteq Subtree(r)
    BY <1>2, <2>1, SubtreeFacts
  <2> QED BY <2>1, <2>2
<1>5. ASSUME NEW S \in Closed PROVE Subtree(r) \subseteq S
  <2> DEFINE T == S \intersect Live
  <2>1. S \in SUBSET Rem /\ r \in S /\ Under(S) \subseteq S
    OBVIOUS
  <2>2. T \in SUBSET Live /\ r \in T
    BY <2>1
  <2>3. \A y \in Live : parent[y] \in T => y \in T
    BY <1>2, <2>1
  <2> HIDE DEF T
  <2>4. Subtree(r) \subseteq T
    BY <2>2, <2>3, SubtreeLeast
  <2> QED BY <2>4 DEF T
<1>6. Subtree(r) \subseteq Rem
  BY SubtreeFacts DEF Live
<1> HIDE DEF Closed
<1> QED BY <1>3, <1>4, <1>5, <1>6

\* A list of nothing is empty.
LEMMA NothingListed == ASSUME NEW key, NEW s, Listing(s, {}, key) PROVE s = <<>>
<1>1. s \in Seq({}) /\ Len(s) = 0
  BY FS_EmptySet DEF Listing
<1> QED BY <1>1, EmptySeq

\* A deleted bullet is pruned from its list, with its branch.
LEMMA DeleteIsPrune ==
  ASSUME Good, Listed, Listed', NEW u \in User, NEW y \in Rem, DeleteRem(u, y),
         NEW p, p = parent[y]
  PROVE  Lists!Next
<1> DEFINE gone == Subtree(y)
           l == <<u, p>>
<1>1. /\ owner' = [x \in Rem |-> IF x \in gone THEN Nil ELSE owner[x]]
      /\ parent' = [x \in Rem |-> IF x \in gone THEN Nil ELSE parent[x]]
      /\ sort' = [x \in Rem |-> IF x \in gone THEN 0 ELSE sort[x]]
      /\ y \in Live /\ owner[y] = u /\ p \notin gone
  BY DEF DeleteRem, Owned, OnCycle
<1>2. /\ y \in gone /\ gone \subseteq Live /\ p \in Rem \union {Nil} /\ y \in Level(u, p)
      /\ \A x \in Live : parent[x] \in gone => x \in gone
      /\ \A x \in gone : x = y \/ parent[x] \in gone
  <2>1. p \in Rem \union {Nil} /\ y \in Level(u, p)
    BY <1>1 DEF Level, Good, TypeOK
  <2> QED BY <1>1, <2>1, SubtreeFacts, SubtreeParents
<1>3. Lists!Branch(y) = gone
  BY <1>1, BranchIs
<1> HIDE DEF gone
<1>4. ASSUME NEW w \in User, NEW t \in Rem \union {Nil}
      PROVE  /\ Level(w, t)' = Level(w, t) \ gone
             /\ SameOrder(Level(w, t) \ gone)
  <2>1. \A x \in Rem : x \notin gone => owner'[x] = owner[x] /\ parent'[x] = parent[x] /\ sort'[x] = sort[x]
    BY <1>1
  <2>2. \A x \in Rem : x \in gone => owner'[x] = Nil
    BY <1>1
  <2>3. Level(w, t)' = Level(w, t) \ gone
    BY <2>1, <2>2 DEF Level, Live
  <2>4. SameOrder(Level(w, t) \ gone)
    BY <2>1 DEF SameOrder, Level, Live
  <2> QED BY <2>3, <2>4
<1>5. PICK i \in DOMAIN lists[l] : lists[l][i] = y /\ lists'[l] = Lists!RemoveAt(lists[l], i)
  <2>1. Level(u, p) \ gone = Level(u, p) \ {y}
    <3>1. \A x \in Level(u, p) : x \in gone => x = y
      BY <1>1, <1>2 DEF Level
    <3> QED BY <1>2, <3>1
  <2>2. p \in Rem \union {Nil} /\ y \in Level(u, p)
    BY <1>2
  <2>3. Level(u, p)' = Level(u, p) \ gone /\ SameOrder(Level(u, p) \ gone)
    BY <1>4, <2>2
  <2>4. Level(u, p)' = Level(u, p) \ {y} /\ SameOrder(Level(u, p) \ {y})
    BY <2>1, <2>3
  <2> QED BY <2>2, <2>4, LosesOne
<1>6. ASSUME NEW w \in User, NEW t \in Rem \union {Nil}, ~ (w = u /\ t = p), t \in gone
      PROVE  lists'[<<w, t>>] = <<>>
  <2>1. Level(w, t) \subseteq gone
    BY <1>2, <1>6 DEF Level
  <2>2. Level(w, t)' = {}
    BY <1>4, <2>1
  <2>3. Listing(lists'[<<w, t>>], {}, sort')
    BY <2>2 DEF Listed
  <2> QED BY <2>3, NothingListed
<1>7. ASSUME NEW w \in User, NEW t \in Rem \union {Nil}, ~ (w = u /\ t = p), t \notin gone
      PROVE  lists'[<<w, t>>] = lists[<<w, t>>]
  <2>1. ASSUME NEW x \in Level(w, t), x \in gone PROVE FALSE
    BY <1>1, <1>2, <1>7, <2>1 DEF Level
  <2>2. Level(w, t) \ gone = Level(w, t)
    BY <2>1
  <2>3. Level(w, t)' = Level(w, t) /\ SameOrder(Level(w, t))
    BY <1>4, <2>2
  <2> QED BY <2>3, SameList
<1> DEFINE new == [m \in Lists!Levels |-> IF m = l THEN Lists!RemoveAt(lists[m], i)
                                          ELSE IF m[2] \in gone THEN <<>>
                                          ELSE lists[m]]
<1>8. lists' = new
  <2>1. lists' = [m \in Lists!Levels |-> lists'[m]]
    BY DEF lists, Lists!Levels
  <2>2. ASSUME NEW m \in Lists!Levels PROVE lists'[m] = new[m]
    <3>1. PICK w \in User, t \in Rem \union {Nil} : m = <<w, t>>
      BY DEF Lists!Levels
    <3>2. m[2] = t /\ (m = l <=> w = u /\ t = p)
      BY <3>1
    <3>3. CASE m = l
      BY <1>5, <3>3
    <3>4. CASE m # l /\ t \in gone
      BY <1>6, <3>1, <3>2, <3>4
    <3>5. CASE m # l /\ t \notin gone
      BY <1>7, <3>1, <3>2, <3>5
    <3> QED BY <3>3, <3>4, <3>5
  <2>3. new = [m \in Lists!Levels |-> new[m]]
    OBVIOUS
  <2> HIDE DEF new
  <2> QED BY <2>1, <2>2, <2>3
<1>9. l \in Lists!Levels
  BY <1>2 DEF Lists!Levels
<1> HIDE DEF l
<1>10. Lists!Prune(l, i)
  BY <1>3, <1>5, <1>8 DEF Lists!Prune
<1> QED BY <1>5, <1>9, <1>10 DEF Lists!Next

\* A parent is another bullet.
LEMMA OtherParent == Good => \A x \in Live : parent[x] # x
<1> SUFFICES ASSUME Good, NEW x \in Live, parent[x] = x PROVE FALSE
  OBVIOUS
<1>1. {x} \in SUBSET Live /\ {x} # {} /\ ~ \E y \in {x} : parent[y] \notin {x}
  OBVIOUS
<1> QED BY <1>1 DEF Good, Acyclic

\* An indented bullet goes to the end of the list of the bullet above it.
LEMMA IndentIsIndent ==
  ASSUME Good, Listed, Listed', NEW u \in User, NEW r \in Rem, IndentRem(u, r),
         NEW p, p = parent[r]
  PROVE  Lists!Next
<1>0. PICK prev \in PrecedingSiblings(u, r) : \E o \in EndOf(u, prev) :
        /\ parent' = [parent EXCEPT ![r] = prev]
        /\ sort' = [sort EXCEPT ![r] = o]
        /\ owner' = owner
  BY DEF IndentRem
<1>1. PICK o \in EndOf(u, prev) :
        /\ parent' = [parent EXCEPT ![r] = prev]
        /\ sort' = [sort EXCEPT ![r] = o]
        /\ owner' = owner
  BY <1>0
<1>2. /\ r \in Level(u, p) /\ prev \in Level(u, p) /\ sort[prev] < sort[r]
      /\ \A x \in Level(u, p) : ~ (sort[prev] < sort[x] /\ sort[x] < sort[r])
      /\ prev \in Rem /\ r \in Live /\ owner[r] = u /\ o \in Int
      /\ p \in Rem \union {Nil}
  <2>1. r \in Level(u, p) /\ r \in Live /\ owner[r] = u /\ p \in Rem \union {Nil}
    BY DEF IndentRem, Owned, Level, Good, TypeOK
  <2>2. /\ prev \in Level(u, p) /\ sort[prev] < sort[r] /\ prev \in Rem
        /\ \A x \in Level(u, p) : sort[x] < sort[r] => sort[x] <= sort[prev]
    BY DEF PrecedingSiblings, Level, Live
  <2>3. sort \in [Rem -> Int] /\ Level(u, p) \subseteq Rem
    BY DEF Good, TypeOK, Level, Live
  <2>4. o \in Int
    BY EndOfType DEF Good
  <2> QED BY <2>1, <2>2, <2>3, <2>4
<1>3. p # prev /\ r \notin Level(u, prev)
  BY <1>2, OtherParent DEF Level
<1>4. \A q \in Level(u, prev) : sort[q] < o
  BY <1>1 DEF EndOf, Good, TypeOK, Level, Live
<1>5. Placed(u, r, prev, o)
  <2>1. owner' = [owner EXCEPT ![r] = u]
    BY <1>1, <1>2 DEF Good, TypeOK
  <2>2. sort' = [Shifted({}) EXCEPT ![r] = o]
    BY <1>1 DEF Shifted, Good, TypeOK
  <2>3. \A q \in Level(u, prev) : q \in {} <=> sort[q] >= o
    BY <1>2, <1>4 DEF Good, TypeOK, Level, Live
  <2>4. {} \in SUBSET Level(u, prev) /\ TypeOK
    BY DEF Good
  <2> QED BY <1>1, <1>2, <2>1, <2>2, <2>3, <2>4, PlaceLevels
<1> DEFINE l == <<u, p>>
           k == <<u, prev>>
<1>6. PICK i \in DOMAIN lists[l] : lists[l][i] = r /\ lists'[l] = Lists!RemoveAt(lists[l], i)
  <2>1. Level(u, p)' = Level(u, p) \ {r} /\ SameOrder(Level(u, p) \ {r})
    BY <1>2, <1>3, <1>5 DEF Placed
  <2> QED BY <1>2, <2>1, LosesOne
<1>7. i > 1 /\ lists[l][i - 1] = prev
  <2>1. Listing(lists[l], Level(u, p), sort)
    BY <1>2 DEF Listed
  <2>2. PICK h \in DOMAIN lists[l] : lists[l][h] = prev
    BY <1>2, <2>1 DEF Listing
  <2> DEFINE s == lists[l]
  <2>3. Listing(s, Level(u, p), sort) /\ h \in DOMAIN s /\ i \in DOMAIN s /\ s[h] = prev /\ s[i] = r
    BY <1>6, <2>1, <2>2
  <2> HIDE DEF s
  <2>4. sort[s[h]] < sort[s[i]] /\ \A x \in Level(u, p) : ~ (sort[s[h]] < sort[x] /\ sort[x] < sort[s[i]])
    BY <1>2, <2>3
  <2>5. h = i - 1 /\ i > 1
    BY <2>3, <2>4, Neighbours
  <2>6. i > 1 /\ s[i - 1] = prev
    BY <2>3, <2>5
  <2> QED BY <2>6 DEF s
<1>8. lists'[k] = Append(lists[k], r)
  <2>1. /\ Level(u, prev) \ {r} = Level(u, prev)
        /\ Level(u, prev)' = Level(u, prev) \union {r}
    BY <1>3, <1>5 DEF Placed
  <2>2. SameOrder(Level(u, prev))
    <3>1. SameOrder(Level(u, prev) \ {r})
      BY <1>2, <1>5 DEF Placed
    <3> QED BY <2>1, <3>1
  <2>3. prev \in Rem \union {Nil}
    BY <1>2
  <2>4. PICK j \in 1..(Len(lists[k]) + 1) :
          /\ lists'[k] = Lists!InsertAt(lists[k], j, r)
          /\ j \in DOMAIN lists'[k] /\ lists'[k][j] = r
          /\ Len(lists'[k]) = Len(lists[k]) + 1
    BY <1>3, <2>1, <2>2, <2>3, GainsOne
  <2> DEFINE s == lists[k]
             t == lists'[k]
             T == Level(u, prev)'
             n == Len(s) + 1
  <2>5. Listing(s, Level(u, prev), sort) /\ Listing(t, T, sort')
    BY <2>3 DEF Listed
  <2>6. sort'[r] = o /\ \A q \in T : ~ (o < sort'[q])
    <3>1. o \in Int /\ sort'[r] = o
      BY <1>2, <1>5 DEF Placed
    <3>2. \A q \in Level(u, prev) \ {r} : sort'[q] < o
      BY <1>4, <1>5 DEF Placed
    <3>3. sort' \in [Rem -> Int] /\ Level(u, prev) \subseteq Rem
      BY DEF Listed, Level, Live
    <3>4. ASSUME NEW q \in T PROVE ~ (o < sort'[q])
      <4>1. q = r \/ q \in Level(u, prev) \ {r}
        BY <2>1
      <4>2. q \in Level(u, prev) \ {r} => sort'[q] \in Int /\ sort'[q] < o
        BY <3>2, <3>3
      <4> QED BY <3>1, <4>1, <4>2
    <3> QED BY <3>1, <3>4
  <2>7. j \in 1..n /\ t = Lists!InsertAt(s, j, r) /\ j \in DOMAIN t /\ t[j] = r /\ Len(t) = n
    BY <2>4
  <2>8. s \in Seq(Rem)
    <3>1. s \in Seq(Level(u, prev)) /\ Level(u, prev) \subseteq Rem
      BY <2>5 DEF Listing, Level, Live
    <3> HIDE DEF s
    <3> QED BY <3>1
  <2> HIDE DEF s, t, T
  <2>9. j = n
    <3>1. Len(s) \in Nat /\ DOMAIN t = 1..Len(t)
      BY <2>5 DEF Listing
    <3>2. CASE j < n
      <4>1. n \in DOMAIN t
        BY <2>7, <3>1
      <4>2. sort'[t[j]] < sort'[t[n]] /\ t[n] \in T
        BY <2>5, <2>7, <3>2, <4>1 DEF Listing
      <4> QED BY <2>6, <2>7, <4>2
    <3> QED BY <2>7, <3>1, <3>2
  <2>10. t = Append(s, r)
    <3>1. Lists!InsertAt(s, Len(s) + 1, r) = Append(s, r)
      BY <2>8, InsertedLast
    <3> QED BY <2>7, <2>9, <3>1
  <2> QED BY <2>10 DEF s, t
<1>9. lists' = [lists EXCEPT ![l] = Lists!RemoveAt(lists[l], i), ![k] = Append(lists[k], r)]
  <2>1. ASSUME NEW w \in User, NEW t \in Rem \union {Nil},
               ~ (w = u /\ t = p) /\ ~ (w = u /\ t = prev)
        PROVE  lists'[<<w, t>>] = lists[<<w, t>>]
    <3>1. Level(w, t) \ {r} = Level(w, t)
      BY <1>2, <2>1 DEF Level
    <3>2. Level(w, t)' = Level(w, t) \ {r} /\ SameOrder(Level(w, t) \ {r})
      BY <1>5, <2>1 DEF Placed
    <3>3. Level(w, t)' = Level(w, t) /\ SameOrder(Level(w, t))
      BY <3>1, <3>2
    <3> QED BY <3>3, SameList
  <2> DEFINE v == Lists!RemoveAt(lists[l], i)
             y == Append(lists[k], r)
  <2>2. lists'[<<u, p>>] = v /\ lists'[<<u, prev>>] = y
    BY <1>6, <1>8
  <2>3. p \in Rem \union {Nil} /\ prev \in Rem \union {Nil}
    BY <1>2
  <2> HIDE DEF v, y
  <2>4. lists' = [lists EXCEPT ![<<u, p>>] = v, ![<<u, prev>>] = y]
    BY <1>3, <2>1, <2>2, <2>3, TwoChanged
  <2> QED BY <2>4 DEF v, y
<1>10. l \in Lists!Levels /\ l[1] = u /\ l # k
  BY <1>2, <1>3 DEF Lists!Levels
<1>11. Lists!Indent(l, i)
  <2>1. k = <<l[1], lists[l][i - 1]>> /\ lists[l][i] = r
    BY <1>6, <1>7
  <2> HIDE DEF l, k
  <2>2. lists' = [lists EXCEPT ![l] = Lists!RemoveAt(@, i), ![k] = Append(@, lists[l][i])]
    BY <1>9, <1>10, <2>1
  <2> QED BY <1>7, <2>1, <2>2 DEF Lists!Indent
<1> HIDE DEF l
<1> QED BY <1>6, <1>10, <1>11 DEF Lists!Next

\* An outdented bullet goes right after its parent.
LEMMA OutdentIsOutdent ==
  ASSUME Good, Listed, Listed', NEW u \in User, NEW r \in Rem, OutdentRem(u, r),
         NEW p, p = parent[r], NEW g, g = parent[p], NEW o, o = sort[p] + 1
  PROVE  Lists!Next
<1> DEFINE S == {q \in Level(u, g) : sort[q] > sort[p]}
<1>1. /\ parent' = [parent EXCEPT ![r] = g]
      /\ sort' = [Shifted(S) EXCEPT ![r] = o]
      /\ owner' = owner
      /\ r \in Live /\ owner[r] = u /\ p \in Live /\ owner[p] = u
  BY DEF OutdentRem, Owned
<1>2. /\ r \in Level(u, p) /\ p \in Level(u, g) /\ p \in Rem /\ g \in Rem \union {Nil}
      /\ sort[p] \in Int /\ o \in Int
  BY <1>1 DEF Level, Live, Good, TypeOK
<1>3. g # p /\ r # p /\ r \notin Level(u, g)
  BY <1>1, OtherParent DEF Level
<1>4. Placed(u, r, g, o)
  <2>1. owner' = [owner EXCEPT ![r] = u]
    BY <1>1 DEF Good, TypeOK
  <2>2. S \in SUBSET Level(u, g) /\ \A q \in Level(u, g) : q \in S <=> sort[q] >= o
    BY <1>2 DEF Level, Live, Good, TypeOK
  <2>3. TypeOK
    BY DEF Good
  <2> HIDE DEF S
  <2> QED BY <1>1, <1>2, <2>1, <2>2, <2>3, PlaceLevels
<1> HIDE DEF S
<1> DEFINE l == <<u, p>>
           k == <<u, g>>
<1>5. PICK i \in DOMAIN lists[l] : lists[l][i] = r /\ lists'[l] = Lists!RemoveAt(lists[l], i)
  <2>1. p \in Rem \union {Nil} /\ ~ (u = u /\ p = g)
    BY <1>2, <1>3
  <2>2. Level(u, p)' = Level(u, p) \ {r} /\ SameOrder(Level(u, p) \ {r})
    BY <1>4, <2>1 DEF Placed
  <2> QED BY <1>2, <2>1, <2>2, LosesOne
<1>6. /\ Level(u, g) \ {r} = Level(u, g)
      /\ Level(u, g)' = Level(u, g) \union {r}
      /\ SameOrder(Level(u, g))
  <2>1. Level(u, g) \ {r} = Level(u, g)
    BY <1>3
  <2>2. Level(u, g)' = Level(u, g) \union {r} /\ SameOrder(Level(u, g) \ {r})
    BY <1>2, <1>4 DEF Placed
  <2> QED BY <2>1, <2>2
<1>7. PICK n \in 1..(Len(lists[k]) + 1) :
        /\ lists'[k] = Lists!InsertAt(lists[k], n, r)
        /\ n \in DOMAIN lists'[k] /\ lists'[k][n] = r
        /\ lists[k] = Lists!RemoveAt(lists'[k], n)
        /\ Len(lists'[k]) = Len(lists[k]) + 1
  BY <1>2, <1>3, <1>6, GainsOne
<1>8. n - 1 \in DOMAIN lists[k] /\ lists[k][n - 1] = p /\ (n - 1) + 1 = n
  <2> DEFINE s == lists[k]
             t == lists'[k]
             T == Level(u, g)'
  <2>1. Listing(s, Level(u, g), sort) /\ Listing(t, T, sort') /\ sort' \in [Rem -> Int]
    BY <1>2 DEF Listed
  <2>2. T = Level(u, g) \union {r} /\ T \subseteq Rem
    BY <1>6 DEF Level, Live
  <2>3. n \in 1..(Len(s) + 1) /\ n \in DOMAIN t /\ t[n] = r /\ s = Lists!RemoveAt(t, n) /\ Len(t) = Len(s) + 1
    BY <1>7
  <2> HIDE DEF s, t, T
  <2>4. PICK h \in DOMAIN t : t[h] = p
    BY <1>2, <2>1, <2>2 DEF Listing
  <2>5. sort'[r] = o /\ sort'[p] < o
    BY <1>2, <1>3, <1>4 DEF Placed
  <2>6. ASSUME NEW x \in T, sort'[p] < sort'[x], sort'[x] < o PROVE FALSE
    <3>1. x \in Level(u, g) \ {r}
      <4>1. x # r
        BY <1>2, <2>5, <2>6
      <4> QED BY <2>2, <4>1
    <3>2. sort[x] < o /\ sort[x] \in Int
      <4>1. sort[x] < o
        BY <2>6, <3>1, <1>4 DEF Placed
      <4> QED BY <3>1, <4>1 DEF Level, Live, Good, TypeOK
    <3>3. sort[p] < sort[x]
      BY <1>2, <1>6, <2>6, <3>1 DEF SameOrder
    <3> QED BY <1>2, <3>2, <3>3
  <2>7. h = n - 1 /\ n > 1
    <3>1. /\ h \in DOMAIN t /\ n \in DOMAIN t /\ sort'[t[h]] < sort'[t[n]]
          /\ \A x \in T : ~ (sort'[t[h]] < sort'[x] /\ sort'[x] < sort'[t[n]])
      BY <2>3, <2>4, <2>5, <2>6
    <3> QED BY <2>1, <3>1, Neighbours
  <2>8. t \in Seq(T) /\ n \in 1..Len(t) /\ Len(t) \in Nat /\ DOMAIN s = 1..Len(s) /\ Len(s) \in Nat
    BY <2>1, <2>3 DEF Listing
  <2>9. Removal(s, t, n, T)
    <3>1. Removal(Lists!RemoveAt(t, n), t, n, T)
      BY <2>8, RemovedAt
    <3> QED BY <2>3, <3>1
  <2>10. n - 1 \in 1..(Len(t) - 1) /\ n - 1 < n /\ n - 1 \in DOMAIN s /\ (n - 1) + 1 = n
    BY <2>3, <2>7, <2>8
  <2>11. s[n - 1] = t[n - 1]
    BY <2>9, <2>10 DEF Removal
  <2>12. n - 1 \in DOMAIN s /\ s[n - 1] = p /\ (n - 1) + 1 = n
    BY <2>4, <2>7, <2>10, <2>11
  <2> QED BY <2>12 DEF s
<1>9. lists' = [lists EXCEPT ![l] = Lists!RemoveAt(lists[l], i), ![k] = Lists!InsertAt(lists[k], n, r)]
  <2>1. ASSUME NEW w \in User, NEW t \in Rem \union {Nil},
               ~ (w = u /\ t = p) /\ ~ (w = u /\ t = g)
        PROVE  lists'[<<w, t>>] = lists[<<w, t>>]
    <3>1. Level(w, t) \ {r} = Level(w, t)
      BY <1>1, <2>1 DEF Level
    <3>2. Level(w, t)' = Level(w, t) \ {r} /\ SameOrder(Level(w, t) \ {r})
      BY <1>4, <2>1 DEF Placed
    <3>3. Level(w, t)' = Level(w, t) /\ SameOrder(Level(w, t))
      BY <3>1, <3>2
    <3> QED BY <3>3, SameList
  <2> DEFINE v == Lists!RemoveAt(lists[l], i)
             y == Lists!InsertAt(lists[k], n, r)
  <2>2. lists'[<<u, p>>] = v /\ lists'[<<u, g>>] = y
    BY <1>5, <1>7
  <2>3. p \in Rem \union {Nil} /\ p # g
    BY <1>2, <1>3
  <2> HIDE DEF v, y
  <2>4. lists' = [lists EXCEPT ![<<u, p>>] = v, ![<<u, g>>] = y]
    BY <1>2, <2>1, <2>2, <2>3, TwoChanged
  <2> QED BY <2>4 DEF v, y
<1>10. l \in Lists!Levels /\ k \in Lists!Levels /\ l[1] = k[1] /\ l[2] = p /\ l # k
  BY <1>2, <1>3 DEF Lists!Levels
<1>11. Lists!Outdent(l, i)
  <2> HIDE DEF l, k
  <2> DEFINE j == n - 1
  <2>1. j \in DOMAIN lists[k] /\ lists[k][j] = l[2] /\ j + 1 = n
    BY <1>8, <1>10
  <2> HIDE DEF j
  <2>2. lists' = [lists EXCEPT ![l] = Lists!RemoveAt(@, i), ![k] = Lists!InsertAt(@, j + 1, lists[l][i])]
    BY <1>5, <1>9, <1>10, <2>1
  <2> QED BY <1>10, <2>1, <2>2 DEF Lists!Outdent
<1> HIDE DEF l
<1> QED BY <1>5, <1>10, <1>11 DEF Lists!Next

\* What changes neither owner nor parent nor order changes no list.
LEMMA SameLists == UNCHANGED <<owner, parent, sort>> => UNCHANGED lists
<1> SUFFICES ASSUME UNCHANGED <<owner, parent, sort>> PROVE UNCHANGED lists
  OBVIOUS
<1>1. Live' = Live
  BY DEF Live
<1>2. \A u, p : Level(u, p)' = Level(u, p)
  BY <1>1 DEF Level
<1>3. \A u, p : Sorted(u, p)' = Sorted(u, p)
  BY <1>2 DEF Sorted
<1> QED BY <1>3 DEF lists

\* Every step of the web client is a step of the lists, or leaves them alone.
LEMMA ListsStep == Good /\ Listed /\ Listed' /\ [EditorNext]_vars => [Lists!Next]_lists
<1> SUFFICES ASSUME Good, Listed, Listed', [EditorNext]_vars PROVE [Lists!Next]_lists
  OBVIOUS
<1>1. CASE UNCHANGED <<owner, parent, sort>>
  BY <1>1, SameLists
<1>2. ASSUME NEW u \in User, NEW r \in Rem, NEW c,
             \/ \E p \in Rem \union {Nil}, at \in Position \union {Nil} :
                  CreateRem(u, r, p, c, at)
             \/ \E prev \in Rem : CreateRemAfter(u, r, prev, c)
      PROVE  Lists!Next
  <2>1. /\ r \notin Live
        /\ \E p \in Rem \union {Nil}, o \in Int, S \in SUBSET Rem :
             /\ p = Nil \/ Owned(u, p)
             /\ S = {q \in Level(u, p) : sort[q] >= o}
             /\ Insert(u, r, p, c, o, S)
    BY <1>2, CreateIsInsert DEF Good
  <2>2. PICK p \in Rem \union {Nil}, o \in Int :
          /\ p = Nil \/ Owned(u, p)
          /\ Insert(u, r, p, c, o, {q \in Level(u, p) : sort[q] >= o})
    BY <2>1
  <2> QED BY <2>1, <2>2, InsertIsAdd
<1>3. ASSUME NEW u \in User, NEW r \in Rem, DeleteRem(u, r) PROVE Lists!Next
  <2>1. PICK p : p = parent[r]
    OBVIOUS
  <2> QED BY <1>3, <2>1, DeleteIsPrune
<1>4. ASSUME NEW u \in User, NEW r \in Rem, IndentRem(u, r) PROVE Lists!Next
  <2>1. PICK p : p = parent[r]
    OBVIOUS
  <2> QED BY <1>4, <2>1, IndentIsIndent
<1>5. ASSUME NEW u \in User, NEW r \in Rem, OutdentRem(u, r) PROVE Lists!Next
  <2>1. PICK p : p = parent[r]
    OBVIOUS
  <2>2. PICK g : g = parent[p]
    OBVIOUS
  <2>3. PICK o : o = sort[p] + 1
    OBVIOUS
  <2> QED BY <1>5, <2>1, <2>2, <2>3, OutdentIsOutdent
<1>6. CASE EditorNext
  <2>1. PICK u \in User, r \in Rem :
          \/ \E p \in Rem \union {Nil}, c \in Content, at \in Position \union {Nil} :
               CreateRem(u, r, p, c, at)
          \/ \E prev \in Rem, c \in Content : CreateRemAfter(u, r, prev, c)
          \/ \E c \in Content, k \in BOOLEAN : UpdateRem(u, r, c, k)
          \/ DeleteRem(u, r)
          \/ IndentRem(u, r)
          \/ OutdentRem(u, r)
          \/ ToggleCollapse(u, r)
          \/ QueryNeverEnds(u, r)
    BY <1>6 DEF EditorNext
  <2>2. (\E c \in Content, k \in BOOLEAN : UpdateRem(u, r, c, k)) \/ ToggleCollapse(u, r) \/ QueryNeverEnds(u, r)
          => UNCHANGED <<owner, parent, sort>>
    BY DEF UpdateRem, ToggleCollapse, QueryNeverEnds
  <2> QED BY <1>1, <1>2, <1>3, <1>4, <1>5, <2>1, <2>2
<1> QED BY <1>1, <1>6 DEF vars

\* At the start every list is empty.
LEMMA ListsInit == Init /\ Listed => Lists!Init
<1> SUFFICES ASSUME Init, Listed PROVE Lists!Init
  OBVIOUS
<1>1. \A u \in User, p \in Rem \union {Nil} : lists[<<u, p>>] = <<>>
  <2> SUFFICES ASSUME NEW u \in User, NEW p \in Rem \union {Nil} PROVE lists[<<u, p>>] = <<>>
    OBVIOUS
  <2>1. Level(u, p) = {}
    BY DEF Init, Level, Live
  <2>2. Listing(lists[<<u, p>>], {}, sort)
    BY <2>1 DEF Listed
  <2> QED BY <2>2, NothingListed
<1>2. \A l \in Lists!Levels : lists[l] = <<>>
  BY <1>1 DEF Lists!Levels
<1>3. lists = [l \in Lists!Levels |-> lists[l]]
  BY DEF lists, Lists!Levels
<1> QED BY <1>2, <1>3 DEF Lists!Init

\* The rows with their sort orders implement nested lists: whatever shifting,
\* appending and closing up of orders rems.go does, to the user of the web
\* client one bullet is added, pruned, indented or outdented, and every other
\* list stays as it is.
THEOREM NestedListsImplemented == EditorSpec => ImplementsNestedLists
<1>1. Init => Good
  BY InitTypes DEF Good, Init, ParentOwned, Acyclic, DistinctOrders, Level, Live
<1>2. Good /\ [EditorNext]_vars => Good'
  BY TypeStep, OwnedStep, AcyclicStep, DistinctStep DEF Good, Next
<1>3. EditorSpec => [](Good /\ Listed)
  <2>1. Good => Listed
    BY GoodListed
  <2> QED BY <1>1, <1>2, <2>1, PTL DEF EditorSpec
<1>4. Init /\ Listed => Lists!Init
  BY ListsInit
<1>5. Good /\ Listed /\ (Good /\ Listed)' /\ [EditorNext]_vars => [Lists!Next]_lists
  BY ListsStep
<1> QED BY <1>3, <1>4, <1>5, PTL DEF EditorSpec, ImplementsNestedLists, Lists!Spec

----------------------------------------------------------------------------
(* Reading order.                                                           *)

\* What subtrees are, for all rows at once.
SubtreesAre ==
  \A a \in Live :
    /\ a \in Subtree(a) /\ Subtree(a) \subseteq Live
    /\ \A y \in Live : parent[y] \in Subtree(a) => y \in Subtree(a)
    /\ \A y \in Subtree(a) \ {a} : parent[y] \in Subtree(a)
    /\ \A b \in Subtree(a) : Subtree(b) \subseteq Subtree(a)

\* They are so in every state.
LEMMA SubtreesAreSo == SubtreesAre
<1> SUFFICES ASSUME NEW a \in Live
             PROVE  /\ a \in Subtree(a) /\ Subtree(a) \subseteq Live
                    /\ \A y \in Live : parent[y] \in Subtree(a) => y \in Subtree(a)
                    /\ \A y \in Subtree(a) \ {a} : parent[y] \in Subtree(a)
                    /\ \A b \in Subtree(a) : Subtree(b) \subseteq Subtree(a)
  BY DEF SubtreesAre
<1>1. /\ a \in Subtree(a) /\ Subtree(a) \subseteq Live
      /\ \A y \in Live : parent[y] \in Subtree(a) => y \in Subtree(a)
  BY SubtreeFacts
<1>2. \A y \in Subtree(a) \ {a} : parent[y] \in Subtree(a)
  BY SubtreeParents
<1>3. ASSUME NEW b \in Subtree(a) PROVE Subtree(b) \subseteq Subtree(a)
  <2> DEFINE S == Subtree(a)
  <2>1. b \in Live /\ S \in SUBSET Live /\ b \in S /\ \A y \in Live : parent[y] \in S => y \in S
    BY <1>1
  <2> HIDE DEF S
  <2>2. Subtree(b) \subseteq S
    BY <2>1, SubtreeLeast
  <2> QED BY <2>2 DEF S
<1> QED BY <1>1, <1>2, <1>3

\* The siblings x and y stand in this order.
Earlier(x, y) ==
  x \in Live /\ y \in Live /\ owner[x] = owner[y] /\ parent[x] = parent[y] /\ sort[x] < sort[y]

\* The bullet a is shown above b.
Shown(a, b) ==
  \/ a # b /\ b \in Subtree(a)
  \/ \E x, y \in Live : Earlier(x, y) /\ a \in Subtree(x) /\ b \in Subtree(y)

\* That is what ShownBefore says.
ShownPairs == \A a, b \in Live : <<a, b>> \in ShownBefore <=> Shown(a, b)

\* The pairs of ShownBefore are read back as elements of a product of rows.
LEMMA ShownPairsAre == ShownPairs
<1> SUFFICES ASSUME NEW a \in Live, NEW b \in Live
             PROVE  <<a, b>> \in ShownBefore <=> Shown(a, b)
  BY DEF ShownPairs
<1> DEFINE below == {e \in Live \X Live : e[2] \in Subtree(e[1])}
           earlier == {e \in Live \X Live :
                         /\ owner[e[1]] = owner[e[2]]
                         /\ parent[e[1]] = parent[e[2]]
                         /\ sort[e[1]] < sort[e[2]]}
<1>1. \A x, y \in Live : /\ <<x, y>> \in below <=> y \in Subtree(x)
                         /\ <<x, y>> \in earlier <=> Earlier(x, y)
  BY DEF Earlier
<1>2. \A f \in earlier : f = <<f[1], f[2]>> /\ f[1] \in Live /\ f[2] \in Live
  OBVIOUS
<1>3. <<a, b>> \in ShownBefore <=>
        \/ a # b /\ <<a, b>> \in below
        \/ \E f \in earlier : <<f[1], a>> \in below /\ <<f[2], b>> \in below
  BY DEF ShownBefore
<1> HIDE DEF below, earlier
<1>4. (\E f \in earlier : <<f[1], a>> \in below /\ <<f[2], b>> \in below)
        <=> \E x, y \in Live : Earlier(x, y) /\ a \in Subtree(x) /\ b \in Subtree(y)
  <2>1. ASSUME NEW f \in earlier, <<f[1], a>> \in below, <<f[2], b>> \in below
        PROVE  \E x, y \in Live : Earlier(x, y) /\ a \in Subtree(x) /\ b \in Subtree(y)
    <3>1. f[1] \in Live /\ f[2] \in Live /\ f = <<f[1], f[2]>>
      BY <1>2
    <3>2. Earlier(f[1], f[2]) /\ a \in Subtree(f[1]) /\ b \in Subtree(f[2])
      BY <1>1, <2>1, <3>1
    <3> QED BY <3>1, <3>2
  <2>2. ASSUME NEW x \in Live, NEW y \in Live, Earlier(x, y), a \in Subtree(x), b \in Subtree(y)
        PROVE  \E f \in earlier : <<f[1], a>> \in below /\ <<f[2], b>> \in below
    <3>1. <<x, y>> \in earlier /\ <<x, a>> \in below /\ <<y, b>> \in below
      BY <1>1, <2>2
    <3>2. PICK f : f = <<x, y>>
      OBVIOUS
    <3>3. f \in earlier /\ <<f[1], a>> \in below /\ <<f[2], b>> \in below
      BY <3>1, <3>2
    <3> QED BY <3>3
  <2> QED BY <2>1, <2>2
<1> QED BY <1>1, <1>3, <1>4 DEF Shown

\* Nothing that stays changes places.
OrderStays == \A a, b \in Live \intersect Live' : Shown(a, b) => Shown(a, b)'

\* A subtree keeps its rows when those whose parent was in it still have their
\* parent in it.
LEMMA SubtreeKept ==
  ASSUME NEW a \in Live, a \in Live', Live \subseteq Live',
         \A y \in Live : y # a /\ parent[y] \in Subtree(a)' => y \in Subtree(a)'
  PROVE  Subtree(a) \subseteq Subtree(a)'
<1>1. SubtreesAre'
  BY SubtreesAreSo, PTL
<1> DEFINE S == Subtree(a)' \intersect Live
<1>2. S \in SUBSET Live /\ a \in S
  BY <1>1 DEF SubtreesAre
<1>3. \A y \in Live : parent[y] \in S => y \in S
  BY <1>2
<1> HIDE DEF S
<1>4. Subtree(a) \subseteq S
  BY <1>2, <1>3, SubtreeLeast
<1> QED BY <1>4 DEF S

\* A new bullet and the room made for it change no order.
LEMMA InsertKeepsOrder ==
  ASSUME TypeOK, NEW u \in User, NEW id \in Rem, id \notin Live,
         NEW p \in Rem \union {Nil}, NEW c, NEW o \in Int,
         Insert(u, id, p, c, o, {q \in Level(u, p) : sort[q] >= o})
  PROVE  OrderStays
<1>1. /\ owner' = [owner EXCEPT ![id] = u] /\ parent' = [parent EXCEPT ![id] = p]
      /\ sort' = [Shifted({q \in Level(u, p) : sort[q] >= o}) EXCEPT ![id] = o]
  BY DEF Insert
<1>2. \A x \in Live : x \in Rem /\ x # id /\ sort[x] \in Int
  BY DEF Live, TypeOK
<1>3. /\ Live \subseteq Live'
      /\ \A x \in Live : owner'[x] = owner[x] /\ parent'[x] = parent[x]
  BY <1>1, <1>2 DEF Live, TypeOK
<1>4. \A x \in Live :
        sort'[x] = IF owner[x] = u /\ parent[x] = p /\ sort[x] >= o THEN sort[x] + 1 ELSE sort[x]
  BY <1>1, <1>2 DEF Shifted, Level
<1>5. \A x, y : Earlier(x, y) => Earlier(x, y)'
  <2> SUFFICES ASSUME NEW x, NEW y, Earlier(x, y) PROVE Earlier(x, y)'
    OBVIOUS
  <2>1. x \in Live /\ y \in Live /\ owner[x] = owner[y] /\ parent[x] = parent[y] /\ sort[x] < sort[y]
    BY DEF Earlier
  <2>2. sort'[x] < sort'[y]
    BY <1>2, <1>4, <2>1
  <2> QED BY <1>3, <2>1, <2>2 DEF Earlier
<1>6. SubtreesAre'
  BY SubtreesAreSo, PTL
<1>7. ASSUME NEW a \in Live PROVE Subtree(a) \subseteq Subtree(a)'
  <2>1. \A y \in Live : y # a /\ parent[y] \in Subtree(a)' => y \in Subtree(a)'
    BY <1>3, <1>6 DEF SubtreesAre
  <2> QED BY <1>3, <2>1, SubtreeKept
<1>8. ASSUME NEW a \in Live, NEW b \in Live, Shown(a, b) PROVE Shown(a, b)'
  <2>1. CASE a # b /\ b \in Subtree(a)
    BY <1>7, <2>1 DEF Shown
  <2>2. CASE \E x, y \in Live : Earlier(x, y) /\ a \in Subtree(x) /\ b \in Subtree(y)
    <3>1. PICK x, y \in Live : Earlier(x, y) /\ a \in Subtree(x) /\ b \in Subtree(y)
      BY <2>2
    <3>2. x \in Live' /\ y \in Live' /\ Earlier(x, y)' /\ a \in Subtree(x)' /\ b \in Subtree(y)'
      BY <1>3, <1>5, <1>7, <3>1
    <3> QED BY <3>2 DEF Shown
  <2> QED BY <1>8, <2>1, <2>2 DEF Shown
<1> QED BY <1>8 DEF OrderStays

\* An indented bullet takes its place at the end of the subtree of the sibling
\* above it, which is where it was shown.
LEMMA IndentKeepsOrder ==
  ASSUME Good, NEW u \in User, NEW r \in Rem, IndentRem(u, r)
  PROVE  OrderStays
<1>0. PICK prev \in PrecedingSiblings(u, r) : \E o \in EndOf(u, prev) :
        /\ parent' = [parent EXCEPT ![r] = prev]
        /\ sort' = [sort EXCEPT ![r] = o]
        /\ owner' = owner
  BY DEF IndentRem
<1>1. PICK o \in EndOf(u, prev) :
        /\ parent' = [parent EXCEPT ![r] = prev]
        /\ sort' = [sort EXCEPT ![r] = o]
        /\ owner' = owner
  BY <1>0
<1>2. /\ r \in Live /\ owner[r] = u
      /\ prev \in Live /\ owner[prev] = u /\ parent[prev] = parent[r] /\ sort[prev] < sort[r]
      /\ \A x \in Level(u, parent[r]) : sort[x] < sort[r] => sort[x] <= sort[prev]
      /\ prev # r
  BY DEF IndentRem, Owned, PrecedingSiblings, Level, Good, TypeOK, Live
<1>3. o \in Int /\ \A q \in Level(u, prev) : sort[q] < o
  BY EndOfType DEF EndOf, Good, TypeOK, Level, Live
<1>4. \A x \in Live : x \in Rem /\ sort[x] \in Int
  BY DEF Live, Good, TypeOK
<1>5. Live' = Live /\ \A x \in Live : owner'[x] = owner[x]
  BY <1>1 DEF Live
<1>6. /\ parent'[r] = prev /\ sort'[r] = o
      /\ \A x \in Live \ {r} : parent'[x] = parent[x] /\ sort'[x] = sort[x]
  BY <1>1, <1>2, <1>4 DEF Good, TypeOK
<1>7. SubtreesAre /\ SubtreesAre'
  BY SubtreesAreSo, PTL
<1>8. ASSUME NEW a \in Live PROVE Subtree(a) \subseteq Subtree(a)'
  <2>1. \A y \in Live : y # a /\ parent[y] \in Subtree(a)' => y \in Subtree(a)'
    <3> SUFFICES ASSUME NEW y \in Live, parent[y] \in Subtree(a)' PROVE y \in Subtree(a)'
      OBVIOUS
    <3>1. CASE y # r
      BY <1>5, <1>6, <1>7, <3>1 DEF SubtreesAre
    <3>2. CASE y = r
      <4>1. parent'[prev] \in Subtree(a)'
        BY <1>2, <1>6, <3>2
      <4>2. prev \in Subtree(a)'
        BY <1>2, <1>5, <1>7, <4>1 DEF SubtreesAre
      <4> QED BY <1>2, <1>5, <1>6, <1>7, <3>2, <4>2 DEF SubtreesAre
    <3> QED BY <3>1, <3>2
  <2> QED BY <1>5, <2>1, SubtreeKept
<1>9. prev \notin Subtree(r)
  <2> SUFFICES ASSUME prev \in Subtree(r) PROVE FALSE
    OBVIOUS
  <2>1. parent[r] \in Subtree(r)
    BY <1>2, <1>7 DEF SubtreesAre
  <2>2. \A y \in Subtree(r) : parent[y] \in Subtree(r)
    BY <1>2, <1>7, <2>1 DEF SubtreesAre
  <2>3. Subtree(r) \in SUBSET Live /\ r \in Subtree(r)
    BY <1>2, <1>7 DEF SubtreesAre
  <2> QED BY <2>2, <2>3 DEF Good, Acyclic
<1>10. r \in Subtree(prev)' /\ Subtree(r)' \subseteq Subtree(prev)'
  BY <1>2, <1>5, <1>6, <1>7 DEF SubtreesAre
<1>11. ASSUME NEW a \in Subtree(prev), NEW b \in Subtree(r) PROVE Shown(a, b)'
  <2>1. a \in Live /\ b \in Live /\ b \in Subtree(r)' /\ b \in Subtree(prev)'
    BY <1>2, <1>7, <1>8, <1>10 DEF SubtreesAre
  <2>2. CASE a = prev
    BY <1>9, <2>1, <2>2 DEF Shown
  <2>3. CASE a # prev
    <3> DEFINE S == {prev} \union {y \in Live : \E k \in Live : parent[k] = prev /\ y \in Subtree(k)}
    <3>1. S \in SUBSET Live /\ prev \in S
      BY <1>2
    <3>2. \A y \in Live : parent[y] \in S => y \in S
      <4> TAKE y \in Live
      <4>1. CASE parent[y] = prev
        BY <1>7, <4>1 DEF SubtreesAre
      <4>2. ASSUME NEW k \in Live, parent[k] = prev, parent[y] \in Subtree(k) PROVE y \in S
        BY <1>7, <4>2 DEF SubtreesAre
      <4> QED BY <4>1, <4>2
    <3> HIDE DEF S
    <3>3. a \in S
      BY <1>2, <3>1, <3>2, SubtreeLeast
    <3>4. PICK k \in Live : parent[k] = prev /\ a \in Subtree(k)
      BY <2>3, <3>3 DEF S
    <3>5. owner[k] = u
      BY <1>2, <1>4, <3>4, OutlineAssumption DEF Good, ParentOwned
    <3>6. k # r
      BY <1>2, <1>9, <3>4, OtherParent
    <3>7. Earlier(k, r)'
      BY <1>2, <1>3, <1>5, <1>6, <3>4, <3>5, <3>6 DEF Earlier, Level
    <3>8. a \in Subtree(k)'
      BY <1>8, <3>4
    <3> QED BY <1>2, <1>5, <2>1, <3>7, <3>8 DEF Shown
  <2> QED BY <2>2, <2>3
<1>12. ASSUME NEW x \in Live, NEW y \in Live, Earlier(x, y),
              NEW a \in Subtree(x), NEW b \in Subtree(y)
       PROVE  Shown(a, b)'
  <2>1. a \in Subtree(x)' /\ b \in Subtree(y)'
    BY <1>8
  <2>2. CASE x # r /\ y # r
    <3>1. Earlier(x, y)'
      BY <1>5, <1>6, <1>12, <2>2 DEF Earlier
    <3> QED BY <1>5, <2>1, <3>1 DEF Shown
  <2>3. CASE x = r
    <3>1. y # r /\ y # prev /\ Earlier(prev, y)
      BY <1>2, <1>4, <1>12, <2>3 DEF Earlier
    <3>2. Earlier(prev, y)'
      BY <1>2, <1>5, <1>6, <3>1 DEF Earlier
    <3>3. a \in Subtree(prev)'
      BY <1>10, <2>1, <2>3
    <3> QED BY <1>2, <1>5, <2>1, <3>2, <3>3 DEF Shown
  <2>4. CASE y = r
    <3>1. x \in Level(u, parent[r]) /\ sort[x] < sort[r] /\ x # r
      BY <1>2, <1>4, <1>12, <2>4 DEF Earlier, Level
    <3>2. CASE x = prev
      BY <1>11, <2>4, <3>2
    <3>3. CASE x # prev
      <4>1. sort[x] # sort[prev]
        <5>1. prev \in Level(u, parent[r]) /\ u \in User /\ parent[r] \in Rem \union {Nil}
          BY <1>2 DEF Level, Good, TypeOK
        <5> QED BY <3>1, <3>3, <5>1 DEF Good, DistinctOrders
      <4>2. sort[x] < sort[prev]
        BY <1>2, <1>4, <3>1, <4>1
      <4>3. Earlier(x, prev)'
        BY <1>2, <1>5, <1>6, <3>1, <4>2 DEF Earlier, Level
      <4>4. b \in Subtree(prev)'
        BY <1>10, <2>1, <2>4
      <4> QED BY <1>2, <1>5, <2>1, <4>3, <4>4 DEF Shown
    <3> QED BY <3>2, <3>3
  <2> QED BY <2>2, <2>3, <2>4
<1>13. ASSUME NEW a \in Live, NEW b \in Live, Shown(a, b) PROVE Shown(a, b)'
  <2>1. CASE a # b /\ b \in Subtree(a)
    BY <1>8, <2>1 DEF Shown
  <2>2. CASE \E x, y \in Live : Earlier(x, y) /\ a \in Subtree(x) /\ b \in Subtree(y)
    BY <1>12, <2>2
  <2> QED BY <1>13, <2>1, <2>2 DEF Shown
<1> QED BY <1>13 DEF OrderStays

\* The pairs that an outdent of r turns around: r, or what is below it, is
\* moved past what is below its old parent.
MovedPast(a, b) ==
  \E r \in Live : /\ parent[r] # Nil
                  /\ parent'[r] = parent[parent[r]]
                  /\ a \in Subtree(r)
                  /\ b \in Subtree(parent[r])

\* An outdented bullet moves behind the subtree of its old parent, and past
\* nothing else.
LEMMA OutdentKeepsOrder ==
  ASSUME Good, NEW u \in User, NEW r \in Rem, OutdentRem(u, r)
  PROVE  \A a, b \in Live : Shown(a, b) => Shown(a, b)' \/ MovedPast(a, b)
<1> PICK p : p = parent[r]
  OBVIOUS
<1> PICK g : g = parent[p]
  OBVIOUS
<1>1. /\ r \in Live /\ owner[r] = u /\ p \in Live /\ owner[p] = u /\ p # Nil
      /\ parent' = [parent EXCEPT ![r] = g]
      /\ sort' = [Shifted({q \in Level(u, g) : sort[q] > sort[p]}) EXCEPT ![r] = sort[p] + 1]
      /\ owner' = owner
  BY DEF OutdentRem, Owned
<1>2. \A x \in Live : x \in Rem /\ sort[x] \in Int
  BY DEF Live, Good, TypeOK
<1>3. Live' = Live /\ \A x \in Live : owner'[x] = owner[x]
  BY <1>1 DEF Live
<1>4. p # r /\ g # p
  BY <1>1, OtherParent
<1>5. /\ parent'[r] = g /\ sort'[r] = sort[p] + 1
      /\ \A x \in Live \ {r} : parent'[x] = parent[x]
  <2>1. /\ DOMAIN parent = Rem /\ Live \subseteq Rem
        /\ DOMAIN Shifted({q \in Level(u, g) : sort[q] > sort[p]}) = Rem
    BY DEF Good, TypeOK, Live, Shifted
  <2>2. sort'[r] = sort[p] + 1
    BY <1>1, <2>1
  <2> QED BY <1>1, <2>1, <2>2
<1>6. \A x \in Live \ {r} :
        sort'[x] = IF owner[x] = u /\ parent[x] = g /\ sort[x] > sort[p] THEN sort[x] + 1 ELSE sort[x]
  BY <1>1, <1>2 DEF Shifted, Level, Good, TypeOK
<1>7. SubtreesAre /\ SubtreesAre'
  BY SubtreesAreSo, PTL
<1>8. ASSUME NEW a \in Live, a # p PROVE Subtree(a) \subseteq Subtree(a)'
  <2>1. \A y \in Live : y # a /\ parent[y] \in Subtree(a)' => y \in Subtree(a)'
    <3> SUFFICES ASSUME NEW y \in Live, parent[y] \in Subtree(a)' PROVE y \in Subtree(a)'
      OBVIOUS
    <3>1. CASE y # r
      BY <1>3, <1>5, <1>7, <3>1 DEF SubtreesAre
    <3>2. CASE y = r
      <4>1. p \in Subtree(a)' /\ p # a
        BY <1>8, <3>2
      <4>2. g \in Subtree(a)'
        BY <1>1, <1>3, <1>4, <1>5, <1>7, <4>1 DEF SubtreesAre
      <4> QED BY <1>1, <1>3, <1>5, <1>7, <3>2, <4>2 DEF SubtreesAre
    <3> QED BY <3>1, <3>2
  <2> QED BY <1>3, <2>1, SubtreeKept
<1>9. Subtree(p) \subseteq Subtree(p)' \union Subtree(r)'
  <2> DEFINE S == Subtree(p)' \union Subtree(r)'
  <2>1. S \in SUBSET Live /\ p \in S /\ r \in S
    BY <1>1, <1>3, <1>7 DEF SubtreesAre
  <2>2. \A y \in Live : parent[y] \in S => y \in S
    <3> TAKE y \in Live
    <3>1. CASE y = r
      BY <2>1, <3>1
    <3>2. CASE y # r
      BY <1>1, <1>3, <1>5, <1>7, <3>2 DEF SubtreesAre
    <3> QED BY <3>1, <3>2
  <2> HIDE DEF S
  <2>3. Subtree(p) \subseteq S
    BY <1>1, <2>1, <2>2, SubtreeLeast
  <2> QED BY <2>3 DEF S
<1>10. Earlier(p, r)'
  <2>1. parent'[p] = g /\ parent'[r] = g
    BY <1>1, <1>4, <1>5
  <2>2. sort[p] \in Int
    BY <1>1, <1>2
  <2>3. sort'[p] = sort[p]
    <3>1. p \in Live \ {r}
      BY <1>1, <1>4
    <3>2. ~ (sort[p] > sort[p])
      BY <2>2
    <3> QED BY <1>6, <3>1, <3>2
  <2>4. sort'[p] < sort'[r]
    BY <1>5, <2>2, <2>3
  <2>5. owner'[p] = owner'[r]
    BY <1>1
  <2>6. p \in Live' /\ r \in Live'
    BY <1>1, <1>3
  <2> QED BY <2>1, <2>4, <2>5, <2>6 DEF Earlier
<1>11. p \in Subtree(p)' /\ p \in Live' /\ r \in Live'
  BY <1>1, <1>3, <1>7 DEF SubtreesAre
<1>12. ASSUME NEW a \in Live, NEW b \in Subtree(a), a # b PROVE Shown(a, b)'
  <2>1. CASE a # p
    BY <1>8, <1>12, <2>1 DEF Shown
  <2>2. CASE a = p
    <3>1. CASE b \in Subtree(p)'
      BY <1>12, <2>2, <3>1 DEF Shown
    <3>2. CASE b \in Subtree(r)'
      BY <1>10, <1>11, <2>2, <3>2 DEF Shown
    <3> QED BY <1>9, <2>2, <3>1, <3>2
  <2> QED BY <2>1, <2>2
<1>13. ASSUME NEW x \in Live, NEW y \in Live, Earlier(x, y),
              NEW a \in Subtree(x), NEW b \in Subtree(y)
       PROVE  Shown(a, b)' \/ MovedPast(a, b)
  <2>1. /\ owner[x] = owner[y] /\ parent[x] = parent[y] /\ sort[x] < sort[y] /\ x # y
        /\ sort[x] \in Int /\ sort[y] \in Int /\ sort[p] \in Int
    BY <1>1, <1>2, <1>13 DEF Earlier
  <2>2. CASE x = r
    <3>1. y \in Subtree(p)
      BY <1>1, <1>7, <2>1, <2>2 DEF SubtreesAre
    <3>2. b \in Subtree(p)
      BY <1>1, <1>7, <3>1 DEF SubtreesAre
    <3> QED BY <1>1, <1>5, <2>2, <3>2 DEF MovedPast
  <2>3. CASE y = r
    <3>1. x # r /\ x # p
      BY <1>1, <2>1, <2>3, OtherParent
    <3>2. parent'[x] = p
      BY <1>5, <2>1, <2>3, <3>1
    <3>3. x \in Subtree(p)'
      BY <1>3, <1>7, <1>11, <3>2 DEF SubtreesAre
    <3>4. a \in Subtree(x)' /\ b \in Subtree(r)'
      BY <1>4, <1>8, <2>3, <3>1
    <3>5. a \in Subtree(p)'
      BY <1>7, <1>11, <3>3, <3>4 DEF SubtreesAre
    <3> QED BY <1>10, <1>11, <3>4, <3>5 DEF Shown
  <2>4. CASE x # r /\ y # r
    <3>1. Earlier(x, y)'
      <4>1. sort'[x] < sort'[y]
        BY <1>6, <2>1, <2>4
      <4> QED BY <1>3, <1>5, <2>1, <2>4, <4>1 DEF Earlier
    <3>2. CASE x # p /\ y # p
      <4>1. a \in Subtree(x)' /\ b \in Subtree(y)'
        BY <1>8, <3>2
      <4> QED BY <1>3, <3>1, <4>1 DEF Shown
    <3>3. CASE x = p
      <4>1. b \in Subtree(y)'
        BY <1>8, <2>1, <3>3
      <4>2. CASE a \in Subtree(p)'
        BY <1>3, <3>1, <3>3, <4>1, <4>2 DEF Shown
      <4>3. CASE a \in Subtree(r)'
        <5>1. sort'[y] = sort[y] + 1
          BY <1>1, <1>6, <2>1, <2>4, <3>3
        <5>2. sort'[r] < sort'[y]
          BY <1>5, <2>1, <3>3, <5>1
        <5>3. parent'[y] = g /\ owner'[y] = u
          BY <1>1, <1>3, <1>5, <2>1, <2>4, <3>3
        <5>4. Earlier(r, y)'
          BY <1>1, <1>3, <1>5, <5>2, <5>3 DEF Earlier
        <5> QED BY <1>3, <1>11, <4>1, <4>3, <5>4 DEF Shown
      <4> QED BY <1>9, <3>3, <4>2, <4>3
    <3>4. CASE y = p
      <4>1. a \in Subtree(x)'
        BY <1>8, <2>1, <3>4
      <4>2. CASE b \in Subtree(p)'
        BY <1>3, <3>1, <3>4, <4>1, <4>2 DEF Shown
      <4>3. CASE b \in Subtree(r)'
        <5>1. sort'[x] = sort[x]
          BY <1>6, <2>1, <2>4, <3>4
        <5>2. sort'[x] < sort'[r]
          BY <1>5, <2>1, <3>4, <5>1
        <5>3. parent'[x] = g /\ owner'[x] = u
          BY <1>1, <1>3, <1>5, <2>1, <2>4, <3>4
        <5>4. Earlier(x, r)'
          BY <1>1, <1>3, <1>5, <5>2, <5>3 DEF Earlier
        <5> QED BY <1>3, <1>11, <4>1, <4>3, <5>4 DEF Shown
      <4> QED BY <1>9, <3>4, <4>2, <4>3
    <3> QED BY <3>2, <3>3, <3>4
  <2> QED BY <2>2, <2>3, <2>4
<1> QED
  <2> SUFFICES ASSUME NEW a \in Live, NEW b \in Live, Shown(a, b)
               PROVE  Shown(a, b)' \/ MovedPast(a, b)
    OBVIOUS
  <2>1. CASE a # b /\ b \in Subtree(a)
    BY <1>12, <2>1
  <2>2. CASE \E x, y \in Live : Earlier(x, y) /\ a \in Subtree(x) /\ b \in Subtree(y)
    BY <1>13, <2>2
  <2> QED BY <2>1, <2>2 DEF Shown

\* What a step may do to the order in which the bullets are shown.
PlacesKept ==
  (\E r \in Live \intersect Live' : parent'[r] # parent[r] \/ sort'[r] # sort[r]) =>
    \A a, b \in Live \intersect Live' : Shown(a, b) => Shown(a, b)' \/ MovedPast(a, b)

\* No operation of the web client does more.
LEMMA ReadingStep == Good /\ [EditorNext]_vars => PlacesKept
<1> SUFFICES ASSUME Good, [EditorNext]_vars,
                    NEW m \in Live \intersect Live', parent'[m] # parent[m] \/ sort'[m] # sort[m]
             PROVE  \A a, b \in Live \intersect Live' :
                      Shown(a, b) => Shown(a, b)' \/ MovedPast(a, b)
  BY DEF PlacesKept
<1>1. ~ UNCHANGED <<parent, sort>>
  OBVIOUS
<1>2. ASSUME NEW u \in User, NEW r \in Rem, NEW c \in Content,
             \/ \E p \in Rem \union {Nil}, at \in Position \union {Nil} :
                  CreateRem(u, r, p, c, at)
             \/ \E prev \in Rem : CreateRemAfter(u, r, prev, c)
      PROVE  OrderStays
  <2>1. /\ r \notin Live
        /\ \E p \in Rem \union {Nil}, o \in Int, S \in SUBSET Rem :
             /\ p = Nil \/ Owned(u, p)
             /\ S = {q \in Level(u, p) : sort[q] >= o}
             /\ Insert(u, r, p, c, o, S)
    BY <1>2, CreateIsInsert DEF Good
  <2>2. PICK p \in Rem \union {Nil}, o \in Int :
          Insert(u, r, p, c, o, {q \in Level(u, p) : sort[q] >= o})
    BY <2>1
  <2> QED BY <2>1, <2>2, InsertKeepsOrder DEF Good
<1>3. ASSUME NEW u \in User, NEW r \in Rem, DeleteRem(u, r) PROVE FALSE
  <2>1. m \in Rem /\ m \notin Subtree(r)
    BY <1>3 DEF DeleteRem, Live
  <2> QED BY <1>3, <2>1 DEF DeleteRem
<1>4. ASSUME NEW u \in User, NEW r \in Rem, IndentRem(u, r) PROVE OrderStays
  BY <1>4, IndentKeepsOrder
<1>5. ASSUME NEW u \in User, NEW r \in Rem, OutdentRem(u, r)
      PROVE  \A a, b \in Live : Shown(a, b) => Shown(a, b)' \/ MovedPast(a, b)
  BY <1>5, OutdentKeepsOrder
<1>6. PICK u \in User, r \in Rem :
        \/ \E p \in Rem \union {Nil}, c \in Content, at \in Position \union {Nil} :
             CreateRem(u, r, p, c, at)
        \/ \E prev \in Rem, c \in Content : CreateRemAfter(u, r, prev, c)
        \/ \E c \in Content, k \in BOOLEAN : UpdateRem(u, r, c, k)
        \/ DeleteRem(u, r)
        \/ IndentRem(u, r)
        \/ OutdentRem(u, r)
        \/ ToggleCollapse(u, r)
        \/ QueryNeverEnds(u, r)
  BY <1>1 DEF EditorNext, vars
<1>7. (\E c \in Content, k \in BOOLEAN : UpdateRem(u, r, c, k)) \/ ToggleCollapse(u, r) \/ QueryNeverEnds(u, r)
        => UNCHANGED <<parent, sort>>
  BY DEF UpdateRem, ToggleCollapse, QueryNeverEnds
<1> QED BY <1>1, <1>2, <1>3, <1>4, <1>5, <1>6, <1>7 DEF OrderStays

\* When bullets change places, by an insert that makes room, an indent or an
\* outdent, those that stay keep the order in which they are shown; an outdent
\* only moves the bullet, with what is below it, past the rest of its old
\* parent's subtree.
THEOREM ReadingOrderKept == EditorSpec => ReadingOrder
<1>1. Init => Good
  BY InitTypes DEF Good, Init, ParentOwned, Acyclic, DistinctOrders, Level, Live
<1>2. Good /\ [EditorNext]_vars => Good'
  BY TypeStep, OwnedStep, AcyclicStep, DistinctStep DEF Good, Next
<1> DEFINE A == (\E r \in Live \intersect Live' : parent'[r] # parent[r] \/ sort'[r] # sort[r]) =>
     \A e \in ShownBefore \ ShownBefore' : e \in Live' \X Live' =>
       \E r \in Live : /\ parent[r] # Nil
                       /\ parent'[r] = parent[parent[r]]
                       /\ e[1] \in Subtree(r)
                       /\ e[2] \in Subtree(parent[r])
<1>3. Good /\ [EditorNext]_vars => A
  <2> SUFFICES ASSUME Good, [EditorNext]_vars,
                      NEW m \in Live \intersect Live', parent'[m] # parent[m] \/ sort'[m] # sort[m],
                      NEW e \in ShownBefore \ ShownBefore', e \in Live' \X Live'
               PROVE  MovedPast(e[1], e[2])
    BY DEF MovedPast
  <2>1. e \in Live \X Live
    BY DEF ShownBefore
  <2>2. PICK a \in Live, b \in Live : e = <<a, b>>
    BY <2>1
  <2>3. a \in Live' /\ b \in Live' /\ e[1] = a /\ e[2] = b
    BY <2>2
  <2>4. ShownPairs /\ ShownPairs'
    BY ShownPairsAre, PTL
  <2>5. Shown(a, b) /\ ~Shown(a, b)'
    BY <2>2, <2>3, <2>4 DEF ShownPairs
  <2>6. PlacesKept
    BY ReadingStep
  <2> QED BY <2>3, <2>5, <2>6 DEF PlacesKept
<1> QED BY <1>1, <1>2, <1>3, PTL DEF EditorSpec, ReadingOrder

=============================================================================
