---------------------------- MODULE NestedLists ----------------------------
(***************************************************************************)
(* What an outline is to its user: under nothing and under each bullet a   *)
(* list of bullets.  There are no sort orders here; a bullet is inserted   *)
(* into a list, removed with everything below it, indented to the end of   *)
(* the list of the bullet above it, or outdented to the place right after  *)
(* its parent.  Outline implements this: see OutlineRefines.               *)
(***************************************************************************)
EXTENDS Integers, Sequences, SequencesExt

CONSTANTS
  Rem, User,
  Nil        \* the parent of the bullets at the root

VARIABLE kids   \* the list of each level

Levels == User \X (Rem \union {Nil})

\* Everything below r, and r: the least set that holds r and, with a bullet,
\* the list under it.
Branch(r) ==
  LET Under(S) == UNION {ToSet(kids[l]) : l \in {l \in Levels : l[2] \in S}}
      Closed == {S \in SUBSET Rem : r \in S /\ Under(S) \subseteq S}
  IN {x \in Rem : \A S \in Closed : x \in S}

Shown == UNION {ToSet(kids[l]) : l \in Levels}

Init == kids = [l \in Levels |-> <<>>]

\* A list exists at the root and under each bullet of the user.
Exists(l) == l[2] = Nil \/ \E p \in Rem \union {Nil} : l[2] \in ToSet(kids[<<l[1], p>>])

Add(l, i, r) ==
  /\ r \notin Shown
  /\ Exists(l)
  /\ kids' = [kids EXCEPT ![l] = InsertAt(@, i, r)]

Prune(l, i) ==
  LET gone == Branch(kids[l][i])
  IN kids' = [m \in Levels |-> IF m = l THEN RemoveAt(kids[m], i)
                               ELSE IF m[2] \in gone THEN <<>>
                               ELSE kids[m]]

Indent(l, i) ==
  /\ i > 1
  /\ kids' = [kids EXCEPT ![l] = RemoveAt(@, i),
                          ![<<l[1], kids[l][i - 1]>>] = Append(@, kids[l][i])]

Outdent(l, i) ==
  \E k \in Levels : k[1] = l[1] /\ \E j \in DOMAIN kids[k] :
    /\ kids[k][j] = l[2]
    /\ kids' = [kids EXCEPT ![l] = RemoveAt(@, i),
                            ![k] = InsertAt(@, j + 1, kids[l][i])]

Next ==
  \E l \in Levels :
    \/ \E r \in Rem, i \in 1..(Len(kids[l]) + 1) : Add(l, i, r)
    \/ \E i \in DOMAIN kids[l] : Prune(l, i) \/ Indent(l, i) \/ Outdent(l, i)

Spec == Init /\ [][Next]_kids
=============================================================================
