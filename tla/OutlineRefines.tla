--------------------------- MODULE OutlineRefines ---------------------------
(* The rows of Outline, with their sort orders, implement nested lists.      *)
EXTENDS Outline

\* The sequences of the rows of S that ORDER BY sort_order allows.
InOrder(S, key) ==
  {s \in SetToSeqs(S) : \A i, j \in DOMAIN s : i < j => key[s[i]] <= key[s[j]]}

\* The list of a level; there is one, as long as orders are distinct.
Sorted(u, p) == CHOOSE s \in InOrder(Level(u, p), sort) : TRUE

lists == [l \in User \X (Rem \union {Nil}) |-> Sorted(l[1], l[2])]

Lists == INSTANCE NestedLists WITH kids <- lists

\* Whatever the shifting and appending of sort orders does, the user sees the
\* operations of NestedLists: a bullet appears at one place, disappears with
\* its branch, is indented to the end of the list of the bullet above it, or
\* outdented to right after its parent, and no other bullet moves.
ImplementsNestedLists == Lists!Spec
=============================================================================
