------------------------------- MODULE Import -------------------------------
(***************************************************************************)
(* The import of a Markdown outline into the notes of a user, with the     *)
(* references its lines make, and its export.  Each line is a CreateRem in *)
(* a transaction of its own, placed with a stack of the bullets made so    *)
(* far; others use the outline between two lines.  Levels are lists, as in *)
(* NestedLists, which Outline implements.                                  *)
(***************************************************************************)
EXTENDS References

CONSTANTS
  Docs,      \* documents: sequences of lines
  Blank,     \* the content of a line that has none
  MaxActs,   \* operations of others when there is an import (bound)
  MaxFree    \* operations before there is one (bound)

ASSUME ImportAssumption ==
  /\ Blank \notin Text
  /\ \A d \in Docs : d \in Seq([indent : Nat, text : Text \union {Blank}])
  /\ MaxActs \in Nat /\ MaxFree \in Nat

VARIABLES
  kids,      \* the list under each bullet and, under Nil, at the root
  used,      \* the ids handed out so far
  doc,       \* the document that is imported, <<>> before
  line,      \* how many of its lines have been read
  stack,     \* the bullets that the next line may go under, outermost first
  made,      \* the bullet of each line that made one
  failed,    \* the import has ended with an error
  moved,     \* history: bullets that have been indented or outdented
  acts       \* operations of others so far, counted

job == <<doc, line, stack, made, failed>>
vars == <<text, link, lost, kids, used, job, moved, acts>>

Act ==
  /\ acts < IF doc = <<>> THEN MaxFree ELSE MaxActs
  /\ acts' = acts + 1

Parent(r) == CHOOSE p \in Rem \union {Nil} : r \in ToSet(kids[p])
Place(r) == CHOOSE i \in DOMAIN kids[Parent(r)] : kids[Parent(r)][i] = r

\* The lists when r has been taken out of its list.
Taken(r) == [kids EXCEPT ![Parent(r)] = RemoveAt(@, Place(r))]

\* r and everything below it.
Branch(r) ==
  LET Closed == {S \in SUBSET There(text) : r \in S /\ \A x \in S : ToSet(kids[x]) \subseteq S}
  IN {x \in There(text) : \A S \in Closed : x \in S}

\* CreateRem without an order: at the end of the list of p.
CreateRem(r, p, t) ==
  /\ r \notin used
  /\ p # Nil => text[p] # Nil
  /\ LET T == [text EXCEPT ![r] = t] IN Save(T, link, lost, r, p, Nil)
  /\ kids' = [kids EXCEPT ![p] = Append(@, r)]
  /\ used' = used \union {r}

----------------------------------------------------------------------------
(* ImportMarkdown.                                                          *)

StartImport(d) ==
  /\ doc = <<>>
  /\ doc' = d
  /\ UNCHANGED <<text, link, lost, kids, used, line, stack, made, failed, moved, acts>>

\* A level for two columns; a tab counts for two.
Level(l) == l.indent \div 2

\* Variant: a bullet of the same level stays on the stack.
PoppedLower(n) == SelectSeq(stack, LAMBDA e : e.level <= n)

\* Bullets that are not above level n are popped off the end of the stack.
Popped(n) ==
  LET Keep == {i \in 0..Len(stack) : i = 0 \/ stack[i].level < n}
  IN SubSeq(stack, 1, CHOOSE i \in Keep : \A j \in Keep : j <= i)

Over(s) == IF s = <<>> THEN Nil ELSE Last(s).id

Running == doc # <<>> /\ line < Len(doc) /\ ~failed

SkipBlank ==
  /\ Running
  /\ doc[line + 1].text = Blank
  /\ line' = line + 1
  /\ UNCHANGED <<text, link, lost, kids, used, doc, stack, made, failed, moved, acts>>

ImportLine(r) ==
  LET l == doc[line + 1]
      s == Popped(Level(l))
  IN /\ Running
     /\ l.text # Blank
     /\ CreateRem(r, Over(s), l.text)
     /\ stack' = Append(s, [id |-> r, level |-> Level(l)])
     /\ line' = line + 1
     /\ made' = [i \in DOMAIN made \union {line + 1} |-> IF i = line + 1 THEN r ELSE made[i]]
     /\ UNCHANGED <<doc, failed, moved, acts>>

\* The bullet that the line goes under is gone: what was made stays.
ImportFails ==
  /\ Running
  /\ doc[line + 1].text # Blank
  /\ LET p == Over(Popped(Level(doc[line + 1]))) IN p # Nil /\ text[p] = Nil
  /\ failed' = TRUE
  /\ UNCHANGED <<text, link, lost, kids, used, doc, line, stack, made, moved, acts>>

----------------------------------------------------------------------------
(* Others meanwhile, before and after.                                      *)

CreateOther(r, p, t) ==
  /\ Act
  /\ CreateRem(r, p, t)
  /\ UNCHANGED <<job, moved>>

UpdateRem(r, t) ==
  /\ text[r] \notin {Nil, t}
  /\ Act
  /\ LET T == [text EXCEPT ![r] = t] IN Save(T, link, lost, r, Parent(r), Nil)
  /\ UNCHANGED <<kids, used, job, moved>>

DeleteRem(r) ==
  /\ text[r] # Nil
  /\ Act
  /\ LET gone == Branch(r)
         T == [x \in Rem |-> IF x \in gone THEN Nil ELSE text[x]]
     IN /\ Save(T, Without(link, gone), LostWith(gone), Nil, Parent(r), Nil)
        /\ kids' = [p \in Rem \union {Nil} |-> IF p \in gone THEN <<>> ELSE Taken(r)[p]]
  /\ UNCHANGED <<used, job, moved>>

IndentRem(r) ==
  LET p == Parent(r)
      q == kids[p][Place(r) - 1]
  IN /\ text[r] # Nil
     /\ Place(r) > 1
     /\ Act
     /\ kids' = [Taken(r) EXCEPT ![q] = Append(@, r)]
     /\ Save(text, link, lost, Nil, p, q)
     /\ moved' = moved \union {r}
     /\ UNCHANGED <<used, job>>

\* Only the old parent is saved again.
OutdentRem(r) ==
  LET p == Parent(r)
      q == Parent(p)
  IN /\ text[r] # Nil
     /\ p # Nil
     /\ Act
     /\ kids' = [Taken(r) EXCEPT ![q] = InsertAt(@, Place(p) + 1, r)]
     /\ Save(text, link, lost, Nil, p, Nil)
     /\ moved' = moved \union {r}
     /\ UNCHANGED <<used, job>>

----------------------------------------------------------------------------
(* ExportMarkdown.                                                          *)

\* Variant: the level grows from one sibling to the next.
ExportSteps(roots) ==
  LET Lines[x \in Rem \X Nat] ==
        FoldLeft(LAMBDA ls, c : ls \o Lines[<<c, x[2] + Len(ls)>>],
                 <<[level |-> x[2], text |-> text[x[1]]]>>, kids[x[1]])
  IN FoldLeft(LAMBDA ls, r : ls \o Lines[<<r, 0>>], <<>>, roots)

\* The lines of the branches of roots, depth first, with their levels.
Export(roots) ==
  LET Lines[x \in Rem \X Nat] ==
        FoldLeft(LAMBDA ls, c : ls \o Lines[<<c, x[2] + 1>>],
                 <<[level |-> x[2], text |-> text[x[1]]]>>, kids[x[1]])
  IN FoldLeft(LAMBDA ls, r : ls \o Lines[<<r, 0>>], <<>>, roots)

----------------------------------------------------------------------------
Init ==
  /\ text = [r \in Rem |-> Nil]
  /\ link = [r \in Rem |-> [u \in {} |-> Nil]]
  /\ lost = [r \in Rem |-> {}]
  /\ kids = [p \in Rem \union {Nil} |-> <<>>]
  /\ used = {}
  /\ doc = <<>>
  /\ line = 0
  /\ stack = <<>>
  /\ made = [i \in {} |-> Nil]
  /\ failed = FALSE
  /\ moved = {}
  /\ acts = 0

Next ==
  \/ \E d \in Docs : StartImport(d)
  \/ SkipBlank
  \/ ImportFails
  \/ \E r \in Rem :
       \/ ImportLine(r)
       \/ \E t \in Text : UpdateRem(r, t) \/ \E p \in Rem \union {Nil} : CreateOther(r, p, t)
       \/ DeleteRem(r) \/ IndentRem(r) \/ OutdentRem(r)

Spec == Init /\ [][Next]_vars

----------------------------------------------------------------------------
\* Types; a bullet that exists is in exactly one list, exactly once, under a
\* bullet that exists or at the root, and links lead to bullets that exist.
TypeOK ==
  /\ text \in [Rem -> Text \union {Nil}]
  /\ kids \in [Rem \union {Nil} -> Seq(Rem)]
  /\ \A r \in Rem :
       LET refs == IF text[r] = Nil THEN {} ELSE text[r].refs
       IN /\ link[r] \in [refs -> There(text) \union {Nil}]
          /\ text[r] = Nil => kids[r] = <<>>
          /\ text[r] # Nil <=> \E p \in Rem \union {Nil} : r \in ToSet(kids[p])
  /\ \A p, q \in Rem \union {Nil} : \A i \in DOMAIN kids[p], j \in DOMAIN kids[q] :
       kids[p][i] = kids[q][j] => p = q /\ i = j
  /\ lost \in [Rem -> SUBSET Title]
  /\ There(text) \subseteq used /\ used \subseteq Rem
  /\ doc \in Docs \union {<<>>} /\ line \in 0..Len(doc)
  /\ stack \in Seq([id : Rem, level : Nat])
  /\ DOMAIN made \subseteq 1..line
  /\ moved \subseteq Rem

\* What an outline means: a line belongs under the nearest line before it that
\* is indented less.
LineOver(i) ==
  LET less == {j \in DOMAIN made : j < i /\ Level(doc[j]) < Level(doc[i])}
  IN IF less = {} THEN 0 ELSE CHOOSE j \in less : \A k \in less : k <= j

\* Whatever is written, moved or deleted while the import runs, a bullet it
\* made is under the bullet of the line its line belongs under, wherever that
\* one is now, and after the bullets of earlier lines there; only moving the
\* bullet itself changes that.
NestingKept ==
  \A i \in DOMAIN made :
    made[i] \notin moved /\ text[made[i]] # Nil =>
      LET p == IF LineOver(i) = 0 THEN Nil ELSE made[LineOver(i)] IN
      /\ made[i] \in ToSet(kids[p])
      /\ \A j \in DOMAIN made :
           j < i /\ made[j] \in ToSet(kids[p]) \ moved =>
             \E a, b \in DOMAIN kids[p] : a < b /\ kids[p][a] = made[j] /\ kids[p][b] = made[i]

\* The level of a line with the levels in between that no line has left out.
Depth[i \in Nat] == IF LineOver(i) = 0 THEN 0 ELSE Depth[LineOver(i)] + 1

\* An import that nobody disturbs can be exported: the lines come out in their
\* order, each as far in as its line belongs.
RoundTrip ==
  doc # <<>> /\ line = Len(doc) /\ acts = 0 =>
    Export(kids[Nil]) =
      [n \in 1..Cardinality(DOMAIN made) |->
         LET i == CHOOSE i \in DOMAIN made : Cardinality({j \in DOMAIN made : j <= i}) = n
         IN [level |-> Depth[i], text |-> doc[i].text]]
=============================================================================
