------------------------------ MODULE MCImport ------------------------------
(* Instances of Import and References for TLC.                              *)
EXTENDS Import

CONSTANTS go, google   \* two titles; the second begins with the first

Says(u, b, rs, l) == [title |-> u, begins |-> b, refs |-> rs, list |-> l]

Go == Says(go, {go}, {}, FALSE)                     \* Go :: a language
Google == Says(google, {go, google}, {}, FALSE)     \* Google
Marked == Says(go, {}, {}, FALSE)                   \* {{Go}}
See == Says(NoTitle, {}, {go}, FALSE)               \* see [[Go]]
Only == Says(go, {}, {go}, TRUE)                    \* [[Go]] ==>
List == Says(google, {go, google}, {go}, TRUE)      \* Google ==> [[Go]]

AllTexts == {Go, Google, Marked, See, Only, List}

Line(n, t) == [indent |-> n, text |-> t]

\* Every nesting of three lines, some with a list whose title is a reference, and
\* one with a line left blank.
AllDocs ==
  {<<Line(a, List), Line(b, See), Line(c, Go)>> : a, b, c \in {0, 2, 5}}
  \union {<<Line(0, Only), Line(b, See), Line(c, Go)>> : b, c \in {0, 2}}
  \union {<<Line(0, Go), Line(0, Blank), Line(2, See)>>}

ImportSymmetry == Permutations(Rem)
=============================================================================
