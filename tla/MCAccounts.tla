----------------------------- MODULE MCAccounts -----------------------------
(* Two people, two processes and two requests at a time over three notes.    *)
EXTENDS Accounts, TLC

Symmetry == Permutations(Text) \union Permutations(Account) \union Permutations(Process)
              \union Permutations(Call) \union Permutations(Note)

\* Bound: two texts are in use only while one process runs at a time and there are
\* no more than two notes.  Only OneProcessKeepsCards tells texts apart.
TextsInUse == ({note[n].text : n \in Notes} \union {call[c].text : c \in Call}) \ {Nil}
BoundedNext ==
  /\ Next
  /\ \/ alone' /\ Cardinality(Notes') <= 2
     \/ Cardinality(TextsInUse') <= 1

BoundedSpec == Init /\ [][BoundedNext]_vars
=============================================================================
