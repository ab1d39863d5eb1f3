------------------------------ MODULE MCEditor ------------------------------
(* Instances of Editor for TLC.                                             *)
EXTENDS Editor, TLC

EditorSymmetry == Permutations(Row) \union Permutations(Fresh)
                  \union Permutations(Text) \union Permutations(Title)
=============================================================================
