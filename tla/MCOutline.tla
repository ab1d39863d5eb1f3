----------------------------- MODULE MCOutline -----------------------------
(* Instances of Outline for TLC.                                            *)
EXTENDS OutlineRefines, TLC

\* Rem ids and users are interchangeable.
RemUserSymmetry == Permutations(Rem) \union Permutations(User)
=============================================================================
