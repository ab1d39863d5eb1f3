------------------------------ MODULE MCPdfStore -----------------------------
(* Instances of PdfStore for TLC.                                           *)
EXTENDS PdfStore, TLC

PdfSymmetry == Permutations(Doc) \union Permutations(Highlight)
               \union Permutations(User) \union Permutations(Request)
=============================================================================
