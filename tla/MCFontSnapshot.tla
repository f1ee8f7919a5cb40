--------------------------- MODULE MCFontSnapshot ---------------------------
(* Model values for FontSnapshot; the readers are interchangeable.         *)
EXTENDS FontSnapshot, TLC

Symmetry == Permutations(Readers)
=============================================================================
