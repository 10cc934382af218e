------------------------- MODULE MCRequestHandling -------------------------
EXTENDS RequestHandling, TLC

CONSTANTS s1, s2, d1, d2, q

\* Slots and document numbers are only compared; tables are numbered.
Symmetry == Permutations(Slots) \cup Permutations(Docnums \ Quoted)
=============================================================================
