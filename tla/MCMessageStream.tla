--------------------------- MODULE MCMessageStream ---------------------------
EXTENDS MessageLinks, TLC

\* Messages differ in nothing but their identity.
Symmetry == Permutations(Messages)
=============================================================================
