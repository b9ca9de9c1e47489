-------------------------- MODULE MCSourceManager --------------------------
EXTENDS SourceManager, TLC
Symmetry == Permutations(Clients) \cup Permutations(Runners)
=============================================================================
