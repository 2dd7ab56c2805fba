--------------------------- MODULE MCProfileStore ---------------------------
EXTENDS ProfileStore, TLC

\* actors and profiles are interchangeable
Symmetry == Permutations(Actors) \cup Permutations(Guids)
=============================================================================
