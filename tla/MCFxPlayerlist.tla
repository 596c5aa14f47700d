---------------------------- MODULE MCFxPlayerlist ----------------------------
\* A small instance of FxPlayerlist.
EXTENDS FxPlayerlist, TLC

\* Server ids are told apart by nothing but their names.
Symmetry == Permutations(Ids)

=============================================================================
