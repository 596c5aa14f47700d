------------------------------ MODULE MCFxBuilds ------------------------------
\* A small instance of FxBuilds.
EXTENDS FxBuilds, TLC

\* Builds and versions are told apart by nothing but their names.
Symmetry == Permutations(Builds) \cup Permutations(Versions)

=============================================================================
