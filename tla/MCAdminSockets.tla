---------------------------- MODULE MCAdminSockets ----------------------------
\* A small instance of AdminSockets.
EXTENDS AdminSockets, TLC

\* Sessions are told apart by nothing but their names.
Symmetry == Permutations(Sessions)

=============================================================================
