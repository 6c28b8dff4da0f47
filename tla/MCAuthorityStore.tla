-------------------------- MODULE MCAuthorityStore --------------------------
(* Small instances of AuthorityStore for TLC.                              *)
EXTENDS AuthorityStoreRefinement, TLC

\* Connections are interchangeable, and so are runs and command ids.
Symmetry == Permutations(Connections) \cup Permutations(Runs) \cup Permutations(Commands)

=============================================================================
