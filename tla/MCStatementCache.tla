-------------------------- MODULE MCStatementCache --------------------------
(* Instances of StatementCache for TLC. *)
EXTENDS StatementCache, TLC

Symmetry ==
    Permutations(Tasks) \cup Permutations(Keys) \cup Permutations(Statements)
=============================================================================
