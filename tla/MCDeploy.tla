------------------------------ MODULE MCDeploy ------------------------------
(* Small instances of Deploy for TLC.                                      *)
EXTENDS Deploy, TLC

\* Runs and databases are interchangeable; the secrets are not, for Admin is
\* one of them.
Symmetry == Permutations(Run) \cup Permutations(Database)

=============================================================================
