---------------------------- MODULE MCInstallers ----------------------------
(* A small instance of Installers for TLC.                                 *)
EXTENDS Installers, TLC

Symmetry == Permutations(Session) \cup Permutations(Consent) \cup
            Permutations(State) \cup Permutations(Request)

=============================================================================
