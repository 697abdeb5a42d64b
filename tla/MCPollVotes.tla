---------------------------- MODULE MCPollVotes ----------------------------
(* Small instances of PollVotes for TLC.                                   *)
EXTENDS PollVotes, FiniteSets, TLC

\* Every set of identities is interchangeable.
Symmetry == Permutations(Poll) \cup Permutations(Option) \cup Permutations(Challenge)
            \cup Permutations(Token) \cup Permutations(Browser)
            \cup Permutations(Widget) \cup Permutations(Request)

\* Two votes of any kind around a change of the poll; or three votes for every
\* option around the guard of a poll that stays as it is.
Bounds ==
  \/ Cardinality(posted) <= 2
  \/ patches = 0 /\ \A m \in posted : m.options = Option

=============================================================================
