----------------------------- MODULE MCComments -----------------------------
(* Small instances of Comments for TLC.                                    *)
EXTENDS Comments, TLC

\* Comments, articles, requests, nicknames and terms are interchangeable.
Symmetry == Permutations(Id) \cup Permutations(Article) \cup Permutations(Request)
            \cup Permutations(Nick) \cup Permutations(Term)

\* Nothing is on a list, nobody signs and the owner leaves the lists alone.
Unlisted ==
  /\ changes = 0
  /\ config.allow = {} /\ config.block = {} /\ config.terms = {}
  /\ \A r \in Request : Is(r, "submit") => handler[r].nick = None /\ handler[r].said = {}

\* One handler at a time over one comment.
Alone ==
  /\ Cardinality(minted) <= 1
  /\ Cardinality({r \in Request : handler[r] # None}) <= 1

\* Threads of two comments under two handlers with the lists empty; or one
\* submission under changes of the mode, the lists and the terms.
Bounds == Unlisted \/ Alone

=============================================================================
