------------------------------ MODULE MCWidget ------------------------------
(* A small instance of Widget for TLC.                                     *)
EXTENDS Widget, TLC

\* The questions are kept apart: likes in two pages, forms and their reloads,
\* reactions, whose interval needs the clock.
MCPlans ==
  {[ops |-> {"like", "open", "sort"}, clicks |-> 3, time |-> 2],
   [ops |-> {"like", "post"}, clicks |-> 2, time |-> 4],
   [ops |-> {"like", "reply"}, clicks |-> 2, time |-> 2],
   [ops |-> {"flag", "sort"}, clicks |-> 2, time |-> 2],
   [ops |-> {"react"}, clicks |-> 3, time |-> 6]}

Symmetry == Permutations(Job) \cup Permutations(Page)

=============================================================================
