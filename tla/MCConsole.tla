------------------------------ MODULE MCConsole ------------------------------
(* A small instance of Console for TLC.                                     *)
EXTENDS Console, TLC

Board(ops, n, vs) == [ops |-> ops, acts |-> n, time |-> 0, views |-> vs, opened |-> TRUE]

\* The questions are kept apart: signing in and out, signing out under a write,
\* the comments and their selection, and each of the other views.
MCPlans ==
  {[ops |-> {"open", "login", "signout", "github", "consent"}, acts |-> 3, time |-> 2,
    views |-> {}, opened |-> FALSE],
   [ops |-> {"open", "login", "signout", "moderate"}, acts |-> 3, time |-> 0,
    views |-> {"queue"}, opened |-> FALSE],
   Board({"tick", "bulk", "moderate"}, 3, Kind),
   Board({"pin", "reply", "visitor"}, 3, Kind),
   Board({"add", "remove", "look"}, 3, {"lists"}),
   Board(PollOp \cup {"look"}, 4, {"polls"}),
   Board({"edit", "save", "reset", "look"}, 3, {"settings"})}

Symmetry == Permutations(Tab) \cup Permutations(Call) \cup Permutations(Key)
            \cup Permutations(Comment) \cup Permutations(Value) \cup Permutations(Slot)

=============================================================================
