----------------------------- MODULE BallotBox -----------------------------
(***************************************************************************)
(* What the polls promise, without rows, requests or pages: a box of whole *)
(* ballots.  A ballot is cast once; of the ballots cast under one voter's  *)
(* token a poll holds one at a time; a voter takes back a whole ballot of  *)
(* their own; only the end of the poll removes the others.                 *)
(***************************************************************************)
EXTENDS Naturals

CONSTANTS Ballot, Poll, Option, Voter

VARIABLES
  box,   \* the ballots in the box
  cast   \* every ballot id ever cast

boxVars == <<box, cast>>

\* voters is empty for an anonymous ballot, and one voter's token otherwise.
Paper == [id: Ballot, poll: Poll, options: SUBSET Option, voters: SUBSET Voter]

BInit == box = {} /\ cast = {}

Cast(b) ==
  /\ b.id \notin cast
  /\ cast' = cast \cup {b.id}
  /\ b.options # {}
  /\ \/ b.voters = {}
     \/ \E t \in Voter : /\ b.voters = {t}
                         /\ \A o \in box : o.poll = b.poll => t \notin o.voters
  /\ box' = box \cup {b}

TakeBack(p, t) ==
  /\ UNCHANGED cast
  /\ box' = {b \in box : b.poll = p => t \notin b.voters}

Clear(p) ==
  /\ UNCHANGED cast
  /\ box' = {b \in box : b.poll # p}

BNext ==
  \/ \E b \in Paper : Cast(b)
  \/ \E p \in Poll : Clear(p) \/ \E t \in Voter : TakeBack(p, t)

BSpec == BInit /\ [][BNext]_boxVars

=============================================================================
