------------------------------ MODULE SingleUse ------------------------------
(***************************************************************************)
(* What the anti-replay core promises, without clocks, tables or requests: *)
(* a proof bought with work counts once.  A counted use (a comment or a    *)
(* reaction) is the proof's first use of any kind; any other use leaves    *)
(* the count alone and closes the proof to counted uses.                   *)
(***************************************************************************)
EXTENDS Naturals

CONSTANT Proof

VARIABLES
  touched,   \* the proofs somebody has used, for anything
  counted    \* how many counted uses each proof has had

abstractVars == <<touched, counted>>

AInit == touched = {} /\ counted = [p \in Proof |-> 0]

CountedUse(p) ==
  /\ p \notin touched
  /\ touched' = touched \cup {p}
  /\ counted' = [counted EXCEPT ![p] = @ + 1]

OtherUse(p) == touched' = touched \cup {p} /\ UNCHANGED counted

ANext == \E p \in Proof : CountedUse(p) \/ OtherUse(p)

ASpec == AInit /\ [][ANext]_abstractVars

=============================================================================
