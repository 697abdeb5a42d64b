---------------------------- MODULE MCPublicList ----------------------------
(* Small instance of PublicList for TLC.  Its property is a liveness       *)
(* property, so no symmetry is used.                                       *)
EXTENDS PublicList

=============================================================================
