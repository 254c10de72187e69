---------------------------- MODULE MCShortCall ----------------------------
(* Instances of a short call for TLC. *)
EXTENDS ShortCallProps

CONSTANTS a1, a2

TwoApps == {a1, a2}
==============================================================================
