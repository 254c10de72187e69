---------------------------- MODULE MCLongClient ----------------------------
(* Instances of the long-connection context for TLC. *)
EXTENDS LongClientProps

CONSTANTS c1, c2

TwoCallers == {c1, c2}
\* The writer and the ping task of a web socket mostly share a thread: the other
\* one of the pool is inside client_long_start.
OneCaller == {c1}
==============================================================================
