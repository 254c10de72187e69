----------------------------- MODULE MCStreamIO -----------------------------
(* Instances of the stream callbacks for TLC. *)
EXTENDS StreamIOProps

CONSTANTS a1, a2

TwoAddresses == {a1, a2}
\* A body that may be sent in two parts, and an empty one.
SomeMessages == {[what |-> "JSON", len |-> 2], [what |-> "BYTE", len |-> 0]}
==============================================================================
