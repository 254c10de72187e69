---------------------------- MODULE MCDispatcher ----------------------------
(* Instances of the dispatcher for TLC. *)
EXTENDS DispatcherProps, TLC

CONSTANTS a, b, c, d, u1, u2, none

\* Two calls for one url and one each for two others: with two slots and one per
\* url either limit can be the one that binds.
SomeCalls == {a, b, c, d}
FewCalls == {a, b, d}
SomeUrls == (a :> 1) @@ (b :> 1) @@ (c :> 2) @@ (d :> 3)
TwoUsers == {u1, u2}
OneUser == {u1}
==============================================================================
