---------------------------- MODULE MCCallSetup ----------------------------
(* CallSetup with two calls to one server, one of each type or both alike. *)
EXTENDS CallSetup, TLC

CONSTANTS c1, c2

TwoCalls == {c1, c2}
CallSymmetry == Permutations(TwoCalls)

SomeAsked ==
  {[type |-> "SHORT", server |-> "s", alpn |-> "H3", body |-> TRUE,
    headers |-> <<[name |-> TRUE, value |-> FALSE], [name |-> TRUE, value |-> TRUE]>>,
    cc |-> "BBR", connectTimeOut |-> 30, readTimeOut |-> 20, maxRecv |-> 0],
   [type |-> "LONG", server |-> "s", alpn |-> "HQ", body |-> TRUE, headers |-> <<>>,
    cc |-> "CUBIC", connectTimeOut |-> 0, readTimeOut |-> 20, maxRecv |-> 8]}
=============================================================================
