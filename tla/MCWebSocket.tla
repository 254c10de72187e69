---------------------------- MODULE MCWebSocket ----------------------------
(* An instance of the web socket for TLC. *)
EXTENDS WebSocketProps, TLC

CONSTANTS a1, a2

TwoApps == {a1, a2}
==============================================================================
