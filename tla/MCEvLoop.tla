------------------------------ MODULE MCEvLoop ------------------------------
(* Instances of the libev loop for TLC. *)
EXTENDS EvLoopProps, TLC

CONSTANTS s1, s2, a1, p

TwoSenders == {s1, s2}
OneAsync == {a1}
\* The contexts start the socket's watcher with EV_READ.
ReadOnly == {{"READ"}}
==============================================================================
