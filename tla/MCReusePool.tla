----------------------------- MODULE MCReusePool -----------------------------
(* An instance of the reuse of connections for TLC. *)
EXTENDS ReusePoolProps, TLC

CONSTANTS a, b, c, none

ThreeCalls == {a, b, c}
TwoCalls == {a, b}
TwoHosts == (a :> 1) @@ (b :> 1) @@ (c :> 2)
Symmetry == Permutations({a, b})

Failed(k) ==
  \/ inactive[k] \/ isCallback[k]
  \/ \E t \in Threads : \E i \in DOMAIN stack[t] :
       stack[t][i].on = k /\ stack[t][i].at \in {"net", "error"}

NotBegun(x) == stack[Worker(x)] # <<>> /\ Head(stack[Worker(x)]).at = "start"

\* The bound of the run: once a socket has failed or a call was cancelled, the
\* third call stays where it begins; once its connection has opened or failed,
\* one of the others does.
ThirdCallOrFailure ==
  /\ (\E k \in Calls : Failed(k)) \/ canceled # {} => NotBegun(c)
  /\ loop[c] \notin {"none", "connecting"} => \E x \in TwoCalls : NotBegun(x)
==============================================================================
