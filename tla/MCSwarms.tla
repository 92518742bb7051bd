------------------------------ MODULE MCSwarms ------------------------------
(***************************************************************************)
(* A small instance of Swarms.                                             *)
(***************************************************************************)
EXTENDS Swarms

CONSTANTS s1, s2, a1, a2, k1, k2

\* A client that moves and stops,
OneClient == {<<a1, k1, "alive">>, <<a2, k1, "alive">>, <<a2, k1, "stopped">>}

\* and another one with the same peer id.
TwoClients == OneClient \cup {<<a2, k2, "alive">>}

\* More announces and nobody expires them, or fewer with expiries in between.
SomeBounds ==
  {[offers |-> OneClient, announces |-> 3, beforeExpiry |-> 4],
   [offers |-> TwoClients, announces |-> 2, beforeExpiry |-> 0]}
=============================================================================
