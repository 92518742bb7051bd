------------------------------ MODULE MCServer ------------------------------
(***************************************************************************)
(* Small instances of Server.                                              *)
(***************************************************************************)
EXTENDS Server, TLC

CONSTANTS c1, c2, c3

\* Clients are interchangeable.
Clients == Permutations(Client)
=============================================================================
