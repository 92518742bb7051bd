----------------------------- MODULE Ownership -----------------------------
(***************************************************************************)
(* What CServer and CClient promise each other about a client object: at   *)
(* any time it belongs either to the worker thread that reads or writes    *)
(* its socket or to the main thread, the two hand it over in turns, and    *)
(* only the main thread destroys it, while it is its own.                  *)
(***************************************************************************)
CONSTANT Client

VARIABLE owner

Open(c)   == owner[c] = "nobody" /\ owner' = [owner EXCEPT ![c] = "worker"]
Refuse(c) == owner[c] = "nobody" /\ owner' = [owner EXCEPT ![c] = "main"]
Give(c)   == owner[c] = "main"   /\ owner' = [owner EXCEPT ![c] = "worker"]
Return(c) == owner[c] = "worker" /\ owner' = [owner EXCEPT ![c] = "main"]

\* The main thread destroys some of the clients it owns.
Destroy ==
  \E S \in SUBSET {c \in Client : owner[c] = "main"} :
    owner' = [c \in Client |-> IF c \in S THEN "nobody" ELSE owner[c]]

Init == owner = [c \in Client |-> "nobody"]

Next ==
  \/ \E c \in Client : Open(c) \/ Refuse(c) \/ Give(c) \/ Return(c)
  \/ Destroy

Spec == Init /\ [][Next]_owner

\* A worker does not keep its client for ever.
Live == \A c \in Client : owner[c] = "worker" ~> owner[c] # "worker"
=============================================================================
