----------------------------- MODULE MCTracker -----------------------------
(***************************************************************************)
(* Small instances of Tracker.  Each configuration takes the inputs that   *)
(* its question needs and keeps the others small.                          *)
(***************************************************************************)
EXTENDS Tracker, TLC

CONSTANTS h1, p1, p2, p3, a1, a2, a3, port, k1, k2

NoPeers == [h \in InfoHash |-> [p \in PeerId |-> NoPeer]]

Announces(peers, addresses, lefts, keys, events) ==
  [hash: InfoHash, peer: peers, ip: addresses, port: {port}, left: lefts,
   key: keys, event: events]

\* Peers restored by a restart: p1, with the key it registered with or without.
RestoredOne(key) ==
  [NoPeers EXCEPT ![h1][p1] = [ip |-> a1, port |-> port, left |-> 1, key |-> key]]

FromDisk == {NoPeers, RestoredOne(k1), RestoredOne(NoKey)}
FromNothing == {NoPeers}

\* Expiry: clients that come, go, fall silent and change their address.
CountRequests == Announces(PeerId, {a1, a2}, {1}, {k1}, {"started", "stopped"})

\* A client goes by way of a link, which checks no key first.
LinkStops == Announces({p1}, {a2}, {1}, {k1}, {"stopped"})

\* Replies: three clients, each at its own address, two of them seeding or not.
ReplyRequests ==
  UNION {Announces({c[1]}, {c[2]}, c[3], {k1}, {"started", "stopped"}) :
           c \in {<<p1, a1, {0, 1}>>, <<p2, a2, {0, 1}>>, <<p3, a3, {1}>>}}

NoAnnounces == {}
=============================================================================
