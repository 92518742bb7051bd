------------------------------- MODULE Swarms -------------------------------
(***************************************************************************)
(* Trackers that are linked, and one peer of one torrent, which announces  *)
(* itself to any of them: the composition of the channels a link provides  *)
(* (Channel) with what a tracker makes of an announce, its own or another  *)
(* tracker's (Announce of tracker.cpp, the handler of tracker_announce.cpp *)
(* and both ends of link.cpp).                                             *)
(*                                                                         *)
(* bnbt_use_announce_key and bnbt_require_announce_key are on, as they are *)
(* by default, and the torrent is allowed everywhere.  The address stands  *)
(* for all that a further announce of the peer replaces.  Peers and        *)
(* torrents do not influence each other here.                              *)
(***************************************************************************)
EXTENDS Integers, Sequences, Functions

CONSTANTS
  Secondary,    \* the trackers linked to the primary one
  Address, Key, \* what the peer announces
  Blank,        \* an empty key
  NoPeer,       \* the peer is not registered
  Nothing,      \* no announce
  Bounds        \* bounds of a behaviour: what the peer announces over HTTP and
                \* how often, and how often at least before anybody expires it

Primary == "primary"
Tracker == {Primary} \cup Secondary

\* Ends of a link; a channel leads to one of them.
End == {"primary", "secondary"}

Peer == [address: Address, key: Key \cup {Blank}]

\* Announces are numbered in the order in which trackers accept them.
Announcement ==
  [id: Nat \ {0}, address: Address, key: Key \cup {Blank},
   event: {"alive", "stopped"}]

ASSUME SwarmsAssumption ==
  /\ Primary \notin Secondary /\ Blank \notin Key
  /\ NoPeer \notin Peer /\ Nothing \notin Announcement
  /\ Bounds \subseteq [offers: SUBSET (Address \X Key \X {"alive", "stopped"}),
                       announces: Nat, beforeExpiry: Nat]

VARIABLES
  bounds,    \* chosen at the beginning
  put, got,  \* the channels
  entry,     \* the peer's entry in m_pDFile of each tracker
  old,       \* trackers whose last expiry came after the last announce
  queued,    \* m_vecQueued of each tracker
  relaying,  \* at the primary, what the thread of a link has yet to pass on
  sent,      \* the number of announces
  said,      \* history: the last announce that was accepted, and where
  steady,    \* history: it goes on where the announces before it left off
  expired    \* history: trackers that have expired the peer since

linkVars == <<put, got, queued, relaying>>
peerVars == <<entry, old>>
historyVars == <<sent, said, steady, expired>>
vars == <<bounds, linkVars, peerVars, historyVars>>

C == INSTANCE Channel WITH Conn <- Secondary, Msg <- Announcement

---------------------------------------------------------------------------
(***************************************************************************)
(* CTracker::Announce.                                                     *)
(***************************************************************************)

\* Mutant: a known peer moves whoever asks for it.
AppliedAnyKey(peer, ann) ==
  CASE ann.event = "stopped" -> IF peer # NoPeer /\ peer.key = ann.key THEN NoPeer ELSE peer
    [] OTHER -> [address |-> ann.address,
                 key |-> IF peer = NoPeer THEN ann.key ELSE peer.key]

\* A peer is registered with a key, with which alone it moves and stops.
Applied(peer, ann) ==
  CASE peer = NoPeer -> IF ann.event = "stopped" THEN NoPeer
                        ELSE [address |-> ann.address, key |-> ann.key]
    [] peer # NoPeer /\ peer.key = ann.key ->
         IF ann.event = "stopped" THEN NoPeer ELSE [peer EXCEPT !.address = ann.address]
    [] OTHER -> peer

\* The time is recorded whether the key is the right one or not.
Announce(t, ann) ==
  /\ entry' = [entry EXCEPT ![t] = Applied(@, ann)]
  /\ old' = IF ann.event = "alive" THEN old \ {t} ELSE old

---------------------------------------------------------------------------
(***************************************************************************)
(* Announces over HTTP.                                                    *)
(***************************************************************************)

\* CLinkServer::Queue, CLink::Queue.
Targets(t) ==
  IF t = Primary THEN Secondary \X {"secondary"} ELSE {<<t, "primary">>}

UnderWay ==
  \/ \E s \in Secondary, e \in End : C!Deliverable(s, e) # {}
  \/ \E t \in Tracker : queued[t] # <<>>
  \/ \E s \in Secondary : relaying[s] # Nothing

\* The key an announce accepted at t brings to tracker u.
KeyAt(u, t, key) == IF u = Primary /\ t # Primary THEN Blank ELSE key

\* The peer stays with a tracker and a key, or begins at rest where no tracker
\* has it registered with another key.
Steady(t, key) ==
  IF UnderWay THEN steady /\ said.at = t /\ said.ann.key = key
  ELSE \A u \in Tracker : entry[u] # NoPeer => entry[u].key = KeyAt(u, t, key)

HttpAnnounce(t, address, key, event) ==
  LET ann == [id |-> sent + 1, address |-> address, key |-> key, event |-> event]
  IN  /\ sent < bounds.announces /\ sent' = sent + 1
      /\ entry[t] # NoPeer => entry[t].key = key
      /\ Announce(t, ann)
      /\ C!Put(ann, Targets(t))
      /\ said' = [at |-> t, ann |-> ann] /\ steady' = Steady(t, key)
      /\ expired' = {}
      /\ UNCHANGED <<bounds, queued, relaying>>

---------------------------------------------------------------------------
(***************************************************************************)
(* Announces over the links.                                               *)
(***************************************************************************)

\* Mutant: the announces wait in the wrong order.
QueueAnnounceFirst(t, ann) == queued' = [queued EXCEPT ![t] = <<ann>> \o @]

QueueAnnounce(t, ann) == queued' = [queued EXCEPT ![t] = Append(@, ann)]

\* CLinkClient::Go: the key is not read.
ReceiveAtPrimary(s) ==
  /\ relaying[s] = Nothing
  /\ C!Get(s, "primary")
  /\ LET ann == got'[s]["primary"][Len(got'[s]["primary"])]
     IN  /\ QueueAnnounce(Primary, [ann EXCEPT !.key = Blank])
         /\ relaying' = [relaying EXCEPT ![s] = ann]
  /\ UNCHANGED <<bounds, peerVars, historyVars>>

\* CLinkServer::Queue with an exclusion.
RelayTargets(s) == (Secondary \ {s}) \X {"secondary"}

Relay(s) ==
  /\ relaying[s] # Nothing
  /\ relaying' = [relaying EXCEPT ![s] = Nothing]
  /\ C!Put(relaying[s], RelayTargets(s))
  /\ UNCHANGED <<bounds, queued, peerVars, historyVars>>

\* CLink::Go.
ReceiveAtSecondary(s) ==
  /\ C!Get(s, "secondary")
  /\ QueueAnnounce(s, got'[s]["secondary"][Len(got'[s]["secondary"])])
  /\ UNCHANGED <<bounds, relaying, peerVars, historyVars>>

\* CTracker::Update.  It applies all that it finds; to apply one of them at a
\* time is as if the others had been queued later.
ApplyQueued(t) ==
  /\ queued[t] # <<>>
  /\ Announce(t, Head(queued[t]))
  /\ queued' = [queued EXCEPT ![t] = Tail(@)]
  /\ UNCHANGED <<bounds, put, got, relaying, historyVars>>

---------------------------------------------------------------------------
(***************************************************************************)
(* expireDownloaders.                                                      *)
(***************************************************************************)

\* Mutant: who was silent for long is kept.
ExpireNobody(t) ==
  /\ entry[t] # NoPeer /\ t \notin old /\ sent >= bounds.beforeExpiry
  /\ old' = old \cup {t}
  /\ UNCHANGED <<bounds, entry, expired, linkVars, sent, said, steady>>

\* The peer goes if it has not announced since the expiry before.
Expire(t) ==
  /\ entry[t] # NoPeer /\ sent >= bounds.beforeExpiry
  /\ IF t \in old
     THEN /\ entry' = [entry EXCEPT ![t] = NoPeer]
          /\ old' = old \ {t}
          /\ expired' = expired \cup {t}
     ELSE /\ old' = old \cup {t}
          /\ UNCHANGED <<entry, expired>>
  /\ UNCHANGED <<bounds, linkVars, sent, said, steady>>

Init ==
  /\ bounds \in Bounds
  /\ C!Init
  /\ entry = [t \in Tracker |-> NoPeer] /\ old = {}
  /\ queued = [t \in Tracker |-> <<>>]
  /\ relaying = [s \in Secondary |-> Nothing]
  /\ sent = 0 /\ said = Nothing /\ steady = FALSE /\ expired = {}

Next ==
  \/ \E t \in Tracker, offer \in bounds.offers : HttpAnnounce(t, offer[1], offer[2], offer[3])
  \/ \E s \in Secondary : ReceiveAtPrimary(s) \/ Relay(s) \/ ReceiveAtSecondary(s)
  \/ \E t \in Tracker : ApplyQueued(t) \/ Expire(t)

Spec == Init /\ [][Next]_vars

\* Every tracker goes on applying and expiring; links promise nothing.
FairSpec ==
  Spec /\ \A t \in Tracker : WF_vars(ApplyQueued(t)) /\ WF_vars(Expire(t))

---------------------------------------------------------------------------
(***************************************************************************)
(* Properties.                                                             *)
(***************************************************************************)

\* Trackers agree: as long as a peer stays with one tracker and one key, the
\* other trackers end up with what it has said last, however far its announces
\* are apart on their way and whichever are lost before the last.  A tracker
\* where it was registered with another key does not follow; the primary one
\* knows no key of what it was told by another, and so does not follow either
\* when the peer was registered there before it came to a secondary one.
Agreed ==
  steady /\ ~UnderWay =>
    \A t \in Tracker :
      \/ entry[t] = IF said.ann.event = "stopped" THEN NoPeer
                    ELSE [address |-> said.ann.address,
                          key |-> KeyAt(t, said.at, said.ann.key)]
      \/ entry[t] = NoPeer /\ t \in expired

\* Whatever becomes of a registered peer, at whichever tracker, it takes an
\* announce with the key of the entry, or silence.
HolderOnly ==
  [][\A t \in Tracker : entry[t] # NoPeer /\ entry'[t] # entry[t] =>
       \/ sent' # sent /\ said'.at = t /\ said'.ann.key = entry[t].key
       \/ queued[t] # <<>> /\ Head(queued[t]).key = entry[t].key
       \/ t \in old /\ entry'[t] = NoPeer /\ t \in expired']_vars

\* Once a peer is silent, and expiries are let begin, every tracker forgets it,
\* also those that did not take its stop, or never got it.
Forgotten ==
  <>(sent >= bounds.beforeExpiry) /\ <>[][sent' = sent]_vars =>
    <>[](\A t \in Tracker : entry[t] = NoPeer)
=============================================================================
