---------------------------- MODULE SwarmsProofs ----------------------------
(***************************************************************************)
(* What Swarms shows for any number of linked trackers, addresses and      *)
(* keys: who may move a peer.                                              *)
(***************************************************************************)
EXTENDS Swarms, SequenceTheorems, TLAPS

Queues == [Secondary -> [End -> Seq(Announcement)]]

ChannelsTyped == put \in Queues /\ got \in Queues

TypeInv ==
  /\ bounds \in Bounds /\ sent \in Nat
  /\ ChannelsTyped
  /\ entry \in [Tracker -> Peer \cup {NoPeer}] /\ old \subseteq Tracker
  /\ queued \in [Tracker -> Seq(Announcement)]
  /\ relaying \in [Secondary -> Announcement \cup {Nothing}]

---------------------------------------------------------------------------

\* Announce leaves a peer or nothing behind.
LEMMA AppliedTyped ==
  ASSUME NEW peer \in Peer \cup {NoPeer}, NEW ann \in Announcement
  PROVE  Applied(peer, ann) \in Peer \cup {NoPeer}
  BY SwarmsAssumption DEF Applied, Peer, Announcement

\* Without the key of a peer nothing happens to it.
LEMMA AppliedForeign ==
  ASSUME NEW peer \in Peer, NEW ann \in Announcement, ann.key # peer.key
  PROVE  Applied(peer, ann) = peer
  BY SwarmsAssumption DEF Applied

\* Handling an announce keeps the types of the peers,
LEMMA AnnounceTyped ==
  ASSUME TypeInv, NEW t \in Tracker, NEW ann \in Announcement, Announce(t, ann)
  PROVE  /\ entry' \in [Tracker -> Peer \cup {NoPeer}]
         /\ old' \subseteq Tracker
  BY AppliedTyped DEF TypeInv, Announce

\* An offered announce is one.
LEMMA OfferTyped ==
  ASSUME TypeInv, NEW offer \in bounds.offers
  PROVE  [id |-> sent + 1, address |-> offer[1], key |-> offer[2], event |-> offer[3]]
           \in Announcement
<1>1. offer \in Address \X Key \X {"alive", "stopped"}
  BY SwarmsAssumption DEF TypeInv
<1>2. sent + 1 \in Nat \ {0}
  BY DEF TypeInv
<1>3. QED
  BY <1>1, <1>2 DEF Announcement

\* relaying it those of the channels,
LEMMA PutTyped ==
  ASSUME ChannelsTyped, NEW ann \in Announcement, NEW channels, C!Put(ann, channels)
  PROVE  ChannelsTyped'
<1>1. \A c \in Secondary, e \in End : Append(put[c][e], ann) \in Seq(Announcement)
  BY AppendProperties DEF ChannelsTyped, Queues
<1>2. put' \in Queues
  BY <1>1 DEF ChannelsTyped, Queues, C!Put
<1>3. QED
  BY <1>2 DEF ChannelsTyped, C!Put

\* What is delivered last is an announce.
LEMMA GetTyped ==
  ASSUME ChannelsTyped, NEW c \in Secondary, NEW e \in End, C!Get(c, e)
  PROVE  /\ ChannelsTyped'
         /\ got'[c][e][Len(got'[c][e])] \in Announcement
<1>1. PICK i \in C!Deliverable(c, e) : got' = [got EXCEPT ![c][e] = Append(@, put[c][e][i])]
  BY DEF C!Get
<1>2. put[c][e] \in Seq(Announcement) /\ got[c][e] \in Seq(Announcement)
  BY DEF ChannelsTyped, Queues
<1>3. put[c][e][i] \in Announcement
  BY <1>2, ElementOfSeq DEF C!Deliverable
<1>4. DEFINE longer == Append(got[c][e], put[c][e][i])
<1>5. /\ longer \in Seq(Announcement)
      /\ longer[Len(longer)] = put[c][e][i]
  BY <1>2, <1>3, AppendProperties
<1>6. got' = [got EXCEPT ![c] = [@ EXCEPT ![e] = longer]]
  BY <1>1
<1>7. got'[c][e] = longer
  BY <1>6 DEF ChannelsTyped, Queues
<1>8. got' \in Queues
  BY <1>5, <1>6 DEF ChannelsTyped, Queues
<1>9. QED
  BY <1>3, <1>5, <1>7, <1>8 DEF ChannelsTyped, C!Get

\* and queueing it those of the queues.
LEMMA QueueTyped ==
  ASSUME TypeInv, NEW t \in Tracker, NEW ann \in Announcement, QueueAnnounce(t, ann)
  PROVE  queued' \in [Tracker -> Seq(Announcement)]
<1>1. Append(queued[t], ann) \in Seq(Announcement)
  BY AppendProperties DEF TypeInv
<1>2. QED
  BY <1>1 DEF TypeInv, QueueAnnounce

\* Every step keeps the types,
LEMMA TypeStep == TypeInv /\ [Next]_vars => TypeInv'
<1> SUFFICES ASSUME TypeInv, [Next]_vars PROVE TypeInv'
  OBVIOUS
<1>1. CASE \E t \in Tracker, offer \in bounds.offers :
             HttpAnnounce(t, offer[1], offer[2], offer[3])
  <2>1. PICK t \in Tracker, offer \in bounds.offers :
               HttpAnnounce(t, offer[1], offer[2], offer[3])
    BY <1>1
  <2>2. DEFINE ann == [id |-> sent + 1, address |-> offer[1], key |-> offer[2],
                       event |-> offer[3]]
  <2>3. ann \in Announcement
    BY OfferTyped
  <2>4. Announce(t, ann) /\ C!Put(ann, Targets(t))
    BY <2>1 DEF HttpAnnounce
  <2>5. ChannelsTyped'
    BY <2>3, <2>4, PutTyped DEF TypeInv
  <2>6. entry' \in [Tracker -> Peer \cup {NoPeer}] /\ old' \subseteq Tracker
    BY <2>3, <2>4, AnnounceTyped
  <2>7. sent' \in Nat /\ UNCHANGED <<bounds, queued, relaying>>
    BY <2>1 DEF HttpAnnounce, TypeInv
  <2>8. QED
    BY <2>5, <2>6, <2>7 DEF TypeInv
<1>2. ASSUME NEW s \in Secondary, ReceiveAtPrimary(s) PROVE TypeInv'
  <2>1. DEFINE ann == got'[s]["primary"][Len(got'[s]["primary"])]
  <2>2. ChannelsTyped' /\ ann \in Announcement
    BY <1>2, GetTyped DEF ReceiveAtPrimary, TypeInv, End
  <2>3. [ann EXCEPT !.key = Blank] \in Announcement
    BY <2>2 DEF Announcement
  <2>4. queued' \in [Tracker -> Seq(Announcement)]
    BY <1>2, <2>3, QueueTyped DEF ReceiveAtPrimary, Tracker
  <2>5. relaying' \in [Secondary -> Announcement \cup {Nothing}]
    BY <1>2, <2>2 DEF ReceiveAtPrimary, TypeInv
  <2>6. QED
    BY <1>2, <2>2, <2>4, <2>5 DEF TypeInv, ReceiveAtPrimary, peerVars, historyVars
<1>3. ASSUME NEW s \in Secondary, Relay(s) PROVE TypeInv'
  <2>1. relaying[s] \in Announcement /\ C!Put(relaying[s], RelayTargets(s))
    BY <1>3 DEF Relay, TypeInv
  <2>2. ChannelsTyped'
    BY <2>1, PutTyped DEF TypeInv
  <2>3. relaying' \in [Secondary -> Announcement \cup {Nothing}]
    BY <1>3 DEF Relay, TypeInv
  <2>4. QED
    BY <1>3, <2>2, <2>3 DEF TypeInv, Relay, peerVars, historyVars
<1>4. ASSUME NEW s \in Secondary, ReceiveAtSecondary(s) PROVE TypeInv'
  <2>1. DEFINE ann == got'[s]["secondary"][Len(got'[s]["secondary"])]
  <2>2. ChannelsTyped' /\ ann \in Announcement
    BY <1>4, GetTyped DEF ReceiveAtSecondary, TypeInv, End
  <2>3. queued' \in [Tracker -> Seq(Announcement)]
    BY <1>4, <2>2, QueueTyped DEF ReceiveAtSecondary, Tracker
  <2>4. QED
    BY <1>4, <2>2, <2>3 DEF TypeInv, ReceiveAtSecondary, peerVars, historyVars
<1>5. ASSUME NEW t \in Tracker, ApplyQueued(t) PROVE TypeInv'
  <2>1. queued[t] \in Seq(Announcement) /\ queued[t] # <<>>
    BY <1>5 DEF ApplyQueued, TypeInv
  <2>2. Head(queued[t]) \in Announcement /\ Tail(queued[t]) \in Seq(Announcement)
    BY <2>1, HeadTailProperties
  <2>3. entry' \in [Tracker -> Peer \cup {NoPeer}] /\ old' \subseteq Tracker
    BY <1>5, <2>2, AnnounceTyped DEF ApplyQueued
  <2>4. queued' \in [Tracker -> Seq(Announcement)]
    BY <1>5, <2>2 DEF ApplyQueued, TypeInv
  <2>5. QED
    BY <1>5, <2>3, <2>4 DEF TypeInv, ChannelsTyped, ApplyQueued, historyVars
<1>6. ASSUME NEW t \in Tracker, Expire(t) PROVE TypeInv'
  <2>1. entry' \in [Tracker -> Peer \cup {NoPeer}] /\ old' \subseteq Tracker
    BY <1>6 DEF Expire, TypeInv
  <2>2. QED
    BY <1>6, <2>1 DEF TypeInv, ChannelsTyped, Expire, linkVars
<1>7. CASE UNCHANGED vars
  BY <1>7 DEF TypeInv, ChannelsTyped, vars, linkVars, peerVars, historyVars
<1>8. QED
  BY <1>1, <1>2, <1>3, <1>4, <1>5, <1>6, <1>7 DEF Next

\* which hold at first,
LEMMA TypeInit == Init => TypeInv
<1> SUFFICES ASSUME Init PROVE TypeInv
  OBVIOUS
<1>1. <<>> \in Seq(Announcement)
  OBVIOUS
<1>2. ChannelsTyped
  BY <1>1 DEF Init, C!Init, ChannelsTyped, Queues
<1>3. QED
  BY <1>1, <1>2 DEF Init, TypeInv

\* and so always.
LEMMA Typed == Spec => []TypeInv
  BY TypeInit, TypeStep, PTL DEF Spec

---------------------------------------------------------------------------

\* An announce changes a registered peer only if it has the peer's key.
LEMMA AnnounceHolder ==
  ASSUME TypeInv, NEW t \in Tracker, NEW ann \in Announcement, Announce(t, ann),
         NEW u \in Tracker, entry[u] # NoPeer, entry'[u] # entry[u]
  PROVE  u = t /\ ann.key = entry[u].key
<1>1. entry[u] \in Peer
  BY DEF TypeInv
<1>2. entry'[u] = IF u = t THEN Applied(entry[u], ann) ELSE entry[u]
  BY DEF TypeInv, Announce
<1>3. QED
  BY <1>1, <1>2, AppliedForeign

\* Who may change the entry of a registered peer: an announce here with its
\* key, one of the queue with its key, or its expiry.
LEMMA HolderStep ==
  ASSUME TypeInv, [Next]_vars, NEW u \in Tracker, entry[u] # NoPeer, entry'[u] # entry[u]
  PROVE  \/ sent' # sent /\ said'.at = u /\ said'.ann.key = entry[u].key
         \/ queued[u] # <<>> /\ Head(queued[u]).key = entry[u].key
         \/ u \in old /\ entry'[u] = NoPeer /\ u \in expired'
<1>1. CASE \E t \in Tracker, offer \in bounds.offers :
             HttpAnnounce(t, offer[1], offer[2], offer[3])
  <2>1. PICK t \in Tracker, offer \in bounds.offers :
               HttpAnnounce(t, offer[1], offer[2], offer[3])
    BY <1>1
  <2>2. DEFINE ann == [id |-> sent + 1, address |-> offer[1], key |-> offer[2],
                       event |-> offer[3]]
  <2>3. ann \in Announcement
    BY OfferTyped
  <2>4. /\ Announce(t, ann) /\ sent' = sent + 1
        /\ said' = [at |-> t, ann |-> ann]
    BY <2>1 DEF HttpAnnounce
  <2>5. u = t /\ ann.key = entry[u].key
    BY <2>3, <2>4, AnnounceHolder
  <2>6. sent' # sent
    BY <2>4 DEF TypeInv
  <2>7. QED
    BY <2>4, <2>5, <2>6
<1>2. ASSUME NEW t \in Tracker, ApplyQueued(t)
      PROVE  queued[u] # <<>> /\ Head(queued[u]).key = entry[u].key
  <2>1. queued[t] \in Seq(Announcement) /\ queued[t] # <<>>
    BY <1>2 DEF ApplyQueued, TypeInv
  <2>2. Head(queued[t]) \in Announcement
    BY <2>1, HeadTailProperties
  <2>3. u = t /\ Head(queued[t]).key = entry[u].key
    BY <1>2, <2>2, AnnounceHolder DEF ApplyQueued
  <2>4. QED
    BY <2>1, <2>3
<1>3. ASSUME NEW t \in Tracker, Expire(t)
      PROVE  u \in old /\ entry'[u] = NoPeer /\ u \in expired'
  BY <1>3 DEF Expire, TypeInv
<1>4. ASSUME \E s \in Secondary : ReceiveAtPrimary(s) \/ Relay(s) \/ ReceiveAtSecondary(s)
      PROVE  FALSE
  BY <1>4 DEF ReceiveAtPrimary, Relay, ReceiveAtSecondary, peerVars
<1>5. ASSUME UNCHANGED vars PROVE FALSE
  BY <1>5 DEF vars, peerVars
<1>6. QED
  BY <1>1, <1>2, <1>3, <1>4, <1>5 DEF Next

\* A peer that is registered at a tracker is moved and removed only by whoever
\* has the key of its entry there, or by silence: neither the order in which
\* announces arrive over the links, nor what is lost, nor the empty key the
\* primary gives to what it is told (link.cpp:655), lets anybody else do it.
THEOREM HolderOnlyAlways == Spec => HolderOnly
<1>1. TypeInv /\ [Next]_vars =>
        [\A t \in Tracker : entry[t] # NoPeer /\ entry'[t] # entry[t] =>
           \/ sent' # sent /\ said'.at = t /\ said'.ann.key = entry[t].key
           \/ queued[t] # <<>> /\ Head(queued[t]).key = entry[t].key
           \/ t \in old /\ entry'[t] = NoPeer /\ t \in expired']_vars
  BY HolderStep
<1>2. QED
  BY <1>1, Typed, PTL DEF Spec, HolderOnly

---------------------------------------------------------------------------
(***************************************************************************)
(* What is under way while a peer stays with one tracker and one key.      *)
(***************************************************************************)

TheEnd(seq) == seq[Len(seq)]

\* Whatever arrived was put.
GotOfPut ==
  \A c \in Secondary, e \in End : Range(got[c][e]) \subseteq Range(put[c][e])

\* What a channel still delivers ends with what was put last.
LEMMA EndDelivered ==
  ASSUME ChannelsTyped, NEW c \in Secondary, NEW e \in End
  PROVE  /\ C!Deliverable(c, e) \subseteq 1..Len(put[c][e])
         /\ C!Deliverable(c, e) # {} => Len(put[c][e]) \in C!Deliverable(c, e)
         /\ put[c][e] \in Seq(Announcement) /\ got[c][e] \in Seq(Announcement)
         /\ DOMAIN put[c][e] = 1..Len(put[c][e]) /\ Len(put[c][e]) \in Nat
<1>1. /\ put[c][e] \in Seq(Announcement) /\ got[c][e] \in Seq(Announcement)
      /\ DOMAIN put[c][e] = 1..Len(put[c][e]) /\ Len(put[c][e]) \in Nat
  BY DEF ChannelsTyped, Queues
<1>2. C!Deliverable(c, e) \subseteq 1..Len(put[c][e])
  BY <1>1 DEF C!Deliverable, C!Range, Range
<1>3. ASSUME NEW i \in C!Deliverable(c, e)
      PROVE  Len(put[c][e]) \in C!Deliverable(c, e)
  <2>1. /\ i \in 1..Len(put[c][e])
        /\ \A j \in 1..Len(put[c][e]) : put[c][e][j] \in Range(got[c][e]) => j < i
    BY <1>1, <1>3 DEF C!Deliverable, C!Range, Range
  <2>2. \A j \in 1..Len(put[c][e]) : put[c][e][j] \in Range(got[c][e]) => j < Len(put[c][e])
    BY <1>1, <2>1
  <2>3. QED
    BY <1>1, <2>1, <2>2 DEF C!Deliverable, C!Range, Range
<1>4. QED
  BY <1>1, <1>2, <1>3

\* Getting: the rest of what is to come is still to come, and nothing is when
\* it was the last.
LEMMA GetLast ==
  ASSUME ChannelsTyped, GotOfPut, NEW c \in Secondary, NEW e \in End, C!Get(c, e)
  PROVE  /\ put' = put /\ C!Deliverable(c, e) # {}
         /\ \E i \in C!Deliverable(c, e) : TheEnd(got'[c][e]) = put[c][e][i]
         /\ \A d \in Secondary, f \in End :
              /\ C!Deliverable(d, f)' \subseteq C!Deliverable(d, f)
              /\ d # c \/ f # e => C!Deliverable(d, f)' = C!Deliverable(d, f)
         /\ C!Deliverable(c, e)' = {} => TheEnd(got'[c][e]) = TheEnd(put[c][e])
         /\ GotOfPut'
<1>1. PICK i \in C!Deliverable(c, e) : got' = [got EXCEPT ![c][e] = Append(@, put[c][e][i])]
  BY DEF C!Get
<1>2. put' = put
  BY DEF C!Get
<1> DEFINE m == put[c][e][i]
           longer == Append(got[c][e], m)
<1>3. /\ i \in 1..Len(put[c][e])
      /\ put[c][e] \in Seq(Announcement) /\ got[c][e] \in Seq(Announcement)
      /\ DOMAIN put[c][e] = 1..Len(put[c][e]) /\ Len(put[c][e]) \in Nat
  BY EndDelivered
<1>4. m \in Announcement
  BY <1>3
<1>5. /\ longer \in Seq(Announcement) /\ longer[Len(longer)] = m
      /\ Range(longer) = Range(got[c][e]) \cup {m}
  <2>1. longer \in Seq(Announcement) /\ Len(longer) = Len(got[c][e]) + 1
        /\ longer[Len(got[c][e]) + 1] = m
        /\ \A j \in 1..Len(got[c][e]) : longer[j] = got[c][e][j]
    BY <1>3, <1>4, AppendProperties
  <2>2. DOMAIN longer = DOMAIN got[c][e] \cup {Len(got[c][e]) + 1}
    BY <1>3, <2>1
  <2>3. DOMAIN got[c][e] = 1..Len(got[c][e])
    BY <1>3
  <2>4. QED
    BY <2>1, <2>2, <2>3 DEF Range
<1>6. got' = [got EXCEPT ![c] = [@ EXCEPT ![e] = longer]]
  BY <1>1
<1> HIDE DEF longer
<1>7. got'[c][e] = longer /\ \A d \in Secondary, f \in End : d # c \/ f # e => got'[d][f] = got[d][f]
  BY <1>6 DEF ChannelsTyped, Queues
<1>8. \A d \in Secondary, f \in End : d # c \/ f # e => C!Deliverable(d, f)' = C!Deliverable(d, f)
  BY <1>2, <1>7 DEF C!Deliverable, C!Range, Range
<1>9. C!Deliverable(c, e)' \subseteq C!Deliverable(c, e)
  <2>1. Range(got[c][e]) \subseteq Range(got'[c][e])
    BY <1>5, <1>7
  <2>2. C!Range(got[c][e]) \subseteq C!Range(got'[c][e])
    BY <2>1 DEF C!Range, Range
  <2>3. QED
    BY <1>2, <2>2 DEF C!Deliverable
<1>10. ASSUME C!Deliverable(c, e)' = {}
       PROVE  m = TheEnd(put[c][e])
  <2> DEFINE n == Len(put[c][e])
  <2>1. n \in C!Deliverable(c, e)
    BY EndDelivered
  <2>2. n \in 1..n /\ \A j \in 1..n : put[c][e][j] \in Range(got[c][e]) => j < n
    BY <1>3, <2>1 DEF C!Deliverable, C!Range, Range
  <2>3. n \notin C!Deliverable(c, e)'
    BY <1>10
  <2>4. PICK j \in 1..n : put[c][e][j] \in Range(longer) /\ ~(j < n)
    BY <1>2, <1>3, <1>7, <2>2, <2>3 DEF C!Deliverable, C!Range, Range
  <2>5. j = n
    BY <1>3, <2>4
  <2>6. put[c][e][n] \notin Range(got[c][e])
    BY <1>3, <2>2
  <2>7. QED
    BY <1>5, <2>4, <2>5, <2>6 DEF TheEnd
<1>11. GotOfPut'
  <2>1. m \in Range(put[c][e])
    BY <1>3 DEF Range
  <2>2. Range(got'[c][e]) \subseteq Range(put[c][e])
    BY <1>5, <1>7, <2>1 DEF GotOfPut
  <2>3. \A d \in Secondary, f \in End : Range(got'[d][f]) \subseteq Range(put[d][f])
    BY <1>7, <2>2 DEF GotOfPut
  <2>4. QED
    BY <1>2, <2>3 DEF GotOfPut
<1>12. TheEnd(got'[c][e]) = m
  BY <1>5, <1>7 DEF TheEnd
<1>13. QED
  BY <1>2, <1>8, <1>9, <1>10, <1>11, <1>12

\* Putting: on the channels it is put on, an announce comes last and is still
\* to come, like all that was before; the others do not notice.
LEMMA PutLast ==
  ASSUME ChannelsTyped, GotOfPut, NEW ann \in Announcement,
         NEW channels \in SUBSET (Secondary \X End), C!Put(ann, channels)
  PROVE  /\ \A c \in Secondary, e \in End : <<c, e>> \notin channels =>
              put'[c][e] = put[c][e] /\ C!Deliverable(c, e)' = C!Deliverable(c, e)
         /\ \A c \in Secondary, e \in End : <<c, e>> \in channels =>
              /\ put'[c][e] # <<>> /\ TheEnd(put'[c][e]) = ann
              /\ C!Deliverable(c, e)' # {}
              /\ \A i \in C!Deliverable(c, e)' :
                   \/ put'[c][e][i] = ann
                   \/ i \in C!Deliverable(c, e) /\ put'[c][e][i] = put[c][e][i]
         /\ GotOfPut'
<1>1. /\ got' = got
      /\ \A c \in Secondary, e \in End : put'[c][e] =
           IF <<c, e>> \in channels THEN Append(put[c][e], ann) ELSE put[c][e]
      /\ \A ch \in channels : ann \notin Range(put[ch[1]][ch[2]])
  BY DEF C!Put, C!Range, Range
<1>2. ASSUME NEW c \in Secondary, NEW e \in End, <<c, e>> \notin channels
      PROVE  put'[c][e] = put[c][e] /\ C!Deliverable(c, e)' = C!Deliverable(c, e)
  BY <1>1, <1>2 DEF C!Deliverable, C!Range, Range
<1>3. ASSUME NEW c \in Secondary, NEW e \in End, <<c, e>> \in channels
      PROVE  /\ put'[c][e] # <<>> /\ TheEnd(put'[c][e]) = ann
             /\ C!Deliverable(c, e)' # {}
             /\ \A i \in C!Deliverable(c, e)' :
                  \/ put'[c][e][i] = ann
                  \/ i \in C!Deliverable(c, e) /\ put'[c][e][i] = put[c][e][i]
             /\ Range(put[c][e]) \subseteq Range(put'[c][e])
  <2> DEFINE n == Len(put[c][e])
             longer == Append(put[c][e], ann)
  <2>1. /\ put[c][e] \in Seq(Announcement) /\ n \in Nat /\ DOMAIN put[c][e] = 1..n
    BY EndDelivered
  <2>2. /\ longer \in Seq(Announcement) /\ Len(longer) = n + 1 /\ longer[n + 1] = ann
        /\ \A j \in 1..n : longer[j] = put[c][e][j]
    BY <2>1, AppendProperties
  <2>3. put'[c][e] = longer
    BY <1>1, <1>3
  <2> HIDE DEF longer
  <2>4. DOMAIN longer = 1..(n + 1)
    BY <2>1, <2>2
  <2>5. ann \notin Range(got[c][e])
    BY <1>1, <1>3 DEF GotOfPut
  <2>6. n + 1 \in C!Deliverable(c, e)'
    <3>1. \A j \in 1..(n + 1) : longer[j] \in Range(got[c][e]) => j < n + 1
      BY <2>1, <2>2, <2>5
    <3>2. n + 1 \in 1..(n + 1)
      BY <2>1
    <3>3. QED
      BY <1>1, <2>3, <2>4, <3>1, <3>2 DEF C!Deliverable, C!Range, Range
  <2>7. ASSUME NEW i \in C!Deliverable(c, e)', i # n + 1
        PROVE  i \in C!Deliverable(c, e) /\ longer[i] = put[c][e][i]
    <3>1. i \in 1..n /\ \A j \in 1..(n + 1) : longer[j] \in Range(got[c][e]) => j < i
      BY <1>1, <2>1, <2>3, <2>4, <2>7 DEF C!Deliverable, C!Range, Range
    <3>2. \A j \in 1..n : j \in 1..(n + 1)
      BY <2>1
    <3>3. QED
      BY <2>1, <2>2, <3>1, <3>2 DEF C!Deliverable, C!Range, Range
  <2>8. Range(put[c][e]) \subseteq Range(longer)
    BY <2>1, <2>2, <2>4 DEF Range
  <2>9. longer # <<>> /\ TheEnd(longer) = ann
    BY <2>1, <2>2 DEF TheEnd
  <2>10. QED
    BY <2>2, <2>3, <2>6, <2>7, <2>8, <2>9
<1>4. GotOfPut'
  <2> SUFFICES ASSUME NEW c \in Secondary, NEW e \in End
               PROVE  Range(got[c][e]) \subseteq Range(put'[c][e])
    BY <1>1 DEF GotOfPut
  <2>1. Range(put[c][e]) \subseteq Range(put'[c][e])
    BY <1>2, <1>3
  <2>2. QED
    BY <2>1 DEF GotOfPut
<1>5. QED
  BY <1>2, <1>3, <1>4

\* Nothing is under way but from a tracker to the others.
Aside(at) ==
  /\ queued[at] = <<>>
  /\ \A s \in Secondary \ {at} : relaying[s] = Nothing /\ C!Deliverable(s, "primary") = {}
  /\ at # Primary => C!Deliverable(at, "secondary") = {}

\* Everything under way, and every entry, has the key.
SameKey(at, key) ==
  /\ \A c \in Secondary, e \in End : \A i \in C!Deliverable(c, e) : put[c][e][i].key = key
  /\ \A s \in Secondary : relaying[s] # Nothing => relaying[s].key = key
  /\ \A t \in Tracker : \A i \in DOMAIN queued[t] : queued[t][i].key = KeyAt(t, at, key)
  /\ \A t \in Tracker : entry[t] # NoPeer => entry[t].key = KeyAt(t, at, key)

\* The stations before the queue of a tracker hold something for it.
Upstream(t) ==
  /\ t # said.at
  /\ \/ said.at # Primary /\ C!Deliverable(said.at, "primary") # {}
     \/ said.at # Primary /\ t # Primary /\ relaying[said.at] # Nothing
     \/ t # Primary /\ C!Deliverable(t, "secondary") # {}

\* What was said last comes last at every station that it has reached,
LastWord ==
  /\ said.at # Primary =>
       /\ TheEnd(put[said.at]["primary"]) = said.ann
       /\ C!Deliverable(said.at, "primary") = {} /\ relaying[said.at] # Nothing =>
            relaying[said.at] = said.ann
  /\ \A s \in Secondary \ {said.at} :
       (said.at # Primary =>
          C!Deliverable(said.at, "primary") = {} /\ relaying[said.at] = Nothing) =>
       TheEnd(put[s]["secondary"]) = said.ann

Told(t) == [said.ann EXCEPT !.key = KeyAt(t, said.at, said.ann.key)]

Settled(t) ==
  \/ entry[t] = IF said.ann.event = "stopped" THEN NoPeer
                ELSE [address |-> said.ann.address,
                      key |-> KeyAt(t, said.at, said.ann.key)]
  \/ entry[t] = NoPeer /\ t \in expired

\* and when it is through, it is in the entry.
Arrival ==
  \A t \in Tracker : ~Upstream(t) =>
    IF queued[t] = <<>> THEN Settled(t) ELSE TheEnd(queued[t]) = Told(t)

SteadyInv ==
  /\ said.at \in Tracker /\ said.ann \in Announcement
  /\ Aside(said.at) /\ SameKey(said.at, said.ann.key) /\ LastWord /\ Arrival

AgreedInv == TypeInv /\ GotOfPut /\ (steady => SteadyInv)

\* With the key of the entry an announce has its way, and the key stays.
LEMMA AppliedHolder ==
  ASSUME NEW peer \in Peer \cup {NoPeer}, NEW ann \in Announcement,
         peer # NoPeer => peer.key = ann.key
  PROVE  /\ Applied(peer, ann) = IF ann.event = "stopped" THEN NoPeer
                                 ELSE [address |-> ann.address, key |-> ann.key]
         /\ Applied(peer, ann) # NoPeer => Applied(peer, ann).key = ann.key
<1>1. CASE peer = NoPeer
  BY <1>1 DEF Applied
<1>2. CASE peer # NoPeer
  <2>1. peer \in Peer /\ peer.key = ann.key
    BY <1>2
  <2>2. [peer EXCEPT !.address = ann.address] = [address |-> ann.address, key |-> ann.key]
    BY <2>1 DEF Peer
  <2>3. QED
    BY <1>2, <2>1, <2>2 DEF Applied
<1>3. QED
  BY <1>1, <1>2

\* When the peer announces itself, nothing is under way but its own announces.
LEMMA BeginsAside ==
  ASSUME AgreedInv, NEW t \in Tracker, NEW key, Steady(t, key)
  PROVE  Aside(t) /\ SameKey(t, key)
<1>1. CASE UnderWay
  BY <1>1 DEF Steady, AgreedInv, SteadyInv
<1>2. CASE ~UnderWay
  <2>1. /\ \A s \in Secondary, e \in End : C!Deliverable(s, e) = {}
        /\ \A u \in Tracker : queued[u] = <<>>
        /\ \A s \in Secondary : relaying[s] = Nothing
    BY <1>2 DEF UnderWay
  <2>2. \A u \in Tracker : entry[u] # NoPeer => entry[u].key = KeyAt(u, t, key)
    BY <1>2 DEF Steady
  <2>3. Primary \in Tracker /\ "primary" \in End /\ "secondary" \in End
        /\ \A u \in Tracker : u # Primary => u \in Secondary
    BY DEF Tracker, End
  <2>4. Aside(t)
    BY <2>1, <2>3 DEF Aside
  <2>5. SameKey(t, key)
    BY <2>1, <2>2 DEF SameKey
  <2>6. QED
    BY <2>4, <2>5
<1>3. QED
  BY <1>1, <1>2

\* An announce over HTTP is on its way to every other tracker.
LEMMA AgreedAnnounce ==
  ASSUME AgreedInv, NEW t \in Tracker, NEW offer \in bounds.offers,
         HttpAnnounce(t, offer[1], offer[2], offer[3]), TypeInv'
  PROVE  AgreedInv'
<1> DEFINE ann == [id |-> sent + 1, address |-> offer[1], key |-> offer[2], event |-> offer[3]]
           key == offer[2]
<1>1. ann \in Announcement /\ ann.key = key
  BY OfferTyped DEF AgreedInv
<1> HIDE DEF ann
<1>2. /\ entry[t] # NoPeer => entry[t].key = key
      /\ Announce(t, ann) /\ C!Put(ann, Targets(t))
      /\ said' = [at |-> t, ann |-> ann] /\ steady' = Steady(t, key)
      /\ UNCHANGED <<queued, relaying>>
  BY DEF HttpAnnounce, ann
<1>3. /\ Primary \notin Secondary /\ Primary \in Tracker
      /\ \A u \in Tracker : u # Primary => u \in Secondary
      /\ \A s \in Secondary : s \in Tracker
      /\ "primary" \in End /\ "secondary" \in End
  BY SwarmsAssumption DEF Tracker, End
<1>4. Targets(t) \in SUBSET (Secondary \X End)
  BY <1>3 DEF Targets
<1>5. ChannelsTyped /\ GotOfPut /\ entry \in [Tracker -> Peer \cup {NoPeer}]
  BY DEF AgreedInv, TypeInv
<1>6. /\ \A c \in Secondary, e \in End : <<c, e>> \notin Targets(t) =>
           put'[c][e] = put[c][e] /\ C!Deliverable(c, e)' = C!Deliverable(c, e)
      /\ \A c \in Secondary, e \in End : <<c, e>> \in Targets(t) =>
           /\ put'[c][e] # <<>> /\ TheEnd(put'[c][e]) = ann
           /\ C!Deliverable(c, e)' # {}
           /\ \A i \in C!Deliverable(c, e)' :
                \/ put'[c][e][i] = ann
                \/ i \in C!Deliverable(c, e) /\ put'[c][e][i] = put[c][e][i]
      /\ GotOfPut'
  BY <1>1, <1>2, <1>4, <1>5, PutLast
<1>7. SUFFICES ASSUME steady' PROVE SteadyInv'
  BY <1>6 DEF AgreedInv
<1>8. Aside(t) /\ SameKey(t, key)
  BY <1>2, <1>7, BeginsAside
<1>9. said'.at = t /\ said'.ann = ann
  BY <1>2
<1>10. /\ t = Primary => \A c \in Secondary : /\ <<c, "secondary">> \in Targets(t)
                                              /\ <<c, "primary">> \notin Targets(t)
       /\ t # Primary => \A c \in Secondary : /\ <<c, "secondary">> \notin Targets(t)
                                              /\ <<c, "primary">> \in Targets(t) <=> c = t
  BY DEF Targets
<1>11. /\ entry' = [entry EXCEPT ![t] = Applied(entry[t], ann)]
       /\ Applied(entry[t], ann) = IF ann.event = "stopped" THEN NoPeer
                                   ELSE [address |-> ann.address, key |-> ann.key]
       /\ Applied(entry[t], ann) # NoPeer => Applied(entry[t], ann).key = key
  BY <1>1, <1>2, <1>5, AppliedHolder DEF Announce
<1>12. KeyAt(t, t, key) = key
  BY DEF KeyAt
<1>13. Aside(t)'
  <2>1. \A s \in Secondary \ {t} : C!Deliverable(s, "primary")' = C!Deliverable(s, "primary")
    BY <1>3, <1>6, <1>10
  <2>2. t # Primary => C!Deliverable(t, "secondary")' = C!Deliverable(t, "secondary")
    BY <1>3, <1>6, <1>10
  <2>3. queued' = queued /\ relaying' = relaying
    BY <1>2
  <2>4. QED
    BY <1>8, <2>1, <2>2, <2>3, Zenon DEF Aside
<1>14. SameKey(t, key)'
  <2>1. ASSUME NEW c \in Secondary, NEW e \in End, NEW i \in C!Deliverable(c, e)'
        PROVE  put'[c][e][i].key = key
    <3>1. \/ put'[c][e][i] = ann
          \/ i \in C!Deliverable(c, e) /\ put'[c][e][i] = put[c][e][i]
      BY <1>6, <2>1
    <3>2. i \in C!Deliverable(c, e) => put[c][e][i].key = key
      BY <1>8 DEF SameKey
    <3>3. QED
      BY <1>1, <3>1, <3>2
  <2>2. \A u \in Tracker : entry'[u] # NoPeer => entry'[u].key = KeyAt(u, t, key)
    BY <1>5, <1>8, <1>11, <1>12 DEF SameKey
  <2>3. QED
    BY <1>2, <1>8, <2>1, <2>2 DEF SameKey, KeyAt
<1>15. LastWord'
  BY <1>3, <1>6, <1>9, <1>10 DEF LastWord
<1>16. Arrival'
  <2> SUFFICES ASSUME NEW u \in Tracker, ~Upstream(u)'
               PROVE  IF queued'[u] = <<>> THEN Settled(u)' ELSE TheEnd(queued'[u]) = Told(u)'
    BY DEF Arrival
  <2>1. u = t
    BY <1>3, <1>6, <1>9, <1>10 DEF Upstream
  <2>2. queued'[u] = <<>>
    BY <1>2, <1>8, <2>1 DEF Aside
  <2>3. entry'[t] = IF ann.event = "stopped" THEN NoPeer
                    ELSE [address |-> ann.address, key |-> KeyAt(t, t, ann.key)]
    BY <1>1, <1>5, <1>11, <1>12
  <2>4. Settled(u)'
    BY <1>9, <2>1, <2>3, Zenon DEF Settled, KeyAt
  <2>5. QED
    BY <2>2, <2>4
<1>17. QED
  BY <1>1, <1>9, <1>13, <1>14, <1>15, <1>16 DEF SteadyInv, Aside, SameKey, KeyAt

\* The primary one takes an announce over a link: it is in its queue, without
\* the key, and with the thread that has yet to relay it.
LEMMA AgreedAtPrimary ==
  ASSUME AgreedInv, steady, NEW s \in Secondary, ReceiveAtPrimary(s)
  PROVE  SteadyInv' /\ GotOfPut'
<1> DEFINE m == TheEnd(got'[s]["primary"])
           blanked == [m EXCEPT !.key = Blank]
<1>1. /\ relaying[s] = Nothing /\ C!Get(s, "primary")
      /\ queued' = [queued EXCEPT ![Primary] = Append(@, blanked)]
      /\ relaying' = [relaying EXCEPT ![s] = m]
      /\ UNCHANGED <<entry, said, expired>>
  BY DEF ReceiveAtPrimary, QueueAnnounce, TheEnd, peerVars, historyVars
<1>2. /\ Primary \notin Secondary /\ Primary \in Tracker /\ Nothing \notin Announcement
      /\ s \in Tracker /\ s # Primary /\ "primary" \in End /\ "secondary" \in End
      /\ \A u \in Tracker : u # Primary => u \in Secondary
  BY SwarmsAssumption DEF Tracker, End
<1>3. /\ ChannelsTyped /\ GotOfPut /\ queued \in [Tracker -> Seq(Announcement)]
      /\ relaying \in [Secondary -> Announcement \cup {Nothing}]
  BY DEF AgreedInv, TypeInv
<1>4. /\ said.at \in Tracker /\ said.ann \in Announcement
      /\ Aside(said.at) /\ SameKey(said.at, said.ann.key) /\ LastWord /\ Arrival
  BY DEF AgreedInv, SteadyInv
<1>5. /\ put' = put /\ C!Deliverable(s, "primary") # {}
      /\ \E i \in C!Deliverable(s, "primary") : m = put[s]["primary"][i]
      /\ \A d \in Secondary, f \in End :
           /\ C!Deliverable(d, f)' \subseteq C!Deliverable(d, f)
           /\ d # s \/ f # "primary" => C!Deliverable(d, f)' = C!Deliverable(d, f)
      /\ C!Deliverable(s, "primary")' = {} => m = TheEnd(put[s]["primary"])
      /\ GotOfPut'
  BY <1>1, <1>2, <1>3, GetLast
<1>6. m \in Announcement
  BY <1>1, <1>2, <1>3, GetTyped DEF TheEnd
<1> HIDE DEF m
<1>7. said.at = s
  BY <1>4, <1>5 DEF Aside
<1>8. m.key = said.ann.key /\ blanked \in Announcement /\ blanked.key = Blank
  BY <1>2, <1>4, <1>5, <1>6 DEF SameKey, Announcement
<1>9. /\ queued'[Primary] = Append(queued[Primary], blanked)
      /\ \A u \in Tracker : u # Primary => queued'[u] = queued[u]
      /\ relaying'[s] = m /\ relaying'[s] # Nothing
      /\ \A r \in Secondary : r # s => relaying'[r] = relaying[r]
  BY <1>1, <1>2, <1>3, <1>6
<1> HIDE DEF blanked
<1>10. /\ queued[Primary] \in Seq(Announcement)
       /\ queued'[Primary] # <<>> /\ TheEnd(queued'[Primary]) = blanked
       /\ \A i \in DOMAIN queued'[Primary] :
            \/ queued'[Primary][i] = blanked
            \/ i \in DOMAIN queued[Primary] /\ queued'[Primary][i] = queued[Primary][i]
  <2>1. queued[Primary] \in Seq(Announcement)
    BY <1>2, <1>3
  <2>2. QED
    BY <1>8, <1>9, <2>1, AppendProperties DEF TheEnd
<1>11. \A t \in Tracker, at \in Tracker : \A key : KeyAt(t, at, key)' = KeyAt(t, at, key)
  BY DEF KeyAt
<1>12. KeyAt(Primary, s, said.ann.key) = Blank
  BY <1>2 DEF KeyAt
<1>13. Aside(s)'
  BY <1>2, <1>4, <1>5, <1>7, <1>9 DEF Aside
<1>14. SameKey(s, said.ann.key)'
  <2>1. \A c \in Secondary, e \in End : \A i \in C!Deliverable(c, e)' : put'[c][e][i].key = said.ann.key
    BY <1>4, <1>5 DEF SameKey
  <2>2. \A r \in Secondary : relaying'[r] # Nothing => relaying'[r].key = said.ann.key
    BY <1>4, <1>8, <1>9 DEF SameKey
  <2>3. \A t \in Tracker : \A i \in DOMAIN queued'[t] :
          queued'[t][i].key = KeyAt(t, s, said.ann.key)
    <3> SUFFICES ASSUME NEW t \in Tracker, NEW i \in DOMAIN queued'[t]
                 PROVE  queued'[t][i].key = KeyAt(t, s, said.ann.key)
      OBVIOUS
    <3>1. CASE t = Primary
      BY <1>2, <1>4, <1>7, <1>8, <1>10, <1>12, <3>1 DEF SameKey
    <3>2. CASE t # Primary
      BY <1>4, <1>7, <1>9, <3>2 DEF SameKey
    <3>3. QED
      BY <3>1, <3>2
  <2>4. \A t \in Tracker : entry'[t] # NoPeer => entry'[t].key = KeyAt(t, s, said.ann.key)
    BY <1>1, <1>4, <1>7 DEF SameKey
  <2>5. said' = said
    BY <1>1
  <2>6. QED
    BY <2>1, <2>2, <2>3, <2>4, <2>5, Zenon DEF SameKey, KeyAt
<1>15. LastWord'
  <2>1. /\ TheEnd(put[s]["primary"]) = said.ann
        /\ C!Deliverable(s, "primary")' = {} => relaying'[s] = said.ann
    BY <1>2, <1>4, <1>5, <1>7, <1>9 DEF LastWord
  <2>2. QED
    BY <1>1, <1>2, <1>5, <1>7, <1>9, <2>1 DEF LastWord
<1>16. Arrival'
  <2> SUFFICES ASSUME NEW u \in Tracker, ~Upstream(u)'
               PROVE  IF queued'[u] = <<>> THEN Settled(u)' ELSE TheEnd(queued'[u]) = Told(u)'
    BY DEF Arrival
  <2>1. CASE u = Primary
    <3>1. C!Deliverable(s, "primary")' = {}
      BY <1>1, <1>2, <1>7, <2>1 DEF Upstream
    <3>2. m = said.ann
      BY <1>2, <1>4, <1>5, <1>7, <3>1 DEF LastWord
    <3>3. Told(u)' = blanked
      BY <1>1, <1>7, <1>12, <2>1, <3>2 DEF Told, blanked, KeyAt
    <3>4. QED
      BY <1>10, <2>1, <3>3
  <2>2. CASE u # Primary
    <3>1. u = s
      BY <1>1, <1>2, <1>7, <1>9, <2>2 DEF Upstream
    <3>2. queued'[u] = <<>> /\ queued[u] = <<>>
      BY <1>4, <1>7, <1>9, <2>2, <3>1 DEF Aside
    <3>3. Settled(u)
      BY <1>4, <1>7, <3>1, <3>2 DEF Arrival, Upstream
    <3>4. Settled(u)'
      BY <1>1, <3>3, Zenon DEF Settled, KeyAt
    <3>5. QED
      BY <3>2, <3>4
  <2>3. QED
    BY <2>1, <2>2
<1>17. QED
  BY <1>1, <1>4, <1>5, <1>7, <1>13, <1>14, <1>15, <1>16 DEF SteadyInv, Aside, SameKey, KeyAt

\* A thread relays what it holds, which then comes last on the links to all
\* the others.
LEMMA AgreedRelay ==
  ASSUME AgreedInv, steady, NEW s \in Secondary, Relay(s)
  PROVE  SteadyInv' /\ GotOfPut'
<1> DEFINE m == relaying[s]
           channels == RelayTargets(s)
<1>1. /\ m # Nothing /\ C!Put(m, channels)
      /\ relaying' = [relaying EXCEPT ![s] = Nothing]
      /\ UNCHANGED <<entry, queued, said, expired>>
  BY DEF Relay, peerVars, historyVars
<1>2. /\ Primary \notin Secondary /\ Primary \in Tracker
      /\ s \in Tracker /\ s # Primary /\ "primary" \in End /\ "secondary" \in End
      /\ "primary" # "secondary"
      /\ \A u \in Tracker : u # Primary => u \in Secondary
  BY SwarmsAssumption DEF Tracker, End
<1>3. /\ ChannelsTyped /\ GotOfPut
      /\ relaying \in [Secondary -> Announcement \cup {Nothing}]
  BY DEF AgreedInv, TypeInv
<1>4. /\ said.at \in Tracker /\ said.ann \in Announcement
      /\ Aside(said.at) /\ SameKey(said.at, said.ann.key) /\ LastWord /\ Arrival
  BY DEF AgreedInv, SteadyInv
<1>5. m \in Announcement /\ channels \in SUBSET (Secondary \X End)
  BY <1>1, <1>2, <1>3 DEF RelayTargets
<1>6. /\ \A c \in Secondary, e \in End : <<c, e>> \in channels <=> c # s /\ e = "secondary"
  BY DEF RelayTargets
<1> HIDE DEF channels
<1>7. /\ \A c \in Secondary, e \in End : <<c, e>> \notin channels =>
           put'[c][e] = put[c][e] /\ C!Deliverable(c, e)' = C!Deliverable(c, e)
      /\ \A c \in Secondary, e \in End : <<c, e>> \in channels =>
           /\ put'[c][e] # <<>> /\ TheEnd(put'[c][e]) = m
           /\ C!Deliverable(c, e)' # {}
           /\ \A i \in C!Deliverable(c, e)' :
                \/ put'[c][e][i] = m
                \/ i \in C!Deliverable(c, e) /\ put'[c][e][i] = put[c][e][i]
      /\ GotOfPut'
  BY <1>1, <1>3, <1>5, PutLast
<1>8. said.at = s
  BY <1>1, <1>4 DEF Aside
<1>9. m.key = said.ann.key
  BY <1>1, <1>4 DEF SameKey
<1>10. /\ \A c \in Secondary : /\ put'[c]["primary"] = put[c]["primary"]
                               /\ C!Deliverable(c, "primary")' = C!Deliverable(c, "primary")
       /\ C!Deliverable(s, "secondary")' = C!Deliverable(s, "secondary")
       /\ \A c \in Secondary \ {s} : /\ TheEnd(put'[c]["secondary"]) = m
                                     /\ C!Deliverable(c, "secondary")' # {}
  BY <1>2, <1>6, <1>7
<1>11. /\ relaying'[s] = Nothing
       /\ \A r \in Secondary : r # s => relaying'[r] = relaying[r]
  BY <1>1, <1>3
<1>12. Aside(s)'
  BY <1>1, <1>4, <1>8, <1>10, <1>11 DEF Aside
<1>13. SameKey(s, said.ann.key)'
  <2>1. ASSUME NEW c \in Secondary, NEW e \in End, NEW i \in C!Deliverable(c, e)'
        PROVE  put'[c][e][i].key = said.ann.key
    <3>1. \/ put'[c][e][i] = m
          \/ i \in C!Deliverable(c, e) /\ put'[c][e][i] = put[c][e][i]
      BY <1>7, <2>1
    <3>2. i \in C!Deliverable(c, e) => put[c][e][i].key = said.ann.key
      BY <1>4 DEF SameKey
    <3>3. QED
      BY <1>9, <3>1, <3>2
  <2>2. \A r \in Secondary : relaying'[r] # Nothing => relaying'[r].key = said.ann.key
    BY <1>4, <1>11 DEF SameKey
  <2>3. said' = said /\ queued' = queued /\ entry' = entry
    BY <1>1
  <2>4. QED
    BY <1>4, <1>8, <2>1, <2>2, <2>3, Zenon DEF SameKey, KeyAt
<1>14. LastWord'
  <2>1. C!Deliverable(s, "primary") = {} => m = said.ann
    BY <1>1, <1>2, <1>4, <1>8 DEF LastWord
  <2>2. TheEnd(put[s]["primary"]) = said.ann
    BY <1>2, <1>4, <1>8 DEF LastWord
  <2>3. QED
    BY <1>1, <1>2, <1>8, <1>10, <1>11, <2>1, <2>2 DEF LastWord
<1>15. Arrival'
  <2> SUFFICES ASSUME NEW u \in Tracker, ~Upstream(u)'
               PROVE  IF queued'[u] = <<>> THEN Settled(u)' ELSE TheEnd(queued'[u]) = Told(u)'
    BY DEF Arrival
  <2>1. ~Upstream(u)
    BY <1>1, <1>2, <1>8, <1>10, <1>11 DEF Upstream
  <2>2. IF queued[u] = <<>> THEN Settled(u) ELSE TheEnd(queued[u]) = Told(u)
    BY <1>4, <2>1 DEF Arrival
  <2>3. /\ queued' = queued /\ (Settled(u) => Settled(u)') /\ Told(u)' = Told(u)
    BY <1>1, Zenon DEF Settled, Told, KeyAt
  <2>4. QED
    BY <2>2, <2>3
<1>16. QED
  BY <1>1, <1>4, <1>7, <1>8, <1>12, <1>13, <1>14, <1>15 DEF SteadyInv, Aside, SameKey, KeyAt

\* A secondary one takes an announce over its link.
LEMMA AgreedAtSecondary ==
  ASSUME AgreedInv, steady, NEW s \in Secondary, ReceiveAtSecondary(s)
  PROVE  SteadyInv' /\ GotOfPut'
<1> DEFINE m == TheEnd(got'[s]["secondary"])
<1>1. /\ C!Get(s, "secondary")
      /\ queued' = [queued EXCEPT ![s] = Append(@, m)]
      /\ UNCHANGED <<entry, relaying, said, expired>>
  BY DEF ReceiveAtSecondary, QueueAnnounce, TheEnd, peerVars, historyVars
<1>2. /\ Primary \notin Secondary /\ Primary \in Tracker
      /\ s \in Tracker /\ s # Primary /\ "primary" \in End /\ "secondary" \in End
      /\ "primary" # "secondary"
      /\ \A u \in Tracker : u # Primary => u \in Secondary
  BY SwarmsAssumption DEF Tracker, End
<1>3. /\ ChannelsTyped /\ GotOfPut /\ queued \in [Tracker -> Seq(Announcement)]
  BY DEF AgreedInv, TypeInv
<1>4. /\ said.at \in Tracker /\ said.ann \in Announcement
      /\ Aside(said.at) /\ SameKey(said.at, said.ann.key) /\ LastWord /\ Arrival
  BY DEF AgreedInv, SteadyInv
<1>5. /\ put' = put /\ C!Deliverable(s, "secondary") # {}
      /\ \E i \in C!Deliverable(s, "secondary") : m = put[s]["secondary"][i]
      /\ \A d \in Secondary, f \in End :
           /\ C!Deliverable(d, f)' \subseteq C!Deliverable(d, f)
           /\ d # s \/ f # "secondary" => C!Deliverable(d, f)' = C!Deliverable(d, f)
      /\ C!Deliverable(s, "secondary")' = {} => m = TheEnd(put[s]["secondary"])
      /\ GotOfPut'
  BY <1>1, <1>2, <1>3, GetLast
<1>6. m \in Announcement
  BY <1>1, <1>2, <1>3, GetTyped DEF TheEnd
<1> HIDE DEF m
<1>7. said.at # s
  BY <1>2, <1>4, <1>5 DEF Aside
<1>8. m.key = said.ann.key /\ KeyAt(s, said.at, said.ann.key) = said.ann.key
  BY <1>2, <1>4, <1>5 DEF SameKey, KeyAt
<1>9. /\ queued'[s] = Append(queued[s], m)
      /\ \A u \in Tracker : u # s => queued'[u] = queued[u]
  BY <1>1, <1>2, <1>3
<1>10. /\ queued'[s] # <<>> /\ TheEnd(queued'[s]) = m
       /\ \A i \in DOMAIN queued'[s] :
            \/ queued'[s][i] = m
            \/ i \in DOMAIN queued[s] /\ queued'[s][i] = queued[s][i]
  <2>1. queued[s] \in Seq(Announcement)
    BY <1>2, <1>3
  <2>2. QED
    BY <1>6, <1>9, <2>1, AppendProperties DEF TheEnd
<1>11. \A c \in Secondary : C!Deliverable(c, "primary")' = C!Deliverable(c, "primary")
  BY <1>2, <1>5
<1>12. Aside(said.at)'
  <2>1. queued'[said.at] = queued[said.at]
    BY <1>4, <1>7, <1>9
  <2>2. said.at # Primary =>
          C!Deliverable(said.at, "secondary")' = C!Deliverable(said.at, "secondary")
    BY <1>1, <1>2, <1>4, <1>5, <1>7
  <2>3. relaying' = relaying /\ said' = said
    BY <1>1
  <2>4. QED
    BY <1>4, <1>11, <2>1, <2>2, <2>3, Zenon DEF Aside
<1>13. SameKey(said.at, said.ann.key)'
  <2>1. \A c \in Secondary, e \in End : \A i \in C!Deliverable(c, e)' : put'[c][e][i].key = said.ann.key
    BY <1>4, <1>5 DEF SameKey
  <2>2. \A t \in Tracker : \A i \in DOMAIN queued'[t] :
          queued'[t][i].key = KeyAt(t, said.at, said.ann.key)
    <3> SUFFICES ASSUME NEW t \in Tracker, NEW i \in DOMAIN queued'[t]
                 PROVE  queued'[t][i].key = KeyAt(t, said.at, said.ann.key)
      OBVIOUS
    <3>1. CASE t = s
      BY <1>4, <1>8, <1>10, <3>1 DEF SameKey
    <3>2. CASE t # s
      BY <1>4, <1>9, <3>2 DEF SameKey
    <3>3. QED
      BY <3>1, <3>2
  <2>3. said' = said /\ relaying' = relaying /\ entry' = entry
    BY <1>1
  <2>4. QED
    BY <1>4, <2>1, <2>2, <2>3, Zenon DEF SameKey, KeyAt
<1>14. LastWord'
  <2>1. said' = said /\ relaying' = relaying /\ put' = put
    BY <1>1, <1>5
  <2>2. said.at # Primary =>
          C!Deliverable(said.at, "primary")' = C!Deliverable(said.at, "primary")
    BY <1>1, <1>2, <1>4, <1>11
  <2>3. QED
    BY <1>4, <2>1, <2>2, Zenon DEF LastWord
<1>15. Arrival'
  <2> SUFFICES ASSUME NEW u \in Tracker, ~Upstream(u)'
               PROVE  IF queued'[u] = <<>> THEN Settled(u)' ELSE TheEnd(queued'[u]) = Told(u)'
    BY DEF Arrival
  <2>1. CASE u = s
    <3>1. /\ C!Deliverable(s, "secondary")' = {}
          /\ said.at # Primary =>
               C!Deliverable(said.at, "primary") = {} /\ relaying[said.at] = Nothing
      BY <1>1, <1>2, <1>4, <1>7, <1>11, <2>1 DEF Upstream
    <3>2. TheEnd(put[s]["secondary"]) = said.ann
      BY <1>4, <1>7, <3>1, Zenon DEF LastWord
    <3>3. m = said.ann
      BY <1>5, <3>1, <3>2
    <3>4. Told(u)' = m
      BY <1>1, <1>4, <1>8, <2>1, <3>3 DEF Told, KeyAt, Announcement
    <3>5. QED
      BY <1>10, <2>1, <3>4
  <2>2. CASE u # s
    <3>1. ~Upstream(u)
      BY <1>1, <1>2, <1>4, <1>5, <1>11, <2>2 DEF Upstream
    <3>2. IF queued[u] = <<>> THEN Settled(u) ELSE TheEnd(queued[u]) = Told(u)
      BY <1>4, <3>1 DEF Arrival
    <3>3. (Settled(u) => Settled(u)') /\ Told(u)' = Told(u)
      BY <1>1, Zenon DEF Settled, Told, KeyAt
    <3>4. QED
      BY <1>9, <2>2, <3>2, <3>3
  <2>3. QED
    BY <2>1, <2>2
<1>16. QED
  BY <1>1, <1>4, <1>5, <1>12, <1>13, <1>14, <1>15 DEF SteadyInv, Aside, SameKey, KeyAt

\* A tracker applies what has waited longest in its queue; when it was the
\* last word, the entry follows it.
LEMMA AgreedApply ==
  ASSUME AgreedInv, steady, NEW t \in Tracker, ApplyQueued(t)
  PROVE  SteadyInv' /\ GotOfPut'
<1> DEFINE m == Head(queued[t])
           rest == Tail(queued[t])
           key == KeyAt(t, said.at, said.ann.key)
<1>1. /\ queued[t] # <<>> /\ Announce(t, m)
      /\ queued' = [queued EXCEPT ![t] = rest]
      /\ UNCHANGED <<put, got, relaying, said, expired>>
  BY DEF ApplyQueued, historyVars
<1>2. /\ queued \in [Tracker -> Seq(Announcement)] /\ entry \in [Tracker -> Peer \cup {NoPeer}]
  BY DEF AgreedInv, TypeInv
<1>3. /\ said.at \in Tracker /\ said.ann \in Announcement
      /\ Aside(said.at) /\ SameKey(said.at, said.ann.key) /\ LastWord /\ Arrival
  BY DEF AgreedInv, SteadyInv
<1>4. t # said.at
  BY <1>1, <1>3 DEF Aside
<1>5. /\ queued[t] \in Seq(Announcement) /\ m = queued[t][1] /\ m \in Announcement
      /\ rest \in Seq(Announcement) /\ Len(rest) = Len(queued[t]) - 1
      /\ \A i \in 1..Len(rest) : rest[i] = queued[t][i + 1]
      /\ Len(queued[t]) \in Nat /\ Len(queued[t]) > 0
      /\ DOMAIN rest = 1..Len(rest) /\ DOMAIN queued[t] = 1..Len(queued[t])
  <2>1. queued[t] \in Seq(Announcement)
    BY <1>2
  <2>2. /\ m \in Announcement /\ rest \in Seq(Announcement) /\ Len(rest) = Len(queued[t]) - 1
        /\ \A i \in 1..Len(rest) : rest[i] = queued[t][i + 1]
    BY <1>1, <2>1, HeadTailProperties
  <2>3. QED
    BY <1>1, <2>1, <2>2
<1>6. /\ queued'[t] = rest
      /\ \A u \in Tracker : u # t => queued'[u] = queued[u]
  BY <1>1, <1>2
<1> HIDE DEF rest, m, key
<1>7. \A i \in DOMAIN queued[t] : queued[t][i].key = key
  BY <1>3 DEF SameKey, key
<1>8. m.key = key /\ \A i \in DOMAIN rest : rest[i].key = key
  <2>1. 1 \in DOMAIN queued[t] /\ \A i \in DOMAIN rest : i + 1 \in DOMAIN queued[t]
    BY <1>5
  <2>2. QED
    BY <1>5, <1>7, <2>1
<1>9. entry[t] # NoPeer => entry[t].key = key
  BY <1>3 DEF SameKey, key
<1>10. /\ entry' = [entry EXCEPT ![t] = Applied(entry[t], m)]
       /\ Applied(entry[t], m) = IF m.event = "stopped" THEN NoPeer
                                 ELSE [address |-> m.address, key |-> key]
       /\ Applied(entry[t], m) # NoPeer => Applied(entry[t], m).key = key
  BY <1>1, <1>2, <1>5, <1>8, <1>9, AppliedHolder DEF Announce
<1>11. /\ entry'[t] = Applied(entry[t], m)
       /\ \A u \in Tracker : u # t => entry'[u] = entry[u]
  BY <1>2, <1>10
<1>12. \A c \in Secondary, e \in End : C!Deliverable(c, e)' = C!Deliverable(c, e)
  BY <1>1 DEF C!Deliverable
<1>13. Aside(said.at)'
  BY <1>1, <1>3, <1>4, <1>6 DEF Aside, C!Deliverable
<1>14. SameKey(said.at, said.ann.key)'
  <2>1. \A c \in Secondary, e \in End : \A i \in C!Deliverable(c, e)' : put'[c][e][i].key = said.ann.key
    BY <1>1, <1>3, <1>12 DEF SameKey
  <2>2. \A u \in Tracker : \A i \in DOMAIN queued'[u] :
          queued'[u][i].key = KeyAt(u, said.at, said.ann.key)
    BY <1>3, <1>6, <1>8 DEF SameKey, key
  <2>3. \A u \in Tracker : entry'[u] # NoPeer =>
          entry'[u].key = KeyAt(u, said.at, said.ann.key)
    BY <1>3, <1>10, <1>11 DEF SameKey, key
  <2>4. said' = said /\ relaying' = relaying
    BY <1>1
  <2>5. QED
    BY <1>3, <2>1, <2>2, <2>3, <2>4, Zenon DEF SameKey, KeyAt
<1>15. LastWord'
  BY <1>1, <1>3 DEF LastWord, C!Deliverable
<1>16. Arrival'
  <2> SUFFICES ASSUME NEW u \in Tracker, ~Upstream(u)'
               PROVE  IF queued'[u] = <<>> THEN Settled(u)' ELSE TheEnd(queued'[u]) = Told(u)'
    BY DEF Arrival
  <2>1. ~Upstream(u)
    BY <1>1 DEF Upstream, C!Deliverable
  <2>2. IF queued[u] = <<>> THEN Settled(u) ELSE TheEnd(queued[u]) = Told(u)
    BY <1>3, <2>1 DEF Arrival
  <2>3. Told(u)' = Told(u)
    BY <1>1, Zenon DEF Told, KeyAt
  <2>4. CASE u # t
    <3>1. Settled(u) => Settled(u)'
      BY <1>1, <1>11, <2>4, Zenon DEF Settled, KeyAt
    <3>2. QED
      BY <1>6, <2>2, <2>3, <2>4, <3>1
  <2>5. CASE u = t /\ rest # <<>>
    <3>1. Len(rest) \in 1..Len(rest)
      BY <1>5, <2>5
    <3>2. TheEnd(rest) = TheEnd(queued[t])
      BY <1>5, <3>1 DEF TheEnd
    <3>3. QED
      BY <1>1, <1>6, <2>2, <2>3, <2>5, <3>2
  <2>6. CASE u = t /\ rest = <<>>
    <3>1. TheEnd(queued[t]) = m
      BY <1>5, <2>6 DEF TheEnd
    <3>2. m = Told(t)
      BY <1>1, <2>2, <2>6, <3>1
    <3>3. m.event = said.ann.event /\ m.address = said.ann.address
      BY <1>3, <3>2 DEF Told, Announcement
    <3>4. entry'[t] = IF said.ann.event = "stopped" THEN NoPeer
                      ELSE [address |-> said.ann.address, key |-> key]
      BY <1>10, <1>11, <3>3
    <3>5. Settled(u)'
      BY <1>1, <2>6, <3>4, Zenon DEF Settled, KeyAt, key
    <3>6. QED
      BY <1>6, <2>6, <3>5
  <2>7. QED
    BY <2>4, <2>5, <2>6
<1>17. GotOfPut'
  BY <1>1 DEF AgreedInv, GotOfPut
<1>18. QED
  BY <1>1, <1>3, <1>13, <1>14, <1>15, <1>16, <1>17 DEF SteadyInv, Aside, SameKey, KeyAt

\* Whoever is silent goes, and has then been expired.
LEMMA AgreedExpire ==
  ASSUME AgreedInv, steady, NEW t \in Tracker, Expire(t)
  PROVE  SteadyInv' /\ GotOfPut'
<1>1. UNCHANGED <<put, got, queued, relaying, said>>
  BY DEF Expire, linkVars
<1>2. \/ entry' = entry /\ expired' = expired
      \/ entry' = [entry EXCEPT ![t] = NoPeer] /\ expired' = expired \cup {t}
  BY DEF Expire
<1>3. /\ said.at \in Tracker /\ said.ann \in Announcement
      /\ Aside(said.at) /\ SameKey(said.at, said.ann.key) /\ LastWord /\ Arrival
  BY DEF AgreedInv, SteadyInv
<1>4. \A u \in Tracker : \/ entry'[u] = entry[u] /\ (u \in expired => u \in expired')
                         \/ entry'[u] = NoPeer /\ u \in expired'
  BY <1>2 DEF AgreedInv, TypeInv
<1>5. Aside(said.at)' /\ LastWord'
  BY <1>1, <1>3 DEF Aside, LastWord, C!Deliverable
<1>6. SameKey(said.at, said.ann.key)'
  BY <1>1, <1>3, <1>4 DEF SameKey, C!Deliverable, KeyAt
<1>7. Arrival'
  <2> SUFFICES ASSUME NEW u \in Tracker, ~Upstream(u)'
               PROVE  IF queued'[u] = <<>> THEN Settled(u)' ELSE TheEnd(queued'[u]) = Told(u)'
    BY DEF Arrival
  <2>1. ~Upstream(u)
    BY <1>1 DEF Upstream, C!Deliverable
  <2>2. IF queued[u] = <<>> THEN Settled(u) ELSE TheEnd(queued[u]) = Told(u)
    BY <1>3, <2>1 DEF Arrival
  <2>3. Told(u)' = Told(u)
    BY <1>1, Zenon DEF Told, KeyAt
  <2>4. Settled(u) => Settled(u)'
    BY <1>1, <1>4, Zenon DEF Settled, KeyAt
  <2>5. QED
    BY <1>1, <2>2, <2>3, <2>4
<1>8. GotOfPut'
  BY <1>1 DEF AgreedInv, GotOfPut
<1>9. QED
  BY <1>1, <1>3, <1>5, <1>6, <1>7, <1>8 DEF SteadyInv, Aside, SameKey, KeyAt

\* Every step keeps trackers in agreement but for what is on its way,
LEMMA AgreedStep == AgreedInv /\ [Next]_vars => AgreedInv'
<1> SUFFICES ASSUME AgreedInv, [Next]_vars PROVE AgreedInv'
  OBVIOUS
<1>1. TypeInv'
  BY TypeStep DEF AgreedInv
<1>2. ASSUME NEW t \in Tracker, NEW offer \in bounds.offers,
             HttpAnnounce(t, offer[1], offer[2], offer[3])
      PROVE  AgreedInv'
  BY <1>1, <1>2, AgreedAnnounce
<1>3. ASSUME NEW s \in Secondary, C!Get(s, "primary") \/ C!Get(s, "secondary")
      PROVE  GotOfPut'
  BY <1>3, GetLast DEF AgreedInv, TypeInv, End
<1>4. ASSUME NEW s \in Secondary, Relay(s)
      PROVE  GotOfPut'
  <2>1. relaying[s] \in Announcement /\ C!Put(relaying[s], RelayTargets(s))
    BY <1>4 DEF Relay, AgreedInv, TypeInv
  <2>2. RelayTargets(s) \in SUBSET (Secondary \X End)
    BY DEF RelayTargets, End
  <2>3. QED
    BY <2>1, <2>2, PutLast DEF AgreedInv, TypeInv
<1>5. ASSUME NEW s \in Secondary, ReceiveAtPrimary(s) \/ Relay(s) \/ ReceiveAtSecondary(s)
      PROVE  AgreedInv'
  <2>1. steady' = steady
    BY <1>5 DEF ReceiveAtPrimary, Relay, ReceiveAtSecondary, historyVars
  <2>2. GotOfPut'
    BY <1>3, <1>4, <1>5 DEF ReceiveAtPrimary, ReceiveAtSecondary
  <2>3. steady => SteadyInv'
    BY <1>5, AgreedAtPrimary, AgreedRelay, AgreedAtSecondary
  <2>4. QED
    BY <1>1, <2>1, <2>2, <2>3 DEF AgreedInv
<1>6. ASSUME NEW t \in Tracker, ApplyQueued(t) \/ Expire(t)
      PROVE  AgreedInv'
  <2>1. steady' = steady /\ put' = put /\ got' = got
    BY <1>6 DEF ApplyQueued, Expire, linkVars, historyVars
  <2>2. GotOfPut'
    BY <2>1 DEF AgreedInv, GotOfPut
  <2>3. steady => SteadyInv'
    BY <1>6, AgreedApply, AgreedExpire
  <2>4. QED
    BY <1>1, <2>1, <2>2, <2>3 DEF AgreedInv
<1>7. CASE UNCHANGED vars
  <2>1. UNCHANGED <<put, got, queued, relaying, entry, said, steady, expired>>
    BY <1>7 DEF vars, linkVars, peerVars, historyVars
  <2>2. SteadyInv => SteadyInv'
    BY <2>1 DEF SteadyInv, Aside, SameKey, LastWord, Arrival, Upstream, Settled, Told,
                KeyAt, C!Deliverable
  <2>3. QED
    BY <1>1, <2>1, <2>2 DEF AgreedInv, GotOfPut
<1>8. QED
  BY <1>2, <1>5, <1>6, <1>7 DEF Next

\* as they are at first.
LEMMA AgreedInit == Init => AgreedInv
<1> SUFFICES ASSUME Init PROVE AgreedInv
  OBVIOUS
<1>1. TypeInv /\ ~steady
  BY TypeInit DEF Init
<1>2. GotOfPut
  BY DEF Init, C!Init, GotOfPut
<1>3. QED
  BY <1>1, <1>2 DEF AgreedInv

\* However many trackers are linked, and however far announces are apart on
\* their way: when all is through, they agree about a peer that stays with one
\* of them and with its key.
THEOREM TrackersAgree == Spec => []Agreed
<1>1. AgreedInv => Agreed
  <2> SUFFICES ASSUME AgreedInv, steady, ~UnderWay, NEW t \in Tracker
               PROVE  Settled(t)
    BY DEF Agreed, Settled
  <2>1. /\ \A s \in Secondary, e \in End : C!Deliverable(s, e) = {}
        /\ queued[t] = <<>>
        /\ \A s \in Secondary : relaying[s] = Nothing
        /\ "primary" \in End /\ "secondary" \in End
    BY DEF UnderWay, End
  <2>2. \A u \in Tracker : u # Primary => u \in Secondary
    BY DEF Tracker
  <2>3. said.at \in Tracker /\ Arrival
    BY DEF AgreedInv, SteadyInv
  <2>4. ~Upstream(t)
    BY <2>1, <2>2, <2>3 DEF Upstream
  <2>5. QED
    BY <2>1, <2>3, <2>4 DEF Arrival
<1>2. QED
  BY <1>1, AgreedInit, AgreedStep, PTL DEF Spec
=============================================================================
