--------------------------- MODULE TrackerProofs ---------------------------
(***************************************************************************)
(* What holds of Tracker for every number of torrents, peers, addresses    *)
(* and keys and every setting of the intervals and switches.  The bounds   *)
(* that keep TLC's instances small are constants like the others here.     *)
(***************************************************************************)
EXTENDS Tracker, Induction

---------------------------------------------------------------------------
(***************************************************************************)
(* Operators.                                                              *)
(***************************************************************************)

\* Counting peers per address gives a natural number for every address.
LEMMA UniqueOfType ==
  ASSUME NEW d
  PROVE  UniqueOf(d) \in [IP -> Nat]
<1>1. IsFiniteSet(InfoHash \X PeerId)
  BY FiniteAssumption, FS_Product
<1>2. ASSUME NEW i \in IP
      PROVE  Cardinality({hp \in InfoHash \X PeerId :
                            /\ d[hp[1]][hp[2]] # NoPeer
                            /\ d[hp[1]][hp[2]].ip = i}) \in Nat
  <2> DEFINE S == {hp \in InfoHash \X PeerId :
                     /\ d[hp[1]][hp[2]] # NoPeer
                     /\ d[hp[1]][hp[2]].ip = i}
  <2>1. IsFiniteSet(S)
    BY <1>1, FS_Subset
  <2>2. QED
    BY <2>1, FS_CardinalityType
<1>3. QED
  BY <1>2 DEF UniqueOf

\* Topping up a cached list leaves a bag.
LEMMA PoolType ==
  ASSUME NEW held \in [Entry -> Nat], NEW swarm, NEW ann, NEW size
  PROVE  Pool(held, swarm, ann, size) \in [Entry -> Nat]
<1>1. \A e \in Entry : TopUp(swarm, ann)[e] \in Nat
  BY DEF TopUp
<1>2. QED
  BY <1>1 DEF Pool

\* What is taken from the front of a cached list was in it.
LEMMA FrontWithinPool ==
  ASSUME NEW pool \in [Entry -> Nat], NEW size \in Nat,
         NEW front \in Fronts(pool, size), NEW e \in Entry
  PROVE  front[e] \in Nat /\ front[e] <= pool[e]
<1> DEFINE present == {x \in Entry : pool[x] > 0}
<1>1. PICK t \in [present -> 0..size] :
        /\ \A x \in present : t[x] <= pool[x]
        /\ front = [x \in Entry |-> IF x \in present THEN t[x] ELSE 0]
  BY DEF Fronts
<1>2. CASE e \in present
  BY <1>1, <1>2
<1>3. CASE e \notin present
  BY <1>1, <1>3
<1>4. QED
  BY <1>2, <1>3

\* What a known or a new peer looks like after its announce.
LEMMA PeerAfterAnnounce ==
  ASSUME NEW ann \in Announcement
  PROVE  /\ NewPeer(ann) \in Peer
         /\ \A old \in Peer : RefreshedPeer(old, ann) \in Peer
<1>1. /\ ann.ip \in IP /\ ann.port \in Port /\ ann.left \in {0, 1}
      /\ ann.key \in Key
  BY DEF Announcement
<1>2. NewPeer(ann) \in Peer
  BY <1>1 DEF NewPeer, Peer
<1>3. ASSUME NEW old \in Peer
      PROVE  RefreshedPeer(old, ann) \in Peer
  <2>1. [old EXCEPT !.ip = ann.ip, !.left = ann.left] \in Peer
    BY <1>1 DEF Peer
  <2>2. [old EXCEPT !.left = ann.left,
                    !.key  = IF KeySupport THEN ann.key ELSE @] \in Peer
    BY <1>1 DEF Peer
  <2>3. QED
    BY <2>1, <2>2 DEF RefreshedPeer
<1>4. QED
  BY <1>2, <1>3

---------------------------------------------------------------------------
(***************************************************************************)
(* Types.                                                                  *)
(***************************************************************************)

SwarmTypeOK ==
  /\ hashes \subseteq InfoHash
  /\ dfile \in [InfoHash -> Swarm]
  /\ times \in [InfoHash -> [PeerId -> Nat \cup {NoTime}]]
  /\ heard \in [InfoHash -> [PeerId -> Nat]]
  /\ ips \in [IP -> Nat] /\ drifted \subseteq IP
  /\ completed \in [InfoHash -> Nat]

\* Announce, called by the HTTP handler and for a queued announce, keeps the
\* swarm tables well typed.
LEMMA AnnounceType ==
  ASSUME TypeOK, NEW ann \in Announcement, Announce(ann)
  PROVE  SwarmTypeOK'
<1> USE DEF TypeOK
<1>1. /\ ann.hash \in InfoHash /\ ann.peer \in PeerId /\ ann.ip \in IP
  BY DEF Announcement
<1>2. (hashes \subseteq InfoHash)'
  BY <1>1 DEF Announce
<1>3. CASE ann.event = "stopped"
  <2>1. AnnounceStopped(ann)
    BY <1>3 DEF Announce
  <2>2. CASE AllowStop(ann)
    <3>0. /\ dfile' = [dfile EXCEPT ![ann.hash][ann.peer] = NoPeer]
          /\ times' = [times EXCEPT ![ann.hash][ann.peer] = NoTime]
          /\ ips' = IF CountUnique THEN RemoveUniquePeer(ann.ip) ELSE ips
      BY <2>1, <2>2 DEF AnnounceStopped
    <3>1. (dfile \in [InfoHash -> Swarm])'
      BY <1>1, <3>0 DEF Swarm
    <3>2. (times \in [InfoHash -> [PeerId -> Nat \cup {NoTime}]])'
      BY <1>1, <3>0
    <3>3. (ips \in [IP -> Nat])'
      BY <1>1, <3>0 DEF RemoveUniquePeer
    <3>4. (drifted \subseteq IP)'
      <4>1. dfile[ann.hash][ann.peer] \in Peer
        BY <1>1, <2>2 DEF AllowStop, Registered, Swarm
      <4>2. dfile[ann.hash][ann.peer].ip \in IP
        BY <4>1 DEF Peer
      <4>3. drifted' = drifted \cup Astray(dfile[ann.hash][ann.peer].ip, ann.ip)
        BY <2>1, <2>2 DEF AnnounceStopped
      <4>4. QED
        BY <1>1, <4>2, <4>3 DEF Astray
    <3>5. QED
      BY <1>2, <2>1, <3>1, <3>2, <3>3, <3>4 DEF AnnounceStopped, SwarmTypeOK
  <2>3. CASE ~AllowStop(ann)
    BY <1>2, <2>1, <2>3 DEF AnnounceStopped, SwarmTypeOK
  <2>4. QED
    BY <2>2, <2>3
<1>4. CASE ann.event # "stopped"
  <2>1. AnnounceAlive(ann)
    BY <1>4 DEF Announce
  <2>2. (dfile \in [InfoHash -> Swarm])'
    <3>1. dfile[ann.hash][ann.peer] \in Peer \cup {NoPeer}
      BY <1>1 DEF Swarm
    <3>2. dfile'[ann.hash][ann.peer] \in Peer
      BY <1>1, <2>1, <3>1, PeerAfterAnnounce DEF AnnounceAlive, Registered, Swarm
    <3>3. QED
      BY <1>1, <2>1, <3>2 DEF AnnounceAlive, Swarm
  <2>3. (times \in [InfoHash -> [PeerId -> Nat \cup {NoTime}]])'
    BY <1>1, <2>1 DEF AnnounceAlive, TimeAnnounce
  <2>4. (heard \in [InfoHash -> [PeerId -> Nat]])'
    BY <1>1, <2>1 DEF AnnounceAlive, TimeAnnounce
  <2>5. (ips \in [IP -> Nat])'
    BY <1>1, <2>1 DEF AnnounceAlive, AddUniquePeer
  <2>6. (completed \in [InfoHash -> Nat])'
    BY <1>1, <2>1 DEF AnnounceAlive
  <2>7. (drifted \subseteq IP)'
    <3>1. CASE Registered(ann.hash, ann.peer)
      <4>1. dfile[ann.hash][ann.peer] \in Peer
        BY <1>1, <3>1 DEF Registered, Swarm
      <4>2. dfile'[ann.hash][ann.peer] \in Peer
        BY <1>1, <2>1, <3>1, <4>1, PeerAfterAnnounce DEF AnnounceAlive, Swarm
      <4>3. dfile[ann.hash][ann.peer].ip \in IP /\ dfile'[ann.hash][ann.peer].ip \in IP
        BY <4>1, <4>2 DEF Peer
      <4>4. QED
        BY <2>1, <3>1, <4>3 DEF AnnounceAlive, Astray
    <3>2. CASE ~Registered(ann.hash, ann.peer)
      BY <2>1, <3>2 DEF AnnounceAlive
    <3>3. QED
      BY <3>1, <3>2
  <2>8. QED
    BY <1>2, <2>2, <2>3, <2>4, <2>5, <2>6, <2>7 DEF SwarmTypeOK
<1>5. QED
  BY <1>3, <1>4

\* Answering an announce leaves a bag in the cache and gives a well formed reply.
LEMMA RespondType ==
  ASSUME TypeOK, NEW ann \in Requests, NEW want \in NumWant,
         ann.hash \in InfoHash, Respond(ann, want)
  PROVE  (cached \in [InfoHash -> [Entry -> Nat]] /\ reply \in Reply)'
<1> DEFINE size == MinOf(want, MaxGive)
           pool == Pool(cached[ann.hash], dfile'[ann.hash], ann, size)
<1> USE DEF TypeOK
<1>1. size \in Nat
  BY NumberAssumption DEF MinOf
<1>2. pool \in [Entry -> Nat]
  BY PoolType
<1>3. PICK front \in Fronts(pool, size) :
        /\ cached' = [cached EXCEPT ![ann.hash] =
                        [e \in Entry |-> pool[e] - front[e]]]
        /\ reply' = [ann |-> ann, size |-> size, peers |-> front]
  BY DEF Respond
<1> HIDE DEF size, pool
<1>4. \A e \in Entry : front[e] \in Nat /\ front[e] <= pool[e]
  BY <1>1, <1>2, FrontWithinPool
<1>5. [e \in Entry |-> pool[e] - front[e]] \in [Entry -> Nat]
  BY <1>2, <1>4
<1>6. front \in [Entry -> Nat]
  BY <1>4 DEF Fronts
<1>7. QED
  BY <1>1, <1>3, <1>5, <1>6 DEF Reply

\* The types hold at first,
LEMMA TypeInit == Init => TypeOK
<1> SUFFICES ASSUME Init PROVE TypeOK
  OBVIOUS
<1>1. dfile \in [InfoHash -> Swarm]
  BY InputAssumption DEF Init
<1>2. allowed \subseteq InfoHash /\ hashes \subseteq InfoHash
  BY DEF Init
<1>3. ips \in [IP -> Nat]
  BY UniqueOfType DEF Init
<1>4. QED
  BY <1>1, <1>2, <1>3, NumberAssumption DEF Init, TypeOK, NoTime

\* and every step keeps them.
LEMMA TypeStep == TypeOK /\ [Next]_vars => TypeOK'
<1> SUFFICES ASSUME TypeOK, [Next]_vars PROVE TypeOK'
  OBVIOUS
<1> USE DEF TypeOK, swarmVars, clockVars, linkVars
<1>1. ASSUME NEW ann \in Requests, NEW want \in NumWant, HttpAnnounce(ann, want)
      PROVE  TypeOK'
  <2>1. ann \in Announcement /\ ann.hash \in InfoHash
    BY InputAssumption DEF Announcement
  <2>2. SwarmTypeOK'
    BY <1>1, <2>1, AnnounceType DEF HttpAnnounce
  <2>3. (cached \in [InfoHash -> [Entry -> Nat]] /\ reply \in Reply \cup {NoReply})'
    BY <1>1, <2>1, RespondType DEF HttpAnnounce
  <2>4. QED
    BY <1>1, <2>2, <2>3 DEF HttpAnnounce, SwarmTypeOK
<1>2. ASSUME NEW h \in InfoHash, HttpRefused(h)
      PROVE  TypeOK'
  BY <1>2 DEF HttpRefused
<1>3. ASSUME NEW h \in InfoHash, DeleteTorrent(h)
      PROVE  TypeOK'
  <2>1. (dfile \in [InfoHash -> Swarm])'
    BY <1>3 DEF DeleteTorrent, Swarm
  <2>2. (drifted \subseteq IP)'
    <3>1. \A p \in PeerId : Registered(h, p) => dfile[h][p].ip \in IP
      BY DEF Registered, Swarm, Peer
    <3>2. QED
      BY <1>3, <3>1 DEF DeleteTorrent
  <2>3. QED
    BY <1>3, <2>1, <2>2 DEF DeleteTorrent
<1>4. ASSUME NEW files \in SUBSET InfoHash, ParseTorrents(files)
      PROVE  TypeOK'
  BY <1>4 DEF ParseTorrents
<1>5. CASE RecountUniquePeers
  BY <1>5, UniqueOfType DEF RecountUniquePeers, CountUniquePeers
<1>6. CASE Update
  <2>1. (queued \in Seq(LinkAnnounces) /\ batch \in Seq(LinkAnnounces))'
    <3>1. <<>> \in Seq(LinkAnnounces)
      OBVIOUS
    <3>2. CASE Linked
      BY <1>6, <3>1, <3>2 DEF Update
    <3>3. CASE ~Linked
      BY <1>6, <3>3 DEF Update
    <3>4. QED
      BY <3>2, <3>3
  <2>2. CASE now > timeOutNext
    <3>1. ExpireDownloaders
      BY <1>6, <2>2 DEF Update
    <3>2. (dfile \in [InfoHash -> Swarm])'
      BY <3>1 DEF ExpireDownloaders, Swarm
    <3>3. (ips \in [IP -> Nat])'
      BY <3>1, UniqueOfType DEF ExpireDownloaders, CountUniquePeers
    <3>4. (times \in [InfoHash -> [PeerId -> Nat \cup {NoTime}]])'
      BY <3>1 DEF ExpireDownloaders
    <3>5. (prevTime \in Nat /\ timeOutNext \in Nat)'
      BY <3>1, NumberAssumption DEF ExpireDownloaders, ExpiryDone
    <3>6. (hashes \subseteq InfoHash)'
      BY <3>1 DEF ExpireDownloaders
    <3>7. (drifted \subseteq IP)'
      BY <3>1 DEF ExpireDownloaders, CountUniquePeers
    <3>8. QED
      BY <1>6, <2>1, <3>2, <3>3, <3>4, <3>5, <3>6, <3>7 DEF Update
  <2>3. CASE ~(now > timeOutNext)
    BY <1>6, <2>1, <2>3 DEF Update
  <2>4. QED
    BY <2>2, <2>3
<1>7. CASE ApplyQueued
  <2>1. Head(batch) \in Announcement /\ Tail(batch) \in Seq(LinkAnnounces)
    BY <1>7, InputAssumption DEF ApplyQueued
  <2>2. SwarmTypeOK'
    BY <1>7, <2>1, AnnounceType DEF ApplyQueued, SwarmTypeOK
  <2>3. QED
    BY <1>7, <2>1, <2>2 DEF ApplyQueued, SwarmTypeOK
<1>8. ASSUME NEW ann \in LinkAnnounces, QueueAnnounce(ann)
      PROVE  TypeOK'
  BY <1>8 DEF QueueAnnounce
<1>9. CASE Tick
  BY <1>9 DEF Tick
<1>10. CASE UNCHANGED vars
  BY <1>10 DEF vars
<1>11. QED
  BY <1>1, <1>2, <1>3, <1>4, <1>5, <1>6, <1>7, <1>8, <1>9, <1>10 DEF Next

\* The tables of CTracker stay well formed; in particular no per-IP count,
\* which is incremented and decremented by different code paths that do not
\* agree on the address, ever goes below zero.
THEOREM TypeCorrect == Spec => []TypeOK
BY TypeInit, TypeStep, PTL DEF Spec
---------------------------------------------------------------------------
(***************************************************************************)
(* The inductive invariant.  TimedPeers ties the times expireDownloaders   *)
(* looks at to the announces; ExpiryClock bounds how far apart expiries    *)
(* are and how old the announce of a registered peer can be at one.        *)
(***************************************************************************)

\* A peer registered after an announce has its time, and it is not too old.
LEMMA AnnounceTimed ==
  ASSUME IInv, NEW ann \in Announcement, Announce(ann),
         now' = now, prevTime' = prevTime,
         NEW h \in InfoHash, NEW p \in PeerId, Registered(h, p)'
  PROVE  /\ (h \in hashes /\ times[h][p] = heard[h][p])'
         /\ (prevTime <= heard[h][p] + TimeOut + MaxLag)'
<1> USE DEF IInv, TypeOK
<1>1. ann.hash \in InfoHash /\ ann.peer \in PeerId
  BY DEF Announcement
<1>2. hashes' = hashes \cup {ann.hash}
  BY DEF Announce
<1>3. dfile \in [InfoHash -> [PeerId -> Peer \cup {NoPeer}]]
  BY DEF Swarm
<1>3a. prevTime <= now + TimeOut + MaxLag
  <2>1. prevTime <= now + 1 /\ prevTime \in Nat /\ now \in Nat
    BY DEF ExpiryClock
  <2>2. TimeOut \in Nat /\ MaxLag \in Nat /\ MaxLag >= 1
    BY NumberAssumption
  <2> HIDE DEF IInv, TypeOK
  <2>3. QED
    BY <2>1, <2>2
<1>4. CASE ann.event = "stopped"
  <2>1. AnnounceStopped(ann)
    BY <1>4 DEF Announce
  <2>2. heard' = heard
    BY <2>1 DEF AnnounceStopped
  <2>3. dfile[h][p] # NoPeer /\ times'[h][p] = times[h][p]
    <3>1. CASE AllowStop(ann)
      <4>1. /\ dfile' = [dfile EXCEPT ![ann.hash][ann.peer] = NoPeer]
            /\ times' = [times EXCEPT ![ann.hash][ann.peer] = NoTime]
        BY <2>1, <3>1 DEF AnnounceStopped
      <4>2. QED
        BY <1>1, <1>3, <4>1 DEF Registered
    <3>2. CASE ~AllowStop(ann)
      BY <2>1, <3>2 DEF AnnounceStopped, Registered
    <3>3. QED
      BY <3>1, <3>2
  <2>4. QED
    BY <1>2, <2>2, <2>3 DEF TimedPeers, ExpiryClock, Registered
<1>5. CASE ann.event # "stopped"
  <2>1. AnnounceAlive(ann)
    BY <1>5 DEF Announce
  <2>2. CASE h = ann.hash /\ p = ann.peer
    <3>1. times'[h][p] = now /\ heard'[h][p] = now
      BY <1>1, <2>1, <2>2 DEF AnnounceAlive, TimeAnnounce
    <3>2. h \in hashes'
      BY <1>2, <2>2
    <3>3. prevTime' <= heard'[h][p] + TimeOut + MaxLag
      BY <1>3a, <3>1
    <3>4. QED
      BY <3>1, <3>2, <3>3
  <2>3. CASE ~(h = ann.hash /\ p = ann.peer)
    <3>1. /\ dfile'[h][p] = dfile[h][p]
          /\ times'[h][p] = times[h][p]
          /\ heard'[h][p] = heard[h][p]
      BY <1>1, <1>3, <2>1, <2>3 DEF AnnounceAlive, TimeAnnounce
    <3>2. QED
      BY <1>2, <3>1 DEF TimedPeers, ExpiryClock, Registered
  <2>4. QED
    BY <2>2, <2>3
<1>6. QED
  BY <1>4, <1>5

\* An expiry leaves the peers that have announced since the one before it.
LEMMA ExpiryKeeps ==
  ASSUME IInv, ExpireDownloaders,
         NEW h \in InfoHash, NEW p \in PeerId
  PROVE  /\ Registered(h, p)' =>
              /\ dfile'[h][p] = dfile[h][p]
              /\ h \in hashes' /\ times'[h][p] = times[h][p]
              /\ prevTime <= heard[h][p]
         /\ Registered(h, p) /\ ~Registered(h, p)' => heard[h][p] < prevTime
<1> USE DEF IInv, TypeOK
<1>1. dfile'[h][p] = IF Stale(h, p) THEN NoPeer ELSE dfile[h][p]
  BY DEF ExpireDownloaders
<1>2. ASSUME Registered(h, p)'
      PROVE  /\ dfile'[h][p] = dfile[h][p]
             /\ h \in hashes' /\ times'[h][p] = times[h][p]
             /\ prevTime <= heard[h][p]
  <2>1. ~Stale(h, p) /\ dfile'[h][p] = dfile[h][p] /\ Registered(h, p)
    BY <1>1, <1>2 DEF Registered
  <2>2. h \in hashes /\ times[h][p] = heard[h][p]
    BY <2>1 DEF TimedPeers
  <2>3. ~EmptySwarm(dfile'[h])
    BY <1>2 DEF EmptySwarm, Registered
  <2>4. h \in hashes' /\ times'[h][p] = times[h][p]
    BY <2>1, <2>2, <2>3 DEF ExpireDownloaders
  <2>5. prevTime <= heard[h][p]
    BY <2>1, <2>2 DEF Stale, NoTime
  <2>6. QED
    BY <2>1, <2>4, <2>5
<1>3. ASSUME Registered(h, p), ~Registered(h, p)'
      PROVE  heard[h][p] < prevTime
  <2>1. Stale(h, p)
    BY <1>1, <1>3 DEF Registered
  <2>2. QED
    BY <1>3, <2>1 DEF Stale, TimedPeers
<1>4. QED
  BY <1>2, <1>3

\* The invariant of the counts holds at first,
LEMMA InductiveInit == Init => IInv
<1> SUFFICES ASSUME Init PROVE IInv
  OBVIOUS
<1>1. TypeOK
  BY TypeInit
<1>2. TimedPeers
  BY DEF Init, TimedPeers, Registered, EmptySwarm
<1>3. ExpiryClock
  BY NumberAssumption DEF Init, ExpiryClock
<1>4. QED
  BY <1>1, <1>2, <1>3 DEF IInv

\* and every step keeps it.
LEMMA InductiveStep == IInv /\ [Next]_vars => IInv'
<1> SUFFICES ASSUME IInv, [Next]_vars PROVE (TimedPeers /\ ExpiryClock)'
  BY TypeStep DEF IInv
<1> USE DEF swarmVars, clockVars, linkVars
<1>1. TypeOK /\ TypeOK'
  BY TypeStep DEF IInv
<1>2. ASSUME NEW ann \in Announcement, Announce(ann), UNCHANGED clockVars
      PROVE  (TimedPeers /\ ExpiryClock)'
  <2>1. TimedPeers'
    BY <1>2, AnnounceTimed DEF TimedPeers
  <2>2. ExpiryClock'
    <3>1. \A h \in InfoHash, p \in PeerId :
            Registered(h, p)' => prevTime' <= heard'[h][p] + TimeOut + MaxLag
      BY <1>2, AnnounceTimed
    <3>2. QED
      BY <1>2, <3>1 DEF ExpiryClock, IInv
  <2>3. QED
    BY <2>1, <2>2
<1>3. ASSUME UNCHANGED <<dfile, times, heard>>, hashes \subseteq hashes',
             UNCHANGED clockVars
      PROVE  (TimedPeers /\ ExpiryClock)'
  BY <1>3 DEF IInv, TimedPeers, ExpiryClock, Registered
<1>4. ASSUME NEW ann \in Requests, NEW want \in NumWant, HttpAnnounce(ann, want)
      PROVE  (TimedPeers /\ ExpiryClock)'
  BY <1>2, <1>4, InputAssumption DEF HttpAnnounce
<1>5. ASSUME NEW h \in InfoHash, HttpRefused(h)
      PROVE  (TimedPeers /\ ExpiryClock)'
  BY <1>3, <1>5 DEF HttpRefused
<1>6. ASSUME NEW h \in InfoHash, DeleteTorrent(h)
      PROVE  (TimedPeers /\ ExpiryClock)'
  <2>1. \A i \in InfoHash, p \in PeerId :
          Registered(i, p)' => i # h /\ Registered(i, p)
    BY <1>1, <1>6 DEF DeleteTorrent, Registered, TypeOK
  <2>2. QED
    BY <1>6, <2>1 DEF IInv, DeleteTorrent, TimedPeers, ExpiryClock
<1>7. ASSUME NEW files \in SUBSET InfoHash, ParseTorrents(files)
      PROVE  (TimedPeers /\ ExpiryClock)'
  BY <1>3, <1>7 DEF ParseTorrents
<1>8. CASE RecountUniquePeers
  BY <1>3, <1>8 DEF RecountUniquePeers
<1>9. CASE Update
  <2>1. CASE now > timeOutNext
    <3>1. ExpireDownloaders /\ now' = now /\ heard' = heard
      BY <1>9, <2>1 DEF Update
    <3>2. TimedPeers'
      BY <3>1, ExpiryKeeps DEF TimedPeers, IInv, Registered
    <3>3. \A h \in InfoHash, p \in PeerId :
            Registered(h, p)' => prevTime <= heard[h][p]
      BY <3>1, ExpiryKeeps
    <3>4. prevTime' = now /\ timeOutNext' = now + TimeOut
      BY <3>1 DEF ExpireDownloaders, ExpiryDone
    <3>5. now <= prevTime + TimeOut + MaxLag
      BY <1>1, NumberAssumption DEF IInv, ExpiryClock, TypeOK
    <3>6. ExpiryClock'
      BY <1>1, <3>1, <3>3, <3>4, <3>5, NumberAssumption DEF ExpiryClock, TypeOK
    <3>7. QED
      BY <3>2, <3>6
  <2>2. CASE ~(now > timeOutNext)
    BY <1>3, <1>9, <2>2 DEF Update
  <2>3. QED
    BY <2>1, <2>2
<1>10. CASE ApplyQueued
  <2>1. Head(batch) \in Announcement
    BY <1>1, <1>10, InputAssumption DEF ApplyQueued, TypeOK
  <2>2. CASE Authorized(Head(batch).hash)
    BY <1>2, <1>10, <2>1, <2>2 DEF ApplyQueued
  <2>3. CASE ~Authorized(Head(batch).hash)
    BY <1>3, <1>10, <2>3 DEF ApplyQueued
  <2>4. QED
    BY <2>2, <2>3
<1>11. ASSUME NEW ann \in LinkAnnounces, QueueAnnounce(ann)
       PROVE  (TimedPeers /\ ExpiryClock)'
  BY <1>3, <1>11 DEF QueueAnnounce
<1>12. CASE Tick
  BY <1>1, <1>12, NumberAssumption
     DEF IInv, Tick, TimedPeers, ExpiryClock, Registered, TypeOK
<1>13. CASE UNCHANGED vars
  BY <1>3, <1>13 DEF vars
<1>14. QED
  BY <1>4, <1>5, <1>6, <1>7, <1>8, <1>9, <1>10, <1>11, <1>12, <1>13 DEF Next

\* The invariant every result below rests on.
THEOREM Inductive == Spec => []IInv
BY InductiveInit, InductiveStep, PTL DEF Spec

\* expireDownloaders can find every registered peer: its last announce is
\* recorded under a torrent that is listed.
THEOREM TimedPeersAlways == Spec => []TimedPeers
<1>1. IInv => TimedPeers
  BY DEF IInv
<1>2. QED
  BY <1>1, Inductive, PTL

\* Whatever the interval and however late Update runs, a peer that has fallen
\* silent is gone after two intervals and two delays.
THEOREM NoLingerAlways == Spec => []NoLinger
<1>1. IInv => NoLinger
  BY NumberAssumption DEF IInv, TypeOK, ExpiryClock, NoLinger
<1>2. QED
  BY <1>1, Inductive, PTL

---------------------------------------------------------------------------
(***************************************************************************)
(* Who may remove or move a peer.                                          *)
(***************************************************************************)

\* What an announce that is not refused by Announce's own key check may do to
\* a registered peer.
LEMMA AnnounceTouches ==
  ASSUME TypeOK, NEW ann \in Announcement, Announce(ann),
         NEW h \in InfoHash, NEW p \in PeerId, Registered(h, p)
  PROVE  \/ dfile'[h][p] = dfile[h][p]
         \/ /\ dfile'[h][p] = NoPeer
            /\ ann.hash = h /\ ann.peer = p /\ ann.event = "stopped"
            /\ ann.key = dfile[h][p].key
         \/ dfile'[h][p] = RefreshedPeer(dfile[h][p], ann)
<1>1. ann.hash \in InfoHash /\ ann.peer \in PeerId
  BY DEF Announcement
<1>2. dfile \in [InfoHash -> [PeerId -> Peer \cup {NoPeer}]]
  BY DEF TypeOK, Swarm
<1>3. CASE ann.event = "stopped"
  <2>1. AnnounceStopped(ann)
    BY <1>3 DEF Announce
  <2>2. CASE AllowStop(ann)
    <3>1. dfile' = [dfile EXCEPT ![ann.hash][ann.peer] = NoPeer]
      BY <2>1, <2>2 DEF AnnounceStopped
    <3>2. dfile[ann.hash][ann.peer].key = ann.key
      BY <2>2 DEF AllowStop
    <3>3. QED
      BY <1>1, <1>2, <1>3, <3>1, <3>2
  <2>3. CASE ~AllowStop(ann)
    BY <2>1, <2>3 DEF AnnounceStopped
  <2>4. QED
    BY <2>2, <2>3
<1>4. CASE ann.event # "stopped"
  <2>1. AnnounceAlive(ann)
    BY <1>4 DEF Announce
  <2>2. CASE h = ann.hash /\ p = ann.peer
    BY <1>1, <1>2, <2>1, <2>2 DEF AnnounceAlive
  <2>3. CASE ~(h = ann.hash /\ p = ann.peer)
    BY <1>1, <1>2, <2>1, <2>3 DEF AnnounceAlive
  <2>4. QED
    BY <2>2, <2>3
<1>5. QED
  BY <1>3, <1>4

\* A refreshed peer stays a peer and keeps its key; with key support its
\* address changes only if the announce carries that key.
LEMMA RefreshKeepsKey ==
  ASSUME NEW old \in Peer, NEW ann \in Announcement
  PROVE  /\ RefreshedPeer(old, ann) # NoPeer
         /\ old.key # NoKey =>
              /\ RefreshedPeer(old, ann).key = old.key
              /\ KeySupport /\ RefreshedPeer(old, ann).ip # old.ip
                   => ann.key = old.key
<1>1. RefreshedPeer(old, ann) # NoPeer
  BY PeerAfterAnnounce, SentinelAssumption
<1>2. ASSUME old.key # NoKey
      PROVE  /\ RefreshedPeer(old, ann).key = old.key
             /\ KeySupport /\ RefreshedPeer(old, ann).ip # old.ip
                  => ann.key = old.key
  BY <1>2 DEF RefreshedPeer, Peer
<1>3. QED
  BY <1>1, <1>2

\* The announces that steps apply to the swarms.
LEMMA HandledAnnounce ==
  ASSUME IInv, Next, NEW h \in InfoHash, NEW p \in PeerId, Registered(h, p)
  PROVE  \/ dfile'[h][p] = dfile[h][p]
         \/ /\ timeOutNext' = timeOutNext
            /\ dfile'[h][p] = NoPeer /\ h \notin hashes'
         \/ now > timeOutNext /\ ExpireDownloaders
         \/ \E ann \in Requests \cup LinkAnnounces :
              Handled(ann) /\ Announce(ann)
<1> USE DEF swarmVars, clockVars, linkVars
<1>1. TypeOK /\ TypeOK'
  BY TypeStep DEF IInv
<1>2. ASSUME NEW ann \in Requests, NEW want \in NumWant, HttpAnnounce(ann, want)
      PROVE  Handled(ann) /\ Announce(ann)
  <2>1. ann.hash \in InfoHash
    BY InputAssumption DEF Announcement
  <2>2. reply' \in Reply
    BY <1>1, <1>2, <2>1, RespondType DEF HttpAnnounce
  <2>3. reply'.ann = ann
    <3>1. PICK size, front : reply' = [ann |-> ann, size |-> size, peers |-> front]
      BY <1>2 DEF HttpAnnounce, Respond
    <3>2. QED
      BY <3>1
  <2>4. QED
    BY <1>2, <2>2, <2>3, SentinelAssumption DEF HttpAnnounce, MainIdle, Handled
<1>3. ASSUME NEW i \in InfoHash, DeleteTorrent(i)
      PROVE  \/ dfile'[h][p] = dfile[h][p]
             \/ /\ timeOutNext' = timeOutNext
                /\ dfile'[h][p] = NoPeer /\ h \notin hashes'
  BY <1>1, <1>3 DEF DeleteTorrent, TypeOK
<1>4. CASE Update
  BY <1>4 DEF Update
<1>5. CASE ApplyQueued
  <2>1. Head(batch) \in LinkAnnounces /\ Handled(Head(batch))
    BY <1>1, <1>5 DEF ApplyQueued, TypeOK, Handled
  <2>2. QED
    BY <1>5, <2>1 DEF ApplyQueued
<1>6. QED
  BY <1>2, <1>3, <1>4, <1>5
     DEF Next, HttpRefused, ParseTorrents, RecountUniquePeers, QueueAnnounce, Tick

\* No announce, of whatever key and over whichever path, and no expiry removes
\* a peer that is still announcing: for every key, torrent and interval, a peer
\* leaves by its own stop, by silence longer than the timeout, or with its torrent.
THEOREM RemovalJustifiedAlways == Spec => RemovalJustified
<1>1. ASSUME IInv, Next, NEW h \in InfoHash, NEW p \in PeerId,
             Registered(h, p), dfile'[h][p] = NoPeer
      PROVE  \/ ExpiredSilent(h, p)
             \/ StoppedByHolder(h, p)
             \/ timeOutNext' = timeOutNext /\ h \notin hashes'
  <2>1. dfile'[h][p] # dfile[h][p] /\ dfile[h][p] \in Peer
    BY <1>1 DEF Registered, IInv, TypeOK, Swarm
  <2>2. CASE now > timeOutNext /\ ExpireDownloaders
    <3>1. heard[h][p] < prevTime
      BY <1>1, <2>2, ExpiryKeeps DEF Registered
    <3>2. /\ timeOutNext' = now + TimeOut /\ now > timeOutNext
          /\ timeOutNext >= prevTime + TimeOut - 1
      BY <1>1, <2>2 DEF ExpireDownloaders, ExpiryDone, IInv, ExpiryClock
    <3>3. /\ now \in Nat /\ prevTime \in Nat /\ timeOutNext \in Nat
          /\ heard[h][p] \in Nat
      BY <1>1 DEF IInv, TypeOK
    <3>4. timeOutNext' # timeOutNext /\ now > heard[h][p] + TimeOut
      BY <3>1, <3>2, <3>3, NumberAssumption
    <3>5. QED
      BY <3>4 DEF ExpiredSilent
  <2>3. ASSUME NEW ann \in Requests \cup LinkAnnounces,
               Handled(ann), Announce(ann)
        PROVE  StoppedByHolder(h, p)
    <3>1. ann \in Announcement
      BY InputAssumption
    <3>2. RefreshedPeer(dfile[h][p], ann) # NoPeer
      BY <2>1, <3>1, RefreshKeepsKey
    <3>3. QED
      BY <1>1, <2>1, <2>3, <3>1, <3>2, AnnounceTouches DEF StoppedByHolder, IInv
  <2>4. QED
    BY <1>1, <2>1, <2>2, <2>3, HandledAnnounce
<1>2. IInv /\ [Next]_vars =>
        [\A h \in InfoHash, p \in PeerId :
           Registered(h, p) /\ dfile'[h][p] = NoPeer =>
             \/ ExpiredSilent(h, p)
             \/ StoppedByHolder(h, p)
             \/ timeOutNext' = timeOutNext /\ h \notin hashes']_vars
  BY <1>1
<1>3. QED
  BY <1>2, Inductive, PTL DEF Spec, RemovalJustified

\* Nobody takes over a registered peer: its key is fixed, and only who knows
\* it moves the peer to another address, over HTTP and over the link alike.
THEOREM KeyHolderOnlyAlways == Spec => KeyHolderOnly
<1>1. ASSUME IInv, Next, NEW h \in InfoHash, NEW p \in PeerId,
             Registered(h, p), dfile'[h][p] # NoPeer, dfile[h][p].key # NoKey
      PROVE  /\ dfile'[h][p].key = dfile[h][p].key
             /\ KeySupport /\ dfile'[h][p].ip # dfile[h][p].ip
                => \E ann \in Requests \cup LinkAnnounces :
                     Handled(ann) /\ ann.key = dfile[h][p].key
  <2>1. dfile[h][p] \in Peer
    BY <1>1 DEF Registered, IInv, TypeOK, Swarm
  <2>2. CASE ExpireDownloaders
    BY <1>1, <2>2, ExpiryKeeps DEF Registered
  <2>3. ASSUME NEW ann \in Requests \cup LinkAnnounces,
               Handled(ann), Announce(ann)
        PROVE  /\ dfile'[h][p].key = dfile[h][p].key
               /\ KeySupport /\ dfile'[h][p].ip # dfile[h][p].ip
                  => ann.key = dfile[h][p].key
    <3>1. ann \in Announcement
      BY InputAssumption
    <3>2. \/ dfile'[h][p] = dfile[h][p]
          \/ dfile'[h][p] = RefreshedPeer(dfile[h][p], ann)
      BY <1>1, <2>3, <3>1, AnnounceTouches DEF IInv
    <3>3. QED
      BY <1>1, <2>1, <3>1, <3>2, RefreshKeepsKey
  <2>4. QED
    BY <1>1, <2>2, <2>3, HandledAnnounce
<1>2. IInv /\ [Next]_vars =>
        [\A h \in InfoHash, p \in PeerId :
           /\ Registered(h, p) /\ dfile'[h][p] # NoPeer
           /\ dfile[h][p].key # NoKey
           => /\ dfile'[h][p].key = dfile[h][p].key
              /\ KeySupport /\ dfile'[h][p].ip # dfile[h][p].ip
                 => \E ann \in Requests \cup LinkAnnounces :
                      Handled(ann) /\ ann.key = dfile[h][p].key]_vars
  BY <1>1
<1>3. QED
  BY <1>2, Inductive, PTL DEF Spec, KeyHolderOnly
---------------------------------------------------------------------------
(***************************************************************************)
(* The counts per address.                                                 *)
(***************************************************************************)

\* Whether a registered peer of the tables d is counted at the address i.
CountedAt(d, i, h, p) == d[h][p] # NoPeer /\ d[h][p].ip = i

\* Counts depend only on who is counted,
LEMMA CountSame ==
  ASSUME NEW d, NEW e, NEW i \in IP,
         \A h \in InfoHash, p \in PeerId : CountedAt(e, i, h, p) <=> CountedAt(d, i, h, p)
  PROVE  UniqueOf(e)[i] = UniqueOf(d)[i]
<1> DEFINE S(t) == {hp \in InfoHash \X PeerId :
                      /\ t[hp[1]][hp[2]] # NoPeer
                      /\ t[hp[1]][hp[2]].ip = i}
<1>1. S(e) = S(d)
  BY DEF CountedAt
<1>2. QED
  BY <1>1 DEF UniqueOf

\* and one peer more is counted as one more.
LEMMA CountMore ==
  ASSUME NEW d, NEW e, NEW i \in IP, NEW g \in InfoHash, NEW q \in PeerId,
         CountedAt(e, i, g, q), ~CountedAt(d, i, g, q),
         \A h \in InfoHash, p \in PeerId :
           <<h, p>> # <<g, q>> => (CountedAt(e, i, h, p) <=> CountedAt(d, i, h, p))
  PROVE  UniqueOf(e)[i] = UniqueOf(d)[i] + 1
<1> DEFINE S(t) == {hp \in InfoHash \X PeerId :
                      /\ t[hp[1]][hp[2]] # NoPeer
                      /\ t[hp[1]][hp[2]].ip = i}
<1>1. S(e) = S(d) \cup {<<g, q>>}
  BY DEF CountedAt
<1>2. <<g, q>> \notin S(d)
  BY DEF CountedAt
<1>3. IsFiniteSet(S(d))
  <2>1. IsFiniteSet(InfoHash \X PeerId)
    BY FiniteAssumption, FS_Product
  <2>2. QED
    BY <2>1, FS_Subset
<1>4. UniqueOf(e)[i] = Cardinality(S(e)) /\ UniqueOf(d)[i] = Cardinality(S(d))
  BY DEF UniqueOf
<1> HIDE DEF S
<1>5. QED
  BY <1>1, <1>2, <1>3, <1>4, FS_AddElement

\* An announce adds one for a new peer and takes one off for a stop; where it
\* is about a peer counted at another address, both addresses are astray.
LEMMA AnnounceCounts ==
  ASSUME TypeOK, CountsExact, NEW ann \in Announcement, Announce(ann)
  PROVE  CountsExact'
<1> DEFINE g == ann.hash
           q == ann.peer
<1> SUFFICES ASSUME CountUnique, NEW i \in IP, i \notin drifted'
             PROVE  ips'[i] = UniqueOf(dfile')[i]
  BY DEF CountsExact
<1>1. g \in InfoHash /\ q \in PeerId /\ ann.ip \in IP
  BY DEF Announcement
<1>2. dfile \in [InfoHash -> [PeerId -> Peer \cup {NoPeer}]] /\ ips \in [IP -> Nat]
  BY DEF TypeOK, Swarm
<1>3. ASSUME i \notin drifted
      PROVE  ips[i] = UniqueOf(dfile)[i]
  BY <1>3 DEF CountsExact
<1>4. CASE ann.event = "stopped"
  <2>1. AnnounceStopped(ann)
    BY <1>4 DEF Announce
  <2>2. CASE AllowStop(ann)
    <3>1. /\ dfile' = [dfile EXCEPT ![g][q] = NoPeer]
          /\ ips' = RemoveUniquePeer(ann.ip)
          /\ drifted' = drifted \cup Astray(dfile[g][q].ip, ann.ip)
      BY <2>1, <2>2 DEF AnnounceStopped
    <3>2. dfile[g][q] # NoPeer
      BY <2>2 DEF AllowStop, Registered
    <3>3. i \notin drifted /\ (i = ann.ip <=> i = dfile[g][q].ip)
      BY <3>1 DEF Astray
    <3>4. /\ ~CountedAt(dfile', i, g, q)
          /\ \A h \in InfoHash, p \in PeerId :
               <<h, p>> # <<g, q>> => dfile'[h][p] = dfile[h][p]
      BY <1>1, <1>2, <3>1 DEF CountedAt
    <3> HIDE DEF g, q
    <3>5. CASE i = ann.ip
      <4>1. CountedAt(dfile, i, g, q)
        BY <3>2, <3>3, <3>5 DEF CountedAt
      <4>2. UniqueOf(dfile)[i] = UniqueOf(dfile')[i] + 1
        BY <1>1, <3>4, <4>1, CountMore DEF CountedAt
      <4>3. UniqueOf(dfile')[i] \in Nat
        BY UniqueOfType
      <4>4. ips'[i] = IF ips[i] > 0 THEN ips[i] - 1 ELSE 0
        BY <1>1, <1>2, <3>1, <3>5 DEF RemoveUniquePeer
      <4>5. QED
        BY <1>3, <3>3, <4>2, <4>3, <4>4
    <3>6. CASE i # ann.ip
      <4>1. ~CountedAt(dfile, i, g, q)
        BY <3>3, <3>6 DEF CountedAt
      <4>2. UniqueOf(dfile')[i] = UniqueOf(dfile)[i]
        BY <3>4, <4>1, CountSame DEF CountedAt
      <4>3. ips'[i] = ips[i]
        BY <1>1, <1>2, <3>1, <3>6 DEF RemoveUniquePeer
      <4>4. QED
        BY <1>3, <3>3, <4>2, <4>3
    <3>7. QED
      BY <3>5, <3>6
  <2>3. CASE ~AllowStop(ann)
    BY <1>3, <2>1, <2>3 DEF AnnounceStopped
  <2>4. QED
    BY <2>2, <2>3
<1>5. CASE ann.event # "stopped"
  <2>1. AnnounceAlive(ann)
    BY <1>5 DEF Announce
  <2>2. \A h \in InfoHash, p \in PeerId :
          <<h, p>> # <<g, q>> => dfile'[h][p] = dfile[h][p]
    BY <1>1, <1>2, <2>1 DEF AnnounceAlive
  <2>3. CASE Registered(g, q)
    <3>1. /\ ips' = ips
          /\ drifted' = drifted \cup Astray(dfile[g][q].ip, dfile'[g][q].ip)
      BY <2>1, <2>3 DEF AnnounceAlive
    <3>2. i \notin drifted /\ (i = dfile'[g][q].ip <=> i = dfile[g][q].ip)
      BY <3>1 DEF Astray
    <3>3. dfile[g][q] # NoPeer /\ dfile'[g][q] # NoPeer
      <4>1. dfile[g][q] \in Peer
        BY <1>1, <1>2, <2>3 DEF Registered
      <4>2. dfile'[g][q] = RefreshedPeer(dfile[g][q], ann)
        BY <1>1, <1>2, <2>1, <2>3 DEF AnnounceAlive
      <4>3. QED
        BY <4>1, <4>2, PeerAfterAnnounce, SentinelAssumption
    <3> HIDE DEF g, q
    <3>4. UniqueOf(dfile')[i] = UniqueOf(dfile)[i]
      BY <2>2, <3>2, <3>3, CountSame DEF CountedAt
    <3>5. QED
      BY <1>3, <3>1, <3>2, <3>4
  <2>4. CASE ~Registered(g, q)
    <3>1. /\ ips' = AddUniquePeer(ann.ip)
          /\ drifted' = drifted
          /\ dfile'[g][q] = NewPeer(ann)
      BY <1>1, <1>2, <2>1, <2>4 DEF AnnounceAlive
    <3>2. NewPeer(ann) # NoPeer /\ NewPeer(ann).ip = ann.ip
      BY PeerAfterAnnounce, SentinelAssumption DEF NewPeer
    <3>3. ~CountedAt(dfile, i, g, q) /\ (CountedAt(dfile', i, g, q) <=> i = ann.ip)
      BY <2>4, <3>1, <3>2 DEF CountedAt, Registered
    <3> HIDE DEF g, q
    <3>4. CASE i = ann.ip
      <4>1. UniqueOf(dfile')[i] = UniqueOf(dfile)[i] + 1
        BY <1>1, <2>2, <3>3, <3>4, CountMore DEF CountedAt
      <4>2. ips'[i] = ips[i] + 1
        BY <1>2, <3>1, <3>4 DEF AddUniquePeer
      <4>3. QED
        BY <1>3, <3>1, <4>1, <4>2
    <3>5. CASE i # ann.ip
      <4>1. UniqueOf(dfile')[i] = UniqueOf(dfile)[i]
        BY <2>2, <3>3, <3>5, CountSame DEF CountedAt
      <4>2. ips'[i] = ips[i]
        BY <1>1, <1>2, <3>1, <3>5 DEF AddUniquePeer
      <4>3. QED
        BY <1>3, <3>1, <4>1, <4>2
    <3>6. QED
      BY <3>4, <3>5
  <2>5. QED
    BY <2>3, <2>4
<1>6. QED
  BY <1>4, <1>5

\* A deletion takes nobody off the counts, and says at which addresses.
LEMMA DeleteCounts ==
  ASSUME TypeOK, CountsExact, NEW g \in InfoHash, DeleteTorrent(g)
  PROVE  CountsExact'
<1> SUFFICES ASSUME CountUnique, NEW i \in IP, i \notin drifted'
             PROVE  ips'[i] = UniqueOf(dfile')[i]
  BY DEF CountsExact
<1>1. i \notin drifted /\ \A p \in PeerId : ~CountedAt(dfile, i, g, p)
  BY DEF DeleteTorrent, CountedAt, Registered
<1>2. /\ \A p \in PeerId : dfile'[g][p] = NoPeer
      /\ \A h \in InfoHash : h # g => dfile'[h] = dfile[h]
  BY DEF DeleteTorrent, TypeOK
<1>3. \A h \in InfoHash, p \in PeerId :
        CountedAt(dfile', i, h, p) <=> CountedAt(dfile, i, h, p)
  BY <1>1, <1>2 DEF CountedAt
<1>4. UniqueOf(dfile')[i] = UniqueOf(dfile)[i]
  BY <1>3, CountSame
<1>5. QED
  BY <1>1, <1>4 DEF CountsExact, DeleteTorrent

\* Every step keeps the counts.
LEMMA CountsStep == TypeOK /\ CountsExact /\ [Next]_vars => CountsExact'
<1> SUFFICES ASSUME TypeOK, CountsExact, [Next]_vars PROVE CountsExact'
  OBVIOUS
<1> USE DEF swarmVars
<1>1. CASE UNCHANGED <<dfile, ips, drifted>>
  BY <1>1 DEF CountsExact
<1>2. CASE CountUniquePeers
  BY <1>2 DEF CountUniquePeers, CountsExact
<1>3. ASSUME NEW ann \in Requests, NEW want \in NumWant, HttpAnnounce(ann, want)
      PROVE  CountsExact'
  BY <1>3, AnnounceCounts, InputAssumption DEF HttpAnnounce
<1>4. CASE ApplyQueued
  <2>1. Head(batch) \in Announcement
    BY <1>4, InputAssumption DEF ApplyQueued, TypeOK
  <2>2. QED
    BY <1>1, <1>4, <2>1, AnnounceCounts DEF ApplyQueued
<1>5. CASE Update
  BY <1>1, <1>2, <1>5 DEF Update, ExpireDownloaders
<1>6. QED
  BY <1>1, <1>2, <1>3, <1>4, <1>5, DeleteCounts
     DEF Next, HttpRefused, ParseTorrents, RecountUniquePeers, QueueAnnounce, Tick, vars

\* The counts per address, kept up by announces that do not look at the peers,
\* are right wherever no peer has moved, was stopped from elsewhere or went
\* with its torrent since the last recount.
THEOREM CountsExactAlways == Spec => []CountsExact
<1>1. Init => CountsExact
  BY DEF Init, CountsExact
<1>2. QED
  BY <1>1, CountsStep, TypeCorrect, PTL DEF Spec

---------------------------------------------------------------------------
(***************************************************************************)
(* The peer cache: lists are bags of entries, and their lengths are sums   *)
(* over all entries there may be.                                          *)
(***************************************************************************)

\* There are finitely many entries a cached list may hold.
LEMMA EntryFinite == IsFiniteSet(Entry)
<1> DEFINE Triples == PeerId \X (IP \X Port)
           f == [t \in Triples |-> [id |-> t[1], ip |-> t[2][1], port |-> t[2][2]]]
<1>1. IsFiniteSet(Triples)
  BY FiniteAssumption, FS_Product
<1>2. IsFiniteSet({f[t] : t \in Triples})
  <2> HIDE DEF f, Triples
  <2>1. QED
    BY <1>1, ImageFinite
<1>3. ASSUME NEW e \in Entry
      PROVE  e \in {f[t] : t \in Triples}
  <2>1. <<e.id, <<e.ip, e.port>>>> \in Triples
    BY DEF Entry
  <2>2. e = f[<<e.id, <<e.ip, e.port>>>>]
    BY <2>1 DEF Entry
  <2>3. QED
    BY <2>1, <2>2
<1>4. QED
  BY <1>2, <1>3, FS_Subset

\* The length of a cached list is a number.
LEMMA BagSizeType ==
  ASSUME NEW b \in [Entry -> Nat]
  PROVE  BagSize(b) \in Nat /\ BagSize(b) = SumFunctionOnSet(b, Entry)
<1>1. DOMAIN b = Entry
  OBVIOUS
<1>2. BagSize(b) = SumFunctionOnSet(b, Entry)
  BY <1>1 DEF BagSize, SumFunction
<1>3. QED
  BY <1>2, SumType, EntryFinite

\* Topping a list up makes it longer by fewer entries than there are peer ids.
LEMMA TopUpSize ==
  ASSUME NEW swarm \in Swarm, NEW ann
  PROVE  /\ TopUp(swarm, ann) \in [Entry -> Nat]
         /\ BagSize(TopUp(swarm, ann)) <= Cardinality(PeerId)
<1> DEFINE eligible == {q \in PeerId : Eligible(swarm, ann, q)}
           entry == [p \in PeerId |-> EntryOf(swarm, p)]
           fresh == {entry[p] : p \in eligible}
           b == TopUp(swarm, ann)
<1>1. {EntryOf(swarm, p) : p \in eligible} = fresh
  OBVIOUS
<1>2. b = [e \in Entry |-> IF e \in fresh THEN 1 ELSE 0]
  BY <1>1, Zenon DEF TopUp
<1>3. fresh \subseteq Entry
  BY DEF Eligible, EntryOf, Entry, Swarm, Peer
<1>4. IsFiniteSet(eligible) /\ Cardinality(eligible) <= Cardinality(PeerId)
  BY FiniteAssumption, FS_Subset
<1>5. Cardinality(fresh) <= Cardinality(eligible) /\ IsFiniteSet(fresh)
  <2> HIDE DEF eligible, entry
  <2>1. QED
    BY <1>4, ImageFinite
<1> HIDE DEF fresh, eligible, b
<1>6. b \in [Entry -> Nat]
  BY <1>2
<1>7. BagSize(b) = Cardinality(fresh)
  BY <1>2, <1>3, <1>6, EntryFinite, SumOnes, BagSizeType
<1>8. /\ Cardinality(fresh) \in Nat /\ Cardinality(eligible) \in Nat
      /\ Cardinality(PeerId) \in Nat
  BY <1>4, <1>5, FiniteAssumption, FS_CardinalityType
<1>9. QED
  BY <1>4, <1>5, <1>6, <1>7, <1>8 DEF b

\* The front of a list is as long as was asked for, or all of the list.
LEMMA FrontSize ==
  ASSUME NEW pool \in [Entry -> Nat], NEW size \in Nat,
         NEW front \in Fronts(pool, size)
  PROVE  front \in [Entry -> Nat] /\ BagSize(front) = MinOf(size, BagSize(pool))
<1> DEFINE present == {x \in Entry : pool[x] > 0}
<1>1. PICK t \in [present -> 0..size] :
        /\ BagSize(t) = MinOf(size, BagSize(pool))
        /\ front = [x \in Entry |-> IF x \in present THEN t[x] ELSE 0]
  BY DEF Fronts
<1>2. /\ \A x \in Entry : front[x] = IF x \in present THEN t[x] ELSE 0
      /\ \A x \in present : t[x] \in Nat
      /\ present \in SUBSET Entry
      /\ DOMAIN t = present
  BY <1>1
<1>3. front \in [Entry -> Nat]
  BY <1>1
<1> HIDE DEF present
<1>4. SumFunctionOnSet(front, Entry) = SumFunctionOnSet(t, present)
  BY <1>2, EntryFinite, SumExtend
<1>5. BagSize(t) = SumFunctionOnSet(t, present)
  BY <1>2 DEF BagSize, SumFunction
<1>6. QED
  BY <1>1, <1>3, <1>4, <1>5, BagSizeType

\* What stays in a list and what is taken from it make up the list.
LEMMA RestSize ==
  ASSUME NEW pool \in [Entry -> Nat], NEW front \in [Entry -> Nat],
         \A e \in Entry : front[e] <= pool[e]
  PROVE  LET rest == [e \in Entry |-> pool[e] - front[e]]
         IN  rest \in [Entry -> Nat] /\ BagSize(pool) = BagSize(front) + BagSize(rest)
<1> DEFINE rest == [e \in Entry |-> pool[e] - front[e]]
<1>1. rest \in [Entry -> Nat]
  OBVIOUS
<1>2. \A e \in Entry : /\ front[e] \in Nat /\ rest[e] \in Nat
                       /\ pool[e] = front[e] + rest[e]
  OBVIOUS
<1> HIDE DEF rest
<1>3. SumFunctionOnSet(pool, Entry) =
        SumFunctionOnSet(front, Entry) + SumFunctionOnSet(rest, Entry)
  BY <1>2, EntryFinite, SumPlus
<1>4. BagSize(pool) = BagSize(front) + BagSize(rest)
  BY <1>1, <1>3, BagSizeType
<1>5. QED
  BY <1>1, <1>4 DEF rest

\* Topping up adds the lengths.
LEMMA ToppedUpSize ==
  ASSUME NEW held \in [Entry -> Nat], NEW more \in [Entry -> Nat]
  PROVE  LET pool == [e \in Entry |-> held[e] + more[e]]
         IN  pool \in [Entry -> Nat] /\ BagSize(pool) = BagSize(held) + BagSize(more)
<1> DEFINE pool == [e \in Entry |-> held[e] + more[e]]
<1>1. pool \in [Entry -> Nat]
  OBVIOUS
<1>2. \A e \in Entry : /\ held[e] \in Nat /\ more[e] \in Nat
                       /\ pool[e] = held[e] + more[e]
  OBVIOUS
<1> HIDE DEF pool
<1>3. SumFunctionOnSet(pool, Entry) =
        SumFunctionOnSet(held, Entry) + SumFunctionOnSet(more, Entry)
  BY <1>2, EntryFinite, SumPlus
<1>4. BagSize(pool) = BagSize(held) + BagSize(more)
  BY <1>1, <1>3, BagSizeType
<1>5. QED
  BY <1>1, <1>4 DEF pool
\* What answering an announce does to the list of its torrent.
LEMMA RespondPool ==
  ASSUME TypeOK, NEW ann \in Requests, NEW want \in NumWant, Respond(ann, want),
         dfile' \in [InfoHash -> Swarm]
  PROVE  LET h == ann.hash
             size == MinOf(want, MaxGive)
             pool == Pool(cached[h], dfile'[h], ann, size)
         IN  /\ h \in InfoHash /\ size \in Nat
             /\ pool \in [Entry -> Nat]
             /\ \E front \in [Entry -> Nat] :
                  /\ \A e \in Entry : front[e] <= pool[e]
                  /\ BagSize(front) = MinOf(size, BagSize(pool))
                  /\ cached' = [cached EXCEPT ![h] =
                                  [e \in Entry |-> pool[e] - front[e]]]
                  /\ reply' = [ann |-> ann, size |-> size, peers |-> front]
<1> DEFINE h == ann.hash
           size == MinOf(want, MaxGive)
           pool == Pool(cached[h], dfile'[h], ann, size)
<1>1. h \in InfoHash /\ size \in Nat
  BY InputAssumption, NumberAssumption DEF Announcement, MinOf
<1>2. pool \in [Entry -> Nat]
  BY <1>1, PoolType DEF TypeOK
<1>3. PICK front \in Fronts(pool, size) :
        /\ cached' = [cached EXCEPT ![h] = [e \in Entry |-> pool[e] - front[e]]]
        /\ reply' = [ann |-> ann, size |-> size, peers |-> front]
  BY DEF Respond
<1> HIDE DEF size, pool
<1>4. \A e \in Entry : front[e] <= pool[e]
  BY <1>1, <1>2, FrontWithinPool
<1>5. front \in [Entry -> Nat] /\ BagSize(front) = MinOf(size, BagSize(pool))
  BY <1>1, <1>2, FrontSize
<1>6. QED
  BY <1>1, <1>2, <1>3, <1>4, <1>5 DEF size, pool

\* The list an announce is answered from is the cached one if that is long
\* enough, and otherwise holds everybody the announcing peer may be given.
LEMMA PoolSize ==
  ASSUME NEW held \in [Entry -> Nat], NEW swarm \in Swarm, NEW ann, NEW size \in Nat
  PROVE  LET pool == Pool(held, swarm, ann, size)
         IN  \/ BagSize(held) >= size /\ pool = held
             \/ /\ BagSize(held) < size
                /\ BagSize(pool) <= BagSize(held) + Cardinality(PeerId)
                /\ \A p \in PeerId : Eligible(swarm, ann, p) =>
                     EntryOf(swarm, p) \in Entry /\ pool[EntryOf(swarm, p)] > 0
<1> DEFINE more == TopUp(swarm, ann)
           topped == [e \in Entry |-> held[e] + more[e]]
<1>1. more \in [Entry -> Nat] /\ BagSize(more) <= Cardinality(PeerId)
  BY TopUpSize
<1>2. BagSize(held) \in Nat /\ BagSize(more) \in Nat /\ Cardinality(PeerId) \in Nat
  BY <1>1, BagSizeType, FiniteAssumption, FS_CardinalityType
<1>3. BagSize(topped) = BagSize(held) + BagSize(more)
  BY <1>1, ToppedUpSize
<1>4. ASSUME NEW p \in PeerId, Eligible(swarm, ann, p)
      PROVE  EntryOf(swarm, p) \in Entry /\ topped[EntryOf(swarm, p)] > 0
  <2>1. EntryOf(swarm, p) \in Entry
    BY <1>4 DEF Eligible, EntryOf, Entry, Swarm, Peer
  <2>2. more[EntryOf(swarm, p)] = 1
    BY <1>4, <2>1 DEF TopUp
  <2>3. QED
    BY <2>1, <2>2
<1>5. CASE BagSize(held) < size
  <2>1. Pool(held, swarm, ann, size) = topped
    BY <1>5 DEF Pool
  <2> HIDE DEF topped, more
  <2>2. QED
    BY <1>1, <1>2, <1>3, <1>4, <1>5, <2>1
<1>6. CASE ~(BagSize(held) < size)
  <2>1. Pool(held, swarm, ann, size) = held
    BY <1>6 DEF Pool
  <2>2. QED
    BY <1>2, <1>6, <2>1
<1>7. QED
  BY <1>5, <1>6

\* An answer leaves in the cache a part of what was eligible, at most.
LEMMA RespondBounded ==
  ASSUME TypeOK, CacheBounded, NEW ann \in Requests, NEW want \in NumWant,
         Respond(ann, want), dfile' \in [InfoHash -> Swarm]
  PROVE  CacheBounded'
<1> DEFINE h == ann.hash
           size == MinOf(want, MaxGive)
           held == cached[h]
           pool == Pool(held, dfile'[h], ann, size)
<1>1. h \in InfoHash /\ size \in Nat /\ pool \in [Entry -> Nat]
  BY RespondPool
<1>2. PICK front \in [Entry -> Nat] :
        /\ \A e \in Entry : front[e] <= pool[e]
        /\ BagSize(front) = MinOf(size, BagSize(pool))
        /\ cached' = [cached EXCEPT ![h] = [e \in Entry |-> pool[e] - front[e]]]
  BY RespondPool
<1> DEFINE rest == [e \in Entry |-> pool[e] - front[e]]
<1>3. held \in [Entry -> Nat] /\ BagSize(held) < Cardinality(PeerId)
  BY <1>1 DEF TypeOK, CacheBounded
<1>4. \/ BagSize(held) >= size /\ pool = held
      \/ /\ BagSize(held) < size
         /\ BagSize(pool) <= BagSize(held) + Cardinality(PeerId)
  BY <1>1, <1>3, PoolSize
<1>5. cached' = [cached EXCEPT ![h] = rest]
  BY <1>2
<1> HIDE DEF size, held, pool, rest
<1>6. rest \in [Entry -> Nat] /\ BagSize(pool) = BagSize(front) + BagSize(rest)
  BY <1>1, <1>2, RestSize DEF rest
<1>7. /\ BagSize(held) \in Nat /\ BagSize(pool) \in Nat /\ BagSize(front) \in Nat
      /\ BagSize(rest) \in Nat
  BY <1>1, <1>3, <1>6, BagSizeType
<1>8. Cardinality(PeerId) \in Nat /\ Cardinality(PeerId) > 0
  BY FiniteAssumption, FS_CardinalityType, FS_EmptySet
<1>9. BagSize(rest) < Cardinality(PeerId)
  <2>1. BagSize(front) = IF size < BagSize(pool) THEN size ELSE BagSize(pool)
    BY <1>2 DEF MinOf
  <2>2. CASE pool = held
    <3>1. BagSize(pool) = BagSize(held)
      BY <2>2
    <3>2. QED
      BY <1>3, <1>6, <1>7, <1>8, <3>1
  <2>3. CASE pool # held
    <3>1. BagSize(held) < size /\ BagSize(pool) <= BagSize(held) + Cardinality(PeerId)
      BY <1>4, <2>3
    <3>2. QED
      BY <1>1, <1>6, <1>7, <1>8, <2>1, <3>1
  <2>4. QED
    BY <2>2, <2>3
<1>10. \A g \in InfoHash : cached'[g] = IF g = h THEN rest ELSE cached[g]
  BY <1>1, <1>5 DEF TypeOK
<1>11. QED
  BY <1>9, <1>10 DEF CacheBounded

\* Every step keeps the cache within its bound.
LEMMA CacheStep ==
  TypeOK /\ TypeOK' /\ CacheBounded /\ [Next]_vars => CacheBounded'
<1> SUFFICES ASSUME TypeOK, TypeOK', CacheBounded, [Next]_vars
             PROVE  CacheBounded'
  OBVIOUS
<1>1. ASSUME NEW ann \in Requests, NEW want \in NumWant, HttpAnnounce(ann, want)
      PROVE  CacheBounded'
  BY <1>1, RespondBounded DEF HttpAnnounce, TypeOK
<1>2. CASE UNCHANGED cached
  BY <1>2 DEF CacheBounded
<1>3. QED
  BY <1>1, <1>2 DEF Next, HttpRefused, DeleteTorrent, ParseTorrents,
     RecountUniquePeers, Update, ApplyQueued, QueueAnnounce, Tick, vars

\* A cached list of peers stays shorter than the number of peer ids, however
\* often announces top it up: what is taken from it makes up for what a top up
\* adds.
THEOREM CacheStaysBounded == Spec => []CacheBounded
<1>1. Init => CacheBounded
  <2> SUFFICES ASSUME Init, NEW h \in InfoHash
               PROVE  BagSize(cached[h]) < Cardinality(PeerId)
    BY DEF CacheBounded
  <2>1. cached[h] \in [Entry -> Nat] /\ \A e \in Entry : cached[h][e] = 0
    BY DEF Init
  <2>2. BagSize(cached[h]) = 0
    BY <2>1, EntryFinite, SumZeros, BagSizeType
  <2>3. Cardinality(PeerId) \in Nat /\ Cardinality(PeerId) > 0
    BY FiniteAssumption, FS_CardinalityType, FS_EmptySet
  <2>4. QED
    BY <2>2, <2>3
<1>2. QED
  BY <1>1, CacheStep, TypeCorrect, PTL DEF Spec

\* What a shorter front leaves behind is nothing.
LEMMA WholePool ==
  ASSUME NEW pool \in [Entry -> Nat], NEW front \in [Entry -> Nat],
         \A e \in Entry : front[e] <= pool[e],
         BagSize(front) = BagSize(pool), NEW e \in Entry
  PROVE  front[e] = pool[e]
<1> DEFINE rest == [x \in Entry |-> pool[x] - front[x]]
<1>1. rest \in [Entry -> Nat] /\ BagSize(pool) = BagSize(front) + BagSize(rest)
  BY RestSize
<1>2. BagSize(rest) = 0
  BY <1>1, BagSizeType
<1>3. \A x \in Entry : rest[x] \in Nat
  BY <1>1
<1>4. SumFunctionOnSet(rest, Entry) = 0
  BY <1>1, <1>2, BagSizeType
<1>5. rest[e] = 0
  <2> HIDE DEF rest
  <2>1. QED
    BY <1>3, <1>4, EntryFinite, SumOfZero
<1>6. QED
  BY <1>5

\* An answer that is shorter than it was asked to be has all the peers.
LEMMA RespondComplete ==
  ASSUME TypeOK, NEW ann \in Requests, NEW want \in NumWant,
         Respond(ann, want), dfile' \in [InfoHash -> Swarm]
  PROVE  ShortReplyIsComplete'
<1> DEFINE h == ann.hash
           size == MinOf(want, MaxGive)
           held == cached[h]
           swarm == dfile'[h]
           pool == Pool(held, swarm, ann, size)
<1>1. h \in InfoHash /\ size \in Nat /\ pool \in [Entry -> Nat]
  BY RespondPool
<1>2. PICK front \in [Entry -> Nat] :
        /\ \A e \in Entry : front[e] <= pool[e]
        /\ BagSize(front) = MinOf(size, BagSize(pool))
        /\ reply' = [ann |-> ann, size |-> size, peers |-> front]
  BY RespondPool
<1>3. held \in [Entry -> Nat] /\ swarm \in Swarm
  BY <1>1 DEF TypeOK
<1>4. \/ BagSize(held) >= size /\ pool = held
      \/ /\ BagSize(held) < size
         /\ \A p \in PeerId : Eligible(swarm, ann, p) =>
              EntryOf(swarm, p) \in Entry /\ pool[EntryOf(swarm, p)] > 0
  BY <1>1, <1>3, PoolSize
<1>5. BagSize(pool) \in Nat
  BY <1>1, BagSizeType
<1>6. ASSUME BagSize(front) < size, NEW p \in PeerId, Eligible(swarm, ann, p)
      PROVE  front[EntryOf(swarm, p)] > 0
  <2> HIDE DEF held, size, pool
  <2>1. BagSize(front) = BagSize(pool) /\ BagSize(pool) < size
    BY <1>1, <1>2, <1>5, <1>6 DEF MinOf
  <2>2. EntryOf(swarm, p) \in Entry /\ pool[EntryOf(swarm, p)] > 0
    <3>1. CASE pool = held
      BY <1>1, <1>4, <1>5, <1>6, <2>1, <3>1
    <3>2. CASE pool # held
      BY <1>4, <1>6, <3>2
    <3>3. QED
      BY <3>1, <3>2
  <2>3. QED
    BY <1>1, <1>2, <2>1, <2>2, WholePool
<1>7. reply'.ann = ann /\ reply'.size = size /\ reply'.peers = front
  BY <1>2
<1>8. QED
  <2> HIDE DEF size, held, pool
  <2>1. QED
    BY <1>6, <1>7 DEF ShortReplyIsComplete

\* Every step keeps the last answer complete or full.
LEMMA ReplyStep ==
  TypeOK /\ TypeOK' /\ ShortReplyIsComplete /\ [Next]_vars => ShortReplyIsComplete'
<1> SUFFICES ASSUME TypeOK, TypeOK', ShortReplyIsComplete, [Next]_vars
             PROVE  ShortReplyIsComplete'
  OBVIOUS
<1>1. ASSUME NEW ann \in Requests, NEW want \in NumWant, HttpAnnounce(ann, want)
      PROVE  ShortReplyIsComplete'
  BY <1>1, RespondComplete DEF HttpAnnounce, TypeOK
<1>2. CASE reply' = NoReply
  BY <1>2 DEF ShortReplyIsComplete
<1>3. CASE UNCHANGED <<reply, dfile>>
  BY <1>3 DEF ShortReplyIsComplete, Eligible, EntryOf
<1>4. QED
  BY <1>1, <1>2, <1>3 DEF Next, HttpRefused, DeleteTorrent, ParseTorrents,
     RecountUniquePeers, Update, ApplyQueued, QueueAnnounce, Tick, vars, swarmVars

\* A reply with fewer peers than were asked for leaves out nobody whom the
\* announcing peer may be given: the list was topped up for it, and taken
\* whole.
THEOREM ShortRepliesAreComplete == Spec => []ShortReplyIsComplete
<1>1. Init => ShortReplyIsComplete
  BY DEF Init, ShortReplyIsComplete
<1>2. QED
  BY <1>1, ReplyStep, TypeCorrect, PTL DEF Spec
=============================================================================
