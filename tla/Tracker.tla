------------------------------ MODULE Tracker ------------------------------
(***************************************************************************)
(* The announce core of the tracker: the swarm state CTracker keeps in     *)
(* memory, what an announce does to it, how silent peers are expired and   *)
(* which peers an announce is answered with (tracker.cpp,                  *)
(* tracker_announce.cpp, the torrent deletion of tracker_index.cpp).       *)
(*                                                                         *)
(* One thread, the main thread of bnbt.cpp, runs CTracker::Update and      *)
(* every request handler, so each of these is one step, except the loop    *)
(* of Update that drains the announces queued by the tracker link: link    *)
(* threads keep queueing while it runs, so it takes a step per announce.   *)
(*                                                                         *)
(* The constructor is Init: it loads some dstate file, so what a restart   *)
(* keeps is the set Restored.  Abuse detection (cbtt_abuse_detection) and  *)
(* the MySQL build are off, as they are by default.                        *)
(***************************************************************************)
EXTENDS Integers, Sequences, FiniteSets, Functions

CONSTANTS
  InfoHash,        \* torrents
  PeerId,          \* peer ids clients announce with
  IP, Port,        \* addresses peers announce
  Key,             \* values of the "key" parameter, the empty one included
  NoKey,           \* a restored peer without a "key" entry
  NoPeer,          \* no entry in m_pDFile
  NoReply,         \* no announce has just been answered
  Requests,        \* well-formed announces that may reach the HTTP handler
  LinkAnnounces,   \* announces that may arrive over the tracker link
  NumWant,         \* peers an announce may ask for, response_size included
  Restored,        \* contents of m_pDFile that may be loaded at start-up
  MaxGive,         \* max_give
  TimeOut,         \* downloader_timeout_interval
  Linked,          \* gpLinkServer || gpLink
  KeySupport,      \* bnbt_use_announce_key
  CountUnique,     \* bnbt_count_unique_peers
  KeepDead,        \* keep_dead
  AllowedDir,      \* allowed_dir is set, so m_pAllowed is not NULL
  MaxLag,          \* bound: the main loop calls Update this often, in seconds
  MaxTime,         \* bound on the clock
  MaxQueued,       \* bound on announces waiting in m_vecQueued
  MaxCompleted,    \* bound on the downloads counted for a torrent
  MaxCounted       \* bound on the peers counted for an IP

Peer == [ip: IP, port: Port, left: {0, 1}, key: Key \cup {NoKey}]

\* "started", an absent event and the periodic announce take the same branch.
Event == {"started", "completed", "stopped"}

Announcement ==
  [hash: InfoHash, peer: PeerId, ip: IP, port: Port, left: {0, 1},
   key: Key, event: Event]

\* What m_pCached holds of a peer.
Entry == [id: PeerId, ip: IP, port: Port]

Swarm == [PeerId -> Peer \cup {NoPeer}]

\* The peers of a response: how many were asked for and which were given.
Reply == [ann: Requests, size: Nat, peers: [Entry -> Nat]]

ASSUME FiniteAssumption ==
  /\ IsFiniteSet(InfoHash) /\ IsFiniteSet(PeerId)
  /\ IsFiniteSet(IP) /\ IsFiniteSet(Port)
  /\ PeerId # {}
ASSUME SentinelAssumption ==
  NoPeer \notin Peer /\ NoKey \notin Key /\ NoReply \notin Reply
ASSUME InputAssumption ==
  /\ Requests \subseteq Announcement
  /\ LinkAnnounces \subseteq Announcement
  /\ Restored \subseteq [InfoHash -> Swarm]
ASSUME NumberAssumption ==
  /\ NumWant \subseteq Nat
  /\ MaxGive \in Nat
  /\ TimeOut \in Nat
  /\ MaxLag \in Nat \ {0}
  /\ {MaxTime, MaxQueued, MaxCompleted, MaxCounted} \subseteq Nat
ASSUME SwitchAssumption ==
  {Linked, KeySupport, CountUnique, KeepDead, AllowedDir} \subseteq BOOLEAN

NoTime == -1

VARIABLES
  now,            \* GetTime(): seconds since the process started
  allowed,        \* keys of m_pAllowed
  hashes,         \* keys of m_pDFile
  dfile,          \* m_pDFile: the peers of each torrent
  times,          \* m_pTimeDicti: when each peer last announced
  ips,            \* m_pIPs: peers counted per IP
  completed,      \* m_pCompleted
  cached,         \* m_pCached: a bag of entries per torrent
  prevTime,       \* m_iPrevTime
  timeOutNext,    \* m_iDownloaderTimeOutNext
  queued,         \* m_vecQueued
  batch,          \* vecTemp of Update: queued announces not yet applied
  reply,          \* the response to the announce just handled
  heard,          \* history: when an announce for the peer was last handled
  drifted         \* history: the addresses that a peer has come to or gone from,
                  \* since peers were last counted, with no step of their count

swarmVars == <<hashes, dfile, times, ips, completed, heard, drifted>>
clockVars == <<now, prevTime, timeOutNext>>
linkVars  == <<queued, batch>>
vars == <<swarmVars, clockVars, linkVars, allowed, cached, reply>>

Registered(h, p) == dfile[h][p] # NoPeer

MinOf(a, b) == IF a < b THEN a ELSE b

---------------------------------------------------------------------------
(***************************************************************************)
(* Unique peers per IP.                                                    *)
(***************************************************************************)

\* The registered peers of all torrents, by stored IP.
UniqueOf(d) ==
  [i \in IP |->
     Cardinality({hp \in InfoHash \X PeerId :
                    /\ d[hp[1]][hp[2]] # NoPeer
                    /\ d[hp[1]][hp[2]].ip = i})]

\* From now on no count is off.
CountUniquePeers == ips' = UniqueOf(dfile') /\ drifted' = {}

AddUniquePeer(i) == [ips EXCEPT ![i] = @ + 1]

\* Mutant: the count is decremented without looking at it.
RemoveUniquePeerUnchecked(i) == [ips EXCEPT ![i] = @ - 1]

\* Mutant: a count that would not stay positive is left as it is.
RemoveUniquePeerKept(i) == [ips EXCEPT ![i] = IF @ > 1 THEN @ - 1 ELSE @]

\* A count that would not stay positive is deleted, which reads as zero.
RemoveUniquePeer(i) == [ips EXCEPT ![i] = IF @ > 0 THEN @ - 1 ELSE 0]

\* History: a peer counted at one address is at another, or was taken off the
\* count of another.
Astray(from, to) == IF from = to THEN {} ELSE {from, to}

---------------------------------------------------------------------------
(***************************************************************************)
(* CTracker::Announce.                                                     *)
(***************************************************************************)

NewPeer(ann) ==
  [ip |-> ann.ip, port |-> ann.port, left |-> ann.left, key |-> ann.key]

\* A known peer: with key support only the holder of the stored key changes
\* anything; otherwise the IP is left alone and a missing key is filled in.
RefreshedPeer(old, ann) ==
  IF KeySupport /\ old.key # NoKey
  THEN IF old.key = ann.key
       THEN [old EXCEPT !.ip = ann.ip, !.left = ann.left]
       ELSE old
  ELSE [old EXCEPT !.left = ann.left,
                   !.key  = IF KeySupport THEN ann.key ELSE @]

\* Mutant: the time is recorded for a new peer only.
TimeAnnounceOnce(ann) ==
  /\ times' = [times EXCEPT ![ann.hash][ann.peer] = IF @ = NoTime THEN now ELSE @]
  /\ heard' = [heard EXCEPT ![ann.hash][ann.peer] = now]

\* The time is refreshed whether or not the key matched.
TimeAnnounce(ann) ==
  /\ times' = [times EXCEPT ![ann.hash][ann.peer] = now]
  /\ heard' = [heard EXCEPT ![ann.hash][ann.peer] = now]

AnnounceAlive(ann) ==
  LET known == Registered(ann.hash, ann.peer)
  IN  /\ dfile' = [dfile EXCEPT ![ann.hash][ann.peer] =
                     IF known THEN RefreshedPeer(@, ann) ELSE NewPeer(ann)]
      /\ TimeAnnounce(ann)
      /\ ips' = IF ~known /\ CountUnique THEN AddUniquePeer(ann.ip) ELSE ips
      /\ drifted' = IF known
                    THEN drifted \cup Astray(dfile[ann.hash][ann.peer].ip,
                                            dfile'[ann.hash][ann.peer].ip)
                    ELSE drifted
      /\ completed' = [completed EXCEPT ![ann.hash] =
                         IF ann.event = "completed" THEN @ + 1 ELSE @]

\* Mutant: anyone may stop a peer.
AllowStopAnyKey(ann) == Registered(ann.hash, ann.peer) /\ KeySupport

\* A stop is honoured only with key support and from the key's holder.
AllowStop(ann) ==
  /\ Registered(ann.hash, ann.peer)
  /\ KeySupport
  /\ dfile[ann.hash][ann.peer].key = ann.key

AnnounceStopped(ann) ==
  /\ IF AllowStop(ann)
     THEN /\ dfile' = [dfile EXCEPT ![ann.hash][ann.peer] = NoPeer]
          /\ times' = [times EXCEPT ![ann.hash][ann.peer] = NoTime]
          /\ ips' = IF CountUnique THEN RemoveUniquePeer(ann.ip) ELSE ips
          /\ drifted' = drifted \cup Astray(dfile[ann.hash][ann.peer].ip, ann.ip)
     ELSE UNCHANGED <<dfile, times, ips, drifted>>
  /\ UNCHANGED <<completed, heard>>

WithinBounds(ann) ==
  /\ ann.event = "completed" => completed[ann.hash] < MaxCompleted
  /\ CountUnique /\ ann.event # "stopped" /\ ~Registered(ann.hash, ann.peer)
       => ips[ann.ip] < MaxCounted

Announce(ann) ==
  /\ WithinBounds(ann)
  /\ hashes' = hashes \cup {ann.hash}
  /\ IF ann.event = "stopped" THEN AnnounceStopped(ann) ELSE AnnounceAlive(ann)

Authorized(h) == AllowedDir => h \in allowed

---------------------------------------------------------------------------
(***************************************************************************)
(* The peers an announce is answered with: m_pCached is a shuffled list    *)
(* that is topped up when it is shorter than the reply and consumed from   *)
(* the front, so the reply is any part of it of the right size.            *)
(***************************************************************************)

BagSize(b) == SumFunction(b)

\* Peers of the torrent put into the cache for the announce being answered:
\* never one at the announcing address, and no seeds for a seed.
Eligible(swarm, ann, p) ==
  /\ swarm[p] # NoPeer
  /\ ~(swarm[p].ip = ann.ip /\ swarm[p].port = ann.port)
  /\ ann.left = 0 => swarm[p].left # 0

EntryOf(swarm, p) == [id |-> p, ip |-> swarm[p].ip, port |-> swarm[p].port]

TopUp(swarm, ann) ==
  LET fresh == {EntryOf(swarm, p) : p \in {q \in PeerId : Eligible(swarm, ann, q)}}
  IN  [e \in Entry |-> IF e \in fresh THEN 1 ELSE 0]

\* Mutant: the list is topped up only when it has run out.
PoolWhenEmpty(held, swarm, ann, size) ==
  IF BagSize(held) = 0 /\ size > 0
  THEN [e \in Entry |-> held[e] + TopUp(swarm, ann)[e]]
  ELSE held

\* Mutant: the list is topped up for every announce.
PoolAlways(held, swarm, ann, size) ==
  [e \in Entry |-> held[e] + TopUp(swarm, ann)[e]]

\* Populate cache: the cached list the reply is taken from.
Pool(held, swarm, ann, size) ==
  IF BagSize(held) < size
  THEN [e \in Entry |-> held[e] + TopUp(swarm, ann)[e]]
  ELSE held

\* Clamp response: the parts of a pool that may be at its front.
Fronts(pool, size) ==
  LET present == {e \in Entry : pool[e] > 0}
      n == MinOf(size, BagSize(pool))
  IN  {[e \in Entry |-> IF e \in present THEN t[e] ELSE 0] :
         t \in {u \in [present -> 0..size] :
                  (\A e \in present : u[e] <= pool[e]) /\ BagSize(u) = n}}

Respond(ann, want) ==
  LET size == MinOf(want, MaxGive)
      pool == Pool(cached[ann.hash], dfile'[ann.hash], ann, size)
  IN  \E front \in Fronts(pool, size) :
        /\ cached' = [cached EXCEPT ![ann.hash] =
                        [e \in Entry |-> pool[e] - front[e]]]
        /\ reply' = [ann |-> ann, size |-> size, peers |-> front]

---------------------------------------------------------------------------
(***************************************************************************)
(* The announce handler, serverResponseAnnounce.                           *)
(***************************************************************************)

\* A main thread handler runs only when Update is not draining its batch.
MainIdle == batch = <<>>

KeyMismatch(ann) ==
  /\ Registered(ann.hash, ann.peer)
  /\ dfile[ann.hash][ann.peer].key # NoKey
  /\ dfile[ann.hash][ann.peer].key # ann.key

HttpAnnounce(ann, want) ==
  /\ MainIdle
  /\ Authorized(ann.hash)
  /\ ~KeyMismatch(ann)
  /\ Announce(ann)
  /\ Respond(ann, want)
  /\ UNCHANGED <<clockVars, linkVars, allowed>>

\* Refused after the torrent's entry was created: the key does not match, the
\* client is banned, a parameter is missing or invalid.  What is refused before
\* that (not authorised, no key where one is required) changes nothing.
HttpRefused(h) ==
  /\ MainIdle
  /\ Authorized(h)
  /\ hashes' = hashes \cup {h}
  /\ reply' = NoReply
  /\ UNCHANGED <<dfile, times, ips, completed, heard, drifted, clockVars, linkVars,
                 allowed, cached>>

---------------------------------------------------------------------------
(***************************************************************************)
(* Torrents: deletion by a moderator, and the scan of the allowed          *)
(* directory, whose content is up to whoever writes to it.                 *)
(***************************************************************************)

\* /index.html?del=<h>&ok=1: the entries of m_pTimeDicti, m_pCached and m_pIPs
\* stay behind.
DeleteTorrent(h) ==
  /\ MainIdle
  /\ AllowedDir
  /\ allowed' = allowed \ {h}
  /\ hashes' = hashes \ {h}
  /\ dfile' = [dfile EXCEPT ![h] = [p \in PeerId |-> NoPeer]]
  /\ drifted' = drifted \cup {dfile[h][p].ip : p \in {q \in PeerId : Registered(h, q)}}
  /\ reply' = NoReply
  /\ UNCHANGED <<times, ips, completed, heard, clockVars, linkVars, cached>>

ParseTorrents(files) ==
  /\ MainIdle
  /\ AllowedDir
  /\ allowed' = files
  /\ hashes' = IF KeepDead THEN hashes \cup files ELSE hashes
  /\ reply' = NoReply
  /\ UNCHANGED <<dfile, times, ips, completed, heard, drifted, clockVars, linkVars,
                 cached>>

---------------------------------------------------------------------------
(***************************************************************************)
(* CTracker::Update: expiry, then the queued announces.  Its other timers  *)
(* save the state file, refresh the counts for scrapes and write pages,    *)
(* none of which is state of this module; the scan of the allowed          *)
(* directory is ParseTorrents.                                             *)
(***************************************************************************)

\* Mutant: peers are compared with this expiry instead of the one before.
StaleNow(h, p) == times[h][p] # NoTime /\ times[h][p] < now

\* Peers whose last announce is older than the previous expiry.
Stale(h, p) == times[h][p] # NoTime /\ times[h][p] < prevTime

EmptySwarm(swarm) == \A p \in PeerId : swarm[p] = NoPeer

\* Mutant: m_iPrevTime is left alone.
ExpiryDoneNoPrevTime == prevTime' = prevTime /\ timeOutNext' = now + TimeOut

ExpiryDone == prevTime' = now /\ timeOutNext' = now + TimeOut

\* The silent peers go, the others are counted again and, unless keep_dead
\* says otherwise, the torrents without peers go with their times.
ExpireDownloaders ==
  /\ dfile' = [h \in InfoHash |->
                 [p \in PeerId |-> IF Stale(h, p) THEN NoPeer ELSE dfile[h][p]]]
  /\ CountUniquePeers
  /\ ExpiryDone
  /\ LET dead == IF KeepDead THEN {} ELSE {h \in hashes : EmptySwarm(dfile'[h])}
     IN  /\ hashes' = hashes \ dead
         /\ times' = [h \in InfoHash |->
                        [p \in PeerId |->
                           IF h \in dead \/ Stale(h, p) THEN NoTime ELSE times[h][p]]]

Update ==
  /\ MainIdle
  /\ IF now > timeOutNext
     THEN ExpireDownloaders
     ELSE UNCHANGED <<hashes, dfile, times, ips, drifted, prevTime, timeOutNext>>
  /\ IF Linked THEN batch' = queued /\ queued' = <<>> ELSE UNCHANGED linkVars
  /\ reply' = NoReply
  /\ UNCHANGED <<now, completed, heard, allowed, cached>>

\* One iteration of the loop over vecTemp.
ApplyQueued ==
  /\ batch # <<>>
  /\ IF Authorized(Head(batch).hash)
     THEN Announce(Head(batch))
     ELSE UNCHANGED swarmVars
  /\ batch' = Tail(batch)
  /\ reply' = NoReply
  /\ UNCHANGED <<clockVars, queued, allowed, cached>>

\* A link thread calls QueueAnnounce.
QueueAnnounce(ann) ==
  /\ Linked
  /\ Len(queued) < MaxQueued
  /\ queued' = Append(queued, ann)
  /\ UNCHANGED <<swarmVars, clockVars, batch, allowed, cached, reply>>

\* Time passes, but Update is never overdue by more than MaxLag.
Tick ==
  /\ now < MaxTime
  /\ now < timeOutNext + MaxLag
  /\ now' = now + 1
  /\ UNCHANGED <<swarmVars, prevTime, timeOutNext, linkVars, allowed, cached, reply>>

\* /admin.html?ap_recount=1.
RecountUniquePeers ==
  /\ MainIdle
  /\ dfile' = dfile
  /\ CountUniquePeers
  /\ reply' = NoReply
  /\ UNCHANGED <<hashes, times, completed, heard, clockVars, linkVars, allowed, cached>>

---------------------------------------------------------------------------

\* The constructor: peers read from the dstate file have never been heard.
\* Downloads are counted from those it loads.
Init ==
  /\ dfile \in Restored
  /\ allowed \in IF AllowedDir THEN SUBSET InfoHash ELSE {{}}
  /\ \E saved \in SUBSET InfoHash :
       /\ \A h \in InfoHash : EmptySwarm(dfile[h]) \/ h \in saved
       /\ hashes = IF KeepDead THEN saved \cup allowed ELSE saved
  /\ times = [h \in InfoHash |->
                [p \in PeerId |-> IF dfile[h][p] # NoPeer THEN 0 ELSE NoTime]]
  /\ ips = IF CountUnique THEN UniqueOf(dfile) ELSE [i \in IP |-> 0]
  /\ completed = [h \in InfoHash |-> 0]
  /\ cached = [h \in InfoHash |-> [e \in Entry |-> 0]]
  /\ now = 0
  /\ prevTime = 1
  /\ timeOutNext = TimeOut
  /\ queued = <<>>
  /\ batch = <<>>
  /\ reply = NoReply
  /\ heard = [h \in InfoHash |-> [p \in PeerId |-> 0]]
  /\ drifted = {}

Next ==
  \/ \E ann \in Requests, want \in NumWant : HttpAnnounce(ann, want)
  \/ \E h \in InfoHash : HttpRefused(h)
  \/ \E h \in InfoHash : DeleteTorrent(h)
  \/ \E files \in SUBSET InfoHash : ParseTorrents(files)
  \/ RecountUniquePeers
  \/ Update
  \/ ApplyQueued
  \/ \E ann \in LinkAnnounces : QueueAnnounce(ann)
  \/ Tick

Spec == Init /\ [][Next]_vars

---------------------------------------------------------------------------
(***************************************************************************)
(* Properties.                                                             *)
(***************************************************************************)

\* The tables of CTracker hold what their readers expect to find in them.
TypeOK ==
  /\ now \in Nat /\ prevTime \in Nat /\ timeOutNext \in Nat
  /\ allowed \subseteq InfoHash /\ hashes \subseteq InfoHash
  /\ dfile \in [InfoHash -> Swarm]
  /\ times \in [InfoHash -> [PeerId -> Nat \cup {NoTime}]]
  /\ heard \in [InfoHash -> [PeerId -> Nat]]
  /\ ips \in [IP -> Nat] /\ drifted \subseteq IP
  /\ completed \in [InfoHash -> Nat]
  /\ cached \in [InfoHash -> [Entry -> Nat]]
  /\ reply \in Reply \cup {NoReply}
  /\ queued \in Seq(LinkAnnounces) /\ batch \in Seq(LinkAnnounces)

\* A registered peer always has the time of its last announce recorded, under
\* a torrent that is listed: expireDownloaders finds peers only through
\* m_pTimeDicti, so a peer without an entry would stay for ever.
TimedPeers ==
  \A h \in InfoHash, p \in PeerId :
    Registered(h, p) => h \in hashes /\ times[h][p] = heard[h][p]

\* No peer lingers: whoever has been silent for two expiry periods is gone.
\* One period is not enough, since expireDownloaders compares with the time
\* of the expiry before.
NoLinger ==
  \A h \in InfoHash, p \in PeerId :
    Registered(h, p) => now <= heard[h][p] + 2 * (TimeOut + MaxLag)

\* The announce a step handled: the head of the batch, or an HTTP one.
Handled(ann) ==
  IF batch # <<>> THEN ann = Head(batch)
                  ELSE reply' # NoReply /\ ann = reply'.ann

\* The step is a run of expireDownloaders and the peer has been silent for
\* longer than downloader_timeout_interval.
ExpiredSilent(h, p) ==
  timeOutNext' # timeOutNext /\ now > heard[h][p] + TimeOut

\* A stop that carries the key the peer registered with.
StoppedByHolder(h, p) ==
  \E ann \in Requests \cup LinkAnnounces :
    /\ Handled(ann)
    /\ ann.hash = h /\ ann.peer = p /\ ann.event = "stopped"
    /\ ann.key = dfile[h][p].key

\* A peer leaves a swarm for three reasons only: silence for longer than the
\* timeout, its own stop, or the deletion of the torrent.
RemovalJustified ==
  [][\A h \in InfoHash, p \in PeerId :
       Registered(h, p) /\ dfile'[h][p] = NoPeer =>
         \/ ExpiredSilent(h, p)
         \/ StoppedByHolder(h, p)
         \/ timeOutNext' = timeOutNext /\ h \notin hashes']_vars

\* While a peer stays registered its key never changes, and with key support
\* only an announce that carries this key moves it to another address: the
\* HTTP handler and Announce each check, and link announces meet only the
\* second check.
KeyHolderOnly ==
  [][\A h \in InfoHash, p \in PeerId :
       /\ Registered(h, p) /\ dfile'[h][p] # NoPeer
       /\ dfile[h][p].key # NoKey
       => /\ dfile'[h][p].key = dfile[h][p].key
          /\ KeySupport /\ dfile'[h][p].ip # dfile[h][p].ip
             => \E ann \in Requests \cup LinkAnnounces :
                  Handled(ann) /\ ann.key = dfile[h][p].key]_vars

\* The counts per IP are kept by one addition for a new peer and one removal
\* for a stop, at the address the announce came from, and never look at the
\* peers.  All the same they are the numbers of registered peers, at every
\* address but those that a peer has moved to or from, was stopped from
\* elsewhere, or was deleted at with its torrent, since the last recount.
CountsExact ==
  CountUnique => \A i \in IP \ drifted : ips[i] = UniqueOf(dfile)[i]

\* A reply shorter than asked for leaves nobody out: it lists every peer of
\* the torrent that the announcing peer may be given.
ShortReplyIsComplete ==
  reply # NoReply =>
    LET ann == reply.ann
        swarm == dfile[ann.hash]
    IN  BagSize(reply.peers) < reply.size =>
          \A p \in PeerId :
            Eligible(swarm, ann, p) => reply.peers[EntryOf(swarm, p)] > 0

\* The cached lists do not grow: what an announce leaves in one is smaller
\* than the largest swarm, however often the list is topped up.
CacheBounded ==
  \A h \in InfoHash : BagSize(cached[h]) < Cardinality(PeerId)

---------------------------------------------------------------------------
(***************************************************************************)
(* The inductive invariant behind NoLinger and RemovalJustified: expiries  *)
(* are more than TimeOut apart, at most TimeOut + MaxLag apart, and every  *)
(* registered peer has announced since the expiry before the last.         *)
(***************************************************************************)
ExpiryClock ==
  /\ prevTime <= now + 1
  /\ prevTime + TimeOut - 1 <= timeOutNext /\ timeOutNext <= prevTime + TimeOut
  /\ now <= timeOutNext + MaxLag
  /\ \A h \in InfoHash, p \in PeerId :
       Registered(h, p) => prevTime <= heard[h][p] + TimeOut + MaxLag

IInv == TypeOK /\ TimedPeers /\ ExpiryClock
=============================================================================
