------------------------------- MODULE Stats -------------------------------
(***************************************************************************)
(* The state file and everything else that CTracker::Update makes from the *)
(* swarms every so often (tracker.cpp), the pages that count peers         *)
(* (tracker_scrape.cpp, tracker_stats.cpp, tracker_index.cpp), and readers *)
(* of the index who turn its pages while torrents come and go.             *)
(*                                                                         *)
(* A swarm maps every peer to what it has left.  Who may announce what is  *)
(* the business of Tracker; here a peer comes, goes on, completes or stops *)
(* when it likes.  Links, unique peers and the detection of abuse are off. *)
(* An Update is one step: no request is handled in the middle of it.  Tags *)
(* and comments are in their files as soon as they are in memory (what if  *)
(* that fails is in Notes).                                                *)
(***************************************************************************)
EXTENDS Listing, Files, TLC

CONSTANTS
  Peer,             \* peer ids, numbered in the order of the keys
  Left,             \* amounts a peer may have left, 0 for a seeder
  NoLeft,           \* an entry without "left", from a file that was cut
  Gone,             \* no entry for the peer
  Spoiled,          \* a file nobody reads back, after a write that ended early
  NoSwarm,          \* no entry for the torrent in m_pDFile
  File,             \* File[h]: what the torrent file says
  NoFile,           \* the same of a torrent that is not in m_pAllowed
  Percent(_, _),    \* what is left of so much, computed in floats
  Tags, Comments,   \* Tags[h], Comments[h]: what was read from the files
  NoTag,            \* the empty tag
  Edits,            \* the tags, and names, an editor gives
  Kind,             \* what Update makes: "save" and "cache" at least
  Interval,         \* Interval[k]: the seconds from one to the next
  TimeOut,          \* downloader_timeout_interval
  MaxPeersDisplay,  \* bnbt_max_peers_display
  Views,            \* the views readers choose from
  Configs,          \* keep_dead, and the bounds of a behaviour; in config.edits
                    \* are the torrents that are talked about
  MaxLag            \* bound on the seconds between two calls of Update

Swarm == [Peer -> Left \cup {NoLeft, Gone}]

Never == -1

Nobody == [p \in Peer |-> Gone]

\* Keys are written in their order.
Before == {pair \in Nat \X Nat : pair[1] < pair[2]}

ASSUME StatsAssumption ==
  /\ Peer \subseteq Nat /\ Left \subseteq Nat /\ 0 \in Left
  /\ {NoLeft, Gone} \cap Left = {} /\ NoLeft # Gone /\ NoSwarm \notin Swarm
  /\ {"save", "cache"} \subseteq Kind /\ Kind \subseteq {"save", "scrape", "xml", "cache", "rss"}
  /\ Interval \in [Kind -> Nat] /\ TimeOut \in Nat /\ MaxPeersDisplay \in Nat
  /\ \A view \in Views : view.perPage \in Nat
  /\ Configs \subseteq [keepDead: BOOLEAN, time: Nat, changes: Nat, faults: Nat,
                        reading: BOOLEAN, allowed: SUBSET Hash, edits: SUBSET Hash]
  /\ MaxLag \in Nat \ {0}

\* An item of m_pTags has "tag" and perhaps "name", or there is none.
ASSUME TagsAssumption ==
  /\ DOMAIN Tags = Hash /\ Comments \in [Hash -> Nat]
  /\ \A entry \in Edits \cup Range(Tags) : DOMAIN entry \subseteq {"tag", "name"}
  /\ {NoTag} \cup {entry.tag : entry \in {e \in Edits \cup Range(Tags) : "tag" \in DOMAIN e}}
       \subseteq DOMAIN RemoveHTML

ASSUME StatsFiniteAssumption == IsFiniteSet(Hash) /\ IsFiniteSet(Peer)

VARIABLES
  config,       \* the configuration, chosen at the beginning
  running,      \* the process exists
  now, updated, \* GetTime, and when Update was called last
  peers,        \* m_pDFile; of a stopped process, what it was
  completed,    \* m_pCompleted, 0 for no item
  allowed,      \* keys of m_pAllowed, all the files there are
  tags,         \* m_pTags
  comments,     \* how many m_pComments has
  times,        \* m_pTimeDicti
  prevTime,     \* m_iPrevTime
  expireNext,   \* m_iDownloaderTimeOutNext
  next,         \* the other times of Update
  made,         \* what was made last: files, and m_pFastCache
  stale,        \* history: since when it differs from what would be made
  failed,       \* history: the kinds that were written badly last
  damaged,      \* history: <<in memory, in the file>> there may be cut entries
  reader,       \* the pages someone is turning
  changes, faults

swarmVars == <<peers, completed, allowed, times, tags, comments>>
timerVars == <<now, updated, prevTime, expireNext, next>>
fileVars == <<made, failed, damaged>>
historyVars == <<stale, reader>>
boundVars == <<changes, faults>>
vars == <<config, running, swarmVars, timerVars, fileVars, historyVars, boundVars>>

---------------------------------------------------------------------------
(***************************************************************************)
(* What the pages and files say of a torrent.                              *)
(***************************************************************************)

Known == {h \in Hash : peers[h] # NoSwarm}

Having(swarm, what) == {p \in Peer : swarm[p] \in what}

Leeching == Left \ {0}

\* RefreshFastCache, scrape and the index count who has said what is left.
Counts(h) ==
  [complete |-> Cardinality(Having(peers[h], {0})),
   incomplete |-> Cardinality(Having(peers[h], Leeching)),
   completed |-> completed[h]]

\* saveXML takes a peer without "left" for a leecher,
XMLCounts(h) ==
  [Counts(h) EXCEPT !.incomplete = Cardinality(Having(peers[h], Leeching \cup {NoLeft}))]

\* and stats.html for a seeder; it counts the ones it displays.
Shortened(n) == IF n > MaxPeersDisplay THEN MaxPeersDisplay ELSE n

StatsCounts(h) ==
  [complete |-> Shortened(Cardinality(Having(peers[h], {0, NoLeft}))),
   incomplete |-> Shortened(Cardinality(Having(peers[h], Leeching)))]

\* info.html counts entries.
PeerCount ==
  MapThenSumSet(LAMBDA h : Cardinality(Peer \ Having(peers[h], {Gone})), Known)

\* The row of the index: a name given along with the tag takes the place of
\* that in the file, and either is there without the file; what is left on
\* average, as a share of the size; what all the downloads that completed have
\* moved.
Row(h) ==
  LET file == IF h \in allowed THEN File[h] ELSE NoFile
      leechers == Having(peers[h], Leeching)
      average == MapThenSumSet(LAMBDA p : peers[h][p], leechers) \div Cardinality(leechers)
  IN  tags[h] @@ file @@ Counts(h) @@
      [key |-> h, tag |-> NoTag, comments |-> comments[h],
       avgLeft |-> IF leechers = {} \/ file.size = 0 THEN 0 ELSE Percent(average, file.size),
       transferred |-> completed[h] * file.size]

Rows == [h \in Known |-> Row(h)]

\* What Update makes of the tables: the state file,
State == [peers |-> peers, completed |-> completed]

\* the cache the announce replies take the counts from,
FastCache == [h \in Known |-> Counts(h)]

\* the answer to a scrape of some torrents, and to one of all that names none,
Scraped(named) ==
  [h \in (IF named = {} THEN Known ELSE named \cap Known) |-> Counts(h)]

\* which is also kept in a file,
ScrapeFile == Scraped({})

\* the dump,
XMLFile == [h \in Known |-> XMLCounts(h)]

\* and the feed.
Product(k) ==
  CASE k = "save"   -> State
    [] k = "cache"  -> FastCache
    [] k = "scrape" -> ScrapeFile
    [] k = "xml"    -> XMLFile
    [] k = "rss"    -> Feed(Rows, AnyTag)

NoState == [peers |-> [h \in Hash |-> NoSwarm], completed |-> [h \in Hash |-> 0]]

\* What a cut leaves of a number is the number or nothing at all.
CutCount(h, n) == {Discarded, 0, n}

CutPeer(p, left) == {Discarded, Gone, NoLeft, left}

CutSwarm(h, swarm) ==
  {Discarded, NoSwarm} \cup CutTable(swarm, Gone, Before, CutPeer)

\* "completed" comes before "peers".
CutState(state) ==
  {NoState} \cup
  {[NoState EXCEPT !.completed = c] :
     c \in CutTable(state.completed, 0, Before, CutCount)} \cup
  {[state EXCEPT !.peers = swarms] :
     swarms \in CutTable(state.peers, NoSwarm, Before, CutSwarm)}

---------------------------------------------------------------------------
(***************************************************************************)
(* Requests, and changes to the files of the torrents.                     *)
(***************************************************************************)

Change ==
  /\ running /\ changes < config.changes /\ changes' = changes + 1
  /\ UNCHANGED <<config, running, timerVars, fileVars, faults>>

Announce(h, p, left, event) ==
  /\ h \in allowed
  /\ Change
  /\ peers' = [peers EXCEPT ![h] = [(IF @ = NoSwarm THEN Nobody ELSE @) EXCEPT ![p] = left]]
  /\ times' = [times EXCEPT ![h][p] = now]
  /\ completed' = [completed EXCEPT ![h] = IF event = "completed" THEN @ + 1 ELSE @]
  /\ UNCHANGED <<allowed, tags, comments>>

Stop(h, p) ==
  /\ h \in allowed
  /\ Change
  /\ peers' = [peers EXCEPT ![h] = IF @ = NoSwarm THEN Nobody ELSE [@ EXCEPT ![p] = Gone]]
  /\ times' = [times EXCEPT ![h][p] = Never]
  /\ UNCHANGED <<completed, allowed, tags, comments>>

\* index.html?del: the times, the downloads and the comments are left behind.
DeleteTorrent(h) ==
  /\ Change
  /\ peers' = [peers EXCEPT ![h] = NoSwarm]
  /\ allowed' = allowed \ {h}
  /\ tags' = [tags EXCEPT ![h] = <<>>]
  /\ UNCHANGED <<completed, times, comments>>

\* With keep_dead every torrent there is has a swarm.
WithDead(swarms, files) ==
  [h \in Hash |-> IF config.keepDead /\ swarms[h] = NoSwarm /\ h \in files
                  THEN Nobody ELSE swarms[h]]

\* A scan of the directory finds these files.
Scan(files) ==
  /\ files # allowed
  /\ Change
  /\ allowed' = files
  /\ peers' = WithDead(peers, files)
  /\ UNCHANGED <<completed, times, tags, comments>>

\* upload.html, of a torrent that is parsed at once; one that is not gets its
\* tag (EditTag) and waits for a scan.
Upload(h, entry) ==
  /\ h \in config.edits \ Known
  /\ Change
  /\ tags' = [tags EXCEPT ![h] = entry @@ @]
  /\ allowed' = allowed \cup {h}
  /\ peers' = WithDead(peers, {h})
  /\ UNCHANGED <<completed, times, comments>>

\* addTag, from stats.html or upload.html: what is not given stays.
EditTag(h, entry) ==
  /\ h \in config.edits
  /\ Change
  /\ tags' = [tags EXCEPT ![h] = entry @@ @]
  /\ UNCHANGED <<peers, completed, allowed, times, comments>>

\* comments.html: one is written or taken away, or all of them are.
Discuss(h, count) ==
  /\ h \in config.edits
  /\ count \in Nat \cap {comments[h] + 1, comments[h] - 1, 0}
  /\ Change
  /\ comments' = [comments EXCEPT ![h] = count]
  /\ UNCHANGED <<peers, completed, allowed, times, tags>>

---------------------------------------------------------------------------
(***************************************************************************)
(* Update.                                                                 *)
(***************************************************************************)

\* Seconds pass; the main loop calls Update at least every MaxLag.
Tick ==
  /\ running /\ now < config.time /\ now - updated < MaxLag
  /\ now' = now + 1
  /\ UNCHANGED <<config, running, swarmVars, updated, prevTime, expireNext, next,
                 fileVars, boundVars>>

\* Mutant: one thing at a time.
DueAlone(k) ==
  now > next[k] /\ (k = "save" => "scrape" \notin Kind \/ now <= next["scrape"])

Due(k) == now > next[k]

\* The order of Update; expireDownloaders comes after "save".
Rank == [scrape |-> 1, save |-> 2, xml |-> 3, cache |-> 4, rss |-> 5]
BeforeExpiry(k) == Rank[k] <= 2

\* expireDownloaders: whoever was not heard of since the pass before.
Silent(h, p) == times[h][p] # Never /\ times[h][p] < prevTime

LeftAfter(h) ==
  IF peers[h] = NoSwarm THEN NoSwarm
  ELSE LET swarm == [p \in Peer |-> IF Silent(h, p) THEN Gone ELSE peers[h][p]]
       IN  IF swarm = Nobody /\ ~config.keepDead THEN NoSwarm ELSE swarm

ExpireDownloaders ==
  /\ peers' = [h \in Hash |-> LeftAfter(h)]
  /\ times' = [h \in Hash |->
                [p \in Peer |-> IF Silent(h, p) \/ (peers[h] # NoSwarm /\ LeftAfter(h) = NoSwarm)
                                THEN Never ELSE times[h][p]]]
  /\ prevTime' = now
  /\ expireNext' = now + TimeOut

\* What a write leaves in the file of k.
Written(k, product, outcome) ==
  FileAfter(outcome, made[k], product,
            IF k = "save" THEN CutState(product) ELSE {Spoiled})

\* Everything that is due is made, in the order of Update; unless the outcome
\* is "written" one write, that of k, goes wrong.
Update(k, outcome) ==
  LET due == {j \in Kind : Due(j)}
      bad == IF outcome = "written" THEN {} ELSE {k}
      crash == outcome = "crash"
      done == {j \in due \ bad : crash => Rank[j] < Rank[k]}
      expire == now > expireNext /\ ~(crash /\ BeforeExpiry(k))
      Made(j) == IF BeforeExpiry(j) THEN Product(j) ELSE Product(j)'
  IN  /\ running
      /\ bad \subseteq due \ {"cache"} /\ (bad = {} => k = "save")
      /\ faults' = faults + FaultsOf(outcome) /\ faults' <= config.faults
      /\ running' = ~crash
      /\ updated' = now
      /\ IF expire THEN ExpireDownloaders
                   ELSE UNCHANGED <<peers, times, prevTime, expireNext>>
      /\ UNCHANGED <<config, now, completed, allowed, tags, comments, changes>>
      /\ next' = [j \in Kind |-> IF j \in due THEN now + Interval[j] ELSE next[j]]
      /\ \E content \in IF bad = {} THEN {made[k]} ELSE Written(k, Made(k), outcome) :
           made' = [j \in Kind |-> IF j \in done THEN Made(j)
                                   ELSE IF j \in bad THEN content ELSE made[j]]
      /\ failed' = (failed \ done) \cup bad
      /\ damaged' = [memory |-> damaged.memory /\ ~expire,
                     file |-> CASE "save" \in done -> damaged.memory
                                [] "save" \in bad -> outcome # "unopened" \/ damaged.file
                                [] OTHER -> damaged.file]

---------------------------------------------------------------------------
(***************************************************************************)
(* The process.                                                            *)
(***************************************************************************)

\* The destructor saves the state.
Exit(outcome) ==
  /\ running /\ outcome # "crash" \* as short, and a Crash
  /\ changes < config.changes /\ changes' = changes + 1
  /\ running' = FALSE
  /\ faults' = faults + FaultsOf(outcome) /\ faults' <= config.faults
  /\ \E content \in Written("save", State, outcome) : made' = [made EXCEPT !["save"] = content]
  /\ failed' = IF outcome = "written" THEN failed \ {"save"} ELSE failed \cup {"save"}
  /\ damaged' = [damaged EXCEPT !.file =
                   IF outcome = "written" THEN damaged.memory
                   ELSE outcome = "short" \/ @]
  /\ UNCHANGED <<config, swarmVars, timerVars>>

Crash ==
  /\ running /\ faults < config.faults
  /\ faults' = faults + 1
  /\ running' = FALSE
  /\ UNCHANGED <<config, swarmVars, timerVars, fileVars, changes>>

FirstTimes == [k \in Kind |-> IF k = "cache" THEN 0 ELSE Interval[k]]

\* Mutant: peers that were loaded have just been heard of.
TimesLoadedNow(swarms) ==
  [h \in Hash |-> [p \in Peer |-> IF swarms[h] # NoSwarm /\ swarms[h][p] # Gone
                                  THEN 1 ELSE Never]]

\* A peer that was loaded has not been heard of.
TimesLoaded(swarms) ==
  [h \in Hash |-> [p \in Peer |-> IF swarms[h] # NoSwarm /\ swarms[h][p] # Gone
                                  THEN 0 ELSE Never]]

\* The constructor; GetTime counts from the start of the process.
Start ==
  /\ ~running
  /\ running' = TRUE
  /\ UNCHANGED <<config, allowed, tags, comments, changes, faults>>
  /\ peers' = WithDead(made["save"].peers, allowed)
  /\ completed' = made["save"].completed
  /\ times' = TimesLoaded(made["save"].peers)
  /\ now' = 0 /\ updated' = 0 /\ prevTime' = 1 /\ expireNext' = TimeOut
  /\ next' = FirstTimes
  /\ made' = [k \in Kind |-> CASE k = "cache" -> <<>> [] k = "rss" -> Product(k)'
                               [] OTHER -> made[k]]
  /\ failed' = failed \ {"cache", "rss"}
  /\ damaged' = [damaged EXCEPT !.memory = damaged.file]

---------------------------------------------------------------------------
(***************************************************************************)
(* Readers, and what the history variables record.                         *)
(***************************************************************************)

NotReading == [view |-> "none"]

Reading(view, page, seen, owed, moved) ==
  LET list == Listed(Rows, view)
  IN  [view |-> view, page |-> page, moved |-> moved,
       read |-> seen \cup Range(PageOf(list, page, view.perPage)),
       owed |-> owed,
       more |-> Following(Len(list), page, view.perPage) # {}]

OpenIndex(view) ==
  /\ running /\ config.reading
  /\ reader' = Reading(view, 0, {}, Range(Listed(Rows, view)), FALSE)
  /\ UNCHANGED <<config, running, swarmVars, timerVars, fileVars, boundVars>>

NextPage ==
  /\ running /\ reader # NotReading /\ reader.more
  /\ reader' = Reading(reader.view, reader.page + 1, reader.read, reader.owed, reader.moved)
  /\ UNCHANGED <<config, running, swarmVars, timerVars, fileVars, boundVars>>

\* The first n rows of a list, or as many as it has, are in the other one too,
\* and no row from behind them has come before one of them.
InFront(list, other, n) ==
  \E place \in Injection({i \in DOMAIN list : i <= n}, DOMAIN other) :
    \A i \in DOMAIN place :
      /\ other[place[i]] = list[i]
      /\ \A k \in DOMAIN list, m \in DOMAIN other :
           n < k /\ other[m] = list[k] => place[i] < m

\* Rows moved forward across the end of the reader's page; what is gone is owed
\* to nobody.
WatchReader ==
  LET before == Listed(Rows, reader.view)
      after == Listed(Rows', reader.view)
      passed == (reader.page + 1) * reader.view.perPage
  IN  reader' = IF ~running' \/ reader = NotReading THEN NotReading
                ELSE [reader EXCEPT !.moved = @ \/ ~InFront(before, after, passed),
                                    !.owed = @ \cap Range(after)]

WatchProducts ==
  stale' = [k \in Kind |-> IF made'[k] = Product(k)' THEN Never
                           ELSE IF stale[k] = Never \/ made'[k] = Product(k) \/ ~running
                           THEN now' ELSE stale[k]]

---------------------------------------------------------------------------

Init ==
  /\ config \in Configs
  /\ allowed = config.allowed
  /\ peers = WithDead(NoState.peers, config.allowed) /\ completed = NoState.completed
  /\ times = TimesLoaded(NoState.peers) /\ tags = Tags /\ comments = Comments
  /\ running = TRUE
  /\ now = 0 /\ updated = 0 /\ prevTime = 1 /\ expireNext = TimeOut
  /\ next = FirstTimes
  /\ made = [k \in Kind |-> CASE k = "save" -> NoState [] k = "rss" -> Product(k)
                              [] OTHER -> <<>>]
  /\ stale = [k \in Kind |-> IF made[k] = Product(k) THEN Never ELSE 0]
  /\ failed = {} /\ damaged = [memory |-> FALSE, file |-> FALSE]
  /\ reader = NotReading
  /\ changes = 0 /\ faults = 0

Request ==
  \/ \E h \in Hash, p \in Peer, left \in Left, event \in {"none", "completed"} :
       Announce(h, p, left, event)
  \/ \E h \in Hash, p \in Peer : Stop(h, p)
  \/ \E h \in Hash : DeleteTorrent(h)
  \/ \E files \in SUBSET Hash : Scan(files)
  \/ \E h \in Hash, entry \in Edits : EditTag(h, entry) \/ Upload(h, entry)
  \/ \E h \in Hash : \E count \in {comments[h] + 1, comments[h] - 1, 0} : Discuss(h, count)

Process ==
  \/ Tick
  \/ \E k \in Kind, outcome \in Outcome : Update(k, outcome)
  \/ \E outcome \in Outcome : Exit(outcome)
  \/ Crash
  \/ Start

Turn == (\E view \in Views : OpenIndex(view)) \/ NextPage

Next ==
  \/ (Request \/ Process) /\ WatchReader /\ WatchProducts
  \/ Turn /\ UNCHANGED stale

Spec == Init /\ [][Next]_vars

---------------------------------------------------------------------------
(***************************************************************************)
(* Properties.                                                             *)
(***************************************************************************)

\* Every file, and the cache the announce replies count from, is brought up
\* to date within its interval and the time from one Update to the next,
\* whatever falls due together with it; only one whose last write failed
\* waits for its turn once more.
UpToDate ==
  running => \A k \in Kind \ failed :
               stale[k] # Never => now - stale[k] <= Interval[k] + MaxLag

\* The pages that count the peers of a torrent in their different ways agree:
\* what a cut state file leaves of an entry, which they would count
\* differently, is gone after the first pass of expireDownloaders.
CountsAgree ==
  running /\ ~damaged.memory =>
    /\ \A h \in Known :
         LET counts == Scraped({h})[h]
         IN  /\ XMLCounts(h) = counts
             /\ StatsCounts(h) = [complete |-> Shortened(counts.complete),
                                  incomplete |-> Shortened(counts.incomplete)]
    /\ LET all == Scraped({})
       IN  PeerCount = MapThenSumSet(LAMBDA h : all[h].complete + all[h].incomplete,
                                     DOMAIN all)

\* Whoever turns the pages of the index to the end has seen every torrent that
\* was in the list at the beginning and in it all the while, unless the rows up
\* to the end of the page they were on moved on meanwhile: one of those went,
\* which may be one that had come in since, or a row from behind came before
\* one of them.  Torrents that come in hide none as long as they stay, and
\* whatever happens behind the reader's page hides none.
NothingMissed ==
  reader # NotReading /\ ~reader.more /\ ~reader.moved => reader.owed \subseteq reader.read

\* The links of a page of the index lead to other pages that have something on
\* them, but for the one to the last page, which leads one too far when the last
\* page is full.
LinksLead ==
  reader # NotReading =>
    LET list == Listed(Rows, reader.view)
        found == Len(list)
        per == reader.view.perPage
    IN  \A n \in 0..found : n * per < found /\ per > 0 =>
          /\ \A to \in Links(found, n, per) : to # n /\ PageOf(list, to, per) # <<>>
          /\ \A to \in LastPage(found, n, per) :
               to # n /\ (PageOf(list, to, per) = <<>> <=> found % per = 0)
=============================================================================
