# CBTT: a formal model of the tracker

TLA+ specifications of CBTT, a BitTorrent tracker in C++ (a descendant of
BNBT), with the TLC configurations that check them on small instances and
TLAPS proofs of what holds for every instance. Paths are relative to the root
of the repository's sources; `x.cpp:12` is line 12 of `src/x.cpp`.

## 1. The system

CBTT is one process. Its threads are

- the *main thread* (`bnbtmain`, bnbt.cpp): calls `CServer::Update` over and
  over, and with it every request handler and every timer of the tracker;
- a *worker thread* per HTTP connection while it receives or sends (client.cpp);
- the *link threads*: one that connects to a primary tracker, or, on a primary,
  one per connected secondary (link.cpp);
- signal handlers, which set `m_bKill` (bnbt.cpp:80).

### Components

| component | state it keeps | operations | talks to |
|---|---|---|---|
| **Announce core** (tracker.cpp, tracker_announce.cpp) | swarms `m_pDFile`, times `m_pTimeDicti`, peers per IP `m_pIPs`, downloads `m_pCompleted`, peer cache `m_pCached`, expiry clock, queue `m_vecQueued` | announce over HTTP, announce from the link, expiry, recount, torrent deletion | called by the main thread; link threads append to the queue under a mutex; copies every announce to the link |
| **Connections** (server.cpp, client.cpp) | pool `m_vecClients`, per client `m_iState`, buffers, what is left of its timeout, keep-alive | accept, receive, process, send, destroy, shut down | main thread and workers share `m_iState` without a lock |
| **Tracker link** (link.cpp) | sockets, receive buffers, queue, handshake flags | handshake, receive, parse, relay, queue | calls `QueueAnnounce`; used by the announce handler; created by the main thread or an administrator |
| **Allowed torrents** (tracker.cpp:1315, tracker_upload.cpp, tracker_index.cpp:80) | `m_pAllowed`, the directory | scan, upload, delete | the scan calls `gpServer->Update(false)`, which runs handlers and the tracker's timers in the middle of it |
| **State on disk** (tracker.cpp:523-811) | the dstate, users, comments and tags files | save on a timer, on changes and at exit; load at start | written in place, decoded leniently |
| **Accounts** (tracker_users.cpp, tracker_signup.cpp, tracker.cpp:1876) | `m_pUsers` | add, edit, delete, signup, access check | every page asks for the access of the request |
| **Comments and tags** (tracker_comments.cpp, tracker_upload.cpp, tracker_login.cpp, tracker_stats.cpp:79) | `m_pComments`, `m_pTags` | post, show, delete; upload, edit, delete a torrent | access from accounts; uploads and deletions also change `m_pAllowed` and `m_pDFile` |
| **Abuse detection** (tracker_announce.cpp:358, tracker.cpp:2107) | `m_pAbuse` | count, warn, ban | part of an announce; off by default |
| **Fast cache, scrape, statistics** (tracker.cpp:2279 and 2602, tracker_scrape.cpp, tracker_stats.cpp) | `m_pFastCache`, the scrape, XML and RSS files, the timers of `Update` | refresh on a timer, answer | copies the swarms |
| **Index and feed** (tracker_index.cpp, tracker.cpp:1026, sort.cpp) | none; the reader's page number is in the link | filter, sort, page, link | reads swarms, downloads, tags, comments |
| **Bencode** (bencode.cpp, atom.cpp) | none | encode, decode (leniently) | state files, torrents, link messages |
| **Logging** (util.cpp) | files, counters, `gmtxOutput` | error and access log, rotation | every thread |
| **Link lifetime and process shutdown** (bnbt.cpp, tracker_admin.cpp:104) | `gpServer`, `gpLink`, `gpLinkServer` | relink, kill, exit | main and link threads |
| web pages, configuration, digests, MySQL, Windows service | | formatting, settings, vendored or optional code | not modelled, see section 7 |

### What is hard in it

*Sharing without locks.* A client object is used by the main thread and by a
worker in turns; `m_iState` says whose turn it is. The main thread destroys
clients, and at shutdown it does so after waiting a limited time.

*Re-entrancy.* `Update` calls the tracker, whose scan of the allowed directory
calls `Update`.

*Derived state.* Times, counts per IP and the peer cache copy parts of the
swarms and are updated by different code paths, some of which forget one.

*Two ways in.* An announce comes through the HTTP handler, which checks the key
and answers, or through the link, which does neither.

*Clocks.* Expiry compares times with the time of the expiry before; timeouts
of a connection are shared by all its requests; `~CServer` gives up after 60
seconds.

*Distributed operation.* Announces are relayed between trackers with a hand
written framing and a handshake; each tracker applies them in the order in which
they come to it, and checks keys of its own.

*Crashes.* Files are truncated and written in place, nobody looks at what a write
returns, and the decoder takes what it gets: a restart can meet the beginning of
a table, with the last entry cut anywhere.

*Stale pages.* Comments are deleted, and pages of the index are turned, by numbers
that were computed when an earlier page was made.

The hazards, each at its line and with the properties about it, are listed
in `PROJECT.json`. Properties that make each component correct:

| component | properties |
|---|---|
| announce core | a peer leaves only by its own stop, by silence or with its torrent; a silent peer does leave; only the holder of its key moves it; short replies are complete; the cache is bounded; counts per address are off only where a peer has moved, was stopped from elsewhere or was deleted |
| connections | one owner per client at any time; no use after free; the pool is bounded; requests are processed; workers end; the server exits |
| tracker link | the handshake completes or fails, but for one stall; every announce reaches every other tracker at most once, in order and unchanged, and none that has no password; none returns; the list of links holds no deleted one |
| allowed torrents | the table is about the directory, but for what changed during a scan, and comes to be again; a deletion takes the torrent's own file |
| state on disk | every change is in the file before its answer, unless the write failed; what is cut never turns into the rights, the password or the comment of another |
| accounts | who logs in does so with the password and the rights given last, or with what a cut has left of the digest; administrators lose their access only by what one of them does, by the first sign-up or by a damaged file |
| comments, tags | the number on a moderator's page is that of the comment beside it; an uploader keeps the torrent |
| fast cache, statistics | everything is made again in time; the pages that count peers agree |
| index | who turns the pages to the end misses nothing; links lead to pages that exist |
| shutdown (not modelled) | no thread uses the server or the link after it is deleted |
| logging (not modelled) | no thread waits for a mutex it holds |

## 2. The modules

| module | what it is |
|---|---|
| `Tracker` | the announce core |
| `MCTracker`, `MCTracker*.cfg` | its small instances |
| `TrackerProofs` | its theorems |
| `Ownership` | what the pool and its workers promise each other: an abstract specification |
| `Server` | connections, nested updates and shutdown; implements `Ownership` |
| `MCServer`, `MCServer*.cfg` | its small instances |
| `ServerProofs` | its theorems |
| `Channel` | what a link promises: an abstract channel that may lose announces and does nothing worse |
| `Link` | the tracker link: both ends of every connection, relaying, accepting; implements `Channel` |
| `MCLink`, `MCLink*.cfg` | its small instances |
| `LinkProofs` | its theorems |
| `Swarms` | linked trackers that apply the announces of one peer: `Channel` composed with the core of `Tracker` |
| `MCSwarms`, `MCSwarms.cfg` | its small instance |
| `SwarmsProofs` | its theorems |
| `Allowed` | allowed torrents: the scan with the requests it lets in, upload, deletion |
| `MCAllowed`, `MCAllowed*.cfg` | its small instances |
| `AllowedProofs` | its theorems |
| `Files` | what a save may leave of a file |
| `Bencode` | the codec: what is decoded from a text, whole or cut |
| `Accounts` | users, logins, rights |
| `Notes` | comments, tags and uploaders; extends `Accounts` |
| `MCNotes`, `MCNotes.cfg` | a small instance of both; its cuts are computed with `Bencode` |
| `NotesProofs` | their theorems |
| `Listing` | the index page and the feed: filters, orders, pages, links |
| `Stats` | the state file, the fast cache and the other files `Update` makes, the pages that count peers, readers of the index; extends `Listing` |
| `MCStats`, `MCStats.cfg` | a small instance of both |
| `StatsProofs` | their theorems |
| `Induction` | induction over sets, sums over finite sets, for `TrackerProofs`, `StatsProofs` and `NotesProofs` |

Definitions whose comment begins with "Mutant" are plausible bugs in the
definition that follows them. No specification uses them; replacing the original
by the mutant makes a run fail, which shows that the run can fail.

### Tracker

All handlers run on the main thread, so a handler is one step. The exception is
the loop of `Update` over the queued announces (tracker.cpp:2701): link threads
go on queueing while it runs, so it takes a step per announce (`ApplyQueued`),
and no main-thread action is enabled before its batch is empty (`MainIdle`).

| code | model |
|---|---|
| `m_pDFile` | `hashes` (which torrents have an entry), `dfile` (their peers, or `NoPeer`) |
| `m_pTimeDicti` | `times`, `NoTime` if absent |
| `m_pIPs` | `ips`, 0 if absent |
| `m_pCompleted` | `completed` |
| `m_pCached` | `cached`, a bag of entries per torrent |
| `m_pAllowed` | `allowed`; `AllowedDir` says whether it exists |
| `m_iPrevTime`, `m_iDownloaderTimeOutNext` | `prevTime`, `timeOutNext` |
| `m_vecQueued`, `vecTemp` | `queued`, `batch` |
| `GetTime()`, seconds since the start | `now` |
| the response to an announce | `reply` |

`heard` is a history variable: when an announce for a peer was last handled.
The amounts up- and downloaded do not influence any decision and are left out;
of the amount left only zero or not matters.

`CAtomList::Randomize` shuffles the cache after every top-up and a reply is taken
from its front, so a reply can be any sub-bag of the right size (`Fronts`).
A restart is `Init`: the times of restored peers are 0 and `m_iPrevTime` is 1, so
that the first expiry removes the ones that have not announced.

`Tick` advances the clock by a second, but not past `timeOutNext + MaxLag`:
`MaxLag` is how late the main loop may call `Update`. It calls it ten times a
second when idle, so `MaxLag` is as long as the longest series of handlers.
The theorems hold for every value.

Other timers of `Update` (saving, refreshing, dumping) do not touch this state.
A scan of the allowed directory takes effect when it ends, by replacing
`m_pAllowed`; that is `ParseTorrents`, with any result. Requests handled in the
middle of a scan see the old table, as in the model.

### Server

The main thread's position is `at`:
`listen -> accept -> process -> tracker -> return` and back to `listen`, or, if
killed, `reap -> sleep -> wake` round and round to `exit`. A visit to one client
is one step, so workers interleave with the loops over the pool.

| code | model |
|---|---|
| `m_vecClients` | `pool`, a set; `todo`, the part a loop has not visited, in any order |
| `m_iState` | `state`; PROCESSING exists only within the step `Process` |
| the detached threads | `thread`: what a client's worker runs, if it has one |
| `m_tvTimeOut` | `left` |
| `m_strReceiveBuf`, `strSendBuf` | `buf`, a number of buffers |
| `m_bKeepAlive`, `m_bKill` | `keepAlive`, `kill` |
| `GetTime() - iStart` in `~CServer` | `waited` |
| `parseTorrents` in progress | `parsing`: the calls of `Update(false)` it has yet to make |

Storing `m_iState` is the last thing a worker does with its client object, so it
stores and ends in one step; reading `m_iState` in a chain of comparisons gives
the same branch as reading it once at some moment of the chain, since a worker
only leaves RECEIVING and SENDING.

`SelectConsumes` says whether `select` writes the time not slept back to its
argument, as Linux does. `m_tvTimeOut` is a member that is never reset, so on
Linux all waiting of a connection together is limited by `socket_timeout`, over
all its requests. Elsewhere the timeout starts again with every call.

Time passes only while threads wait: a thread whose timeout has run out acts
before the next second. That is an assumption, which the slack between
`socket_timeout` (15 by default) and the wait of `~CServer` (60) makes safe.

### Ownership

A client belongs to nobody, a worker or the main thread; workers return it, the
main thread gives it away again or destroys it while it is its own. The
refinement mapping of `Server` is `owner`: nobody outside the pool, a worker while
there is one, the main thread otherwise.

### Link

`CLink` (at a secondary) and `CLinkClient` (at the primary) are written separately in
link.cpp, but their `Send`, `Receive`, `Parse` and `Queue` are the same code; the model has
them once, for an end `e` of a connection `c`. Each end has its thread, whose position is
`pc[c][e]`. Between two steps of a thread any other thread may run; a step contains at most
one system call or one critical section of a mutex.

| code | model |
|---|---|
| the object, and where its thread is in `Go` | `pc` |
| `m_bKill` | `kill` |
| `m_vecQueued`, `vecTemp` | `queue`, `batch` |
| `m_strReceiveBuf`, and the bytes under way to the socket | `buf`, `wire` |
| `m_bActive` | `active` |
| `CLinkServer::m_vecLinks` | `listed` |
| `pLinkClient` between `new` and `push_back` (link.cpp:1038-1059) | `main` |
| `lmReceive` between its receipt and `gpLinkServer->Queue` | `relay` |
| announces queued for an end, and passed to `QueueAnnounce` (history) | `put`, `got` |

*Framing.* A message `len|type|payload` is two tokens, a header and a payload, or one if
it has no payload. `Parse` (link.cpp:409) sets the type as soon as it sees the second `|`, and
takes the message off the buffer only if its payload is complete. So a header alone is
returned as a message without payload, again and again, and what follows a header whose
payload was never sent is swallowed as its payload: then the stream is out of step, and
`Parse` kills the link or goes on with some later byte that looks like a header; the model
allows each. A header cut before its second `|` is no message and is left alone,
which is the same as not having received it, and is not modelled separately.

*Handshake.* `Await` is a turn of the loop of `Receive(true)`, which parses only after it
has received something. `Stalled` is the state in which that goes wrong: the secondary
received VERSION and INFO in one piece, holds INFO in its buffer, and waits.

*Ends.* `StartLink` makes a new `CLink` only when the last one is gone; a new connection
is a new member of `Conn`. A `CLinkClient` is deleted by its own thread if it finds itself
in the list (link.cpp:875); if it is faster than the main thread's `push_back`, it
stays listed for ever, and so it does if its thread could not be created (`leaked`).
A closed connection that is not reset makes `recv` return 0: the thread runs on without
doing anything, which the model shows as an end that takes no more steps.

*Announces* are told apart by the tracker that handled them over HTTP. That a secondary
and a primary handle the same peer is the business of `Swarms`.

### Allowed

| code | model |
|---|---|
| `m_pAllowed`, and `pAllowed` of a running `parseTorrents` | `allowed`, `building`: the file name in the entry of a hash |
| the allowed directory | `disk`: a torrent's hash, `Broken` or `NoFile` |
| what `readdir` has yet to return | `unread` |
| entries of `m_pDFile` | `swarms` |
| `parse_on_upload`, `keep_dead`, `delete_invalid` | `config`, any at the start, never changed |

`parseTorrents` (tracker.cpp:1315) calls `gpServer->Update(false)` before it looks at an entry. `.` and
`..` are entries too, so requests may come before the first file and after the last, and
the model lets every request run between any two steps of the scan. It does not nest, because `Update`
moves `m_iParseAllowedNext` 9999 seconds ahead; a scan that takes longer is outside the model.
A file that appears while the directory is read may be returned or not. A file that disappears between
`readdir` and its decoding is skipped like one not returned.

An entry is its file name; the rest of it is shown to users only. `Delete` is the deletion of the
index page and of the login page, which differ in who may use them (see `Notes`). `stale` and
`newStale` are history: what was uploaded, deleted, changed by hand or could not be opened since the scan
behind the table, and the last scan, began. `Server` models the same nested calls from the side of
the pool, and `Tracker` takes a scan's result as given.

### Channel

Every direction of every connection is a channel: `Put` appends, `Get` delivers something
that no delivered announce was queued after. `Link` implements it (`Ch`) with `put` and `got` as
they are; `Swarms` uses it in its place.

### Swarms

A primary tracker, secondaries, and one peer of one torrent. Of `Tracker` it has what becomes of
the peer: `Applied` is the part of `CTracker::Announce` that looks at the key, `HttpAnnounce` the handler
with its check of the key (tracker_announce.cpp:162), `ApplyQueued` the end of `Update`, `Expire` two
successive expiries. Key support is on, as it is by default.

| code | model |
|---|---|
| the peer's entry in `m_pDFile` of a tracker | `entry` |
| its time, compared with `m_iPrevTime` | `old`: the trackers that had an expiry since they heard the peer |
| `m_vecQueued` | `queued` |
| `lmReceive` of a `CLinkClient` until it is passed on (link.cpp:668) | `relaying` |
| the links | `put`, `got` of `Channel` |

A secondary reads the key of an announce, the primary does not (`ReceiveAtPrimary`, link.cpp:639-655): its
entries for peers that came to a secondary first have an empty key. `said`, `steady` and `expired` are
history: what was announced last and where; whether the peer stays with one tracker and one
key; who has expired it since. Links are up for good here, since a broken link is a channel that
delivers nothing more for a while; the loss of announces is in the channels.

### Files, Accounts and Notes

A table is saved whole, right after it was changed, in one function per table. `FileAfter` says what
the file holds after the outcomes a save may have (`Outcome`): all of it; what was there before, if
`fopen` fails, which is only logged; the beginning, if the disk is full or the process ends. A
file is modelled as what the decoder makes of it, and `CutTable` says that this is the items before the
cut and what is left of the item at the cut.

*What is left of an item* is not assumed but computed. `Bencode` is the codec, with the mutual recursion of
the decoders as one function of the place in the text where a value, or the rest of a list or dictionary, begins (a
function can be proved about, a RECURSIVE operator cannot).
`MCNotes` decodes every prefix of the text of a users' entry with it (`CutByCodec`): the decoder
computes the length of what it has decoded from the value (`EncodedLength`), so that a string the file's end
cuts short makes it go on inside of it. `CutsOfATable`, evaluated by TLC, compares `CutTable` with the
codec's work on the text of a whole table. That whole files are read back, and that a cut leaves the items before
it alone, is proved for every text (`TableReadBack`, `CutTableReadBack`). `CutAssumption` is what the other proofs need
of the item at the cut: whatever
is left of an entry has the entry's values where it has any, or `Garbled` for a digest which is cut. No password has such a
digest, but a cookie may hold it: `CClient::Process` takes the cookie as the digest without a look (client.cpp:394), and
`checkUser` compares strings (tracker.cpp:1900), so `Credential` has it too. An entry without `access` lets nobody in.

| code | model |
|---|---|
| `m_pUsers`, the users file | `users`, `usersFile` |
| an item of it | `md5`, `access` (a set of rights), `mail` (is there), `created` (there, too short for the users' page, or missing) |
| the login and MD5 of a request (`CClient::Process`) | `Requester`: a pair that matches, of a login and a password or what was left of a digest, or `Guest` |
| `m_pComments`, `m_pTags`, their files | `comments`, `tags`, ... |
| the keys of `m_pAllowed` and `m_pDFile` | `allowed`, `known` |
| the process | `running` |

`given` is history: what each login was given last by a sign-up or an administrator; `lostUsers` and its like
say that the last save failed, `oldUsers` that one could not be opened, so that an older table may come back,
`cutUsers` that one ended early;
`seen` is the page of comments a moderator looks at, `shifted` that a comment was removed since.

Handlers run on the main thread, one at a time: each is one step, its save included. A crash is a step of
its own, or the outcome of a save. A login whose entry lacks "created" ends the process
(`CrashingLogin`, tracker.cpp:1908), and so does the users' page with a date of less than
five characters (`CrashingUsersPage`, tracker_users.cpp:603). `Exit` saves comments and tags, as the destructor does, and
not the users.

`Upload` is refused if `m_pDFile` has the torrent; it writes a tag even if the uploader is nobody
(tracker.cpp:1854), without taking away an uploader who was there before (:1859).

### Listing and Stats

`Listing` is a set of operators: `Listed` filters and orders rows as the index does, `PageOf` cuts a page
out of them, `Links` and its parts are the navigation under it, `Feed` the RSS.

`Comparison` is what the functions of sort.cpp return: for a column of type `int` (`Counted`) the difference of the
two, wrapped to the width of an `int` (`Wrapped`, with `MaxInt` for the largest), for texts and 64 bit numbers
which one is less; the descending ones turn their arguments round. The sort itself is external, `qsort` of
glibc, which is stable for tables of this size (a merge sort): what compares as less comes first, and rows that compare
equal stay in the order before, that of their keys (`Earlier`). `Ordered` puts each torrent after as many others as
are earlier in this sense. That this is a list of all torrents *sorted by their values* is not part of it: a
difference that wrapped would put two rows the wrong way round, and a place might stay empty (`OrderedSorts`).

`Feed` compares the tag asked for with those of the torrents after their markup was escaped, as `saveRSS`
does (tracker.cpp:1099, 1122); `RemoveHTML`, a constant function, says which tag becomes which.

`Stats` has what `CTracker::Update` makes. The file or cache of a kind is `made[k]`, `Product(k)` what would be made of the
tables now; `Due` says whose time has come, and an `Update` makes all those together, in the order of the code
(`Rank`): the scrape file and the state file come before the expiry, the XML file, the fast cache and the feed after it.
One call of `Update` is one step, since nothing else runs on the main thread meanwhile (the scan,
which does let requests in, is in `Allowed` and has no influence on the timers).
The state file is what `Start` reads, as far as a cut has left it: `CutState`, `CutSwarm` and `CutPeer`
follow the decoder. `TimesLoaded` gives restored peers the time 0.

| code | model |
|---|---|
| `m_pDFile`, `m_pCompleted`, `m_pTimeDicti` | `peers`, `completed`, `times` |
| `m_pAllowed`, and what `m_pTags` and `m_pComments` have of a torrent | `allowed`, `File`; `tags`, `comments` |
| `m_pState` written by `saveDFile` | `State` |
| `m_iSaveDFileNext` and the other times | `next`, `expireNext` |
| a request for page n of the index | `reader`, what the same reader has read and is owed |

`Row` reads the tag and the name of a torrent from `m_pTags` and counts its comments whether it is allowed or not
(tracker_index.cpp:294, 321), and takes from the torrent file what that has; size and number of files
of a torrent that is not allowed are 0. `Upload`, `EditTag` and `Discuss` change tags, names and comments; they are saved by
these handlers, and a start reads them again (failures of that are in `Notes`). How the float of
tracker_index.cpp:359 becomes a whole percentage is a constant operator, `Percent`. `Update` makes
the feed of all torrents (mode 0); the feeds of single tags are `Feed` with another argument, made of the same table in the same step.

`stale` is history: since when a product differs from what would be made. `damaged` says whether memory, or the
file, may hold entries a cut left behind. The reader's `owed` and `moved` are history too: the torrents
that were in the list when the first page was read and have been in it ever since, and whether rows moved forward across the
end of the page that is read. A change leaves `moved` alone if all rows up to that end are still there and nothing from behind
has come before them (`InFront`); all the rest of the list may change at will, and newcomers may come in anywhere.

## 3. The runs

| run | instance | what it shows |
|---|---|---|
| `expiry` | 1 torrent, 2 peers, 2 addresses, a stop from a link, timeout 1, lag 1, 6 seconds | `TimedPeers`, `NoLinger`, `RemovalJustified`; `CountsExact`, no negative count |
| `reply` | 3 peers at 3 addresses, replies of 1 or 2 | `ShortReplyIsComplete`, `CacheBounded` |
| `swarms` | a primary and 2 secondaries; 3 announces of one client and no expiry, or 2 announces of two clients with one peer id and any expiries | `Agreed`, `HolderOnly`, `Forgotten` |
| `pool` | 3 clients, 2 listeners, limit 1, a nested update, timeout 2, wait 2, keep-alive | `PoolBounded`, `OneOwner`, `NoUseAfterFree`, types; `Server` implements `Ownership` |
| `live` | 2 clients, 2 listeners, limit 1 | `WorkersReturn`, `RequestsSettled`, `ShutsDown` |
| `handshake` | 2 secondaries, one with a wrong password, 1 announce, nothing breaks, messages arrive whole | `HandshakeSettles`, `Delivered`, `HandshakeKept`, `OnlyWithPassword` |
| `fragments` | 2 secondaries, 2 announces, messages arrive in pieces | `Link` implements `Channel` (`IsChannel`), `NoEcho`, types |
| `reconnect` | 1 secondary, 2 connections that may break at any step, 1 announce | `ListedExist`, `IsChannel` |
| `scan` | 2 files, 2 torrents, every configuration, 4 changes | `OnlyChangedStale`, `KeepDeadShown`, `WithdrawnForReason`, `Settles` |
| `deletion` | 2 files, 2 torrents | violated: see Findings |
| `notes` | 2 users, 2 passwords, 3 sets of rights, 1 torrent, 3 changes, 1 failure | `LoginAsGiven`, `EverythingSaved`, `PageHolds`, `LockedOut`, `UploaderKept` |
| `pages` | 1 peer and 1 torrent for 5 seconds, 2 changes, 1 failure; or 3 torrents, 3 changes (of peers, files, tags, names and comments) and a reader of 4 views | `UpToDate`, `CountsAgree`, `NothingMissed`, `LinksLead` |

*Bounds.* Swarms of two peers are enough for expiry, since peers do not influence
each other's times; six seconds see at least two expiries after the start, as many as `NoLinger` spans.
The cache needs three peers: one that
caches, one that is cached and one that is answered. A limit of one connection and
two listeners is the smallest pool that can overflow, three clients show that
it does so by one only. A wait of two seconds against a timeout of two is the tight
case of shutdown. `MaxQueued`, `MaxCompleted`, `MaxCounted`, `MaxTime`, `MaxSends` and
`MaxEntries` only keep the instances finite. For the link, two secondaries are one that
announces and one that is told; two announces can be swapped, repeated or swallow each other; two
connections of one secondary are a link and its successor. For `Allowed`, two files can
contain the same torrent or exchange names; four changes delete during a scan, upload under the freed
name, delete again and disturb the scan after that (`MaxChanges`). `MaxRelayed` bounds what
waits for a secondary when more is relayed to it: a header without payload is relayed on
every turn of the loop for as long as its payload is missing (`Room` is not in the code). `pool` and
`fragments` use `SYMMETRY`; they check no liveness.

For `Swarms`, three announces register, move and stop a peer, with all orders in which they can arrive at
three trackers; two, with expiries anywhere, are registered by two rivals at different trackers.
`Bounds` keeps the number of announces and when expiries may begin; both kinds of behaviours are in one run.
For `Notes`, three changes are a page, a change of the list and a deletion, or the rise and fall of an
administrator; one failed save is enough, since a failure is repaired by the next save or is what the
next start reads, and starts are not counted. In `Stats`, `config.time` of five seconds has every timer fall due
together and apart (intervals 1 and 2), and every expiry twice; `config.changes` counts announces, deletions, scans and
exits. Readers need no clock, and the two configurations are separate for that reason. Three torrents
with a page for each have a first, a middle and a last page, so that a torrent can move across the reader. The views
are by key and filtered by a tag, by name with two rows to a page, by progress, and by comments with all rows on
one page; tags, names and comments change for one torrent (`config.edits`), the one that can come in. `MaxInt` is 127,
more than any count here.

*Deadlock* is checked in every run of `Tracker`, `Server`, `Allowed`, `Notes` and `Stats`; `Server` ends in `Exited`. It
is not checked for `Swarms`, where a peer may say nothing more, nor for `Link`: connections are used up, a handshake may stall, and an end
whose peer has gone may wait for ever, all of which the code does.

*Fairness* (`FairSpec` of `Server`): the main thread runs; a worker whose `select` has
timed out runs; time passes. The last is strong fairness: between two seconds
there are only finitely many steps, even if a busy connection kept alive always
has one more. No fairness is assumed of peers, so a worker that waits for data
may wait as long as its timeout lets it.

`FairSpec` of `Swarms`: every tracker goes on applying what is queued and expiring (weak fairness of
`ApplyQueued` and `Expire`); both are done by `Update`, which the main loop calls for ever. Links promise
nothing: `Forgotten` holds also if no announce ever arrives. Its premise is that the peer is silent from some moment on.

`FairSpec` of `Allowed`: the scan gets on (weak fairness); it waits for nobody, and
it is *assumed* that `parse_allowed_interval` is set, so that there is always another. Its default is 0 (config.cpp:276,
tracker.cpp:80): the directory is then scanned at the start only (tracker.cpp:445, 2452), and nothing is claimed about it.

`FairSpec` of `Link`: every thread runs, the primary's main loop accepts who has connected and
lists who was accepted (weak fairness); an end that keeps receiving is
eventually given something that was sent to it (strong fairness of `Hears`, since its
receives also time out). Nothing is assumed about announces. `Delivered` and `HandshakeSettles` except
links that are over and the stall, which the run shows to be the only one.

## 4. The proofs

`tlapm` checks every step. All parameters are arbitrary within the named
assumptions (`FiniteAssumption` and so on); the bounds above are parameters too.

`TrackerProofs`

- `TypeCorrect`: the tables stay well typed. Counts per IP need the argument that a
  count that is not positive is deleted rather than decremented.
- `Inductive`: `IInv`, which is `TypeOK`, `TimedPeers` and `ExpiryClock`. `NoLinger` is
  not inductive: it does not say that the next expiry is near, nor that the last
  one compared with a recent time. `ExpiryClock` says that `timeOutNext` is one interval
  after `prevTime` (or one second less, at the start), that the clock is at most
  `MaxLag` past it, and that every registered peer was heard less than an
  interval and a lag before `prevTime`. At an expiry the last holds again because a
  peer that survives was heard since the old `prevTime`, by `TimedPeers`.
- `TimedPeersAlways`, `NoLingerAlways` follow from it.
- `RemovalJustifiedAlways`, `KeyHolderOnlyAlways` are about steps: `HandledAnnounce` sorts
  the steps that touch a swarm, `AnnounceTouches` says what an announce does to a
  peer, `ExpiryKeeps` what an expiry does.
- `CountsExactAlways`: the counts per address are sums of one for each registered peer; a new
  peer and a stop change the sum and the swarm by the same one, unless the address of the
  announce is not the one the peer is stored with, and then both are among the `drifted`.
- `CacheStaysBounded`: `CacheBounded` is inductive with the types, once the length of a list is known to be a sum over the
  entries there may be: a top-up adds at most one entry per registered peer other than the one that announces,
  and only if the list is shorter than the reply, which takes as much away again.
- `ShortRepliesAreComplete`: a short reply has taken the whole list (`WholePool`), which had been topped up for it.

`ServerProofs`

- `TypeCorrect`, with the limit on the receive buffer.
- `PoolBoundedAlways`, by way of `AcceptBounded`: the pool plus the listeners yet to be
  looked at stays within the bound.
- `NoUseAfterFreeAlways`, if `SelectConsumes` and `SocketTimeOut <= MaxWait`. The invariant
  `OwnInv` adds `OneOwner`, so that a client in a state the main thread destroys has no
  worker (`OneOwnerAlways`), and `WorkersRunOut`: while `~CServer` waits, the time waited and the time left to
  a worker add up to at most the timeout.
- `OwnershipImplemented`, under the same assumptions: the initial states map to
  initial states, every step to a step of `Ownership` or to a stutter.

`SwarmsProofs`, for any number of trackers, addresses and keys

- `HolderOnlyAlways`, by way of the types of what is under way (`TypeInv`) and two facts: `AppliedForeign`, an
  announce without the key of the entry leaves it alone, and `AnnounceHolder`, that this is so whoever
  applies it. The key of the entry may be the empty one of the primary.
- `TrackersAgree`, by way of `AgreedInv`, which follows the last announce of a peer that stays with one tracker. While it
  is under way (`Upstream`) nothing is said of the trackers behind it; what is under way from that peer ends with it
  (`LastWord`), wherever it has arrived the queue ends with it, and where the queue is empty the entry has it or an expiry has taken it
  (`Arrival`). No other channel carries anything about the peer (`Aside`), and all that is under way has one key (`SameKey`),
  so that nothing on the way is refused.

`LinkProofs`, for any number of secondaries, connections and announces, with breaks and pieces

- Lemmas about the code both ends share: `SendAdds` (what a send puts on the wire, also if it
  fails half way), `ParseTakes` and `ReceiveTakes` (what is parsed is about a token that was
  received, and what stays in the buffer is a part of it). They are stated for an arbitrary set
  of tokens, so that each theorem uses them with the set it is about.
- `TypeCorrect`. `TypeOK` needs that a thread in the sending loop has something to send.
- `ListedExistAlways`: `ListedExist` is not inductive, since `PushBack` does not look at the
  thread. `ListInv` adds that the link just accepted is not listed and so cannot have been deleted.
- `NoEchoAlways`: `OriginInv` follows an announce from the secondary's queue over the wire to
  `relay`, and says that no two links have an announce in common.
- `OnlyWithPasswordAlways`: `OutsideInv` says that a primary's thread without the right password
  is not in the loop, and that nothing on the way to the secondary is an announce.
- `LinkIsChannel`: every step is a `Put` or a `Get` of a channel, or leaves all of them alone. The refinement mapping is the
  identity on `put` and `got`; what has to be found is why whatever is handed over comes after everything that
  was handed over before. `ChannelInv` says so of all that is on the way: what has been got, and then the contents of
  buffer, wire, batch and queue in this order (`Flow`), is a part of what was put, in its order (`Within`), and
  nothing was put twice. A relayed announce is put on other connections, so the invariant also says that it
  gets there only after it was handed over here.
- `HandshakeAgreed`, if messages arrive whole. `HandshakeKept` is about a step of one end; `HandshakeInv` says what
  the other end has sent by then: what one end has not looked at yet, in buffer and wire, begins with what it still
  waits for (`Script`, `OnScript`), and is as much of it as the other end has said (`AllSaid`), unless that was killed.

`AllowedProofs`, for any files, torrents and configurations

- `Inductive`: `ScanInv`, which adds to `OnlyChangedStale` that the table being built is right about the
  files read so far (`BuiltFromRead`) and that only files which exist are still to be read. `ChangeKeeps` is
  the argument all uploads, deletions and changes by hand share: the tables stay true about what they do not touch.
- `OnlyChangedStaleAlways` follows; `WithdrawnForReasonAlways` follows from it for the state after a step.
- `KeepDeadShownAlways` needs the same of the table being built (`ShownInv`).

`NotesProofs`, for any number of users, passwords, torrents and failures

- `Inductive`: the invariant `Inv` has a part for each table. Of users: the file equals the table or a save
  has failed (`UsersSaved`), and `GivenInv`, which is stronger than `LoginAsGiven`: table *and file* are `Below`
  what was given, that is, wherever an entry has a digest that is a password's, or rights, they are the ones given. It is
  needed of the file because the file is the table of the next start, and of entries nobody can log in with
  because an administrator's edit completes them. `UncutInv` says that only a cut leaves what is no digest.
  `LoginAsGiven` follows, since a login needs both fields.
- What is assumed of a cut is `CutAssumption` alone; the cut of a table is reasoned about in `CutUsersParts`,
  `CutCommentsType` and `CutTagsType`.
- `PageHoldsAlways`: the comments on the page are the beginning of the table and, while no save has failed since, of
  the file, so that posts and restarts leave them alone.
- `EverythingSavedAlways` follows from `Inv` (for comments: if their file has a name); `LockedOutAlways` and `UploaderKeptAlways` are about steps: each kind of
  change is shown to be one of those the property lists, or to leave administrators and uploaders alone.

`NotesProofs` on the codec (`Bencode`), for any alphabet with the digits and marks, any keys, any values and any depth

- `LongReads`, `StringReads`, `ListReads`, `DictiReads`: what an encoder writes is read back by the decoder, with the
  length of what was written, *whatever the text has before and after it* (`Reads`). This is what the
  decoder relies on: it does not remember where a value ended but computes the length from the value (atom.cpp
  `EncodedLength`) and goes on there. The theorems compose: those on lists and dictionaries ask of the texts of their
  parts only that they are read back. `ReadBack` is the same of a text alone.
- `TableReadBack`: `getItem` finds in a decoded file each key's value, and nothing under other keys.
- `CutTableReadBack`: of a table that is cut, or goes on with anything, after some of its items, those items are
  what they were (`Kept`), with two exceptions it names: the decoder gives up all of it, which the models call
  `Discarded`, or what comes after names a key again, and then the later item is the one that stays. The second
  is not idle: a string that the end cuts short is decoded from its inside.

A number is read back because its value is a fold over its digits, of which the equation is proved first
(`ValuesStep`, `ValueOfDecimal`). `DecoderExists` shows that the recursion of the decoder ends, so that the function is what its
equation says (`DecoderEquation`): every call is about a place further on. Lists and dictionaries are read from the last
item to the first (`DictiLoop`, `LoopKeeps`), by the place where the text of each item begins (`FlattenParts`).
`DecoderTables` says that a dictionary has no key twice, whatever the text.

`StatsProofs`, for any number of torrents and peers, any intervals and any views

- `StaysUpToDate`. `UpToDate` is not inductive: `ClockInv` adds that no timer was overdue when `Update` was called last
  (`Timely`), and that what is out of date is due within its interval (`SoonMade`). It looks into nothing that is made: a
  change of the tables can only make a product stale now, whatever the product is.
- `PagesAgree`. `DamageInv` follows entries without "left" from a cut state file into memory and out of it: those
  in memory have the time 0 (`Unheard`), so that the first pass of `expireDownloaders` takes them. That the pages
  then agree is about sums over the torrents (`SumPlus`, `SumExtend`).
- `PagesMissNothing`. `ReaderInv` says of every torrent the reader is owed and has not seen yet that it is on a later page. It
  stays there (`StaysBehind`): the rows up to the reader's place are all in the new list and before it, so it has at least as many
  before it as they are; otherwise `moved` says so.
- `LinksLeadToPages`, from what a page shows (`PageShows`) and the arithmetic of the links (`LinksShow`).
- `OrderedSorts`, `EachOnOnePage`, `FeedIsNewest` are about the operators of `Listing`, for any table whose columns hold
  numbers, those of type `int` from 0 to `MaxInt` (`Fits`). `OrderedSorts`: whatever the column, the
  list has every torrent once, its *values* ascend or descend as was asked for, and equal ones are in the order of
  their keys. The difference of two such counts does not wrap (`NotWrapped`), so the comparison functions tell which
  value is less (`ComparisonTells`) and are an order (`EarlierOrders`), so that the number of others before it is
  a bijection from the rows to the places (`PlacesFilled`). Counts are sizes of tables; of `avgLeft` it is an assumption:
  tracker_index.cpp:359 converts a float to `int`, and what clients say is left may be any multiple of the size
  of the torrent. `EachOnOnePage`: the pages part the list. `FeedIsNewest`: the feed
  of a tag has the newest of the torrents whose tag reads like it when its markup is escaped, and as many of them as the limit
  allows; the feed of a tag that no tag reads like when escaped is empty.

`Induction` holds the lemmas these, `NotesProofs` and `TrackerProofs` use. The library's induction theorems take
an operator as a parameter, which the provers cannot instantiate; here induction is over a *set* of numbers
or of subsets (`SetInduction`, `SubsetInduction`), and `MapThenSumSet`, `SumFunctionOnSet` and the size of a bag are
reduced to one function on the subsets of a finite set (`SumIsFold`), which is then reasoned about by its
equation.

Only model-checked:

- What needs fairness: `WorkersReturn`, `RequestsSettled`, `ShutsDown`, `HandshakeSettles`, `Delivered`, `Settles`, `Forgotten`.
  The prover has no rules for ENABLED.
- What is left of the item a cut goes through: `CutAssumption` and `CutsOfATable`, which TLC evaluates with the codec,
  for every entry of the instance and every place of the cut. It depends on the very characters: there are digests
  whose inside reads like an item.
- The handshake when messages arrive in pieces: it is then not kept (a piece may be refused), which is why
  `HandshakeAgreed` assumes `Fragment = FALSE`.

All the other properties of the runs that pass are theorems.

## 5. Findings

- **A deletion takes another torrent's file** (`deletion`, tracker.cpp:1556). A torrent deleted while the
  directory is scanned is listed again when the scan ends. If its file name has been used for an upload
  since, deleting it again removes the upload.

The following were met while modelling. The models have the steps; no run is devoted to them.

- *A peer is told about itself* (tracker_announce.cpp:543 and 597). The check for oneself is made when
  the cache is topped up, for the peer that announces then. Entries left over are given to whoever announces next.
- *"Unique" is wrong between recounts* (tracker_info.cpp:94). An announce changes the
  ip of a known peer without touching `m_pIPs` (tracker.cpp:2163), and its stop decrements the count of the new one (:2270).
- *The primary turns a client away that a secondary has told it about* (link.cpp:639, tracker_announce.cpp:175): the
  entry has an empty key, the client sends its own. The client's stops reach the primary by way of the secondary only.
- *A users file that is cut inside of a digest* may leave an entry that has all other fields (`CutByCodec`). The password
  no longer opens it, but what is left of the digest does, as a cookie (client.cpp:394, tracker.cpp:1900): `LoginAsGiven`
  says so. An edit with a new password makes it whole.
- *Comments are in memory only* unless `bnbt_comments_file` is set, which by default it is not (config.cpp:243,
  tracker.cpp:761). `Notes` has it set.
- *A login ends the process* after the users file was cut within that user's entry (tracker.cpp:1908).
- *The link to the last page leads one too far* when the last page is full (tracker_index.cpp:1594); `LinksLead` says when.
- *A peer without "left"*, from a cut state file, is a leecher to the XML file (tracker.cpp:930), a seeder to the torrent's
  page (tracker_stats.cpp:415) and neither to the index, until it announces or expires (`CountsAgree`). An entry cut before
  "port" keeps being without one: an announce of a known peer does not set it (tracker.cpp:2163).
- *The feed of a tag with a character of HTML is empty* (tracker.cpp:1122): it is asked for as it is, and compared with tags
  whose markup is escaped. `FeedIsNewest` has this case.
- *A torrent that comes and goes hides another from a reader* of the index: it pushes the rows back, the reader reads
  one of them again, and when it goes the others move forward across the reader's place. `NothingMissed` excuses this
  (`moved`), as it does any other row that goes from the pages already read.
- *"Blank values mean no change"* (tracker_stats.cpp:110), yet a blank tag is stored (tracker.cpp:1854).

## 6. State of the plan

Modelled, in this order: `Tracker`, `Server` and `Ownership`, `Link` and `Channel`, `Allowed`, `Files`, `Bencode`,
`Accounts`, `Notes`, `Listing`, `Stats`, `Swarms`. Every safety property of the runs that pass is proved. What could be
proved next: what the fair runs check one step at a time, as invariants with a measure that falls (how far a
worker is from its return, an announce from its queue); for which contents of an entry the codec leaves of it what
`CutAssumption` says.

## 7. Not modelled

- `Link lifetime and process shutdown`: `gpServer`, `gpLink` and `gpLinkServer` are used by threads while others
  delete them. From such a use on the behaviour is undefined, and before it there is nothing but the pointer.
- Abuse detection (off by default): counts announces and refuses them, and touches none of the tables here.
- Numbers that are negative or too large for their type in a file: the codec is modelled over the natural numbers.
- Logging: one mutex and output. The self-deadlock of util.cpp:195 is a single path of one thread.
- The fields of a request over several requests of a connection (client.cpp:62); the second signal of
  `sigCatcher`, which ends the process at once (it is a `Crash` to `Notes` and `Stats`).
- HTML, byte totals, mail addresses, texts of comments, and search texts.
- config.cpp (its values are constants here), md5, sha1 and base64 (vendored), the MySQL build, the
  Windows service wrapper.
