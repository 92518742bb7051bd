------------------------------ MODULE Allowed ------------------------------
(***************************************************************************)
(* The allowed torrents: the table m_pAllowed, the directory it is read    *)
(* from, and what changes either: the scan CTracker::parseTorrents         *)
(* (tracker.cpp), uploads (tracker_upload.cpp) and deletions               *)
(* (tracker_index.cpp, tracker_login.cpp).                                 *)
(*                                                                         *)
(* The scan fills a table of its own and calls gpServer->Update(false)     *)
(* before each entry of the directory, "." and ".." included.  So every    *)
(* handler and timer may run between two entries, before the first and     *)
(* after the last; it sees m_pAllowed, the table of the scan before.       *)
(*                                                                         *)
(* bnbt_upload_dir is bnbt_allowed_dir here, and a torrent in memory is    *)
(* its info hash.  Whether a request has the access it needs is left open. *)
(***************************************************************************)
EXTENDS Integers, FiniteSets

CONSTANTS
  File,           \* file names with the extension .torrent
  Hash,           \* info hashes
  Broken,         \* content of a file from which no entry can be made
  NoFile,         \* content of a file that does not exist
  NoName,         \* file name of a hash without an entry
  MaxTorrents,    \* bnbt_max_torrents, 0 for no limit
  Configs,        \* the configurations the tracker may be started with
  Outside,        \* files are also put into and taken from the directory by hand
  OpenFails,      \* the scan may fail to open the directory or a file
  MaxChanges      \* bound: uploads, deletions, changes by hand, failures to open

ASSUME FileAssumption ==
  /\ NoName \notin File
  /\ NoFile \notin Hash
  /\ Broken \notin Hash \cup {NoFile}
ASSUME LimitAssumption == MaxTorrents \in Nat /\ MaxChanges \in Nat
ASSUME SwitchAssumption == {Outside, OpenFails} \subseteq BOOLEAN

\* The members read from bnbt_parse_on_upload, keep_dead, bnbt_delete_invalid.
ASSUME ConfigAssumption ==
  Configs \subseteq [parseOnUpload : BOOLEAN, keepDead : BOOLEAN, deleteInvalid : BOOLEAN]

VARIABLES
  config,    \* m_bParseOnUpload, m_bKeepDead, m_bDeleteInvalid
  disk,      \* the directory: what each file contains
  allowed,   \* m_pAllowed: the file name in the entry of a hash
  swarms,    \* hashes with an entry in m_pDFile
  scanning,  \* parseTorrents is on the stack
  unread,    \* files readdir has yet to return
  building,  \* pAllowed, the table parseTorrents fills
  stale,     \* history: hashes changed or missed since the scan behind allowed began
  newStale,  \* history: the same since the last scan began
  changes    \* changes so far, for the bound

historyVars == <<stale, newStale, changes>>
vars == <<config, disk, allowed, swarms, scanning, unread, building, historyVars>>

NoEntries == [h \in Hash |-> NoName]

Listed(table) == {h \in Hash : table[h] # NoName}

Torrents == {disk[f] : f \in File} \cap Hash

\* History: what is about to change about the torrents hs.
Changed(hs) ==
  /\ changes < MaxChanges
  /\ changes' = changes + 1
  /\ stale' = stale \cup hs
  /\ newStale' = newStale \cup hs

---------------------------------------------------------------------------
(***************************************************************************)
(* The directory.                                                          *)
(***************************************************************************)

\* A file made while the directory is read may or may not be returned.
MakeFile(f, content) ==
  /\ disk' = [disk EXCEPT ![f] = content]
  /\ unread' \in {unread} \cup (IF scanning THEN {unread \cup {f}} ELSE {})

\* A file that is gone when it is to be decoded is skipped, like one that is
\* not returned at all.
DeleteFile(f) ==
  /\ disk' = [disk EXCEPT ![f] = NoFile]
  /\ unread' = unread \ {f}

---------------------------------------------------------------------------
(***************************************************************************)
(* parseTorrents.                                                          *)
(***************************************************************************)

\* Mutant: the new table starts as a copy of the old one.
StartScanFromOld ==
  /\ ~scanning
  /\ scanning' = TRUE
  /\ unread' = {f \in File : disk[f] # NoFile}
  /\ building' = allowed
  /\ newStale' = {}
  /\ UNCHANGED <<config, disk, allowed, swarms, stale, changes>>

\* Update has set m_iParseAllowedNext far ahead, so scans do not nest.
StartScan ==
  /\ ~scanning
  /\ scanning' = TRUE
  /\ unread' = {f \in File : disk[f] # NoFile}
  /\ building' = NoEntries
  /\ newStale' = {}
  /\ UNCHANGED <<config, disk, allowed, swarms, stale, changes>>

\* The directory cannot be opened: the new table is empty, and is installed.
ScanFails ==
  /\ OpenFails /\ ~scanning
  /\ Changed(Hash)
  /\ allowed' = NoEntries
  /\ UNCHANGED <<config, disk, swarms, scanning, unread, building>>

\* Mutant: keep_dead is left to the announces.
ListDeadNever(h) == swarms' = swarms

\* With keep_dead a torrent has an entry in m_pDFile even without peers.
ListDead(h) == swarms' = IF config.keepDead THEN swarms \cup {h} ELSE swarms

ParseTorrent(f) ==
  /\ scanning /\ f \in unread
  /\ disk[f] \in Hash
  /\ unread' = unread \ {f}
  /\ building' = [building EXCEPT ![disk[f]] = f]
  /\ ListDead(disk[f])
  /\ UNCHANGED <<config, disk, allowed, scanning, historyVars>>

DropInvalid(f) ==
  /\ unread' = unread \ {f}
  /\ disk' = IF config.deleteInvalid THEN [disk EXCEPT ![f] = NoFile] ELSE disk

ParseInvalid(f) ==
  /\ scanning /\ f \in unread
  /\ disk[f] \notin Hash
  /\ DropInvalid(f)
  /\ UNCHANGED <<config, allowed, swarms, scanning, building, historyVars>>

\* A file that cannot be opened decodes like one that is invalid.
ParseUnopened(f) ==
  /\ OpenFails
  /\ scanning /\ f \in unread
  /\ disk[f] \in Hash
  /\ Changed({disk[f]})
  /\ DropInvalid(f)
  /\ UNCHANGED <<config, allowed, swarms, scanning, building>>

\* Mutant: the scan ends at the first file it has no use for.
EndScanEarly ==
  /\ scanning
  /\ unread = {} \/ \E f \in unread : disk[f] = Broken
  /\ scanning' = FALSE
  /\ unread' = {}
  /\ allowed' = building
  /\ building' = NoEntries
  /\ stale' = newStale
  /\ UNCHANGED <<config, disk, swarms, newStale, changes>>

EndScan ==
  /\ scanning
  /\ unread = {}
  /\ scanning' = FALSE
  /\ allowed' = building
  /\ building' = NoEntries
  /\ stale' = newStale
  /\ UNCHANGED <<config, disk, swarms, unread, newStale, changes>>

---------------------------------------------------------------------------
(***************************************************************************)
(* Requests, and the timers that matter.  They do not look at scanning.    *)
(***************************************************************************)

HasRoom == MaxTorrents > 0 => Cardinality(Listed(allowed)) < MaxTorrents

\* serverResponseUploadPOST.  A torrent may have an info hash and still be
\* one that no entry can be made from.
UploadComplete(f, h) ==
  /\ HasRoom
  /\ disk[f] = NoFile
  /\ h \notin swarms
  /\ Changed({h})
  /\ MakeFile(f, h)
  /\ IF config.parseOnUpload
     THEN allowed' = [allowed EXCEPT ![h] = f] /\ ListDead(h)
     ELSE UNCHANGED <<allowed, swarms>>
  /\ UNCHANGED <<config, scanning, building>>

UploadIncomplete(f, h) ==
  /\ HasRoom
  /\ disk[f] = NoFile
  /\ h \notin swarms
  /\ ~(config.parseOnUpload /\ config.deleteInvalid)  \* or parseTorrent deletes it at once
  /\ Changed({})
  /\ MakeFile(f, Broken)
  /\ UNCHANGED <<config, allowed, swarms, scanning, building>>

\* The confirmed deletion of the index and the login page: the file is the one
\* that the entry names, whatever it contains by now.
Delete(h) ==
  /\ Changed({h} \cup (IF h \in Listed(allowed) THEN {disk[allowed[h]]} \cap Hash ELSE {}))
  /\ IF h \in Listed(allowed) THEN DeleteFile(allowed[h]) ELSE UNCHANGED <<disk, unread>>
  /\ allowed' = [allowed EXCEPT ![h] = NoName]
  /\ swarms' = swarms \ {h}
  /\ UNCHANGED <<config, scanning, building>>

\* The first announce of an allowed torrent, from a client or from the link.
Announce(h) ==
  /\ h \in Listed(allowed)
  /\ swarms' = swarms \cup {h}
  /\ UNCHANGED <<config, disk, allowed, scanning, unread, building, historyVars>>

\* expireDownloaders drops torrents whose peers are gone, any of them.
Expire ==
  /\ ~config.keepDead
  /\ swarms' \in SUBSET swarms
  /\ UNCHANGED <<config, disk, allowed, scanning, unread, building, historyVars>>

---------------------------------------------------------------------------
\* Not code: somebody works in the directory.
PutByHand(f, content) ==
  /\ Outside
  /\ disk[f] = NoFile
  /\ Changed({content} \cap Hash)
  /\ MakeFile(f, content)
  /\ UNCHANGED <<config, allowed, swarms, scanning, building>>

TakeByHand(f) ==
  /\ Outside
  /\ disk[f] # NoFile
  /\ Changed({disk[f]} \cap Hash)
  /\ DeleteFile(f)
  /\ UNCHANGED <<config, allowed, swarms, scanning, building>>

---------------------------------------------------------------------------
\* The constructor has scanned the directory, before there was a gpServer,
\* and may have restored any swarms.
Init ==
  /\ config \in Configs
  /\ disk \in [File -> Hash \cup {Broken, NoFile}]
  /\ config.deleteInvalid => \A f \in File : disk[f] # Broken
  /\ allowed \in [Hash -> File \cup {NoName}]
  /\ \A h \in Hash :
       IF h \in Torrents THEN allowed[h] \in File /\ disk[allowed[h]] = h ELSE allowed[h] = NoName
  /\ swarms \in SUBSET Hash
  /\ config.keepDead => Listed(allowed) \subseteq swarms
  /\ scanning = FALSE
  /\ unread = {}
  /\ building = NoEntries
  /\ stale = {}
  /\ newStale = {}
  /\ changes = 0

Scan ==
  \/ StartScan
  \/ \E f \in File : ParseTorrent(f) \/ ParseInvalid(f)
  \/ EndScan

Fail == ScanFails \/ \E f \in File : ParseUnopened(f)

Request ==
  \/ \E f \in File, h \in Hash : UploadComplete(f, h) \/ UploadIncomplete(f, h)
  \/ \E h \in Hash : Delete(h) \/ Announce(h)

ByHand ==
  \E f \in File : TakeByHand(f) \/ \E content \in Hash \cup {Broken} : PutByHand(f, content)

Next == Scan \/ Fail \/ Request \/ Expire \/ ByHand

Spec == Init /\ [][Next]_vars

\* This assumes that parse_allowed_interval is set: its default of 0 switches the
\* scans off, but for the one of the constructor, and then nothing comes to be
\* true again.  With it the scan is run over and over, and gets on between the
\* requests it lets in.
FairSpec == Spec /\ WF_vars(Scan)

---------------------------------------------------------------------------
TypeOK ==
  /\ config \in Configs
  /\ disk \in [File -> Hash \cup {Broken, NoFile}]
  /\ allowed \in [Hash -> File \cup {NoName}]
  /\ building \in [Hash -> File \cup {NoName}]
  /\ swarms \in SUBSET Hash
  /\ scanning \in BOOLEAN
  /\ unread \in SUBSET File
  /\ stale \in SUBSET Hash
  /\ newStale \in SUBSET Hash
  /\ changes \in 0..MaxChanges

\* The table is about the directory: except for torrents that were uploaded,
\* deleted or changed by hand since the scan it comes from began, or that it
\* could not open, exactly those are listed that are there, under the name of a
\* file that contains them.
TrueOf(table, h) ==
  IF h \in Torrents THEN table[h] \in File /\ disk[table[h]] = h ELSE table[h] = NoName

OnlyChangedStale == \A h \in Hash \ stale : TrueOf(allowed, h)

\* With keep_dead everything that is allowed is on the index page, which shows
\* m_pDFile, but for what was deleted in the middle of a scan.
KeepDeadShown == config.keepDead => Listed(allowed) \ stale \subseteq swarms

\* A torrent is withdrawn only if it is not in the directory any more, if it was
\* deleted or uploaded after the scan began that now replaces the table, or if
\* that scan could not open the directory or the torrent's file.
WithdrawnForReason ==
  [][\A h \in Listed(allowed) \ Listed(allowed') : h \notin Torrents' \/ h \in stale']_vars

\* When changes and failures stop and scans go on, the table comes to tell the truth about the directory, and
\* invalid files are gone if they are to be deleted.
Settled ==
  /\ \A h \in Hash : TrueOf(allowed, h)
  /\ config.deleteInvalid => \A f \in File : disk[f] # Broken

Settles == <>[]Settled

\* "Deleted torrent <hash>" (tracker_index.cpp:137): the deletion of a torrent
\* takes that torrent's file from the directory and no other.
DeletesItsOwn ==
  [][\A h \in Hash : Delete(h) => \A f \in File : disk'[f] # disk[f] => disk[f] = h]_vars

---------------------------------------------------------------------------
(***************************************************************************)
(* Inductive strengthening: the table that is being built is right about   *)
(* the files read so far.                                                  *)
(***************************************************************************)

ReadTorrents == {disk[f] : f \in File \ unread} \cap Hash

BuiltFromRead ==
  scanning =>
    \A h \in Hash \ newStale :
      IF h \in ReadTorrents
      THEN building[h] \in File \ unread /\ disk[building[h]] = h
      ELSE building[h] = NoName

BuiltShown == config.keepDead /\ scanning => Listed(building) \ newStale \subseteq swarms

UnreadThere == \A f \in unread : disk[f] # NoFile

ScanInv ==
  /\ TypeOK
  /\ newStale \subseteq stale
  /\ ~scanning => unread = {}
  /\ UnreadThere
  /\ OnlyChangedStale
  /\ BuiltFromRead

ShownInv == KeepDeadShown /\ BuiltShown
=============================================================================
