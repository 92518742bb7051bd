--------------------------- MODULE AllowedProofs ---------------------------
(***************************************************************************)
(* Theorems of Allowed, for all files, torrents, configurations and        *)
(* numbers of changes.                                                     *)
(***************************************************************************)
EXTENDS Allowed, TLAPS

(***************************************************************************)
(* What the invariant needs to know of a file that comes or goes.          *)
(***************************************************************************)

\* MakeFile writes the file and touches no other; a scan may meet it unread.
LEMMA Made ==
  ASSUME NEW f \in File, NEW content, MakeFile(f, content), UnreadThere, content # NoFile,
         unread \in SUBSET File, disk \in [File -> Hash \cup {Broken, NoFile}]
  PROVE  /\ disk'[f] = content
         /\ \A g \in File : g # f => disk'[g] = disk[g]
         /\ unread' \in SUBSET File
         /\ unread \subseteq unread'
         /\ unread' \subseteq unread \cup {f}
         /\ ~scanning => unread' = unread
BY DEF MakeFile

\* DeleteFile removes the file, and a scan that has not met it will not.
LEMMA Deleted ==
  ASSUME NEW f \in File, DeleteFile(f),
         disk \in [File -> Hash \cup {Broken, NoFile}]
  PROVE  /\ disk'[f] = NoFile
         /\ \A g \in File : g # f => disk'[g] = disk[g]
         /\ unread' = unread \ {f}
BY DEF DeleteFile

(***************************************************************************)
(* The tables about a torrent stay true while the files stay that contain  *)
(* it or are listed for it.                                                *)
(***************************************************************************)
Untouched(h) == \A f \in File : (disk[f] = h) <=> (disk'[f] = h)

\* An entry that was true of the directory stays so when no file of it changes.
LEMMA TrueStays ==
  ASSUME NEW h \in Hash, Untouched(h), allowed'[h] = allowed[h], TrueOf(allowed, h)
  PROVE  TrueOf(allowed, h)'
BY DEF Untouched, TrueOf, Torrents

TrueOfRead(h) ==
  IF h \in ReadTorrents
  THEN building[h] \in File \ unread /\ disk[building[h]] = h
  ELSE building[h] = NoName

\* BuiltFromRead, entry by entry.
LEMMA BuiltMeans ==
  BuiltFromRead <=> (scanning => \A h \in Hash \ newStale : TrueOfRead(h))
BY DEF BuiltFromRead, TrueOfRead

\* So does an entry of the map a scan builds, of the files it has read.
LEMMA ReadStays ==
  ASSUME NEW h \in Hash, Untouched(h), building'[h] = building[h], TrueOfRead(h),
         \A f \in File : disk[f] = h => (f \in unread <=> f \in unread')
  PROVE  TrueOfRead(h)'
BY DEF Untouched, TrueOfRead, ReadTorrents

\* A change about the torrents hs leaves the tables true about the others.
LEMMA ChangeKeeps ==
  ASSUME NEW hs, ScanInv, Changed(hs), UNCHANGED <<scanning, building>>,
         \A h \in Hash \ hs : Untouched(h) /\ allowed'[h] = allowed[h],
         \A f \in File, h \in Hash \ hs : disk[f] = h => (f \in unread <=> f \in unread')
  PROVE  (newStale \subseteq stale /\ OnlyChangedStale /\ BuiltFromRead)'
<1>1. (newStale \subseteq stale)'
  BY DEF ScanInv, Changed
<1>2. OnlyChangedStale'
  <2> SUFFICES ASSUME NEW h \in Hash, h \notin stale'
               PROVE  TrueOf(allowed, h)'
    BY DEF OnlyChangedStale
  <2>1. h \notin hs /\ h \notin stale
    BY DEF Changed
  <2>2. TrueOf(allowed, h)
    BY <2>1 DEF ScanInv, OnlyChangedStale
  <2> QED
    BY <2>1, <2>2, TrueStays
<1>3. BuiltFromRead'
  <2> SUFFICES ASSUME scanning', NEW h \in Hash, h \notin newStale'
               PROVE  TrueOfRead(h)'
    BY DEF BuiltFromRead, TrueOfRead
  <2>1. h \notin hs /\ h \notin newStale /\ scanning
    BY DEF Changed
  <2>2. TrueOfRead(h)
    BY <2>1, BuiltMeans DEF ScanInv
  <2> QED
    BY <2>1, <2>2, ReadStays
<1> QED
  BY <1>1, <1>2, <1>3

\* The invariant of scans holds at first,
LEMMA ScanInit == Init => ScanInv
<1> SUFFICES ASSUME Init PROVE ScanInv
  OBVIOUS
<1>1. TypeOK
  <2>1. NoEntries \in [Hash -> File \cup {NoName}]
    BY DEF NoEntries
  <2>2. 0 \in 0..MaxChanges
    BY LimitAssumption
  <2> QED
    BY <2>1, <2>2 DEF Init, TypeOK
<1>2. OnlyChangedStale
  BY DEF Init, OnlyChangedStale, TrueOf
<1>3. BuiltFromRead
  BY DEF Init, BuiltFromRead
<1> QED
  BY <1>1, <1>2, <1>3 DEF Init, ScanInv, UnreadThere

\* and every step keeps it.
LEMMA ScanStep == ScanInv /\ [Next]_vars => ScanInv'
<1> SUFFICES ASSUME ScanInv, [Next]_vars PROVE ScanInv'
  OBVIOUS
<1> USE FileAssumption
<1>0. TypeOK /\ UnreadThere
  BY DEF ScanInv
<1>1. CASE StartScan
  <2>1. TypeOK' /\ (newStale \subseteq stale)' /\ UnreadThere' /\ scanning'
    BY <1>1, <1>0 DEF StartScan, TypeOK, UnreadThere, NoEntries
  <2>2. OnlyChangedStale'
    BY <1>1 DEF StartScan, ScanInv, OnlyChangedStale, TrueOf, Torrents
  <2>3. BuiltFromRead'
    <3> SUFFICES ASSUME NEW h \in Hash PROVE TrueOfRead(h)'
      BY DEF BuiltFromRead, TrueOfRead
    <3>1. h \notin ReadTorrents'
      BY <1>1 DEF StartScan, ReadTorrents
    <3> QED
      BY <1>1, <3>1 DEF StartScan, TrueOfRead, NoEntries
  <2> QED
    BY <2>1, <2>2, <2>3 DEF ScanInv
<1>2. CASE ScanFails
  <2>1. TypeOK' /\ (newStale \subseteq stale)' /\ UnreadThere' /\ ~scanning' /\ unread' = {}
    BY <1>2, <1>0, LimitAssumption DEF ScanFails, Changed, ScanInv, TypeOK, UnreadThere, NoEntries
  <2>2. OnlyChangedStale' /\ BuiltFromRead'
    BY <1>2, <2>1 DEF ScanFails, Changed, OnlyChangedStale, BuiltFromRead
  <2> QED
    BY <2>1, <2>2 DEF ScanInv
<1>3. ASSUME NEW f \in File, ParseTorrent(f) PROVE ScanInv'
  <2>1. TypeOK' /\ UnreadThere' /\ (newStale \subseteq stale)' /\ scanning'
    BY <1>3, <1>0 DEF ParseTorrent, ListDead, TypeOK, UnreadThere, ScanInv, historyVars
  <2>2. OnlyChangedStale'
    BY <1>3 DEF ParseTorrent, historyVars, ScanInv, OnlyChangedStale, TrueOf, Torrents
  <2>3. BuiltFromRead'
    <3> SUFFICES ASSUME NEW h \in Hash, h \notin newStale' PROVE TrueOfRead(h)'
      BY DEF BuiltFromRead, TrueOfRead
    <3>1. TrueOfRead(h)
      BY <1>3, BuiltMeans DEF ScanInv, ParseTorrent, historyVars
    <3>2. ReadTorrents' = ReadTorrents \cup {disk[f]}
      BY <1>3, <1>0 DEF ParseTorrent, ReadTorrents
    <3>3. CASE h = disk[f]
      BY <1>3, <1>0, <3>2, <3>3 DEF ParseTorrent, TrueOfRead, TypeOK
    <3>4. CASE h # disk[f]
      BY <1>3, <1>0, <3>1, <3>2, <3>4 DEF ParseTorrent, TrueOfRead, TypeOK
    <3> QED
      BY <3>3, <3>4
  <2> QED
    BY <2>1, <2>2, <2>3 DEF ScanInv
<1>4. ASSUME NEW f \in File, ParseInvalid(f) PROVE ScanInv'
  <2>1. TypeOK' /\ UnreadThere' /\ (newStale \subseteq stale)' /\ scanning'
    BY <1>4, <1>0 DEF ParseInvalid, DropInvalid, TypeOK, UnreadThere, ScanInv, historyVars
  <2>2. \A h \in Hash : Untouched(h)
    BY <1>4, <1>0 DEF ParseInvalid, DropInvalid, Untouched, TypeOK
  <2>3. OnlyChangedStale'
    BY <1>4, <2>2, TrueStays DEF ParseInvalid, historyVars, ScanInv, OnlyChangedStale
  <2>4. BuiltFromRead'
    <3> SUFFICES ASSUME NEW h \in Hash, h \notin newStale' PROVE TrueOfRead(h)'
      BY DEF BuiltFromRead, TrueOfRead
    <3>1. TrueOfRead(h)
      BY <1>4, BuiltMeans DEF ScanInv, ParseInvalid, historyVars
    <3>2. \A g \in File : disk[g] = h => (g \in unread <=> g \in unread')
      BY <1>4 DEF ParseInvalid, DropInvalid
    <3> QED
      BY <1>4, <2>2, <3>1, <3>2, ReadStays DEF ParseInvalid
  <2> QED
    BY <2>1, <2>3, <2>4 DEF ScanInv
<1>5. ASSUME NEW f \in File, ParseUnopened(f) PROVE ScanInv'
  <2>1. TypeOK' /\ UnreadThere' /\ scanning'
    BY <1>5, <1>0, LimitAssumption DEF ParseUnopened, DropInvalid, Changed, TypeOK, UnreadThere
  <2>2. \A h \in Hash \ {disk[f]} : Untouched(h)
    BY <1>5, <1>0 DEF ParseUnopened, DropInvalid, Untouched, TypeOK
  <2>3. \A g \in File, h \in Hash \ {disk[f]} : disk[g] = h => (g \in unread <=> g \in unread')
    BY <1>5 DEF ParseUnopened, DropInvalid
  <2>4. (newStale \subseteq stale /\ OnlyChangedStale /\ BuiltFromRead)'
    BY <1>5, <2>2, <2>3, ChangeKeeps DEF ParseUnopened
  <2> QED
    BY <2>1, <2>4 DEF ScanInv
<1>6. CASE EndScan
  <2>1. TypeOK' /\ UnreadThere' /\ (newStale \subseteq stale)' /\ ~scanning' /\ unread' = {}
    BY <1>6, <1>0 DEF EndScan, TypeOK, UnreadThere, NoEntries
  <2>2. OnlyChangedStale'
    <3> SUFFICES ASSUME NEW h \in Hash, h \notin newStale PROVE TrueOf(allowed, h)'
      BY <1>6 DEF EndScan, OnlyChangedStale
    <3>1. TrueOfRead(h)
      BY <1>6, BuiltMeans DEF ScanInv, EndScan
    <3> QED
      BY <1>6, <3>1 DEF EndScan, TrueOf, TrueOfRead, Torrents, ReadTorrents
  <2> QED
    BY <2>1, <2>2 DEF ScanInv, BuiltFromRead
<1>7. ASSUME NEW f \in File, NEW h \in Hash, UploadComplete(f, h) PROVE ScanInv'
  <2>1. TypeOK' /\ UnreadThere' /\ (~scanning => unread = {})'
    BY <1>7, <1>0, LimitAssumption
    DEF UploadComplete, MakeFile, ListDead, Changed, TypeOK, UnreadThere, ScanInv
  <2>2. \A i \in Hash \ {h} : Untouched(i) /\ allowed'[i] = allowed[i]
    BY <1>7, <1>0 DEF UploadComplete, MakeFile, Untouched, TypeOK
  <2>3. \A g \in File, i \in Hash \ {h} : disk[g] = i => (g \in unread <=> g \in unread')
    BY <1>7 DEF UploadComplete, MakeFile
  <2>4. (newStale \subseteq stale /\ OnlyChangedStale /\ BuiltFromRead)'
    BY <1>7, <2>2, <2>3, ChangeKeeps DEF UploadComplete
  <2> QED
    BY <2>1, <2>4 DEF ScanInv
<1>8. ASSUME NEW f \in File, NEW h \in Hash, UploadIncomplete(f, h) PROVE ScanInv'
  <2>1. TypeOK' /\ UnreadThere' /\ (~scanning => unread = {})'
    BY <1>8, <1>0, LimitAssumption
    DEF UploadIncomplete, MakeFile, Changed, TypeOK, UnreadThere, ScanInv
  <2>2. \A i \in Hash : Untouched(i) /\ allowed'[i] = allowed[i]
    BY <1>8, <1>0 DEF UploadIncomplete, MakeFile, Untouched, TypeOK
  <2>3. \A g \in File, i \in Hash : disk[g] = i => (g \in unread <=> g \in unread')
    BY <1>8 DEF UploadIncomplete, MakeFile
  <2>4. (newStale \subseteq stale /\ OnlyChangedStale /\ BuiltFromRead)'
    BY <1>8, <2>2, <2>3, ChangeKeeps DEF UploadIncomplete
  <2> QED
    BY <2>1, <2>4 DEF ScanInv
<1>9. ASSUME NEW h \in Hash, Delete(h) PROVE ScanInv'
  <2> DEFINE hs == {h} \cup (IF h \in Listed(allowed) THEN {disk[allowed[h]]} \cap Hash ELSE {})
  <2>1. h \in Listed(allowed) => allowed[h] \in File
    BY <1>0 DEF TypeOK, Listed
  <2>2. TypeOK' /\ UnreadThere' /\ (~scanning => unread = {})'
    BY <1>9, <1>0, <2>1, LimitAssumption
    DEF Delete, DeleteFile, Changed, TypeOK, UnreadThere, ScanInv
  <2>3. \A i \in Hash \ hs : Untouched(i) /\ allowed'[i] = allowed[i]
    BY <1>9, <1>0, <2>1 DEF Delete, DeleteFile, Untouched, TypeOK
  <2>4. \A g \in File, i \in Hash \ hs : disk[g] = i => (g \in unread <=> g \in unread')
    BY <1>9, <2>1 DEF Delete, DeleteFile
  <2>5. Changed(hs) /\ UNCHANGED <<scanning, building>>
    BY <1>9 DEF Delete
  <2> HIDE DEF hs
  <2>6. (newStale \subseteq stale /\ OnlyChangedStale /\ BuiltFromRead)'
    BY <2>3, <2>4, <2>5, ChangeKeeps
  <2> QED
    BY <2>2, <2>6 DEF ScanInv
<1>10. ASSUME NEW f \in File, TakeByHand(f) PROVE ScanInv'
  <2>1. TypeOK' /\ UnreadThere' /\ (~scanning => unread = {})'
    BY <1>10, <1>0, LimitAssumption
    DEF TakeByHand, DeleteFile, Changed, TypeOK, UnreadThere, ScanInv
  <2>2. \A i \in Hash \ ({disk[f]} \cap Hash) : Untouched(i) /\ allowed'[i] = allowed[i]
    BY <1>10, <1>0 DEF TakeByHand, DeleteFile, Untouched, TypeOK
  <2>3. \A g \in File, i \in Hash \ ({disk[f]} \cap Hash) :
          disk[g] = i => (g \in unread <=> g \in unread')
    BY <1>10 DEF TakeByHand, DeleteFile
  <2>4. (newStale \subseteq stale /\ OnlyChangedStale /\ BuiltFromRead)'
    BY <1>10, <2>2, <2>3, ChangeKeeps DEF TakeByHand
  <2> QED
    BY <2>1, <2>4 DEF ScanInv
<1>11. ASSUME NEW f \in File, NEW content \in Hash \cup {Broken}, PutByHand(f, content)
       PROVE  ScanInv'
  <2>1. TypeOK' /\ UnreadThere' /\ (~scanning => unread = {})'
    BY <1>11, <1>0, LimitAssumption
    DEF PutByHand, MakeFile, Changed, TypeOK, UnreadThere, ScanInv
  <2>2. \A i \in Hash \ ({content} \cap Hash) : Untouched(i) /\ allowed'[i] = allowed[i]
    BY <1>11, <1>0 DEF PutByHand, MakeFile, Untouched, TypeOK
  <2>3. \A g \in File, i \in Hash \ ({content} \cap Hash) :
          disk[g] = i => (g \in unread <=> g \in unread')
    BY <1>11 DEF PutByHand, MakeFile
  <2>4. (newStale \subseteq stale /\ OnlyChangedStale /\ BuiltFromRead)'
    BY <1>11, <2>2, <2>3, ChangeKeeps DEF PutByHand
  <2> QED
    BY <2>1, <2>4 DEF ScanInv
<1>12. CASE UNCHANGED <<config, disk, allowed, scanning, unread, building, historyVars>>
            /\ swarms' \in SUBSET Hash
  BY <1>12 DEF historyVars, ScanInv, TypeOK, UnreadThere, OnlyChangedStale, BuiltFromRead,
               TrueOf, Torrents, ReadTorrents
<1>13. ASSUME NEW h \in Hash, Announce(h) PROVE ScanInv'
  BY <1>13, <1>12, <1>0 DEF Announce, TypeOK
<1>14. CASE Expire
  BY <1>14, <1>12, <1>0 DEF Expire, TypeOK
<1>15. CASE UNCHANGED vars
  BY <1>15, <1>12, <1>0 DEF vars, TypeOK
<1> QED
  BY <1>1, <1>2, <1>3, <1>4, <1>5, <1>6, <1>7, <1>8, <1>9, <1>10, <1>11, <1>13, <1>14, <1>15
  DEF Next, Scan, Fail, Request, ByHand

(***************************************************************************)
(* ScanInv is inductive.                                                   *)
(***************************************************************************)
THEOREM Inductive == Spec => []ScanInv
BY ScanInit, ScanStep, PTL DEF Spec

(***************************************************************************)
(* Except for what was uploaded, deleted or changed by hand since the scan *)
(* behind it began, m_pAllowed tells the truth about the directory.        *)
(***************************************************************************)
THEOREM OnlyChangedStaleAlways == Spec => []OnlyChangedStale
<1>1. ScanInv => OnlyChangedStale
  BY DEF ScanInv
<1> QED
  BY <1>1, Inductive, PTL

(***************************************************************************)
(* With keep_dead, every allowed torrent is among those the index shows,   *)
(* but for what was deleted or changed in the middle of a scan.            *)
(***************************************************************************)
LEMMA ShownStep == ScanInv /\ ShownInv /\ [Next]_vars => ShownInv'
<1> SUFFICES ASSUME ScanInv, ShownInv, [Next]_vars PROVE ShownInv'
  OBVIOUS
<1> USE FileAssumption
<1>0. TypeOK
  BY DEF ScanInv
<1>a. config' = config
  BY DEF Next, Scan, Fail, Request, ByHand, vars, StartScan, ScanFails, ParseTorrent, ParseInvalid,
         ParseUnopened, EndScan, UploadComplete, UploadIncomplete, Delete, Announce, Expire,
         TakeByHand, PutByHand
<1> SUFFICES ASSUME config.keepDead PROVE ShownInv'
  BY <1>a DEF ShownInv, KeepDeadShown, BuiltShown
<1>b. Listed(allowed) \ stale \subseteq swarms /\ (scanning => Listed(building) \ newStale \subseteq swarms)
  BY DEF ShownInv, KeepDeadShown, BuiltShown
<1>c. SUFFICES (Listed(allowed) \ stale \subseteq swarms)'
               /\ (scanning => Listed(building) \ newStale \subseteq swarms)'
  BY DEF ShownInv, KeepDeadShown, BuiltShown
<1>1. CASE StartScan
  BY <1>1, <1>b DEF StartScan, Listed, NoEntries
<1>2. CASE ScanFails
  BY <1>2, <1>b DEF ScanFails, Listed, NoEntries
<1>3. ASSUME NEW f \in File, ParseTorrent(f)
      PROVE  (Listed(allowed) \ stale \subseteq swarms)'
             /\ (scanning => Listed(building) \ newStale \subseteq swarms)'
  BY <1>3, <1>b, <1>0 DEF ParseTorrent, ListDead, historyVars, Listed, TypeOK
<1>4. ASSUME NEW f \in File, ParseInvalid(f) \/ ParseUnopened(f)
      PROVE  (Listed(allowed) \ stale \subseteq swarms)'
             /\ (scanning => Listed(building) \ newStale \subseteq swarms)'
  BY <1>4, <1>b DEF ParseInvalid, ParseUnopened, Changed, historyVars, Listed
<1>5. CASE EndScan
  BY <1>5, <1>b DEF EndScan, Listed
<1>6. ASSUME NEW f \in File, NEW h \in Hash, UploadComplete(f, h) \/ UploadIncomplete(f, h)
      PROVE  (Listed(allowed) \ stale \subseteq swarms)'
             /\ (scanning => Listed(building) \ newStale \subseteq swarms)'
  BY <1>6, <1>b, <1>0 DEF UploadComplete, UploadIncomplete, Changed, ListDead, Listed, TypeOK
<1>7. ASSUME NEW h \in Hash, Delete(h)
      PROVE  (Listed(allowed) \ stale \subseteq swarms)'
             /\ (scanning => Listed(building) \ newStale \subseteq swarms)'
  BY <1>7, <1>b, <1>0 DEF Delete, Changed, Listed, TypeOK
<1>8. ASSUME NEW h \in Hash, Announce(h)
      PROVE  (Listed(allowed) \ stale \subseteq swarms)'
             /\ (scanning => Listed(building) \ newStale \subseteq swarms)'
  BY <1>8, <1>b DEF Announce, historyVars, Listed
<1>9. ~Expire
  BY DEF Expire
<1>10. ASSUME NEW f \in File, TakeByHand(f) \/ \E content \in Hash \cup {Broken} : PutByHand(f, content)
       PROVE  (Listed(allowed) \ stale \subseteq swarms)'
              /\ (scanning => Listed(building) \ newStale \subseteq swarms)'
  BY <1>10, <1>b DEF TakeByHand, PutByHand, Changed, Listed
<1>11. CASE UNCHANGED vars
  BY <1>11, <1>b DEF vars, historyVars, Listed
<1> QED
  BY <1>1, <1>2, <1>3, <1>4, <1>5, <1>6, <1>7, <1>8, <1>9, <1>10, <1>11
  DEF Next, Scan, Fail, Request, ByHand

\* With bnbt_keep_dead, what CTracker allows is in m_pDFile, whatever is
\* uploaded or announced while a scan goes on, but for what is deleted then.
THEOREM KeepDeadShownAlways == Spec => []KeepDeadShown
<1>1. Init => ShownInv
  BY DEF Init, ShownInv, KeepDeadShown, BuiltShown, Listed
<1>2. ShownInv => KeepDeadShown
  BY DEF ShownInv
<1> QED
  BY <1>1, <1>2, Inductive, ShownStep, PTL DEF Spec

(***************************************************************************)
(* A torrent that is in the directory is withdrawn only by a deletion, by  *)
(* the scan it was uploaded in or changed during, or by a scan that could  *)
(* not open the directory or the file.                                     *)
(***************************************************************************)
THEOREM WithdrawnForReasonAlways == Spec => WithdrawnForReason
<1>1. ScanInv /\ ScanInv' /\ [Next]_vars =>
        [\A h \in Listed(allowed) \ Listed(allowed') : h \notin Torrents' \/ h \in stale']_vars
  <2> SUFFICES ASSUME ScanInv', NEW h \in Listed(allowed) \ Listed(allowed'), h \in Torrents'
               PROVE  h \in stale'
    OBVIOUS
  <2>1. h \in Hash /\ allowed'[h] = NoName
    BY DEF Listed
  <2>2. ~TrueOf(allowed, h)'
    BY <2>1, FileAssumption DEF TrueOf
  <2> QED
    BY <2>1, <2>2 DEF ScanInv, OnlyChangedStale
<1> QED
  BY <1>1, Inductive, PTL DEF Spec, WithdrawnForReason
=============================================================================
