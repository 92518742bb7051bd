------------------------------- MODULE Notes -------------------------------
(***************************************************************************)
(* What users leave with a torrent, composed with the accounts that decide *)
(* who may: the comments (tracker_comments.cpp), the tag that names the    *)
(* uploader (tracker_upload.cpp, tracker_login.cpp, tracker_index.cpp),    *)
(* the files both are kept in, and the start and the end of the process    *)
(* (tracker.cpp).  allowed_dir, bnbt_allow_comments, bnbt_upload_dir,      *)
(* bnbt_delete_own_torrents and bnbt_comments_file are set, and the other  *)
(* files keep their names.  The comments file has none by default: then    *)
(* comments are in memory only, and nothing here is said of their file.    *)
(*                                                                         *)
(* Like users, comments and tags are saved whole after every change, and   *)
(* unlike them once more by the destructor.                                *)
(***************************************************************************)
EXTENDS Accounts, Sequences

CONSTANTS
  Hash,           \* info hashes
  HashBefore,     \* their order as keys
  NoTag,          \* no entry in m_pTags
  Nobody,         \* a tag without "uploader"
  KeepDead,       \* keep_dead
  ParseOnUpload,  \* bnbt_parse_on_upload
  MaxTorrents     \* bnbt_max_torrents, 0 for no limit

\* A comment that lacks a part, left by a file that was cut, is not shown.
Comment == [id: Nat, whole: BOOLEAN]

Uploader == User \cup {Nobody, Garbled}

ASSUME NotesAssumption ==
  /\ NoTag \notin Uploader /\ Nobody \notin User /\ Garbled \notin User
  /\ HashBefore \subseteq Hash \X Hash
  /\ KeepDead \in BOOLEAN /\ ParseOnUpload \in BOOLEAN /\ MaxTorrents \in Nat

VARIABLES
  comments, commentsFile, \* m_pComments, no list and an empty one alike; its file
  tags, tagsFile,         \* m_pTags: the uploader the entry names; its file
  allowed,                \* keys of m_pAllowed
  known,                  \* keys of m_pDFile
  lostComments, lostTags, \* history: the last save did not complete
  seen,                   \* the comments a moderator's page lists
  shifted,                \* history: some were removed since, or lost
  posted                  \* the comments posted so far, which number them

commentVars == <<comments, commentsFile, lostComments, seen, shifted, posted>>
tagVars == <<tags, tagsFile, lostTags>>
torrentVars == <<allowed, known>>
notesVars == <<commentVars, tagVars, torrentVars>>
siteVars == <<accountsVars, notesVars>>

---------------------------------------------------------------------------
(***************************************************************************)
(* Files.                                                                  *)
(***************************************************************************)

\* What a cut leaves of a list of comments: the first ones, the next perhaps
\* without its last parts.
CutList(h, list) ==
  {Discarded} \cup {SubSeq(list, 1, n) : n \in 0..Len(list)} \cup
  {Append(SubSeq(list, 1, n - 1), [list[n] EXCEPT !.whole = FALSE]) :
     n \in 1..Len(list)}

\* A login is the last part of a tag: it may be missing or cut short.
CutTag(h, uploader) == {Discarded, uploader, Nobody, Garbled}

\* saveComments.
SaveComments(outcome) ==
  /\ commentsFile' \in FileAfter(outcome, commentsFile, comments',
                                 CutTable(comments', <<>>, HashBefore, CutList))
  /\ lostComments' = (outcome # "written")

\* saveTags.
SaveTags(outcome) ==
  /\ tagsFile' \in FileAfter(outcome, tagsFile, tags',
                             CutTable(tags', NoTag, HashBefore, CutTag))
  /\ lostTags' = (outcome # "written")

---------------------------------------------------------------------------
(***************************************************************************)
(* comments.html: one handler that deletes, posts or lists.                *)
(***************************************************************************)

CommentStep(outcome) ==
  /\ CountChange(outcome)
  /\ SaveComments(outcome)
  /\ UNCHANGED <<accountVars, tagVars, torrentVars>>

\* Mutant: numbers count the comments that are shown.
ViewCommentsShown(c, h) ==
  /\ May(c, "view") /\ May(c, "edit")
  /\ seen' = [seen EXCEPT ![h] = SelectSeq(comments[h], LAMBDA m : m.whole)]
  /\ shifted' = [shifted EXCEPT ![h] = FALSE]
  /\ UNCHANGED <<accountsVars, comments, commentsFile, lostComments, posted,
                 tagVars, torrentVars>>

\* Numbers count every comment, whether it is shown or not.
ViewComments(c, h) ==
  /\ May(c, "view") /\ May(c, "edit")
  /\ seen' = [seen EXCEPT ![h] = comments[h]]
  /\ shifted' = [shifted EXCEPT ![h] = FALSE]
  /\ UNCHANGED <<accountsVars, comments, commentsFile, lostComments, posted,
                 tagVars, torrentVars>>

PostComment(c, h, outcome) ==
  /\ May(c, "view") /\ May(c, "comments")
  /\ comments' = [comments EXCEPT ![h] = Append(@, [id |-> posted, whole |-> TRUE])]
  /\ posted' = posted + 1
  /\ CommentStep(outcome)
  /\ UNCHANGED <<seen, shifted>>

\* ?del=n
DeleteComment(c, h, n, outcome) ==
  /\ May(c, "view") /\ May(c, "edit")
  /\ n \in DOMAIN comments[h]
  /\ comments' = [comments EXCEPT ![h] = SubSeq(@, 1, n - 1) \o SubSeq(@, n + 1, Len(@))]
  /\ shifted' = [shifted EXCEPT ![h] = TRUE]
  /\ CommentStep(outcome)
  /\ UNCHANGED <<seen, posted>>

\* ?delall=1
DeleteAllComments(c, h, outcome) ==
  /\ May(c, "view") /\ May(c, "edit")
  /\ comments' = [comments EXCEPT ![h] = <<>>]
  /\ shifted' = [shifted EXCEPT ![h] = TRUE]
  /\ CommentStep(outcome)
  /\ UNCHANGED <<seen, posted>>

---------------------------------------------------------------------------
(***************************************************************************)
(* Torrents and their uploaders.                                           *)
(***************************************************************************)

TagStep(outcome) ==
  /\ CountChange(outcome)
  /\ SaveTags(outcome)
  /\ UNCHANGED <<accountVars, commentVars>>

\* addTag: an upload by nobody in particular leaves the uploader as it was.
AddTag(c, h) ==
  tags' = [tags EXCEPT ![h] = IF Matches(c) THEN c[1]
                              ELSE IF @ = NoTag THEN Nobody ELSE @]

\* Mutant: what is refused is a torrent that m_pAllowed lists.
UploadUnlisted(c, h, outcome) ==
  /\ May(c, "upload")
  /\ MaxTorrents > 0 => Cardinality(allowed) < MaxTorrents
  /\ h \notin allowed
  /\ AddTag(c, h)
  /\ TagStep(outcome)
  /\ \/ UNCHANGED torrentVars
     \/ /\ ParseOnUpload /\ running'
        /\ allowed' = allowed \cup {h}
        /\ known' = IF KeepDead THEN known \cup {h} ELSE known

\* A file of another name may hold a torrent that is listed already; only one
\* in m_pDFile is refused.  Its tag is there even if the file is not, when
\* writing it has failed.
Upload(c, h, outcome) ==
  /\ May(c, "upload")
  /\ MaxTorrents > 0 => Cardinality(allowed) < MaxTorrents
  /\ h \notin known
  /\ AddTag(c, h)
  /\ TagStep(outcome)
  /\ \/ UNCHANGED torrentVars
     \/ /\ ParseOnUpload /\ running'
        /\ allowed' = allowed \cup {h}
        /\ known' = IF KeepDead THEN known \cup {h} ELSE known

\* stats.html: a moderator names the uploader of any torrent, known or not; a
\* blank name is no change.
EditTag(c, h, uploader, outcome) ==
  /\ May(c, "view") /\ May(c, "edit")
  /\ tags' = [tags EXCEPT ![h] = IF uploader # Nobody THEN uploader
                                 ELSE IF @ = NoTag THEN Nobody ELSE @]
  /\ TagStep(outcome)
  /\ UNCHANGED torrentVars

\* deleteTag and the rest of a deletion, from the index or from one's own list.
DeleteTorrent(h, outcome) ==
  /\ allowed' = allowed \ {h}
  /\ known' = known \ {h}
  /\ tags' = [tags EXCEPT ![h] = NoTag]
  /\ TagStep(outcome)

\* index.html?del=<h>&ok=1
IndexDelete(c, h, outcome) ==
  /\ May(c, "view") /\ May(c, "edit")
  /\ DeleteTorrent(h, outcome)

\* A torrent without a tag is anybody's who is logged in.
MayDeleteOwn(c, h) ==
  /\ running /\ Matches(c) /\ ~LoginCrashes(c)
  /\ tags[h] \in {NoTag, c[1]}

\* login.html?del=<h>&ok=1
LoginDelete(c, h, outcome) ==
  /\ MayDeleteOwn(c, h)
  /\ DeleteTorrent(h, outcome)

\* Peers come and go: an announce makes an entry in m_pDFile for a torrent
\* that is allowed, and the expiry drops the ones without peers.
Announced(h) ==
  /\ running /\ h \in allowed
  /\ known' = known \cup {h}
  /\ UNCHANGED <<accountsVars, commentVars, tagVars, allowed>>

Expired(h) ==
  /\ running /\ ~KeepDead
  /\ known' = known \ {h}
  /\ UNCHANGED <<accountsVars, commentVars, tagVars, allowed>>

\* The allowed directory is scanned; what it holds is up to whoever writes to it.
Scan(files) ==
  /\ running
  /\ allowed' = files
  /\ known' = IF KeepDead THEN known \cup files ELSE known
  /\ UNCHANGED <<accountsVars, commentVars, tagVars>>

---------------------------------------------------------------------------
(***************************************************************************)
(* The process.                                                            *)
(***************************************************************************)

\* Killed, or dead for some other reason.
Crash == StopAccounts /\ UNCHANGED <<boundVars, notesVars>>

PageCrash(c) ==
  /\ CrashingLogin(c) \/ CrashingUsersPage(c)
  /\ UNCHANGED <<accountVars, boundVars, notesVars>>

\* A first signal: the destructor of CTracker saves comments, then tags, unless
\* a second signal ends the process in between.
Exit(first, second) ==
  /\ StopAccounts
  /\ UNCHANGED <<changes, torrentVars, comments, tags, seen, shifted, posted>>
  /\ SaveComments(first)
  /\ IF first = "crash"
     THEN faults' = faults + 1 /\ UNCHANGED <<tagsFile, lostTags>>
     ELSE faults' = faults + FaultsOf(first) + FaultsOf(second) /\ SaveTags(second)
  /\ faults' <= MaxFaults

\* The constructor: m_pDFile is loaded from a file of its own, and the allowed
\* directory is scanned.
Start ==
  /\ StartAccounts
  /\ comments' = commentsFile /\ tags' = tagsFile
  /\ shifted' = [h \in Hash |-> shifted[h] \/ lostComments]
  /\ allowed' \in SUBSET Hash
  /\ known' \in {s \in SUBSET Hash : KeepDead => allowed' \subseteq s}
  /\ UNCHANGED <<boundVars, commentsFile, lostComments, seen, posted, tagsFile, lostTags>>

Init ==
  /\ InitAccounts
  /\ comments = [h \in Hash |-> <<>>] /\ commentsFile = comments
  /\ tags = [h \in Hash |-> NoTag] /\ tagsFile = tags
  /\ allowed = {} /\ known = {}
  /\ lostComments = FALSE /\ lostTags = FALSE
  /\ seen = comments
  /\ shifted = [h \in Hash |-> FALSE]
  /\ posted = 1

Next ==
  \/ ChangeAccounts /\ UNCHANGED notesVars
  \/ \E c \in Requester : PageCrash(c)
  \/ \E c \in Requester, h \in Hash : ViewComments(c, h)
  \/ \E c \in Requester, h \in Hash, outcome \in Outcome :
       \/ PostComment(c, h, outcome)
       \/ \E n \in DOMAIN comments[h] : DeleteComment(c, h, n, outcome)
       \/ DeleteAllComments(c, h, outcome)
       \/ Upload(c, h, outcome)
       \/ \E uploader \in Uploader : EditTag(c, h, uploader, outcome)
       \/ IndexDelete(c, h, outcome)
       \/ LoginDelete(c, h, outcome)
  \/ \E h \in Hash : Announced(h) \/ Expired(h)
  \/ \E files \in SUBSET Hash : Scan(files)
  \/ Crash
  \/ \E first, second \in Outcome : Exit(first, second)
  \/ Start

Spec == Init /\ [][Next]_siteVars

---------------------------------------------------------------------------
(***************************************************************************)
(* Properties.                                                             *)
(***************************************************************************)

\* The tables and the files hold what their readers expect.
TypeOK ==
  /\ TypeOKAccounts
  /\ comments \in [Hash -> Seq(Comment)] /\ commentsFile \in [Hash -> Seq(Comment)]
  /\ tags \in [Hash -> Uploader \cup {NoTag}] /\ tagsFile \in [Hash -> Uploader \cup {NoTag}]
  /\ allowed \subseteq Hash /\ known \subseteq Hash
  /\ lostComments \in BOOLEAN /\ lostTags \in BOOLEAN
  /\ seen \in [Hash -> Seq(Comment)]
  /\ shifted \in [Hash -> BOOLEAN]
  /\ posted \in Nat

\* Nothing is only in memory: each file holds its table unless its last save
\* failed, so that a crash at any other moment loses nothing.  Saving a table
\* is left to every handler that changes it.  This takes a name for each file:
\* bnbt_comments_file is empty by default, and saveComments then returns.
EverythingSaved ==
  /\ UsersSaved
  /\ lostComments \/ commentsFile = comments
  /\ lostTags \/ tagsFile = tags

\* A moderator deletes by number: while no comment has been removed since the
\* page was made, whatever was posted and even across restarts, each number on
\* it stands for the comment it stood beside.
PageHolds ==
  \A h \in Hash : ~shifted[h] =>
    /\ Len(seen[h]) <= Len(comments[h])
    /\ \A n \in DOMAIN seen[h] : comments[h][n] = seen[h][n]

\* The uploader of a torrent loses it in these ways only: someone uploads the
\* torrent again while it is not in m_pDFile, a moderator names another, the
\* uploader or a moderator deletes it, or a damaged or older file is loaded.
UploaderKept ==
  [][\A h \in Hash :
       tags[h] \in User /\ tags'[h] # tags[h] =>
         \/ ~running /\ lostTags
         \/ h \notin known /\ tags'[h] \in User
         \/ \E c \in Requester :
              /\ \/ May(c, "view") /\ May(c, "edit")
                 \/ running /\ Matches(c) /\ c[1] = tags[h] /\ tags'[h] = NoTag
              /\ \/ tags'[h] \notin {NoTag, Nobody}
                 \/ tags'[h] = NoTag /\ h \notin known']_siteVars
=============================================================================
