---------------------------- MODULE NotesProofs ----------------------------
(***************************************************************************)
(* What holds of Notes, and so of Accounts, for every number of users,     *)
(* passwords and torrents, every sequence of saves that fail, and every    *)
(* way in which the text of an entry may be cut that leaves a part of it;  *)
(* and what holds of Bencode for every text: what is written is read back, *)
(* and a cut does no damage to what is written before it.                  *)
(***************************************************************************)
EXTENDS Notes, Bencode, Induction, SequenceTheorems, TLAPS

---------------------------------------------------------------------------
(***************************************************************************)
(* Files.                                                                  *)
(***************************************************************************)

\* A save leaves the table, the older file, or what a cut makes of the table.
LEMMA FileAfterSplit ==
  ASSUME NEW o \in Outcome, NEW file, NEW table, NEW cuts,
         NEW f \in FileAfter(o, file, table, cuts)
  PROVE  \/ o = "written" /\ f = table
         \/ o = "unopened" /\ f = file
         \/ o \in {"short", "crash"} /\ f \in cuts
<1>1. CASE o = "written"
  BY <1>1 DEF FileAfter
<1>2. CASE o = "unopened"
  BY <1>2 DEF FileAfter
<1>3. CASE o \in {"short", "crash"}
  BY <1>3 DEF FileAfter
<1>4. QED
  BY <1>1, <1>2, <1>3 DEF Outcome

\* The entries of a cut users file are whole, parts of what they were, or gone.
LEMMA CutUsersParts ==
  ASSUME NEW t \in Table, NEW f \in CutUsers(t)
  PROVE  /\ f \in Table
         /\ \A u \in User :
              \/ f[u] = NoUser
              \/ t[u] # NoUser /\ f[u] = t[u]
              \/ t[u] # NoUser /\ f[u] \in CutEntries[t[u]] \ {Discarded, NoUser}
<1>1. CASE f = [u \in DOMAIN t |-> NoUser]
  BY <1>1 DEF Table
<1>2. ASSUME NEW last \in User, t[last] # NoUser,
             NEW rest \in CutEntries[t[last]] \ {Discarded},
             f = [u \in User |-> IF <<u, last>> \in UserBefore THEN t[u]
                                 ELSE IF u = last THEN rest ELSE NoUser]
      PROVE  /\ f \in Table
             /\ \A u \in User :
                  \/ f[u] = NoUser
                  \/ t[u] # NoUser /\ f[u] = t[u]
                  \/ t[u] # NoUser /\ f[u] \in CutEntries[t[u]] \ {Discarded, NoUser}
  <2>1. t[last] \in Entry /\ rest \in Entry \cup {NoUser}
    BY <1>2, CutAssumption DEF Table
  <2>2. f \in Table
    BY <1>2, <2>1 DEF Table
  <2>3. QED
    BY <1>2, <2>2
<1>3. DOMAIN t = User
  BY DEF Table
<1>4. \/ f = [u \in DOMAIN t |-> NoUser]
      \/ \E last \in {u \in DOMAIN t : t[u] # NoUser} :
           \E rest \in CutEntries[t[last]] \ {Discarded} :
             f = [u \in DOMAIN t |-> IF <<u, last>> \in UserBefore THEN t[u]
                                     ELSE IF u = last THEN rest ELSE NoUser]
  BY DEF CutUsers, CutTable
<1>5. QED
  BY <1>1, <1>2, <1>3, <1>4

\* What a cut comments file holds are comments.
LEMMA CutCommentsType ==
  ASSUME NEW t \in [Hash -> Seq(Comment)],
         NEW f \in CutTable(t, <<>>, HashBefore, CutList)
  PROVE  f \in [Hash -> Seq(Comment)]
<1>1. ASSUME NEW h \in Hash, NEW rest \in CutList(h, t[h]) \ {Discarded}
      PROVE  rest \in Seq(Comment)
  <2>1. t[h] \in Seq(Comment) /\ Len(t[h]) \in Nat
    BY LenProperties
  <2>2. ASSUME NEW n \in 0..Len(t[h])
        PROVE  SubSeq(t[h], 1, n) \in Seq(Comment)
    BY <2>1, <2>2, SubSeqProperties
  <2>3. ASSUME NEW n \in 1..Len(t[h])
        PROVE  Append(SubSeq(t[h], 1, n - 1), [t[h][n] EXCEPT !.whole = FALSE]) \in Seq(Comment)
    <3>1. t[h][n] \in Comment
      BY <2>1, ElementOfSeq
    <3>2. [t[h][n] EXCEPT !.whole = FALSE] \in Comment
      BY <3>1 DEF Comment
    <3>3. n - 1 \in 0..Len(t[h])
      BY <2>1
    <3>4. SubSeq(t[h], 1, n - 1) \in Seq(Comment)
      BY <2>2, <3>3
    <3>5. QED
      BY <3>2, <3>4, AppendProperties
  <2>4. QED
    BY <2>2, <2>3 DEF CutList
<1>2. <<>> \in Seq(Comment)
  BY EmptySeq
<1>3. CASE f = [h \in DOMAIN t |-> <<>>]
  BY <1>2, <1>3
<1>4. ASSUME NEW last \in Hash, NEW rest \in CutList(last, t[last]) \ {Discarded},
             f = [h \in DOMAIN t |-> IF <<h, last>> \in HashBefore THEN t[h]
                                     ELSE IF h = last THEN rest ELSE <<>>]
      PROVE  f \in [Hash -> Seq(Comment)]
  BY <1>1, <1>2, <1>4
<1>5. QED
  BY <1>3, <1>4 DEF CutTable

\* What a cut tags file holds are uploaders.
LEMMA CutTagsType ==
  ASSUME NEW t \in [Hash -> Uploader \cup {NoTag}],
         NEW f \in CutTable(t, NoTag, HashBefore, CutTag)
  PROVE  f \in [Hash -> Uploader \cup {NoTag}]
<1>1. ASSUME NEW h \in Hash, t[h] # NoTag, NEW rest \in CutTag(h, t[h]) \ {Discarded}
      PROVE  rest \in Uploader
  BY <1>1 DEF CutTag, Uploader
<1>2. CASE f = [h \in DOMAIN t |-> NoTag]
  BY <1>2
<1>3. ASSUME NEW last \in Hash, t[last] # NoTag,
             NEW rest \in CutTag(last, t[last]) \ {Discarded},
             f = [h \in DOMAIN t |-> IF <<h, last>> \in HashBefore THEN t[h]
                                     ELSE IF h = last THEN rest ELSE NoTag]
      PROVE  f \in [Hash -> Uploader \cup {NoTag}]
  BY <1>1, <1>3
<1>4. QED
  BY <1>2, <1>3 DEF CutTable

---------------------------------------------------------------------------
(***************************************************************************)
(* Accounts.  What an entry says is below what its login was given if it   *)
(* says nothing else; the inductive invariant has this of the table and    *)
(* of the file, since the file becomes the table at the next start.        *)
(***************************************************************************)

Below(t, g) ==
  \A u \in User : t[u] # NoUser =>
    /\ g[u] # NoUser
    /\ t[u].md5 \in Pass => g[u].md5 = t[u].md5
    /\ t[u].access # NoAccess => g[u].access = t[u].access

GivenInv == ~oldUsers => Below(users, given) /\ Below(usersFile, given)

\* Only a cut leaves what is no digest.
Uncut(t) == \A u \in User : t[u] # NoUser => t[u].md5 # Garbled

UncutInv == ~cutUsers => Uncut(users) /\ Uncut(usersFile)

AccountsInv == TypeOKAccounts /\ UsersSaved /\ GivenInv /\ UncutInv

Gifts == [User -> [md5: Pass \cup {NoPass}, access: Granted] \cup {NoUser}]

\* What a cut leaves of a table is below what the table is below.
LEMMA CutStaysBelow ==
  ASSUME NEW t \in Table, NEW g, Below(t, g), NEW f \in CutUsers(t)
  PROVE  Below(f, g)
<1> SUFFICES ASSUME NEW u \in User, f[u] # NoUser
             PROVE  /\ g[u] # NoUser
                    /\ f[u].md5 \in Pass => g[u].md5 = f[u].md5
                    /\ f[u].access # NoAccess => g[u].access = f[u].access
  BY DEF Below
<1>1. CASE t[u] # NoUser /\ f[u] = t[u]
  BY <1>1 DEF Below
<1>2. CASE t[u] # NoUser /\ f[u] \in CutEntries[t[u]] \ {Discarded, NoUser}
  <2>1. t[u] \in Entry
    BY <1>2 DEF Table
  <2>2. f[u].md5 \in {t[u].md5, NoPass, Garbled} /\ f[u].access \in {t[u].access, NoAccess}
    BY <1>2, <2>1, CutAssumption
  <2>3. QED
    BY <1>2, <2>2, SentinelAssumption DEF Below
<1>3. QED
  BY <1>1, <1>2, CutUsersParts

\* The counters of a change keep their types.
LEMMA CountChangeType ==
  ASSUME TypeOKAccounts, NEW o \in Outcome, CountChange(o)
  PROVE  running' \in BOOLEAN /\ changes' \in Nat /\ faults' \in Nat
BY DEF TypeOKAccounts, CountChange, FaultsOf

\* A handler that changes the table within what is given, and saves it, keeps
\* the invariant, whatever becomes of the save.
LEMMA SavedChange ==
  ASSUME AccountsInv, NEW o \in Outcome, users' \in Table, given' \in Gifts,
         ~oldUsers => Below(users', given'), ~cutUsers => Uncut(users'),
         CountChange(o), SaveUsers(o)
  PROVE  AccountsInv'
<1> USE DEF AccountsInv
<1>1. \/ o = "written" /\ usersFile' = users'
      \/ o = "unopened" /\ usersFile' = usersFile
      \/ o \in {"short", "crash"} /\ usersFile' \in CutUsers(users')
  BY FileAfterSplit DEF SaveUsers
<1>2. usersFile' \in Table
  BY <1>1, CutUsersParts DEF TypeOKAccounts
<1>3. TypeOKAccounts'
  BY <1>2, CountChangeType DEF TypeOKAccounts, SaveUsers, Gifts
<1>4. UsersSaved'
  BY <1>1 DEF UsersSaved, SaveUsers
<1>5. GivenInv'
  <2> SUFFICES ASSUME ~oldUsers'
               PROVE  Below(users', given') /\ Below(usersFile', given')
    BY DEF GivenInv
  <2>1. ~oldUsers /\ o # "unopened"
    BY DEF SaveUsers, TypeOKAccounts
  <2>2. QED
    BY <1>1, <2>1, CutStaysBelow
<1>6. UncutInv'
  BY <1>1 DEF UncutInv, SaveUsers, TypeOKAccounts
<1>7. QED
  BY <1>3, <1>4, <1>5, <1>6

\* AddUser keeps what is known about accounts.
LEMMA AddUserStep ==
  ASSUME AccountsInv, NEW o \in Outcome, NEW u \in User, NEW p \in Pass,
         NEW access \in Granted, CountChange(o), AddUser(u, p, access, o)
  PROVE  AccountsInv'
<1>1. NewEntry(p, access) \in Entry /\ NewEntry(p, access) # NoUser
  <2>1. NewEntry(p, access) \in Entry
    BY DEF NewEntry, Entry
  <2>2. QED
    BY <2>1, SentinelAssumption
<1>2. users' \in Table
  BY <1>1 DEF AddUser, AccountsInv, TypeOKAccounts, Table
<1>3. given' \in Gifts
  BY DEF AddUser, AccountsInv, TypeOKAccounts, Gifts
<1>4. ~oldUsers => Below(users', given')
  <2> SUFFICES ASSUME ~oldUsers, NEW v \in User, users'[v] # NoUser
               PROVE  /\ given'[v] # NoUser
                      /\ users'[v].md5 \in Pass => given'[v].md5 = users'[v].md5
                      /\ users'[v].access # NoAccess => given'[v].access = users'[v].access
    BY DEF Below
  <2>1. CASE v = u
    <3>1. users'[v] = NewEntry(p, access) /\ given'[v] = [md5 |-> p, access |-> access]
      BY <2>1 DEF AddUser, AccountsInv, TypeOKAccounts, Table
    <3>2. [md5 |-> p, access |-> access] # NoUser
      <4>1. [md5 |-> p, access |-> access] \in [md5: Pass \cup {NoPass}, access: Granted]
        OBVIOUS
      <4>2. QED
        BY <4>1, SentinelAssumption
    <3>3. QED
      BY <3>1, <3>2 DEF NewEntry
  <2>2. CASE v # u
    <3>1. users'[v] = users[v] /\ given'[v] = given[v]
      BY <2>2 DEF AddUser, AccountsInv, TypeOKAccounts, Table
    <3>2. QED
      BY <3>1 DEF AccountsInv, GivenInv, Below
  <2>3. QED
    BY <2>1, <2>2
<1>5. ~cutUsers => Uncut(users')
  <2>1. \A v \in User : users'[v] = IF v = u THEN NewEntry(p, access) ELSE users[v]
    BY DEF AddUser, AccountsInv, TypeOKAccounts, Table
  <2>2. NewEntry(p, access).md5 # Garbled
    BY SentinelAssumption DEF NewEntry
  <2>3. QED
    BY <2>1, <2>2 DEF AccountsInv, UncutInv, Uncut
<1>6. QED
  BY <1>2, <1>3, <1>4, <1>5, SavedChange DEF AddUser

\* So does EditUser,
LEMMA EditUserStep ==
  ASSUME AccountsInv, NEW o \in Outcome, NEW c, NEW u \in User,
         NEW p \in Pass \cup {NoPass}, NEW access \in Grants,
         EditUser(c, u, p, access, o)
  PROVE  AccountsInv'
<1> DEFINE old == users[u]
           new == [old EXCEPT !.md5 = IF p = NoPass THEN old.md5 ELSE p,
                              !.access = access, !.mail = TRUE]
           gift == [md5 |-> IF p = NoPass /\ given[u] # NoUser THEN given[u].md5 ELSE p,
                    access |-> access]
<1>1. old \in Entry
  BY DEF EditUser, AccountsInv, TypeOKAccounts, Table
<1>2. new \in Entry /\ new.access = access
      /\ new.md5 = IF p = NoPass THEN old.md5 ELSE p
  BY <1>1 DEF Entry, Granted
<1>3. new # NoUser
  BY <1>2, SentinelAssumption
<1>4. users' = [users EXCEPT ![u] = new]
  BY DEF EditUser, AccountsInv, TypeOKAccounts, Table
<1>5. users' \in Table
  BY <1>2, <1>4 DEF AccountsInv, TypeOKAccounts, Table
<1>6. given' = [given EXCEPT ![u] = gift]
  BY DEF EditUser, AccountsInv, TypeOKAccounts
<1>7. gift \in [md5: Pass \cup {NoPass}, access: Granted]
  BY DEF Granted, AccountsInv, TypeOKAccounts
<1>8. gift # NoUser
  BY <1>7, SentinelAssumption
<1>9. given' \in Gifts
  BY <1>6, <1>7 DEF AccountsInv, TypeOKAccounts, Gifts
<1>10. ~oldUsers => Below(users', given')
  <2> SUFFICES ASSUME ~oldUsers, NEW v \in User, users'[v] # NoUser
               PROVE  /\ given'[v] # NoUser
                      /\ users'[v].md5 \in Pass => given'[v].md5 = users'[v].md5
                      /\ users'[v].access # NoAccess => given'[v].access = users'[v].access
    BY DEF Below
  <2>1. CASE v = u
    <3>1. users'[v] = new /\ given'[v] = gift
      BY <2>1, <1>4, <1>6 DEF AccountsInv, TypeOKAccounts, Table
    <3>2. old # NoUser
      BY DEF EditUser
    <3>3. given[u] # NoUser /\ (old.md5 \in Pass => given[u].md5 = old.md5)
      BY <3>2 DEF AccountsInv, GivenInv, Below
    <3>4. new.md5 \in Pass => gift.md5 = new.md5
      BY <1>2, <3>3
    <3>5. gift.access = new.access
      BY <1>2
    <3> HIDE DEF new, gift
    <3>6. QED
      BY <3>1, <3>4, <3>5, <1>8
  <2>2. CASE v # u
    <3>1. users'[v] = users[v] /\ given'[v] = given[v]
      BY <2>2, <1>4, <1>6 DEF AccountsInv, TypeOKAccounts, Table
    <3>2. QED
      BY <3>1 DEF AccountsInv, GivenInv, Below
  <2>3. QED
    BY <2>1, <2>2
<1>11. ~cutUsers => Uncut(users')
  <2>1. \A v \in User : users'[v] = IF v = u THEN new ELSE users[v]
    BY <1>4 DEF AccountsInv, TypeOKAccounts, Table
  <2>2. new.md5 = Garbled => old.md5 = Garbled
    BY <1>2, SentinelAssumption
  <2>3. old # NoUser
    BY DEF EditUser
  <2> HIDE DEF new
  <2>4. QED
    BY <2>1, <2>2, <2>3 DEF AccountsInv, UncutInv, Uncut
<1>12. QED
  BY <1>5, <1>9, <1>10, <1>11, SavedChange DEF EditUser

\* DeleteUser,
LEMMA DeleteUserStep ==
  ASSUME AccountsInv, NEW o \in Outcome, NEW c, NEW u \in User, DeleteUser(c, u, o)
  PROVE  AccountsInv'
<1>1. users' \in Table
  BY DEF DeleteUser, AccountsInv, TypeOKAccounts, Table
<1>2. given' \in Gifts
  BY DEF DeleteUser, AccountsInv, TypeOKAccounts, Gifts
<1>3. ~oldUsers => Below(users', given')
  BY DEF DeleteUser, AccountsInv, TypeOKAccounts, Table, GivenInv, Below
<1>4. ~cutUsers => Uncut(users')
  BY DEF DeleteUser, AccountsInv, TypeOKAccounts, Table, UncutInv, Uncut
<1>5. QED
  BY <1>1, <1>2, <1>3, <1>4, SavedChange DEF DeleteUser

\* and with them every change of accounts.
LEMMA ChangeAccountsStep ==
  ASSUME AccountsInv, ChangeAccounts
  PROVE  AccountsInv'
<1> SUFFICES ASSUME NEW c \in Requester, NEW u \in User, NEW o \in Outcome,
                    \/ \E p \in Pass, access \in Grants : CreateUser(c, u, p, access, o)
                    \/ \E p \in Pass \cup {NoPass}, access \in Grants :
                         EditUser(c, u, p, access, o)
                    \/ \E p \in Pass : SignUp(c, u, p, o)
                    \/ DeleteUser(c, u, o)
             PROVE  AccountsInv'
  BY DEF ChangeAccounts
<1>1. ASSUME NEW p \in Pass, NEW access \in Grants, CreateUser(c, u, p, access, o)
      PROVE  AccountsInv'
  BY <1>1, AddUserStep DEF CreateUser, Granted
<1>2. ASSUME NEW p \in Pass, SignUp(c, u, p, o)
      PROVE  AccountsInv'
  BY <1>2, AddUserStep DEF SignUp, Granted
<1>3. QED
  BY <1>1, <1>2, EditUserStep, DeleteUserStep

\* Steps that leave the table and its file alone.
LEMMA AccountsKept ==
  ASSUME AccountsInv, UNCHANGED accountVars,
         running' \in BOOLEAN, changes' \in Nat, faults' \in Nat
  PROVE  AccountsInv'
BY DEF AccountsInv, TypeOKAccounts, UsersSaved, GivenInv, Below, UncutInv, Uncut,
       accountVars

---------------------------------------------------------------------------
(***************************************************************************)
(* Comments and tags, likewise.                                            *)
(***************************************************************************)

Lists == [Hash -> Seq(Comment)]

CommentsInv ==
  /\ comments \in Lists /\ commentsFile \in Lists /\ seen \in Lists
  /\ lostComments \in BOOLEAN /\ shifted \in [Hash -> BOOLEAN] /\ posted \in Nat
  /\ lostComments \/ commentsFile = comments
  /\ PageHolds

TagsInv ==
  /\ tags \in [Hash -> Uploader \cup {NoTag}]
  /\ tagsFile \in [Hash -> Uploader \cup {NoTag}]
  /\ lostTags \in BOOLEAN
  /\ lostTags \/ tagsFile = tags

TorrentsInv == allowed \subseteq Hash /\ known \subseteq Hash

Inv == AccountsInv /\ CommentsInv /\ TagsInv /\ TorrentsInv

\* What leaves the variables of comments alone keeps what is known of them.
LEMMA CommentsKept ==
  ASSUME CommentsInv, UNCHANGED commentVars
  PROVE  CommentsInv'
BY DEF CommentsInv, commentVars, PageHolds, Lists

\* The same of tags.
LEMMA TagsKept ==
  ASSUME TagsInv, UNCHANGED tagVars
  PROVE  TagsInv'
BY DEF TagsInv, tagVars

\* A change of the comments is followed by saving them.
LEMMA SavedComments ==
  ASSUME CommentsInv, NEW o \in Outcome, SaveComments(o),
         comments' \in Lists, seen' \in Lists, shifted' \in [Hash -> BOOLEAN],
         posted' \in Nat, PageHolds'
  PROVE  CommentsInv'
<1>1. \/ o = "written" /\ commentsFile' = comments'
      \/ o = "unopened" /\ commentsFile' = commentsFile
      \/ o \in {"short", "crash"}
           /\ commentsFile' \in CutTable(comments', <<>>, HashBefore, CutList)
  BY FileAfterSplit DEF SaveComments
<1>2. commentsFile' \in Lists
  BY <1>1, CutCommentsType DEF CommentsInv, Lists
<1>3. QED
  BY <1>1, <1>2 DEF CommentsInv, SaveComments

\* So is a change of the tags.
LEMMA SavedTags ==
  ASSUME TagsInv, NEW o \in Outcome, SaveTags(o),
         tags' \in [Hash -> Uploader \cup {NoTag}]
  PROVE  TagsInv'
<1>1. \/ o = "written" /\ tagsFile' = tags'
      \/ o = "unopened" /\ tagsFile' = tagsFile
      \/ o \in {"short", "crash"}
           /\ tagsFile' \in CutTable(tags', NoTag, HashBefore, CutTag)
  BY FileAfterSplit DEF SaveTags
<1>2. tagsFile' \in [Hash -> Uploader \cup {NoTag}]
  BY <1>1, CutTagsType DEF TagsInv
<1>3. QED
  BY <1>1, <1>2 DEF TagsInv, SaveTags

---------------------------------------------------------------------------
(***************************************************************************)
(* Every step keeps the invariant.                                         *)
(***************************************************************************)

\* Looking at a page changes only what has been seen.
LEMMA ViewStep ==
  ASSUME Inv, NEW c, NEW h \in Hash, ViewComments(c, h)
  PROVE  Inv'
<1>1. AccountsInv'
  BY AccountsKept DEF Inv, ViewComments, accountsVars, accountVars, boundVars,
                      AccountsInv, TypeOKAccounts
<1>2. CommentsInv'
  <2>1. PageHolds'
    <3> SUFFICES ASSUME NEW g \in Hash, ~shifted'[g]
                 PROVE  /\ Len(seen'[g]) <= Len(comments'[g])
                        /\ \A n \in DOMAIN seen'[g] : comments'[g][n] = seen'[g][n]
      BY DEF PageHolds
    <3>1. CASE g = h
      <4>1. seen'[g] = comments'[g]
        BY <3>1 DEF ViewComments, Inv, CommentsInv, Lists
      <4>2. Len(comments'[g]) \in Nat
        BY LenProperties DEF ViewComments, Inv, CommentsInv, Lists
      <4>3. QED
        BY <4>1, <4>2
    <3>2. CASE g # h
      BY <3>2 DEF ViewComments, Inv, CommentsInv, Lists, PageHolds
    <3>3. QED
      BY <3>1, <3>2
  <2>2. QED
    BY <2>1 DEF ViewComments, Inv, CommentsInv, Lists
<1>3. TagsInv' /\ TorrentsInv'
  BY TagsKept DEF Inv, ViewComments, torrentVars, TorrentsInv
<1>4. QED
  BY <1>1, <1>2, <1>3 DEF Inv

\* A change of comments leaves accounts, tags and torrents alone.
LEMMA CommentStepRest ==
  ASSUME Inv, NEW o \in Outcome, CommentStep(o)
  PROVE  AccountsInv' /\ TagsInv' /\ TorrentsInv'
<1>1. AccountsInv'
  BY AccountsKept, CountChangeType DEF CommentStep, Inv, AccountsInv
<1>2. QED
  BY <1>1, TagsKept DEF CommentStep, Inv, torrentVars, TorrentsInv

\* A comment posted under the next number keeps the numbering right.
LEMMA PostStep ==
  ASSUME Inv, NEW o \in Outcome, NEW c, NEW h \in Hash, PostComment(c, h, o)
  PROVE  Inv'
<1> DEFINE new == Append(comments[h], [id |-> posted, whole |-> TRUE])
<1>1. comments[h] \in Seq(Comment) /\ [id |-> posted, whole |-> TRUE] \in Comment
  BY DEF Inv, CommentsInv, Lists, Comment
<1>2. /\ new \in Seq(Comment)
      /\ Len(new) = Len(comments[h]) + 1
      /\ \A n \in 1..Len(comments[h]) : new[n] = comments[h][n]
      /\ Len(comments[h]) \in Nat
  BY <1>1, AppendProperties, LenProperties
<1> HIDE DEF new
<1>3. comments' = [comments EXCEPT ![h] = new]
  BY DEF PostComment, new, Inv, CommentsInv, Lists
<1>4. comments' \in Lists
  BY <1>2, <1>3 DEF Inv, CommentsInv, Lists
<1>5. PageHolds'
  <2> SUFFICES ASSUME NEW g \in Hash, ~shifted'[g]
               PROVE  /\ Len(seen'[g]) <= Len(comments'[g])
                      /\ \A n \in DOMAIN seen'[g] : comments'[g][n] = seen'[g][n]
    BY DEF PageHolds
  <2>1. /\ Len(seen[g]) <= Len(comments[g])
        /\ \A n \in DOMAIN seen[g] : comments[g][n] = seen[g][n]
        /\ seen'[g] = seen[g]
    BY DEF PostComment, Inv, CommentsInv, PageHolds
  <2>2. CASE g = h
    <3>1. comments'[g] = new
      BY <1>3, <2>2 DEF Inv, CommentsInv, Lists
    <3>2. Len(seen[g]) \in Nat /\ DOMAIN seen[g] = 1..Len(seen[g])
      BY LenProperties DEF Inv, CommentsInv, Lists
    <3>3. QED
      BY <1>2, <2>1, <2>2, <3>1, <3>2
  <2>3. CASE g # h
    BY <1>3, <2>1, <2>3 DEF Inv, CommentsInv, Lists
  <2>4. QED
    BY <2>2, <2>3
<1>6. CommentsInv'
  <2>1. posted' \in Nat /\ seen' \in Lists /\ shifted' \in [Hash -> BOOLEAN]
    BY DEF PostComment, Inv, CommentsInv
  <2>2. CommentsInv /\ SaveComments(o)
    BY DEF PostComment, CommentStep, Inv
  <2>3. QED
    BY <1>4, <1>5, <2>1, <2>2, SavedComments
<1>7. QED
  BY <1>6, CommentStepRest DEF PostComment, Inv

\* A removal makes no promise about the page of its torrent any more.
LEMMA RemovalStep ==
  ASSUME Inv, NEW o \in Outcome, NEW h \in Hash, NEW rest \in Seq(Comment),
         comments' = [comments EXCEPT ![h] = rest],
         shifted' = [shifted EXCEPT ![h] = TRUE],
         CommentStep(o), UNCHANGED <<seen, posted>>
  PROVE  Inv'
<1>1. PageHolds'
  BY DEF PageHolds, Inv, CommentsInv, Lists
<1>2. CommentsInv'
  BY <1>1, SavedComments DEF CommentStep, Inv, CommentsInv, Lists
<1>3. QED
  BY <1>2, CommentStepRest DEF Inv

\* Deleting a comment shifts those after it.
LEMMA DeleteCommentStep ==
  ASSUME Inv, NEW o \in Outcome, NEW c, NEW h \in Hash,
         NEW n \in DOMAIN comments[h], DeleteComment(c, h, n, o)
  PROVE  Inv'
<1> DEFINE list == comments[h]
           rest == SubSeq(list, 1, n - 1) \o SubSeq(list, n + 1, Len(list))
<1>1. list \in Seq(Comment) /\ Len(list) \in Nat /\ n \in 1..Len(list)
  BY LenProperties DEF Inv, CommentsInv, Lists
<1>2. SubSeq(list, 1, n - 1) \in Seq(Comment)
  BY <1>1, SubSeqProperties
<1>3. SubSeq(list, n + 1, Len(list)) \in Seq(Comment)
  BY <1>1, SubSeqProperties
<1>4. rest \in Seq(Comment)
  BY <1>2, <1>3, ConcatProperties
<1>5. comments' = [comments EXCEPT ![h] = rest]
  BY DEF DeleteComment, Inv, CommentsInv, Lists
<1> HIDE DEF rest
<1>6. QED
  BY <1>4, <1>5, RemovalStep DEF DeleteComment

\* Deleting all of them starts again at the first number.
LEMMA DeleteAllStep ==
  ASSUME Inv, NEW o \in Outcome, NEW c, NEW h \in Hash, DeleteAllComments(c, h, o)
  PROVE  Inv'
<1>1. <<>> \in Seq(Comment)
  BY EmptySeq
<1>2. QED
  BY <1>1, RemovalStep DEF DeleteAllComments

\* Steps that change a tag and save the tags.
LEMMA TagStepInv ==
  ASSUME Inv, NEW o \in Outcome, TagStep(o),
         tags' \in [Hash -> Uploader \cup {NoTag}], TorrentsInv'
  PROVE  Inv'
<1>1. AccountsInv'
  BY AccountsKept, CountChangeType DEF TagStep, Inv, AccountsInv
<1>2. CommentsInv' /\ TagsInv'
  BY CommentsKept, SavedTags DEF TagStep, Inv
<1>3. QED
  BY <1>1, <1>2 DEF Inv

\* addTag: what it stores is a login, or the word it keeps for nobody.
LEMMA AddTagType ==
  ASSUME Inv, NEW c \in Requester, NEW h \in Hash, AddTag(c, h)
  PROVE  tags' \in [Hash -> Uploader \cup {NoTag}]
<1>1. ASSUME Matches(c) PROVE c[1] \in User
  BY <1>1 DEF Requester, Credential, Matches
<1>2. QED
  BY <1>1 DEF AddTag, Inv, TagsInv, Uploader

\* An upload adds the torrent and its tag.
LEMMA UploadStep ==
  ASSUME Inv, NEW o \in Outcome, NEW c \in Requester, NEW h \in Hash, Upload(c, h, o)
  PROVE  Inv'
<1>1. TorrentsInv'
  BY DEF Upload, Inv, TorrentsInv, torrentVars
<1>2. tags' \in [Hash -> Uploader \cup {NoTag}]
  BY AddTagType DEF Upload
<1>3. QED
  BY <1>1, <1>2, TagStepInv DEF Upload

\* An edit of the tag changes one tag of a torrent that is there.
LEMMA EditTagStep ==
  ASSUME Inv, NEW o \in Outcome, NEW c, NEW h \in Hash, NEW uploader \in Uploader,
         EditTag(c, h, uploader, o)
  PROVE  Inv'
<1>1. TorrentsInv'
  BY DEF EditTag, Inv, TorrentsInv, torrentVars
<1>2. tags' \in [Hash -> Uploader \cup {NoTag}]
  BY DEF EditTag, Inv, TagsInv, Uploader
<1>3. QED
  BY <1>1, <1>2, TagStepInv DEF EditTag

\* Deleting a torrent takes its comments and its tag with it.
LEMMA DeleteTorrentStep ==
  ASSUME Inv, NEW o \in Outcome, NEW h \in Hash, DeleteTorrent(h, o)
  PROVE  Inv'
<1>1. TorrentsInv'
  BY DEF DeleteTorrent, Inv, TorrentsInv
<1>2. tags' \in [Hash -> Uploader \cup {NoTag}]
  BY DEF DeleteTorrent, Inv, TagsInv
<1>3. QED
  BY <1>1, <1>2, TagStepInv DEF DeleteTorrent

\* Announces, the expiry and the scan of the directory.
LEMMA TorrentStep ==
  ASSUME Inv, UNCHANGED <<accountsVars, commentVars, tagVars>>,
         allowed' \subseteq Hash, known' \subseteq Hash
  PROVE  Inv'
<1>1. AccountsInv'
  BY AccountsKept DEF Inv, accountsVars, boundVars, AccountsInv, TypeOKAccounts
<1>2. CommentsInv' /\ TagsInv'
  BY CommentsKept, TagsKept DEF Inv
<1>3. QED
  BY <1>1, <1>2 DEF Inv, TorrentsInv

\* The end of the process without its destructor.
LEMMA DeathStep ==
  ASSUME Inv, running' = FALSE, UNCHANGED <<accountVars, boundVars, notesVars>>
  PROVE  Inv'
<1>1. AccountsInv'
  BY AccountsKept DEF Inv, boundVars, AccountsInv, TypeOKAccounts
<1>2. CommentsInv' /\ TagsInv'
  BY CommentsKept, TagsKept DEF Inv, notesVars
<1>3. QED
  BY <1>1, <1>2 DEF Inv, TorrentsInv, notesVars, torrentVars

\* An exit saves the comments and then the tags, unless it crashes in between.
LEMMA ExitStep ==
  ASSUME Inv, NEW first \in Outcome, NEW second \in Outcome, Exit(first, second)
  PROVE  Inv'
<1>1. AccountsInv'
  <2>1. FaultsOf(first) \in Nat /\ FaultsOf(second) \in Nat
    BY DEF FaultsOf
  <2>2. running' = FALSE /\ UNCHANGED accountVars /\ changes' = changes
    BY DEF Exit, StopAccounts
  <2>3. faults' \in Nat /\ changes' \in Nat
    BY <2>1, <2>2 DEF Exit, Inv, AccountsInv, TypeOKAccounts
  <2>4. QED
    BY <2>2, <2>3, AccountsKept DEF Inv
<1>2. PageHolds'
  BY DEF Exit, Inv, CommentsInv, PageHolds
<1>3. CommentsInv'
  <2>1. /\ comments' \in Lists /\ seen' \in Lists /\ posted' \in Nat
        /\ shifted' \in [Hash -> BOOLEAN] /\ SaveComments(first) /\ CommentsInv
    BY DEF Exit, Inv, CommentsInv
  <2>2. QED
    BY <1>2, <2>1, SavedComments
<1>4. TagsInv'
  <2>1. CASE first = "crash"
    BY <2>1, TagsKept DEF Exit, Inv, tagVars
  <2>2. CASE first # "crash"
    <3>1. tags' \in [Hash -> Uploader \cup {NoTag}] /\ SaveTags(second) /\ TagsInv
      BY <2>2 DEF Exit, Inv, TagsInv
    <3>2. QED
      BY <3>1, SavedTags
  <2>3. QED
    BY <2>1, <2>2
<1>5. QED
  BY <1>1, <1>3, <1>4 DEF Exit, Inv, TorrentsInv, torrentVars

\* The constructor takes what the files hold, which the invariant has been
\* told of.
LEMMA StartStep ==
  ASSUME Inv, Start
  PROVE  Inv'
<1>1. AccountsInv'
  BY DEF Start, StartAccounts, Inv, AccountsInv, TypeOKAccounts, UsersSaved,
         GivenInv, Below, UncutInv, Uncut, boundVars
<1>2. CommentsInv'
  <2>1. shifted' \in [Hash -> BOOLEAN]
    BY DEF Start, Inv, CommentsInv
  <2>2. PageHolds'
    BY DEF Start, Inv, CommentsInv, PageHolds
  <2>3. QED
    BY <2>1, <2>2 DEF Start, Inv, CommentsInv
<1>3. TagsInv' /\ TorrentsInv'
  BY DEF Start, Inv, TagsInv, TorrentsInv
<1>4. QED
  BY <1>1, <1>2, <1>3 DEF Inv

\* The invariant holds at first,
LEMMA InitInv == Init => Inv
<1> SUFFICES ASSUME Init PROVE Inv
  OBVIOUS
<1>1. ASSUME NEW u \in User, usersFile[u] # NoUser
      PROVE  /\ usersFile[u] \in Entry /\ Complete(usersFile[u])
             /\ [md5 |-> usersFile[u].md5, access |-> usersFile[u].access]
                  \in [md5: Pass \cup {NoPass}, access: Granted]
  BY <1>1, LoadedAssumption DEF Init, InitAccounts, Table, Entry, Complete
<1>2. given \in Gifts
  BY <1>1 DEF Init, InitAccounts, Gifts
<1>3. Below(usersFile, given)
  BY <1>1, SentinelAssumption DEF Init, InitAccounts, Below
<1>3a. Uncut(usersFile)
  BY <1>1, SentinelAssumption DEF Uncut, Complete
<1>4. AccountsInv
  BY <1>2, <1>3, <1>3a, LoadedAssumption
     DEF AccountsInv, TypeOKAccounts, UsersSaved, GivenInv, UncutInv, Init, InitAccounts,
         Gifts
<1>5. CommentsInv
  <2>1. <<>> \in Seq(Comment) /\ Len(<<>>) = 0
    BY EmptySeq
  <2>2. comments \in Lists
    BY <2>1 DEF Init, Lists
  <2>3. PageHolds
    <3>1. \A h \in Hash : Len(comments[h]) = 0
      BY <2>1 DEF Init
    <3>2. QED
      BY <3>1 DEF Init, PageHolds
  <2>4. QED
    BY <2>2, <2>3 DEF Init, CommentsInv
<1>6. TagsInv /\ TorrentsInv
  BY DEF Init, TagsInv, TorrentsInv
<1>7. QED
  BY <1>4, <1>5, <1>6 DEF Inv

\* and every step keeps it.
LEMMA StepInv ==
  ASSUME Inv, [Next]_siteVars
  PROVE  Inv'
<1>1. CASE ChangeAccounts /\ UNCHANGED notesVars
  BY <1>1, ChangeAccountsStep, CommentsKept, TagsKept
     DEF Inv, notesVars, torrentVars, TorrentsInv
<1>2. ASSUME NEW c \in Requester, PageCrash(c)
      PROVE  Inv'
  BY <1>2, DeathStep DEF PageCrash, CrashingLogin, CrashingUsersPage
<1>3. ASSUME NEW c \in Requester, NEW h \in Hash, ViewComments(c, h)
      PROVE  Inv'
  BY <1>3, ViewStep
<1>4. ASSUME NEW c \in Requester, NEW h \in Hash, NEW o \in Outcome,
             \/ PostComment(c, h, o)
             \/ \E n \in DOMAIN comments[h] : DeleteComment(c, h, n, o)
             \/ DeleteAllComments(c, h, o)
      PROVE  Inv'
  BY <1>4, PostStep, DeleteCommentStep, DeleteAllStep
<1>5. ASSUME NEW c \in Requester, NEW h \in Hash, NEW o \in Outcome,
             \/ Upload(c, h, o)
             \/ \E uploader \in Uploader : EditTag(c, h, uploader, o)
             \/ IndexDelete(c, h, o)
             \/ LoginDelete(c, h, o)
      PROVE  Inv'
  BY <1>5, UploadStep, EditTagStep, DeleteTorrentStep DEF IndexDelete, LoginDelete
<1>6. ASSUME NEW h \in Hash, Announced(h) \/ Expired(h)
      PROVE  Inv'
  <2>1. UNCHANGED <<accountsVars, commentVars, tagVars>>
    BY <1>6 DEF Announced, Expired
  <2>2. allowed' \subseteq Hash /\ known' \subseteq Hash
    BY <1>6 DEF Announced, Expired, Inv, TorrentsInv
  <2>3. QED
    BY <2>1, <2>2, TorrentStep
<1>7. ASSUME NEW files \in SUBSET Hash, Scan(files)
      PROVE  Inv'
  <2>1. UNCHANGED <<accountsVars, commentVars, tagVars>>
    BY <1>7 DEF Scan
  <2>2. allowed' \subseteq Hash /\ known' \subseteq Hash
    BY <1>7 DEF Scan, Inv, TorrentsInv
  <2>3. QED
    BY <2>1, <2>2, TorrentStep
<1>8. CASE Crash
  BY <1>8, DeathStep DEF Crash, StopAccounts
<1>9. ASSUME NEW first \in Outcome, NEW second \in Outcome, Exit(first, second)
      PROVE  Inv'
  BY <1>9, ExitStep
<1>10. CASE Start
  BY <1>10, StartStep
<1>11. CASE UNCHANGED siteVars
  BY <1>11, AccountsKept, CommentsKept, TagsKept
     DEF Inv, AccountsInv, TypeOKAccounts, TorrentsInv, siteVars, accountsVars,
         boundVars, notesVars, torrentVars
<1>12. QED
  BY <1>1, <1>2, <1>3, <1>4, <1>5, <1>6, <1>7, <1>8, <1>9, <1>10, <1>11 DEF Next

\* The conjunction of what is only typed, what is saved, what is below what
\* was given and what a moderator's page promises is inductive.
THEOREM Inductive == Spec => []Inv
BY InitInv, StepInv, PTL DEF Spec

---------------------------------------------------------------------------
(***************************************************************************)
(* What follows.                                                           *)
(***************************************************************************)

\* Tables and files hold what their readers expect, whatever has been cut.
THEOREM TypeCorrect == Spec => []TypeOK
<1>1. Inv => TypeOK
  BY DEF Inv, AccountsInv, CommentsInv, TagsInv, TorrentsInv, TypeOK, Lists
<1>2. QED
  BY <1>1, Inductive, PTL

\* A crash between two saves loses nothing of a table whose file has a name.
THEOREM EverythingSavedAlways == Spec => []EverythingSaved
<1>1. Inv => EverythingSaved
  BY DEF Inv, AccountsInv, CommentsInv, TagsInv, EverythingSaved
<1>2. QED
  BY <1>1, Inductive, PTL

\* Wherever the file has been cut, a login has the rights it was given last and
\* answers to the password it was given last; to something that is no digest
\* only once the file has been cut.
THEOREM LoginAsGivenAlways == Spec => []LoginAsGiven
<1>1. Inv => LoginAsGiven
  <2> SUFFICES ASSUME Inv, ~oldUsers, NEW c \in Credential, Matches(c)
               PROVE  /\ given[c[1]] # NoUser
                      /\ given[c[1]].access = Access(c)
                      /\ \/ given[c[1]].md5 = c[2]
                         \/ c[2] = Garbled /\ cutUsers
    BY DEF LoginAsGiven
  <2>1. c[1] \in User /\ c[2] \in Pass \cup {Garbled}
    BY DEF Credential
  <2>2. Below(users, given)
    BY DEF Inv, AccountsInv, GivenInv
  <2>3. /\ users[c[1]] # NoUser /\ users[c[1]].md5 = c[2]
        /\ users[c[1]].access # NoAccess /\ Access(c) = users[c[1]].access
    BY DEF Matches, Access
  <2>4. given[c[1]] # NoUser /\ given[c[1]].access = Access(c)
    BY <2>1, <2>2, <2>3 DEF Below
  <2>5. CASE c[2] \in Pass
    BY <2>1, <2>2, <2>3, <2>4, <2>5 DEF Below
  <2>6. CASE c[2] = Garbled
    BY <2>1, <2>3, <2>4, <2>6 DEF Inv, AccountsInv, UncutInv, Uncut
  <2>7. QED
    BY <2>1, <2>5, <2>6
<1>2. QED
  BY <1>1, Inductive, PTL

\* The numbers on a moderator's page hold until a comment is removed.
THEOREM PageHoldsAlways == Spec => []PageHolds
<1>1. Inv => PageHolds
  BY DEF Inv, CommentsInv
<1>2. QED
  BY <1>1, Inductive, PTL

\* Requests that add an entry take the rights of nobody who has some.
LEMMA AdminKept ==
  ASSUME Inv, NEW u \in User, users[u] = NoUser, ~Vacant(users), NEW e,
         users' = [users EXCEPT ![u] = e], CanAdmin
  PROVE  CanAdmin'
<1>1. CASE "admin" \in GuestAccess
  BY <1>1 DEF CanAdmin
<1>2. ASSUME NEW c \in User \X Pass, Matches(c), ~LoginCrashes(c), "admin" \in Access(c)
      PROVE  CanAdmin'
  <2>1. c[1] \in User /\ c[1] # u
    BY <1>2 DEF Matches
  <2>2. users'[c[1]] = users[c[1]]
    BY <2>1 DEF Inv, AccountsInv, TypeOKAccounts, Table
  <2>3. Matches(c)' /\ ~LoginCrashes(c)' /\ "admin" \in Access(c)'
    BY <1>2, <2>2 DEF Matches, LoginCrashes, Access
  <2>4. QED
    BY <2>3 DEF CanAdmin
<1>3. QED
  BY <1>1, <1>2 DEF CanAdmin

\* The ways in which the last administrator is lost.
Excused ==
  \/ ~running /\ lostUsers
  \/ running /\ Vacant(users)
  \/ \E c \in Requester, u \in User, outcome \in Outcome :
       /\ "admin" \in Access(c)
       /\ \/ DeleteUser(c, u, outcome)
          \/ \E p \in Pass \cup {NoPass}, access \in Grants :
               EditUser(c, u, p, access, outcome)

\* Only a change that is excused takes the last administrator away.
LEMMA LockedOutChange ==
  ASSUME Inv, ChangeAccounts, CanAdmin, ~CanAdmin'
  PROVE  Excused
<1> PICK c \in Requester, u \in User, o \in Outcome :
      \/ \E p \in Pass, access \in Grants : CreateUser(c, u, p, access, o)
      \/ \E p \in Pass \cup {NoPass}, access \in Grants :
           EditUser(c, u, p, access, o)
      \/ \E p \in Pass : SignUp(c, u, p, o)
      \/ DeleteUser(c, u, o)
  BY DEF ChangeAccounts
<1>1. ASSUME NEW p \in Pass, NEW access \in Granted, users[u] = NoUser, running,
             AddUser(u, p, access, o)
      PROVE  Excused
  <2>1. users' = [users EXCEPT ![u] = NewEntry(p, access)]
    BY <1>1 DEF AddUser
  <2>2. Vacant(users)
    BY <1>1, <2>1, AdminKept
  <2>3. QED
    BY <1>1, <2>2 DEF Excused
<1>2. ASSUME NEW p \in Pass, NEW access \in Grants, CreateUser(c, u, p, access, o)
      PROVE  Excused
  BY <1>1, <1>2 DEF CreateUser, May, Granted
<1>3. ASSUME NEW p \in Pass, SignUp(c, u, p, o)
      PROVE  Excused
  BY <1>1, <1>3 DEF SignUp, May, Granted
<1>4. CASE \E p \in Pass \cup {NoPass}, access \in Grants : EditUser(c, u, p, access, o)
  <2>1. "admin" \in Access(c)
    BY <1>4 DEF EditUser, May
  <2>2. QED
    BY <1>4, <2>1 DEF Excused
<1>5. CASE DeleteUser(c, u, o)
  <2>1. "admin" \in Access(c)
    BY <1>5 DEF DeleteUser, May
  <2>2. QED
    BY <1>5, <2>1 DEF Excused
<1>6. QED
  BY <1>2, <1>3, <1>4, <1>5

\* Every other step but the start leaves the table alone.
LEMMA UsersLeftAlone ==
  ASSUME [Next]_siteVars
  PROVE  \/ ChangeAccounts
         \/ Start
         \/ UNCHANGED users
<1>1. ASSUME NEW c \in Requester, PageCrash(c) PROVE UNCHANGED users
  BY <1>1 DEF PageCrash, accountVars
<1>2. ASSUME NEW c \in Requester, NEW h \in Hash, ViewComments(c, h)
      PROVE  UNCHANGED users
  BY <1>2 DEF ViewComments, accountsVars, accountVars
<1>3. ASSUME NEW c \in Requester, NEW h \in Hash, NEW o \in Outcome,
             \/ PostComment(c, h, o)
             \/ \E n \in DOMAIN comments[h] : DeleteComment(c, h, n, o)
             \/ DeleteAllComments(c, h, o)
      PROVE  UNCHANGED users
  BY <1>3 DEF PostComment, DeleteComment, DeleteAllComments, CommentStep, accountVars
<1>4. ASSUME NEW c \in Requester, NEW h \in Hash, NEW o \in Outcome,
             \/ Upload(c, h, o)
             \/ \E uploader \in Uploader : EditTag(c, h, uploader, o)
             \/ IndexDelete(c, h, o)
             \/ LoginDelete(c, h, o)
      PROVE  UNCHANGED users
  BY <1>4 DEF Upload, EditTag, IndexDelete, LoginDelete, DeleteTorrent, TagStep, accountVars
<1>5. ASSUME NEW h \in Hash, Announced(h) \/ Expired(h) PROVE UNCHANGED users
  BY <1>5 DEF Announced, Expired, accountsVars, accountVars
<1>6. ASSUME NEW files \in SUBSET Hash, Scan(files) PROVE UNCHANGED users
  BY <1>6 DEF Scan, accountsVars, accountVars
<1>7. CASE Crash
  BY <1>7 DEF Crash, StopAccounts, accountVars
<1>8. ASSUME NEW first \in Outcome, NEW second \in Outcome, Exit(first, second)
      PROVE  UNCHANGED users
  BY <1>8 DEF Exit, StopAccounts, accountVars
<1>9. CASE UNCHANGED siteVars
  BY <1>9 DEF siteVars, accountsVars, accountVars
<1>10. QED
  BY <1>1, <1>2, <1>3, <1>4, <1>5, <1>6, <1>7, <1>8, <1>9 DEF Next

\* Who locks the administrators out: someone who signs up first, one of them,
\* or a damaged file.
THEOREM LockedOutAlways == Spec => LockedOut
<1>1. ASSUME Inv, [Next]_siteVars, CanAdmin, ~CanAdmin'
      PROVE  Excused
  <2>1. CASE ChangeAccounts
    BY <1>1, <2>1, LockedOutChange
  <2>2. CASE UNCHANGED users
    <3>1. CanAdmin' = CanAdmin
      BY <2>2 DEF CanAdmin, Vacant, Matches, LoginCrashes, Access
    <3>2. QED
      BY <1>1, <3>1
  <2>3. CASE Start
    <3>1. CASE lostUsers
      BY <2>3, <3>1 DEF Start, StartAccounts, Excused
    <3>2. CASE ~lostUsers
      <4>1. UNCHANGED users
        BY <1>1, <2>3, <3>2 DEF Inv, AccountsInv, UsersSaved, Start, StartAccounts
      <4>2. QED
        BY <2>2, <4>1
    <3>3. QED
      BY <3>1, <3>2
  <2>4. QED
    BY <1>1, <2>1, <2>2, <2>3, UsersLeftAlone
<1>2. Inv /\ [Next]_siteVars => [CanAdmin /\ ~CanAdmin' => Excused]_accountsVars
  BY <1>1
<1>3. QED
  BY <1>2, Inductive, PTL DEF Spec, LockedOut, Excused

---------------------------------------------------------------------------

\* The ways in which an uploader loses a torrent.
Parted(h) ==
  \/ ~running /\ lostTags
  \/ h \notin known /\ tags'[h] \in User
  \/ \E c \in Requester :
       /\ \/ May(c, "view") /\ May(c, "edit")
          \/ running /\ Matches(c) /\ c[1] = tags[h] /\ tags'[h] = NoTag
       /\ \/ tags'[h] \notin {NoTag, Nobody}
          \/ tags'[h] = NoTag /\ h \notin known'

\* A request that changes the user in a tag is one that may.
LEMMA PartedByRequest ==
  ASSUME Inv, NEW c \in Requester, NEW h \in Hash, NEW o \in Outcome,
         \/ Upload(c, h, o)
         \/ \E uploader \in Uploader : EditTag(c, h, uploader, o)
         \/ IndexDelete(c, h, o)
         \/ LoginDelete(c, h, o),
         NEW g \in Hash, tags[g] \in User, tags'[g] # tags[g]
  PROVE  Parted(g)
<1> USE DEF Inv, TagsInv
<1>1. ASSUME Upload(c, h, o)
      PROVE  Parted(g)
  <2>1. ASSUME Matches(c) PROVE c[1] \in User
    BY <2>1 DEF Requester, Credential, Matches
  <2>2. g = h /\ tags'[g] \in User
    BY <1>1, <2>1, NotesAssumption DEF Upload, AddTag, Uploader
  <2>3. QED
    BY <1>1, <2>2 DEF Upload, Parted
<1>2. ASSUME NEW uploader \in Uploader, EditTag(c, h, uploader, o)
      PROVE  Parted(g)
  <2>1. g = h /\ tags'[g] = uploader /\ uploader \notin {NoTag, Nobody}
    BY <1>2, NotesAssumption DEF EditTag, Uploader
  <2>2. QED
    BY <1>2, <2>1 DEF EditTag, Parted
<1>3. ASSUME IndexDelete(c, h, o)
      PROVE  Parted(g)
  <2>1. g = h /\ tags'[g] = NoTag /\ h \notin known'
    BY <1>3 DEF IndexDelete, DeleteTorrent
  <2>2. QED
    BY <1>3, <2>1 DEF IndexDelete, Parted
<1>4. ASSUME LoginDelete(c, h, o)
      PROVE  Parted(g)
  <2>1. g = h /\ tags'[g] = NoTag /\ h \notin known'
    BY <1>4 DEF LoginDelete, DeleteTorrent
  <2>2. running /\ Matches(c) /\ c[1] = tags[g]
    BY <1>4, <2>1, NotesAssumption DEF LoginDelete, MayDeleteOwn, Uploader
  <2>3. QED
    BY <2>1, <2>2 DEF Parted
<1>5. QED
  BY <1>1, <1>2, <1>3, <1>4

\* Every other step but the start leaves the tags alone.
LEMMA TagsLeftAlone ==
  ASSUME [Next]_siteVars
  PROVE  \/ \E c \in Requester, h \in Hash, o \in Outcome :
              \/ Upload(c, h, o)
              \/ \E uploader \in Uploader : EditTag(c, h, uploader, o)
              \/ IndexDelete(c, h, o)
              \/ LoginDelete(c, h, o)
         \/ Start
         \/ UNCHANGED tags
<1>1. CASE ChangeAccounts /\ UNCHANGED notesVars
  BY <1>1 DEF notesVars, tagVars
<1>2. ASSUME NEW c \in Requester, PageCrash(c) PROVE UNCHANGED tags
  BY <1>2 DEF PageCrash, notesVars, tagVars
<1>3. ASSUME NEW c \in Requester, NEW h \in Hash, ViewComments(c, h) PROVE UNCHANGED tags
  BY <1>3 DEF ViewComments, tagVars
<1>4. ASSUME NEW c \in Requester, NEW h \in Hash, NEW o \in Outcome,
             \/ PostComment(c, h, o)
             \/ \E n \in DOMAIN comments[h] : DeleteComment(c, h, n, o)
             \/ DeleteAllComments(c, h, o)
      PROVE  UNCHANGED tags
  BY <1>4 DEF PostComment, DeleteComment, DeleteAllComments, CommentStep, tagVars
<1>5. ASSUME NEW h \in Hash, Announced(h) \/ Expired(h) PROVE UNCHANGED tags
  BY <1>5 DEF Announced, Expired, tagVars
<1>6. ASSUME NEW files \in SUBSET Hash, Scan(files) PROVE UNCHANGED tags
  BY <1>6 DEF Scan, tagVars
<1>7. CASE Crash
  BY <1>7 DEF Crash, notesVars, tagVars
<1>8. ASSUME NEW first \in Outcome, NEW second \in Outcome, Exit(first, second)
      PROVE  UNCHANGED tags
  BY <1>8 DEF Exit
<1>9. CASE UNCHANGED siteVars
  BY <1>9 DEF siteVars, notesVars, tagVars
<1>10. QED
  BY <1>1, <1>2, <1>3, <1>4, <1>5, <1>6, <1>7, <1>8, <1>9 DEF Next

\* An uploader loses a torrent to another upload of it while it is unknown, to
\* a moderator, by deleting it, or to a damaged file.
THEOREM UploaderKeptAlways == Spec => UploaderKept
<1>1. ASSUME Inv, [Next]_siteVars, NEW h \in Hash, tags[h] \in User, tags'[h] # tags[h]
      PROVE  Parted(h)
  <2>1. CASE Start
    BY <1>1, <2>1 DEF Start, StartAccounts, Parted, Inv, TagsInv
  <2>2. QED
    BY <1>1, <2>1, TagsLeftAlone, PartedByRequest
<1>2. Inv /\ [Next]_siteVars
        => [\A h \in Hash : tags[h] \in User /\ tags'[h] # tags[h] => Parted(h)]_siteVars
  BY <1>1
<1>3. QED
  BY <1>2, Inductive, PTL DEF Spec, UploaderKept, Parted
---------------------------------------------------------------------------
(***************************************************************************)
(* The codec: the digits of a number, which sprintf writes.                *)
(***************************************************************************)

\* Numbers and their last digits.
LEMMA DivideByTen ==
  ASSUME NEW n \in Nat
  PROVE  /\ n \div 10 \in Nat /\ n % 10 \in 0..9
         /\ n = 10 * (n \div 10) + (n % 10)
         /\ n >= 10 => n \div 10 < n
<1>1. \E q \in Nat, r \in 0..9 : n = q * 10 + r /\ q = n \div 10 /\ r = n % 10
  BY Z3
<1>2. QED
  BY <1>1

DecimalStep(f, n) ==
  IF n < 10 THEN <<Digit[n + 1]>> ELSE Append(f[n \div 10], Digit[(n % 10) + 1])

\* The recursive function exists as far as any number,
LEMMA DecimalsExist ==
  ASSUME NEW n \in Nat
  PROVE  \E f : f = [k \in 0..n |-> DecimalStep(f, k)]
<1> DEFINE Good == {m \in Nat : \E f : f = [k \in 0..m |-> DecimalStep(f, k)]}
<1>1. 0 \in Good
  <2> DEFINE f == [k \in 0..0 |-> <<Digit[1]>>]
  <2>1. \A k \in 0..0 : k = 0
    OBVIOUS
  <2>2. f = [k \in 0..0 |-> DecimalStep(f, k)]
    BY <2>1 DEF DecimalStep
  <2>3. QED
    BY <2>2
<1>2. ASSUME NEW m \in Nat, m \in Good
      PROVE  m + 1 \in Good
  <2>1. PICK f : f = [k \in 0..m |-> DecimalStep(f, k)]
    BY <1>2
  <2> DEFINE g == [k \in 0..(m + 1) |-> DecimalStep(f, k)]
  <2>2. \A k \in 0..m : f[k] = DecimalStep(f, k)
    BY <2>1, Zenon
  <2>3. \A k \in 0..m : g[k] = f[k]
    BY <2>2
  <2>4. \A k \in 0..(m + 1) : k >= 10 => k \div 10 \in 0..m
    <3>1. TAKE k \in 0..(m + 1)
    <3>2. k \in Nat
      OBVIOUS
    <3>3. QED
      BY <3>2, DivideByTen
  <2>5. \A k \in 0..(m + 1) : DecimalStep(f, k) = DecimalStep(g, k)
    <3> HIDE DEF g
    <3>1. TAKE k \in 0..(m + 1)
    <3>2. CASE k < 10
      BY <3>2 DEF DecimalStep
    <3>3. CASE ~(k < 10)
      <4>1. g[k \div 10] = f[k \div 10]
        BY <3>3, <2>3, <2>4
      <4>2. QED
        BY <3>3, <4>1 DEF DecimalStep
    <3>4. QED
      BY <3>2, <3>3
  <2>6. \E h : h = [k \in 0..(m + 1) |-> DecimalStep(h, k)]
    <3> DEFINE h == g
    <3>1. h = [k \in 0..(m + 1) |-> DecimalStep(h, k)]
      <4>1. \A k \in 0..(m + 1) : DecimalStep(f, k) = DecimalStep(h, k)
        BY <2>5
      <4>2. h = [k \in 0..(m + 1) |-> DecimalStep(f, k)]
        OBVIOUS
      <4> HIDE DEF h
      <4>3. QED
        BY <4>1, <4>2, Zenon
    <3> HIDE DEF h
    <3>2. QED
      BY <3>1, Zenon
  <2>7. QED
    BY <2>6
<1>3. Nat \subseteq Good
  <2> HIDE DEF Good
  <2>1. QED
    BY <1>1, <1>2, SetInduction
<1>4. QED
  BY <1>3

\* any two of its beginnings agree,
LEMMA DecimalsAgree ==
  ASSUME NEW m \in Nat, NEW n \in Nat, NEW f, NEW g,
         f = [k \in 0..m |-> DecimalStep(f, k)],
         g = [k \in 0..n |-> DecimalStep(g, k)]
  PROVE  \A k \in Nat : k <= m /\ k <= n => f[k] = g[k]
<1> DEFINE Bad == {k \in Nat : k <= m /\ k <= n /\ f[k] # g[k]}
<1>1. SUFFICES ASSUME Bad # {} PROVE FALSE
  OBVIOUS
<1>2. PICK k \in Bad : \A j \in Bad : k <= j
  <2> Bad \in SUBSET Nat
    OBVIOUS
  <2> HIDE DEF Bad
  <2>1. QED
    BY <1>1, LeastElement
<1>3. k \in 0..m /\ k \in 0..n /\ k \in Nat
  BY <1>2
<1>4. f[k] = DecimalStep(f, k) /\ g[k] = DecimalStep(g, k)
  BY <1>3, Zenon
<1>5. k >= 10 => f[k \div 10] = g[k \div 10]
  <2>1. k >= 10 => k \div 10 \in Nat /\ k \div 10 < k
    BY <1>3, DivideByTen
  <2>2. QED
    BY <1>2, <1>3, <2>1
<1>6. DecimalStep(f, k) = DecimalStep(g, k)
  BY <1>3, <1>5 DEF DecimalStep
<1>7. QED
  BY <1>2, <1>4, <1>6

\* so that it satisfies its equation.
LEMMA DecimalEquation ==
  ASSUME NEW n \in Nat
  PROVE  Decimal[n] = DecimalStep(Decimal, n)
<1> DEFINE Is(f) == f = [k \in Nat |-> DecimalStep(f, k)]
           Upto(m, f) == f = [k \in 0..m |-> DecimalStep(f, k)]
           whole == [k \in Nat |-> (CHOOSE f : Upto(k, f))[k]]
<1>1. \A k \in Nat : Upto(k, CHOOSE f : Upto(k, f))
  <2>1. \A k \in Nat : \E f : Upto(k, f)
    BY DecimalsExist
  <2> HIDE DEF Upto
  <2>2. QED
    BY <2>1, Zenon
<1>2. ASSUME NEW k \in Nat, NEW f, Upto(k, f)
      PROVE  f[k] = whole[k]
  <2>1. Upto(k, CHOOSE h : Upto(k, h))
    BY <1>1
  <2>2. (CHOOSE h : Upto(k, h))[k] = f[k]
    <3> DEFINE h == CHOOSE h : Upto(k, h)
    <3>1. Upto(k, h)
      BY <2>1
    <3> HIDE DEF h
    <3>2. h[k] = f[k]
      BY <1>2, <3>1, DecimalsAgree
    <3>3. QED
      BY <3>2 DEF h
  <2> HIDE DEF Upto
  <2>3. QED
    BY <2>2
<1>3. ASSUME NEW k \in Nat
      PROVE  whole[k] = DecimalStep(whole, k)
  <2>1. PICK f : Upto(k, f)
    BY DecimalsExist
  <2>2. \A j \in 0..k : f[j] = whole[j]
    <3>1. TAKE j \in 0..k
    <3>2. PICK h : Upto(j, h)
      BY DecimalsExist
    <3>3. h[j] = whole[j]
      BY <1>2, <3>2
    <3>4. h[j] = f[j]
      BY <2>1, <3>2, DecimalsAgree
    <3>5. QED
      BY <3>3, <3>4
  <2>3. f[k] = DecimalStep(f, k)
    BY <2>1
  <2>4. k >= 10 => k \div 10 \in 0..k
    BY DivideByTen
  <2> HIDE DEF whole, Upto
  <2>5. DecimalStep(f, k) = DecimalStep(whole, k)
    BY <2>2, <2>4 DEF DecimalStep
  <2>6. QED
    BY <2>2, <2>3, <2>5
<1>4. Is(whole)
  <2>1. whole = [k \in Nat |-> whole[k]]
    OBVIOUS
  <2> HIDE DEF whole
  <2>2. QED
    BY <1>3, <2>1, Zenon
<1>5. Decimal = CHOOSE f : Is(f)
  BY DEF Decimal, DecimalStep
<1>6. Is(Decimal)
  <2> HIDE DEF Is
  <2>1. QED
    BY <1>4, <1>5, Zenon
<1>7. QED
  BY <1>6, Zenon

---------------------------------------------------------------------------
(***************************************************************************)
(* Figures: the characters that are digits.                                *)
(***************************************************************************)

Figure == {Digit[k] : k \in 1..10}

\* The digits are different characters, none of which marks a value.
LEMMA DigitFacts ==
  /\ \A k \in 0..9 : Digit[k + 1] \in Figure
  /\ \A j, k \in 0..9 : Digit[j + 1] = Digit[k + 1] => j = k
  /\ \A c : IsDigit(c) <=> c \in Figure
  /\ \A c \in {"e", ":", "i", "l", "d"} : c \notin Figure
<1>1. \A k \in 1..10 : k = 1 \/ k = 2 \/ k = 3 \/ k = 4 \/ k = 5 \/ k = 6 \/ k = 7 \/ k = 8 \/ k = 9 \/ k = 10
  OBVIOUS
<1>2. /\ Digit[1] = "0" /\ Digit[2] = "1" /\ Digit[3] = "2" /\ Digit[4] = "3" /\ Digit[5] = "4"
      /\ Digit[6] = "5" /\ Digit[7] = "6" /\ Digit[8] = "7" /\ Digit[9] = "8" /\ Digit[10] = "9"
  BY DEF Digit
<1>3. \A j, k \in 1..10 : Digit[j] = Digit[k] => j = k
  BY <1>1, <1>2
<1>4. \A k \in 0..9 : k + 1 \in 1..10
  OBVIOUS
<1>5. \A c : IsDigit(c) <=> c \in Figure
  BY Zenon DEF IsDigit, Figure
<1>6. \A c \in {"e", ":", "i", "l", "d"} : \A k \in 1..10 : Digit[k] # c
  BY <1>1, <1>2
<1>7. \A c \in {"e", ":", "i", "l", "d"} : c \notin Figure
  BY <1>6, Zenon DEF Figure
<1>8. \A j, k \in 0..9 : j + 1 = k + 1 => j = k
  OBVIOUS
<1>9. \A k \in 1..10 : Digit[k] \in Figure
  BY Zenon DEF Figure
<1>10. QED
  BY <1>3, <1>4, <1>5, <1>7, <1>8, <1>9

\* Numbers are written in digits.
LEMMA DecimalType ==
  \A n \in Nat : Decimal[n] \in Seq(Figure) /\ Len(Decimal[n]) >= 1
<1> DEFINE Is(n) == Decimal[n] \in Seq(Figure) /\ Len(Decimal[n]) >= 1
           Good == {n \in Nat : \A k \in 0..n : Is(k)}
<1>1. \A n \in Nat : n < 10 => Is(n)
  <2>1. TAKE n \in Nat
  <2>2. HAVE n < 10
  <2>3. Decimal[n] = <<Digit[n + 1]>>
    BY <2>2, DecimalEquation DEF DecimalStep
  <2>4. Digit[n + 1] \in Figure
    BY <2>2, DigitFacts
  <2>5. QED
    BY <2>3, <2>4
<1>2. 0 \in Good
  <2>1. \A k \in 0..0 : k \in Nat /\ k < 10
    OBVIOUS
  <2> HIDE DEF Is
  <2>2. QED
    BY <1>1, <2>1
<1>3. ASSUME NEW n \in Nat, n \in Good
      PROVE  n + 1 \in Good
  <2>0. n + 1 \in Nat
    OBVIOUS
  <2>1. ASSUME n + 1 < 10 PROVE Is(n + 1)
    BY <1>1, <2>0, <2>1
  <2>2. ASSUME ~(n + 1 < 10) PROVE Is(n + 1)
    <3> DEFINE q == (n + 1) \div 10
               r == (n + 1) % 10
    <3>1. Decimal[n + 1] = Append(Decimal[q], Digit[r + 1])
      <4>1. Decimal[n + 1] = DecimalStep(Decimal, n + 1)
        BY <2>0, DecimalEquation
      <4>2. QED
        BY <2>2, <4>1, Zenon DEF DecimalStep
    <3>2. q \in 0..n /\ r \in 0..9
      <4>1. q \in Nat /\ r \in 0..9 /\ q < n + 1
        BY <2>0, <2>2, DivideByTen
      <4>2. QED
        BY <4>1
    <3> HIDE DEF q, r
    <3>3. Is(q)
      BY <1>3, <3>2
    <3>4. Digit[r + 1] \in Figure
      BY <3>2, DigitFacts
    <3>5. QED
      <4>1. \A s \in Seq(Figure), c \in Figure :
              Append(s, c) \in Seq(Figure) /\ Len(Append(s, c)) >= 1
        BY SMT
      <4>2. Decimal[q] \in Seq(Figure)
        BY <3>3
      <4>3. LET t == Append(Decimal[q], Digit[r + 1]) IN t \in Seq(Figure) /\ Len(t) >= 1
        BY <3>4, <4>1, <4>2
      <4>4. QED
        BY <3>1, <4>3
  <2>3. Is(n + 1)
    <3> HIDE DEF Is
    <3>1. QED
      BY <2>1, <2>2
  <2>4. \A k \in 0..(n + 1) : k \in 0..n \/ k = n + 1
    OBVIOUS
  <2> HIDE DEF Is
  <2>5. QED
    BY <1>3, <2>0, <2>3, <2>4
<1>4. Nat \subseteq Good
  <2> HIDE DEF Good
  <2>1. QED
    BY <1>2, <1>3, SetInduction
<1>5. \A n \in Nat : n \in 0..n
  OBVIOUS
<1>6. \A n \in Nat : Is(n)
  <2> HIDE DEF Is
  <2>1. QED
    BY <1>4, <1>5
<1>7. QED
  BY <1>6

---------------------------------------------------------------------------
(***************************************************************************)
(* What atoi and sscanf make of digits: a fold over the places of a text.  *)
(***************************************************************************)

Worth(c) == CHOOSE k \in 0..9 : Digit[k + 1] = c

Value(s) == FoldLeft(LAMBDA n, c : 10 * n + Worth(c), 0, s)

ValueStep(s, h, T) ==
  IF T = {} THEN 0 ELSE 10 * h[T \ {Max(T)}] + Worth(s[Max(T)])

Values(s) == CHOOSE h : h = [T \in SUBSET (DOMAIN s) |-> ValueStep(s, h, T)]

\* The fold is a recursive function on sets of places.
LEMMA ValueIsFold ==
  ASSUME NEW s
  PROVE  Value(s) = Values(s)[DOMAIN s]
BY DEF Value, FoldLeft, MapThenFoldSet, Values, ValueStep

\* A set of places has a last one.
LEMMA LastOfPlaces ==
  ASSUME NEW n \in Nat, NEW T \in SUBSET (1..n), T # {}
  PROVE  Max(T) \in T /\ \A m \in T : m <= Max(T)
<1> DEFINE S == {n - m : m \in T}
<1>1. S \in SUBSET Nat /\ S # {}
  <2>1. \A m \in T : n - m \in Nat
    OBVIOUS
  <2>2. PICK m \in T : TRUE
    OBVIOUS
  <2>3. n - m \in S
    OBVIOUS
  <2>4. QED
    BY <2>1, <2>3
<1>2. PICK k \in S : \A j \in S : k <= j
  <2> HIDE DEF S
  <2>1. QED
    BY <1>1, LeastElement
<1>3. PICK m \in T : k = n - m
  BY <1>2
<1>4. \A j \in T : m >= j
  <2>1. TAKE j \in T
  <2>2. n - j \in S /\ j \in 1..n /\ m \in 1..n
    BY <1>3
  <2>3. n - m <= n - j
    BY <1>2, <1>3, <2>2
  <2>4. QED
    BY <2>2, <2>3
<1>5. Max(T) \in T /\ \A j \in T : Max(T) >= j
  BY <1>4, Zenon DEF Max
<1>6. QED
  BY <1>5

\* That function exists,
LEMMA ValuesExist ==
  ASSUME NEW s, NEW n \in Nat
  PROVE  \E h : h = [T \in SUBSET (1..n) |-> ValueStep(s, h, T)]
<1> DEFINE S == 1..n
           Level(m) == {T \in SUBSET S : Cardinality(T) <= m}
           Good == {m \in Nat : \E h : h = [T \in Level(m) |-> ValueStep(s, h, T)]}
<1>a. IsFiniteSet(S)
  BY FS_Interval
<1>b. \A T \in SUBSET S : T # {} => Max(T) \in T
  BY LastOfPlaces
<1> HIDE DEF S
<1>0. \A T \in SUBSET S : IsFiniteSet(T) /\ Cardinality(T) \in Nat
  BY <1>a, FS_Subset, FS_CardinalityType
<1>1. \A T \in SUBSET S : T # {} => /\ T \ {Max(T)} \in SUBSET S
                                    /\ Cardinality(T \ {Max(T)}) = Cardinality(T) - 1
  BY <1>0, <1>b, FS_RemoveElement
<1>2. 0 \in Good
  <2>1. \A T \in Level(0) : T = {}
    BY <1>0, FS_EmptySet
  <2> DEFINE h == [T \in Level(0) |-> 0]
  <2>2. h = [T \in Level(0) |-> ValueStep(s, h, T)]
    BY <2>1 DEF ValueStep
  <2>3. QED
    BY <2>2
<1>3. ASSUME NEW m \in Nat, m \in Good
      PROVE  m + 1 \in Good
  <2>1. PICK h : h = [T \in Level(m) |-> ValueStep(s, h, T)]
    BY <1>3
  <2> DEFINE next == [T \in Level(m + 1) |-> ValueStep(s, h, T)]
  <2>2. \A T \in Level(m) : h[T] = ValueStep(s, h, T)
    BY <2>1, Zenon
  <2>3. \A T \in Level(m) : T \in Level(m + 1)
    BY <1>0
  <2>4. \A T \in Level(m) : next[T] = h[T]
    BY <2>2, <2>3
  <2>5. \A T \in Level(m + 1) : T # {} => T \ {Max(T)} \in Level(m)
    BY <1>0, <1>1
  <2> HIDE DEF Level
  <2>6. \A T \in Level(m + 1) : ValueStep(s, h, T) = ValueStep(s, next, T)
    <3> HIDE DEF next
    <3>1. QED
      BY <2>4, <2>5 DEF ValueStep
  <2>7. \E g : g = [T \in Level(m + 1) |-> ValueStep(s, g, T)]
    <3> DEFINE g == next
    <3>1. g = [T \in Level(m + 1) |-> ValueStep(s, h, T)]
      OBVIOUS
    <3>2. \A T \in Level(m + 1) : ValueStep(s, h, T) = ValueStep(s, g, T)
      BY <2>6
    <3> HIDE DEF g, next
    <3>3. g = [T \in Level(m + 1) |-> ValueStep(s, g, T)]
      BY <3>1, <3>2, Zenon
    <3>4. QED
      BY <3>3, Zenon
  <2>8. QED
    BY <2>7
<1>4. Nat \subseteq Good
  <2> HIDE DEF Good
  <2>1. QED
    BY <1>2, <1>3, SetInduction
<1>5. Level(Cardinality(S)) = SUBSET S
  <2>1. \A T \in SUBSET S : Cardinality(T) <= Cardinality(S)
    BY <1>a, FS_Subset
  <2>2. QED
    BY <2>1
<1>6. Cardinality(S) \in Good
  <2>1. S \in SUBSET S
    OBVIOUS
  <2>2. QED
    BY <1>0, <1>4, <2>1
<1>7. QED
  BY <1>5, <1>6 DEF S

\* so that the places up to one are those before it and itself.
LEMMA ValuesStep ==
  ASSUME NEW s \in Seq(Figure), NEW k \in 0..Len(s)
  PROVE  Values(s)[1..k] =
           IF k = 0 THEN 0 ELSE 10 * Values(s)[1..(k - 1)] + Worth(s[k])
<1> DEFINE Is(h) == h = [T \in SUBSET (DOMAIN s) |-> ValueStep(s, h, T)]
<1>0. DOMAIN s = 1..Len(s) /\ Len(s) \in Nat
  BY LenProperties
<1>1. Values(s) = CHOOSE h : Is(h)
  BY DEF Values
<1>2. \E h : Is(h)
  <2>1. \E h : h = [T \in SUBSET (1..Len(s)) |-> ValueStep(s, h, T)]
    BY <1>0, ValuesExist
  <2>2. QED
    BY <1>0, <2>1, Zenon
<1>3. Is(Values(s))
  <2> HIDE DEF Is
  <2>1. QED
    BY <1>1, <1>2, Zenon
<1>4. 1..k \in SUBSET (DOMAIN s)
  BY <1>0
<1>5. Values(s)[1..k] = ValueStep(s, Values(s), 1..k)
  BY <1>3, <1>4, Zenon
<1>6. CASE k = 0
  <2>1. 1..k = {}
    BY <1>6
  <2>2. QED
    BY <1>5, <1>6, <2>1 DEF ValueStep
<1>7. CASE k # 0
  <2>0. k \in Nat /\ k >= 1
    BY <1>0, <1>7
  <2>1. 1..k # {} /\ 1..k \in SUBSET (1..k) /\ k \in 1..k
    <3>1. k \in 1..k
      BY <2>0
    <3>2. QED
      BY <3>1, Zenon
  <2>2. Max(1..k) \in 1..k /\ \A m \in 1..k : m <= Max(1..k)
    BY <2>0, <2>1, LastOfPlaces
  <2>3. Max(1..k) = k
    <3> DEFINE t == Max(1..k)
    <3>1. t \in 1..k /\ k <= t
      BY <2>1, <2>2
    <3> HIDE DEF t
    <3>2. t = k
      BY <3>1, <2>0
    <3>3. QED
      BY <3>2 DEF t
  <2>4. (1..k) \ {k} = 1..(k - 1)
    BY <2>0
  <2>5. QED
    BY <1>5, <1>7, <2>1, <2>3, <2>4, Zenon DEF ValueStep
<1>8. QED
  BY <1>6, <1>7

\* It is a number, and one more digit makes ten times the number and the digit.
LEMMA ValueFacts ==
  ASSUME NEW s \in Seq(Figure)
  PROVE  /\ Value(s) \in Nat
         /\ s = <<>> => Value(s) = 0
         /\ \A c \in Figure : Value(Append(s, c)) = 10 * Value(s) + Worth(c)
<1>0. DOMAIN s = 1..Len(s) /\ Len(s) \in Nat /\ \A k \in 1..Len(s) : s[k] \in Figure
  BY LenProperties, ElementOfSeq
<1>1. \A c \in Figure : Worth(c) \in 0..9
  <2>1. TAKE c \in Figure
  <2>2. PICK k \in 1..10 : c = Digit[k]
    BY DEF Figure
  <2>3. k - 1 \in 0..9 /\ (k - 1) + 1 = k
    OBVIOUS
  <2>4. \E j \in 0..9 : Digit[j + 1] = c
    BY <2>2, <2>3
  <2>5. QED
    BY <2>4, Zenon DEF Worth
<1>2. \A k \in 0..Len(s) : Values(s)[1..k] \in Nat
  <2> DEFINE Good == {k \in Nat : k <= Len(s) => Values(s)[1..k] \in Nat}
  <2>1. 0 \in Good
    <3>1. 0 \in 0..Len(s)
      BY <1>0
    <3>2. Values(s)[1..0] = 0
      BY <3>1, ValuesStep
    <3>3. QED
      BY <3>2
  <2>2. ASSUME NEW k \in Nat, k \in Good
        PROVE  k + 1 \in Good
    <3>1. SUFFICES ASSUME k + 1 <= Len(s)
                   PROVE  Values(s)[1..(k + 1)] \in Nat
      OBVIOUS
    <3>2. k + 1 \in 0..Len(s) /\ k + 1 # 0 /\ (k + 1) - 1 = k /\ k + 1 \in 1..Len(s) /\ k <= Len(s)
      BY <1>0, <3>1
    <3>3. Values(s)[1..(k + 1)] = 10 * Values(s)[1..k] + Worth(s[k + 1])
      BY <3>2, ValuesStep, Zenon
    <3>4. Worth(s[k + 1]) \in Nat
      <4>1. s[k + 1] \in Figure
        BY <1>0, <3>2
      <4>2. QED
        BY <1>1, <4>1
    <3>5. Values(s)[1..k] \in Nat
      BY <2>2, <3>2
    <3>6. QED
      BY <3>3, <3>4, <3>5
  <2>3. Nat \subseteq Good
    <3> HIDE DEF Good
    <3>1. QED
      BY <2>1, <2>2, SetInduction
  <2>4. QED
    BY <1>0, <2>3
<1>3. Value(s) = Values(s)[1..Len(s)]
  BY <1>0, ValueIsFold, Zenon
<1>4. Value(s) \in Nat
  BY <1>0, <1>2, <1>3
<1>5. s = <<>> => Value(s) = 0
  <2>1. s = <<>> => Len(s) = 0 /\ 0 \in 0..Len(s)
    OBVIOUS
  <2>2. QED
    BY <1>3, <2>1, ValuesStep
<1>6. ASSUME NEW c \in Figure
      PROVE  Value(Append(s, c)) = 10 * Value(s) + Worth(c)
  <2> DEFINE t == Append(s, c)
  <2>1. /\ t \in Seq(Figure) /\ Len(t) = Len(s) + 1 /\ t[Len(s) + 1] = c
        /\ \A k \in 1..Len(s) : t[k] = s[k]
    BY <1>0
  <2> HIDE DEF t
  <2>2. DOMAIN t = 1..Len(t)
    BY <2>1, LenProperties
  <2>3. Value(t) = Values(t)[1..(Len(s) + 1)]
    BY <2>1, <2>2, ValueIsFold, Zenon
  <2> DEFINE Good == {k \in Nat : k <= Len(s) => Values(t)[1..k] = Values(s)[1..k]}
  <2>4. 0 \in Good
    <3>1. 0 \in 0..Len(s) /\ 0 \in 0..Len(t)
      BY <1>0, <2>1
    <3>2. Values(s)[1..0] = 0 /\ Values(t)[1..0] = 0
      BY <2>1, <3>1, ValuesStep
    <3>3. QED
      BY <3>2
  <2>5. ASSUME NEW k \in Nat, k \in Good
        PROVE  k + 1 \in Good
    <3>1. SUFFICES ASSUME k + 1 <= Len(s)
                   PROVE  Values(t)[1..(k + 1)] = Values(s)[1..(k + 1)]
      OBVIOUS
    <3>2. /\ k + 1 \in 0..Len(s) /\ k + 1 # 0 /\ (k + 1) - 1 = k
          /\ k + 1 \in 1..Len(s) /\ k <= Len(s) /\ k + 1 \in 0..Len(t)
      BY <1>0, <2>1, <3>1
    <3>3. Values(s)[1..(k + 1)] = 10 * Values(s)[1..k] + Worth(s[k + 1])
      BY <3>2, ValuesStep, Zenon
    <3>4. Values(t)[1..(k + 1)] = 10 * Values(t)[1..k] + Worth(t[k + 1])
      BY <2>1, <3>2, ValuesStep, Zenon
    <3>5. t[k + 1] = s[k + 1] /\ Values(t)[1..k] = Values(s)[1..k]
      BY <2>1, <2>5, <3>2
    <3>6. QED
      BY <3>3, <3>4, <3>5
  <2>6. Nat \subseteq Good
    <3> HIDE DEF Good
    <3>1. QED
      BY <2>4, <2>5, SetInduction
  <2>7. Values(t)[1..Len(s)] = Values(s)[1..Len(s)]
    BY <1>0, <2>6
  <2>8. Len(s) + 1 \in 0..Len(t) /\ Len(s) + 1 # 0 /\ (Len(s) + 1) - 1 = Len(s)
    BY <1>0, <2>1
  <2>9. Values(t)[1..(Len(s) + 1)] = 10 * Values(t)[1..Len(s)] + Worth(t[Len(s) + 1])
    BY <2>1, <2>8, ValuesStep, Zenon
  <2>10. Value(t) = 10 * Value(s) + Worth(c)
    BY <2>1, <2>3, <2>7, <2>9, <1>3
  <2>11. QED
    BY <2>10 DEF t
<1>7. QED
  BY <1>4, <1>5, <1>6

---------------------------------------------------------------------------
(***************************************************************************)
(* Where a number ends, and what is read of one that was written.          *)
(***************************************************************************)

\* What is read of the digits that are written for a number is that number.
LEMMA ValueOfDecimal ==
  \A n \in Nat : Value(Decimal[n]) = n
<1> DEFINE Is(n) == Value(Decimal[n]) = n
           Good == {n \in Nat : \A k \in 0..n : Is(k)}
<1>1. \A k \in 0..9 : Worth(Digit[k + 1]) = k
  <2>1. TAKE k \in 0..9
  <2>2. \A j \in 0..9 : Digit[j + 1] = Digit[k + 1] <=> j = k
    BY DigitFacts
  <2>3. QED
    BY <2>2, Zenon DEF Worth
<1>2. \A n \in Nat : n < 10 => Is(n)
  <2>1. TAKE n \in Nat
  <2>2. HAVE n < 10
  <2>3. n \in 0..9
    BY <2>2
  <2> DEFINE c == Digit[n + 1]
  <2>4. c \in Figure /\ Worth(c) = n
    BY <2>3, <1>1, DigitFacts
  <2>5. Decimal[n] = <<c>>
    BY <2>2, DecimalEquation DEF DecimalStep
  <2> HIDE DEF c
  <2>6. <<>> \in Seq(Figure) /\ Append(<<>>, c) = <<c>>
    BY <2>4
  <2>7. Value(<<>>) = 0
    BY <2>6, ValueFacts
  <2>8. Value(<<c>>) = 10 * Value(<<>>) + Worth(c)
    BY <2>4, <2>6, ValueFacts
  <2>9. QED
    BY <2>4, <2>5, <2>7, <2>8
<1>3. 0 \in Good
  <2>1. \A k \in 0..0 : k \in Nat /\ k < 10
    OBVIOUS
  <2> HIDE DEF Is
  <2>2. QED
    BY <1>2, <2>1
<1>4. ASSUME NEW n \in Nat, n \in Good
      PROVE  n + 1 \in Good
  <2>0. n + 1 \in Nat
    OBVIOUS
  <2>1. ASSUME n + 1 < 10 PROVE Is(n + 1)
    BY <1>2, <2>0, <2>1
  <2>2. ASSUME ~(n + 1 < 10) PROVE Is(n + 1)
    <3> DEFINE q == (n + 1) \div 10
               r == (n + 1) % 10
    <3>1. Decimal[n + 1] = Append(Decimal[q], Digit[r + 1])
      <4>1. Decimal[n + 1] = DecimalStep(Decimal, n + 1)
        BY <2>0, DecimalEquation
      <4>2. QED
        BY <2>2, <4>1, Zenon DEF DecimalStep
    <3>2. q \in 0..n /\ r \in 0..9 /\ n + 1 = 10 * q + r
      <4>1. q \in Nat /\ r \in 0..9 /\ q < n + 1 /\ n + 1 = 10 * q + r
        BY <2>0, <2>2, DivideByTen
      <4>2. QED
        BY <4>1
    <3> HIDE DEF q, r
    <3>3. Value(Decimal[q]) = q
      BY <1>4, <3>2
    <3>4. Digit[r + 1] \in Figure /\ Worth(Digit[r + 1]) = r
      BY <3>2, <1>1, DigitFacts
    <3>5. Decimal[q] \in Seq(Figure)
      BY <3>2, DecimalType
    <3>6. Value(Append(Decimal[q], Digit[r + 1])) = 10 * Value(Decimal[q]) + Worth(Digit[r + 1])
      BY <3>4, <3>5, ValueFacts
    <3>7. QED
      BY <3>1, <3>2, <3>3, <3>4, <3>6
  <2>3. Is(n + 1)
    <3> HIDE DEF Is
    <3>1. QED
      BY <2>1, <2>2
  <2>4. \A k \in 0..(n + 1) : k \in 0..n \/ k = n + 1
    OBVIOUS
  <2> HIDE DEF Is
  <2>5. QED
    BY <1>4, <2>0, <2>3, <2>4
<1>5. Nat \subseteq Good
  <2> HIDE DEF Good
  <2>1. QED
    BY <1>3, <1>4, SetInduction
<1>6. \A n \in Nat : n \in 0..n
  OBVIOUS
<1>7. \A n \in Nat : Is(n)
  <2> HIDE DEF Is
  <2>1. QED
    BY <1>5, <1>6
<1>8. QED
  BY <1>7

FirstMark(x, start) == FirstAt(x, start, LAMBDA c : ~IsDigit(c))

FirstEnd(x, start) == FirstAt(x, start, LAMBDA c : c = "e")

\* The first place of some.
LEMMA FirstPlace ==
  ASSUME NEW S, NEW i \in Nat, NEW n \in Nat, \E k \in i..n : k \in S
  PROVE  \E k \in i..n : k \in S /\ \A j \in i..(k - 1) : j \notin S
<1> DEFINE T == {k \in i..n : k \in S}
<1>1. T # {} /\ T \in SUBSET Nat
  OBVIOUS
<1>2. PICK k \in T : \A j \in T : k <= j
  <2> HIDE DEF T
  <2>1. QED
    BY <1>1, LeastElement
<1>3. \A j \in i..(k - 1) : j \notin S
  <2>1. TAKE j \in i..(k - 1)
  <2>2. k \in i..n
    BY <1>2
  <2>3. j \in i..n /\ j < k
    BY <2>2
  <2>4. QED
    BY <1>2, <2>2, <2>3
<1>4. QED
  BY <1>2, <1>3

\* Where the digits from a place on end, if they do,
LEMMA FirstMarkFacts ==
  ASSUME NEW Char, NEW x \in Seq(Char), NEW i \in Nat
  PROVE  \/ /\ FirstMark(x, i) = 0
            /\ \A k \in i..Len(x) : x[k] \in Figure
         \/ /\ FirstMark(x, i) \in i..Len(x)
            /\ x[FirstMark(x, i)] \notin Figure
            /\ \A k \in i..(FirstMark(x, i) - 1) : x[k] \in Figure
<1> DEFINE S == {k \in Nat : ~IsDigit(x[k])}
           Is(k) == ~IsDigit(x[k]) /\ \A j \in i..(k - 1) : ~(~IsDigit(x[j]))
<1>0. Len(x) \in Nat
  BY LenProperties
<1>1. CASE \E k \in i..Len(x) : ~IsDigit(x[k])
  <2>1. \E k \in i..Len(x) : k \in S
    BY <1>0, <1>1
  <2>2. \E k \in i..Len(x) : k \in S /\ \A j \in i..(k - 1) : j \notin S
    <3> HIDE DEF S
    <3>1. QED
      BY <1>0, <2>1, FirstPlace
  <2>3. \A k \in i..Len(x) : \A j \in i..(k - 1) : j \in Nat
    BY <1>0
  <2>4. \E k \in i..Len(x) : Is(k)
    BY <2>2, <2>3
  <2>5. FirstMark(x, i) = CHOOSE k \in i..Len(x) : Is(k)
    BY <1>1, Zenon DEF FirstMark, FirstAt
  <2>6. FirstMark(x, i) \in i..Len(x) /\ Is(FirstMark(x, i))
    <3> HIDE DEF Is
    <3>1. QED
      BY <2>4, <2>5, Zenon
  <2>7. QED
    BY <2>6, DigitFacts
<1>2. CASE ~\E k \in i..Len(x) : ~IsDigit(x[k])
  <2>1. FirstMark(x, i) = 0
    BY <1>2, Zenon DEF FirstMark, FirstAt
  <2>2. QED
    BY <1>2, <2>1, DigitFacts
<1>3. QED
  BY <1>1, <1>2

\* and where the next "e" is, if there is one.
LEMMA FirstEndFacts ==
  ASSUME NEW Char, NEW x \in Seq(Char), NEW i \in Nat
  PROVE  \/ /\ FirstEnd(x, i) = 0
            /\ \A k \in i..Len(x) : x[k] # "e"
         \/ /\ FirstEnd(x, i) \in i..Len(x)
            /\ x[FirstEnd(x, i)] = "e"
            /\ \A k \in i..(FirstEnd(x, i) - 1) : x[k] # "e"
<1> DEFINE S == {k \in Nat : x[k] = "e"}
           Is(k) == x[k] = "e" /\ \A j \in i..(k - 1) : ~(x[j] = "e")
<1>0. Len(x) \in Nat
  BY LenProperties
<1>1. CASE \E k \in i..Len(x) : x[k] = "e"
  <2>1. \E k \in i..Len(x) : k \in S
    BY <1>0, <1>1
  <2>2. \E k \in i..Len(x) : k \in S /\ \A j \in i..(k - 1) : j \notin S
    <3> HIDE DEF S
    <3>1. QED
      BY <1>0, <2>1, FirstPlace
  <2>3. \A k \in i..Len(x) : \A j \in i..(k - 1) : j \in Nat
    BY <1>0
  <2>4. \E k \in i..Len(x) : Is(k)
    BY <2>2, <2>3
  <2>5. FirstEnd(x, i) = CHOOSE k \in i..Len(x) : Is(k)
    BY <1>1, Zenon DEF FirstEnd, FirstAt
  <2>6. FirstEnd(x, i) \in i..Len(x) /\ Is(FirstEnd(x, i))
    <3> HIDE DEF Is
    <3>1. QED
      BY <2>4, <2>5, Zenon
  <2>7. QED
    BY <2>6
<1>2. CASE ~\E k \in i..Len(x) : x[k] = "e"
  <2>1. FirstEnd(x, i) = 0
    BY <1>2, Zenon DEF FirstEnd, FirstAt
  <2>2. QED
    BY <1>2, <2>1
<1>3. QED
  BY <1>1, <1>2

\* atoi and sscanf yield a number; of digits alone, the one they write.
LEMMA NumberFacts ==
  ASSUME NEW Char, NEW s \in Seq(Char)
  PROVE  /\ Number(s) \in Nat
         /\ s \in Seq(Figure) /\ s # <<>> => Number(s) = Value(s)
<1> DEFINE end == FirstMark(s, 1)
           digits == IF end = 0 THEN s ELSE SubSeq(s, 1, end - 1)
<1>0. Len(s) \in Nat /\ DOMAIN s = 1..Len(s) /\ s \in [1..Len(s) -> Char]
  BY LenProperties
<1>1. \/ end = 0 /\ \A k \in 1..Len(s) : s[k] \in Figure
      \/ /\ end \in 1..Len(s) /\ s[end] \notin Figure
         /\ \A k \in 1..(end - 1) : s[k] \in Figure
  BY FirstMarkFacts
<1> HIDE DEF end
<1>2. Number(s) = IF digits = <<>> THEN CHOOSE n \in Nat : TRUE ELSE Value(digits)
  BY Zenon DEF Number, Value, Worth, end, FirstMark
<1>3. digits \in Seq(Figure)
  <2>1. CASE end = 0
    <3>1. s \in Seq(Figure)
      BY <1>0, <1>1, <2>1
    <3>2. QED
      BY <2>1, <3>1
  <2>2. CASE end # 0
    <3>1. end - 1 \in Int /\ \A k \in 1..(end - 1) : s[k] \in Figure
      BY <1>0, <1>1, <2>2
    <3>2. SubSeq(s, 1, end - 1) \in Seq(Figure)
      BY <3>1, SubSeqProperties
    <3>3. QED
      BY <2>2, <3>2
  <2>3. QED
    BY <2>1, <2>2
<1>4. s \in Seq(Figure) => digits = s
  <2>1. SUFFICES ASSUME s \in Seq(Figure) PROVE end = 0
    OBVIOUS
  <2>2. \A k \in 1..Len(s) : s[k] \in Figure
    BY <2>1, ElementOfSeq
  <2>3. QED
    BY <1>1, <2>2
<1> HIDE DEF digits
<1>5. Value(digits) \in Nat
  BY <1>3, ValueFacts
<1>6. (CHOOSE n \in Nat : TRUE) \in Nat
  <2>1. \E n \in Nat : TRUE
    OBVIOUS
  <2>2. QED
    BY <2>1, Zenon
<1>7. QED
  BY <1>2, <1>4, <1>5, <1>6

---------------------------------------------------------------------------
(***************************************************************************)
(* What is decoded at a place, by what is decoded after it.                *)
(***************************************************************************)

IsAtom(a) == a = Nothing \/ (a.kind # "null" /\ a.length \in Nat /\ a.length >= 1)

\* What is parsed is no null pointer, and has the parts it is given.
LEMMA ParsedFacts ==
  ASSUME NEW kind, NEW value, NEW length
  PROVE  /\ Parsed(kind, value, length).kind = kind
         /\ Parsed(kind, value, length).value = value
         /\ Parsed(kind, value, length).length = length
         /\ kind # "null" => Parsed(kind, value, length) # Nothing
         /\ kind # "null" /\ length \in Nat /\ length >= 1 => IsAtom(Parsed(kind, value, length))
<1>1. /\ Parsed(kind, value, length).kind = kind
      /\ Parsed(kind, value, length).value = value
      /\ Parsed(kind, value, length).length = length
  BY DEF Parsed
<1>2. Nothing.kind = "null"
  BY DEF Nothing
<1>3. kind # "null" => Parsed(kind, value, length) # Nothing
  BY <1>1, <1>2, Zenon
<1>4. QED
  BY <1>1, <1>3, Zenon DEF IsAtom

\* A number or a string takes at least one character.
LEMMA LongIsAtom ==
  ASSUME NEW Char, NEW x \in Seq(Char), NEW i \in Nat \ {0}
  PROVE  IsAtom(DecodeLong(x, i))
<1> DEFINE end == FirstEnd(x, i)
           s == SubSeq(x, i + 1, end - 1)
           n == Number(s)
<1>0. Len(x) \in Nat /\ \A k \in 1..Len(x) : x[k] \in Char
  BY LenProperties, ElementOfSeq
<1>1. DecodeLong(x, i) = IF end = 0 THEN Nothing ELSE Parsed("long", n, Len(Decimal[n]) + 2)
  BY Zenon DEF DecodeLong, FirstEnd
<1>2. end = 0 \/ end \in i..Len(x)
  BY FirstEndFacts
<1> HIDE DEF end
<1>3. CASE end = 0
  BY <1>1, <1>3 DEF IsAtom
<1>4. CASE end # 0
  <2>1. i + 1 \in Int /\ end - 1 \in Int /\ \A k \in (i + 1)..(end - 1) : x[k] \in Char
    BY <1>0, <1>2, <1>4
  <2>2. s \in Seq(Char)
    BY <2>1, SubSeqProperties
  <2> HIDE DEF s
  <2>3. n \in Nat
    BY <2>2, NumberFacts
  <2> HIDE DEF n
  <2>4. Len(Decimal[n]) + 2 \in Nat /\ Len(Decimal[n]) + 2 >= 1
    BY <2>3, DecimalType, LenProperties
  <2>5. IsAtom(Parsed("long", n, Len(Decimal[n]) + 2))
    BY <2>4, ParsedFacts
  <2>6. QED
    BY <1>1, <1>4, <2>5
<1>5. QED
  BY <1>3, <1>4

\* A string takes at least a figure and the mark.
LEMMA StringIsAtom ==
  ASSUME NEW Char, NEW x \in Seq(Char), NEW i \in Nat \ {0}
  PROVE  IsAtom(DecodeString(x, i))
<1> DEFINE split == FirstMark(x, i)
           announced == Number(SubSeq(x, i, split - 1))
           end == IF split + announced > Len(x) THEN Len(x) ELSE split + announced
           s == SubSeq(x, split + 1, end)
<1>0. Len(x) \in Nat /\ \A k \in 1..Len(x) : x[k] \in Char
  BY LenProperties, ElementOfSeq
<1>1. DecodeString(x, i) = IF split = 0 THEN Nothing
                           ELSE Parsed("string", s, Len(Decimal[Len(s)]) + 1 + Len(s))
  BY Zenon DEF DecodeString, FirstMark
<1>2. split = 0 \/ split \in i..Len(x)
  BY FirstMarkFacts
<1> HIDE DEF split
<1>3. CASE split = 0
  BY <1>1, <1>3 DEF IsAtom
<1>4. CASE split # 0
  <2>1. i \in Int /\ split - 1 \in Int /\ \A k \in i..(split - 1) : x[k] \in Char
    BY <1>0, <1>2, <1>4
  <2>2. SubSeq(x, i, split - 1) \in Seq(Char)
    BY <2>1, SubSeqProperties
  <2>3. announced \in Nat
    BY <2>2, NumberFacts
  <2> HIDE DEF announced
  <2>4. end \in Int /\ end <= Len(x) /\ split \in Nat
    BY <1>0, <1>2, <1>4, <2>3
  <2> HIDE DEF end
  <2>5. split + 1 \in Int /\ \A k \in (split + 1)..end : x[k] \in Char
    BY <1>0, <2>4
  <2>6. s \in Seq(Char)
    BY <2>4, <2>5, SubSeqProperties
  <2> HIDE DEF s
  <2>7. Len(s) \in Nat
    BY <2>6, LenProperties
  <2>8. Len(Decimal[Len(s)]) \in Nat
    BY <2>7, DecimalType, LenProperties
  <2>9. IsAtom(Parsed("string", s, Len(Decimal[Len(s)]) + 1 + Len(s)))
    <3> DEFINE l == Len(Decimal[Len(s)]) + 1 + Len(s)
    <3>1. l \in Nat /\ l >= 1
      BY <2>7, <2>8
    <3> HIDE DEF l
    <3>2. IsAtom(Parsed("string", s, l))
      BY <3>1, ParsedFacts
    <3>3. QED
      BY <3>2 DEF l
  <2>10. QED
    BY <1>1, <1>4, <2>9
<1>5. QED
  BY <1>3, <1>4

\* f and g are the same decoder at a place.
Same(f, g, what, i) == f[<<what, i>>] = g[<<what, i>>] /\ IsAtom(f[<<what, i>>])

SameAfter(f, g, i) ==
  \A j \in Nat : j > i => \A what \in {"value", "list", "dicti"} : Same(f, g, what, j)

\* What is decoded at a place depends on what is decoded after it, and the
\* items of a list or a dictionary also on the value there.
LEMMA ListLocal ==
  ASSUME NEW x, NEW i \in Nat \ {0}, NEW f, NEW g,
         i <= Len(x) => Same(f, g, "value", i) /\ SameAfter(f, g, i), Len(x) \in Nat
  PROVE  DecodeList(x, f, i) = DecodeList(x, g, i) /\ IsAtom(DecodeList(x, f, i))
<1> DEFINE first == f[<<"value", i>>]
           more == f[<<"list", i + first.length>>]
<1>1. CASE i > Len(x) \/ x[i] = "e"
  <2>1. /\ DecodeList(x, f, i) = Parsed("list", <<>>, 2)
        /\ DecodeList(x, g, i) = Parsed("list", <<>>, 2)
    BY <1>1, Zenon DEF DecodeList
  <2>2. IsAtom(Parsed("list", <<>>, 2))
    BY ParsedFacts
  <2>3. QED
    BY <2>1, <2>2
<1>2. CASE ~(i > Len(x) \/ x[i] = "e")
  <2>0. SameAfter(f, g, i)
    BY <1>2
  <2>1. first = g[<<"value", i>>] /\ IsAtom(first)
    BY <1>2 DEF Same
  <2>2. CASE first = Nothing
    <3>1. DecodeList(x, f, i) = Nothing /\ DecodeList(x, g, i) = Nothing
      BY <1>2, <2>1, <2>2, Zenon DEF DecodeList
    <3>2. QED
      BY <3>1 DEF IsAtom
  <2>3. CASE first # Nothing
    <3>1. first.length \in Nat /\ first.length >= 1
      BY <2>1, <2>3 DEF IsAtom
    <3>2. more = g[<<"list", i + first.length>>] /\ IsAtom(more)
      <4> DEFINE j == i + first.length
      <4>1. j \in Nat /\ j > i
        BY <3>1
      <4> HIDE DEF j
      <4>2. f[<<"list", j>>] = g[<<"list", j>>] /\ IsAtom(f[<<"list", j>>])
        BY <2>0, <4>1 DEF SameAfter, Same
      <4>3. QED
        BY <4>2 DEF j
    <3>3. CASE more = Nothing
      <4>1. DecodeList(x, f, i) = Nothing /\ DecodeList(x, g, i) = Nothing
        BY <1>2, <2>1, <3>2, <3>3, Zenon DEF DecodeList
      <4>2. QED
        BY <4>1 DEF IsAtom
    <3>4. CASE more # Nothing
      <4> DEFINE a == Parsed("list", <<first>> \o more.value, first.length + more.length)
      <4>1. DecodeList(x, f, i) = a /\ DecodeList(x, g, i) = a
        BY <1>2, <2>1, <2>3, <3>2, <3>4, Zenon DEF DecodeList
      <4>2. first.length + more.length \in Nat /\ first.length + more.length >= 1
        BY <3>1, <3>2, <3>4 DEF IsAtom
      <4>3. IsAtom(a)
        BY <4>2, ParsedFacts
      <4>4. QED
        BY <4>1, <4>3
    <3>5. QED
      BY <3>3, <3>4
  <2>4. QED
    BY <2>2, <2>3
<1>3. QED
  BY <1>1, <1>2

\* The same of the items of a dictionary.
LEMMA DictiLocal ==
  ASSUME NEW x, NEW i \in Nat \ {0}, NEW f, NEW g,
         i <= Len(x) => Same(f, g, "value", i) /\ SameAfter(f, g, i), Len(x) \in Nat
  PROVE  DecodeDicti(x, f, i) = DecodeDicti(x, g, i) /\ IsAtom(DecodeDicti(x, f, i))
<1> DEFINE key == f[<<"value", i>>]
           after == i + key.length
           value == f[<<"value", after>>]
           more == f[<<"dicti", after + value.length>>]
<1>1. CASE i > Len(x) \/ x[i] = "e"
  <2>1. /\ DecodeDicti(x, f, i) = Parsed("dicti", <<>>, 2)
        /\ DecodeDicti(x, g, i) = Parsed("dicti", <<>>, 2)
    BY <1>1, Zenon DEF DecodeDicti
  <2>2. IsAtom(Parsed("dicti", <<>>, 2))
    BY ParsedFacts
  <2>3. QED
    BY <2>1, <2>2
<1>2. CASE ~(i > Len(x) \/ x[i] = "e")
  <2>0. SameAfter(f, g, i)
    BY <1>2
  <2>1. key = g[<<"value", i>>] /\ IsAtom(key)
    BY <1>2 DEF Same
  <2>2. CASE key.kind # "string"
    <3>1. DecodeDicti(x, f, i) = Nothing /\ DecodeDicti(x, g, i) = Nothing
      BY <1>2, <2>1, <2>2, Zenon DEF DecodeDicti
    <3>2. QED
      BY <3>1 DEF IsAtom
  <2>3. CASE key.kind = "string"
    <3>1. key.length \in Nat /\ key.length >= 1
      <4>1. key # Nothing
        BY <2>3 DEF Nothing
      <4>2. QED
        BY <2>1, <4>1 DEF IsAtom
    <3>2. CASE after > Len(x)
      <4>1. /\ DecodeDicti(x, f, i) = Parsed("dicti", <<>>, 2)
            /\ DecodeDicti(x, g, i) = Parsed("dicti", <<>>, 2)
        BY <1>2, <2>1, <2>3, <3>2, Zenon DEF DecodeDicti
      <4>2. IsAtom(Parsed("dicti", <<>>, 2))
        BY ParsedFacts
      <4>3. QED
        BY <4>1, <4>2
    <3>3. CASE ~(after > Len(x))
      <4>0. after \in Nat /\ after > i
        BY <3>1
      <4>1. value = g[<<"value", after>>] /\ IsAtom(value)
        BY <2>0, <4>0 DEF SameAfter, Same
      <4>2. CASE value = Nothing
        <5>1. DecodeDicti(x, f, i) = Nothing /\ DecodeDicti(x, g, i) = Nothing
          BY <1>2, <2>1, <2>3, <3>3, <4>1, <4>2, Zenon DEF DecodeDicti
        <5>2. QED
          BY <5>1 DEF IsAtom
      <4>3. CASE value # Nothing
        <5>1. value.length \in Nat /\ value.length >= 1
          BY <4>1, <4>3 DEF IsAtom
        <5> HIDE DEF key
        <5>2. after + value.length \in Nat /\ after + value.length > i
          BY <4>0, <5>1
        <5>3. more = g[<<"dicti", after + value.length>>] /\ IsAtom(more)
          <6> DEFINE j == after + value.length
          <6>1. j \in Nat /\ j > i
            BY <5>2
          <6> HIDE DEF j
          <6>2. f[<<"dicti", j>>] = g[<<"dicti", j>>] /\ IsAtom(f[<<"dicti", j>>])
            BY <2>0, <6>1 DEF SameAfter, Same
          <6>3. QED
            BY <6>2 DEF j
        <5>4. CASE more = Nothing
          <6>1. DecodeDicti(x, f, i) = Nothing /\ DecodeDicti(x, g, i) = Nothing
            BY <1>2, <2>1, <2>3, <3>3, <4>1, <4>3, <5>3, <5>4, Zenon DEF DecodeDicti, key
          <6>2. QED
            BY <6>1 DEF IsAtom
        <5>5. CASE more # Nothing
          <6> DEFINE a == IF \E k \in DOMAIN more.value : more.value[k][1] = key.value
                          THEN more
                          ELSE Parsed("dicti", <<<<key.value, value>>>> \o more.value,
                                      key.length + value.length + more.length)
          <6>1. DecodeDicti(x, f, i) = a /\ DecodeDicti(x, g, i) = a
            BY <1>2, <2>1, <2>3, <3>3, <4>1, <4>3, <5>3, <5>5, Zenon DEF DecodeDicti, key
          <6>2. IsAtom(a)
            <7> HIDE DEF more, value
            <7>1. /\ key.length + value.length + more.length \in Nat
                  /\ key.length + value.length + more.length >= 1
              <8>1. more.length \in Nat /\ more.length >= 1
                BY <5>3, <5>5 DEF IsAtom
              <8>2. QED
                BY <3>1, <5>1, <8>1
            <7>2. IsAtom(Parsed("dicti", <<<<key.value, value>>>> \o more.value,
                                key.length + value.length + more.length))
              BY <7>1, ParsedFacts
            <7>3. QED
              BY <5>3, <7>2
          <6> HIDE DEF a
          <6>3. QED
            BY <6>1, <6>2
        <5>6. QED
          BY <5>4, <5>5
      <4>4. QED
        BY <4>2, <4>3
    <3>4. QED
      BY <3>2, <3>3
  <2>4. QED
    BY <2>2, <2>3
<1>3. QED
  BY <1>1, <1>2

\* A value depends on what follows its first character alone.
LEMMA ValueLocal ==
  ASSUME NEW Char, NEW x \in Seq(Char), NEW i \in Nat \ {0}, NEW f, NEW g,
         i <= Len(x) => SameAfter(f, g, i)
  PROVE  Decode(x, f, i) = Decode(x, g, i) /\ IsAtom(Decode(x, f, i))
<1>1. CASE i > Len(x)
  <2>1. Decode(x, f, i) = Nothing /\ Decode(x, g, i) = Nothing
    BY <1>1, Zenon DEF Decode
  <2>2. QED
    BY <2>1 DEF IsAtom
<1>2. CASE ~(i > Len(x))
  <2>1. Len(x) \in Nat
    BY LenProperties
  <2>2. i + 1 \in Nat /\ i + 1 > i /\ i <= Len(x)
    BY <1>2, <2>1
  <2>3. /\ f[<<"list", i + 1>>] = g[<<"list", i + 1>>] /\ IsAtom(f[<<"list", i + 1>>])
        /\ f[<<"dicti", i + 1>>] = g[<<"dicti", i + 1>>] /\ IsAtom(f[<<"dicti", i + 1>>])
    BY <2>2 DEF SameAfter, Same
  <2> DEFINE l == DecodeLong(x, i)
             s == DecodeString(x, i)
             n == Nothing
             a == f[<<"list", i + 1>>]
             b == f[<<"dicti", i + 1>>]
             ga == g[<<"list", i + 1>>]
             gb == g[<<"dicti", i + 1>>]
             d == IsDigit(x[i])
  <2>4. /\ Decode(x, f, i) = CASE x[i] = "i" -> l [] d -> s [] x[i] = "l" -> a
                               [] x[i] = "d" -> b [] OTHER -> n
        /\ Decode(x, g, i) = CASE x[i] = "i" -> l [] d -> s [] x[i] = "l" -> ga
                               [] x[i] = "d" -> gb [] OTHER -> n
    BY <1>2, Zenon DEF Decode
  <2>5. IsAtom(n) /\ IsAtom(l) /\ IsAtom(s)
    <3>1. IsAtom(n)
      BY DEF IsAtom
    <3>2. QED
      BY <3>1, LongIsAtom, StringIsAtom
  <2>6. a = ga /\ b = gb /\ IsAtom(a) /\ IsAtom(b)
    BY <2>3
  <2> HIDE DEF l, s, n, a, b, ga, gb, d
  <2>7. QED
    BY <2>4, <2>5, <2>6
<1>3. QED
  BY <1>1, <1>2

---------------------------------------------------------------------------
(***************************************************************************)
(* The decoder as one function of the places of a text.                    *)
(***************************************************************************)

What == {"value", "list", "dicti"}

\* How much is left to decode at a place.
Left(n, what, i) ==
  IF i > n THEN 0 ELSE 2 * (n + 1 - i) + (IF what = "value" THEN 0 ELSE 1)

Places(n, m) == {place \in Place : Left(n, place[1], place[2]) <= m}

\* A place is what is decoded there, and where.
LEMMA PlaceFacts ==
  /\ \A place \in Place : place[1] \in What /\ place[2] \in Nat \ {0} /\ place = <<place[1], place[2]>>
  /\ \A what \in What, i \in Nat \ {0} :
        <<what, i>> \in Place /\ <<what, i>>[1] = what /\ <<what, i>>[2] = i
BY DEF Place, What

\* What DecodeAt makes of each kind of place.
LEMMA DecodeAtFacts ==
  ASSUME NEW x, NEW f, NEW i
  PROVE  /\ DecodeAt(x, f, <<"value", i>>) = Decode(x, f, i)
         /\ DecodeAt(x, f, <<"list", i>>) = DecodeList(x, f, i)
         /\ DecodeAt(x, f, <<"dicti", i>>) = DecodeDicti(x, f, i)
<1> DEFINE v == Decode(x, f, i)
           l == DecodeList(x, f, i)
           d == DecodeDicti(x, f, i)
<1>1. \A what : DecodeAt(x, f, <<what, i>>) =
                  CASE what = "value" -> v [] what = "list" -> l [] what = "dicti" -> d
  BY DEF DecodeAt
<1> HIDE DEF v, l, d
<1>2. /\ DecodeAt(x, f, <<"value", i>>) = v
      /\ DecodeAt(x, f, <<"list", i>>) = l
      /\ DecodeAt(x, f, <<"dicti", i>>) = d
  BY <1>1
<1>3. QED
  BY <1>2 DEF v, l, d

\* What is decoded at a place depends on places where less is left.
LEMMA DecodeAtLocal ==
  ASSUME NEW Char, NEW x \in Seq(Char), NEW what \in What, NEW i \in Nat \ {0}, NEW f, NEW g,
         i <= Len(x) => \A w \in What, j \in Nat \ {0} :
                          Left(Len(x), w, j) < Left(Len(x), what, i) => Same(f, g, w, j)
  PROVE  /\ DecodeAt(x, f, <<what, i>>) = DecodeAt(x, g, <<what, i>>)
         /\ IsAtom(DecodeAt(x, f, <<what, i>>))
<1>0. Len(x) \in Nat
  BY LenProperties
<1>1. i <= Len(x) => SameAfter(f, g, i)
  <2>1. SUFFICES ASSUME i <= Len(x), NEW j \in Nat, j > i, NEW w \in What
                 PROVE  Same(f, g, w, j)
    BY DEF SameAfter, What
  <2>2. j \in Nat \ {0} /\ Left(Len(x), w, j) < Left(Len(x), what, i)
    BY <1>0, <2>1 DEF Left
  <2>3. QED
    BY <2>1, <2>2
<1>2. i <= Len(x) /\ what # "value" => Same(f, g, "value", i)
  <2>1. SUFFICES ASSUME i <= Len(x), what # "value"
                 PROVE  Same(f, g, "value", i)
    OBVIOUS
  <2>2. Left(Len(x), "value", i) < Left(Len(x), what, i)
    BY <1>0, <2>1 DEF Left
  <2>3. "value" \in What
    BY DEF What
  <2>4. QED
    BY <2>1, <2>2, <2>3
<1>3. CASE what = "value"
  <2>1. Decode(x, f, i) = Decode(x, g, i) /\ IsAtom(Decode(x, f, i))
    BY <1>1, ValueLocal
  <2>2. QED
    BY <1>3, <2>1, DecodeAtFacts
<1>4. CASE what = "list"
  <2>1. DecodeList(x, f, i) = DecodeList(x, g, i) /\ IsAtom(DecodeList(x, f, i))
    BY <1>0, <1>1, <1>2, <1>4, ListLocal
  <2>2. QED
    BY <1>4, <2>1, DecodeAtFacts
<1>5. CASE what = "dicti"
  <2>1. DecodeDicti(x, f, i) = DecodeDicti(x, g, i) /\ IsAtom(DecodeDicti(x, f, i))
    BY <1>0, <1>1, <1>2, <1>5, DictiLocal
  <2>2. QED
    BY <1>5, <2>1, DecodeAtFacts
<1>6. QED
  BY <1>3, <1>4, <1>5 DEF What

IsDecoder(x, f, S) == f = [place \in S |-> DecodeAt(x, f, place)]

\* The decoder exists, and yields values,
LEMMA DecoderExists ==
  ASSUME NEW Char, NEW x \in Seq(Char)
  PROVE  \E f : IsDecoder(x, f, Place) /\ \A place \in Place : IsAtom(f[place])
<1> DEFINE n == Len(x)
           Good == {m \in Nat : \E f : /\ IsDecoder(x, f, Places(n, m))
                                       /\ \A place \in Places(n, m) : IsAtom(f[place])}
<1>0. n \in Nat
  BY LenProperties
<1> HIDE DEF n
<1>1. 0 \in Good
  <2> DEFINE none == [place \in {} |-> {}]
             f == [place \in Places(n, 0) |-> DecodeAt(x, none, place)]
  <2>1. ASSUME NEW place \in Places(n, 0)
        PROVE  DecodeAt(x, none, place) = DecodeAt(x, f, place) /\ IsAtom(DecodeAt(x, none, place))
    <3> HIDE DEF f, none
    <3>1. place \in Place /\ Left(n, place[1], place[2]) <= 0
      BY DEF Places
    <3>2. PICK what \in What, i \in Nat \ {0} : place = <<what, i>>
      BY <3>1, PlaceFacts
    <3>3. Left(n, what, i) <= 0
      BY <3>1, <3>2
    <3>4. i > n
      BY <1>0, <3>3 DEF Left
    <3>5. ~(i <= Len(x))
      BY <1>0, <3>4 DEF n
    <3>6. QED
      BY <3>2, <3>5, DecodeAtLocal
  <2>2. IsDecoder(x, f, Places(n, 0))
    <3> DEFINE g == f
    <3>1. g = [place \in Places(n, 0) |-> DecodeAt(x, none, place)]
      OBVIOUS
    <3>2. \A place \in Places(n, 0) : DecodeAt(x, none, place) = DecodeAt(x, g, place)
      BY <2>1
    <3> HIDE DEF g, none, f
    <3>3. IsDecoder(x, g, Places(n, 0))
      BY <3>1, <3>2, Zenon DEF IsDecoder
    <3>4. QED
      BY <3>3 DEF g
  <2>3. \A place \in Places(n, 0) : IsAtom(f[place])
    BY <2>1
  <2> HIDE DEF f
  <2>4. QED
    BY <2>2, <2>3
<1>2. ASSUME NEW m \in Nat, m \in Good
      PROVE  m + 1 \in Good
  <2>1. PICK f : IsDecoder(x, f, Places(n, m)) /\ \A place \in Places(n, m) : IsAtom(f[place])
    BY <1>2
  <2> DEFINE g == [place \in Places(n, m + 1) |-> DecodeAt(x, f, place)]
  <2>2. \A place \in Places(n, m) : f[place] = DecodeAt(x, f, place)
    BY <2>1, Zenon DEF IsDecoder
  <2>a. \A place \in Place : Left(n, place[1], place[2]) \in Nat
    <3>1. TAKE place \in Place
    <3>2. place[2] \in Nat
      BY PlaceFacts
    <3>3. QED
      BY <1>0, <3>2 DEF Left
  <2>3. \A place \in Places(n, m) : place \in Places(n, m + 1)
    BY <2>a DEF Places
  <2>4. \A place \in Places(n, m) : g[place] = f[place] /\ IsAtom(f[place])
    BY <2>1, <2>2, <2>3
  <2> HIDE DEF g
  <2>5. ASSUME NEW place \in Places(n, m + 1)
        PROVE  DecodeAt(x, f, place) = DecodeAt(x, g, place) /\ IsAtom(DecodeAt(x, f, place))
    <3>1. place \in Place /\ Left(n, place[1], place[2]) <= m + 1
      BY DEF Places
    <3>2. PICK what \in What, i \in Nat \ {0} : place = <<what, i>>
      BY <3>1, PlaceFacts
    <3>3. Left(n, what, i) <= m + 1 /\ Left(n, what, i) \in Nat
      BY <3>1, <3>2, <2>a
    <3>4. ASSUME NEW w \in What, NEW j \in Nat \ {0}, Left(n, w, j) < Left(n, what, i)
          PROVE  Same(f, g, w, j)
      <4>1. <<w, j>> \in Place /\ <<w, j>>[1] = w /\ <<w, j>>[2] = j
        BY PlaceFacts
      <4>2. Left(n, w, j) \in Nat
        BY <2>a, <4>1
      <4>3. Left(n, w, j) <= m
        BY <3>3, <3>4, <4>2
      <4>4. <<w, j>> \in Places(n, m)
        BY <4>1, <4>3 DEF Places
      <4>5. QED
        BY <2>4, <4>4 DEF Same
    <3>5. QED
      BY <3>2, <3>4, DecodeAtLocal DEF n
  <2>6. IsDecoder(x, g, Places(n, m + 1))
    <3>1. g = [place \in Places(n, m + 1) |-> DecodeAt(x, f, place)]
      BY DEF g
    <3>2. QED
      BY <2>5, <3>1, Zenon DEF IsDecoder
  <2>7. \A place \in Places(n, m + 1) : IsAtom(g[place])
    BY <2>5 DEF g
  <2>8. QED
    BY <2>6, <2>7
<1>3. Nat \subseteq Good
  <2> HIDE DEF Good
  <2>1. QED
    BY <1>1, <1>2, SetInduction
<1>4. Places(n, 2 * n + 1) = Place
  <2>1. ASSUME NEW place \in Place PROVE Left(n, place[1], place[2]) <= 2 * n + 1
    <3>1. place[2] \in Nat \ {0}
      BY PlaceFacts
    <3>2. QED
      BY <1>0, <3>1 DEF Left
  <2>2. QED
    BY <2>1 DEF Places
<1>5. 2 * n + 1 \in Good
  BY <1>0, <1>3
<1>6. QED
  BY <1>4, <1>5

\* so that what it makes of a place is what the code makes of it.
LEMMA DecoderEquation ==
  ASSUME NEW Char, NEW x \in Seq(Char), NEW i \in Nat \ {0}
  PROVE  /\ Decoder(x)[<<"value", i>>] = Decode(x, Decoder(x), i)
         /\ Decoder(x)[<<"list", i>>] = DecodeList(x, Decoder(x), i)
         /\ Decoder(x)[<<"dicti", i>>] = DecodeDicti(x, Decoder(x), i)
<1> DEFINE f == Decoder(x)
<1>1. f = CHOOSE g : IsDecoder(x, g, Place)
  BY Zenon DEF Decoder, IsDecoder
<1>2. \E g : IsDecoder(x, g, Place)
  BY DecoderExists
<1>3. IsDecoder(x, f, Place)
  <2> HIDE DEF f
  <2>1. QED
    BY <1>1, <1>2, Zenon
<1>4. \A place \in Place : f[place] = DecodeAt(x, f, place)
  <2> HIDE DEF f
  <2>1. QED
    BY <1>3, Zenon DEF IsDecoder
<1>5. <<"value", i>> \in Place /\ <<"list", i>> \in Place /\ <<"dicti", i>> \in Place
  BY PlaceFacts DEF What
<1>6. QED
  <2> HIDE DEF f
  <2>1. /\ f[<<"value", i>>] = Decode(x, f, i)
        /\ f[<<"list", i>>] = DecodeList(x, f, i)
        /\ f[<<"dicti", i>>] = DecodeDicti(x, f, i)
    BY <1>4, <1>5, DecodeAtFacts
  <2>2. QED
    BY <2>1 DEF f

---------------------------------------------------------------------------
(***************************************************************************)
(* Numbers and strings, read back in any text.                             *)
(***************************************************************************)

Marks == Figure \cup {"i", "l", "d", "e", ":"}

\* A text between two others, under a name that the provers do not expand.
Around(before, t, after) == before \o t \o after

\* In every text that has t in it a is what is decoded there.
Reads(Char, t, a) ==
  /\ t \in Seq(Char) /\ t # <<>> /\ a # Nothing /\ a.length = Len(t)
  /\ \A before, after \in Seq(Char) :
       Decoder(Around(before, t, after))[<<"value", Len(before) + 1>>] = a

\* A number is written with characters.
LEMMA TextOfFigures ==
  ASSUME NEW Char, Marks \subseteq Char, NEW s \in Seq(Figure)
  PROVE  s \in Seq(Char)
<1>1. Figure \subseteq Char
  BY DEF Marks
<1>2. QED
  BY <1>1, SeqMonotonic

\* A text in its place.
LEMMA Window ==
  ASSUME NEW Char, NEW before \in Seq(Char), NEW t \in Seq(Char), NEW after \in Seq(Char)
  PROVE  LET x == before \o t \o after
         IN  /\ x \in Seq(Char)
             /\ Len(x) = Len(before) + Len(t) + Len(after)
             /\ \A k \in 1..Len(t) : x[Len(before) + k] = t[k]
             /\ \A k \in 1..Len(after) : x[Len(before) + Len(t) + k] = after[k]
<1> DEFINE b == before \o t
<1>0. Len(before) \in Nat /\ Len(t) \in Nat /\ Len(after) \in Nat
  BY LenProperties
<1>1. /\ b \in Seq(Char) /\ Len(b) = Len(before) + Len(t)
      /\ \A k \in 1..Len(before) + Len(t) : b[k] = IF k <= Len(before) THEN before[k] ELSE t[k - Len(before)]
  BY ConcatProperties
<1> HIDE DEF b
<1>2. /\ b \o after \in Seq(Char) /\ Len(b \o after) = Len(b) + Len(after)
      /\ \A k \in 1..Len(b) + Len(after) : (b \o after)[k] = IF k <= Len(b) THEN b[k] ELSE after[k - Len(b)]
  <2>1. b \in Seq(Char)
    BY <1>1
  <2>2. QED
    BY <2>1, ConcatProperties
<1>3. \A k \in 1..Len(t) : (b \o after)[Len(before) + k] = t[k]
  <2>1. TAKE k \in 1..Len(t)
  <2> DEFINE j == Len(before) + k
  <2>2. j \in 1..Len(b) + Len(after) /\ j <= Len(b) /\ j \in 1..Len(before) + Len(t)
        /\ ~(j <= Len(before)) /\ j - Len(before) = k
    BY <1>0, <1>1
  <2> HIDE DEF j
  <2>3. (b \o after)[j] = b[j] /\ b[j] = t[k]
    BY <1>1, <1>2, <2>2
  <2>4. QED
    BY <2>3 DEF j
<1>4. \A k \in 1..Len(after) : (b \o after)[Len(before) + Len(t) + k] = after[k]
  <2>1. TAKE k \in 1..Len(after)
  <2> DEFINE j == Len(before) + Len(t) + k
  <2>2. j \in 1..Len(b) + Len(after) /\ ~(j <= Len(b)) /\ j - Len(b) = k
    BY <1>0, <1>1
  <2> HIDE DEF j
  <2>3. (b \o after)[j] = after[k]
    BY <1>2, <2>2
  <2>4. QED
    BY <2>3 DEF j
<1>5. Len(b \o after) = Len(before) + Len(t) + Len(after)
  BY <1>1, <1>2
<1>6. QED
  BY <1>2, <1>3, <1>4, <1>5 DEF b

\* What substr takes is the text that is there.
LEMMA SubSeqIs ==
  ASSUME NEW Char, NEW x \in Seq(Char), NEW s \in Seq(Char), NEW i \in Nat \ {0},
         i + Len(s) - 1 <= Len(x), \A k \in 1..Len(s) : x[i + k - 1] = s[k]
  PROVE  SubSeq(x, i, i + Len(s) - 1) = s
<1> DEFINE n == i + Len(s) - 1
           u == SubSeq(x, i, n)
<1>0. Len(s) \in Nat /\ Len(x) \in Nat /\ \A k \in 1..Len(x) : x[k] \in Char
  BY LenProperties, ElementOfSeq
<1>1. n \in Int /\ \A k \in i..n : x[k] \in Char
  BY <1>0
<1>2. n - i + 1 = Len(s)
  BY <1>0
<1>3. (IF i <= n THEN n - i + 1 ELSE 0) = Len(s)
  BY <1>0
<1> HIDE DEF n
<1>4. /\ u \in Seq(Char) /\ Len(u) = IF i <= n THEN n - i + 1 ELSE 0
      /\ \A k \in 1..(n - i + 1) : u[k] = x[i + k - 1]
  BY <1>1, SubSeqProperties
<1> HIDE DEF u
<1>5. Len(u) = Len(s) /\ \A k \in 1..Len(s) : u[k] = s[k]
  BY <1>2, <1>3, <1>4
<1>6. u = s
  BY <1>4, <1>5, SeqEqual
<1>7. QED
  BY <1>6 DEF u, n

\* What the first character says of a value.
LEMMA DecodeArms ==
  ASSUME NEW x, NEW f, NEW i, ~(i > Len(x))
  PROVE  /\ x[i] = "i" => Decode(x, f, i) = DecodeLong(x, i)
         /\ x[i] \in Figure => Decode(x, f, i) = DecodeString(x, i)
         /\ x[i] = "l" => Decode(x, f, i) = f[<<"list", i + 1>>]
         /\ x[i] = "d" => Decode(x, f, i) = f[<<"dicti", i + 1>>]
         /\ x[i] = "e" => Decode(x, f, i) = Nothing
<1> DEFINE l == DecodeLong(x, i)
           s == DecodeString(x, i)
           g == Nothing
           b == f[<<"list", i + 1>>]
           c == f[<<"dicti", i + 1>>]
           d == IsDigit(x[i])
           o == x[i]
<1>1. Decode(x, f, i) = CASE o = "i" -> l [] d -> s [] o = "l" -> b [] o = "d" -> c [] OTHER -> g
  BY Zenon DEF Decode
<1>2. (d <=> o \in Figure) /\ \A m \in {"e", ":", "i", "l", "d"} : m \notin Figure
  BY DigitFacts
<1> HIDE DEF l, s, g, b, c, d, o
<1>3. /\ o = "i" => Decode(x, f, i) = l
      /\ o \in Figure => Decode(x, f, i) = s
      /\ o = "l" => Decode(x, f, i) = b
      /\ o = "d" => Decode(x, f, i) = c
      /\ o = "e" => Decode(x, f, i) = g
  BY <1>1, <1>2
<1>4. QED
  BY <1>3 DEF l, s, g, b, c, o

\* The number that EncodeLong writes is read back by DecodeLong, with the length
\* of what was written, whatever the text has before and after it.
THEOREM LongReads ==
  ASSUME NEW Char, Marks \subseteq Char, NEW n \in Nat
  PROVE  Reads(Char, EncodeLong(n), Parsed("long", n, Len(Decimal[n]) + 2))
<1> DEFINE D == Decimal[n]
           t == EncodeLong(n)
           a == Parsed("long", n, Len(D) + 2)
<1>1. D \in Seq(Figure) /\ D \in Seq(Char) /\ Len(D) \in Nat /\ Len(D) >= 1
  BY DecimalType, TextOfFigures, LenProperties
<1>2. /\ t \in Seq(Char) /\ Len(t) = Len(D) + 2
      /\ t[1] = "i" /\ t[Len(D) + 2] = "e" /\ \A k \in 1..Len(D) : t[k + 1] = D[k]
  <2>1. <<"i">> \in Seq(Char) /\ <<"e">> \in Seq(Char) /\ Len(<<"i">>) = 1 /\ Len(<<"e">>) = 1
    BY DEF Marks
  <2>2. t = <<"i">> \o D \o <<"e">>
    BY DEF EncodeLong
  <2> HIDE DEF D, t
  <2>3. QED
    BY <1>1, <2>1, <2>2
<1>3. Number(D) = n
  <2>1. D # <<>>
    BY <1>1
  <2>2. Value(D) = n
    BY ValueOfDecimal
  <2> HIDE DEF D
  <2>3. QED
    BY <1>1, <2>1, <2>2, NumberFacts
<1> HIDE DEF D, t
<1>4. a # Nothing /\ a.length = Len(t)
  BY <1>2, ParsedFacts
<1>5. ASSUME NEW before \in Seq(Char), NEW after \in Seq(Char)
      PROVE  Decoder(before \o t \o after)[<<"value", Len(before) + 1>>] = a
  <2> DEFINE x == before \o t \o after
             i == Len(before) + 1
             end == FirstEnd(x, i)
  <2>0. Len(before) \in Nat /\ Len(after) \in Nat
    BY LenProperties
  <2>1. /\ x \in Seq(Char) /\ Len(x) = Len(before) + Len(t) + Len(after)
        /\ \A k \in 1..Len(t) : x[Len(before) + k] = t[k]
    <3>1. t \in Seq(Char)
      BY <1>2
    <3>2. QED
      BY <3>1, Window
  <2> HIDE DEF x
  <2>2. i \in Nat \ {0} /\ i + Len(D) + 1 <= Len(x) /\ Len(x) \in Nat
    BY <1>1, <1>2, <2>0, <2>1
  <2>3. x[i] = "i" /\ x[i + Len(D) + 1] = "e"
    <3>1. 1 \in 1..Len(t) /\ Len(D) + 2 \in 1..Len(t)
      BY <1>1, <1>2
    <3>2. x[Len(before) + 1] = "i" /\ x[Len(before) + (Len(D) + 2)] = "e"
      BY <1>2, <2>1, <3>1
    <3>3. Len(before) + (Len(D) + 2) = i + Len(D) + 1
      BY <1>1, <2>0
    <3>4. QED
      BY <3>2, <3>3
  <2>4. \A k \in 1..Len(D) : x[(i + 1) + k - 1] = D[k]
    <3>1. TAKE k \in 1..Len(D)
    <3>2. k + 1 \in 1..Len(t) /\ Len(before) + (k + 1) = (i + 1) + k - 1
      BY <1>1, <1>2, <2>0
    <3>3. x[Len(before) + (k + 1)] = t[k + 1]
      BY <2>1, <3>2
    <3>4. QED
      BY <1>2, <3>2, <3>3
  <2> HIDE DEF i
  <2>5. end = i + Len(D) + 1
    <3>1. \/ end = 0 /\ \A k \in i..Len(x) : x[k] # "e"
          \/ end \in i..Len(x) /\ x[end] = "e" /\ \A k \in i..(end - 1) : x[k] # "e"
      BY <2>1, <2>2, FirstEndFacts
    <3> HIDE DEF end
    <3>2. i + Len(D) + 1 \in i..Len(x)
      BY <1>1, <2>2
    <3>3. end \in i..Len(x) /\ x[end] = "e" /\ \A k \in i..(end - 1) : x[k] # "e"
      BY <2>3, <3>1, <3>2
    <3>4. end # i
      BY <2>3, <3>3
    <3>5. ASSUME end \in (i + 1)..(i + Len(D)) PROVE FALSE
      <4>1. end - i \in 1..Len(D) /\ (i + 1) + (end - i) - 1 = end
        BY <1>1, <2>2, <3>5
      <4>2. x[end] = D[end - i]
        BY <2>4, <4>1
      <4>3. D[end - i] \in Figure
        BY <1>1, <4>1, ElementOfSeq
      <4>4. QED
        BY <3>3, <4>2, <4>3, DigitFacts
    <3>6. ~(end > i + Len(D) + 1)
      <4>1. SUFFICES ASSUME end > i + Len(D) + 1 PROVE FALSE
        OBVIOUS
      <4>2. i + Len(D) + 1 \in i..(end - 1)
        BY <1>1, <2>2, <3>3, <4>1
      <4>3. QED
        BY <2>3, <3>3, <4>2
    <3>7. QED
      BY <1>1, <2>2, <3>3, <3>4, <3>5, <3>6
  <2>6. SubSeq(x, i + 1, end - 1) = D
    <3>1. i + 1 \in Nat \ {0} /\ (i + 1) + Len(D) - 1 <= Len(x)
      BY <1>1, <2>2
    <3>2. SubSeq(x, i + 1, (i + 1) + Len(D) - 1) = D
      <4> DEFINE j == i + 1
      <4>1. \A k \in 1..Len(D) : x[j + k - 1] = D[k]
        BY <2>4
      <4>2. j \in Nat \ {0} /\ j + Len(D) - 1 <= Len(x) /\ D \in Seq(Char)
        BY <1>1, <3>1
      <4> HIDE DEF j
      <4>3. SubSeq(x, j, j + Len(D) - 1) = D
        <5>1. x \in Seq(Char)
          BY <2>1
        <5>2. j \in Nat \ {0}
          BY <4>2
        <5>3. j + Len(D) - 1 <= Len(x)
          BY <4>2
        <5>4. D \in Seq(Char)
          BY <4>2
        <5>5. QED
          BY <4>1, <5>1, <5>2, <5>3, <5>4, SubSeqIs, Zenon
      <4>4. QED
        BY <4>3 DEF j
    <3>3. (i + 1) + Len(D) - 1 = end - 1
      BY <1>1, <2>2, <2>5
    <3>4. QED
      BY <3>2, <3>3
  <2>7. DecodeLong(x, i) = a
    <3>1. end # 0
      BY <1>1, <2>2, <2>5
    <3>2. DecodeLong(x, i) =
            LET m == Number(SubSeq(x, i + 1, end - 1))
            IN  IF end = 0 THEN Nothing ELSE Parsed("long", m, Len(Decimal[m]) + 2)
      BY Zenon DEF DecodeLong, FirstEnd
    <3> HIDE DEF end
    <3>3. QED
      BY <1>3, <2>6, <3>1, <3>2 DEF D
  <2>8. Decode(x, Decoder(x), i) = DecodeLong(x, i)
    <3>1. ~(i > Len(x))
      BY <1>1, <2>2
    <3>2. QED
      BY <2>3, <3>1, DecodeArms
  <2>9. Decoder(x)[<<"value", i>>] = a
    BY <2>1, <2>2, <2>7, <2>8, DecoderEquation
  <2>10. QED
    BY <2>9 DEF x, i
<1>6. t # <<>>
  BY <1>1, <1>2
<1>7. Reads(Char, t, a)
  <2> HIDE DEF a
  <2>1. QED
    BY <1>2, <1>4, <1>5, <1>6 DEF Reads, Around
<1>8. QED
  BY <1>7 DEF t, D

\* The string that EncodeString writes is read back by DecodeString, whatever its
\* characters, also digits and those that mark a value.
THEOREM StringReads ==
  ASSUME NEW Char, Marks \subseteq Char, NEW s \in Seq(Char)
  PROVE  Reads(Char, EncodeString(s), Parsed("string", s, Len(Decimal[Len(s)]) + 1 + Len(s)))
<1> DEFINE n == Len(s)
           D == Decimal[n]
           t == EncodeString(s)
           a == Parsed("string", s, Len(D) + 1 + n)
<1>0. n \in Nat
  BY LenProperties
<1>1. D \in Seq(Figure) /\ D \in Seq(Char) /\ Len(D) \in Nat /\ Len(D) >= 1
  BY <1>0, DecimalType, TextOfFigures, LenProperties
<1>2. /\ t \in Seq(Char) /\ Len(t) = Len(D) + 1 + n
      /\ \A k \in 1..Len(D) : t[k] = D[k]
      /\ t[Len(D) + 1] = ":"
      /\ \A k \in 1..n : t[Len(D) + 1 + k] = s[k]
  <2>1. <<":">> \in Seq(Char) /\ Len(<<":">>) = 1
    BY DEF Marks
  <2>2. t = D \o <<":">> \o s
    BY DEF EncodeString
  <2> HIDE DEF D, t
  <2>3. QED
    BY <1>0, <1>1, <2>1, <2>2
<1>3. Number(D) = n
  <2>1. D # <<>>
    BY <1>1
  <2>2. Value(D) = n
    BY <1>0, ValueOfDecimal
  <2> HIDE DEF D
  <2>3. QED
    BY <1>1, <2>1, <2>2, NumberFacts
<1> HIDE DEF D, t
<1>4. a # Nothing /\ a.length = Len(t)
  BY <1>2, ParsedFacts
<1>5. ASSUME NEW before \in Seq(Char), NEW after \in Seq(Char)
      PROVE  Decoder(before \o t \o after)[<<"value", Len(before) + 1>>] = a
  <2> DEFINE x == before \o t \o after
             i == Len(before) + 1
             split == FirstMark(x, i)
  <2>0. Len(before) \in Nat /\ Len(after) \in Nat
    BY LenProperties
  <2>1. /\ x \in Seq(Char) /\ Len(x) = Len(before) + Len(t) + Len(after)
        /\ \A k \in 1..Len(t) : x[Len(before) + k] = t[k]
    <3>1. t \in Seq(Char)
      BY <1>2
    <3>2. QED
      BY <3>1, Window
  <2> HIDE DEF x
  <2>2. i \in Nat \ {0} /\ i + Len(D) + n <= Len(x) /\ Len(x) \in Nat
    BY <1>0, <1>1, <1>2, <2>0, <2>1
  <2>3. \A k \in 1..Len(D) : x[i + k - 1] = D[k]
    <3>1. TAKE k \in 1..Len(D)
    <3>2. k \in 1..Len(t) /\ Len(before) + k = i + k - 1
      BY <1>0, <1>1, <1>2, <2>0
    <3>3. x[Len(before) + k] = t[k]
      BY <2>1, <3>2
    <3>4. QED
      BY <1>2, <3>2, <3>3
  <2>4. x[i + Len(D)] = ":"
    <3>1. Len(D) + 1 \in 1..Len(t) /\ Len(before) + (Len(D) + 1) = i + Len(D)
      BY <1>0, <1>1, <1>2, <2>0
    <3>2. x[Len(before) + (Len(D) + 1)] = t[Len(D) + 1]
      BY <2>1, <3>1
    <3>3. QED
      BY <1>2, <3>1, <3>2
  <2>5. \A k \in 1..n : x[(i + Len(D) + 1) + k - 1] = s[k]
    <3>1. TAKE k \in 1..n
    <3>2. Len(D) + 1 + k \in 1..Len(t) /\ Len(before) + (Len(D) + 1 + k) = (i + Len(D) + 1) + k - 1
      BY <1>0, <1>1, <1>2, <2>0
    <3>3. x[Len(before) + (Len(D) + 1 + k)] = t[Len(D) + 1 + k]
      BY <2>1, <3>2
    <3>4. QED
      BY <1>2, <3>2, <3>3
  <2> HIDE DEF i
  <2>6. split = i + Len(D)
    <3>1. \/ split = 0 /\ \A k \in i..Len(x) : x[k] \in Figure
          \/ split \in i..Len(x) /\ x[split] \notin Figure /\ \A k \in i..(split - 1) : x[k] \in Figure
      BY <2>1, <2>2, FirstMarkFacts
    <3> HIDE DEF split
    <3>2. i + Len(D) \in i..Len(x) /\ x[i + Len(D)] \notin Figure
      <4>1. i + Len(D) \in i..Len(x)
        BY <1>0, <1>1, <2>2
      <4>2. ":" \notin Figure
        BY DigitFacts
      <4>3. QED
        BY <2>4, <4>1, <4>2
    <3>3. split \in i..Len(x) /\ x[split] \notin Figure /\ \A k \in i..(split - 1) : x[k] \in Figure
      BY <3>1, <3>2
    <3>4. ASSUME split \in i..(i + Len(D) - 1) PROVE FALSE
      <4>1. split - i + 1 \in 1..Len(D) /\ i + (split - i + 1) - 1 = split
        BY <1>1, <2>2, <3>4
      <4>2. x[split] = D[split - i + 1]
        BY <2>3, <4>1
      <4>3. D[split - i + 1] \in Figure
        BY <1>1, <4>1, ElementOfSeq
      <4>4. QED
        BY <3>3, <4>2, <4>3
    <3>5. ~(split > i + Len(D))
      <4>1. SUFFICES ASSUME split > i + Len(D) PROVE FALSE
        OBVIOUS
      <4>2. i + Len(D) \in i..(split - 1)
        BY <1>1, <2>2, <3>3, <4>1
      <4>3. QED
        BY <3>2, <3>3, <4>2
    <3>6. split \in Int /\ split >= i /\ ~(split > i + Len(D)) /\ i \in Nat /\ Len(D) \in Nat
      BY <1>1, <2>2, <3>3, <3>5
    <3>7. ~(split <= i + Len(D) - 1)
      BY <3>4, <3>6
    <3>8. QED
      BY <3>6, <3>7
  <2>7. SubSeq(x, i, split - 1) = D
    <3>1. x \in Seq(Char) /\ i \in Nat \ {0} /\ D \in Seq(Char) /\ i + Len(D) - 1 <= Len(x)
      BY <1>0, <1>1, <2>1, <2>2
    <3>2. SubSeq(x, i, i + Len(D) - 1) = D
      BY <2>3, <3>1, SubSeqIs
    <3>3. i + Len(D) - 1 = split - 1
      BY <1>1, <2>2, <2>6
    <3>4. QED
      BY <3>2, <3>3
  <2> DEFINE end == IF split + n > Len(x) THEN Len(x) ELSE split + n
  <2>8. end = split + n /\ split # 0
    BY <1>0, <1>1, <2>2, <2>6
  <2>9. SubSeq(x, split + 1, end) = s
    <3> DEFINE j == i + Len(D) + 1
    <3>1. \A k \in 1..Len(s) : x[j + k - 1] = s[k]
      BY <2>5
    <3>2. j \in Nat \ {0} /\ j + Len(s) - 1 <= Len(x)
      BY <1>0, <1>1, <2>2
    <3>3. x \in Seq(Char)
      BY <2>1
    <3>4. j = split + 1 /\ j + Len(s) - 1 = end
      BY <1>0, <1>1, <2>2, <2>6, <2>8
    <3> HIDE DEF j
    <3>5. SubSeq(x, j, j + Len(s) - 1) = s
      BY <3>1, <3>2, <3>3, SubSeqIs
    <3>6. QED
      BY <3>4, <3>5, Zenon
  <2>10. DecodeString(x, i) = a
    <3> DEFINE announced == Number(SubSeq(x, i, split - 1))
               e == IF split + announced > Len(x) THEN Len(x) ELSE split + announced
               u == SubSeq(x, split + 1, e)
    <3>1. DecodeString(x, i) = IF split = 0 THEN Nothing
                               ELSE Parsed("string", u, Len(Decimal[Len(u)]) + 1 + Len(u))
      BY Zenon DEF DecodeString, FirstMark
    <3>2. announced = n
      BY <1>3, <2>7
    <3>3. e = end
      BY <3>2
    <3>4. u = s
      BY <2>9, <3>3
    <3> HIDE DEF u, split
    <3>5. QED
      BY <2>8, <3>1, <3>4 DEF D
  <2>11. Decode(x, Decoder(x), i) = DecodeString(x, i)
    <3>1. ~(i > Len(x))
      BY <1>0, <1>1, <2>2
    <3>2. x[i] \in Figure
      <4>1. 1 \in 1..Len(D) /\ i + 1 - 1 = i
        BY <1>1, <2>2
      <4>2. D[1] \in Figure
        BY <1>1, <4>1, ElementOfSeq
      <4>3. QED
        BY <2>3, <4>1, <4>2
    <3>3. QED
      BY <3>1, <3>2, DecodeArms
  <2>12. Decoder(x)[<<"value", i>>] = a
    BY <2>1, <2>2, <2>10, <2>11, DecoderEquation
  <2>13. QED
    BY <2>12 DEF x, i
<1>6. t # <<>>
  BY <1>0, <1>1, <1>2
<1>7. Reads(Char, t, a)
  <2> HIDE DEF a
  <2>1. QED
    BY <1>2, <1>4, <1>5, <1>6 DEF Reads, Around
<1>8. QED
  BY <1>7 DEF t, D

---------------------------------------------------------------------------
(***************************************************************************)
(* Texts one after the other, as in a list.                                *)
(***************************************************************************)

FlattenStep(texts, f, k) == IF k = 1 THEN texts[k] ELSE f[k - 1] \o texts[k]

\* The beginnings of the texts, one after the other.
LEMMA FlattenExists ==
  ASSUME NEW Char, NEW texts \in Seq(Seq(Char)), NEW n \in 0..Len(texts)
  PROVE  \E f : /\ f = [k \in 1..n |-> FlattenStep(texts, f, k)]
                /\ \A k \in 1..n : f[k] \in Seq(Char)
<1> DEFINE Good == {m \in Nat : m <= Len(texts) =>
                      \E f : /\ f = [k \in 1..m |-> FlattenStep(texts, f, k)]
                             /\ \A k \in 1..m : f[k] \in Seq(Char)}
<1>0. Len(texts) \in Nat /\ \A k \in 1..Len(texts) : texts[k] \in Seq(Char)
  BY LenProperties, ElementOfSeq
<1>1. 0 \in Good
  <2>1. 1..0 = {}
    OBVIOUS
  <2> DEFINE f == [k \in 1..0 |-> <<>>]
  <2>2. f = [k \in 1..0 |-> FlattenStep(texts, f, k)]
    BY <2>1
  <2>3. \A k \in 1..0 : f[k] \in Seq(Char)
    BY <2>1
  <2> HIDE DEF f
  <2>4. QED
    BY <2>2, <2>3
<1>2. ASSUME NEW m \in Nat, m \in Good
      PROVE  m + 1 \in Good
  <2>1. SUFFICES ASSUME m + 1 <= Len(texts)
                 PROVE  \E f : /\ f = [k \in 1..(m + 1) |-> FlattenStep(texts, f, k)]
                               /\ \A k \in 1..(m + 1) : f[k] \in Seq(Char)
    OBVIOUS
  <2>2. PICK f : /\ f = [k \in 1..m |-> FlattenStep(texts, f, k)]
                 /\ \A k \in 1..m : f[k] \in Seq(Char)
    BY <1>0, <1>2, <2>1
  <2> DEFINE g == [k \in 1..(m + 1) |-> FlattenStep(texts, f, k)]
  <2>3. \A k \in 1..m : f[k] = FlattenStep(texts, f, k)
    BY <2>2, Zenon
  <2>4. \A k \in 1..m : g[k] = f[k]
    BY <2>3
  <2>5. \A k \in 1..(m + 1) : k # 1 => k - 1 \in 1..m
    OBVIOUS
  <2>a. \A k \in 1..(m + 1) : k \in 1..Len(texts)
    BY <1>0, <2>1
  <2>6. \A k \in 1..(m + 1) : FlattenStep(texts, f, k) = FlattenStep(texts, g, k)
    <3> HIDE DEF g
    <3>1. QED
      BY <2>4, <2>5 DEF FlattenStep
  <2>7. \A k \in 1..(m + 1) : FlattenStep(texts, f, k) \in Seq(Char)
    <3>1. TAKE k \in 1..(m + 1)
    <3>2. texts[k] \in Seq(Char)
      BY <1>0, <2>a
    <3>3. k # 1 => f[k - 1] \in Seq(Char)
      BY <2>2, <2>5
    <3>4. QED
      BY <3>2, <3>3, ConcatProperties DEF FlattenStep
  <2>8. g = [k \in 1..(m + 1) |-> FlattenStep(texts, g, k)]
    <3> DEFINE h == g
    <3>1. h = [k \in 1..(m + 1) |-> FlattenStep(texts, f, k)]
      OBVIOUS
    <3>2. \A k \in 1..(m + 1) : FlattenStep(texts, f, k) = FlattenStep(texts, h, k)
      BY <2>6
    <3> HIDE DEF h, g
    <3>3. h = [k \in 1..(m + 1) |-> FlattenStep(texts, h, k)]
      BY <3>1, <3>2, Zenon
    <3>4. QED
      BY <3>3 DEF h
  <2>9. \A k \in 1..(m + 1) : g[k] \in Seq(Char)
    BY <2>7
  <2> HIDE DEF g
  <2>10. QED
    BY <2>8, <2>9
<1>3. Nat \subseteq Good
  <2> HIDE DEF Good
  <2>1. QED
    BY <1>1, <1>2, SetInduction
<1>4. QED
  BY <1>0, <1>3

\* Concatenation, under a name that the provers do not expand.
Cat(s, t) == s \o t

\* FlattenSeq, part by part: where each text is in it.
LEMMA FlattenParts ==
  ASSUME NEW Char, NEW texts \in Seq(Seq(Char))
  PROVE  \E flat \in [0..Len(texts) -> Seq(Char)] :
           /\ flat[0] = <<>>
           /\ \A k \in 1..Len(texts) : flat[k] = Cat(flat[k - 1], texts[k])
           /\ FlattenSeq(texts) = flat[Len(texts)]
<1> DEFINE n == Len(texts)
           Is(f) == f = [k \in 1..n |-> FlattenStep(texts, f, k)]
           f == CHOOSE f : Is(f)
           flat == [k \in 0..n |-> IF k = 0 THEN <<>> ELSE f[k]]
<1>0. n \in Nat /\ \A k \in 1..n : texts[k] \in Seq(Char)
  BY LenProperties, ElementOfSeq
<1>1. PICK g : Is(g) /\ \A k \in 1..n : g[k] \in Seq(Char)
  <2>1. n \in 0..n
    BY <1>0
  <2>2. QED
    BY <2>1, FlattenExists
<1>2. FlattenSeq(texts) = IF n = 0 THEN texts ELSE f[n]
  BY Zenon DEF FlattenSeq, FlattenStep
<1>3. Is(f)
  <2> HIDE DEF Is
  <2>1. QED
    BY <1>1, Zenon
<1> HIDE DEF f
<1>4. \A k \in 1..n : f[k] = FlattenStep(texts, f, k)
  BY <1>3, Zenon
<1>5. \A k \in 1..n : f[k] \in Seq(Char)
  <2> DEFINE Good == {k \in Nat : k \in 1..n => f[k] \in Seq(Char)}
  <2>1. 0 \in Good
    OBVIOUS
  <2>2. ASSUME NEW k \in Nat, k \in Good PROVE k + 1 \in Good
    <3>1. SUFFICES ASSUME k + 1 \in 1..n PROVE f[k + 1] \in Seq(Char)
      OBVIOUS
    <3>2. f[k + 1] = IF k = 0 THEN texts[k + 1] ELSE f[k] \o texts[k + 1]
      <4>1. f[k + 1] = FlattenStep(texts, f, k + 1) /\ (k + 1 = 1 <=> k = 0) /\ (k + 1) - 1 = k
        BY <1>4, <3>1
      <4>2. QED
        BY <4>1 DEF FlattenStep
    <3>3. texts[k + 1] \in Seq(Char)
      BY <1>0, <3>1
    <3>4. k # 0 => f[k] \in Seq(Char)
      BY <1>0, <2>2, <3>1
    <3>5. QED
      BY <3>2, <3>3, <3>4, ConcatProperties
  <2>3. Nat \subseteq Good
    <3> HIDE DEF Good
    <3>1. QED
      BY <2>1, <2>2, SetInduction
  <2>4. QED
    BY <2>3
<1>6. flat \in [0..n -> Seq(Char)] /\ flat[0] = <<>>
  <2>1. \A k \in 0..n : k # 0 => k \in 1..n
    BY <1>0
  <2>2. <<>> \in Seq(Char) /\ 0 \in 0..n
    BY <1>0
  <2>3. QED
    BY <1>5, <2>1, <2>2
<1>7. \A k \in 1..n : flat[k] = flat[k - 1] \o texts[k]
  <2>1. TAKE k \in 1..n
  <2>2. k \in 0..n /\ k # 0 /\ k - 1 \in 0..n /\ texts[k] \in Seq(Char)
    BY <1>0
  <2>3. f[k] = IF k = 1 THEN texts[k] ELSE f[k - 1] \o texts[k]
    BY <1>4 DEF FlattenStep
  <2>4. CASE k = 1
    <3>1. flat[k - 1] = <<>>
      BY <2>2, <2>4
    <3>2. <<>> \o texts[k] = texts[k]
      BY <2>2, ConcatEmptySeq
    <3>3. flat[k] = f[k]
      BY <2>2
    <3>4. QED
      BY <2>3, <2>4, <3>1, <3>2, <3>3
  <2>5. CASE k # 1
    <3>1. flat[k - 1] = f[k - 1] /\ flat[k] = f[k]
      BY <2>2, <2>5
    <3>2. QED
      BY <2>3, <2>5, <3>1
  <2>6. QED
    BY <2>4, <2>5
<1>8. FlattenSeq(texts) = flat[n]
  <2>1. CASE n = 0
    <3>1. texts = <<>>
      BY <2>1
    <3>2. QED
      BY <1>2, <1>6, <2>1, <3>1
  <2>2. CASE n # 0
    <3>1. n \in 0..n
      BY <1>0
    <3>2. QED
      BY <1>2, <2>2, <3>1
  <2>3. QED
    BY <2>1, <2>2
<1>9. \A k \in 1..n : flat[k] = Cat(flat[k - 1], texts[k])
  <2> HIDE DEF flat
  <2>1. QED
    BY <1>7, Zenon DEF Cat
<1>10. QED
  <2> HIDE DEF flat
  <2>1. QED
    BY <1>6, <1>8, <1>9

\* Concatenation under that name is associative.
LEMMA Associative ==
  ASSUME NEW Char
  PROVE  \A s, t, u \in Seq(Char) : Cat(Cat(s, t), u) = Cat(s, Cat(t, u))
BY ConcatAssociative DEF Cat

\* Each text is in the whole, after those before it.
Inside(Char, texts, flat) ==
  \A k \in 1..Len(texts) :
    \E q \in Seq(Char) : flat[Len(texts)] = Around(flat[k - 1], texts[k], q)

\* FlattenSeq has each of the texts inside of it.
LEMMA FlattenSplit ==
  ASSUME NEW Char, NEW texts \in Seq(Seq(Char)), NEW flat \in [0..Len(texts) -> Seq(Char)],
         \A k \in 1..Len(texts) : flat[k] = Cat(flat[k - 1], texts[k])
  PROVE  Inside(Char, texts, flat)
<1> SUFFICES ASSUME NEW k \in 1..Len(texts)
             PROVE  \E q \in Seq(Char) : flat[Len(texts)] = Around(flat[k - 1], texts[k], q)
  BY DEF Inside
<1> DEFINE n == Len(texts)
           Good == {m \in Nat : m <= n - 1 =>
                      \E q \in Seq(Char) : flat[n] = flat[n - m - 1] \o texts[n - m] \o q}
<1>0. n \in Nat /\ \A j \in 1..n : texts[j] \in Seq(Char)
  BY LenProperties, ElementOfSeq
<1>a. \A j \in 1..n : flat[j] = flat[j - 1] \o texts[j]
  BY Zenon DEF Cat
<1> HIDE DEF n
<1>1. 0 \in Good
  <2>1. SUFFICES ASSUME 0 <= n - 1
                 PROVE  \E q \in Seq(Char) : flat[n] = flat[n - 0 - 1] \o texts[n - 0] \o q
    OBVIOUS
  <2>2. n \in 1..n /\ n - 0 - 1 = n - 1 /\ n - 0 = n
    BY <1>0, <2>1
  <2>3. flat[n] = flat[n - 1] \o texts[n] /\ flat[n] \in Seq(Char)
    <3>1. flat[n] = flat[n - 1] \o texts[n]
      BY <1>a, <2>2, Zenon
    <3>2. flat[n] \in Seq(Char)
      <4>1. flat \in [0..n -> Seq(Char)]
        BY DEF n
      <4>2. n \in 0..n
        BY <1>0
      <4>3. QED
        BY <4>1, <4>2
    <3>3. QED
      BY <3>1, <3>2, Zenon
  <2>4. flat[n] = (flat[n - 1] \o texts[n]) \o <<>> /\ <<>> \in Seq(Char)
    BY <2>3, ConcatEmptySeq
  <2>5. QED
    BY <2>2, <2>4
<1>2. ASSUME NEW m \in Nat, m \in Good
      PROVE  m + 1 \in Good
  <2> DEFINE j == n - m - 1
  <2>1. SUFFICES ASSUME m + 1 <= n - 1
                 PROVE  \E q \in Seq(Char) : flat[n] = flat[n - (m + 1) - 1] \o texts[n - (m + 1)] \o q
    <3>1. m + 1 \in Nat
      OBVIOUS
    <3>2. QED
      BY <3>1, Zenon
  <2>2. /\ n - (m + 1) - 1 = j - 1 /\ n - (m + 1) = j /\ n - m = j + 1 /\ j \in 1..n /\ j + 1 \in 1..n
        /\ j - 1 \in 0..n /\ j \in 0..n /\ m <= n - 1 /\ n - m - 1 = j
    BY <1>0, <2>1
  <2> HIDE DEF j
  <2>3. PICK q \in Seq(Char) : flat[n] = flat[j] \o texts[j + 1] \o q
    BY <1>2, <2>2
  <2>4. /\ flat[j] = flat[j - 1] \o texts[j] /\ flat[j - 1] \in Seq(Char) /\ flat[j] \in Seq(Char)
        /\ texts[j] \in Seq(Char) /\ texts[j + 1] \in Seq(Char)
    <3>1. flat[j] = flat[j - 1] \o texts[j]
      BY <1>a, <2>2, Zenon
    <3>2. /\ flat[j - 1] \in Seq(Char) /\ flat[j] \in Seq(Char)
          /\ texts[j] \in Seq(Char) /\ texts[j + 1] \in Seq(Char)
      BY <1>0, <2>2 DEF n
    <3>3. QED
      BY <3>1, <3>2, Zenon
  <2>5. texts[j + 1] \o q \in Seq(Char) /\ flat[n] = flat[j] \o (texts[j + 1] \o q)
    <3> DEFINE u == texts[j + 1]
               v == flat[j]
    <3>1. u \in Seq(Char) /\ v \in Seq(Char) /\ flat[n] = v \o u \o q
      BY <2>3, <2>4
    <3> HIDE DEF u, v
    <3>2. u \o q \in Seq(Char)
      BY <3>1, ConcatProperties
    <3>3. (v \o u) \o q = v \o (u \o q)
      <4>1. Cat(Cat(v, u), q) = Cat(v, Cat(u, q))
        BY <3>1, Associative
      <4>2. QED
        BY <4>1, Zenon DEF Cat
    <3>4. flat[n] = v \o (u \o q)
      BY <3>1, <3>3
    <3>5. QED
      BY <3>2, <3>4 DEF u, v
  <2>6. \E r \in Seq(Char) : flat[n] = flat[j - 1] \o texts[j] \o r
    BY <2>4, <2>5, Zenon
  <2>7. QED
    BY <2>2, <2>6
<1>3. Nat \subseteq Good
  <2> HIDE DEF Good
  <2>1. QED
    BY <1>1, <1>2, SetInduction
<1>4. n - k \in Nat /\ n - k <= n - 1 /\ n - (n - k) - 1 = k - 1 /\ n - (n - k) = k
  <2>1. k \in 1..n
    BY DEF n
  <2>2. QED
    BY <1>0, <2>1
<1>5. \E q \in Seq(Char) : flat[n] = flat[n - (n - k) - 1] \o texts[n - (n - k)] \o q
  BY <1>3, <1>4
<1>6. \E q \in Seq(Char) : flat[n] = flat[k - 1] \o texts[k] \o q
  BY <1>4, <1>5
<1>7. QED
  BY <1>6, Zenon DEF n, Around

---------------------------------------------------------------------------
(***************************************************************************)
(* Lists, read back in any text.                                           *)
(***************************************************************************)

\* A text inside of another one is inside of what that one is in.
LEMMA Nested ==
  ASSUME NEW Char
  PROVE  \A a, p, u, q, b \in Seq(Char) :
           Cat(Cat(a, Cat(Cat(p, u), q)), b) = Cat(Cat(Cat(a, p), u), Cat(q, b))
<1> DEFINE S == Seq(Char)
<1>1. \A s, t \in S : Cat(s, t) \in S
  BY ConcatProperties DEF Cat
<1>2. \A s, t, u \in S : Cat(Cat(s, t), u) = Cat(s, Cat(t, u))
  BY Associative
<1> HIDE DEF S
<1>3. \A a, p, u, q, b \in S :
        Cat(Cat(a, Cat(Cat(p, u), q)), b) = Cat(Cat(Cat(a, p), u), Cat(q, b))
  BY <1>1, <1>2
<1>4. QED
  BY <1>3 DEF S

\* The text u at i in x is read as a.
ItemAt(x, i, u, a) ==
  /\ Decoder(x)[<<"value", i>>] = a
  /\ i + Len(u) <= Len(x) + 1 /\ x[i] # "e" /\ a # Nothing
  /\ a.length = Len(u) /\ Len(u) \in Nat /\ Len(u) >= 1

\* A text inside of another one is read at its place.
LEMMA ItemInside ==
  ASSUME NEW Char, Marks \subseteq Char, NEW b \in Seq(Char), NEW p \in Seq(Char),
         NEW u \in Seq(Char), NEW q \in Seq(Char), NEW c \in Seq(Char), NEW a, Reads(Char, u, a)
  PROVE  ItemAt(Around(b, Around(p, u, q), c), Len(b) + 1 + Len(p), u, a)
<1> DEFINE b2 == b \o p
           a2 == q \o c
           x == b \o (p \o u \o q) \o c
           i == Len(b) + 1 + Len(p)
<1>0. /\ Len(b) \in Nat /\ Len(p) \in Nat /\ Len(u) \in Nat /\ Len(q) \in Nat /\ Len(c) \in Nat
  BY LenProperties
<1>1. /\ b2 \in Seq(Char) /\ Len(b2) = Len(b) + Len(p)
      /\ a2 \in Seq(Char) /\ Len(a2) = Len(q) + Len(c)
  BY ConcatProperties
<1>2. x = b2 \o u \o a2
  <2>1. Cat(Cat(b, Cat(Cat(p, u), q)), c) = Cat(Cat(Cat(b, p), u), Cat(q, c))
    BY Nested
  <2>2. QED
    BY <2>1, Zenon DEF Cat
<1> HIDE DEF b2, a2, x
<1>3. i = Len(b2) + 1
  BY <1>0, <1>1
<1>4. u # <<>> /\ a # Nothing /\ a.length = Len(u)
  BY DEF Reads
<1>5. Decoder(b2 \o u \o a2)[<<"value", Len(b2) + 1>>] = a
  BY <1>1, Zenon DEF Reads, Around
<1>6. x \in Seq(Char) /\ Len(x) = Len(b2) + Len(u) + Len(a2)
  <2>1. b2 \in Seq(Char) /\ a2 \in Seq(Char)
    BY <1>1
  <2> DEFINE y == b2 \o u \o a2
  <2>2. y \in Seq(Char) /\ Len(y) = Len(b2) + Len(u) + Len(a2)
    BY <2>1, Window
  <2> HIDE DEF y
  <2>3. x = y
    BY <1>2 DEF y
  <2>4. QED
    BY <2>2, <2>3
<1>7. Len(u) >= 1
  BY <1>0, <1>4
<1>8. i + Len(u) <= Len(x) + 1 /\ i \in Nat \ {0} /\ ~(i > Len(x))
  BY <1>0, <1>1, <1>3, <1>6, <1>7
<1> HIDE DEF i
<1>9. Decoder(x)[<<"value", i>>] = a
  BY <1>2, <1>3, <1>5
<1>10. x[i] # "e"
  <2>1. Decoder(x)[<<"value", i>>] = Decode(x, Decoder(x), i)
    BY <1>6, <1>8, DecoderEquation
  <2>2. QED
    BY <1>4, <1>8, <1>9, <2>1, DecodeArms
<1>11. ItemAt(x, i, u, a)
  BY <1>0, <1>4, <1>7, <1>8, <1>9, <1>10 DEF ItemAt
<1>12. QED
  BY <1>11, Zenon DEF x, i, Around
\* What a list and a dictionary are written between.
Frame(m, F) == <<m>> \o F \o <<"e">>

\* What a frame is around has the mark before it and the "e" after it.
Framed(Char, before, m, F, after) ==
  \E b, c \in Seq(Char) : /\ Around(before, Frame(m, F), after) = Around(b, F, c)
                          /\ Len(b) = Len(before) + 1

\* So it is wherever the frame is put.
LEMMA FrameInside ==
  ASSUME NEW Char, Marks \subseteq Char, NEW before \in Seq(Char), NEW after \in Seq(Char),
         NEW m \in Char, NEW F \in Seq(Char)
  PROVE  Framed(Char, before, m, F, after)
<1> DEFINE b == Cat(before, <<m>>)
           c == Cat(<<"e">>, after)
           o == <<m>>
           e == <<"e">>
<1>1. o \in Seq(Char) /\ e \in Seq(Char) /\ Len(o) = 1
  BY DEF Marks
<1>2. b \in Seq(Char) /\ c \in Seq(Char) /\ Len(b) = Len(before) + 1
  BY <1>1, ConcatProperties DEF Cat
<1>3. Cat(Cat(before, Cat(Cat(o, F), e)), after) = Cat(Cat(Cat(before, o), F), Cat(e, after))
  <2> HIDE DEF o, e
  <2>1. QED
    BY <1>1, Nested
<1>4. Around(before, Frame(m, F), after) = Around(b, F, c)
  BY <1>3, Zenon DEF Around, Frame, Cat, o, e, b, c
<1> HIDE DEF b, c
<1>5. QED
  BY <1>2, <1>4, Zenon DEF Framed

\* Where the loop over the items starts, and where it ends.
LEMMA FrameFacts ==
  ASSUME NEW Char, Marks \subseteq Char, NEW before \in Seq(Char), NEW after \in Seq(Char),
         NEW m \in Char, NEW F \in Seq(Char)
  PROVE  LET t == Frame(m, F)
             x == Around(before, t, after)
             i == Len(before) + 1
         IN  /\ t \in Seq(Char) /\ Len(t) = Len(F) + 2 /\ t # <<>>
             /\ x \in Seq(Char) /\ i \in Nat \ {0} /\ ~(i > Len(x))
             /\ x[i] = m /\ x[i + 1 + Len(F)] = "e"
<1> DEFINE t == <<m>> \o F \o <<"e">>
           x == before \o t \o after
           i == Len(before) + 1
<1>0. /\ Len(before) \in Nat /\ Len(after) \in Nat /\ Len(F) \in Nat
      /\ <<m>> \in Seq(Char) /\ <<"e">> \in Seq(Char)
  BY LenProperties DEF Marks
<1>1. t \in Seq(Char) /\ Len(t) = Len(F) + 2 /\ t[1] = m /\ t[Len(F) + 2] = "e"
  BY <1>0
<1> HIDE DEF t
<1>2. /\ x \in Seq(Char) /\ Len(x) = Len(before) + Len(t) + Len(after)
      /\ \A k \in 1..Len(t) : x[Len(before) + k] = t[k]
  <2>1. t \in Seq(Char)
    BY <1>1
  <2>2. QED
    BY <2>1, Window
<1> HIDE DEF x
<1>3. 1 \in 1..Len(t) /\ Len(F) + 2 \in 1..Len(t) /\ Len(before) + (Len(F) + 2) = i + 1 + Len(F)
  BY <1>0, <1>1
<1>4. x[i] = m /\ x[i + 1 + Len(F)] = "e"
  <2>1. x[Len(before) + 1] = t[1] /\ x[Len(before) + (Len(F) + 2)] = t[Len(F) + 2]
    BY <1>2, <1>3
  <2>2. QED
    BY <1>1, <1>3, <2>1
<1>5. i \in Nat \ {0} /\ ~(i > Len(x))
  BY <1>0, <1>1, <1>2
<1>6. t # <<>>
  BY <1>0, <1>1
<1>7. QED
  <2>1. t = Frame(m, F) /\ x = Around(before, t, after)
    BY Zenon DEF x, t, Frame, Around
  <2>2. QED
    BY <1>1, <1>2, <1>4, <1>5, <1>6, <2>1

\* The list that EncodeList writes of texts that are read back is read back by
\* DecodeList, item by item and in order: lists of lists, of tables, however deep.
THEOREM ListReads ==
  ASSUME NEW Char, Marks \subseteq Char, NEW texts \in Seq(Seq(Char)),
         NEW Atom, NEW atoms \in Seq(Atom), Len(atoms) = Len(texts),
         \A k \in 1..Len(texts) : Reads(Char, texts[k], atoms[k])
  PROVE  Reads(Char, EncodeList(texts), Parsed("list", atoms, Len(EncodeList(texts))))
<1> DEFINE n == Len(texts)
           F == FlattenSeq(texts)
           t == EncodeList(texts)
           a == Parsed("list", atoms, Len(t))
<1>0. n \in Nat /\ \A k \in 1..n : texts[k] \in Seq(Char)
  BY LenProperties, ElementOfSeq
<1>1. PICK flat \in [0..n -> Seq(Char)] :
             /\ flat[0] = <<>>
             /\ \A k \in 1..n : flat[k] = Cat(flat[k - 1], texts[k])
             /\ F = flat[n]
  BY FlattenParts
<1>2. t = Frame("l", F)
  BY Zenon DEF EncodeList, Frame
<1>3. \A k \in 1..n : \E q \in Seq(Char) : F = Around(flat[k - 1], texts[k], q)
  <2>1. Inside(Char, texts, flat)
    BY <1>1, FlattenSplit
  <2>2. QED
    BY <1>1, <2>1, Zenon DEF Inside
<1>4. \A k \in 0..n : flat[k] \in Seq(Char) /\ Len(flat[k]) \in Nat
  BY <1>1, LenProperties
<1>5. \A k \in 1..n : Len(flat[k]) = Len(flat[k - 1]) + Len(texts[k])
  <2>1. TAKE k \in 1..n
  <2>2. k - 1 \in 0..n /\ texts[k] \in Seq(Char)
    BY <1>0
  <2>3. flat[k - 1] \in Seq(Char)
    BY <1>4, <2>2
  <2>4. QED
    <3>1. flat[k] = Cat(flat[k - 1], texts[k])
      BY <1>1
    <3> DEFINE p == flat[k - 1]
               u == texts[k]
    <3>2. p \in Seq(Char) /\ u \in Seq(Char)
      BY <2>2, <2>3
    <3> HIDE DEF p, u
    <3>3. Len(Cat(p, u)) = Len(p) + Len(u)
      BY <3>2, ConcatProperties DEF Cat
    <3>4. QED
      BY <3>1, <3>3 DEF p, u
<1> HIDE DEF F, t, n
<1>6. F \in Seq(Char) /\ Len(F) = Len(flat[n]) /\ Len(F) \in Nat
  BY <1>0, <1>1, <1>4
<1>7. "l" \in Char
  BY DEF Marks
<1>8. t \in Seq(Char) /\ Len(t) = Len(F) + 2 /\ t # <<>>
  <2>1. <<>> \in Seq(Char)
    OBVIOUS
  <2>2. QED
    <3>1. F \in Seq(Char)
      BY <1>6
    <3>2. LET u == Frame("l", F) IN u \in Seq(Char) /\ Len(u) = Len(F) + 2 /\ u # <<>>
      BY <1>7, <2>1, <3>1, FrameFacts
    <3>3. QED
      BY <1>2, <3>2
<1>9. ASSUME NEW before \in Seq(Char), NEW after \in Seq(Char)
      PROVE  Decoder(Around(before, t, after))[<<"value", Len(before) + 1>>] = a
  <2> DEFINE x == Around(before, t, after)
             i == Len(before) + 1
             Place_(k) == i + 1 + Len(flat[k])
  <2>1. /\ x \in Seq(Char) /\ i \in Nat \ {0} /\ ~(i > Len(x))
        /\ x[i] = "l" /\ x[i + 1 + Len(F)] = "e"
    <3> DEFINE u == Frame("l", F)
               y == Around(before, u, after)
    <3>1. F \in Seq(Char)
      BY <1>6
    <3>2. /\ y \in Seq(Char) /\ i \in Nat \ {0} /\ ~(i > Len(y))
          /\ y[i] = "l" /\ y[i + 1 + Len(F)] = "e"
      BY <1>7, <3>1, FrameFacts
    <3> HIDE DEF y
    <3>3. x = y
      BY <1>2 DEF y
    <3>4. QED
      BY <3>2, <3>3
  <2>2. ASSUME NEW k \in 1..n
        PROVE  LET p == i + 1 + Len(flat[k - 1])
               IN  /\ Decoder(x)[<<"value", p>>] = atoms[k]
                   /\ ~(p > Len(x)) /\ x[p] # "e" /\ atoms[k] # Nothing
                   /\ atoms[k].length = Len(texts[k]) /\ Len(texts[k]) \in Nat
    <3>1. PICK q \in Seq(Char) : F = Around(flat[k - 1], texts[k], q)
      BY <1>3
    <3> DEFINE u == texts[k]
               p == flat[k - 1]
               b == atoms[k]
    <3>2. u \in Seq(Char) /\ p \in Seq(Char) /\ Reads(Char, u, b) /\ F = Around(p, u, q)
      <4>1. k - 1 \in 0..n
        BY <1>0
      <4>2. Reads(Char, u, b)
        BY DEF n
      <4>3. QED
        BY <1>0, <1>4, <3>1, <4>1, <4>2
    <3> HIDE DEF u, p, b
    <3> DEFINE y == Around(before, Frame("l", Around(p, u, q)), after)
               j == Len(before) + 2 + Len(p)
    <3>3. /\ Decoder(y)[<<"value", j>>] = b
          /\ j + Len(u) <= Len(y) + 1 /\ y[j] # "e" /\ b # Nothing
          /\ b.length = Len(u) /\ Len(u) \in Nat /\ Len(u) >= 1
      <4>1. u \in Seq(Char) /\ p \in Seq(Char)
        BY <3>2
      <4>2. Reads(Char, u, b)
        BY <3>2
      <4> DEFINE G == Around(p, u, q)
      <4>3. G \in Seq(Char)
        BY <1>6, <3>2
      <4>4. PICK c, d \in Seq(Char) : y = Around(c, G, d) /\ Len(c) = Len(before) + 1
        <5>1. Framed(Char, before, "l", G, after)
          <6> HIDE DEF G
          <6>1. QED
            BY <1>7, <4>3, FrameInside
        <5>2. QED
          BY <5>1, Zenon DEF Framed
      <4>5. ItemAt(Around(c, G, d), Len(c) + 1 + Len(p), u, b)
        BY <4>1, <4>2, ItemInside
      <4>6. Len(c) + 1 + Len(p) = j
        BY <4>1, <4>4, LenProperties
      <4> HIDE DEF y, G, j
      <4>7. ItemAt(y, j, u, b)
        BY <4>4, <4>5, <4>6
      <4>8. QED
        BY <4>7 DEF ItemAt
    <3>4. y = x
      BY <1>2, <3>2, Zenon
    <3> HIDE DEF y
    <3>5. j = i + 1 + Len(p) /\ j \in Int /\ Len(x) \in Int
      BY <2>1, <3>2, LenProperties
    <3> HIDE DEF x, j, i
    <3>6. ~(j > Len(x))
      BY <3>3, <3>4, <3>5
    <3>7. QED
      BY <3>3, <3>4, <3>5, <3>6 DEF u, p, b
  <2> HIDE DEF x, i
  <2> DEFINE Items(k) == Parsed("list", SubSeq(atoms, k + 1, n), Len(F) - Len(flat[k]) + 2)
             Good == {m \in Nat : m <= n =>
                        Decoder(x)[<<"list", i + 1 + Len(flat[n - m])>>] = Items(n - m)}
  <2>3. 0 \in Good
    <3> DEFINE p == i + 1 + Len(flat[n])
    <3>1. n - 0 = n /\ p = i + 1 + Len(F) /\ p \in Nat \ {0}
      BY <1>0, <1>6, <2>1
    <3>2. DecodeList(x, Decoder(x), p) = Parsed("list", <<>>, 2)
      <4>1. x[p] = "e"
        BY <2>1, <3>1
      <4> HIDE DEF p
      <4>2. QED
        BY <4>1, Zenon DEF DecodeList
    <3>3. Decoder(x)[<<"list", p>>] = DecodeList(x, Decoder(x), p)
      BY <2>1, <3>1, DecoderEquation
    <3>4. SubSeq(atoms, n + 1, n) = <<>>
      BY <1>0, SubSeqEmpty
    <3>5. Len(F) - Len(flat[n]) + 2 = 2
      BY <1>6
    <3>6. Items(n) = Parsed("list", <<>>, 2)
      BY <3>4, <3>5
    <3> HIDE DEF Items, p
    <3>7. Decoder(x)[<<"list", p>>] = Items(n)
      BY <3>2, <3>3, <3>6
    <3>8. QED
      BY <3>1, <3>7 DEF p
  <2>4. ASSUME NEW m \in Nat, m \in Good
        PROVE  m + 1 \in Good
    <3> DEFINE k == n - m
    <3>1. SUFFICES ASSUME m + 1 <= n
                   PROVE  Decoder(x)[<<"list", i + 1 + Len(flat[n - (m + 1)])>>] = Items(n - (m + 1))
      <4>1. m + 1 \in Nat
        OBVIOUS
      <4> HIDE DEF Items
      <4>2. QED
        BY <4>1, Zenon
    <3>2. k \in 1..n /\ n - (m + 1) = k - 1 /\ m <= n /\ k \in 0..n /\ k - 1 \in 0..n /\ k \in Nat
      BY <1>0, <3>1
    <3>3. Decoder(x)[<<"list", i + 1 + Len(flat[k])>>] = Items(k)
      <4> HIDE DEF Items
      <4>1. QED
        BY <2>4, <3>2
    <3> HIDE DEF k
    <3> DEFINE p == i + 1 + Len(flat[k - 1])
               b == atoms[k]
               l == Len(texts[k])
    <3>4. /\ Decoder(x)[<<"value", p>>] = b /\ ~(p > Len(x)) /\ x[p] # "e" /\ b # Nothing
          /\ b.length = l /\ l \in Nat
      BY <2>2, <3>2
    <3>5. p \in Nat \ {0} /\ p + l = i + 1 + Len(flat[k])
      <4>1. /\ Len(flat[k]) \in Nat /\ Len(flat[k - 1]) \in Nat /\ i \in Nat
            /\ Len(flat[k]) = Len(flat[k - 1]) + Len(texts[k])
        BY <1>4, <1>5, <2>1, <3>2
      <4>2. l = Len(texts[k]) /\ p = i + 1 + Len(flat[k - 1]) /\ l \in Nat
        BY <3>4
      <4> DEFINE v == Len(flat[k])
                 w == Len(flat[k - 1])
      <4>3. v \in Nat /\ w \in Nat /\ l \in Nat /\ i \in Nat /\ v = w + l /\ p = i + 1 + w
        BY <4>1, <4>2
      <4> HIDE DEF p, l, v, w
      <4>4. p \in Nat \ {0} /\ p + l = i + 1 + v
        BY <4>3
      <4>5. QED
        BY <4>4 DEF v
    <3>6. Decoder(x)[<<"list", p>>] = DecodeList(x, Decoder(x), p)
      BY <2>1, <3>5, DecoderEquation
    <3> HIDE DEF b, l
    <3>7. Decoder(x)[<<"list", p + b.length>>] = Items(k)
      <4> HIDE DEF Items, p
      <4>1. QED
        BY <3>3, <3>4, <3>5
    <3> DEFINE rest == SubSeq(atoms, k + 1, n)
               r == Len(F) - Len(flat[k]) + 2
    <3>8. Items(k) # Nothing /\ Items(k).value = rest /\ Items(k).length = r
      <4> HIDE DEF rest, r
      <4>1. LET y == Parsed("list", rest, r)
            IN  y # Nothing /\ y.value = rest /\ y.length = r
        BY ParsedFacts
      <4>2. QED
        BY <4>1 DEF rest, r
    <3> HIDE DEF rest, r, Items, p
    <3>9. DecodeList(x, Decoder(x), p) = Parsed("list", <<b>> \o rest, l + r)
      <4>1. DecodeList(x, Decoder(x), p) =
              Parsed("list", <<b>> \o Items(k).value, b.length + Items(k).length)
        BY <3>4, <3>7, <3>8, Zenon DEF DecodeList
      <4>2. QED
        BY <3>4, <3>8, <4>1
    <3>10. <<b>> \o rest = SubSeq(atoms, k, n)
      <4>1. k \in 1..Len(atoms) /\ n \in k..Len(atoms)
        BY <1>0, <3>2 DEF n
      <4>2. QED
        BY <4>1, SubSeqRecursiveFirst DEF b, rest
    <3>11. l + r = Len(F) - Len(flat[k - 1]) + 2 /\ (k - 1) + 1 = k
      <4>1. /\ Len(flat[k]) \in Nat /\ Len(flat[k - 1]) \in Nat /\ k \in Nat
            /\ Len(flat[k]) = Len(flat[k - 1]) + Len(texts[k])
        BY <1>4, <1>5, <3>2
      <4>2. QED
        BY <1>6, <3>4, <4>1 DEF l, r
    <3>12. Parsed("list", <<b>> \o rest, l + r) = Items(k - 1)
      BY <3>10, <3>11 DEF Items
    <3>13. Decoder(x)[<<"list", p>>] = Items(k - 1)
      BY <3>6, <3>9, <3>12
    <3>14. QED
      BY <3>2, <3>13 DEF p
  <2>5. Nat \subseteq Good
    <3> HIDE DEF Good
    <3>1. QED
      BY <2>3, <2>4, SetInduction
  <2>6. Decoder(x)[<<"list", i + 1>>] = a
    <3>1. n - n = 0 /\ Len(flat[0]) = 0 /\ n <= n
      BY <1>0, <1>1
    <3>2. Decoder(x)[<<"list", i + 1 + Len(flat[n - n])>>] = Items(n - n)
      <4> HIDE DEF Items
      <4>1. QED
        BY <1>0, <2>5, <3>1
    <3>3. SubSeq(atoms, 1, n) = atoms
      BY SubSeqFull DEF n
    <3>4. Len(F) - 0 + 2 = Len(t)
      BY <1>6, <1>8
    <3>5. Items(0) = a
      <4>1. 0 + 1 = 1 /\ Len(F) - Len(flat[0]) + 2 = Len(t)
        BY <3>1, <3>4
      <4>2. QED
        BY <3>3, <4>1, Zenon
    <3>6. i + 1 + 0 = i + 1
      BY <2>1
    <3> HIDE DEF Items, a
    <3>7. Decoder(x)[<<"list", i + 1 + 0>>] = Items(0)
      BY <3>1, <3>2
    <3>8. QED
      BY <3>5, <3>6, <3>7
  <2>7. Decoder(x)[<<"value", i>>] = Decoder(x)[<<"list", i + 1>>]
    <3>1. Decoder(x)[<<"value", i>>] = Decode(x, Decoder(x), i)
      BY <2>1, DecoderEquation
    <3>2. QED
      BY <2>1, <3>1, DecodeArms
  <2>8. QED
    BY <2>6, <2>7 DEF x, i
<1>10. a # Nothing /\ a.length = Len(t)
  BY ParsedFacts
<1>11. Reads(Char, t, a)
  <2> HIDE DEF a
  <2>1. QED
    BY <1>8, <1>9, <1>10 DEF Reads
<1>12. QED
  BY <1>11 DEF t

---------------------------------------------------------------------------
(***************************************************************************)
(* Dictionaries, read back in any text.                                    *)
(***************************************************************************)

\* The texts of the items of a dictionary.
Written(items) == [k \in DOMAIN items |-> Cat(EncodeString(items[k][1]), items[k][2])]

\* A key and, after it, its value are read at their places.
PairAt(x, i, t, a, u, b) == ItemAt(x, i, t, a) /\ ItemAt(x, i + Len(t), u, b)

\* They are, when each of the two texts is read back.
LEMMA PairInside ==
  ASSUME NEW Char, Marks \subseteq Char, NEW b \in Seq(Char), NEW c \in Seq(Char),
         NEW p \in Seq(Char), NEW t \in Seq(Char), NEW u \in Seq(Char), NEW q \in Seq(Char),
         NEW a, NEW d, Reads(Char, t, a), Reads(Char, u, d)
  PROVE  PairAt(Around(b, Around(p, Cat(t, u), q), c), Len(b) + 1 + Len(p), t, a, u, d)
<1> DEFINE S == Seq(Char)
           F == Around(p, Cat(t, u), q)
           x == Around(b, F, c)
           v == Cat(u, q)
           w == Cat(p, t)
<1>1. v \in Seq(Char) /\ w \in Seq(Char) /\ Len(w) = Len(p) + Len(t)
      /\ Len(p) \in Nat /\ Len(t) \in Nat /\ Len(b) \in Nat
  BY ConcatProperties, LenProperties DEF Cat
<1>2. F = Around(p, t, v) /\ F = Around(w, u, q)
  <2>1. \A r, s, o \in S : Cat(Cat(r, s), o) = Cat(r, Cat(s, o))
    BY Associative
  <2>2. \A r, s \in S : Cat(r, s) \in S
    BY ConcatProperties DEF Cat
  <2>3. p \in S /\ t \in S /\ u \in S /\ q \in S
    OBVIOUS
  <2> HIDE DEF S
  <2>4. /\ Cat(Cat(p, Cat(t, u)), q) = Cat(Cat(p, t), Cat(u, q))
        /\ Cat(Cat(p, Cat(t, u)), q) = Cat(Cat(Cat(p, t), u), q)
    BY <2>1, <2>2, <2>3
  <2>5. QED
    BY <2>4, Zenon DEF Around, Cat
<1> DEFINE y == Around(b, Around(p, t, v), c)
           z == Around(b, Around(w, u, q), c)
           i == Len(b) + 1 + Len(p)
           j == Len(b) + 1 + Len(w)
<1>3. x = y /\ x = z
  BY <1>2, Zenon
<1> HIDE DEF v, w
<1>4. ItemAt(y, i, t, a)
  BY <1>1, ItemInside
<1>5. ItemAt(z, j, u, d)
  BY <1>1, ItemInside
<1>6. j = i + Len(t)
  BY <1>1
<1> HIDE DEF x, y, z, i, j
<1>7. PairAt(x, i, t, a, u, d)
  BY <1>3, <1>4, <1>5, <1>6 DEF PairAt
<1>8. QED
  BY <1>7, Zenon DEF x, i, F

HasKey(v, key) == \E k \in DOMAIN v : v[k][1] = key

\* What follows in a dictionary, with one more item before it.
Extended(key, value, length, more) ==
  IF more = Nothing THEN Nothing
  ELSE IF HasKey(more.value, key) THEN more
  ELSE Parsed("dicti", Cat(<<<<key, value>>>>, more.value), length + more.length)

\* One round of the loop over the items.
Round(x, f, i, key, value, more) ==
  /\ f[<<"value", i>>] = key /\ f[<<"value", i + key.length>>] = value
  /\ f[<<"dicti", i + key.length + value.length>>] = more
  /\ ~(i > Len(x)) /\ x[i] # "e" /\ key.kind = "string" /\ ~(i + key.length > Len(x))
  /\ value # Nothing

\* What the round makes of what follows.
LEMMA DictiRound ==
  ASSUME NEW x, NEW f, NEW i, NEW key, NEW value, NEW more, Round(x, f, i, key, value, more)
  PROVE  DecodeDicti(x, f, i) = Extended(key.value, value, key.length + value.length, more)
<1>1. CASE more = Nothing
  BY <1>1, Zenon DEF DecodeDicti, Cat, Round, Extended, HasKey
<1>2. CASE more # Nothing /\ HasKey(more.value, key.value)
  BY <1>2, Zenon DEF DecodeDicti, Cat, Round, Extended, HasKey
<1>3. CASE more # Nothing /\ ~HasKey(more.value, key.value)
  BY <1>3, Zenon DEF DecodeDicti, Cat, Round, Extended, HasKey
<1>4. QED
  BY <1>1, <1>2, <1>3

\* The items of a dictionary: keys, all of them distinct, and the texts of the
\* values, which are read back as atoms.
Keyed(Char, items, atoms) ==
  /\ items \in Seq(Seq(Char) \X Seq(Char))
  /\ \A k \in 1..Len(items) : Reads(Char, items[k][2], atoms[k])
  /\ \A j, k \in 1..Len(items) : items[j][1] = items[k][1] => j = k

\* In x, after the first i characters, are the texts of the items, l characters
\* long; the k-th of them is read between the places at[k - 1] and at[k].
Loop(x, i, l, items, atoms, at) ==
  /\ at \in [0..Len(items) -> Nat \ {0}]
  /\ at[0] = i + 1 /\ at[Len(items)] = i + 1 + l
  /\ \A k \in 1..Len(items) :
       Decoder(x)[<<"dicti", at[k - 1]>>] =
         Extended(items[k][1], atoms[k], at[k] - at[k - 1], Decoder(x)[<<"dicti", at[k]>>])

\* The loop goes over the items, whatever is before and after their texts.
LEMMA DictiLoop ==
  ASSUME NEW Char, Marks \subseteq Char, NEW items, NEW atoms, Keyed(Char, items, atoms),
         NEW b \in Seq(Char), NEW c \in Seq(Char)
  PROVE  LET F == FlattenSeq(Written(items))
         IN  F \in Seq(Char) /\ \E at : Loop(Around(b, F, c), Len(b), Len(F), items, atoms, at)
<1> DEFINE n == Len(items)
           name(k) == items[k][1]
           K(k) == EncodeString(items[k][1])
           V(k) == items[k][2]
           key(k) == Parsed("string", items[k][1], Len(Decimal[Len(items[k][1])]) + 1 + Len(items[k][1]))
           texts == Written(items)
           F == FlattenSeq(texts)
<1>0. n \in Nat /\ DOMAIN items = 1..n /\ \A k \in 1..n : name(k) \in Seq(Char) /\ V(k) \in Seq(Char)
  <2>1. n \in Nat /\ DOMAIN items = 1..n /\ \A k \in 1..n : items[k] \in Seq(Char) \X Seq(Char)
    BY LenProperties, ElementOfSeq DEF Keyed
  <2>2. QED
    BY <2>1
<1>r. \A k \in 1..n : Reads(Char, V(k), atoms[k])
  BY Zenon DEF Keyed
<1>d. \A j, k \in 1..n : name(j) = name(k) => j = k
  BY Zenon DEF Keyed
<1>a. \A k \in 1..n : Reads(Char, K(k), key(k)) /\ K(k) \in Seq(Char)
  <2>1. TAKE k \in 1..n
  <2> DEFINE s == name(k)
  <2>2. s \in Seq(Char)
    BY <1>0
  <2> HIDE DEF s
  <2>3. Reads(Char, EncodeString(s), Parsed("string", s, Len(Decimal[Len(s)]) + 1 + Len(s)))
    BY <2>2, StringReads
  <2>4. EncodeString(s) \in Seq(Char)
    BY <2>3, Zenon DEF Reads
  <2>5. QED
    BY <2>3, <2>4, Zenon DEF s
<1>b. /\ texts \in Seq(Seq(Char)) /\ Len(texts) = n
      /\ \A k \in 1..n : texts[k] = Cat(K(k), V(k))
  <2> DEFINE both(k) == Cat(K(k), V(k))
  <2>1. \A k \in 1..n : both(k) \in Seq(Char)
    <3>1. \A s, u \in Seq(Char) : Cat(s, u) \in Seq(Char)
      BY ConcatProperties DEF Cat
    <3>2. QED
      BY <1>0, <1>a, <3>1, Zenon
  <2>2. texts = [k \in 1..n |-> both(k)]
    BY <1>0, Zenon DEF Written
  <2> HIDE DEF both, texts, n
  <2>3. /\ texts \in Seq(Seq(Char)) /\ Len(texts) = n /\ \A k \in 1..n : texts[k] = both(k)
    BY <1>0, <2>1, <2>2
  <2>4. QED
    BY <2>3, Zenon DEF both
<1> HIDE DEF texts, name, K, V, key
<1>1. PICK flat \in [0..n -> Seq(Char)] :
             /\ flat[0] = <<>>
             /\ \A k \in 1..n : flat[k] = Cat(flat[k - 1], texts[k])
             /\ F = flat[n]
  <2>1. \E flat \in [0..Len(texts) -> Seq(Char)] :
             /\ flat[0] = <<>>
             /\ \A k \in 1..Len(texts) : flat[k] = Cat(flat[k - 1], texts[k])
             /\ F = flat[Len(texts)]
    BY <1>b, FlattenParts
  <2> HIDE DEF F
  <2>2. QED
    BY <1>b, <2>1, Zenon
<1>3. \A k \in 1..n : \E q \in Seq(Char) : F = Around(flat[k - 1], texts[k], q)
  <2>1. Inside(Char, texts, flat)
    <3>1. flat \in [0..Len(texts) -> Seq(Char)]
      BY <1>b, Zenon
    <3>2. \A k \in 1..Len(texts) : flat[k] = Cat(flat[k - 1], texts[k])
      BY <1>1, <1>b, Zenon
    <3>3. texts \in Seq(Seq(Char))
      BY <1>b
    <3> HIDE DEF n
    <3>4. QED
      BY <3>1, <3>2, <3>3, FlattenSplit
  <2>2. QED
    <3>1. Len(texts) = n /\ F = flat[n]
      BY <1>1, <1>b
    <3> HIDE DEF n, F
    <3>2. QED
      BY <2>1, <3>1, Zenon DEF Inside
<1>4. \A k \in 0..n : flat[k] \in Seq(Char) /\ Len(flat[k]) \in Nat
  BY <1>1, LenProperties
<1>5. \A k \in 1..n : Len(flat[k]) = Len(flat[k - 1]) + (Len(K(k)) + Len(V(k)))
  <2>1. TAKE k \in 1..n
  <2> DEFINE p == flat[k - 1]
             u == K(k)
             v == V(k)
  <2>2. p \in Seq(Char)
    <3>1. k - 1 \in 0..n
      BY <1>0
    <3>2. QED
      BY <1>4, <3>1
  <2>3. u \in Seq(Char) /\ v \in Seq(Char)
    BY <1>0, <1>a
  <2>4. flat[k] = Cat(p, Cat(u, v))
    BY <1>1, <1>b, Zenon
  <2> HIDE DEF p, u, v
  <2>5. Cat(u, v) \in Seq(Char) /\ Len(Cat(u, v)) = Len(u) + Len(v)
    BY <2>3, ConcatProperties DEF Cat
  <2> DEFINE w == Cat(u, v)
  <2> HIDE DEF w
  <2>6. Len(Cat(p, w)) = Len(p) + Len(w)
    <3>1. w \in Seq(Char)
      BY <2>5 DEF w
    <3>2. QED
      BY <2>2, <3>1, ConcatProperties DEF Cat
  <2>7. Len(flat[k]) = Len(p) + (Len(u) + Len(v))
    BY <2>4, <2>5, <2>6 DEF w
  <2>8. QED
    BY <2>7, Zenon DEF p, u, v
<1> HIDE DEF F, n
<1>6. F \in Seq(Char) /\ Len(F) = Len(flat[n]) /\ Len(F) \in Nat
  BY <1>0, <1>1, <1>4
<1> DEFINE x == Around(b, F, c)
           i == Len(b)
           at == [k \in 0..n |-> i + 1 + Len(flat[k])]
<1>7. i \in Nat /\ x \in Seq(Char) /\ Len(x) \in Nat
  <2>1. F \in Seq(Char)
    BY <1>6
  <2>2. x \in Seq(Char)
    BY <2>1, Window DEF Around
  <2> HIDE DEF x
  <2>3. QED
    BY <2>2, LenProperties
<1>8. ASSUME NEW k \in 1..n
      PROVE  PairAt(x, i + 1 + Len(flat[k - 1]), K(k), key(k), V(k), atoms[k])
  <2>1. PICK q \in Seq(Char) : F = Around(flat[k - 1], texts[k], q)
    BY <1>3
  <2> DEFINE u == K(k)
             e == key(k)
             v == V(k)
             a == atoms[k]
             p == flat[k - 1]
  <2>2. /\ u \in Seq(Char) /\ v \in Seq(Char) /\ p \in Seq(Char)
        /\ Reads(Char, u, e) /\ Reads(Char, v, a)
    <3>1. k - 1 \in 0..n
      BY <1>0
    <3>2. QED
      BY <1>0, <1>4, <1>a, <1>r, <3>1
  <2>3. F = Around(p, Cat(u, v), q)
    BY <1>b, <2>1, Zenon
  <2> HIDE DEF u, e, v, a, p
  <2> DEFINE y == Around(b, Around(p, Cat(u, v), q), c)
  <2>4. PairAt(y, i + 1 + Len(p), u, e, v, a)
    <3>1. u \in Seq(Char) /\ v \in Seq(Char) /\ p \in Seq(Char)
      BY <2>2
    <3>2. Reads(Char, u, e) /\ Reads(Char, v, a)
      BY <2>2
    <3>3. QED
      BY <3>1, <3>2, PairInside
  <2>5. x = y
    BY <2>3, Zenon
  <2> HIDE DEF x, y
  <2>6. PairAt(x, i + 1 + Len(p), u, e, v, a)
    BY <2>4, <2>5, Zenon
  <2>7. QED
    BY <2>6, Zenon DEF u, e, v, a, p
<1> HIDE DEF x, i
<1>9. ASSUME NEW k \in 1..n
      PROVE  Decoder(x)[<<"dicti", at[k - 1]>>] =
               Extended(name(k), atoms[k], at[k] - at[k - 1], Decoder(x)[<<"dicti", at[k]>>])
  <2> DEFINE p == at[k - 1]
             s == key(k)
             a == atoms[k]
             g == Len(K(k))
             l == Len(V(k))
             r == p + g
             f == Decoder(x)
             more == f[<<"dicti", at[k]>>]
  <2>1. /\ k \in 0..n /\ k - 1 \in 0..n /\ p = i + 1 + Len(flat[k - 1])
        /\ at[k] = i + 1 + Len(flat[k])
    BY <1>0
  <2>2. /\ f[<<"value", p>>] = s /\ p + g <= Len(x) + 1 /\ x[p] # "e" /\ s.length = g
        /\ g \in Nat /\ g >= 1
        /\ f[<<"value", r>>] = a /\ r + l <= Len(x) + 1 /\ a # Nothing /\ a.length = l
        /\ l \in Nat /\ l >= 1
    <3>1. PairAt(x, p, K(k), s, V(k), a)
      <4>1. PairAt(x, i + 1 + Len(flat[k - 1]), K(k), s, V(k), a)
        BY <1>8
      <4> HIDE DEF p, at
      <4>2. QED
        BY <2>1, <4>1, Zenon
    <3> HIDE DEF p, s, a
    <3>2. QED
      BY <3>1, Zenon DEF PairAt, ItemAt
  <2>3. s.kind = "string" /\ s.value = name(k)
    <3> DEFINE u == name(k)
               d == Len(Decimal[Len(u)]) + 1 + Len(u)
    <3> HIDE DEF u, d
    <3>1. Parsed("string", u, d).kind = "string" /\ Parsed("string", u, d).value = u
      BY ParsedFacts
    <3>2. QED
      BY <3>1, Zenon DEF u, d, key, name
  <2>4. /\ p \in Nat \ {0} /\ r + l = at[k] /\ at[k] - p = g + l
        /\ ~(p > Len(x)) /\ ~(r > Len(x))
    <3>1. /\ Len(flat[k]) \in Nat /\ Len(flat[k - 1]) \in Nat
          /\ Len(flat[k]) = Len(flat[k - 1]) + (g + l)
      BY <1>4, <1>5, <2>1
    <3> DEFINE v == Len(flat[k])
               w == Len(flat[k - 1])
               z == Len(x)
               o == at[k]
    <3>2. /\ v \in Nat /\ w \in Nat /\ i \in Nat /\ z \in Nat /\ v = w + (g + l) /\ p = i + 1 + w
          /\ g \in Nat /\ l \in Nat /\ g >= 1 /\ l >= 1 /\ p + g <= z + 1 /\ r + l <= z + 1
          /\ r = p + g /\ o = i + 1 + v
      BY <1>7, <2>1, <2>2, <3>1
    <3> HIDE DEF p, g, l, v, w, r, z, o
    <3>3. p \in Nat \ {0} /\ r + l = o /\ o - p = g + l /\ ~(p > z) /\ ~(r > z)
      BY <3>2
    <3>4. QED
      BY <3>3 DEF o, z
  <2>5. f[<<"dicti", p>>] = DecodeDicti(x, f, p)
    BY <1>7, <2>4, DecoderEquation
  <2>6. p + s.length = r /\ r + a.length = at[k]
    BY <2>2, <2>4
  <2> HIDE DEF p, s, a, g, l, r, f, at
  <2>7. Round(x, f, p, s, a, more)
    <3>1. f[<<"value", p + s.length>>] = a /\ f[<<"dicti", p + s.length + a.length>>] = more
      BY <2>2, <2>6
    <3> HIDE DEF more
    <3>2. ~(p + s.length > Len(x))
      BY <2>4, <2>6
    <3>3. QED
      BY <2>2, <2>3, <2>4, <3>1, <3>2, Zenon DEF Round
  <2>8. DecodeDicti(x, f, p) = Extended(s.value, a, s.length + a.length, more)
    BY <2>7, DictiRound
  <2>9. f[<<"dicti", p>>] = Extended(name(k), a, at[k] - p, more)
    <3>1. s.length + a.length = at[k] - p
      BY <2>2, <2>4
    <3>2. QED
      BY <2>3, <2>5, <2>8, <3>1, Zenon
  <2>10. QED
    BY <2>9, Zenon DEF p, a, f
<1>10. /\ at \in [0..n -> Nat \ {0}]
       /\ at[0] = i + 1 /\ at[n] = i + 1 + Len(F)
  <2>1. \A k \in 0..n : i + 1 + Len(flat[k]) \in Nat \ {0}
    BY <1>4, <1>7
  <2>2. 0 \in 0..n /\ n \in 0..n /\ Len(flat[0]) = 0
    BY <1>0, <1>1
  <2>3. QED
    BY <1>6, <1>7, <2>1, <2>2
<1> HIDE DEF at
<1>11. Loop(x, i, Len(F), items, atoms, at)
  BY <1>9, <1>10, Zenon DEF Loop, n, name
<1>12. F \in Seq(Char)
  BY <1>6
<1>13. QED
  BY <1>11, <1>12, Zenon DEF x, i, F, texts

\* The dictionary that EncodeDicti writes of texts that are read back, under
\* distinct keys, is read back by DecodeDicti, however deep.
THEOREM DictiReads ==
  ASSUME NEW Char, Marks \subseteq Char, NEW items, NEW atoms, Keyed(Char, items, atoms)
  PROVE  Reads(Char, EncodeDicti(items),
               Parsed("dicti", [k \in 1..Len(items) |-> <<items[k][1], atoms[k]>>],
                      Len(EncodeDicti(items))))
<1> DEFINE n == Len(items)
           name(k) == items[k][1]
           F == FlattenSeq(Written(items))
           t == EncodeDicti(items)
           entries == [k \in 1..n |-> <<items[k][1], atoms[k]>>]
           a == Parsed("dicti", entries, Len(t))
<1>0. n \in Nat /\ \A k \in 1..n : name(k) \in Seq(Char)
  <2>1. n \in Nat /\ \A k \in 1..n : items[k] \in Seq(Char) \X Seq(Char)
    BY LenProperties, ElementOfSeq DEF Keyed
  <2>2. QED
    BY <2>1
<1>1. \A j, k \in 1..n : name(j) = name(k) => j = k
  BY Zenon DEF Keyed
<1>2. t = Frame("d", F)
  BY Zenon DEF EncodeDicti, Frame, Written, Cat
<1> HIDE DEF n
<1>3. F \in Seq(Char) /\ Len(F) \in Nat
  <2>1. F \in Seq(Char) /\ \E at : Loop(Around(<<>>, F, <<>>), Len(<<>>), Len(F), items, atoms, at)
    <3> DEFINE b == <<>>
    <3>1. b \in Seq(Char)
      OBVIOUS
    <3> HIDE DEF b
    <3>2. F \in Seq(Char) /\ \E at : Loop(Around(b, F, b), Len(b), Len(F), items, atoms, at)
      BY <3>1, DictiLoop
    <3>3. QED
      BY <3>2 DEF b
  <2>2. QED
    BY <2>1, LenProperties
<1>4. "d" \in Char
  BY DEF Marks
<1> HIDE DEF t, F
<1>5. t \in Seq(Char) /\ Len(t) = Len(F) + 2 /\ t # <<>>
  <2>1. <<>> \in Seq(Char)
    OBVIOUS
  <2>2. F \in Seq(Char)
    BY <1>3
  <2>3. LET u == Frame("d", F) IN u \in Seq(Char) /\ Len(u) = Len(F) + 2 /\ u # <<>>
    BY <1>4, <2>1, <2>2, FrameFacts
  <2>4. QED
    BY <1>2, <2>3
<1>6. entries \in Seq(Seq(Char) \X {atoms[k] : k \in 1..n}) /\ Len(entries) = n
      /\ \A k \in 1..n : entries[k] = <<name(k), atoms[k]>>
  <2> DEFINE S == Seq(Char) \X {atoms[k] : k \in 1..n}
             c(k) == <<name(k), atoms[k]>>
  <2>1. \A k \in 1..n : c(k) \in S
    BY <1>0, Zenon
  <2>2. entries = [k \in 1..n |-> c(k)]
    BY Zenon DEF name, n
  <2> HIDE DEF c, S, entries
  <2>3. entries \in Seq(S) /\ Len(entries) = n /\ \A k \in 1..n : entries[k] = c(k)
    BY <1>0, <2>1, <2>2
  <2>4. QED
    BY <2>3, Zenon DEF c, S
<1> HIDE DEF entries, a, name
<1>7. ASSUME NEW before \in Seq(Char), NEW after \in Seq(Char)
      PROVE  Decoder(Around(before, t, after))[<<"value", Len(before) + 1>>] = a
  <2> DEFINE x == Around(before, t, after)
             i == Len(before) + 1
             f == Decoder(x)
  <2>1. /\ x \in Seq(Char) /\ i \in Nat \ {0} /\ ~(i > Len(x))
        /\ x[i] = "d" /\ x[i + 1 + Len(F)] = "e"
    <3> DEFINE u == Frame("d", F)
               y == Around(before, u, after)
    <3>1. F \in Seq(Char)
      BY <1>3
    <3>2. /\ y \in Seq(Char) /\ i \in Nat \ {0} /\ ~(i > Len(y))
          /\ y[i] = "d" /\ y[i + 1 + Len(F)] = "e"
      BY <1>4, <3>1, FrameFacts
    <3> HIDE DEF y
    <3>3. x = y
      BY <1>2 DEF y
    <3>4. QED
      BY <3>2, <3>3
  <2>2. PICK at : Loop(x, i, Len(F), items, atoms, at)
    <3>1. Framed(Char, before, "d", F, after)
      BY <1>3, <1>4, FrameInside
    <3>2. PICK b, c \in Seq(Char) : x = Around(b, F, c) /\ Len(b) = i
      BY <1>2, <3>1, Zenon DEF Framed
    <3>3. \E at : Loop(Around(b, F, c), Len(b), Len(F), items, atoms, at)
      BY DictiLoop DEF F
    <3>4. QED
      BY <3>2, <3>3, Zenon
  <2> HIDE DEF x, i
  <2>3. /\ at \in [0..n -> Nat \ {0}] /\ at[0] = i + 1 /\ at[n] = i + 1 + Len(F)
        /\ \A k \in 1..n : f[<<"dicti", at[k - 1]>>] =
             Extended(name(k), atoms[k], at[k] - at[k - 1], f[<<"dicti", at[k]>>])
    BY <2>2, Zenon DEF Loop, name, n
  <2> DEFINE Rest(k) == SubSeq(entries, k + 1, n)
             Items(k) == Parsed("dicti", Rest(k), at[n] - at[k] + 2)
             Good == {m \in Nat : m <= n => f[<<"dicti", at[n - m]>>] = Items(n - m)}
  <2>4. 0 \in Good
    <3>1. n - 0 = n /\ at[n] = i + 1 + Len(F) /\ at[n] \in Nat \ {0} /\ at[n] - at[n] + 2 = 2
      BY <1>0, <2>3
    <3>2. DecodeDicti(x, f, at[n]) = Parsed("dicti", <<>>, 2)
      <4>1. x[at[n]] = "e"
        BY <2>1, <3>1
      <4> HIDE DEF f
      <4>2. QED
        BY <4>1, Zenon DEF DecodeDicti
    <3>3. f[<<"dicti", at[n]>>] = DecodeDicti(x, f, at[n])
      BY <2>1, <3>1, DecoderEquation
    <3>4. Rest(n) = <<>>
      BY <1>0, SubSeqEmpty
    <3>5. Items(n) = Parsed("dicti", <<>>, 2)
      BY <3>1, <3>4
    <3> HIDE DEF Items, f
    <3>6. QED
      BY <3>1, <3>2, <3>3, <3>5
  <2>5. ASSUME NEW m \in Nat, m \in Good
        PROVE  m + 1 \in Good
    <3> DEFINE k == n - m
    <3>1. SUFFICES ASSUME m + 1 <= n
                   PROVE  f[<<"dicti", at[n - (m + 1)]>>] = Items(n - (m + 1))
      <4>1. m + 1 \in Nat
        OBVIOUS
      <4> HIDE DEF Items, f
      <4>2. QED
        BY <4>1, Zenon
    <3>2. k \in 1..n /\ n - (m + 1) = k - 1 /\ m <= n /\ k \in 0..n /\ k - 1 \in 0..n /\ k \in Nat
          /\ k + 1 \in Int /\ (k - 1) + 1 = k
      BY <1>0, <3>1
    <3>3. f[<<"dicti", at[k]>>] = Items(k)
      <4> HIDE DEF Items, f
      <4>1. QED
        BY <2>5, <3>2
    <3> HIDE DEF k
    <3> DEFINE rest == Rest(k)
               l == at[n] - at[k] + 2
               e == <<name(k), atoms[k]>>
    <3>4. Items(k) # Nothing /\ Items(k).value = rest /\ Items(k).length = l
      <4> HIDE DEF rest, l
      <4>1. LET y == Parsed("dicti", rest, l) IN y # Nothing /\ y.value = rest /\ y.length = l
        BY ParsedFacts
      <4>2. QED
        BY <4>1 DEF rest, l
    <3>5. ~HasKey(rest, name(k))
      <4>1. k + 1 \in Int /\ n \in Int /\ DOMAIN rest = 1..(n - k)
            /\ \A j \in 1..(n - k) : rest[j] = entries[k + j]
        BY <1>0, <1>6, <3>2
      <4> HIDE DEF rest
      <4>2. ASSUME NEW j \in DOMAIN rest PROVE rest[j][1] # name(k)
        <5>1. j \in 1..(n - k)
          BY <4>1
        <5>2. rest[j] = entries[k + j]
          BY <4>1, <5>1, Zenon
        <5>3. k + j \in 1..n /\ k + j # k
          <6>1. n \in Nat /\ k \in 1..n
            BY <1>0, <3>2
          <6> HIDE DEF Items, Good
          <6>2. QED
            BY <5>1, <6>1
        <5>4. entries[k + j][1] = name(k + j)
          BY <1>6, <5>3
        <5>5. name(k + j) # name(k)
          BY <1>1, <3>2, <5>3, Zenon
        <5>6. QED
          BY <5>2, <5>4, <5>5, Zenon
      <4>3. QED
        BY <4>2, Zenon DEF HasKey
    <3>6. Cat(<<e>>, rest) = Rest(k - 1)
      <4>1. k \in 1..Len(entries) /\ n \in k..Len(entries)
        BY <1>0, <1>6, <3>2
      <4>2. entries[k] = e
        BY <1>6, <3>2
      <4>3. SubSeq(entries, k, n) = <<entries[k]>> \o SubSeq(entries, k + 1, n)
        <5>1. entries \in Seq(Seq(Char) \X {atoms[j] : j \in 1..n})
          BY <1>6
        <5>2. QED
          BY <4>1, <5>1, SubSeqRecursiveFirst
      <4>4. QED
        BY <3>2, <4>2, <4>3, Zenon DEF Cat
    <3>7. at[k] - at[k - 1] + l = at[n] - at[k - 1] + 2
      <4>1. at[k] \in Nat /\ at[k - 1] \in Nat /\ at[n] \in Nat
        BY <1>0, <2>3, <3>2
      <4>2. QED
        BY <4>1
    <3> HIDE DEF rest, e, l
    <3>8. Extended(name(k), atoms[k], at[k] - at[k - 1], Items(k)) = Items(k - 1)
      <4>1. Extended(name(k), atoms[k], at[k] - at[k - 1], Items(k)) =
              Parsed("dicti", Cat(<<e>>, rest), at[k] - at[k - 1] + l)
        <5> HIDE DEF Items
        <5>1. QED
          BY <3>4, <3>5, Zenon DEF Extended, e
      <4>2. QED
        BY <3>6, <3>7, <4>1, Zenon
    <3> HIDE DEF Items, f
    <3>9. f[<<"dicti", at[k - 1]>>] = Items(k - 1)
      BY <2>3, <3>2, <3>3, <3>8
    <3>10. QED
      BY <3>2, <3>9, Zenon
  <2>6. Nat \subseteq Good
    <3> HIDE DEF Good
    <3>1. QED
      BY <2>4, <2>5, SetInduction
  <2>7. f[<<"dicti", i + 1>>] = a
    <3>1. n - n = 0 /\ n <= n /\ at[0] = i + 1
      BY <1>0, <2>3
    <3>2. f[<<"dicti", at[n - n]>>] = Items(n - n)
      <4> HIDE DEF Items, f
      <4>1. QED
        BY <1>0, <2>6, <3>1
    <3>3. SubSeq(entries, 1, n) = entries
      <4>1. SubSeq(entries, 1, Len(entries)) = entries
        BY <1>6, SubSeqFull
      <4>2. QED
        BY <1>6, <4>1
    <3>4. at[n] - at[0] + 2 = Len(t) /\ 0 + 1 = 1
      BY <1>3, <1>5, <2>1, <2>3
    <3>5. Items(0) = a
      BY <3>3, <3>4, Zenon DEF a
    <3> HIDE DEF Items, f
    <3>6. QED
      BY <3>1, <3>2, <3>5, Zenon
  <2>8. f[<<"value", i>>] = f[<<"dicti", i + 1>>]
    <3>1. f[<<"value", i>>] = Decode(x, f, i)
      BY <2>1, DecoderEquation
    <3>2. QED
      BY <2>1, <3>1, DecodeArms
  <2>9. QED
    BY <2>7, <2>8 DEF x, i
<1>8. a # Nothing /\ a.length = Len(t)
  BY ParsedFacts DEF a
<1>9. Reads(Char, t, a)
  BY <1>5, <1>7, <1>8 DEF Reads
<1>10. QED
  BY <1>9, Zenon DEF a, t, entries, n

---------------------------------------------------------------------------
(***************************************************************************)
(* What is read of a dictionary that is cut.                               *)
(***************************************************************************)

\* Whatever the text, a value takes at least one character of it.
LEMMA DecoderAtoms ==
  ASSUME NEW Char, NEW x \in Seq(Char)
  PROVE  \A place \in Place : IsAtom(Decoder(x)[place])
<1> DEFINE f == Decoder(x)
           n == Len(x)
           Good == {m \in Nat : \A place \in Places(n, m) : IsAtom(f[place])}
<1>0. n \in Nat
  BY LenProperties
<1>1. \A what \in What, i \in Nat \ {0} : f[<<what, i>>] = DecodeAt(x, f, <<what, i>>)
  <2>1. TAKE what \in What, i \in Nat \ {0}
  <2> HIDE DEF f
  <2>2. /\ f[<<"value", i>>] = Decode(x, f, i)
        /\ f[<<"list", i>>] = DecodeList(x, f, i)
        /\ f[<<"dicti", i>>] = DecodeDicti(x, f, i)
    BY DecoderEquation DEF f
  <2>3. QED
    BY <2>2, DecodeAtFacts DEF What
<1>2. \A place \in Place : Left(n, place[1], place[2]) \in Nat /\ Left(n, place[1], place[2]) <= 2 * n + 1
  <2>1. TAKE place \in Place
  <2>2. place[2] \in Nat \ {0}
    BY PlaceFacts
  <2>3. QED
    BY <1>0, <2>2 DEF Left
<1> HIDE DEF f, n
<1>3. ASSUME NEW place \in Place,
             \A p \in Place : Left(n, p[1], p[2]) < Left(n, place[1], place[2]) => IsAtom(f[p])
      PROVE  IsAtom(f[place])
  <2>1. PICK what \in What, i \in Nat \ {0} : place = <<what, i>> /\ place[1] = what /\ place[2] = i
    BY PlaceFacts
  <2>2. ASSUME NEW w \in What, NEW j \in Nat \ {0}, Left(n, w, j) < Left(n, what, i)
        PROVE  Same(f, f, w, j)
    <3>1. <<w, j>> \in Place /\ <<w, j>>[1] = w /\ <<w, j>>[2] = j
      BY PlaceFacts
    <3>2. IsAtom(f[<<w, j>>])
      BY <1>3, <2>1, <2>2, <3>1
    <3>3. QED
      BY <3>2 DEF Same
  <2>3. IsAtom(DecodeAt(x, f, <<what, i>>))
    BY <2>2, DecodeAtLocal DEF n
  <2>4. QED
    BY <1>1, <2>1, <2>3
<1>4. 0 \in Good
  <2>1. ASSUME NEW place \in Places(n, 0)
        PROVE  IsAtom(f[place])
    <3>1. place \in Place /\ Left(n, place[1], place[2]) <= 0
      BY DEF Places
    <3>2. \A p \in Place : ~(Left(n, p[1], p[2]) < Left(n, place[1], place[2]))
      BY <1>2, <3>1
    <3>3. QED
      BY <1>3, <3>1, <3>2
  <2>2. QED
    BY <2>1
<1>5. ASSUME NEW m \in Nat, m \in Good
      PROVE  m + 1 \in Good
  <2>1. ASSUME NEW place \in Places(n, m + 1)
        PROVE  IsAtom(f[place])
    <3>1. place \in Place /\ Left(n, place[1], place[2]) <= m + 1
      BY DEF Places
    <3>2. \A p \in Place : Left(n, p[1], p[2]) < Left(n, place[1], place[2]) => p \in Places(n, m)
      BY <1>2, <3>1 DEF Places
    <3>3. \A p \in Place : Left(n, p[1], p[2]) < Left(n, place[1], place[2]) => IsAtom(f[p])
      BY <1>5, <3>2
    <3>4. QED
      BY <1>3, <3>1, <3>3
  <2>2. QED
    BY <2>1
<1>6. Nat \subseteq Good
  <2> HIDE DEF Good
  <2>1. QED
    BY <1>4, <1>5, SetInduction
<1>7. 2 * n + 1 \in Good
  BY <1>0, <1>6
<1>8. \A place \in Place : place \in Places(n, 2 * n + 1)
  BY <1>2 DEF Places
<1>9. QED
  BY <1>7, <1>8 DEF f

\* No key is in v twice.
Distinct(v) == \A j, k \in DOMAIN v : v[j][1] = v[k][1] => j = k

\* What a dictionary from some item on is: nothing, or a sequence of items with
\* distinct keys.
IsTable(a) == a = Nothing \/ (a.kind = "dicti" /\ Distinct(a.value) /\ \E S : a.value \in Seq(S))

\* One round keeps it so,
LEMMA TableFacts ==
  ASSUME NEW x, NEW f, NEW i \in Nat \ {0}, Len(x) \in Nat,
         \A place \in Place : IsAtom(f[place]),
         i <= Len(x) => \A j \in Nat \ {0} : j > i => IsTable(f[<<"dicti", j>>])
  PROVE  IsTable(DecodeDicti(x, f, i))
<1> DEFINE key == f[<<"value", i>>]
           after == i + key.length
           value == f[<<"value", after>>]
           more == f[<<"dicti", after + value.length>>]
<1>0. IsTable(Nothing) /\ \A l : IsTable(Parsed("dicti", <<>>, l))
  <2>1. <<>> \in Seq({}) /\ Distinct(<<>>)
    BY DEF Distinct
  <2>2. \A l : Parsed("dicti", <<>>, l).kind = "dicti" /\ Parsed("dicti", <<>>, l).value = <<>>
    BY ParsedFacts
  <2>3. QED
    BY <2>1, <2>2, Zenon DEF IsTable
<1>1. CASE i > Len(x) \/ x[i] = "e" \/ key.kind # "string"
  <2>1. DecodeDicti(x, f, i) = Parsed("dicti", <<>>, 2) \/ DecodeDicti(x, f, i) = Nothing
    BY <1>1, Zenon DEF DecodeDicti
  <2>2. QED
    BY <1>0, <2>1
<1>2. CASE ~(i > Len(x) \/ x[i] = "e" \/ key.kind # "string")
  <2>1. key.length \in Nat /\ key.length >= 1
    <3>1. key # Nothing
      BY <1>2 DEF Nothing
    <3>2. IsAtom(key)
      BY PlaceFacts DEF What
    <3>3. QED
      BY <3>1, <3>2 DEF IsAtom
  <2>2. CASE after > Len(x)
    <3>1. DecodeDicti(x, f, i) = Parsed("dicti", <<>>, 2)
      BY <1>2, <2>2, Zenon DEF DecodeDicti
    <3>2. QED
      BY <1>0, <3>1
  <2>3. CASE ~(after > Len(x))
    <3>1. CASE value = Nothing \/ more = Nothing
      <4>1. DecodeDicti(x, f, i) = Nothing
        BY <1>2, <2>3, <3>1, Zenon DEF DecodeDicti
      <4>2. QED
        BY <1>0, <4>1
    <3>2. CASE ~(value = Nothing \/ more = Nothing)
      <4>1. value.length \in Nat /\ value.length >= 1
        <5>1. after \in Nat \ {0}
          BY <2>1
        <5> HIDE DEF after
        <5>2. IsAtom(f[<<"value", after>>])
          BY <5>1, PlaceFacts DEF What
        <5>3. QED
          BY <3>2, <5>2 DEF IsAtom
      <4>2. IsTable(more)
        <5> DEFINE j == after + value.length
        <5> HIDE DEF value, key
        <5>1. j \in Nat \ {0} /\ j > i /\ i <= Len(x)
          BY <1>2, <2>1, <4>1
        <5> HIDE DEF j
        <5>2. IsTable(f[<<"dicti", j>>])
          BY <5>1
        <5>3. QED
          BY <5>2 DEF j, value, key
      <4>3. CASE \E k \in DOMAIN more.value : more.value[k][1] = key.value
        <5>1. DecodeDicti(x, f, i) = more
          BY <1>2, <2>3, <3>2, <4>3, Zenon DEF DecodeDicti
        <5>2. QED
          BY <4>2, <5>1
      <4>4. CASE ~\E k \in DOMAIN more.value : more.value[k][1] = key.value
        <5> DEFINE e == <<key.value, value>>
                   w == more.value
                   l == key.length + value.length + more.length
        <5>1. DecodeDicti(x, f, i) = Parsed("dicti", <<e>> \o w, l)
          BY <1>2, <2>3, <3>2, <4>4, Zenon DEF DecodeDicti
        <5>2. PICK S : w \in Seq(S) /\ Distinct(w)
          BY <3>2, <4>2 DEF IsTable
        <5>a. \A k \in DOMAIN w : w[k][1] # e[1]
          BY <4>4
        <5> HIDE DEF e, w, l
        <5> DEFINE v == <<e>> \o w
        <5>3. v \in Seq(S \cup {e})
          <6>1. <<e>> \in Seq(S \cup {e}) /\ w \in Seq(S \cup {e})
            BY <5>2
          <6>2. QED
            BY <6>1, ConcatProperties
        <5>b. Distinct(v)
          <6>1. /\ DOMAIN v = 1..(Len(w) + 1) /\ DOMAIN w = 1..Len(w) /\ Len(w) \in Nat /\ v[1] = e
                /\ \A k \in 2..(Len(w) + 1) : v[k] = w[k - 1] /\ k - 1 \in 1..Len(w)
            BY <5>2
          <6> HIDE DEF v
          <6>2. ASSUME NEW j \in 1..(Len(w) + 1), NEW k \in 1..(Len(w) + 1), v[j][1] = v[k][1], j < k
                PROVE  FALSE
            <7>1. v[k] = w[k - 1] /\ k - 1 \in 1..Len(w)
              BY <6>1, <6>2
            <7>2. CASE j = 1
              BY <5>a, <6>1, <6>2, <7>1, <7>2
            <7>3. CASE j # 1
              <8>1. v[j] = w[j - 1] /\ j - 1 \in 1..Len(w) /\ j - 1 # k - 1
                BY <6>1, <6>2, <7>3
              <8>2. QED
                BY <5>2, <6>1, <6>2, <7>1, <8>1, Zenon DEF Distinct
            <7>4. QED
              BY <7>2, <7>3
          <6>3. QED
            BY <6>1, <6>2 DEF Distinct
        <5> HIDE DEF v
        <5>4. Parsed("dicti", v, l).kind = "dicti" /\ Parsed("dicti", v, l).value = v
          BY ParsedFacts
        <5>5. IsTable(Parsed("dicti", v, l))
          BY <5>3, <5>4, <5>b, Zenon DEF IsTable
        <5>6. QED
          BY <5>1, <5>5 DEF v
      <4>5. QED
        BY <4>3, <4>4
    <3>3. QED
      BY <3>1, <3>2
  <2>4. QED
    BY <2>2, <2>3
<1>3. QED
  BY <1>1, <1>2

\* and so it is wherever the decoding of items starts.
LEMMA DecoderTables ==
  ASSUME NEW Char, NEW x \in Seq(Char), NEW i \in Nat \ {0}
  PROVE  IsTable(Decoder(x)[<<"dicti", i>>])
<1> DEFINE f == Decoder(x)
           n == Len(x)
           Good == {m \in Nat : \A j \in Nat \ {0} : n + 1 - j <= m => IsTable(f[<<"dicti", j>>])}
<1>0. n \in Nat
  BY LenProperties
<1>1. \A place \in Place : IsAtom(f[place])
  BY DecoderAtoms
<1>2. \A j \in Nat \ {0} : f[<<"dicti", j>>] = DecodeDicti(x, f, j)
  <2>1. TAKE j \in Nat \ {0}
  <2>2. Decoder(x)[<<"dicti", j>>] = DecodeDicti(x, Decoder(x), j)
    BY DecoderEquation
  <2>3. QED
    BY <2>2
<1> HIDE DEF f
<1>3. ASSUME NEW j \in Nat \ {0}, j <= n => \A k \in Nat \ {0} : k > j => IsTable(f[<<"dicti", k>>])
      PROVE  IsTable(f[<<"dicti", j>>])
  <2>1. IsTable(DecodeDicti(x, f, j))
    BY <1>0, <1>1, <1>3, TableFacts
  <2>2. QED
    BY <1>2, <2>1
<1> HIDE DEF n
<1>4. 0 \in Good
  <2>1. ASSUME NEW j \in Nat \ {0}, n + 1 - j <= 0
        PROVE  IsTable(f[<<"dicti", j>>])
    <3>1. ~(j <= n)
      BY <1>0, <2>1
    <3>2. QED
      BY <1>3, <3>1
  <2>2. QED
    BY <2>1
<1>5. ASSUME NEW m \in Nat, m \in Good
      PROVE  m + 1 \in Good
  <2>1. ASSUME NEW j \in Nat \ {0}, n + 1 - j <= m + 1
        PROVE  IsTable(f[<<"dicti", j>>])
    <3>1. ASSUME NEW k \in Nat \ {0}, k > j PROVE IsTable(f[<<"dicti", k>>])
      <4>1. n + 1 - k <= m
        BY <1>0, <2>1, <3>1
      <4>2. QED
        BY <1>5, <4>1
    <3>2. QED
      BY <1>3, <3>1
  <2>2. QED
    BY <2>1
<1>6. Nat \subseteq Good
  <2> HIDE DEF Good
  <2>1. QED
    BY <1>4, <1>5, SetInduction
<1>7. \A m \in Nat, j \in Nat \ {0} : n + 1 - j <= m => IsTable(f[<<"dicti", j>>])
  BY <1>6
<1>8. n + 1 - i <= n
  BY <1>0
<1>9. IsTable(f[<<"dicti", i>>])
  BY <1>0, <1>7, <1>8
<1>10. QED
  BY <1>9 DEF f

\* What is looked up in a dictionary is what it holds.
Holds(v, key, a) == \E k \in DOMAIN v : v[k][1] = key /\ v[k][2] = a

\* GetItem finds the one item that the key has.
LEMMA ItemOfTable ==
  ASSUME NEW t, IsTable(t), t # Nothing, NEW key
  PROVE  /\ HasKey(t.value, key) => Holds(t.value, key, GetItem(t, key))
         /\ ~HasKey(t.value, key) => GetItem(t, key) = Nothing
         /\ \A a : Holds(t.value, key, a) => GetItem(t, key) = a
<1> DEFINE v == t.value
           k == CHOOSE k \in DOMAIN v : v[k][1] = key
<1>1. Distinct(v)
  BY DEF IsTable
<1>2. GetItem(t, key) = IF HasKey(v, key) THEN v[k][2] ELSE Nothing
  BY Zenon DEF GetItem, HasKey
<1>3. HasKey(v, key) => k \in DOMAIN v /\ v[k][1] = key
  BY Zenon DEF HasKey
<1> HIDE DEF v, k
<1>4. HasKey(v, key) => Holds(v, key, GetItem(t, key))
  BY <1>2, <1>3, Zenon DEF Holds
<1>5. ~HasKey(v, key) => GetItem(t, key) = Nothing
  BY <1>2
<1>6. ASSUME NEW a, Holds(v, key, a) PROVE GetItem(t, key) = a
  <2>1. PICK j \in DOMAIN v : v[j][1] = key /\ v[j][2] = a
    BY <1>6, Zenon DEF Holds
  <2>2. HasKey(v, key)
    BY <2>1, Zenon DEF HasKey
  <2>3. j = k
    BY <1>1, <1>3, <2>1, <2>2, Zenon DEF Distinct
  <2>4. QED
    BY <1>2, <2>1, <2>2, <2>3
<1>7. QED
  BY <1>4, <1>5, <1>6 DEF v

\* A key is had if and only if something is held for it.
LEMMA KeysHold ==
  \A v, key : HasKey(v, key) <=> \E a : Holds(v, key, a)
BY Zenon DEF HasKey, Holds

\* One more item.
LEMMA HoldsMore ==
  ASSUME NEW S, NEW w \in Seq(S), NEW name, NEW b
  PROVE  \A key, a : Holds(Cat(<<<<name, b>>>>, w), key, a) <=> (key = name /\ a = b) \/ Holds(w, key, a)
<1> DEFINE e == <<name, b>>
           v == <<e>> \o w
<1>0. e[1] = name /\ e[2] = b
  OBVIOUS
<1> HIDE DEF e
<1>1. /\ DOMAIN v = 1..(Len(w) + 1) /\ DOMAIN w = 1..Len(w) /\ Len(w) \in Nat /\ v[1] = e
      /\ \A k \in 2..(Len(w) + 1) : v[k] = w[k - 1] /\ k - 1 \in 1..Len(w)
      /\ \A k \in 1..Len(w) : w[k] = v[k + 1] /\ k + 1 \in 1..(Len(w) + 1)
  OBVIOUS
<1> HIDE DEF v
<1>2. ASSUME NEW key, NEW a
      PROVE  Holds(v, key, a) <=> (key = name /\ a = b) \/ Holds(w, key, a)
  <2>1. ASSUME Holds(v, key, a) PROVE (key = name /\ a = b) \/ Holds(w, key, a)
    <3>1. PICK k \in 1..(Len(w) + 1) : v[k][1] = key /\ v[k][2] = a
      BY <1>1, <2>1, Zenon DEF Holds
    <3>2. CASE k = 1
      BY <1>0, <1>1, <3>1, <3>2
    <3>3. CASE k # 1
      <4>1. k \in 2..(Len(w) + 1)
        BY <1>1, <3>3
      <4>2. w[k - 1] = v[k] /\ k - 1 \in DOMAIN w
        BY <1>1, <4>1
      <4>3. QED
        BY <3>1, <4>2, Zenon DEF Holds
    <3>4. QED
      BY <3>2, <3>3
  <2>2. ASSUME key = name, a = b PROVE Holds(v, key, a)
    <3>1. 1 \in DOMAIN v
      BY <1>1
    <3>2. QED
      BY <1>0, <1>1, <2>2, <3>1, Zenon DEF Holds
  <2>3. ASSUME Holds(w, key, a) PROVE Holds(v, key, a)
    <3>1. PICK k \in 1..Len(w) : w[k][1] = key /\ w[k][2] = a
      BY <1>1, <2>3, Zenon DEF Holds
    <3>2. v[k + 1] = w[k] /\ k + 1 \in DOMAIN v
      BY <1>1
    <3>3. QED
      BY <3>1, <3>2, Zenon DEF Holds
  <2>4. QED
    BY <2>1, <2>2, <2>3
<1>3. v = Cat(<<<<name, b>>>>, w)
  BY Zenon DEF v, e, Cat
<1>4. QED
  BY <1>2, <1>3

\* The text of a dictionary that is cut, or goes on with anything, after some
\* of its items: either nothing is decoded or those items are, and whatever is
\* made of the rest; where that has an item for one of their keys, it is kept.
Kept(items, atoms, whole, rest) ==
  IF rest = Nothing THEN whole = Nothing
  ELSE /\ whole.kind = "dicti"
       /\ \A k \in 1..Len(items) : ~HasKey(rest.value, items[k][1]) =>
            GetItem(whole, items[k][1]) = atoms[k]
       /\ \A key : HasKey(rest.value, key) \/ (\A k \in 1..Len(items) : items[k][1] # key) =>
            GetItem(whole, key) = GetItem(rest, key)

\* What the loop makes of the items and of what follows them.
LEMMA LoopKeeps ==
  ASSUME NEW Char, NEW x \in Seq(Char), NEW i \in Nat, NEW l, NEW items, NEW atoms,
         Keyed(Char, items, atoms), NEW at, Loop(x, i, l, items, atoms, at)
  PROVE  Kept(items, atoms, Decoder(x)[<<"dicti", at[0]>>], Decoder(x)[<<"dicti", at[Len(items)]>>])
<1> DEFINE n == Len(items)
           name(k) == items[k][1]
           D(k) == Decoder(x)[<<"dicti", at[k]>>]
           rest == D(n)
<1>0. n \in Nat
  BY LenProperties DEF Keyed
<1>1. \A j, k \in 1..n : name(j) = name(k) => j = k
  BY Zenon DEF Keyed
<1>2. \A k \in 0..n : IsTable(D(k))
  <2>1. TAKE k \in 0..n
  <2>2. at[k] \in Nat \ {0}
    BY DEF Loop
  <2>3. QED
    BY <2>2, DecoderTables
<1>3. \A k \in 1..n : D(k - 1) = Extended(name(k), atoms[k], at[k] - at[k - 1], D(k))
  BY Zenon DEF Loop
<1> HIDE DEF n, name, D
<1>4. CASE rest = Nothing
  <2> DEFINE Good == {m \in Nat : m <= n => D(n - m) = Nothing}
  <2>1. 0 \in Good
    <3>1. n - 0 = n
      BY <1>0
    <3>2. QED
      BY <1>4, <3>1
  <2>2. ASSUME NEW m \in Nat, m \in Good PROVE m + 1 \in Good
    <3>1. SUFFICES ASSUME m + 1 <= n PROVE D(n - (m + 1)) = Nothing
      OBVIOUS
    <3>2. n - m \in 1..n /\ n - (m + 1) = (n - m) - 1 /\ m <= n
      BY <1>0, <3>1
    <3>3. D(n - m) = Nothing
      BY <2>2, <3>2
    <3>4. D((n - m) - 1) = Nothing
      BY <1>3, <3>2, <3>3, Zenon DEF Extended
    <3>5. QED
      BY <3>2, <3>4
  <2>3. Nat \subseteq Good
    <3> HIDE DEF Good
    <3>1. QED
      BY <2>1, <2>2, SetInduction
  <2>4. n - n = 0 /\ n <= n
    BY <1>0
  <2>5. D(0) = Nothing
    BY <1>0, <2>3, <2>4
  <2>6. QED
    BY <1>4, <2>5, Zenon DEF Kept, D, n
<1>5. CASE rest # Nothing
  <2> DEFINE R == rest.value
             Old(k, key, a) == \E j \in (k + 1)..n : key = name(j) /\ a = atoms[j] /\ ~HasKey(R, name(j))
             Fine(k) == /\ D(k) # Nothing
                        /\ \A key, a : Holds(D(k).value, key, a) <=> Holds(R, key, a) \/ Old(k, key, a)
             Good == {m \in Nat : m <= n => Fine(n - m)}
  <2>1. 0 \in Good
    <3>1. n - 0 = n /\ (n + 1)..n = {}
      BY <1>0
    <3>2. \A key, a : ~Old(n, key, a)
      BY <3>1
    <3> HIDE DEF Old
    <3>3. Fine(n)
      BY <1>5, <3>2
    <3> HIDE DEF Fine
    <3>4. QED
      BY <3>1, <3>3
  <2>2. ASSUME NEW k \in 1..n, Fine(k)
        PROVE  Fine(k - 1)
    <3> DEFINE w == D(k).value
               v == D(k - 1).value
               u == name(k)
               b == atoms[k]
    <3>0. /\ k \in Nat /\ k \in 0..n /\ k - 1 \in 0..n /\ (k - 1) + 1 = k /\ k \in k..n
          /\ \A j \in k..n : j = k \/ j \in (k + 1)..n
          /\ \A j \in (k + 1)..n : j \in k..n /\ j # k /\ j \in 1..n
      BY <1>0
    <3>1. D(k - 1) = Extended(u, b, at[k] - at[k - 1], D(k)) /\ D(k) # Nothing
      BY <1>3, <2>2
    <3>2. \A key, a : Holds(w, key, a) <=> Holds(R, key, a) \/ Old(k, key, a)
      BY <2>2
    <3>3. PICK S : w \in Seq(S)
      BY <1>2, <3>0, <3>1 DEF IsTable
    <3>4. \A key, a : Old(k - 1, key, a) <=> Old(k, key, a) \/ (key = u /\ a = b /\ ~HasKey(R, u))
      BY <3>0, Zenon
    <3>5. HasKey(w, u) <=> HasKey(R, u)
      <4>1. \A a : ~Old(k, u, a)
        BY <1>1, <3>0, Zenon
      <4> HIDE DEF Old, w, R, u
      <4>2. QED
        BY <3>2, <4>1, KeysHold, Zenon
    <3> HIDE DEF Old, w, R, u, b
    <3>6. CASE HasKey(R, u)
      <4>1. D(k - 1) = D(k)
        BY <3>1, <3>5, <3>6, Zenon DEF Extended, w
      <4>2. \A key, a : Old(k - 1, key, a) <=> Old(k, key, a)
        BY <3>4, <3>6, Zenon
      <4>3. v = w
        BY <4>1, Zenon DEF w
      <4> HIDE DEF v
      <4>4. \A key, a : Holds(v, key, a) <=> Holds(R, key, a) \/ Old(k - 1, key, a)
        BY <3>2, <4>2, <4>3, Zenon
      <4>5. QED
        BY <3>1, <4>1, <4>4, Zenon DEF v
    <3>7. CASE ~HasKey(R, u)
      <4> DEFINE o == Cat(<<<<u, b>>>>, w)
                 z == at[k] - at[k - 1] + D(k).length
      <4>1. D(k - 1) = Parsed("dicti", o, z)
        BY <3>1, <3>5, <3>7, Zenon DEF Extended, w
      <4>2. \A key, a : Holds(o, key, a) <=> (key = u /\ a = b) \/ Holds(w, key, a)
        BY <3>3, HoldsMore
      <4> HIDE DEF o, z
      <4>3. D(k - 1) # Nothing /\ v = o
        <5>1. LET y == Parsed("dicti", o, z) IN y # Nothing /\ y.value = o
          BY ParsedFacts
        <5>2. QED
          BY <4>1, <5>1
      <4> HIDE DEF v
      <4>4. \A key, a : Holds(v, key, a) <=> Holds(R, key, a) \/ Old(k - 1, key, a)
        <5>1. TAKE key, a
        <5>2. Holds(v, key, a) <=> (key = u /\ a = b) \/ Holds(w, key, a)
          BY <4>2, <4>3, Zenon
        <5>3. Holds(w, key, a) <=> Holds(R, key, a) \/ Old(k, key, a)
          BY <3>2
        <5>4. Old(k - 1, key, a) <=> Old(k, key, a) \/ (key = u /\ a = b)
          <6>1. Old(k - 1, key, a) <=> Old(k, key, a) \/ (key = u /\ a = b /\ ~HasKey(R, u))
            BY <3>4
          <6> DEFINE p == Old(k - 1, key, a)
          <6> HIDE DEF p
          <6>2. p <=> Old(k, key, a) \/ (key = u /\ a = b)
            BY <3>7, <6>1 DEF p
          <6>3. QED
            BY <6>2 DEF p
        <5>5. QED
          BY <5>2, <5>3, <5>4
      <4>5. QED
        BY <4>3, <4>4, Zenon DEF v
    <3>8. QED
      BY <3>6, <3>7
  <2>3. ASSUME NEW m \in Nat, m \in Good PROVE m + 1 \in Good
    <3> HIDE DEF Fine
    <3>1. SUFFICES ASSUME m + 1 <= n PROVE Fine(n - (m + 1))
      OBVIOUS
    <3>2. n - m \in 1..n /\ n - (m + 1) = (n - m) - 1 /\ m <= n
      BY <1>0, <3>1
    <3>3. Fine(n - m)
      BY <2>3, <3>2
    <3>4. QED
      BY <2>2, <3>2, <3>3
  <2>4. Fine(0)
    <3> HIDE DEF Fine
    <3>1. Nat \subseteq Good
      <4> HIDE DEF Good
      <4>1. QED
        BY <2>1, <2>3, SetInduction
    <3>2. n - n = 0 /\ n <= n
      BY <1>0
    <3>3. QED
      BY <1>0, <3>1, <3>2
  <2> DEFINE whole == D(0)
  <2>5. IsTable(whole) /\ whole # Nothing /\ IsTable(rest) /\ rest # Nothing
    BY <1>0, <1>2, <1>5, <2>4
  <2>6. \A key, a : Holds(whole.value, key, a) <=> Holds(R, key, a) \/ Old(0, key, a)
    BY <2>4
  <2>7. \A key, a : Old(0, key, a) <=> \E j \in 1..n : key = name(j) /\ a = atoms[j] /\ ~HasKey(R, name(j))
    <3>1. 0 + 1 = 1
      OBVIOUS
    <3>2. QED
      BY <3>1, Zenon
  <2> HIDE DEF Old, whole, rest
  <2>8. ASSUME NEW k \in 1..n, ~HasKey(R, name(k)) PROVE GetItem(whole, name(k)) = atoms[k]
    <3>1. Holds(whole.value, name(k), atoms[k])
      BY <2>6, <2>7, <2>8, Zenon
    <3>2. QED
      BY <2>5, <3>1, ItemOfTable
  <2>9. ASSUME NEW key, HasKey(R, key) \/ \A k \in 1..n : name(k) # key
        PROVE  GetItem(whole, key) = GetItem(rest, key)
    <3>1. CASE HasKey(R, key)
      <4>1. Holds(R, key, GetItem(rest, key))
        BY <2>5, <3>1, ItemOfTable
      <4>2. Holds(whole.value, key, GetItem(rest, key))
        BY <2>6, <4>1, Zenon
      <4>3. QED
        BY <2>5, <4>2, ItemOfTable
    <3>2. CASE ~HasKey(R, key)
      <4>1. \A a : ~Holds(whole.value, key, a)
        BY <2>6, <2>7, <2>9, <3>2, KeysHold, Zenon
      <4>2. ~HasKey(whole.value, key)
        BY <4>1, KeysHold, Zenon
      <4>3. GetItem(whole, key) = Nothing /\ GetItem(rest, key) = Nothing
        BY <2>5, <3>2, <4>2, ItemOfTable
      <4>4. QED
        BY <4>3
    <3>3. QED
      BY <3>1, <3>2
  <2>10. whole.kind = "dicti"
    BY <2>5 DEF IsTable
  <2>11. Kept(items, atoms, whole, rest)
    BY <2>5, <2>8, <2>9, <2>10, Zenon DEF Kept, name, n
  <2>12. QED
    BY <2>11, Zenon DEF whole, rest, D, n
<1>6. QED
  BY <1>4, <1>5

\* The text of a table that is cut, or goes on with anything, after some of its
\* items: these are not damaged, unless the decoder gives up the whole table.
THEOREM CutTableReadBack ==
  ASSUME NEW Char, Marks \subseteq Char, NEW items, NEW atoms, Keyed(Char, items, atoms),
         NEW tail \in Seq(Char)
  PROVE  LET F == FlattenSeq(Written(items))
             text == <<"d">> \o F \o tail
         IN  Kept(items, atoms, Decoded(text), Decoder(text)[<<"dicti", 2 + Len(F)>>])
<1> DEFINE F == FlattenSeq(Written(items))
           b == <<"d">>
           x == Around(b, F, tail)
<1>1. b \in Seq(Char) /\ Len(b) = 1 /\ b[1] = "d"
  BY DEF Marks
<1> HIDE DEF b
<1>2. F \in Seq(Char) /\ \E at : Loop(Around(b, F, tail), Len(b), Len(F), items, atoms, at)
  BY <1>1, DictiLoop
<1>3. PICK at : Loop(x, 1, Len(F), items, atoms, at)
  BY <1>1, <1>2, Zenon
<1>4. x \in Seq(Char) /\ x[1] = "d" /\ 1 <= Len(x) /\ Len(x) \in Nat /\ Len(F) \in Nat
  <2> DEFINE y == b \o F
             z == y \o tail
  <2> HIDE DEF F
  <2>1. F \in Seq(Char) /\ Len(F) \in Nat
    BY <1>2, LenProperties
  <2>2. y \in Seq(Char) /\ Len(y) = 1 + Len(F) /\ y[1] = "d"
    <3>1. y \in Seq(Char) /\ Len(y) = Len(b) + Len(F)
      BY <1>1, <2>1, ConcatProperties
    <3>2. 1 \in 1..Len(b) + Len(F) /\ 1 <= Len(b)
      BY <1>1, <2>1
    <3>3. y[1] = b[1]
      BY <1>1, <2>1, <3>2, ConcatProperties
    <3>4. QED
      BY <1>1, <3>1, <3>3
  <2> HIDE DEF y
  <2>3. z \in Seq(Char) /\ Len(z) = Len(y) + Len(tail) /\ z[1] = "d" /\ Len(tail) \in Nat
    <3>1. z \in Seq(Char) /\ Len(z) = Len(y) + Len(tail) /\ Len(tail) \in Nat
      BY <2>2, ConcatProperties, LenProperties
    <3>2. 1 \in 1..Len(y) + Len(tail) /\ 1 <= Len(y)
      BY <2>1, <2>2, <3>1
    <3>3. z[1] = y[1]
      BY <2>2, <3>2, ConcatProperties
    <3>4. QED
      BY <2>2, <3>1, <3>3
  <2>4. x = z
    BY Zenon DEF Around, z, y
  <2> HIDE DEF x, z
  <2>5. QED
    BY <2>1, <2>2, <2>3, <2>4
<1> HIDE DEF x, F
<1>5. at[0] = 2 /\ at[Len(items)] = 2 + Len(F)
  BY <1>3, <1>4 DEF Loop
<1>6. Kept(items, atoms, Decoder(x)[<<"dicti", 2>>], Decoder(x)[<<"dicti", 2 + Len(F)>>])
  <2>1. Kept(items, atoms, Decoder(x)[<<"dicti", at[0]>>], Decoder(x)[<<"dicti", at[Len(items)]>>])
    BY <1>3, <1>4, LoopKeeps
  <2>2. QED
    BY <1>5, <2>1, Zenon
<1>7. Decoded(x) = Decoder(x)[<<"dicti", 2>>]
  <2>1. Decoder(x)[<<"value", 1>>] = Decode(x, Decoder(x), 1)
    <3> DEFINE i == 1
    <3>1. i \in Nat \ {0} /\ x \in Seq(Char)
      BY <1>4
    <3> HIDE DEF i
    <3>2. Decoder(x)[<<"value", i>>] = Decode(x, Decoder(x), i)
      BY <3>1, DecoderEquation
    <3>3. QED
      BY <3>2, Zenon DEF i
  <2>2. ~(1 > Len(x)) /\ 1 + 1 = 2
    BY <1>4
  <2>3. Decode(x, Decoder(x), 1) = Decoder(x)[<<"dicti", 1 + 1>>]
    <3> DEFINE i == 1
               f == Decoder(x)
    <3>1. ~(i > Len(x)) /\ x[i] = "d"
      BY <1>4, <2>2
    <3> HIDE DEF i, f
    <3>2. Decode(x, f, i) = f[<<"dicti", i + 1>>]
      BY <3>1, DecodeArms
    <3>3. QED
      BY <3>2, Zenon DEF i, f
  <2>4. QED
    BY <2>1, <2>2, <2>3, Zenon DEF Decoded
<1>8. Kept(items, atoms, Decoded(x), Decoder(x)[<<"dicti", 2 + Len(F)>>])
  BY <1>6, <1>7, Zenon
<1>9. QED
  BY <1>8, Zenon DEF x, F, b, Around

---------------------------------------------------------------------------
(***************************************************************************)
(* Files: a text with nothing around it.                                   *)
(***************************************************************************)

\* What is read back in any text is what Decode makes of the text alone, as
\* DecodeFile uses it.
THEOREM ReadBack ==
  ASSUME NEW Char, NEW t, NEW a, Reads(Char, t, a)
  PROVE  Decoded(t) = a
<1> DEFINE o == <<>>
<1>1. o \in Seq(Char) /\ t \in Seq(Char) /\ Len(o) + 1 = 1
  BY DEF Reads
<1>2. Decoder(Around(o, t, o))[<<"value", Len(o) + 1>>] = a
  <2> HIDE DEF o
  <2>1. QED
    BY <1>1, Zenon DEF Reads
<1>3. Around(o, t, o) = t
  BY <1>1, ConcatEmptySeq DEF Around
<1> HIDE DEF o
<1>4. Decoder(t)[<<"value", 1>>] = a
  BY <1>1, <1>2, <1>3, Zenon
<1>5. QED
  BY <1>4, Zenon DEF Decoded

\* A file written whole with EncodeDicti is the table it was written from: getItem
\* finds each key's value, and nothing for any other key.
THEOREM TableReadBack ==
  ASSUME NEW Char, Marks \subseteq Char, NEW items, NEW atoms, Keyed(Char, items, atoms)
  PROVE  LET table == Decoded(EncodeDicti(items))
         IN  /\ table.kind = "dicti"
             /\ \A k \in 1..Len(items) : GetItem(table, items[k][1]) = atoms[k]
             /\ \A key : (\A k \in 1..Len(items) : items[k][1] # key) => GetItem(table, key) = Nothing
<1> DEFINE n == Len(items)
           name(k) == items[k][1]
           v == [k \in 1..n |-> <<items[k][1], atoms[k]>>]
           l == Len(EncodeDicti(items))
           table == Decoded(EncodeDicti(items))
<1>1. table = Parsed("dicti", v, l)
  <2> DEFINE t == EncodeDicti(items)
             a == Parsed("dicti", v, l)
  <2>1. Reads(Char, t, a)
    BY DictiReads
  <2> HIDE DEF t, a
  <2>2. Decoded(t) = a
    BY <2>1, ReadBack
  <2>3. QED
    BY <2>2, Zenon DEF t, a
<1>2. \A k \in 1..n : v[k][1] = name(k) /\ v[k][2] = atoms[k]
  OBVIOUS
<1>3. n \in Nat /\ DOMAIN v = 1..n /\ v \in Seq({v[k] : k \in 1..n})
  <2>1. n \in Nat
    BY LenProperties DEF Keyed
  <2>2. DOMAIN v = 1..n
    OBVIOUS
  <2>3. v \in [1..n -> {v[k] : k \in 1..n}]
    <3> DEFINE e(k) == <<items[k][1], atoms[k]>>
    <3>1. v = [k \in 1..n |-> e(k)]
      OBVIOUS
    <3> HIDE DEF v, e, n
    <3>2. QED
      BY <3>1
  <2> HIDE DEF n, v
  <2>4. v \in Seq({v[k] : k \in 1..n})
    BY <2>1, <2>3
  <2>5. QED
    BY <2>1, <2>2, <2>4
<1>4. \A j, k \in 1..n : name(j) = name(k) => j = k
  BY Zenon DEF Keyed
<1> HIDE DEF n, name, v, l
<1>5. Parsed("dicti", v, l).kind = "dicti" /\ Parsed("dicti", v, l).value = v
      /\ Parsed("dicti", v, l) # Nothing
  BY ParsedFacts
<1>6. Distinct(v)
  <2>1. ASSUME NEW j \in 1..n, NEW k \in 1..n, v[j][1] = v[k][1] PROVE j = k
    <3>1. name(j) = name(k)
      BY <1>2, <2>1
    <3>2. QED
      BY <1>4, <3>1
  <2>2. QED
    BY <1>3, <2>1, Zenon DEF Distinct
<1> HIDE DEF table
<1>7. IsTable(table) /\ table # Nothing /\ table.value = v /\ table.kind = "dicti"
  <2>1. table.kind = "dicti" /\ table.value = v /\ table # Nothing
    BY <1>1, <1>5, Zenon
  <2>2. QED
    BY <1>3, <1>6, <2>1, Zenon DEF IsTable
<1>8. ASSUME NEW k \in 1..n PROVE GetItem(table, name(k)) = atoms[k]
  <2>1. Holds(v, name(k), atoms[k])
    BY <1>2, <1>3, Zenon DEF Holds
  <2>2. QED
    BY <1>7, <2>1, ItemOfTable
<1>9. ASSUME NEW key, \A k \in 1..n : name(k) # key PROVE GetItem(table, key) = Nothing
  <2>1. ~HasKey(v, key)
    BY <1>2, <1>3, <1>9, Zenon DEF HasKey
  <2>2. QED
    BY <1>7, <2>1, ItemOfTable
<1>10. QED
  BY <1>7, <1>8, <1>9, Zenon DEF table, n, name
=============================================================================
