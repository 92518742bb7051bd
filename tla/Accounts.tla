------------------------------ MODULE Accounts ------------------------------
(***************************************************************************)
(* Who may do what: the table of users, what a request may do with the     *)
(* credentials it brings, the pages that change the table, and the file    *)
(* it is kept in (tracker.cpp, tracker_users.cpp, tracker_signup.cpp).     *)
(*                                                                         *)
(* A request acts with the credentials CClient::Process ends up with, from *)
(* its Authorization header or its cookies: a login and the digest of a    *)
(* login and a password, which for a given login stands for the password.  *)
(* The header brings a password, of which the digest is made; the cookie   *)
(* is taken as the digest whatever it is, so it may also be what a cut of  *)
(* the file has left of one.  Any other cookie matches nobody.  No handler *)
(* waits for anything, so a request is one step.                           *)
(*                                                                         *)
(* The file is written whole after every change.                           *)
(***************************************************************************)
EXTENDS Files, FiniteSets

CONSTANTS
  User, Pass,      \* logins and passwords
  UserBefore,      \* the order of the keys: <<u, v>> if u is before v
  NoUser,          \* no entry in m_pUsers
  NoPass,          \* an entry without "md5"
  Garbled,         \* an "md5" that is the digest of nothing, but what was left of one
  NoAccess,        \* an entry without "access"
  Guest,           \* the credentials of a request that has none
  GuestAccess,     \* bnbt_guest_access
  MemberAccess,    \* bnbt_member_access
  Grants,          \* the rights an administrator gives
  Loaded,          \* tables the file may hold when the model starts
  CutEntries,      \* CutEntries[e]: what may be left of e where a text was cut
  MaxChanges,      \* bound on the changes made to the tables
  MaxFaults        \* bound on the saves that fail

Right == {"view", "dl", "comments", "upload", "edit", "admin", "signup"}

\* The rights entries come with.
Granted == Grants \cup {MemberAccess}

Entry == [md5: Pass \cup {NoPass, Garbled}, access: Granted \cup {NoAccess},
          mail: BOOLEAN, created: {"date", "short", "missing"}]

Table == [User -> Entry \cup {NoUser}]

NoUsers == [u \in User |-> NoUser]

Credential == User \X (Pass \cup {Garbled})

Complete(e) ==
  e.md5 \in Pass /\ e.access # NoAccess /\ e.mail /\ e.created = "date"

ASSUME SentinelAssumption ==
  /\ NoUser \notin Entry /\ Discarded \notin Entry /\ Guest \notin Credential
  /\ NoPass \notin Pass /\ Garbled \notin Pass /\ NoAccess \notin Granted
  /\ NoUser \notin [md5: Pass \cup {NoPass}, access: Granted]
ASSUME OrderAssumption == UserBefore \subseteq User \X User
ASSUME RightsAssumption ==
  /\ GuestAccess \subseteq Right /\ MemberAccess \subseteq Right
  /\ Grants \subseteq SUBSET Right
ASSUME LoadedAssumption ==
  /\ Loaded \subseteq Table
  /\ \A t \in Loaded, u \in User : t[u] # NoUser => Complete(t[u])
ASSUME BoundAssumption == MaxChanges \in Nat /\ MaxFaults \in Nat

\* What the cut of a text leaves of an entry is a part of it.
ASSUME CutAssumption ==
  /\ CutEntries \in [Entry -> SUBSET (Entry \cup {Discarded, NoUser})]
  /\ \A e \in Entry : \A r \in CutEntries[e] \ {Discarded, NoUser} :
       /\ r.md5 \in {e.md5, NoPass, Garbled}
       /\ r.access \in {e.access, NoAccess}

VARIABLES
  running,   \* the process exists
  users,     \* m_pUsers; of a stopped process, what it was
  usersFile, \* what DecodeFile makes of m_strUsersFile, an empty table for none
  lostUsers, \* history: the last save of the users did not complete
  oldUsers,  \* history: some save of the users left the file as it was
  cutUsers,  \* history: some save of the users ended early
  given,     \* history: what each user was last given on purpose
  changes,   \* the number of changes, bounded by MaxChanges
  faults     \* the number of saves that failed, bounded by MaxFaults

boundVars == <<changes, faults>>
accountVars == <<users, usersFile, lostUsers, oldUsers, cutUsers, given>>
accountsVars == <<running, accountVars, boundVars>>

---------------------------------------------------------------------------
(***************************************************************************)
(* Files.                                                                  *)
(***************************************************************************)

CutUsers(t) == CutTable(t, NoUser, UserBefore, LAMBDA u, e : CutEntries[e])

\* A change of a table: one save, which may fail.
CountChange(outcome) ==
  /\ changes < MaxChanges /\ changes' = changes + 1
  /\ faults' = faults + FaultsOf(outcome) /\ faults' <= MaxFaults
  /\ running' = (outcome # "crash")

\* saveUsers, after users' has been changed.
SaveUsers(outcome) ==
  /\ usersFile' \in FileAfter(outcome, usersFile, users', CutUsers(users'))
  /\ lostUsers' = (outcome # "written")
  /\ oldUsers' = (oldUsers \/ outcome = "unopened")
  /\ cutUsers' = (cutUsers \/ outcome \in {"short", "crash"})

---------------------------------------------------------------------------
(***************************************************************************)
(* checkUser.                                                              *)
(***************************************************************************)

Vacant(t) == \A u \in User : t[u] = NoUser

\* Mutant: only the login is compared.
MatchesLogin(c) ==
  /\ c # Guest
  /\ users[c[1]] # NoUser
  /\ users[c[1]].access # NoAccess
  /\ users[c[1]].mail

\* The request is one of a user.
Matches(c) ==
  /\ c # Guest
  /\ users[c[1]] # NoUser
  /\ users[c[1]].md5 = c[2]
  /\ users[c[1]].access # NoAccess
  /\ users[c[1]].mail

\* Credentials that match nobody's are no better than none.
Requester == {Guest} \cup {c \in Credential : Matches(c)}

\* "created" is used without a look at whether it is there.
LoginCrashes(c) == Matches(c) /\ users[c[1]].created = "missing"

\* If no users exist, everyone has full access.
Access(c) ==
  IF Matches(c) THEN users[c[1]].access
  ELSE IF Vacant(users) THEN Right ELSE GuestAccess

May(c, right) == running /\ ~LoginCrashes(c) /\ right \in Access(c)

---------------------------------------------------------------------------
(***************************************************************************)
(* The pages.                                                              *)
(***************************************************************************)

NewEntry(p, access) ==
  [md5 |-> p, access |-> access, mail |-> TRUE, created |-> "date"]

\* Mutant: the table is not saved.
AddUserUnsaved(u, p, access, outcome) ==
  /\ users' = [users EXCEPT ![u] = NewEntry(p, access)]
  /\ given' = [given EXCEPT ![u] = [md5 |-> p, access |-> access]]
  /\ UNCHANGED <<usersFile, lostUsers, oldUsers, cutUsers>>

AddUser(u, p, access, outcome) ==
  /\ users' = [users EXCEPT ![u] = NewEntry(p, access)]
  /\ given' = [given EXCEPT ![u] = [md5 |-> p, access |-> access]]
  /\ SaveUsers(outcome)

\* users.html with a login, a password twice and a mail.
CreateUser(c, u, p, access, outcome) ==
  /\ May(c, "admin")
  /\ users[u] = NoUser
  /\ CountChange(outcome)
  /\ AddUser(u, p, access, outcome)

\* Mutant: who signs up may be a user already.
SignUpAgain(c, u, p, outcome) ==
  /\ May(c, "signup")
  /\ CountChange(outcome)
  /\ AddUser(u, p, MemberAccess, outcome)

\* signup.html, likewise.
SignUp(c, u, p, outcome) ==
  /\ May(c, "signup")
  /\ users[u] = NoUser
  /\ CountChange(outcome)
  /\ AddUser(u, p, MemberAccess, outcome)

\* users.html?action=edit: the password is left alone unless one is given,
\* mail and rights are set, whatever else the entry holds or lacks.
EditUser(c, u, p, access, outcome) ==
  /\ May(c, "admin")
  /\ users[u] # NoUser
  /\ CountChange(outcome)
  /\ users' = [users EXCEPT ![u].md5 = IF p = NoPass THEN @ ELSE p,
                            ![u].access = access,
                            ![u].mail = TRUE]
  /\ given' = [given EXCEPT ![u] =
                 [md5 |-> IF p = NoPass /\ @ # NoUser THEN @.md5 ELSE p,
                  access |-> access]]
  /\ SaveUsers(outcome)

\* users.html?action=delete, of any name.
DeleteUser(c, u, outcome) ==
  /\ May(c, "admin")
  /\ CountChange(outcome)
  /\ users' = [users EXCEPT ![u] = NoUser]
  /\ given' = [given EXCEPT ![u] = NoUser]
  /\ SaveUsers(outcome)

\* Any request with credentials whose entry lacks "created".
CrashingLogin(c) ==
  /\ running /\ LoginCrashes(c)
  /\ running' = FALSE

\* The list of the users leaves the year out of a date: one that has been cut
\* within the year is too short for that, and an exception nobody catches ends
\* the process.
CrashingUsersPage(c) ==
  /\ May(c, "admin")
  /\ \E u \in User : users[u] # NoUser /\ users[u].created = "short"
  /\ running' = FALSE

---------------------------------------------------------------------------
(***************************************************************************)
(* The process.                                                            *)
(***************************************************************************)

\* A crash; the destructor does not save the users either.
StopAccounts ==
  /\ running /\ running' = FALSE
  /\ UNCHANGED accountVars

\* The constructor.
StartAccounts ==
  /\ ~running /\ running' = TRUE
  /\ users' = usersFile
  /\ UNCHANGED <<usersFile, lostUsers, oldUsers, cutUsers, given>>

InitAccounts ==
  /\ running = FALSE
  /\ usersFile \in Loaded
  /\ users = usersFile
  /\ lostUsers = FALSE /\ oldUsers = FALSE /\ cutUsers = FALSE
  /\ given = [u \in User |-> IF usersFile[u] = NoUser THEN NoUser
                             ELSE [md5 |-> usersFile[u].md5,
                                   access |-> usersFile[u].access]]
  /\ changes = 0 /\ faults = 0

\* A request that changes the table.
ChangeAccounts ==
  \E c \in Requester, u \in User, outcome \in Outcome :
    \/ \E p \in Pass, access \in Grants : CreateUser(c, u, p, access, outcome)
    \/ \E p \in Pass \cup {NoPass}, access \in Grants :
         EditUser(c, u, p, access, outcome)
    \/ \E p \in Pass : SignUp(c, u, p, outcome)
    \/ DeleteUser(c, u, outcome)

---------------------------------------------------------------------------
(***************************************************************************)
(* Properties.                                                             *)
(***************************************************************************)

TypeOKAccounts ==
  /\ running \in BOOLEAN
  /\ lostUsers \in BOOLEAN /\ oldUsers \in BOOLEAN /\ cutUsers \in BOOLEAN
  /\ users \in Table /\ usersFile \in Table
  /\ given \in [User -> [md5: Pass \cup {NoPass}, access: Granted] \cup {NoUser}]
  /\ changes \in Nat /\ faults \in Nat

\* Wherever a crash or a full disk has cut the file, and whatever was written
\* over it since, a login has the rights last given to it, never those of
\* another entry, and answers to the password last given to it.  Only once the
\* file has been cut does it answer to something else: to what the cut has left
\* of the digest, which a cookie may hold and which is compared like a whole
\* one.  A save that could not open the file is excepted: it leaves an older
\* table for the next start.
LoginAsGiven ==
  ~oldUsers =>
    \A c \in Credential :
      Matches(c) => /\ given[c[1]] # NoUser
                    /\ given[c[1]].access = Access(c)
                    /\ \/ given[c[1]].md5 = c[2]
                       \/ c[2] = Garbled /\ cutUsers

\* Every change of the table is saved before the answer: the file holds the
\* table unless the last save failed.  The destructor saves the other tables,
\* not this one.
UsersSaved == lostUsers \/ usersFile = users

\* Without a password, or with some password.
CanAdmin ==
  \/ "admin" \in GuestAccess
  \/ Vacant(users)
  \/ \E c \in User \X Pass : Matches(c) /\ ~LoginCrashes(c) /\ "admin" \in Access(c)

\* The last administrator is lost in three ways only: the first entry is made,
\* be it by someone who just signs up and gets the rights of a member; an
\* administrator edits or deletes an entry; or a damaged or older file is
\* loaded.
LockedOut ==
  [][CanAdmin /\ ~CanAdmin' =>
       \/ ~running /\ lostUsers
       \/ running /\ Vacant(users)
       \/ \E c \in Requester, u \in User, outcome \in Outcome :
            /\ "admin" \in Access(c)
            /\ \/ DeleteUser(c, u, outcome)
               \/ \E p \in Pass \cup {NoPass}, access \in Grants :
                    EditUser(c, u, p, access, outcome)]_accountsVars
=============================================================================
