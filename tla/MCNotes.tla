------------------------------ MODULE MCNotes ------------------------------
(***************************************************************************)
(* A small instance of Notes, and so of Accounts: two users, two           *)
(* passwords, one torrent.  What a cut leaves of an entry of the users     *)
(* file is computed with the codec, character by character.                *)
(***************************************************************************)
EXTENDS Notes, SequencesExt, TLC

CONSTANTS adm, mem, p1, p2, h1

B == INSTANCE Bencode

Key(name) == CASE name = "access"  -> <<"a", "c", "c", "e", "s", "s">>
               [] name = "created" -> <<"c", "r", "e", "a", "t", "e", "d">>
               [] name = "email"   -> <<"e", "m", "a", "i", "l">>
               [] name = "md5"     -> <<"m", "d", "5">>
               [] name = adm       -> <<"a">>
               [] name = mem       -> <<"m", "e">>

Date == <<"2", "0", "0", "6", " ", "1", "2", "/", "0", "4", " ",
          "1", "2", ":", "0", "0", ":", "3", "e">>

\* Sixteen bytes, among them some that mean something to the decoder.
Digest(p) ==
  <<IF p = p1 THEN "x" ELSE "y", "*", "e", "7", "d", "*", "l", "*",
    "i", "1", "e", "*", "*", "4", ":", "*">>

Bit == [view |-> 1, dl |-> 2, comments |-> 4, upload |-> 8, edit |-> 16,
        admin |-> 32, signup |-> 64]

Bits(rights) == MapThenSumSet(LAMBDA r : Bit[r], rights)

EntryText(e) ==
  B!EncodeDicti(
    (IF e.access = NoAccess THEN <<>>
       ELSE <<<<Key("access"), B!EncodeLong(Bits(e.access))>>>>)
    \o (CASE e.created = "missing" -> <<>>
          [] e.created = "short"   -> <<<<Key("created"), B!EncodeString(SubSeq(Date, 1, 4))>>>>
          [] OTHER                 -> <<<<Key("created"), B!EncodeString(Date)>>>>)
    \o (IF e.mail THEN <<<<Key("email"), B!EncodeString(<<"@", ".">>)>>>> ELSE <<>>)
    \o (CASE e.md5 = NoPass  -> <<>>
          [] e.md5 = Garbled -> <<<<Key("md5"), B!EncodeString(SubSeq(Digest(p1), 1, 12))>>>>
          [] OTHER           -> <<<<Key("md5"), B!EncodeString(Digest(e.md5))>>>>))

AtomEntry(atom) ==
  LET access == B!GetItem(atom, Key("access"))
      created == B!GetItem(atom, Key("created"))
      md5 == B!GetItem(atom, Key("md5"))
  IN  [md5 |-> IF md5 = B!Nothing THEN NoPass
               ELSE IF \E p \in Pass : md5.value = Digest(p)
               THEN CHOOSE p \in Pass : md5.value = Digest(p) ELSE Garbled,
       access |-> IF access = B!Nothing THEN NoAccess
                  ELSE CHOOSE g \in Granted : Bits(g) = access.value,
       mail |-> B!GetItem(atom, Key("email")) # B!Nothing,
       created |-> IF created = B!Nothing THEN "missing"
                   ELSE IF Len(created.value) \in 1..4 THEN "short" ELSE "date"]

TableText(t, order) ==
  B!EncodeDicti(FoldLeft(LAMBDA items, u : IF t[u] = NoUser THEN items
                           ELSE Append(items, <<Key(u), EntryText(t[u])>>),
                         <<>>, order))

\* The constructor: what is no dictionary is an empty table.
AtomTable(atom) ==
  IF atom.kind # "dicti" THEN NoUsers
  ELSE [u \in User |-> IF B!GetItem(atom, Key(u)) = B!Nothing THEN NoUser
                       ELSE AtomEntry(B!GetItem(atom, Key(u)))]

\* The entry alone in a file, cut anywhere.
CutOf(e) ==
  LET text == B!EncodeDicti(<<<<Key(adm), EntryText(e)>>>>)
      Left(n) == B!DecodeCut(text, n)
  IN  {IF Left(n) = B!Nothing THEN Discarded
       ELSE IF B!GetItem(Left(n), Key(adm)) = B!Nothing THEN NoUser
       ELSE AtomEntry(B!GetItem(Left(n), Key(adm))) : n \in 1..Len(text)}

\* Computed once.
CutTexts == [e \in Entry |-> CutOf(e)] @@ <<>>
CutByCodec == [e \in Entry |-> CutTexts[e]]

\* An administrator need not be a moderator, nor a moderator an administrator.
AdminAccess == {"view", "upload", "admin"}
PosterAccess == {"view", "comments", "upload", "edit"}
SomeGrants == {AdminAccess, PosterAccess}
Members == {"view", "comments", "upload", "signup"}
Guests == {"view", "signup"}

TwoUsers == [u \in User |-> IF u = adm THEN NewEntry(p1, AdminAccess)
                                       ELSE NewEntry(p1, Members)]

SomeTables == {NoUsers, TwoUsers}

Alphabetic == {<<adm, mem>>}
OneHash == {}

\* The cut of a whole table, by the codec, is what CutTable makes of the cuts
\* of its entries.
ASSUME CutsOfATable ==
  LET text == TableText(TwoUsers, <<adm, mem>>)
  IN  CutUsers(TwoUsers) = {AtomTable(B!DecodeCut(text, n)) : n \in 0..Len(text)}
=============================================================================
