-------------------------------- MODULE Link --------------------------------
(***************************************************************************)
(* The tracker link of link.cpp: secondary trackers connect to a primary   *)
(* one, and every announce one of them handles over HTTP is queued for the *)
(* others.  CLink is a connection's end at the secondary, CLinkClient the  *)
(* one at the primary; each has a thread of its own.  Send, Receive, Parse *)
(* and Queue are the same code in both classes and are modelled once.      *)
(*                                                                         *)
(* A message "len|type|payload" is a header token, complete with its       *)
(* second '|', and a payload token.  A header that has not arrived as a    *)
(* whole is parsed as no message and left alone, so it counts as not yet   *)
(* received; a header without its payload is not, and Parse returns it as  *)
(* a message.  Killing links from outside (shutdown, the administrator's   *)
(* reset) is left out.                                                     *)
(***************************************************************************)
EXTENDS Integers, Sequences, SequencesExt

CONSTANTS
  Conn,       \* connections, one after the other for each secondary
  Secondary,  \* secondary trackers
  Owner,      \* the secondary that makes a connection
  PassOK,     \* secondaries with the primary's bnbt_tlink_password
  Msg,        \* announces, each handled over HTTP by one tracker
  NoMsg,      \* the content of other messages, and garbage
  NoConn,     \* no connection has just been accepted
  Fragment,   \* a recv may end between a header and its payload
  Breaks,     \* connections may break
  MaxRelayed  \* bound on what waits for a secondary when more is relayed

ASSUME LinkAssumption ==
  /\ Owner \in [Conn -> Secondary]
  /\ PassOK \subseteq Secondary
  /\ NoMsg \notin Msg
  /\ NoConn \notin Conn
  /\ {Fragment, Breaks} \subseteq BOOLEAN
  /\ MaxRelayed \in Nat

End == {"primary", "secondary"}

Peer(e) == IF e = "primary" THEN "secondary" ELSE "primary"

Type == {"VERSION", "INFO", "PASSWORD", "READY", "ANNOUNCE", "CLOSE"}

\* Messages without a payload.
Bare == {"READY", "CLOSE"}

\* A linkmsg_t; it is not whole if the payload that its length announces is
\* missing, which only Parse returns.
Message == [type: Type, msg: Msg \cup {NoMsg}, whole: BOOLEAN]

Token == [type: Type, msg: Msg \cup {NoMsg}, payload: BOOLEAN]

VARIABLES
  pc,      \* pc[c][e]: where the thread of end e of c is
  kill,    \* m_bKill
  queue,   \* m_vecQueued
  batch,   \* vecTemp, which Go has taken from the queue and not sent yet
  buf,     \* m_strReceiveBuf
  wire,    \* wire[c][e]: sent to end e and not received yet
  active,  \* CLinkClient::m_bActive
  listed,  \* the connections in CLinkServer::m_vecLinks
  main,    \* the connection the primary's main thread has accepted, not listed
  relay,   \* relay[c]: the announce the primary's thread is about to relay
  put,     \* history: announces queued for an end
  got      \* the announces an end has passed to QueueAnnounce

ends == <<pc, kill, buf, wire>>
vars == <<ends, queue, batch, active, listed, main, relay, put, got>>

Ch == INSTANCE Channel WITH Conn <- Conn, End <- End, Msg <- Msg, put <- put, got <- got

Content(t, m) == [type |-> t, msg |-> m, whole |-> TRUE]

Control(t) == Content(t, NoMsg)

---------------------------------------------------------------------------
(***************************************************************************)
(* Send, Receive and Parse.                                                *)
(***************************************************************************)

\* What Send writes: as much payload as lm.msg holds, whatever lm.len says.
Tokens(lm) ==
  LET header == [type |-> lm.type, msg |-> lm.msg, payload |-> FALSE]
  IN  IF lm.whole /\ lm.type \notin Bare
      THEN <<header, [header EXCEPT !.payload = TRUE]>>
      ELSE <<header>>

\* Nothing is sent by a killed end.  A failure loses the rest and kills it.
Send(c, e, lm) ==
  \/ /\ kill[c][e]
     /\ UNCHANGED <<wire, kill>>
  \/ /\ ~kill[c][e]
     /\ wire' = [wire EXCEPT ![c][Peer(e)] = @ \o Tokens(lm)]
     /\ UNCHANGED kill
  \/ /\ ~kill[c][e] /\ Breaks
     /\ \E n \in 0..Len(Tokens(lm)) - 1 :
          wire' = [wire EXCEPT ![c][Peer(e)] = @ \o SubSeq(Tokens(lm), 1, n)]
     /\ kill' = [kill EXCEPT ![c][e] = TRUE]

Parsed(t, m, whole, rest) ==
  [type |-> t, msg |-> m, whole |-> whole, rest |-> rest, kill |-> FALSE]

None(rest) == Parsed("NONE", NoMsg, FALSE, rest)

From(b, i) == SubSeq(b, i, Len(b))

\* Mutant: the last byte of a payload has to be followed by another.
ParseOffByOne(b) ==
  IF b = <<>> THEN {None(b)}
  ELSE IF b[1].type \in Bare THEN {Parsed(b[1].type, NoMsg, TRUE, From(b, 2))}
  ELSE IF Len(b) <= 2 THEN {Parsed(b[1].type, b[1].msg, FALSE, b)}
  ELSE {Parsed(b[1].type, b[1].msg, TRUE, From(b, 3))}

\* Mutant: a header without its payload is a complete message, and stays.
ParseUnchecked(b) ==
  IF b = <<>> \/ b[1].payload THEN {None(From(b, 2))}
  ELSE IF b[1].type \in Bare THEN {Parsed(b[1].type, NoMsg, TRUE, From(b, 2))}
  ELSE {Parsed(b[1].type, b[1].msg, TRUE, IF Len(b) = 1 THEN b ELSE From(b, 3))}

\* The possible results of Parse on a buffer.  A header is returned without
\* its payload, and stays, as long as the buffer is too short.  When
\* something else follows it, as much of that as the announced length covers
\* becomes the payload and what is left is out of step: a payload where a
\* header should be either kills the link or hides what comes after it.
Parse(b) ==
  IF b = <<>> THEN {None(b)}
  ELSE IF b[1].payload
  THEN {[None(b) EXCEPT !.kill = TRUE]}
       \cup {None(From(b, i)) : i \in 1..Len(b) + 1}
  ELSE IF b[1].type \in Bare
  THEN {Parsed(b[1].type, NoMsg, TRUE, From(b, 2))}
  ELSE IF Len(b) = 1
  THEN {Parsed(b[1].type, b[1].msg, FALSE, b)}
  ELSE IF b[2] = [b[1] EXCEPT !.payload = TRUE]
  THEN {Parsed(b[1].type, b[1].msg, TRUE, From(b, 3))}
  ELSE {Parsed(b[1].type, b[1].msg, FALSE, b)}
       \cup {Parsed(b[1].type, NoMsg, TRUE, From(b, i)) : i \in 3..Len(b) + 1}

\* How much of what is on the wire a recv may return.
Arrived(w) ==
  {n \in 0..Len(w) :
     \/ n = 0
     \/ Fragment
     \/ w[n].payload \/ w[n].type \in Bare}

\* What a recv of n tokens and the Parse after it may return.
Results(c, e, n) == Parse(buf[c][e] \o SubSeq(wire[c][e], 1, n))

\* Mutant: what follows a message in the buffer is dropped with it.
ReceiveDropRest(c, e, n, r) ==
  /\ ~kill[c][e]
  /\ n \in Arrived(wire[c][e])
  /\ wire' = [wire EXCEPT ![c][e] = From(@, n + 1)]
  /\ buf' = [buf EXCEPT ![c][e] = <<>>]
  /\ kill' = [kill EXCEPT ![c][e] = r.kill]

\* A recv of n tokens, none if the time limit is over, and the Parse.
Receive(c, e, n, r) ==
  /\ ~kill[c][e]
  /\ n \in Arrived(wire[c][e])
  /\ wire' = [wire EXCEPT ![c][e] = From(@, n + 1)]
  /\ buf' = [buf EXCEPT ![c][e] = r.rest]
  /\ kill' = [kill EXCEPT ![c][e] = r.kill]

Jump(c, e, to) == pc' = [pc EXCEPT ![c][e] = to]

At(c, e, at) == pc[c][e] = at

\* One recv of Receive(true), which looks at what it has only after it has
\* received something.  A message of the wrong type, or without its payload,
\* ends the thread; no message means another recv.  (One that finds the
\* connection closed gets nothing and tries again, for ever.)
Await(c, e, at, type, accepted, next) ==
  /\ At(c, e, at)
  /\ \E n \in 1..Len(wire[c][e]) : \E r \in Results(c, e, n) :
       /\ Receive(c, e, n, r)
       /\ Jump(c, e, IF r.type = "NONE" THEN at
                     ELSE IF r.type = type /\ r.whole /\ accepted THEN next
                     ELSE "return")
  /\ UNCHANGED <<queue, batch, active, listed, main, relay, put, got>>

\* A message of the handshake is sent.
Say(c, e, at, type, next) ==
  /\ At(c, e, at)
  /\ Send(c, e, Control(type))
  /\ Jump(c, e, next)
  /\ UNCHANGED <<buf, queue, batch, active, listed, main, relay, put, got>>

Waiting == {"version", "info", "password"}

\* Receive of a killed end, or a recv that fails.
ReceiveError(c, e) ==
  /\ Breaks \/ kill[c][e]
  /\ pc[c][e] \in Waiting \cup {"receive"}
  /\ kill' = [kill EXCEPT ![c][e] = TRUE]
  /\ Jump(c, e, IF At(c, e, "receive") THEN "top" ELSE "return")
  /\ UNCHANGED <<buf, wire, queue, batch, active, listed, main, relay, put, got>>

\* Mutant: what is taken stays in the queue.
TakeKept(c, e) ==
  /\ batch' = [batch EXCEPT ![c][e] = queue[c][e]]
  /\ UNCHANGED queue

\* Mutant: the queue is emptied before the other end is ready for it.
TakeUnready(c, e) ==
  /\ queue' = [queue EXCEPT ![c][e] = <<>>]
  /\ batch' = IF e = "secondary" \/ active[c]
              THEN [batch EXCEPT ![c][e] = queue[c][e]] ELSE batch

\* The whole queue is taken, at the primary only when the other end is ready.
Take(c, e) ==
  IF e = "secondary" \/ active[c]
  THEN /\ batch' = [batch EXCEPT ![c][e] = queue[c][e]]
       /\ queue' = [queue EXCEPT ![c][e] = <<>>]
  ELSE UNCHANGED <<queue, batch>>

\* The top of the loop.
Flush(c, e) ==
  /\ At(c, e, "top")
  /\ IF kill[c][e]
     THEN Jump(c, e, "return") /\ UNCHANGED <<queue, batch>>
     ELSE Take(c, e) /\ Jump(c, e, IF batch'[c][e] = <<>> THEN "receive" ELSE "send")
  /\ UNCHANGED <<kill, buf, wire, active, listed, main, relay, put, got>>

\* One iteration of the loop over what was taken.
SendNext(c, e) ==
  /\ At(c, e, "send")
  /\ Send(c, e, Head(batch[c][e]))
  /\ batch' = [batch EXCEPT ![c][e] = Tail(@)]
  /\ Jump(c, e, IF Len(batch[c][e]) = 1 THEN "receive" ELSE "send")
  /\ UNCHANGED <<buf, queue, active, listed, main, relay, put, got>>

\* Mutant: it is not checked whether the announce could be decoded.
HandOverUnchecked(c, e, r) ==
  got' = IF r.type = "ANNOUNCE" /\ r.whole
         THEN [got EXCEPT ![c][e] = Append(@, r.msg)] ELSE got

\* An announce that could be decoded is queued for the tracker.
HandOver(c, e, r) ==
  got' = IF r.type = "ANNOUNCE" /\ r.whole /\ r.msg # NoMsg
         THEN [got EXCEPT ![c][e] = Append(@, r.msg)] ELSE got

---------------------------------------------------------------------------
(***************************************************************************)
(* CLink, at the secondary.                                                *)
(***************************************************************************)

\* StartLink makes the next CLink when the last one is gone.
Create(c) ==
  /\ At(c, "secondary", "none")
  /\ \A d \in Conn :
       Owner[d] = Owner[c] => pc[d]["secondary"] \in {"none", "refused", "ended"}
  /\ Jump(c, "secondary", "created")
  /\ UNCHANGED <<kill, buf, wire, queue, batch, active, listed, main, relay, put, got>>

Connect(c) ==
  /\ At(c, "secondary", "created")
  /\ \/ Jump(c, "secondary", "greet") /\ UNCHANGED queue
     \/ /\ Jump(c, "secondary", "refused")
        /\ queue' = [queue EXCEPT ![c]["secondary"] = <<>>]
  /\ UNCHANGED <<kill, buf, wire, batch, active, listed, main, relay, put, got>>

ReceiveSecondary(c) ==
  /\ At(c, "secondary", "receive")
  /\ \E n \in 0..Len(wire[c]["secondary"]) :
       \E r \in Results(c, "secondary", n) :
         /\ Receive(c, "secondary", n, r)
         /\ HandOver(c, "secondary", r)
         /\ Jump(c, "secondary", IF r.type = "CLOSE" THEN "return" ELSE "top")
  /\ UNCHANGED <<queue, batch, active, listed, main, relay, put>>

\* ~CLink: the other end is told, unless the link was killed.
EndSecondary(c) ==
  /\ At(c, "secondary", "return")
  /\ Send(c, "secondary", Control("CLOSE"))
  /\ Jump(c, "secondary", "ended")
  /\ queue' = [queue EXCEPT ![c]["secondary"] = <<>>]
  /\ UNCHANGED <<buf, batch, active, listed, main, relay, put, got>>

SecondaryThread(c) ==
  \/ Create(c)
  \/ Connect(c)
  \/ Say(c, "secondary", "greet", "VERSION", "version")
  \/ Await(c, "secondary", "version", "VERSION", TRUE, "info")
  \/ Await(c, "secondary", "info", "INFO", TRUE, "answer")
  \/ Say(c, "secondary", "answer", "PASSWORD", "ready")
  \/ Say(c, "secondary", "ready", "READY", "top")
  \/ Flush(c, "secondary")
  \/ SendNext(c, "secondary")
  \/ ReceiveSecondary(c)
  \/ ReceiveError(c, "secondary")
  \/ EndSecondary(c)

---------------------------------------------------------------------------
(***************************************************************************)
(* CLinkClient, at the primary.                                            *)
(***************************************************************************)

\* Mutant: the password is not compared.
PasswordAcceptedAlways(c) == TRUE

\* The digest of the password and the nonce is what the primary expects.
PasswordAccepted(c) == Owner[c] \in PassOK

ReceivePrimary(c) ==
  /\ At(c, "primary", "receive")
  /\ \E n \in 0..Len(wire[c]["primary"]) :
       \E r \in Results(c, "primary", n) :
         /\ Receive(c, "primary", n, r)
         /\ HandOver(c, "primary", r)
         /\ active' = [active EXCEPT ![c] = @ \/ r.type = "READY"]
         /\ relay' = IF r.type = "ANNOUNCE"
                     THEN [relay EXCEPT ![c] = [type  |-> "ANNOUNCE",
                                                msg   |-> r.msg,
                                                whole |-> r.whole]]
                     ELSE relay
         /\ Jump(c, "primary", CASE r.type = "ANNOUNCE" -> "relay"
                                 [] r.type = "CLOSE"    -> "return"
                                 [] OTHER               -> "top")
  /\ UNCHANGED <<queue, batch, listed, main, put>>

\* CLinkServer::Queue: lm is queued on some of the links.
QueueOn(links, lm) ==
  /\ queue' = [c \in Conn |->
                 IF c \in links
                 THEN [queue[c] EXCEPT !["primary"] = Append(@, lm)]
                 ELSE queue[c]]
  /\ put' = [c \in Conn |->
               IF c \in links /\ lm.whole /\ lm.msg # NoMsg
               THEN [put[c] EXCEPT !["secondary"] = Append(@, lm.msg)]
               ELSE put[c]]

\* Mutant: an announce is relayed to every link.
RelayTargetsAll(c) == listed

\* All but the one whose address it came from.
RelayTargets(c) == listed \ {c}

\* A bound only: a header without payload is relayed again and again.
Room(c) ==
  Len(queue[c]["primary"]) + Len(wire[c]["secondary"] \o buf[c]["secondary"])
    <= MaxRelayed

Relay(c) ==
  /\ At(c, "primary", "relay")
  /\ \A d \in RelayTargets(c) : Room(d)
  /\ QueueOn(RelayTargets(c), relay[c])
  /\ Jump(c, "primary", "top")
  /\ UNCHANGED <<kill, buf, wire, batch, active, listed, main, relay, got>>

\* Mutant: the object is deleted whether or not it was found in the list.
EndPrimaryAnyway(c) ==
  /\ At(c, "primary", "return")
  /\ Send(c, "primary", Control("CLOSE"))
  /\ Jump(c, "primary", "ended")
  /\ listed' = listed \ {c}
  /\ queue' = [queue EXCEPT ![c]["primary"] = <<>>]
  /\ UNCHANGED <<buf, batch, active, main, relay, put, got>>

\* StartLinkClient: a link that is in the list is taken out and deleted; one
\* that is not there yet is left, with its socket, for ever.
EndPrimary(c) ==
  /\ At(c, "primary", "return")
  /\ IF c \in listed
     THEN /\ Send(c, "primary", Control("CLOSE"))
          /\ Jump(c, "primary", "ended")
          /\ listed' = listed \ {c}
          /\ queue' = [queue EXCEPT ![c]["primary"] = <<>>]
     ELSE /\ Jump(c, "primary", "leaked")
          /\ UNCHANGED <<kill, wire, queue, listed>>
  /\ UNCHANGED <<buf, batch, active, main, relay, put, got>>

PrimaryThread(c) ==
  \/ Say(c, "primary", "greet", "VERSION", "version")
  \/ Await(c, "primary", "version", "VERSION", TRUE, "challenge")
  \/ Say(c, "primary", "challenge", "INFO", "password")
  \/ Await(c, "primary", "password", "PASSWORD", PasswordAccepted(c), "top")
  \/ Flush(c, "primary")
  \/ SendNext(c, "primary")
  \/ ReceivePrimary(c)
  \/ Relay(c)
  \/ ReceiveError(c, "primary")
  \/ EndPrimary(c)

---------------------------------------------------------------------------
(***************************************************************************)
(* The main threads.                                                       *)
(***************************************************************************)

\* CLinkServer::Update, up to the new thread, which may fail to start.
Accept(c) ==
  /\ main = NoConn
  /\ At(c, "primary", "none")
  /\ pc[c]["secondary"] \notin {"none", "created", "refused"}
  /\ \E start \in {"greet", "leaked"} : Jump(c, "primary", start)
  /\ main' = c
  /\ UNCHANGED <<kill, buf, wire, queue, batch, active, listed, relay, put, got>>

\* The link enters the list, whatever has become of its thread.
PushBack ==
  /\ main # NoConn
  /\ listed' = listed \cup {main}
  /\ main' = NoConn
  /\ UNCHANGED <<ends, queue, batch, active, relay, put, got>>

New(m) == \A c \in Conn, e \in End : m \notin Range(put[c][e])

\* The announce handler of the primary.
AnnouncePrimary(m) ==
  /\ main = NoConn
  /\ New(m)
  /\ listed # {}
  /\ QueueOn(listed, Content("ANNOUNCE", m))
  /\ UNCHANGED <<ends, batch, active, listed, main, relay, got>>

\* The announce handler of the secondary that has c as its gpLink.
AnnounceSecondary(c, m) ==
  /\ pc[c]["secondary"] \notin {"none", "refused", "ended"}
  /\ New(m)
  /\ queue' = [queue EXCEPT ![c]["secondary"] =
                 Append(@, Content("ANNOUNCE", m))]
  /\ put' = [put EXCEPT ![c]["primary"] = Append(@, m)]
  /\ UNCHANGED <<ends, batch, active, listed, main, relay, got>>

---------------------------------------------------------------------------

Init ==
  /\ pc = [c \in Conn |-> [e \in End |-> "none"]]
  /\ kill = [c \in Conn |-> [e \in End |-> FALSE]]
  /\ queue = [c \in Conn |-> [e \in End |-> <<>>]]
  /\ batch = [c \in Conn |-> [e \in End |-> <<>>]]
  /\ buf = [c \in Conn |-> [e \in End |-> <<>>]]
  /\ wire = [c \in Conn |-> [e \in End |-> <<>>]]
  /\ active = [c \in Conn |-> FALSE]
  /\ listed = {}
  /\ main = NoConn
  /\ relay = [c \in Conn |-> Control("CLOSE")]
  /\ put = [c \in Conn |-> [e \in End |-> <<>>]]
  /\ got = [c \in Conn |-> [e \in End |-> <<>>]]

Next ==
  \/ \E c \in Conn : SecondaryThread(c) \/ PrimaryThread(c) \/ Accept(c)
  \/ PushBack
  \/ \E m \in Msg : AnnouncePrimary(m)
  \/ \E c \in Conn, m \in Msg : AnnounceSecondary(c, m)

Spec == Init /\ [][Next]_vars

Thread(c, e) ==
  IF e = "primary" THEN PrimaryThread(c) ELSE SecondaryThread(c)

\* A step of an end's thread that takes something off the wire.
Hears(c, e) == Thread(c, e) /\ Len(wire'[c][e]) < Len(wire[c][e])

\* Threads run, the primary accepts who connects, and the network delivers
\* what was sent to an end that keeps receiving.
FairSpec ==
  /\ Spec
  /\ \A c \in Conn : WF_vars(Accept(c))
  /\ WF_vars(PushBack)
  /\ \A c \in Conn, e \in End : WF_vars(Thread(c, e)) /\ SF_vars(Hears(c, e))

---------------------------------------------------------------------------
(***************************************************************************)
(* Properties.                                                             *)
(***************************************************************************)

Place == {"none", "created", "greet", "version", "challenge", "info", "answer",
          "ready", "password", "top", "send", "receive", "relay", "return", "ended", "refused",
          "leaked"}

\* The fields of both classes have the values their code expects.
TypeOK ==
  /\ pc \in [Conn -> [End -> Place]]
  /\ kill \in [Conn -> [End -> BOOLEAN]]
  /\ queue \in [Conn -> [End -> Seq(Message)]]
  /\ batch \in [Conn -> [End -> Seq(Message)]]
  /\ buf \in [Conn -> [End -> Seq(Token)]]
  /\ wire \in [Conn -> [End -> Seq(Token)]]
  /\ active \in [Conn -> BOOLEAN]
  /\ listed \subseteq Conn
  /\ main \in Conn \cup {NoConn}
  /\ relay \in [Conn -> Message]
  /\ put \in [Conn -> [End -> Seq(Msg)]]
  /\ got \in [Conn -> [End -> Seq(Msg)]]

\* The list never holds a link that has been deleted, even one whose thread
\* was faster than the main thread that lists it: CLinkServer::Queue
\* dereferences every pointer in it.
ListedExist == \A c \in listed : pc[c]["primary"] # "ended"

\* An announce is never sent back over the connection it came from, so that
\* announces do not go round between trackers.
NoEcho ==
  \A c \in Conn : Range(put[c]["primary"]) \cap Range(put[c]["secondary"]) = {}

\* A tracker without the password has no announce applied and is told none,
\* though it sends its own without waiting for an answer.
OnlyWithPassword ==
  \A c \in Conn, e \in End : got[c][e] # <<>> => Owner[c] \in PassOK

\* Whatever breaks, each direction of a connection is a channel that loses
\* announces at most: none is applied twice, out of order, or made up.
IsChannel == Ch!Spec

\* If messages arrive whole, trackers with the same password never refuse
\* each other: neither end receives a message it does not wait for yet.
HandshakeKept ==
  [][\A c \in Conn, e \in End :
       /\ pc[c][e] \in Waiting
       /\ pc'[c][e] = "return"
       => \/ kill'[c][e]
          \/ pc[c][Peer(e)] = "ended"
          \/ Owner[c] \notin PassOK]_vars

\* The secondary received the version and the info together: it waits for
\* more with the info in its buffer, and the primary for its password.
Stalled(c) == At(c, "secondary", "info") /\ buf[c]["secondary"] # <<>>

Gone(c) == \E e \in End : pc[c][e] \in {"return", "ended", "refused", "leaked"}

\* The handshake of an accepted connection ends, in one way or the other,
\* unless it stalls in the one place where it can.
HandshakeSettles ==
  \A c \in Conn : At(c, "primary", "greet") ~> active[c] \/ Gone(c) \/ Stalled(c)

\* An announce that is queued is handed over at the other end.
Delivered ==
  \A c \in Conn, e \in End, m \in Msg :
    m \in Range(put[c][e]) ~> m \in Range(got[c][e]) \/ Gone(c) \/ Stalled(c)
=============================================================================
