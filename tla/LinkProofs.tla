----------------------------- MODULE LinkProofs -----------------------------
(***************************************************************************)
(* What holds of Link for any number of secondaries, connections and       *)
(* announces, whatever breaks and however messages are cut.                *)
(***************************************************************************)
EXTENDS Link, SequenceTheorems, TLAPS

---------------------------------------------------------------------------
(***************************************************************************)
(* What Send puts on the wire and what Parse takes out of a buffer.        *)
(***************************************************************************)

\* Short sequences.
LEMMA OneOrTwo ==
  ASSUME NEW S, NEW x \in S, NEW y \in S
  PROVE  <<x>> \in Seq(S) /\ <<x, y>> \in Seq(S)
OBVIOUS

TokensAbout(lm) == {t \in Token : t.type = lm.type /\ t.msg = lm.msg}

\* The tokens of a message are about it.
LEMMA TokensOf ==
  ASSUME NEW lm \in Message
  PROVE  /\ Tokens(lm) \in Seq(TokensAbout(lm))
         /\ Len(Tokens(lm)) \in Nat
<1> DEFINE header == [type |-> lm.type, msg |-> lm.msg, payload |-> FALSE]
           payload == [header EXCEPT !.payload = TRUE]
<1>1. header \in TokensAbout(lm) /\ payload \in TokensAbout(lm)
  BY DEF Message, Token, TokensAbout
<1>2. Tokens(lm) = <<header, payload>> \/ Tokens(lm) = <<header>>
  BY DEF Tokens
<1> HIDE DEF header, payload
<1>3. <<header>> \in Seq(TokensAbout(lm)) /\ <<header, payload>> \in Seq(TokensAbout(lm))
  BY <1>1, OneOrTwo
<1>4. Tokens(lm) \in Seq(TokensAbout(lm))
  BY <1>2, <1>3
<1>5. Len(Tokens(lm)) \in Nat
  BY <1>4
<1>6. QED
  BY <1>4, <1>5

\* Sending adds tokens of the message to one wire, if any.
LEMMA SendAdds ==
  ASSUME NEW c \in Conn, NEW e \in End, NEW lm \in Message, Send(c, e, lm),
         wire \in [Conn -> [End -> Seq(Token)]],
         kill \in [Conn -> [End -> BOOLEAN]]
  PROVE  /\ kill' \in [Conn -> [End -> BOOLEAN]]
         /\ \E s \in Seq(TokensAbout(lm)) :
              wire' = [wire EXCEPT ![c][Peer(e)] = @ \o s]
<1>1. Peer(e) \in End
  BY DEF Peer, End
<1>2. Tokens(lm) \in Seq(TokensAbout(lm)) /\ Len(Tokens(lm)) \in Nat
  BY TokensOf
<1>3. <<>> \in Seq(TokensAbout(lm))
  OBVIOUS
<1>4. CASE UNCHANGED <<wire, kill>>
  <2>1. wire[c][Peer(e)] \in Seq(Token)
    BY <1>1
  <2>2. wire[c][Peer(e)] \o <<>> = wire[c][Peer(e)]
    BY <2>1
  <2>3. wire' = [wire EXCEPT ![c][Peer(e)] = @ \o <<>>]
    BY <1>1, <1>4, <2>2
  <2>4. QED
    BY <1>3, <1>4, <2>3
<1>5. CASE wire' = [wire EXCEPT ![c][Peer(e)] = @ \o Tokens(lm)] /\ UNCHANGED kill
  BY <1>2, <1>5
<1>6. ASSUME NEW n \in 0..Len(Tokens(lm)) - 1,
             wire' = [wire EXCEPT ![c][Peer(e)] = @ \o SubSeq(Tokens(lm), 1, n)],
             kill' = [kill EXCEPT ![c][e] = TRUE]
      PROVE  /\ kill' \in [Conn -> [End -> BOOLEAN]]
             /\ \E s \in Seq(TokensAbout(lm)) : wire' = [wire EXCEPT ![c][Peer(e)] = @ \o s]
  <2>1. SubSeq(Tokens(lm), 1, n) \in Seq(TokensAbout(lm))
    BY <1>2, <1>6
  <2>2. QED
    BY <1>6, <2>1
<1>7. QED
  BY <1>4, <1>5, <1>6 DEF Send

\* A sequence over a set is one over a larger set.
LEMMA SeqOfSubset ==
  ASSUME NEW T, NEW S \in SUBSET T, NEW s \in Seq(S)
  PROVE  s \in Seq(T)
OBVIOUS

\* What is left of a sequence.
LEMMA FromSeq ==
  ASSUME NEW S, NEW s \in Seq(S), NEW i \in Nat \ {0}
  PROVE  From(s, i) \in Seq(S)
BY DEF From

\* Whatever Parse returns is about a token of the buffer, and leaves some of
\* the buffer.
LEMMA ParseTakes ==
  ASSUME NEW T \in SUBSET Token, NEW b \in Seq(T), NEW r \in Parse(b)
  PROVE  /\ r.rest \in Seq(T)
         /\ r.kill \in BOOLEAN /\ r.whole \in BOOLEAN
         /\ r.type = "NONE" \/ \E t \in T : r.type = t.type
         /\ r.msg = NoMsg \/ \E t \in T : r.msg = t.msg /\ r.type = t.type
<1>1. ASSUME NEW i \in Nat \ {0} PROVE From(b, i) \in Seq(T)
  BY <1>1, FromSeq
<1>2. ASSUME NEW k \in BOOLEAN, NEW rest \in Seq(T),
             r = [None(rest) EXCEPT !.kill = k]
      PROVE  /\ r.rest \in Seq(T) /\ r.kill \in BOOLEAN /\ r.whole \in BOOLEAN
             /\ r.type = "NONE" /\ r.msg = NoMsg
  BY <1>2 DEF None, Parsed
<1>3. ASSUME NEW rest \in Seq(T), r = None(rest)
      PROVE  /\ r.rest \in Seq(T) /\ r.kill \in BOOLEAN /\ r.whole \in BOOLEAN
             /\ r.type = "NONE" /\ r.msg = NoMsg
  BY <1>3 DEF None, Parsed
<1>4. ASSUME NEW t \in T, NEW m \in {NoMsg, t.msg}, NEW w \in BOOLEAN,
             NEW rest \in Seq(T), r = Parsed(t.type, m, w, rest)
      PROVE  /\ r.rest \in Seq(T) /\ r.kill \in BOOLEAN /\ r.whole \in BOOLEAN
             /\ r.type = t.type /\ (r.msg = NoMsg \/ r.msg = t.msg)
  BY <1>4 DEF Parsed
<1>5. CASE b = <<>>
  <2>1. r = None(b)
    BY <1>5 DEF Parse
  <2>2. QED
    BY <1>3, <2>1
<1>6. ASSUME b # <<>> PROVE b[1] \in T /\ Len(b) \in Nat \ {0}
  BY <1>6
<1>7. CASE b # <<>> /\ b[1].payload
  <2>1. \/ r = [None(b) EXCEPT !.kill = TRUE]
        \/ \E i \in 1..Len(b) + 1 : r = None(From(b, i))
    BY <1>7 DEF Parse
  <2>2. CASE r = [None(b) EXCEPT !.kill = TRUE]
    BY <1>2, <2>2
  <2>3. ASSUME NEW i \in 1..Len(b) + 1, r = None(From(b, i)) PROVE r.rest \in Seq(T) /\ r.kill \in BOOLEAN /\ r.whole \in BOOLEAN /\ r.type = "NONE" /\ r.msg = NoMsg
    <3>1. From(b, i) \in Seq(T)
      BY <1>1, <1>6, <1>7, <2>3
    <3>2. QED
      BY <1>3, <2>3, <3>1
  <2>4. QED
    BY <2>1, <2>2, <2>3
<1>8. CASE b # <<>> /\ ~b[1].payload
  <2>1. b[1] \in T /\ Len(b) \in Nat \ {0}
    BY <1>6, <1>8
  <2>2. \/ r = Parsed(b[1].type, NoMsg, TRUE, From(b, 2))
        \/ r = Parsed(b[1].type, b[1].msg, FALSE, b)
        \/ r = Parsed(b[1].type, b[1].msg, TRUE, From(b, 3))
        \/ \E i \in 3..Len(b) + 1 : r = Parsed(b[1].type, NoMsg, TRUE, From(b, i))
    BY <1>8 DEF Parse
  <2>3. From(b, 2) \in Seq(T) /\ From(b, 3) \in Seq(T)
    BY <1>1
  <2>4. \E m \in {NoMsg, b[1].msg}, w \in BOOLEAN, rest \in Seq(T) :
          r = Parsed(b[1].type, m, w, rest)
    <3>1. CASE \E i \in 3..Len(b) + 1 : r = Parsed(b[1].type, NoMsg, TRUE, From(b, i))
      <4>1. PICK i \in 3..Len(b) + 1 : r = Parsed(b[1].type, NoMsg, TRUE, From(b, i))
        BY <3>1
      <4>2. From(b, i) \in Seq(T)
        BY <1>1, <2>1
      <4>3. QED
        BY <4>1, <4>2
    <3>2. QED
      BY <2>2, <2>3, <3>1
  <2>5. PICK m \in {NoMsg, b[1].msg}, w \in BOOLEAN, rest \in Seq(T) :
          r = Parsed(b[1].type, m, w, rest)
    BY <2>4
  <2>6. QED
    BY <1>4, <2>1, <2>5
<1>9. QED
  BY <1>5, <1>7, <1>8

\* What a recv and the Parse after it do to the tokens of an end.
LEMMA ReceiveTakes ==
  ASSUME NEW T \in SUBSET Token, NEW c \in Conn, NEW e \in End,
         buf[c][e] \in Seq(T), wire[c][e] \in Seq(T),
         NEW n \in 0..Len(wire[c][e]), NEW r \in Results(c, e, n)
  PROVE  /\ From(wire[c][e], n + 1) \in Seq(T)
         /\ r.rest \in Seq(T)
         /\ r.kill \in BOOLEAN /\ r.whole \in BOOLEAN
         /\ r.type = "NONE" \/ \E t \in T : r.type = t.type
         /\ r.msg = NoMsg \/ \E t \in T : r.msg = t.msg /\ r.type = t.type
<1>1. Len(wire[c][e]) \in Nat
  OBVIOUS
<1>2. n \in Nat /\ n + 1 \in Nat \ {0}
  BY <1>1
<1>3. SubSeq(wire[c][e], 1, n) \in Seq(T)
  BY <1>1, <1>2
<1>4. buf[c][e] \o SubSeq(wire[c][e], 1, n) \in Seq(T)
  BY <1>3
<1>5. r \in Parse(buf[c][e] \o SubSeq(wire[c][e], 1, n))
  BY DEF Results
<1>6. From(wire[c][e], n + 1) \in Seq(T)
  BY <1>2, FromSeq
<1>7. QED
  BY <1>4, <1>5, <1>6, ParseTakes

---------------------------------------------------------------------------
(***************************************************************************)
(* Types.                                                                  *)
(***************************************************************************)

\* A value of an end is changed.
LEMMA Changed ==
  ASSUME NEW S, NEW f \in [Conn -> [End -> S]],
         NEW c \in Conn, NEW e \in End, NEW v \in S
  PROVE  [f EXCEPT ![c][e] = v] \in [Conn -> [End -> S]]
OBVIOUS

\* The thread that sends has something to send.
SomethingToSend ==
  \A c \in Conn, e \in End : At(c, e, "send") => batch[c][e] # <<>>

\* The conjuncts of TypeOK about what Send and Receive change.
EndsOK ==
  /\ pc \in [Conn -> [End -> Place]]
  /\ kill \in [Conn -> [End -> BOOLEAN]]
  /\ buf \in [Conn -> [End -> Seq(Token)]]
  /\ wire \in [Conn -> [End -> Seq(Token)]]

\* Send keeps the types of what it changes.
LEMMA SendType ==
  ASSUME NEW c \in Conn, NEW e \in End, NEW lm \in Message, Send(c, e, lm),
         EndsOK
  PROVE  /\ kill' \in [Conn -> [End -> BOOLEAN]]
         /\ wire' \in [Conn -> [End -> Seq(Token)]]
<1>1. Peer(e) \in End
  BY DEF Peer, End
<1>2. wire \in [Conn -> [End -> Seq(Token)]] /\ kill \in [Conn -> [End -> BOOLEAN]]
  BY DEF EndsOK
<1>3. /\ kill' \in [Conn -> [End -> BOOLEAN]]
      /\ \E s \in Seq(TokensAbout(lm)) : wire' = [wire EXCEPT ![c][Peer(e)] = @ \o s]
  BY <1>2, SendAdds
<1>3a. PICK s \in Seq(TokensAbout(lm)) : wire' = [wire EXCEPT ![c][Peer(e)] = @ \o s]
  BY <1>3
<1>4. s \in Seq(Token)
  BY <1>3a, SeqOfSubset DEF TokensAbout
<1>5. wire[c][Peer(e)] \o s \in Seq(Token)
  BY <1>1, <1>4 DEF EndsOK
<1>6. wire' = [wire EXCEPT ![c][Peer(e)] = wire[c][Peer(e)] \o s]
  BY <1>1, <1>3a DEF EndsOK
<1>7. wire' \in [Conn -> [End -> Seq(Token)]]
  BY <1>1, <1>5, <1>6, Changed DEF EndsOK
<1>8. QED
  BY <1>3, <1>7

\* So does Receive.
LEMMA ReceiveType ==
  ASSUME NEW c \in Conn, NEW e \in End, NEW n \in 0..Len(wire[c][e]),
         NEW r \in Results(c, e, n), Receive(c, e, n, r), EndsOK
  PROVE  /\ kill' \in [Conn -> [End -> BOOLEAN]]
         /\ buf' \in [Conn -> [End -> Seq(Token)]]
         /\ wire' \in [Conn -> [End -> Seq(Token)]]
<1>1. buf[c][e] \in Seq(Token) /\ wire[c][e] \in Seq(Token)
  BY DEF EndsOK
<1>2. /\ From(wire[c][e], n + 1) \in Seq(Token)
      /\ r.rest \in Seq(Token) /\ r.kill \in BOOLEAN
  BY <1>1, ReceiveTakes
<1>3. /\ wire' = [wire EXCEPT ![c][e] = From(wire[c][e], n + 1)]
      /\ buf' = [buf EXCEPT ![c][e] = r.rest]
      /\ kill' = [kill EXCEPT ![c][e] = r.kill]
  BY DEF Receive, EndsOK
<1>4. QED
  BY <1>2, <1>3, Changed DEF EndsOK

\* The other conjuncts.
RestOK ==
  /\ queue \in [Conn -> [End -> Seq(Message)]]
  /\ batch \in [Conn -> [End -> Seq(Message)]]
  /\ active \in [Conn -> BOOLEAN]
  /\ listed \subseteq Conn
  /\ main \in Conn \cup {NoConn}
  /\ relay \in [Conn -> Message]
  /\ put \in [Conn -> [End -> Seq(Msg)]]
  /\ got \in [Conn -> [End -> Seq(Msg)]]

TypeInv == EndsOK /\ RestOK /\ SomethingToSend

\* The messages that are made up are messages.
LEMMA Messages ==
  /\ \A t \in Type : Control(t) \in Message
  /\ \A m \in Msg : Content("ANNOUNCE", m) \in Message
BY DEF Control, Content, Message, Type

\* A thread that moves to anywhere but the sending loop.
LEMMA JumpType ==
  ASSUME NEW c \in Conn, NEW e \in End, NEW to \in Place \ {"send"},
         Jump(c, e, to), UNCHANGED batch,
         pc \in [Conn -> [End -> Place]], SomethingToSend
  PROVE  pc' \in [Conn -> [End -> Place]] /\ SomethingToSend'
<1>1. pc' = [pc EXCEPT ![c][e] = to]
  BY DEF Jump
<1>2. pc' \in [Conn -> [End -> Place]]
  BY <1>1
<1>3. ASSUME NEW d \in Conn, NEW f \in End, pc'[d][f] = "send"
      PROVE  pc[d][f] = "send"
  BY <1>1, <1>3
<1>4. SomethingToSend'
  BY <1>3 DEF SomethingToSend, At
<1>5. QED
  BY <1>2, <1>4

\* The handshake.
LEMMA AwaitType ==
  ASSUME NEW c \in Conn, NEW e \in End, NEW at \in Place \ {"send"}, NEW type,
         NEW accepted, NEW next \in Place \ {"send"},
         Await(c, e, at, type, accepted, next), TypeInv
  PROVE  TypeInv'
<1>1. PICK n \in 1..Len(wire[c][e]) : \E r \in Results(c, e, n) :
        /\ Receive(c, e, n, r)
        /\ Jump(c, e, IF r.type = "NONE" THEN at
                      ELSE IF r.type = type /\ r.whole /\ accepted THEN next
                      ELSE "return")
  BY DEF Await
<1>2. PICK r \in Results(c, e, n) :
        /\ Receive(c, e, n, r)
        /\ Jump(c, e, IF r.type = "NONE" THEN at
                      ELSE IF r.type = type /\ r.whole /\ accepted THEN next
                      ELSE "return")
  BY <1>1
<1>3. Len(wire[c][e]) \in Nat
  BY DEF TypeInv, EndsOK
<1>4. n \in 0..Len(wire[c][e])
  BY <1>1, <1>3
<1>5. /\ kill' \in [Conn -> [End -> BOOLEAN]]
      /\ buf' \in [Conn -> [End -> Seq(Token)]]
      /\ wire' \in [Conn -> [End -> Seq(Token)]]
  BY <1>2, <1>4, ReceiveType DEF TypeInv
<1>6. "return" \in Place \ {"send"}
  BY DEF Place
<1>7. pc' \in [Conn -> [End -> Place]] /\ SomethingToSend'
  BY <1>2, <1>6, JumpType DEF TypeInv, EndsOK, Await
<1>8. QED
  BY <1>5, <1>7 DEF TypeInv, EndsOK, RestOK, Await

\* The types hold after a message of the handshake,
LEMMA SayType ==
  ASSUME NEW c \in Conn, NEW e \in End, NEW at, NEW type \in Type,
         NEW next \in Place \ {"send"}, Say(c, e, at, type, next), TypeInv
  PROVE  TypeInv'
<1>1. Control(type) \in Message
  BY Messages
<1>2. kill' \in [Conn -> [End -> BOOLEAN]] /\ wire' \in [Conn -> [End -> Seq(Token)]]
  BY <1>1, SendType DEF Say, TypeInv
<1>3. pc' \in [Conn -> [End -> Place]] /\ SomethingToSend'
  BY JumpType DEF Say, TypeInv, EndsOK
<1>4. QED
  BY <1>2, <1>3 DEF TypeInv, EndsOK, RestOK, Say

\* a recv that failed,
LEMMA ReceiveErrorType ==
  ASSUME NEW c \in Conn, NEW e \in End, ReceiveError(c, e), TypeInv
  PROVE  TypeInv'
<1>1. {"top", "return"} \subseteq Place \ {"send"}
  BY DEF Place
<1>2. pc' \in [Conn -> [End -> Place]] /\ SomethingToSend'
  BY <1>1, JumpType DEF ReceiveError, TypeInv, EndsOK
<1>3. kill' \in [Conn -> [End -> BOOLEAN]]
  BY DEF ReceiveError, TypeInv, EndsOK
<1>4. QED
  BY <1>2, <1>3 DEF TypeInv, EndsOK, RestOK, ReceiveError

\* The loop over what was queued.
LEMMA FlushType ==
  ASSUME NEW c \in Conn, NEW e \in End, Flush(c, e), TypeInv
  PROVE  TypeInv'
<1>1. {"return", "receive", "send"} \subseteq Place
  BY DEF Place
<1>2. CASE kill[c][e]
  <2>1. Jump(c, e, "return") /\ UNCHANGED <<queue, batch>>
    BY <1>2 DEF Flush
  <2>2. pc' \in [Conn -> [End -> Place]] /\ SomethingToSend'
    BY <1>1, <2>1, JumpType DEF TypeInv, EndsOK
  <2>3. QED
    BY <2>1, <2>2 DEF TypeInv, EndsOK, RestOK, Flush
<1>3. CASE ~kill[c][e]
  <2>1. Take(c, e) /\ Jump(c, e, IF batch'[c][e] = <<>> THEN "receive" ELSE "send")
    BY <1>3 DEF Flush
  <2>2. queue[c][e] \in Seq(Message) /\ <<>> \in Seq(Message)
    BY DEF TypeInv, RestOK
  <2>3. /\ queue' \in [Conn -> [End -> Seq(Message)]]
        /\ batch' \in [Conn -> [End -> Seq(Message)]]
    <3>1. CASE UNCHANGED <<queue, batch>>
      BY <3>1 DEF TypeInv, RestOK
    <3>2. CASE /\ batch' = [batch EXCEPT ![c][e] = queue[c][e]]
               /\ queue' = [queue EXCEPT ![c][e] = <<>>]
      BY <2>2, <3>2, Changed DEF TypeInv, RestOK
    <3>3. QED
      BY <2>1, <3>1, <3>2 DEF Take
  <2>4. \A d \in Conn, f \in End : <<d, f>> # <<c, e>> => batch'[d][f] = batch[d][f]
    <3>1. batch' = batch \/ batch' = [batch EXCEPT ![c][e] = queue[c][e]]
      BY <2>1 DEF Take
    <3>2. batch \in [Conn -> [End -> Seq(Message)]]
      BY DEF TypeInv, RestOK
    <3>3. QED
      BY <3>1, <3>2
  <2>5. pc' = [pc EXCEPT ![c][e] = IF batch'[c][e] = <<>> THEN "receive" ELSE "send"]
    BY <2>1 DEF Jump
  <2>6. pc' \in [Conn -> [End -> Place]]
    BY <1>1, <2>5 DEF TypeInv, EndsOK
  <2>7. ASSUME NEW d \in Conn, NEW f \in End, pc'[d][f] = "send"
        PROVE  batch'[d][f] # <<>>
    <3>1. CASE <<d, f>> = <<c, e>>
      BY <2>5, <2>7, <3>1 DEF TypeInv, EndsOK
    <3>2. CASE <<d, f>> # <<c, e>>
      <4>1. pc[d][f] = "send"
        BY <2>5, <2>7, <3>2 DEF TypeInv, EndsOK
      <4>2. QED
        BY <2>4, <3>2, <4>1 DEF TypeInv, SomethingToSend, At
    <3>3. QED
      BY <3>1, <3>2
  <2>8. SomethingToSend'
    BY <2>7 DEF SomethingToSend, At
  <2>9. QED
    BY <2>3, <2>6, <2>8 DEF TypeInv, EndsOK, RestOK, Flush
<1>4. QED
  BY <1>2, <1>3

\* The loop over what was taken takes messages from the front.
LEMMA HeadOfBatch ==
  ASSUME NEW c \in Conn, NEW e \in End, At(c, e, "send"), TypeInv
  PROVE  /\ Head(batch[c][e]) \in Message
         /\ Tail(batch[c][e]) \in Seq(Message)
         /\ Len(batch[c][e]) # 1 => Tail(batch[c][e]) # <<>>
<1>1. batch[c][e] \in Seq(Message) /\ batch[c][e] # <<>>
  BY DEF TypeInv, RestOK, SomethingToSend
<1>2. /\ Head(batch[c][e]) \in Message
      /\ Tail(batch[c][e]) \in Seq(Message)
      /\ Len(Tail(batch[c][e])) = Len(batch[c][e]) - 1
  BY <1>1, HeadTailProperties
<1>3. Len(<<>>) = 0
  BY EmptySeq
<1>4. Len(batch[c][e]) \in Nat
  BY <1>1
<1>5. ASSUME Tail(batch[c][e]) = <<>> PROVE Len(batch[c][e]) = 1
  <2>1. Len(Tail(batch[c][e])) = 0
    BY <1>3, <1>5, Zenon
  <2>2. QED
    BY <1>2, <1>4, <2>1
<1>6. QED
  BY <1>2, <1>5

\* Sending it keeps the types.
LEMMA SendNextType ==
  ASSUME NEW c \in Conn, NEW e \in End, SendNext(c, e), TypeInv
  PROVE  TypeInv'
<1>1. {"receive", "send"} \subseteq Place
  BY DEF Place
<1>1a. At(c, e, "send")
  BY DEF SendNext
<1>2. /\ Head(batch[c][e]) \in Message
      /\ Tail(batch[c][e]) \in Seq(Message)
      /\ Len(batch[c][e]) # 1 => Tail(batch[c][e]) # <<>>
  BY <1>1a, HeadOfBatch
<1>3. kill' \in [Conn -> [End -> BOOLEAN]] /\ wire' \in [Conn -> [End -> Seq(Token)]]
  <2>1. Send(c, e, Head(batch[c][e]))
    BY DEF SendNext
  <2>2. EndsOK
    BY DEF TypeInv
  <2>3. QED
    BY <1>2, <2>1, <2>2, SendType
<1>4. batch' = [batch EXCEPT ![c][e] = Tail(batch[c][e])]
  BY DEF SendNext, TypeInv, RestOK
<1>5. batch' \in [Conn -> [End -> Seq(Message)]]
  BY <1>2, <1>4, Changed DEF TypeInv, RestOK
<1>6. pc' = [pc EXCEPT ![c][e] = IF Len(batch[c][e]) = 1 THEN "receive" ELSE "send"]
  BY DEF SendNext, Jump
<1>7. pc' \in [Conn -> [End -> Place]]
  BY <1>1, <1>6 DEF TypeInv, EndsOK
<1>8. ASSUME NEW d \in Conn, NEW f \in End, pc'[d][f] = "send"
      PROVE  batch'[d][f] # <<>>
  <2>1. CASE <<d, f>> = <<c, e>>
    BY <1>2, <1>4, <1>6, <1>8, <2>1 DEF TypeInv, EndsOK, RestOK
  <2>2. CASE <<d, f>> # <<c, e>>
    <3>1. pc[d][f] = "send"
      BY <1>6, <1>8, <2>2 DEF TypeInv, EndsOK
    <3>2. batch'[d][f] = batch[d][f]
      BY <1>4, <2>2 DEF TypeInv, RestOK
    <3>3. QED
      BY <3>1, <3>2 DEF TypeInv, SomethingToSend, At
  <2>3. QED
    BY <2>1, <2>2
<1>9. SomethingToSend'
  BY <1>8 DEF SomethingToSend, At
<1>10. QED
  BY <1>3, <1>5, <1>7, <1>9 DEF TypeInv, EndsOK, RestOK, SendNext

\* What is handed over could be decoded.
LEMMA HandOverType ==
  ASSUME NEW c \in Conn, NEW e \in End, NEW n \in 0..Len(wire[c][e]),
         NEW r \in Results(c, e, n), HandOver(c, e, r), TypeInv
  PROVE  /\ got' \in [Conn -> [End -> Seq(Msg)]]
         /\ r.type = "ANNOUNCE" =>
              [type |-> "ANNOUNCE", msg |-> r.msg, whole |-> r.whole] \in Message
<1>1. buf[c][e] \in Seq(Token) /\ wire[c][e] \in Seq(Token)
  BY DEF TypeInv, EndsOK
<1>2. /\ r.whole \in BOOLEAN
      /\ r.msg = NoMsg \/ \E t \in Token : r.msg = t.msg
  BY <1>1, ReceiveTakes
<1>3. r.msg \in Msg \cup {NoMsg}
  BY <1>2 DEF Token
<1>4. CASE r.type = "ANNOUNCE" /\ r.whole /\ r.msg # NoMsg
  <2>1. got' = [got EXCEPT ![c][e] = Append(got[c][e], r.msg)]
    BY <1>4 DEF HandOver, TypeInv, RestOK
  <2>2. Append(got[c][e], r.msg) \in Seq(Msg)
    BY <1>3, <1>4 DEF TypeInv, RestOK
  <2>3. got' \in [Conn -> [End -> Seq(Msg)]]
    BY <2>1, <2>2, Changed DEF TypeInv, RestOK
  <2>4. QED
    BY <1>2, <1>3, <2>3 DEF Message, Type
<1>5. CASE ~(r.type = "ANNOUNCE" /\ r.whole /\ r.msg # NoMsg)
  <2>1. got' = got
    BY <1>5 DEF HandOver
  <2>2. QED
    BY <1>2, <1>3, <2>1 DEF TypeInv, RestOK, Message, Type
<1>6. QED
  BY <1>4, <1>5

\* Receiving keeps the types at the secondary
LEMMA ReceiveSecondaryType ==
  ASSUME NEW c \in Conn, ReceiveSecondary(c), TypeInv
  PROVE  TypeInv'
<1>1. "secondary" \in End /\ {"return", "top"} \subseteq Place \ {"send"}
  BY DEF End, Place
<1>2a. PICK n \in 0..Len(wire[c]["secondary"]) : \E r \in Results(c, "secondary", n) :
        /\ Receive(c, "secondary", n, r)
        /\ HandOver(c, "secondary", r)
        /\ Jump(c, "secondary", IF r.type = "CLOSE" THEN "return" ELSE "top")
  BY DEF ReceiveSecondary
<1>2. PICK r \in Results(c, "secondary", n) :
        /\ Receive(c, "secondary", n, r)
        /\ HandOver(c, "secondary", r)
        /\ Jump(c, "secondary", IF r.type = "CLOSE" THEN "return" ELSE "top")
  BY <1>2a
<1>3. /\ kill' \in [Conn -> [End -> BOOLEAN]]
      /\ buf' \in [Conn -> [End -> Seq(Token)]]
      /\ wire' \in [Conn -> [End -> Seq(Token)]]
  BY <1>1, <1>2, ReceiveType DEF TypeInv
<1>4. got' \in [Conn -> [End -> Seq(Msg)]]
  BY <1>1, <1>2, HandOverType
<1>5. pc' \in [Conn -> [End -> Place]] /\ SomethingToSend'
  BY <1>1, <1>2, JumpType DEF TypeInv, EndsOK, ReceiveSecondary
<1>6. QED
  BY <1>3, <1>4, <1>5 DEF TypeInv, EndsOK, RestOK, ReceiveSecondary

\* Where the primary's thread goes when it has received something.
LEMMA PrimaryMoves ==
  ASSUME NEW c \in Conn, ReceivePrimary(c)
  PROVE  \E to \in {"return", "top", "relay"} : Jump(c, "primary", to)
<1>1. PICK n \in 0..Len(wire[c]["primary"]) : \E r \in Results(c, "primary", n) :
        Jump(c, "primary", CASE r.type = "ANNOUNCE" -> "relay"
                             [] r.type = "CLOSE"    -> "return"
                             [] OTHER               -> "top")
  BY DEF ReceivePrimary
<1>2. PICK r \in Results(c, "primary", n) :
        Jump(c, "primary", CASE r.type = "ANNOUNCE" -> "relay"
                             [] r.type = "CLOSE"    -> "return"
                             [] OTHER               -> "top")
  BY <1>1
<1>3. CASE r.type = "ANNOUNCE"
  BY <1>2, <1>3
<1>4. CASE r.type = "CLOSE"
  BY <1>2, <1>4
<1>5. CASE r.type \notin {"ANNOUNCE", "CLOSE"}
  BY <1>2, <1>5
<1>6. QED
  BY <1>3, <1>4, <1>5

\* and at the primary,
LEMMA ReceivePrimaryType ==
  ASSUME NEW c \in Conn, ReceivePrimary(c), TypeInv
  PROVE  TypeInv'
<1>1. "primary" \in End /\ {"return", "top", "relay"} \subseteq Place \ {"send"}
  BY DEF End, Place
<1>2a. PICK n \in 0..Len(wire[c]["primary"]) : \E r \in Results(c, "primary", n) :
        /\ Receive(c, "primary", n, r)
        /\ HandOver(c, "primary", r)
        /\ active' = [active EXCEPT ![c] = @ \/ r.type = "READY"]
        /\ relay' = IF r.type = "ANNOUNCE"
                    THEN [relay EXCEPT ![c] = [type  |-> "ANNOUNCE",
                                               msg   |-> r.msg,
                                               whole |-> r.whole]]
                    ELSE relay
        /\ Jump(c, "primary", CASE r.type = "ANNOUNCE" -> "relay"
                                [] r.type = "CLOSE"    -> "return"
                                [] OTHER               -> "top")
  BY DEF ReceivePrimary
<1>2. PICK r \in Results(c, "primary", n) :
        /\ Receive(c, "primary", n, r)
        /\ HandOver(c, "primary", r)
        /\ active' = [active EXCEPT ![c] = @ \/ r.type = "READY"]
        /\ relay' = IF r.type = "ANNOUNCE"
                    THEN [relay EXCEPT ![c] = [type  |-> "ANNOUNCE",
                                               msg   |-> r.msg,
                                               whole |-> r.whole]]
                    ELSE relay
        /\ Jump(c, "primary", CASE r.type = "ANNOUNCE" -> "relay"
                                [] r.type = "CLOSE"    -> "return"
                                [] OTHER               -> "top")
  BY <1>2a
<1>3. /\ kill' \in [Conn -> [End -> BOOLEAN]]
      /\ buf' \in [Conn -> [End -> Seq(Token)]]
      /\ wire' \in [Conn -> [End -> Seq(Token)]]
  BY <1>1, <1>2, ReceiveType DEF TypeInv
<1>4. /\ got' \in [Conn -> [End -> Seq(Msg)]]
      /\ r.type = "ANNOUNCE" =>
           [type |-> "ANNOUNCE", msg |-> r.msg, whole |-> r.whole] \in Message
  BY <1>1, <1>2, HandOverType
<1>5. relay' \in [Conn -> Message]
  BY <1>2, <1>4 DEF TypeInv, RestOK
<1>6. active' \in [Conn -> BOOLEAN]
  BY <1>2 DEF TypeInv, RestOK
<1>7. PICK to \in {"return", "top", "relay"} : Jump(c, "primary", to)
  BY PrimaryMoves
<1>8. pc' \in [Conn -> [End -> Place]] /\ SomethingToSend'
  BY <1>1, <1>7, JumpType DEF TypeInv, EndsOK, ReceivePrimary
<1>9. QED
  BY <1>3, <1>4, <1>5, <1>6, <1>8 DEF TypeInv, EndsOK, RestOK, ReceivePrimary

\* Creating and connecting a CLink.
LEMMA CreateType ==
  ASSUME NEW c \in Conn, Create(c) \/ Connect(c), TypeInv
  PROVE  TypeInv'
<1>1. "secondary" \in End /\ {"created", "greet", "refused"} \subseteq Place \ {"send"}
  BY DEF End, Place
<1>2. PICK to \in {"created", "greet", "refused"} : Jump(c, "secondary", to)
  BY DEF Create, Connect
<1>3. UNCHANGED batch
  BY DEF Create, Connect
<1>4. pc' \in [Conn -> [End -> Place]] /\ SomethingToSend'
  BY <1>1, <1>2, <1>3, JumpType DEF TypeInv, EndsOK
<1>5. queue' \in [Conn -> [End -> Seq(Message)]]
  <2>1. <<>> \in Seq(Message)
    OBVIOUS
  <2>2. UNCHANGED queue \/ queue' = [queue EXCEPT ![c]["secondary"] = <<>>]
    BY DEF Create, Connect
  <2>3. queue \in [Conn -> [End -> Seq(Message)]]
    BY DEF TypeInv, RestOK
  <2>4. [queue EXCEPT ![c]["secondary"] = <<>>] \in [Conn -> [End -> Seq(Message)]]
    BY <1>1, <2>1, <2>3, Changed
  <2>5. QED
    BY <2>2, <2>3, <2>4
<1>6. QED
  BY <1>4, <1>5 DEF TypeInv, EndsOK, RestOK, Create, Connect

\* The destructors.
LEMMA EndSecondaryType ==
  ASSUME NEW c \in Conn, EndSecondary(c), TypeInv
  PROVE  TypeInv'
<1>1. "secondary" \in End /\ "ended" \in Place \ {"send"} /\ "CLOSE" \in Type
  BY DEF End, Place, Type
<1>2. kill' \in [Conn -> [End -> BOOLEAN]] /\ wire' \in [Conn -> [End -> Seq(Token)]]
  BY <1>1, Messages, SendType DEF EndSecondary, TypeInv
<1>3. pc' \in [Conn -> [End -> Place]] /\ SomethingToSend'
  BY <1>1, JumpType DEF EndSecondary, TypeInv, EndsOK
<1>4. queue' \in [Conn -> [End -> Seq(Message)]]
  <2>1. <<>> \in Seq(Message)
    OBVIOUS
  <2>2. queue' = [queue EXCEPT ![c]["secondary"] = <<>>]
    BY DEF EndSecondary
  <2>3. QED
    BY <1>1, <2>1, <2>2, Changed DEF TypeInv, RestOK
<1>5. QED
  BY <1>2, <1>3, <1>4 DEF TypeInv, EndsOK, RestOK, EndSecondary

\* as does the end of a link there.
LEMMA EndPrimaryType ==
  ASSUME NEW c \in Conn, EndPrimary(c), TypeInv
  PROVE  TypeInv'
<1>1. "primary" \in End /\ {"ended", "leaked"} \subseteq Place \ {"send"} /\ "CLOSE" \in Type
  BY DEF End, Place, Type
<1>2. PICK to \in {"ended", "leaked"} : Jump(c, "primary", to)
  BY DEF EndPrimary
<1>3. pc' \in [Conn -> [End -> Place]] /\ SomethingToSend'
  BY <1>1, <1>2, JumpType DEF EndPrimary, TypeInv, EndsOK
<1>4. CASE c \in listed
  <2>1. Send(c, "primary", Control("CLOSE"))
    BY <1>4 DEF EndPrimary
  <2>2. kill' \in [Conn -> [End -> BOOLEAN]] /\ wire' \in [Conn -> [End -> Seq(Token)]]
    BY <1>1, <2>1, Messages, SendType DEF TypeInv
  <2>3. <<>> \in Seq(Message)
    OBVIOUS
  <2>4. queue' = [queue EXCEPT ![c]["primary"] = <<>>] /\ listed' = listed \ {c}
    BY <1>4 DEF EndPrimary
  <2>5. queue' \in [Conn -> [End -> Seq(Message)]]
    BY <1>1, <2>3, <2>4, Changed DEF TypeInv, RestOK
  <2>6. QED
    BY <1>3, <2>2, <2>4, <2>5 DEF TypeInv, EndsOK, RestOK, EndPrimary
<1>5. CASE c \notin listed
  BY <1>3, <1>5 DEF TypeInv, EndsOK, RestOK, EndPrimary
<1>6. QED
  BY <1>4, <1>5

\* Queueing on links.
LEMMA QueueOnType ==
  ASSUME NEW links, NEW lm \in Message, QueueOn(links, lm), RestOK
  PROVE  /\ queue' \in [Conn -> [End -> Seq(Message)]]
         /\ put' \in [Conn -> [End -> Seq(Msg)]]
<1>1. "primary" \in End /\ "secondary" \in End
  BY DEF End
<1>2. ASSUME NEW c \in Conn
      PROVE  [queue[c] EXCEPT !["primary"] = Append(@, lm)] \in [End -> Seq(Message)]
  <2>1. queue[c] \in [End -> Seq(Message)] /\ queue[c]["primary"] \in Seq(Message)
    BY <1>1 DEF RestOK
  <2>2. Append(queue[c]["primary"], lm) \in Seq(Message)
    BY <2>1
  <2>3. QED
    BY <2>1, <2>2
<1>3. ASSUME NEW c \in Conn, lm.whole /\ lm.msg # NoMsg
      PROVE  [put[c] EXCEPT !["secondary"] = Append(@, lm.msg)] \in [End -> Seq(Msg)]
  <2>1. put[c] \in [End -> Seq(Msg)] /\ put[c]["secondary"] \in Seq(Msg)
    BY <1>1 DEF RestOK
  <2>2. lm.msg \in Msg
    BY <1>3 DEF Message
  <2>3. Append(put[c]["secondary"], lm.msg) \in Seq(Msg)
    BY <2>1, <2>2
  <2>4. QED
    BY <2>1, <2>3
<1>4. queue' \in [Conn -> [End -> Seq(Message)]]
  BY <1>2 DEF QueueOn, RestOK
<1>5. put' \in [Conn -> [End -> Seq(Msg)]]
  BY <1>3 DEF QueueOn, RestOK
<1>6. QED
  BY <1>4, <1>5

\* Relaying keeps the types.
LEMMA RelayType ==
  ASSUME NEW c \in Conn, Relay(c), TypeInv
  PROVE  TypeInv'
<1>1. "primary" \in End /\ "top" \in Place \ {"send"}
  BY DEF End, Place
<1>2. relay[c] \in Message
  BY DEF TypeInv, RestOK
<1>3. /\ queue' \in [Conn -> [End -> Seq(Message)]]
      /\ put' \in [Conn -> [End -> Seq(Msg)]]
  BY <1>2, QueueOnType DEF Relay, TypeInv
<1>4. pc' \in [Conn -> [End -> Place]] /\ SomethingToSend'
  BY <1>1, JumpType DEF Relay, TypeInv, EndsOK
<1>5. QED
  BY <1>3, <1>4 DEF TypeInv, EndsOK, RestOK, Relay

\* The main threads.
LEMMA AcceptType ==
  ASSUME NEW c \in Conn, Accept(c), TypeInv
  PROVE  TypeInv'
<1>1. "primary" \in End /\ {"greet", "leaked"} \subseteq Place \ {"send"}
  BY DEF End, Place
<1>2. PICK to \in {"greet", "leaked"} : Jump(c, "primary", to)
  BY DEF Accept
<1>3. pc' \in [Conn -> [End -> Place]] /\ SomethingToSend'
  BY <1>1, <1>2, JumpType DEF Accept, TypeInv, EndsOK
<1>4. QED
  BY <1>3 DEF TypeInv, EndsOK, RestOK, Accept

\* So do the main threads.
LEMMA MainType ==
  ASSUME TypeInv,
         \/ PushBack
         \/ \E m \in Msg : AnnouncePrimary(m)
         \/ \E c \in Conn, m \in Msg : AnnounceSecondary(c, m)
  PROVE  TypeInv'
<1>1. CASE PushBack
  <2>1. listed' \subseteq Conn /\ main' \in Conn \cup {NoConn}
    BY <1>1 DEF PushBack, TypeInv, RestOK
  <2>2. UNCHANGED <<pc, kill, buf, wire, queue, batch, active, relay, put, got>>
    BY <1>1 DEF PushBack, ends
  <2>3. SomethingToSend'
    BY <2>2 DEF TypeInv, SomethingToSend, At
  <2>4. QED
    BY <2>1, <2>2, <2>3 DEF TypeInv, EndsOK, RestOK
<1>2. ASSUME NEW m \in Msg, AnnouncePrimary(m) PROVE TypeInv'
  <2>1. Content("ANNOUNCE", m) \in Message
    BY Messages
  <2>2. /\ queue' \in [Conn -> [End -> Seq(Message)]]
        /\ put' \in [Conn -> [End -> Seq(Msg)]]
    BY <1>2, <2>1, QueueOnType DEF AnnouncePrimary, TypeInv
  <2>3. UNCHANGED <<pc, kill, buf, wire, batch, active, listed, main, relay, got>>
    BY <1>2 DEF AnnouncePrimary, ends
  <2>4. SomethingToSend'
    BY <2>3 DEF TypeInv, SomethingToSend, At
  <2>5. QED
    BY <2>2, <2>3, <2>4 DEF TypeInv, EndsOK, RestOK
<1>3. ASSUME NEW c \in Conn, NEW m \in Msg, AnnounceSecondary(c, m) PROVE TypeInv'
  <2>1. Content("ANNOUNCE", m) \in Message
    BY Messages
  <2>2. "primary" \in End /\ "secondary" \in End
    BY DEF End
  <2>3. /\ Append(queue[c]["secondary"], Content("ANNOUNCE", m)) \in Seq(Message)
        /\ Append(put[c]["primary"], m) \in Seq(Msg)
    <3>1. queue[c]["secondary"] \in Seq(Message) /\ put[c]["primary"] \in Seq(Msg)
      BY <2>2 DEF TypeInv, RestOK
    <3>2. QED
      BY <2>1, <3>1
  <2>4. /\ queue' = [queue EXCEPT ![c]["secondary"] =
                      Append(queue[c]["secondary"], Content("ANNOUNCE", m))]
        /\ put' = [put EXCEPT ![c]["primary"] = Append(put[c]["primary"], m)]
    BY <1>3 DEF AnnounceSecondary
  <2>5. /\ queue' \in [Conn -> [End -> Seq(Message)]]
        /\ put' \in [Conn -> [End -> Seq(Msg)]]
    BY <2>2, <2>3, <2>4, Changed DEF TypeInv, RestOK
  <2>6. UNCHANGED <<pc, kill, buf, wire, batch, active, listed, main, relay, got>>
    BY <1>3 DEF AnnounceSecondary, ends
  <2>7. SomethingToSend'
    BY <2>6 DEF TypeInv, SomethingToSend, At
  <2>8. QED
    BY <2>5, <2>6, <2>7 DEF TypeInv, EndsOK, RestOK
<1>4. QED
  BY <1>1, <1>2, <1>3

\* The types hold at first,
LEMMA InitType == Init => TypeInv
<1> SUFFICES ASSUME Init PROVE TypeInv
  OBVIOUS
<1>1. "CLOSE" \in Type /\ "none" \in Place /\ "none" # "send"
  BY DEF Type, Place
<1>2. <<>> \in Seq(Token) /\ <<>> \in Seq(Message) /\ <<>> \in Seq(Msg)
  OBVIOUS
<1>3. EndsOK
  BY <1>1, <1>2 DEF Init, EndsOK
<1>4. relay \in [Conn -> Message]
  BY <1>1, Messages DEF Init
<1>5. RestOK
  BY <1>2, <1>4 DEF Init, RestOK
<1>6. SomethingToSend
  BY DEF Init, SomethingToSend, At
<1>7. QED
  BY <1>3, <1>5, <1>6 DEF TypeInv

\* and every step of a secondary's thread,
LEMMA SecondaryType ==
  ASSUME NEW c \in Conn, SecondaryThread(c), TypeInv
  PROVE  TypeInv'
<1>1. /\ "secondary" \in End
      /\ {"version", "info", "answer", "ready", "top"} \subseteq Place \ {"send"}
      /\ {"VERSION", "PASSWORD", "READY"} \subseteq Type
  BY DEF End, Place, Type
<1>2. CASE Create(c) \/ Connect(c)
  BY <1>2, CreateType
<1>3. CASE \/ Say(c, "secondary", "greet", "VERSION", "version")
           \/ Say(c, "secondary", "answer", "PASSWORD", "ready")
           \/ Say(c, "secondary", "ready", "READY", "top")
  BY <1>1, <1>3, SayType
<1>4. CASE \/ Await(c, "secondary", "version", "VERSION", TRUE, "info")
           \/ Await(c, "secondary", "info", "INFO", TRUE, "answer")
  BY <1>1, <1>4, AwaitType
<1>5. CASE Flush(c, "secondary") \/ SendNext(c, "secondary")
  BY <1>1, <1>5, FlushType, SendNextType
<1>6. CASE ReceiveSecondary(c)
  BY <1>6, ReceiveSecondaryType
<1>7. CASE ReceiveError(c, "secondary")
  BY <1>1, <1>7, ReceiveErrorType
<1>8. CASE EndSecondary(c)
  BY <1>8, EndSecondaryType
<1>9. QED
  BY <1>2, <1>3, <1>4, <1>5, <1>6, <1>7, <1>8 DEF SecondaryThread

\* of a primary's
LEMMA PrimaryType ==
  ASSUME NEW c \in Conn, PrimaryThread(c), TypeInv
  PROVE  TypeInv'
<1>1. /\ "primary" \in End
      /\ {"version", "challenge", "password", "top"} \subseteq Place \ {"send"}
      /\ {"VERSION", "INFO"} \subseteq Type
  BY DEF End, Place, Type
<1>2. CASE \/ Say(c, "primary", "greet", "VERSION", "version")
           \/ Say(c, "primary", "challenge", "INFO", "password")
  BY <1>1, <1>2, SayType
<1>3. CASE \/ Await(c, "primary", "version", "VERSION", TRUE, "challenge")
           \/ Await(c, "primary", "password", "PASSWORD", PasswordAccepted(c), "top")
  BY <1>1, <1>3, AwaitType
<1>4. CASE Flush(c, "primary") \/ SendNext(c, "primary")
  BY <1>1, <1>4, FlushType, SendNextType
<1>5. CASE ReceivePrimary(c) \/ Relay(c)
  BY <1>5, ReceivePrimaryType, RelayType
<1>6. CASE ReceiveError(c, "primary")
  BY <1>1, <1>6, ReceiveErrorType
<1>7. CASE EndPrimary(c)
  BY <1>7, EndPrimaryType
<1>8. QED
  BY <1>2, <1>3, <1>4, <1>5, <1>6, <1>7 DEF PrimaryThread

\* and of any other keeps them.
LEMMA NextType == TypeInv /\ [Next]_vars => TypeInv'
<1> SUFFICES ASSUME TypeInv, [Next]_vars PROVE TypeInv'
  OBVIOUS
<1>1. CASE UNCHANGED vars
  BY <1>1 DEF vars, ends, TypeInv, EndsOK, RestOK, SomethingToSend, At
<1>2. ASSUME NEW c \in Conn, SecondaryThread(c) PROVE TypeInv'
  BY <1>2, SecondaryType
<1>3. ASSUME NEW c \in Conn, PrimaryThread(c) PROVE TypeInv'
  BY <1>3, PrimaryType
<1>4. ASSUME NEW c \in Conn, Accept(c) PROVE TypeInv'
  BY <1>4, AcceptType
<1>5. CASE \/ PushBack
           \/ \E m \in Msg : AnnouncePrimary(m)
           \/ \E c \in Conn, m \in Msg : AnnounceSecondary(c, m)
  BY <1>5, MainType
<1>6. QED
  BY <1>1, <1>2, <1>3, <1>4, <1>5 DEF Next

\* The invariant of the types holds in every state.
LEMMA TypeInvAlways == Spec => []TypeInv
<1>1. QED
  BY InitType, NextType, PTL DEF Spec

\* The fields of both classes keep the values their code expects (link.cpp):
\* only announces that could be decoded reach the tracker, and the loop that
\* sends always has a message to send.
THEOREM TypeCorrect == Spec => []TypeOK
<1>1. TypeInv => TypeOK
  BY DEF TypeInv, EndsOK, RestOK, TypeOK
<1>2. QED
  BY <1>1, TypeInvAlways, PTL

---------------------------------------------------------------------------
(***************************************************************************)
(* The list of links.                                                      *)
(***************************************************************************)

\* The object of a link is alive.
Alive(c) == pc[c]["primary"] \notin {"none", "ended"}

\* ListedExist is not inductive: PushBack lists a link whose thread may be
\* anywhere.  But that thread cannot have deleted it, as it was not in the
\* list when the thread ended.
ListInv ==
  /\ \A c \in listed : Alive(c)
  /\ main # NoConn => main \notin listed /\ Alive(main)

\* A thread goes neither where a link does not exist yet nor where it does
\* not exist any more, unless it deletes the link.
LEMMA ThreadKeeps ==
  ASSUME NEW c \in Conn, SecondaryThread(c) \/ PrimaryThread(c), TypeInv,
         NEW d \in Conn, Alive(d), ~(d = c /\ c \in listed /\ EndPrimary(c))
  PROVE  Alive(d)'
<1>1. pc \in [Conn -> [End -> Place]] /\ "primary" \in End /\ "secondary" \in End
  BY DEF TypeInv, EndsOK, End
<1>2. ASSUME NEW to, Jump(c, "secondary", to) PROVE Alive(d)'
  <2>1. pc'[d]["primary"] = pc[d]["primary"]
    BY <1>1, <1>2 DEF Jump
  <2>2. QED
    BY <2>1 DEF Alive
<1>3. ASSUME NEW to, Jump(c, "primary", to), to \notin {"none", "ended"}
      PROVE  Alive(d)'
  <2>1. pc'[d]["primary"] \in {pc[d]["primary"], to}
    BY <1>1, <1>3 DEF Jump
  <2>2. QED
    BY <1>3, <2>1 DEF Alive
<1>4. CASE SecondaryThread(c)
  <2>1. \E to : Jump(c, "secondary", to)
    BY <1>4 DEF SecondaryThread, Create, Connect, Say, Await, Flush, SendNext,
                ReceiveSecondary, ReceiveError, EndSecondary
  <2>2. QED
    BY <1>2, <2>1
<1>5. CASE PrimaryThread(c)
  <2>1. CASE \/ Say(c, "primary", "greet", "VERSION", "version")
             \/ Say(c, "primary", "challenge", "INFO", "password")
    BY <1>3, <2>1 DEF Say
  <2>2. CASE \/ Await(c, "primary", "version", "VERSION", TRUE, "challenge")
             \/ Await(c, "primary", "password", "PASSWORD", PasswordAccepted(c), "top")
    <3>1. \E to : Jump(c, "primary", to) /\ to \notin {"none", "ended"}
      BY <2>2 DEF Await
    <3>2. QED
      BY <1>3, <3>1
  <2>3. CASE Flush(c, "primary")
    <3>1. \E to : Jump(c, "primary", to) /\ to \notin {"none", "ended"}
      BY <2>3 DEF Flush
    <3>2. QED
      BY <1>3, <3>1
  <2>4. CASE SendNext(c, "primary")
    <3>1. \E to : Jump(c, "primary", to) /\ to \notin {"none", "ended"}
      BY <2>4 DEF SendNext
    <3>2. QED
      BY <1>3, <3>1
  <2>5. CASE ReceivePrimary(c)
    <3>1. \E to : Jump(c, "primary", to) /\ to \notin {"none", "ended"}
      BY <2>5, PrimaryMoves
    <3>2. QED
      BY <1>3, <3>1
  <2>6. CASE Relay(c)
    BY <1>3, <2>6 DEF Relay
  <2>7. CASE ReceiveError(c, "primary")
    <3>1. \E to : Jump(c, "primary", to) /\ to \notin {"none", "ended"}
      BY <2>7 DEF ReceiveError
    <3>2. QED
      BY <1>3, <3>1
  <2>8. CASE EndPrimary(c)
    <3>1. CASE c \in listed
      <4>1. d # c
        BY <2>8, <3>1
      <4>2. \E to : Jump(c, "primary", to)
        BY <2>8 DEF EndPrimary
      <4>3. pc'[d]["primary"] = pc[d]["primary"]
        BY <1>1, <4>1, <4>2 DEF Jump
      <4>4. QED
        BY <4>3 DEF Alive
    <3>2. CASE c \notin listed
      BY <1>3, <2>8, <3>2 DEF EndPrimary
    <3>3. QED
      BY <3>1, <3>2
  <2>9. QED
    BY <1>5, <2>1, <2>2, <2>3, <2>4, <2>5, <2>6, <2>7, <2>8 DEF PrimaryThread
<1>6. QED
  BY <1>4, <1>5

\* Every step keeps deleted links out of the list.
LEMMA ListNext == TypeInv /\ ListInv /\ [Next]_vars => ListInv'
<1> SUFFICES ASSUME TypeInv, ListInv, [Next]_vars PROVE ListInv'
  OBVIOUS
<1>1. listed \subseteq Conn /\ main \in Conn \cup {NoConn}
  BY DEF TypeInv, RestOK
<1>2. ASSUME UNCHANGED <<pc, listed, main>> PROVE ListInv'
  BY <1>2 DEF ListInv, Alive
<1>3. ASSUME NEW c \in Conn, SecondaryThread(c) \/ PrimaryThread(c)
      PROVE  ListInv'
  <2>1. main' = main
    BY <1>3 DEF SecondaryThread, PrimaryThread, Create, Connect, Say, Await, Flush,
                SendNext, ReceiveSecondary, ReceivePrimary, Relay, ReceiveError,
                EndSecondary, EndPrimary
  <2>2. CASE c \in listed /\ EndPrimary(c)
    <3>1. listed' = listed \ {c}
      BY <2>2 DEF EndPrimary
    <3>2. \A d \in Conn : Alive(d) /\ d # c => Alive(d)'
      BY <1>3, ThreadKeeps
    <3>3. main # c
      BY <2>2, LinkAssumption DEF ListInv, LinkAssumption
    <3>4. QED
      BY <1>1, <2>1, <3>1, <3>2, <3>3 DEF ListInv, Alive
  <2>3. CASE ~(c \in listed /\ EndPrimary(c))
    <3>1. listed' = listed
      BY <1>3, <2>3 DEF SecondaryThread, PrimaryThread, Create, Connect, Say, Await,
                Flush, SendNext, ReceiveSecondary, ReceivePrimary, Relay,
                ReceiveError, EndSecondary, EndPrimary
    <3>2. \A d \in Conn : Alive(d) => Alive(d)'
      BY <1>3, <2>3, ThreadKeeps
    <3>3. QED
      BY <1>1, <2>1, <3>1, <3>2 DEF ListInv
  <2>4. QED
    BY <2>2, <2>3
<1>4. ASSUME NEW c \in Conn, Accept(c) PROVE ListInv'
  <2>1. pc[c]["primary"] = "none" /\ listed' = listed /\ main' = c
    BY <1>4 DEF Accept, At
  <2>2. c \notin listed
    BY <2>1 DEF ListInv, Alive
  <2>3. PICK to \in {"greet", "leaked"} : pc' = [pc EXCEPT ![c]["primary"] = to]
    BY <1>4 DEF Accept, Jump
  <2>4. pc \in [Conn -> [End -> Place]] /\ "primary" \in End
    BY DEF TypeInv, EndsOK, End
  <2>5. \A d \in Conn : Alive(d) \/ d = c => Alive(d)'
    BY <2>3, <2>4 DEF Alive
  <2>6. QED
    BY <1>1, <2>1, <2>2, <2>5 DEF ListInv
<1>5. CASE PushBack
  <2>1. UNCHANGED pc /\ listed' = listed \cup {main} /\ main' = NoConn /\ main # NoConn
    BY <1>5 DEF PushBack, ends
  <2>2. QED
    BY <2>1 DEF ListInv, Alive
<1>6. CASE \/ \E m \in Msg : AnnouncePrimary(m)
           \/ \E c \in Conn, m \in Msg : AnnounceSecondary(c, m)
  BY <1>2, <1>6 DEF AnnouncePrimary, AnnounceSecondary, ends
<1>7. CASE UNCHANGED vars
  BY <1>2, <1>7 DEF vars, ends
<1>8. QED
  BY <1>3, <1>4, <1>5, <1>6, <1>7 DEF Next

\* CLinkServer never keeps a link whose object is gone (link.cpp:1052 and 876),
\* however the accepting thread and the new link's own thread interleave.
THEOREM ListedExistAlways == Spec => []ListedExist
<1>1. Init => ListInv
  BY DEF Init, ListInv
<1>2. ListInv => ListedExist
  BY DEF ListInv, ListedExist, Alive
<1>3. QED
  BY <1>1, <1>2, ListNext, TypeInvAlways, PTL DEF Spec

---------------------------------------------------------------------------
(***************************************************************************)
(* No announce goes back to where it came from.                            *)
(***************************************************************************)

\* What the secondary has queued on c.
Own(c) == Range(put[c]["primary"])

OwnTokens(c) == {t \in Token : t.msg \in Own(c) \cup {NoMsg}}

OwnMessages(c) == {lm \in Message : lm.msg \in Own(c) \cup {NoMsg}}

\* All that travels from the secondary to the relay is its own.
Origin(c) ==
  /\ queue[c]["secondary"] \in Seq(OwnMessages(c))
  /\ batch[c]["secondary"] \in Seq(OwnMessages(c))
  /\ wire[c]["primary"] \in Seq(OwnTokens(c))
  /\ buf[c]["primary"] \in Seq(OwnTokens(c))
  /\ relay[c] \in OwnMessages(c)

\* NoEcho is not inductive: what a link will relay has to be known while it
\* is still in the secondary's queue, and to belong to no other link.
OriginInv ==
  /\ \A c \in Conn : Origin(c)
  /\ \A c, d \in Conn : c # d => Own(c) \cap Own(d) = {}
  /\ NoEcho

\* What is in a sequence that has grown.
LEMMA AppendRange ==
  ASSUME NEW S, NEW s \in Seq(S), NEW x \in S
  PROVE  Range(Append(s, x)) = Range(s) \cup {x}
<1>1. Len(s) \in Nat /\ DOMAIN s = 1..Len(s) /\ DOMAIN Append(s, x) = 1..Len(s) + 1
  OBVIOUS
<1>2. Append(s, x)[Len(s) + 1] = x /\ \A i \in 1..Len(s) : Append(s, x)[i] = s[i]
  OBVIOUS
<1>3. ASSUME NEW i \in 1..Len(s) + 1 PROVE i \in 1..Len(s) \/ i = Len(s) + 1
  BY <1>1
<1>4. 1..Len(s) \subseteq 1..Len(s) + 1 /\ Len(s) + 1 \in 1..Len(s) + 1
  BY <1>1
<1>5. Range(Append(s, x)) \subseteq Range(s) \cup {x}
  BY <1>1, <1>2, <1>3 DEF Range
<1>6. Range(s) \cup {x} \subseteq Range(Append(s, x))
  BY <1>1, <1>2, <1>4 DEF Range
<1>7. QED
  BY <1>5, <1>6

\* A step of c's threads that queues nothing needs to be looked at only at c.
LEMMA OriginKept ==
  ASSUME OriginInv, NEW c \in Conn, UNCHANGED put, Origin(c)',
         \A d \in Conn \ {c} : UNCHANGED <<queue[d], batch[d], wire[d], buf[d], relay[d]>>
  PROVE  OriginInv'
<1>1. ASSUME NEW d \in Conn PROVE Own(d)' = Own(d)
  BY DEF Own
<1>2. ASSUME NEW d \in Conn \ {c} PROVE Origin(d)'
  <2>1. Origin(d)
    BY DEF OriginInv
  <2>2. OwnTokens(d)' = OwnTokens(d) /\ OwnMessages(d)' = OwnMessages(d)
    BY DEF OwnTokens, OwnMessages, Own
  <2>3. UNCHANGED <<queue[d], batch[d], wire[d], buf[d], relay[d]>>
    OBVIOUS
  <2>4. QED
    BY <2>1, <2>2, <2>3 DEF Origin
<1>3. \A d \in Conn : Origin(d)'
  BY <1>2
<1>4. \A d, f \in Conn : d # f => (Own(d) \cap Own(f) = {})'
  BY <1>1 DEF OriginInv
<1>5. NoEcho'
  BY DEF OriginInv, NoEcho
<1>6. QED
  BY <1>3, <1>4, <1>5 DEF OriginInv

\* What a secondary sends is its own.
LEMMA SendOrigin ==
  ASSUME NEW c \in Conn, NEW e \in End, NEW lm \in Message, Send(c, e, lm),
         UNCHANGED put, TypeInv, Origin(c),
         e = "secondary" => lm \in OwnMessages(c)
  PROVE  /\ \A d \in Conn \ {c} : wire'[d] = wire[d]
         /\ (wire[c]["primary"] \in Seq(OwnTokens(c)))'
<1>1. wire \in [Conn -> [End -> Seq(Token)]] /\ kill \in [Conn -> [End -> BOOLEAN]]
  BY DEF TypeInv, EndsOK
<1>2. \E s \in Seq(TokensAbout(lm)) : wire' = [wire EXCEPT ![c][Peer(e)] = @ \o s]
  BY <1>1, SendAdds
<1>3. PICK s \in Seq(TokensAbout(lm)) : wire' = [wire EXCEPT ![c][Peer(e)] = @ \o s]
  BY <1>2
<1>4. OwnTokens(c)' = OwnTokens(c)
  BY DEF OwnTokens, Own
<1>5. \A d \in Conn \ {c} : wire'[d] = wire[d]
  BY <1>1, <1>3
<1>6. "primary" \in End /\ "secondary" \in End /\ "primary" # "secondary"
  BY DEF End
<1>7. CASE e = "primary"
  <2>1. wire'[c]["primary"] = wire[c]["primary"]
    BY <1>1, <1>3, <1>6, <1>7 DEF Peer
  <2>2. QED
    BY <1>4, <1>5, <2>1 DEF Origin
<1>8. CASE e = "secondary"
  <2>1. TokensAbout(lm) \subseteq OwnTokens(c)
    BY <1>8 DEF TokensAbout, OwnTokens, OwnMessages
  <2>2. s \in Seq(OwnTokens(c))
    BY <2>1, SeqOfSubset
  <2>3. wire[c]["primary"] \o s \in Seq(OwnTokens(c))
    BY <2>2 DEF Origin
  <2>4. wire'[c]["primary"] = wire[c]["primary"] \o s
    BY <1>1, <1>3, <1>6, <1>8 DEF Peer
  <2>5. QED
    BY <1>4, <1>5, <2>3, <2>4
<1>9. QED
  BY <1>7, <1>8 DEF End

\* What the primary receives and will relay is the secondary's own.
LEMMA ReceiveOrigin ==
  ASSUME NEW c \in Conn, NEW e \in End, NEW n \in 0..Len(wire[c][e]),
         NEW r \in Results(c, e, n), Receive(c, e, n, r),
         UNCHANGED put, TypeInv, Origin(c)
  PROVE  /\ \A d \in Conn \ {c} : wire'[d] = wire[d] /\ buf'[d] = buf[d]
         /\ (wire[c]["primary"] \in Seq(OwnTokens(c)))'
         /\ (buf[c]["primary"] \in Seq(OwnTokens(c)))'
         /\ e = "primary" => r.msg \in Own(c) \cup {NoMsg}
<1>1. /\ wire \in [Conn -> [End -> Seq(Token)]]
      /\ buf \in [Conn -> [End -> Seq(Token)]]
  BY DEF TypeInv, EndsOK
<1>2. /\ wire' = [wire EXCEPT ![c][e] = From(wire[c][e], n + 1)]
      /\ buf' = [buf EXCEPT ![c][e] = r.rest]
  BY <1>1 DEF Receive
<1>3. OwnTokens(c)' = OwnTokens(c)
  BY DEF OwnTokens, Own
<1>4. \A d \in Conn \ {c} : wire'[d] = wire[d] /\ buf'[d] = buf[d]
  BY <1>1, <1>2
<1>5. "primary" \in End /\ "secondary" \in End /\ "primary" # "secondary"
  BY DEF End
<1>6. CASE e = "secondary"
  <2>1. wire'[c]["primary"] = wire[c]["primary"] /\ buf'[c]["primary"] = buf[c]["primary"]
    BY <1>1, <1>2, <1>5, <1>6
  <2>2. QED
    BY <1>3, <1>4, <1>6, <2>1 DEF Origin
<1>7. CASE e = "primary"
  <2>1. wire[c][e] \in Seq(OwnTokens(c)) /\ buf[c][e] \in Seq(OwnTokens(c))
    BY <1>7 DEF Origin
  <2>2. OwnTokens(c) \in SUBSET Token
    BY DEF OwnTokens
  <2>3. /\ From(wire[c][e], n + 1) \in Seq(OwnTokens(c))
        /\ r.rest \in Seq(OwnTokens(c))
        /\ r.msg = NoMsg \/ \E t \in OwnTokens(c) : r.msg = t.msg
    BY <2>1, <2>2, ReceiveTakes
  <2>4. r.msg \in Own(c) \cup {NoMsg}
    BY <2>3 DEF OwnTokens
  <2>5. wire'[c]["primary"] = From(wire[c][e], n + 1) /\ buf'[c]["primary"] = r.rest
    BY <1>1, <1>2, <1>5, <1>7
  <2>6. QED
    BY <1>3, <1>4, <2>3, <2>4, <2>5
<1>8. QED
  BY <1>6, <1>7 DEF End

\* Steps that queue, take, send, receive or relay nothing of the secondary's.
LEMMA QuietOrigin ==
  ASSUME NEW c \in Conn, OriginInv,
         UNCHANGED <<put, queue, batch, wire, buf, relay>>
  PROVE  OriginInv'
<1>1. Origin(c)'
  BY DEF OriginInv, Origin, OwnTokens, OwnMessages, Own
<1>2. QED
  BY <1>1, OriginKept

\* Steps that only send, a message of the handshake or the end of the link.
LEMMA SaidOrigin ==
  ASSUME NEW c \in Conn, NEW e \in End, NEW type \in Type,
         Send(c, e, Control(type)), TypeInv, OriginInv,
         UNCHANGED <<put, batch, buf, relay>>,
         queue' \in {queue, [queue EXCEPT ![c][e] = <<>>]}
  PROVE  OriginInv'
<1>1. Control(type) \in Message /\ Control(type) \in OwnMessages(c)
  BY Messages DEF Control, Content, OwnMessages
<1>2. Origin(c)
  BY DEF OriginInv
<1>3. /\ \A d \in Conn \ {c} : wire'[d] = wire[d]
      /\ (wire[c]["primary"] \in Seq(OwnTokens(c)))'
  BY <1>1, <1>2, SendOrigin
<1>4. queue \in [Conn -> [End -> Seq(Message)]] /\ "secondary" \in End
  BY DEF TypeInv, RestOK, End
<1>5. \A d \in Conn \ {c} : queue'[d] = queue[d]
  BY <1>4
<1>6. queue'[c]["secondary"] \in {queue[c]["secondary"], <<>>}
  BY <1>4
<1>7. OwnTokens(c)' = OwnTokens(c) /\ OwnMessages(c)' = OwnMessages(c)
  BY DEF OwnTokens, OwnMessages, Own
<1>8. queue'[c]["secondary"] \in Seq(OwnMessages(c))
  <2>1. <<>> \in Seq(OwnMessages(c))
    OBVIOUS
  <2>2. QED
    BY <1>2, <1>6, <2>1 DEF Origin
<1>9. Origin(c)'
  BY <1>2, <1>3, <1>7, <1>8 DEF Origin
<1>10. QED
  BY <1>3, <1>5, <1>9, OriginKept

\* Steps that only drop a queue, if anything.
LEMMA DroppedOrigin ==
  ASSUME NEW c \in Conn, NEW e \in End, TypeInv, OriginInv,
         UNCHANGED <<put, batch, wire, buf, relay>>,
         queue' \in {queue, [queue EXCEPT ![c][e] = <<>>]}
  PROVE  OriginInv'
<1>1. queue \in [Conn -> [End -> Seq(Message)]] /\ "secondary" \in End
  BY DEF TypeInv, RestOK, End
<1>2. \A d \in Conn \ {c} : queue'[d] = queue[d]
  BY <1>1
<1>3. queue'[c]["secondary"] \in {queue[c]["secondary"], <<>>}
  BY <1>1
<1>4. OwnTokens(c)' = OwnTokens(c) /\ OwnMessages(c)' = OwnMessages(c)
  BY DEF OwnTokens, OwnMessages, Own
<1>5. Origin(c) /\ <<>> \in Seq(OwnMessages(c))
  BY DEF OriginInv
<1>6. queue'[c]["secondary"] \in Seq(OwnMessages(c))
  BY <1>3, <1>5 DEF Origin
<1>7. Origin(c)'
  BY <1>4, <1>5, <1>6 DEF Origin
<1>8. QED
  BY <1>2, <1>7, OriginKept

\* The origin of announces is kept by the handshake,
LEMMA AwaitOrigin ==
  ASSUME NEW c \in Conn, NEW e \in End, NEW at, NEW type, NEW accepted, NEW next,
         Await(c, e, at, type, accepted, next), TypeInv, OriginInv
  PROVE  OriginInv'
<1>1. PICK n \in 1..Len(wire[c][e]) : \E r \in Results(c, e, n) : Receive(c, e, n, r)
  BY DEF Await
<1>2. PICK r \in Results(c, e, n) : Receive(c, e, n, r)
  BY <1>1
<1>3. Len(wire[c][e]) \in Nat
  BY DEF TypeInv, EndsOK
<1>4. n \in 0..Len(wire[c][e])
  BY <1>1, <1>3
<1>5. UNCHANGED <<put, queue, batch, relay>>
  BY DEF Await
<1>6. Origin(c)
  BY DEF OriginInv
<1>7. /\ \A d \in Conn \ {c} : wire'[d] = wire[d] /\ buf'[d] = buf[d]
      /\ (wire[c]["primary"] \in Seq(OwnTokens(c)))'
      /\ (buf[c]["primary"] \in Seq(OwnTokens(c)))'
  BY <1>2, <1>4, <1>5, <1>6, ReceiveOrigin
<1>8. OwnMessages(c)' = OwnMessages(c)
  BY <1>5 DEF OwnMessages, Own
<1>9. Origin(c)'
  BY <1>5, <1>6, <1>7, <1>8 DEF Origin
<1>10. QED
  BY <1>5, <1>7, <1>9, OriginKept

\* by taking the queue,
LEMMA FlushOrigin ==
  ASSUME NEW c \in Conn, NEW e \in End, Flush(c, e), TypeInv, OriginInv
  PROVE  OriginInv'
<1>1. UNCHANGED <<put, wire, buf, relay>>
  BY DEF Flush
<1>2. CASE UNCHANGED <<queue, batch>>
  BY <1>1, <1>2, QuietOrigin
<1>3. CASE /\ batch' = [batch EXCEPT ![c][e] = queue[c][e]]
           /\ queue' = [queue EXCEPT ![c][e] = <<>>]
  <2>1. /\ queue \in [Conn -> [End -> Seq(Message)]]
        /\ batch \in [Conn -> [End -> Seq(Message)]]
        /\ "secondary" \in End
    BY DEF TypeInv, RestOK, End
  <2>2. \A d \in Conn \ {c} : queue'[d] = queue[d] /\ batch'[d] = batch[d]
    BY <1>3, <2>1
  <2>3. /\ queue'[c]["secondary"] \in {queue[c]["secondary"], <<>>}
        /\ batch'[c]["secondary"] \in {queue[c]["secondary"], batch[c]["secondary"]}
    BY <1>3, <2>1
  <2>4. OwnTokens(c)' = OwnTokens(c) /\ OwnMessages(c)' = OwnMessages(c)
    BY <1>1 DEF OwnTokens, OwnMessages, Own
  <2>5. Origin(c) /\ <<>> \in Seq(OwnMessages(c))
    BY DEF OriginInv
  <2>6. /\ queue'[c]["secondary"] \in Seq(OwnMessages(c))
        /\ batch'[c]["secondary"] \in Seq(OwnMessages(c))
    BY <2>3, <2>5 DEF Origin
  <2>7. Origin(c)'
    BY <1>1, <2>4, <2>5, <2>6 DEF Origin
  <2>8. QED
    BY <1>1, <2>2, <2>7, OriginKept
<1>4. QED
  BY <1>2, <1>3 DEF Flush, Take

\* by sending what was taken,
LEMMA SendNextOrigin ==
  ASSUME NEW c \in Conn, NEW e \in End, SendNext(c, e), TypeInv, OriginInv
  PROVE  OriginInv'
<1>1. /\ UNCHANGED <<put, queue, buf, relay>>
      /\ Send(c, e, Head(batch[c][e]))
      /\ At(c, e, "send")
  BY DEF SendNext
<1>2. batch' = [batch EXCEPT ![c][e] = Tail(batch[c][e])]
  BY DEF SendNext, TypeInv, RestOK
<1>3. Head(batch[c][e]) \in Message
  BY <1>1, HeadOfBatch
<1>4. Origin(c)
  BY DEF OriginInv
<1>5. ASSUME e = "secondary"
      PROVE  /\ Head(batch[c][e]) \in OwnMessages(c)
             /\ Tail(batch[c][e]) \in Seq(OwnMessages(c))
  <2>1. batch[c][e] \in Seq(OwnMessages(c)) /\ batch[c][e] # <<>>
    BY <1>1, <1>4, <1>5 DEF Origin, TypeInv, SomethingToSend
  <2>2. QED
    BY <2>1, HeadTailProperties
<1>6. /\ \A d \in Conn \ {c} : wire'[d] = wire[d]
      /\ (wire[c]["primary"] \in Seq(OwnTokens(c)))'
  BY <1>1, <1>3, <1>4, <1>5, SendOrigin
<1>7. batch \in [Conn -> [End -> Seq(Message)]] /\ "secondary" \in End
  BY DEF TypeInv, RestOK, End
<1>8. \A d \in Conn \ {c} : batch'[d] = batch[d]
  BY <1>2, <1>7
<1>9. batch'[c]["secondary"] \in Seq(OwnMessages(c))
  <2>1. CASE e = "secondary"
    BY <1>2, <1>5, <1>7, <2>1
  <2>2. CASE e # "secondary"
    BY <1>2, <1>4, <1>7, <2>2 DEF Origin
  <2>3. QED
    BY <2>1, <2>2
<1>10. OwnTokens(c)' = OwnTokens(c) /\ OwnMessages(c)' = OwnMessages(c)
  BY <1>1 DEF OwnTokens, OwnMessages, Own
<1>11. Origin(c)'
  BY <1>1, <1>4, <1>6, <1>9, <1>10 DEF Origin
<1>12. QED
  BY <1>1, <1>6, <1>8, <1>11, OriginKept

\* by receiving at the secondary
LEMMA ReceiveSecondaryOrigin ==
  ASSUME NEW c \in Conn, ReceiveSecondary(c), TypeInv, OriginInv
  PROVE  OriginInv'
<1>1. PICK n \in 0..Len(wire[c]["secondary"]) :
        \E r \in Results(c, "secondary", n) : Receive(c, "secondary", n, r)
  BY DEF ReceiveSecondary
<1>2. PICK r \in Results(c, "secondary", n) : Receive(c, "secondary", n, r)
  BY <1>1
<1>3. UNCHANGED <<put, queue, batch, relay>>
  BY DEF ReceiveSecondary
<1>4. Origin(c) /\ "secondary" \in End
  BY DEF OriginInv, End
<1>5. /\ \A d \in Conn \ {c} : wire'[d] = wire[d] /\ buf'[d] = buf[d]
      /\ (wire[c]["primary"] \in Seq(OwnTokens(c)))'
      /\ (buf[c]["primary"] \in Seq(OwnTokens(c)))'
  BY <1>2, <1>3, <1>4, ReceiveOrigin
<1>6. OwnMessages(c)' = OwnMessages(c)
  BY <1>3 DEF OwnMessages, Own
<1>7. Origin(c)'
  BY <1>3, <1>4, <1>5, <1>6 DEF Origin
<1>8. QED
  BY <1>3, <1>5, <1>7, OriginKept

\* and at the primary,
LEMMA ReceivePrimaryOrigin ==
  ASSUME NEW c \in Conn, ReceivePrimary(c), TypeInv, OriginInv
  PROVE  OriginInv'
<1>1. PICK n \in 0..Len(wire[c]["primary"]) : \E r \in Results(c, "primary", n) :
        /\ Receive(c, "primary", n, r)
        /\ HandOver(c, "primary", r)
        /\ relay' = IF r.type = "ANNOUNCE"
                    THEN [relay EXCEPT ![c] = [type  |-> "ANNOUNCE",
                                               msg   |-> r.msg,
                                               whole |-> r.whole]]
                    ELSE relay
  BY DEF ReceivePrimary
<1>2. PICK r \in Results(c, "primary", n) :
        /\ Receive(c, "primary", n, r)
        /\ HandOver(c, "primary", r)
        /\ relay' = IF r.type = "ANNOUNCE"
                    THEN [relay EXCEPT ![c] = [type  |-> "ANNOUNCE",
                                               msg   |-> r.msg,
                                               whole |-> r.whole]]
                    ELSE relay
  BY <1>1
<1>3. UNCHANGED <<put, queue, batch>>
  BY DEF ReceivePrimary
<1>4. Origin(c) /\ "primary" \in End
  BY DEF OriginInv, End
<1>5. /\ \A d \in Conn \ {c} : wire'[d] = wire[d] /\ buf'[d] = buf[d]
      /\ (wire[c]["primary"] \in Seq(OwnTokens(c)))'
      /\ (buf[c]["primary"] \in Seq(OwnTokens(c)))'
      /\ r.msg \in Own(c) \cup {NoMsg}
  BY <1>2, <1>3, <1>4, ReceiveOrigin
<1>6. r.type = "ANNOUNCE" =>
        [type |-> "ANNOUNCE", msg |-> r.msg, whole |-> r.whole] \in Message
  BY <1>2, <1>4, HandOverType
<1>7. relay \in [Conn -> Message]
  BY DEF TypeInv, RestOK
<1>8. \A d \in Conn \ {c} : relay'[d] = relay[d]
  BY <1>2, <1>7
<1>9. relay'[c] \in OwnMessages(c)
  <2>1. CASE r.type = "ANNOUNCE"
    <3>1. relay'[c] = [type |-> "ANNOUNCE", msg |-> r.msg, whole |-> r.whole]
      BY <1>2, <1>7, <2>1
    <3>2. QED
      BY <1>5, <1>6, <2>1, <3>1 DEF OwnMessages
  <2>2. CASE r.type # "ANNOUNCE"
    BY <1>2, <1>4, <2>2 DEF Origin
  <2>3. QED
    BY <2>1, <2>2
<1>10. OwnMessages(c)' = OwnMessages(c)
  BY <1>3 DEF OwnMessages, Own
<1>11. Origin(c)'
  BY <1>3, <1>4, <1>5, <1>9, <1>10 DEF Origin
<1>12. QED
  BY <1>3, <1>5, <1>8, <1>11, OriginKept

\* What is queued for secondaries did not come from them.
LEMMA QueueOnOrigin ==
  ASSUME NEW links \in SUBSET Conn, NEW lm \in Message, QueueOn(links, lm),
         lm.msg # NoMsg => \A c \in links : lm.msg \notin Own(c),
         UNCHANGED <<batch, wire, buf, relay>>, TypeInv, OriginInv
  PROVE  OriginInv'
<1>1. /\ queue \in [Conn -> [End -> Seq(Message)]]
      /\ put \in [Conn -> [End -> Seq(Msg)]]
      /\ "primary" \in End /\ "secondary" \in End /\ "primary" # "secondary"
  BY DEF TypeInv, RestOK, End
<1>2. ASSUME NEW c \in Conn
      PROVE  /\ queue'[c]["secondary"] = queue[c]["secondary"]
             /\ put'[c]["primary"] = put[c]["primary"]
             /\ \/ put'[c]["secondary"] = put[c]["secondary"]
                \/ /\ c \in links /\ lm.msg # NoMsg
                   /\ put'[c]["secondary"] = Append(put[c]["secondary"], lm.msg)
  BY <1>1 DEF QueueOn
<1>3. ASSUME NEW c \in Conn
      PROVE  /\ Own(c)' = Own(c)
             /\ OwnTokens(c)' = OwnTokens(c) /\ OwnMessages(c)' = OwnMessages(c)
  BY <1>2 DEF Own, OwnTokens, OwnMessages
<1>4. ASSUME NEW c \in Conn PROVE Origin(c)'
  <2>1. Origin(c)
    BY DEF OriginInv
  <2>2. QED
    BY <1>2, <1>3, <2>1 DEF Origin
<1>5. ASSUME NEW c \in Conn PROVE (Own(c) \cap Range(put[c]["secondary"]) = {})'
  <2>1. Own(c) \cap Range(put[c]["secondary"]) = {}
    BY DEF OriginInv, NoEcho, Own
  <2>2. CASE put'[c]["secondary"] = put[c]["secondary"]
    BY <1>3, <2>1, <2>2
  <2>3. CASE /\ c \in links /\ lm.msg # NoMsg
             /\ put'[c]["secondary"] = Append(put[c]["secondary"], lm.msg)
    <3>1. lm.msg \in Msg /\ put[c]["secondary"] \in Seq(Msg)
      BY <1>1, <2>3 DEF Message
    <3>2. Range(put'[c]["secondary"]) = Range(put[c]["secondary"]) \cup {lm.msg}
      BY <2>3, <3>1, AppendRange
    <3>3. lm.msg \notin Own(c)
      BY <2>3
    <3>4. QED
      BY <1>3, <2>1, <3>2, <3>3
  <2>4. QED
    BY <1>2, <2>2, <2>3
<1>6. NoEcho'
  BY <1>5 DEF NoEcho, Own
<1>7. \A c, d \in Conn : c # d => (Own(c) \cap Own(d) = {})'
  BY <1>3 DEF OriginInv
<1>8. QED
  BY <1>4, <1>6, <1>7 DEF OriginInv

\* by relaying to all but the connection it came from,
LEMMA RelayOrigin ==
  ASSUME NEW c \in Conn, Relay(c), TypeInv, OriginInv
  PROVE  OriginInv'
<1>1. QueueOn(RelayTargets(c), relay[c]) /\ UNCHANGED <<batch, wire, buf, relay>>
  BY DEF Relay
<1>2. RelayTargets(c) \in SUBSET Conn /\ c \notin RelayTargets(c)
  BY DEF RelayTargets, TypeInv, RestOK
<1>3. relay[c] \in Message /\ relay[c].msg \in Own(c) \cup {NoMsg}
  BY DEF OriginInv, Origin, OwnMessages
<1>4. relay[c].msg # NoMsg => \A d \in RelayTargets(c) : relay[c].msg \notin Own(d)
  BY <1>2, <1>3 DEF OriginInv
<1>5. \A links \in SUBSET Conn : \A lm \in Message :
        /\ QueueOn(links, lm)
        /\ lm.msg # NoMsg => \A d \in links : lm.msg \notin Own(d)
        => OriginInv'
  BY <1>1, QueueOnOrigin
<1>6. QED
  BY <1>1, <1>2, <1>3, <1>4, <1>5

\* and by new announces.
LEMMA AnnounceOrigin ==
  ASSUME TypeInv, OriginInv,
         \/ \E m \in Msg : AnnouncePrimary(m)
         \/ \E c \in Conn, m \in Msg : AnnounceSecondary(c, m)
  PROVE  OriginInv'
<1>1. "primary" \in End /\ "secondary" \in End /\ "primary" # "secondary"
  BY DEF End
<1>2. ASSUME NEW m \in Msg, AnnouncePrimary(m) PROVE OriginInv'
  <2>1. /\ QueueOn(listed, Content("ANNOUNCE", m)) /\ New(m)
        /\ UNCHANGED <<batch, wire, buf, relay>>
    BY <1>2 DEF AnnouncePrimary, ends
  <2>2. Content("ANNOUNCE", m) \in Message /\ Content("ANNOUNCE", m).msg = m
    BY Messages DEF Content
  <2>3. \A c \in Conn : m \notin Own(c)
    BY <1>1, <2>1 DEF New, Own
  <2>4. listed \in SUBSET Conn
    BY DEF TypeInv, RestOK
  <2>5. \A links \in SUBSET Conn : \A lm \in Message :
          /\ QueueOn(links, lm)
          /\ lm.msg # NoMsg => \A d \in links : lm.msg \notin Own(d)
          => OriginInv'
    BY <2>1, QueueOnOrigin
  <2>6. QED
    BY <2>1, <2>2, <2>3, <2>4, <2>5
<1>3. ASSUME NEW c \in Conn, NEW m \in Msg, AnnounceSecondary(c, m) PROVE OriginInv'
  <2>1. /\ New(m)
        /\ queue' = [queue EXCEPT ![c]["secondary"] =
                       Append(queue[c]["secondary"], Content("ANNOUNCE", m))]
        /\ put' = [put EXCEPT ![c]["primary"] = Append(put[c]["primary"], m)]
        /\ UNCHANGED <<batch, wire, buf, relay>>
    BY <1>3 DEF AnnounceSecondary, ends
  <2>2. /\ queue \in [Conn -> [End -> Seq(Message)]]
        /\ put \in [Conn -> [End -> Seq(Msg)]]
    BY DEF TypeInv, RestOK
  <2>3. Content("ANNOUNCE", m) \in Message /\ Content("ANNOUNCE", m).msg = m
    BY Messages DEF Content
  <2>4. Own(c)' = Own(c) \cup {m}
    <3>1. put'[c]["primary"] = Append(put[c]["primary"], m)
      BY <1>1, <2>1, <2>2
    <3>2. Range(Append(put[c]["primary"], m)) = Range(put[c]["primary"]) \cup {m}
      BY <1>1, <2>2, AppendRange
    <3>3. QED
      BY <3>1, <3>2 DEF Own
  <2>5. ASSUME NEW d \in Conn \ {c}
        PROVE  /\ put'[d]["primary"] = put[d]["primary"]
               /\ queue'[d]["secondary"] = queue[d]["secondary"]
    BY <1>1, <2>1, <2>2
  <2>6. ASSUME NEW d \in Conn
        PROVE  /\ put'[d]["secondary"] = put[d]["secondary"]
               /\ m \notin Own(d) /\ m \notin Range(put[d]["secondary"])
    BY <1>1, <2>1, <2>2 DEF New, Own
  <2>7. ASSUME NEW d \in Conn \ {c} PROVE Own(d)' = Own(d)
    BY <2>5 DEF Own
  <2>8. ASSUME NEW d \in Conn \ {c} PROVE Origin(d)'
    <3>1. Origin(d)
      BY DEF OriginInv
    <3>2. OwnTokens(d)' = OwnTokens(d) /\ OwnMessages(d)' = OwnMessages(d)
      BY <2>7 DEF OwnTokens, OwnMessages
    <3>3. QED
      BY <2>1, <2>5, <3>1, <3>2 DEF Origin
  <2>9. Origin(c)'
    <3>1. Origin(c)
      BY DEF OriginInv
    <3>2. OwnTokens(c) \subseteq OwnTokens(c)' /\ OwnMessages(c) \subseteq OwnMessages(c)'
      BY <2>4 DEF OwnTokens, OwnMessages
    <3>3. Content("ANNOUNCE", m) \in OwnMessages(c)'
      BY <2>3, <2>4 DEF OwnMessages
    <3>4. DEFINE T == OwnTokens(c)'
    <3>5. DEFINE M == OwnMessages(c)'
    <3>6. /\ queue[c]["secondary"] \in Seq(M) /\ batch[c]["secondary"] \in Seq(M)
          /\ wire[c]["primary"] \in Seq(T) /\ buf[c]["primary"] \in Seq(T)
          /\ relay[c] \in M
      BY <3>1, <3>2, SeqOfSubset DEF Origin
    <3>7. Content("ANNOUNCE", m) \in M
      BY <3>3
    <3> HIDE DEF T, M
    <3>8. Append(queue[c]["secondary"], Content("ANNOUNCE", m)) \in Seq(M)
      BY <3>6, <3>7
    <3>9. queue'[c]["secondary"] = Append(queue[c]["secondary"], Content("ANNOUNCE", m))
      BY <1>1, <2>1, <2>2
    <3>10. QED
      BY <2>1, <3>6, <3>8, <3>9 DEF Origin, T, M
  <2>10. \A d \in Conn : Origin(d)'
    BY <2>8, <2>9
  <2>11. \A d, f \in Conn : d # f => (Own(d) \cap Own(f) = {})'
    <3>1. \A d, f \in Conn : d # f => Own(d) \cap Own(f) = {}
      BY DEF OriginInv
    <3>2. \A d \in Conn : Own(d)' = IF d = c THEN Own(d) \cup {m} ELSE Own(d)
      BY <2>4, <2>7
    <3>3. QED
      BY <2>6, <3>1, <3>2
  <2>12. NoEcho'
    <3>1. \A d \in Conn : Own(d) \cap Range(put[d]["secondary"]) = {}
      BY DEF OriginInv, NoEcho, Own
    <3>2. \A d \in Conn : Own(d)' \cap Range(put'[d]["secondary"]) = {}
      BY <2>4, <2>6, <2>7, <3>1
    <3>3. QED
      BY <3>2 DEF NoEcho, Own
  <2>13. QED
    BY <2>10, <2>11, <2>12 DEF OriginInv
<1>4. QED
  BY <1>2, <1>3

\* Every step keeps it.
LEMMA OriginNext == TypeInv /\ OriginInv /\ [Next]_vars => OriginInv'
<1> SUFFICES ASSUME TypeInv, OriginInv, [Next]_vars PROVE OriginInv'
  OBVIOUS
<1> USE DEF End, Type
<1>1. ASSUME NEW c \in Conn, SecondaryThread(c) PROVE OriginInv'
  <2>1. CASE \/ Create(c)
             \/ Connect(c)
    <3>1. UNCHANGED <<put, batch, wire, buf, relay>>
      BY <2>1 DEF Create, Connect
    <3>2. queue' \in {queue, [queue EXCEPT ![c]["secondary"] = <<>>]}
      BY <2>1 DEF Create, Connect
    <3>3. QED
      BY <3>1, <3>2, DroppedOrigin
  <2>2. CASE \/ Say(c, "secondary", "greet", "VERSION", "version")
             \/ Say(c, "secondary", "answer", "PASSWORD", "ready")
             \/ Say(c, "secondary", "ready", "READY", "top")
    BY <2>2, SaidOrigin DEF Say
  <2>3. CASE \/ Await(c, "secondary", "version", "VERSION", TRUE, "info")
             \/ Await(c, "secondary", "info", "INFO", TRUE, "answer")
    BY <2>3, AwaitOrigin
  <2>4. CASE Flush(c, "secondary") \/ SendNext(c, "secondary")
    BY <2>4, FlushOrigin, SendNextOrigin
  <2>5. CASE ReceiveSecondary(c)
    BY <2>5, ReceiveSecondaryOrigin
  <2>6. CASE ReceiveError(c, "secondary")
    BY <2>6, QuietOrigin DEF ReceiveError
  <2>7. CASE EndSecondary(c)
    BY <2>7, SaidOrigin DEF EndSecondary
  <2>8. QED
    BY <1>1, <2>1, <2>2, <2>3, <2>4, <2>5, <2>6, <2>7 DEF SecondaryThread
<1>2. ASSUME NEW c \in Conn, PrimaryThread(c) PROVE OriginInv'
  <2>1. CASE \/ Say(c, "primary", "greet", "VERSION", "version")
             \/ Say(c, "primary", "challenge", "INFO", "password")
    BY <2>1, SaidOrigin DEF Say
  <2>2. CASE \/ Await(c, "primary", "version", "VERSION", TRUE, "challenge")
             \/ Await(c, "primary", "password", "PASSWORD", PasswordAccepted(c), "top")
    BY <2>2, AwaitOrigin
  <2>3. CASE Flush(c, "primary") \/ SendNext(c, "primary")
    BY <2>3, FlushOrigin, SendNextOrigin
  <2>4. CASE ReceivePrimary(c) \/ Relay(c)
    BY <2>4, ReceivePrimaryOrigin, RelayOrigin
  <2>5. CASE ReceiveError(c, "primary")
    BY <2>5, QuietOrigin DEF ReceiveError
  <2>6. CASE EndPrimary(c)
    <3>1. CASE c \in listed
      BY <2>6, <3>1, SaidOrigin DEF EndPrimary
    <3>2. CASE c \notin listed
      BY <2>6, <3>2, QuietOrigin DEF EndPrimary
    <3>3. QED
      BY <3>1, <3>2
  <2>7. QED
    BY <1>2, <2>1, <2>2, <2>3, <2>4, <2>5, <2>6 DEF PrimaryThread
<1>3. ASSUME UNCHANGED <<put, queue, batch, wire, buf, relay>> PROVE OriginInv'
  BY <1>3 DEF OriginInv, Origin, OwnTokens, OwnMessages, Own, NoEcho
<1>4. CASE \/ \E c \in Conn : Accept(c)
           \/ PushBack
           \/ UNCHANGED vars
  BY <1>3, <1>4 DEF Accept, PushBack, vars, ends
<1>5. CASE \/ \E m \in Msg : AnnouncePrimary(m)
           \/ \E c \in Conn, m \in Msg : AnnounceSecondary(c, m)
  BY <1>5, AnnounceOrigin
<1>6. QED
  BY <1>1, <1>2, <1>4, <1>5 DEF Next

\* Where announces come from.
LEMMA OriginAlways == Spec => []OriginInv
<1>1. Init => OriginInv
  <2> SUFFICES ASSUME Init PROVE OriginInv
    OBVIOUS
  <2>1. "primary" \in End /\ "secondary" \in End
    BY DEF End
  <2>2. \A c \in Conn : Own(c) = {} /\ Range(put[c]["secondary"]) = {}
    BY <2>1 DEF Init, Own, Range
  <2>3. Control("CLOSE") \in Message /\ Control("CLOSE").msg = NoMsg
    BY Messages DEF Type, Control, Content
  <2>4. ASSUME NEW c \in Conn PROVE Origin(c)
    <3>1. <<>> \in Seq(OwnMessages(c)) /\ <<>> \in Seq(OwnTokens(c))
      OBVIOUS
    <3>2. relay[c] \in OwnMessages(c)
      BY <2>3 DEF Init, OwnMessages
    <3>3. QED
      BY <2>1, <3>1, <3>2 DEF Init, Origin
  <2>5. QED
    BY <2>2, <2>4 DEF OriginInv, NoEcho, Own
<1>2. QED
  BY <1>1, OriginNext, TypeInvAlways, PTL DEF Spec

\* CLinkServer::Queue leaves out the address an announce came from
\* (link.cpp:1065): no secondary is told its own announces again, over any
\* number of links, whatever is lost or cut on the way.
THEOREM NoEchoAlways == Spec => []NoEcho
<1>1. OriginInv => NoEcho
  BY DEF OriginInv
<1>2. QED
  BY <1>1, OriginAlways, PTL

---------------------------------------------------------------------------
(***************************************************************************)
(* Trackers without the password.                                          *)
(***************************************************************************)

Other == {t \in Token : t.type # "ANNOUNCE"}

Loop == {"top", "send", "receive", "relay"}

\* A connection whose primary never gets past the handshake.
Outside(c) ==
  /\ pc[c]["primary"] \notin Loop
  /\ buf[c]["secondary"] \in Seq(Other)
  /\ wire[c]["secondary"] \in Seq(Other)
  /\ \A e \in End : got[c][e] = <<>>

\* OnlyWithPassword is not inductive: nothing may be on its way either.
OutsideInv == \A c \in Conn : Owner[c] \notin PassOK => Outside(c)

\* A step of c's threads needs to be looked at only at c.
LEMMA OutsideKept ==
  ASSUME OutsideInv, NEW c \in Conn, Outside(c) => Outside(c)',
         \A d \in Conn \ {c} : UNCHANGED <<pc[d], buf[d], wire[d], got[d]>>
  PROVE  OutsideInv'
<1>1. ASSUME NEW d \in Conn \ {c} PROVE Outside(d) => Outside(d)'
  BY DEF Outside
<1>2. QED
  BY <1>1 DEF OutsideInv

\* What a jump changes.
LEMMA JumpOutside ==
  ASSUME NEW c \in Conn, NEW e \in End, NEW to, Jump(c, e, to), TypeInv,
         e = "secondary" \/ to \notin Loop, pc[c]["primary"] \notin Loop
  PROVE  pc'[c]["primary"] \notin Loop
<1>1. pc \in [Conn -> [End -> Place]] /\ "primary" \in End /\ "primary" # "secondary"
  BY DEF TypeInv, EndsOK, End
<1>2. pc'[c]["primary"] = IF e = "primary" THEN to ELSE pc[c]["primary"]
  BY <1>1 DEF Jump
<1>3. QED
  BY <1>1, <1>2

\* A jump moves one thread.
LEMMA JumpElsewhere ==
  ASSUME NEW c \in Conn, NEW e \in End, NEW to, Jump(c, e, to), TypeInv
  PROVE  \A d \in Conn \ {c} : pc'[d] = pc[d]
BY DEF Jump, TypeInv, EndsOK

\* The primary sends nothing but the handshake and CLOSE.
LEMMA SendOutside ==
  ASSUME NEW c \in Conn, NEW e \in End, NEW lm \in Message, Send(c, e, lm), TypeInv
  PROVE  /\ \A d \in Conn \ {c} : wire'[d] = wire[d]
         /\ (e = "primary" => lm.type # "ANNOUNCE") /\ wire[c]["secondary"] \in Seq(Other)
              => wire'[c]["secondary"] \in Seq(Other)
<1>1. wire \in [Conn -> [End -> Seq(Token)]] /\ kill \in [Conn -> [End -> BOOLEAN]]
  BY DEF TypeInv, EndsOK
<1>2. \E s \in Seq(TokensAbout(lm)) : wire' = [wire EXCEPT ![c][Peer(e)] = @ \o s]
  BY <1>1, SendAdds
<1>3. PICK s \in Seq(TokensAbout(lm)) : wire' = [wire EXCEPT ![c][Peer(e)] = @ \o s]
  BY <1>2
<1>4. \A d \in Conn \ {c} : wire'[d] = wire[d]
  BY <1>1, <1>3
<1>5. "primary" \in End /\ "secondary" \in End /\ "primary" # "secondary"
  BY DEF End
<1>6. CASE e = "secondary"
  <2>1. wire'[c]["secondary"] = wire[c]["secondary"]
    BY <1>1, <1>3, <1>5, <1>6 DEF Peer
  <2>2. QED
    BY <1>4, <2>1
<1>7. CASE e = "primary"
  <2>1. wire'[c]["secondary"] = wire[c]["secondary"] \o s
    BY <1>1, <1>3, <1>5, <1>7 DEF Peer
  <2>2. ASSUME lm.type # "ANNOUNCE", wire[c]["secondary"] \in Seq(Other)
        PROVE  wire'[c]["secondary"] \in Seq(Other)
    <3>1. TokensAbout(lm) \subseteq Other
      BY <2>2 DEF TokensAbout, Other
    <3>2. s \in Seq(Other)
      BY <3>1, SeqOfSubset
    <3>3. QED
      BY <2>1, <2>2, <3>2
  <2>3. QED
    BY <1>4, <1>7, <2>2
<1>8. QED
  BY <1>6, <1>7 DEF End

\* The secondary receives no announce.
LEMMA ReceiveOutside ==
  ASSUME NEW c \in Conn, NEW e \in End, NEW n \in 0..Len(wire[c][e]),
         NEW r \in Results(c, e, n), Receive(c, e, n, r), TypeInv
  PROVE  /\ \A d \in Conn \ {c} : wire'[d] = wire[d] /\ buf'[d] = buf[d]
         /\ buf[c]["secondary"] \in Seq(Other) /\ wire[c]["secondary"] \in Seq(Other)
              => /\ buf'[c]["secondary"] \in Seq(Other)
                 /\ wire'[c]["secondary"] \in Seq(Other)
                 /\ e = "secondary" => r.type # "ANNOUNCE"
<1>1. /\ wire \in [Conn -> [End -> Seq(Token)]]
      /\ buf \in [Conn -> [End -> Seq(Token)]]
  BY DEF TypeInv, EndsOK
<1>2. /\ wire' = [wire EXCEPT ![c][e] = From(wire[c][e], n + 1)]
      /\ buf' = [buf EXCEPT ![c][e] = r.rest]
  BY <1>1 DEF Receive
<1>3. \A d \in Conn \ {c} : wire'[d] = wire[d] /\ buf'[d] = buf[d]
  BY <1>1, <1>2
<1>4. "primary" \in End /\ "secondary" \in End /\ "primary" # "secondary"
  BY DEF End
<1>5. CASE e = "primary"
  <2>1. wire'[c]["secondary"] = wire[c]["secondary"] /\ buf'[c]["secondary"] = buf[c]["secondary"]
    BY <1>1, <1>2, <1>4, <1>5
  <2>2. QED
    BY <1>3, <1>4, <1>5, <2>1
<1>6. CASE e = "secondary"
  <2>1. ASSUME buf[c][e] \in Seq(Other), wire[c][e] \in Seq(Other)
        PROVE  /\ From(wire[c][e], n + 1) \in Seq(Other)
               /\ r.rest \in Seq(Other)
               /\ r.type = "NONE" \/ \E t \in Other : r.type = t.type
    <3>1. Other \in SUBSET Token
      BY DEF Other
    <3>2. QED
      BY <2>1, <3>1, ReceiveTakes
  <2>2. ASSUME buf[c][e] \in Seq(Other), wire[c][e] \in Seq(Other)
        PROVE  r.type # "ANNOUNCE"
    BY <2>1, <2>2 DEF Other
  <2>3. wire'[c]["secondary"] = From(wire[c][e], n + 1) /\ buf'[c]["secondary"] = r.rest
    BY <1>1, <1>2, <1>4, <1>6
  <2>4. QED
    BY <1>3, <1>6, <2>1, <2>2, <2>3
<1>7. QED
  BY <1>5, <1>6 DEF End

\* What keeps a connection outside: the messages of the handshake,
LEMMA SayOutside ==
  ASSUME NEW c \in Conn, NEW e \in End, NEW to, NEW type \in Type \ {"ANNOUNCE"},
         Send(c, e, Control(type)), Jump(c, e, to), UNCHANGED <<buf, got>>,
         e = "secondary" \/ to \notin Loop, TypeInv, OutsideInv
  PROVE  OutsideInv'
<1>1. Control(type) \in Message /\ Control(type).type # "ANNOUNCE"
  BY Messages DEF Control, Content
<1>2. /\ \A d \in Conn \ {c} : wire'[d] = wire[d]
      /\ wire[c]["secondary"] \in Seq(Other) => wire'[c]["secondary"] \in Seq(Other)
  BY <1>1, SendOutside
<1>3. \A d \in Conn \ {c} : pc'[d] = pc[d]
  BY JumpElsewhere
<1>4. Outside(c) => Outside(c)'
  BY <1>2, JumpOutside DEF Outside
<1>5. QED
  BY <1>2, <1>3, <1>4, OutsideKept

\* and of its answers all but the right password.
LEMMA AwaitOutside ==
  ASSUME NEW c \in Conn, NEW e \in End, NEW at, NEW type, NEW accepted, NEW next,
         Await(c, e, at, type, accepted, next), TypeInv, OutsideInv,
         e = "primary" => at \notin Loop /\ (accepted /\ Owner[c] \notin PassOK => next \notin Loop)
  PROVE  OutsideInv'
<1>1. PICK n \in 1..Len(wire[c][e]) : \E r \in Results(c, e, n) :
        /\ Receive(c, e, n, r)
        /\ Jump(c, e, IF r.type = "NONE" THEN at
                      ELSE IF r.type = type /\ r.whole /\ accepted THEN next
                      ELSE "return")
  BY DEF Await
<1>2. PICK r \in Results(c, e, n) :
        /\ Receive(c, e, n, r)
        /\ Jump(c, e, IF r.type = "NONE" THEN at
                      ELSE IF r.type = type /\ r.whole /\ accepted THEN next
                      ELSE "return")
  BY <1>1
<1>3. PICK to : Jump(c, e, to) /\ (e = "primary" /\ Owner[c] \notin PassOK => to \notin Loop)
  <2>1. "return" \notin Loop
    BY DEF Loop
  <2>2. CASE r.type = "NONE"
    BY <1>2, <2>2
  <2>3. CASE r.type # "NONE" /\ r.type = type /\ r.whole /\ accepted
    BY <1>2, <2>3
  <2>4. CASE r.type # "NONE" /\ ~(r.type = type /\ r.whole /\ accepted)
    BY <1>2, <2>1, <2>4
  <2>5. QED
    BY <2>2, <2>3, <2>4
<1>4. Len(wire[c][e]) \in Nat
  BY DEF TypeInv, EndsOK
<1>5. n \in 0..Len(wire[c][e])
  BY <1>1, <1>4
<1>6. /\ \A d \in Conn \ {c} : wire'[d] = wire[d] /\ buf'[d] = buf[d]
      /\ buf[c]["secondary"] \in Seq(Other) /\ wire[c]["secondary"] \in Seq(Other)
           => /\ buf'[c]["secondary"] \in Seq(Other)
              /\ wire'[c]["secondary"] \in Seq(Other)
  BY <1>2, <1>5, ReceiveOutside
<1>7. got' = got
  BY DEF Await
<1>8. \A d \in Conn \ {c} : pc'[d] = pc[d]
  BY <1>3, JumpElsewhere
<1>9. CASE Owner[c] \notin PassOK
  <2>1. pc[c]["primary"] \notin Loop => pc'[c]["primary"] \notin Loop
    BY <1>3, <1>9, JumpOutside DEF End
  <2>2. Outside(c) => Outside(c)'
    BY <1>6, <1>7, <2>1 DEF Outside
  <2>3. QED
    BY <1>6, <1>7, <1>8, <2>2, OutsideKept
<1>10. CASE Owner[c] \in PassOK
  <2>1. ASSUME NEW d \in Conn, Owner[d] \notin PassOK PROVE Outside(d)'
    <3>1. d # c /\ Outside(d)
      BY <1>10, <2>1 DEF OutsideInv
    <3>2. QED
      BY <1>6, <1>7, <1>8, <3>1 DEF Outside
  <2>2. QED
    BY <2>1 DEF OutsideInv
<1>11. QED
  BY <1>9, <1>10

\* The loop is not reached by the primary's thread of such a connection.
LEMMA LoopOutside ==
  ASSUME NEW c \in Conn, NEW to, Jump(c, "primary", to), pc[c]["primary"] \in Loop,
         \A d \in Conn \ {c} : UNCHANGED <<buf[d], wire[d], got[d]>>,
         TypeInv, OutsideInv
  PROVE  OutsideInv'
<1>1. ~Outside(c) /\ Owner[c] \in PassOK
  BY DEF Outside, OutsideInv
<1>2. \A d \in Conn \ {c} : pc'[d] = pc[d]
  BY JumpElsewhere DEF End
<1>3. QED
  BY <1>1, <1>2, OutsideKept

\* The rest is for the loop, which is not reached: sending,
LEMMA SendNextOutside ==
  ASSUME NEW c \in Conn, NEW e \in End, SendNext(c, e), TypeInv, OutsideInv
  PROVE  OutsideInv'
<1>1. /\ Send(c, e, Head(batch[c][e])) /\ UNCHANGED <<buf, got>>
      /\ At(c, e, "send")
      /\ \E to : Jump(c, e, to)
  BY DEF SendNext
<1>2. Head(batch[c][e]) \in Message
  BY <1>1, HeadOfBatch
<1>3. \A d \in Conn \ {c} : wire'[d] = wire[d]
  BY <1>1, <1>2, SendOutside
<1>4. CASE e = "primary"
  <2>1. pc[c]["primary"] \in Loop
    BY <1>1, <1>4 DEF At, Loop
  <2>2. QED
    BY <1>1, <1>3, <1>4, <2>1, LoopOutside
<1>5. CASE e = "secondary"
  <2>1. wire[c]["secondary"] \in Seq(Other) => wire'[c]["secondary"] \in Seq(Other)
    <3>1. e # "primary"
      BY <1>5
    <3>2. QED
      BY <1>1, <1>2, <3>1, SendOutside
  <2>2. \A d \in Conn \ {c} : pc'[d] = pc[d]
    BY <1>1, JumpElsewhere
  <2>3. Outside(c) => Outside(c)'
    BY <1>1, <1>5, <2>1, JumpOutside DEF Outside
  <2>4. QED
    BY <1>1, <1>3, <2>2, <2>3, OutsideKept
<1>6. QED
  BY <1>4, <1>5 DEF End

\* taking the queue,
LEMMA FlushOutside ==
  ASSUME NEW c \in Conn, NEW e \in End, Flush(c, e), TypeInv, OutsideInv
  PROVE  OutsideInv'
<1>1. UNCHANGED <<buf, wire, got>> /\ At(c, e, "top") /\ \E to : Jump(c, e, to)
  BY DEF Flush
<1>2. CASE e = "primary"
  BY <1>1, <1>2, LoopOutside DEF At, Loop
<1>3. CASE e = "secondary"
  <2>1. \A d \in Conn \ {c} : pc'[d] = pc[d]
    BY <1>1, JumpElsewhere
  <2>2. Outside(c) => Outside(c)'
    BY <1>1, <1>3, JumpOutside DEF Outside
  <2>3. QED
    BY <1>1, <2>1, <2>2, OutsideKept
<1>4. QED
  BY <1>2, <1>3 DEF End

\* a recv that fails,
LEMMA ReceiveErrorOutside ==
  ASSUME NEW c \in Conn, NEW e \in End, ReceiveError(c, e), TypeInv, OutsideInv
  PROVE  OutsideInv'
<1>1. UNCHANGED <<buf, wire, got>>
  BY DEF ReceiveError
<1>2. PICK to : Jump(c, e, to) /\ (At(c, e, "receive") \/ to = "return")
  BY DEF ReceiveError
<1>3. CASE e = "primary" /\ At(c, e, "receive")
  BY <1>1, <1>2, <1>3, LoopOutside DEF At, Loop
<1>4. CASE e = "secondary" \/ ~At(c, e, "receive")
  <2>1. \A d \in Conn \ {c} : pc'[d] = pc[d]
    BY <1>2, JumpElsewhere
  <2>2. e = "secondary" \/ to \notin Loop
    BY <1>2, <1>4 DEF Loop
  <2>3. Outside(c) => Outside(c)'
    BY <1>1, <1>2, <2>2, JumpOutside DEF Outside
  <2>4. QED
    BY <1>1, <2>1, <2>3, OutsideKept
<1>5. QED
  BY <1>3, <1>4 DEF End

\* receiving what is no announce at the secondary,
LEMMA ReceiveSecondaryOutside ==
  ASSUME NEW c \in Conn, ReceiveSecondary(c), TypeInv, OutsideInv
  PROVE  OutsideInv'
<1>1. PICK n \in 0..Len(wire[c]["secondary"]) : \E r \in Results(c, "secondary", n) :
        /\ Receive(c, "secondary", n, r)
        /\ HandOver(c, "secondary", r)
        /\ Jump(c, "secondary", IF r.type = "CLOSE" THEN "return" ELSE "top")
  BY DEF ReceiveSecondary
<1>2. PICK r \in Results(c, "secondary", n) :
        /\ Receive(c, "secondary", n, r)
        /\ HandOver(c, "secondary", r)
        /\ Jump(c, "secondary", IF r.type = "CLOSE" THEN "return" ELSE "top")
  BY <1>1
<1>3. "secondary" \in End
  BY DEF End
<1>4. /\ \A d \in Conn \ {c} : wire'[d] = wire[d] /\ buf'[d] = buf[d]
      /\ buf[c]["secondary"] \in Seq(Other) /\ wire[c]["secondary"] \in Seq(Other)
           => /\ buf'[c]["secondary"] \in Seq(Other)
              /\ wire'[c]["secondary"] \in Seq(Other)
              /\ r.type # "ANNOUNCE"
  BY <1>2, <1>3, ReceiveOutside
<1>5. \A d \in Conn \ {c} : pc'[d] = pc[d]
  BY <1>2, <1>3, JumpElsewhere
<1>6. /\ \A d \in Conn \ {c} : got'[d] = got[d]
      /\ r.type # "ANNOUNCE" => got' = got
  BY <1>2 DEF HandOver, TypeInv, RestOK
<1>7. pc[c]["primary"] \notin Loop => pc'[c]["primary"] \notin Loop
  BY <1>2, <1>3, JumpOutside
<1>8. Outside(c) => Outside(c)'
  BY <1>4, <1>6, <1>7 DEF Outside
<1>9. QED
  BY <1>4, <1>5, <1>6, <1>8, OutsideKept

\* and receiving at the primary.
LEMMA ReceivePrimaryOutside ==
  ASSUME NEW c \in Conn, ReceivePrimary(c), TypeInv, OutsideInv
  PROVE  OutsideInv'
<1>1. PICK n \in 0..Len(wire[c]["primary"]) : \E r \in Results(c, "primary", n) :
        Receive(c, "primary", n, r) /\ HandOver(c, "primary", r)
  BY DEF ReceivePrimary
<1>2. PICK r \in Results(c, "primary", n) :
        Receive(c, "primary", n, r) /\ HandOver(c, "primary", r)
  BY <1>1
<1>3. "primary" \in End /\ pc[c]["primary"] \in Loop
  BY DEF End, ReceivePrimary, At, Loop
<1>4. \A d \in Conn \ {c} : wire'[d] = wire[d] /\ buf'[d] = buf[d]
  BY <1>2, <1>3, ReceiveOutside
<1>5. \A d \in Conn \ {c} : got'[d] = got[d]
  BY <1>2 DEF HandOver, TypeInv, RestOK
<1>6. \E to : Jump(c, "primary", to)
  BY PrimaryMoves
<1>7. QED
  BY <1>3, <1>4, <1>5, <1>6, LoopOutside

\* Every step keeps such a connection outside.
LEMMA OutsideNext == TypeInv /\ OutsideInv /\ [Next]_vars => OutsideInv'
<1> SUFFICES ASSUME TypeInv, OutsideInv, [Next]_vars PROVE OutsideInv'
  OBVIOUS
<1> USE DEF End
<1>1. ASSUME NEW c \in Conn, SecondaryThread(c) PROVE OutsideInv'
  <2>1. ASSUME NEW to, Jump(c, "secondary", to), UNCHANGED <<buf, wire, got>>
        PROVE  OutsideInv'
    <3>1. \A d \in Conn \ {c} : pc'[d] = pc[d]
      BY <2>1, JumpElsewhere
    <3>2. Outside(c) => Outside(c)'
      BY <2>1, JumpOutside DEF Outside
    <3>3. QED
      BY <2>1, <3>1, <3>2, OutsideKept
  <2>2. CASE Create(c) \/ Connect(c)
    BY <2>1, <2>2 DEF Create, Connect
  <2>3. CASE \/ Say(c, "secondary", "greet", "VERSION", "version")
             \/ Say(c, "secondary", "answer", "PASSWORD", "ready")
             \/ Say(c, "secondary", "ready", "READY", "top")
    BY <2>3, SayOutside DEF Say, Type
  <2>4. CASE \/ Await(c, "secondary", "version", "VERSION", TRUE, "info")
             \/ Await(c, "secondary", "info", "INFO", TRUE, "answer")
    BY <2>4, AwaitOutside
  <2>5. CASE Flush(c, "secondary") \/ SendNext(c, "secondary")
    BY <2>5, FlushOutside, SendNextOutside
  <2>6. CASE ReceiveSecondary(c)
    BY <2>6, ReceiveSecondaryOutside
  <2>7. CASE ReceiveError(c, "secondary")
    BY <2>7, ReceiveErrorOutside
  <2>8. CASE EndSecondary(c)
    BY <2>8, SayOutside DEF EndSecondary, Type
  <2>9. QED
    BY <1>1, <2>2, <2>3, <2>4, <2>5, <2>6, <2>7, <2>8 DEF SecondaryThread
<1>2. ASSUME NEW c \in Conn, PrimaryThread(c) PROVE OutsideInv'
  <2>1. CASE \/ Say(c, "primary", "greet", "VERSION", "version")
             \/ Say(c, "primary", "challenge", "INFO", "password")
    BY <2>1, SayOutside DEF Say, Type, Loop
  <2>2. CASE \/ Await(c, "primary", "version", "VERSION", TRUE, "challenge")
             \/ Await(c, "primary", "password", "PASSWORD", PasswordAccepted(c), "top")
    BY <2>2, AwaitOutside DEF Loop, PasswordAccepted
  <2>3. CASE Flush(c, "primary") \/ SendNext(c, "primary")
    BY <2>3, FlushOutside, SendNextOutside
  <2>4. CASE ReceivePrimary(c)
    BY <2>4, ReceivePrimaryOutside
  <2>5. CASE Relay(c)
    BY <2>5, LoopOutside DEF Relay, At, Loop
  <2>6. CASE ReceiveError(c, "primary")
    BY <2>6, ReceiveErrorOutside
  <2>7. CASE EndPrimary(c)
    <3>1. CASE c \in listed
      BY <2>7, <3>1, SayOutside DEF EndPrimary, Type, Loop
    <3>2. CASE c \notin listed
      <4>1. Jump(c, "primary", "leaked") /\ UNCHANGED <<buf, wire, got>>
        BY <2>7, <3>2 DEF EndPrimary
      <4>2. "leaked" \notin Loop
        BY DEF Loop
      <4>3. \A d \in Conn \ {c} : pc'[d] = pc[d]
        BY <4>1, JumpElsewhere
      <4>4. Outside(c) => Outside(c)'
        BY <4>1, <4>2, JumpOutside DEF Outside
      <4>5. QED
        BY <4>1, <4>3, <4>4, OutsideKept
    <3>3. QED
      BY <3>1, <3>2
  <2>8. QED
    BY <1>2, <2>1, <2>2, <2>3, <2>4, <2>5, <2>6, <2>7 DEF PrimaryThread
<1>3. ASSUME NEW c \in Conn, Accept(c) PROVE OutsideInv'
  <2>1. PICK to \in {"greet", "leaked"} : Jump(c, "primary", to)
    BY <1>3 DEF Accept
  <2>2. UNCHANGED <<buf, wire, got>> /\ to \notin Loop
    BY <1>3, <2>1 DEF Accept, Loop
  <2>3. \A d \in Conn \ {c} : pc'[d] = pc[d]
    BY <2>1, JumpElsewhere
  <2>4. Outside(c) => Outside(c)'
    BY <2>1, <2>2, JumpOutside DEF Outside
  <2>5. QED
    BY <2>2, <2>3, <2>4, OutsideKept
<1>4. ASSUME UNCHANGED <<pc, buf, wire, got>> PROVE OutsideInv'
  BY <1>4 DEF OutsideInv, Outside
<1>5. CASE \/ PushBack
           \/ \E m \in Msg : AnnouncePrimary(m)
           \/ \E c \in Conn, m \in Msg : AnnounceSecondary(c, m)
           \/ UNCHANGED vars
  BY <1>4, <1>5 DEF PushBack, AnnouncePrimary, AnnounceSecondary, vars, ends
<1>6. QED
  BY <1>1, <1>2, <1>3, <1>5 DEF Next

\* The check of the password in CLinkClient::Go (link.cpp:529) keeps a
\* tracker without it out: nothing it sends is applied and it is told nothing,
\* although a secondary does not wait for the primary's answer.
THEOREM OnlyWithPasswordAlways == Spec => []OnlyWithPassword
<1>1. Init => OutsideInv
  <2>1. <<>> \in Seq(Other)
    OBVIOUS
  <2>2. QED
    BY <2>1 DEF Init, OutsideInv, Outside, Loop, End
<1>2. OutsideInv => OnlyWithPassword
  BY DEF OutsideInv, Outside, OnlyWithPassword
<1>3. QED
  BY <1>1, <1>2, OutsideNext, TypeInvAlways, PTL DEF Spec

---------------------------------------------------------------------------
(***************************************************************************)
(* Every direction of a connection is a channel.                           *)
(***************************************************************************)

Slot == Msg \cup {NoMsg}

\* The announces that tokens, and messages, bring: one comes with its payload.
Carried(s) == [i \in 1..Len(s) |-> IF s[i].payload THEN s[i].msg ELSE NoMsg]

Held(s) == [i \in 1..Len(s) |-> IF s[i].whole THEN s[i].msg ELSE NoMsg]

Before(q, x, y) == \E i, j \in DOMAIN q : i < j /\ q[i] = x /\ q[j] = y

\* The announces in s are among those in q, and in their order.
Within(s, q) ==
  /\ \A i \in DOMAIN s : s[i] # NoMsg => s[i] \in Range(q)
  /\ \A i, j \in DOMAIN s :
       i < j /\ s[i] # NoMsg /\ s[j] # NoMsg => Before(q, s[i], s[j])

\* Within is reflexive.
LEMMA WithinItself ==
  ASSUME NEW s
  PROVE  Within(s, s)
BY DEF Within, Before, Range

\* Within is transitive.
LEMMA WithinThrough ==
  ASSUME NEW s, NEW q, NEW p, Within(s, q), Within(q, p)
  PROVE  Within(s, p)
<1>1. ASSUME NEW i \in DOMAIN s, s[i] # NoMsg PROVE s[i] \in Range(p)
  <2>1. s[i] \in Range(q)
    BY <1>1 DEF Within
  <2>2. PICK j \in DOMAIN q : q[j] = s[i]
    BY <2>1 DEF Range
  <2>3. QED
    BY <1>1, <2>2 DEF Within
<1>2. ASSUME NEW i \in DOMAIN s, NEW j \in DOMAIN s,
             i < j, s[i] # NoMsg, s[j] # NoMsg
      PROVE  Before(p, s[i], s[j])
  <2>1. Before(q, s[i], s[j])
    BY <1>2 DEF Within
  <2>2. PICK k \in DOMAIN q, l \in DOMAIN q : k < l /\ q[k] = s[i] /\ q[l] = s[j]
    BY <2>1 DEF Before
  <2>3. q[k] # NoMsg /\ q[l] # NoMsg
    BY <1>2, <2>2
  <2>4. Before(p, q[k], q[l])
    BY <2>2, <2>3 DEF Within
  <2>5. QED
    BY <2>2, <2>4
<1>3. QED
  BY <1>1, <1>2 DEF Within

\* The items of a concatenation.
LEMMA Joined ==
  ASSUME NEW S, NEW s \in Seq(S), NEW q \in Seq(S)
  PROVE  /\ s \o q \in Seq(S)
         /\ Len(s) \in Nat /\ Len(q) \in Nat /\ Len(s \o q) = Len(s) + Len(q)
         /\ DOMAIN s = 1..Len(s) /\ DOMAIN q = 1..Len(q)
         /\ DOMAIN (s \o q) = 1..Len(s) + Len(q)
         /\ \A i \in 1..Len(s) : (s \o q)[i] = s[i]
         /\ \A i \in 1..Len(q) : (s \o q)[Len(s) + i] = q[i]
         /\ \A i \in 1..Len(s) + Len(q) :
              i \in 1..Len(s) \/ \E j \in 1..Len(q) : i = Len(s) + j
<1>1. s \o q \in Seq(S) /\ Len(s) \in Nat /\ Len(q) \in Nat /\ Len(s \o q) = Len(s) + Len(q)
  OBVIOUS
<1>2. /\ DOMAIN s = 1..Len(s) /\ DOMAIN q = 1..Len(q)
      /\ DOMAIN (s \o q) = 1..Len(s) + Len(q)
  BY <1>1
<1>3. \A i \in 1..Len(s) : (s \o q)[i] = s[i]
  OBVIOUS
<1>4. \A i \in 1..Len(q) : (s \o q)[Len(s) + i] = q[i]
  OBVIOUS
<1>5. ASSUME NEW i \in 1..Len(s) + Len(q), i \notin 1..Len(s)
      PROVE  i - Len(s) \in 1..Len(q) /\ i = Len(s) + (i - Len(s))
  <2>1. \A m, n \in Nat : \A k \in 1..m + n :
          k \notin 1..m => k - m \in 1..n /\ k = m + (k - m)
    OBVIOUS
  <2>2. QED
    BY <1>1, <1>5, <2>1
<1>6. QED
  BY <1>1, <1>2, <1>3, <1>4, <1>5

\* Within is kept by joining.
LEMMA WithinJoined ==
  ASSUME NEW S, NEW s \in Seq(S), NEW q \in Seq(S), NEW t \in Seq(S), NEW u \in Seq(S),
         Within(s, q), Within(t, u)
  PROVE  Within(s \o t, q \o u)
<1>0. /\ Len(s) \in Nat /\ Len(t) \in Nat
      /\ DOMAIN s = 1..Len(s) /\ DOMAIN t = 1..Len(t)
      /\ \A i \in 1..Len(s) : (s \o t)[i] = s[i]
      /\ \A i \in 1..Len(t) : (s \o t)[Len(s) + i] = t[i]
      /\ \A i \in DOMAIN (s \o t) :
           i \in 1..Len(s) \/ \E j \in 1..Len(t) : i = Len(s) + j
  BY Joined
<1>a. /\ Len(q) \in Nat /\ Len(u) \in Nat
      /\ DOMAIN q = 1..Len(q) /\ DOMAIN u = 1..Len(u)
      /\ \A k \in 1..Len(q) : k \in DOMAIN (q \o u) /\ (q \o u)[k] = q[k]
      /\ \A k \in 1..Len(u) :
           Len(q) + k \in DOMAIN (q \o u) /\ (q \o u)[Len(q) + k] = u[k]
  <2>1. /\ Len(q) \in Nat /\ Len(u) \in Nat
        /\ DOMAIN q = 1..Len(q) /\ DOMAIN u = 1..Len(u)
        /\ DOMAIN (q \o u) = 1..Len(q) + Len(u)
        /\ \A k \in 1..Len(q) : (q \o u)[k] = q[k]
        /\ \A k \in 1..Len(u) : (q \o u)[Len(q) + k] = u[k]
    BY Joined
  <2>2. \A m, n \in Nat : /\ \A k \in 1..m : k \in 1..m + n
                          /\ \A k \in 1..n : m + k \in 1..m + n
    OBVIOUS
  <2>3. QED
    BY <2>1, <2>2
<1>1. ASSUME NEW i \in DOMAIN (s \o t), (s \o t)[i] # NoMsg
      PROVE  (s \o t)[i] \in Range(q \o u)
  <2>1. CASE i \in 1..Len(s)
    <3>1. (s \o t)[i] = s[i] /\ i \in DOMAIN s
      BY <2>1, <1>0, <1>a
    <3>2. PICK k \in DOMAIN q : q[k] = s[i]
      BY <1>1, <3>1 DEF Within, Range
    <3>3. k \in DOMAIN (q \o u) /\ (q \o u)[k] = q[k]
      BY <1>0, <1>a
    <3>4. QED
      BY <3>1, <3>2, <3>3 DEF Range
  <2>2. ASSUME NEW j \in 1..Len(t), i = Len(s) + j PROVE (s \o t)[i] \in Range(q \o u)
    <3>1. (s \o t)[i] = t[j] /\ j \in DOMAIN t
      BY <2>2, <1>0, <1>a
    <3>2. PICK k \in DOMAIN u : u[k] = t[j]
      BY <1>1, <3>1 DEF Within, Range
    <3>3. Len(q) + k \in DOMAIN (q \o u) /\ (q \o u)[Len(q) + k] = u[k]
      BY <1>0, <1>a
    <3>4. QED
      BY <3>1, <3>2, <3>3 DEF Range
  <2>3. QED
    BY <2>1, <2>2, <1>0, <1>a
<1>2. ASSUME NEW i \in DOMAIN (s \o t), NEW j \in DOMAIN (s \o t), i < j,
             (s \o t)[i] # NoMsg, (s \o t)[j] # NoMsg
      PROVE  Before(q \o u, (s \o t)[i], (s \o t)[j])
  <2>1. CASE i \in 1..Len(s) /\ j \in 1..Len(s)
    <3>1. (s \o t)[i] = s[i] /\ (s \o t)[j] = s[j] /\ i \in DOMAIN s /\ j \in DOMAIN s
      BY <2>1, <1>0, <1>a
    <3>2. PICK k \in DOMAIN q, l \in DOMAIN q : k < l /\ q[k] = s[i] /\ q[l] = s[j]
      BY <1>2, <3>1 DEF Within, Before
    <3>3. /\ k \in DOMAIN (q \o u) /\ (q \o u)[k] = q[k]
          /\ l \in DOMAIN (q \o u) /\ (q \o u)[l] = q[l]
      BY <1>0, <1>a
    <3>4. QED
      BY <3>1, <3>2, <3>3 DEF Before
  <2>2. ASSUME NEW m \in 1..Len(t), j = Len(s) + m, i \in 1..Len(s)
        PROVE  Before(q \o u, (s \o t)[i], (s \o t)[j])
    <3>1. /\ (s \o t)[i] = s[i] /\ i \in DOMAIN s
          /\ (s \o t)[j] = t[m] /\ m \in DOMAIN t
      BY <2>2, <1>0, <1>a
    <3>2. PICK k \in DOMAIN q : q[k] = s[i]
      BY <1>2, <3>1 DEF Within, Range
    <3>3. PICK l \in DOMAIN u : u[l] = t[m]
      BY <1>2, <3>1 DEF Within, Range
    <3>4. /\ k \in DOMAIN (q \o u) /\ (q \o u)[k] = q[k]
          /\ Len(q) + l \in DOMAIN (q \o u) /\ (q \o u)[Len(q) + l] = u[l]
          /\ k \in 1..Len(q) /\ l \in 1..Len(u) /\ Len(q) \in Nat /\ Len(u) \in Nat
      BY <1>0, <1>a
    <3>5. k < Len(q) + l
      BY <3>4
    <3>6. QED
      BY <3>1, <3>2, <3>3, <3>4, <3>5 DEF Before
  <2>3. ASSUME NEW m \in 1..Len(t), j = Len(s) + m, NEW n \in 1..Len(t), i = Len(s) + n
        PROVE  Before(q \o u, (s \o t)[i], (s \o t)[j])
    <3>1. /\ (s \o t)[i] = t[n] /\ n \in DOMAIN t
          /\ (s \o t)[j] = t[m] /\ m \in DOMAIN t
      BY <2>3, <1>0, <1>a
    <3>2. n < m
      <4>1. Len(s) \in Nat /\ Len(t) \in Nat
        BY <1>0, <1>a
      <4>2. QED
        BY <1>2, <2>3, <4>1
    <3>3. PICK k \in DOMAIN u, l \in DOMAIN u : k < l /\ u[k] = t[n] /\ u[l] = t[m]
      BY <1>2, <3>1, <3>2 DEF Within, Before
    <3>4. /\ Len(q) + k \in DOMAIN (q \o u) /\ (q \o u)[Len(q) + k] = u[k]
          /\ Len(q) + l \in DOMAIN (q \o u) /\ (q \o u)[Len(q) + l] = u[l]
          /\ k \in 1..Len(u) /\ l \in 1..Len(u) /\ Len(q) \in Nat /\ Len(u) \in Nat
      BY <1>0, <1>a
    <3>5. Len(q) + k < Len(q) + l
      BY <3>3, <3>4
    <3>6. QED
      BY <3>1, <3>3, <3>4, <3>5 DEF Before
  <2>4. /\ i \in 1..Len(s) \/ \E n \in 1..Len(t) : i = Len(s) + n
        /\ j \in 1..Len(s) \/ \E m \in 1..Len(t) : j = Len(s) + m
    BY <1>0, <1>a
  <2>5. ~(j \in 1..Len(s) /\ \E n \in 1..Len(t) : i = Len(s) + n)
    <3>1. Len(s) \in Nat /\ Len(t) \in Nat
      BY <1>0, <1>a
    <3>2. QED
      BY <1>2, <3>1
  <2>6. QED
    BY <2>1, <2>2, <2>3, <2>4, <2>5
<1>3. QED
  BY <1>1, <1>2 DEF Within

\* Nothing but NoMsg is within anything.
LEMMA NothingWithin ==
  ASSUME NEW s, NEW q, \A i \in DOMAIN s : s[i] = NoMsg
  PROVE  Within(s, q)
BY DEF Within

\* A part of a sequence is within it.
LEMMA PartWithin ==
  ASSUME NEW S, NEW s \in Seq(S), NEW a \in Nat, NEW t \in Seq(S),
         a + Len(t) <= Len(s), \A i \in 1..Len(t) : t[i] = s[a + i]
  PROVE  Within(t, s)
<1>1. Len(s) \in Nat /\ Len(t) \in Nat /\ DOMAIN s = 1..Len(s) /\ DOMAIN t = 1..Len(t)
  OBVIOUS
<1>2. \A i \in 1..Len(t) : a + i \in 1..Len(s)
  BY <1>1
<1>3. ASSUME NEW i \in DOMAIN t PROVE t[i] \in Range(s)
  <2>1. a + i \in DOMAIN s /\ t[i] = s[a + i]
    BY <1>1, <1>2
  <2>2. QED
    BY <2>1 DEF Range
<1>4. ASSUME NEW i \in DOMAIN t, NEW j \in DOMAIN t, i < j PROVE Before(s, t[i], t[j])
  <2>1. /\ a + i \in DOMAIN s /\ t[i] = s[a + i]
        /\ a + j \in DOMAIN s /\ t[j] = s[a + j]
    BY <1>1, <1>2
  <2>2. a + i < a + j
    BY <1>1, <1>4
  <2>3. QED
    BY <2>1, <2>2 DEF Before
<1>5. QED
  BY <1>3, <1>4 DEF Within

\* What Carried and Held are.
LEMMA CarriedSeq ==
  ASSUME NEW s \in Seq(Token)
  PROVE  /\ Carried(s) \in Seq(Slot)
         /\ Len(Carried(s)) = Len(s)
         /\ \A i \in 1..Len(s) :
              Carried(s)[i] = IF s[i].payload THEN s[i].msg ELSE NoMsg
<1>1. Len(s) \in Nat /\ \A i \in 1..Len(s) : s[i] \in Token
  OBVIOUS
<1>2. Carried(s) \in [1..Len(s) -> Slot]
  BY <1>1 DEF Carried, Token, Slot
<1>3. QED
  BY <1>1, <1>2 DEF Carried

\* The same of messages.
LEMMA HeldSeq ==
  ASSUME NEW s \in Seq(Message)
  PROVE  /\ Held(s) \in Seq(Slot)
         /\ Len(Held(s)) = Len(s)
         /\ \A i \in 1..Len(s) : Held(s)[i] = IF s[i].whole THEN s[i].msg ELSE NoMsg
<1>1. Len(s) \in Nat /\ \A i \in 1..Len(s) : s[i] \in Message
  OBVIOUS
<1>2. Held(s) \in [1..Len(s) -> Slot]
  BY <1>1 DEF Held, Message, Slot
<1>3. QED
  BY <1>1, <1>2 DEF Held

\* Equal sequences.
LEMMA SameSeq ==
  ASSUME NEW S, NEW s \in Seq(S), NEW q \in Seq(S),
         Len(s) = Len(q), \A i \in 1..Len(s) : s[i] = q[i]
  PROVE  s = q
BY SeqEqual

\* The announces of tokens that follow others.
LEMMA CarriedJoined ==
  ASSUME NEW s \in Seq(Token), NEW q \in Seq(Token)
  PROVE  Carried(s \o q) = Carried(s) \o Carried(q)
<1> DEFINE both == Carried(s) \o Carried(q)
<1>1. /\ s \o q \in Seq(Token)
      /\ Len(s) \in Nat /\ Len(q) \in Nat /\ Len(s \o q) = Len(s) + Len(q)
      /\ \A i \in 1..Len(s) : (s \o q)[i] = s[i]
      /\ \A i \in 1..Len(q) : (s \o q)[Len(s) + i] = q[i]
      /\ \A i \in 1..Len(s) + Len(q) :
           i \in 1..Len(s) \/ \E j \in 1..Len(q) : i = Len(s) + j
  BY Joined
<1>2. /\ Carried(s) \in Seq(Slot) /\ Carried(q) \in Seq(Slot) /\ Carried(s \o q) \in Seq(Slot)
      /\ Len(Carried(s)) = Len(s) /\ Len(Carried(q)) = Len(q)
      /\ Len(Carried(s \o q)) = Len(s) + Len(q)
  BY <1>1, CarriedSeq
<1>3. /\ both \in Seq(Slot) /\ Len(both) = Len(s) + Len(q)
      /\ \A i \in 1..Len(s) : both[i] = Carried(s)[i]
      /\ \A i \in 1..Len(q) : both[Len(s) + i] = Carried(q)[i]
  <2> DEFINE a == Carried(s)
             b == Carried(q)
  <2>1. a \in Seq(Slot) /\ b \in Seq(Slot) /\ Len(a) = Len(s) /\ Len(b) = Len(q)
    BY <1>2
  <2> HIDE DEF a, b
  <2>2. /\ a \o b \in Seq(Slot) /\ Len(a \o b) = Len(a) + Len(b)
        /\ \A i \in 1..Len(a) : (a \o b)[i] = a[i]
        /\ \A i \in 1..Len(b) : (a \o b)[Len(a) + i] = b[i]
    BY <2>1
  <2>3. QED
    BY <2>1, <2>2 DEF a, b
<1>4. ASSUME NEW i \in 1..Len(s) + Len(q) PROVE Carried(s \o q)[i] = both[i]
  <2> HIDE DEF both
  <2>1. Carried(s \o q)[i] = IF (s \o q)[i].payload THEN (s \o q)[i].msg ELSE NoMsg
    BY <1>1, CarriedSeq
  <2>2. CASE i \in 1..Len(s)
    BY <1>1, <1>3, <2>1, <2>2, CarriedSeq
  <2>3. ASSUME NEW j \in 1..Len(q), i = Len(s) + j PROVE Carried(s \o q)[i] = both[i]
    BY <1>1, <1>3, <2>1, <2>3, CarriedSeq
  <2>4. QED
    BY <1>1, <2>2, <2>3
<1>5. QED
  <2> HIDE DEF both
  <2>1. Carried(s \o q) = both
    BY <1>1, <1>2, <1>3, <1>4, SameSeq
  <2>2. QED
    BY <2>1 DEF both

\* The announce of a message, and those queued before it.
Worth(lm) == IF lm.whole THEN lm.msg ELSE NoMsg

\* What messages bring when one more is queued.
LEMMA HeldAppended ==
  ASSUME NEW s \in Seq(Message), NEW lm \in Message
  PROVE  Held(Append(s, lm)) = Held(s) \o <<Worth(lm)>>
<1>1. /\ Append(s, lm) \in Seq(Message)
      /\ Len(s) \in Nat /\ Len(Append(s, lm)) = Len(s) + 1
      /\ Append(s, lm)[Len(s) + 1] = lm
      /\ \A i \in 1..Len(s) : Append(s, lm)[i] = s[i]
  OBVIOUS
<1>2. Worth(lm) \in Slot
  BY DEF Worth, Message, Slot
<1>3. /\ Held(s) \in Seq(Slot) /\ Held(Append(s, lm)) \in Seq(Slot)
      /\ Len(Held(s)) = Len(s) /\ Len(Held(Append(s, lm))) = Len(s) + 1
  BY <1>1, HeldSeq
<1> DEFINE both == Held(s) \o <<Worth(lm)>>
<1>4. /\ both \in Seq(Slot) /\ Len(both) = Len(s) + 1
      /\ both[Len(s) + 1] = Worth(lm)
      /\ \A i \in 1..Len(s) : both[i] = Held(s)[i]
  BY <1>2, <1>3
<1>5. ASSUME NEW i \in 1..Len(s) + 1 PROVE Held(Append(s, lm))[i] = both[i]
  <2> HIDE DEF both
  <2>1. Held(Append(s, lm))[i] = Worth(Append(s, lm)[i])
    BY <1>1, HeldSeq DEF Worth
  <2>2. CASE i \in 1..Len(s)
    BY <1>1, <1>4, <2>1, <2>2, HeldSeq DEF Worth
  <2>3. CASE i = Len(s) + 1
    BY <1>1, <1>4, <2>1, <2>3
  <2>4. QED
    BY <1>1, <2>2, <2>3
<1>6. QED
  <2> HIDE DEF both
  <2>1. Held(Append(s, lm)) = both
    BY <1>1, <1>3, <1>4, <1>5, SameSeq
  <2>2. QED
    BY <2>1 DEF both

\* The announces of the messages after the first.
LEMMA HeldHead ==
  ASSUME NEW s \in Seq(Message), s # <<>>
  PROVE  /\ Head(s) \in Message /\ Tail(s) \in Seq(Message)
         /\ Held(s) = <<Worth(Head(s))>> \o Held(Tail(s))
<1>1. /\ Len(s) \in Nat \ {0} /\ Head(s) = s[1] /\ Head(s) \in Message
      /\ Tail(s) \in Seq(Message)
      /\ Len(Tail(s)) = Len(s) - 1
      /\ \A i \in 1..Len(s) - 1 : Tail(s)[i] = s[i + 1]
  BY HeadTailProperties
<1>2. Worth(Head(s)) \in Slot
  BY <1>1 DEF Worth, Message, Slot
<1>3. /\ Held(s) \in Seq(Slot) /\ Held(Tail(s)) \in Seq(Slot)
      /\ Len(Held(s)) = Len(s) /\ Len(Held(Tail(s))) = Len(s) - 1
  BY <1>1, HeldSeq
<1> DEFINE both == <<Worth(Head(s))>> \o Held(Tail(s))
<1>4. /\ both \in Seq(Slot) /\ Len(both) = Len(s)
      /\ both[1] = Worth(Head(s))
      /\ \A i \in 2..Len(s) : both[i] = Held(Tail(s))[i - 1]
  <2> DEFINE a == Worth(Head(s))
             b == Held(Tail(s))
  <2>1. a \in Slot /\ b \in Seq(Slot) /\ Len(b) = Len(s) - 1 /\ Len(s) \in Nat \ {0}
    BY <1>1, <1>2, <1>3
  <2> HIDE DEF a, b
  <2>2. /\ <<a>> \o b \in Seq(Slot) /\ Len(<<a>> \o b) = 1 + Len(b)
        /\ (<<a>> \o b)[1] = a
        /\ \A i \in 2..Len(b) + 1 : (<<a>> \o b)[i] = b[i - 1]
    BY <2>1
  <2>3. QED
    BY <2>1, <2>2 DEF a, b
<1>5. ASSUME NEW i \in 1..Len(s) PROVE Held(s)[i] = both[i]
  <2> HIDE DEF both
  <2>1. Held(s)[i] = Worth(s[i])
    BY <1>1, HeldSeq DEF Worth
  <2>2. CASE i = 1
    BY <1>1, <1>4, <2>1, <2>2
  <2>3. CASE i # 1
    <3>1. i \in 2..Len(s) /\ i - 1 \in 1..Len(s) - 1 /\ (i - 1) + 1 = i
      BY <1>1, <2>3
    <3>2. Held(Tail(s))[i - 1] = Worth(Tail(s)[i - 1])
      BY <1>1, <3>1, HeldSeq DEF Worth
    <3>3. QED
      BY <1>1, <1>4, <2>1, <3>1, <3>2
  <2>4. QED
    BY <2>2, <2>3
<1>6. QED
  <2> HIDE DEF both
  <2>1. Held(s) = both
    BY <1>1, <1>3, <1>4, <1>5, SameSeq
  <2>2. QED
    BY <1>1, <2>1 DEF both

\* What is left of a buffer brings announces that the buffer brought.
LEMMA CarriedFrom ==
  ASSUME NEW b \in Seq(Token), NEW i \in 1..Len(b) + 1
  PROVE  /\ From(b, i) \in Seq(Token)
         /\ Len(From(b, i)) = Len(b) + 1 - i
         /\ \A j \in 1..Len(b) + 1 - i : Carried(From(b, i))[j] = Carried(b)[i - 1 + j]
         /\ Within(Carried(From(b, i)), Carried(b))
<1>1. Len(b) \in Nat /\ i \in Nat \ {0} /\ i <= Len(b) + 1
  OBVIOUS
<1>2. /\ From(b, i) \in Seq(Token)
      /\ Len(From(b, i)) = Len(b) + 1 - i
      /\ \A j \in 1..Len(b) + 1 - i : From(b, i)[j] = b[i - 1 + j]
  BY <1>1 DEF From
<1>3. ASSUME NEW j \in 1..Len(b) + 1 - i
      PROVE  Carried(From(b, i))[j] = Carried(b)[i - 1 + j]
  <2>1. i - 1 + j \in 1..Len(b)
    BY <1>1
  <2>2. QED
    BY <1>2, <2>1, CarriedSeq
<1>4. Within(Carried(From(b, i)), Carried(b))
  <2> DEFINE s == Carried(b)
             t == Carried(From(b, i))
             a == i - 1
  <2>1. /\ s \in Seq(Slot) /\ t \in Seq(Slot)
        /\ Len(s) = Len(b) /\ Len(t) = Len(b) + 1 - i
    BY <1>2, CarriedSeq
  <2>2. a \in Nat /\ a + Len(t) <= Len(s) /\ \A j \in 1..Len(t) : t[j] = s[a + j]
    BY <1>1, <1>3, <2>1
  <2> HIDE DEF s, t, a
  <2>3. Within(t, s)
    BY <2>1, <2>2, PartWithin
  <2>4. QED
    BY <2>3 DEF s, t
<1>5. QED
  BY <1>2, <1>3, <1>4

\* Parse brings nothing that is not in the buffer, and takes what it brings
\* from before what it leaves.
LEMMA ParseCarries ==
  ASSUME NEW b \in Seq(Token), NEW r \in Parse(b)
  PROVE  /\ r.rest \in Seq(Token)
         /\ Within(Carried(r.rest), Carried(b))
         /\ r.whole /\ r.msg # NoMsg => Within(<<r.msg>> \o Carried(r.rest), Carried(b))
<1> DEFINE Kept == \E i \in 1..Len(b) + 1 : r.rest = From(b, i)
<1>1. Len(b) \in Nat
  OBVIOUS
<1>2. From(b, 1) = b
  BY DEF From
<1>3. Kept => r.rest \in Seq(Token) /\ Within(Carried(r.rest), Carried(b))
  BY CarriedFrom
<1>4. CASE b = <<>>
  <2>1. r = None(b)
    BY <1>4 DEF Parse
  <2>2. r.rest = From(b, 1) /\ 1 \in 1..Len(b) + 1 /\ r.msg = NoMsg
    BY <1>1, <1>2, <2>1 DEF None, Parsed
  <2>3. QED
    BY <1>3, <2>2
<1>5. CASE b # <<>> /\ b[1].payload
  <2>1. r = [None(b) EXCEPT !.kill = TRUE] \/ \E i \in 1..Len(b) + 1 : r = None(From(b, i))
    BY <1>5 DEF Parse
  <2>2. CASE r = [None(b) EXCEPT !.kill = TRUE]
    <3>1. r.rest = From(b, 1) /\ 1 \in 1..Len(b) + 1 /\ r.msg = NoMsg
      BY <1>1, <1>2, <2>2 DEF None, Parsed
    <3>2. QED
      BY <1>3, <3>1
  <2>3. CASE \E i \in 1..Len(b) + 1 : r = None(From(b, i))
    <3>1. Kept /\ r.msg = NoMsg
      BY <2>3 DEF None, Parsed
    <3>2. QED
      BY <1>3, <3>1
  <2>4. QED
    BY <2>1, <2>2, <2>3
<1>6. CASE b # <<>> /\ ~b[1].payload
  <2>0. Len(b) \in Nat \ {0} /\ b[1] \in Token
    BY <1>6
  <2>1. CASE b[1].type \in Bare
    <3>1. r = Parsed(b[1].type, NoMsg, TRUE, From(b, 2))
      BY <1>6, <2>1 DEF Parse
    <3>2. Kept /\ r.msg = NoMsg
      BY <2>0, <3>1 DEF Parsed
    <3>3. QED
      BY <1>3, <3>2
  <2>2. CASE b[1].type \notin Bare /\ r = Parsed(b[1].type, b[1].msg, FALSE, b)
    <3>1. r.rest = From(b, 1) /\ 1 \in 1..Len(b) + 1 /\ r.whole = FALSE
      BY <1>1, <1>2, <2>2 DEF Parsed
    <3>2. QED
      BY <1>3, <3>1
  <2>3. CASE /\ b[1].type \notin Bare /\ Len(b) # 1
             /\ b[2] = [b[1] EXCEPT !.payload = TRUE]
             /\ r = Parsed(b[1].type, b[1].msg, TRUE, From(b, 3))
    <3>0. r.rest = From(b, 3) /\ r.msg = b[1].msg
      BY <2>3 DEF Parsed
    <3>1. /\ 3 \in 1..Len(b) + 1 /\ r.rest = From(b, 3) /\ r.msg = b[1].msg
          /\ Len(b) - 1 \in Nat /\ 2 \in 1..Len(b)
      <4> DEFINE l == Len(b)
      <4>1. l \in Nat \ {0} /\ l # 1
        BY <2>0, <2>3
      <4> HIDE DEF l
      <4>2. 3 \in 1..l + 1 /\ l - 1 \in Nat /\ 2 \in 1..l
        BY <4>1
      <4>3. QED
        BY <3>0, <4>2 DEF l
    <3>2. Carried(b)[2] = r.msg
      <4>1. b[2].payload /\ b[2].msg = b[1].msg
        BY <2>0, <2>3 DEF Token
      <4>2. QED
        BY <3>1, <4>1, CarriedSeq
    <3>3. /\ Carried(From(b, 3)) \in Seq(Slot) /\ Len(Carried(From(b, 3))) = Len(b) - 2
          /\ Carried(b) \in Seq(Slot) /\ Len(Carried(b)) = Len(b)
          /\ \A j \in 1..Len(b) - 2 : Carried(From(b, 3))[j] = Carried(b)[2 + j]
      <4>1. /\ From(b, 3) \in Seq(Token) /\ Len(From(b, 3)) = Len(b) + 1 - 3
            /\ \A j \in 1..Len(b) + 1 - 3 : Carried(From(b, 3))[j] = Carried(b)[3 - 1 + j]
        BY <3>1, CarriedFrom
      <4>2. Len(b) + 1 - 3 = Len(b) - 2 /\ 3 - 1 = 2
        BY <1>1
      <4>3. QED
        BY <4>1, <4>2, CarriedSeq
    <3> DEFINE s == Carried(b)
               rest == Carried(From(b, 3))
               m == r.msg
               t == <<m>> \o rest
    <3>4. m \in Slot
      BY <2>0, <3>1 DEF Token, Slot
    <3>5. s \in Seq(Slot) /\ rest \in Seq(Slot) /\ s[2] = m /\ Len(s) - 1 \in Nat
          /\ Len(rest) = Len(s) - 2 /\ \A j \in 1..Len(rest) : rest[j] = s[2 + j]
      BY <3>1, <3>2, <3>3
    <3>6. Within(t, s)
      <4> HIDE DEF s, rest, m
      <4>1. t \in Seq(Slot) /\ Len(t) = Len(s) - 1
        BY <3>4, <3>5
      <4>2. ASSUME NEW j \in 1..Len(t) PROVE t[j] = s[1 + j]
        <5>1. CASE j = 1
          BY <3>4, <3>5, <5>1
        <5>2. CASE j # 1
          <6>1. j - 1 \in 1..Len(rest) /\ 2 + (j - 1) = 1 + j
            BY <3>5, <4>1, <5>2
          <6>2. t[j] = rest[j - 1]
            BY <3>4, <3>5, <6>1
          <6>3. QED
            BY <3>5, <6>1, <6>2
        <5>3. QED
          BY <5>1, <5>2
      <4>3. 1 + Len(t) <= Len(s)
        BY <3>5, <4>1
      <4> HIDE DEF t
      <4>4. QED
        BY <3>5, <4>1, <4>2, <4>3, PartWithin
    <3>7. QED
      BY <1>3, <3>1, <3>6
  <2>4. CASE \E i \in 3..Len(b) + 1 : r = Parsed(b[1].type, NoMsg, TRUE, From(b, i))
    <3>1. Kept /\ r.msg = NoMsg
      BY <1>1, <2>4 DEF Parsed
    <3>2. QED
      BY <1>3, <3>1
  <2>5. QED
    BY <1>6, <2>1, <2>2, <2>3, <2>4 DEF Parse
<1>7. QED
  BY <1>4, <1>5, <1>6

\* What is sent of a message brings its announce, if anything.
LEMMA SendCarries ==
  ASSUME NEW c \in Conn, NEW e \in End, NEW lm \in Message, Send(c, e, lm),
         wire \in [Conn -> [End -> Seq(Token)]]
  PROVE  \E s \in Seq(Token) : /\ wire' = [wire EXCEPT ![c][Peer(e)] = @ \o s]
                               /\ Within(Carried(s), <<Worth(lm)>>)
<1> DEFINE header == [type |-> lm.type, msg |-> lm.msg, payload |-> FALSE]
           payload == [header EXCEPT !.payload = TRUE]
<1>1. Peer(e) \in End
  BY DEF Peer, End
<1>2. /\ header \in Token /\ header.payload = FALSE
      /\ payload \in Token /\ payload.payload = TRUE /\ payload.msg = lm.msg
  BY DEF Message, Token
<1>3. \/ Tokens(lm) = <<header, payload>> /\ lm.whole
      \/ Tokens(lm) = <<header>>
  BY DEF Tokens
<1> HIDE DEF header, payload
<1>4. <<>> \in Seq(Token) /\ Within(Carried(<<>>), <<Worth(lm)>>)
  BY NothingWithin DEF Carried
<1>5. <<header>> \in Seq(Token) /\ Within(Carried(<<header>>), <<Worth(lm)>>)
  <2> DEFINE q == <<header>>
  <2>1. q \in Seq(Token) /\ Len(q) = 1 /\ q[1] = header /\ 1 \in 1..1
    BY <1>2
  <2> HIDE DEF q
  <2>2. Carried(q) \in Seq(Slot) /\ Len(Carried(q)) = 1 /\ Carried(q)[1] = NoMsg
    BY <1>2, <2>1 DEF Carried, Slot
  <2>3. \A i \in DOMAIN Carried(q) : Carried(q)[i] = NoMsg
    BY <2>2
  <2>4. Within(Carried(q), <<Worth(lm)>>)
    BY <2>3, NothingWithin
  <2>5. QED
    BY <2>1, <2>4 DEF q
<1>6. lm.whole => /\ <<header, payload>> \in Seq(Token)
                  /\ Within(Carried(<<header, payload>>), <<Worth(lm)>>)
  <2> SUFFICES ASSUME lm.whole PROVE /\ <<header, payload>> \in Seq(Token)
                  /\ Within(Carried(<<header, payload>>), <<Worth(lm)>>)
    OBVIOUS
  <2> DEFINE q == <<header, payload>>
  <2>1. q \in Seq(Token) /\ Len(q) = 2 /\ q[1] = header /\ q[2] = payload
    BY <1>2
  <2> HIDE DEF q
  <2>2. Carried(q) \in Seq(Slot) /\ Len(Carried(q)) = 2
        /\ Carried(q)[1] = NoMsg /\ Carried(q)[2] = lm.msg
    <3>1. Carried(q) \in Seq(Slot) /\ Len(Carried(q)) = 2
      BY <2>1, CarriedSeq
    <3>2. Carried(q) = [i \in 1..2 |-> IF q[i].payload THEN q[i].msg ELSE NoMsg]
      BY <2>1 DEF Carried
    <3>3. QED
      BY <1>2, <2>1, <3>1, <3>2
  <2>3. DOMAIN Carried(q) = {1, 2}
    BY <2>2
  <2>4. Worth(lm) = lm.msg /\ Range(<<Worth(lm)>>) = {lm.msg}
    BY DEF Worth, Range
  <2>5. Within(Carried(q), <<Worth(lm)>>)
    BY <2>2, <2>3, <2>4 DEF Within
  <2>6. QED
    BY <2>1, <2>5 DEF q
<1>7. Tokens(lm) \in Seq(Token) /\ Within(Carried(Tokens(lm)), <<Worth(lm)>>)
  BY <1>3, <1>5, <1>6
<1>8. CASE UNCHANGED wire
  <2>1. wire[c][Peer(e)] \o <<>> = wire[c][Peer(e)]
    BY <1>1
  <2>2. wire' = [wire EXCEPT ![c][Peer(e)] = @ \o <<>>]
    BY <1>1, <1>8, <2>1
  <2>3. QED
    BY <1>4, <2>2
<1>9. CASE wire' = [wire EXCEPT ![c][Peer(e)] = @ \o Tokens(lm)]
  BY <1>7, <1>9
<1>10. ASSUME NEW n \in 0..Len(Tokens(lm)) - 1,
              wire' = [wire EXCEPT ![c][Peer(e)] = @ \o SubSeq(Tokens(lm), 1, n)]
       PROVE  \E s \in Seq(Token) : /\ wire' = [wire EXCEPT ![c][Peer(e)] = @ \o s]
                                    /\ Within(Carried(s), <<Worth(lm)>>)
  <2>1. SubSeq(Tokens(lm), 1, n) \in {<<>>, <<header>>}
    <3>1. CASE Tokens(lm) = <<header>>
      BY <1>2, <1>10, <3>1
    <3>2. CASE Tokens(lm) = <<header, payload>>
      <4>1. n \in {0, 1}
        BY <1>10, <3>2
      <4>2. SubSeq(<<header, payload>>, 1, 1) = <<header>>
        <5> DEFINE q == <<header, payload>>
                   t == SubSeq(q, 1, 1)
        <5>1. q \in Seq(Token) /\ Len(q) = 2 /\ q[1] = header
          BY <1>2
        <5>2. <<header>> \in Seq(Token) /\ Len(<<header>>) = 1 /\ <<header>>[1] = header
          BY <1>2
        <5> HIDE DEF q
        <5>3. t \in Seq(Token) /\ Len(t) = 1 /\ t[1] = q[1]
          <6>1. t = [i \in 1..1 |-> q[1 + i - 1]]
            BY <5>1, SMT
          <6>2. t[1] = q[1]
            BY <6>1
          <6>3. t \in Seq(Token) /\ Len(t) = 1
            <7>1. 1 \in Int /\ \A i \in 1..1 : q[i] \in Token
              BY <1>2, <5>1
            <7>2. t \in Seq(Token) /\ Len(t) = IF 1 <= 1 THEN 1 - 1 + 1 ELSE 0
              BY <7>1, SubSeqProperties
            <7>3. QED
              BY <7>2
          <6>4. QED
            BY <6>2, <6>3
        <5> HIDE DEF t
        <5>4. t = <<header>>
          BY <5>1, <5>2, <5>3, SameSeq
        <5>5. QED
          BY <5>4 DEF t, q
      <4>3. SubSeq(<<header, payload>>, 1, 0) = <<>>
        BY <1>2
      <4>4. QED
        BY <3>2, <4>1, <4>2, <4>3
    <3>3. QED
      BY <1>3, <3>1, <3>2
  <2>2. QED
    BY <1>4, <1>5, <1>10, <2>1
<1>11. QED
  BY <1>8, <1>9, <1>10 DEF Send

\* What is on its way to an end: received and on the wire, taken and queued.
FlowOf(b, w, h, q) == (Carried(b) \o Carried(w)) \o (Held(h) \o Held(q))

\* Sequences of slots, joined.
LEMMA SlotsJoined ==
  ASSUME NEW s \in Seq(Slot), NEW q \in Seq(Slot)
  PROVE  s \o q \in Seq(Slot)
OBVIOUS

\* Joining is associative.
LEMMA SlotsAssociate ==
  ASSUME NEW s \in Seq(Slot), NEW q \in Seq(Slot), NEW t \in Seq(Slot)
  PROVE  (s \o q) \o t = s \o (q \o t)
BY ConcatAssociative

\* What is on its way is a sequence of announces.
LEMMA FlowSeq ==
  ASSUME NEW b \in Seq(Token), NEW w \in Seq(Token),
         NEW h \in Seq(Message), NEW q \in Seq(Message)
  PROVE  FlowOf(b, w, h, q) \in Seq(Slot)
<1>1. /\ Carried(b) \in Seq(Slot) /\ Carried(w) \in Seq(Slot)
      /\ Held(h) \in Seq(Slot) /\ Held(q) \in Seq(Slot)
  BY CarriedSeq, HeldSeq
<1>2. QED
  BY <1>1, SlotsJoined DEF FlowOf

\* A message that is sent moves on, or is lost.
LEMMA FlowSent ==
  ASSUME NEW b \in Seq(Token), NEW w \in Seq(Token), NEW s \in Seq(Token),
         NEW h \in Seq(Message), h # <<>>, NEW q \in Seq(Message),
         Within(Carried(s), <<Worth(Head(h))>>)
  PROVE  Within(FlowOf(b, w \o s, Tail(h), q), FlowOf(b, w, h, q))
<1>1. /\ Head(h) \in Message /\ Tail(h) \in Seq(Message)
      /\ Held(h) = <<Worth(Head(h))>> \o Held(Tail(h))
  BY HeldHead
<1>2. Carried(w \o s) = Carried(w) \o Carried(s)
  BY CarriedJoined
<1> DEFINE A == Carried(b)
           W == Carried(w)
           T == Carried(s)
           H == Held(Tail(h))
           Q == Held(q)
           x == <<Worth(Head(h))>>
<1>3. /\ A \in Seq(Slot) /\ W \in Seq(Slot) /\ T \in Seq(Slot)
      /\ H \in Seq(Slot) /\ Q \in Seq(Slot)
  BY <1>1, CarriedSeq, HeldSeq
<1>4. x \in Seq(Slot)
  <2>1. Worth(Head(h)) \in Slot
    BY <1>1 DEF Worth, Message, Slot
  <2>2. QED
    BY <2>1, OneOrTwo
<1>5. /\ FlowOf(b, w \o s, Tail(h), q) = (A \o (W \o T)) \o (H \o Q)
      /\ FlowOf(b, w, h, q) = (A \o W) \o ((x \o H) \o Q)
  BY <1>1, <1>2 DEF FlowOf
<1>6. Within(T, x)
  OBVIOUS
<1> HIDE DEF A, W, T, H, Q, x
<1>7. A \o W \in Seq(Slot) /\ H \o Q \in Seq(Slot)
  BY <1>3, SlotsJoined
<1>8. (A \o (W \o T)) \o (H \o Q) = (A \o W) \o (T \o (H \o Q))
  <2>1. A \o (W \o T) = (A \o W) \o T
    BY <1>3, SlotsAssociate
  <2> DEFINE line == A \o W
             rest == H \o Q
  <2>2. line \in Seq(Slot) /\ rest \in Seq(Slot) /\ T \in Seq(Slot)
    BY <1>3, <1>7
  <2> HIDE DEF line, rest
  <2>3. (line \o T) \o rest = line \o (T \o rest)
    BY <2>2, SlotsAssociate
  <2>4. QED
    BY <2>1, <2>3 DEF line, rest
<1>9. (x \o H) \o Q = x \o (H \o Q)
  BY <1>3, <1>4, SlotsAssociate
<1>10. Within(T \o (H \o Q), x \o (H \o Q))
  BY <1>3, <1>4, <1>6, <1>7, WithinItself, WithinJoined
<1>11. T \o (H \o Q) \in Seq(Slot) /\ x \o (H \o Q) \in Seq(Slot)
  BY <1>3, <1>4, <1>7, SlotsJoined
<1>12. Within((A \o W) \o (T \o (H \o Q)), (A \o W) \o (x \o (H \o Q)))
  BY <1>7, <1>10, <1>11, WithinItself, WithinJoined
<1>13. QED
  BY <1>5, <1>8, <1>9, <1>12

\* The parts of a flow may lose announces.
LEMMA FlowWithin ==
  ASSUME NEW b \in Seq(Token), NEW w \in Seq(Token),
         NEW h \in Seq(Message), NEW q \in Seq(Message),
         NEW bb \in Seq(Token), NEW ww \in Seq(Token),
         NEW hh \in Seq(Message), NEW qq \in Seq(Message),
         Within(Carried(bb) \o Carried(ww), Carried(b) \o Carried(w)),
         Within(Held(hh) \o Held(qq), Held(h) \o Held(q))
  PROVE  Within(FlowOf(bb, ww, hh, qq), FlowOf(b, w, h, q))
<1>1. /\ Carried(b) \o Carried(w) \in Seq(Slot) /\ Carried(bb) \o Carried(ww) \in Seq(Slot)
      /\ Held(h) \o Held(q) \in Seq(Slot) /\ Held(hh) \o Held(qq) \in Seq(Slot)
  BY CarriedSeq, HeldSeq, SlotsJoined
<1>2. QED
  BY <1>1, WithinJoined DEF FlowOf

\* A queue that is dropped, or taken whatever was taken before.
LEMMA FlowTaken ==
  ASSUME NEW b \in Seq(Token), NEW w \in Seq(Token),
         NEW h \in Seq(Message), NEW q \in Seq(Message)
  PROVE  /\ Within(FlowOf(b, w, h, <<>>), FlowOf(b, w, h, q))
         /\ Within(FlowOf(b, w, q, <<>>), FlowOf(b, w, h, q))
<1>1. <<>> \in Seq(Message) /\ <<>> \in Seq(Slot) /\ Held(<<>>) = <<>>
  BY DEF Held
<1>2. Held(h) \in Seq(Slot) /\ Held(q) \in Seq(Slot)
  BY HeldSeq
<1>3. Within(<<>>, Held(h)) /\ Within(<<>>, Held(q))
  BY NothingWithin
<1>4. Held(q) \o <<>> = <<>> \o Held(q)
  BY <1>2
<1>5. Within(Held(h) \o <<>>, Held(h) \o Held(q))
  BY <1>1, <1>2, <1>3, WithinItself, WithinJoined
<1>6. Within(<<>> \o Held(q), Held(h) \o Held(q))
  BY <1>1, <1>2, <1>3, WithinItself, WithinJoined
<1>7. Within(Carried(b) \o Carried(w), Carried(b) \o Carried(w))
  BY WithinItself
<1>8. QED
  BY <1>1, <1>4, <1>5, <1>6, <1>7, FlowWithin

\* What is sent without an announce.
LEMMA FlowSaid ==
  ASSUME NEW b \in Seq(Token), NEW w \in Seq(Token), NEW s \in Seq(Token),
         NEW h \in Seq(Message), NEW q \in Seq(Message), NEW qq \in {q, <<>>},
         Within(Carried(s), <<NoMsg>>)
  PROVE  Within(FlowOf(b, w \o s, h, qq), FlowOf(b, w, h, q))
<1>1. w \o s \in Seq(Token)
  OBVIOUS
<1>2. /\ Carried(b) \in Seq(Slot) /\ Carried(w) \in Seq(Slot) /\ Carried(s) \in Seq(Slot)
      /\ Held(h) \in Seq(Slot) /\ Held(q) \in Seq(Slot) /\ <<>> \in Seq(Slot)
  BY CarriedSeq, HeldSeq
<1>3. Within(Carried(s), <<>>)
  <2>1. Within(<<NoMsg>>, <<>>)
    BY NothingWithin
  <2>2. QED
    BY <2>1, WithinThrough
<1>4. Within(Carried(w) \o Carried(s), Carried(w))
  <2>1. Within(Carried(w) \o Carried(s), Carried(w) \o <<>>)
    BY <1>2, <1>3, WithinItself, WithinJoined
  <2>2. Carried(w) \o <<>> = Carried(w)
    BY <1>2
  <2>3. QED
    BY <2>1, <2>2
<1>5. Within(Carried(b) \o Carried(w \o s), Carried(b) \o Carried(w))
  <2>1. Carried(w \o s) = Carried(w) \o Carried(s)
    BY CarriedJoined
  <2>2. Carried(w) \o Carried(s) \in Seq(Slot)
    BY <1>2, SlotsJoined
  <2>3. QED
    BY <1>2, <1>4, <2>1, <2>2, WithinItself, WithinJoined
<1>6. Within(Held(h) \o Held(q), Held(h) \o Held(q))
  BY WithinItself
<1>7. Within(FlowOf(b, w \o s, h, q), FlowOf(b, w, h, q))
  BY <1>1, <1>5, <1>6, FlowWithin
<1>8. Within(FlowOf(b, w \o s, h, <<>>), FlowOf(b, w \o s, h, q))
  BY <1>1, FlowTaken
<1>9. QED
  BY <1>7, <1>8, WithinThrough

\* What is queued comes after all that is on its way.
LEMMA FlowQueued ==
  ASSUME NEW b \in Seq(Token), NEW w \in Seq(Token),
         NEW h \in Seq(Message), NEW q \in Seq(Message), NEW lm \in Message
  PROVE  FlowOf(b, w, h, Append(q, lm)) = FlowOf(b, w, h, q) \o <<Worth(lm)>>
<1> DEFINE L == Carried(b) \o Carried(w)
           H == Held(h)
           Q == Held(q)
           x == <<Worth(lm)>>
<1>1. L \in Seq(Slot) /\ H \in Seq(Slot) /\ Q \in Seq(Slot)
  BY CarriedSeq, HeldSeq, SlotsJoined
<1>2. x \in Seq(Slot)
  <2>1. Worth(lm) \in Slot
    BY DEF Worth, Message, Slot
  <2>2. QED
    BY <2>1, OneOrTwo
<1>3. /\ FlowOf(b, w, h, Append(q, lm)) = L \o (H \o (Q \o x))
      /\ FlowOf(b, w, h, q) \o <<Worth(lm)>> = (L \o (H \o Q)) \o x
  BY HeldAppended DEF FlowOf
<1> HIDE DEF L, H, Q, x
<1>4. H \o (Q \o x) = (H \o Q) \o x /\ H \o Q \in Seq(Slot)
  <2>1. (H \o Q) \o x = H \o (Q \o x)
    BY <1>1, <1>2, SlotsAssociate
  <2>2. QED
    BY <1>1, <2>1, SlotsJoined
<1>5. L \o ((H \o Q) \o x) = (L \o (H \o Q)) \o x
  BY <1>1, <1>2, <1>4, SlotsAssociate
<1>6. QED
  BY <1>3, <1>4, <1>5

\* What is received goes on to the tracker, or is lost.
LEMMA FlowReceived ==
  ASSUME NEW b \in Seq(Token), NEW w \in Seq(Token), NEW n \in 0..Len(w),
         NEW h \in Seq(Message), NEW q \in Seq(Message),
         NEW r \in Parse(b \o SubSeq(w, 1, n))
  PROVE  /\ r.rest \in Seq(Token) /\ From(w, n + 1) \in Seq(Token)
         /\ Within(FlowOf(r.rest, From(w, n + 1), h, q), FlowOf(b, w, h, q))
         /\ r.whole /\ r.msg # NoMsg =>
              Within(<<r.msg>> \o FlowOf(r.rest, From(w, n + 1), h, q), FlowOf(b, w, h, q))
<1> DEFINE read == SubSeq(w, 1, n)
           left == From(w, n + 1)
<1>1. /\ Len(w) \in Nat /\ read \in Seq(Token) /\ left \in Seq(Token)
      /\ w = read \o left
  <2>1. Len(w) \in Nat /\ 1 \in 1..Len(w) + 1 /\ n \in 0..Len(w)
    OBVIOUS
  <2>2. SubSeq(w, 1, n) \in Seq(Token) /\ SubSeq(w, n + 1, Len(w)) \in Seq(Token)
    OBVIOUS
  <2>3. SubSeq(w, 1, n) \o SubSeq(w, n + 1, Len(w)) = SubSeq(w, 1, Len(w))
    <3>1. n \in 1 - 1 .. Len(w)
      BY <2>1
    <3>2. 1 \in 1..Len(w) + 1 /\ Len(w) \in n..Len(w)
      BY <2>1
    <3>3. QED
      BY <3>1, <3>2, ConcatAdjacentSubSeq
  <2>4. SubSeq(w, 1, Len(w)) = w
    BY SubSeqFull
  <2>5. read \o left = w
    BY <2>3, <2>4 DEF From
  <2>6. QED
    BY <2>1, <2>2, <2>5 DEF From
<1>2. r \in Parse(b \o read)
  OBVIOUS
<1> HIDE DEF read, left
<1>3. b \o read \in Seq(Token)
  BY <1>1
<1>4. /\ r.rest \in Seq(Token)
      /\ Within(Carried(r.rest), Carried(b \o read))
      /\ r.whole /\ r.msg # NoMsg => Within(<<r.msg>> \o Carried(r.rest), Carried(b \o read))
  BY <1>2, <1>3, ParseCarries
<1>5. Carried(b) \o Carried(w) = Carried(b \o read) \o Carried(left)
  <2>1. Carried(w) = Carried(read) \o Carried(left)
    BY <1>1, CarriedJoined
  <2>2. Carried(b \o read) = Carried(b) \o Carried(read)
    BY <1>1, CarriedJoined
  <2> DEFINE B == Carried(b)
             R == Carried(read)
             L == Carried(left)
  <2>3. B \in Seq(Slot) /\ R \in Seq(Slot) /\ L \in Seq(Slot)
    BY <1>1, CarriedSeq
  <2>4. Carried(b) \o Carried(w) = B \o (R \o L) /\ Carried(b \o read) = B \o R
    BY <2>1, <2>2
  <2> HIDE DEF B, R, L
  <2>5. (B \o R) \o L = B \o (R \o L)
    BY <2>3, SlotsAssociate
  <2>6. QED
    BY <2>4, <2>5 DEF L
<1>6. /\ Carried(r.rest) \in Seq(Slot) /\ Carried(left) \in Seq(Slot)
      /\ Carried(b \o read) \in Seq(Slot)
      /\ Held(h) \o Held(q) \in Seq(Slot)
  BY <1>1, <1>3, <1>4, CarriedSeq, HeldSeq, SlotsJoined
<1>7. Within(Carried(r.rest) \o Carried(left), Carried(b) \o Carried(w))
  BY <1>4, <1>5, <1>6, WithinItself, WithinJoined
<1>8. Within(FlowOf(r.rest, left, h, q), FlowOf(b, w, h, q))
  BY <1>1, <1>4, <1>7, WithinItself, FlowWithin
<1>9. ASSUME r.whole, r.msg # NoMsg
      PROVE  Within(<<r.msg>> \o FlowOf(r.rest, left, h, q), FlowOf(b, w, h, q))
  <2> DEFINE x == <<r.msg>>
             R == Carried(r.rest)
             L == Carried(left)
             H == Held(h) \o Held(q)
             B == Carried(b \o read)
  <2>1. Within(x \o R, B)
    BY <1>4, <1>9
  <2>2. x \in Seq(Slot)
    <3>1. \A t \in Token : t.msg \in Slot
      BY DEF Token, Slot
    <3>2. NoMsg \in Slot
      BY DEF Slot
    <3>3. r.msg \in Slot
      <4>1. Token \in SUBSET Token
        OBVIOUS
      <4>2. r.msg = NoMsg \/ \E t \in Token : r.msg = t.msg /\ r.type = t.type
        BY <1>2, <1>3, <4>1, ParseTakes
      <4>3. QED
        BY <3>1, <3>2, <4>2
    <3>4. QED
      BY <3>3, OneOrTwo
  <2>3. /\ R \in Seq(Slot) /\ L \in Seq(Slot) /\ H \in Seq(Slot) /\ B \in Seq(Slot)
    BY <1>6
  <2>4. /\ FlowOf(r.rest, left, h, q) = (R \o L) \o H
        /\ FlowOf(b, w, h, q) = (B \o L) \o H
    BY <1>5 DEF FlowOf
  <2> HIDE DEF x, R, L, H, B
  <2>5. Within((x \o R) \o L, B \o L) /\ (x \o R) \o L \in Seq(Slot) /\ B \o L \in Seq(Slot)
    <3>1. x \o R \in Seq(Slot)
      BY <2>2, <2>3, SlotsJoined
    <3>2. QED
      BY <2>1, <2>3, <3>1, SlotsJoined, WithinItself, WithinJoined
  <2>6. Within(((x \o R) \o L) \o H, (B \o L) \o H)
    BY <2>3, <2>5, WithinItself, WithinJoined
  <2>7. ((x \o R) \o L) \o H = x \o ((R \o L) \o H)
    <3>1. (x \o R) \o L = x \o (R \o L) /\ R \o L \in Seq(Slot)
      BY <2>2, <2>3, SlotsAssociate, SlotsJoined
    <3>2. (x \o (R \o L)) \o H = x \o ((R \o L) \o H)
      BY <2>2, <2>3, <3>1, SlotsAssociate
    <3>3. QED
      BY <3>1, <3>2
  <2>8. QED
    BY <2>4, <2>6, <2>7 DEF x
<1>10. QED
  BY <1>1, <1>4, <1>8, <1>9 DEF left

Flow(c, e) ==
  FlowOf(buf[c][e], wire[c][e], batch[c][Peer(e)], queue[c][Peer(e)])

\* The primary's thread holds an announce that it has yet to relay.
Pending(c, m) ==
  pc[c]["primary"] = "relay" /\ relay[c].whole /\ relay[c].msg = m

\* IsChannel needs to know where the announces are that have not arrived yet,
\* that no announce is queued twice, and that one which came from a secondary
\* reaches the queues of the others only after it has been handed over here.
ChannelInv ==
  /\ \A c \in Conn, e \in End : Within(got[c][e] \o Flow(c, e), put[c][e])
  /\ \A c \in Conn, e \in End, m \in Msg : ~Before(put[c][e], m, m)
  /\ \A c \in Conn, m \in Msg : Pending(c, m) => m \in Range(got[c]["primary"])
  /\ \A c, d \in Conn, m \in Msg :
       m \in Own(c) /\ m \in Range(put[d]["secondary"])
         => m \in Range(got[c]["primary"]) /\ ~Pending(c, m)

\* The two ends of a connection.
LEMMA Peers ==
  /\ "primary" \in End /\ "secondary" \in End /\ "primary" # "secondary"
  /\ \A e \in End : Peer(e) \in End /\ Peer(e) # e /\ Peer(Peer(e)) = e
  /\ Peer("primary") = "secondary" /\ Peer("secondary") = "primary"
BY DEF Peer, End

\* The types of what an end has and of what is on its way to it.
LEMMA TypesAt ==
  ASSUME TypeInv, NEW c \in Conn, NEW e \in End
  PROVE  /\ buf[c][e] \in Seq(Token) /\ wire[c][e] \in Seq(Token)
         /\ batch[c][e] \in Seq(Message) /\ queue[c][e] \in Seq(Message)
         /\ put[c][e] \in Seq(Msg) /\ got[c][e] \in Seq(Msg)
         /\ Flow(c, e) \in Seq(Slot)
<1>1. /\ buf[c][e] \in Seq(Token) /\ wire[c][e] \in Seq(Token)
      /\ put[c][e] \in Seq(Msg) /\ got[c][e] \in Seq(Msg)
      /\ \A f \in End : batch[c][f] \in Seq(Message) /\ queue[c][f] \in Seq(Message)
  BY DEF TypeInv, EndsOK, RestOK
<1>2. Flow(c, e) \in Seq(Slot)
  BY <1>1, Peers, FlowSeq DEF Flow
<1>3. QED
  BY <1>1, <1>2

\* So has the next state.
LEMMA FlowThen ==
  ASSUME TypeInv', NEW c \in Conn, NEW e \in End
  PROVE  Flow(c, e)' \in Seq(Slot)
<1>1. buf'[c][e] \in Seq(Token) /\ wire'[c][e] \in Seq(Token)
  BY DEF TypeInv, EndsOK
<1>2. \A f \in End : batch'[c][f] \in Seq(Message) /\ queue'[c][f] \in Seq(Message)
  BY DEF TypeInv, RestOK
<1>3. QED
  BY <1>1, <1>2, Peers, FlowSeq DEF Flow

\* No announce is brought forward on a channel that is left alone.
LEMMA FlowAlone ==
  ASSUME NEW d \in Conn, NEW f \in End,
         UNCHANGED <<buf[d][f], wire[d][f], batch[d][Peer(f)], queue[d][Peer(f)]>>
  PROVE  Flow(d, f)' = Flow(d, f)
BY DEF Flow

\* Sending no announce: to the other end's channel, perhaps losing the queue.
LEMMA SaidFlow ==
  ASSUME NEW c \in Conn, NEW e \in End, NEW type \in Type,
         Send(c, e, Control(type)), TypeInv, UNCHANGED <<batch, buf>>,
         queue' \in {queue, [queue EXCEPT ![c][e] = <<>>]},
         NEW d \in Conn, NEW f \in End
  PROVE  Within(Flow(d, f)', Flow(d, f))
<1>1. Control(type) \in Message /\ Worth(Control(type)) = NoMsg
  BY Messages DEF Worth, Control, Content
<1>2. wire \in [Conn -> [End -> Seq(Token)]] /\ queue \in [Conn -> [End -> Seq(Message)]]
  BY DEF TypeInv, EndsOK, RestOK
<1>3. PICK s \in Seq(Token) : /\ wire' = [wire EXCEPT ![c][Peer(e)] = @ \o s]
                              /\ Within(Carried(s), <<NoMsg>>)
  <2>1. \E s \in Seq(Token) : /\ wire' = [wire EXCEPT ![c][Peer(e)] = @ \o s]
                              /\ Within(Carried(s), <<Worth(Control(type))>>)
    BY <1>1, <1>2, SendCarries
  <2>2. QED
    BY <1>1, <2>1
<1>4. CASE d = c /\ f = Peer(e)
  <2>1. wire'[d][f] = wire[d][f] \o s
    BY <1>2, <1>3, <1>4
  <2>2. queue'[d][Peer(f)] \in {queue[d][Peer(f)], <<>>}
    BY <1>2, <1>4, Peers
  <2>3. /\ buf[d][f] \in Seq(Token) /\ wire[d][f] \in Seq(Token)
        /\ batch[d][Peer(f)] \in Seq(Message) /\ queue[d][Peer(f)] \in Seq(Message)
    BY Peers, TypesAt
  <2>4. Within(FlowOf(buf[d][f], wire[d][f] \o s, batch[d][Peer(f)], queue'[d][Peer(f)]),
               FlowOf(buf[d][f], wire[d][f], batch[d][Peer(f)], queue[d][Peer(f)]))
    BY <1>3, <2>2, <2>3, FlowSaid
  <2>5. QED
    BY <2>1, <2>4 DEF Flow
<1>5. CASE ~(d = c /\ f = Peer(e))
  <2>1. wire'[d][f] = wire[d][f]
    BY <1>2, <1>3, <1>5
  <2>2. queue'[d][Peer(f)] = queue[d][Peer(f)]
    <3>1. d # c \/ Peer(f) # e
      BY <1>5, Peers
    <3>2. Peer(f) \in End
      BY Peers
    <3>3. QED
      BY <1>2, <3>1, <3>2
  <2>3. QED
    BY <2>1, <2>2, FlowAlone, WithinItself
<1>6. QED
  BY <1>4, <1>5

\* Losing the queue, if anything.
LEMMA DroppedFlow ==
  ASSUME NEW c \in Conn, NEW e \in End, TypeInv, UNCHANGED <<batch, buf, wire>>,
         queue' \in {queue, [queue EXCEPT ![c][e] = <<>>]},
         NEW d \in Conn, NEW f \in End
  PROVE  Within(Flow(d, f)', Flow(d, f))
<1>1. queue \in [Conn -> [End -> Seq(Message)]]
  BY DEF TypeInv, RestOK
<1>2. /\ buf[d][f] \in Seq(Token) /\ wire[d][f] \in Seq(Token)
      /\ batch[d][Peer(f)] \in Seq(Message) /\ queue[d][Peer(f)] \in Seq(Message)
  BY Peers, TypesAt
<1>3. queue'[d][Peer(f)] \in {queue[d][Peer(f)], <<>>}
  BY <1>1, Peers
<1>4. CASE queue'[d][Peer(f)] = queue[d][Peer(f)]
  BY <1>4, FlowAlone, WithinItself
<1>5. CASE queue'[d][Peer(f)] = <<>>
  BY <1>2, <1>5, FlowTaken DEF Flow
<1>6. QED
  BY <1>3, <1>4, <1>5

\* Taking the queue.
LEMMA FlushFlow ==
  ASSUME NEW c \in Conn, NEW e \in End, TypeInv, Flush(c, e),
         NEW d \in Conn, NEW f \in End
  PROVE  Within(Flow(d, f)', Flow(d, f))
<1>1. UNCHANGED <<wire, buf>>
  BY DEF Flush
<1>2. CASE UNCHANGED <<queue, batch>>
  BY <1>1, <1>2, FlowAlone, WithinItself
<1>3. CASE /\ batch' = [batch EXCEPT ![c][e] = queue[c][e]]
           /\ queue' = [queue EXCEPT ![c][e] = <<>>]
  <2>1. /\ queue \in [Conn -> [End -> Seq(Message)]]
        /\ batch \in [Conn -> [End -> Seq(Message)]]
    BY DEF TypeInv, RestOK
  <2>2. CASE d = c /\ f = Peer(e)
    <3>1. batch'[d][Peer(f)] = queue[d][Peer(f)] /\ queue'[d][Peer(f)] = <<>>
      BY <1>3, <2>1, <2>2, Peers
    <3>2. /\ buf[d][f] \in Seq(Token) /\ wire[d][f] \in Seq(Token)
          /\ batch[d][Peer(f)] \in Seq(Message) /\ queue[d][Peer(f)] \in Seq(Message)
      BY Peers, TypesAt
    <3>3. QED
      BY <1>1, <3>1, <3>2, FlowTaken DEF Flow
  <2>3. CASE ~(d = c /\ f = Peer(e))
    <3>1. batch'[d][Peer(f)] = batch[d][Peer(f)] /\ queue'[d][Peer(f)] = queue[d][Peer(f)]
      BY <1>3, <2>1, <2>3, Peers
    <3>2. QED
      BY <1>1, <3>1, FlowAlone, WithinItself
  <2>4. QED
    BY <2>2, <2>3
<1>4. QED
  BY <1>2, <1>3 DEF Flush, Take

\* Sending what was taken.
LEMMA SendNextFlow ==
  ASSUME NEW c \in Conn, NEW e \in End, TypeInv, SendNext(c, e),
         NEW d \in Conn, NEW f \in End
  PROVE  Within(Flow(d, f)', Flow(d, f))
<1>1. /\ UNCHANGED <<queue, buf>>
      /\ Send(c, e, Head(batch[c][e]))
      /\ At(c, e, "send")
  BY DEF SendNext
<1>2. /\ batch' = [batch EXCEPT ![c][e] = Tail(batch[c][e])]
      /\ batch \in [Conn -> [End -> Seq(Message)]]
      /\ wire \in [Conn -> [End -> Seq(Token)]]
  BY DEF SendNext, TypeInv, RestOK, EndsOK
<1>3. Head(batch[c][e]) \in Message /\ batch[c][e] # <<>>
  BY <1>1, HeadOfBatch DEF TypeInv, SomethingToSend
<1>4. PICK s \in Seq(Token) : /\ wire' = [wire EXCEPT ![c][Peer(e)] = @ \o s]
                              /\ Within(Carried(s), <<Worth(Head(batch[c][e]))>>)
  BY <1>1, <1>2, <1>3, SendCarries
<1>5. CASE d = c /\ f = Peer(e)
  <2>1. /\ wire'[d][f] = wire[d][f] \o s
        /\ Peer(f) = e /\ batch'[d][Peer(f)] = Tail(batch[d][Peer(f)])
    BY <1>2, <1>4, <1>5, Peers
  <2>2. /\ buf[d][f] \in Seq(Token) /\ wire[d][f] \in Seq(Token)
        /\ batch[d][Peer(f)] \in Seq(Message) /\ queue[d][Peer(f)] \in Seq(Message)
    BY Peers, TypesAt
  <2>3. batch[d][Peer(f)] # <<>> /\ Within(Carried(s), <<Worth(Head(batch[d][Peer(f)]))>>)
    BY <1>3, <1>4, <1>5, <2>1
  <2>4. Within(FlowOf(buf[d][f], wire[d][f] \o s, Tail(batch[d][Peer(f)]), queue[d][Peer(f)]),
               FlowOf(buf[d][f], wire[d][f], batch[d][Peer(f)], queue[d][Peer(f)]))
    BY <2>2, <2>3, FlowSent
  <2>5. QED
    BY <1>1, <2>1, <2>4 DEF Flow
<1>6. CASE ~(d = c /\ f = Peer(e))
  <2>1. wire'[d][f] = wire[d][f] /\ batch'[d][Peer(f)] = batch[d][Peer(f)]
    BY <1>2, <1>4, <1>6, Peers
  <2>2. QED
    BY <1>1, <2>1, FlowAlone, WithinItself
<1>7. QED
  BY <1>5, <1>6

\* Receiving: nothing is brought forward, and what is parsed was the first.
LEMMA ReceiveFlow ==
  ASSUME NEW c \in Conn, NEW e \in End, TypeInv,
         NEW n \in 0..Len(wire[c][e]), NEW r \in Results(c, e, n),
         Receive(c, e, n, r), UNCHANGED <<queue, batch>>
  PROVE  /\ \A d \in Conn, f \in End : Within(Flow(d, f)', Flow(d, f))
         /\ r.whole /\ r.msg # NoMsg => Within(<<r.msg>> \o Flow(c, e)', Flow(c, e))
         /\ r.msg \in Slot
<1>1. /\ buf[c][e] \in Seq(Token) /\ wire[c][e] \in Seq(Token)
      /\ batch[c][Peer(e)] \in Seq(Message) /\ queue[c][Peer(e)] \in Seq(Message)
  BY Peers, TypesAt
<1>2. r \in Parse(buf[c][e] \o SubSeq(wire[c][e], 1, n))
  BY DEF Results
<1>3. /\ wire' = [wire EXCEPT ![c][e] = From(wire[c][e], n + 1)]
      /\ buf' = [buf EXCEPT ![c][e] = r.rest]
      /\ wire \in [Conn -> [End -> Seq(Token)]] /\ buf \in [Conn -> [End -> Seq(Token)]]
  BY DEF Receive, TypeInv, EndsOK
<1>4. /\ Within(FlowOf(r.rest, From(wire[c][e], n + 1), batch[c][Peer(e)], queue[c][Peer(e)]),
                FlowOf(buf[c][e], wire[c][e], batch[c][Peer(e)], queue[c][Peer(e)]))
      /\ r.whole /\ r.msg # NoMsg =>
           Within(<<r.msg>> \o FlowOf(r.rest, From(wire[c][e], n + 1),
                                      batch[c][Peer(e)], queue[c][Peer(e)]),
                  FlowOf(buf[c][e], wire[c][e], batch[c][Peer(e)], queue[c][Peer(e)]))
  BY <1>1, <1>2, FlowReceived
<1>5. Flow(c, e)' =
        FlowOf(r.rest, From(wire[c][e], n + 1), batch[c][Peer(e)], queue[c][Peer(e)])
  <2>1. wire'[c][e] = From(wire[c][e], n + 1) /\ buf'[c][e] = r.rest
    BY <1>3
  <2>2. QED
    BY <2>1 DEF Flow
<1>6. ASSUME NEW d \in Conn, NEW f \in End, ~(d = c /\ f = e)
      PROVE  Flow(d, f)' = Flow(d, f)
  <2>1. wire'[d][f] = wire[d][f] /\ buf'[d][f] = buf[d][f]
    BY <1>3, <1>6
  <2>2. QED
    BY <2>1, FlowAlone
<1>7. r.msg \in Slot
  <2>1. r.msg = NoMsg \/ \E t \in Token : r.msg = t.msg
    BY <1>1, ReceiveTakes
  <2>2. QED
    BY <2>1 DEF Token, Slot
<1>8. QED
  BY <1>4, <1>5, <1>6, <1>7, WithinItself DEF Flow

\* A step that neither queues nor hands over an announce.
LEMMA QuietChannel ==
  ASSUME ChannelInv, TypeInv, TypeInv', UNCHANGED <<put, got>>,
         \A d \in Conn, f \in End : Within(Flow(d, f)', Flow(d, f)),
         \A d \in Conn, m \in Msg : Pending(d, m)' => Pending(d, m)
  PROVE  ChannelInv' /\ [Ch!Next]_<<put, got>>
<1>1. ASSUME NEW d \in Conn, NEW f \in End
      PROVE  Within(got'[d][f] \o Flow(d, f)', put'[d][f])
  <2>1. Flow(d, f) \in Seq(Slot) /\ got[d][f] \in Seq(Msg)
    BY TypesAt
  <2>2. Flow(d, f)' \in Seq(Slot)
    BY FlowThen
  <2>3. got[d][f] \in Seq(Slot)
    BY <2>1, SeqOfSubset DEF Slot
  <2>4. Within(got[d][f] \o Flow(d, f)', got[d][f] \o Flow(d, f))
    BY <2>1, <2>2, <2>3, WithinItself, WithinJoined
  <2>5. Within(got[d][f] \o Flow(d, f), put[d][f])
    BY DEF ChannelInv
  <2>6. QED
    BY <2>4, <2>5, WithinThrough
<1>2. \A d \in Conn : Own(d)' = Own(d)
  BY DEF Own
<1>3. ChannelInv'
  BY <1>1, <1>2 DEF ChannelInv
<1>4. QED
  BY <1>3

\* A thread that goes anywhere but to the relay holds no other announce.
LEMMA JumpPending ==
  ASSUME NEW c \in Conn, NEW e \in End, NEW to, to # "relay", Jump(c, e, to),
         UNCHANGED relay, TypeInv, NEW d \in Conn, NEW m, Pending(d, m)'
  PROVE  Pending(d, m)
<1>1. pc' = [pc EXCEPT ![c][e] = to] /\ pc \in [Conn -> [End -> Place]]
  BY DEF Jump, TypeInv, EndsOK
<1>2. pc'[d]["primary"] = "relay"
  BY DEF Pending
<1>3. pc[d]["primary"] = "relay"
  BY <1>1, <1>2, Peers
<1>4. QED
  BY <1>3 DEF Pending

\* What is about to be relayed stays so while the primary's thread does not move.
LEMMA SamePending ==
  ASSUME UNCHANGED <<pc, relay>>, NEW d \in Conn, NEW m, Pending(d, m)'
  PROVE  Pending(d, m)
BY DEF Pending

\* What is received is the next of what has been queued.
LEMMA GotChannel ==
  ASSUME ChannelInv, TypeInv, TypeInv', NEW c \in Conn, NEW e \in End, NEW m \in Msg,
         UNCHANGED put, got' = [got EXCEPT ![c][e] = Append(got[c][e], m)],
         \A d \in Conn, f \in End : Within(Flow(d, f)', Flow(d, f)),
         Within(<<m>> \o Flow(c, e)', Flow(c, e))
  PROVE  /\ \A d \in Conn, f \in End : Within((got[d][f] \o Flow(d, f))', put'[d][f])
         /\ m \in Range(put[c][e]) /\ m \notin Range(got[c][e])
         /\ Ch!Get(c, e)
<1> DEFINE g == got[c][e]
           p == put[c][e]
           after == Flow(c, e)'
           flow == Flow(c, e)
<1>0. ASSUME NEW d \in Conn, NEW f \in End PROVE Flow(d, f)' \in Seq(Slot)
  BY FlowThen
<1>1. ASSUME NEW d \in Conn, NEW f \in End
      PROVE  /\ Flow(d, f) \in Seq(Slot) /\ got[d][f] \in Seq(Slot)
             /\ Within(got[d][f] \o Flow(d, f), put[d][f])
  <2>1. Flow(d, f) \in Seq(Slot) /\ got[d][f] \in Seq(Msg)
    BY TypesAt
  <2>2. QED
    BY <2>1, SeqOfSubset DEF Slot, ChannelInv
<1>2. got \in [Conn -> [End -> Seq(Msg)]] /\ g \in Seq(Msg) /\ p \in Seq(Msg)
  BY TypesAt DEF TypeInv, RestOK
<1>3. ASSUME NEW d \in Conn, NEW f \in End, ~(d = c /\ f = e)
      PROVE  Within((got[d][f] \o Flow(d, f))', put'[d][f])
  <2>1. got'[d][f] = got[d][f]
    BY <1>2, <1>3
  <2>2. Within(got[d][f] \o Flow(d, f)', got[d][f] \o Flow(d, f))
    BY <1>0, <1>1, WithinItself, WithinJoined
  <2>3. QED
    BY <1>1, <2>1, <2>2, WithinThrough
<1>4. Within(g \o (<<m>> \o after), p) /\ <<m>> \in Seq(Slot) /\ m \in Slot
  <2>1. m \in Slot
    BY DEF Slot
  <2>2. <<m>> \in Seq(Slot)
    BY <2>1, OneOrTwo
  <2>3. after \in Seq(Slot) /\ flow \in Seq(Slot) /\ g \in Seq(Slot)
    BY <1>0, <1>1
  <2>4. Within(<<m>> \o after, flow) /\ Within(g \o flow, p)
    BY <1>1
  <2> HIDE DEF g, p, after, flow
  <2>5. <<m>> \o after \in Seq(Slot)
    BY <2>2, <2>3, SlotsJoined
  <2>6. Within(g \o (<<m>> \o after), g \o flow)
    BY <2>3, <2>4, <2>5, WithinItself, WithinJoined
  <2>7. QED
    BY <2>1, <2>2, <2>4, <2>6, WithinThrough
<1>5. Within((got[c][e] \o Flow(c, e))', put'[c][e])
  <2>1. got'[c][e] = Append(g, m)
    BY <1>2
  <2>2. after \in Seq(Slot) /\ g \in Seq(Slot)
    BY <1>0, <1>1
  <2>3. Within(Append(g, m) \o after, p)
    <3> HIDE DEF g, p, after
    <3>1. Append(g, m) = g \o <<m>>
      BY <1>4, <2>2, AppendIsConcat
    <3>2. (g \o <<m>>) \o after = g \o (<<m>> \o after)
      BY <1>4, <2>2, SlotsAssociate
    <3>3. QED
      BY <1>4, <3>1, <3>2
  <2>4. QED
    BY <2>1, <2>3
<1>6. /\ m \in Range(p)
      /\ \A i \in DOMAIN g : Before(p, g[i], m)
  <2> DEFINE all == g \o (<<m>> \o after)
  <2>1. after \in Seq(Slot) /\ g \in Seq(Slot) /\ g \in Seq(Msg)
    BY <1>0, <1>1, <1>2
  <2> HIDE DEF g, p, after
  <2>2. /\ <<m>> \o after \in Seq(Slot) /\ Len(<<m>> \o after) \in Nat \ {0}
        /\ (<<m>> \o after)[1] = m
    BY <1>4, <2>1
  <2> DEFINE k == Len(g) + 1
             more == <<m>> \o after
  <2>3. /\ Len(g) \in Nat /\ DOMAIN all = 1..Len(g) + Len(more) /\ Len(more) \in Nat \ {0}
        /\ all[k] = m /\ \A i \in 1..Len(g) : all[i] = g[i]
    <3> HIDE DEF more
    <3>1. more \in Seq(Slot) /\ Len(more) \in Nat \ {0} /\ more[1] = m
      BY <2>2 DEF more
    <3>2. 1 \in 1..Len(more)
      BY <3>1
    <3>3. /\ Len(g) \in Nat
          /\ DOMAIN (g \o more) = 1..Len(g) + Len(more)
          /\ \A i \in 1..Len(g) : (g \o more)[i] = g[i]
          /\ \A i \in 1..Len(more) : (g \o more)[Len(g) + i] = more[i]
      BY <2>1, <3>1, Joined
    <3>4. QED
      BY <3>1, <3>2, <3>3 DEF more
  <2> HIDE DEF all, more
  <2>4. m # NoMsg /\ \A i \in 1..Len(g) : g[i] # NoMsg
    BY <2>1, LinkAssumption
  <2>5. Within(all, p)
    BY <1>4 DEF all
  <2>6. k \in DOMAIN all /\ \A i \in 1..Len(g) : i \in DOMAIN all /\ i < k
    BY <2>3
  <2>7. m \in Range(p)
    BY <2>3, <2>4, <2>5, <2>6 DEF Within
  <2>8. ASSUME NEW i \in DOMAIN g PROVE Before(p, g[i], m)
    <3>1. i \in 1..Len(g)
      BY <2>1
    <3>2. all[i] = g[i] /\ all[k] = m /\ i < k /\ i \in DOMAIN all /\ k \in DOMAIN all
      BY <2>3, <2>6, <3>1
    <3> HIDE DEF k
    <3>3. Before(p, all[i], all[k])
      BY <2>4, <2>5, <3>1, <3>2 DEF Within
    <3>4. QED
      BY <3>2, <3>3
  <2>9. QED
    BY <2>7, <2>8
<1>7. \A x \in Msg : ~Before(p, x, x)
  BY DEF ChannelInv
<1>8. m \notin Range(g)
  BY <1>6, <1>7 DEF Range
<1>9. Ch!Get(c, e)
  <2>1. PICK i \in DOMAIN p : p[i] = m
    BY <1>6 DEF Range
  <2>2. \A j \in DOMAIN p : p[j] \in Range(g) => j < i
    <3> SUFFICES ASSUME NEW j \in DOMAIN p, NEW l \in DOMAIN g, p[j] = g[l]
                 PROVE  j < i
      BY DEF Range
    <3>1. PICK x \in DOMAIN p, y \in DOMAIN p : x < y /\ p[x] = p[j] /\ p[y] = m
      BY <1>6 DEF Before
    <3>2. p[j] \in Msg /\ DOMAIN p \subseteq Int
      BY <1>2
    <3> HIDE DEF p
    <3>3. ~(j < x) /\ ~(x < j)
      BY <1>7, <3>1, <3>2 DEF Before
    <3>4. ~(i < y) /\ ~(y < i)
      BY <1>7, <2>1, <3>1, <3>2 DEF Before
    <3>5. j = x /\ i = y
      BY <2>1, <3>1, <3>2, <3>3, <3>4
    <3>6. QED
      BY <3>1, <3>5
  <2>3. i \in Ch!Deliverable(c, e)
    BY <2>1, <2>2 DEF Ch!Deliverable, Ch!Range, Range
  <2>4. got' = [got EXCEPT ![c][e] = Append(@, put[c][e][i])]
    BY <1>2, <2>1
  <2>5. QED
    BY <2>3, <2>4 DEF Ch!Get
<1>10. QED
  BY <1>3, <1>5, <1>6, <1>8, <1>9

\* What is queued for an end is the last of what is on its way to it.
LEMMA FlowPut ==
  ASSUME TypeInv, NEW d \in Conn, NEW f \in End, NEW lm \in Message,
         UNCHANGED <<buf, wire, batch>>,
         queue'[d][Peer(f)] = Append(queue[d][Peer(f)], lm)
  PROVE  Flow(d, f)' = Flow(d, f) \o <<Worth(lm)>>
<1>1. /\ buf[d][f] \in Seq(Token) /\ wire[d][f] \in Seq(Token)
      /\ batch[d][Peer(f)] \in Seq(Message) /\ queue[d][Peer(f)] \in Seq(Message)
  BY Peers, TypesAt
<1>2. FlowOf(buf[d][f], wire[d][f], batch[d][Peer(f)], Append(queue[d][Peer(f)], lm))
        = FlowOf(buf[d][f], wire[d][f], batch[d][Peer(f)], queue[d][Peer(f)])
            \o <<Worth(lm)>>
  BY <1>1, FlowQueued
<1>3. QED
  BY <1>2 DEF Flow

\* Nothing is added to a queue that loses none of what is on its way.
LEMMA EmptyQueued ==
  ASSUME TypeInv, NEW d \in Conn, NEW f \in End, NEW lm \in Message, Worth(lm) = NoMsg,
         UNCHANGED <<buf, wire, batch>>,
         queue'[d][Peer(f)] \in {queue[d][Peer(f)], Append(queue[d][Peer(f)], lm)}
  PROVE  Within(Flow(d, f)', Flow(d, f))
<1>1. /\ buf[d][f] \in Seq(Token) /\ wire[d][f] \in Seq(Token)
      /\ batch[d][Peer(f)] \in Seq(Message) /\ queue[d][Peer(f)] \in Seq(Message)
      /\ Flow(d, f) \in Seq(Slot)
  BY Peers, TypesAt
<1>2. CASE queue'[d][Peer(f)] = queue[d][Peer(f)]
  BY <1>2, FlowAlone, WithinItself
<1>3. CASE queue'[d][Peer(f)] = Append(queue[d][Peer(f)], lm)
  <2>1. Flow(d, f)' = Flow(d, f) \o <<NoMsg>>
    BY <1>3, FlowPut
  <2>2. Within(<<NoMsg>>, <<>>) /\ <<NoMsg>> \in Seq(Slot) /\ <<>> \in Seq(Slot)
    <3>1. NoMsg \in Slot
      BY DEF Slot
    <3>2. QED
      BY <3>1, NothingWithin
  <2>3. Within(Flow(d, f) \o <<NoMsg>>, Flow(d, f) \o <<>>)
    BY <1>1, <2>2, WithinItself, WithinJoined
  <2>4. Flow(d, f) \o <<>> = Flow(d, f)
    BY <1>1
  <2>5. QED
    BY <2>1, <2>3, <2>4
<1>4. QED
  BY <1>2, <1>3

\* An announce is queued where it has not been queued before.
LEMMA PutChannel ==
  ASSUME ChannelInv, TypeInv, UNCHANGED <<buf, wire, batch, got>>,
         NEW m \in Msg, NEW lm \in Message, Worth(lm) = m,
         NEW chs \in SUBSET (Conn \X End),
         put' \in [Conn -> [End -> Seq(Msg)]],
         \A d \in Conn, f \in End :
           IF <<d, f>> \in chs
           THEN /\ m \notin Range(put[d][f])
                /\ put'[d][f] = Append(put[d][f], m)
                /\ queue'[d][Peer(f)] = Append(queue[d][Peer(f)], lm)
           ELSE put'[d][f] = put[d][f] /\ queue'[d][Peer(f)] = queue[d][Peer(f)]
  PROVE  /\ \A d \in Conn, f \in End : Within((got[d][f] \o Flow(d, f))', put'[d][f])
         /\ \A d \in Conn, f \in End, x \in Msg : ~Before(put'[d][f], x, x)
         /\ Ch!Put(m, chs)
<1>1. ASSUME NEW d \in Conn, NEW f \in End
      PROVE  /\ Within(got[d][f] \o Flow(d, f), put[d][f])
             /\ put[d][f] \in Seq(Msg) /\ got[d][f] \in Seq(Slot)
             /\ Flow(d, f) \in Seq(Slot)
             /\ \A x \in Msg : ~Before(put[d][f], x, x)
  <2>1. put[d][f] \in Seq(Msg) /\ got[d][f] \in Seq(Msg) /\ Flow(d, f) \in Seq(Slot)
    BY TypesAt
  <2>2. got[d][f] \in Seq(Slot)
    BY <2>1, SeqOfSubset DEF Slot
  <2>3. QED
    BY <2>1, <2>2 DEF ChannelInv
<1>2. ASSUME NEW d \in Conn, NEW f \in End
      PROVE  Within((got[d][f] \o Flow(d, f))', put'[d][f])
  <2>1. CASE <<d, f>> \notin chs
    <3>1. Flow(d, f)' = Flow(d, f)
      BY <2>1, FlowAlone
    <3>2. QED
      BY <1>1, <2>1, <3>1
  <2>2. CASE <<d, f>> \in chs
    <3>1. queue'[d][Peer(f)] = Append(queue[d][Peer(f)], lm)
      BY <2>2
    <3>2. Flow(d, f)' = Flow(d, f) \o <<m>>
      BY <3>1, FlowPut
    <3> DEFINE g == got[d][f]
               p == put[d][f]
               flow == Flow(d, f)
    <3>3. g \in Seq(Slot) /\ flow \in Seq(Slot) /\ p \in Seq(Msg) /\ Within(g \o flow, p)
      BY <1>1
    <3>4. m \in Slot /\ Msg \subseteq Slot
      BY DEF Slot
    <3>5. put'[d][f] = Append(p, m)
      BY <2>2
    <3>6. Within(g \o (flow \o <<m>>), Append(p, m))
      <4> HIDE DEF g, p, flow
      <4>1. p \in Seq(Slot)
        BY <3>3, <3>4, SeqOfSubset
      <4>2. <<m>> \in Seq(Slot)
        BY <3>4, OneOrTwo
      <4>3. Append(p, m) = p \o <<m>>
        BY <3>4, <4>1, AppendIsConcat
      <4>4. g \o flow \in Seq(Slot)
        BY <3>3, SlotsJoined
      <4>5. Within((g \o flow) \o <<m>>, p \o <<m>>)
        BY <3>3, <4>1, <4>2, <4>4, WithinItself, WithinJoined
      <4>6. (g \o flow) \o <<m>> = g \o (flow \o <<m>>)
        BY <3>3, <4>2, SlotsAssociate
      <4>7. QED
        BY <4>3, <4>5, <4>6
    <3>7. QED
      BY <3>2, <3>5, <3>6
  <2>3. QED
    BY <2>1, <2>2
<1>3. ASSUME NEW d \in Conn, NEW f \in End, NEW x \in Msg, Before(put'[d][f], x, x)
      PROVE  FALSE
  <2>1. CASE <<d, f>> \notin chs
    BY <1>1, <1>3, <2>1
  <2>2. CASE <<d, f>> \in chs
    <3> DEFINE p == put[d][f]
    <3>1. put'[d][f] = Append(p, m) /\ m \notin Range(p)
      BY <2>2
    <3>2. p \in Seq(Msg) /\ ~Before(p, x, x)
      BY <1>1
    <3> HIDE DEF p
    <3>3. PICK i, j \in DOMAIN Append(p, m) :
            i < j /\ Append(p, m)[i] = x /\ Append(p, m)[j] = x
      BY <1>3, <3>1 DEF Before
    <3>4. /\ Len(p) \in Nat /\ DOMAIN p = 1..Len(p) /\ DOMAIN Append(p, m) = 1..Len(p) + 1
          /\ Append(p, m)[Len(p) + 1] = m
          /\ \A k \in 1..Len(p) : Append(p, m)[k] = p[k]
      BY <3>2
    <3>5. i \in 1..Len(p) /\ p[i] = x
      BY <3>3, <3>4
    <3>6. CASE j = Len(p) + 1
      BY <3>1, <3>3, <3>4, <3>5, <3>6 DEF Range
    <3>7. CASE j # Len(p) + 1
      <4>1. j \in 1..Len(p) /\ p[j] = x
        BY <3>3, <3>4, <3>7
      <4>2. QED
        BY <3>2, <3>3, <3>4, <3>5, <4>1 DEF Before
    <3>8. QED
      BY <3>6, <3>7
  <2>3. QED
    BY <2>1, <2>2
<1>4. Ch!Put(m, chs)
  <2>1. \A ch \in chs : m \notin Range(put[ch[1]][ch[2]])
    OBVIOUS
  <2>2. put' = [c \in Conn |-> [e \in End |-> IF <<c, e>> \in chs
                                             THEN Append(put[c][e], m) ELSE put[c][e]]]
    <3>1. \A c \in Conn : put'[c] = [e \in End |-> IF <<c, e>> \in chs
                                             THEN Append(put[c][e], m) ELSE put[c][e]]
      OBVIOUS
    <3>2. QED
      BY <3>1
  <2>3. QED
    BY <2>1, <2>2 DEF Ch!Put, Ch!Range, Range
<1>5. QED
  BY <1>2, <1>3, <1>4

\* What has been handed over had been queued.
LEMMA GotOfPut ==
  ASSUME ChannelInv, TypeInv, NEW c \in Conn, NEW e \in End
  PROVE  Range(got[c][e]) \subseteq Range(put[c][e])
<1> DEFINE g == got[c][e]
           flow == Flow(c, e)
<1>1. g \in Seq(Msg) /\ flow \in Seq(Slot) /\ Within(g \o flow, put[c][e])
  BY TypesAt DEF ChannelInv
<1>2. ASSUME NEW i \in DOMAIN g PROVE g[i] \in Range(put[c][e])
  <2>1. g[i] \in Msg /\ g[i] # NoMsg /\ g \in Seq(Slot)
    BY <1>1, SeqOfSubset, LinkAssumption DEF Slot
  <2> HIDE DEF g, flow
  <2>2. /\ Len(g) \in Nat /\ Len(flow) \in Nat /\ DOMAIN g = 1..Len(g)
        /\ DOMAIN (g \o flow) = 1..Len(g) + Len(flow)
        /\ \A k \in 1..Len(g) : (g \o flow)[k] = g[k]
    BY <1>1, <2>1, Joined
  <2>3. i \in DOMAIN (g \o flow) /\ (g \o flow)[i] = g[i]
    BY <2>2
  <2>4. QED
    BY <1>1, <2>1, <2>3 DEF Within
<1>3. QED
  BY <1>2 DEF Range

\* A message is queued for some secondaries.
LEMMA QueueOnChannel ==
  ASSUME ChannelInv, TypeInv, NEW links \in SUBSET Conn, NEW lm \in Message,
         QueueOn(links, lm), UNCHANGED <<buf, wire, batch, got>>,
         Worth(lm) # NoMsg =>
           \A d \in links : Worth(lm) \notin Range(put[d]["secondary"])
  PROVE  /\ \A d \in Conn, f \in End : Within((got[d][f] \o Flow(d, f))', put'[d][f])
         /\ \A d \in Conn, f \in End, x \in Msg : ~Before(put'[d][f], x, x)
         /\ [Ch!Next]_<<put, got>>
         /\ \A d \in Conn : Own(d)' = Own(d)
         /\ \A d \in Conn, x \in Msg :
              x \in Range(put'[d]["secondary"])
                => \/ x \in Range(put[d]["secondary"])
                   \/ x = Worth(lm) /\ Worth(lm) # NoMsg
<1>1. /\ queue \in [Conn -> [End -> Seq(Message)]]
      /\ put \in [Conn -> [End -> Seq(Msg)]]
      /\ put' \in [Conn -> [End -> Seq(Msg)]]
  BY QueueOnType DEF TypeInv, RestOK
<1>2. ASSUME NEW d \in Conn
      PROVE  /\ queue'[d]["secondary"] = queue[d]["secondary"]
             /\ put'[d]["primary"] = put[d]["primary"]
             /\ queue'[d]["primary"] = IF d \in links THEN Append(queue[d]["primary"], lm)
                                       ELSE queue[d]["primary"]
             /\ put'[d]["secondary"] =
                  IF d \in links /\ Worth(lm) # NoMsg
                  THEN Append(put[d]["secondary"], Worth(lm)) ELSE put[d]["secondary"]
  BY <1>1, Peers DEF QueueOn, Worth
<1>3. \A d \in Conn : Own(d)' = Own(d)
  BY <1>2 DEF Own
<1>4. CASE Worth(lm) = NoMsg
  <2>1. put' = put
    BY <1>4 DEF QueueOn, Worth, TypeInv, RestOK
  <2>2. ASSUME NEW d \in Conn, NEW f \in End PROVE Within(Flow(d, f)', Flow(d, f))
    <3>1. queue'[d][Peer(f)] \in {queue[d][Peer(f)], Append(queue[d][Peer(f)], lm)}
      BY <1>2 DEF Peer, End
    <3>2. QED
      BY <1>4, <3>1, EmptyQueued
  <2>3. ASSUME NEW d \in Conn, NEW f \in End
        PROVE  Within((got[d][f] \o Flow(d, f))', put'[d][f])
    <3>1. Flow(d, f) \in Seq(Slot) /\ got[d][f] \in Seq(Msg)
      BY TypesAt
    <3>2. Flow(d, f)' \in Seq(Slot)
      <4>1. queue' \in [Conn -> [End -> Seq(Message)]]
        BY QueueOnType DEF TypeInv
      <4>2. /\ buf'[d][f] \in Seq(Token) /\ wire'[d][f] \in Seq(Token)
            /\ batch'[d][Peer(f)] \in Seq(Message) /\ queue'[d][Peer(f)] \in Seq(Message)
        BY <4>1, Peers, TypesAt
      <4>3. QED
        BY <4>2, FlowSeq DEF Flow
    <3>3. got[d][f] \in Seq(Slot)
      BY <3>1, SeqOfSubset DEF Slot
    <3>4. Within(got[d][f] \o Flow(d, f)', got[d][f] \o Flow(d, f))
      BY <2>2, <3>1, <3>2, <3>3, WithinItself, WithinJoined
    <3>5. Within(got[d][f] \o Flow(d, f), put[d][f])
      BY DEF ChannelInv
    <3>6. QED
      BY <2>1, <3>4, <3>5, WithinThrough
  <2>4. QED
    BY <1>3, <2>1, <2>3 DEF ChannelInv
<1>5. CASE Worth(lm) # NoMsg
  <2> DEFINE chs == {<<d, "secondary">> : d \in links}
             m == Worth(lm)
  <2>1. m \in Msg /\ chs \in SUBSET (Conn \X End)
    BY <1>5, Peers DEF Worth, Message
  <2>2. ASSUME NEW d \in Conn, NEW f \in End
        PROVE  IF <<d, f>> \in chs
               THEN /\ m \notin Range(put[d][f])
                    /\ put'[d][f] = Append(put[d][f], m)
                    /\ queue'[d][Peer(f)] = Append(queue[d][Peer(f)], lm)
               ELSE put'[d][f] = put[d][f] /\ queue'[d][Peer(f)] = queue[d][Peer(f)]
    <3>1. CASE f = "secondary"
      <4>1. Peer(f) = "primary" /\ (<<d, f>> \in chs <=> d \in links)
        BY <3>1, Peers
      <4>2. QED
        BY <1>2, <1>5, <3>1, <4>1
    <3>2. CASE f = "primary"
      <4>1. Peer(f) = "secondary" /\ <<d, f>> \notin chs
        BY <3>2, Peers
      <4>2. QED
        BY <1>2, <3>2, <4>1
    <3>3. QED
      BY <3>1, <3>2 DEF End
  <2> HIDE DEF chs, m
  <2>3. /\ \A d \in Conn, f \in End : Within((got[d][f] \o Flow(d, f))', put'[d][f])
        /\ \A d \in Conn, f \in End, x \in Msg : ~Before(put'[d][f], x, x)
        /\ Ch!Put(m, chs)
    BY <1>1, <2>1, <2>2, PutChannel DEF m
  <2>4. Ch!Next
    BY <2>1, <2>3 DEF Ch!Next
  <2>5. ASSUME NEW d \in Conn, NEW x \in Msg, x \in Range(put'[d]["secondary"])
        PROVE  x \in Range(put[d]["secondary"]) \/ x = m
    <3>1. put[d]["secondary"] \in Seq(Msg)
      BY <1>1, Peers
    <3>2. Range(Append(put[d]["secondary"], m)) = Range(put[d]["secondary"]) \cup {m}
      BY <2>1, <3>1, AppendRange
    <3>3. QED
      BY <1>2, <2>5, <3>2 DEF m
  <2>6. QED
    BY <1>3, <1>5, <2>3, <2>4, <2>5 DEF m
<1>6. QED
  BY <1>4, <1>5

\* The announce handlers queue announces that are new.
LEMMA AnnounceChannel ==
  ASSUME ChannelInv, TypeInv, TypeInv',
         \/ \E m \in Msg : AnnouncePrimary(m)
         \/ \E c \in Conn, m \in Msg : AnnounceSecondary(c, m)
  PROVE  ChannelInv' /\ [Ch!Next]_<<put, got>>
<1>1. ASSUME NEW m \in Msg, AnnouncePrimary(m)
      PROVE  ChannelInv' /\ [Ch!Next]_<<put, got>>
  <2>1. /\ QueueOn(listed, Content("ANNOUNCE", m)) /\ New(m) /\ listed \in SUBSET Conn
        /\ UNCHANGED <<buf, wire, batch, got, pc, relay>>
    BY <1>1 DEF AnnouncePrimary, ends, TypeInv, RestOK
  <2>2. Content("ANNOUNCE", m) \in Message /\ Worth(Content("ANNOUNCE", m)) = m
    BY Messages DEF Content, Worth
  <2>3. \A d \in Conn : m \notin Own(d) /\ m \notin Range(put[d]["secondary"])
    BY <2>1, Peers DEF New, Own
  <2> DEFINE lm == Content("ANNOUNCE", m)
  <2>4. lm \in Message /\ Worth(lm) = m /\ QueueOn(listed, lm)
    BY <2>1, <2>2
  <2> HIDE DEF lm
  <2>5. /\ \A d \in Conn, f \in End : Within((got[d][f] \o Flow(d, f))', put'[d][f])
        /\ \A d \in Conn, f \in End, x \in Msg : ~Before(put'[d][f], x, x)
        /\ [Ch!Next]_<<put, got>>
        /\ \A d \in Conn : Own(d)' = Own(d)
        /\ \A d \in Conn, x \in Msg :
             x \in Range(put'[d]["secondary"]) => x \in Range(put[d]["secondary"]) \/ x = m
    BY <2>1, <2>3, <2>4, QueueOnChannel
  <2>6. \A d \in Conn, x \in Msg : Pending(d, x)' <=> Pending(d, x)
    BY <2>1 DEF Pending
  <2>7. QED
    BY <2>1, <2>3, <2>5, <2>6 DEF ChannelInv
<1>2. ASSUME NEW c \in Conn, NEW m \in Msg, AnnounceSecondary(c, m)
      PROVE  ChannelInv' /\ [Ch!Next]_<<put, got>>
  <2>1. /\ New(m)
        /\ queue' = [queue EXCEPT ![c]["secondary"] =
                       Append(queue[c]["secondary"], Content("ANNOUNCE", m))]
        /\ put' = [put EXCEPT ![c]["primary"] = Append(put[c]["primary"], m)]
        /\ UNCHANGED <<buf, wire, batch, got, pc, relay>>
    BY <1>2 DEF AnnounceSecondary, ends
  <2>2. /\ queue \in [Conn -> [End -> Seq(Message)]]
        /\ put \in [Conn -> [End -> Seq(Msg)]] /\ put' \in [Conn -> [End -> Seq(Msg)]]
    BY DEF TypeInv, RestOK
  <2>3. Content("ANNOUNCE", m) \in Message /\ Worth(Content("ANNOUNCE", m)) = m
    BY Messages DEF Content, Worth
  <2> DEFINE lm == Content("ANNOUNCE", m)
             chs == {<<c, "primary">>}
  <2>4. chs \in SUBSET (Conn \X End)
    BY Peers
  <2>5. ASSUME NEW d \in Conn, NEW f \in End
        PROVE  IF <<d, f>> \in chs
               THEN /\ m \notin Range(put[d][f])
                    /\ put'[d][f] = Append(put[d][f], m)
                    /\ queue'[d][Peer(f)] = Append(queue[d][Peer(f)], lm)
               ELSE put'[d][f] = put[d][f] /\ queue'[d][Peer(f)] = queue[d][Peer(f)]
    <3>1. CASE d = c /\ f = "primary"
      <4>1. Peer(f) = "secondary" /\ <<d, f>> \in chs
        BY <3>1, Peers
      <4>2. m \notin Range(put[d][f])
        BY <2>1 DEF New
      <4>3. QED
        BY <2>1, <2>2, <3>1, <4>1, <4>2, Peers
    <3>2. CASE ~(d = c /\ f = "primary")
      <4>1. <<d, f>> \notin chs /\ Peer(f) \in End /\ (d # c \/ Peer(f) # "secondary")
        BY <3>2, Peers
      <4>2. QED
        BY <2>1, <2>2, <3>2, <4>1
    <3>3. QED
      BY <3>1, <3>2
  <2> HIDE DEF lm, chs
  <2>6. lm \in Message /\ Worth(lm) = m
    BY <2>3 DEF lm
  <2>7. /\ \A d \in Conn, f \in End : Within((got[d][f] \o Flow(d, f))', put'[d][f])
        /\ \A d \in Conn, f \in End, x \in Msg : ~Before(put'[d][f], x, x)
        /\ Ch!Put(m, chs)
    <3>1. UNCHANGED <<buf, wire, batch, got>> /\ put' \in [Conn -> [End -> Seq(Msg)]]
      BY <2>1, <2>2
    <3>2. QED
      BY <2>4, <2>5, <2>6, <3>1, PutChannel
  <2>8. [Ch!Next]_<<put, got>>
    BY <2>4, <2>7 DEF Ch!Next
  <2>9. \A d \in Conn, x \in Msg : Pending(d, x)' <=> Pending(d, x)
    BY <2>1 DEF Pending
  <2>10. ASSUME NEW d \in Conn
         PROVE  /\ \A x \in Msg : x \in Own(d)' => x \in Own(d) \/ x = m
                /\ put'[d]["secondary"] = put[d]["secondary"]
                /\ m \notin Range(put[d]["secondary"])
    <3>1. put'[d]["secondary"] = put[d]["secondary"] /\ m \notin Range(put[d]["secondary"])
      BY <2>1, <2>2, Peers DEF New
    <3>2. put[c]["primary"] \in Seq(Msg)
      BY <2>2, Peers
    <3>3. Range(Append(put[c]["primary"], m)) = Range(put[c]["primary"]) \cup {m}
      BY <3>2, AppendRange
    <3>4. put'[d]["primary"] = IF d = c THEN Append(put[c]["primary"], m) ELSE put[d]["primary"]
      BY <2>1, <2>2, Peers
    <3>5. QED
      BY <3>1, <3>3, <3>4 DEF Own
  <2>11. QED
    BY <2>1, <2>7, <2>8, <2>9, <2>10 DEF ChannelInv
<1>3. QED
  BY <1>1, <1>2

\* What a link relays has not been relayed before.
LEMMA RelayChannel ==
  ASSUME ChannelInv, OriginInv, TypeInv, TypeInv', NEW c \in Conn, Relay(c)
  PROVE  ChannelInv' /\ [Ch!Next]_<<put, got>>
<1> DEFINE lm == relay[c]
           links == RelayTargets(c)
           m == Worth(lm)
<1>1. /\ QueueOn(links, lm) /\ links \in SUBSET Conn /\ lm \in Message
      /\ UNCHANGED <<buf, wire, batch, got, relay>>
      /\ pc' = [pc EXCEPT ![c]["primary"] = "top"] /\ pc[c]["primary"] = "relay"
      /\ pc \in [Conn -> [End -> Place]]
  BY DEF Relay, RelayTargets, TypeInv, RestOK, EndsOK, Jump, At
<1>2. m # NoMsg => /\ m \in Msg /\ Pending(c, m)
  <2>1. m # NoMsg => relay[c].whole /\ relay[c].msg = m
    BY DEF Worth
  <2>2. QED
    BY <1>1, <2>1 DEF Message, Pending
<1> HIDE DEF lm, links, m
<1>3. m # NoMsg => m \in Own(c) /\ m \in Range(got[c]["primary"])
  BY <1>2, GotOfPut, Peers DEF ChannelInv, Own
<1>4. m # NoMsg => \A d \in links : m \notin Range(put[d]["secondary"])
  BY <1>1, <1>2, <1>3 DEF ChannelInv
<1>5. /\ \A d \in Conn, f \in End : Within((got[d][f] \o Flow(d, f))', put'[d][f])
      /\ \A d \in Conn, f \in End, x \in Msg : ~Before(put'[d][f], x, x)
      /\ [Ch!Next]_<<put, got>>
      /\ \A d \in Conn : Own(d)' = Own(d)
      /\ \A d \in Conn, x \in Msg :
           x \in Range(put'[d]["secondary"])
             => \/ x \in Range(put[d]["secondary"])
                \/ x = m /\ m # NoMsg
  <2>1. UNCHANGED <<buf, wire, batch, got>>
    BY <1>1
  <2>2. Worth(lm) # NoMsg => \A d \in links : Worth(lm) \notin Range(put[d]["secondary"])
    BY <1>4 DEF m
  <2>3. QueueOn(links, lm) /\ links \in SUBSET Conn /\ lm \in Message
    BY <1>1
  <2>4. /\ \A d \in Conn, f \in End : Within((got[d][f] \o Flow(d, f))', put'[d][f])
        /\ \A d \in Conn, f \in End, x \in Msg : ~Before(put'[d][f], x, x)
        /\ [Ch!Next]_<<put, got>>
        /\ \A d \in Conn : Own(d)' = Own(d)
        /\ \A d \in Conn, x \in Msg :
             x \in Range(put'[d]["secondary"])
               => \/ x \in Range(put[d]["secondary"])
                  \/ x = Worth(lm) /\ Worth(lm) # NoMsg
    BY <2>1, <2>2, <2>3, QueueOnChannel
  <2>5. QED
    BY <2>4 DEF m
<1>6. ASSUME NEW d \in Conn, NEW x \in Msg, Pending(d, x)'
      PROVE  Pending(d, x) /\ d # c
  BY <1>1, <1>6, Peers DEF Pending
<1>7. \A d \in Conn : m # NoMsg /\ m \in Own(d) => d = c
  BY <1>3 DEF OriginInv
<1>8. ASSUME NEW d \in Conn, NEW f \in Conn, NEW x \in Msg,
             x \in Own(d)', x \in Range(put'[f]["secondary"])
      PROVE  x \in Range(got'[d]["primary"]) /\ ~Pending(d, x)'
  <2>1. x \in Own(d) /\ got' = got
    BY <1>1, <1>5, <1>8
  <2>2. CASE x \in Range(put[f]["secondary"])
    BY <1>6, <2>1, <2>2 DEF ChannelInv
  <2>3. CASE x = m /\ m # NoMsg
    BY <1>3, <1>6, <1>7, <2>1, <2>3
  <2>4. QED
    BY <1>5, <1>8, <2>2, <2>3
<1>9. QED
  BY <1>1, <1>5, <1>6, <1>8 DEF ChannelInv

\* What a secondary receives.
LEMMA ReceiveSecondaryChannel ==
  ASSUME ChannelInv, TypeInv, TypeInv', NEW c \in Conn, ReceiveSecondary(c)
  PROVE  ChannelInv' /\ [Ch!Next]_<<put, got>>
<1>1. PICK n \in 0..Len(wire[c]["secondary"]) : \E r \in Results(c, "secondary", n) :
        /\ Receive(c, "secondary", n, r)
        /\ HandOver(c, "secondary", r)
        /\ Jump(c, "secondary", IF r.type = "CLOSE" THEN "return" ELSE "top")
  BY DEF ReceiveSecondary
<1>2. PICK r \in Results(c, "secondary", n) :
        /\ Receive(c, "secondary", n, r)
        /\ HandOver(c, "secondary", r)
        /\ Jump(c, "secondary", IF r.type = "CLOSE" THEN "return" ELSE "top")
  BY <1>1
<1>3. UNCHANGED <<put, queue, batch, relay>>
  BY DEF ReceiveSecondary
<1>4. /\ \A d \in Conn, f \in End : Within(Flow(d, f)', Flow(d, f))
      /\ r.whole /\ r.msg # NoMsg =>
           Within(<<r.msg>> \o Flow(c, "secondary")', Flow(c, "secondary"))
      /\ r.msg \in Slot
  BY <1>2, <1>3, Peers, ReceiveFlow
<1>5. \A d \in Conn, x \in Msg : Pending(d, x)' => Pending(d, x)
  BY <1>2, <1>3, Peers, JumpPending
<1>6. CASE got' = got
  BY <1>3, <1>4, <1>5, <1>6, QuietChannel
<1>7. CASE r.type = "ANNOUNCE" /\ r.whole /\ r.msg # NoMsg
  <2> DEFINE m == r.msg
  <2>1. /\ m \in Msg
        /\ got' = [got EXCEPT ![c]["secondary"] = Append(got[c]["secondary"], m)]
        /\ Within(<<m>> \o Flow(c, "secondary")', Flow(c, "secondary"))
    BY <1>2, <1>4, <1>7 DEF Slot, HandOver, TypeInv, RestOK
  <2> HIDE DEF m
  <2>2. /\ \A d \in Conn, f \in End : Within((got[d][f] \o Flow(d, f))', put'[d][f])
        /\ Ch!Get(c, "secondary")
    BY <1>3, <1>4, <2>1, Peers, GotChannel
  <2>3. \A d \in Conn : Own(d)' = Own(d) /\ got'[d]["primary"] = got[d]["primary"]
    BY <1>3, <2>1, Peers DEF Own, TypeInv, RestOK
  <2>4. ChannelInv'
    BY <1>3, <1>5, <2>2, <2>3 DEF ChannelInv
  <2>5. [Ch!Next]_<<put, got>>
    BY <2>2, Peers DEF Ch!Next
  <2>6. QED
    BY <2>4, <2>5
<1>8. QED
  BY <1>2, <1>6, <1>7 DEF HandOver

\* What the primary receives, and will relay.
LEMMA ReceivePrimaryChannel ==
  ASSUME ChannelInv, TypeInv, TypeInv', NEW c \in Conn, ReceivePrimary(c)
  PROVE  ChannelInv' /\ [Ch!Next]_<<put, got>>
<1> DEFINE Took(n, r) ==
             /\ Receive(c, "primary", n, r)
             /\ HandOver(c, "primary", r)
             /\ relay' = IF r.type = "ANNOUNCE"
                         THEN [relay EXCEPT ![c] = [type  |-> "ANNOUNCE",
                                                    msg   |-> r.msg,
                                                    whole |-> r.whole]]
                         ELSE relay
             /\ Jump(c, "primary", CASE r.type = "ANNOUNCE" -> "relay"
                                     [] r.type = "CLOSE"    -> "return"
                                     [] OTHER               -> "top")
<1>1. PICK n \in 0..Len(wire[c]["primary"]) : \E r \in Results(c, "primary", n) : Took(n, r)
  BY DEF ReceivePrimary
<1>2. PICK r \in Results(c, "primary", n) : Took(n, r)
  BY <1>1
<1>3. UNCHANGED <<put, queue, batch>>
  BY DEF ReceivePrimary
<1>4. /\ \A d \in Conn, f \in End : Within(Flow(d, f)', Flow(d, f))
      /\ r.whole /\ r.msg # NoMsg =>
           Within(<<r.msg>> \o Flow(c, "primary")', Flow(c, "primary"))
      /\ r.msg \in Slot
  BY <1>2, <1>3, Peers, ReceiveFlow
<1>5. /\ relay \in [Conn -> Message] /\ pc \in [Conn -> [End -> Place]]
      /\ got \in [Conn -> [End -> Seq(Msg)]]
  BY DEF TypeInv, EndsOK, RestOK
<1>6. ASSUME NEW d \in Conn, NEW x \in Msg, Pending(d, x)', d # c PROVE Pending(d, x)
  BY <1>2, <1>5, <1>6, Peers DEF Pending, Jump
<1>7. ASSUME NEW x \in Msg, Pending(c, x)'
      PROVE  r.type = "ANNOUNCE" /\ r.whole /\ r.msg = x /\ r.msg # NoMsg
  <2>1. pc'[c]["primary"] = "relay" /\ relay'[c].whole /\ relay'[c].msg = x
    BY <1>7 DEF Pending
  <2>2. r.type = "ANNOUNCE"
    BY <1>2, <1>5, <2>1, Peers DEF Jump
  <2>3. relay'[c] = [type |-> "ANNOUNCE", msg |-> r.msg, whole |-> r.whole]
    BY <1>2, <1>5, <2>2
  <2>4. QED
    BY <2>1, <2>2, <2>3, LinkAssumption
<1>8. CASE ~(r.type = "ANNOUNCE" /\ r.whole /\ r.msg # NoMsg)
  <2>1. got' = got
    BY <1>2, <1>8 DEF HandOver
  <2>2. \A d \in Conn, x \in Msg : Pending(d, x)' => Pending(d, x)
    BY <1>6, <1>7, <1>8
  <2>3. QED
    BY <1>3, <1>4, <2>1, <2>2, QuietChannel
<1>9. CASE r.type = "ANNOUNCE" /\ r.whole /\ r.msg # NoMsg
  <2> DEFINE m == r.msg
  <2>1. /\ m \in Msg
        /\ got' = [got EXCEPT ![c]["primary"] = Append(got[c]["primary"], m)]
        /\ Within(<<m>> \o Flow(c, "primary")', Flow(c, "primary"))
    BY <1>2, <1>4, <1>9 DEF Slot, HandOver, TypeInv, RestOK
  <2>2. \A x \in Msg : Pending(c, x)' => x = m
    BY <1>7
  <2> HIDE DEF m, Took
  <2>3. /\ \A d \in Conn, f \in End : Within((got[d][f] \o Flow(d, f))', put'[d][f])
        /\ m \notin Range(got[c]["primary"])
        /\ Ch!Get(c, "primary")
    BY <1>3, <1>4, <2>1, Peers, GotChannel
  <2>4. \A d \in Conn : Own(d)' = Own(d)
    BY <1>3 DEF Own
  <2>5. ASSUME NEW d \in Conn
        PROVE  /\ Range(got[d]["primary"]) \subseteq Range(got'[d]["primary"])
               /\ d = c => m \in Range(got'[d]["primary"])
    <3>1. CASE d = c
      <4>1. got'[d]["primary"] = Append(got[c]["primary"], m) /\ got[c]["primary"] \in Seq(Msg)
        BY <1>5, <2>1, <3>1, Peers
      <4>2. Range(Append(got[c]["primary"], m)) = Range(got[c]["primary"]) \cup {m}
        BY <2>1, <4>1, AppendRange
      <4>3. QED
        BY <3>1, <4>1, <4>2
    <3>2. CASE d # c
      BY <1>5, <2>1, <3>2
    <3>3. QED
      BY <3>1, <3>2
  <2>6. ASSUME NEW d \in Conn, NEW x \in Msg, Pending(d, x)'
        PROVE  x \in Range(got'[d]["primary"])
    <3>1. CASE d = c
      BY <2>2, <2>5, <2>6, <3>1
    <3>2. CASE d # c
      BY <1>6, <2>5, <2>6, <3>2 DEF ChannelInv
    <3>3. QED
      BY <3>1, <3>2
  <2>7. ASSUME NEW d \in Conn, NEW f \in Conn, NEW x \in Msg,
               x \in Own(d)', x \in Range(put'[f]["secondary"])
        PROVE  x \in Range(got'[d]["primary"]) /\ ~Pending(d, x)'
    <3>1. x \in Range(got[d]["primary"]) /\ ~Pending(d, x)
      BY <1>3, <2>4, <2>7 DEF ChannelInv
    <3>2. CASE d = c
      BY <2>2, <2>3, <2>5, <3>1, <3>2
    <3>3. CASE d # c
      BY <1>6, <2>5, <3>1, <3>3
    <3>4. QED
      BY <3>2, <3>3
  <2>8. \A d \in Conn, f \in End, x \in Msg : ~Before(put'[d][f], x, x)
    BY <1>3 DEF ChannelInv
  <2>9. ChannelInv'
    BY <2>3, <2>6, <2>7, <2>8 DEF ChannelInv
  <2>10. [Ch!Next]_<<put, got>>
    BY <2>3, Peers DEF Ch!Next
  <2>11. QED
    BY <2>9, <2>10
<1>10. QED
  BY <1>8, <1>9

\* The handshake.
LEMMA AwaitChannel ==
  ASSUME ChannelInv, TypeInv, TypeInv', NEW c \in Conn, NEW e \in End, NEW at, NEW type,
         NEW accepted, NEW next \in Place \ {"relay"}, at # "relay",
         Await(c, e, at, type, accepted, next)
  PROVE  ChannelInv' /\ [Ch!Next]_<<put, got>>
<1>1. PICK n \in 1..Len(wire[c][e]) : \E r \in Results(c, e, n) :
        /\ Receive(c, e, n, r)
        /\ Jump(c, e, IF r.type = "NONE" THEN at
                      ELSE IF r.type = type /\ r.whole /\ accepted THEN next
                      ELSE "return")
  BY DEF Await
<1>2. PICK r \in Results(c, e, n) :
        /\ Receive(c, e, n, r)
        /\ Jump(c, e, IF r.type = "NONE" THEN at
                      ELSE IF r.type = type /\ r.whole /\ accepted THEN next
                      ELSE "return")
  BY <1>1
<1>3. n \in 0..Len(wire[c][e])
  <2>1. Len(wire[c][e]) \in Nat
    BY TypesAt
  <2>2. QED
    BY <1>1, <2>1
<1>4. UNCHANGED <<put, got, queue, batch, relay>>
  BY DEF Await
<1>5. \A d \in Conn, f \in End : Within(Flow(d, f)', Flow(d, f))
  BY <1>2, <1>3, <1>4, ReceiveFlow
<1>6. \A d \in Conn, x \in Msg : Pending(d, x)' => Pending(d, x)
  BY <1>2, <1>4, JumpPending
<1>7. QED
  BY <1>4, <1>5, <1>6, QuietChannel

\* A message without an announce is sent.
LEMMA SaidChannel ==
  ASSUME ChannelInv, TypeInv, TypeInv', NEW c \in Conn, NEW e \in End, NEW type \in Type,
         NEW to, to # "relay", Send(c, e, Control(type)), Jump(c, e, to),
         UNCHANGED <<batch, buf, put, got, relay>>,
         queue' \in {queue, [queue EXCEPT ![c][e] = <<>>]}
  PROVE  ChannelInv' /\ [Ch!Next]_<<put, got>>
<1>1. \A d \in Conn, f \in End : Within(Flow(d, f)', Flow(d, f))
  BY SaidFlow
<1>2. \A d \in Conn, x \in Msg : Pending(d, x)' => Pending(d, x)
  BY JumpPending
<1>3. QED
  BY <1>1, <1>2, QuietChannel

\* Nothing is sent or received.
LEMMA StillChannel ==
  ASSUME ChannelInv, TypeInv, TypeInv', NEW c \in Conn, NEW e \in End,
         NEW to, to # "relay", Jump(c, e, to),
         UNCHANGED <<batch, buf, wire, put, got, relay>>,
         queue' \in {queue, [queue EXCEPT ![c][e] = <<>>]}
  PROVE  ChannelInv' /\ [Ch!Next]_<<put, got>>
<1>1. \A d \in Conn, f \in End : Within(Flow(d, f)', Flow(d, f))
  BY DroppedFlow
<1>2. \A d \in Conn, x \in Msg : Pending(d, x)' => Pending(d, x)
  BY JumpPending
<1>3. QED
  BY <1>1, <1>2, QuietChannel

\* Every step of the link is a step of the channels, or none.
LEMMA ChannelNext ==
  TypeInv /\ TypeInv' /\ OriginInv /\ ChannelInv /\ [Next]_vars
    => ChannelInv' /\ [Ch!Next]_<<put, got>>
<1> SUFFICES ASSUME TypeInv, TypeInv', OriginInv, ChannelInv, [Next]_vars
             PROVE  ChannelInv' /\ [Ch!Next]_<<put, got>>
  OBVIOUS
<1> DEFINE Goal == ChannelInv' /\ [Ch!Next]_<<put, got>>
<1>0. {"top", "version", "ready", "info", "answer", "challenge", "password"}
        \subseteq Place \ {"relay"}
  BY DEF Place
<1>1. ASSUME NEW c \in Conn, SecondaryThread(c) PROVE Goal
  <2> HIDE DEF Goal
  <2>1. CASE Create(c)
    BY <2>1, Peers, StillChannel DEF Create, Goal
  <2>2. CASE Connect(c)
    BY <2>2, Peers, StillChannel DEF Connect, Goal
  <2>3. CASE \/ Say(c, "secondary", "greet", "VERSION", "version")
             \/ Say(c, "secondary", "answer", "PASSWORD", "ready")
             \/ Say(c, "secondary", "ready", "READY", "top")
    BY <2>3, Peers, SaidChannel DEF Say, Type, Goal
  <2>4. CASE \/ Await(c, "secondary", "version", "VERSION", TRUE, "info")
             \/ Await(c, "secondary", "info", "INFO", TRUE, "answer")
    BY <1>0, <2>4, Peers, AwaitChannel DEF Goal
  <2>5. CASE Flush(c, "secondary")
    <3>1. \A d \in Conn, f \in End : Within(Flow(d, f)', Flow(d, f))
      BY <2>5, Peers, FlushFlow
    <3>2. \A d \in Conn, x \in Msg : Pending(d, x)' => Pending(d, x)
      <4>1. \E to : to # "relay" /\ Jump(c, "secondary", to)
        BY <2>5 DEF Flush
      <4>2. UNCHANGED relay
        BY <2>5 DEF Flush
      <4>3. QED
        BY <4>1, <4>2, Peers, JumpPending
    <3>3. UNCHANGED <<put, got>>
      BY <2>5 DEF Flush
    <3>4. QED
      BY <3>1, <3>2, <3>3, QuietChannel DEF Goal
  <2>6. CASE SendNext(c, "secondary")
    <3>1. \A d \in Conn, f \in End : Within(Flow(d, f)', Flow(d, f))
      BY <2>6, Peers, SendNextFlow
    <3>2. \A d \in Conn, x \in Msg : Pending(d, x)' => Pending(d, x)
      <4>1. \E to : to # "relay" /\ Jump(c, "secondary", to)
        BY <2>6 DEF SendNext
      <4>2. UNCHANGED relay
        BY <2>6 DEF SendNext
      <4>3. QED
        BY <4>1, <4>2, Peers, JumpPending
    <3>3. UNCHANGED <<put, got>>
      BY <2>6 DEF SendNext
    <3>4. QED
      BY <3>1, <3>2, <3>3, QuietChannel DEF Goal
  <2>7. CASE ReceiveSecondary(c)
    BY <2>7, ReceiveSecondaryChannel DEF Goal
  <2>8. CASE ReceiveError(c, "secondary")
    <3>1. \E to : to # "relay" /\ Jump(c, "secondary", to)
      BY <2>8 DEF ReceiveError
    <3>2. UNCHANGED <<batch, buf, wire, put, got, relay, queue>>
      BY <2>8 DEF ReceiveError
    <3>3. QED
      BY <3>1, <3>2, Peers, StillChannel DEF Goal
  <2>9. CASE EndSecondary(c)
    BY <2>9, Peers, SaidChannel DEF EndSecondary, Type, Goal
  <2>10. QED
    BY <1>1, <2>1, <2>2, <2>3, <2>4, <2>5, <2>6, <2>7, <2>8, <2>9 DEF SecondaryThread
<1>2. ASSUME NEW c \in Conn, PrimaryThread(c) PROVE Goal
  <2> HIDE DEF Goal
  <2>1. CASE \/ Say(c, "primary", "greet", "VERSION", "version")
             \/ Say(c, "primary", "challenge", "INFO", "password")
    BY <2>1, Peers, SaidChannel DEF Say, Type, Goal
  <2>2. CASE \/ Await(c, "primary", "version", "VERSION", TRUE, "challenge")
             \/ Await(c, "primary", "password", "PASSWORD", PasswordAccepted(c), "top")
    BY <1>0, <2>2, Peers, AwaitChannel DEF Goal
  <2>3. CASE Flush(c, "primary")
    <3>1. \A d \in Conn, f \in End : Within(Flow(d, f)', Flow(d, f))
      BY <2>3, Peers, FlushFlow
    <3>2. \A d \in Conn, x \in Msg : Pending(d, x)' => Pending(d, x)
      <4>1. \E to : to # "relay" /\ Jump(c, "primary", to)
        BY <2>3 DEF Flush
      <4>2. UNCHANGED relay
        BY <2>3 DEF Flush
      <4>3. QED
        BY <4>1, <4>2, Peers, JumpPending
    <3>3. UNCHANGED <<put, got>>
      BY <2>3 DEF Flush
    <3>4. QED
      BY <3>1, <3>2, <3>3, QuietChannel DEF Goal
  <2>4. CASE SendNext(c, "primary")
    <3>1. \A d \in Conn, f \in End : Within(Flow(d, f)', Flow(d, f))
      BY <2>4, Peers, SendNextFlow
    <3>2. \A d \in Conn, x \in Msg : Pending(d, x)' => Pending(d, x)
      <4>1. \E to : to # "relay" /\ Jump(c, "primary", to)
        BY <2>4 DEF SendNext
      <4>2. UNCHANGED relay
        BY <2>4 DEF SendNext
      <4>3. QED
        BY <4>1, <4>2, Peers, JumpPending
    <3>3. UNCHANGED <<put, got>>
      BY <2>4 DEF SendNext
    <3>4. QED
      BY <3>1, <3>2, <3>3, QuietChannel DEF Goal
  <2>5. CASE ReceivePrimary(c)
    BY <2>5, ReceivePrimaryChannel DEF Goal
  <2>6. CASE Relay(c)
    BY <2>6, RelayChannel DEF Goal
  <2>7. CASE ReceiveError(c, "primary")
    <3>1. \E to : to # "relay" /\ Jump(c, "primary", to)
      BY <2>7 DEF ReceiveError
    <3>2. UNCHANGED <<batch, buf, wire, put, got, relay, queue>>
      BY <2>7 DEF ReceiveError
    <3>3. QED
      BY <3>1, <3>2, Peers, StillChannel DEF Goal
  <2>8. CASE EndPrimary(c)
    <3>1. CASE c \in listed
      BY <2>8, <3>1, Peers, SaidChannel DEF EndPrimary, Type, Goal
    <3>2. CASE c \notin listed
      BY <2>8, <3>2, Peers, StillChannel DEF EndPrimary, Goal
    <3>3. QED
      BY <3>1, <3>2
  <2>9. QED
    BY <1>2, <2>1, <2>2, <2>3, <2>4, <2>5, <2>6, <2>7, <2>8 DEF PrimaryThread
<1>3. ASSUME NEW c \in Conn, Accept(c) PROVE Goal
  <2>1. \E to : to # "relay" /\ Jump(c, "primary", to)
    BY <1>3 DEF Accept
  <2>2. UNCHANGED <<batch, buf, wire, put, got, relay, queue>>
    BY <1>3 DEF Accept
  <2>3. QED
    BY <2>1, <2>2, Peers, StillChannel
<1>4. CASE PushBack \/ UNCHANGED vars
  <2>1. UNCHANGED <<pc, batch, buf, wire, put, got, relay, queue>>
    BY <1>4 DEF PushBack, vars, ends
  <2>2. \A d \in Conn, f \in End : Within(Flow(d, f)', Flow(d, f))
    BY <2>1, FlowAlone, WithinItself
  <2>3. \A d \in Conn, x \in Msg : Pending(d, x)' => Pending(d, x)
    BY <2>1, SamePending
  <2>4. QED
    BY <2>1, <2>2, <2>3, QuietChannel
<1>5. CASE \/ \E m \in Msg : AnnouncePrimary(m)
           \/ \E c \in Conn, m \in Msg : AnnounceSecondary(c, m)
  BY <1>5, AnnounceChannel
<1>6. QED
  BY <1>1, <1>2, <1>3, <1>4, <1>5 DEF Next

\* Nothing is queued at first.
LEMMA ChannelStarts == Init => ChannelInv /\ Ch!Init
<1> SUFFICES ASSUME Init PROVE ChannelInv /\ Ch!Init
  OBVIOUS
<1>1. ASSUME NEW c \in Conn, NEW e \in End
      PROVE  put[c][e] = <<>> /\ got[c][e] = <<>> /\ Flow(c, e) = <<>>
  <2>1. /\ put[c][e] = <<>> /\ got[c][e] = <<>>
        /\ buf[c][e] = <<>> /\ wire[c][e] = <<>>
        /\ batch[c][Peer(e)] = <<>> /\ queue[c][Peer(e)] = <<>>
    BY Peers DEF Init
  <2>2. Carried(<<>>) = <<>> /\ Held(<<>>) = <<>> /\ <<>> \o <<>> = <<>>
    BY DEF Carried, Held
  <2>3. QED
    BY <2>1, <2>2 DEF Flow, FlowOf
<1>2. \A c \in Conn, e \in End : Within(got[c][e] \o Flow(c, e), put[c][e])
  <2>1. <<>> \o <<>> = <<>>
    OBVIOUS
  <2>2. QED
    BY <1>1, <2>1, WithinItself
<1>3. \A c \in Conn, e \in End, x \in Msg : ~Before(put[c][e], x, x)
  BY <1>1 DEF Before
<1>4. \A c \in Conn, x \in Msg : ~Pending(c, x)
  BY Peers DEF Init, Pending
<1>5. \A c \in Conn : Own(c) = {}
  BY <1>1, Peers DEF Own, Range
<1>6. Ch!Init
  BY DEF Init, Ch!Init
<1>7. QED
  BY <1>2, <1>3, <1>4, <1>5, <1>6 DEF ChannelInv

\* CLink and CLinkClient implement Channel, over any number of links: of the
\* announces that the queues of link.cpp:469 and :863 are given, none
\* reaches QueueAnnounce twice, out of order or made up, wherever the stream
\* is cut, whatever breaks and however the primary relays what it receives.
THEOREM LinkIsChannel == Spec => IsChannel
<1>1. Init => ChannelInv /\ Ch!Init
  BY ChannelStarts
<1>2. TypeInv /\ TypeInv' /\ OriginInv /\ ChannelInv /\ [Next]_vars
        => ChannelInv' /\ [Ch!Next]_<<put, got>>
  BY ChannelNext
<1>3. QED
  BY <1>1, <1>2, OriginAlways, TypeInvAlways, PTL DEF Spec, IsChannel, Ch!Spec

---------------------------------------------------------------------------
(***************************************************************************)
(* The handshake.                                                          *)
(***************************************************************************)

Piece(t, payload) == [type |-> t, msg |-> NoMsg, payload |-> payload]

Second(e) == IF e = "primary" THEN "PASSWORD" ELSE "INFO"

\* What an end is sent in the handshake.
Script(e) ==
  <<Piece("VERSION", FALSE), Piece("VERSION", TRUE),
    Piece(Second(e), FALSE), Piece(Second(e), TRUE)>>

\* How much of its script a thread still waits for, and how much of the other
\* end's it has not sent, by where it is.
ToHear(at) ==
  IF at \in {"none", "created", "greet", "version"} THEN 4
  ELSE IF at \in {"challenge", "info", "password"} THEN 2 ELSE 0

ToSay(at) ==
  IF at \in {"none", "created", "greet"} THEN 4
  ELSE IF at \in {"version", "challenge", "info", "answer"} THEN 2 ELSE 0

Silent == {"return", "ended", "refused", "leaked"}

\* What end e has not looked at yet starts with what it still waits for,
OnScript(e, hear, s) ==
  \A i \in 1..Len(s) : i <= hear => s[i] = Script(e)[4 - hear + i]

\* and is as much as the other end has sent by now.
AllSaid(hear, say, s) ==
  \/ Len(s) + say = hear
  \/ say = 0 /\ Len(s) >= hear

Lost(c, e) == kill[c][e] \/ pc[c][e] \in Silent

Stream(c, e) == buf[c][e] \o wire[c][e]

Scripted(c, e) ==
  \/ pc[c][e] \in Silent
  \/ pc[c][Peer(e)] = "ended"
  \/ /\ OnScript(e, ToHear(pc[c][e]), Stream(c, e))
     /\ Lost(c, Peer(e)) \/ AllSaid(ToHear(pc[c][e]), ToSay(pc[c][Peer(e)]), Stream(c, e))

\* HandshakeKept needs to know what the other end has sent by now.
HandshakeInv ==
  \A c \in Conn, e \in End : Owner[c] \in PassOK => Scripted(c, e)

\* HandshakeKept of one end.
KeptAt(c, e) ==
  pc[c][e] \in Waiting /\ pc'[c][e] = "return"
    => kill'[c][e] \/ pc[c][Peer(e)] = "ended" \/ Owner[c] \notin PassOK

\* Pieces are tokens.
LEMMA Pieces ==
  ASSUME NEW e \in End
  PROVE  /\ Script(e) \in Seq(Token) /\ Len(Script(e)) = 4
         /\ Script(e)[1] = Piece("VERSION", FALSE)
         /\ Script(e)[2] = Piece("VERSION", TRUE)
         /\ Script(e)[3] = Piece(Second(e), FALSE)
         /\ Script(e)[4] = Piece(Second(e), TRUE)
<1>1. \A t \in Type, k \in BOOLEAN : Piece(t, k) \in Token
  BY DEF Piece, Token
<1>2. "VERSION" \in Type /\ Second(e) \in Type
  BY DEF Type, Second
<1> DEFINE a == Piece("VERSION", FALSE)
           b == Piece("VERSION", TRUE)
           p == Piece(Second(e), FALSE)
           q == Piece(Second(e), TRUE)
<1>3. /\ Script(e) = <<a, b, p, q>>
      /\ a \in Token /\ b \in Token /\ p \in Token /\ q \in Token
  BY <1>1, <1>2 DEF Script
<1> HIDE DEF a, b, p, q
<1>4. /\ Script(e) \in Seq(Token) /\ Len(Script(e)) = 4
      /\ Script(e)[1] = a /\ Script(e)[2] = b
      /\ Script(e)[3] = p /\ Script(e)[4] = q
  BY <1>3
<1>5. QED
  BY <1>4 DEF a, b, p, q

\* A message of the handshake is said, or a part of it before the end is lost.
LEMMA FollowsSaid ==
  ASSUME NEW e \in End, NEW hear \in {0, 2, 4}, NEW say \in {2, 4},
         NEW s \in Seq(Token), OnScript(e, hear, s), AllSaid(hear, say, s),
         NEW u \in Seq(Token), \A i \in 1..Len(u) : i <= 2 /\ u[i] = Script(e)[4 - say + i]
  PROVE  /\ OnScript(e, hear, s \o u)
         /\ Len(u) = 2 => AllSaid(hear, say - 2, s \o u)
<1>1. /\ s \o u \in Seq(Token) /\ Len(s \o u) = Len(s) + Len(u)
      /\ Len(s) \in Nat /\ Len(u) \in Nat
      /\ \A i \in 1..Len(s) + Len(u) :
           (s \o u)[i] = IF i <= Len(s) THEN s[i] ELSE u[i - Len(s)]
  OBVIOUS
<1>2. Len(s) + say = hear
  BY <1>1 DEF AllSaid
<1>3. ASSUME NEW i \in 1..Len(s \o u), i <= hear
      PROVE  (s \o u)[i] = Script(e)[4 - hear + i]
  <2>1. CASE i <= Len(s)
    BY <1>1, <1>3, <2>1 DEF OnScript
  <2>2. CASE i > Len(s)
    <3>1. i - Len(s) \in 1..Len(u) /\ 4 - say + (i - Len(s)) = 4 - hear + i
      BY <1>1, <1>2, <1>3, <2>2
    <3>2. u[i - Len(s)] = Script(e)[4 - hear + i]
      BY <3>1
    <3>3. (s \o u)[i] = u[i - Len(s)]
      BY <1>1, <1>3, <2>2
    <3>4. QED
      BY <3>2, <3>3
  <2>3. QED
    BY <1>1, <2>1, <2>2
<1>4. Len(u) = 2 => Len(s \o u) + (say - 2) = hear
  BY <1>1, <1>2
<1>5. QED
  BY <1>3, <1>4 DEF OnScript, AllSaid

\* Something is said when the script is over.
LEMMA FollowsMore ==
  ASSUME NEW e \in End, NEW hear \in {0, 2, 4}, NEW s \in Seq(Token),
         NEW u \in Seq(Token), OnScript(e, hear, s), AllSaid(hear, 0, s)
  PROVE  OnScript(e, hear, s \o u) /\ AllSaid(hear, 0, s \o u)
<1>1. /\ Len(s \o u) = Len(s) + Len(u)
      /\ Len(s) \in Nat /\ Len(u) \in Nat
      /\ \A i \in 1..Len(s) : (s \o u)[i] = s[i]
  OBVIOUS
<1>2. Len(s) >= hear
  BY <1>1 DEF AllSaid
<1>3. QED
  BY <1>1, <1>2 DEF OnScript, AllSaid

\* What is left of a sequence, element by element.
LEMMA FromAfter ==
  ASSUME NEW b \in Seq(Token), NEW k \in 0..Len(b)
  PROVE  /\ From(b, k + 1) \in Seq(Token)
         /\ Len(From(b, k + 1)) = Len(b) - k
         /\ \A j \in 1..Len(b) - k : From(b, k + 1)[j] = b[k + j]
<1> DEFINE i == k + 1
<1>1. Len(b) \in Nat /\ i \in Nat \ {0} /\ i <= Len(b) + 1 /\ k = i - 1
  OBVIOUS
<1>2. k \in Nat
  OBVIOUS
<1> HIDE DEF i
<1>3. /\ From(b, i) \in Seq(Token)
      /\ Len(From(b, i)) = Len(b) + 1 - i
      /\ \A j \in 1..Len(b) + 1 - i : From(b, i)[j] = b[i - 1 + j]
  BY <1>1 DEF From
<1>4. Len(b) + 1 - i = Len(b) - k
  BY <1>1
<1>5. \A j \in 1..Len(b) - k : From(b, i)[j] = b[k + j]
  BY <1>1, <1>2, <1>3, <1>4
<1>6. QED
  BY <1>3, <1>4, <1>5 DEF i

\* What is left after the first two.
LEMMA FromThird ==
  ASSUME NEW s \in Seq(Token), Len(s) >= 2
  PROVE  /\ From(s, 3) \in Seq(Token)
         /\ Len(From(s, 3)) = Len(s) - 2
         /\ \A i \in 1..Len(s) - 2 : From(s, 3)[i] = s[i + 2]
<1>1. 2 \in 0..Len(s)
  OBVIOUS
<1>2. /\ From(s, 2 + 1) \in Seq(Token)
      /\ Len(From(s, 2 + 1)) = Len(s) - 2
      /\ \A i \in 1..Len(s) - 2 : From(s, 2 + 1)[i] = s[2 + i]
  BY <1>1, FromAfter
<1>3. 2 + 1 = 3 /\ \A i \in Nat : 2 + i = i + 2
  OBVIOUS
<1>4. QED
  BY <1>2, <1>3

\* Two sequences, one after the other.
LEMMA JoinedIs ==
  ASSUME NEW a \in Seq(Token), NEW b \in Seq(Token)
  PROVE  /\ a \o b \in Seq(Token) /\ Len(a \o b) = Len(a) + Len(b)
         /\ \A j \in 1..Len(a) + Len(b) :
              (a \o b)[j] = IF j <= Len(a) THEN a[j] ELSE b[j - Len(a)]
OBVIOUS

\* What is left after a message of the handshake.
LEMMA FollowsHeard ==
  ASSUME NEW e \in End, NEW hear \in {2, 4}, NEW say \in {0, 2, 4},
         NEW s \in Seq(Token), Len(s) >= 2, OnScript(e, hear, s)
  PROVE  /\ OnScript(e, hear - 2, From(s, 3))
         /\ AllSaid(hear, say, s) => AllSaid(hear - 2, say, From(s, 3))
<1>1. /\ From(s, 3) \in Seq(Token) /\ Len(From(s, 3)) = Len(s) - 2 /\ Len(s) \in Nat
      /\ \A i \in 1..Len(s) - 2 : From(s, 3)[i] = s[i + 2]
  BY FromThird
<1>2. ASSUME NEW i \in 1..Len(From(s, 3)), i <= hear - 2
      PROVE  From(s, 3)[i] = Script(e)[4 - (hear - 2) + i]
  <2>1. i + 2 \in 1..Len(s) /\ i + 2 <= hear /\ 4 - hear + (i + 2) = 4 - (hear - 2) + i
    BY <1>1, <1>2
  <2>2. s[i + 2] = Script(e)[4 - hear + (i + 2)]
    BY <2>1 DEF OnScript
  <2>3. QED
    BY <1>1, <1>2, <2>1, <2>2
<1>3. AllSaid(hear, say, s) => AllSaid(hear - 2, say, From(s, 3))
  BY <1>1 DEF AllSaid
<1>4. QED
  BY <1>2, <1>3 DEF OnScript

\* Nothing is asked of an end that waits for nothing more.
LEMMA FollowsNothing ==
  ASSUME NEW e \in End, NEW say \in {0, 2, 4}, NEW s \in Seq(Token), NEW t \in Seq(Token)
  PROVE  /\ OnScript(e, 0, t)
         /\ AllSaid(0, say, s) => AllSaid(0, say, t)
<1>1. Len(s) \in Nat /\ Len(t) \in Nat
  OBVIOUS
<1>2. QED
  BY <1>1 DEF OnScript, AllSaid

\* A header and its payload.
LEMMA WithPayload ==
  ASSUME NEW a, NEW b, NEW k, NEW l
  PROVE  [[type |-> a, msg |-> b, payload |-> k] EXCEPT !.payload = l]
           = [type |-> a, msg |-> b, payload |-> l]
OBVIOUS

\* The same of a message of the handshake.
LEMMA PieceCompleted ==
  ASSUME NEW t
  PROVE  [Piece(t, FALSE) EXCEPT !.payload = TRUE] = Piece(t, TRUE)
BY WithPayload, Zenon DEF Piece

\* Tokens that start with a message.
Starts(s, type) ==
  /\ 1 \in 1..Len(s) => s[1] = Piece(type, FALSE)
  /\ 2 \in 1..Len(s) => s[2] = Piece(type, TRUE)

\* What is read of a message that is on the wire as a whole: the message, and
\* nothing of what follows.
LEMMA HearsWhole ==
  ASSUME NEW b \in Seq(Token), NEW w \in Seq(Token), NEW n \in 1..Len(w),
         NEW type \in Type \ Bare, Fragment = FALSE, n \in Arrived(w),
         Starts(b \o w, type),
         NEW r \in Parse(b \o SubSeq(w, 1, n))
  PROVE  /\ r = Parsed(type, NoMsg, TRUE, r.rest)
         /\ Len(b \o w) >= 2
         /\ r.rest \o From(w, n + 1) = From(b \o w, 3)
<1> DEFINE x == b \o SubSeq(w, 1, n)
           y == From(w, n + 1)
<1>1. /\ Len(b) \in Nat /\ Len(w) \in Nat /\ n \in Nat /\ n > 0 /\ n <= Len(w)
  OBVIOUS
<1>2. /\ SubSeq(w, 1, n) \in Seq(Token) /\ Len(SubSeq(w, 1, n)) = n
      /\ \A j \in 1..n : SubSeq(w, 1, n)[j] = w[j]
  BY <1>1
<1>3. /\ y \in Seq(Token) /\ Len(y) = Len(w) - n
      /\ \A j \in 1..Len(w) - n : y[j] = w[n + j]
  <2>1. n \in 0..Len(w)
    BY <1>1
  <2>2. QED
    BY <2>1, FromAfter
<1>4. /\ x \in Seq(Token) /\ Len(x) = Len(b) + n
      /\ \A j \in 1..Len(b) + n : x[j] = IF j <= Len(b) THEN b[j] ELSE w[j - Len(b)]
  <2> DEFINE t == SubSeq(w, 1, n)
  <2>1. t \in Seq(Token) /\ Len(t) = n /\ \A j \in 1..n : t[j] = w[j]
    BY <1>2
  <2> HIDE DEF t
  <2>2. /\ b \o t \in Seq(Token) /\ Len(b \o t) = Len(b) + n
        /\ \A j \in 1..Len(b) + n : (b \o t)[j] = IF j <= Len(b) THEN b[j] ELSE t[j - Len(b)]
    BY <1>1, <2>1
  <2>3. \A j \in 1..Len(b) + n : (b \o t)[j] = IF j <= Len(b) THEN b[j] ELSE w[j - Len(b)]
    BY <1>1, <2>1, <2>2
  <2>4. QED
    BY <2>2, <2>3 DEF t
<1>5. /\ b \o w \in Seq(Token) /\ Len(b \o w) = Len(b) + Len(w)
      /\ \A j \in 1..Len(b) + Len(w) : (b \o w)[j] = IF j <= Len(b) THEN b[j] ELSE w[j - Len(b)]
  BY <1>1
<1>6. r \in Parse(x)
  OBVIOUS
<1> HIDE DEF x, y
<1>7. \A j \in 1..Len(x) : x[j] = (b \o w)[j]
  BY <1>1, <1>4, <1>5
<1>8. x # <<>> /\ x[1] = Piece(type, FALSE) /\ Len(x) \in Nat /\ Len(x) > 0
  <2>1. Len(x) \in Nat /\ Len(x) > 0 /\ 1 \in 1..Len(x) /\ 1 \in 1..Len(b \o w)
    BY <1>1, <1>4, <1>5
  <2>2. x[1] = Piece(type, FALSE)
    BY <1>7, <2>1 DEF Starts
  <2>3. x # <<>>
    BY <2>1, EmptySeq
  <2>4. QED
    BY <2>1, <2>2, <2>3
<1>9. Len(x) # 1
  <2>1. SUFFICES ASSUME Len(x) = 1 PROVE FALSE
    OBVIOUS
  <2>2. Len(b) = 0 /\ n = 1
    <3>1. Len(b) + n = 1
      BY <1>4, <2>1
    <3>2. QED
      BY <1>1, <3>1
  <2>3. w[1] = x[1]
    <3>1. 1 \in 1..Len(b) + n /\ ~(1 <= Len(b)) /\ 1 - Len(b) = 1
      BY <2>2
    <3>2. x[1] = w[1 - Len(b)]
      BY <1>4, <3>1
    <3>3. QED
      BY <3>1, <3>2
  <2>4. w[n].payload \/ w[n].type \in Bare
    BY <1>1 DEF Arrived
  <2>5. QED
    BY <1>8, <2>2, <2>3, <2>4 DEF Piece
<1>10. Len(x) >= 2 /\ x[2] = Piece(type, TRUE)
  <2>1. Len(x) >= 2 /\ 2 \in 1..Len(x) /\ 2 \in 1..Len(b \o w)
    BY <1>1, <1>4, <1>5, <1>8, <1>9
  <2>2. QED
    BY <1>7, <2>1 DEF Starts
<1>11. r = Parsed(type, NoMsg, TRUE, From(x, 3))
  <2>1. /\ x[1].type = type /\ ~x[1].payload /\ x[1].msg = NoMsg
        /\ x[2] = [x[1] EXCEPT !.payload = TRUE]
    <3>1. [Piece(type, FALSE) EXCEPT !.payload = TRUE] = Piece(type, TRUE)
      BY PieceCompleted
    <3>2. [x[1] EXCEPT !.payload = TRUE] = x[2]
      BY <1>8, <1>10, <3>1
    <3>3. QED
      BY <1>8, <3>2 DEF Piece
  <2>2. QED
    BY <1>6, <1>8, <1>9, <2>1 DEF Parse
<1>12. r = Parsed(type, NoMsg, TRUE, r.rest) /\ r.rest = From(x, 3)
  BY <1>11 DEF Parsed
<1>13. From(x, 3) \o y = From(b \o w, 3)
  <2> DEFINE s == b \o w
             p == From(x, 3)
             q == From(s, 3)
  <2>1. /\ p \in Seq(Token) /\ Len(p) = Len(x) - 2
        /\ \A j \in 1..Len(x) - 2 : p[j] = x[j + 2]
    BY <1>4, <1>10, FromThird
  <2>2. /\ q \in Seq(Token) /\ Len(q) = Len(s) - 2
        /\ \A j \in 1..Len(s) - 2 : q[j] = s[j + 2]
    <3>1. Len(s) >= 2 /\ Len(s) \in Nat
      BY <1>1, <1>4, <1>5, <1>10
    <3>2. QED
      BY <1>5, <3>1, FromThird
  <2>3. \A j \in 1..Len(s) : s[j] = IF j <= Len(x) THEN x[j] ELSE y[j - Len(x)]
    <3>1. ASSUME NEW j \in 1..Len(s), j > Len(x) PROVE s[j] = y[j - Len(x)]
      <4>1. j - Len(x) \in 1..Len(w) - n /\ n + (j - Len(x)) = j - Len(b) /\ j > Len(b)
        BY <1>1, <1>4, <1>5, <3>1
      <4>2. s[j] = w[j - Len(b)]
        BY <1>1, <1>5, <4>1
      <4>3. y[j - Len(x)] = w[n + (j - Len(x))]
        BY <1>3, <4>1
      <4>4. QED
        BY <4>1, <4>2, <4>3
    <3>2. ASSUME NEW j \in 1..Len(s), j <= Len(x) PROVE s[j] = x[j]
      BY <1>7, <1>8, <3>2
    <3>3. QED
      BY <1>8, <3>1, <3>2
  <2>4. Len(s) = Len(x) + Len(y) /\ Len(x) \in Nat /\ Len(y) \in Nat /\ Len(x) >= 2
    BY <1>1, <1>3, <1>4, <1>5, <1>10
  <2> HIDE DEF s, p, q
  <2>5. /\ p \o y \in Seq(Token) /\ Len(p \o y) = Len(p) + Len(y)
        /\ \A j \in 1..Len(p) + Len(y) : (p \o y)[j] = IF j <= Len(p) THEN p[j] ELSE y[j - Len(p)]
    BY <1>3, <2>1, JoinedIs
  <2>6. ASSUME NEW j \in 1..Len(p \o y) PROVE (p \o y)[j] = q[j]
    <3>1. /\ j \in 1..Len(s) - 2 /\ j + 2 \in 1..Len(s)
          /\ q[j] = IF j + 2 <= Len(x) THEN x[j + 2] ELSE y[j + 2 - Len(x)]
      BY <2>1, <2>2, <2>3, <2>4, <2>5
    <3>2. CASE j <= Len(p)
      BY <2>1, <2>4, <2>5, <3>1, <3>2
    <3>3. CASE j > Len(p)
      <4>1. j + 2 > Len(x) /\ j + 2 - Len(x) = j - Len(p)
        BY <2>1, <2>4, <3>3
      <4>2. QED
        BY <2>1, <2>4, <2>5, <3>1, <3>3, <4>1
    <3>4. QED
      BY <2>1, <2>4, <3>2, <3>3
  <2>7. Len(p \o y) = Len(q)
    BY <2>1, <2>2, <2>4, <2>5
  <2>8. p \o y = q
    BY <2>2, <2>5, <2>6, <2>7, SeqEqual
  <2>9. QED
    BY <2>8 DEF p, q, s
<1>14. Len(b \o w) >= 2
  BY <1>1, <1>4, <1>5, <1>10
<1>15. QED
  BY <1>12, <1>13, <1>14 DEF y

\* The values that ToHear and ToSay have.
LEMMA HearSay ==
  ASSUME NEW at
  PROVE  ToHear(at) \in {0, 2, 4} /\ ToSay(at) \in {0, 2, 4}
BY DEF ToHear, ToSay

\* A step of end x of connection c is looked at from both ends of c.
LEMMA HandshakeMove ==
  ASSUME NEW c \in Conn, NEW x \in End, NEW to, Jump(c, x, to), TypeInv, HandshakeInv,
         pc[c][x] # "ended",
         \A d \in Conn, f \in End :
           d # c \/ f # x => kill'[d][f] = kill[d][f] /\ buf'[d][f] = buf[d][f],
         \A d \in Conn \ {c}, f \in End : wire'[d][f] = wire[d][f],
         pc[c][x] \in Waiting /\ to = "return"
           => kill'[c][x] \/ pc[c][Peer(x)] = "ended" \/ Owner[c] \notin PassOK,
         Owner[c] \in PassOK /\ to \notin Silent /\ pc[c][Peer(x)] # "ended"
           => /\ OnScript(x, ToHear(to), buf'[c][x] \o wire'[c][x])
              /\ \/ Lost(c, Peer(x))
                 \/ AllSaid(ToHear(to), ToSay(pc[c][Peer(x)]), buf'[c][x] \o wire'[c][x]),
         Owner[c] \in PassOK /\ to # "ended" /\ pc[c][Peer(x)] \notin Silent
           => /\ OnScript(Peer(x), ToHear(pc[c][Peer(x)]), buf[c][Peer(x)] \o wire'[c][Peer(x)])
              /\ \/ kill'[c][x] \/ to \in Silent
                 \/ AllSaid(ToHear(pc[c][Peer(x)]), ToSay(to), buf[c][Peer(x)] \o wire'[c][Peer(x)])
  PROVE  HandshakeInv' /\ \A d \in Conn, f \in End : KeptAt(d, f)
<1>1. /\ Peer(x) \in End /\ Peer(x) # x /\ Peer(Peer(x)) = x
      /\ \A f \in End : f = x \/ f = Peer(x)
  BY DEF Peer, End
<1>2. /\ pc'[c][x] = to
      /\ \A d \in Conn, f \in End : d # c \/ f # x => pc'[d][f] = pc[d][f]
  BY DEF Jump, TypeInv, EndsOK
<1>3. ASSUME Owner[c] \in PassOK PROVE Scripted(c, x)'
  <2>1. pc'[c][Peer(x)] = pc[c][Peer(x)] /\ kill'[c][Peer(x)] = kill[c][Peer(x)]
    BY <1>1, <1>2
  <2>2. QED
    BY <1>2, <1>3, <2>1 DEF Scripted, Lost, Stream
<1>4. ASSUME Owner[c] \in PassOK PROVE Scripted(c, Peer(x))'
  <2>1. pc'[c][Peer(x)] = pc[c][Peer(x)] /\ buf'[c][Peer(x)] = buf[c][Peer(x)]
    BY <1>1, <1>2
  <2>2. QED
    BY <1>1, <1>2, <1>4, <2>1 DEF Scripted, Lost, Stream
<1>5. ASSUME NEW d \in Conn \ {c}, NEW f \in End, Owner[d] \in PassOK
      PROVE  Scripted(d, f)'
  <2>1. Peer(f) \in End
    BY DEF Peer, End
  <2>2. /\ pc'[d][f] = pc[d][f] /\ pc'[d][Peer(f)] = pc[d][Peer(f)]
        /\ kill'[d][Peer(f)] = kill[d][Peer(f)]
        /\ buf'[d][f] = buf[d][f] /\ wire'[d][f] = wire[d][f]
    BY <1>2, <2>1
  <2>3. Scripted(d, f)
    BY <1>5 DEF HandshakeInv
  <2>4. QED
    BY <2>2, <2>3 DEF Scripted, Lost, Stream
<1>6. HandshakeInv'
  BY <1>1, <1>3, <1>4, <1>5 DEF HandshakeInv
<1>7. ASSUME NEW d \in Conn, NEW f \in End PROVE KeptAt(d, f)
  <2>1. "return" \notin Waiting
    BY DEF Waiting
  <2>2. CASE d = c /\ f = x
    BY <1>2, <2>2 DEF KeptAt
  <2>3. CASE d # c \/ f # x
    BY <1>2, <2>1, <2>3 DEF KeptAt
  <2>4. QED
    BY <2>2, <2>3
<1>8. QED
  BY <1>6, <1>7

\* A thread that goes on and neither sends nor receives.
LEMMA HandshakeQuiet ==
  ASSUME NEW c \in Conn, NEW x \in End, NEW to, Jump(c, x, to), TypeInv, HandshakeInv,
         pc[c][x] # "ended", pc[c][x] \in Silent => to \in Silent,
         to \in Silent \/ (ToHear(to) = ToHear(pc[c][x]) /\ ToSay(to) = ToSay(pc[c][x])),
         UNCHANGED <<buf, wire>>, kill' \in {kill, [kill EXCEPT ![c][x] = TRUE]},
         pc[c][x] \in Waiting /\ to = "return" => kill'[c][x]
  PROVE  HandshakeInv' /\ \A d \in Conn, f \in End : KeptAt(d, f)
<1>1. Peer(x) \in End /\ Peer(x) # x /\ Peer(Peer(x)) = x
  BY DEF Peer, End
<1>2. /\ \A d \in Conn, f \in End : d # c \/ f # x => kill'[d][f] = kill[d][f] /\ buf'[d][f] = buf[d][f]
      /\ kill[c][x] => kill'[c][x]
  BY DEF TypeInv, EndsOK
<1>3. ASSUME Owner[c] \in PassOK, to \notin Silent, pc[c][Peer(x)] # "ended"
      PROVE  /\ OnScript(x, ToHear(to), buf'[c][x] \o wire'[c][x])
             /\ \/ Lost(c, Peer(x))
                \/ AllSaid(ToHear(to), ToSay(pc[c][Peer(x)]), buf'[c][x] \o wire'[c][x])
  BY <1>3 DEF HandshakeInv, Scripted, Stream
<1>4. ASSUME Owner[c] \in PassOK, to # "ended", pc[c][Peer(x)] \notin Silent
      PROVE  /\ OnScript(Peer(x), ToHear(pc[c][Peer(x)]), buf[c][Peer(x)] \o wire'[c][Peer(x)])
             /\ \/ kill'[c][x] \/ to \in Silent
                \/ AllSaid(ToHear(pc[c][Peer(x)]), ToSay(to), buf[c][Peer(x)] \o wire'[c][Peer(x)])
  <2>1. Scripted(c, Peer(x))
    BY <1>1, <1>4 DEF HandshakeInv
  <2>2. QED
    BY <1>1, <1>2, <1>4, <2>1 DEF Scripted, Stream, Lost
<1>5. \A d \in Conn \ {c}, f \in End : wire'[d][f] = wire[d][f]
  OBVIOUS
<1>6. QED
  BY <1>2, <1>3, <1>4, <1>5, HandshakeMove

\* What is added to a wire is added to the stream.
LEMMA TokensAssociate ==
  ASSUME NEW a \in Seq(Token), NEW b \in Seq(Token), NEW u \in Seq(Token)
  PROVE  a \o b \in Seq(Token) /\ a \o (b \o u) = (a \o b) \o u
BY ConcatAssociative

\* What Send does to the other end's stream.
LEMMA Sends ==
  ASSUME NEW c \in Conn, NEW x \in End, NEW lm \in Message, Send(c, x, lm), TypeInv
  PROVE  /\ Tokens(lm) \in Seq(Token)
         /\ \A d \in Conn \ {c}, f \in End : wire'[d][f] = wire[d][f]
         /\ \A d \in Conn, f \in End : d # c \/ f # x => kill'[d][f] = kill[d][f]
         /\ wire'[c][x] = wire[c][x]
         /\ \/ kill[c][x] /\ kill'[c][x] /\ wire'[c][Peer(x)] = wire[c][Peer(x)]
            \/ ~kill[c][x] /\ \E u \in Seq(Token) :
                 /\ wire'[c][Peer(x)] = wire[c][Peer(x)] \o u
                 /\ \/ u = Tokens(lm)
                    \/ kill'[c][x] /\ \E n \in 0..Len(Tokens(lm)) - 1 : u = SubSeq(Tokens(lm), 1, n)
<1>1. /\ wire \in [Conn -> [End -> Seq(Token)]] /\ kill \in [Conn -> [End -> BOOLEAN]]
      /\ Peer(x) \in End /\ Peer(x) # x
  BY DEF TypeInv, EndsOK, Peer, End
<1>2. Tokens(lm) \in Seq(Token)
  BY TokensOf, SeqOfSubset DEF TokensAbout
<1>3. CASE kill[c][x] /\ UNCHANGED <<wire, kill>>
  BY <1>2, <1>3
<1>4. CASE ~kill[c][x] /\ wire' = [wire EXCEPT ![c][Peer(x)] = @ \o Tokens(lm)] /\ UNCHANGED kill
  <2>1. /\ wire'[c][Peer(x)] = wire[c][Peer(x)] \o Tokens(lm)
        /\ wire'[c][x] = wire[c][x]
        /\ \A d \in Conn \ {c}, f \in End : wire'[d][f] = wire[d][f]
    BY <1>1, <1>4
  <2>2. QED
    BY <1>2, <1>4, <2>1
<1>5. ASSUME NEW n \in 0..Len(Tokens(lm)) - 1, ~kill[c][x],
             wire' = [wire EXCEPT ![c][Peer(x)] = @ \o SubSeq(Tokens(lm), 1, n)],
             kill' = [kill EXCEPT ![c][x] = TRUE]
      PROVE  /\ wire'[c][Peer(x)] = wire[c][Peer(x)] \o SubSeq(Tokens(lm), 1, n)
             /\ wire'[c][x] = wire[c][x]
             /\ kill'[c][x]
             /\ \A d \in Conn, f \in End : d # c \/ f # x => kill'[d][f] = kill[d][f]
             /\ \A d \in Conn \ {c}, f \in End : wire'[d][f] = wire[d][f]
  BY <1>1, <1>5
<1>6. ASSUME NEW n \in 0..Len(Tokens(lm)) - 1 PROVE SubSeq(Tokens(lm), 1, n) \in Seq(Token)
  BY <1>2
<1>7. QED
  BY <1>2, <1>3, <1>4, <1>5, <1>6 DEF Send

\* A thread whose script is over, or which leaves, sends something.
LEMMA HandshakeSend ==
  ASSUME NEW c \in Conn, NEW x \in End, NEW to, NEW lm \in Message, Send(c, x, lm),
         Jump(c, x, to), TypeInv, HandshakeInv, buf' = buf, pc[c][x] \notin Waiting,
         \/ pc[c][x] \in Silent \ {"ended"} /\ to = "ended"
         \/ /\ pc[c][x] \notin Silent /\ to \notin Silent
            /\ ToHear(to) = ToHear(pc[c][x]) /\ ToSay(pc[c][x]) = 0 /\ ToSay(to) = 0
  PROVE  HandshakeInv' /\ \A d \in Conn, f \in End : KeptAt(d, f)
<1>1. Peer(x) \in End /\ Peer(x) # x /\ Peer(Peer(x)) = x
  BY DEF Peer, End
<1> DEFINE p == Peer(x)
<1>2. /\ Tokens(lm) \in Seq(Token)
      /\ \A d \in Conn \ {c}, f \in End : wire'[d][f] = wire[d][f]
      /\ \A d \in Conn, f \in End : d # c \/ f # x => kill'[d][f] = kill[d][f]
      /\ wire'[c][x] = wire[c][x]
      /\ \/ kill[c][x] /\ kill'[c][x] /\ wire'[c][p] = wire[c][p]
         \/ ~kill[c][x] /\ \E u \in Seq(Token) : wire'[c][p] = wire[c][p] \o u
  BY Sends
<1>3. "ended" \in Silent /\ pc[c][x] # "ended"
  BY DEF Silent
<1>4. ASSUME Owner[c] \in PassOK, to \notin Silent, pc[c][p] # "ended"
      PROVE  /\ OnScript(x, ToHear(to), buf'[c][x] \o wire'[c][x])
             /\ \/ Lost(c, p)
                \/ AllSaid(ToHear(to), ToSay(pc[c][p]), buf'[c][x] \o wire'[c][x])
  <2>1. Scripted(c, x) /\ pc[c][x] \notin Silent /\ ToHear(to) = ToHear(pc[c][x])
    BY <1>3, <1>4 DEF HandshakeInv
  <2>2. QED
    BY <1>2, <1>4, <2>1 DEF Scripted, Stream
<1>5. ASSUME Owner[c] \in PassOK, to # "ended", pc[c][p] \notin Silent
      PROVE  /\ OnScript(p, ToHear(pc[c][p]), buf[c][p] \o wire'[c][p])
             /\ \/ kill'[c][x] \/ to \in Silent
                \/ AllSaid(ToHear(pc[c][p]), ToSay(to), buf[c][p] \o wire'[c][p])
  <2>1. /\ pc[c][x] \notin Silent /\ ToSay(pc[c][x]) = 0 /\ ToSay(to) = 0
    BY <1>5
  <2>2. /\ OnScript(p, ToHear(pc[c][p]), Stream(c, p))
        /\ kill[c][x] \/ AllSaid(ToHear(pc[c][p]), 0, Stream(c, p))
    <3>1. Scripted(c, p)
      BY <1>1, <1>5 DEF HandshakeInv
    <3>2. QED
      BY <1>1, <1>3, <1>5, <2>1, <3>1 DEF Scripted, Lost
  <2>3. CASE kill[c][x] /\ kill'[c][x] /\ wire'[c][p] = wire[c][p]
    BY <2>2, <2>3 DEF Stream
  <2>4. ASSUME ~kill[c][x], NEW u \in Seq(Token), wire'[c][p] = wire[c][p] \o u
        PROVE  /\ OnScript(p, ToHear(pc[c][p]), buf[c][p] \o wire'[c][p])
               /\ AllSaid(ToHear(pc[c][p]), 0, buf[c][p] \o wire'[c][p])
    <3>1. buf[c][p] \in Seq(Token) /\ wire[c][p] \in Seq(Token)
      BY <1>1 DEF TypeInv, EndsOK
    <3>2. Stream(c, p) \in Seq(Token) /\ buf[c][p] \o wire'[c][p] = Stream(c, p) \o u
      <4>1. buf[c][p] \o (wire[c][p] \o u) = (buf[c][p] \o wire[c][p]) \o u
        BY <3>1, TokensAssociate
      <4>2. buf[c][p] \o wire[c][p] \in Seq(Token)
        BY <3>1, TokensAssociate
      <4>3. QED
        BY <2>4, <4>1, <4>2 DEF Stream
    <3>3. ToHear(pc[c][p]) \in {0, 2, 4}
      BY HearSay
    <3>4. QED
      BY <1>1, <2>2, <2>4, <3>2, <3>3, FollowsMore
  <2>5. QED
    BY <1>2, <2>1, <2>3, <2>4
<1>6. pc[c][x] \in Waiting /\ to = "return"
        => kill'[c][x] \/ pc[c][p] = "ended" \/ Owner[c] \notin PassOK
  OBVIOUS
<1>7. QED
  <2>1. \A d \in Conn, f \in End :
          d # c \/ f # x => kill'[d][f] = kill[d][f] /\ buf'[d][f] = buf[d][f]
    BY <1>2
  <2>2. \A d \in Conn \ {c}, f \in End : wire'[d][f] = wire[d][f]
    BY <1>2
  <2>3. QED
    BY <1>3, <1>4, <1>5, <1>6, <2>1, <2>2, HandshakeMove

\* A message of the handshake is said.
LEMMA HandshakeSay ==
  ASSUME NEW c \in Conn, NEW x \in End, NEW to, NEW type \in Type \ Bare,
         Send(c, x, Control(type)), Jump(c, x, to), TypeInv, HandshakeInv, buf' = buf,
         pc[c][x] \notin Waiting, pc[c][x] \notin Silent, to \notin Silent,
         ToHear(to) = ToHear(pc[c][x]),
         ToSay(pc[c][x]) \in {2, 4}, ToSay(to) = ToSay(pc[c][x]) - 2,
         type = IF ToSay(pc[c][x]) = 4 THEN "VERSION" ELSE Second(Peer(x))
  PROVE  HandshakeInv' /\ \A d \in Conn, f \in End : KeptAt(d, f)
<1>1. Peer(x) \in End /\ Peer(x) # x /\ Peer(Peer(x)) = x
  BY DEF Peer, End
<1> DEFINE p == Peer(x)
           lm == Control(type)
           say == ToSay(pc[c][x])
<1>2. lm \in Message
  BY Messages
<1>3. /\ Tokens(lm) \in Seq(Token) /\ Len(Tokens(lm)) = 2
      /\ \A i \in 1..2 : Tokens(lm)[i] = Script(p)[4 - say + i]
  <2>1. Tokens(lm) = <<Piece(type, FALSE), [Piece(type, FALSE) EXCEPT !.payload = TRUE]>>
    BY DEF Tokens, Control, Content, Piece
  <2>2. Tokens(lm) = <<Piece(type, FALSE), Piece(type, TRUE)>>
    BY <2>1, PieceCompleted
  <2>3. Tokens(lm) \in Seq(Token)
    BY <1>2, TokensOf, SeqOfSubset DEF TokensAbout
  <2>4. /\ Script(p)[1] = Piece("VERSION", FALSE) /\ Script(p)[2] = Piece("VERSION", TRUE)
        /\ Script(p)[3] = Piece(Second(p), FALSE) /\ Script(p)[4] = Piece(Second(p), TRUE)
    BY <1>1, Pieces
  <2> DEFINE t == Tokens(lm)
             h == Piece(type, FALSE)
             k == Piece(type, TRUE)
  <2>5. Len(t) = 2 /\ t[1] = h /\ t[2] = k
    <3>1. t = <<h, k>>
      BY <2>2
    <3> HIDE DEF t, h, k
    <3>2. QED
      BY <3>1
  <2>6. t[1] = Script(p)[4 - say + 1] /\ t[2] = Script(p)[4 - say + 2]
    <3>1. CASE say = 4
      <4>1. type = "VERSION" /\ 4 - say + 1 = 1 /\ 4 - say + 2 = 2
        BY <3>1
      <4>2. QED
        BY <2>4, <2>5, <4>1
    <3>2. CASE say = 2
      <4>1. type = Second(p) /\ 4 - say + 1 = 3 /\ 4 - say + 2 = 4
        BY <3>2
      <4>2. QED
        BY <2>4, <2>5, <4>1
    <3>3. QED
      BY <3>1, <3>2
  <2>7. \A i \in 1..2 : i = 1 \/ i = 2
    OBVIOUS
  <2>8. QED
    BY <2>3, <2>5, <2>6, <2>7
<1> HIDE DEF lm
<1>4. /\ \A d \in Conn \ {c}, f \in End : wire'[d][f] = wire[d][f]
      /\ \A d \in Conn, f \in End : d # c \/ f # x => kill'[d][f] = kill[d][f]
      /\ wire'[c][x] = wire[c][x]
      /\ \/ kill[c][x] /\ kill'[c][x] /\ wire'[c][p] = wire[c][p]
         \/ ~kill[c][x] /\ \E u \in Seq(Token) :
              /\ wire'[c][p] = wire[c][p] \o u
              /\ \A i \in 1..Len(u) : i <= 2 /\ u[i] = Script(p)[4 - say + i]
              /\ kill'[c][x] \/ Len(u) = 2
  <2>1. Send(c, x, lm)
    BY DEF lm
  <2>2. /\ \A d \in Conn \ {c}, f \in End : wire'[d][f] = wire[d][f]
        /\ \A d \in Conn, f \in End : d # c \/ f # x => kill'[d][f] = kill[d][f]
        /\ wire'[c][x] = wire[c][x]
        /\ \/ kill[c][x] /\ kill'[c][x] /\ wire'[c][p] = wire[c][p]
           \/ ~kill[c][x] /\ \E u \in Seq(Token) :
                /\ wire'[c][p] = wire[c][p] \o u
                /\ \/ u = Tokens(lm)
                   \/ kill'[c][x] /\ \E n \in 0..Len(Tokens(lm)) - 1 : u = SubSeq(Tokens(lm), 1, n)
    BY <1>2, <2>1, Sends, SMTT(60)
  <2> DEFINE t == Tokens(lm)
  <2>3. t \in Seq(Token) /\ Len(t) = 2 /\ \A i \in 1..2 : t[i] = Script(p)[4 - say + i]
    BY <1>3
  <2> HIDE DEF t
  <2>4. \A i \in 1..Len(t) : i <= 2 /\ t[i] = Script(p)[4 - say + i]
    BY <2>3
  <2>5. ASSUME NEW n \in 0..Len(t) - 1
        PROVE  /\ SubSeq(t, 1, n) \in Seq(Token)
               /\ \A i \in 1..Len(SubSeq(t, 1, n)) : i <= 2 /\ SubSeq(t, 1, n)[i] = Script(p)[4 - say + i]
    <3>1. /\ SubSeq(t, 1, n) \in Seq(Token) /\ Len(SubSeq(t, 1, n)) = n /\ n <= 2
          /\ \A i \in 1..n : SubSeq(t, 1, n)[i] = t[i]
      <4>1. n \in Nat /\ n <= Len(t) /\ n <= 2
        BY <2>3
      <4>2. t \in Seq(Token)
        BY <2>3
      <4>3. QED
        BY ONLY <4>1, <4>2
    <3>2. QED
      BY <2>3, <3>1
  <2>6. QED
    BY <2>2, <2>3, <2>4, <2>5 DEF t
<1>5. pc[c][x] # "ended" /\ to # "ended"
  BY DEF Silent
<1>6. ASSUME Owner[c] \in PassOK, to \notin Silent, pc[c][p] # "ended"
      PROVE  /\ OnScript(x, ToHear(to), buf'[c][x] \o wire'[c][x])
             /\ \/ Lost(c, p)
                \/ AllSaid(ToHear(to), ToSay(pc[c][p]), buf'[c][x] \o wire'[c][x])
  <2>1. Scripted(c, x)
    BY <1>6 DEF HandshakeInv
  <2>2. QED
    BY <1>4, <1>6, <2>1 DEF Scripted, Stream
<1>7. ASSUME Owner[c] \in PassOK, to # "ended", pc[c][p] \notin Silent
      PROVE  /\ OnScript(p, ToHear(pc[c][p]), buf[c][p] \o wire'[c][p])
             /\ \/ kill'[c][x] \/ to \in Silent
                \/ AllSaid(ToHear(pc[c][p]), ToSay(to), buf[c][p] \o wire'[c][p])
  <2>1. /\ OnScript(p, ToHear(pc[c][p]), Stream(c, p))
        /\ kill[c][x] \/ AllSaid(ToHear(pc[c][p]), say, Stream(c, p))
    <3>1. Scripted(c, p)
      BY <1>1, <1>7 DEF HandshakeInv
    <3>2. QED
      BY <1>1, <1>5, <1>7, <3>1 DEF Scripted, Lost
  <2>2. CASE kill[c][x] /\ kill'[c][x] /\ wire'[c][p] = wire[c][p]
    BY <2>1, <2>2 DEF Stream
  <2>3. ASSUME ~kill[c][x], NEW u \in Seq(Token), wire'[c][p] = wire[c][p] \o u,
               \A i \in 1..Len(u) : i <= 2 /\ u[i] = Script(p)[4 - say + i]
        PROVE  /\ OnScript(p, ToHear(pc[c][p]), buf[c][p] \o wire'[c][p])
               /\ Len(u) = 2 => AllSaid(ToHear(pc[c][p]), say - 2, buf[c][p] \o wire'[c][p])
    <3>1. buf[c][p] \in Seq(Token) /\ wire[c][p] \in Seq(Token)
      BY <1>1 DEF TypeInv, EndsOK
    <3>2. Stream(c, p) \in Seq(Token) /\ buf[c][p] \o wire'[c][p] = Stream(c, p) \o u
      <4>1. buf[c][p] \o (wire[c][p] \o u) = (buf[c][p] \o wire[c][p]) \o u
        <5> DEFINE bb == buf[c][p]
                   ww == wire[c][p]
        <5>1. bb \in Seq(Token) /\ ww \in Seq(Token)
          BY <3>1
        <5> HIDE DEF bb, ww
        <5>2. bb \o (ww \o u) = (bb \o ww) \o u
          BY <5>1, TokensAssociate
        <5>3. QED
          BY <5>2 DEF bb, ww
      <4>2. buf[c][p] \o wire[c][p] \in Seq(Token)
        BY <3>1, TokensAssociate
      <4>3. QED
        BY <2>3, <4>1, <4>2 DEF Stream
    <3>3. ToHear(pc[c][p]) \in {0, 2, 4} /\ say \in {2, 4}
      BY HearSay
    <3>4. /\ OnScript(p, ToHear(pc[c][p]), Stream(c, p) \o u)
          /\ Len(u) = 2 => AllSaid(ToHear(pc[c][p]), say - 2, Stream(c, p) \o u)
      <4> HIDE DEF say, p
      <4>1. p \in End /\ AllSaid(ToHear(pc[c][p]), say, Stream(c, p))
        BY <1>1, <2>1, <2>3 DEF p
      <4>2. QED
        BY <2>1, <2>3, <3>2, <3>3, <4>1, FollowsSaid
    <3>5. QED
      BY <3>2, <3>4
  <2>4. QED
    BY <1>4, <2>2, <2>3
<1>8. pc[c][x] \in Waiting /\ to = "return"
        => kill'[c][x] \/ pc[c][p] = "ended" \/ Owner[c] \notin PassOK
  OBVIOUS
<1>9. QED
  <2>1. \A d \in Conn, f \in End :
          d # c \/ f # x => kill'[d][f] = kill[d][f] /\ buf'[d][f] = buf[d][f]
    BY <1>4
  <2>2. \A d \in Conn \ {c}, f \in End : wire'[d][f] = wire[d][f]
    BY <1>4
  <2>3. QED
    BY <1>5, <1>6, <1>7, <1>8, <2>1, <2>2, HandshakeMove

\* A message of the handshake is heard, unless messages were cut.
LEMMA HandshakeHear ==
  ASSUME NEW c \in Conn, NEW x \in End, NEW at, NEW type \in Type \ Bare,
         NEW accepted, NEW next,
         Await(c, x, at, type, accepted, next), TypeInv, HandshakeInv,
         Fragment = FALSE, Owner[c] \in PassOK => accepted,
         at \in Waiting, next \notin Silent, ToHear(at) \in {2, 4}, ToHear(next) = ToHear(at) - 2, ToSay(next) = ToSay(at),
         ToHear(at) = 4 => type = "VERSION", ToHear(at) = 2 => type = Second(x)
  PROVE  HandshakeInv' /\ \A d \in Conn, f \in End : KeptAt(d, f)
<1>1. Peer(x) \in End /\ Peer(x) # x /\ Peer(Peer(x)) = x
  BY DEF Peer, End
<1> DEFINE p == Peer(x)
           hear == ToHear(at)
           Move(r) == Jump(c, x, IF r.type = "NONE" THEN at
                                 ELSE IF r.type = type /\ r.whole /\ accepted THEN next
                                 ELSE "return")
<1>2. PICK n \in 1..Len(wire[c][x]) : \E r \in Results(c, x, n) : Receive(c, x, n, r) /\ Move(r)
  BY DEF Await
<1>3. PICK r \in Results(c, x, n) : Receive(c, x, n, r) /\ Move(r)
  BY <1>2
<1>4. /\ pc[c][x] = at
      /\ buf[c][x] \in Seq(Token) /\ wire[c][x] \in Seq(Token)
  BY DEF Await, At, TypeInv, EndsOK
<1>5. /\ \A d \in Conn \ {c}, f \in End : wire'[d][f] = wire[d][f]
      /\ \A d \in Conn, f \in End : d # c \/ f # x =>
           kill'[d][f] = kill[d][f] /\ buf'[d][f] = buf[d][f] /\ wire'[d][f] = wire[d][f]
      /\ wire'[c][x] = From(wire[c][x], n + 1) /\ buf'[c][x] = r.rest
      /\ kill'[c][x] = r.kill /\ ~kill[c][x]
  BY <1>3 DEF Receive, TypeInv, EndsOK
<1>6. \A g \in Silent : g \in {"return", "ended", "refused", "leaked"}
  BY DEF Silent
<1>7. at \notin Silent /\ at # "ended" /\ next # "return"
  BY DEF Silent, Waiting
<1>8. ASSUME Owner[c] \in PassOK, pc[c][p] # "ended"
      PROVE  /\ r.type = type /\ r.whole
             /\ OnScript(x, hear - 2, buf'[c][x] \o wire'[c][x])
             /\ \/ Lost(c, p)
                \/ AllSaid(hear - 2, ToSay(pc[c][p]), buf'[c][x] \o wire'[c][x])
  <2>1. /\ OnScript(x, hear, Stream(c, x))
        /\ Lost(c, p) \/ AllSaid(hear, ToSay(pc[c][p]), Stream(c, x))
    BY <1>4, <1>7, <1>8 DEF HandshakeInv, Scripted
  <2> DEFINE b == buf[c][x]
             w == wire[c][x]
  <2>2. b \in Seq(Token) /\ w \in Seq(Token) /\ Stream(c, x) = b \o w
    BY <1>4 DEF Stream
  <2>3. n \in Arrived(w) /\ n \in 1..Len(w) /\ r \in Parse(b \o SubSeq(w, 1, n))
    BY <1>2, <1>3 DEF Receive, Results
  <2>4. Starts(b \o w, type)
    <3>1. 1 <= hear /\ 2 <= hear
      OBVIOUS
    <3>2. ASSUME NEW i \in {1, 2}, i \in 1..Len(b \o w) PROVE (b \o w)[i] = Script(x)[4 - hear + i]
      BY <2>1, <2>2, <3>1, <3>2 DEF OnScript
    <3>3. /\ Script(x)[1] = Piece("VERSION", FALSE) /\ Script(x)[2] = Piece("VERSION", TRUE)
          /\ Script(x)[3] = Piece(Second(x), FALSE) /\ Script(x)[4] = Piece(Second(x), TRUE)
      BY Pieces
    <3>4. Script(x)[4 - hear + 1] = Piece(type, FALSE) /\ Script(x)[4 - hear + 2] = Piece(type, TRUE)
      <4>1. CASE hear = 4
        <5>1. type = "VERSION" /\ 4 - hear + 1 = 1 /\ 4 - hear + 2 = 2
          BY <4>1
        <5>2. QED
          BY <3>3, <5>1
      <4>2. CASE hear = 2
        <5>1. type = Second(x) /\ 4 - hear + 1 = 3 /\ 4 - hear + 2 = 4
          BY <4>2
        <5>2. QED
          BY <3>3, <5>1
      <4>3. QED
        BY <4>1, <4>2
    <3>5. QED
      BY <3>2, <3>4 DEF Starts
  <2> HIDE DEF b, w
  <2>5. /\ r.type = type /\ r.whole /\ ~r.kill
        /\ Len(b \o w) >= 2
        /\ r.rest \o From(w, n + 1) = From(b \o w, 3)
    <3>1. b \in Seq(Token) /\ w \in Seq(Token)
      BY <2>2
    <3>2. n \in Arrived(w) /\ n \in 1..Len(w)
      BY <2>3
    <3>3. r \in Parse(b \o SubSeq(w, 1, n))
      BY <2>3
    <3>4. type \in Type \ Bare /\ Fragment = FALSE
      OBVIOUS
    <3>5. r = Parsed(type, NoMsg, TRUE, r.rest)
      BY ONLY <2>4, <3>1, <3>2, <3>3, <3>4, HearsWhole, Zenon
    <3>6. r.type = type /\ r.whole /\ ~r.kill
      BY <3>5 DEF Parsed
    <3>8. Len(b \o w) >= 2
      BY ONLY <2>4, <3>1, <3>2, <3>3, <3>4, HearsWhole, Zenon
    <3>9. r.rest \o From(w, n + 1) = From(b \o w, 3)
      BY ONLY <2>4, <3>1, <3>2, <3>3, <3>4, HearsWhole, Zenon
    <3>10. QED
      BY <3>6, <3>8, <3>9
  <2>6. buf'[c][x] \o wire'[c][x] = From(Stream(c, x), 3)
    BY <1>5, <2>2, <2>5 DEF w
  <2>7. Stream(c, x) \in Seq(Token) /\ Len(Stream(c, x)) >= 2
    BY <2>2, <2>5
  <2>8. ToSay(pc[c][p]) \in {0, 2, 4}
    BY HearSay
  <2> HIDE DEF hear, p
  <2>9. hear \in {2, 4}
    BY DEF hear
  <2>10. /\ OnScript(x, hear - 2, From(Stream(c, x), 3))
         /\ AllSaid(hear, ToSay(pc[c][p]), Stream(c, x))
              => AllSaid(hear - 2, ToSay(pc[c][p]), From(Stream(c, x), 3))
    BY <2>1, <2>7, <2>8, <2>9, FollowsHeard
  <2>11. QED
    BY <2>1, <2>5, <2>6, <2>10
<1>9. PICK to : /\ Jump(c, x, to) /\ to \in {at, next, "return"}
                /\ Owner[c] \in PassOK /\ pc[c][p] # "ended" => to = next
  <2>1. type # "NONE"
    BY DEF Type
  <2>2. CASE r.type = "NONE"
    BY <1>3, <1>8, <2>1, <2>2
  <2>3. CASE r.type # "NONE" /\ r.type = type /\ r.whole /\ accepted
    BY <1>3, <2>3
  <2>4. CASE r.type # "NONE" /\ ~(r.type = type /\ r.whole /\ accepted)
    BY <1>3, <1>8, <2>4
  <2>5. QED
    BY <2>2, <2>3, <2>4
<1>10. ASSUME Owner[c] \in PassOK, to \notin Silent, pc[c][p] # "ended"
      PROVE  /\ OnScript(x, ToHear(to), buf'[c][x] \o wire'[c][x])
             /\ \/ Lost(c, p)
                \/ AllSaid(ToHear(to), ToSay(pc[c][p]), buf'[c][x] \o wire'[c][x])
  <2>1. to = next /\ ToHear(to) = hear - 2
    BY <1>9, <1>10
  <2>2. QED
    BY <1>8, <1>10, <2>1
<1>11. ASSUME Owner[c] \in PassOK, to # "ended", pc[c][p] \notin Silent
      PROVE  /\ OnScript(p, ToHear(pc[c][p]), buf[c][p] \o wire'[c][p])
             /\ \/ kill'[c][x] \/ to \in Silent
                \/ AllSaid(ToHear(pc[c][p]), ToSay(to), buf[c][p] \o wire'[c][p])
  <2>1. wire'[c][p] = wire[c][p]
    BY <1>1, <1>5
  <2>2. pc[c][p] # "ended" /\ to = next /\ ToSay(to) = ToSay(at)
    BY <1>9, <1>11 DEF Silent
  <2>3. Scripted(c, p) /\ pc[c][x] # "ended" /\ pc[c][x] \notin Silent
    BY <1>1, <1>4, <1>7, <1>11 DEF HandshakeInv
  <2>4. QED
    BY <1>1, <1>4, <1>5, <1>11, <2>1, <2>2, <2>3 DEF Scripted, Lost, Stream
<1>12. pc[c][x] \in Waiting /\ to = "return"
         => kill'[c][x] \/ pc[c][p] = "ended" \/ Owner[c] \notin PassOK
  BY <1>7, <1>9
<1>13. QED
  <2>1. \A d \in Conn, f \in End :
          d # c \/ f # x => kill'[d][f] = kill[d][f] /\ buf'[d][f] = buf[d][f]
    BY <1>5
  <2>2. \A d \in Conn \ {c}, f \in End : wire'[d][f] = wire[d][f]
    BY <1>5
  <2>3. pc[c][x] # "ended" /\ Jump(c, x, to)
    BY <1>4, <1>7, <1>9
  <2>4. QED
    BY <1>10, <1>11, <1>12, <2>1, <2>2, <2>3, HandshakeMove

\* A thread that receives in its loop.
LEMMA HandshakeReceive ==
  ASSUME NEW c \in Conn, NEW x \in End, NEW n \in 0..Len(wire[c][x]),
         NEW r \in Results(c, x, n), Receive(c, x, n, r), At(c, x, "receive"),
         NEW to \in {"top", "relay", "return"}, Jump(c, x, to), TypeInv, HandshakeInv
  PROVE  HandshakeInv' /\ \A d \in Conn, f \in End : KeptAt(d, f)
<1>1. Peer(x) \in End /\ Peer(x) # x /\ Peer(Peer(x)) = x
  BY DEF Peer, End
<1> DEFINE p == Peer(x)
<1>2. /\ pc[c][x] = "receive" /\ buf[c][x] \in Seq(Token) /\ wire[c][x] \in Seq(Token)
      /\ pc[c][x] \notin Waiting /\ pc[c][x] \notin Silent /\ pc[c][x] # "ended" /\ to # "ended"
      /\ ToHear(pc[c][x]) = 0 /\ ToHear(to) = 0 /\ ToSay(pc[c][x]) = 0 /\ ToSay(to) = 0
  BY DEF At, TypeInv, EndsOK, Waiting, Silent, ToHear, ToSay
<1>3. /\ \A d \in Conn \ {c}, f \in End : wire'[d][f] = wire[d][f]
      /\ \A d \in Conn, f \in End : d # c \/ f # x =>
           kill'[d][f] = kill[d][f] /\ buf'[d][f] = buf[d][f] /\ wire'[d][f] = wire[d][f]
      /\ wire'[c][x] = From(wire[c][x], n + 1) /\ buf'[c][x] = r.rest /\ ~kill[c][x]
  BY DEF Receive, TypeInv, EndsOK
<1>4. buf[c][x] \o wire[c][x] \in Seq(Token) /\ buf'[c][x] \o wire'[c][x] \in Seq(Token)
  <2>1. From(wire[c][x], n + 1) \in Seq(Token) /\ r.rest \in Seq(Token)
    BY <1>2, ReceiveTakes
  <2>2. QED
    BY <1>2, <1>3, <2>1
<1>5. ASSUME Owner[c] \in PassOK, to \notin Silent, pc[c][p] # "ended"
      PROVE  /\ OnScript(x, ToHear(to), buf'[c][x] \o wire'[c][x])
             /\ \/ Lost(c, p)
                \/ AllSaid(ToHear(to), ToSay(pc[c][p]), buf'[c][x] \o wire'[c][x])
  <2>1. Lost(c, p) \/ AllSaid(0, ToSay(pc[c][p]), buf[c][x] \o wire[c][x])
    BY <1>2, <1>5 DEF HandshakeInv, Scripted, Stream
  <2>2. ToSay(pc[c][p]) \in {0, 2, 4}
    BY HearSay
  <2>3. /\ OnScript(x, 0, buf'[c][x] \o wire'[c][x])
        /\ AllSaid(0, ToSay(pc[c][p]), buf[c][x] \o wire[c][x])
             => AllSaid(0, ToSay(pc[c][p]), buf'[c][x] \o wire'[c][x])
    BY <1>4, <2>2, FollowsNothing
  <2>4. QED
    BY <1>2, <2>1, <2>3
<1>6. ASSUME Owner[c] \in PassOK, to # "ended", pc[c][p] \notin Silent
      PROVE  /\ OnScript(p, ToHear(pc[c][p]), buf[c][p] \o wire'[c][p])
             /\ \/ kill'[c][x] \/ to \in Silent
                \/ AllSaid(ToHear(pc[c][p]), ToSay(to), buf[c][p] \o wire'[c][p])
  <2>1. wire'[c][p] = wire[c][p]
    BY <1>1, <1>3
  <2>2. Scripted(c, p)
    BY <1>1, <1>6 DEF HandshakeInv
  <2>3. QED
    BY <1>1, <1>2, <1>3, <1>6, <2>1, <2>2 DEF Scripted, Lost, Stream
<1>7. QED
  <2>1. \A d \in Conn, f \in End :
          d # c \/ f # x => kill'[d][f] = kill[d][f] /\ buf'[d][f] = buf[d][f]
    BY <1>3
  <2>2. \A d \in Conn \ {c}, f \in End : wire'[d][f] = wire[d][f]
    BY <1>3
  <2>3. QED
    BY <1>2, <1>5, <1>6, <2>1, <2>2, HandshakeMove

\* Every step keeps to the script.
LEMMA HandshakeNext ==
  ASSUME Fragment = FALSE, TypeInv, HandshakeInv, [Next]_vars
  PROVE  HandshakeInv' /\ \A d \in Conn, f \in End : KeptAt(d, f)
<1> DEFINE Goal == HandshakeInv' /\ \A d \in Conn, f \in End : KeptAt(d, f)
<1>0. {"VERSION", "INFO", "PASSWORD"} \subseteq Type \ Bare
  BY DEF Type, Bare
<1> USE DEF End
<1>1. ASSUME NEW c \in Conn, NEW x \in End,
             \/ Flush(c, x) \/ SendNext(c, x) \/ ReceiveError(c, x)
             \/ Say(c, x, "greet", "VERSION", "version")
      PROVE  Goal
  <2> HIDE DEF Goal
  <2>1. CASE Flush(c, x)
    <3>1. PICK to \in {"return", "receive", "send"} : Jump(c, x, to)
      BY <2>1 DEF Flush
    <3>2. UNCHANGED <<kill, buf, wire>> /\ pc[c][x] = "top"
      BY <2>1 DEF Flush, At
    <3>3. /\ pc[c][x] # "ended" /\ pc[c][x] \notin Silent /\ pc[c][x] \notin Waiting
          /\ ToHear(to) = ToHear(pc[c][x]) /\ ToSay(to) = ToSay(pc[c][x])
      BY <3>2 DEF Silent, Waiting, ToHear, ToSay
    <3>4. QED
      BY <3>1, <3>2, <3>3, HandshakeQuiet DEF Goal
  <2>2. CASE SendNext(c, x)
    <3>1. PICK to \in {"receive", "send"} : Jump(c, x, to)
      BY <2>2 DEF SendNext
    <3>2. At(c, x, "send") /\ Send(c, x, Head(batch[c][x])) /\ buf' = buf
      BY <2>2 DEF SendNext
    <3>3. Head(batch[c][x]) \in Message
      BY <3>2, HeadOfBatch
    <3>4. /\ pc[c][x] \notin Silent /\ pc[c][x] \notin Waiting /\ to \notin Silent
          /\ ToHear(to) = ToHear(pc[c][x]) /\ ToSay(pc[c][x]) = 0 /\ ToSay(to) = 0
      BY <3>1, <3>2 DEF At, Silent, Waiting, ToHear, ToSay
    <3>5. QED
      BY <3>1, <3>2, <3>3, <3>4, HandshakeSend DEF Goal
  <2>3. CASE ReceiveError(c, x)
    <3>1. PICK to \in {"top", "return"} : Jump(c, x, to) /\ (to = "top" => pc[c][x] = "receive")
      BY <2>3 DEF ReceiveError, At
    <3>2. /\ UNCHANGED <<buf, wire>> /\ kill' = [kill EXCEPT ![c][x] = TRUE]
          /\ kill'[c][x] /\ pc[c][x] \in Waiting \cup {"receive"}
      BY <2>3 DEF ReceiveError, TypeInv, EndsOK
    <3>3. pc[c][x] # "ended" /\ pc[c][x] \notin Silent
      BY <3>2 DEF Silent, Waiting
    <3>4. to \in Silent \/ (ToHear(to) = ToHear(pc[c][x]) /\ ToSay(to) = ToSay(pc[c][x]))
      BY <3>1 DEF Silent, ToHear, ToSay
    <3>5. QED
      BY <3>1, <3>2, <3>3, <3>4, HandshakeQuiet DEF Goal
  <2>4. CASE Say(c, x, "greet", "VERSION", "version")
    <3>1. /\ Send(c, x, Control("VERSION")) /\ Jump(c, x, "version")
          /\ buf' = buf /\ pc[c][x] = "greet"
      BY <2>4 DEF Say, At
    <3>2. /\ pc[c][x] \notin Waiting /\ pc[c][x] \notin Silent /\ "version" \notin Silent
          /\ ToHear("version") = ToHear(pc[c][x])
          /\ ToSay(pc[c][x]) = 4 /\ ToSay("version") = 2
      BY <3>1 DEF Silent, Waiting, ToHear, ToSay
    <3>3. QED
      BY <1>0, <3>1, <3>2, HandshakeSay DEF Goal
  <2>5. QED
    BY <1>1, <2>1, <2>2, <2>3, <2>4
<1>2. ASSUME NEW c \in Conn, SecondaryThread(c) PROVE Goal
  <2> HIDE DEF Goal
  <2>1. CASE Create(c) \/ Connect(c)
    <3>1. PICK to \in {"created", "greet", "refused"} :
            /\ Jump(c, "secondary", to)
            /\ \/ to = "created" /\ pc[c]["secondary"] = "none"
               \/ to # "created" /\ pc[c]["secondary"] = "created"
      BY <2>1 DEF Create, Connect, At
    <3>2. UNCHANGED <<kill, buf, wire>>
      BY <2>1 DEF Create, Connect
    <3>3. /\ pc[c]["secondary"] # "ended" /\ pc[c]["secondary"] \notin Silent
          /\ pc[c]["secondary"] \notin Waiting
          /\ \/ to \in Silent
             \/ ToHear(to) = ToHear(pc[c]["secondary"]) /\ ToSay(to) = ToSay(pc[c]["secondary"])
      BY <3>1 DEF Silent, Waiting, ToHear, ToSay
    <3>4. QED
      BY <3>1, <3>2, <3>3, HandshakeQuiet DEF Goal
  <2>2. CASE Await(c, "secondary", "version", "VERSION", TRUE, "info")
    <3>1. /\ "version" \in Waiting /\ "info" \notin Silent
          /\ ToHear("version") = 4 /\ ToHear("info") = 2 /\ ToSay("info") = ToSay("version")
      BY DEF Waiting, Silent, ToHear, ToSay
    <3>2. /\ "VERSION" \in Type \ Bare /\ "secondary" \in End
          /\ ToHear("version") \in {2, 4} /\ ToHear("info") = ToHear("version") - 2
          /\ (ToHear("version") = 4 => "VERSION" = "VERSION")
          /\ (ToHear("version") = 2 => "VERSION" = Second("secondary"))
          /\ (Owner[c] \in PassOK => TRUE)
      BY <1>0, <3>1
    <3>3. QED
      BY <2>2, <3>1, <3>2, HandshakeHear, Zenon DEF Goal
  <2>3. CASE Await(c, "secondary", "info", "INFO", TRUE, "answer")
    <3>1. /\ "info" \in Waiting /\ "answer" \notin Silent
          /\ ToHear("info") = 2 /\ ToHear("answer") = 0 /\ ToSay("answer") = ToSay("info")
          /\ Second("secondary") = "INFO"
      BY DEF Waiting, Silent, ToHear, ToSay, Second
    <3>2. /\ "INFO" \in Type \ Bare /\ "secondary" \in End
          /\ ToHear("info") \in {2, 4} /\ ToHear("answer") = ToHear("info") - 2
          /\ (ToHear("info") = 4 => "INFO" = "VERSION")
          /\ (ToHear("info") = 2 => "INFO" = Second("secondary"))
          /\ (Owner[c] \in PassOK => TRUE)
      BY <1>0, <3>1
    <3>3. QED
      BY <2>3, <3>1, <3>2, HandshakeHear, Zenon DEF Goal
  <2>4. CASE Say(c, "secondary", "answer", "PASSWORD", "ready")
    <3>1. /\ Send(c, "secondary", Control("PASSWORD")) /\ Jump(c, "secondary", "ready")
          /\ buf' = buf /\ pc[c]["secondary"] = "answer"
      BY <2>4 DEF Say, At
    <3>2. /\ pc[c]["secondary"] \notin Waiting /\ pc[c]["secondary"] \notin Silent
          /\ "ready" \notin Silent
          /\ ToHear("ready") = ToHear(pc[c]["secondary"])
          /\ ToSay(pc[c]["secondary"]) = 2 /\ ToSay("ready") = 0
          /\ Second(Peer("secondary")) = "PASSWORD"
      BY <3>1 DEF Silent, Waiting, ToHear, ToSay, Second, Peer
    <3>3. QED
      BY <1>0, <3>1, <3>2, HandshakeSay DEF Goal
  <2>5. CASE Say(c, "secondary", "ready", "READY", "top")
    <3>1. /\ Send(c, "secondary", Control("READY")) /\ Jump(c, "secondary", "top")
          /\ buf' = buf /\ pc[c]["secondary"] = "ready"
      BY <2>5 DEF Say, At
    <3>2. /\ pc[c]["secondary"] \notin Waiting /\ pc[c]["secondary"] \notin Silent
          /\ "top" \notin Silent
          /\ ToHear("top") = ToHear(pc[c]["secondary"])
          /\ ToSay(pc[c]["secondary"]) = 0 /\ ToSay("top") = 0
      BY <3>1 DEF Silent, Waiting, ToHear, ToSay
    <3>3. Control("READY") \in Message
      BY Messages DEF Type
    <3>4. QED
      BY <3>1, <3>2, <3>3, HandshakeSend DEF Goal
  <2>6. CASE ReceiveSecondary(c)
    <3>1. PICK n \in 0..Len(wire[c]["secondary"]) : \E r \in Results(c, "secondary", n) :
            /\ Receive(c, "secondary", n, r)
            /\ Jump(c, "secondary", IF r.type = "CLOSE" THEN "return" ELSE "top")
      BY <2>6 DEF ReceiveSecondary
    <3>2. PICK r \in Results(c, "secondary", n) :
            /\ Receive(c, "secondary", n, r)
            /\ Jump(c, "secondary", IF r.type = "CLOSE" THEN "return" ELSE "top")
      BY <3>1
    <3>3. \E to \in {"top", "relay", "return"} : Jump(c, "secondary", to)
      BY <3>2
    <3>4. At(c, "secondary", "receive")
      BY <2>6 DEF ReceiveSecondary
    <3>5. QED
      BY <3>2, <3>3, <3>4, HandshakeReceive DEF Goal
  <2>7. CASE EndSecondary(c)
    <3>1. /\ Send(c, "secondary", Control("CLOSE")) /\ Jump(c, "secondary", "ended")
          /\ buf' = buf /\ pc[c]["secondary"] = "return"
      BY <2>7 DEF EndSecondary, At
    <3>2. pc[c]["secondary"] \notin Waiting /\ pc[c]["secondary"] \in Silent \ {"ended"}
      BY <3>1 DEF Silent, Waiting
    <3>3. Control("CLOSE") \in Message
      BY Messages DEF Type
    <3>4. QED
      BY <3>1, <3>2, <3>3, HandshakeSend DEF Goal
  <2>8. QED
    BY <1>1, <1>2, <2>1, <2>2, <2>3, <2>4, <2>5, <2>6, <2>7 DEF SecondaryThread
<1>3. ASSUME NEW c \in Conn, PrimaryThread(c) PROVE Goal
  <2> HIDE DEF Goal
  <2>1. CASE Await(c, "primary", "version", "VERSION", TRUE, "challenge")
    <3>1. /\ "version" \in Waiting /\ "challenge" \notin Silent
          /\ ToHear("version") = 4 /\ ToHear("challenge") = 2 /\ ToSay("challenge") = ToSay("version")
      BY DEF Waiting, Silent, ToHear, ToSay
    <3>2. /\ "VERSION" \in Type \ Bare /\ "primary" \in End
          /\ ToHear("version") \in {2, 4} /\ ToHear("challenge") = ToHear("version") - 2
          /\ (ToHear("version") = 4 => "VERSION" = "VERSION")
          /\ (ToHear("version") = 2 => "VERSION" = Second("primary"))
          /\ (Owner[c] \in PassOK => TRUE)
      BY <1>0, <3>1
    <3>3. QED
      BY <2>1, <3>1, <3>2, HandshakeHear, Zenon DEF Goal
  <2>2. CASE Say(c, "primary", "challenge", "INFO", "password")
    <3>1. /\ Send(c, "primary", Control("INFO")) /\ Jump(c, "primary", "password")
          /\ buf' = buf /\ pc[c]["primary"] = "challenge"
      BY <2>2 DEF Say, At
    <3>2. /\ pc[c]["primary"] \notin Waiting /\ pc[c]["primary"] \notin Silent
          /\ "password" \notin Silent
          /\ ToHear("password") = ToHear(pc[c]["primary"])
          /\ ToSay(pc[c]["primary"]) = 2 /\ ToSay("password") = 0
          /\ Second(Peer("primary")) = "INFO"
      BY <3>1 DEF Silent, Waiting, ToHear, ToSay, Second, Peer
    <3>3. QED
      BY <1>0, <3>1, <3>2, HandshakeSay DEF Goal
  <2>3. CASE Await(c, "primary", "password", "PASSWORD", PasswordAccepted(c), "top")
    <3>1. /\ "password" \in Waiting /\ "top" \notin Silent
          /\ ToHear("password") = 2 /\ ToHear("top") = 0 /\ ToSay("top") = ToSay("password")
          /\ Second("primary") = "PASSWORD"
      BY DEF Waiting, Silent, ToHear, ToSay, Second
    <3>2. /\ "PASSWORD" \in Type \ Bare /\ "primary" \in End
          /\ ToHear("password") \in {2, 4} /\ ToHear("top") = ToHear("password") - 2
          /\ (ToHear("password") = 4 => "PASSWORD" = "VERSION")
          /\ (ToHear("password") = 2 => "PASSWORD" = Second("primary"))
          /\ (Owner[c] \in PassOK => PasswordAccepted(c))
      BY <1>0, <3>1 DEF PasswordAccepted
    <3>3. QED
      BY <2>3, <3>1, <3>2, HandshakeHear, Zenon DEF Goal
  <2>4. CASE ReceivePrimary(c)
    <3>1. PICK n \in 0..Len(wire[c]["primary"]) : \E r \in Results(c, "primary", n) :
            Receive(c, "primary", n, r)
            /\ \E to \in {"top", "relay", "return"} : Jump(c, "primary", to)
      BY <2>4 DEF ReceivePrimary
    <3>2. PICK r \in Results(c, "primary", n) :
            Receive(c, "primary", n, r)
            /\ \E to \in {"top", "relay", "return"} : Jump(c, "primary", to)
      BY <3>1
    <3>3. At(c, "primary", "receive")
      BY <2>4 DEF ReceivePrimary
    <3>4. QED
      BY <3>2, <3>3, HandshakeReceive DEF Goal
  <2>5. CASE Relay(c)
    <3>1. Jump(c, "primary", "top") /\ UNCHANGED <<kill, buf, wire>> /\ pc[c]["primary"] = "relay"
      BY <2>5 DEF Relay, At
    <3>2. /\ pc[c]["primary"] # "ended" /\ pc[c]["primary"] \notin Silent
          /\ pc[c]["primary"] \notin Waiting
          /\ ToHear("top") = ToHear(pc[c]["primary"]) /\ ToSay("top") = ToSay(pc[c]["primary"])
      BY <3>1 DEF Silent, Waiting, ToHear, ToSay
    <3>3. QED
      BY <3>1, <3>2, HandshakeQuiet DEF Goal
  <2>6. CASE EndPrimary(c)
    <3>1. pc[c]["primary"] = "return" /\ buf' = buf
      BY <2>6 DEF EndPrimary, At
    <3>2. /\ pc[c]["primary"] \notin Waiting /\ pc[c]["primary"] \in Silent \ {"ended"}
          /\ "leaked" \in Silent
      BY <3>1 DEF Silent, Waiting
    <3>3. CASE c \in listed
      <4>1. Send(c, "primary", Control("CLOSE")) /\ Jump(c, "primary", "ended")
        BY <2>6, <3>3 DEF EndPrimary
      <4>2. Control("CLOSE") \in Message
        BY Messages DEF Type
      <4>3. QED
        BY <3>1, <3>2, <4>1, <4>2, HandshakeSend DEF Goal
    <3>4. CASE c \notin listed
      <4>1. Jump(c, "primary", "leaked") /\ UNCHANGED <<kill, wire>>
        BY <2>6, <3>4 DEF EndPrimary
      <4>2. QED
        BY <3>1, <3>2, <4>1, HandshakeQuiet DEF Goal
    <3>5. QED
      BY <3>3, <3>4
  <2>7. QED
    BY <1>1, <1>3, <2>1, <2>2, <2>3, <2>4, <2>5, <2>6 DEF PrimaryThread
<1>4. ASSUME NEW c \in Conn, Accept(c) PROVE Goal
  <2>1. PICK to \in {"greet", "leaked"} : Jump(c, "primary", to)
    BY <1>4 DEF Accept
  <2>2. UNCHANGED <<kill, buf, wire>> /\ pc[c]["primary"] = "none"
    BY <1>4 DEF Accept, At
  <2>3. /\ pc[c]["primary"] # "ended" /\ pc[c]["primary"] \notin Silent
        /\ pc[c]["primary"] \notin Waiting
        /\ \/ to \in Silent
           \/ ToHear(to) = ToHear(pc[c]["primary"]) /\ ToSay(to) = ToSay(pc[c]["primary"])
    BY <2>1, <2>2 DEF Silent, Waiting, ToHear, ToSay
  <2>4. QED
    BY <2>1, <2>2, <2>3, HandshakeQuiet
<1>5. ASSUME UNCHANGED <<pc, kill, buf, wire>> PROVE Goal
  <2>1. HandshakeInv'
    BY <1>5 DEF HandshakeInv, Scripted, Lost, Stream
  <2>2. \A d \in Conn, f \in End : KeptAt(d, f)
    BY <1>5 DEF KeptAt, Waiting
  <2>3. QED
    BY <2>1, <2>2
<1>6. CASE \/ PushBack
           \/ \E m \in Msg : AnnouncePrimary(m)
           \/ \E c \in Conn, m \in Msg : AnnounceSecondary(c, m)
           \/ UNCHANGED vars
  BY <1>5, <1>6 DEF PushBack, AnnouncePrimary, AnnounceSecondary, vars, ends
<1>7. QED
  BY <1>2, <1>3, <1>4, <1>6 DEF Next

\* Nothing has been said at first.
LEMMA HandshakeStarts == Init => HandshakeInv
<1> SUFFICES ASSUME Init, NEW c \in Conn, NEW e \in End PROVE Scripted(c, e)
  BY DEF HandshakeInv
<1>1. /\ pc[c][e] = "none" /\ pc[c][Peer(e)] = "none"
      /\ buf[c][e] = <<>> /\ wire[c][e] = <<>>
  BY Peers DEF Init
<1>2. ToHear(pc[c][e]) = 4 /\ ToSay(pc[c][Peer(e)]) = 4
  BY <1>1 DEF ToHear, ToSay
<1>3. Stream(c, e) = <<>> /\ Len(<<>>) = 0
  BY <1>1 DEF Stream
<1>4. OnScript(e, 4, <<>>) /\ AllSaid(4, 4, <<>>)
  BY <1>3 DEF OnScript, AllSaid
<1>5. QED
  BY <1>2, <1>3, <1>4 DEF Scripted

\* CLink::Go and CLinkClient::Go (link.cpp:96 and :529) agree on the order
\* of the handshake: as long as messages are not cut, however many of them one
\* recv returns and whatever breaks, no end with the right password returns
\* because of what it received.
THEOREM HandshakeAgreed ==
  ASSUME Fragment = FALSE
  PROVE  Spec => HandshakeKept
<1>1. Init => HandshakeInv
  BY HandshakeStarts
<1>2. TypeInv /\ HandshakeInv /\ [Next]_vars
        => HandshakeInv' /\ \A c \in Conn, e \in End : KeptAt(c, e)
  BY HandshakeNext
<1>3. (\A c \in Conn, e \in End : KeptAt(c, e))
        => [\A c \in Conn, e \in End :
              /\ pc[c][e] \in Waiting
              /\ pc'[c][e] = "return"
              => \/ kill'[c][e]
                 \/ pc[c][Peer(e)] = "ended"
                 \/ Owner[c] \notin PassOK]_vars
  BY DEF KeptAt
<1>4. QED
  BY <1>1, <1>2, <1>3, TypeInvAlways, PTL DEF Spec, HandshakeKept

=============================================================================
