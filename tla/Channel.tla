------------------------------ MODULE Channel ------------------------------
(***************************************************************************)
(* What a link between two trackers promises about the announces queued on *)
(* it: whatever arrives was queued, arrives once and in the order of       *)
(* queueing.  Announces may be lost, since a link that breaks drops what   *)
(* it holds.  Every direction of every link is a channel of its own.       *)
(***************************************************************************)
EXTENDS Naturals, Sequences, Functions

CONSTANTS Conn, End, Msg

VARIABLES
  put,   \* put[c][e]: the announces queued for end e of connection c
  got    \* got[c][e]: those its tracker was given

\* An announce is queued on some channels at a time.
Put(m, channels) ==
  /\ \A ch \in channels : m \notin Range(put[ch[1]][ch[2]])
  /\ put' = [c \in Conn |->
               [e \in End |-> IF <<c, e>> \in channels
                              THEN Append(put[c][e], m) ELSE put[c][e]]]
  /\ got' = got

\* What has not been overtaken yet.
Deliverable(c, e) ==
  {i \in DOMAIN put[c][e] :
     \A j \in DOMAIN put[c][e] : put[c][e][j] \in Range(got[c][e]) => j < i}

Get(c, e) ==
  /\ \E i \in Deliverable(c, e) :
       got' = [got EXCEPT ![c][e] = Append(@, put[c][e][i])]
  /\ put' = put

Init ==
  /\ put = [c \in Conn |-> [e \in End |-> <<>>]]
  /\ got = [c \in Conn |-> [e \in End |-> <<>>]]

Next ==
  \/ \E m \in Msg, channels \in SUBSET (Conn \X End) : Put(m, channels)
  \/ \E c \in Conn, e \in End : Get(c, e)

Spec == Init /\ [][Next]_<<put, got>>
=============================================================================
