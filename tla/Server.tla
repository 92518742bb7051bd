------------------------------- MODULE Server -------------------------------
(***************************************************************************)
(* Connections: the pool of clients of CServer (server.cpp), the threads   *)
(* that receive their requests and send the responses (client.cpp), and    *)
(* the shutdown (sigCatcher and the main loop of bnbt.cpp, ~CServer).      *)
(*                                                                         *)
(* The main thread runs CServer::Update over and over and visits the       *)
(* clients one at a time; worker threads run at their own pace.  Both      *)
(* sides look at m_iState only.  Storing it is the last thing a worker     *)
(* does with its client, so a worker ends in the step that stores it.      *)
(* PROCESSING is a state of CClient::Process only, a step of this module.  *)
(*                                                                         *)
(* Time is counted in seconds.  Sending, receiving and computing take no   *)
(* time, waiting in select and sleeping does, and a thread whose time is   *)
(* up goes on within the second.                                           *)
(***************************************************************************)
EXTENDS Integers, FiniteSets

CONSTANTS
  Client,          \* client objects: allocated, freed, allocated again
  Listeners,       \* number of listening sockets
  MaxConns,        \* bnbt_max_conns
  MaxRecvSize,     \* bnbt_max_recv_size, in buffers of recv
  SocketTimeOut,   \* socket_timeout
  SelectConsumes,  \* select takes the time it waited off m_tvTimeOut (Linux)
  MaxWait,         \* how long ~CServer waits for the workers: 60 seconds
  MaxSends,        \* bound: calls of send a response takes
  MaxEntries       \* bound: entries parseTorrents finds in the allowed directory

ASSUME ClientAssumption == IsFiniteSet(Client)
ASSUME ServerAssumption ==
  /\ Listeners \in Nat \ {0}
  /\ MaxConns \in Nat \ {0}
  /\ {MaxRecvSize, SocketTimeOut, MaxWait, MaxSends, MaxEntries} \subseteq Nat
  /\ SelectConsumes \in BOOLEAN

VARIABLES
  at,          \* where the main thread is
  toAccept,    \* listeners it has yet to look at in this Update
  todo,        \* clients it has yet to visit in this pass over m_vecClients
  parsing,     \* calls of Update(false) a running parseTorrents will still make
  kill,        \* m_bKill
  waited,      \* GetTime() - iStart in ~CServer
  pool,        \* m_vecClients
  state,       \* m_iState
  thread,      \* what the worker of a client runs: StartReceiving, StartSending
  left,        \* m_tvTimeOut
  buf,         \* buffers in m_strReceiveBuf, or still to go in strSendBuf
  keepAlive    \* m_bKeepAlive

mainVars   == <<at, toAccept, todo, parsing, kill, waited>>
clientVars == <<state, thread, left, buf, keepAlive>>
vars == <<mainVars, pool, clientVars>>

Working(c) == thread[c] # "none"

Dying == at \in {"reap", "sleep", "wake"}

---------------------------------------------------------------------------
(***************************************************************************)
(* CServer::Update.                                                        *)
(***************************************************************************)

\* Mutant: one connection too many.
HasRoomInclusive == Cardinality(pool) <= MaxConns

HasRoom == Cardinality(pool) < MaxConns

\* The size of the pool is looked at once, before the loop over the listeners.
BeginUpdate ==
  /\ at = "listen"
  /\ at' = "accept"
  /\ toAccept' = IF HasRoom THEN Listeners ELSE 0
  /\ UNCHANGED <<todo, parsing, kill, waited, pool, clientVars>>

\* Mutant: a client whose thread cannot be created is left RECEIVING.
AdmitUnchecked(c, spawned) ==
  /\ state' = [state EXCEPT ![c] = "RECEIVING"]
  /\ thread' = [thread EXCEPT ![c] = IF spawned THEN "receiving" ELSE "none"]

Admit(c, spawned) ==
  /\ state' = [state EXCEPT ![c] = IF spawned THEN "RECEIVING" ELSE "DEAD"]
  /\ thread' = [thread EXCEPT ![c] = IF spawned THEN "receiving" ELSE "none"]

Accept(c, spawned) ==
  /\ at = "accept" /\ toAccept > 0
  /\ c \notin pool /\ ~Working(c)
  /\ pool' = pool \cup {c}
  /\ Admit(c, spawned)
  /\ left' = [left EXCEPT ![c] = SocketTimeOut]
  /\ buf' = [buf EXCEPT ![c] = 0]
  /\ keepAlive' = [keepAlive EXCEPT ![c] = FALSE]
  /\ toAccept' = toAccept - 1
  /\ UNCHANGED <<at, todo, parsing, kill, waited>>

\* Nobody connects to this listener, or select or accept fails.
AcceptNobody ==
  /\ at = "accept" /\ toAccept > 0
  /\ toAccept' = toAccept - 1
  /\ UNCHANGED <<at, todo, parsing, kill, waited, pool, clientVars>>

BeginPass ==
  /\ at = "accept" /\ toAccept = 0
  /\ at' = "process"
  /\ todo' = pool
  /\ UNCHANGED <<toAccept, parsing, kill, waited, pool, clientVars>>

Visit(c) == c \in todo /\ todo' = todo \ {c}

\* CClient::Process; the request may be an administrator's ap_kill.  The
\* connection is kept alive if the client asks for it and nobody has killed
\* the server.
Process(c, killed, wanted) ==
  /\ at = "process"
  /\ Visit(c)
  /\ state[c] = "WAITING1"
  /\ state' = [state EXCEPT ![c] = "WAITING2"]
  /\ kill' = (kill \/ killed)
  /\ keepAlive' = [keepAlive EXCEPT ![c] = wanted /\ ~kill']
  /\ UNCHANGED <<at, toAccept, parsing, waited, pool, thread, left, buf>>

SpawnSender(c, spawned, size) ==
  /\ at = "process"
  /\ Visit(c)
  /\ state[c] = "WAITING2"
  /\ state' = [state EXCEPT ![c] = IF spawned THEN "SENDING" ELSE "DEAD"]
  /\ thread' = [thread EXCEPT ![c] = IF spawned THEN "sending" ELSE "none"]
  /\ buf' = [buf EXCEPT ![c] = size]
  /\ UNCHANGED <<at, toAccept, parsing, kill, waited, pool, left, keepAlive>>

Bury(c) ==
  /\ at = "process"
  /\ Visit(c)
  /\ state[c] = "DEAD"
  /\ pool' = pool \ {c}
  /\ UNCHANGED <<at, toAccept, parsing, kill, waited, clientVars>>

PassBusy(c) ==
  /\ at = "process"
  /\ Visit(c)
  /\ state[c] \in {"RECEIVING", "SENDING"}
  /\ UNCHANGED <<at, toAccept, parsing, kill, waited, pool, clientVars>>

\* Mutant: the loop over the clients can end early.
EndPassEarly ==
  /\ at = "process"
  /\ at' = "tracker"
  /\ UNCHANGED <<toAccept, todo, parsing, kill, waited, pool, clientVars>>

EndPass ==
  /\ at = "process" /\ todo = {}
  /\ at' = "tracker"
  /\ UNCHANGED <<toAccept, todo, parsing, kill, waited, pool, clientVars>>

\* Mutant: the calls of Update(false) find another parse due.
StartParseAgain(entries) ==
  /\ at = "tracker"
  /\ parsing' = entries
  /\ at' = "listen"
  /\ UNCHANGED <<toAccept, todo, kill, waited, pool, clientVars>>

\* m_pTracker->Update() parses the allowed directory and calls Update(false)
\* for every entry; the calls find the next parse 9999 seconds away.
StartParse(entries) ==
  /\ at = "tracker" /\ parsing = 0
  /\ parsing' = entries
  /\ at' = "listen"
  /\ UNCHANGED <<toAccept, todo, kill, waited, pool, clientVars>>

\* A call made by parseTorrents returns; its result is not looked at.
ReturnToParse ==
  /\ at = "tracker" /\ parsing > 0
  /\ parsing' = parsing - 1
  /\ at' = IF parsing = 1 THEN "return" ELSE "listen"
  /\ UNCHANGED <<toAccept, todo, kill, waited, pool, clientVars>>

SkipParse ==
  /\ at = "tracker" /\ parsing = 0
  /\ at' = "return"
  /\ UNCHANGED <<toAccept, todo, parsing, kill, waited, pool, clientVars>>

\* The main loop of bnbtmain looks at the result of Update.
EndUpdate ==
  /\ at = "return"
  /\ IF kill THEN at' = "reap" /\ todo' = pool /\ waited' = 0
             ELSE at' = "listen" /\ UNCHANGED <<todo, waited>>
  /\ UNCHANGED <<toAccept, parsing, kill, pool, clientVars>>

---------------------------------------------------------------------------
(***************************************************************************)
(* The threads of a client.                                                *)
(***************************************************************************)

\* Mutant: the timeout starts again with every call of select.
AfterSelectRestarted(c) == left' = [left EXCEPT ![c] = SocketTimeOut]

\* select has found the socket ready: whether the time it waited is gone from
\* m_tvTimeOut depends on the platform.
AfterSelect(c) ==
  left' = IF SelectConsumes THEN left ELSE [left EXCEPT ![c] = SocketTimeOut]

\* The worker stores the last state and ends.
Finish(c, s) ==
  /\ state' = [state EXCEPT ![c] = s]
  /\ thread' = [thread EXCEPT ![c] = "none"]
  /\ UNCHANGED <<mainVars, pool, keepAlive>>

\* Mutant: the size of the request is not limited.
FitsAlways(c) == TRUE

\* Looked at before select.
Fits(c) == buf[c] <= MaxRecvSize

\* A buffer arrives and does not complete the request.
ReceiveMore(c) ==
  /\ thread[c] = "receiving" /\ Fits(c)
  /\ buf' = [buf EXCEPT ![c] = @ + 1]
  /\ AfterSelect(c)
  /\ UNCHANGED <<mainVars, pool, state, thread, keepAlive>>

\* The request, and the content of a POST, is complete and can be parsed.
ReceiveDone(c) ==
  /\ thread[c] = "receiving" /\ Fits(c)
  /\ buf' = [buf EXCEPT ![c] = @ + 1]
  /\ AfterSelect(c)
  /\ Finish(c, "WAITING1")

\* Mutant: a timed out select is tried again.
ReceiveFailRetried(c) ==
  /\ thread[c] = "receiving"
  /\ left' = [left EXCEPT ![c] = SocketTimeOut]
  /\ UNCHANGED <<mainVars, pool, state, thread, buf, keepAlive>>

\* The peer closes, an error, a malformed or oversized request, a timeout.
ReceiveFail(c) ==
  /\ thread[c] = "receiving"
  /\ Finish(c, "DEAD")
  /\ UNCHANGED <<left, buf>>

SendMore(c) ==
  /\ thread[c] = "sending" /\ buf[c] > 0
  /\ buf' = [buf EXCEPT ![c] = @ - 1]
  /\ AfterSelect(c)
  /\ UNCHANGED <<mainVars, pool, state, thread, keepAlive>>

\* The worker of a connection kept alive goes on to receive, and its timeout
\* goes on with what is left of it.
SendDone(c) ==
  /\ thread[c] = "sending" /\ buf[c] = 0
  /\ IF keepAlive[c]
     THEN /\ state' = [state EXCEPT ![c] = "RECEIVING"]
          /\ thread' = [thread EXCEPT ![c] = "receiving"]
          /\ keepAlive' = [keepAlive EXCEPT ![c] = FALSE]
          /\ UNCHANGED <<mainVars, pool>>
     ELSE Finish(c, "DEAD")
  /\ UNCHANGED <<left, buf>>

SendFail(c) ==
  /\ thread[c] = "sending" /\ buf[c] > 0
  /\ Finish(c, "DEAD")
  /\ UNCHANGED <<left, buf>>

Worker(c) ==
  \/ ReceiveMore(c) \/ ReceiveDone(c) \/ ReceiveFail(c)
  \/ SendMore(c) \/ SendDone(c) \/ SendFail(c)

---------------------------------------------------------------------------
(***************************************************************************)
(* Shutdown.                                                               *)
(***************************************************************************)

\* sigCatcher, or an administrator.  (A second signal ends the process.)
Kill ==
  /\ ~kill
  /\ kill' = TRUE
  /\ UNCHANGED <<at, toAccept, todo, parsing, waited, pool, clientVars>>

\* Mutant: a client being sent to is destroyed, too.
IdleStatesAll == {"WAITING1", "WAITING2", "SENDING", "DEAD"}

\* The states in which ~CServer destroys a client.
IdleStates == {"WAITING1", "WAITING2", "DEAD"}

Reap(c) ==
  /\ at = "reap"
  /\ Visit(c)
  /\ pool' = IF state[c] \in IdleStates THEN pool \ {c} ELSE pool
  /\ UNCHANGED <<at, toAccept, parsing, kill, waited, clientVars>>

Reaped ==
  /\ at = "reap" /\ todo = {}
  /\ at' = IF pool = {} THEN "exit" ELSE "sleep"
  /\ UNCHANGED <<toAccept, todo, parsing, kill, waited, pool, clientVars>>

\* "server - waited 60 seconds, exiting anyway": what is left is destroyed.
Wake ==
  /\ at = "wake"
  /\ IF waited > MaxWait
     THEN at' = "exit" /\ pool' = {} /\ todo' = {}
     ELSE at' = "reap" /\ todo' = pool /\ UNCHANGED pool
  /\ UNCHANGED <<toAccept, parsing, kill, waited, clientVars>>

\* A second passes; ~CServer sleeps for one at a time.
Tick ==
  /\ at # "exit"
  /\ \A c \in Client : Working(c) => left[c] > 0
  /\ left' = [c \in Client |-> IF Working(c) THEN left[c] - 1 ELSE left[c]]
  /\ waited' = IF Dying /\ waited <= MaxWait THEN waited + 1 ELSE waited
  /\ at' = IF at = "sleep" THEN "wake" ELSE at
  /\ UNCHANGED <<toAccept, todo, parsing, kill, pool, state, thread, buf, keepAlive>>

Exited == at = "exit" /\ UNCHANGED vars

---------------------------------------------------------------------------

Init ==
  /\ at = "listen" /\ toAccept = 0 /\ todo = {} /\ parsing = 0
  /\ kill = FALSE /\ waited = 0
  /\ pool = {}
  /\ state = [c \in Client |-> "DEAD"]
  /\ thread = [c \in Client |-> "none"]
  /\ left = [c \in Client |-> 0]
  /\ buf = [c \in Client |-> 0]
  /\ keepAlive = [c \in Client |-> FALSE]

Main ==
  \/ BeginUpdate \/ AcceptNobody \/ BeginPass \/ EndPass
  \/ \E c \in Client, spawned \in BOOLEAN : Accept(c, spawned)
  \/ \E c \in Client, killed, wanted \in BOOLEAN : Process(c, killed, wanted)
  \/ \E c \in Client, spawned \in BOOLEAN, size \in 1..MaxSends :
       SpawnSender(c, spawned, size)
  \/ \E c \in Client : Bury(c) \/ PassBusy(c) \/ Reap(c)
  \/ \E entries \in 1..MaxEntries : StartParse(entries)
  \/ ReturnToParse \/ SkipParse \/ EndUpdate \/ Reaped \/ Wake

Next ==
  \/ Main
  \/ \E c \in Client : Worker(c)
  \/ Kill
  \/ Tick
  \/ Exited

Spec == Init /\ [][Next]_vars

\* The scheduler runs the main thread and every thread whose select has timed
\* out, and time passes: there are only so many steps in a second, so the steps
\* of a busy connection cannot hold it up for ever (strong fairness).  There is
\* no fairness for a peer that keeps a worker waiting.
Fairness ==
  /\ WF_vars(Main)
  /\ SF_vars(Tick)
  /\ \A c \in Client : WF_vars(left[c] = 0 /\ Worker(c))

FairSpec == Spec /\ Fairness

---------------------------------------------------------------------------
(***************************************************************************)
(* Properties.                                                             *)
(***************************************************************************)

\* The receive buffer is limited although its size is checked before recv.
TypeOK ==
  /\ at \in {"listen", "accept", "process", "tracker", "return",
             "reap", "sleep", "wake", "exit"}
  /\ toAccept \in 0..Listeners
  /\ todo \subseteq pool
  /\ parsing \in 0..MaxEntries
  /\ kill \in BOOLEAN
  /\ waited \in 0..MaxWait + 1
  /\ pool \subseteq Client
  /\ state \in [Client -> {"RECEIVING", "WAITING1", "WAITING2", "SENDING", "DEAD"}]
  /\ thread \in [Client -> {"none", "receiving", "sending"}]
  /\ left \in [Client -> 0..SocketTimeOut]
  /\ buf \in [Client -> Nat] /\ \A c \in Client : thread[c] = "receiving" => buf[c] <= MaxRecvSize + 1
  /\ keepAlive \in [Client -> BOOLEAN]

\* A connection per listener is accepted on one look at the size of the pool,
\* so it may exceed bnbt_max_conns, by less than the number of listeners,
\* however the calls of Update that parseTorrents makes are interleaved.
PoolBounded == Cardinality(pool) <= MaxConns + Listeners - 1

\* What is yet to be accepted in this Update is part of the excess.
AcceptBounded ==
  at = "accept" /\ toAccept > 0 =>
    Cardinality(pool) + toAccept <= MaxConns + Listeners - 1

\* A client of the pool is RECEIVING or SENDING exactly while a worker has
\* hold of it.  If it were without one, nobody would ever store another state
\* and its place in the pool would be lost; if it had one in another state,
\* the main thread would read and free what the worker writes.
OneOwner ==
  \A c \in pool : Working(c) <=> state[c] \in {"RECEIVING", "SENDING"}

\* No worker is left with a client that has been destroyed: not by Update, and
\* not by ~CServer after it has waited long enough.
NoUseAfterFree == \A c \in Client : Working(c) => c \in pool

owner ==
  [c \in Client |-> IF c \notin pool THEN "nobody"
                    ELSE IF Working(c) THEN "worker" ELSE "main"]

Own == INSTANCE Ownership WITH Client <- Client, owner <- owner

\* The pool and its threads hand clients over as Ownership says.
ImplementsOwnership == Own!Spec

\* Every worker gives its client back, whatever the peer does, including one
\* that sends a byte now and then: m_tvTimeOut and the size limit bound it.
WorkersReturn == Own!Live

\* A complete request is not forgotten: it is processed, or the server exits.
RequestsSettled ==
  \A c \in Client :
    c \in pool /\ state[c] = "WAITING1" ~> c \notin pool \/ state[c] # "WAITING1"

\* After a signal the main loop ends and ~CServer gets to its end, even when
\* the signal arrives while a directory is parsed and connections keep coming.
ShutsDown == kill ~> at = "exit"

\* While ~CServer waits, what a worker still may wait and what has been waited
\* add up to no more than socket_timeout.
WorkersRunOut ==
  Dying => \A c \in Client : Working(c) => waited + left[c] <= SocketTimeOut

\* The inductive invariant behind NoUseAfterFree and ImplementsOwnership.
OwnInv == OneOwner /\ NoUseAfterFree /\ WorkersRunOut
=============================================================================
