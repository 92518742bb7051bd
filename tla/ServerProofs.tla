---------------------------- MODULE ServerProofs ----------------------------
(***************************************************************************)
(* What holds of Server for any number of clients, connections, listeners  *)
(* and entries, and any timeouts.                                          *)
(***************************************************************************)
EXTENDS Server, FiniteSetTheorems, TLAPS

---------------------------------------------------------------------------
(***************************************************************************)
(* Types, and the size of the pool.                                        *)
(***************************************************************************)

\* The types of the constants.
LEMMA Numbers ==
  /\ MaxConns \in Nat \ {0} /\ Listeners \in Nat \ {0}
  /\ MaxRecvSize \in Nat /\ SocketTimeOut \in Nat /\ MaxWait \in Nat
  /\ MaxSends \in Nat /\ MaxEntries \in Nat
BY ServerAssumption

\* The types hold at first,
LEMMA TypeInit == Init => TypeOK
<1> SUFFICES ASSUME Init PROVE TypeOK
  OBVIOUS
<1>1. /\ toAccept \in 0..Listeners /\ parsing \in 0..MaxEntries
      /\ waited \in 0..MaxWait + 1
  BY Numbers DEF Init
<1>2. /\ left \in [Client -> 0..SocketTimeOut] /\ buf \in [Client -> Nat]
      /\ \A c \in Client : thread[c] # "receiving"
  BY Numbers DEF Init
<1>3. QED
  BY <1>1, <1>2 DEF Init, TypeOK

\* and every step keeps them.
LEMMA TypeStep == TypeOK /\ [Next]_vars => TypeOK'
<1> SUFFICES ASSUME TypeOK, [Next]_vars PROVE TypeOK'
  OBVIOUS
<1> USE ServerAssumption DEF TypeOK, mainVars, clientVars, Visit
<1>1. CASE BeginUpdate
  BY <1>1 DEF BeginUpdate
<1>2. CASE AcceptNobody
  BY <1>2 DEF AcceptNobody
<1>3. CASE BeginPass
  BY <1>3 DEF BeginPass
<1>4. CASE EndPass
  BY <1>4 DEF EndPass
<1>5. ASSUME NEW c \in Client, NEW spawned \in BOOLEAN, Accept(c, spawned)
      PROVE  TypeOK'
  BY <1>5 DEF Accept, Admit
<1>6. ASSUME NEW c \in Client, NEW killed \in BOOLEAN, NEW wanted \in BOOLEAN,
             Process(c, killed, wanted)
      PROVE  TypeOK'
  BY <1>6 DEF Process
<1>7. ASSUME NEW c \in Client, NEW spawned \in BOOLEAN, NEW size \in 1..MaxSends,
             SpawnSender(c, spawned, size)
      PROVE  TypeOK'
  BY <1>7 DEF SpawnSender
<1>8. ASSUME NEW c \in Client, Bury(c) \/ PassBusy(c) \/ Reap(c)
      PROVE  TypeOK'
  BY <1>8 DEF Bury, PassBusy, Reap
<1>9. ASSUME NEW entries \in 1..MaxEntries, StartParse(entries)
      PROVE  TypeOK'
  BY <1>9 DEF StartParse
<1>10. CASE ReturnToParse \/ SkipParse \/ EndUpdate \/ Reaped \/ Wake
  BY <1>10 DEF ReturnToParse, SkipParse, EndUpdate, Reaped, Wake
<1>11. ASSUME NEW c \in Client, Worker(c)
       PROVE  TypeOK'
  <2> USE DEF AfterSelect, Finish
  <2>1. CASE ReceiveMore(c)
    BY <2>1 DEF ReceiveMore, Fits
  <2>2. CASE ReceiveDone(c)
    BY <2>2 DEF ReceiveDone
  <2>3. CASE ReceiveFail(c)
    BY <2>3 DEF ReceiveFail
  <2>4. CASE SendMore(c)
    BY <2>4 DEF SendMore
  <2>5. CASE SendDone(c)
    <3>1. CASE keepAlive[c]
      <4>1. /\ state' = [state EXCEPT ![c] = "RECEIVING"]
            /\ thread' = [thread EXCEPT ![c] = "receiving"]
            /\ keepAlive' = [keepAlive EXCEPT ![c] = FALSE]
            /\ UNCHANGED <<mainVars, pool, left, buf>> /\ buf[c] = 0
        BY <2>5, <3>1 DEF SendDone
      <4>2. \A d \in Client : thread'[d] = "receiving" => buf'[d] <= MaxRecvSize + 1
        BY <4>1, Numbers
      <4>3. QED
        BY <4>1, <4>2
    <3>2. CASE ~keepAlive[c]
      BY <2>5, <3>2 DEF SendDone
    <3>3. QED
      BY <3>1, <3>2
  <2>6. CASE SendFail(c)
    BY <2>6 DEF SendFail
  <2>7. QED
    BY <1>11, <2>1, <2>2, <2>3, <2>4, <2>5, <2>6 DEF Worker
<1>12. CASE Kill
  BY <1>12 DEF Kill
<1>13. CASE Tick
  BY <1>13 DEF Tick, Working
<1>14. CASE UNCHANGED vars
  BY <1>14 DEF vars
<1>15. QED
  BY <1>1, <1>2, <1>3, <1>4, <1>5, <1>6, <1>7, <1>8, <1>9, <1>10, <1>11, <1>12,
     <1>13, <1>14 DEF Next, Main, Exited

\* Among the types: the receive buffer never exceeds bnbt_max_recv_size by more
\* than what one call of recv returns.
THEOREM TypeCorrect == Spec => []TypeOK
BY TypeInit, TypeStep, PTL DEF Spec

\* Every step keeps the pool within its bound, with what is yet to be accepted.
LEMMA PoolStep ==
  TypeOK /\ PoolBounded /\ AcceptBounded /\ [Next]_vars
    => (PoolBounded /\ AcceptBounded)'
<1> SUFFICES ASSUME TypeOK, PoolBounded, AcceptBounded, [Next]_vars
             PROVE  (PoolBounded /\ AcceptBounded)'
  OBVIOUS
<1> USE ServerAssumption DEF mainVars, clientVars, PoolBounded, AcceptBounded
<1>1. /\ IsFiniteSet(pool) /\ Cardinality(pool) \in Nat
      /\ toAccept \in Nat /\ toAccept <= Listeners
  BY ClientAssumption, FS_Subset, FS_CardinalityType DEF TypeOK
<1>2. CASE BeginUpdate
  BY <1>1, <1>2 DEF BeginUpdate, HasRoom
<1>3. ASSUME NEW c \in Client, NEW spawned \in BOOLEAN, Accept(c, spawned)
      PROVE  (PoolBounded /\ AcceptBounded)'
  <2>1. Cardinality(pool') = Cardinality(pool) + 1
    BY <1>1, <1>3, FS_AddElement DEF Accept
  <2>2. QED
    BY <1>1, <1>3, <2>1 DEF Accept
<1>4. CASE AcceptNobody
  BY <1>1, <1>4 DEF AcceptNobody
<1>5. ASSUME pool' \subseteq pool, at' # "accept" \/ UNCHANGED <<at, toAccept, pool>>
      PROVE  (PoolBounded /\ AcceptBounded)'
  <2>1. Cardinality(pool') \in Nat /\ Cardinality(pool') <= Cardinality(pool)
    BY <1>1, <1>5, FS_Subset, FS_CardinalityType
  <2>2. QED
    BY <1>1, <1>5, <2>1
<1>6. CASE BeginPass \/ EndPass \/ ReturnToParse \/ SkipParse \/ EndUpdate
           \/ Reaped \/ Wake
  BY <1>5, <1>6
     DEF BeginPass, EndPass, ReturnToParse, SkipParse, EndUpdate, Reaped, Wake
<1>7. ASSUME NEW c \in Client,
             \/ \E killed, wanted \in BOOLEAN : Process(c, killed, wanted)
             \/ \E spawned \in BOOLEAN, size \in 1..MaxSends :
                  SpawnSender(c, spawned, size)
             \/ Bury(c) \/ PassBusy(c) \/ Reap(c)
      PROVE  (PoolBounded /\ AcceptBounded)'
  BY <1>5, <1>7 DEF Process, SpawnSender, Bury, PassBusy, Reap
<1>8. ASSUME NEW entries \in 1..MaxEntries, StartParse(entries)
      PROVE  (PoolBounded /\ AcceptBounded)'
  BY <1>5, <1>8 DEF StartParse
<1>9. ASSUME NEW c \in Client, Worker(c)
      PROVE  (PoolBounded /\ AcceptBounded)'
  BY <1>5, <1>9
     DEF Worker, ReceiveMore, ReceiveDone, ReceiveFail, SendMore, SendDone,
         SendFail, Finish
<1>10. CASE Kill
  BY <1>5, <1>10 DEF Kill
<1>11. CASE Tick
  BY <1>5, <1>11 DEF Tick
<1>12. CASE UNCHANGED vars
  BY <1>5, <1>12 DEF vars
<1>13. QED
  BY <1>2, <1>3, <1>4, <1>6, <1>7, <1>8, <1>9, <1>10, <1>11, <1>12
     DEF Next, Main, Exited

\* The pool exceeds bnbt_max_conns by less than the number of listeners.
THEOREM PoolBoundedAlways == Spec => []PoolBounded
<1>1. Init => PoolBounded /\ AcceptBounded
  BY ServerAssumption, FS_EmptySet DEF Init, PoolBounded, AcceptBounded
<1>2. QED
  BY <1>1, PoolStep, TypeCorrect, PTL DEF Spec
---------------------------------------------------------------------------
(***************************************************************************)
(* Who owns a client.  On a platform where select takes the time it waited *)
(* off its argument, and with a socket_timeout that ~CServer outwaits, the *)
(* invariant is inductive: a worker has a client of the pool, in a state   *)
(* the main thread keeps its hands off, and while ~CServer waits the time  *)
(* left to it shrinks as fast as the wait grows.                           *)
(***************************************************************************)

\* No client belongs to anyone at first.
LEMMA OwnInit == Init => OwnInv
BY DEF Init, OwnInv, OneOwner, NoUseAfterFree, WorkersRunOut, Working, Dying

\* A step of a worker, which it takes with a client of the pool.
LEMMA WorkerOwn ==
  ASSUME SelectConsumes, TypeOK, OwnInv, NEW c \in Client, Worker(c)
  PROVE  OwnInv'
<1> USE DEF TypeOK, OwnInv, mainVars, AfterSelect, Working
<1>1. /\ c \in pool /\ thread[c] # "none"
      /\ UNCHANGED mainVars /\ pool' = pool /\ left' = left
  BY DEF Worker, ReceiveMore, ReceiveDone, ReceiveFail, SendMore, SendDone,
         SendFail, Finish, NoUseAfterFree
<1>2. \/ UNCHANGED <<state, thread>>
      \/ /\ state' = [state EXCEPT ![c] = "RECEIVING"]
         /\ thread' = [thread EXCEPT ![c] = "receiving"]
      \/ \E s \in {"WAITING1", "DEAD"} :
           /\ state' = [state EXCEPT ![c] = s]
           /\ thread' = [thread EXCEPT ![c] = "none"]
  BY DEF Worker, ReceiveMore, ReceiveDone, ReceiveFail, SendMore, SendDone,
         SendFail, Finish
<1>3. OneOwner'
  BY <1>1, <1>2 DEF OneOwner
<1>4. NoUseAfterFree'
  BY <1>1, <1>2 DEF NoUseAfterFree
<1>5. WorkersRunOut'
  BY <1>1, <1>2 DEF WorkersRunOut, Dying
<1>6. QED
  BY <1>3, <1>4, <1>5

\* Every step keeps one owner for each client.
LEMMA OwnStep ==
  ASSUME SelectConsumes, SocketTimeOut <= MaxWait
  PROVE  TypeOK /\ OwnInv /\ [Next]_vars => OwnInv'
<1> SUFFICES ASSUME TypeOK, OwnInv, [Next]_vars PROVE OwnInv'
  OBVIOUS
<1> USE Numbers DEF TypeOK, OwnInv, OneOwner, NoUseAfterFree, WorkersRunOut,
                    mainVars, clientVars, Visit, Working, Dying
<1>1. ASSUME UNCHANGED <<pool, state, thread, left>>,
             ~Dying' \/ (Dying /\ waited' = waited)
      PROVE  OwnInv'
  BY <1>1
<1>2. CASE \/ BeginUpdate \/ AcceptNobody \/ BeginPass \/ EndPass
           \/ ReturnToParse \/ SkipParse \/ Reaped \/ Kill
           \/ \E c \in Client : PassBusy(c)
           \/ \E entries \in 1..MaxEntries : StartParse(entries)
  BY <1>1, <1>2 DEF BeginUpdate, AcceptNobody, BeginPass, EndPass, ReturnToParse,
                    SkipParse, Reaped, Kill, PassBusy, StartParse
<1>3. ASSUME NEW c \in Client, NEW spawned \in BOOLEAN, Accept(c, spawned)
      PROVE  OwnInv'
  BY <1>3 DEF Accept, Admit
<1>4. ASSUME NEW c \in Client, NEW killed \in BOOLEAN, NEW wanted \in BOOLEAN,
             Process(c, killed, wanted)
      PROVE  OwnInv'
  BY <1>4 DEF Process
<1>5. ASSUME NEW c \in Client, NEW spawned \in BOOLEAN, NEW size \in 1..MaxSends,
             SpawnSender(c, spawned, size)
      PROVE  OwnInv'
  BY <1>5 DEF SpawnSender
<1>6. ASSUME NEW c \in Client, Bury(c) \/ Reap(c)
      PROVE  OwnInv'
  BY <1>6 DEF Bury, Reap, IdleStates
<1>7. CASE EndUpdate
  BY <1>7 DEF EndUpdate
<1>8. CASE Wake
  <2>1. CASE waited > MaxWait
    <3>1. \A c \in Client : ~Working(c)
      BY <1>8, <2>1 DEF Wake
    <3>2. QED
      BY <1>8, <2>1, <3>1 DEF Wake
  <2>2. CASE ~(waited > MaxWait)
    BY <1>8, <2>2 DEF Wake
  <2>3. QED
    BY <2>1, <2>2
<1>9. ASSUME NEW c \in Client, Worker(c)
      PROVE  OwnInv'
  BY <1>9, WorkerOwn
<1>10. CASE Tick
  <2>1. UNCHANGED <<pool, state, thread>> /\ (Dying' <=> Dying)
    BY <1>10 DEF Tick
  <2>2. ASSUME Dying, NEW c \in Client, Working(c)
        PROVE  waited' + left'[c] <= SocketTimeOut
    BY <1>10, <2>2 DEF Tick
  <2>3. QED
    BY <2>1, <2>2
<1>11. CASE UNCHANGED vars
  BY <1>1, <1>11 DEF vars
<1>12. QED
  BY <1>2, <1>3, <1>4, <1>5, <1>6, <1>7, <1>8, <1>9, <1>10, <1>11
     DEF Next, Main, Exited

\* A client of the pool is RECEIVING or SENDING exactly while a worker has it,
\* also when CServer::Update could not create the thread: its place in the pool
\* is never lost.
THEOREM OneOwnerAlways ==
  ASSUME SelectConsumes, SocketTimeOut <= MaxWait
  PROVE  Spec => []OneOwner
<1>1. TypeOK /\ OwnInv /\ [Next]_vars => OwnInv'
  BY OwnStep
<1>2. OwnInv => OneOwner
  BY DEF OwnInv
<1>3. QED
  BY <1>1, <1>2, OwnInit, TypeCorrect, PTL DEF Spec

\* No worker outlives its client: neither Update nor ~CServer, with its limit
\* on the wait, destroys a client a thread still reads, writes or stores to.
THEOREM NoUseAfterFreeAlways ==
  ASSUME SelectConsumes, SocketTimeOut <= MaxWait
  PROVE  Spec => []NoUseAfterFree
<1>1. TypeOK /\ OwnInv /\ [Next]_vars => OwnInv'
  BY OwnStep
<1>2. OwnInv => NoUseAfterFree
  BY DEF OwnInv
<1>3. QED
  BY <1>1, <1>2, OwnInit, TypeCorrect, PTL DEF Spec

---------------------------------------------------------------------------
(***************************************************************************)
(* Server implements Ownership.                                            *)
(***************************************************************************)

\* Every step is one of Ownership, or none.
LEMMA OwnershipStep ==
  ASSUME SelectConsumes, SocketTimeOut <= MaxWait
  PROVE  TypeOK /\ OwnInv /\ [Next]_vars => [Own!Next]_owner
<1> SUFFICES ASSUME TypeOK, OwnInv, [Next]_vars PROVE [Own!Next]_owner
  OBVIOUS
<1> USE DEF TypeOK, OwnInv, OneOwner, NoUseAfterFree,
            mainVars, clientVars, Visit, Working
<1>1. ASSUME UNCHANGED <<pool, thread>>
      PROVE  UNCHANGED owner
  BY <1>1 DEF owner
<1>2. CASE \/ BeginUpdate \/ AcceptNobody \/ BeginPass \/ EndPass
           \/ ReturnToParse \/ SkipParse \/ EndUpdate \/ Reaped \/ Kill \/ Tick
           \/ \E c \in Client : PassBusy(c)
           \/ \E c \in Client, killed, wanted \in BOOLEAN : Process(c, killed, wanted)
           \/ \E entries \in 1..MaxEntries : StartParse(entries)
  BY <1>1, <1>2
     DEF BeginUpdate, AcceptNobody, BeginPass, EndPass, ReturnToParse, SkipParse,
         EndUpdate, Reaped, Kill, Tick, PassBusy, Process, StartParse
<1>3. ASSUME NEW c \in Client, NEW spawned \in BOOLEAN, Accept(c, spawned)
      PROVE  Own!Open(c) \/ Own!Refuse(c)
  BY <1>3 DEF Accept, Admit, owner, Own!Open, Own!Refuse
<1>4. ASSUME NEW c \in Client, NEW spawned \in BOOLEAN, NEW size \in 1..MaxSends,
             SpawnSender(c, spawned, size)
      PROVE  Own!Give(c) \/ UNCHANGED owner
  BY <1>4 DEF SpawnSender, owner, Own!Give
<1>5. ASSUME NEW S \in SUBSET pool, \A c \in S : ~Working(c),
             pool' = pool \ S, thread' = thread
      PROVE  Own!Destroy
  <2>1. S \in SUBSET {c \in Client : owner[c] = "main"}
    BY <1>5 DEF owner
  <2>2. owner' = [c \in Client |-> IF c \in S THEN "nobody" ELSE owner[c]]
    BY <1>5 DEF owner
  <2>3. QED
    BY <2>1, <2>2 DEF Own!Destroy
<1>6. ASSUME NEW c \in Client, Bury(c) \/ Reap(c)
      PROVE  Own!Destroy \/ UNCHANGED owner
  <2>1. CASE pool' = pool
    BY <1>1, <1>6, <2>1 DEF Bury, Reap
  <2>2. CASE pool' # pool
    <3>1. {c} \in SUBSET pool /\ ~Working(c) /\ pool' = pool \ {c} /\ thread' = thread
      BY <1>6, <2>2 DEF Bury, Reap, IdleStates
    <3>2. QED
      BY <1>5, <3>1
  <2>3. QED
    BY <2>1, <2>2
<1>7. CASE Wake
  <2>1. CASE waited > MaxWait
    <3>1. \A c \in Client : ~Working(c)
      BY <1>7, <2>1, Numbers DEF Wake, WorkersRunOut, Dying
    <3>2. Own!Destroy
      BY <1>5, <1>7, <2>1, <3>1 DEF Wake
    <3>3. QED
      BY <3>2 DEF Own!Next
  <2>2. CASE ~(waited > MaxWait)
    BY <1>1, <1>7, <2>2 DEF Wake
  <2>3. QED
    BY <2>1, <2>2
<1>8. ASSUME NEW c \in Client, Worker(c)
      PROVE  Own!Return(c) \/ UNCHANGED owner
  <2>1. c \in pool /\ thread[c] # "none" /\ pool' = pool
    BY <1>8 DEF Worker, ReceiveMore, ReceiveDone, ReceiveFail, SendMore, SendDone,
                SendFail, Finish
  <2>2. \/ thread' = thread
        \/ thread' = [thread EXCEPT ![c] = "receiving"]
        \/ thread' = [thread EXCEPT ![c] = "none"]
    BY <1>8 DEF Worker, ReceiveMore, ReceiveDone, ReceiveFail, SendMore, SendDone,
                SendFail, Finish
  <2>3. CASE thread' = [thread EXCEPT ![c] = "none"]
    BY <2>1, <2>3 DEF owner, Own!Return
  <2>4. CASE thread' # [thread EXCEPT ![c] = "none"]
    BY <2>1, <2>2, <2>4 DEF owner
  <2>5. QED
    BY <2>3, <2>4
<1>9. CASE UNCHANGED vars
  BY <1>1, <1>9 DEF vars
<1>10. QED
  BY <1>2, <1>3, <1>4, <1>6, <1>7, <1>8, <1>9 DEF Next, Main, Exited, Own!Next

\* Every step of the pool and its threads is a step of Ownership or leaves the
\* owners alone: clients are handed over in turns and destroyed only by the
\* main thread while no worker has them.
THEOREM OwnershipImplemented ==
  ASSUME SelectConsumes, SocketTimeOut <= MaxWait
  PROVE  Spec => ImplementsOwnership
<1>1. Init => Own!Init
  BY DEF Init, Own!Init, owner
<1>2. TypeOK /\ OwnInv /\ [Next]_vars => OwnInv'
  BY OwnStep
<1>3. TypeOK /\ OwnInv /\ [Next]_vars => [Own!Next]_owner
  BY OwnershipStep
<1>4. QED
  BY <1>1, <1>2, <1>3, OwnInit, TypeCorrect, PTL
     DEF Spec, ImplementsOwnership, Own!Spec
=============================================================================
