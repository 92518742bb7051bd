---------------------------- MODULE StatsProofs ----------------------------
(***************************************************************************)
(* What holds of Stats for every number of torrents and peers, every set   *)
(* of things to make with their intervals, and every setting of the pages. *)
(***************************************************************************)
EXTENDS Stats, Induction, SequenceTheorems

---------------------------------------------------------------------------
(***************************************************************************)
(* The clock of Update.  Nothing here looks into what is made: Product is  *)
(* any operator.                                                           *)
(***************************************************************************)

TimesOK ==
  /\ now \in Nat /\ updated \in Nat
  /\ next \in [Kind -> Nat] /\ stale \in [Kind -> Nat \cup {Never}]

\* Update is not overdue, and no timer was overdue when it was called last.
Timely ==
  /\ updated <= now /\ now <= updated + MaxLag
  /\ \A k \in Kind : updated <= next[k] /\ next[k] <= now + Interval[k]

\* What is out of date is due within its interval.
SoonMade ==
  \A k \in Kind \ failed : stale[k] # Never => next[k] <= stale[k] + Interval[k]

ClockInv == TimesOK /\ (running => Timely /\ SoonMade)

\* What a step of the process or of a peer leaves in stale is what was there,
\* nothing, or the time.
LEMMA StaleStep ==
  ASSUME TimesOK, now' \in Nat, WatchProducts
  PROVE  /\ stale' \in [Kind -> Nat \cup {Never}]
         /\ \A k \in Kind : stale'[k] \in {Never, now', stale[k]}
         /\ \A k \in Kind : stale'[k] = stale[k] \/ stale'[k] = Never \/ stale'[k] = now'
         /\ \A k \in Kind : ~running => stale'[k] \in {Never, now'}
BY DEF WatchProducts, TimesOK

\* Steps that make nothing and let no time pass.
LEMMA ClockAtRest ==
  ASSUME ClockInv, WatchProducts, running, UNCHANGED <<now, updated, next, failed>>
  PROVE  ClockInv'
<1>1. /\ stale' \in [Kind -> Nat \cup {Never}]
      /\ \A k \in Kind : stale'[k] \in {Never, now, stale[k]}
  BY StaleStep DEF ClockInv, TimesOK
<1>2. TimesOK' /\ Timely'
  BY <1>1 DEF ClockInv, TimesOK, Timely
<1>3. SoonMade'
  BY <1>1 DEF ClockInv, TimesOK, Timely, SoonMade
<1>4. QED
  BY <1>2, <1>3 DEF ClockInv

\* A tick makes what is due,
LEMMA ClockTick ==
  ASSUME ClockInv, WatchProducts, Tick
  PROVE  ClockInv'
<1>1. /\ now' = now + 1 /\ running /\ now < updated + MaxLag
      /\ UNCHANGED <<updated, next, failed>>
  BY StatsAssumption DEF Tick, fileVars, ClockInv, TimesOK
<1>2. /\ stale' \in [Kind -> Nat \cup {Never}]
      /\ \A k \in Kind : stale'[k] \in {Never, now', stale[k]}
  BY <1>1, StaleStep DEF ClockInv, TimesOK
<1>3. TimesOK'
  BY <1>1, <1>2 DEF ClockInv, TimesOK
<1>4. Timely'
  BY <1>1, StatsAssumption DEF ClockInv, TimesOK, Timely
<1>5. SoonMade'
  BY <1>1, <1>2, StatsAssumption DEF ClockInv, TimesOK, Timely, SoonMade
<1>6. QED
  BY <1>3, <1>4, <1>5 DEF ClockInv

\* Update: what is due is made, or has failed, and its timer is set anew.
LEMMA ClockUpdate ==
  ASSUME ClockInv, WatchProducts, NEW k \in Kind, NEW outcome \in Outcome,
         Update(k, outcome)
  PROVE  ClockInv'
<1> DEFINE due == {j \in Kind : Due(j)}
           bad == IF outcome = "written" THEN {} ELSE {k}
           done == {j \in due \ bad : outcome = "crash" => Rank[j] < Rank[k]}
<1>1. /\ running /\ running' = (outcome # "crash")
      /\ updated' = now /\ now' = now
      /\ next' = [j \in Kind |-> IF j \in due THEN now + Interval[j] ELSE next[j]]
      /\ failed' = (failed \ done) \cup bad
  BY Zenon DEF Update
<1>2. \A j \in done : made'[j] = Product(j) \/ made'[j] = Product(j)'
  <2> SUFFICES ASSUME NEW j \in done
               PROVE  made'[j] = Product(j) \/ made'[j] = Product(j)'
    OBVIOUS
  <2>1. made'[j] = IF BeforeExpiry(j) THEN Product(j) ELSE Product(j)'
    BY DEF Update
  <2>2. QED
    BY <2>1, Zenon
<1>3. \A j \in done : stale'[j] \in {Never, now}
  BY <1>1, <1>2, Zenon DEF WatchProducts
<1>4. /\ stale' \in [Kind -> Nat \cup {Never}]
      /\ \A j \in Kind : stale'[j] \in {Never, now, stale[j]}
  BY <1>1, StaleStep DEF ClockInv, TimesOK
<1>5. TimesOK'
  BY <1>1, <1>4, StatsAssumption DEF ClockInv, TimesOK
<1>6. SUFFICES ASSUME outcome # "crash" PROVE Timely' /\ SoonMade'
  BY <1>1, <1>5 DEF ClockInv
<1>7. Timely'
  <2> SUFFICES ASSUME NEW j \in Kind
               PROVE  updated' <= next'[j] /\ next'[j] <= now' + Interval[j]
    BY <1>1, StatsAssumption DEF ClockInv, TimesOK, Timely
  <2>1. CASE j \in due
    BY <1>1, <2>1, StatsAssumption DEF ClockInv, TimesOK
  <2>2. CASE j \notin due
    BY <1>1, <2>2, StatsAssumption DEF ClockInv, TimesOK, Timely, Due
  <2>3. QED
    BY <2>1, <2>2
<1>8. SoonMade'
  <2> SUFFICES ASSUME NEW j \in Kind \ failed', stale'[j] # Never
               PROVE  next'[j] <= stale'[j] + Interval[j]
    BY DEF SoonMade
  <2>1. CASE j \in due
    <3>1. j \in done
      BY <1>1, <1>6, <2>1
    <3>2. stale'[j] = now
      BY <1>3, <3>1
    <3>3. QED
      BY <1>1, <2>1, <3>2, StatsAssumption DEF ClockInv, TimesOK
  <2>2. CASE j \notin due
    <3>1. next'[j] = next[j] /\ j \notin failed
      BY <1>1, <2>2
    <3>2. CASE stale'[j] = now
      BY <1>1, <3>1, <3>2 DEF ClockInv, Timely
    <3>3. CASE stale'[j] = stale[j]
      BY <1>1, <3>1, <3>3 DEF ClockInv, SoonMade
    <3>4. QED
      BY <1>4, <3>2, <3>3
  <2>3. QED
    BY <2>1, <2>2
<1>9. QED
  BY <1>7, <1>8

\* a start makes everything,
LEMMA ClockStart ==
  ASSUME ClockInv, WatchProducts, Start
  PROVE  ClockInv'
<1>1. ~running /\ now' = 0 /\ updated' = 0 /\ next' = FirstTimes
  BY DEF Start
<1>2. /\ stale' \in [Kind -> Nat \cup {Never}]
      /\ \A k \in Kind : stale'[k] \in {Never, 0}
  BY <1>1, StaleStep DEF ClockInv
<1>3. \A k \in Kind : next'[k] \in Nat /\ 0 <= next'[k] /\ next'[k] <= Interval[k]
  BY <1>1, StatsAssumption DEF FirstTimes
<1>4. TimesOK'
  BY <1>1, <1>2, <1>3 DEF TimesOK, FirstTimes
<1>5. Timely'
  BY <1>1, <1>3, StatsAssumption DEF Timely
<1>6. SoonMade'
  BY <1>2, <1>3, StatsAssumption DEF SoonMade
<1>7. QED
  BY <1>4, <1>5, <1>6 DEF ClockInv

\* and so nothing is old at first.
LEMMA ClockInit == Init => ClockInv
<1> SUFFICES ASSUME Init PROVE ClockInv
  OBVIOUS
<1>1. now = 0 /\ updated = 0 /\ next = FirstTimes
  BY DEF Init
<1>2. stale \in [Kind -> Nat \cup {Never}] /\ \A k \in Kind : stale[k] \in {Never, 0}
  BY DEF Init
<1>3. \A k \in Kind : next[k] \in Nat /\ 0 <= next[k] /\ next[k] <= Interval[k]
  BY <1>1, StatsAssumption DEF FirstTimes
<1>4. TimesOK
  BY <1>1, <1>2, <1>3 DEF TimesOK, FirstTimes
<1>5. Timely
  BY <1>1, <1>3, StatsAssumption DEF Timely
<1>6. SoonMade
  BY <1>2, <1>3, StatsAssumption DEF SoonMade
<1>7. QED
  BY <1>4, <1>5, <1>6 DEF ClockInv

\* Nothing is asked of a server that has stopped.
LEMMA ClockStops ==
  ASSUME ClockInv, WatchProducts, ~running', UNCHANGED <<now, updated, next>>
  PROVE  ClockInv'
<1>1. stale' \in [Kind -> Nat \cup {Never}]
  BY StaleStep DEF ClockInv, TimesOK
<1>2. QED
  BY <1>1 DEF ClockInv, TimesOK

\* Every step keeps the products up to date.
LEMMA ClockStep == ClockInv /\ [Next]_vars => ClockInv'
<1> SUFFICES ASSUME ClockInv, [Next]_vars PROVE ClockInv'
  OBVIOUS
<1> USE DEF timerVars, fileVars
<1>1. CASE Request /\ WatchProducts
  <2>1. running /\ UNCHANGED <<now, updated, next, failed>>
    BY <1>1 DEF Request, Announce, Stop, DeleteTorrent, Scan, Upload, EditTag, Discuss, Change
  <2>2. QED
    BY <1>1, <2>1, ClockAtRest
<1>2. CASE Tick /\ WatchProducts
  BY <1>2, ClockTick
<1>3. ASSUME NEW k \in Kind, NEW outcome \in Outcome, Update(k, outcome), WatchProducts
      PROVE  ClockInv'
  BY <1>3, ClockUpdate
<1>4. ASSUME NEW outcome \in Outcome, Exit(outcome), WatchProducts
      PROVE  ClockInv'
  BY <1>4, ClockStops DEF Exit
<1>5. CASE Crash /\ WatchProducts
  BY <1>5, ClockStops DEF Crash
<1>6. CASE Start /\ WatchProducts
  BY <1>6, ClockStart
<1>7. CASE UNCHANGED <<now, updated, next, failed, stale, running>>
  BY <1>7 DEF ClockInv, TimesOK, Timely, SoonMade
<1>8. CASE Turn /\ UNCHANGED stale
  BY <1>7, <1>8 DEF Turn, OpenIndex, NextPage
<1>9. CASE UNCHANGED vars
  BY <1>7, <1>9 DEF vars, historyVars
<1>10. QED
  BY <1>1, <1>2, <1>3, <1>4, <1>5, <1>6, <1>8, <1>9 DEF Next, Process

\* Whatever falls due together, and however the process is stopped and
\* started: nothing that was written the last time is out of date for longer
\* than its interval and the time from one Update to the next.
THEOREM StaysUpToDate == Spec => []UpToDate
<1>1. ClockInv => UpToDate
  <2> SUFFICES ASSUME ClockInv, running, NEW k \in Kind \ failed, stale[k] # Never
               PROVE  now - stale[k] <= Interval[k] + MaxLag
    BY DEF UpToDate
  <2>1. now <= updated + MaxLag /\ updated <= next[k] /\ next[k] <= stale[k] + Interval[k]
    BY DEF ClockInv, Timely, SoonMade
  <2>2. /\ now \in Nat /\ updated \in Nat /\ next[k] \in Nat /\ stale[k] \in Nat
        /\ Interval[k] \in Nat /\ MaxLag \in Nat
    BY StatsAssumption DEF ClockInv, TimesOK
  <2>3. QED
    BY <2>1, <2>2
<1>2. QED
  BY <1>1, ClockInit, ClockStep, PTL DEF Spec
---------------------------------------------------------------------------
(***************************************************************************)
(* Entries without "left".                                                 *)
(***************************************************************************)

Table == [Hash -> Swarm \cup {NoSwarm}]

\* Every entry of a table says what is left.
Whole(swarms) ==
  \A h \in Hash, p \in Peer : swarms[h] # NoSwarm => swarms[h][p] # NoLeft

TablesOK ==
  /\ peers \in Table
  /\ times \in [Hash -> [Peer -> Int]]
  /\ now \in Nat /\ prevTime \in Nat \ {0} /\ expireNext \in Nat
  /\ damaged \in [memory: BOOLEAN, file: BOOLEAN]
  /\ made = [k \in Kind |-> made[k]]
  /\ made["save"].peers \in Table

\* Entries without "left" have not been heard of, so that the first pass of
\* expireDownloaders takes them.
Unheard ==
  \A h \in Hash, p \in Peer :
    peers[h] # NoSwarm /\ peers[h][p] = NoLeft => times[h][p] = 0

DamageInv ==
  /\ TablesOK
  /\ ~damaged.file => Whole(made["save"].peers)
  /\ running => Unheard /\ (~damaged.memory => Whole(peers))

\* The sentinels are different, and no amount is negative or a sentinel.
LEMMA Sentinels ==
  /\ NoLeft # Gone /\ NoLeft \notin Left /\ Gone \notin Left /\ NoSwarm \notin Swarm
  /\ Left \subseteq Nat /\ 0 \in Left
  /\ "save" \in Kind /\ "cache" \in Kind
  /\ Nobody \in Swarm
BY StatsAssumption DEF Nobody, Swarm

\* A file that was cut holds a table of swarms all the same.
LEMMA CutTyped ==
  ASSUME NEW state, state.peers \in Table, NEW cut \in CutState(state)
  PROVE  cut.peers \in Table
<1>1. NoState.peers \in Table
  BY DEF NoState, Table
<1>2. CASE cut = NoState
  BY <1>1, <1>2
<1>3. ASSUME NEW c, cut = [NoState EXCEPT !.completed = c]
      PROVE  cut.peers \in Table
  BY <1>1, <1>3 DEF NoState
<1>4. ASSUME NEW swarms \in CutTable(state.peers, NoSwarm, Before, CutSwarm),
             cut = [state EXCEPT !.peers = swarms]
      PROVE  cut.peers \in Table
  <2>1. \A h \in Hash, swarm \in Swarm : CutSwarm(h, swarm) \ {Discarded} \subseteq Swarm \cup {NoSwarm}
    <3> SUFFICES ASSUME NEW h \in Hash, NEW swarm \in Swarm,
                        NEW t \in CutTable(swarm, Gone, Before, CutPeer)
                 PROVE  t \in Swarm
      BY Zenon DEF CutSwarm
    <3>1. DOMAIN swarm = Peer
      BY DEF Swarm
    <3>2. \A p \in Peer : CutPeer(p, swarm[p]) \ {Discarded} \subseteq Left \cup {NoLeft, Gone}
      BY DEF CutPeer, Swarm
    <3>3. \/ t = [p \in Peer |-> Gone]
          \/ \E last \in Peer, rest \in Left \cup {NoLeft, Gone} :
               t = [p \in Peer |-> IF <<p, last>> \in Before THEN swarm[p]
                                   ELSE IF p = last THEN rest ELSE Gone]
      <4> DEFINE Cut(last, rest) == [p \in DOMAIN swarm |->
                   IF <<p, last>> \in Before THEN swarm[p]
                   ELSE IF p = last THEN rest ELSE Gone]
          Rests(last) == {Cut(last, rest) : rest \in CutPeer(last, swarm[last]) \ {Discarded}}
      <4>1. t \in {[p \in DOMAIN swarm |-> Gone]} \cup
                UNION {Rests(last) : last \in {p \in DOMAIN swarm : swarm[p] # Gone}}
        BY Zenon DEF CutTable
      <4>2. CASE t = [p \in DOMAIN swarm |-> Gone]
        BY <3>1, <4>2
      <4>3. CASE t # [p \in DOMAIN swarm |-> Gone]
        <5>1. PICK last \in DOMAIN swarm : t \in Rests(last)
          <6> HIDE DEF Rests
          <6>1. QED
            BY <4>1, <4>3
        <5>2. PICK rest \in CutPeer(last, swarm[last]) \ {Discarded} : t = Cut(last, rest)
          BY <5>1, Zenon
        <5>3. last \in Peer /\ rest \in Left \cup {NoLeft, Gone}
          BY <3>1, <3>2
        <5>4. QED
          BY <3>1, <5>2, <5>3, Zenon
      <4>4. QED
        BY <4>2, <4>3
    <3>4. QED
      BY <3>3 DEF Swarm
  <2>2. DOMAIN state.peers = Hash
    BY DEF Table
  <2>3. \A h \in Hash : state.peers[h] # NoSwarm =>
          CutSwarm(h, state.peers[h]) \ {Discarded} \subseteq Swarm \cup {NoSwarm}
    BY <2>1 DEF Table
  <2>4. swarms \in Table
    <3>1. \/ swarms = [h \in Hash |-> NoSwarm]
          \/ \E last \in Hash, rest \in Swarm \cup {NoSwarm} :
               swarms = [h \in Hash |-> IF <<h, last>> \in Before THEN state.peers[h]
                                        ELSE IF h = last THEN rest ELSE NoSwarm]
      <4> DEFINE Cut(last, rest) == [h \in DOMAIN state.peers |->
                   IF <<h, last>> \in Before THEN state.peers[h]
                   ELSE IF h = last THEN rest ELSE NoSwarm]
          Rests(last) == {Cut(last, rest) :
                            rest \in CutSwarm(last, state.peers[last]) \ {Discarded}}
      <4>1. swarms \in {[h \in DOMAIN state.peers |-> NoSwarm]} \cup
              UNION {Rests(last) :
                       last \in {h \in DOMAIN state.peers : state.peers[h] # NoSwarm}}
        BY Zenon DEF CutTable
      <4>2. CASE swarms = [h \in DOMAIN state.peers |-> NoSwarm]
        BY <2>2, <4>2
      <4>3. CASE swarms # [h \in DOMAIN state.peers |-> NoSwarm]
        <5>1. PICK last \in {h \in DOMAIN state.peers : state.peers[h] # NoSwarm} :
                swarms \in Rests(last)
          <6> HIDE DEF Rests
          <6>1. QED
            BY <4>1, <4>3
        <5>2. PICK rest \in CutSwarm(last, state.peers[last]) \ {Discarded} :
                swarms = Cut(last, rest)
          BY <5>1, Zenon
        <5>3. last \in Hash /\ rest \in Swarm \cup {NoSwarm}
          BY <2>2, <2>3
        <5>4. QED
          BY <2>2, <5>2, <5>3, Zenon
      <4>4. QED
        BY <4>2, <4>3
    <3>2. QED
      BY <3>1 DEF Table
  <2>5. cut.peers = swarms
    BY <1>4
  <2>6. QED
    BY <2>4, <2>5
<1>5. QED
  BY <1>2, <1>3, <1>4 DEF CutState

\* No entry without "left" comes in, and the ones there are, are not heard of.
NoneNew ==
  \A h \in Hash, p \in Peer :
    peers'[h] # NoSwarm /\ peers'[h][p] = NoLeft =>
      peers[h] # NoSwarm /\ peers[h][p] = NoLeft /\ times'[h][p] = times[h][p]

\* Steps that leave the files alone.
LEMMA DamageAtRest ==
  ASSUME DamageInv, running, UNCHANGED <<made, damaged, now, prevTime, expireNext>>,
         peers' \in Table, times' \in [Hash -> [Peer -> Int]], NoneNew
  PROVE  DamageInv'
<1>1. TablesOK'
  BY DEF DamageInv, TablesOK
<1>2. ~damaged'.file => Whole(made'["save"].peers)
  BY DEF DamageInv, Whole
<1>3. Unheard'
  BY DEF DamageInv, Unheard, NoneNew
<1>4. ~damaged'.memory => Whole(peers')
  BY DEF DamageInv, Whole, NoneNew
<1>5. QED
  BY <1>1, <1>2, <1>3, <1>4 DEF DamageInv, Whole

\* An announce says what is left, a stop takes the entry away.
LEMMA DamageAnnounce ==
  ASSUME DamageInv, NEW h \in Hash, NEW p \in Peer, NEW left \in Left, NEW event,
         Announce(h, p, left, event)
  PROVE  DamageInv'
<1> DEFINE base == IF peers[h] = NoSwarm THEN Nobody ELSE peers[h]
           swarm == [base EXCEPT ![p] = left]
<1>1. /\ running /\ UNCHANGED <<made, damaged, now, prevTime, expireNext>>
      /\ peers' = [peers EXCEPT ![h] = swarm] /\ times' = [times EXCEPT ![h][p] = now]
  BY DEF Announce, Change, timerVars, fileVars
<1>2. peers \in Table /\ times \in [Hash -> [Peer -> Int]] /\ now \in Nat
  BY DEF DamageInv, TablesOK
<1>3. base \in Swarm
  BY <1>2, Sentinels DEF Table
<1>4. swarm \in Swarm /\ swarm # NoSwarm
  BY <1>3, Sentinels DEF Swarm
<1>5. peers' \in Table /\ times' \in [Hash -> [Peer -> Int]]
  BY <1>1, <1>2, <1>4 DEF Table
<1>6. \A q \in Peer : swarm[q] = NoLeft => q # p /\ peers[h] # NoSwarm /\ peers[h][q] = NoLeft
  BY <1>3, Sentinels DEF Nobody, Swarm
<1>7. NoneNew
  <2> SUFFICES ASSUME NEW g \in Hash, NEW q \in Peer,
                      peers'[g] # NoSwarm, peers'[g][q] = NoLeft
               PROVE  peers[g] # NoSwarm /\ peers[g][q] = NoLeft /\ times'[g][q] = times[g][q]
    BY DEF NoneNew
  <2> HIDE DEF swarm
  <2>1. CASE g = h
    BY <1>1, <1>2, <1>6, <2>1 DEF Table
  <2>2. CASE g # h
    BY <1>1, <1>2, <2>2 DEF Table
  <2>3. QED
    BY <2>1, <2>2
<1>8. QED
  BY <1>1, <1>5, <1>7, DamageAtRest

\* A peer that stops is taken out of the counts it was in.
LEMMA DamageStop ==
  ASSUME DamageInv, NEW h \in Hash, NEW p \in Peer, Stop(h, p)
  PROVE  DamageInv'
<1> DEFINE swarm == IF peers[h] = NoSwarm THEN Nobody ELSE [peers[h] EXCEPT ![p] = Gone]
<1>1. /\ running /\ UNCHANGED <<made, damaged, now, prevTime, expireNext>>
      /\ peers' = [peers EXCEPT ![h] = swarm] /\ times' = [times EXCEPT ![h][p] = Never]
  BY DEF Stop, Change, timerVars, fileVars
<1>2. peers \in Table /\ times \in [Hash -> [Peer -> Int]]
  BY DEF DamageInv, TablesOK
<1>3. swarm \in Swarm /\ swarm # NoSwarm
  BY <1>2, Sentinels DEF Swarm, Table
<1>4. peers' \in Table /\ times' \in [Hash -> [Peer -> Int]]
  BY <1>1, <1>2, <1>3 DEF Table, Never
<1>5. \A q \in Peer : swarm[q] = NoLeft => q # p /\ peers[h] # NoSwarm /\ peers[h][q] = NoLeft
  <2> SUFFICES ASSUME NEW q \in Peer, swarm[q] = NoLeft
               PROVE  q # p /\ peers[h] # NoSwarm /\ peers[h][q] = NoLeft
    OBVIOUS
  <2>1. peers[h] # NoSwarm
    BY Sentinels DEF Nobody
  <2>2. peers[h] \in [Peer -> Left \cup {NoLeft, Gone}]
    BY <1>2, <2>1 DEF Table, Swarm
  <2>3. QED
    BY <2>1, <2>2, Sentinels
<1>6. NoneNew
  <2> SUFFICES ASSUME NEW g \in Hash, NEW q \in Peer,
                      peers'[g] # NoSwarm, peers'[g][q] = NoLeft
               PROVE  peers[g] # NoSwarm /\ peers[g][q] = NoLeft /\ times'[g][q] = times[g][q]
    BY DEF NoneNew
  <2> HIDE DEF swarm
  <2>1. CASE g = h
    BY <1>1, <1>2, <1>5, <2>1 DEF Table
  <2>2. CASE g # h
    BY <1>1, <1>2, <2>2 DEF Table
  <2>3. QED
    BY <2>1, <2>2
<1>7. QED
  BY <1>1, <1>4, <1>6, DamageAtRest

\* A swarm that was not there begins with nobody.
LEMMA WithDeadTyped ==
  ASSUME NEW swarms \in Table, NEW files
  PROVE  /\ WithDead(swarms, files) \in Table
         /\ \A h \in Hash : WithDead(swarms, files)[h] \in {swarms[h], Nobody}
         /\ \A h \in Hash : swarms[h] # NoSwarm => WithDead(swarms, files)[h] = swarms[h]
BY Sentinels DEF WithDead, Table

\* Torrents that come and go take swarms along, or bring empty ones.
LEMMA DamageFiles ==
  ASSUME DamageInv, \/ \E h \in Hash : DeleteTorrent(h)
                    \/ \E files \in SUBSET Hash : Scan(files)
                    \/ \E h \in Hash, entry \in Edits : Upload(h, entry)
  PROVE  DamageInv'
<1>1. peers \in Table /\ times \in [Hash -> [Peer -> Int]]
  BY DEF DamageInv, TablesOK
<1>2. ASSUME NEW h \in Hash, DeleteTorrent(h)
      PROVE  DamageInv'
  <2>1. /\ running /\ UNCHANGED <<made, damaged, now, prevTime, expireNext, times>>
        /\ peers' = [peers EXCEPT ![h] = NoSwarm]
    BY <1>2 DEF DeleteTorrent, Change, timerVars, fileVars
  <2>2. peers' \in Table /\ NoneNew
    BY <1>1, <2>1 DEF Table, NoneNew
  <2>3. QED
    BY <1>1, <2>1, <2>2, DamageAtRest
<1>3. ASSUME NEW files \in SUBSET Hash, Scan(files)
      PROVE  DamageInv'
  <2>1. /\ running /\ UNCHANGED <<made, damaged, now, prevTime, expireNext, times>>
        /\ peers' = WithDead(peers, files)
    BY <1>3 DEF Scan, Change, timerVars, fileVars
  <2>2. /\ peers' \in Table
        /\ \A h \in Hash : peers'[h] \in {peers[h], Nobody}
    BY <1>1, <2>1, WithDeadTyped
  <2>3. NoneNew
    BY <2>1, <2>2, Sentinels DEF NoneNew, Nobody
  <2>4. QED
    BY <1>1, <2>1, <2>2, <2>3, DamageAtRest
<1>4. ASSUME NEW h \in Hash, NEW entry \in Edits, Upload(h, entry)
      PROVE  DamageInv'
  <2>1. /\ running /\ UNCHANGED <<made, damaged, now, prevTime, expireNext, times>>
        /\ peers' = WithDead(peers, {h})
    BY <1>4, Zenon DEF Upload, Change, timerVars, fileVars
  <2>2. /\ peers' \in Table
        /\ \A g \in Hash : peers'[g] \in {peers[g], Nobody}
    BY <1>1, <2>1, WithDeadTyped
  <2>3. NoneNew
    BY <2>1, <2>2, Sentinels DEF NoneNew, Nobody
  <2>4. QED
    BY <1>1, <2>1, <2>2, <2>3, DamageAtRest
<1>5. QED
  BY <1>2, <1>3, <1>4

\* Whoever says nothing of what is left goes with a pass, and no one else
\* begins to.
LEMMA DamageExpiry ==
  ASSUME DamageInv, running, ExpireDownloaders
  PROVE  /\ peers' \in Table /\ times' \in [Hash -> [Peer -> Int]]
         /\ Unheard' /\ Whole(peers') /\ (~damaged.memory => Whole(peers))
<1>1. peers \in Table /\ times \in [Hash -> [Peer -> Int]] /\ prevTime \in Nat \ {0}
  BY DEF DamageInv, TablesOK
<1>2. peers' = [h \in Hash |-> LeftAfter(h)]
  BY DEF ExpireDownloaders
<1>3. \A h \in Hash : peers[h] = NoSwarm \/ peers[h] \in [Peer -> Left \cup {NoLeft, Gone}]
  BY <1>1 DEF Table, Swarm
<1>4. \A h \in Hash : LeftAfter(h) = NoSwarm \/
        /\ peers[h] # NoSwarm
        /\ LeftAfter(h) = [p \in Peer |-> IF Silent(h, p) THEN Gone ELSE peers[h][p]]
  BY DEF LeftAfter
<1>5. \A h \in Hash : LeftAfter(h) \in Swarm \cup {NoSwarm}
  BY <1>3, <1>4 DEF Swarm
<1>6. peers' \in Table
  BY <1>2, <1>5 DEF Table
<1>7. times' \in [Hash -> [Peer -> Int]]
  <2>1. \A h \in Hash, p \in Peer : times[h][p] \in Int /\ Never \in Int
    BY <1>1 DEF Never
  <2>2. QED
    BY <2>1 DEF ExpireDownloaders
<1>8. Whole(peers')
  <2> SUFFICES ASSUME NEW h \in Hash, NEW p \in Peer, LeftAfter(h) # NoSwarm,
                      LeftAfter(h)[p] = NoLeft
               PROVE  FALSE
    BY <1>2 DEF Whole
  <2>1. ~Silent(h, p) /\ peers[h] # NoSwarm /\ peers[h][p] = NoLeft
    BY <1>4, Sentinels
  <2>2. times[h][p] = 0
    BY <2>1 DEF DamageInv, Unheard
  <2>3. QED
    BY <1>1, <2>1, <2>2 DEF Silent, Never
<1>9. Unheard'
  BY <1>8 DEF Whole, Unheard
<1>10. QED
  BY <1>6, <1>7, <1>8, <1>9 DEF DamageInv

\* The state file: what is written is what is in memory, and what is cut may
\* have lost anything.
LEMMA DamageWritten ==
  ASSUME DamageInv, NEW outcome \in Outcome, NEW content,
         content \in Written("save", State, outcome)
  PROVE  /\ content.peers \in Table
         /\ outcome = "written" => content = State
         /\ outcome = "unopened" => content = made["save"]
<1>1. peers \in Table /\ made["save"].peers \in Table
  BY DEF DamageInv, TablesOK
<1>2. State.peers = peers
  BY DEF State
<1>3. CASE outcome = "written"
  BY <1>1, <1>2, <1>3 DEF Written, FileAfter
<1>4. CASE outcome = "unopened"
  BY <1>1, <1>4 DEF Written, FileAfter
<1>5. CASE outcome \notin {"written", "unopened"}
  <2>1. content \in CutState(State)
    BY <1>5, Zenon DEF Written, FileAfter
  <2>2. content.peers \in Table
    BY <1>1, <1>2, <2>1, CutTyped
  <2>3. QED
    BY <1>5, <2>2
<1>6. QED
  BY <1>3, <1>4, <1>5

\* Making a product counts what it was made from.
LEMMA DamageUpdate ==
  ASSUME DamageInv, NEW k \in Kind, NEW outcome \in Outcome, Update(k, outcome)
  PROVE  DamageInv'
<1> DEFINE due == {j \in Kind : Due(j)}
           bad == IF outcome = "written" THEN {} ELSE {k}
           done == {j \in due \ bad : outcome = "crash" => Rank[j] < Rank[k]}
           expire == now > expireNext /\ ~(outcome = "crash" /\ BeforeExpiry(k))
           Made(j) == IF BeforeExpiry(j) THEN Product(j) ELSE Product(j)'
<1>1. /\ running /\ now' = now /\ (bad = {} => k = "save")
      /\ IF expire THEN ExpireDownloaders
                   ELSE UNCHANGED <<peers, times, prevTime, expireNext>>
  BY Zenon DEF Update
<1>2. PICK content \in IF bad = {} THEN {made[k]} ELSE Written(k, Made(k), outcome) :
        made' = [j \in Kind |-> IF j \in done THEN Made(j)
                                ELSE IF j \in bad THEN content ELSE made[j]]
  BY DEF Update
<1>3. damaged' = [memory |-> damaged.memory /\ ~expire,
                  file |-> CASE "save" \in done -> damaged.memory
                             [] "save" \in bad -> outcome # "unopened" \/ damaged.file
                             [] OTHER -> damaged.file]
  BY DEF Update
<1>4. Made("save") = State
  BY DEF BeforeExpiry, Rank, Product
<1> HIDE DEF Made, due
<1>5. /\ peers \in Table /\ times \in [Hash -> [Peer -> Int]] /\ TimeOut \in Nat
      /\ now \in Nat /\ prevTime \in Nat \ {0} /\ expireNext \in Nat
      /\ damaged.memory \in BOOLEAN /\ damaged.file \in BOOLEAN
      /\ made["save"].peers \in Table
  BY StatsAssumption DEF DamageInv, TablesOK
<1>6. /\ peers' \in Table /\ times' \in [Hash -> [Peer -> Int]]
      /\ now' \in Nat /\ prevTime' \in Nat \ {0} /\ expireNext' \in Nat
  <2>1. CASE expire
    <3>1. ExpireDownloaders /\ now > expireNext
      BY <1>1, <2>1
    <3>2. prevTime' = now /\ expireNext' = now + TimeOut
      BY <3>1 DEF ExpireDownloaders
    <3>3. QED
      BY <1>1, <1>5, <3>1, <3>2, DamageExpiry
  <2>2. CASE ~expire
    BY <1>1, <1>5, <2>2
  <2>3. QED
    BY <2>1, <2>2
<1>7. Unheard' /\ (~damaged'.memory => Whole(peers'))
  <2>1. CASE expire
    <3> HIDE DEF expire
    <3>1. ExpireDownloaders
      BY <1>1, <2>1
    <3>2. QED
      BY <1>1, <3>1, DamageExpiry
  <2>2. CASE ~expire
    <3>1. UNCHANGED <<peers, times>> /\ damaged'.memory = damaged.memory
      BY <1>1, <1>3, <1>5, <2>2
    <3>2. QED
      BY <1>1, <3>1 DEF DamageInv, Unheard, Whole
  <2>3. QED
    BY <2>1, <2>2
<1>8. /\ made'["save"].peers \in Table
      /\ ~damaged'.file => Whole(made'["save"].peers)
  <2>1. CASE "save" \in done
    <3>1. made'["save"] = State /\ damaged'.file = damaged.memory
      BY <1>2, <1>3, <1>4, <2>1, Sentinels
    <3>2. ~damaged.memory => Whole(peers)
      BY <1>1 DEF DamageInv
    <3>3. QED
      BY <1>5, <3>1, <3>2 DEF State
  <2>2. CASE "save" \in bad
    <3>1. k = "save" /\ bad # {} /\ "save" \notin done
      BY <2>2
    <3>2. made'["save"] = content /\ damaged'.file = (outcome # "unopened" \/ damaged.file)
      BY <1>2, <1>3, <2>2, <3>1, Sentinels
    <3>3. content \in Written("save", State, outcome)
      BY <1>2, <1>4, <3>1
    <3>4. content.peers \in Table /\ (outcome = "unopened" => content = made["save"])
      BY <3>3, DamageWritten
    <3>5. QED
      BY <1>1, <1>5, <3>2, <3>4 DEF DamageInv
  <2>3. CASE "save" \notin done \cup bad
    <3>1. made'["save"] = made["save"] /\ damaged'.file = damaged.file
      BY <1>2, <1>3, <2>3, Sentinels
    <3>2. QED
      BY <1>5, <3>1 DEF DamageInv
  <2>4. QED
    BY <2>1, <2>2, <2>3
<1>9. damaged' \in [memory: BOOLEAN, file: BOOLEAN] /\ made' = [j \in Kind |-> made'[j]]
  <2>1. damaged'.memory \in BOOLEAN /\ damaged'.file \in BOOLEAN
    BY <1>3, <1>5
  <2>2. damaged' = [memory |-> damaged'.memory, file |-> damaged'.file]
    BY <1>3
  <2>3. QED
    BY <1>2, <2>1, <2>2
<1>10. QED
  BY <1>6, <1>7, <1>8, <1>9 DEF DamageInv, TablesOK

\* The file the destructor writes.
LEMMA DamageExit ==
  ASSUME DamageInv, NEW outcome \in Outcome, Exit(outcome)
  PROVE  DamageInv'
<1>1. /\ running /\ ~running' /\ UNCHANGED <<peers, times, now, prevTime, expireNext>>
      /\ outcome # "crash"
      /\ damaged' = [damaged EXCEPT !.file = IF outcome = "written" THEN damaged.memory
                                             ELSE outcome = "short" \/ @]
  BY DEF Exit, swarmVars, timerVars
<1>2. PICK content \in Written("save", State, outcome) : made' = [made EXCEPT !["save"] = content]
  BY DEF Exit
<1>3. /\ damaged \in [memory: BOOLEAN, file: BOOLEAN] /\ made = [k \in Kind |-> made[k]]
      /\ made["save"].peers \in Table
  BY DEF DamageInv, TablesOK
<1>4. /\ content.peers \in Table
      /\ outcome = "written" => content = State
      /\ outcome = "unopened" => content = made["save"]
  BY DamageWritten
<1>5. made'["save"] = content /\ made' = [k \in Kind |-> made'[k]]
  BY <1>2, <1>3, Sentinels
<1>6. damaged' \in [memory: BOOLEAN, file: BOOLEAN]
  BY <1>1, <1>3
<1>7. TablesOK'
  BY <1>1, <1>4, <1>5, <1>6 DEF DamageInv, TablesOK
<1>8. ~damaged'.file => Whole(content.peers)
  <2>1. CASE outcome = "written"
    BY <1>1, <1>3, <1>4, <2>1 DEF DamageInv, State
  <2>2. CASE outcome = "unopened"
    BY <1>1, <1>3, <1>4, <2>2 DEF DamageInv
  <2>3. CASE outcome = "short"
    BY <1>1, <1>3, <2>3
  <2>4. QED
    BY <1>1, <2>1, <2>2, <2>3 DEF Outcome
<1>9. QED
  BY <1>1, <1>5, <1>7, <1>8 DEF DamageInv

\* What is read back has not been heard of.
LEMMA DamageStart ==
  ASSUME DamageInv, Start
  PROVE  DamageInv'
<1> DEFINE loaded == made["save"].peers
<1>1. /\ peers' = WithDead(loaded, allowed) /\ times' = TimesLoaded(loaded)
      /\ now' = 0 /\ prevTime' = 1 /\ expireNext' = TimeOut
      /\ made' = [k \in Kind |-> CASE k = "cache" -> <<>> [] k = "rss" -> Product(k)'
                                   [] OTHER -> made[k]]
      /\ damaged' = [damaged EXCEPT !.memory = damaged.file]
  BY DEF Start
<1>2. loaded \in Table /\ damaged \in [memory: BOOLEAN, file: BOOLEAN]
  BY DEF DamageInv, TablesOK
<1>3. made'["save"] = made["save"] /\ made' = [k \in Kind |-> made'[k]]
  BY <1>1, Sentinels
<1>4. /\ peers' \in Table
      /\ \A h \in Hash : peers'[h] \in {loaded[h], Nobody}
  BY <1>1, <1>2, WithDeadTyped
<1>5. \A h \in Hash, p \in Peer : peers'[h] # NoSwarm /\ peers'[h][p] = NoLeft =>
        loaded[h] # NoSwarm /\ loaded[h][p] = NoLeft
  BY <1>4, Sentinels DEF Nobody
<1>6. times' \in [Hash -> [Peer -> Int]]
  BY <1>1 DEF TimesLoaded, Never
<1>7. Unheard'
  BY <1>1, <1>5, Sentinels DEF TimesLoaded, Unheard
<1>8. damaged' \in [memory: BOOLEAN, file: BOOLEAN]
      /\ damaged'.file = damaged.file /\ damaged'.memory = damaged.file
  BY <1>1, <1>2
<1>9. ~damaged.file => Whole(loaded)
  BY DEF DamageInv
<1>10. ~damaged'.memory => Whole(peers')
  BY <1>5, <1>8, <1>9 DEF Whole
<1>11. TablesOK'
  <2>1. now' \in Nat /\ prevTime' \in Nat \ {0} /\ expireNext' \in Nat
    BY <1>1, StatsAssumption
  <2>2. made'["save"].peers \in Table
    BY <1>2, <1>3
  <2>3. QED
    BY <1>3, <1>4, <1>6, <1>8, <2>1, <2>2 DEF TablesOK
<1>12. QED
  BY <1>3, <1>7, <1>8, <1>9, <1>10, <1>11 DEF DamageInv

\* No count is damaged at first,
LEMMA DamageInit == Init => DamageInv
<1> SUFFICES ASSUME Init PROVE DamageInv
  OBVIOUS
<1>1. /\ peers = WithDead(NoState.peers, config.allowed) /\ times = TimesLoaded(NoState.peers)
      /\ now = 0 /\ prevTime = 1 /\ expireNext = TimeOut
      /\ made = [k \in Kind |-> CASE k = "save" -> NoState [] k = "rss" -> Product(k)
                                  [] OTHER -> <<>>]
      /\ damaged = [memory |-> FALSE, file |-> FALSE]
  BY DEF Init
<1>2. NoState.peers = [h \in Hash |-> NoSwarm] /\ NoState.peers \in Table
  BY DEF NoState, Table
<1>3. made["save"] = NoState /\ made = [k \in Kind |-> made[k]]
  BY <1>1, Sentinels
<1>4. peers \in Table /\ \A h \in Hash : peers[h] \in {NoSwarm, Nobody}
  BY <1>1, <1>2, WithDeadTyped
<1>5. Whole(peers) /\ Whole(NoState.peers) /\ Unheard
  BY <1>2, <1>4, Sentinels DEF Whole, Unheard, Nobody
<1>6. times \in [Hash -> [Peer -> Int]]
  BY <1>1 DEF TimesLoaded, Never
<1>7. TablesOK
  <2>1. now \in Nat /\ prevTime \in Nat \ {0} /\ expireNext \in Nat
    BY <1>1, StatsAssumption
  <2>2. QED
    BY <1>1, <1>2, <1>3, <1>4, <1>6, <2>1 DEF TablesOK
<1>8. QED
  BY <1>3, <1>5, <1>7 DEF DamageInv

\* and every step keeps what is known of the damage.
LEMMA DamageStep == DamageInv /\ [Next]_vars => DamageInv'
<1> SUFFICES ASSUME DamageInv, [Next]_vars PROVE DamageInv'
  OBVIOUS
<1>1. ASSUME NEW h \in Hash, NEW p \in Peer, NEW left \in Left,
             NEW event \in {"none", "completed"}, Announce(h, p, left, event)
      PROVE  DamageInv'
  BY <1>1, DamageAnnounce
<1>2. ASSUME NEW h \in Hash, NEW p \in Peer, Stop(h, p)
      PROVE  DamageInv'
  BY <1>2, DamageStop
<1>3. CASE Request
  <2>1. ASSUME NEW h \in Hash, NEW entry \in Edits, EditTag(h, entry)
        PROVE  DamageInv'
    BY <2>1 DEF EditTag, Change, timerVars, fileVars, DamageInv, TablesOK, Unheard, Whole
  <2>2. ASSUME NEW h \in Hash, NEW count, Discuss(h, count)
        PROVE  DamageInv'
    BY <2>2 DEF Discuss, Change, timerVars, fileVars, DamageInv, TablesOK, Unheard, Whole
  <2>3. QED
    BY <1>1, <1>2, <1>3, <2>1, <2>2, DamageFiles DEF Request
<1>4. CASE Tick
  <2>1. /\ now' = now + 1
        /\ UNCHANGED <<running, peers, times, prevTime, expireNext, made, damaged>>
    BY <1>4 DEF Tick, fileVars, swarmVars
  <2>2. now' \in Nat
    BY <2>1 DEF DamageInv, TablesOK
  <2>3. TablesOK'
    BY <2>1, <2>2 DEF DamageInv, TablesOK
  <2>4. QED
    BY <2>1, <2>3 DEF DamageInv, Unheard, Whole
<1>5. ASSUME NEW k \in Kind, NEW outcome \in Outcome, Update(k, outcome)
      PROVE  DamageInv'
  BY <1>5, DamageUpdate
<1>6. ASSUME NEW outcome \in Outcome, Exit(outcome)
      PROVE  DamageInv'
  BY <1>6, DamageExit
<1>7. CASE Crash
  BY <1>7 DEF Crash, fileVars, swarmVars, timerVars, DamageInv, TablesOK, Whole
<1>8. CASE Start
  BY <1>8, DamageStart
<1>9. CASE UNCHANGED <<running, peers, times, now, prevTime, expireNext, made, damaged>>
  BY <1>9 DEF DamageInv, TablesOK, Unheard, Whole
<1>10. CASE Turn
  BY <1>9, <1>10 DEF Turn, OpenIndex, NextPage, fileVars, swarmVars, timerVars
<1>11. CASE UNCHANGED vars
  BY <1>9, <1>11 DEF vars, fileVars, swarmVars, timerVars
<1>12. QED
  BY <1>3, <1>4, <1>5, <1>6, <1>7, <1>8, <1>10, <1>11 DEF Next, Process

\* How many peers have something left is the same with the entries that do
\* not say, and how many are there is the sum, where every entry says.
LEMMA WholeCounts ==
  ASSUME NEW h \in Hash, peers[h] \in Swarm, \A p \in Peer : peers[h][p] # NoLeft
  PROVE  /\ Having(peers[h], Leeching \cup {NoLeft}) = Having(peers[h], Leeching)
         /\ Having(peers[h], {0, NoLeft}) = Having(peers[h], {0})
         /\ Cardinality(Peer \ Having(peers[h], {Gone})) =
              Cardinality(Having(peers[h], {0})) + Cardinality(Having(peers[h], Leeching))
<1> DEFINE seeding == Having(peers[h], {0})
           leeching == Having(peers[h], Leeching)
<1>1. \A p \in Peer : peers[h][p] \in Left \cup {Gone}
  BY DEF Swarm
<1>2. /\ Having(peers[h], Leeching \cup {NoLeft}) = Having(peers[h], Leeching)
      /\ Having(peers[h], {0, NoLeft}) = Having(peers[h], {0})
  BY DEF Having
<1>3. seeding \subseteq Peer /\ leeching \subseteq Peer /\ seeding \cap leeching = {}
  BY DEF Having, Leeching
<1>4. Peer \ Having(peers[h], {Gone}) = seeding \cup leeching
  BY <1>1, Sentinels DEF Having, Leeching
<1>5. IsFiniteSet(seeding) /\ IsFiniteSet(leeching)
  BY <1>3, FS_Subset, StatsFiniteAssumption
<1> HIDE DEF seeding, leeching
<1>6. Cardinality(seeding \cap leeching) = 0
  BY <1>3, FS_EmptySet
<1>7. Cardinality(seeding) \in Nat /\ Cardinality(leeching) \in Nat
  BY <1>5, FS_CardinalityType
<1>8. Cardinality(seeding \cup leeching) = Cardinality(seeding) + Cardinality(leeching)
  <2>1. Cardinality(seeding \cup leeching) =
          Cardinality(seeding) + Cardinality(leeching) - Cardinality(seeding \cap leeching)
    BY <1>5, FS_Union
  <2>2. QED
    BY <1>6, <1>7, <2>1
<1>9. QED
  BY <1>2, <1>4, <1>8 DEF seeding, leeching

\* Without damage the counts agree.
LEMMA WholeAgrees == DamageInv => CountsAgree
<1> SUFFICES ASSUME DamageInv, running, ~damaged.memory
             PROVE  /\ \A h \in Known :
                         LET counts == Scraped({h})[h]
                         IN  /\ XMLCounts(h) = counts
                             /\ StatsCounts(h) = [complete |-> Shortened(counts.complete),
                                                  incomplete |-> Shortened(counts.incomplete)]
                    /\ LET all == Scraped({})
                       IN  PeerCount = MapThenSumSet(
                             LAMBDA h : all[h].complete + all[h].incomplete, DOMAIN all)
  BY DEF CountsAgree
<1>1. peers \in Table /\ Whole(peers)
  BY DEF DamageInv, TablesOK
<1>2. \A h \in Known : h \in Hash /\ peers[h] \in Swarm /\ \A p \in Peer : peers[h][p] # NoLeft
  BY <1>1 DEF Known, Table, Whole
<1>3. ASSUME NEW h \in Known
      PROVE  /\ XMLCounts(h) = Counts(h)
             /\ StatsCounts(h) = [complete |-> Shortened(Counts(h).complete),
                                  incomplete |-> Shortened(Counts(h).incomplete)]
             /\ Cardinality(Peer \ Having(peers[h], {Gone})) =
                  Counts(h).complete + Counts(h).incomplete
  <2>1. /\ Having(peers[h], Leeching \cup {NoLeft}) = Having(peers[h], Leeching)
        /\ Having(peers[h], {0, NoLeft}) = Having(peers[h], {0})
        /\ Cardinality(Peer \ Having(peers[h], {Gone})) =
             Cardinality(Having(peers[h], {0})) + Cardinality(Having(peers[h], Leeching))
    BY <1>2, WholeCounts
  <2>2. /\ Counts(h).complete = Cardinality(Having(peers[h], {0}))
        /\ Counts(h).incomplete = Cardinality(Having(peers[h], Leeching))
    BY DEF Counts
  <2>3. XMLCounts(h) = Counts(h)
    BY <2>1 DEF XMLCounts, Counts
  <2>4. QED
    BY <2>1, <2>2, <2>3 DEF StatsCounts
<1>4. ASSUME NEW h \in Known
      PROVE  Scraped({h})[h] = Counts(h)
  BY DEF Scraped
<1>5. Scraped({}) = [h \in Known |-> Counts(h)]
  BY DEF Scraped
<1>6. PeerCount = MapThenSumSet(LAMBDA h : Scraped({})[h].complete + Scraped({})[h].incomplete,
                                Known)
  <2> DEFINE first(s) == CHOOSE h \in s : TRUE
             all == Scraped({})
             StepE(sum) == [s \in SUBSET Known |-> IF s = {} THEN 0 ELSE
                Cardinality(Peer \ Having(peers[first(s)], {Gone})) + sum[s \ {first(s)}]]
             StepS(sum) == [s \in SUBSET Known |-> IF s = {} THEN 0 ELSE
                (all[first(s)].complete + all[first(s)].incomplete) + sum[s \ {first(s)}]]
  <2>1. PeerCount = (CHOOSE sum : sum = StepE(sum))[Known]
    BY Zenon DEF PeerCount, MapThenSumSet, MapThenFoldSet
  <2>2. MapThenSumSet(LAMBDA h : Scraped({})[h].complete + Scraped({})[h].incomplete, Known)
          = (CHOOSE sum : sum = StepS(sum))[Known]
    BY Zenon DEF MapThenSumSet, MapThenFoldSet
  <2>3. \A s \in SUBSET Known : s # {} =>
          Cardinality(Peer \ Having(peers[first(s)], {Gone})) =
            all[first(s)].complete + all[first(s)].incomplete
    <3> SUFFICES ASSUME NEW s \in SUBSET Known, s # {}
                 PROVE  Cardinality(Peer \ Having(peers[first(s)], {Gone})) =
                          all[first(s)].complete + all[first(s)].incomplete
      OBVIOUS
    <3>1. first(s) \in Known
      OBVIOUS
    <3> HIDE DEF first
    <3>2. QED
      BY <1>3, <1>5, <3>1
  <2> HIDE DEF first, all
  <2>4. \A sum : StepE(sum) = StepS(sum)
    BY <2>3
  <2> HIDE DEF StepE, StepS
  <2>5. QED
    BY <2>1, <2>2, <2>4
<1>7. DOMAIN Scraped({}) = Known
  BY <1>5
<1>8. QED
  BY <1>3, <1>4, <1>6, <1>7

\* The pages that count peers agree, from the first pass of expireDownloaders
\* on, whatever was left of the state file; whatever the intervals, the limit
\* of the peers displayed and the faults.
THEOREM PagesAgree == Spec => []CountsAgree
BY DamageInit, DamageStep, WholeAgrees, PTL DEF Spec

---------------------------------------------------------------------------
(***************************************************************************)
(* The pages of the index.                                                 *)
(***************************************************************************)

\* A later page begins later.
LEMMA LaterPage ==
  ASSUME NEW a \in Nat, NEW b \in Nat, NEW per \in Nat, a <= b
  PROVE  a * per \in Nat /\ b * per \in Nat /\ a * per <= b * per
<1> DEFINE d == b - a
<1>1. d \in Nat /\ b = a + d
  OBVIOUS
<1> HIDE DEF d
<1>2. \A x, y, z \in Nat : (x + y) * z = x * z + y * z /\ x * z \in Nat /\ y * z \in Nat
  OBVIOUS
<1>3. QED
  BY <1>1, <1>2

\* A list is a sequence of as many torrents as are found.
LEMMA ListedSeq ==
  ASSUME NEW rows, DOMAIN rows \subseteq Hash, NEW view
  PROVE  /\ Listed(rows, view) \in Seq(Range(Listed(rows, view)))
         /\ Len(Listed(rows, view)) \in Nat
         /\ DOMAIN Listed(rows, view) = 1..Len(Listed(rows, view))
<1> DEFINE which == Found(rows, view)
           by == Effective(view.sort)
           item == [h \in Hash |-> [key |-> h, value |-> rows[h][by[1]]]]
           items == {[key |-> h, value |-> rows[h][by[1]]] : h \in which}
           Place(b) == 1 + Cardinality({a \in items : Earlier(a, b, by)})
           list == [i \in 1..Cardinality(items) |-> (CHOOSE a \in items : Place(a) = i).key]
<1>1. which \subseteq Hash /\ IsFiniteSet(which)
  <2>1. which \subseteq Hash
    BY DEF Found
  <2>2. QED
    BY <2>1, FS_Subset, StatsFiniteAssumption
<1>2. items = {item[h] : h \in which}
  BY <1>1
<1>3. IsFiniteSet(items)
  <2> HIDE DEF item, items
  <2>1. QED
    BY <1>1, <1>2, ImageFinite
<1>4. Cardinality(items) \in Nat
  BY <1>3, FS_CardinalityType
<1>5. Listed(rows, view) = list
  BY Zenon DEF Listed, Ordered
<1>6. DOMAIN list = 1..Cardinality(items)
  OBVIOUS
<1> HIDE DEF items, list, which, by
<1>7. \A i \in 1..Cardinality(items) : list[i] \in Range(list)
  BY <1>6 DEF Range
<1>8. list = [i \in 1..Cardinality(items) |-> list[i]]
  BY <1>6 DEF list
<1>9. list \in Seq(Range(list)) /\ Len(list) = Cardinality(items)
  BY <1>4, <1>7, <1>8
<1>10. QED
  BY <1>4, <1>5, <1>6, <1>9

\* Rows are those of torrents.
LEMMA RowsOfHashes == DOMAIN Rows \subseteq Hash /\ DOMAIN Rows' \subseteq Hash
BY DEF Rows, Known

\* A page begins where those before it end; it shows something exactly when
\* there is something left to show.
LEMMA PageShows ==
  ASSUME NEW list, list \in Seq(Range(list)), NEW page \in Nat, NEW per \in Nat, per > 0
  PROVE  /\ page * per < Len(list) => PageOf(list, page, per) # <<>>
         /\ page * per >= Len(list) => PageOf(list, page, per) = <<>>
         /\ \A i \in 1..Len(list) :
              page * per < i /\ i <= (page + 1) * per =>
                list[i] \in Range(PageOf(list, page, per))
         /\ \A x \in Range(PageOf(list, page, per)) : \E i \in 1..Len(list) :
              list[i] = x /\ page * per < i /\ i <= (page + 1) * per
<1> DEFINE start == page * per
           end == IF start + per <= Len(list) THEN start + per ELSE Len(list)
           shown == PageOf(list, page, per)
<1>1. Len(list) \in Nat /\ DOMAIN list = 1..Len(list)
  OBVIOUS
<1>2. start \in Nat /\ (page + 1) * per = start + per
  <2>1. \A x, y \in Nat : x * y \in Nat /\ (x + 1) * y = x * y + y
    OBVIOUS
  <2>2. QED
    BY <2>1
<1>3. shown = SubSeq(list, start + 1, end)
  <2>1. shown = IF per = 0 THEN list ELSE SubSeq(list, start + 1, end)
    BY Zenon DEF PageOf
  <2>2. per # 0
    OBVIOUS
  <2>3. QED
    BY <2>1, <2>2, Zenon
<1> HIDE DEF start, shown
<1>4. CASE start < Len(list)
  <2>1. end \in Nat /\ start < end /\ end <= Len(list)
    BY <1>1, <1>2, <1>4
  <2>2. shown = [i \in 1..(end - start) |-> list[i + start]]
    BY <1>1, <1>2, <1>3, <2>1
  <2>3. shown # <<>>
    <3>1. 1 \in DOMAIN shown
      BY <1>2, <2>1, <2>2
    <3>2. QED
      BY <3>1
  <2>4. ASSUME NEW i \in 1..Len(list), start < i, i <= start + per
        PROVE  list[i] \in Range(shown)
    <3>1. i - start \in 1..(end - start)
      BY <1>1, <1>2, <2>4
    <3>2. shown[i - start] = list[i]
      BY <1>2, <2>2, <3>1
    <3>3. QED
      BY <2>2, <3>1, <3>2 DEF Range
  <2>5. ASSUME NEW x \in Range(shown)
        PROVE  \E i \in 1..Len(list) : list[i] = x /\ start < i /\ i <= start + per
    <3>1. PICK k \in 1..(end - start) : x = list[k + start]
      BY <2>2, <2>5 DEF Range
    <3>2. k + start \in 1..Len(list) /\ start < k + start /\ k + start <= start + per
      BY <1>1, <1>2, <2>1, <3>1
    <3>3. QED
      BY <3>1, <3>2
  <2>6. QED
    BY <1>1, <1>2, <1>4, <2>3, <2>4, <2>5 DEF start, shown
<1>5. CASE start >= Len(list)
  <2>1. end = Len(list)
    <3>1. start \in Nat /\ Len(list) \in Nat
      BY <1>1, <1>2
    <3>2. ~(start + per <= Len(list))
      BY <1>5, <3>1
    <3>3. QED
      BY <3>2
  <2>2. shown = <<>>
    <3>1. shown = SubSeq(list, start + 1, Len(list))
      BY <1>3, <2>1
    <3>2. start + 1 \in Int /\ Len(list) \in Int /\ Len(list) < start + 1
      BY <1>1, <1>2, <1>5
    <3>3. QED
      BY <3>1, <3>2, SubSeqEmpty
  <2>3. Range(shown) = {}
    BY <2>2 DEF Range
  <2>4. QED
    BY <1>1, <1>2, <1>5, <2>2, <2>3 DEF start, shown
<1>6. QED
  BY <1>1, <1>2, <1>4, <1>5

\* What someone who reads has at hand.
ReaderOK ==
  reader # NotReading =>
    /\ reader \in [view: Views, page: Nat, moved: BOOLEAN, more: BOOLEAN,
                   read: {reader.read}, owed: {reader.owed}]

\* Links lead to other pages, on which there is something.
LEMMA LinksShow ==
  ASSUME NEW list, list \in Seq(Range(list)), NEW n \in Nat, NEW per \in Nat,
         per > 0, n * per < Len(list)
  PROVE  /\ \A to \in Links(Len(list), n, per) : to # n /\ PageOf(list, to, per) # <<>>
         /\ \A to \in LastPage(Len(list), n, per) :
              to # n /\ (PageOf(list, to, per) = <<>> <=> Len(list) % per = 0)
<1> DEFINE found == Len(list)
<1>1. found \in Nat /\ PageRange \in Nat
  BY ListingAssumption
<1>2. ASSUME NEW to \in Links(found, n, per)
      PROVE  to \in Nat /\ to # n /\ to * per < found
  <2> HIDE DEF found
  <2>1. to \in First(n) \cup Previous(n) \cup RangeBefore(n)
                \cup RangeAfter(found, n, per) \cup Following(found, n, per)
    BY <1>2 DEF Links
  <2>2. CASE to \in Nat /\ to < n
    <3>1. to * per <= n * per /\ to * per \in Nat /\ n * per \in Nat
      BY <2>2, LaterPage
    <3>2. n * per < found
      BY DEF found
    <3>3. QED
      BY <1>1, <2>2, <3>1, <3>2
  <2>3. CASE to \in First(n) \cup Previous(n) \cup RangeBefore(n)
    <3>1. to \in Nat /\ to < n
      BY <1>1, <2>3 DEF First, Previous, RangeBefore
    <3>2. QED
      BY <2>2, <3>1
  <2>4. CASE to \in RangeAfter(found, n, per) \cup Following(found, n, per)
    BY <1>1, <2>4 DEF RangeAfter, Following
  <2>5. QED
    BY <2>1, <2>3, <2>4
<1>3. ASSUME NEW to \in LastPage(found, n, per)
      PROVE  /\ to \in Nat /\ to > n /\ to * per <= found
             /\ to * per = found <=> found % per = 0
  <2> HIDE DEF found
  <2>1. to = found \div per /\ (n + PageRange + 1) * per < found
    BY <1>3 DEF LastPage
  <2>2. /\ to \in Nat /\ found % per \in Nat /\ found % per < per
        /\ found = to * per + (found % per)
    <3>1. \A x \in Nat : x \div per \in Nat /\ x % per \in Nat /\ x % per < per
      OBVIOUS
    <3>2. to \in Nat /\ found % per \in Nat /\ found % per < per
      BY <1>1, <2>1, <3>1
    <3>3. \E q \in Nat, r \in 0..(per - 1) :
            found = q * per + r /\ q = found \div per /\ r = found % per
      BY <1>1, Z3
    <3>4. found = to * per + (found % per)
      BY <2>1, <3>3, Zenon
    <3>5. QED
      BY <3>2, <3>4, Zenon
  <2>3. (n + 1) * per <= (n + PageRange + 1) * per /\ (n + 1) * per \in Nat
    BY <1>1, LaterPage
  <2>4. ASSUME to <= n PROVE FALSE
    <3>1. (to + 1) * per <= (n + 1) * per
      BY <2>2, <2>4, LaterPage
    <3>2. \A x, y \in Nat : (x + 1) * y = x * y + y /\ x * y \in Nat
      OBVIOUS
    <3>3. (to + 1) * per = to * per + per /\ to * per \in Nat
      BY <2>2, <3>2
    <3>4. (n + PageRange + 1) * per \in Nat
      BY <1>1, LaterPage
    <3> HIDE DEF found
    <3>5. QED
      BY <1>1, <2>1, <2>2, <2>3, <3>1, <3>3, <3>4
  <2>5. to * per \in Nat
    BY <2>2, LaterPage
  <2>6. \A x, y \in Nat : found = x + y => x <= found /\ (x = found <=> y = 0)
    BY <1>1
  <2>7. to > n
    BY <2>2, <2>4
  <2>8. to * per <= found /\ (to * per = found <=> found % per = 0)
    <3> DEFINE x == to * per
               y == found % per
    <3>1. x \in Nat /\ y \in Nat /\ found = x + y
      BY <2>2, <2>5, Zenon
    <3> HIDE DEF x, y
    <3>2. x <= found /\ (x = found <=> y = 0)
      BY <2>6, <3>1
    <3>3. QED
      BY <3>2 DEF x, y
  <2>9. QED
    BY <2>2, <2>7, <2>8
<1>4. \A to \in Links(found, n, per) : to # n /\ PageOf(list, to, per) # <<>>
  BY <1>2, PageShows
<1>5. ASSUME NEW to \in LastPage(found, n, per)
      PROVE  to # n /\ (PageOf(list, to, per) = <<>> <=> found % per = 0)
  <2>1. /\ to \in Nat /\ to > n /\ to * per <= found
        /\ to * per = found <=> found % per = 0
    BY <1>3
  <2>2. /\ to * per < found => PageOf(list, to, per) # <<>>
        /\ to * per >= found => PageOf(list, to, per) = <<>>
    BY <2>1, PageShows
  <2>3. to * per \in Nat
    BY <2>1, LaterPage
  <2> HIDE DEF found
  <2>4. QED
    BY <1>1, <2>1, <2>2, <2>3
<1>6. QED
  BY <1>4, <1>5

\* Rows are made of the tables and the files.
LEMMA SameRows ==
  ASSUME UNCHANGED <<peers, completed, allowed, tags, comments>>
  PROVE  Rows' = Rows
<1>1. Known' = Known
  BY DEF Known
<1>2. ASSUME NEW h \in Known
      PROVE  Row(h)' = Row(h)
  <2>1. MapThenSumSet(LAMBDA p : peers[h][p], Having(peers[h], Leeching))'
          = MapThenSumSet(LAMBDA p : peers[h][p], Having(peers[h], Leeching))
    BY Zenon DEF MapThenSumSet, MapThenFoldSet, Having
  <2>2. Counts(h)' = Counts(h)
    BY DEF Counts, Having
  <2>3. Having(peers[h], Leeching)' = Having(peers[h], Leeching)
    BY DEF Having
  <2>4. QED
    BY <2>1, <2>2, <2>3, Zenon DEF Row
<1>3. QED
  BY <1>1, <1>2 DEF Rows

\* What is at a place beyond the pages read so far.
Ahead(list, x, page, per) ==
  \E i \in DOMAIN list : list[i] = x /\ (page + 1) * per < i

\* While nothing moves to the front, whatever has been in the list all the while
\* was on a page, or is on one to come.
OwedInv ==
  reader # NotReading /\ ~reader.moved =>
    \A x \in reader.owed :
      \/ x \in reader.read
      \/ /\ reader.more /\ reader.view.perPage > 0
         /\ Ahead(Listed(Rows, reader.view), x, reader.page, reader.view.perPage)

ReaderInv == ReaderOK /\ OwedInv

\* Turning to a page reads what is on it, and leaves what is beyond.
LEMMA ReadsOn ==
  ASSUME NEW view \in Views, NEW page \in Nat, NEW seen, NEW owed, NEW moved \in BOOLEAN,
         reader' = Reading(view, page, seen, owed, moved), Rows' = Rows,
         ~moved => \A x \in owed :
           \/ x \in seen
           \/ \E i \in DOMAIN Listed(Rows, view) :
                Listed(Rows, view)[i] = x /\ page * view.perPage < i
  PROVE  ReaderInv'
<1> DEFINE list == Listed(Rows, view)
           per == view.perPage
           shown == PageOf(list, page, per)
<1>1. per \in Nat
  BY StatsAssumption
<1>2. list \in Seq(Range(list)) /\ Len(list) \in Nat /\ DOMAIN list = 1..Len(list)
  BY ListedSeq, RowsOfHashes
<1>3. /\ reader'.view = view /\ reader'.page = page /\ reader'.moved = moved
      /\ reader'.read = seen \cup Range(shown) /\ reader'.owed = owed
      /\ reader'.more = (Following(Len(list), page, per) # {})
      /\ reader' = [view |-> view, page |-> page, moved |-> moved, read |-> reader'.read,
                    owed |-> owed, more |-> reader'.more]
  BY DEF Reading
<1>4. ReaderOK'
  BY <1>3 DEF ReaderOK
<1>5. ASSUME NEW x \in owed, ~moved, x \notin reader'.read
      PROVE  reader'.more /\ per > 0 /\ Ahead(list, x, page, per)
  <2>1. PICK i \in 1..Len(list) : list[i] = x /\ page * per < i
    BY <1>2, <1>3, <1>5
  <2>2. per > 0
    <3>1. CASE per = 0
      <4>1. shown = list
        BY <3>1, Zenon DEF PageOf
      <4>2. QED
        BY <1>2, <1>3, <1>5, <2>1, <4>1 DEF Range
    <3>2. QED
      BY <1>1, <3>1
  <2>3. ~(i <= (page + 1) * per)
    <3>1. x \notin Range(shown)
      BY <1>3, <1>5
    <3>2. QED
      BY <1>1, <1>2, <2>1, <2>2, <3>1, PageShows
  <2>4. (page + 1) * per \in Nat
    BY <1>1, LaterPage
  <2>5. (page + 1) * per < i /\ (page + 1) * per < Len(list)
    BY <1>2, <2>1, <2>3, <2>4
  <2>6. reader'.more
    BY <1>3, <2>2, <2>5, Zenon DEF Following
  <2>7. QED
    BY <1>2, <2>1, <2>2, <2>5, <2>6 DEF Ahead
<1>6. OwedInv'
  BY <1>3, <1>5 DEF OwedInv
<1>7. QED
  BY <1>4, <1>6 DEF ReaderInv

\* There are n numbers from 1 to n.
LEMMA Counting ==
  ASSUME NEW n \in Nat
  PROVE  IsFiniteSet(1..n) /\ Cardinality(1..n) = n
BY FS_Interval

\* What was behind the first n rows of a list, and those stayed in front of it,
\* is behind n rows still.
LEMMA StaysBehind ==
  ASSUME NEW list, list \in Seq(Range(list)), NEW other, other \in Seq(Range(other)),
         NEW n \in Nat, InFront(list, other, n),
         NEW k \in DOMAIN list, n < k,
         NEW m \in DOMAIN other, other[m] = list[k]
  PROVE  n < m
<1>1. /\ DOMAIN list = 1..Len(list) /\ Len(list) \in Nat
      /\ DOMAIN other = 1..Len(other) /\ Len(other) \in Nat
  OBVIOUS
<1>2. {i \in DOMAIN list : i <= n} = 1..n
  BY <1>1
<1>3. PICK place \in Injection(1..n, DOMAIN other) : \A i \in DOMAIN place :
        /\ other[place[i]] = list[i]
        /\ \A j \in DOMAIN list, l \in DOMAIN other :
             n < j /\ other[l] = list[j] => place[i] < l
  BY <1>2, Zenon DEF InFront
<1>4. /\ place \in [1..n -> DOMAIN other] /\ DOMAIN place = 1..n
      /\ \A i, j \in 1..n : place[i] = place[j] => i = j
  BY <1>3 DEF Injection, IsInjective
<1>5. \A i \in 1..n : place[i] < m
  BY <1>3, <1>4
<1>6. place \in [1..n -> 1..(m - 1)]
  BY <1>1, <1>4, <1>5
<1>7. place \in Injection(1..n, 1..(m - 1))
  BY <1>4, <1>6 DEF Injection, IsInjective
<1>8. /\ Cardinality(1..n) = n
      /\ IsFiniteSet(1..(m - 1)) /\ Cardinality(1..(m - 1)) = m - 1
  <2>1. m - 1 \in Nat
    BY <1>1
  <2>2. QED
    BY <2>1, Counting, Zenon
<1>9. n <= m - 1
  <2> DEFINE S == 1..n
             T == 1..(m - 1)
  <2>1. place \in Injection(S, T) /\ IsFiniteSet(T) /\ Cardinality(S) = n /\ Cardinality(T) = m - 1
    BY <1>7, <1>8
  <2> HIDE DEF S, T
  <2>2. Cardinality(S) <= Cardinality(T)
    BY <2>1, FS_Injection
  <2>3. QED
    BY <2>1, <2>2
<1>10. QED
  BY <1>1, <1>9

\* A step of the process or of a peer: as long as nothing moves to the front,
\* what is owed and still there is still ahead.
LEMMA ReaderWatches ==
  ASSUME ReaderInv, WatchReader
  PROVE  ReaderInv'
<1>1. CASE ~running' \/ reader = NotReading
  BY <1>1 DEF WatchReader, ReaderInv, ReaderOK, OwedInv
<1>2. CASE running' /\ reader # NotReading
  <2> DEFINE view == reader.view
             per == view.perPage
             list == Listed(Rows, view)
             other == Listed(Rows', view)
             passed == (reader.page + 1) * per
             still == InFront(list, other, passed)
  <2>1. reader' = [reader EXCEPT !.moved = @ \/ ~still, !.owed = @ \cap Range(other)]
    BY <1>2, Zenon DEF WatchReader
  <2>2. reader \in [view: Views, page: Nat, moved: BOOLEAN, more: BOOLEAN,
                    read: {reader.read}, owed: {reader.owed}]
    BY <1>2 DEF ReaderInv, ReaderOK
  <2>3. still \in BOOLEAN
    BY DEF InFront
  <2> HIDE DEF still
  <2>4. /\ reader'.view = view /\ reader'.page = reader.page /\ reader'.more = reader.more
        /\ reader'.read = reader.read /\ reader'.owed = reader.owed \cap Range(other)
        /\ reader'.moved = (reader.moved \/ ~still)
    BY <2>1, <2>2
  <2>5. ReaderOK'
    BY <2>1, <2>2, <2>3, <2>4 DEF ReaderOK
  <2>6. ASSUME ~reader'.moved, NEW x \in reader'.owed, x \notin reader.read
        PROVE  reader.more /\ per > 0 /\ Ahead(other, x, reader.page, per)
    <3>1. ~reader.moved /\ still
      BY <2>3, <2>4, <2>6, Zenon
    <3>2. x \in reader.owed /\ x \in Range(other)
      BY <2>4, <2>6
    <3>3. reader.more /\ per > 0 /\ Ahead(list, x, reader.page, per)
      BY <1>2, <2>6, <3>1, <3>2 DEF ReaderInv, OwedInv
    <3>4. PICK k \in DOMAIN list : list[k] = x /\ passed < k
      BY <3>3 DEF Ahead
    <3>5. list \in Seq(Range(list)) /\ other \in Seq(Range(other))
      BY ListedSeq, RowsOfHashes
    <3>6. PICK m \in DOMAIN other : other[m] = x
      BY <3>2 DEF Range
    <3>7. passed \in Nat
      BY <2>2, LaterPage, StatsAssumption
    <3> HIDE DEF list, other, passed
    <3>8. passed < m
      BY <3>1, <3>4, <3>5, <3>6, <3>7, StaysBehind DEF still
    <3>9. QED
      BY <3>3, <3>6, <3>8 DEF Ahead, passed
  <2>7. OwedInv'
    BY <2>4, <2>6 DEF OwedInv
  <2>8. QED
    BY <2>5, <2>7 DEF ReaderInv
<1>3. QED
  BY <1>1, <1>2

\* A reader who turns the page has seen all up to there.
LEMMA ReaderTurns ==
  ASSUME ReaderInv, Turn
  PROVE  ReaderInv'
<1>1. UNCHANGED <<peers, completed, allowed, tags, comments>>
  BY DEF Turn, OpenIndex, NextPage, swarmVars
<1>2. Rows' = Rows
  BY <1>1, SameRows
<1>3. ASSUME NEW view \in Views, OpenIndex(view)
      PROVE  ReaderInv'
  <2> DEFINE list == Listed(Rows, view)
  <2>1. reader' = Reading(view, 0, {}, Range(list), FALSE)
    BY <1>3 DEF OpenIndex
  <2>2. /\ list \in Seq(Range(list)) /\ DOMAIN list = 1..Len(list)
        /\ Len(list) \in Nat /\ view.perPage \in Nat
    BY ListedSeq, RowsOfHashes, StatsAssumption
  <2> HIDE DEF list
  <2>3. \A x \in Range(list) : \E i \in DOMAIN list : list[i] = x /\ 0 * view.perPage < i
    BY <2>2 DEF Range
  <2>4. QED
    BY <1>2, <2>1, <2>3, ReadsOn DEF list
<1>4. CASE NextPage
  <2>1. /\ reader # NotReading
        /\ reader' = Reading(reader.view, reader.page + 1, reader.read, reader.owed,
                             reader.moved)
    BY <1>4 DEF NextPage
  <2>2. reader.view \in Views /\ reader.page + 1 \in Nat /\ reader.moved \in BOOLEAN
    BY <2>1 DEF ReaderInv, ReaderOK
  <2>3. ~reader.moved => \A x \in reader.owed :
          \/ x \in reader.read
          \/ \E i \in DOMAIN Listed(Rows, reader.view) :
               Listed(Rows, reader.view)[i] = x /\ (reader.page + 1) * reader.view.perPage < i
    BY <2>1 DEF ReaderInv, OwedInv, Ahead
  <2>4. QED
    BY <1>2, <2>1, <2>2, <2>3, ReadsOn
<1>5. QED
  BY <1>3, <1>4 DEF Turn

\* Every step keeps account of what a reader is owed,
LEMMA ReaderStep == ReaderInv /\ [Next]_vars => ReaderInv'
<1> SUFFICES ASSUME ReaderInv, [Next]_vars PROVE ReaderInv'
  OBVIOUS
<1>1. CASE WatchReader
  BY <1>1, ReaderWatches
<1>2. CASE Turn
  BY <1>2, ReaderTurns
<1>3. CASE UNCHANGED vars
  <2>1. UNCHANGED <<peers, completed, allowed, tags, comments, reader>>
    BY <1>3 DEF vars, swarmVars, historyVars
  <2>2. Rows' = Rows
    BY <2>1, SameRows
  <2>3. QED
    BY <2>1, <2>2 DEF ReaderInv, ReaderOK, OwedInv
<1>4. QED
  BY <1>1, <1>2, <1>3 DEF Next

\* which is nothing at first.
LEMMA ReaderInit == Init => ReaderInv
BY DEF Init, ReaderInv, ReaderOK, OwedInv

\* Whoever turns the pages of any view to the end, while torrents come, go and
\* change, has seen all that was there from the beginning on, if no row of the
\* pages read so far went (a newcomer among them included) and none from behind
\* came before them.
THEOREM PagesMissNothing == Spec => []NothingMissed
<1>1. ReaderInv => NothingMissed
  BY DEF ReaderInv, OwedInv, NothingMissed
<1>2. QED
  BY <1>1, ReaderInit, ReaderStep, PTL DEF Spec

\* The links of every page of every view lead somewhere, but for the last.
THEOREM LinksLeadToPages == Spec => []LinksLead
<1>1. ReaderInv => LinksLead
  <2> SUFFICES ASSUME ReaderInv, reader # NotReading
               PROVE  LinksLead
    BY DEF LinksLead
  <2> DEFINE list == Listed(Rows, reader.view)
             per == reader.view.perPage
  <2>1. list \in Seq(Range(list)) /\ Len(list) \in Nat
    BY ListedSeq, RowsOfHashes
  <2>2. per \in Nat
    BY StatsAssumption DEF ReaderInv, ReaderOK
  <2> HIDE DEF list, per
  <2>3. ASSUME NEW n \in 0..Len(list), n * per < Len(list), per > 0
        PROVE  /\ \A to \in Links(Len(list), n, per) : to # n /\ PageOf(list, to, per) # <<>>
               /\ \A to \in LastPage(Len(list), n, per) :
                    to # n /\ (PageOf(list, to, per) = <<>> <=> Len(list) % per = 0)
    <3>1. n \in Nat
      BY <2>1
    <3>2. QED
      BY <2>1, <2>2, <2>3, <3>1, LinksShow
  <2>4. QED
    BY <2>3 DEF LinksLead, list, per
<1>2. QED
  BY <1>1, ReaderInit, ReaderStep, PTL DEF Spec

---------------------------------------------------------------------------
(***************************************************************************)
(* What is on the pages, for rows with numbers in the column sorted by.    *)
(***************************************************************************)

\* Values a column can hold: a count is not negative and fits an int.
Fits(value, column) ==
  value \in IF column \in Counted THEN 0..MaxInt ELSE Int

\* A number within the range of an int is not wrapped.
LEMMA NotWrapped ==
  ASSUME NEW n \in (-MaxInt)..MaxInt
  PROVE  Wrapped(n) = n
<1> DEFINE size == 2 * (MaxInt + 1)
           m == n + MaxInt + 1
<1>1. MaxInt \in Nat
  BY ListingAssumption
<1>2. m \in 0..(size - 1) /\ size \in Nat /\ size > 0
  BY <1>1
<1>3. m % size = m
  <2> HIDE DEF m, size
  <2>1. \A x, y \in Nat : x < y => x % y = x
    OBVIOUS
  <2>2. QED
    BY <1>2, <2>1
<1>4. Wrapped(n) = m - (MaxInt + 1)
  BY <1>3 DEF Wrapped
<1>5. QED
  BY <1>1, <1>4

\* The functions of sort.cpp tell which of two values comes first.
LEMMA ComparisonTells ==
  ASSUME NEW by, NEW a, NEW b, Fits(a, by[1]), Fits(b, by[1])
  PROVE  /\ a \in Int /\ b \in Int /\ Comparison(a, b, by) \in Int
         /\ Comparison(a, b, by) < 0 <=> IF by[2] = "ascending" THEN a < b ELSE b < a
         /\ Comparison(a, b, by) = 0 <=> a = b
<1> DEFINE first == IF by[2] = "ascending" THEN a ELSE b
           second == IF by[2] = "ascending" THEN b ELSE a
<1>1. a \in Int /\ b \in Int /\ MaxInt \in Nat
  BY ListingAssumption DEF Fits
<1>2. CASE by[1] \in Counted
  <2>1. first \in 0..MaxInt /\ second \in 0..MaxInt
    BY <1>2 DEF Fits
  <2>2. first - second \in (-MaxInt)..MaxInt
    BY <1>1, <2>1
  <2>3. Comparison(a, b, by) = first - second
    <3>1. Comparison(a, b, by) = Wrapped(first - second)
      BY <1>2, Zenon DEF Comparison
    <3> HIDE DEF first, second
    <3>2. QED
      BY <2>2, <3>1, NotWrapped
  <2>4. QED
    BY <1>1, <2>3
<1>3. CASE by[1] \notin Counted
  <2>1. Comparison(a, b, by) = IF first < second THEN -1 ELSE IF first > second THEN 1 ELSE 0
    BY <1>3, Zenon DEF Comparison
  <2>2. QED
    BY <1>1, <2>1
<1>4. QED
  BY <1>2, <1>3

\* Items whose values fit the column are in a strict order, which is total if
\* their keys are different.
LEMMA EarlierOrders ==
  ASSUME NEW items, NEW by,
         \A a \in items : a.key \in Int /\ Fits(a.value, by[1]),
         \A a, b \in items : a.key = b.key => a = b
  PROVE  /\ \A a \in items : ~Earlier(a, a, by)
         /\ \A a, b \in items : a # b => Earlier(a, b, by) \/ Earlier(b, a, by)
         /\ \A a, b, c \in items :
              Earlier(a, b, by) /\ Earlier(b, c, by) => Earlier(a, c, by)
<1>1. \A a \in items : a.value \in Int
  BY ComparisonTells
<1>2. ASSUME NEW a \in items, NEW b \in items
      PROVE  Earlier(a, b, by) <=>
               \/ IF by[2] = "ascending" THEN a.value < b.value ELSE b.value < a.value
               \/ a.value = b.value /\ a.key < b.key
  BY ComparisonTells, Zenon DEF Earlier
<1>3. CASE by[2] = "ascending"
  <2>1. \A a, b \in items : Earlier(a, b, by) <=>
          a.value < b.value \/ (a.value = b.value /\ a.key < b.key)
    BY <1>2, <1>3
  <2>2. QED
    BY <1>1, <2>1
<1>4. CASE by[2] # "ascending"
  <2>1. \A a, b \in items : Earlier(a, b, by) <=>
          b.value < a.value \/ (a.value = b.value /\ a.key < b.key)
    BY <1>2, <1>4
  <2>2. QED
    BY <1>1, <2>1
<1>5. QED
  BY <1>3, <1>4

\* So the one that comes earlier has fewer others before it, every item has a
\* place, and every place its item.
LEMMA PlacesFilled ==
  ASSUME NEW items, IsFiniteSet(items), NEW by,
         \A a \in items : a.key \in Int /\ Fits(a.value, by[1]),
         \A a, b \in items : a.key = b.key => a = b,
         NEW place, place = [b \in items |->
                               1 + Cardinality({a \in items : Earlier(a, b, by)})]
  PROVE  /\ place \in Bijection(items, 1..Cardinality(items))
         /\ \A a, b \in items : place[a] < place[b] => Earlier(a, b, by)
<1> DEFINE Front(b) == {a \in items : Earlier(a, b, by)}
           n == Cardinality(items)
<1>1. n \in Nat
  BY FS_CardinalityType
<1>2. \A b \in items : IsFiniteSet(Front(b)) /\ Cardinality(Front(b)) \in Nat
  BY FS_Subset, FS_CardinalityType
<1>3. ASSUME NEW b \in items
      PROVE  place[b] \in 1..n
  <2>1. Front(b) \in SUBSET items /\ Front(b) # items
    BY EarlierOrders
  <2>2. Cardinality(Front(b)) <= n /\ Cardinality(Front(b)) # n
    BY <2>1, FS_Subset
  <2>3. place[b] = 1 + Cardinality(Front(b))
    OBVIOUS
  <2> HIDE DEF Front, n
  <2>4. QED
    BY <1>1, <1>2, <2>2, <2>3
<1>4. ASSUME NEW a \in items, NEW b \in items, Earlier(a, b, by)
      PROVE  place[a] < place[b]
  <2>1. Front(a) \in SUBSET Front(b)
    BY <1>4, EarlierOrders
  <2>2. a \in Front(b) /\ a \notin Front(a)
    BY <1>4, EarlierOrders
  <2>3. Cardinality(Front(a)) <= Cardinality(Front(b))
        /\ Cardinality(Front(a)) # Cardinality(Front(b))
    BY <1>2, <2>1, <2>2, FS_Subset
  <2>4. place[a] = 1 + Cardinality(Front(a)) /\ place[b] = 1 + Cardinality(Front(b))
    OBVIOUS
  <2> HIDE DEF Front
  <2>5. QED
    BY <1>2, <2>3, <2>4
<1>5. \A a, b \in items : a # b => Earlier(a, b, by) \/ Earlier(b, a, by)
  BY EarlierOrders
<1> HIDE DEF Front, n
<1>6. place \in [items -> 1..n]
  BY <1>3
<1>7. \A a \in items : place[a] \in Int
  BY <1>1, <1>3
<1>8. \A a, b \in items : place[a] = place[b] => a = b
  <2>1. ASSUME NEW a \in items, NEW b \in items, Earlier(a, b, by)
        PROVE  place[a] # place[b]
    <3>1. place[a] < place[b]
      BY <1>4, <2>1, Zenon
    <3>2. QED
      BY <1>7, <3>1
  <2>2. QED
    BY <1>5, <2>1, Zenon
<1>9. place \in Injection(items, 1..n)
  BY <1>6, <1>8 DEF Injection, IsInjective
<1>10. IsFiniteSet(1..n) /\ Cardinality(1..n) = n
  BY <1>1, FS_Interval
<1>11. place \in Surjection(items, 1..n)
  BY <1>9, <1>10, FS_Injection DEF n
<1>12. \A a, b \in items : place[a] < place[b] => Earlier(a, b, by)
  <2>1. ASSUME NEW a \in items, NEW b \in items, Earlier(b, a, by)
        PROVE  ~(place[a] < place[b])
    <3>1. place[b] < place[a]
      BY <1>4, <2>1, Zenon
    <3>2. QED
      BY <1>7, <3>1
  <2>2. \A a, b \in items : place[a] < place[b] => a # b
    BY <1>7
  <2>3. QED
    BY <1>5, <2>1, <2>2, Zenon
<1>13. QED
  BY <1>9, <1>11, <1>12 DEF Bijection, n

\* Sorting: a list holds every torrent it is made of once, and goes up or down
\* by the values of the column, and where they are the same, up by the keys.
\* The functions of sort.cpp do that because no difference of two counts
\* overflows; it takes counts that are not negative and fit an int, and a
\* stable qsort.
THEOREM OrderedSorts ==
  ASSUME NEW which \in SUBSET Hash, NEW rows, NEW by,
         \A h \in which : Fits(rows[h][by[1]], by[1])
  PROVE  LET list == Ordered(rows, which, by)
             value(h) == rows[h][by[1]]
         IN  /\ list \in Seq(which) /\ Len(list) = Cardinality(which)
             /\ Range(list) = which
             /\ \A i, j \in DOMAIN list :
                  i < j => /\ list[i] # list[j]
                           /\ IF by[2] = "ascending" THEN value(list[i]) <= value(list[j])
                              ELSE value(list[j]) <= value(list[i])
                           /\ value(list[i]) = value(list[j]) => list[i] < list[j]
<1> DEFINE item(h) == [key |-> h, value |-> rows[h][by[1]]]
           items == {item(h) : h \in which}
           n == Cardinality(items)
           Place(b) == 1 + Cardinality({a \in items : Earlier(a, b, by)})
           place == [b \in items |-> Place(b)]
           at(i) == CHOOSE a \in items : Place(a) = i
           list == Ordered(rows, which, by)
           keyed == [h \in which |-> item(h)]
<1>1. IsFiniteSet(which)
  BY FS_Subset, StatsFiniteAssumption
<1>2. keyed \in Bijection(which, items)
  <2>1. keyed \in [which -> items]
    OBVIOUS
  <2>2. \A h, k \in which : keyed[h] = keyed[k] => h = k
    <3> SUFFICES ASSUME NEW h \in which, NEW k \in which, keyed[h] = keyed[k]
                 PROVE  h = k
      OBVIOUS
    <3>1. keyed[h].key = h /\ keyed[k].key = k
      OBVIOUS
    <3>2. QED
      BY <3>1
  <2>3. \A a \in items : \E h \in which : keyed[h] = a
    OBVIOUS
  <2> HIDE DEF items, keyed
  <2>4. QED
    BY <2>1, <2>2, <2>3 DEF Bijection, Injection, Surjection, IsInjective
<1>3. IsFiniteSet(items) /\ n = Cardinality(which)
  <2> HIDE DEF items, keyed
  <2>1. ExistsBijection(which, items)
    BY <1>2 DEF ExistsBijection
  <2>2. QED
    BY <1>1, <2>1, FS_Bijection
<1>4. n \in Nat
  BY <1>3, FS_CardinalityType
<1>5. \A a \in items : /\ a.key \in Int /\ Fits(a.value, by[1])
                      /\ a.key \in which /\ a = item(a.key)
  BY ListingAssumption
<1>6. \A a, b \in items : a.key = b.key => a = b
  BY <1>5
<1>7. /\ place \in Bijection(items, 1..n)
      /\ \A a, b \in items : place[a] < place[b] => Earlier(a, b, by)
  <2> HIDE DEF items
  <2>1. QED
    BY <1>3, <1>5, <1>6, PlacesFilled
<1>8. list = [i \in 1..n |-> at(i).key]
  BY Zenon DEF Ordered
<1>9. ASSUME NEW i \in 1..n
      PROVE  at(i) \in items /\ place[at(i)] = i
  <2>1. \E a \in items : place[a] = i
    BY <1>7 DEF Bijection, Surjection
  <2> HIDE DEF items, n
  <2>2. \E a \in items : Place(a) = i
    BY <2>1
  <2> HIDE DEF Place
  <2>3. at(i) \in items /\ Place(at(i)) = i
    BY <2>2
  <2>4. QED
    BY <2>3
<1> HIDE DEF item, items, n, Place, place, at, list, keyed
<1>10. \A i \in 1..n : list[i] \in which /\ at(i) = item(list[i])
  BY <1>5, <1>8, <1>9
<1>11. DOMAIN list = 1..n
  BY <1>8
<1>12. list \in Seq(which) /\ Len(list) = n
  BY <1>4, <1>8, <1>10
<1>13. which \subseteq Range(list)
  <2> SUFFICES ASSUME NEW h \in which
               PROVE  \E i \in 1..n : list[i] = h
    BY <1>11 DEF Range
  <2>1. item(h) \in items /\ item(h).key = h
    BY DEF items, item
  <2>2. place[item(h)] \in 1..n
    BY <1>7, <2>1 DEF Bijection, Injection
  <2>3. at(place[item(h)]) \in items /\ place[at(place[item(h)])] = place[item(h)]
    BY <1>9, <2>2
  <2>4. at(place[item(h)]) = item(h)
    BY <1>7, <2>1, <2>3 DEF Bijection, Injection, IsInjective
  <2>5. list[place[item(h)]] = h
    BY <1>8, <2>1, <2>2, <2>4
  <2>6. QED
    BY <2>2, <2>5
<1>14. Range(list) = which
  BY <1>10, <1>11, <1>13 DEF Range
<1>15. ASSUME NEW i \in 1..n, NEW j \in 1..n, i < j
       PROVE  /\ list[i] # list[j]
              /\ IF by[2] = "ascending" THEN rows[list[i]][by[1]] <= rows[list[j]][by[1]]
                 ELSE rows[list[j]][by[1]] <= rows[list[i]][by[1]]
              /\ rows[list[i]][by[1]] = rows[list[j]][by[1]] => list[i] < list[j]
  <2>1. place[at(i)] = i /\ place[at(j)] = j /\ at(i) \in items /\ at(j) \in items
    BY <1>9
  <2>2. at(i) # at(j)
    BY <1>15, <2>1
  <2>3. Earlier(at(i), at(j), by)
    BY <1>7, <1>15, <2>1
  <2> DEFINE a == rows[list[i]][by[1]]
             b == rows[list[j]][by[1]]
  <2>4. /\ at(i).value = a /\ at(i).key = list[i]
        /\ at(j).value = b /\ at(j).key = list[j]
        /\ list[i] \in which /\ list[j] \in which
    BY <1>10 DEF item
  <2>5. Fits(a, by[1]) /\ Fits(b, by[1])
    BY <2>4
  <2> HIDE DEF a, b
  <2>6. Comparison(a, b, by) < 0 \/ (Comparison(a, b, by) = 0 /\ list[i] < list[j])
    BY <2>3, <2>4, Zenon DEF Earlier
  <2>7. /\ IF by[2] = "ascending" THEN a <= b ELSE b <= a
        /\ a = b => list[i] < list[j]
    BY <2>5, <2>6, ComparisonTells
  <2>8. QED
    BY <1>10, <2>2, <2>7 DEF a, b
<1>16. QED
  BY <1>3, <1>11, <1>12, <1>14, <1>15 DEF list, item

\* Paging: every torrent that is found is on one page of the index, and on one
\* only, while nothing changes (serverResponseIndex, which skips and counts the
\* rows anew for each page).
THEOREM EachOnOnePage ==
  ASSUME NEW rows, DOMAIN rows \subseteq Hash,
         NEW view, view.perPage \in Nat \ {0},
         \A h \in DOMAIN rows :
           Fits(rows[h][Effective(view.sort)[1]], Effective(view.sort)[1])
  PROVE  \A h \in Found(rows, view) : \E page \in Nat :
           /\ h \in Range(PageOf(Listed(rows, view), page, view.perPage))
           /\ \A other \in Nat :
                h \in Range(PageOf(Listed(rows, view), other, view.perPage)) => other = page
<1> DEFINE list == Listed(rows, view)
           which == Found(rows, view)
           by == Effective(view.sort)
           per == view.perPage
<1>1. which \in SUBSET Hash /\ \A h \in which : Fits(rows[h][by[1]], by[1])
  BY DEF Found
<1>2. list = Ordered(rows, which, by)
  BY DEF Listed
<1> HIDE DEF which, by
<1>3. /\ list \in Seq(which) /\ Range(list) = which
      /\ \A i, j \in DOMAIN list : i < j => list[i] # list[j]
  <2> DEFINE sorted == Ordered(rows, which, by)
  <2>1. /\ sorted \in Seq(which) /\ Range(sorted) = which
        /\ \A i, j \in DOMAIN sorted : i < j => sorted[i] # sorted[j]
    BY <1>1, OrderedSorts
  <2> HIDE DEF list, sorted
  <2>2. list = sorted
    BY <1>2 DEF sorted
  <2>3. QED
    BY <2>1, <2>2
<1> SUFFICES ASSUME NEW h \in which
             PROVE  \E page \in Nat :
                      /\ h \in Range(PageOf(list, page, per))
                      /\ \A other \in Nat : h \in Range(PageOf(list, other, per)) => other = page
  BY DEF which
<1> HIDE DEF list
<1>4. PICK i \in 1..Len(list) : list[i] = h
  BY <1>3 DEF Range
<1>5. Len(list) \in Nat /\ DOMAIN list = 1..Len(list) /\ list \in Seq(Range(list))
  BY <1>3
<1>6. \A j \in 1..Len(list) : list[j] = h => j = i
  BY <1>3, <1>4, <1>5
<1>7. per \in Nat /\ per > 0
  OBVIOUS
<1> HIDE DEF per
<1>8. \E page \in Nat : page * per < i /\ i <= (page + 1) * per
  <2> DEFINE before == i - 1
  <2>1. before \in Nat /\ i = before + 1
    BY <1>4, <1>5
  <2> HIDE DEF before
  <2>2. \E q \in Nat, r \in 0..(per - 1) :
          before = q * per + r /\ q = before \div per /\ r = before % per
    BY <1>7, <2>1, Z3
  <2>3. PICK q \in Nat, r \in 0..(per - 1) : before = q * per + r
    BY <2>2, Zenon
  <2>4. \A x, y \in Nat : (x + 1) * y = x * y + y /\ x * y \in Nat
    OBVIOUS
  <2>5. q * per \in Nat /\ (q + 1) * per = q * per + per
    BY <1>7, <2>4
  <2>6. q * per < i /\ i <= q * per + per
    BY <1>7, <2>1, <2>3, <2>5
  <2>7. QED
    BY <2>5, <2>6
<1>9. PICK page \in Nat : page * per < i /\ i <= (page + 1) * per
  BY <1>8
<1>10. h \in Range(PageOf(list, page, per))
  BY <1>4, <1>5, <1>7, <1>9, PageShows
<1>11. ASSUME NEW other \in Nat, h \in Range(PageOf(list, other, per))
       PROVE  other = page
  <2>1. other * per < i /\ i <= (other + 1) * per
    <3>1. \A x \in Range(PageOf(list, other, per)) : \E j \in 1..Len(list) :
            list[j] = x /\ other * per < j /\ j <= (other + 1) * per
      BY <1>5, <1>7, PageShows
    <3>2. \E j \in 1..Len(list) : list[j] = h /\ other * per < j /\ j <= (other + 1) * per
      BY <1>11, <3>1
    <3>3. QED
      BY <1>6, <3>2
  <2>2. ~(other + 1 <= page)
    <3> SUFFICES ASSUME other + 1 <= page PROVE FALSE
      OBVIOUS
    <3>1. (other + 1) * per \in Nat /\ page * per \in Nat /\ (other + 1) * per <= page * per
      BY <1>7, LaterPage
    <3>2. QED
      BY <1>4, <1>5, <1>9, <2>1, <3>1
  <2>3. ~(page + 1 <= other)
    <3> SUFFICES ASSUME page + 1 <= other PROVE FALSE
      OBVIOUS
    <3>1. (page + 1) * per \in Nat /\ other * per \in Nat /\ (page + 1) * per <= other * per
      BY <1>7, LaterPage
    <3>2. QED
      BY <1>4, <1>5, <1>9, <2>1, <3>1
  <2>4. QED
    BY <2>2, <2>3
<1>12. QED
  BY <1>10, <1>11

\* The feed of a tag holds as many torrents as there are whose tag reads like it
\* once its markup is escaped, up to the limit, and none of these that is left
\* out is newer than one that is not (saveRSS).  The feed of a tag like which no
\* tag reads when its markup is escaped, as of one with markup in it, is empty.
THEOREM FeedIsNewest ==
  ASSUME NEW rows, DOMAIN rows \subseteq Hash,
         \A h \in DOMAIN rows : rows[h].added \in Int, NEW tag
  PROVE  LET tagged == {h \in DOMAIN rows : tag \in {AnyTag, RemoveHTML[rows[h].tag]}}
             shown == Range(Feed(rows, tag))
         IN  /\ shown \subseteq tagged
             /\ Len(Feed(rows, tag)) =
                  IF FeedLimit = 0 \/ FeedLimit > Cardinality(tagged) THEN Cardinality(tagged)
                  ELSE FeedLimit
             /\ \A h \in shown, other \in tagged \ shown : rows[other].added <= rows[h].added
             /\ tag # AnyTag /\ (\A h \in DOMAIN rows : RemoveHTML[rows[h].tag] # tag)
                  => Feed(rows, tag) = <<>>
<1> DEFINE tagged == {h \in DOMAIN rows : tag \in {AnyTag, RemoveHTML[rows[h].tag]}}
           list == Ordered(rows, tagged, Newest)
           feed == Feed(rows, tag)
<1>1. Newest[1] = "added" /\ Newest[2] = "descending"
  BY DEF Newest
<1>2. tagged \in SUBSET Hash /\ \A h \in tagged : Fits(rows[h][Newest[1]], Newest[1])
  BY <1>1 DEF Fits, Counted
<1>3. feed = IF FeedLimit = 0 \/ FeedLimit > Len(list) THEN list ELSE SubSeq(list, 1, FeedLimit)
  BY Zenon DEF Feed
<1>4. \A h \in tagged : rows[h].added \in Int
  OBVIOUS
<1> HIDE DEF tagged
<1>5. /\ list \in Seq(tagged) /\ Len(list) = Cardinality(tagged) /\ Range(list) = tagged
      /\ \A i, j \in DOMAIN list : i < j => rows[list[j]].added <= rows[list[i]].added
  BY <1>1, <1>2, OrderedSorts
<1> HIDE DEF list
<1>6. Len(list) \in Nat /\ DOMAIN list = 1..Len(list) /\ FeedLimit \in Nat
  BY <1>5, ListingAssumption
<1>7. ASSUME NEW i \in 1..Len(list), NEW j \in 1..Len(list), i < j
      PROVE  rows[list[j]].added <= rows[list[i]].added
  BY <1>5, <1>6, <1>7
<1>8. CASE FeedLimit = 0 \/ FeedLimit > Len(list)
  <2>1. feed = list
    BY <1>3, <1>8
  <2>2. QED
    BY <1>5, <1>8, <2>1 DEF tagged
<1>9. CASE ~(FeedLimit = 0 \/ FeedLimit > Len(list))
  <2>1. feed = [i \in 1..FeedLimit |-> list[i]]
    BY <1>3, <1>5, <1>6, <1>9
  <2>2. Len(feed) = FeedLimit
    BY <1>6, <2>1
  <2>3. Range(feed) = {list[i] : i \in 1..FeedLimit}
    BY <2>1 DEF Range
  <2>4. \A i \in 1..FeedLimit : i \in 1..Len(list) /\ list[i] \in tagged
    BY <1>5, <1>6, <1>9
  <2>5. ASSUME NEW h \in Range(feed), NEW other \in tagged \ Range(feed)
        PROVE  rows[other].added <= rows[h].added
    <3>1. PICK i \in 1..FeedLimit : h = list[i]
      BY <2>3
    <3>2. PICK j \in 1..Len(list) : other = list[j]
      BY <1>5, <1>6 DEF Range
    <3>3. ~(j <= FeedLimit)
      BY <2>3, <2>5, <3>2
    <3>4. i < j /\ i \in 1..Len(list)
      BY <1>6, <2>4, <3>1, <3>2, <3>3
    <3>5. QED
      BY <1>7, <3>1, <3>2, <3>4
  <2>6. Range(feed) \subseteq tagged
    BY <2>3, <2>4
  <2>7. QED
    BY <1>5, <1>9, <2>2, <2>5, <2>6 DEF tagged
<1>10. QED
  BY <1>8, <1>9
=============================================================================
