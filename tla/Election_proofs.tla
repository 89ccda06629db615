--------------------------- MODULE Election_proofs ---------------------------
(***************************************************************************)
(* Election, for any group, any number of crashes and any timeouts of      *)
(* which the heartbeats' is the shortest: no process dies but by a crash,  *)
(* and nobody suspects the sequencer it follows while that one lives.      *)
(*                                                                         *)
(* NoFalseSuspicion is not inductive: a member also has to be in the       *)
(* socketList along which its sequencer sends the heartbeats (Followed),   *)
(* hence in that of every sequencer whose LEADERS it may still receive     *)
(* (Announced), and the next heartbeat has to be due before its silence is *)
(* over (Reassured).                                                       *)
(***************************************************************************)
EXTENDS Election, FiniteSetTheorems, TLAPS

(* What the constants are. *)
LEMMA Constants ==
  /\ Procs \subseteq Int /\ Founder \in Procs
  /\ Silence \in Nat /\ Patience \in Nat /\ Pause \in Nat /\ Period \in Nat
  /\ Silence > 0 /\ Patience > 0 /\ Period < Silence /\ Period < Patience
  /\ MaxCrashes \in Nat
  BY ElectionAssumption, HeartbeatsInTime

LEMMA InitIInv == Init => IInv
  <1>1. SUFFICES ASSUME Init PROVE IInv
      OBVIOUS
  <1>2. Procs \ alive = {} /\ IsFiniteSet({}) /\ Cardinality({}) = 0
      BY <1>1, FS_EmptySet DEF Init
  <1>3. TypeOK
      BY <1>1, <1>2, Constants DEF Init, TypeOK
  <1>4. Followed /\ Announced /\ Reassured
      BY <1>1, Constants DEF Init, Followed, Announced, Reassured, Told, InTime
  <1>. QED  BY <1>1, <1>2, <1>3, <1>4, Constants DEF Init, IInv

(* The datagrams of one process to several. *)
LEMMA ToAllTypes ==
  ASSUME NEW p \in Procs, NEW S \in SUBSET Procs, NEW t \in Types
  PROVE  /\ ToAll(p, S, t) \subseteq Datagrams
         /\ \A d \in ToAll(p, S, t) : d.to \in S /\ d.src = p /\ d.type = t
         /\ \A q \in S : [to |-> q, src |-> p, type |-> t] \in ToAll(p, S, t)
  BY DEF ToAll, Datagrams

-----------------------------------------------------------------------------
LEMMA HeartbeatSendIInv ==
  ASSUME IInv, NEW p \in Procs, HeartbeatSend(p)
  PROVE  IInv'
  <1>1. /\ UNCHANGED <<alive, checkLeader, ld, socketList, chatMembers, highestIpPort,
                       retry, rcvTimeout, timer, asleep, takeover>>
        /\ net' = net \cup ToAll(p, socketList[p], "ALIVE")
        /\ burst' = [burst EXCEPT ![p] = Period]
      BY DEF HeartbeatSend, views
  <1>2. TypeOK /\ IsFiniteSet(Procs \ alive) /\ (\A q \in Procs : burst[q] <= Period)
        /\ Followed /\ Announced /\ Reassured
      BY DEF IInv
  <1>3. socketList[p] \in SUBSET Procs /\ "ALIVE" \in Types
      BY <1>2 DEF TypeOK, Types
  <1>4. /\ ToAll(p, socketList[p], "ALIVE") \subseteq Datagrams
        /\ \A d \in ToAll(p, socketList[p], "ALIVE") : d.type = "ALIVE"
        /\ \A q \in socketList[p] :
             [to |-> q, src |-> p, type |-> "ALIVE"] \in ToAll(p, socketList[p], "ALIVE")
      BY <1>3, ToAllTypes
  <1>5. TypeOK'
      BY <1>1, <1>2, <1>4, Constants DEF TypeOK
  <1>6. \A q \in Procs : burst'[q] <= Period
      BY <1>1, <1>2, Constants DEF TypeOK
  <1>7. Followed'
      BY <1>1, <1>2 DEF Followed, Told
  <1>8. Announced'
      BY <1>1, <1>2, <1>4 DEF Announced, Told
  <1>9. ASSUME NEW q \in alive', ld'[q] \in alive', ld'[q] # q
        PROVE  /\ ~asleep'[q]
               /\ InTime(q, ld[q])'
    <2>1. q \in Procs /\ ld[q] \in Procs /\ q \in socketList[ld[q]]
        BY <1>1, <1>2, <1>9 DEF TypeOK, Followed
    <2>2. /\ ~asleep[q]
          /\ InTime(q, ld[q])
        BY <1>1, <1>2, <1>9 DEF Reassured
    <2>3. CASE ld[q] = p
        BY <1>1, <1>4, <2>1, <2>2, <2>3 DEF InTime
    <2>4. CASE ld[q] # p
        BY <1>1, <1>2, <2>1, <2>2, <2>4 DEF TypeOK, InTime
    <2>. QED  BY <2>3, <2>4
  <1>10. Reassured'
      BY <1>9 DEF Reassured
  <1>. QED  BY <1>1, <1>2, <1>5, <1>6, <1>7, <1>8, <1>10 DEF IInv

(* Whoever receives waits from then on for longer than a pause between     *)
(* bursts.                                                                 *)
LEMMA Restarted ==
  ASSUME TypeOK, NEW p \in Procs
  PROVE  rcvTimeout[p] \in Nat /\ rcvTimeout[p] > Period
  BY Constants DEF TypeOK

LEMMA ReceiveQuietlyIInv ==
  ASSUME IInv, NEW p \in Procs, NEW d \in net, ReceiveQuietly(p, d)
  PROVE  IInv'
  <1>1. /\ UNCHANGED <<alive, checkLeader, ld, socketList, chatMembers, highestIpPort,
                       retry, rcvTimeout, asleep, takeover, burst>>
        /\ net' = net \ {d} /\ d.to = p /\ ~asleep[p]
        /\ timer' = [timer EXCEPT ![p] = rcvTimeout[p]]
      BY DEF ReceiveQuietly, views, Take
  <1>2. TypeOK /\ IsFiniteSet(Procs \ alive) /\ (\A q \in Procs : burst[q] <= Period)
        /\ Followed /\ Announced /\ Reassured
      BY DEF IInv
  <1>3. TypeOK'
      BY <1>1, <1>2, Constants DEF TypeOK
  <1>4. Followed'
      BY <1>1, <1>2 DEF Followed, Told
  <1>5. Announced'
      BY <1>1, <1>2 DEF Announced, Told
  <1>6. ASSUME NEW q \in alive', ld'[q] \in alive', ld'[q] # q
        PROVE  /\ ~asleep'[q]
               /\ InTime(q, ld[q])'
    <2>1. q \in Procs /\ ld[q] \in Procs
        BY <1>1, <1>2, <1>6 DEF TypeOK
    <2>2. /\ ~asleep[q]
          /\ InTime(q, ld[q])
        BY <1>1, <1>2, <1>6 DEF Reassured
    <2>3. CASE q = p
      <3>1. timer'[q] = rcvTimeout[p]
          BY <1>1, <1>2, <2>3 DEF TypeOK
      <3>. QED  BY <1>1, <1>2, <2>1, <2>2, <2>3, <3>1, Restarted DEF InTime
    <2>4. CASE q # p
      <3>1. timer'[q] = timer[q]
          BY <1>1, <1>2, <2>1, <2>4 DEF TypeOK
      <3>2. [to |-> q, src |-> ld[q], type |-> "ALIVE"] # d
          BY <1>1, <2>4
      <3>. QED  BY <1>1, <2>1, <2>2, <3>1, <3>2 DEF InTime
    <2>. QED  BY <2>3, <2>4
  <1>7. Reassured'
      BY <1>6 DEF Reassured
  <1>. QED  BY <1>1, <1>2, <1>3, <1>4, <1>5, <1>7 DEF IInv

(* An OK makes patience longer, which is no harm. *)
LEMMA ReceiveOkIInv ==
  ASSUME IInv, NEW p \in Procs, NEW d \in net, ReceiveOk(p, d)
  PROVE  IInv'
  <1>1. /\ UNCHANGED <<alive, checkLeader, ld, socketList, chatMembers, highestIpPort,
                       retry, asleep, takeover, burst>>
        /\ net' = net \ {d} /\ d.to = p
        /\ rcvTimeout' = [rcvTimeout EXCEPT ![p] = Patience]
        /\ timer' = [timer EXCEPT ![p] = Patience]
      BY DEF ReceiveOk, views, Take
  <1>2. TypeOK /\ IsFiniteSet(Procs \ alive) /\ (\A q \in Procs : burst[q] <= Period)
        /\ Followed /\ Announced /\ Reassured
      BY DEF IInv
  <1>3. TypeOK'
      BY <1>1, <1>2, Constants DEF TypeOK
  <1>4. Followed'
      BY <1>1, <1>2 DEF Followed, Told
  <1>5. Announced'
      BY <1>1, <1>2 DEF Announced, Told
  <1>6. ASSUME NEW q \in alive', ld'[q] \in alive', ld'[q] # q
        PROVE  /\ ~asleep'[q]
               /\ InTime(q, ld[q])'
    <2>1. q \in Procs /\ ld[q] \in Procs /\ burst[ld[q]] \in Nat /\ burst[ld[q]] <= Period
        BY <1>1, <1>2, <1>6 DEF TypeOK
    <2>2. /\ ~asleep[q]
          /\ InTime(q, ld[q])
        BY <1>1, <1>2, <1>6 DEF Reassured
    <2>3. CASE q = p
      <3>1. timer'[q] = Patience
          BY <1>1, <1>2, <2>3 DEF TypeOK
      <3>. QED  BY <1>1, <2>1, <2>2, <3>1, Constants DEF InTime
    <2>4. CASE q # p
      <3>1. timer'[q] = timer[q]
          BY <1>1, <1>2, <2>1, <2>4 DEF TypeOK
      <3>2. [to |-> q, src |-> ld[q], type |-> "ALIVE"] # d
          BY <1>1, <2>4
      <3>. QED  BY <1>1, <2>1, <2>2, <3>1, <3>2 DEF InTime
    <2>. QED  BY <2>3, <2>4
  <1>7. Reassured'
      BY <1>6 DEF Reassured
  <1>. QED  BY <1>1, <1>2, <1>3, <1>4, <1>5, <1>7 DEF IInv

(* The sender of a LEADERS is in the receiver's table, so that the process *)
(* goes on, and lists the receiver, so that its heartbeats come.           *)
LEMMA ReceiveLeadersIInv ==
  ASSUME IInv, NEW p \in Procs, NEW d \in net, ReceiveLeaders(p, d)
  PROVE  IInv'
  <1>2. TypeOK /\ IsFiniteSet(Procs \ alive) /\ (\A q \in Procs : burst[q] <= Period)
        /\ Followed /\ Announced /\ Reassured
      BY DEF IInv
  <1>d. d.src \in Procs /\ d.to = p /\ ~checkLeader[p] /\ d.type = "LEADERS" /\ ~asleep[p]
        /\ takeover[p] = "none"
      BY <1>2 DEF ReceiveLeaders, Take, TypeOK, Datagrams
  <1>k. /\ Told(d.src) /\ p \in socketList[d.src] /\ d.src # p
        /\ d.src \in chatMembers[p] /\ ld[p] # d.src
      BY <1>2, <1>d DEF Announced, Told
  <1>1. /\ UNCHANGED <<alive, checkLeader, socketList, chatMembers, highestIpPort,
                       asleep, takeover, burst>>
        /\ net' = net \ {d}
        /\ ld' = [ld EXCEPT ![p] = d.src]
        /\ retry' = [retry EXCEPT ![p] = 0]
        /\ rcvTimeout' = [rcvTimeout EXCEPT ![p] = Silence]
        /\ timer' = [timer EXCEPT ![p] = Silence]
      BY <1>k DEF ReceiveLeaders, views
  <1>l. \A q \in Procs : ld'[q] = IF q = p THEN d.src ELSE ld[q]
      BY <1>1, <1>2 DEF TypeOK
  <1>3. TypeOK'
      BY <1>1, <1>2, <1>d, Constants DEF TypeOK
  <1>4. Followed'
      BY <1>1, <1>2, <1>d, <1>k, <1>l DEF Followed, Told
  <1>5. ASSUME NEW e \in net', e.type = "LEADERS"
        PROVE  /\ Told(e.src)' /\ e.to \in socketList'[e.src]
               /\ e.src # e.to => e.src \in chatMembers'[e.to] /\ ld'[e.to] # e.src
    <2>1. e \in net /\ e # d /\ e.to \in Procs /\ e.src \in Procs
          /\ e = [to |-> e.to, src |-> e.src, type |-> e.type]
          /\ d = [to |-> d.to, src |-> d.src, type |-> d.type]
        BY <1>1, <1>2, <1>5 DEF TypeOK, Datagrams
    <2>2. e.to = p => e.src # d.src
        BY <1>5, <1>d, <2>1
    <2>. QED  BY <1>1, <1>2, <1>5, <1>l, <2>1, <2>2 DEF Announced, Told
  <1>6. ASSUME NEW q \in alive', ld'[q] \in alive', ld'[q] # q
        PROVE  /\ ~asleep'[q]
               /\ InTime(q, ld[q])'
    <2>1. q \in Procs /\ q \in alive
        BY <1>1, <1>2, <1>6 DEF TypeOK
    <2>3. CASE q = p
      <3>1. timer'[q] = Silence /\ burst[d.src] \in Nat /\ burst[d.src] <= Period
          BY <1>1, <1>2, <1>d, <2>3 DEF TypeOK
      <3>. QED  BY <1>1, <1>d, <1>l, <2>1, <2>3, <3>1, Constants DEF InTime
    <2>4. CASE q # p
      <3>1. timer'[q] = timer[q] /\ ld'[q] = ld[q]
          BY <1>1, <1>2, <1>l, <2>1, <2>4 DEF TypeOK
      <3>2. [to |-> q, src |-> ld[q], type |-> "ALIVE"] # d
          BY <1>d, <2>4
      <3>3. /\ ~asleep[q]
            /\ InTime(q, ld[q])
          BY <1>1, <1>2, <1>6, <2>1, <3>1 DEF Reassured
      <3>. QED  BY <1>1, <2>1, <3>1, <3>2, <3>3 DEF InTime
    <2>. QED  BY <2>3, <2>4
  <1>7. Reassured'
      BY <1>6 DEF Reassured
  <1>8. Announced'
      BY <1>5 DEF Announced
  <1>. QED  BY <1>1, <1>2, <1>3, <1>4, <1>7, <1>8 DEF IInv

(* A member whose silence is over follows nobody who is alive; a sequencer *)
(* does not go to sleep.                                                   *)
LEMMA SilenceDetectedIInv ==
  ASSUME IInv, NEW p \in Procs, SilenceDetected(p)
  PROVE  IInv'
  <1>1. /\ UNCHANGED <<alive, checkLeader, ld, socketList, chatMembers, highestIpPort,
                       retry, rcvTimeout, takeover, burst, net>>
        /\ p \in alive /\ timer[p] = 0 /\ (\A d \in net : d.to # p) /\ takeover[p] = "none"
        /\ asleep' = [asleep EXCEPT ![p] = ~checkLeader[p]]
        /\ timer' = [timer EXCEPT ![p] = IF checkLeader[p] THEN rcvTimeout[p] ELSE Pause]
      BY DEF SilenceDetected, views
  <1>2. TypeOK /\ IsFiniteSet(Procs \ alive) /\ (\A q \in Procs : burst[q] <= Period)
        /\ Followed /\ Announced /\ Reassured
      BY DEF IInv
  <1>3. TypeOK'
    <2>1. rcvTimeout[p] \in Nat /\ Pause \in Nat /\ checkLeader[p] \in BOOLEAN
        BY <1>2, Constants DEF TypeOK
    <2>2. timer' \in [Procs -> Nat]
        BY <1>1, <1>2, <2>1 DEF TypeOK
    <2>3. asleep' \in [Procs -> BOOLEAN]
        BY <1>1, <1>2, <2>1 DEF TypeOK
    <2>. QED  BY <1>1, <1>2, <2>2, <2>3 DEF TypeOK
  <1>a. \A q \in Procs : asleep'[q] = IF q = p THEN ~checkLeader[p] ELSE asleep[q]
      BY <1>1, <1>2 DEF TypeOK
  <1>b. \A q \in Procs : checkLeader[q] \/ takeover[q] # "none" => ~asleep'[q]
    <2>1. ASSUME NEW q \in Procs, checkLeader[q] \/ takeover[q] # "none" PROVE ~asleep'[q]
      <3>1. ~asleep[q]
          BY <1>2, <2>1 DEF Followed
      <3>2. CASE q = p
          BY <1>1, <1>a, <2>1, <3>2
      <3>3. CASE q # p
          BY <1>a, <3>1, <3>3
      <3>. QED  BY <3>2, <3>3
    <2>. QED  BY <2>1
  <1>4. Followed'
      BY <1>1, <1>2, <1>b DEF Followed, Told
  <1>5. Announced'
      BY <1>1, <1>2 DEF Announced, Told
  <1>6. ASSUME NEW q \in alive', ld'[q] \in alive', ld'[q] # q
        PROVE  /\ ~asleep'[q]
               /\ InTime(q, ld[q])'
    <2>1. q \in Procs /\ ld[q] \in Procs /\ burst[ld[q]] \in Nat
        BY <1>1, <1>2, <1>6 DEF TypeOK
    <2>2. /\ ~asleep[q]
          /\ InTime(q, ld[q])
        BY <1>1, <1>2, <1>6 DEF Reassured
    <2>3. q # p
        BY <1>1, <2>1, <2>2, Constants DEF InTime
    <2>. QED  BY <1>1, <1>2, <1>a, <2>1, <2>2, <2>3 DEF TypeOK, InTime
  <1>7. Reassured'
      BY <1>6 DEF Reassured
  <1>. QED  BY <1>1, <1>2, <1>3, <1>4, <1>5, <1>7 DEF IInv

(***************************************************************************)
(* The steps that make a sequencer: nobody followed it before, and it is   *)
(* in all tables.                                                          *)
(***************************************************************************)
LEMMA NobodyFollowsMembers ==
  ASSUME TypeOK, Followed, Announced, NEW p \in Procs, ~Told(p)
  PROVE  /\ \A q \in Procs : ld[q] # p
         /\ \A d \in net : d.type = "LEADERS" => d.src # p
         /\ \A q \in Procs : p \in chatMembers[q]
         /\ ld[p] # p
  <1>1. ASSUME NEW q \in Procs PROVE ld[q] # p /\ p \in chatMembers[q]
      BY DEF Followed
  <1>2. ASSUME NEW d \in net, d.type = "LEADERS" PROVE d.src # p
      BY <1>2 DEF Announced
  <1>. QED  BY <1>1, <1>2

LEMMA ReceiveElectionIInv ==
  ASSUME IInv, NEW p \in Procs, NEW d \in net, ReceiveElection(p, d)
  PROVE  IInv'
  <1> DEFINE ok == [to |-> d.src, src |-> p, type |-> "OK"]
             left == socketList[p] \ {ld[p]}
  <1>1. /\ UNCHANGED <<alive, checkLeader, ld, highestIpPort, retry, rcvTimeout, asleep, burst>>
        /\ d.to = p /\ d.type = "ELECTION" /\ ~checkLeader[p] /\ ~asleep[p]
        /\ takeover[p] = "none"
        /\ timer' = [timer EXCEPT ![p] = rcvTimeout[p]]
        /\ net' = (net \ {d}) \cup {ok}
      BY DEF ReceiveElection, Take
  <1>2. TypeOK /\ IsFiniteSet(Procs \ alive) /\ (\A q \in Procs : burst[q] <= Period)
        /\ Followed /\ Announced /\ Reassured
      BY DEF IInv
  <1>o. ok \in Datagrams /\ ok.type = "OK"
      BY <1>2 DEF TypeOK, Datagrams, Types
  <1>t. timer' \in [Procs -> Nat] /\ \A q \in Procs : q # p => timer'[q] = timer[q]
      BY <1>1, <1>2, Constants DEF TypeOK
  <1>p. timer'[p] = rcvTimeout[p]
      BY <1>1, <1>2 DEF TypeOK
  <1>f. (\A q \in Procs : ld[q] # p) /\ ld[p] \in Procs
      BY <1>1, <1>2, NobodyFollowsMembers DEF Told, TypeOK
  <1>c. /\ takeover' \in [Procs -> {"none", "leaders", "elected"}]
        /\ \A q \in Procs : takeover'[q] = takeover[q] \/ (q = p /\ takeover'[q] = "leaders")
        /\ socketList' \in [Procs -> SUBSET Procs] /\ chatMembers' \in [Procs -> SUBSET Procs]
        /\ \A q \in Procs : q # p => socketList'[q] = socketList[q]
        /\ \A q \in Procs : chatMembers[q] \ {ld[q]} \subseteq chatMembers'[q]
    <2>1. CASE TakesOver(p)
        BY <1>2, <2>1 DEF ReceiveElection, TypeOK
    <2>2. CASE ~TakesOver(p)
        BY <1>2, <2>2 DEF ReceiveElection, TypeOK, views
    <2>. QED  BY <2>1, <2>2
  <1>u. \A q \in Procs : Told(q)' <=> Told(q)
      BY <1>1, <1>c DEF Told
  <1>3. TypeOK'
      BY <1>1, <1>2, <1>o, <1>t, <1>c DEF TypeOK
  <1>4. Followed'
    <2>1. ASSUME NEW q \in Procs, ~Told(q)', NEW r \in Procs PROVE q \in chatMembers'[r]
      <3>1. q \in chatMembers[r] /\ ld[r] # q
          BY <1>2, <1>u, <2>1, NobodyFollowsMembers
      <3>. QED  BY <1>c, <3>1
    <2>2. ASSUME NEW q \in Procs
          PROVE  /\ Told(ld[q])'
                 /\ checkLeader'[q] => ld'[q] = q
                 /\ checkLeader'[q] \/ takeover'[q] # "none" => ~asleep'[q]
                 /\ checkLeader'[q] => takeover'[q] = "none"
                 /\ ld'[q] # q => q \in socketList'[ld'[q]]
      <3>1. ld[q] \in Procs /\ ld[q] # p /\ Told(ld[q])
          BY <1>2, <1>f DEF Followed, TypeOK
      <3>2. Told(ld[q])'
        <4>1. checkLeader[ld[q]] \/ takeover[ld[q]] = "elected"
            BY <3>1 DEF Told
        <4>2. checkLeader'[ld[q]] = checkLeader[ld[q]] /\ takeover'[ld[q]] = takeover[ld[q]]
            BY <1>1, <1>c, <3>1
        <4>. QED  BY <1>1, <4>1, <4>2 DEF Told
      <3>3. /\ checkLeader[q] => ld[q] = q
            /\ checkLeader[q] \/ takeover[q] # "none" => ~asleep[q]
            /\ checkLeader[q] => takeover[q] = "none"
            /\ ld[q] # q => q \in socketList[ld[q]]
          BY <1>2 DEF Followed
      <3>. QED  BY <1>1, <1>c, <3>1, <3>2, <3>3
    <2>. QED  BY <2>1, <2>2 DEF Followed
  <1>5. Announced'
    <2>1. ASSUME NEW e \in net', e.type = "LEADERS"
          PROVE  /\ Told(e.src)' /\ e.to \in socketList'[e.src]
                 /\ e.src # e.to => e.src \in chatMembers'[e.to] /\ ld'[e.to] # e.src
      <3>1. e \in net /\ e.to \in Procs /\ e.src \in Procs
          BY <1>1, <1>2, <1>o, <2>1 DEF TypeOK, Datagrams
      <3>2. /\ Told(e.src) /\ e.to \in socketList[e.src]
            /\ e.src # e.to => e.src \in chatMembers[e.to] /\ ld[e.to] # e.src
          BY <1>2, <2>1, <3>1 DEF Announced
      <3>3. e.src # p
          BY <1>1, <3>2 DEF Told
      <3>. QED  BY <1>1, <1>c, <1>u, <3>1, <3>2, <3>3
    <2>. QED  BY <2>1 DEF Announced
  (* Who follows somebody and received something else loses nothing. *)
  <1>6. ASSUME NEW q \in alive', ld'[q] \in alive', ld'[q] # q
        PROVE  /\ ~asleep'[q]
               /\ InTime(q, ld[q])'
    <2>1. q \in Procs /\ ld[q] \in Procs /\ q \in alive
        BY <1>1, <1>2, <1>6 DEF TypeOK
    <2>2. /\ ~asleep[q]
          /\ InTime(q, ld[q])
        BY <1>1, <1>2, <1>6 DEF Reassured
    <2>3. [to |-> q, src |-> ld[q], type |-> "ALIVE"] # d
        BY <1>1
    <2>4. CASE q = p
        BY <1>1, <1>2, <1>p, <2>1, <2>2, <2>4, Restarted DEF InTime
    <2>5. CASE q # p
        BY <1>1, <1>t, <2>1, <2>2, <2>3, <2>5 DEF InTime
    <2>. QED  BY <2>4, <2>5
  <1>7. Reassured'
      BY <1>6 DEF Reassured
  <1>. QED  BY <1>1, <1>2, <1>3, <1>4, <1>5, <1>7 DEF IInv

(* Whoever is to hear of the new sequencer has it in its table and does    *)
(* not follow it yet.                                                      *)
LEMMA ToldOf ==
  ASSUME TypeOK, Followed, Announced, NEW p \in Procs, takeover[p] = "leaders",
         NEW S \in SUBSET socketList[p],
         net' = net \cup ToAll(p, S, "LEADERS"),
         takeover' = [takeover EXCEPT ![p] = "elected"],
         UNCHANGED <<checkLeader, ld, socketList, chatMembers, asleep>>
  PROVE  /\ net' \subseteq Datagrams
         /\ \A e \in net' : e \in net \/ e.type = "LEADERS"
         /\ takeover' \in [Procs -> {"none", "leaders", "elected"}]
         /\ Followed' /\ Announced'
  <1>1. S \in SUBSET Procs /\ "LEADERS" \in Types
      BY DEF TypeOK, Types
  <1>2. /\ ToAll(p, S, "LEADERS") \subseteq Datagrams
        /\ \A e \in ToAll(p, S, "LEADERS") : e.to \in S /\ e.src = p /\ e.type = "LEADERS"
      BY <1>1, ToAllTypes
  <1>3. \A q \in Procs : takeover'[q] = IF q = p THEN "elected" ELSE takeover[q]
      BY DEF TypeOK
  <1>4. ~checkLeader[p] /\ ~Told(p)
      BY DEF Followed, Told
  <1>5. \A q \in Procs : ld[q] # p /\ p \in chatMembers[q]
      BY <1>4, NobodyFollowsMembers
  <1>6. \A q \in Procs : Told(q) => Told(q)'
      BY <1>3 DEF Told
  <1>7. net' \subseteq Datagrams /\ \A e \in net' : e \in net \/ e.type = "LEADERS"
      BY <1>2 DEF TypeOK
  <1>8. takeover' \in [Procs -> {"none", "leaders", "elected"}]
      BY DEF TypeOK
  <1>9. Followed'
    <2>1. ASSUME NEW q \in Procs
          PROVE  /\ Told(ld[q])'
                 /\ checkLeader'[q] => ld'[q] = q
                 /\ checkLeader'[q] \/ takeover'[q] # "none" => ~asleep'[q]
                 /\ checkLeader'[q] => takeover'[q] = "none"
                 /\ ~Told(q)' => \A r \in Procs : q \in chatMembers'[r]
                 /\ ld'[q] # q => q \in socketList'[ld'[q]]
      <3>1. ld[q] \in Procs /\ Told(ld[q]) /\ Told(ld[q])'
        <4>1. ld[q] \in Procs /\ Told(ld[q])
            BY DEF Followed, TypeOK
        <4>2. checkLeader[ld[q]] \/ takeover[ld[q]] = "elected"
            BY <4>1 DEF Told
        <4>3. checkLeader'[ld'[q]] \/ takeover'[ld'[q]] = "elected"
            BY <1>3, <4>1, <4>2
        <4>. QED  BY <4>1, <4>3 DEF Told
      <3>2. /\ checkLeader[q] => ld[q] = q
            /\ checkLeader[q] \/ takeover[q] # "none" => ~asleep[q]
            /\ checkLeader[q] => takeover[q] = "none"
            /\ ~Told(q) => \A r \in Procs : q \in chatMembers[r]
            /\ ld[q] # q => q \in socketList[ld[q]]
          BY DEF Followed
      <3>. QED  BY <1>3, <1>4, <1>6, <3>1, <3>2
    <2>. QED  BY <2>1 DEF Followed
  <1>10. ASSUME NEW e \in net', e.type = "LEADERS"
         PROVE  /\ Told(e.src)' /\ e.to \in socketList'[e.src]
                /\ e.src # e.to => e.src \in chatMembers'[e.to] /\ ld'[e.to] # e.src
    <2>1. e.to \in Procs /\ e.src \in Procs
        BY <1>7 DEF Datagrams
    <2>2. CASE e \in net
        BY <1>6, <1>10, <2>1, <2>2 DEF Announced
    <2>3. CASE e \in ToAll(p, S, "LEADERS")
      <3>1. e.to \in socketList[p] /\ e.src = p
          BY <1>2, <2>3
      <3>2. Told(p)'
          BY <1>3 DEF Told
      <3>. QED  BY <1>5, <2>1, <3>1, <3>2
    <2>. QED  BY <2>2, <2>3
  <1>11. Announced'
      BY <1>10 DEF Announced
  <1>. QED  BY <1>7, <1>8, <1>9, <1>11

LEMMA AnnounceIInv ==
  ASSUME IInv, NEW p \in Procs, Announce(p)
  PROVE  IInv'
  <1>1. /\ UNCHANGED <<alive, checkLeader, ld, socketList, chatMembers, highestIpPort,
                       retry, rcvTimeout, timer, asleep, burst>>
        /\ takeover[p] = "leaders"
        /\ net' = net \cup ToAll(p, socketList[p], "LEADERS")
        /\ takeover' = [takeover EXCEPT ![p] = "elected"]
      BY DEF Announce, views
  <1>2. TypeOK /\ IsFiniteSet(Procs \ alive) /\ (\A q \in Procs : burst[q] <= Period)
        /\ Followed /\ Announced /\ Reassured
      BY DEF IInv
  <1>3. /\ net' \subseteq Datagrams
        /\ takeover' \in [Procs -> {"none", "leaders", "elected"}]
        /\ Followed' /\ Announced'
      BY <1>1, <1>2, ToldOf
  <1>4. TypeOK'
      BY <1>1, <1>2, <1>3 DEF TypeOK
  <1>5. Reassured'
      BY <1>1, <1>2 DEF Reassured, InTime
  <1>. QED  BY <1>1, <1>2, <1>3, <1>4, <1>5 DEF IInv

(* The announced sequencer takes office: whoever follows it by now waits   *)
(* for longer than it still sleeps.                                        *)
LEMMA TakeOverIInv ==
  ASSUME IInv, NEW p \in Procs, TakeOver(p)
  PROVE  IInv'
  <1>1. /\ UNCHANGED <<alive, socketList, chatMembers, highestIpPort, retry, rcvTimeout,
                       timer, asleep, net>>
        /\ takeover[p] = "elected"
        /\ checkLeader' = [checkLeader EXCEPT ![p] = TRUE]
        /\ ld' = [ld EXCEPT ![p] = p]
        /\ takeover' = [takeover EXCEPT ![p] = "none"]
      BY DEF TakeOver, BecomeLeader, views
  <1>2. TypeOK /\ IsFiniteSet(Procs \ alive) /\ (\A q \in Procs : burst[q] <= Period)
        /\ Followed /\ Announced /\ Reassured
      BY DEF IInv
  <1>3. PICK rest \in 0 .. Period : burst' = [burst EXCEPT ![p] = rest]
      BY DEF TakeOver, BecomeLeader
  <1>4. rest \in Nat /\ rest <= Period
      BY <1>3, Constants
  <1>5. /\ \A q \in Procs : ld'[q] = IF q = p THEN p ELSE ld[q]
        /\ \A q \in Procs : checkLeader'[q] = IF q = p THEN TRUE ELSE checkLeader[q]
        /\ \A q \in Procs : takeover'[q] = IF q = p THEN "none" ELSE takeover[q]
        /\ \A q \in Procs : burst'[q] = IF q = p THEN rest ELSE burst[q]
      BY <1>1, <1>2, <1>3 DEF TypeOK
  <1>6. TypeOK'
    <2>1. /\ checkLeader' \in [Procs -> BOOLEAN] /\ ld' \in [Procs -> Procs]
          /\ takeover' \in [Procs -> {"none", "leaders", "elected"}]
        BY <1>1, <1>2 DEF TypeOK
    <2>2. burst' \in [Procs -> Nat]
        BY <1>2, <1>3, <1>4 DEF TypeOK
    <2>. QED  BY <1>1, <1>2, <2>1, <2>2 DEF TypeOK
  <1>7. ~checkLeader[p]
      BY <1>1, <1>2 DEF Followed
  <1>8. \A q \in Procs : Told(q)' <=> Told(q)
      BY <1>1, <1>5 DEF Told
  <1>9. Followed'
    <2>1. ASSUME NEW q \in Procs
          PROVE  /\ Told(ld[q])'
                 /\ checkLeader'[q] => ld'[q] = q
                 /\ checkLeader'[q] \/ takeover'[q] # "none" => ~asleep'[q]
                 /\ checkLeader'[q] => takeover'[q] = "none"
                 /\ ~Told(q)' => \A r \in Procs : q \in chatMembers'[r]
                 /\ ld'[q] # q => q \in socketList'[ld'[q]]
      <3>1. /\ ld[q] \in Procs /\ Told(ld[q])
            /\ checkLeader[q] => ld[q] = q
            /\ checkLeader[q] \/ takeover[q] # "none" => ~asleep[q]
            /\ checkLeader[q] => takeover[q] = "none"
            /\ ~Told(q) => \A r \in Procs : q \in chatMembers[r]
            /\ ld[q] # q => q \in socketList[ld[q]]
          BY <1>2 DEF Followed, TypeOK
      <3>2. Told(ld[q])'
        <4>1. checkLeader[ld[q]] \/ takeover[ld[q]] = "elected"
            BY <3>1 DEF Told
        <4>2. checkLeader'[ld'[q]] \/ takeover'[ld'[q]] = "elected"
            BY <1>5, <3>1, <4>1
        <4>. QED  BY <4>2 DEF Told
      <3>. QED  BY <1>1, <1>5, <1>8, <3>1, <3>2
    <2>. QED  BY <2>1 DEF Followed
  <1>10. ASSUME NEW e \in net', e.type = "LEADERS"
         PROVE  /\ Told(e.src)' /\ e.to \in socketList'[e.src]
                /\ e.src # e.to => e.src \in chatMembers'[e.to] /\ ld'[e.to] # e.src
    <2>1. e \in net /\ e.to \in Procs /\ e.src \in Procs
        BY <1>1, <1>2 DEF TypeOK, Datagrams
    <2>2. /\ Told(e.src) /\ e.to \in socketList[e.src]
          /\ e.src # e.to => e.src \in chatMembers[e.to] /\ ld[e.to] # e.src
        BY <1>2, <1>10, <2>1 DEF Announced
    <2>. QED  BY <1>1, <1>5, <1>8, <2>1, <2>2
  <1>11. Announced'
      BY <1>10 DEF Announced
  <1>12. ASSUME NEW q \in alive', ld'[q] \in alive', ld'[q] # q
         PROVE  /\ ~asleep'[q]
                /\ InTime(q, ld[q])'
    <2>1. q \in Procs /\ q \in alive /\ q # p /\ ld'[q] = ld[q] /\ ld[q] \in Procs
        BY <1>1, <1>2, <1>5, <1>12 DEF TypeOK
    <2>2. /\ ~asleep[q]
          /\ InTime(q, ld[q])
        BY <1>1, <1>2, <1>12, <2>1 DEF Reassured
    <2>3. \/ [to |-> q, src |-> ld[q], type |-> "ALIVE"] \in net
          \/ ld[q] # p /\ checkLeader[ld[q]] /\ timer[q] > burst[ld[q]]
          \/ timer[q] > Period
        BY <1>7, <2>2 DEF InTime
    <2>. QED  BY <1>1, <1>5, <2>1, <2>2, <2>3 DEF InTime
  <1>13. Reassured'
      BY <1>12 DEF Reassured
  <1>14. \A q \in Procs : burst'[q] <= Period
      BY <1>2, <1>4, <1>5
  <1>. QED  BY <1>1, <1>2, <1>6, <1>9, <1>11, <1>13, <1>14 DEF IInv

(* A round belongs to a member that follows nobody who is alive; one that  *)
(* finds itself alone is the sequencer, whom nobody follows yet.           *)
LEMMA ElectionRoundIInv ==
  ASSUME IInv, NEW p \in Procs, ElectionRound(p)
  PROVE  IInv'
  <1> DEFINE S == Remaining(p)
             asked == ToAll(p, Higher(p, S), "ELECTION")
  <1>1. /\ p \in alive /\ asleep[p] /\ UNCHANGED <<alive, takeover>>
        /\ socketList' = [socketList EXCEPT ![p] = S]
        /\ chatMembers' = [chatMembers EXCEPT ![p] = @ \ {ld[p]}]
        /\ SendElection(p, S)
        /\ retry' = [retry EXCEPT ![p] = IF @ = 2 THEN 2 ELSE @ + 1]
        /\ rcvTimeout' = [rcvTimeout EXCEPT ![p] = Silence]
        /\ timer' = [timer EXCEPT ![p] = Silence]
        /\ asleep' = [asleep EXCEPT ![p] = FALSE]
      BY DEF ElectionRound
  <1>2. TypeOK /\ IsFiniteSet(Procs \ alive) /\ (\A q \in Procs : burst[q] <= Period)
        /\ Followed /\ Announced /\ Reassured
      BY DEF IInv
  <1>3. ~checkLeader[p] /\ takeover[p] = "none" /\ ~(ld[p] \in alive /\ ld[p] # p)
    <2>1. ~checkLeader[p] /\ takeover[p] = "none"
        BY <1>1, <1>2 DEF Followed
    <2>2. ~(ld[p] \in alive /\ ld[p] # p)
        BY <1>1, <1>2 DEF Reassured
    <2>. QED  BY <2>1, <2>2
  <1>4. /\ \A q \in Procs : ld[q] # p
        /\ \A e \in net : e.type = "LEADERS" => e.src # p
        /\ \A q \in Procs : p \in chatMembers[q]
        /\ ld[p] # p
      BY <1>2, <1>3, NobodyFollowsMembers DEF Told
  <1>5. S \in SUBSET Procs /\ Higher(p, S) \in SUBSET Procs
      BY <1>2 DEF TypeOK, Remaining, RemoveHigherMembers, Higher
  <1>6. asked \subseteq Datagrams /\ \A e \in asked : e.type = "ELECTION"
      BY <1>5, ToAllTypes DEF Types
  <1> HIDE DEF S, asked
  <1>r. PICK rest \in 0 .. Period :
          Cardinality(S) = 1 => burst' = [burst EXCEPT ![p] = rest]
    <2>1. CASE Cardinality(S) = 1
        BY <1>1, <2>1 DEF SendElection, BecomeLeader
    <2>2. CASE Cardinality(S) # 1
      <3>1. 0 \in 0 .. Period
          BY Constants
      <3>. QED  BY <2>2, <3>1
    <2>. QED  BY <2>1, <2>2
  <1>q. rest \in Nat /\ rest <= Period
      BY <1>r, Constants
  <1>7. \/ /\ checkLeader' = [checkLeader EXCEPT ![p] = TRUE]
           /\ ld' = [ld EXCEPT ![p] = p]
           /\ burst' = [burst EXCEPT ![p] = rest]
           /\ highestIpPort' = [highestIpPort EXCEPT ![p] = TRUE]
           /\ net' = net
        \/ /\ net' = net \cup asked
           /\ highestIpPort' = [highestIpPort EXCEPT ![p] = Higher(p, S) = {}]
           /\ UNCHANGED <<checkLeader, ld, burst>>
    <2>1. CASE Cardinality(S) = 1
        BY <1>1, <1>r, <2>1 DEF SendElection, BecomeLeader
    <2>2. CASE Cardinality(S) # 1
        BY <1>1, <2>2 DEF SendElection, asked
    <2>. QED  BY <2>1, <2>2
  <1>8. /\ net \subseteq net'
        /\ \A e \in net' : e \in net \/ (e \in Datagrams /\ e.type = "ELECTION")
      BY <1>6, <1>7
  <1>9. /\ \A q \in Procs : socketList'[q] = IF q = p THEN S ELSE socketList[q]
        /\ \A q \in Procs : chatMembers'[q] = IF q = p THEN chatMembers[q] \ {ld[q]} ELSE chatMembers[q]
        /\ \A q \in Procs : asleep'[q] = IF q = p THEN FALSE ELSE asleep[q]
        /\ \A q \in Procs : timer'[q] = IF q = p THEN Silence ELSE timer[q]
      BY <1>1, <1>2 DEF TypeOK
  <1>10. /\ \A q \in Procs : q # p => /\ ld'[q] = ld[q] /\ burst'[q] = burst[q]
                                      /\ checkLeader'[q] = checkLeader[q]
         /\ burst'[p] \in {rest, burst[p]}
         /\ \/ checkLeader'[p] = TRUE /\ ld'[p] = p
            \/ checkLeader'[p] = checkLeader[p] /\ ld'[p] = ld[p]
      BY <1>2, <1>7 DEF TypeOK
  <1>11. TypeOK'
    <2>1. retry' \in [Procs -> 0 .. 2]
        BY <1>1, <1>2 DEF TypeOK
    <2>2. socketList' \in [Procs -> SUBSET Procs] /\ chatMembers' \in [Procs -> SUBSET Procs]
        BY <1>1, <1>2, <1>5 DEF TypeOK
    <2>3. /\ rcvTimeout' \in [Procs -> {Silence, Patience}] /\ timer' \in [Procs -> Nat]
          /\ asleep' \in [Procs -> BOOLEAN]
        BY <1>1, <1>2, Constants DEF TypeOK
    <2>4. /\ checkLeader' \in [Procs -> BOOLEAN] /\ ld' \in [Procs -> Procs]
          /\ burst' \in [Procs -> Nat] /\ highestIpPort' \in [Procs -> BOOLEAN]
      <3> DEFINE none == Higher(p, S) = {}
      <3>1. none \in BOOLEAN
          OBVIOUS
      <3>2. highestIpPort' = [highestIpPort EXCEPT ![p] = TRUE]
            \/ highestIpPort' = [highestIpPort EXCEPT ![p] = none]
          BY <1>7
      <3> HIDE DEF none
      <3>3. highestIpPort' \in [Procs -> BOOLEAN]
          BY <1>2, <3>1, <3>2 DEF TypeOK
      <3>4. /\ checkLeader' = [checkLeader EXCEPT ![p] = TRUE] \/ checkLeader' = checkLeader
            /\ ld' = [ld EXCEPT ![p] = p] \/ ld' = ld
            /\ burst' = [burst EXCEPT ![p] = rest] \/ burst' = burst
          BY <1>7, Zenon
      <3>5. checkLeader' \in [Procs -> BOOLEAN]
          BY <1>2, <3>4 DEF TypeOK
      <3>6. ld' \in [Procs -> Procs] /\ burst' \in [Procs -> Nat]
          BY <1>2, <1>q, <3>4 DEF TypeOK
      <3>. QED  BY <3>3, <3>5, <3>6
    <2>5. net' \subseteq Datagrams
        BY <1>2, <1>8 DEF TypeOK
    <2>. QED  BY <1>1, <1>2, <2>1, <2>2, <2>3, <2>4, <2>5 DEF TypeOK
  <1>u. \A q \in Procs : Told(q) => Told(q)'
      BY <1>1, <1>3, <1>10 DEF Told
  <1>12. Followed'
    <2>1. ASSUME NEW q \in Procs
          PROVE  /\ Told(ld[q])'
                 /\ checkLeader'[q] => ld'[q] = q
                 /\ checkLeader'[q] \/ takeover'[q] # "none" => ~asleep'[q]
                 /\ checkLeader'[q] => takeover'[q] = "none"
                 /\ ld'[q] # q => q \in socketList'[ld'[q]]
      <3>1. /\ ld[q] \in Procs /\ ld[q] # p /\ Told(ld[q])
            /\ checkLeader[q] => ld[q] = q
            /\ checkLeader[q] \/ takeover[q] # "none" => ~asleep[q]
            /\ checkLeader[q] => takeover[q] = "none"
            /\ ld[q] # q => q \in socketList[ld[q]]
          BY <1>2, <1>4 DEF Followed, TypeOK
      <3>2. /\ checkLeader'[ld[q]] = checkLeader[ld[q]]
            /\ socketList'[ld[q]] = socketList[ld[q]]
            /\ takeover'[ld[q]] = takeover[ld[q]]
          BY <1>1, <1>9, <1>10, <3>1
      <3>3. checkLeader[ld[q]] \/ takeover[ld[q]] = "elected"
          BY <3>1 DEF Told
      <3>4. CASE q = p /\ ld'[p] = p
        <4>1. checkLeader'[p] = TRUE
            BY <1>4, <1>10, <3>4
        <4>2. Told(ld[q])'
            BY <3>4, <4>1 DEF Told
        <4>. QED  BY <1>1, <1>3, <1>9, <3>4, <4>1, <4>2
      <3>5. CASE q = p /\ ld'[p] = ld[p] /\ checkLeader'[p] = checkLeader[p]
        <4>1. Told(ld[q])'
            BY <3>2, <3>3, <3>5 DEF Told
        <4>. QED  BY <1>1, <1>3, <1>9, <3>1, <3>2, <3>5, <4>1
      <3>6. CASE q # p
        <4>1. ld'[q] = ld[q] /\ checkLeader'[q] = checkLeader[q]
            BY <1>10, <3>6
        <4>2. Told(ld[q])'
            BY <3>2, <3>3, <4>1 DEF Told
        <4>. QED  BY <1>1, <1>9, <3>1, <3>2, <3>6, <4>1, <4>2
      <3>. QED  BY <1>10, <3>4, <3>5, <3>6
    <2>2. ASSUME NEW q \in Procs, ~Told(q)', NEW r \in Procs
          PROVE  q \in chatMembers'[r]
      <3>1. q \in chatMembers[r] /\ ld[r] # q
          BY <1>2, <1>u, <2>2, NobodyFollowsMembers
      <3>. QED  BY <1>9, <3>1
    <2>. QED  BY <2>1, <2>2 DEF Followed
  <1>13. Announced'
    <2>1. ASSUME NEW e \in net', e.type = "LEADERS"
          PROVE  /\ Told(e.src)' /\ e.to \in socketList'[e.src]
                 /\ e.src # e.to => e.src \in chatMembers'[e.to] /\ ld'[e.to] # e.src
      <3>1. e \in net /\ e.to \in Procs /\ e.src \in Procs /\ e.src # p
          BY <1>2, <1>4, <1>8, <2>1 DEF TypeOK, Datagrams
      <3>2. /\ Told(e.src) /\ e.to \in socketList[e.src]
            /\ e.src # e.to => e.src \in chatMembers[e.to] /\ ld[e.to] # e.src
          BY <1>2, <2>1, <3>1 DEF Announced
      <3>3. Told(e.src)' /\ socketList'[e.src] = socketList[e.src]
          BY <1>9, <1>u, <3>1, <3>2
      <3>4. CASE e.to = p
          BY <1>9, <1>10, <3>1, <3>2, <3>3, <3>4
      <3>5. CASE e.to # p
          BY <1>9, <1>10, <3>1, <3>2, <3>3, <3>5
      <3>. QED  BY <3>4, <3>5
    <2>. QED  BY <2>1 DEF Announced
  <1>14. Reassured'
    <2>1. ASSUME NEW q \in alive', ld'[q] \in alive', ld'[q] # q
          PROVE  /\ ~asleep'[q]
                 /\ InTime(q, ld[q])'
      <3>1. q \in Procs /\ q \in alive /\ ld[q] \in Procs /\ ld[q] # p
          BY <1>1, <1>2, <1>4, <2>1 DEF TypeOK
      <3>2. q # p
          BY <1>1, <1>3, <1>10, <2>1
      <3>3. /\ ld'[q] = ld[q] /\ burst'[ld[q]] = burst[ld[q]]
            /\ checkLeader'[ld[q]] = checkLeader[ld[q]]
          BY <1>10, <3>1, <3>2
      <3>4. /\ ~asleep[q]
            /\ InTime(q, ld[q])
          BY <1>1, <1>2, <2>1, <3>1, <3>3 DEF Reassured
      <3>. QED  BY <1>8, <1>9, <3>1, <3>2, <3>3, <3>4 DEF InTime
    <2>. QED  BY <2>1 DEF Reassured
  <1>15. \A q \in Procs : burst'[q] <= Period
    <2>1. ASSUME NEW q \in Procs PROVE burst'[q] <= Period
      <3>1. burst'[q] \in {rest, burst[q]}
          BY <1>10
      <3>. QED  BY <1>2, <1>q, <3>1
    <2>. QED  BY <2>1
  <1>. QED  BY <1>1, <1>2, <1>11, <1>12, <1>13, <1>14, <1>15 DEF IInv

(* A crash leaves datagrams behind, and nobody worse off. *)
LEMMA CrashIInv ==
  ASSUME IInv, NEW p \in Procs, Crash(p)
  PROVE  IInv'
  <1>1. /\ p \in alive /\ Cardinality(Procs \ alive) < MaxCrashes /\ alive' = alive \ {p}
        /\ UNCHANGED <<checkLeader, ld, socketList, chatMembers, highestIpPort, retry,
                       rcvTimeout, timer, asleep, burst>>
        /\ takeover' = [takeover EXCEPT ![p] = IF @ = "leaders" THEN "elected" ELSE @]
      BY DEF Crash, views
  <1>2. TypeOK /\ IsFiniteSet(Procs \ alive) /\ (\A q \in Procs : burst[q] <= Period)
        /\ Followed /\ Announced /\ Reassured
      BY DEF IInv
  <1>3. PICK reached \in SUBSET socketList[p] :
          IF takeover[p] = "leaders" THEN net' = net \cup ToAll(p, reached, "LEADERS")
                                     ELSE net' = net \cup ToAll(p, reached, "ALIVE")
      BY DEF Crash
  <1>4. /\ net \subseteq net' /\ net' \subseteq Datagrams
        /\ takeover' \in [Procs -> {"none", "leaders", "elected"}]
        /\ Followed' /\ Announced'
    <2>1. CASE takeover[p] = "leaders"
      <3>1. takeover' = [takeover EXCEPT ![p] = "elected"]
          BY <1>1, <1>2, <2>1 DEF TypeOK
      <3>2. net' = net \cup ToAll(p, reached, "LEADERS")
          BY <1>3, <2>1
      <3>3. /\ net' \subseteq Datagrams
            /\ takeover' \in [Procs -> {"none", "leaders", "elected"}]
            /\ Followed' /\ Announced'
          BY <1>1, <1>2, <2>1, <3>1, <3>2, ToldOf
      <3>. QED  BY <3>2, <3>3
    <2>2. CASE takeover[p] # "leaders"
      <3>1. takeover' = takeover /\ net' = net \cup ToAll(p, reached, "ALIVE")
          BY <1>1, <1>2, <1>3, <2>2 DEF TypeOK
      <3>2. reached \in SUBSET Procs /\ "ALIVE" \in Types
          BY <1>2 DEF TypeOK, Types
      <3>3. /\ ToAll(p, reached, "ALIVE") \subseteq Datagrams
            /\ \A e \in ToAll(p, reached, "ALIVE") : e.type = "ALIVE"
          BY <3>2, ToAllTypes
      <3>4. net' \subseteq Datagrams /\ \A e \in net' : e \in net \/ e.type = "ALIVE"
          BY <1>2, <3>1, <3>3 DEF TypeOK
      <3>5. Followed'
          BY <1>1, <1>2, <3>1 DEF Followed, Told
      <3>6. Announced'
          BY <1>1, <1>2, <3>1, <3>4 DEF Announced, Told
      <3>. QED  BY <1>2, <3>1, <3>4, <3>5, <3>6 DEF TypeOK
    <2>. QED  BY <2>1, <2>2
  <1>7. IsFiniteSet(Procs \ alive') /\ Cardinality(Procs \ alive') <= MaxCrashes
    <2>1. Procs \ alive' = (Procs \ alive) \cup {p} /\ p \notin Procs \ alive
        BY <1>1
    <2>2. /\ IsFiniteSet((Procs \ alive) \cup {p})
          /\ Cardinality((Procs \ alive) \cup {p}) = Cardinality(Procs \ alive) + 1
        BY <1>2, <2>1, FS_AddElement
    <2>3. Cardinality(Procs \ alive) \in Nat
        BY <1>2, FS_CardinalityType
    <2>. QED  BY <1>1, <2>1, <2>2, <2>3, Constants
  <1>8. TypeOK'
      BY <1>1, <1>2, <1>4, <1>7 DEF TypeOK
  <1>9. Reassured'
      BY <1>1, <1>2, <1>4 DEF Reassured, InTime
  <1>. QED  BY <1>1, <1>2, <1>4, <1>7, <1>8, <1>9 DEF IInv

(* Time passes only when every heartbeat has arrived, and for all alike.   *)
LEMMA TickIInv ==
  ASSUME IInv, Tick
  PROVE  IInv'
  <1>1. /\ \A p \in alive : ~Due(p)
        /\ timer' = [p \in Procs |-> IF p \in alive THEN Down(timer[p]) ELSE 0]
        /\ burst' = [p \in Procs |-> IF p \in alive THEN Down(burst[p]) ELSE 0]
        /\ net' = {d \in net : d.to \in alive}
        /\ UNCHANGED <<alive, checkLeader, ld, socketList, chatMembers, highestIpPort,
                       retry, rcvTimeout, asleep, takeover>>
      BY DEF Tick, views
  <1>2. TypeOK /\ IsFiniteSet(Procs \ alive) /\ (\A q \in Procs : burst[q] <= Period)
        /\ Followed /\ Announced /\ Reassured
      BY DEF IInv
  <1>3. ASSUME NEW n \in Nat PROVE Down(n) \in Nat /\ Down(n) <= n /\ (n # 0 => Down(n) = n - 1)
      BY DEF Down
  <1>4. timer' \in [Procs -> Nat] /\ burst' \in [Procs -> Nat]
      BY <1>1, <1>2, <1>3 DEF TypeOK
  <1>5. TypeOK'
      BY <1>1, <1>2, <1>4 DEF TypeOK
  <1>6. \A q \in Procs : burst'[q] <= Period
    <2>1. ASSUME NEW q \in Procs PROVE burst'[q] <= Period
      <3>1. burst[q] \in Nat /\ burst[q] <= Period /\ Down(burst[q]) \in Nat /\ Down(burst[q]) <= burst[q]
          BY <1>2, <1>3 DEF TypeOK
      <3>. QED  BY <1>1, <3>1, Constants
    <2>. QED  BY <2>1
  <1>7. Followed'
      BY <1>1, <1>2 DEF Followed, Told
  <1>8. Announced'
      BY <1>1, <1>2 DEF Announced, Told
  <1>9. ASSUME NEW q \in alive', ld'[q] \in alive', ld'[q] # q
        PROVE  /\ ~asleep'[q]
               /\ InTime(q, ld[q])'
    <2>1. q \in Procs /\ ld[q] \in Procs /\ q \in alive /\ ld[q] \in alive /\ ld'[q] = ld[q]
          /\ timer[q] \in Nat /\ burst[ld[q]] \in Nat /\ burst[ld[q]] <= Period
          /\ checkLeader[ld[q]]
      <3>1. q \in Procs /\ ld[q] \in Procs /\ q \in alive /\ ld[q] \in alive /\ ld'[q] = ld[q]
            /\ Told(ld[q])
          BY <1>1, <1>2, <1>9 DEF TypeOK, Followed
      <3>2. takeover[ld[q]] = "none"
          BY <1>1, <3>1 DEF Due
      <3>. QED  BY <1>2, <3>1, <3>2 DEF TypeOK, Told
    <2>2. /\ ~asleep[q]
          /\ InTime(q, ld[q])
        BY <1>1, <1>2, <1>9, <2>1 DEF Reassured
    <2>3. [to |-> q, src |-> ld[q], type |-> "ALIVE"] \notin net
        BY <1>1, <2>1, <2>2 DEF Due
    <2>4. timer[q] > burst[ld[q]] /\ burst[ld[q]] # 0
      <3>1. burst[ld[q]] # 0
          BY <1>1, <2>1 DEF Due
      <3>2. timer[q] > burst[ld[q]] \/ timer[q] > Period
          BY <2>2, <2>3 DEF InTime
      <3>. QED  BY <2>1, <3>1, <3>2, Constants
    <2>5. timer'[q] = timer[q] - 1 /\ burst'[ld[q]] = burst[ld[q]] - 1
        BY <1>1, <1>3, <2>1, <2>4
    <2>. QED  BY <1>1, <2>1, <2>2, <2>4, <2>5 DEF InTime
  <1>10. Reassured'
      BY <1>9 DEF Reassured
  <1>. QED  BY <1>1, <1>2, <1>5, <1>6, <1>7, <1>8, <1>10 DEF IInv

-----------------------------------------------------------------------------
LEMMA NextIInv == IInv /\ [Next]_vars => IInv'
  <1> SUFFICES ASSUME IInv, [Next]_vars PROVE IInv'
      OBVIOUS
  <1>1. ASSUME NEW p \in Procs, Act(p) PROVE IInv'
    <2>1. CASE HeartbeatSend(p)
        BY <2>1, HeartbeatSendIInv
    <2>2. CASE Receive(p)
      <3>1. PICK d \in net : \/ ReceiveQuietly(p, d) \/ ReceiveElection(p, d)
                             \/ ReceiveOk(p, d) \/ ReceiveLeaders(p, d)
          BY <2>2 DEF Receive
      <3>. QED  BY <3>1, ReceiveQuietlyIInv, ReceiveElectionIInv, ReceiveOkIInv,
                   ReceiveLeadersIInv
    <2>3. CASE Announce(p)
        BY <2>3, AnnounceIInv
    <2>4. CASE TakeOver(p)
        BY <2>4, TakeOverIInv
    <2>5. CASE SilenceDetected(p)
        BY <2>5, SilenceDetectedIInv
    <2>6. CASE ElectionRound(p)
        BY <2>6, ElectionRoundIInv
    <2>. QED  BY <1>1, <2>1, <2>2, <2>3, <2>4, <2>5, <2>6 DEF Act
  <1>2. ASSUME NEW p \in Procs, Crash(p) PROVE IInv'
      BY <1>2, CrashIInv
  <1>3. CASE Tick
      BY <1>3, TickIInv
  <1>4. CASE UNCHANGED vars
      BY <1>4 DEF vars, views, IInv, TypeOK, Followed, Announced, Reassured,
                        Told, InTime
  <1>. QED  BY <1>1, <1>2, <1>3, <1>4 DEF Next

(* The inductive invariant of the election (heartbeatSend,                 *)
(* heartbeatReceive, sendElection, dchat.cpp:800-1072).                    *)
THEOREM IInvCorrect == Spec => []IInv
  BY InitIInv, NextIInv, PTL DEF Spec

(* Nobody dies but by a crash: the LEADERS that a process receives is of a *)
(* sender that it has in chatMembers (heartbeatReceive, dchat.cpp:982).    *)
THEOREM TypeCorrect == Spec => []TypeOK
  <1>1. IInv => TypeOK
      BY DEF IInv
  <1>. QED  BY <1>1, IInvCorrect, PTL

(* A live sequencer is not suspected by those who follow it, before and    *)
(* after any number of takeovers (heartbeatSend, dchat.cpp:861, against    *)
(* the timeout of heartbeatReceive, 958).                                  *)
THEOREM NeverSuspected == Spec => []NoFalseSuspicion
  <1>1. IInv => NoFalseSuspicion
    <2> SUFFICES ASSUME IInv, NEW p \in alive, asleep[p], ld[p] \in alive PROVE FALSE
        BY DEF NoFalseSuspicion
    <2>1. p \in Procs /\ Followed /\ Reassured
        BY DEF IInv, TypeOK
    <2>2. ~Told(p) /\ Told(ld[p])
        BY <2>1 DEF Followed, Told
    <2>3. ld[p] # p
        BY <2>2
    <2>. QED  BY <2>1, <2>3 DEF Reassured
  <1>. QED  BY <1>1, IInvCorrect, PTL


-----------------------------------------------------------------------------
(* While the founder lives nobody asks, answers or takes over. *)
Undisturbed ==
  Founder \in alive =>
    /\ \A p \in Procs : /\ ld[p] = Founder /\ ~highestIpPort[p]
                        /\ takeover[p] = "none" /\ (checkLeader[p] <=> p = Founder)
    /\ \A d \in net : d.type = "ALIVE"

LEMMA UndisturbedNext == IInv /\ Undisturbed /\ [Next]_vars => Undisturbed'
  <1> SUFFICES ASSUME IInv, Undisturbed, [Next]_vars, Founder \in alive'
               PROVE  /\ \A p \in Procs : /\ ld'[p] = Founder /\ ~highestIpPort'[p]
                                          /\ takeover'[p] = "none"
                                          /\ checkLeader'[p] <=> p = Founder
                      /\ \A d \in net' : d.type = "ALIVE"
      BY DEF Undisturbed
  <1> USE DEF views
  <1>1. TypeOK /\ Followed /\ Reassured
      BY DEF IInv
  <1>2. ASSUME Founder \in alive
        PROVE  /\ \A p \in Procs : ~checkLeader[p] => p # Founder
               /\ \A p \in alive : ~asleep[p]
    <2>1. \A p \in Procs : ld[p] = Founder /\ (checkLeader[p] <=> p = Founder)
        BY <1>2 DEF Undisturbed
    <2>2. ASSUME NEW p \in alive PROVE ~asleep[p]
      <3>1. p \in Procs
          BY <1>1 DEF TypeOK
      <3>2. CASE p = Founder
          BY <1>1, <2>1, <3>1, <3>2 DEF Followed
      <3>3. CASE p # Founder
          BY <1>1, <1>2, <2>1, <3>1, <3>3 DEF Reassured
      <3>. QED  BY <3>2, <3>3
    <2>. QED  BY <2>1, <2>2
  <1>3. ASSUME NEW p \in Procs, Act(p)
        PROVE  /\ Founder \in alive
               /\ UNCHANGED <<ld, highestIpPort, checkLeader, takeover>>
               /\ \A d \in net' : d \in net \/ d.type = "ALIVE"
    <2>1. CASE HeartbeatSend(p)
      <3>1. /\ UNCHANGED <<alive, ld, highestIpPort, checkLeader, takeover>>
            /\ net' = net \cup ToAll(p, socketList[p], "ALIVE")
          BY <2>1 DEF HeartbeatSend
      <3>2. \A d \in ToAll(p, socketList[p], "ALIVE") : d.type = "ALIVE"
          BY DEF ToAll
      <3>. QED  BY <3>1, <3>2
    <2>2. ASSUME NEW d \in net,
                 \/ ReceiveQuietly(p, d) \/ ReceiveElection(p, d)
                 \/ ReceiveOk(p, d) \/ ReceiveLeaders(p, d)
          PROVE  /\ Founder \in alive
                 /\ UNCHANGED <<ld, highestIpPort, checkLeader, takeover>>
                 /\ \A e \in net' : e \in net \/ e.type = "ALIVE"
      <3>1. Founder \in alive
          BY <2>2 DEF ReceiveQuietly, ReceiveElection, ReceiveOk, ReceiveLeaders
      <3>2. d.type = "ALIVE"
          BY <3>1 DEF Undisturbed
      <3>3. ReceiveQuietly(p, d)
          BY <2>2, <3>2 DEF ReceiveElection, ReceiveOk, ReceiveLeaders
      <3>. QED  BY <3>1, <3>3 DEF ReceiveQuietly
    <2>3. CASE SilenceDetected(p)
        BY <2>3 DEF SilenceDetected
    <2>4. CASE Announce(p) \/ TakeOver(p)
      <3>1. Founder \in alive /\ takeover[p] # "none"
          BY <2>4 DEF Announce, TakeOver
      <3>. QED  BY <3>1 DEF Undisturbed
    <2>5. CASE ElectionRound(p)
      <3>1. Founder \in alive /\ p \in alive /\ asleep[p]
          BY <2>5 DEF ElectionRound
      <3>. QED  BY <1>2, <3>1
    <2>. QED  BY <1>3, <2>1, <2>2, <2>3, <2>4, <2>5 DEF Act, Receive
  <1>4. ASSUME NEW p \in Procs, Crash(p)
        PROVE  /\ Founder \in alive
               /\ UNCHANGED <<ld, highestIpPort, checkLeader, takeover>>
               /\ \A d \in net' : d \in net \/ d.type = "ALIVE"
    <2>1. Founder \in alive /\ takeover[p] = "none"
        BY <1>4 DEF Crash, Undisturbed
    <2>2. PICK reached \in SUBSET socketList[p] : net' = net \cup ToAll(p, reached, "ALIVE")
        BY <1>4, <2>1 DEF Crash
    <2>3. \A d \in ToAll(p, reached, "ALIVE") : d.type = "ALIVE"
        BY DEF ToAll
    <2>4. takeover' = takeover
        BY <1>1, <1>4, <2>1 DEF Crash, TypeOK
    <2>. QED  BY <1>4, <2>1, <2>2, <2>3, <2>4 DEF Crash
  <1>5. CASE Tick
      BY <1>5 DEF Tick, Undisturbed
  <1>6. CASE UNCHANGED vars
      BY <1>6 DEF vars, Undisturbed
  <1>7. CASE /\ Founder \in alive
             /\ UNCHANGED <<ld, highestIpPort, checkLeader, takeover>>
             /\ \A d \in net' : d \in net \/ d.type = "ALIVE"
      BY <1>7 DEF Undisturbed
  <1>. QED  BY <1>3, <1>4, <1>5, <1>6, <1>7 DEF Next

(* As long as the founder lives it is the sequencer and nobody else is,    *)
(* whoever else crashes (heartbeatReceive, dchat.cpp:899-1030): the        *)
(* timeouts alone never bring about a second one.                          *)
THEOREM FounderStays == Spec => [](Founder \in alive => Leaders = {Founder})
  <1>1. Init => IInv /\ Undisturbed
      BY InitIInv DEF Init, Undisturbed
  <1>2. IInv /\ Undisturbed /\ [Next]_vars => (IInv /\ Undisturbed)'
      BY NextIInv, UndisturbedNext
  <1>3. IInv /\ Undisturbed => (Founder \in alive => Leaders = {Founder})
    <2> SUFFICES ASSUME IInv, Undisturbed, Founder \in alive PROVE Leaders = {Founder}
        OBVIOUS
    <2>1. alive \subseteq Procs
        BY DEF IInv, TypeOK
    <2>2. \A p \in Procs : checkLeader[p] <=> p = Founder
        BY DEF Undisturbed
    <2>. QED  BY <2>1, <2>2, Constants DEF Leaders
  <1>. QED  BY <1>1, <1>2, <1>3, PTL DEF Spec
=============================================================================
