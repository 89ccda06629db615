------------------------------ MODULE Election ------------------------------
(***************************************************************************)
(* How the members of dchat.cpp replace a sequencer that died: the thread  *)
(* heartbeatReceive with sendElection and removeHigherMembers, and the     *)
(* bursts of heartbeatSend that keep it quiet.                             *)
(*                                                                         *)
(* Time is explicit, in seconds, because the protocol is made of timeouts  *)
(* (5 s of silence, 15 s after an OK, a 3 s sleep, a burst every 3 s).     *)
(* The network is prompt: a datagram arrives within the second in which it *)
(* was sent, in any order with the others; Tick waits for everything that  *)
(* is due.  Processes are numbers, ordered as their "ip:port" strings.     *)
(***************************************************************************)
EXTENDS Integers, FiniteSets

CONSTANTS
  Procs,        \* the processes, as numbers
  Founder,      \* the sequencer at the start
  Silence,      \* 5: SO_RCVTIMEO of the heartbeat socket
  Patience,     \* 15: the same after an OK
  Pause,        \* 3: the sleep before an election round
  Period,       \* 3: the sleep between two bursts of heartbeats
  MaxCrashes    \* bound: processes that crash

ASSUME ElectionAssumption ==
         /\ Procs \subseteq Int
         /\ Founder \in Procs
         /\ {Silence, Patience, Pause, Period} \subseteq Nat \ {0}
         /\ MaxCrashes \in Nat

(* A sequencer sends its heartbeats more often than a member loses patience. *)
ASSUME HeartbeatsInTime == Period < Silence /\ Period < Patience

VARIABLES
  alive,          \* the processes that have not crashed
  checkLeader,    \* checkLeader[p]: p believes it is the sequencer
  ld,             \* ld[p]: whom p believes to be the sequencer
  socketList,     \* socketList[p]: the processes p knows
  chatMembers,    \* chatMembers[p]: the keys of p's member table
  highestIpPort,  \* highestIpPort[p]: p's last round found nobody higher
  retry,          \* retry[p]: rounds without a LEADERS, up to the 2 tested
  rcvTimeout,     \* rcvTimeout[p]: the current SO_RCVTIMEO
  timer,          \* timer[p]: seconds left of the recvfrom, or of the sleep
  asleep,         \* asleep[p]: in the sleep(3) before a round
  takeover,       \* takeover[p]: LEADERS is to be sent, or has just been sent
  burst,          \* burst[p]: seconds until a sequencer's next heartbeats
  net             \* datagrams on their way to a heartbeat port

vars == <<alive, checkLeader, ld, socketList, chatMembers, highestIpPort, retry,
          rcvTimeout, timer, asleep, takeover, burst, net>>

views == <<socketList, chatMembers>>

Types == {"ALIVE", "ELECTION", "OK", "LEADERS"}

Datagrams == [to : Procs, src : Procs, type : Types]

(* No process has died but by a crash: a LEADERS from a sender that its    *)
(* receiver has forgotten would end it (chatMembers[...].at(1) throws).    *)
TypeOK ==
  /\ alive \subseteq Procs
  /\ Cardinality(Procs \ alive) <= MaxCrashes
  /\ checkLeader \in [Procs -> BOOLEAN]
  /\ ld \in [Procs -> Procs]
  /\ socketList \in [Procs -> SUBSET Procs]
  /\ chatMembers \in [Procs -> SUBSET Procs]
  /\ highestIpPort \in [Procs -> BOOLEAN]
  /\ retry \in [Procs -> 0 .. 2]
  /\ rcvTimeout \in [Procs -> {Silence, Patience}]
  /\ timer \in [Procs -> Nat]
  /\ asleep \in [Procs -> BOOLEAN]
  /\ takeover \in [Procs -> {"none", "leaders", "elected"}]
  /\ burst \in [Procs -> Nat]
  /\ net \subseteq Datagrams

(* All have joined, and the founder has just sent a burst. *)
Init ==
  /\ alive = Procs
  /\ checkLeader = [p \in Procs |-> p = Founder]
  /\ ld = [p \in Procs |-> Founder]
  /\ socketList = [p \in Procs |-> Procs]
  /\ chatMembers = [p \in Procs |-> Procs]
  /\ highestIpPort = [p \in Procs |-> FALSE]
  /\ retry = [p \in Procs |-> 0]
  /\ rcvTimeout = [p \in Procs |-> Silence]
  /\ timer = [p \in Procs |-> Silence]
  /\ asleep = [p \in Procs |-> FALSE]
  /\ takeover = [p \in Procs |-> "none"]
  /\ burst = [p \in Procs |-> IF p = Founder THEN Period ELSE 0]
  /\ net = {}

-----------------------------------------------------------------------------
ToAll(p, S, t) == {[to |-> q, src |-> p, type |-> t] : q \in S}

(* Wrong variant: the pause between two bursts is as long as the silence. *)
HeartbeatSendRarely(p) ==
  /\ p \in alive
  /\ checkLeader[p]
  /\ burst[p] = 0
  /\ net' = net \cup ToAll(p, socketList[p], "ALIVE")
  /\ burst' = [burst EXCEPT ![p] = Silence]
  /\ UNCHANGED <<alive, checkLeader, ld, views, highestIpPort, retry, rcvTimeout,
                 timer, asleep, takeover>>

(***************************************************************************)
(* heartbeatSend of a sequencer: ALIVE to every entry of socketList, then  *)
(* sleep(3).  (A member's heartbeats go to the sequencer, whose            *)
(* heartbeatReceive only feeds its checklist; a member that becomes the    *)
(* sequencer has slept through some part of those 3 s already.)            *)
(***************************************************************************)
HeartbeatSend(p) ==
  /\ p \in alive
  /\ checkLeader[p]
  /\ burst[p] = 0
  /\ net' = net \cup ToAll(p, socketList[p], "ALIVE")
  /\ burst' = [burst EXCEPT ![p] = Period]
  /\ UNCHANGED <<alive, checkLeader, ld, views, highestIpPort, retry, rcvTimeout,
                 timer, asleep, takeover>>

-----------------------------------------------------------------------------
(***************************************************************************)
(* heartbeatReceive.  Whatever is received restarts the receive timeout.   *)
(***************************************************************************)
Take(p, d) ==
  /\ p \in alive
  /\ ~asleep[p] /\ takeover[p] = "none"
  /\ d \in net
  /\ d.to = p

(* A sequencer drops all but heartbeats, which only feed its checklist; a  *)
(* member that receives a heartbeat has nothing to do.                     *)
ReceiveQuietly(p, d) ==
  /\ Take(p, d)
  /\ checkLeader[p] \/ d.type = "ALIVE"
  /\ net' = net \ {d}
  /\ timer' = [timer EXCEPT ![p] = rcvTimeout[p]]
  /\ UNCHANGED <<alive, checkLeader, ld, views, highestIpPort, retry, rcvTimeout,
                 asleep, takeover, burst>>

(* Wrong variant: whoever is asked takes over. *)
TakesOverAlways(p) == TRUE

TakesOver(p) == highestIpPort[p]

(* ELECTION: answer OK.  A member whose last round found nobody higher     *)
(* takes over: it forgets the old sequencer ...                            *)
ReceiveElection(p, d) ==
  /\ Take(p, d)
  /\ ~checkLeader[p]
  /\ d.type = "ELECTION"
  /\ net' = (net \ {d}) \cup {[to |-> d.src, src |-> p, type |-> "OK"]}
  /\ IF TakesOver(p)
     THEN /\ socketList' = [socketList EXCEPT ![p] = @ \ {ld[p]}]
          /\ chatMembers' = [chatMembers EXCEPT ![p] = @ \ {ld[p]}]
          /\ takeover' = [takeover EXCEPT ![p] = "leaders"]
     ELSE UNCHANGED <<views, takeover>>
  /\ timer' = [timer EXCEPT ![p] = rcvTimeout[p]]
  /\ UNCHANGED <<alive, checkLeader, ld, highestIpPort, retry, rcvTimeout, asleep, burst>>

(* ... announces itself ...                                                *)
Announce(p) ==
  /\ p \in alive
  /\ takeover[p] = "leaders"
  /\ net' = net \cup ToAll(p, socketList[p], "LEADERS")
  /\ takeover' = [takeover EXCEPT ![p] = "elected"]
  /\ UNCHANGED <<alive, checkLeader, ld, views, highestIpPort, retry, rcvTimeout,
                 timer, asleep, burst>>

(* ... and is the sequencer.  Its heartbeatSend first sleeps through what  *)
(* remains of the pause after its last heartbeat as a member.              *)
BecomeLeader(p) ==
  /\ checkLeader' = [checkLeader EXCEPT ![p] = TRUE]
  /\ ld' = [ld EXCEPT ![p] = p]
  /\ \E rest \in 0 .. Period : burst' = [burst EXCEPT ![p] = rest]

TakeOver(p) ==
  /\ p \in alive
  /\ takeover[p] = "elected"
  /\ BecomeLeader(p)
  /\ takeover' = [takeover EXCEPT ![p] = "none"]
  /\ UNCHANGED <<alive, views, highestIpPort, retry, rcvTimeout, timer, asleep, net>>

(* OK: somebody higher is alive, so wait longer. *)
ReceiveOk(p, d) ==
  /\ Take(p, d)
  /\ ~checkLeader[p]
  /\ d.type = "OK"
  /\ net' = net \ {d}
  /\ rcvTimeout' = [rcvTimeout EXCEPT ![p] = Patience]
  /\ timer' = [timer EXCEPT ![p] = Patience]
  /\ UNCHANGED <<alive, checkLeader, ld, views, highestIpPort, retry, asleep,
                 takeover, burst>>

(* LEADERS: follow the sender.  A sender missing from chatMembers makes    *)
(* vector::at throw, and the process ends.                                 *)
ReceiveLeaders(p, d) ==
  /\ Take(p, d)
  /\ ~checkLeader[p]
  /\ d.type = "LEADERS"
  /\ net' = net \ {d}
  /\ ld' = [ld EXCEPT ![p] = d.src]
  /\ IF d.src \in chatMembers[p]
     THEN /\ retry' = [retry EXCEPT ![p] = 0]
          /\ rcvTimeout' = [rcvTimeout EXCEPT ![p] = Silence]
          /\ timer' = [timer EXCEPT ![p] = Silence]
          /\ UNCHANGED alive
     ELSE /\ alive' = alive \ {p}
          /\ UNCHANGED <<retry, rcvTimeout, timer>>
  /\ UNCHANGED <<checkLeader, views, highestIpPort, asleep, takeover, burst>>

Receive(p) == \E d \in net : \/ ReceiveQuietly(p, d) \/ ReceiveElection(p, d)
                             \/ ReceiveOk(p, d) \/ ReceiveLeaders(p, d)

-----------------------------------------------------------------------------
(* recvfrom timed out: a member sleeps before its round; a sequencer just  *)
(* receives again.                                                         *)
SilenceDetected(p) ==
  /\ p \in alive
  /\ ~asleep[p] /\ takeover[p] = "none"
  /\ timer[p] = 0
  /\ \A d \in net : d.to # p
  /\ asleep' = [asleep EXCEPT ![p] = ~checkLeader[p]]
  /\ timer' = [timer EXCEPT ![p] = IF checkLeader[p] THEN rcvTimeout[p] ELSE Pause]
  /\ UNCHANGED <<alive, checkLeader, ld, views, highestIpPort, retry, rcvTimeout,
                 takeover, burst, net>>

(* Wrong variants: the comparison the other way round; the process itself  *)
(* counts as higher.                                                       *)
HigherSwapped(p, S) == {q \in S : q < p}
HigherOrSelf(p, S) == {q \in S : q >= p}

Higher(p, S) == {q \in S : q > p}

(* removeHigherMembers: only the socketList forgets them. *)
RemoveHigherMembers(p, S) == S \ Higher(p, S)

(* What the round starts from: the list without the old sequencer and,     *)
(* from the third round on, without anybody higher.                        *)
Remaining(p) == LET known == socketList[p] \ {ld[p]}
                IN  IF retry[p] >= 2 THEN RemoveHigherMembers(p, known) ELSE known

(* sendElection: the only one left is the sequencer at once, silently; the *)
(* others send ELECTION to everybody higher and wait.                      *)
SendElection(p, S) ==
  IF Cardinality(S) = 1
  THEN /\ BecomeLeader(p)
       /\ highestIpPort' = [highestIpPort EXCEPT ![p] = TRUE]
       /\ UNCHANGED net
  ELSE /\ net' = net \cup ToAll(p, Higher(p, S), "ELECTION")
       /\ highestIpPort' = [highestIpPort EXCEPT ![p] = Higher(p, S) = {}]
       /\ UNCHANGED <<checkLeader, ld, burst>>

(* Wrong variant: the round also forgets the higher members' table entries. *)
ElectionRoundForgets(p) ==
  /\ p \in alive
  /\ asleep[p]
  /\ timer[p] = 0
  /\ socketList' = [socketList EXCEPT ![p] = Remaining(p)]
  /\ chatMembers' = [chatMembers EXCEPT ![p] = RemoveHigherMembers(p, @ \ {ld[p]})]
  /\ SendElection(p, Remaining(p))
  /\ retry' = [retry EXCEPT ![p] = IF @ = 2 THEN 2 ELSE @ + 1]
  /\ rcvTimeout' = [rcvTimeout EXCEPT ![p] = Silence]
  /\ timer' = [timer EXCEPT ![p] = Silence]
  /\ asleep' = [asleep EXCEPT ![p] = FALSE]
  /\ UNCHANGED <<alive, takeover>>

ElectionRound(p) ==
  /\ p \in alive
  /\ asleep[p]
  /\ timer[p] = 0
  /\ socketList' = [socketList EXCEPT ![p] = Remaining(p)]
  /\ chatMembers' = [chatMembers EXCEPT ![p] = @ \ {ld[p]}]
  /\ SendElection(p, Remaining(p))
  /\ retry' = [retry EXCEPT ![p] = IF @ = 2 THEN 2 ELSE @ + 1]
  /\ rcvTimeout' = [rcvTimeout EXCEPT ![p] = Silence]
  /\ timer' = [timer EXCEPT ![p] = Silence]
  /\ asleep' = [asleep EXCEPT ![p] = FALSE]
  /\ UNCHANGED <<alive, takeover>>

-----------------------------------------------------------------------------
(* A process dies, possibly in the middle of a burst or of its             *)
(* announcement, after some of the datagrams have left.                    *)
Crash(p) ==
  /\ p \in alive
  /\ Cardinality(Procs \ alive) < MaxCrashes
  /\ alive' = alive \ {p}
  /\ \E reached \in SUBSET socketList[p] :
       IF takeover[p] = "leaders"
       THEN net' = net \cup ToAll(p, reached, "LEADERS")
       ELSE /\ reached # {} => checkLeader[p] /\ burst[p] = 0
            /\ net' = net \cup ToAll(p, reached, "ALIVE")
  /\ takeover' = [takeover EXCEPT ![p] = IF @ = "leaders" THEN "elected" ELSE @]
  /\ UNCHANGED <<checkLeader, ld, views, highestIpPort, retry, rcvTimeout, timer,
                 asleep, burst>>

(* Something a live process has to do before the second is over. *)
Due(p) == \/ timer[p] = 0 \/ takeover[p] # "none"
          \/ checkLeader[p] /\ burst[p] = 0
          \/ ~asleep[p] /\ \E d \in net : d.to = p

Down(n) == IF n = 0 THEN 0 ELSE n - 1

Tick ==
  /\ \A p \in alive : ~Due(p)
  /\ timer' = [p \in Procs |-> IF p \in alive THEN Down(timer[p]) ELSE 0]
  /\ burst' = [p \in Procs |-> IF p \in alive THEN Down(burst[p]) ELSE 0]
  /\ net' = {d \in net : d.to \in alive}
  /\ UNCHANGED <<alive, checkLeader, ld, views, highestIpPort, retry, rcvTimeout,
                 asleep, takeover>>

Act(p) == \/ HeartbeatSend(p) \/ Receive(p) \/ Announce(p) \/ TakeOver(p)
          \/ SilenceDetected(p) \/ ElectionRound(p)

Next == \/ \E p \in Procs : Act(p) \/ Crash(p)
        \/ Tick

(* The threads of a live process run, and time passes. *)
Fairness == WF_vars(Tick) /\ \A p \in Procs : WF_vars(Act(p))

Spec == Init /\ [][Next]_vars /\ Fairness

-----------------------------------------------------------------------------
(***************************************************************************)
(* Properties.                                                             *)
(***************************************************************************)
Leaders == {p \in alive : checkLeader[p]}

(***************************************************************************)
(* Never two live sequencers at once (heartbeatReceive, sendElection), in  *)
(* a small group.  In a larger one every ELECTION restarts the silence of  *)
(* its receivers, so that the highest is kept from its own round until a   *)
(* lower one is in its third, forgets it and takes over.                   *)
(***************************************************************************)
AtMostOneLeader == Cardinality(Leaders) <= 1

(***************************************************************************)
(* No member suspects the sequencer it follows while that one lives:       *)
(* heartbeats (burst) come sooner than the silence of heartbeatReceive is  *)
(* over, also after a takeover, when heartbeatSend is late by what remains *)
(* of its sleep as a member, and because a sequencer keeps everybody in    *)
(* its socketList to whom it announced itself.                             *)
(***************************************************************************)
NoFalseSuspicion == \A p \in alive : asleep[p] => ld[p] \notin alive

(***************************************************************************)
(* A sequencer elected after the only crash so far is the highest of the   *)
(* live processes, in a small group: sendElection looks for higher members,*)
(* and removeHigherMembers forgets only dead ones.  (In a larger group, or *)
(* after a second crash, it can forget live ones.)                         *)
(***************************************************************************)
OneCrash == Cardinality(Procs \ alive) <= 1

HighestLeads == OneCrash => \A p \in Leaders \ {Founder} : \A q \in alive : q <= p

(***************************************************************************)
(* If one process at most crashes, the survivors come to follow one and    *)
(* the same live sequencer, and keep following it.                         *)
(***************************************************************************)
Agreed == \E p \in Leaders : \A q \in alive : ld[q] = p

SurvivorsAgree == <>[](OneCrash => Agreed)

(***************************************************************************)
(* A member that hears nothing becomes the sequencer in the end            *)
(* (dchat.cpp:958, "If not received in a particular timeout I will elect   *)
(* myself as a leader"): while somebody lives, there is a live sequencer   *)
(* again and again.                                                        *)
(***************************************************************************)
LeaderInTheEnd == []<>(alive = {} \/ Leaders # {})

-----------------------------------------------------------------------------
(***************************************************************************)
(* The inductive invariant behind TypeOK and NoFalseSuspicion.             *)
(***************************************************************************)

(* Whom others may follow. *)
Told(p) == checkLeader[p] \/ takeover[p] = "elected"

(* Who is followed has announced itself or is the sequencer; who has not   *)
(* and is not is in all tables.                                            *)
Followed ==
  \A p \in Procs :
    /\ Told(ld[p])
    /\ checkLeader[p] => ld[p] = p
    /\ checkLeader[p] \/ takeover[p] # "none" => ~asleep[p]
    /\ checkLeader[p] => takeover[p] = "none"
    /\ ~Told(p) => \A q \in Procs : p \in chatMembers[q]
    /\ ld[p] # p => p \in socketList[ld[p]]

(* A LEADERS reaches its receiver before it can have suspected its sender. *)
Announced ==
  \A d \in net : d.type = "LEADERS" =>
    /\ Told(d.src) /\ d.to \in socketList[d.src]
    /\ d.src # d.to => d.src \in chatMembers[d.to] /\ ld[d.to] # d.src

(* The next heartbeat is on its way or comes before the silence is over,   *)
(* however long the new sequencer's heartbeatSend sleeps.                  *)
InTime(p, q) ==
  \/ [to |-> p, src |-> q, type |-> "ALIVE"] \in net
  \/ checkLeader[q] /\ timer[p] > burst[q]
  \/ timer[p] > Period

Reassured ==
  \A p \in alive : ld[p] \in alive /\ ld[p] # p => ~asleep[p] /\ InTime(p, ld[p])

(***************************************************************************)
(* What heartbeatSend and heartbeatReceive keep true through any number of *)
(* crashes and takeovers: a sequencer is known to all whom it tells of its *)
(* election, and its heartbeats reach all who follow it in time.           *)
(***************************************************************************)
IInv == /\ TypeOK /\ IsFiniteSet(Procs \ alive)
        /\ \A p \in Procs : burst[p] <= Period
        /\ Followed /\ Announced /\ Reassured
=============================================================================
