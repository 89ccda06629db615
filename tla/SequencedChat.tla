---------------------------- MODULE SequencedChat ----------------------------
(***************************************************************************)
(* The data path of dchat.cpp: how a line typed at any process reaches the *)
(* screen of every process.  Each process runs main (reads lines),         *)
(* sendMessage, receiveMessage and processMessage as threads that share    *)
(* queues; processes exchange datagrams on the chat port and empty         *)
(* acknowledgements on the ack port.                                       *)
(*                                                                         *)
(* The group is fixed: one sequencer (checkLeader = true) and members that *)
(* have joined before the first line.  Joining and leaving, the election   *)
(* and the screen queue have modules of their own.                         *)
(*                                                                         *)
(* A step is what one thread does up to the next point at which another    *)
(* thread or process can tell: a blocking call, a datagram sent, a shared  *)
(* queue or number changed.                                                *)
(***************************************************************************)
EXTENDS Integers, Sequences, FiniteSets

CONSTANTS
  Procs,         \* the processes of the chat
  Leader,        \* the one whose checkLeader is true
  SocketList,    \* the sequencer's socketList: whom it multicasts to, in order
  MaxTries,      \* the 5 of `retry_send == 5`
  Prompt,        \* TRUE: no datagram is lost, and a receive timeout fires only
                 \* when no answer is on its way
  MaxTyped,      \* bound: lines typed per process
  MaxTimeouts,   \* bound: receive timeouts in a run that is not Prompt
  MaxCrashes     \* bound: members that crash

ASSUME GroupAssumption ==
         /\ Leader \in Procs
         /\ SocketList \in Seq(Procs)
ASSUME BoundAssumption ==
         /\ MaxTries \in Nat \ {0}
         /\ Prompt \in BOOLEAN
         /\ MaxTyped \in [Procs -> Nat]
         /\ MaxTimeouts \in Nat
         /\ MaxCrashes \in Nat

Members == Procs \ {Leader}

VARIABLES
  alive,        \* the processes that have not crashed
  typed,        \* typed[p]: lines entered at p
  sendQueue,    \* sendQueue[p]: lines waiting for p's sendMessage
  waiting,      \* waiting[q]: member q's sendMessage awaits an ACK
  leaderPc,     \* where the sequencer's sendMessage is
  it,           \* ... its position in socketList
  retry_send,   \* ... and its count of attempts
  current,      \* current[p]: currentSequenceNumber of p
  holdback,     \* holdbackQueue[p]
  printed,      \* printed[p]: the chat lines p has pushed to its printQueue
  chatNet,      \* datagrams under way to, or buffered at, a chat port
  acks,         \* acks[p]: ACKs under way to, or buffered at, p's ack port
  timeouts,     \* timeouts so far (bounds the runs, tells retransmissions apart)
  log           \* history: log[n] is the line to which the sequencer gave n

vars == <<alive, typed, sendQueue, waiting, leaderPc, it, retry_send, current,
          holdback, printed, chatNet, acks, timeouts, log>>

leaderVars == <<leaderPc, it, retry_send>>

Lines == [from : Procs, n : Nat \ {0}]

(***************************************************************************)
(* What a chat port receives.  CHAT is a line on its way to the sequencer, *)
(* SEQ_CHAT a line that has its number.  main leaves sequenceNum of a CHAT *)
(* unset; only a member reads that field, and CHATs go to the sequencer,   *)
(* so it is 0 here.  `copy` tells a retransmission from the original.      *)
(***************************************************************************)
Datagrams == [to : Procs, src : Procs, type : {"CHAT", "SEQ_CHAT"},
              line : Lines, seq : Nat, copy : Nat]

Held == [type : {"CHAT", "SEQ_CHAT"}, line : Lines]

TypeOK ==
  /\ alive \in SUBSET Procs
  /\ typed \in [Procs -> Nat]
  /\ sendQueue \in [Procs -> Seq(Lines)]
  /\ waiting \in [Members -> BOOLEAN]
  /\ leaderPc \in {"front", "send", "ack"}
  /\ it \in 1 .. Len(SocketList) + 1
  /\ retry_send \in 0 .. MaxTries + 1
  /\ current \in [Procs -> Nat]
  /\ holdback \in [Procs -> Seq(Held)]
  /\ printed \in [Procs -> Seq(Lines)]
  /\ chatNet \in SUBSET Datagrams
  /\ acks \in [Procs -> Nat]
  /\ timeouts \in Nat
  /\ log \in Seq(Lines)

Init ==
  /\ alive = Procs
  /\ typed = [p \in Procs |-> 0]
  /\ sendQueue = [p \in Procs |-> << >>]
  /\ waiting = [q \in Members |-> FALSE]
  /\ leaderPc = "front"
  /\ it = 1
  /\ retry_send = 0
  /\ current = [p \in Procs |-> IF p = Leader THEN 1 ELSE 0]
  /\ holdback = [p \in Procs |-> << >>]
  /\ printed = [p \in Procs |-> << >>]
  /\ chatNet = {}
  /\ acks = [p \in Procs |-> 0]
  /\ timeouts = 0
  /\ log = << >>

-----------------------------------------------------------------------------
(***************************************************************************)
(* The network and the receive timeouts.                                   *)
(***************************************************************************)

(* sendto: the datagram is under way, or is lost. *)
Send(d) == \/ chatNet' = chatNet \cup {d}
           \/ ~Prompt /\ chatNet' = chatNet

(* The ACK of receiveMessage goes to the ack port of whoever sent the      *)
(* datagram, and names neither the line nor the acknowledging process.     *)
SendAck(p) == \/ acks' = [acks EXCEPT ![p] = @ + 1]
              \/ ~Prompt /\ acks' = acks

TakeAck(p) == acks[p] > 0 /\ acks' = [acks EXCEPT ![p] = @ - 1]

AnswerComing(p) == \E d \in chatNet : d.src = p /\ d.to \in alive

(* SO_RCVTIMEO: a receive gives up after a second.  Unless the network is  *)
(* Prompt, the ACK, or the datagram it answers, may still be under way.    *)
Timeout(p) ==
  /\ IF Prompt THEN acks[p] = 0 /\ ~AnswerComing(p) /\ UNCHANGED timeouts
               ELSE timeouts < MaxTimeouts /\ timeouts' = timeouts + 1
  /\ UNCHANGED acks

-----------------------------------------------------------------------------
(* main: a line read from the user is pushed to the sendQueue. *)
TypeLine(p) ==
  /\ p \in alive
  /\ typed[p] < MaxTyped[p]
  /\ typed' = [typed EXCEPT ![p] = @ + 1]
  /\ sendQueue' = [sendQueue EXCEPT ![p] = Append(@, [from |-> p, n |-> typed[p] + 1])]
  /\ UNCHANGED <<alive, waiting, leaderVars, current, holdback, printed, chatNet,
                 acks, timeouts, log>>

-----------------------------------------------------------------------------
(***************************************************************************)
(* sendMessage of a member: the head of the queue goes to the leader until *)
(* some ACK arrives; only then is it popped.                               *)
(***************************************************************************)
MemberSend(q) ==
  /\ q \in alive
  /\ ~waiting[q]
  /\ sendQueue[q] # << >>
  /\ Send([to |-> Leader, src |-> q, type |-> "CHAT", line |-> Head(sendQueue[q]),
           seq |-> 0, copy |-> timeouts])
  /\ waiting' = [waiting EXCEPT ![q] = TRUE]
  /\ UNCHANGED <<alive, typed, sendQueue, leaderVars, current, holdback, printed,
                 acks, timeouts, log>>

(* Wrong variants: the wait, or the line, is not over when the ACK is in. *)
MemberAckedWaits(q) ==
  /\ q \in alive
  /\ waiting[q]
  /\ TakeAck(q)
  /\ sendQueue' = [sendQueue EXCEPT ![q] = Tail(@)]
  /\ UNCHANGED <<alive, typed, waiting, leaderVars, current, holdback, printed, chatNet,
                 timeouts, log>>

MemberAckedKeeps(q) ==
  /\ q \in alive
  /\ waiting[q]
  /\ TakeAck(q)
  /\ waiting' = [waiting EXCEPT ![q] = FALSE]
  /\ UNCHANGED <<alive, typed, sendQueue, leaderVars, current, holdback, printed,
                 chatNet, timeouts, log>>

MemberAcked(q) ==
  /\ q \in alive
  /\ waiting[q]
  /\ TakeAck(q)
  /\ sendQueue' = [sendQueue EXCEPT ![q] = Tail(@)]
  /\ waiting' = [waiting EXCEPT ![q] = FALSE]
  /\ UNCHANGED <<alive, typed, leaderVars, current, holdback, printed, chatNet,
                 timeouts, log>>

MemberTimeout(q) ==
  /\ q \in alive
  /\ waiting[q]
  /\ Timeout(q)
  /\ waiting' = [waiting EXCEPT ![q] = FALSE]
  /\ UNCHANGED <<alive, typed, sendQueue, leaderVars, current, holdback, printed,
                 chatNet, log>>

-----------------------------------------------------------------------------
(***************************************************************************)
(* sendMessage of the sequencer: the head of its queue gets the current    *)
(* number and is sent to every entry of socketList, the sequencer's own    *)
(* included, one at a time.                                                *)
(***************************************************************************)
LeaderFront ==
  /\ leaderPc = "front"
  /\ sendQueue[Leader] # << >>
  /\ log' = Append(log, Head(sendQueue[Leader]))
  /\ leaderPc' = "send"
  /\ it' = 1
  /\ UNCHANGED <<alive, typed, sendQueue, waiting, retry_send, current, holdback,
                 printed, chatNet, acks, timeouts>>

(* Only equality with MaxTries is ever tested, so the counter saturates. *)
Attempt(n) == IF n > MaxTries THEN n ELSE n + 1

LeaderSend ==
  /\ leaderPc = "send"
  /\ it <= Len(SocketList)
  /\ retry_send' = Attempt(retry_send)
  /\ Send([to |-> SocketList[it], src |-> Leader, type |-> "SEQ_CHAT",
           line |-> Head(sendQueue[Leader]), seq |-> current[Leader],
           copy |-> retry_send])
  /\ leaderPc' = "ack"
  /\ UNCHANGED <<alive, typed, sendQueue, waiting, it, current, holdback, printed,
                 acks, timeouts, log>>

(* Wrong variant: the iterator is advanced twice. *)
LeaderAckedSkips ==
  /\ leaderPc = "ack"
  /\ TakeAck(Leader)
  /\ retry_send' = 0
  /\ it' = IF it = Len(SocketList) THEN it + 1 ELSE it + 2
  /\ leaderPc' = "send"
  /\ UNCHANGED <<alive, typed, sendQueue, waiting, current, holdback, printed,
                 chatNet, timeouts, log>>

LeaderAcked ==
  /\ leaderPc = "ack"
  /\ TakeAck(Leader)
  /\ retry_send' = 0
  /\ it' = it + 1
  /\ leaderPc' = "send"
  /\ UNCHANGED <<alive, typed, sendQueue, waiting, current, holdback, printed,
                 chatNet, timeouts, log>>

(* Wrong variant: no attempt is the last. *)
LeaderTimeoutForever ==
  /\ leaderPc = "ack"
  /\ Timeout(Leader)
  /\ leaderPc' = "send"
  /\ UNCHANGED <<alive, typed, sendQueue, waiting, it, retry_send, current, holdback,
                 printed, chatNet, log>>

(* After the fifth attempt the client is skipped.  retry_send is left as   *)
(* it is: the next client starts from it.                                  *)
LeaderTimeout ==
  /\ leaderPc = "ack"
  /\ Timeout(Leader)
  /\ it' = IF retry_send = MaxTries THEN it + 1 ELSE it
  /\ leaderPc' = "send"
  /\ UNCHANGED <<alive, typed, sendQueue, waiting, retry_send, current, holdback,
                 printed, chatNet, log>>

(* Every entry served: the next number, the next line. *)
LeaderDone ==
  /\ leaderPc = "send"
  /\ it > Len(SocketList)
  /\ current' = [current EXCEPT ![Leader] = @ + 1]
  /\ sendQueue' = [sendQueue EXCEPT ![Leader] = Tail(@)]
  /\ leaderPc' = "front"
  /\ it' = 1
  /\ UNCHANGED <<alive, typed, waiting, retry_send, holdback, printed, chatNet, acks,
                 timeouts, log>>

-----------------------------------------------------------------------------
(***************************************************************************)
(* receiveMessage.  A member keeps only the number after its own; the      *)
(* sequencer keeps everything.  Both acknowledge every datagram.           *)
(***************************************************************************)
(* Wrong variants: any newer number, or a number already seen. *)
AcceptsNewer(p, d) == p = Leader \/ d.seq > current[p]
AcceptsAgain(p, d) == p = Leader \/ d.seq \in {current[p], current[p] + 1}

Accepts(p, d) == p = Leader \/ d.seq = current[p] + 1

ReceiveMessage(p, d) ==
  /\ p \in alive
  /\ d \in chatNet
  /\ d.to = p
  /\ chatNet' = chatNet \ {d}
  /\ IF Accepts(p, d)
     THEN holdback' = [holdback EXCEPT ![p] = Append(@, [type |-> d.type, line |-> d.line])]
     ELSE UNCHANGED holdback
  /\ IF Accepts(p, d) /\ p # Leader
     THEN current' = [current EXCEPT ![p] = @ + 1]
     ELSE UNCHANGED current
  /\ SendAck(d.src)
  /\ UNCHANGED <<alive, typed, sendQueue, waiting, leaderVars, printed, timeouts, log>>

(* Wrong variant: the sequencer shows a line when it receives it, not when *)
(* it has its number.                                                      *)
ProcessMessageEcho(p) ==
  /\ p \in alive
  /\ holdback[p] # << >>
  /\ LET h == Head(holdback[p])
     IN  /\ printed' = [printed EXCEPT ![p] = Append(@, h.line)]
         /\ sendQueue' = [sendQueue EXCEPT ![p] = IF h.type = "CHAT" THEN Append(@, h.line)
                                                                    ELSE @]
  /\ holdback' = [holdback EXCEPT ![p] = Tail(@)]
  /\ UNCHANGED <<alive, typed, waiting, leaderVars, current, chatNet, acks, timeouts,
                 log>>

(***************************************************************************)
(* processMessage.  A numbered line goes to the screen; a CHAT goes to the *)
(* sequencer's own sendQueue.  (A member that finds a CHAT at the head     *)
(* would spin on it: it has no branch for that.)                           *)
(***************************************************************************)
ProcessMessage(p) ==
  /\ p \in alive
  /\ holdback[p] # << >>
  /\ LET h == Head(holdback[p])
     IN \/ /\ h.type = "SEQ_CHAT"
           /\ printed' = [printed EXCEPT ![p] = Append(@, h.line)]
           /\ UNCHANGED sendQueue
        \/ /\ h.type = "CHAT"
           /\ p = Leader
           /\ sendQueue' = [sendQueue EXCEPT ![p] = Append(@, h.line)]
           /\ UNCHANGED printed
  /\ holdback' = [holdback EXCEPT ![p] = Tail(@)]
  /\ UNCHANGED <<alive, typed, waiting, leaderVars, current, chatNet, acks, timeouts,
                 log>>

-----------------------------------------------------------------------------
(* A member's process ends without a word. *)
Crash(q) ==
  /\ q \in alive
  /\ Cardinality(Procs \ alive) < MaxCrashes
  /\ alive' = alive \ {q}
  /\ UNCHANGED <<typed, sendQueue, waiting, leaderVars, current, holdback, printed,
                 chatNet, acks, timeouts, log>>

MemberStep(q) == MemberSend(q) \/ MemberAcked(q) \/ MemberTimeout(q)

LeaderStep == LeaderFront \/ LeaderSend \/ LeaderAcked \/ LeaderTimeout \/ LeaderDone

Receive(p) == \E d \in chatNet : ReceiveMessage(p, d)

Next ==
  \/ \E p \in Procs : TypeLine(p) \/ Receive(p) \/ ProcessMessage(p)
  \/ \E q \in Members : MemberStep(q) \/ Crash(q)
  \/ LeaderStep

Spec == Init /\ [][Next]_vars

(***************************************************************************)
(* Every thread of a live process is scheduled: the threads are kernel     *)
(* threads that block in recvfrom or on a condition variable.  Nothing     *)
(* makes a user type or a process crash.                                   *)
(***************************************************************************)
Fairness ==
  /\ WF_vars(LeaderStep)
  /\ \A q \in Members : WF_vars(MemberStep(q))
  /\ \A p \in Procs : WF_vars(Receive(p)) /\ WF_vars(ProcessMessage(p))

FairSpec == Spec /\ Fairness

-----------------------------------------------------------------------------
(***************************************************************************)
(* Properties.                                                             *)
(***************************************************************************)
(***************************************************************************)
(* What a member has shown, followed by what it holds back, is exactly the *)
(* first current[q] lines of the sequencer's log: no line is skipped,      *)
(* repeated or reordered, whatever is lost, retransmitted or overtaken     *)
(* (receiveMessage, `sequenceNum == currentSequenceNumber + 1`).           *)
(***************************************************************************)
MembersFollowLog ==
  \A q \in Members :
    /\ Len(printed[q]) + Len(holdback[q]) = current[q]
    /\ current[q] <= Len(log)
    /\ \A i \in 1 .. Len(printed[q]) : printed[q][i] = log[i]
    /\ \A i \in 1 .. Len(holdback[q]) :
         holdback[q][i].line = log[Len(printed[q]) + i]

(* The data path implements a global order that each member shows a prefix *)
(* of, one line at a time.                                                 *)
TO == INSTANCE TotalOrder WITH
        order <- log, shown <- [q \in Members |-> printed[q]]

TotalOrderSpec == TO!Spec

(***************************************************************************)
(* sendMessage pops a member's line only when it is acknowledged           *)
(* (dchat.cpp:615, "retry if it first send fails"): a line that has left   *)
(* the sendQueue has reached the sequencer, or is about to.                *)
(***************************************************************************)
Popped(q) == {[from |-> q, n |-> k] : k \in 1 .. typed[q] - Len(sendQueue[q])}

ReachesSequencer(l) ==
  \/ \E i \in 1 .. Len(log) : log[i] = l
  \/ \E i \in 1 .. Len(sendQueue[Leader]) : sendQueue[Leader][i] = l
  \/ \E i \in 1 .. Len(holdback[Leader]) : holdback[Leader][i].line = l
  \/ \E d \in chatNet : d.line = l

AckedLinesReachSequencer == \A q \in Members : \A l \in Popped(q) : ReachesSequencer(l)

(***************************************************************************)
(* On a prompt network, the sequencer gives a number to each line once.    *)
(***************************************************************************)
LinesNumberedOnce == \A i, j \in 1 .. Len(log) : log[i] = log[j] => i = j

(* On a prompt network the sequencer, which does not check numbers, shows  *)
(* the same order as the members: a prefix of the log, without repetition. *)
SequencerShowsLog ==
  /\ Len(printed[Leader]) <= Len(log)
  /\ \A i \in 1 .. Len(printed[Leader]) : printed[Leader][i] = log[i]

(* On a prompt network the sequencer takes up the next number only when    *)
(* every live member has accepted the previous one: no live member is ever *)
(* left behind, waiting for a number that is no longer sent.               *)
LiveMembersKeepUp == \A q \in Members \cap alive : current[q] >= current[Leader] - 1

(***************************************************************************)
(* On a prompt network, a line typed at a process that stays up is         *)
(* eventually shown by the sequencer and by every member that stays up,    *)
(* also when a member crashes in the middle of a multicast.                *)
(***************************************************************************)
Shown(l, p) == \E i \in 1 .. Len(printed[p]) : printed[p][i] = l

EveryLineShown ==
  \A p, r \in Procs : \A k \in 1 .. MaxTyped[p] :
    typed[p] >= k ~> \/ Shown([from |-> p, n |-> k], r)
                     \/ ~({p, r} \subseteq alive)
-----------------------------------------------------------------------------
(***************************************************************************)
(* The inductive invariant behind MembersFollowLog and TotalOrderSpec.     *)
(***************************************************************************)
(* The line being multicast is the last of the log, and every earlier      *)
(* number has been given out exactly once.                                 *)
Numbered == /\ current[Leader] >= 1
            /\ Len(log) = IF leaderPc = "front" THEN current[Leader] - 1
                                                ELSE current[Leader]

(* While a multicast is under way its line stays at the head of the queue, *)
(* and an ACK is awaited only from a client of the list.                   *)
Multicasting ==
  /\ leaderPc # "front" => /\ sendQueue[Leader] # << >>
                           /\ log[Len(log)] = Head(sendQueue[Leader])
  /\ leaderPc = "ack" => it <= Len(SocketList)

(* A numbered datagram carries the line of its number; only the sequencer  *)
(* is ever sent a line without a number.                                   *)
DatagramsNumbered ==
  \A d \in chatNet :
    /\ d.type = "CHAT" => d.to = Leader
    /\ d.type = "SEQ_CHAT" => d.seq \in 1 .. Len(log) /\ d.line = log[d.seq]

(* A member never holds back a line without a number, on which its         *)
(* processMessage would spin.                                              *)
MembersHoldNumbered ==
  \A q \in Members : \A i \in 1 .. Len(holdback[q]) : holdback[q][i].type = "SEQ_CHAT"

WaitingForHead == \A q \in Members : waiting[q] => sendQueue[q] # << >>

(* Every line in a queue or under way was typed by its author.             *)
TypedLines == {l \in Lines : l.n <= typed[l.from]}

NothingInvented ==
  /\ sendQueue \in [Procs -> Seq(TypedLines)]
  /\ holdback \in [Procs -> Seq([type : {"CHAT", "SEQ_CHAT"}, line : TypedLines])]
  /\ \A d \in chatNet : d.line \in TypedLines

IInv == /\ TypeOK
        /\ Numbered
        /\ Multicasting
        /\ DatagramsNumbered
        /\ MembersHoldNumbered
        /\ WaitingForHead
        /\ NothingInvented
        /\ MembersFollowLog
-----------------------------------------------------------------------------
(***************************************************************************)
(* The inductive invariant of a prompt network, behind LinesNumberedOnce,  *)
(* SequencerShowsLog and LiveMembersKeepUp.                                *)
(***************************************************************************)
(* socketList as noticeThread keeps it: each process has one entry.        *)
EachListedOnce ==
  /\ \A p \in Procs : \E i \in 1 .. Len(SocketList) : SocketList[i] = p
  /\ \A i, j \in 1 .. Len(SocketList) : SocketList[i] = SocketList[j] => i = j

FromSequencer == {d \in chatNet : d.src = Leader /\ d.to \in alive}

(* The client with position i has the number of the line being multicast.  *)
HasNumber(i) ==
  SocketList[i] \in Members \cap alive => current[SocketList[i]] >= current[Leader]

(* The ACK that the sequencer awaits is that of the present client.        *)
OneClientAtATime ==
  /\ leaderPc # "ack" => FromSequencer = {} /\ acks[Leader] = 0
  /\ leaderPc = "ack" =>
       \/ acks[Leader] = 1 /\ FromSequencer = {} /\ HasNumber(it)
       \/ /\ acks[Leader] = 0
          /\ SocketList[it] \in alive => FromSequencer # {}
          /\ \A d \in FromSequencer :
               /\ d.type = "SEQ_CHAT" /\ d.to = SocketList[it] /\ d.seq = current[Leader]
               /\ FromSequencer = {d}

(* Whoever the multicast has passed has the number, the others have the    *)
(* one before.                                                             *)
ServedKeepUp ==
  /\ LiveMembersKeepUp
  /\ leaderPc # "front" => \A i \in 1 .. Len(SocketList) : i < it => HasNumber(i)

FromMember(q) == {d \in chatNet : d.src = q}

(* A member has one line under way at most, the head of its queue, to a    *)
(* sequencer that is up.                                                   *)
OneLineAtATime ==
  /\ Leader \in alive
  /\ \A d \in chatNet : d.type = "CHAT" => d.src \in Members
  /\ \A q \in Members :
       /\ ~waiting[q] => FromMember(q) = {} /\ acks[q] = 0
       /\ waiting[q] =>
            \/ acks[q] = 1 /\ FromMember(q) = {}
            \/ acks[q] = 0 /\ \E d \in FromMember(q) : /\ FromMember(q) = {d}
                                                       /\ d.type = "CHAT"
                                                       /\ d.line = Head(sendQueue[q])

(* A member's queue has the last of its lines, in the order typed.         *)
QueuedInOrder ==
  \A q \in Members : \A i \in 1 .. Len(sendQueue[q]) :
    sendQueue[q][i] = [from |-> q, n |-> typed[q] - Len(sendQueue[q]) + i]

(* The lines of p that have reached the sequencer are numbered up to this. *)
Reached ==
  [p \in Procs |-> IF p = Leader THEN typed[p]
                   ELSE typed[p] - Len(sendQueue[p])
                          + (IF waiting[p] /\ acks[p] = 1 THEN 1 ELSE 0)]

(* What the sequencer's sendMessage has still to give a number.            *)
Unnumbered == IF leaderPc = "front" THEN sendQueue[Leader] ELSE Tail(sendQueue[Leader])

Precedes(k, l) == k.from = l.from => k.n < l.n

ChatsIn(held) == {i \in 1 .. Len(held) : held[i].type = "CHAT"}

(* Every line at the sequencer is in one place: numbered, waiting for a    *)
(* number, or held back; and the lines of an author go from place to place *)
(* in the order in which they were typed.                                  *)
InOrder(numbered, queued, held, reached) ==
  LET N == 1 .. Len(numbered)
      Q == 1 .. Len(queued)
      H == ChatsIn(held)
  IN  /\ \A i \in N : numbered[i].n <= reached[numbered[i].from]
      /\ \A i \in Q : queued[i].n <= reached[queued[i].from]
      /\ \A i \in H : /\ held[i].line.from # Leader
                      /\ held[i].line.n <= reached[held[i].line.from]
      /\ \A i, j \in N : i < j => Precedes(numbered[i], numbered[j])
      /\ \A i, j \in Q : i < j => Precedes(queued[i], queued[j])
      /\ \A i, j \in H : i < j => Precedes(held[i].line, held[j].line)
      /\ \A i \in N, j \in Q : Precedes(numbered[i], queued[j])
      /\ \A i \in N, j \in H : Precedes(numbered[i], held[j].line)
      /\ \A i \in Q, j \in H : Precedes(queued[i], held[j].line)

InTypedOrder == InOrder(log, Unnumbered, holdback[Leader], Reached)

(* The lines of which the sequencer has received its own copy.             *)
OwnCopyTaken ==
  \/ leaderPc = "front"
  \/ \E i \in 1 .. Len(SocketList) :
       /\ SocketList[i] = Leader
       /\ i < it \/ (i = it /\ leaderPc = "ack" /\ acks[Leader] = 1)

Own == IF OwnCopyTaken THEN Len(log) ELSE Len(log) - 1

(* The copies it holds back are the lines it has still to show, in order.  *)
Copies(lines) == [k \in 1 .. Len(lines) |-> [type |-> "SEQ_CHAT", line |-> lines[k]]]

CopiesFollow(shown, held, lines, own) ==
  LET due == Len(shown) + 1 .. own
      H   == 1 .. Len(held)
      IsCopy(i, k) == held[i] = Copies(lines)[k]
  IN  /\ Len(shown) <= own /\ own <= Len(lines)
      /\ \A i \in 1 .. Len(shown) : shown[i] = lines[i]
      /\ \A k \in due : \E i \in H : IsCopy(i, k)
      /\ \A i \in H : held[i].type = "SEQ_CHAT" => \E k \in due : IsCopy(i, k)
      /\ \A k, l \in due : \A i, j \in H : IsCopy(i, k) /\ IsCopy(j, l) /\ i < j => k < l

OwnCopiesFollow == CopiesFollow(printed[Leader], holdback[Leader], log, Own)

PromptIInv == OneClientAtATime /\ ServedKeepUp /\ OneLineAtATime /\ QueuedInOrder
              /\ InTypedOrder /\ OwnCopiesFollow
=============================================================================
