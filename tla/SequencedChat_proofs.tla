------------------------ MODULE SequencedChat_proofs ------------------------
(***************************************************************************)
(* Proofs about SequencedChat, for every group, every number of lines, and *)
(* any loss, delay, reordering, timeout and crash of members: IInv is      *)
(* inductive, hence members show one common order; and the data path       *)
(* implements TotalOrder.  The second half is about a prompt network.      *)
(***************************************************************************)
EXTENDS SequencedChat, TLAPS

(* The head of a queue is one of its entries, and appending at the back    *)
(* leaves it alone: what sendMessage copies with front() stays the head.   *)
LEMMA HeadOfQueue ==
  ASSUME NEW S, NEW s \in Seq(S), NEW e \in S, s # << >>
  PROVE  /\ Head(s) \in S
         /\ Head(s) = s[1]
         /\ Tail(s) \in Seq(S)
         /\ Len(Tail(s)) = Len(s) - 1
         /\ \A i \in 1 .. Len(s) - 1 : Tail(s)[i] = s[i + 1]
         /\ Head(Append(s, e)) = Head(s)
  OBVIOUS

LEMMA AppendToQueue ==
  ASSUME NEW S, NEW s \in Seq(S), NEW e \in S
  PROVE  /\ Append(s, e) \in Seq(S)
         /\ Append(s, e) # << >>
         /\ Len(Append(s, e)) = Len(s) + 1
         /\ \A i \in 1 .. Len(s) : Append(s, e)[i] = s[i]
         /\ Append(s, e)[Len(s) + 1] = e
  OBVIOUS

(* A push to the queue of one process gives a queue of the same type. *)
LEMMA PushTyped ==
  ASSUME NEW D, NEW S, NEW f \in [D -> Seq(S)], NEW p \in D, NEW e \in S
  PROVE  [f EXCEPT ![p] = Append(@, e)] \in [D -> Seq(S)]
  OBVIOUS

LEMMA MembersAreProcs ==
  Leader \in Procs /\ \A q \in Members : q \in Procs /\ q # Leader
  BY GroupAssumption DEF Members

(* Initially nothing is queued, under way or shown. *)
LEMMA InitIInv == Init => IInv
  BY GroupAssumption, BoundAssumption DEF Init, IInv, TypeOK, Numbered, Multicasting, DatagramsNumbered,
         MembersHoldNumbered, WaitingForHead, NothingInvented, TypedLines,
         MembersFollowLog, Members, Lines, Held, Datagrams

(* The variables keep their types. *)
LEMMA TypeStep == IInv /\ [Next]_vars => TypeOK'
<1> SUFFICES ASSUME TypeOK, Multicasting, WaitingForHead, [Next]_vars PROVE TypeOK'
  BY DEF IInv
<1>1. ASSUME NEW p \in Procs, TypeLine(p) PROVE TypeOK'
  <2>1. typed[p] + 1 \in Nat \ {0}
    BY DEF TypeOK
  <2>2. [from |-> p, n |-> typed[p] + 1] \in Lines
    BY <2>1 DEF Lines
  <2>3. sendQueue' \in [Procs -> Seq(Lines)] /\ typed' \in [Procs -> Nat]
    BY <1>1, <2>1, <2>2 DEF TypeOK, TypeLine
  <2> QED
    BY <1>1, <2>3 DEF TypeOK, TypeLine, leaderVars
<1>2. ASSUME NEW p \in Procs, Receive(p) PROVE TypeOK'
  <2>1. PICK d \in chatNet : ReceiveMessage(p, d)
    BY <1>2 DEF Receive
  <2>2. d.src \in Procs /\ [type |-> d.type, line |-> d.line] \in Held
    <3>1. d \in Datagrams
      BY DEF TypeOK
    <3> QED
      BY <3>1 DEF Datagrams, Held
  <2>3. holdback' \in [Procs -> Seq(Held)]
    <3>1. holdback \in [Procs -> Seq(Held)]
      BY DEF TypeOK
    <3>2. CASE Accepts(p, d)
      BY <2>1, <2>2, <3>1, <3>2 DEF ReceiveMessage
    <3>3. CASE ~Accepts(p, d)
      BY <2>1, <3>1, <3>3 DEF ReceiveMessage
    <3> QED
      BY <3>2, <3>3
  <2>4. current' \in [Procs -> Nat]
    <3>1. current \in [Procs -> Nat]
      BY DEF TypeOK
    <3>2. CASE Accepts(p, d) /\ p # Leader
      BY <2>1, <3>1, <3>2 DEF ReceiveMessage
    <3>3. CASE ~(Accepts(p, d) /\ p # Leader)
      BY <2>1, <3>1, <3>3 DEF ReceiveMessage
    <3> QED
      BY <3>2, <3>3
  <2>5. acks' \in [Procs -> Nat]
    <3>1. SendAck(d.src) /\ acks \in [Procs -> Nat]
      BY <2>1 DEF ReceiveMessage, TypeOK
    <3> QED
      BY <2>2, <3>1 DEF SendAck
  <2> QED
    BY <2>1, <2>3, <2>4, <2>5 DEF ReceiveMessage, leaderVars, TypeOK
<1>3. ASSUME NEW p \in Procs, ProcessMessage(p) PROVE TypeOK'
  <2>1. Head(holdback[p]) \in Held /\ Tail(holdback[p]) \in Seq(Held)
    BY <1>3 DEF ProcessMessage, TypeOK
  <2>2. Head(holdback[p]).line \in Lines
    BY <2>1 DEF Held
  <2>3. holdback' \in [Procs -> Seq(Held)]
    BY <1>3, <2>1 DEF ProcessMessage, TypeOK
  <2>4. sendQueue' \in [Procs -> Seq(Lines)] /\ printed' \in [Procs -> Seq(Lines)]
    <3>1. sendQueue \in [Procs -> Seq(Lines)] /\ printed \in [Procs -> Seq(Lines)]
      BY DEF TypeOK
    <3>2. \/ /\ printed' = [printed EXCEPT ![p] = Append(@, Head(holdback[p]).line)]
             /\ sendQueue' = sendQueue
          \/ /\ sendQueue' = [sendQueue EXCEPT ![p] = Append(@, Head(holdback[p]).line)]
             /\ printed' = printed
      BY <1>3 DEF ProcessMessage
    <3> DEFINE l == Head(holdback[p]).line
    <3>3. /\ [printed EXCEPT ![p] = Append(@, l)] \in [Procs -> Seq(Lines)]
          /\ [sendQueue EXCEPT ![p] = Append(@, l)] \in [Procs -> Seq(Lines)]
      BY <2>2, <3>1, PushTyped
    <3> QED
      BY <3>1, <3>2, <3>3
  <2> QED
    BY <1>3, <2>3, <2>4 DEF ProcessMessage, leaderVars, TypeOK
<1>4. ASSUME NEW q \in Members, MemberSend(q) PROVE TypeOK'
  <2>1. q \in Procs
    BY MembersAreProcs
  <2>2. Head(sendQueue[q]) \in Lines
    BY <1>4, <2>1 DEF MemberSend, TypeOK
  <2>3. [to |-> Leader, src |-> q, type |-> "CHAT", line |-> Head(sendQueue[q]),
         seq |-> 0, copy |-> timeouts] \in Datagrams
    BY <2>1, <2>2, MembersAreProcs DEF Datagrams, TypeOK
  <2>4. chatNet' \in SUBSET Datagrams
    BY <1>4, <2>3 DEF MemberSend, Send, TypeOK
  <2> QED
    BY <1>4, <2>4 DEF MemberSend, leaderVars, TypeOK
<1>5. ASSUME NEW q \in Members, MemberAcked(q) PROVE TypeOK'
  <2>1. q \in Procs
    BY MembersAreProcs
  <2>2. Tail(sendQueue[q]) \in Seq(Lines)
    BY <1>5, <2>1 DEF MemberAcked, WaitingForHead, TypeOK
  <2>3. acks' \in [Procs -> Nat]
    BY <1>5, <2>1 DEF MemberAcked, TakeAck, TypeOK
  <2> QED
    BY <1>5, <2>2, <2>3 DEF MemberAcked, leaderVars, TypeOK
<1>6. ASSUME NEW q \in Members, MemberTimeout(q) PROVE TypeOK'
  <2>1. timeouts' \in Nat /\ acks' = acks
    BY <1>6 DEF MemberTimeout, Timeout, TypeOK
  <2>2. waiting' \in [Members -> BOOLEAN]
    BY <1>6 DEF MemberTimeout, TypeOK
  <2>3. UNCHANGED <<alive, typed, sendQueue, leaderVars, current, holdback, printed,
                    chatNet, log>>
    BY <1>6 DEF MemberTimeout
  <2> QED
    BY <2>1, <2>2, <2>3 DEF leaderVars, TypeOK
<1>7. ASSUME NEW q \in Members, Crash(q) PROVE TypeOK'
  BY <1>7 DEF Crash, leaderVars, TypeOK
<1>8. CASE LeaderFront
  <2>1. Head(sendQueue[Leader]) \in Lines
    BY <1>8, MembersAreProcs DEF LeaderFront, TypeOK
  <2>2. log' \in Seq(Lines)
    BY <1>8, <2>1 DEF LeaderFront, TypeOK
  <2>3. it' \in 1 .. Len(SocketList) + 1
    BY <1>8, GroupAssumption DEF LeaderFront
  <2> QED
    BY <1>8, <2>2, <2>3 DEF LeaderFront, TypeOK
<1>9. CASE LeaderSend
  <2>1. Head(sendQueue[Leader]) \in Lines
    BY <1>9, MembersAreProcs DEF LeaderSend, Multicasting, TypeOK
  <2>2. SocketList[it] \in Procs
    BY <1>9, GroupAssumption DEF LeaderSend, TypeOK
  <2>3. current[Leader] \in Nat /\ retry_send \in Nat
    BY MembersAreProcs, BoundAssumption DEF TypeOK
  <2>4. [to |-> SocketList[it], src |-> Leader, type |-> "SEQ_CHAT",
         line |-> Head(sendQueue[Leader]), seq |-> current[Leader],
         copy |-> retry_send] \in Datagrams
    BY <2>1, <2>2, <2>3, MembersAreProcs DEF Datagrams
  <2>5. chatNet' \in SUBSET Datagrams
    BY <1>9, <2>4 DEF LeaderSend, Send, TypeOK
  <2>6. retry_send' \in 0 .. MaxTries + 1
    BY <1>9, BoundAssumption DEF LeaderSend, Attempt, TypeOK
  <2> QED
    BY <1>9, <2>5, <2>6 DEF LeaderSend, TypeOK
<1>10. CASE LeaderAcked
  <2>1. it' \in 1 .. Len(SocketList) + 1 /\ retry_send' \in 0 .. MaxTries + 1
    BY <1>10, GroupAssumption, BoundAssumption DEF LeaderAcked, Multicasting, TypeOK
  <2>2. acks' \in [Procs -> Nat]
    BY <1>10, MembersAreProcs DEF LeaderAcked, TakeAck, TypeOK
  <2> QED
    BY <1>10, <2>1, <2>2 DEF LeaderAcked, TypeOK
<1>11. CASE LeaderTimeout
  <2>1. it' \in 1 .. Len(SocketList) + 1
    <3>1. it \in 1 .. Len(SocketList) /\ Len(SocketList) \in Nat
      BY <1>11, GroupAssumption DEF LeaderTimeout, Multicasting, TypeOK
    <3>2. it' = it \/ it' = it + 1
      BY <1>11 DEF LeaderTimeout
    <3> QED
      BY <3>1, <3>2
  <2>2. timeouts' \in Nat /\ acks' = acks
    BY <1>11 DEF LeaderTimeout, Timeout, TypeOK
  <2>3. leaderPc' = "send" /\ UNCHANGED <<alive, typed, sendQueue, waiting, retry_send,
                                          current, holdback, printed, chatNet, log>>
    BY <1>11 DEF LeaderTimeout
  <2> QED
    BY <2>1, <2>2, <2>3 DEF TypeOK
<1>12. CASE LeaderDone
  <2>1. Tail(sendQueue[Leader]) \in Seq(Lines)
    BY <1>12, MembersAreProcs DEF LeaderDone, Multicasting, TypeOK
  <2>2. current' \in [Procs -> Nat]
    BY <1>12, MembersAreProcs DEF LeaderDone, TypeOK
  <2>3. it' \in 1 .. Len(SocketList) + 1
    BY <1>12, GroupAssumption DEF LeaderDone
  <2> QED
    BY <1>12, <2>1, <2>2, <2>3 DEF LeaderDone, TypeOK
<1>13. CASE UNCHANGED vars
  BY <1>13 DEF vars, leaderVars, TypeOK
<1> QED
  BY <1>1, <1>2, <1>3, <1>4, <1>5, <1>6, <1>7, <1>8, <1>9, <1>10, <1>11, <1>12,
     <1>13 DEF Next, MemberStep, LeaderStep

(* The log only grows, by the line that LeaderFront takes up. *)
LEMMA LogGrows ==
  ASSUME TypeOK, [Next]_vars
  PROVE  /\ Len(log) <= Len(log')
         /\ \A i \in 1 .. Len(log) : log'[i] = log[i]
         /\ log' # log => LeaderFront
<1>1. CASE LeaderFront
  <2>1. log \in Seq(Lines) /\ Head(sendQueue[Leader]) \in Lines
    BY <1>1, MembersAreProcs DEF LeaderFront, TypeOK
  <2> QED
    BY <1>1, <2>1, AppendToQueue DEF LeaderFront
<1>2. CASE ~LeaderFront
  <2>1. log' = log
    BY <1>2 DEF Next, vars, TypeLine, Receive, ReceiveMessage, ProcessMessage,
                MemberStep, MemberSend, MemberAcked, MemberTimeout, Crash,
                LeaderStep, LeaderSend, LeaderAcked, LeaderTimeout, LeaderDone
  <2> QED
    BY <2>1 DEF TypeOK
<1> QED
  BY <1>1, <1>2

(* The sequencer's thread: numbers and log go together, and the line in    *)
(* hand stays at the head of the queue, to which other threads only append.*)
LEMMA SequencerStep == IInv /\ [Next]_vars => (Numbered /\ Multicasting)'
<1> SUFFICES ASSUME TypeOK, Numbered, Multicasting, WaitingForHead, [Next]_vars
             PROVE  (Numbered /\ Multicasting)'
  BY DEF IInv
<1> DEFINE Q == sendQueue[Leader]
           Idle == UNCHANGED <<leaderPc, it, log>> /\ current'[Leader] = current[Leader]
<1>0. Q \in Seq(Lines) /\ log \in Seq(Lines) /\ current[Leader] \in Nat
  BY MembersAreProcs DEF TypeOK
<1>a. ASSUME Idle, \/ sendQueue'[Leader] = Q
                   \/ \E l \in Lines : sendQueue'[Leader] = Append(Q, l)
      PROVE  (Numbered /\ Multicasting)'
  <2>1. Q # << >> => sendQueue'[Leader] # << >> /\ Head(sendQueue'[Leader]) = Head(Q)
    BY <1>0, <1>a, HeadOfQueue, AppendToQueue
  <2> QED
    BY <1>a, <2>1 DEF Numbered, Multicasting
<1>1. ASSUME NEW p \in Procs, TypeLine(p) PROVE (Numbered /\ Multicasting)'
  <2>1. [from |-> p, n |-> typed[p] + 1] \in Lines
    <3>1. typed[p] + 1 \in Nat \ {0}
      BY DEF TypeOK
    <3> QED
      BY <3>1 DEF Lines
  <2>2. Idle
    BY <1>1 DEF TypeLine, leaderVars
  <2>3. \/ sendQueue'[Leader] = Q
        \/ sendQueue'[Leader] = Append(Q, [from |-> p, n |-> typed[p] + 1])
    BY <1>1, MembersAreProcs DEF TypeLine, TypeOK
  <2> QED
    BY <1>a, <2>1, <2>2, <2>3
<1>2. ASSUME NEW p \in Procs, Receive(p) PROVE (Numbered /\ Multicasting)'
  <2>1. PICK d \in chatNet : ReceiveMessage(p, d)
    BY <1>2 DEF Receive
  <2>2. Idle /\ sendQueue' = sendQueue
    <3>1. current'[Leader] = current[Leader]
      BY <2>1, MembersAreProcs DEF ReceiveMessage, TypeOK
    <3> QED
      BY <2>1, <3>1 DEF ReceiveMessage, leaderVars
  <2> QED
    BY <1>a, <2>2
<1>3. ASSUME NEW p \in Procs, ProcessMessage(p) PROVE (Numbered /\ Multicasting)'
  <2>1. Head(holdback[p]).line \in Lines
    <3>1. Head(holdback[p]) \in Held
      BY <1>3 DEF ProcessMessage, TypeOK
    <3> QED
      BY <3>1 DEF Held
  <2>2. Idle
    BY <1>3 DEF ProcessMessage, leaderVars
  <2>3. \/ sendQueue' = sendQueue
        \/ sendQueue' = [sendQueue EXCEPT ![p] = Append(@, Head(holdback[p]).line)]
    BY <1>3 DEF ProcessMessage
  <2>4. \/ sendQueue'[Leader] = Q
        \/ sendQueue'[Leader] = Append(Q, Head(holdback[p]).line)
    BY <2>3, MembersAreProcs DEF TypeOK
  <2> QED
    BY <1>a, <2>1, <2>2, <2>4
<1>4. ASSUME NEW q \in Members, MemberStep(q) \/ Crash(q)
      PROVE  (Numbered /\ Multicasting)'
  <2>1. Idle
    BY <1>4 DEF MemberStep, MemberSend, MemberAcked, MemberTimeout, Crash, leaderVars
  <2>2. sendQueue'[Leader] = Q
    BY <1>4, MembersAreProcs
       DEF MemberStep, MemberSend, MemberAcked, MemberTimeout, Crash, TypeOK
  <2> QED
    BY <1>a, <2>1, <2>2
<1>5. CASE LeaderFront
  <2>1. Head(Q) \in Lines
    BY <1>0, <1>5 DEF LeaderFront
  <2>2. Len(log') = Len(log) + 1 /\ log'[Len(log) + 1] = Head(Q)
    BY <1>0, <1>5, <2>1, AppendToQueue DEF LeaderFront
  <2> QED
    BY <1>0, <1>5, <2>2 DEF LeaderFront, Numbered, Multicasting
<1>6. CASE LeaderSend \/ LeaderAcked \/ LeaderTimeout
  <2>1. /\ UNCHANGED <<log, current, sendQueue>>
        /\ leaderPc # "front" /\ leaderPc' # "front"
        /\ leaderPc' = "ack" => it' <= Len(SocketList)
    BY <1>6 DEF LeaderSend, LeaderAcked, LeaderTimeout
  <2> QED
    BY <2>1 DEF Numbered, Multicasting
<1>7. CASE LeaderDone
  <2>1. current'[Leader] = current[Leader] + 1
    BY <1>7, MembersAreProcs DEF LeaderDone, TypeOK
  <2> QED
    BY <1>0, <1>7, <2>1 DEF LeaderDone, Numbered, Multicasting
<1>8. CASE UNCHANGED vars
  BY <1>8 DEF vars, leaderVars, Numbered, Multicasting
<1> QED
  BY <1>1, <1>2, <1>3, <1>4, <1>5, <1>6, <1>7, <1>8 DEF Next, LeaderStep

(* A numbered datagram leaves the sequencer with the last line of the log. *)
LEMMA DatagramStep == IInv /\ [Next]_vars => DatagramsNumbered'
<1> SUFFICES ASSUME IInv, [Next]_vars,
                    NEW d \in chatNet'
             PROVE  /\ d.type = "CHAT" => d.to = Leader
                    /\ d.type = "SEQ_CHAT" => d.seq \in 1 .. Len(log') /\ d.line = log'[d.seq]
  BY DEF DatagramsNumbered
<1>0. TypeOK /\ Numbered /\ Multicasting /\ DatagramsNumbered
  BY DEF IInv
<1>1. CASE d \in chatNet
  <2>1. /\ d.type = "CHAT" => d.to = Leader
        /\ d.type = "SEQ_CHAT" => d.seq \in 1 .. Len(log) /\ d.line = log[d.seq]
    BY <1>0, <1>1 DEF DatagramsNumbered
  <2>2. log \in Seq(Lines) /\ log' \in Seq(Lines)
    BY <1>0, TypeStep DEF IInv, TypeOK
  <2> QED
    BY <1>0, <2>1, <2>2, LogGrows
<1>2. CASE d \notin chatNet
  <2>1. (\E q \in Members : MemberSend(q)) \/ LeaderSend
    BY <1>2 DEF Next, vars, TypeLine, Receive, ReceiveMessage, ProcessMessage,
                MemberStep, MemberAcked, MemberTimeout, Crash,
                LeaderStep, LeaderFront, LeaderAcked, LeaderTimeout, LeaderDone
  <2>2. ASSUME NEW q \in Members, MemberSend(q) PROVE d.type = "CHAT" /\ d.to = Leader
    BY <1>2, <2>2 DEF MemberSend, Send
  <2>3. ASSUME LeaderSend
        PROVE  /\ d.type = "SEQ_CHAT"
               /\ d.seq \in 1 .. Len(log')
               /\ d.line = log'[d.seq]
    <3>1. /\ d.type = "SEQ_CHAT" /\ d.seq = current[Leader]
          /\ d.line = Head(sendQueue[Leader]) /\ log' = log /\ leaderPc = "send"
      BY <1>2, <2>3 DEF LeaderSend, Send
    <3>2. Len(log) = current[Leader] /\ log[Len(log)] = Head(sendQueue[Leader])
      BY <1>0, <3>1 DEF Numbered, Multicasting
    <3>3. current[Leader] \in Nat /\ current[Leader] >= 1
      BY <1>0, MembersAreProcs DEF Numbered, TypeOK
    <3> QED
      BY <3>1, <3>2, <3>3
  <2> QED
    BY <2>1, <2>2, <2>3
<1> QED
  BY <1>1, <1>2

(* What a member holds back and shows changes only by its own receive and  *)
(* process threads.                                                        *)
LEMMA MemberUntouched ==
  ASSUME TypeOK, [Next]_vars, NEW q \in Members, ~Receive(q), ~ProcessMessage(q)
  PROVE  /\ holdback'[q] = holdback[q]
         /\ printed'[q] = printed[q]
         /\ current'[q] = current[q]
<1>0. q \in Procs /\ q # Leader
  BY MembersAreProcs
<1>1. ASSUME NEW p \in Procs, Receive(p), p # q
      PROVE  /\ holdback'[q] = holdback[q]
             /\ printed'[q] = printed[q]
             /\ current'[q] = current[q]
  <2>1. PICK d \in chatNet : ReceiveMessage(p, d)
    BY <1>1 DEF Receive
  <2> QED
    BY <1>0, <1>1, <2>1 DEF ReceiveMessage, TypeOK
<1>2. ASSUME NEW p \in Procs, ProcessMessage(p), p # q
      PROVE  /\ holdback'[q] = holdback[q]
             /\ printed'[q] = printed[q]
             /\ current'[q] = current[q]
  BY <1>0, <1>2 DEF ProcessMessage, TypeOK
<1>3. CASE LeaderDone
  BY <1>0, <1>3 DEF LeaderDone, TypeOK
<1>4. CASE \/ UNCHANGED vars
           \/ \E p \in Procs : TypeLine(p)
           \/ \E r \in Members : MemberStep(r) \/ Crash(r)
           \/ LeaderFront \/ LeaderSend \/ LeaderAcked \/ LeaderTimeout
  BY <1>4 DEF vars, TypeLine, MemberStep, MemberSend, MemberAcked, MemberTimeout,
              Crash, LeaderFront, LeaderSend, LeaderAcked, LeaderTimeout
<1> QED
  BY <1>1, <1>2, <1>3, <1>4 DEF Next, LeaderStep

(* P shown and H held back are the first c lines of the log L. *)
Follows(P, H, L, c) ==
  /\ Len(P) + Len(H) = c
  /\ c <= Len(L)
  /\ \A i \in 1 .. Len(P) : P[i] = L[i]
  /\ \A i \in 1 .. Len(H) : H[i].type = "SEQ_CHAT" /\ H[i].line = L[Len(P) + i]

(* Holding back the next line of the log keeps a member in step with it. *)
LEMMA HoldNextLine ==
  ASSUME NEW P \in Seq(Lines), NEW H \in Seq(Held), NEW L \in Seq(Lines), NEW h \in Held,
         NEW c \in Nat, Follows(P, H, L, c), c + 1 <= Len(L),
         h.type = "SEQ_CHAT", h.line = L[c + 1]
  PROVE  Follows(P, Append(H, h), L, c + 1)
<1> DEFINE G == Append(H, h)
<1>1. /\ Len(G) = Len(H) + 1
      /\ \A i \in 1 .. Len(H) : G[i] = H[i]
      /\ G[Len(H) + 1] = h
  BY AppendToQueue
<1> HIDE DEF G
<1>2. Len(P) \in Nat /\ Len(H) \in Nat /\ Len(L) \in Nat
  OBVIOUS
<1>3. ASSUME NEW i \in 1 .. Len(G)
      PROVE  G[i].type = "SEQ_CHAT" /\ G[i].line = L[Len(P) + i]
  <2>1. i \in 1 .. Len(H) \/ i = Len(H) + 1
    BY <1>1, <1>2
  <2>2. CASE i \in 1 .. Len(H)
    BY <1>1, <2>2 DEF Follows
  <2>3. CASE i = Len(H) + 1
    <3>1. c + 1 = Len(P) + (Len(H) + 1)
      BY <1>2 DEF Follows
    <3>2. h.line = L[Len(P) + (Len(H) + 1)]
      BY <3>1
    <3> QED
      BY <1>1, <2>3, <3>2
  <2> QED
    BY <2>1, <2>2, <2>3
<1>4. Len(P) + Len(G) = c + 1
  BY <1>1, <1>2 DEF Follows
<1> QED
  BY <1>3, <1>4 DEF Follows, G

(* So does showing the first of the lines held back. *)
LEMMA ShowHeldLine ==
  ASSUME NEW P \in Seq(Lines), NEW H \in Seq(Held), NEW L \in Seq(Lines),
         NEW c \in Nat, Follows(P, H, L, c), H # << >>
  PROVE  Follows(Append(P, Head(H).line), Tail(H), L, c)
<1> DEFINE R == Append(P, Head(H).line)
           T == Tail(H)
<1>1. /\ Head(H) \in Held /\ Head(H) = H[1]
      /\ Len(T) = Len(H) - 1
      /\ \A i \in 1 .. Len(H) - 1 : T[i] = H[i + 1]
  BY HeadOfQueue
<1>2. Head(H).line \in Lines
  BY <1>1 DEF Held
<1>3. /\ Len(R) = Len(P) + 1
      /\ \A i \in 1 .. Len(P) : R[i] = P[i]
      /\ R[Len(P) + 1] = Head(H).line
  BY <1>2, AppendToQueue
<1>4. Len(P) \in Nat /\ Len(H) \in Nat /\ Len(L) \in Nat /\ Len(H) >= 1
  OBVIOUS
<1> HIDE DEF R, T
<1>5. ASSUME NEW i \in 1 .. Len(R) PROVE R[i] = L[i]
  <2>1. i \in 1 .. Len(P) \/ i = Len(P) + 1
    BY <1>3, <1>4
  <2>2. Head(H).line = L[Len(P) + 1]
    BY <1>1, <1>4 DEF Follows
  <2> QED
    BY <1>3, <2>1, <2>2 DEF Follows
<1>6. ASSUME NEW i \in 1 .. Len(T)
      PROVE  T[i].type = "SEQ_CHAT" /\ T[i].line = L[Len(R) + i]
  <2>1. i \in Nat /\ i \in 1 .. Len(H) - 1 /\ i + 1 \in 1 .. Len(H)
    BY <1>1, <1>4
  <2>2. H[i + 1].type = "SEQ_CHAT" /\ H[i + 1].line = L[Len(P) + (i + 1)]
    BY <2>1 DEF Follows
  <2>3. Len(P) + (i + 1) = (Len(P) + 1) + i
    BY <1>4, <2>1
  <2>4. Len(R) + i = Len(P) + (i + 1)
    BY <1>3, <2>3
  <2> QED
    BY <1>1, <2>1, <2>2, <2>4
<1>7. Len(R) + Len(T) = c /\ c <= Len(L)
  <2>1. Len(P) + Len(H) = c /\ c <= Len(L)
    BY DEF Follows
  <2>2. (Len(P) + 1) + (Len(H) - 1) = Len(P) + Len(H)
    BY <1>4
  <2> QED
    BY <1>1, <1>3, <2>1, <2>2
<1> QED
  BY <1>5, <1>6, <1>7 DEF Follows, R, T

(* And so does a longer log. *)
LEMMA LogLonger ==
  ASSUME NEW P \in Seq(Lines), NEW H \in Seq(Held),
         NEW L \in Seq(Lines), NEW M \in Seq(Lines), NEW c \in Nat, Follows(P, H, L, c),
         Len(L) <= Len(M), \A i \in 1 .. Len(L) : M[i] = L[i]
  PROVE  Follows(P, H, M, c)
<1>1. Len(P) \in Nat /\ Len(H) \in Nat /\ Len(L) \in Nat /\ Len(M) \in Nat
  OBVIOUS
<1>2. Len(P) + Len(H) = c /\ c <= Len(M)
  BY <1>1 DEF Follows
<1>3. ASSUME NEW i \in 1 .. Len(P) PROVE P[i] = M[i]
  BY <1>1 DEF Follows
<1>4. ASSUME NEW i \in 1 .. Len(H)
      PROVE  H[i].type = "SEQ_CHAT" /\ H[i].line = M[Len(P) + i]
  <2>1. Len(P) + i \in 1 .. Len(L)
    <3>1. Len(P) + Len(H) <= Len(L)
      BY DEF Follows
    <3> QED
      BY <1>1, <3>1
  <2> QED
    BY <2>1 DEF Follows
<1> QED
  BY <1>2, <1>3, <1>4 DEF Follows

(* A member accepts the number after its own, whose line is the next of    *)
(* the log, and moves lines from the holdback queue to the screen in order.*)
LEMMA MemberStepFollows ==
  IInv /\ [Next]_vars => MembersHoldNumbered' /\ MembersFollowLog'
<1> SUFFICES ASSUME IInv, [Next]_vars, NEW q \in Members
             PROVE  Follows(printed'[q], holdback'[q], log', current'[q])
  BY DEF MembersHoldNumbered, MembersFollowLog, Follows
<1> DEFINE H == holdback[q]
           P == printed[q]
           c == current[q]
<1>0. /\ TypeOK
      /\ q \in Procs /\ q # Leader
      /\ H \in Seq(Held) /\ P \in Seq(Lines) /\ log \in Seq(Lines)
      /\ c \in Nat
  BY MembersAreProcs DEF IInv, TypeOK
<1>1. Follows(P, H, log, c)
  BY DEF IInv, MembersHoldNumbered, MembersFollowLog, Follows
<1>2. /\ Len(log) <= Len(log')
      /\ \A i \in 1 .. Len(log) : log'[i] = log[i]
      /\ log' \in Seq(Lines)
  BY <1>0, LogGrows, TypeStep DEF TypeOK
<1>3. CASE Receive(q)
  <2>1. PICK d \in chatNet : ReceiveMessage(q, d)
    BY <1>3 DEF Receive
  <2>2. printed' = printed /\ log' = log
    BY <2>1 DEF ReceiveMessage
  <2>3. CASE ~Accepts(q, d)
    <3>1. holdback' = holdback /\ current' = current
      BY <2>1, <2>3 DEF ReceiveMessage
    <3> QED
      BY <1>1, <2>2, <3>1
  <2>4. CASE Accepts(q, d)
    <3>1. d \in Datagrams /\ d.to = q /\ d.seq = c + 1
      BY <1>0, <2>1, <2>4 DEF Accepts, ReceiveMessage, TypeOK
    <3>2. d.type = "SEQ_CHAT" /\ d.seq <= Len(log) /\ d.line = log[d.seq]
      <4>1. d.type \in {"CHAT", "SEQ_CHAT"}
        BY <3>1 DEF Datagrams
      <4> QED
        BY <1>0, <3>1, <4>1 DEF IInv, DatagramsNumbered
    <3> DEFINE h == [type |-> d.type, line |-> d.line]
    <3>3. h \in Held /\ h.type = "SEQ_CHAT" /\ h.line = d.line
      BY <3>1, <3>2 DEF Datagrams, Held
    <3>4. holdback'[q] = Append(H, h) /\ current'[q] = c + 1
      BY <1>0, <2>1, <2>4 DEF ReceiveMessage, TypeOK
    <3> HIDE DEF h, H, P, c
    <3>5. c + 1 <= Len(log) /\ h.line = log[c + 1]
      BY <3>1, <3>2, <3>3
    <3>6. Follows(P, Append(H, h), log, c + 1)
      BY <1>0, <1>1, <3>3, <3>5, HoldNextLine
    <3> QED
      BY <2>2, <3>4, <3>6 DEF P
  <2> QED
    BY <2>3, <2>4
<1>4. CASE ProcessMessage(q)
  <2>1. H # << >> /\ log' = log /\ current' = current
    BY <1>0, <1>4 DEF ProcessMessage
  <2>2. printed'[q] = Append(P, Head(H).line) /\ holdback'[q] = Tail(H)
    BY <1>0, <1>4 DEF ProcessMessage, TypeOK
  <2>3. Follows(Append(P, Head(H).line), Tail(H), log, c)
    BY <1>0, <1>1, <2>1, ShowHeldLine
  <2> QED
    BY <2>1, <2>2, <2>3
<1>5. CASE ~Receive(q) /\ ~ProcessMessage(q)
  <2>1. holdback'[q] = H /\ printed'[q] = P /\ current'[q] = c
    BY <1>0, <1>5, MemberUntouched
  <2>2. Follows(P, H, log', c)
    BY <1>0, <1>1, <1>2, LogLonger
  <2> QED
    BY <2>1, <2>2
<1> QED
  BY <1>3, <1>4, <1>5

(* A member waits for an ACK only while the line it sent is in its queue.  *)
LEMMA WaitingStep == IInv /\ [Next]_vars => WaitingForHead'
<1> SUFFICES ASSUME TypeOK, WaitingForHead, [Next]_vars,
                    NEW q \in Members, waiting'[q]
             PROVE  sendQueue'[q] # << >>
  BY DEF IInv, WaitingForHead
<1>0. /\ q \in Procs /\ q # Leader
      /\ sendQueue[q] \in Seq(Lines)
      /\ waiting[q] => sendQueue[q] # << >>
  BY MembersAreProcs DEF TypeOK, WaitingForHead
<1>1. ASSUME NEW p \in Procs, TypeLine(p) PROVE sendQueue'[q] # << >>
  <2>1. typed[p] + 1 \in Nat \ {0}
    BY DEF TypeOK
  <2>2. [from |-> p, n |-> typed[p] + 1] \in Lines
    BY <2>1 DEF Lines
  <2>3. waiting' = waiting
    BY <1>1 DEF TypeLine
  <2>4. \/ sendQueue'[q] = sendQueue[q]
        \/ sendQueue'[q] = Append(sendQueue[q], [from |-> p, n |-> typed[p] + 1])
    BY <1>0, <1>1 DEF TypeLine, TypeOK
  <2> QED
    BY <1>0, <2>2, <2>3, <2>4, AppendToQueue
<1>2. ASSUME NEW p \in Procs, Receive(p) PROVE sendQueue'[q] # << >>
  BY <1>0, <1>2 DEF Receive, ReceiveMessage
<1>3. ASSUME NEW p \in Procs, ProcessMessage(p) PROVE sendQueue'[q] # << >>
  <2>1. p = q => sendQueue' = sendQueue
    BY <1>0, <1>3 DEF ProcessMessage
  <2>2. p # q => sendQueue'[q] = sendQueue[q]
    BY <1>0, <1>3 DEF ProcessMessage, TypeOK
  <2> QED
    BY <1>0, <1>3, <2>1, <2>2 DEF ProcessMessage
<1>4. ASSUME NEW r \in Members, MemberSend(r) PROVE sendQueue'[q] # << >>
  BY <1>0, <1>4 DEF MemberSend, TypeOK
<1>5. ASSUME NEW r \in Members, MemberAcked(r) PROVE sendQueue'[q] # << >>
  <2>1. r # q
    BY <1>5 DEF MemberAcked, TypeOK
  <2> QED
    BY <1>0, <1>5, <2>1, MembersAreProcs DEF MemberAcked, TypeOK
<1>6. ASSUME NEW r \in Members, MemberTimeout(r) PROVE sendQueue'[q] # << >>
  BY <1>0, <1>6 DEF MemberTimeout, TypeOK
<1>7. ASSUME NEW r \in Members, Crash(r) PROVE sendQueue'[q] # << >>
  BY <1>0, <1>7 DEF Crash
<1>8. CASE LeaderFront \/ LeaderSend \/ LeaderAcked \/ LeaderTimeout
  BY <1>0, <1>8 DEF LeaderFront, LeaderSend, LeaderAcked, LeaderTimeout
<1>9. CASE LeaderDone
  BY <1>0, <1>9 DEF LeaderDone, TypeOK
<1>10. CASE UNCHANGED vars
  BY <1>0, <1>10 DEF vars
<1> QED
  BY <1>1, <1>2, <1>3, <1>4, <1>5, <1>6, <1>7, <1>8, <1>9, <1>10
     DEF Next, MemberStep, LeaderStep

LEMMA SeqMonotone ==
  ASSUME NEW S, NEW T, S \subseteq T, NEW D, NEW f \in [D -> Seq(S)]
  PROVE  f \in [D -> Seq(T)]
<1>1. \A s \in Seq(S) : s \in Seq(T)
  OBVIOUS
<1> QED
  BY <1>1

HeldTyped == [type : {"CHAT", "SEQ_CHAT"}, line : TypedLines]

(* Lines are created by main only; queues and datagrams pass them on. *)
LEMMA TypedStep == IInv /\ [Next]_vars => NothingInvented'
<1> SUFFICES ASSUME TypeOK, Multicasting, WaitingForHead, NothingInvented, [Next]_vars
             PROVE  NothingInvented'
  BY DEF IInv
<1> DEFINE T == TypedLines
           U == HeldTyped
<1>0. /\ sendQueue \in [Procs -> Seq(T)]
      /\ holdback \in [Procs -> Seq(U)]
      /\ \A d \in chatNet : d.line \in T
  BY DEF NothingInvented, HeldTyped
<1>k. ASSUME typed' = typed PROVE T' = T /\ U' = U
  BY <1>k DEF TypedLines, HeldTyped
<1>u. ASSUME UNCHANGED <<typed, sendQueue, holdback>>,
             \A d \in chatNet' : d.line \in T
      PROVE  NothingInvented'
  <2>1. T' = T /\ U' = U
    BY <1>u, <1>k
  <2> HIDE DEF T, U
  <2>2. /\ sendQueue' \in [Procs -> Seq(T')]
        /\ holdback' \in [Procs -> Seq(U')]
        /\ \A d \in chatNet' : d.line \in T'
    BY <1>0, <1>u, <2>1
  <2> QED
    BY <2>2 DEF NothingInvented, T, U, HeldTyped
<1>1. ASSUME NEW p \in Procs, TypeLine(p) PROVE NothingInvented'
  <2> DEFINE l == [from |-> p, n |-> typed[p] + 1]
  <2>1. typed[p] \in Nat /\ typed'[p] = typed[p] + 1
    BY <1>1 DEF TypeLine, TypeOK
  <2>2. l \in T'
    <3>1. l \in Lines
      BY <2>1 DEF Lines
    <3> QED
      BY <2>1, <3>1 DEF TypedLines
  <2>3. T \subseteq T'
    <3> SUFFICES ASSUME NEW k \in T PROVE k \in T'
      OBVIOUS
    <3>1. k \in Lines /\ k.n <= typed[k.from]
      BY DEF TypedLines
    <3>2. k.from \in Procs /\ k.n \in Nat
      BY <3>1 DEF Lines
    <3>3. typed[k.from] \in Nat /\ typed'[k.from] \in Nat /\ typed[k.from] <= typed'[k.from]
      <4>1. typed' = [typed EXCEPT ![p] = @ + 1] /\ typed \in [Procs -> Nat]
        BY <1>1 DEF TypeLine, TypeOK
      <4>2. CASE k.from = p
        BY <2>1, <4>2
      <4>3. CASE k.from # p
        BY <3>2, <4>1, <4>3
      <4> QED
        BY <4>2, <4>3
    <3>4. k.n <= typed'[k.from]
      BY <3>1, <3>2, <3>3
    <3> QED
      BY <3>1, <3>4 DEF TypedLines
  <2>4. U \subseteq U'
    BY <2>3 DEF HeldTyped
  <2>5. sendQueue' = [sendQueue EXCEPT ![p] = Append(@, l)] /\ UNCHANGED <<holdback, chatNet>>
    BY <1>1 DEF TypeLine
  <2> HIDE DEF T, U, l
  <2>6. sendQueue \in [Procs -> Seq(T')] /\ holdback \in [Procs -> Seq(U')]
    BY <1>0, <2>3, <2>4, SeqMonotone
  <2>7. sendQueue' \in [Procs -> Seq(T')]
    BY <2>2, <2>5, <2>6, PushTyped
  <2>8. \A d \in chatNet' : d.line \in T'
    BY <1>0, <2>3, <2>5
  <2> QED
    BY <2>5, <2>6, <2>7, <2>8 DEF NothingInvented, T, U, HeldTyped
<1>2. ASSUME NEW p \in Procs, Receive(p) PROVE NothingInvented'
  <2>1. PICK d \in chatNet : ReceiveMessage(p, d)
    BY <1>2 DEF Receive
  <2>2. T' = T /\ U' = U /\ sendQueue' = sendQueue /\ chatNet' \subseteq chatNet
    BY <2>1, <1>k DEF ReceiveMessage
  <2> DEFINE h == [type |-> d.type, line |-> d.line]
  <2>3. h \in U
    <3>1. d \in Datagrams
      BY DEF TypeOK
    <3>2. d.line \in T /\ d.type \in {"CHAT", "SEQ_CHAT"}
      BY <1>0, <3>1 DEF Datagrams
    <3> QED
      BY <3>2 DEF HeldTyped
  <2>4. holdback' = holdback \/ holdback' = [holdback EXCEPT ![p] = Append(@, h)]
    BY <2>1 DEF ReceiveMessage
  <2> HIDE DEF T, U, h
  <2>5. holdback' \in [Procs -> Seq(U)]
    <3>1. [holdback EXCEPT ![p] = Append(@, h)] \in [Procs -> Seq(U)]
      BY <1>0, <2>3, PushTyped
    <3> QED
      BY <1>0, <2>4, <3>1
  <2>6. /\ sendQueue' \in [Procs -> Seq(T')]
        /\ holdback' \in [Procs -> Seq(U')]
        /\ \A e \in chatNet' : e.line \in T'
    BY <1>0, <2>2, <2>5
  <2> QED
    BY <2>6 DEF NothingInvented, T, U, HeldTyped
<1>3. ASSUME NEW p \in Procs, ProcessMessage(p) PROVE NothingInvented'
  <2>1. T' = T /\ U' = U /\ chatNet' = chatNet
    BY <1>3, <1>k DEF ProcessMessage
  <2> DEFINE l == Head(holdback[p]).line
  <2>2. Head(holdback[p]) \in U /\ Tail(holdback[p]) \in Seq(U)
    <3> HIDE DEF U
    <3>1. holdback[p] \in Seq(U) /\ holdback[p] # << >>
      BY <1>0, <1>3 DEF ProcessMessage
    <3> QED
      BY <3>1
  <2>3. l \in T
    BY <2>2 DEF HeldTyped
  <2>4. /\ holdback' = [holdback EXCEPT ![p] = Tail(@)]
        /\ sendQueue' = sendQueue \/ sendQueue' = [sendQueue EXCEPT ![p] = Append(@, l)]
    BY <1>3 DEF ProcessMessage
  <2> HIDE DEF T, U, l
  <2>5. sendQueue' \in [Procs -> Seq(T)]
    <3>1. [sendQueue EXCEPT ![p] = Append(@, l)] \in [Procs -> Seq(T)]
      BY <1>0, <2>3, PushTyped
    <3> QED
      BY <1>0, <2>4, <3>1
  <2>6. holdback' \in [Procs -> Seq(U)]
    BY <1>0, <2>2, <2>4
  <2>7. \A d \in chatNet' : d.line \in T
    BY <1>0, <2>1
  <2> QED
    BY <2>1, <2>5, <2>6, <2>7 DEF NothingInvented, T, U, HeldTyped
<1>4. ASSUME NEW q \in Members, MemberSend(q) PROVE NothingInvented'
  <2>1. q \in Procs
    BY MembersAreProcs
  <2>2. Head(sendQueue[q]) \in T
    <3> HIDE DEF T
    <3>1. sendQueue[q] \in Seq(T) /\ sendQueue[q] # << >>
      BY <1>0, <1>4, <2>1 DEF MemberSend
    <3> QED
      BY <3>1
  <2> DEFINE new == [to |-> Leader, src |-> q, type |-> "CHAT",
                     line |-> Head(sendQueue[q]), seq |-> 0, copy |-> timeouts]
  <2>3. \A d \in chatNet' : d \in chatNet \/ d.line = Head(sendQueue[q])
    <3>1. chatNet' = chatNet \/ chatNet' = chatNet \cup {new}
      BY <1>4 DEF MemberSend, Send
    <3>2. new.line = Head(sendQueue[q])
      OBVIOUS
    <3> HIDE DEF new
    <3> QED
      BY <3>1, <3>2
  <2>4. UNCHANGED <<typed, sendQueue, holdback>>
    BY <1>4 DEF MemberSend
  <2>5. \A d \in chatNet' : d.line \in T
    BY <1>0, <2>2, <2>3
  <2> QED
    BY <1>u, <2>4, <2>5
<1>5. ASSUME NEW p \in Procs, sendQueue[p] # << >>,
             sendQueue' = [sendQueue EXCEPT ![p] = Tail(@)],
             UNCHANGED <<typed, holdback, chatNet>>
      PROVE  NothingInvented'
  <2>1. T' = T /\ U' = U
    BY <1>5, <1>k
  <2> HIDE DEF T, U
  <2>2. Tail(sendQueue[p]) \in Seq(T)
    <3>1. sendQueue[p] \in Seq(T) /\ sendQueue[p] # << >>
      BY <1>0, <1>5
    <3> QED
      BY <3>1
  <2>3. sendQueue' \in [Procs -> Seq(T)]
    BY <1>0, <1>5, <2>2
  <2> QED
    BY <1>0, <1>5, <2>1, <2>3 DEF NothingInvented, T, U, HeldTyped
<1>6. ASSUME NEW q \in Members, MemberAcked(q) PROVE NothingInvented'
  BY <1>5, <1>6, MembersAreProcs DEF MemberAcked, WaitingForHead, leaderVars
<1>7. CASE LeaderDone
  BY <1>5, <1>7, MembersAreProcs DEF LeaderDone, Multicasting
<1>8. CASE LeaderSend
  <2>1. Head(sendQueue[Leader]) \in T
    <3> HIDE DEF T
    <3>1. sendQueue[Leader] \in Seq(T) /\ sendQueue[Leader] # << >>
      BY <1>0, <1>8, MembersAreProcs DEF LeaderSend, Multicasting
    <3> QED
      BY <3>1
  <2> DEFINE new == [to |-> SocketList[it], src |-> Leader, type |-> "SEQ_CHAT",
                     line |-> Head(sendQueue[Leader]), seq |-> current[Leader],
                     copy |-> retry_send]
  <2>2. \A d \in chatNet' : d \in chatNet \/ d.line = Head(sendQueue[Leader])
    <3>1. chatNet' = chatNet \/ chatNet' = chatNet \cup {new}
      BY <1>8 DEF LeaderSend, Send
    <3>2. new.line = Head(sendQueue[Leader])
      OBVIOUS
    <3> HIDE DEF new
    <3> QED
      BY <3>1, <3>2
  <2>3. UNCHANGED <<typed, sendQueue, holdback>>
    BY <1>8 DEF LeaderSend
  <2>4. \A d \in chatNet' : d.line \in T
    BY <1>0, <2>1, <2>2
  <2> QED
    BY <1>u, <2>3, <2>4
<1>9. CASE \/ \E q \in Members : MemberTimeout(q) \/ Crash(q)
           \/ LeaderFront \/ LeaderAcked \/ LeaderTimeout \/ UNCHANGED vars
  <2>1. UNCHANGED <<typed, sendQueue, holdback, chatNet>>
    BY <1>9 DEF MemberTimeout, Crash, LeaderFront, LeaderAcked, LeaderTimeout, vars
  <2> QED
    BY <1>0, <1>u, <2>1
<1> QED
  BY <1>1, <1>2, <1>3, <1>4, <1>6, <1>7, <1>8, <1>9 DEF Next, MemberStep, LeaderStep

-----------------------------------------------------------------------------
(* The strengthened invariant holds in every reachable state. *)
THEOREM IInvCorrect == Spec => []IInv
<1>1. IInv /\ [Next]_vars => IInv'
  BY TypeStep, SequencerStep, DatagramStep, MemberStepFollows, WaitingStep, TypedStep
     DEF IInv
<1> QED
  BY InitIInv, <1>1, PTL DEF Spec

(* Every variable keeps its type, for every group and every bound. *)
THEOREM TypeCorrect == Spec => []TypeOK
  BY IInvCorrect, PTL DEF IInv

(* Whatever the network loses, delays or reorders, whatever times out and  *)
(* whoever crashes, what a member shows is a prefix of the sequencer's log *)
(* (receiveMessage's test of sequenceNum).                                 *)
THEOREM MembersFollow == Spec => []MembersFollowLog
  BY IInvCorrect, PTL DEF IInv

-----------------------------------------------------------------------------
(***************************************************************************)
(* Refinement.  Typing a line is Enter, taking a line up for multicast is  *)
(* Order, a member's processMessage is Show; every other step of the       *)
(* threads and of the network leaves the abstract state alone.             *)
(***************************************************************************)
shownNow == [q \in Members |-> printed[q]]

LEMMA OrderStep == IInv /\ LeaderFront => TO!Order
<1> SUFFICES ASSUME IInv, LeaderFront PROVE TO!Order
  OBVIOUS
<1> DEFINE l == Head(sendQueue[Leader])
<1>1. l \in TypedLines
  <2>1. sendQueue[Leader] \in Seq(TypedLines) /\ sendQueue[Leader] # << >>
    BY MembersAreProcs DEF IInv, NothingInvented, LeaderFront
  <2> QED
    BY <2>1
<1>2. PICK p \in Procs : \E n \in 1 .. typed[p] : l = [from |-> p, n |-> n]
  <2>1. l \in [from : Procs, n : Nat \ {0}] /\ l.n <= typed[l.from]
    BY <1>1 DEF TypedLines, Lines
  <2> HIDE DEF l
  <2>2. l = [from |-> l.from, n |-> l.n] /\ l.from \in Procs /\ l.n \in Nat \ {0}
    BY <2>1
  <2>3. typed[l.from] \in Nat
    BY <2>2 DEF IInv, TypeOK
  <2>4. l.n \in 1 .. typed[l.from]
    BY <2>1, <2>2, <2>3
  <2> QED
    BY <2>2, <2>4
<1>3. log' = Append(log, l) /\ typed' = typed /\ printed' = printed
  BY DEF LeaderFront
<1> QED
  BY <1>2, <1>3 DEF TO!Order

LEMMA ShowStep ==
  ASSUME IInv, NEW q \in Members, ProcessMessage(q)
  PROVE  TO!Show(q)
<1> DEFINE H == holdback[q]
           P == printed[q]
<1>0. /\ TypeOK /\ q \in Procs /\ q # Leader
      /\ H \in Seq(Held) /\ P \in Seq(Lines) /\ log \in Seq(Lines)
  BY MembersAreProcs DEF IInv, TypeOK
<1>1. H # << >> /\ log' = log /\ typed' = typed
  BY DEF ProcessMessage
<1>2. printed' = [printed EXCEPT ![q] = Append(@, Head(H).line)]
  BY <1>0 DEF ProcessMessage
<1>3. Head(H).line = log[Len(P) + 1] /\ Len(P) < Len(log)
  <2>1. Follows(P, H, log, current[q])
    BY DEF IInv, MembersHoldNumbered, MembersFollowLog, Follows
  <2>2. /\ Len(H) \in Nat /\ Len(H) >= 1 /\ Head(H) = H[1]
        /\ Len(P) \in Nat /\ Len(log) \in Nat
    BY <1>0, <1>1
  <2>3. Len(P) + Len(H) <= Len(log)
    BY <2>1 DEF Follows
  <2> HIDE DEF H, P
  <2>4. Len(P) < Len(log)
    BY <2>2, <2>3
  <2>5. H[1].line = log[Len(P) + 1]
    BY <2>1, <2>2 DEF Follows
  <2> QED
    BY <2>2, <2>4, <2>5
<1>4. shownNow' = [shownNow EXCEPT ![q] = Append(@, log[Len(@) + 1])]
  BY <1>0, <1>2, <1>3, MembersAreProcs DEF shownNow, TypeOK
<1>5. shownNow[q] = P
  BY DEF shownNow
<1> QED
  BY <1>1, <1>3, <1>4, <1>5 DEF TO!Show, shownNow

LEMMA RefineStep == IInv /\ [Next]_vars => [TO!Next]_TO!vars
<1> SUFFICES ASSUME IInv, [Next]_vars PROVE [TO!Next]_TO!vars
  OBVIOUS
<1>0. TypeOK
  BY DEF IInv
<1>1. ASSUME NEW p \in Procs, TypeLine(p) PROVE TO!Next
  <2>1. TO!Enter(p)
    BY <1>1 DEF TypeLine, TO!Enter
  <2> QED
    BY <2>1 DEF TO!Next
<1>2. CASE LeaderFront
  BY <1>2, OrderStep DEF TO!Next
<1>3. ASSUME NEW p \in Procs, ProcessMessage(p) PROVE [TO!Next]_TO!vars
  <2>1. CASE p \in Members
    BY <1>3, <2>1, ShowStep DEF TO!Next
  <2>2. CASE p = Leader
    <3>1. shownNow' = shownNow
      BY <1>0, <1>3, <2>2, MembersAreProcs DEF ProcessMessage, shownNow, TypeOK
    <3>2. typed' = typed /\ log' = log
      BY <1>3 DEF ProcessMessage
    <3> QED
      BY <3>1, <3>2 DEF TO!vars, shownNow
  <2> QED
    BY <2>1, <2>2 DEF Members
<1>4. CASE \/ \E p \in Procs : Receive(p)
           \/ \E q \in Members : MemberStep(q) \/ Crash(q)
           \/ LeaderSend \/ LeaderAcked \/ LeaderTimeout \/ LeaderDone
           \/ UNCHANGED vars
  <2>1. typed' = typed /\ log' = log /\ printed' = printed
    BY <1>4 DEF Receive, ReceiveMessage, MemberStep, MemberSend, MemberAcked,
                MemberTimeout, Crash, LeaderSend, LeaderAcked, LeaderTimeout,
                LeaderDone, vars
  <2>2. shownNow' = shownNow
    BY <2>1 DEF shownNow
  <2> QED
    BY <2>1, <2>2 DEF TO!vars, shownNow
<1> QED
  BY <1>1, <1>2, <1>3, <1>4 DEF Next, LeaderStep

(* The threads, queues and datagrams of dchat.cpp implement one global     *)
(* order of which every member shows a prefix, line by line.               *)
THEOREM Refinement == Spec => TotalOrderSpec
<1>1. Init => TO!Init
  BY MembersAreProcs DEF Init, TO!Init
<1> QED
  BY <1>1, RefineStep, IInvCorrect, PTL DEF Spec, TO!Spec, TotalOrderSpec
-----------------------------------------------------------------------------
(***************************************************************************)
(* On a prompt network, where a timeout means that the other side is dead: *)
(* every line is numbered once, the sequencer shows what its members show, *)
(* and no live member is left behind, for every group, every number of     *)
(* lines and any crash of members.  The proofs follow the ACKs, which name *)
(* no line: the one that is awaited is the only one under way.             *)
(***************************************************************************)

LEMMA InitPrompt == Init => PromptIInv
  <1> SUFFICES ASSUME Init PROVE PromptIInv
      OBVIOUS
  <1> USE GroupAssumption DEF Init
  <1>1. OneClientAtATime /\ ServedKeepUp
      BY MembersAreProcs DEF OneClientAtATime, ServedKeepUp, LiveMembersKeepUp, FromSequencer
  <1>2. OneLineAtATime /\ QueuedInOrder
      BY MembersAreProcs DEF OneLineAtATime, QueuedInOrder, FromMember
  <1>3. log = << >> /\ Unnumbered = << >> /\ holdback[Leader] = << >>
      BY DEF Unnumbered
  <1>4. InTypedOrder
      BY <1>3 DEF InTypedOrder, InOrder, ChatsIn
  <1>5. Own = 0 /\ Len(printed[Leader]) = 0
      BY DEF Own, OwnCopyTaken
  <1>6. OwnCopiesFollow
      BY <1>3, <1>5 DEF OwnCopiesFollow, CopiesFollow
  <1>. QED  BY <1>1, <1>2, <1>4, <1>6 DEF PromptIInv

-----------------------------------------------------------------------------
(***************************************************************************)
(* The sequencer's ACKs.                                                   *)
(***************************************************************************)
LEMMA SequencerTypes ==
  ASSUME TypeOK
  PROVE  /\ alive \subseteq Procs
         /\ acks \in [Procs -> Nat]
         /\ current \in [Procs -> Nat]
         /\ chatNet \subseteq Datagrams
         /\ it \in 1 .. Len(SocketList) + 1
         /\ \A i \in 1 .. Len(SocketList) : SocketList[i] \in Procs
         /\ Len(SocketList) \in Nat
  BY GroupAssumption DEF TypeOK

LEMMA NumbersUntouched ==
  ASSUME OneClientAtATime, ServedKeepUp,
         UNCHANGED <<alive, leaderVars, current>>,
         FromSequencer' = FromSequencer, acks'[Leader] = acks[Leader]
  PROVE  (OneClientAtATime /\ ServedKeepUp)'
  BY DEF OneClientAtATime, ServedKeepUp, LiveMembersKeepUp, HasNumber, leaderVars

(* A client that takes the datagram has its number afterwards.             *)
LEMMA ReceiveInStep ==
  ASSUME Prompt, IInv, OneLineAtATime, OneClientAtATime, ServedKeepUp,
         NEW p \in Procs, NEW d \in chatNet, ReceiveMessage(p, d)
  PROVE  (OneClientAtATime /\ ServedKeepUp)'
  <1> USE SequencerTypes
  <1>0. TypeOK /\ Leader \in alive
      BY DEF IInv, OneLineAtATime
  <1>1. /\ p \in alive /\ d.to = p /\ d.src \in Procs
        /\ chatNet' = chatNet \ {d} /\ acks' = [acks EXCEPT ![d.src] = @ + 1]
        /\ UNCHANGED <<alive, leaderPc, it>>
      BY <1>0 DEF ReceiveMessage, SendAck, leaderVars, Datagrams
  <1>2. /\ current'[Leader] = current[Leader]
        /\ \A q \in Procs : /\ current[q] \in Nat /\ current'[q] \in Nat
                             /\ current'[q] >= current[q]
        /\ p # Leader => current'[p] = IF d.seq = current[p] + 1 THEN current[p] + 1
                                       ELSE current[p]
      BY <1>0 DEF ReceiveMessage, Accepts
  <1>3. \A i \in 1 .. Len(SocketList) : HasNumber(i) => HasNumber(i)'
    <2> SUFFICES ASSUME NEW i \in 1 .. Len(SocketList), HasNumber(i) PROVE HasNumber(i)'
        OBVIOUS
    <2>1. /\ SocketList[i] \in Procs /\ Leader \in Procs
          /\ SocketList[i] \in Members \cap alive => current[SocketList[i]] >= current[Leader]
        BY <1>0, MembersAreProcs DEF HasNumber
    <2>. QED  BY <1>1, <1>2, <2>1 DEF HasNumber
  <1>4. ServedKeepUp'
    <2>1. LiveMembersKeepUp'
      <3> SUFFICES ASSUME NEW q \in Members \cap alive
                   PROVE  current'[q] >= current'[Leader] - 1
          BY <1>1 DEF LiveMembersKeepUp
      <3>1. q \in Procs /\ Leader \in Procs /\ current[q] >= current[Leader] - 1
          BY MembersAreProcs DEF ServedKeepUp, LiveMembersKeepUp
      <3>. QED  BY <1>2, <3>1
    <2>. QED  BY <1>1, <1>3, <2>1 DEF ServedKeepUp
  <1>5. CASE d.src # Leader
    <2>1. FromSequencer' = FromSequencer /\ acks'[Leader] = acks[Leader]
        BY <1>0, <1>1, <1>5, MembersAreProcs DEF FromSequencer
    <2>2. leaderPc = "ack" => it \in 1 .. Len(SocketList)
        BY <1>0 DEF IInv, Multicasting
    <2>. QED  BY <1>1, <1>2, <1>3, <1>4, <2>1, <2>2 DEF OneClientAtATime
  <1>6. CASE d.src = Leader
    <2>1. d \in FromSequencer
        BY <1>1, <1>6 DEF FromSequencer
    <2>2. /\ leaderPc = "ack" /\ acks[Leader] = 0
          /\ FromSequencer = {d} /\ p = SocketList[it] /\ d.seq = current[Leader]
          /\ it \in 1 .. Len(SocketList)
        BY <1>0, <1>1, <2>1 DEF OneClientAtATime, IInv, Multicasting
    <2>3. FromSequencer' = {}
        BY <1>1, <2>2 DEF FromSequencer
    <2>4. acks'[Leader] = 1
        BY <1>0, <1>1, <1>6, <2>2, MembersAreProcs
    <2>5. HasNumber(it)'
      <3>1. p \in Members => current[p] >= current[Leader] - 1
          BY <1>1 DEF ServedKeepUp, LiveMembersKeepUp
      <3>. QED  BY <1>0, <1>1, <1>2, <2>2, <3>1, MembersAreProcs DEF HasNumber
    <2>. QED  BY <1>0, <1>1, <1>4, <2>2, <2>3, <2>4, <2>5 DEF OneClientAtATime
  <1>. QED  BY <1>5, <1>6

LEMMA InStepStep ==
  ASSUME Prompt, EachListedOnce, IInv, OneLineAtATime, OneClientAtATime, ServedKeepUp,
         [Next]_vars
  PROVE  (OneClientAtATime /\ ServedKeepUp)'
  <1> USE SequencerTypes
  <1>0. /\ TypeOK /\ Leader \in alive
        /\ leaderPc = "ack" => it \in 1 .. Len(SocketList)
      BY DEF IInv, OneLineAtATime, Multicasting
  <1>1. ASSUME NEW p \in Procs, TypeLine(p) \/ ProcessMessage(p)
        PROVE  (OneClientAtATime /\ ServedKeepUp)'
      BY <1>1, NumbersUntouched DEF TypeLine, ProcessMessage, FromSequencer
  <1>2. ASSUME NEW p \in Procs, Receive(p)
        PROVE  (OneClientAtATime /\ ServedKeepUp)'
      BY <1>2, ReceiveInStep DEF Receive
  <1>3. ASSUME NEW q \in Members, MemberStep(q)
        PROVE  (OneClientAtATime /\ ServedKeepUp)'
    <2>1. UNCHANGED <<alive, leaderVars, current>>
        BY <1>3 DEF MemberStep, MemberSend, MemberAcked, MemberTimeout
    <2>2. FromSequencer' = FromSequencer
        BY <1>3, MembersAreProcs
        DEF MemberStep, MemberSend, MemberAcked, MemberTimeout, Send, FromSequencer
    <2>3. acks'[Leader] = acks[Leader]
        BY <1>0, <1>3, MembersAreProcs
        DEF MemberStep, MemberSend, MemberAcked, MemberTimeout, TakeAck, Timeout
    <2>. QED  BY <2>1, <2>2, <2>3, NumbersUntouched
  <1>4. ASSUME NEW q \in Members, Crash(q)
        PROVE  (OneClientAtATime /\ ServedKeepUp)'
    <2>1. /\ alive' = alive \ {q} /\ q # Leader
          /\ UNCHANGED <<leaderPc, it, current, chatNet, acks>>
        BY <1>4, MembersAreProcs DEF Crash, leaderVars
    <2>2. FromSequencer' = {d \in FromSequencer : d.to # q}
        BY <2>1 DEF FromSequencer
    <2>3. \A i \in 1 .. Len(SocketList) : HasNumber(i) => HasNumber(i)'
        BY <2>1 DEF HasNumber
    <2>4. ServedKeepUp'
        BY <2>1, <2>3 DEF ServedKeepUp, LiveMembersKeepUp
    <2>. QED  BY <1>0, <2>1, <2>2, <2>3, <2>4 DEF OneClientAtATime
  <1>5. CASE LeaderFront
    <2>1. /\ leaderPc = "front" /\ leaderPc' = "send" /\ it' = 1
          /\ UNCHANGED <<alive, current, chatNet, acks>>
        BY <1>5 DEF LeaderFront
    <2>. QED  BY <1>0, <2>1
              DEF OneClientAtATime, ServedKeepUp, LiveMembersKeepUp, FromSequencer
  <1>6. CASE LeaderSend
    <2> DEFINE d == [to |-> SocketList[it], src |-> Leader, type |-> "SEQ_CHAT",
                     line |-> Head(sendQueue[Leader]), seq |-> current[Leader],
                     copy |-> retry_send]
    <2>1. /\ leaderPc = "send" /\ leaderPc' = "ack" /\ it <= Len(SocketList)
          /\ chatNet' = chatNet \cup {d}
          /\ UNCHANGED <<alive, it, current, acks>>
        BY <1>6 DEF LeaderSend, Send
    <2>2. FromSequencer' = IF SocketList[it] \in alive THEN {d} ELSE {}
        BY <2>1 DEF FromSequencer, OneClientAtATime
    <2>3. d.type = "SEQ_CHAT" /\ d.to = SocketList[it] /\ d.seq = current[Leader]
        OBVIOUS
    <2>4. OneClientAtATime'
      <3> HIDE DEF d
      <3>. QED  BY <1>0, <2>1, <2>2, <2>3 DEF OneClientAtATime
    <2>5. ServedKeepUp'
        BY <2>1 DEF ServedKeepUp, LiveMembersKeepUp, HasNumber
    <2>. QED  BY <2>4, <2>5
  <1>7. CASE LeaderAcked
    <2>1. /\ leaderPc = "ack" /\ leaderPc' = "send" /\ it' = it + 1
          /\ acks[Leader] > 0 /\ acks' = [acks EXCEPT ![Leader] = @ - 1]
          /\ UNCHANGED <<alive, current, chatNet>>
        BY <1>7 DEF LeaderAcked, TakeAck
    <2>2. acks[Leader] = 1 /\ FromSequencer = {} /\ HasNumber(it)
        BY <1>0, <2>1 DEF OneClientAtATime
    <2>3. acks'[Leader] = 0 /\ FromSequencer' = {}
        BY <1>0, <2>1, <2>2 DEF FromSequencer
    <2>4. ServedKeepUp'
        BY <1>0, <2>1, <2>2 DEF ServedKeepUp, LiveMembersKeepUp, HasNumber
    <2>. QED  BY <1>0, <2>1, <2>3, <2>4 DEF OneClientAtATime
  <1>8. CASE LeaderTimeout
    <2>1. /\ leaderPc = "ack" /\ leaderPc' = "send" /\ it' \in {it, it + 1}
          /\ acks[Leader] = 0 /\ FromSequencer = {}
          /\ UNCHANGED <<alive, current, chatNet, acks>>
        BY <1>8 DEF LeaderTimeout, Timeout, AnswerComing, FromSequencer
    <2>2. SocketList[it] \notin alive
        BY <2>1 DEF OneClientAtATime
    <2>3. FromSequencer' = {}
        BY <2>1 DEF FromSequencer
    <2>4. ServedKeepUp'
        BY <1>0, <2>1, <2>2 DEF ServedKeepUp, LiveMembersKeepUp, HasNumber
    <2>. QED  BY <1>0, <2>1, <2>3, <2>4 DEF OneClientAtATime
  <1>9. CASE LeaderDone
    <2>1. /\ leaderPc = "send" /\ leaderPc' = "front" /\ it > Len(SocketList)
          /\ current'[Leader] = current[Leader] + 1
          /\ \A q \in Members : current'[q] = current[q]
          /\ UNCHANGED <<alive, chatNet, acks>>
        BY <1>0, <1>9, MembersAreProcs DEF LeaderDone
    <2>2. ASSUME NEW q \in Members \cap alive PROVE current[q] >= current[Leader]
      <3>1. PICK i \in 1 .. Len(SocketList) : SocketList[i] = q
          BY MembersAreProcs DEF EachListedOnce
      <3>2. i < it
          BY <1>0, <2>1
      <3>3. HasNumber(i)
          BY <2>1, <3>2 DEF ServedKeepUp
      <3>. QED  BY <3>1, <3>3 DEF HasNumber
    <2>3. ServedKeepUp'
      <3>1. \A q \in Members \cap alive : current'[q] >= current'[Leader] - 1
        <4> SUFFICES ASSUME NEW q \in Members \cap alive
                     PROVE  current'[q] >= current'[Leader] - 1
            OBVIOUS
        <4>1. current[q] \in Nat /\ current[Leader] \in Nat
            BY <1>0, MembersAreProcs
        <4>. QED  BY <2>1, <2>2, <4>1
      <3>. QED  BY <2>1, <3>1 DEF ServedKeepUp, LiveMembersKeepUp
    <2>. QED  BY <1>0, <2>1, <2>3 DEF OneClientAtATime, FromSequencer
  <1>10. CASE UNCHANGED vars
      BY <1>10, NumbersUntouched DEF vars, leaderVars, FromSequencer
  <1>. QED  BY <1>1, <1>2, <1>3, <1>4, <1>5, <1>6, <1>7, <1>8, <1>9, <1>10
            DEF Next, LeaderStep

-----------------------------------------------------------------------------
(***************************************************************************)
(* The members' ACKs.                                                      *)
(***************************************************************************)
LEMMA MemberTypes ==
  ASSUME TypeOK
  PROVE  /\ alive \subseteq Procs
         /\ acks \in [Procs -> Nat]
         /\ typed \in [Procs -> Nat]
         /\ sendQueue \in [Procs -> Seq(Lines)]
         /\ waiting \in [Members -> BOOLEAN]
         /\ chatNet \subseteq Datagrams
  BY DEF TypeOK

LEMMA OthersUntouched ==
  ASSUME OneLineAtATime, QueuedInOrder, UNCHANGED <<alive, waiting>>,
         \A d \in chatNet' : d.type = "CHAT" => d \in chatNet,
         \A q \in Members : /\ FromMember(q)' = FromMember(q) /\ acks'[q] = acks[q]
                            /\ sendQueue'[q] = sendQueue[q] /\ typed'[q] = typed[q]
  PROVE  (OneLineAtATime /\ QueuedInOrder)'
  <1>1. OneLineAtATime'
      BY DEF OneLineAtATime
  <1>2. QueuedInOrder'
      BY DEF QueuedInOrder
  <1>. QED  BY <1>1, <1>2

LEMMA OneLineStep ==
  ASSUME Prompt, IInv, OneLineAtATime, QueuedInOrder, [Next]_vars
  PROVE  (OneLineAtATime /\ QueuedInOrder)'
  <1> USE MembersAreProcs
  <1>0. /\ TypeOK /\ Leader \in alive
        /\ \A d \in chatNet : d.type = "CHAT" => d.to = Leader
        /\ \A q \in Members : waiting[q] => sendQueue[q] # << >>
      BY DEF IInv, OneLineAtATime, DatagramsNumbered, WaitingForHead
  <1>t. /\ acks \in [Procs -> Nat] /\ typed \in [Procs -> Nat]
        /\ sendQueue \in [Procs -> Seq(Lines)] /\ waiting \in [Members -> BOOLEAN]
        /\ chatNet \subseteq Datagrams
      BY <1>0, MemberTypes
  <1>1. ASSUME NEW p \in Procs, TypeLine(p)
        PROVE  (OneLineAtATime /\ QueuedInOrder)'
    <2> DEFINE l == [from |-> p, n |-> typed[p] + 1]
    <2>0. l \in Lines
        BY <1>t DEF Lines
    <2>1. /\ UNCHANGED <<alive, waiting, chatNet, acks>>
          /\ typed' = [typed EXCEPT ![p] = @ + 1]
          /\ sendQueue' = [sendQueue EXCEPT ![p] = Append(@, l)]
        BY <1>1 DEF TypeLine
    <2>2. \A q \in Procs : sendQueue[q] # << >> => Head(sendQueue'[q]) = Head(sendQueue[q])
        BY <1>t, <2>0, <2>1, HeadOfQueue
    <2>3. OneLineAtATime'
      <3>1. \A q \in Members : FromMember(q)' = FromMember(q)
          BY <2>1 DEF FromMember
      <3>. QED  BY <1>0, <2>1, <2>2, <3>1 DEF OneLineAtATime
    <2>4. QueuedInOrder'
      <3> SUFFICES ASSUME NEW q \in Members, NEW i \in 1 .. Len(sendQueue'[q])
                   PROVE  sendQueue'[q][i] = [from |-> q, n |-> typed'[q] - Len(sendQueue'[q]) + i]
          BY DEF QueuedInOrder
      <3>1. CASE q # p
          BY <2>1, <3>1 DEF QueuedInOrder
      <3>2. CASE q = p
        <4>1. /\ sendQueue'[p] = Append(sendQueue[p], l) /\ typed'[p] = typed[p] + 1
              /\ sendQueue[p] \in Seq(Lines) /\ typed[p] \in Nat
            BY <1>t, <2>1
        <4>2. /\ Len(sendQueue'[p]) = Len(sendQueue[p]) + 1
              /\ \A k \in 1 .. Len(sendQueue[p]) : sendQueue'[p][k] = sendQueue[p][k]
              /\ sendQueue'[p][Len(sendQueue[p]) + 1] = l
            BY <2>0, <4>1, AppendToQueue
        <4>3. Len(sendQueue[p]) \in Nat
            BY <4>1
        <4>4. CASE i \in 1 .. Len(sendQueue[p])
          <5>1. sendQueue[p][i] = [from |-> p, n |-> typed[p] - Len(sendQueue[p]) + i]
              BY <3>2, <4>4 DEF QueuedInOrder
          <5>. QED  BY <3>2, <4>1, <4>2, <4>3, <4>4, <5>1
        <4>5. CASE i = Len(sendQueue[p]) + 1
            BY <3>2, <4>1, <4>2, <4>3, <4>5
        <4>. QED  BY <3>2, <4>2, <4>3, <4>4, <4>5
      <3>. QED  BY <3>1, <3>2
    <2>. QED  BY <2>3, <2>4
  <1>2. ASSUME NEW p \in Procs, NEW d \in chatNet, ReceiveMessage(p, d)
        PROVE  (OneLineAtATime /\ QueuedInOrder)'
    <2>1. /\ UNCHANGED <<alive, waiting, typed, sendQueue>>
          /\ chatNet' = chatNet \ {d}
          /\ acks' = [acks EXCEPT ![d.src] = @ + 1]
          /\ d.src \in Procs
        BY <1>2, <1>t DEF ReceiveMessage, SendAck, Datagrams
    <2>2. QueuedInOrder'
        BY <2>1 DEF QueuedInOrder
    <2>3. ASSUME NEW q \in Members, q # d.src
          PROVE  FromMember(q)' = FromMember(q) /\ acks'[q] = acks[q]
        BY <1>t, <2>1, <2>3 DEF FromMember
    <2>4. ASSUME d.src \in Members
          PROVE  /\ waiting[d.src] /\ acks[d.src] = 0 /\ acks'[d.src] = 1
                 /\ FromMember(d.src)' = {}
      <3>1. d \in FromMember(d.src)
          BY DEF FromMember
      <3>2. waiting[d.src] /\ acks[d.src] = 0 /\ FromMember(d.src) = {d}
          BY <1>t, <2>4, <3>1 DEF OneLineAtATime
      <3>3. FromMember(d.src)' = {}
          BY <2>1, <3>2 DEF FromMember
      <3>. QED  BY <1>t, <2>1, <3>2, <3>3
    <2>5. OneLineAtATime'
        BY <1>0, <2>1, <2>3, <2>4 DEF OneLineAtATime
    <2>. QED  BY <2>2, <2>5
  <1>3. ASSUME NEW p \in Procs, ProcessMessage(p)
        PROVE  (OneLineAtATime /\ QueuedInOrder)'
    <2>1. /\ UNCHANGED <<alive, waiting, typed, chatNet, acks>>
          /\ \A q \in Members : sendQueue'[q] = sendQueue[q]
        BY <1>3, <1>t DEF ProcessMessage
    <2>2. \A q \in Members : FromMember(q)' = FromMember(q)
        BY <2>1 DEF FromMember
    <2>. QED  BY <2>1, <2>2, OthersUntouched
  <1>4. ASSUME NEW q \in Members, MemberSend(q)
        PROVE  (OneLineAtATime /\ QueuedInOrder)'
    <2> DEFINE d == [to |-> Leader, src |-> q, type |-> "CHAT", line |-> Head(sendQueue[q]),
                     seq |-> 0, copy |-> timeouts]
    <2>1. /\ UNCHANGED <<alive, typed, sendQueue, acks>>
          /\ ~waiting[q] /\ waiting' = [waiting EXCEPT ![q] = TRUE]
          /\ chatNet' = chatNet \cup {d}
        BY <1>4 DEF MemberSend, Send
    <2>2. QueuedInOrder'
        BY <2>1 DEF QueuedInOrder
    <2>3. FromMember(q) = {} /\ acks[q] = 0
        BY <2>1 DEF OneLineAtATime
    <2>4. d.src = q /\ d.type = "CHAT" /\ d.line = Head(sendQueue[q])
        OBVIOUS
    <2> HIDE DEF d
    <2>5. /\ FromMember(q)' = {d}
          /\ \A r \in Members \ {q} : FromMember(r)' = FromMember(r) /\ waiting'[r] = waiting[r]
          /\ waiting'[q]
        BY <1>t, <2>1, <2>3, <2>4 DEF FromMember
    <2>6. \A e \in chatNet' : e.type = "CHAT" => e.src \in Members
        BY <2>1, <2>4 DEF OneLineAtATime
    <2>7. OneLineAtATime'
        BY <2>1, <2>3, <2>4, <2>5, <2>6, <1>0 DEF OneLineAtATime
    <2>. QED  BY <2>2, <2>7
  <1>5. ASSUME NEW q \in Members, MemberAcked(q)
        PROVE  (OneLineAtATime /\ QueuedInOrder)'
    <2>1. /\ UNCHANGED <<alive, typed, chatNet>>
          /\ waiting[q] /\ waiting' = [waiting EXCEPT ![q] = FALSE]
          /\ acks[q] > 0 /\ acks' = [acks EXCEPT ![q] = @ - 1]
          /\ sendQueue' = [sendQueue EXCEPT ![q] = Tail(@)]
        BY <1>5 DEF MemberAcked, TakeAck
    <2>2. acks[q] = 1 /\ FromMember(q) = {}
        BY <2>1, <1>t DEF OneLineAtATime
    <2>3. /\ acks'[q] = 0 /\ ~waiting'[q]
          /\ \A r \in Members : FromMember(r)' = FromMember(r)
          /\ \A r \in Members \ {q} : /\ acks'[r] = acks[r] /\ waiting'[r] = waiting[r]
                                      /\ sendQueue'[r] = sendQueue[r]
        BY <1>t, <2>1, <2>2 DEF FromMember
    <2>4. OneLineAtATime'
        BY <1>0, <2>1, <2>2, <2>3 DEF OneLineAtATime
    <2>5. QueuedInOrder'
      <3> SUFFICES ASSUME NEW i \in 1 .. Len(sendQueue'[q])
                   PROVE  sendQueue'[q][i] = [from |-> q, n |-> typed'[q] - Len(sendQueue'[q]) + i]
          BY <2>1, <2>3 DEF QueuedInOrder
      <3>1. sendQueue[q] \in Seq(Lines) /\ sendQueue[q] # << >> /\ typed[q] \in Nat
            /\ sendQueue'[q] = Tail(sendQueue[q])
          BY <1>0, <1>t, <2>1
      <3>2. /\ Len(sendQueue'[q]) = Len(sendQueue[q]) - 1
            /\ sendQueue'[q][i] = sendQueue[q][i + 1] /\ i + 1 \in 1 .. Len(sendQueue[q])
            /\ Len(sendQueue[q]) \in Nat /\ i \in Nat
          BY <3>1
      <3>3. sendQueue[q][i + 1] = [from |-> q, n |-> typed[q] - Len(sendQueue[q]) + (i + 1)]
          BY <3>2 DEF QueuedInOrder
      <3>. QED  BY <2>1, <3>1, <3>2, <3>3
    <2>. QED  BY <2>4, <2>5
  <1>6. ASSUME NEW q \in Members, MemberTimeout(q) PROVE FALSE
    <2>1. waiting[q] /\ acks[q] = 0 /\ ~AnswerComing(q)
        BY <1>6 DEF MemberTimeout, Timeout
    <2>2. PICK d \in FromMember(q) : d.type = "CHAT"
        BY <2>1 DEF OneLineAtATime
    <2>. QED  BY <1>0, <2>1, <2>2 DEF FromMember, AnswerComing
  <1>7. ASSUME NEW q \in Members, Crash(q)
        PROVE  (OneLineAtATime /\ QueuedInOrder)'
      BY <1>7 DEF Crash, OneLineAtATime, QueuedInOrder, FromMember
  <1>8. CASE LeaderStep
    <2>1. UNCHANGED <<alive, waiting, typed>>
        BY <1>8 DEF LeaderStep, LeaderFront, LeaderSend, LeaderAcked, LeaderTimeout, LeaderDone
    <2>2. \A q \in Members : acks'[q] = acks[q] /\ sendQueue'[q] = sendQueue[q]
        BY <1>8, <1>t DEF LeaderStep, LeaderFront, LeaderSend, LeaderAcked, LeaderTimeout,
                          LeaderDone, TakeAck, Timeout
    <2>3. chatNet' = chatNet \/ \E d : /\ chatNet' = chatNet \cup {d}
                                       /\ d.src = Leader /\ d.type = "SEQ_CHAT"
      <3>1. CASE LeaderSend
        <4> DEFINE e == [to |-> SocketList[it], src |-> Leader, type |-> "SEQ_CHAT",
                         line |-> Head(sendQueue[Leader]), seq |-> current[Leader],
                         copy |-> retry_send]
        <4>1. chatNet' = chatNet \cup {e} /\ e.src = Leader /\ e.type = "SEQ_CHAT"
            BY <3>1 DEF LeaderSend, Send
        <4>. QED  BY <4>1
      <3>2. CASE ~LeaderSend
          BY <1>8, <3>2 DEF LeaderStep, LeaderFront, LeaderAcked, LeaderTimeout, LeaderDone
      <3>. QED  BY <3>1, <3>2
    <2>4. /\ \A d \in chatNet' : d.type = "CHAT" => d \in chatNet
          /\ \A q \in Members : FromMember(q)' = FromMember(q)
        BY <2>3 DEF FromMember
    <2>. QED  BY <2>1, <2>2, <2>4, OthersUntouched
  <1>9. CASE UNCHANGED vars
      BY <1>9 DEF vars, OneLineAtATime, QueuedInOrder, FromMember
  <1>. QED  BY <1>1, <1>2, <1>3, <1>4, <1>5, <1>6, <1>7, <1>8, <1>9
            DEF Next, MemberStep, Receive
-----------------------------------------------------------------------------
(***************************************************************************)
(* The way of a line through the places of the sequencer, for any contents *)
(* of the three: what its threads do keeps the lines of an author in the   *)
(* order in which they were typed.                                         *)
(***************************************************************************)
LEMMA LineTypes ==
  /\ \A l \in Lines : l.from \in Procs /\ l.n \in Nat
  /\ \A s \in Seq(Lines) : \A i \in 1 .. Len(s) : s[i].from \in Procs /\ s[i].n \in Nat
  /\ \A s \in Seq(Held) : \A i \in 1 .. Len(s) : /\ s[i] \in Held /\ s[i].line \in Lines
                                                /\ s[i].line.from \in Procs
                                                /\ s[i].line.n \in Nat
  <1>1. \A l \in Lines : l.from \in Procs /\ l.n \in Nat
      BY DEF Lines
  <1>2. ASSUME NEW s \in Seq(Lines), NEW i \in 1 .. Len(s)
        PROVE  s[i] \in Lines
      OBVIOUS
  <1>3. ASSUME NEW s \in Seq(Held), NEW i \in 1 .. Len(s)
        PROVE  s[i] \in Held /\ s[i].line \in Lines
    <2>1. s[i] \in Held
        OBVIOUS
    <2>. QED  BY <2>1 DEF Held
  <1>. QED  BY <1>1, <1>2, <1>3

(* main, at the sequencer. *)
LEMMA NewLine ==
  ASSUME NEW N \in Seq(Lines), NEW Q \in Seq(Lines), NEW H \in Seq(Held),
         NEW R \in [Procs -> Int], InOrder(N, Q, H, R),
         NEW l \in Lines, l.from = Leader, l.n = R[Leader] + 1,
         NEW S \in [Procs -> Int], \A p \in Procs : S[p] = IF p = Leader THEN R[p] + 1 ELSE R[p]
  PROVE  InOrder(N, Append(Q, l), H, S)
  <1>1. /\ \A i \in 1 .. Len(N) : N[i].from \in Procs /\ N[i].n \in Nat
        /\ \A i \in 1 .. Len(Q) : Q[i].from \in Procs /\ Q[i].n \in Nat
        /\ \A i \in 1 .. Len(H) : H[i].line.from \in Procs /\ H[i].line.n \in Nat
        /\ l.n \in Nat /\ R[Leader] \in Int /\ Leader \in Procs
      BY LineTypes, GroupAssumption
  <1>2. /\ Len(Append(Q, l)) = Len(Q) + 1 /\ Len(Q) \in Nat
        /\ \A i \in 1 .. Len(Q) : Append(Q, l)[i] = Q[i]
        /\ Append(Q, l)[Len(Q) + 1] = l
      BY AppendToQueue
  <1>3. ASSUME NEW p \in Procs PROVE R[p] <= S[p] /\ R[p] \in Int /\ S[p] \in Int
    <2>1. R[p] \in Int /\ (S[p] = R[p] + 1 \/ S[p] = R[p])
        OBVIOUS
    <2>. QED  BY <2>1
  <1>4. \A i \in 1 .. Len(Append(Q, l)) : i \in 1 .. Len(Q) \/ i = Len(Q) + 1
      BY <1>2
  <1> DEFINE QQ == Append(Q, l)
  <1> HIDE DEF QQ
  <1>5. /\ \A i \in 1 .. Len(N) : N[i].n <= S[N[i].from]
        /\ \A i \in 1 .. Len(QQ) : QQ[i].n <= S[QQ[i].from]
      BY <1>1, <1>2, <1>3, <1>4 DEF InOrder, QQ
  <1>6. \A i \in ChatsIn(H) : H[i].line.from # Leader /\ H[i].line.n <= S[H[i].line.from]
      BY <1>1, <1>3 DEF InOrder, ChatsIn
  <1>7. ASSUME NEW i \in 1 .. Len(QQ), NEW j \in 1 .. Len(QQ), i < j
        PROVE  Precedes(QQ[i], QQ[j])
    <2>1. i \in 1 .. Len(Q) /\ QQ[i] = Q[i]
        BY <1>2, <1>4, <1>7 DEF QQ
    <2>2. CASE j \in 1 .. Len(Q)
        BY <1>2, <1>7, <2>1, <2>2 DEF InOrder, QQ
    <2>3. CASE j = Len(Q) + 1
      <3>1. Q[i].n <= R[Q[i].from] /\ Q[i].n \in Nat /\ Q[i].from \in Procs /\ QQ[j] = l
          BY <1>1, <1>2, <2>1, <2>3 DEF InOrder, QQ
      <3>. QED  BY <1>1, <2>1, <3>1 DEF Precedes
    <2>. QED  BY <1>2, <1>4, <2>2, <2>3 DEF QQ
  <1>8. \A i \in 1 .. Len(N), j \in 1 .. Len(QQ) : Precedes(N[i], QQ[j])
      BY <1>1, <1>2, <1>3, <1>4 DEF InOrder, Precedes, QQ
  <1>9. \A i \in 1 .. Len(QQ), j \in ChatsIn(H) : Precedes(QQ[i], H[j].line)
      BY <1>1, <1>2, <1>3, <1>4 DEF InOrder, Precedes, QQ
  <1>10. InOrder(N, QQ, H, S)
      BY <1>5, <1>6, <1>7, <1>8, <1>9 DEF InOrder
  <1>. QED  BY <1>10 DEF QQ
(* receiveMessage: the next line of some member. *)
LEMMA NextLineArrives ==
  ASSUME NEW N \in Seq(Lines), NEW Q \in Seq(Lines), NEW H \in Seq(Held),
         NEW R \in [Procs -> Int], InOrder(N, Q, H, R),
         NEW l \in Lines, l.from # Leader, l.n = R[l.from] + 1,
         NEW S \in [Procs -> Int], \A p \in Procs : S[p] = IF p = l.from THEN R[p] + 1 ELSE R[p]
  PROVE  InOrder(N, Q, Append(H, [type |-> "CHAT", line |-> l]), S)
  <1> DEFINE h == [type |-> "CHAT", line |-> l]
             HH == Append(H, h)
  <1>1. h \in Held /\ h.type = "CHAT" /\ h.line = l
      BY DEF Held
  <1>2. /\ Len(HH) = Len(H) + 1 /\ Len(H) \in Nat
        /\ \A i \in 1 .. Len(H) : HH[i] = H[i]
        /\ HH[Len(H) + 1] = h
      BY <1>1, AppendToQueue
  <1>t. l.from \in Procs /\ l.n \in Nat
      BY LineTypes
  <1>3. /\ \A p \in Procs : R[p] <= S[p] /\ R[p] \in Int /\ S[p] \in Int
        /\ l.n = S[l.from]
    <2>1. ASSUME NEW p \in Procs PROVE R[p] <= S[p] /\ R[p] \in Int /\ S[p] \in Int
      <3>1. R[p] \in Int /\ (S[p] = R[p] + 1 \/ S[p] = R[p])
          OBVIOUS
      <3>. QED  BY <3>1
    <2>2. l.n = S[l.from]
        BY <1>t
    <2>. QED  BY <2>1, <2>2
  <1>4. ASSUME NEW i \in ChatsIn(HH)
        PROVE  (i \in ChatsIn(H) /\ HH[i] = H[i]) \/ (i = Len(H) + 1 /\ HH[i] = h)
    <2>1. i \in 1 .. Len(HH) /\ HH[i].type = "CHAT"
        BY DEF ChatsIn
    <2> HIDE DEF HH, h
    <2>. QED  BY <1>2, <2>1 DEF ChatsIn
  <1>l. \A i \in ChatsIn(H) : /\ i \in 1 .. Len(H) /\ H[i].line.from \in Procs
                             /\ H[i].line.n \in Nat
      BY LineTypes DEF ChatsIn
  <1> HIDE DEF HH, h
  <1>5. /\ \A i \in 1 .. Len(N) : N[i].n <= S[N[i].from]
        /\ \A i \in 1 .. Len(Q) : Q[i].n <= S[Q[i].from]
      BY <1>3, LineTypes DEF InOrder
  <1>6. ASSUME NEW i \in ChatsIn(HH)
        PROVE  HH[i].line.from # Leader /\ HH[i].line.n <= S[HH[i].line.from]
    <2>1. CASE i \in ChatsIn(H) /\ HH[i] = H[i]
        BY <1>3, <1>l, <2>1 DEF InOrder
    <2>2. CASE HH[i] = h
        BY <1>1, <1>t, <1>3, <2>2
    <2>. QED  BY <1>4, <2>1, <2>2
  <1>7. ASSUME NEW i \in ChatsIn(HH), NEW j \in ChatsIn(HH), i < j
        PROVE  Precedes(HH[i].line, HH[j].line)
    <2>1. i \in ChatsIn(H) /\ HH[i] = H[i]
        BY <1>2, <1>4, <1>7, <1>l DEF ChatsIn
    <2>2. CASE j \in ChatsIn(H) /\ HH[j] = H[j]
        BY <1>7, <2>1, <2>2 DEF InOrder
    <2>3. CASE HH[j] = h
      <3>1. H[i].line.n <= R[H[i].line.from]
          BY <2>1 DEF InOrder
      <3>. QED  BY <1>1, <1>3, <1>t, <1>l, <2>1, <2>3, <3>1 DEF Precedes
    <2>. QED  BY <1>4, <2>2, <2>3
  <1>8. ASSUME NEW i \in 1 .. Len(N), NEW j \in ChatsIn(HH)
        PROVE  Precedes(N[i], HH[j].line)
    <2>1. CASE j \in ChatsIn(H) /\ HH[j] = H[j]
        BY <2>1 DEF InOrder
    <2>2. CASE HH[j] = h
      <3>1. N[i].n <= R[N[i].from] /\ N[i].n \in Nat /\ N[i].from \in Procs
          BY LineTypes DEF InOrder
      <3>. QED  BY <1>1, <1>3, <1>t, <2>2, <3>1 DEF Precedes
    <2>. QED  BY <1>4, <2>1, <2>2
  <1>9. ASSUME NEW i \in 1 .. Len(Q), NEW j \in ChatsIn(HH)
        PROVE  Precedes(Q[i], HH[j].line)
    <2>1. CASE j \in ChatsIn(H) /\ HH[j] = H[j]
        BY <2>1 DEF InOrder
    <2>2. CASE HH[j] = h
      <3>1. Q[i].n <= R[Q[i].from] /\ Q[i].n \in Nat /\ Q[i].from \in Procs
          BY LineTypes DEF InOrder
      <3>. QED  BY <1>1, <1>3, <1>t, <2>2, <3>1 DEF Precedes
    <2>. QED  BY <1>4, <2>1, <2>2
  <1>10. InOrder(N, Q, HH, S)
      BY <1>5, <1>6, <1>7, <1>8, <1>9 DEF InOrder
  <1>. QED  BY <1>10 DEF HH, h

(* receiveMessage: the sequencer's own copy. *)
LEMMA CopyArrives ==
  ASSUME NEW N \in Seq(Lines), NEW Q \in Seq(Lines), NEW H \in Seq(Held),
         NEW R \in [Procs -> Int], InOrder(N, Q, H, R), NEW h \in Held, h.type = "SEQ_CHAT"
  PROVE  InOrder(N, Q, Append(H, h), R)
  <1>1. /\ \A i \in 1 .. Len(Append(H, h)) :
             (i \in 1 .. Len(H) /\ Append(H, h)[i] = H[i]) \/ Append(H, h)[i] = h
        /\ Len(H) \in Nat /\ Len(Append(H, h)) = Len(H) + 1
      BY AppendToQueue
  <1> DEFINE HH == Append(H, h)
  <1>2. \A i \in ChatsIn(HH) : i \in ChatsIn(H) /\ HH[i] = H[i]
      BY <1>1 DEF ChatsIn
  <1> HIDE DEF HH
  <1>3. InOrder(N, Q, HH, R)
      BY <1>2 DEF InOrder
  <1>. QED  BY <1>3 DEF HH

(* processMessage: a line without a number to the sendQueue. *)
LEMMA LineToQueue ==
  ASSUME NEW N \in Seq(Lines), NEW Q \in Seq(Lines), NEW H \in Seq(Held),
         NEW R \in [Procs -> Int], InOrder(N, Q, H, R),
         H # << >>, Head(H).type = "CHAT"
  PROVE  InOrder(N, Append(Q, Head(H).line), Tail(H), R)
  <1> DEFINE l == Head(H).line
             QQ == Append(Q, l)
             T == Tail(H)
  <1>1. /\ Len(T) = Len(H) - 1 /\ Len(H) \in Nat /\ 1 \in 1 .. Len(H)
        /\ \A i \in 1 .. Len(T) : T[i] = H[i + 1] /\ i + 1 \in 1 .. Len(H)
        /\ H[1].type = "CHAT" /\ l = H[1].line
      OBVIOUS
  <1>c. /\ 1 \in ChatsIn(H)
        /\ \A i \in ChatsIn(T) : i + 1 \in ChatsIn(H) /\ T[i] = H[i + 1] /\ 1 < i + 1
        /\ \A i, j \in ChatsIn(T) : i < j => i + 1 < j + 1
      BY <1>1 DEF ChatsIn
  <1>2. l \in Lines
      BY <1>1, LineTypes
  <1>3. /\ Len(QQ) = Len(Q) + 1 /\ Len(Q) \in Nat
        /\ \A i \in 1 .. Len(Q) : QQ[i] = Q[i]
        /\ QQ[Len(Q) + 1] = l
      BY <1>2, AppendToQueue
  <1>4. \A i \in 1 .. Len(QQ) : i \in 1 .. Len(Q) \/ i = Len(Q) + 1
      BY <1>3
  <1> HIDE DEF l, QQ, T
  <1>5. \A i \in 1 .. Len(QQ) : QQ[i].n <= R[QQ[i].from]
      BY <1>1, <1>c, <1>3, <1>4 DEF InOrder
  <1>6. \A i \in ChatsIn(T) : T[i].line.from # Leader /\ T[i].line.n <= R[T[i].line.from]
      BY <1>c DEF InOrder
  <1>7. \A i, j \in 1 .. Len(QQ) : i < j => Precedes(QQ[i], QQ[j])
      BY <1>1, <1>c, <1>3, <1>4 DEF InOrder
  <1>8. \A i, j \in ChatsIn(T) : i < j => Precedes(T[i].line, T[j].line)
      BY <1>c DEF InOrder
  <1>9. \A i \in 1 .. Len(N), j \in 1 .. Len(QQ) : Precedes(N[i], QQ[j])
      BY <1>1, <1>c, <1>3, <1>4 DEF InOrder
  <1>10. \A i \in 1 .. Len(N), j \in ChatsIn(T) : Precedes(N[i], T[j].line)
      BY <1>c DEF InOrder
  <1>11. \A i \in 1 .. Len(QQ), j \in ChatsIn(T) : Precedes(QQ[i], T[j].line)
      BY <1>1, <1>c, <1>3, <1>4 DEF InOrder
  <1>12. InOrder(N, QQ, T, R)
      BY <1>5, <1>6, <1>7, <1>8, <1>9, <1>10, <1>11 DEF InOrder
  <1>. QED  BY <1>12 DEF QQ, l, T

(* processMessage: a copy to the screen. *)
LEMMA CopyLeaves ==
  ASSUME NEW N \in Seq(Lines), NEW Q \in Seq(Lines), NEW H \in Seq(Held),
         NEW R \in [Procs -> Int], InOrder(N, Q, H, R), H # << >>
  PROVE  InOrder(N, Q, Tail(H), R)
  <1> DEFINE T == Tail(H)
  <1>1. /\ Len(T) = Len(H) - 1 /\ Len(H) \in Nat
        /\ \A i \in 1 .. Len(T) : T[i] = H[i + 1] /\ i + 1 \in 1 .. Len(H)
      OBVIOUS
  <1> HIDE DEF T
  <1>c. /\ \A i \in ChatsIn(T) : i + 1 \in ChatsIn(H) /\ T[i] = H[i + 1]
        /\ \A i, j \in ChatsIn(T) : i < j => i + 1 < j + 1
      BY <1>1 DEF ChatsIn
  <1>2. InOrder(N, Q, T, R)
      BY <1>c DEF InOrder
  <1>. QED  BY <1>2 DEF T

(* sendMessage: the next line gets its number. *)
LEMMA LineNumbered ==
  ASSUME NEW N \in Seq(Lines), NEW Q \in Seq(Lines), NEW H \in Seq(Held),
         NEW R \in [Procs -> Int], InOrder(N, Q, H, R), Q # << >>
  PROVE  InOrder(Append(N, Head(Q)), Tail(Q), H, R)
  <1> DEFINE l == Head(Q)
             NN == Append(N, l)
             T == Tail(Q)
  <1>1. /\ Len(T) = Len(Q) - 1 /\ Len(Q) \in Nat /\ 1 \in 1 .. Len(Q)
        /\ \A i \in 1 .. Len(T) : T[i] = Q[i + 1] /\ i + 1 \in 1 .. Len(Q)
        /\ \A i, j \in 1 .. Len(T) : i < j => i + 1 < j + 1
        /\ l = Q[1] /\ l \in Lines
      OBVIOUS
  <1>2. /\ Len(NN) = Len(N) + 1 /\ Len(N) \in Nat
        /\ \A i \in 1 .. Len(N) : NN[i] = N[i]
        /\ NN[Len(N) + 1] = l
      BY <1>1, AppendToQueue
  <1>3. \A i \in 1 .. Len(NN) : i \in 1 .. Len(N) \/ i = Len(N) + 1
      BY <1>2
  <1> HIDE DEF l, NN, T
  <1>4. /\ \A i \in 1 .. Len(NN) : NN[i].n <= R[NN[i].from]
        /\ \A i \in 1 .. Len(T) : T[i].n <= R[T[i].from]
      BY <1>1, <1>2, <1>3 DEF InOrder
  <1>5. \A i, j \in 1 .. Len(NN) : i < j => Precedes(NN[i], NN[j])
      BY <1>1, <1>2, <1>3 DEF InOrder
  <1>6. \A i, j \in 1 .. Len(T) : i < j => Precedes(T[i], T[j])
      BY <1>1 DEF InOrder
  <1>7. \A i \in 1 .. Len(NN), j \in 1 .. Len(T) : Precedes(NN[i], T[j])
    <2> SUFFICES ASSUME NEW i \in 1 .. Len(NN), NEW j \in 1 .. Len(T)
                 PROVE  Precedes(NN[i], T[j])
        OBVIOUS
    <2>1. CASE i \in 1 .. Len(N)
        BY <1>1, <1>2, <2>1 DEF InOrder
    <2>2. CASE i = Len(N) + 1
      <3>1. 1 < j + 1
          BY <1>1
      <3>. QED  BY <1>1, <1>2, <2>2, <3>1 DEF InOrder
    <2>. QED  BY <1>3, <2>1, <2>2
  <1>8. \A i \in 1 .. Len(NN), j \in ChatsIn(H) : Precedes(NN[i], H[j].line)
      BY <1>1, <1>2, <1>3 DEF InOrder
  <1>9. \A i \in 1 .. Len(T), j \in ChatsIn(H) : Precedes(T[i], H[j].line)
      BY <1>1 DEF InOrder
  <1>10. InOrder(NN, T, H, R)
      BY <1>4, <1>5, <1>6, <1>7, <1>8, <1>9 DEF InOrder
  <1>. QED  BY <1>10 DEF NN, l, T
-----------------------------------------------------------------------------
(***************************************************************************)
(* The lines at the sequencer.                                             *)
(***************************************************************************)
LEMMA PlaceTypes ==
  ASSUME TypeOK, Multicasting
  PROVE  /\ log \in Seq(Lines)
         /\ sendQueue[Leader] \in Seq(Lines)
         /\ Unnumbered \in Seq(Lines)
         /\ holdback[Leader] \in Seq(Held)
         /\ leaderPc # "front" => sendQueue[Leader] # << >>
  BY MembersAreProcs DEF TypeOK, Multicasting, Unnumbered

LEMMA ReachedTyped ==
  ASSUME TypeOK
  PROVE  /\ Reached \in [Procs -> Int]
         /\ Reached[Leader] = typed[Leader]
         /\ \A q \in Members :
              Reached[q] = typed[q] - Len(sendQueue[q])
                             + (IF waiting[q] /\ acks[q] = 1 THEN 1 ELSE 0)
  <1>1. \A p \in Procs : typed[p] \in Int /\ Len(sendQueue[p]) \in Int
      BY DEF TypeOK
  <1>. QED  BY <1>1, MembersAreProcs DEF Reached

LEMMA ReachedTypedNext ==
  ASSUME TypeOK'
  PROVE  Reached' \in [Procs -> Int]
  <1>1. \A p \in Procs : typed'[p] \in Int /\ Len(sendQueue'[p]) \in Int
      BY DEF TypeOK
  <1>. QED  BY <1>1 DEF Reached

LEMMA ReachedSame ==
  ASSUME typed'[Leader] = typed[Leader],
         \A q \in Members :
           typed'[q] - Len(sendQueue'[q]) + (IF waiting'[q] /\ acks'[q] = 1 THEN 1 ELSE 0)
             = typed[q] - Len(sendQueue[q]) + (IF waiting[q] /\ acks[q] = 1 THEN 1 ELSE 0)
  PROVE  Reached' = Reached
  <1>1. \A p \in Procs : p = Leader \/ p \in Members
      BY DEF Members
  <1>. QED  BY <1>1, MembersAreProcs DEF Reached

LEMMA AppendToTail ==
  ASSUME NEW s \in Seq(Lines), s # << >>, NEW l \in Lines
  PROVE  Tail(Append(s, l)) = Append(Tail(s), l)
  OBVIOUS

LEMMA PlacesUntouched ==
  ASSUME InTypedOrder, UNCHANGED <<log, leaderPc>>,
         sendQueue'[Leader] = sendQueue[Leader], holdback'[Leader] = holdback[Leader],
         Reached' = Reached
  PROVE  InTypedOrder'
  <1>1. Unnumbered' = Unnumbered
      BY DEF Unnumbered
  <1>. QED  BY <1>1 DEF InTypedOrder

LEMMA TypedInOrder ==
  ASSUME TypeOK, TypeOK', Multicasting, InTypedOrder, NEW p \in Procs, TypeLine(p)
  PROVE  InTypedOrder'
  <1> DEFINE l == [from |-> p, n |-> typed[p] + 1]
  <1>1. /\ UNCHANGED <<log, leaderPc, waiting, acks, holdback>>
        /\ typed' = [typed EXCEPT ![p] = @ + 1]
        /\ sendQueue' = [sendQueue EXCEPT ![p] = Append(@, l)]
      BY DEF TypeLine, leaderVars
  <1>2. /\ typed \in [Procs -> Nat] /\ sendQueue \in [Procs -> Seq(Lines)]
        /\ l \in Lines /\ l.from = p /\ l.n = typed[p] + 1
    <2>1. typed \in [Procs -> Nat] /\ sendQueue \in [Procs -> Seq(Lines)]
        BY DEF TypeOK
    <2>2. typed[p] + 1 \in Nat \ {0}
        BY <2>1
    <2>. QED  BY <2>1, <2>2 DEF Lines
  <1> HIDE DEF l
  <1>3. CASE p # Leader
    <2>1. \A q \in Members : typed'[q] - Len(sendQueue'[q]) = typed[q] - Len(sendQueue[q])
      <3> SUFFICES ASSUME NEW q \in Members
                   PROVE  typed'[q] - Len(sendQueue'[q]) = typed[q] - Len(sendQueue[q])
          OBVIOUS
      <3>1. CASE q # p
          BY <1>1, <1>2, <3>1, MembersAreProcs
      <3>2. CASE q = p
        <4>1. /\ typed'[p] = typed[p] + 1 /\ Len(sendQueue'[p]) = Len(sendQueue[p]) + 1
              /\ typed[p] \in Nat /\ Len(sendQueue[p]) \in Nat
            BY <1>1, <1>2, AppendToQueue
        <4>. QED  BY <3>2, <4>1
      <3>. QED  BY <3>1, <3>2
    <2>2. typed'[Leader] = typed[Leader] /\ sendQueue'[Leader] = sendQueue[Leader]
        BY <1>1, <1>2, <1>3, MembersAreProcs
    <2>3. Reached' = Reached
        BY <1>1, <2>1, <2>2, ReachedSame
    <2>. QED  BY <1>1, <2>2, <2>3, PlacesUntouched
  <1>4. CASE p = Leader
    <2>1. /\ l.from = Leader /\ l.n = Reached[Leader] + 1
          /\ Reached \in [Procs -> Int] /\ Reached' \in [Procs -> Int]
        BY <1>2, <1>4, ReachedTyped, ReachedTypedNext
    <2>2. \A r \in Procs : Reached'[r] = IF r = Leader THEN Reached[r] + 1 ELSE Reached[r]
      <3>1. /\ typed'[Leader] = typed[Leader] + 1
            /\ \A q \in Members : typed'[q] = typed[q] /\ sendQueue'[q] = sendQueue[q]
          BY <1>1, <1>2, <1>4, MembersAreProcs
      <3>2. \A r \in Procs : r = Leader \/ r \in Members
          BY DEF Members
      <3>3. ASSUME NEW r \in Members PROVE Reached'[r] = Reached[r]
        <4>1. /\ waiting'[r] = waiting[r] /\ acks'[r] = acks[r]
              /\ typed'[r] = typed[r] /\ sendQueue'[r] = sendQueue[r]
            BY <1>1, <3>1
        <4>. QED  BY <4>1, MembersAreProcs DEF Reached
      <3>4. Reached'[Leader] = typed'[Leader] /\ Reached[Leader] = typed[Leader]
          BY MembersAreProcs DEF Reached
      <3>. QED  BY <3>1, <3>2, <3>3, <3>4, MembersAreProcs
    <2>3. Unnumbered' = Append(Unnumbered, l)
      <3>1. sendQueue'[Leader] = Append(sendQueue[Leader], l)
          BY <1>1, <1>2, <1>4
      <3>. QED  BY <1>1, <1>2, <3>1, PlaceTypes, AppendToTail DEF Unnumbered
    <2>. QED  BY <1>1, <1>2, <2>1, <2>2, <2>3, PlaceTypes, NewLine DEF InTypedOrder
  <1>. QED  BY <1>3, <1>4

LEMMA ReceivedInOrder ==
  ASSUME Prompt, TypeOK, TypeOK', Multicasting, DatagramsNumbered, WaitingForHead,
         OneLineAtATime, QueuedInOrder, InTypedOrder,
         NEW p \in Procs, NEW d \in chatNet, ReceiveMessage(p, d)
  PROVE  InTypedOrder'
  <1> DEFINE h == [type |-> d.type, line |-> d.line]
  <1>1. /\ d.to = p /\ d.src \in Procs /\ d.line \in Lines /\ d.type \in {"CHAT", "SEQ_CHAT"}
        /\ acks' = [acks EXCEPT ![d.src] = @ + 1]
        /\ UNCHANGED <<log, leaderPc, typed, sendQueue, waiting>>
        /\ p = Leader => holdback' = [holdback EXCEPT ![p] = Append(@, h)]
        /\ p # Leader => holdback'[Leader] = holdback[Leader]
      BY MembersAreProcs DEF ReceiveMessage, SendAck, leaderVars, TypeOK, Datagrams, Accepts
  <1>2. h \in Held /\ h.type = d.type /\ h.line = d.line
      BY <1>1 DEF Held
  <1>3. /\ acks \in [Procs -> Nat] /\ typed \in [Procs -> Nat]
        /\ holdback \in [Procs -> Seq(Held)] /\ sendQueue \in [Procs -> Seq(Lines)]
      BY DEF TypeOK
  <1>u. Unnumbered' = Unnumbered
      BY <1>1 DEF Unnumbered
  <1>4. CASE d.type = "SEQ_CHAT"
    <2>1. d.src \notin Members
        BY <1>4 DEF OneLineAtATime, FromMember
    <2>2. \A q \in Members : acks'[q] = acks[q]
        BY <1>1, <1>3, <2>1, MembersAreProcs
    <2>3. Reached' = Reached
        BY <1>1, <2>2, ReachedSame
    <2>4. CASE p # Leader
        BY <1>1, <2>3, <2>4, PlacesUntouched
    <2>5. CASE p = Leader
      <3>1. holdback'[Leader] = Append(holdback[Leader], h)
          BY <1>1, <1>3, <2>5
      <3> HIDE DEF h
      <3>2. /\ log \in Seq(Lines) /\ Unnumbered \in Seq(Lines)
            /\ holdback[Leader] \in Seq(Held) /\ Reached \in [Procs -> Int]
            /\ InOrder(log, Unnumbered, holdback[Leader], Reached)
          BY PlaceTypes, ReachedTyped DEF InTypedOrder
      <3>3. InOrder(log, Unnumbered, Append(holdback[Leader], h), Reached)
          BY <1>2, <1>4, <3>2, CopyArrives
      <3>. QED  BY <1>1, <1>u, <2>3, <3>1, <3>3 DEF InTypedOrder
    <2>. QED  BY <2>4, <2>5
  <1>5. CASE d.type = "CHAT"
    <2> DEFINE q == d.src
    <2>1. p = Leader /\ q \in Members
        BY <1>1, <1>5 DEF DatagramsNumbered, OneLineAtATime
    <2>2. waiting[q] /\ acks[q] = 0 /\ d.line = Head(sendQueue[q])
        BY <2>1 DEF OneLineAtATime, FromMember
    <2>3. /\ q \in Procs /\ sendQueue[q] \in Seq(Lines) /\ sendQueue[q] # << >>
          /\ typed[q] \in Nat /\ Len(sendQueue[q]) \in Nat
        BY <1>3, <2>1, <2>2, MembersAreProcs DEF WaitingForHead
    <2>4. d.line = [from |-> q, n |-> typed[q] - Len(sendQueue[q]) + 1]
      <3>1. d.line = sendQueue[q][1] /\ 1 \in 1 .. Len(sendQueue[q])
          BY <2>2, <2>3
      <3>. QED  BY <2>1, <3>1 DEF QueuedInOrder
    <2>5. /\ Reached \in [Procs -> Int] /\ Reached' \in [Procs -> Int]
          /\ d.line.from = q /\ d.line.n = Reached[q] + 1
      <3>1. Reached[q] = typed[q] - Len(sendQueue[q])
          BY <2>1, <2>2, <2>3, ReachedTyped
      <3> HIDE DEF q
      <3>. QED  BY <2>4, <3>1, ReachedTyped, ReachedTypedNext
    <2>6. \A r \in Procs : Reached'[r] = IF r = q THEN Reached[r] + 1 ELSE Reached[r]
      <3>1. acks'[q] = 1 /\ \A r \in Members : r # q => acks'[r] = acks[r]
          BY <1>1, <1>3, <2>1, <2>2, MembersAreProcs
      <3>2. \A r \in Procs : r = Leader \/ r \in Members
          BY DEF Members
      <3>. QED  BY <1>1, <2>1, <2>2, <2>3, <3>1, <3>2, MembersAreProcs DEF Reached
    <2>7. holdback'[Leader] = Append(holdback[Leader], [type |-> "CHAT", line |-> d.line])
        BY <1>1, <1>3, <1>5, <2>1
    <2> HIDE DEF q
    <2>8. d.line.from # Leader
        BY <2>1, <2>5, MembersAreProcs
    <2>9. /\ log \in Seq(Lines) /\ Unnumbered \in Seq(Lines)
          /\ holdback[Leader] \in Seq(Held)
          /\ InOrder(log, Unnumbered, holdback[Leader], Reached)
        BY PlaceTypes DEF InTypedOrder
    <2>10. d.line \in Lines /\ d.line.n = Reached[d.line.from] + 1
        BY <1>1, <2>5
    <2>11. \A r \in Procs : Reached'[r] = IF r = d.line.from THEN Reached[r] + 1 ELSE Reached[r]
        BY <2>5, <2>6
    <2>12. InOrder(log, Unnumbered,
                   Append(holdback[Leader], [type |-> "CHAT", line |-> d.line]), Reached')
        BY <2>5, <2>8, <2>9, <2>10, <2>11, NextLineArrives
    <2>. QED  BY <1>1, <1>u, <2>7, <2>12 DEF InTypedOrder
  <1>. QED  BY <1>1, <1>4, <1>5

LEMMA ProcessedInOrder ==
  ASSUME TypeOK, TypeOK', Multicasting, InTypedOrder, NEW p \in Procs, ProcessMessage(p)
  PROVE  InTypedOrder'
  <1> DEFINE H == holdback[Leader]
  <1>1. UNCHANGED <<log, leaderPc, typed, waiting, acks>>
      BY DEF ProcessMessage, leaderVars
  <1>2. holdback \in [Procs -> Seq(Held)] /\ sendQueue \in [Procs -> Seq(Lines)]
      BY DEF TypeOK
  <1>3. \A q \in Members : sendQueue'[q] = sendQueue[q]
    <2>1. p # Leader => sendQueue' = sendQueue
        BY DEF ProcessMessage
    <2>2. sendQueue' = sendQueue \/ sendQueue' = [sendQueue EXCEPT ![p] = Append(@, Head(holdback[p]).line)]
        BY DEF ProcessMessage
    <2>. QED  BY <1>2, <2>1, <2>2, MembersAreProcs
  <1>4. Reached' = Reached
      BY <1>1, <1>3, ReachedSame
  <1>5. CASE p # Leader
    <2>1. sendQueue'[Leader] = sendQueue[Leader] /\ holdback'[Leader] = holdback[Leader]
        BY <1>2, <1>5, MembersAreProcs DEF ProcessMessage
    <2>. QED  BY <1>1, <1>4, <2>1, PlacesUntouched
  <1>6. CASE p = Leader
    <2>1. H # << >> /\ holdback'[Leader] = Tail(H)
        BY <1>2, <1>6 DEF ProcessMessage
    <2>2. CASE Head(H).type = "SEQ_CHAT"
      <3>1. Unnumbered' = Unnumbered
          BY <1>1, <1>6, <2>2 DEF ProcessMessage, Unnumbered
      <3> HIDE DEF H
      <3>2. H \in Seq(Held)
          BY PlaceTypes DEF H
      <3>. QED  BY <1>1, <1>4, <2>1, <3>1, <3>2, PlaceTypes, ReachedTyped, CopyLeaves
                DEF InTypedOrder, H
    <2>3. CASE Head(H).type = "CHAT"
      <3>1. Head(H).line \in Lines
        <4>1. Head(H) \in Held
            BY <2>1, PlaceTypes
        <4>. QED  BY <4>1 DEF Held
      <3>2. sendQueue'[Leader] = Append(sendQueue[Leader], Head(H).line)
          BY <1>2, <1>6, <2>3 DEF ProcessMessage
      <3>3. Unnumbered' = Append(Unnumbered, Head(H).line)
          BY <1>1, <3>1, <3>2, PlaceTypes, AppendToTail DEF Unnumbered
      <3>. QED  BY <1>1, <1>4, <2>1, <2>3, <3>3, PlaceTypes, ReachedTyped, LineToQueue
                DEF InTypedOrder
    <2>4. Head(H) \in Held
        BY <2>1, PlaceTypes
    <2>. QED  BY <2>2, <2>3, <2>4 DEF Held
  <1>. QED  BY <1>5, <1>6

LEMMA InTypedOrderStep ==
  ASSUME Prompt, IInv, IInv', OneLineAtATime, QueuedInOrder, InTypedOrder, [Next]_vars
  PROVE  InTypedOrder'
  <1> USE MembersAreProcs
  <1>0. /\ TypeOK /\ TypeOK' /\ Multicasting /\ DatagramsNumbered /\ WaitingForHead
        /\ acks \in [Procs -> Nat] /\ sendQueue \in [Procs -> Seq(Lines)]
        /\ waiting \in [Members -> BOOLEAN] /\ typed \in [Procs -> Nat]
      BY DEF IInv, TypeOK
  <1>1. ASSUME NEW p \in Procs, TypeLine(p) PROVE InTypedOrder'
      BY <1>0, <1>1, TypedInOrder
  <1>2. ASSUME NEW p \in Procs, Receive(p) PROVE InTypedOrder'
      BY <1>0, <1>2, ReceivedInOrder DEF Receive
  <1>3. ASSUME NEW p \in Procs, ProcessMessage(p) PROVE InTypedOrder'
      BY <1>0, <1>3, ProcessedInOrder
  <1>4. ASSUME NEW q \in Members, MemberSend(q) \/ MemberTimeout(q) PROVE InTypedOrder'
    <2>1. /\ UNCHANGED <<log, leaderPc, typed, sendQueue, acks, holdback>>
          /\ waiting' = [waiting EXCEPT ![q] = waiting'[q]]
          /\ acks[q] = 0 \/ UNCHANGED waiting
      <3>1. MemberSend(q) => acks[q] = 0
          BY DEF MemberSend, OneLineAtATime
      <3>2. MemberTimeout(q) => acks[q] = 0
          BY DEF MemberTimeout, Timeout
      <3>. QED  BY <1>0, <1>4, <3>1, <3>2 DEF MemberSend, MemberTimeout, Timeout, leaderVars
    <2>2. \A r \in Members : waiting'[r] /\ acks'[r] = 1 <=> waiting[r] /\ acks[r] = 1
        BY <1>0, <2>1
    <2>3. Reached' = Reached
        BY <2>1, <2>2, ReachedSame
    <2>. QED  BY <2>1, <2>3, PlacesUntouched
  <1>5. ASSUME NEW q \in Members, MemberAcked(q) PROVE InTypedOrder'
    <2>1. /\ UNCHANGED <<log, leaderPc, typed, holdback>>
          /\ waiting[q] /\ acks[q] > 0
          /\ acks' = [acks EXCEPT ![q] = @ - 1]
          /\ sendQueue' = [sendQueue EXCEPT ![q] = Tail(@)]
          /\ waiting' = [waiting EXCEPT ![q] = FALSE]
        BY <1>5 DEF MemberAcked, TakeAck, leaderVars
    <2>2. acks[q] = 1 /\ sendQueue[q] # << >>
        BY <1>0, <2>1 DEF OneLineAtATime, WaitingForHead
    <2>3. /\ Len(sendQueue'[q]) = Len(sendQueue[q]) - 1 /\ ~waiting'[q]
          /\ Len(sendQueue[q]) \in Nat /\ typed[q] \in Nat
        BY <1>0, <2>1, <2>2
    <2>4. \A r \in Members : r # q => /\ sendQueue'[r] = sendQueue[r] /\ acks'[r] = acks[r]
                                      /\ waiting'[r] = waiting[r]
        BY <1>0, <2>1
    <2>5. Reached' = Reached
        BY <2>1, <2>2, <2>3, <2>4, ReachedSame
    <2>. QED  BY <1>0, <2>1, <2>5, PlacesUntouched
  <1>6. ASSUME NEW q \in Members, Crash(q) PROVE InTypedOrder'
    <2>1. UNCHANGED <<log, leaderPc, typed, sendQueue, waiting, acks, holdback>>
        BY <1>6 DEF Crash, leaderVars
    <2>. QED  BY <2>1, ReachedSame, PlacesUntouched
  <1>7. CASE LeaderStep
    <2>1. /\ UNCHANGED <<typed, waiting, holdback>>
          /\ \A q \in Members : acks'[q] = acks[q] /\ sendQueue'[q] = sendQueue[q]
        BY <1>0, <1>7 DEF LeaderStep, LeaderFront, LeaderSend, LeaderAcked, LeaderTimeout,
                          LeaderDone, TakeAck, Timeout
    <2>2. Reached' = Reached
        BY <2>1, ReachedSame
    <2>3. CASE LeaderFront
      <3>1. /\ log' = Append(log, Head(Unnumbered)) /\ Unnumbered # << >>
            /\ Unnumbered' = Tail(Unnumbered)
          BY <2>3 DEF LeaderFront, Unnumbered
      <3>. QED  BY <1>0, <2>1, <2>2, <3>1, PlaceTypes, ReachedTyped, LineNumbered
                DEF InTypedOrder
    <2>4. CASE ~LeaderFront
      <3>1. log' = log /\ Unnumbered' = Unnumbered
          BY <1>0, <1>7, <2>4 DEF LeaderStep, LeaderSend, LeaderAcked, LeaderTimeout,
                                  LeaderDone, Unnumbered
      <3>. QED  BY <2>1, <2>2, <3>1 DEF InTypedOrder
    <2>. QED  BY <2>3, <2>4
  <1>8. CASE UNCHANGED vars
    <2>1. UNCHANGED <<log, leaderPc, typed, sendQueue, waiting, acks, holdback>>
        BY <1>8 DEF vars, leaderVars
    <2>. QED  BY <2>1, ReachedSame, PlacesUntouched
  <1>. QED  BY <1>1, <1>2, <1>3, <1>4, <1>5, <1>6, <1>7, <1>8 DEF Next, MemberStep

-----------------------------------------------------------------------------
(***************************************************************************)
(* The sequencer's own copies, again for any contents of its places: from  *)
(* receiveMessage over the holdbackQueue to the screen.                    *)
(***************************************************************************)
Distinct(L) == \A i, j \in 1 .. Len(L) : L[i] = L[j] => i = j

LEMMA CopiesOf ==
  ASSUME NEW L \in Seq(Lines)
  PROVE  \A k \in 1 .. Len(L) : /\ Copies(L)[k] \in Held
                                /\ Copies(L)[k].type = "SEQ_CHAT"
                                /\ Copies(L)[k].line = L[k]
  <1>1. \A k \in 1 .. Len(L) : L[k] \in Lines
      OBVIOUS
  <1>. QED  BY <1>1 DEF Copies, Held

LEMMA OwnCopyReceived ==
  ASSUME NEW P \in Seq(Lines), NEW H \in Seq(Held), NEW L \in Seq(Lines), Distinct(L),
         NEW n \in Nat, n + 1 \in 1 .. Len(L), CopiesFollow(P, H, L, n)
  PROVE  CopiesFollow(P, Append(H, Copies(L)[n + 1]), L, n + 1)
  <1> DEFINE C == Copies(L)
             h == C[n + 1]
             HH == Append(H, h)
  <1>1. h \in Held /\ h.type = "SEQ_CHAT" /\ h = C[n + 1]
      BY CopiesOf
  <1>2. /\ Len(HH) = Len(H) + 1 /\ Len(H) \in Nat /\ Len(P) \in Nat /\ Len(L) \in Nat
        /\ \A i \in 1 .. Len(H) : HH[i] = H[i]
        /\ HH[Len(H) + 1] = h
      BY <1>1, AppendToQueue
  <1>3. \A k, l \in 1 .. n + 1 : C[k] = C[l] => k = l
    <2>1. \A k, l \in 1 .. n + 1 : L[k] = L[l] => k = l
        BY <1>2 DEF Distinct
    <2>. QED  BY <1>2, <2>1, CopiesOf
  <1>4. /\ Len(P) <= n
        /\ \A i \in 1 .. Len(P) : P[i] = L[i]
        /\ \A k \in Len(P) + 1 .. n : \E i \in 1 .. Len(H) : H[i] = C[k]
        /\ \A i \in 1 .. Len(H) :
             H[i].type = "SEQ_CHAT" => \E k \in Len(P) + 1 .. n : H[i] = C[k]
        /\ \A k, l \in Len(P) + 1 .. n : \A i, j \in 1 .. Len(H) :
             H[i] = C[k] /\ H[j] = C[l] /\ i < j => k < l
      BY DEF CopiesFollow
  <1>t. \A k \in 1 .. Len(L) : C[k].type = "SEQ_CHAT"
      BY CopiesOf
  <1> HIDE DEF h, HH, C
  <1>5. ASSUME NEW k \in Len(P) + 1 .. n + 1 PROVE \E i \in 1 .. Len(HH) : HH[i] = C[k]
    <2>1. CASE k = n + 1
        BY <1>1, <1>2, <2>1
    <2>2. CASE k # n + 1
      <3>1. PICK i \in 1 .. Len(H) : H[i] = C[k]
          BY <1>2, <1>4, <2>2
      <3>. QED  BY <1>2, <3>1
    <2>. QED  BY <2>1, <2>2
  <1>6. ASSUME NEW i \in 1 .. Len(HH), HH[i].type = "SEQ_CHAT"
        PROVE  \E k \in Len(P) + 1 .. n + 1 : HH[i] = C[k]
    <2>1. CASE i = Len(H) + 1
      <3>1. HH[i] = C[n + 1] /\ n + 1 \in Len(P) + 1 .. n + 1
          BY <1>1, <1>2, <1>4, <2>1
      <3>. QED  BY <3>1
    <2>2. CASE i \in 1 .. Len(H)
      <3>1. PICK k \in Len(P) + 1 .. n : H[i] = C[k]
          BY <1>2, <1>4, <1>6, <2>2
      <3>. QED  BY <1>2, <2>2, <3>1
    <2>. QED  BY <1>2, <2>1, <2>2
  <1>7. ASSUME NEW k \in Len(P) + 1 .. n + 1, NEW l \in Len(P) + 1 .. n + 1,
               NEW i \in 1 .. Len(HH), NEW j \in 1 .. Len(HH),
               HH[i] = C[k], HH[j] = C[l], i < j
        PROVE  k < l
    <2>1. ASSUME NEW m \in 1 .. Len(H), NEW o \in Len(P) + 1 .. n + 1, HH[m] = C[o]
          PROVE  H[m] = C[o] /\ o \in Len(P) + 1 .. n
      <3>1. H[m] = C[o]
          BY <1>2, <2>1
      <3>2. PICK k1 \in Len(P) + 1 .. n : H[m] = C[k1]
          BY <1>2, <1>4, <1>t, <3>1
      <3>3. k1 = o
        <4>1. k1 \in 1 .. n + 1 /\ o \in 1 .. n + 1 /\ C[k1] = C[o]
            BY <1>2, <3>1, <3>2
        <4>. QED  BY <1>3, <4>1
      <3>. QED  BY <3>1, <3>2, <3>3
    <2>2. i \in 1 .. Len(H)
        BY <1>2, <1>7
    <2>3. H[i] = C[k] /\ k \in Len(P) + 1 .. n
        BY <1>7, <2>1, <2>2
    <2>4. CASE j \in 1 .. Len(H)
      <3>1. H[j] = C[l] /\ l \in Len(P) + 1 .. n
          BY <1>7, <2>1, <2>4
      <3>. QED  BY <1>4, <1>7, <2>2, <2>3, <2>4, <3>1
    <2>5. CASE j = Len(H) + 1
      <3>1. l = n + 1
          BY <1>1, <1>2, <1>3, <1>7, <2>5
      <3>. QED  BY <2>3, <3>1
    <2>6. j \in 1 .. Len(H) \/ j = Len(H) + 1
        BY <1>2
    <2>. QED  BY <2>4, <2>5, <2>6
  <1>8. CopiesFollow(P, HH, L, n + 1)
      BY <1>4, <1>5, <1>6, <1>7, <1>2 DEF CopiesFollow, C
  <1>. QED  BY <1>8 DEF HH, h, C

LEMMA ChatReceived ==
  ASSUME NEW P \in Seq(Lines), NEW H \in Seq(Held), NEW L \in Seq(Lines),
         NEW n \in Nat, CopiesFollow(P, H, L, n), NEW h \in Held, h.type = "CHAT"
  PROVE  CopiesFollow(P, Append(H, h), L, n)
  <1> DEFINE HH == Append(H, h)
  <1>1. /\ Len(HH) = Len(H) + 1 /\ Len(H) \in Nat
        /\ \A i \in 1 .. Len(H) : HH[i] = H[i]
        /\ HH[Len(H) + 1] = h
      BY AppendToQueue
  <1> HIDE DEF HH
  <1>2. \A i \in 1 .. Len(HH) : HH[i].type = "SEQ_CHAT" => i \in 1 .. Len(H) /\ HH[i] = H[i]
      BY <1>1
  <1>3. \A k \in Len(P) + 1 .. n : Copies(L)[k].type = "SEQ_CHAT"
    <2>1. n <= Len(L) /\ Len(L) \in Nat /\ Len(P) \in Nat
        BY DEF CopiesFollow
    <2>. QED  BY <2>1, CopiesOf
  <1> DEFINE C == Copies(L)
             Due == Len(P) + 1 .. n
  <1>4. /\ \A k \in Due : \E i \in 1 .. Len(H) : H[i] = C[k]
        /\ \A i \in 1 .. Len(H) : H[i].type = "SEQ_CHAT" => \E k \in Due : H[i] = C[k]
        /\ \A k, l \in Due : \A i, j \in 1 .. Len(H) : H[i] = C[k] /\ H[j] = C[l] /\ i < j => k < l
      BY DEF CopiesFollow
  <1> HIDE DEF C, Due
  <1>5. \A k \in Due : C[k].type = "SEQ_CHAT"
      BY <1>3 DEF C, Due
  <1>6. \A k \in Due : \E i \in 1 .. Len(HH) : HH[i] = C[k]
      BY <1>1, <1>4
  <1>7. \A i \in 1 .. Len(HH) : HH[i].type = "SEQ_CHAT" => \E k \in Due : HH[i] = C[k]
      BY <1>2, <1>4
  <1>8. \A k, l \in Due : \A i, j \in 1 .. Len(HH) :
          HH[i] = C[k] /\ HH[j] = C[l] /\ i < j => k < l
      BY <1>2, <1>4, <1>5
  <1>9. CopiesFollow(P, HH, L, n)
      BY <1>6, <1>7, <1>8 DEF CopiesFollow, C, Due
  <1>. QED  BY <1>9 DEF HH

LEMMA ChatTaken ==
  ASSUME NEW P \in Seq(Lines), NEW H \in Seq(Held), NEW L \in Seq(Lines),
         NEW n \in Nat, CopiesFollow(P, H, L, n), H # << >>, Head(H).type = "CHAT"
  PROVE  CopiesFollow(P, Tail(H), L, n)
  <1> DEFINE T == Tail(H)
  <1>1. /\ Len(T) = Len(H) - 1 /\ Len(H) \in Nat
        /\ \A i \in 1 .. Len(T) : T[i] = H[i + 1] /\ i + 1 \in 1 .. Len(H)
        /\ H[1].type = "CHAT"
      OBVIOUS
  <1> HIDE DEF T
  <1>2. \A i \in 1 .. Len(H) : H[i].type = "SEQ_CHAT" => i - 1 \in 1 .. Len(T) /\ T[i - 1] = H[i]
    <2> SUFFICES ASSUME NEW i \in 1 .. Len(H), H[i].type = "SEQ_CHAT"
                 PROVE  i - 1 \in 1 .. Len(T) /\ T[i - 1] = H[i]
        OBVIOUS
    <2>1. i # 1
        BY <1>1
    <2>2. i - 1 \in 1 .. Len(T) /\ (i - 1) + 1 = i
        BY <1>1, <2>1
    <2>. QED  BY <1>1, <2>2
  <1>3. \A k \in Len(P) + 1 .. n : Copies(L)[k].type = "SEQ_CHAT"
    <2>1. n <= Len(L) /\ Len(L) \in Nat /\ Len(P) \in Nat
        BY DEF CopiesFollow
    <2>. QED  BY <2>1, CopiesOf
  <1>4. \A i, j \in 1 .. Len(T) : i < j => i + 1 < j + 1
      BY <1>1
  <1> DEFINE C == Copies(L)
             Due == Len(P) + 1 .. n
  <1>5. /\ \A k \in Due : \E i \in 1 .. Len(H) : H[i] = C[k]
        /\ \A i \in 1 .. Len(H) : H[i].type = "SEQ_CHAT" => \E k \in Due : H[i] = C[k]
        /\ \A k, l \in Due : \A i, j \in 1 .. Len(H) : H[i] = C[k] /\ H[j] = C[l] /\ i < j => k < l
      BY DEF CopiesFollow
  <1> HIDE DEF C, Due
  <1>6. \A k \in Due : C[k].type = "SEQ_CHAT"
      BY <1>3 DEF C, Due
  <1>7. \A k \in Due : \E i \in 1 .. Len(T) : T[i] = C[k]
      BY <1>2, <1>5, <1>6
  <1>8. ASSUME NEW i \in 1 .. Len(T), T[i].type = "SEQ_CHAT"
        PROVE  \E k \in Due : T[i] = C[k]
    <2>1. i + 1 \in 1 .. Len(H) /\ T[i] = H[i + 1]
        BY <1>1
    <2>2. PICK k \in Due : H[i + 1] = C[k]
        BY <1>5, <1>8, <2>1
    <2>. QED  BY <2>1, <2>2
  <1>9. \A k, l \in Due : \A i, j \in 1 .. Len(T) :
          T[i] = C[k] /\ T[j] = C[l] /\ i < j => k < l
      BY <1>1, <1>4, <1>5
  <1>10. CopiesFollow(P, T, L, n)
      BY <1>7, <1>8, <1>9 DEF CopiesFollow, C, Due
  <1>. QED  BY <1>10 DEF T

LEMMA CopyShown ==
  ASSUME NEW P \in Seq(Lines), NEW H \in Seq(Held), NEW L \in Seq(Lines), Distinct(L),
         NEW n \in Nat, CopiesFollow(P, H, L, n), H # << >>, Head(H).type = "SEQ_CHAT"
  PROVE  CopiesFollow(Append(P, Head(H).line), Tail(H), L, n)
  <1> DEFINE T == Tail(H)
             C == Copies(L)
             l == Head(H).line
             PP == Append(P, l)
             Due == Len(P) + 1 .. n
             Rest == Len(PP) + 1 .. n
             first == Len(P) + 1
  <1>1. /\ Len(T) = Len(H) - 1 /\ Len(H) \in Nat /\ 1 \in 1 .. Len(H)
        /\ \A i \in 1 .. Len(T) : T[i] = H[i + 1] /\ i + 1 \in 1 .. Len(H)
        /\ H[1].type = "SEQ_CHAT" /\ l = H[1].line
      OBVIOUS
  <1>2. l \in Lines
      BY <1>1, LineTypes
  <1>3. /\ Len(PP) = Len(P) + 1 /\ Len(P) \in Nat /\ Len(L) \in Nat
        /\ \A i \in 1 .. Len(P) : PP[i] = P[i]
        /\ PP[Len(P) + 1] = l
      BY <1>2, AppendToQueue
  <1>4. /\ Len(P) <= n /\ n <= Len(L)
        /\ \A i \in 1 .. Len(P) : P[i] = L[i]
        /\ \A k \in Due : \E i \in 1 .. Len(H) : H[i] = C[k]
        /\ \A i \in 1 .. Len(H) : H[i].type = "SEQ_CHAT" => \E k \in Due : H[i] = C[k]
        /\ \A k, m \in Due : \A i, j \in 1 .. Len(H) : H[i] = C[k] /\ H[j] = C[m] /\ i < j => k < m
      BY DEF CopiesFollow
  <1>5. \A k \in Due : k \in 1 .. Len(L) /\ C[k].type = "SEQ_CHAT" /\ C[k].line = L[k]
      BY <1>3, <1>4, CopiesOf
  <1>6. \A k, m \in Due : C[k] = C[m] => k = m
      BY <1>5 DEF Distinct
  <1> HIDE DEF C, T, PP, l
  <1>7. first \in Due /\ H[1] = C[first]
    <2>1. PICK k \in Due : H[1] = C[k]
        BY <1>1, <1>4
    <2>2. first \in Due
        BY <1>3, <2>1
    <2>3. PICK i \in 1 .. Len(H) : H[i] = C[first]
        BY <1>4, <2>2
    <2>4. 1 < i => k < first
        BY <1>1, <1>4, <2>1, <2>2, <2>3
    <2>5. i = 1
        BY <1>1, <1>3, <2>1, <2>3, <2>4
    <2>. QED  BY <2>2, <2>3, <2>5
  <1>8. Len(PP) <= n /\ Rest \subseteq Due /\ \A k \in Due : k \in Rest \/ k = first
      BY <1>3, <1>4, <1>7
  <1>9. \A i \in 1 .. Len(PP) : PP[i] = L[i]
    <2>1. l = L[first]
        BY <1>1, <1>5, <1>7
    <2>2. \A i \in 1 .. Len(PP) : i \in 1 .. Len(P) \/ i = first
        BY <1>3
    <2>. QED  BY <1>3, <1>4, <2>1, <2>2
  <1>10. ASSUME NEW k \in Rest PROVE \E i \in 1 .. Len(T) : T[i] = C[k]
    <2>1. k \in Due /\ k # first
        BY <1>3, <1>8
    <2>2. PICK i \in 1 .. Len(H) : H[i] = C[k]
        BY <1>4, <2>1
    <2>3. i # 1
        BY <1>6, <1>7, <2>1, <2>2
    <2>4. i - 1 \in 1 .. Len(T) /\ (i - 1) + 1 = i
        BY <1>1, <2>3
    <2>. QED  BY <1>1, <2>2, <2>4
  <1>11. ASSUME NEW i \in 1 .. Len(T), T[i].type = "SEQ_CHAT"
         PROVE  \E k \in Rest : T[i] = C[k]
    <2>1. i + 1 \in 1 .. Len(H) /\ T[i] = H[i + 1] /\ 1 < i + 1
        BY <1>1
    <2>2. PICK k \in Due : H[i + 1] = C[k]
        BY <1>4, <1>11, <2>1
    <2>3. first < k
        BY <1>1, <1>4, <1>7, <2>1, <2>2
    <2>4. k \in Rest
        BY <1>3, <1>8, <2>2, <2>3
    <2>. QED  BY <2>1, <2>2, <2>4
  <1>12. ASSUME NEW k \in Rest, NEW m \in Rest, NEW i \in 1 .. Len(T), NEW j \in 1 .. Len(T),
                T[i] = C[k], T[j] = C[m], i < j
         PROVE  k < m
    <2>1. i + 1 \in 1 .. Len(H) /\ j + 1 \in 1 .. Len(H) /\ i + 1 < j + 1
        BY <1>1, <1>12
    <2>2. H[i + 1] = C[k] /\ H[j + 1] = C[m]
        BY <1>1, <1>12
    <2>3. k \in Due /\ m \in Due
        BY <1>8
    <2> HIDE DEF Due, Rest
    <2>. QED  BY <1>4, <2>1, <2>2, <2>3
  <1>13. CopiesFollow(PP, T, L, n)
      BY <1>4, <1>8, <1>9, <1>10, <1>11, <1>12 DEF CopiesFollow, C
  <1>. QED  BY <1>13 DEF PP, T, l

(* The next line gets its number; its copy is not yet due. *)
LEMMA LogExtended ==
  ASSUME NEW P \in Seq(Lines), NEW H \in Seq(Held), NEW L \in Seq(Lines), NEW l \in Lines,
         NEW n \in Nat, CopiesFollow(P, H, L, n)
  PROVE  CopiesFollow(P, H, Append(L, l), n)
  <1> DEFINE M == Append(L, l)
             Due == Len(P) + 1 .. n
  <1>1. /\ Len(M) = Len(L) + 1 /\ Len(L) \in Nat /\ Len(P) \in Nat
        /\ \A i \in 1 .. Len(L) : M[i] = L[i]
      BY AppendToQueue
  <1>2. Len(P) <= n /\ n <= Len(L)
      BY DEF CopiesFollow
  <1> HIDE DEF M
  <1>3. \A k \in Due : Copies(M)[k] = Copies(L)[k]
    <2> SUFFICES ASSUME NEW k \in Due PROVE Copies(M)[k] = Copies(L)[k]
        OBVIOUS
    <2>1. k \in 1 .. Len(L) /\ k \in 1 .. Len(M) /\ M[k] = L[k]
        BY <1>1, <1>2
    <2>. QED  BY <2>1 DEF Copies
  <1>4. \A i \in 1 .. Len(P) : P[i] = M[i]
    <2>1. \A i \in 1 .. Len(P) : i \in 1 .. Len(L)
        BY <1>1, <1>2
    <2>. QED  BY <1>1, <2>1 DEF CopiesFollow
  <1>5. n <= Len(M)
      BY <1>1, <1>2
  <1>6. CopiesFollow(P, H, M, n)
      BY <1>2, <1>3, <1>4, <1>5 DEF CopiesFollow
  <1>. QED  BY <1>6 DEF M

-----------------------------------------------------------------------------
(***************************************************************************)
(* The sequencer's screen.                                                 *)
(***************************************************************************)
LEMMA LogDistinct ==
  ASSUME log \in Seq(Lines), InTypedOrder
  PROVE  Distinct(log)
  <1> SUFFICES ASSUME NEW i \in 1 .. Len(log), NEW j \in 1 .. Len(log), log[i] = log[j]
               PROVE  i = j
      BY DEF Distinct
  <1>1. log[i].n \in Nat /\ log[i] = log[j] /\ Len(log) \in Nat
      BY LineTypes
  <1>2. \A k, l \in 1 .. Len(log) : k < l => Precedes(log[k], log[l])
      BY DEF InTypedOrder, InOrder
  <1>3. ~ (i < j) /\ ~ (j < i)
      BY <1>1, <1>2 DEF Precedes
  <1>. QED  BY <1>1, <1>3

(* Its own entry is the only one that matters. *)
LEMMA OwnEntry ==
  ASSUME EachListedOnce
  PROVE  \E c \in 1 .. Len(SocketList) :
           /\ SocketList[c] = Leader
           /\ \A i \in 1 .. Len(SocketList) : SocketList[i] = Leader => i = c
           /\ OwnCopyTaken <=> \/ leaderPc = "front" \/ c < it
                               \/ c = it /\ leaderPc = "ack" /\ acks[Leader] = 1
           /\ OwnCopyTaken' <=> \/ leaderPc' = "front" \/ c < it'
                                \/ c = it' /\ leaderPc' = "ack" /\ acks'[Leader] = 1
  <1>1. PICK c \in 1 .. Len(SocketList) : SocketList[c] = Leader
      BY GroupAssumption DEF EachListedOnce
  <1>2. \A i \in 1 .. Len(SocketList) : SocketList[i] = Leader => i = c
      BY <1>1 DEF EachListedOnce
  <1>3. OwnCopyTaken <=> \/ leaderPc = "front" \/ c < it
                         \/ c = it /\ leaderPc = "ack" /\ acks[Leader] = 1
      BY <1>1, <1>2 DEF OwnCopyTaken
  <1>4. OwnCopyTaken' <=> \/ leaderPc' = "front" \/ c < it'
                          \/ c = it' /\ leaderPc' = "ack" /\ acks'[Leader] = 1
      BY <1>1, <1>2 DEF OwnCopyTaken
  <1>. QED  BY <1>1, <1>2, <1>3, <1>4

LEMMA OwnUntouched ==
  ASSUME OwnCopiesFollow, UNCHANGED <<log, leaderPc, it>>, acks'[Leader] = acks[Leader],
         printed'[Leader] = printed[Leader], holdback'[Leader] = holdback[Leader]
  PROVE  OwnCopiesFollow'
  <1>1. Own' = Own
      BY DEF Own, OwnCopyTaken
  <1>. QED  BY <1>1 DEF OwnCopiesFollow

LEMMA OwnTypes ==
  ASSUME TypeOK, OwnCopiesFollow
  PROVE  /\ log \in Seq(Lines) /\ printed[Leader] \in Seq(Lines)
         /\ holdback[Leader] \in Seq(Held) /\ acks[Leader] \in Nat
         /\ Own \in Nat /\ Own <= Len(log)
  <1>1. /\ log \in Seq(Lines) /\ printed[Leader] \in Seq(Lines)
        /\ holdback[Leader] \in Seq(Held) /\ acks[Leader] \in Nat
      BY GroupAssumption DEF TypeOK
  <1>2. Own \in Int
      BY <1>1 DEF Own
  <1>3. Len(printed[Leader]) <= Own /\ Own <= Len(log) /\ Len(printed[Leader]) \in Nat
      BY <1>1 DEF OwnCopiesFollow, CopiesFollow
  <1>. QED  BY <1>1, <1>2, <1>3

(* receiveMessage: the sequencer takes the copy of the line in hand, whose *)
(* number is the length of the log.                                        *)
LEMMA OwnReceived ==
  ASSUME Prompt, EachListedOnce, IInv, OneClientAtATime, OneLineAtATime,
         InTypedOrder, OwnCopiesFollow,
         NEW p \in Procs, NEW d \in chatNet, ReceiveMessage(p, d)
  PROVE  OwnCopiesFollow'
  <1>0. TypeOK /\ Numbered /\ Multicasting /\ DatagramsNumbered
      BY DEF IInv
  <1>1. /\ d.to = p /\ p \in alive /\ d.src \in Procs /\ d.line \in Lines
        /\ d.type \in {"CHAT", "SEQ_CHAT"}
        /\ acks' = [acks EXCEPT ![d.src] = @ + 1]
        /\ UNCHANGED <<log, leaderPc, it, printed>>
        /\ p = Leader =>
             holdback' = [holdback EXCEPT ![p] = Append(@, [type |-> d.type, line |-> d.line])]
        /\ p # Leader => holdback'[Leader] = holdback[Leader]
      BY <1>0, MembersAreProcs DEF ReceiveMessage, SendAck, leaderVars, TypeOK, Datagrams, Accepts
  <1>2. acks \in [Procs -> Nat] /\ holdback \in [Procs -> Seq(Held)]
      BY <1>0 DEF TypeOK
  <1>3. PICK c \in 1 .. Len(SocketList) :
           /\ SocketList[c] = Leader
           /\ \A i \in 1 .. Len(SocketList) : SocketList[i] = Leader => i = c
           /\ OwnCopyTaken <=> \/ leaderPc = "front" \/ c < it
                               \/ c = it /\ leaderPc = "ack" /\ acks[Leader] = 1
           /\ OwnCopyTaken' <=> \/ leaderPc' = "front" \/ c < it'
                                \/ c = it' /\ leaderPc' = "ack" /\ acks'[Leader] = 1
      BY OwnEntry
  <1>4. CASE d.type = "CHAT"
    <2>1. p = Leader /\ d.src # Leader
        BY <1>0, <1>1, <1>4, MembersAreProcs DEF DatagramsNumbered, OneLineAtATime
    <2>2. acks'[Leader] = acks[Leader]
        BY <1>1, <1>2, <2>1, MembersAreProcs
    <2>3. Own' = Own
        BY <1>1, <2>2 DEF Own, OwnCopyTaken
    <2> DEFINE h == [type |-> d.type, line |-> d.line]
    <2>4. h \in Held /\ h.type = "CHAT"
        BY <1>1, <1>4 DEF Held
    <2>5. holdback'[Leader] = Append(holdback[Leader], h)
        BY <1>1, <1>2, <2>1
    <2> HIDE DEF h
    <2>6. CopiesFollow(printed[Leader], Append(holdback[Leader], h), log, Own)
        BY <1>0, <2>4, OwnTypes, ChatReceived DEF OwnCopiesFollow
    <2>. QED  BY <1>1, <2>3, <2>5, <2>6 DEF OwnCopiesFollow
  <1>5. CASE d.type = "SEQ_CHAT"
    <2>1. d.src = Leader
        BY <1>1, <1>5 DEF OneLineAtATime, FromMember, Members
    <2>2. d \in FromSequencer
        BY <1>1, <2>1 DEF FromSequencer
    <2>3. /\ leaderPc = "ack" /\ acks[Leader] = 0 /\ p = SocketList[it]
          /\ d.seq = current[Leader] /\ it \in 1 .. Len(SocketList)
      <3>1. /\ leaderPc = "ack" /\ acks[Leader] = 0 /\ p = SocketList[it]
            /\ d.seq = current[Leader]
          BY <1>1, <2>2 DEF OneClientAtATime
      <3>. QED  BY <1>0, <3>1, SequencerTypes DEF Multicasting
    <2>4. d.seq = Len(log) /\ d.line = log[Len(log)] /\ Len(log) >= 1
        BY <1>0, <1>5, <2>3 DEF Numbered, DatagramsNumbered
    <2>5. CASE p = Leader
      <3>1. c = it
          BY <1>3, <2>3, <2>5
      <3>2. ~OwnCopyTaken /\ OwnCopyTaken'
        <4>1. acks'[Leader] = 1
            BY <1>1, <1>2, <2>1, <2>3, MembersAreProcs
        <4>. QED  BY <1>1, <1>3, <2>3, <3>1, <4>1
      <3>3. Own = Len(log) - 1 /\ Own' = Own + 1 /\ Own + 1 = Len(log)
            /\ Own + 1 \in 1 .. Len(log)
          BY <1>0, <1>1, <2>4, <3>2, OwnTypes DEF Own
      <3>4. holdback'[Leader] = Append(holdback[Leader], Copies(log)[Own + 1])
        <4>1. Copies(log)[Own + 1] = [type |-> "SEQ_CHAT", line |-> log[Own + 1]]
            BY <3>3 DEF Copies
        <4>. QED  BY <1>1, <1>2, <1>5, <2>4, <2>5, <3>3, <4>1
      <3>5. CopiesFollow(printed[Leader], Append(holdback[Leader], Copies(log)[Own + 1]),
                         log, Own + 1)
        <4>1. Distinct(log)
            BY <1>0, OwnTypes, LogDistinct
        <4>. QED  BY <1>0, <3>3, <4>1, OwnTypes, OwnCopyReceived DEF OwnCopiesFollow
      <3>. QED  BY <1>1, <3>3, <3>4, <3>5 DEF OwnCopiesFollow
    <2>6. CASE p # Leader
      <3>1. c # it
          BY <1>3, <2>3, <2>6
      <3>2. Own' = Own
          BY <1>1, <1>3, <3>1 DEF Own
      <3>. QED  BY <1>1, <2>6, <3>2 DEF OwnCopiesFollow
    <2>. QED  BY <2>5, <2>6
  <1>. QED  BY <1>1, <1>4, <1>5

(* processMessage, at the sequencer. *)
LEMMA OwnProcessed ==
  ASSUME TypeOK, InTypedOrder, OwnCopiesFollow, ProcessMessage(Leader)
  PROVE  OwnCopiesFollow'
  <1> DEFINE H == holdback[Leader]
             P == printed[Leader]
  <1>1. /\ UNCHANGED <<log, leaderPc, it, acks>>
        /\ H # << >> /\ H \in Seq(Held) /\ P \in Seq(Lines)
        /\ holdback'[Leader] = Tail(H)
      BY GroupAssumption DEF ProcessMessage, leaderVars, TypeOK
  <1>2. Own' = Own
      BY <1>1 DEF Own, OwnCopyTaken
  <1>3. Distinct(log)
      BY OwnTypes, LogDistinct
  <1>4. CASE Head(H).type = "CHAT"
    <2>1. printed' = printed
        BY <1>4 DEF ProcessMessage
    <2>2. CopiesFollow(P, Tail(H), log, Own)
        BY <1>1, <1>4, OwnTypes, ChatTaken DEF OwnCopiesFollow
    <2>. QED  BY <1>1, <1>2, <2>1, <2>2 DEF OwnCopiesFollow
  <1>5. CASE Head(H).type = "SEQ_CHAT"
    <2>1. printed'[Leader] = Append(P, Head(H).line)
        BY <1>5, GroupAssumption DEF ProcessMessage, TypeOK
    <2>2. CopiesFollow(Append(P, Head(H).line), Tail(H), log, Own)
        BY <1>1, <1>3, <1>5, OwnTypes, CopyShown DEF OwnCopiesFollow
    <2>. QED  BY <1>1, <1>2, <2>1, <2>2 DEF OwnCopiesFollow
  <1>6. Head(H) \in Held
      BY <1>1
  <1>. QED  BY <1>4, <1>5, <1>6 DEF Held

LEMMA OwnCopiesStep ==
  ASSUME Prompt, EachListedOnce, IInv, OneClientAtATime, OneLineAtATime,
         InTypedOrder, OwnCopiesFollow, [Next]_vars
  PROVE  OwnCopiesFollow'
  <1> USE MembersAreProcs
  <1>0. /\ TypeOK /\ Numbered /\ Multicasting
        /\ acks \in [Procs -> Nat] /\ it \in Nat /\ Len(SocketList) \in Nat
        /\ holdback \in [Procs -> Seq(Held)] /\ printed \in [Procs -> Seq(Lines)]
      BY SequencerTypes DEF IInv, TypeOK
  <1>1. ASSUME NEW p \in Procs, TypeLine(p) PROVE OwnCopiesFollow'
      BY <1>1, OwnUntouched DEF TypeLine, leaderVars
  <1>2. ASSUME NEW p \in Procs, Receive(p) PROVE OwnCopiesFollow'
      BY <1>2, OwnReceived DEF Receive
  <1>3. ASSUME NEW p \in Procs, ProcessMessage(p) PROVE OwnCopiesFollow'
    <2>1. CASE p = Leader
        BY <1>0, <1>3, <2>1, OwnProcessed
    <2>2. CASE p # Leader
      <3>1. printed'[Leader] = printed[Leader] /\ holdback'[Leader] = holdback[Leader]
          BY <1>0, <1>3, <2>2 DEF ProcessMessage
      <3>. QED  BY <1>3, <3>1, OwnUntouched DEF ProcessMessage, leaderVars
    <2>. QED  BY <2>1, <2>2
  <1>4. ASSUME NEW q \in Members, MemberStep(q) \/ Crash(q) PROVE OwnCopiesFollow'
    <2>1. UNCHANGED <<log, leaderPc, it, printed, holdback>>
        BY <1>4 DEF MemberStep, MemberSend, MemberAcked, MemberTimeout, Crash, leaderVars
    <2>2. acks'[Leader] = acks[Leader]
        BY <1>0, <1>4
        DEF MemberStep, MemberSend, MemberAcked, MemberTimeout, Crash, TakeAck, Timeout
    <2>. QED  BY <2>1, <2>2, OwnUntouched
  <1>5. CASE LeaderStep
    <2>1. printed' = printed /\ holdback' = holdback
        BY <1>5 DEF LeaderStep, LeaderFront, LeaderSend, LeaderAcked, LeaderTimeout, LeaderDone
    <2>2. PICK c \in 1 .. Len(SocketList) :
             /\ SocketList[c] = Leader
             /\ \A i \in 1 .. Len(SocketList) : SocketList[i] = Leader => i = c
             /\ OwnCopyTaken <=> \/ leaderPc = "front" \/ c < it
                                 \/ c = it /\ leaderPc = "ack" /\ acks[Leader] = 1
             /\ OwnCopyTaken' <=> \/ leaderPc' = "front" \/ c < it'
                                  \/ c = it' /\ leaderPc' = "ack" /\ acks'[Leader] = 1
        BY OwnEntry
    <2>3. CASE LeaderFront
      <3>1. /\ log' = Append(log, Head(sendQueue[Leader])) /\ leaderPc = "front"
            /\ leaderPc' = "send" /\ it' = 1
          BY <2>3 DEF LeaderFront
      <3>2. Head(sendQueue[Leader]) \in Lines
          BY <1>0, <2>3 DEF LeaderFront, TypeOK
      <3>3. OwnCopyTaken /\ ~OwnCopyTaken'
          BY <2>2, <3>1
      <3>4. Own' = Own
        <4>1. Len(log') = Len(log) + 1 /\ Len(log) \in Nat
            BY <1>0, <3>1, <3>2, OwnTypes, AppendToQueue
        <4>. QED  BY <3>3, <4>1 DEF Own
      <3>5. CopiesFollow(printed[Leader], holdback[Leader], Append(log, Head(sendQueue[Leader])), Own)
          BY <1>0, <3>2, OwnTypes, LogExtended DEF OwnCopiesFollow
      <3>. QED  BY <2>1, <3>1, <3>4, <3>5 DEF OwnCopiesFollow
    <2>4. CASE ~LeaderFront
      <3>1. log' = log
          BY <1>5, <2>4 DEF LeaderStep, LeaderSend, LeaderAcked, LeaderTimeout, LeaderDone
      <3>2. CASE LeaderSend
        <4>1. leaderPc = "send" /\ leaderPc' = "ack" /\ UNCHANGED <<it, acks>>
              /\ acks[Leader] = 0
            BY <3>2 DEF LeaderSend, OneClientAtATime
        <4>2. OwnCopyTaken' <=> OwnCopyTaken
            BY <2>2, <4>1
        <4>. QED  BY <2>1, <3>1, <4>2 DEF Own, OwnCopiesFollow
      <3>3. CASE LeaderAcked
        <4>1. /\ leaderPc = "ack" /\ leaderPc' = "send" /\ it' = it + 1 /\ acks[Leader] = 1
            BY <1>0, <3>3 DEF LeaderAcked, TakeAck, OneClientAtATime
        <4>2. OwnCopyTaken' <=> OwnCopyTaken
            BY <1>0, <2>2, <4>1
        <4>. QED  BY <2>1, <3>1, <4>2 DEF Own, OwnCopiesFollow
      <3>4. CASE LeaderTimeout
        <4>1. /\ leaderPc = "ack" /\ leaderPc' = "send" /\ it' \in {it, it + 1}
              /\ acks[Leader] = 0 /\ FromSequencer = {}
            BY <3>4 DEF LeaderTimeout, Timeout, AnswerComing, FromSequencer
        <4>2. SocketList[it] \notin alive
            BY <4>1 DEF OneClientAtATime
        <4>3. c # it
            BY <2>2, <4>2 DEF OneLineAtATime
        <4>4. OwnCopyTaken' <=> OwnCopyTaken
            BY <1>0, <2>2, <4>1, <4>3
        <4>. QED  BY <2>1, <3>1, <4>4 DEF Own, OwnCopiesFollow
      <3>5. CASE LeaderDone
        <4>1. leaderPc' = "front" /\ it > Len(SocketList)
            BY <3>5 DEF LeaderDone
        <4>2. OwnCopyTaken' /\ OwnCopyTaken
            BY <1>0, <2>2, <4>1
        <4>. QED  BY <2>1, <3>1, <4>2 DEF Own, OwnCopiesFollow
      <3>. QED  BY <1>5, <2>4, <3>2, <3>3, <3>4, <3>5 DEF LeaderStep
    <2>. QED  BY <2>3, <2>4
  <1>6. CASE UNCHANGED vars
      BY <1>6, OwnUntouched DEF vars, leaderVars
  <1>. QED  BY <1>1, <1>2, <1>3, <1>4, <1>5, <1>6 DEF Next

-----------------------------------------------------------------------------
(* The half that needs nothing of socketList: the members' ACKs and the    *)
(* order of the lines at the sequencer.                                    *)
LineInv == OneLineAtATime /\ QueuedInOrder /\ InTypedOrder

THEOREM LineInvCorrect ==
  ASSUME Prompt
  PROVE  Spec => []LineInv
  <1>1. Init => LineInv
      BY InitPrompt DEF PromptIInv, LineInv
  <1>2. IInv /\ IInv' /\ LineInv /\ [Next]_vars => LineInv'
      BY OneLineStep, InTypedOrderStep DEF LineInv
  <1>. QED  BY <1>1, <1>2, IInvCorrect, PTL DEF Spec

(* On a prompt network no line is numbered twice, whatever socketList is:  *)
(* a member never sends a line again that the sequencer has taken          *)
(* (sendMessage retries only after a timeout), so no process ever shows a  *)
(* line twice.                                                             *)
THEOREM NumberedOnce ==
  ASSUME Prompt
  PROVE  Spec => []LinesNumberedOnce
  <1>1. IInv /\ LineInv => LinesNumberedOnce
    <2> SUFFICES ASSUME IInv, LineInv PROVE LinesNumberedOnce
        OBVIOUS
    <2>1. log \in Seq(Lines) /\ InTypedOrder
        BY DEF IInv, TypeOK, LineInv
    <2>. QED  BY <2>1, LogDistinct DEF Distinct, LinesNumberedOnce
  <1>. QED  BY <1>1, LineInvCorrect, IInvCorrect, PTL

THEOREM PromptIInvCorrect ==
  ASSUME Prompt, EachListedOnce
  PROVE  Spec => []PromptIInv
  <1>1. IInv /\ IInv' /\ PromptIInv /\ [Next]_vars => PromptIInv'
      BY InStepStep, OneLineStep, InTypedOrderStep, OwnCopiesStep DEF PromptIInv
  <1>. QED  BY InitPrompt, <1>1, IInvCorrect, PTL DEF Spec

(* The sequencer does not look at numbers when it receives its own copies, *)
(* yet on a prompt network it shows what its members show: the log.        *)
THEOREM SequencerFollows ==
  ASSUME Prompt, EachListedOnce
  PROVE  Spec => []SequencerShowsLog
  <1>1. IInv /\ PromptIInv => SequencerShowsLog
    <2> SUFFICES ASSUME IInv, PromptIInv PROVE SequencerShowsLog
        OBVIOUS
    <2>1. /\ Own <= Len(log) /\ Own \in Nat /\ Len(log) \in Nat
          /\ Len(printed[Leader]) \in Nat
        BY OwnTypes DEF IInv, PromptIInv
    <2>2. /\ Len(printed[Leader]) <= Own
          /\ \A i \in 1 .. Len(printed[Leader]) : printed[Leader][i] = log[i]
        BY DEF PromptIInv, OwnCopiesFollow, CopiesFollow
    <2>. QED  BY <2>1, <2>2 DEF SequencerShowsLog
  <1>. QED  BY <1>1, PromptIInvCorrect, IInvCorrect, PTL

(* On a prompt network the multicast leaves no live member behind, however *)
(* many crash in its middle: the ACK that sendMessage counts, though it    *)
(* names neither line nor sender, is that of the client it was waiting for.*)
THEOREM MembersKeepUp ==
  ASSUME Prompt, EachListedOnce
  PROVE  Spec => []LiveMembersKeepUp
  <1>1. PromptIInv => LiveMembersKeepUp
      BY DEF PromptIInv, ServedKeepUp
  <1>. QED  BY <1>1, PromptIInvCorrect, PTL
=============================================================================
