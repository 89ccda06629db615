-------------------------- MODULE FairQueue_proofs --------------------------
(***************************************************************************)
(* FairQueue, for any set of authors and any number of lines, whether the  *)
(* process founded the chat or took over.                                  *)
(*                                                                         *)
(* AuthorOrder is about the screen alone and not inductive: what is on its *)
(* way to the screen has to be in order too.  A line goes from the queue   *)
(* of its author to the sendQueue, back to the queue of its author and to  *)
(* the screen; IInv says that it is in one place at a time (Apart,         *)
(* Somewhere) and that no line of an author in an earlier of these places  *)
(* is before one in a later (InTurn).  The place of a line that is still   *)
(* sent to other clients is that of its own copy (ToSend).  OwnWait says   *)
(* why only the first line typed here can go round.                        *)
(***************************************************************************)
EXTENDS FairQueue, TLAPS

(* The two ways in which a queue changes. *)
LEMMA AppendTo ==
  ASSUME NEW S, NEW s \in Seq(S), NEW e \in S
  PROVE  /\ Append(s, e) \in Seq(S)
         /\ Len(s) \in Nat /\ Len(Append(s, e)) = Len(s) + 1
         /\ Append(s, e)[Len(s) + 1] = e
         /\ Append(s, e) # << >> /\ (s # << >> => Head(Append(s, e)) = Head(s))
         /\ \A i \in 1 .. Len(s) : Append(s, e)[i] = s[i]
         /\ \A i \in 1 .. Len(Append(s, e)) : i \in 1 .. Len(s) \/ i = Len(s) + 1
  <1>1. /\ Append(s, e) \in Seq(S)
        /\ Len(s) \in Nat /\ Len(Append(s, e)) = Len(s) + 1
        /\ Append(s, e)[Len(s) + 1] = e
        /\ \A i \in 1 .. Len(s) : Append(s, e)[i] = s[i]
        /\ \A i \in 1 .. Len(Append(s, e)) : i \in 1 .. Len(s) \/ i = Len(s) + 1
      OBVIOUS
  <1>2. Append(s, e) # << >>
      BY <1>1
  <1>3. s # << >> => Head(Append(s, e)) = Head(s)
      OBVIOUS
  <1>. QED  BY <1>1, <1>2, <1>3

LEMMA TailOf ==
  ASSUME NEW S, NEW s \in Seq(S), s # << >>
  PROVE  /\ Tail(s) \in Seq(S)
         /\ Len(s) \in Nat \ {0} /\ Len(Tail(s)) = Len(s) - 1
         /\ Head(s) = s[1] /\ s[1] \in S
         /\ \A i \in 1 .. Len(Tail(s)) : Tail(s)[i] = s[i + 1] /\ i + 1 \in 1 .. Len(s)
         /\ \A i \in 1 .. Len(s) : i = 1 \/ i - 1 \in 1 .. Len(Tail(s))
  OBVIOUS

(* What is found in a queue that changed. *)
LEMMA FoundAfterAppend ==
  ASSUME NEW S, NEW s \in Seq(S), NEW e \in S, NEW x
  PROVE  (\E i \in 1 .. Len(Append(s, e)) : Append(s, e)[i] = x)
           <=> (\E i \in 1 .. Len(s) : s[i] = x) \/ x = e
  <1> DEFINE t == Append(s, e)
  <1>1. /\ Len(s) \in Nat /\ Len(t) = Len(s) + 1
        /\ t[Len(s) + 1] = e
        /\ \A i \in 1 .. Len(s) : t[i] = s[i]
        /\ \A i \in 1 .. Len(t) : i \in 1 .. Len(s) \/ i = Len(s) + 1
      BY AppendTo
  <1> HIDE DEF t
  <1>2. Len(s) + 1 \in 1 .. Len(t) /\ \A i \in 1 .. Len(s) : i \in 1 .. Len(t)
      BY <1>1
  <1>3. (\E i \in 1 .. Len(t) : t[i] = x) <=> (\E i \in 1 .. Len(s) : s[i] = x) \/ x = e
      BY <1>1, <1>2
  <1>. QED  BY <1>3 DEF t

LEMMA FoundAfterTail ==
  ASSUME NEW S, NEW s \in Seq(S), s # << >>, NEW x,
         \A i, j \in 1 .. Len(s) : s[i] = s[j] => i = j
  PROVE  (\E i \in 1 .. Len(Tail(s)) : Tail(s)[i] = x)
           <=> (\E i \in 1 .. Len(s) : s[i] = x) /\ x # Head(s)
  <1> DEFINE t == Tail(s)
  <1>1. /\ Len(s) \in Nat \ {0} /\ Len(t) = Len(s) - 1
        /\ Head(s) = s[1]
        /\ \A i \in 1 .. Len(t) : t[i] = s[i + 1] /\ i + 1 \in 1 .. Len(s)
        /\ \A i \in 1 .. Len(s) : i = 1 \/ i - 1 \in 1 .. Len(t)
      BY TailOf
  <1> HIDE DEF t
  <1>2. ASSUME NEW i \in 1 .. Len(t), t[i] = x
        PROVE  (\E k \in 1 .. Len(s) : s[k] = x) /\ x # Head(s)
    <2>1. i + 1 \in 1 .. Len(s) /\ s[i + 1] = x /\ i + 1 # 1 /\ 1 \in 1 .. Len(s)
        BY <1>1, <1>2
    <2>. QED  BY <1>1, <2>1
  <1>3. ASSUME NEW k \in 1 .. Len(s), s[k] = x, x # Head(s)
        PROVE  \E i \in 1 .. Len(t) : t[i] = x
    <2>1. k # 1 /\ k - 1 \in 1 .. Len(t) /\ (k - 1) + 1 = k
        BY <1>1, <1>3
    <2>. QED  BY <1>1, <1>3, <2>1
  <1>4. (\E i \in 1 .. Len(t) : t[i] = x) <=> (\E i \in 1 .. Len(s) : s[i] = x) /\ x # Head(s)
      BY <1>2, <1>3
  <1>. QED  BY <1>4 DEF t

LEMMA LineAfterAppend ==
  ASSUME NEW s \in Seq(Filed), NEW e \in Filed, NEW x
  PROVE  (\E i \in 1 .. Len(Append(s, e)) : Append(s, e)[i].line = x)
           <=> (\E i \in 1 .. Len(s) : s[i].line = x) \/ x = e.line
  <1> DEFINE t == Append(s, e)
  <1>1. /\ Len(s) \in Nat /\ Len(t) = Len(s) + 1
        /\ t[Len(s) + 1] = e
        /\ \A i \in 1 .. Len(s) : t[i] = s[i]
        /\ \A i \in 1 .. Len(t) : i \in 1 .. Len(s) \/ i = Len(s) + 1
      BY AppendTo
  <1> HIDE DEF t
  <1>2. Len(s) + 1 \in 1 .. Len(t) /\ \A i \in 1 .. Len(s) : i \in 1 .. Len(t)
      BY <1>1
  <1>3. (\E i \in 1 .. Len(t) : t[i].line = x) <=> (\E i \in 1 .. Len(s) : s[i].line = x) \/ x = e.line
      BY <1>1, <1>2
  <1>. QED  BY <1>3 DEF t

LEMMA LineAfterTail ==
  ASSUME NEW s \in Seq(Filed), s # << >>, NEW x,
         \A i, j \in 1 .. Len(s) : s[i].line = s[j].line => i = j
  PROVE  (\E i \in 1 .. Len(Tail(s)) : Tail(s)[i].line = x)
           <=> (\E i \in 1 .. Len(s) : s[i].line = x) /\ x # Head(s).line
  <1> DEFINE t == Tail(s)
  <1>1. /\ Len(s) \in Nat \ {0} /\ Len(t) = Len(s) - 1
        /\ Head(s) = s[1]
        /\ \A i \in 1 .. Len(t) : t[i] = s[i + 1] /\ i + 1 \in 1 .. Len(s)
        /\ \A i \in 1 .. Len(s) : i = 1 \/ i - 1 \in 1 .. Len(t)
      BY TailOf
  <1> HIDE DEF t
  <1>2. ASSUME NEW i \in 1 .. Len(t), t[i].line = x
        PROVE  (\E k \in 1 .. Len(s) : s[k].line = x) /\ x # Head(s).line
    <2>1. i + 1 \in 1 .. Len(s) /\ s[i + 1].line = x /\ i + 1 # 1 /\ 1 \in 1 .. Len(s)
        BY <1>1, <1>2
    <2>. QED  BY <1>1, <2>1
  <1>3. ASSUME NEW k \in 1 .. Len(s), s[k].line = x, x # Head(s).line
        PROVE  \E i \in 1 .. Len(t) : t[i].line = x
    <2>1. k # 1 /\ k - 1 \in 1 .. Len(t) /\ (k - 1) + 1 = k
        BY <1>1, <1>3
    <2>. QED  BY <1>1, <1>3, <2>1
  <1>4. (\E i \in 1 .. Len(t) : t[i].line = x) <=> (\E i \in 1 .. Len(s) : s[i].line = x) /\ x # Head(s).line
      BY <1>2, <1>3
  <1>. QED  BY <1>4 DEF t

LEMMA Items ==
  /\ \A x \in Filed : /\ x = Item(x.type, x.line) /\ x.line \in Lines
                      /\ x.type \in {"CHAT", "SEQ_CHAT"}
  /\ \A l \in Lines : /\ Item("CHAT", l) \in Filed /\ Item("SEQ_CHAT", l) \in Filed
                      /\ l.from \in Authors /\ l.n \in 1 .. MaxTyped
                      /\ l = [from |-> l.from, n |-> l.n]
  /\ \A t, u, k, l : Item(t, k) = Item(u, l) => t = u /\ k = l
  /\ \A t, l : Item(t, l).type = t /\ Item(t, l).line = l
  BY DEF Filed, Lines, Item

-----------------------------------------------------------------------------
LEMMA InitIInv == Init => IInv
  <1> SUFFICES ASSUME Init PROVE IInv
      OBVIOUS
  <1>1. Self \in Authors /\ Authors \subseteq Int /\ Founded \in BOOLEAN /\ MaxTyped \in Nat
      BY FairQueueAssumption
  <1>e. /\ << >> \in Seq(Filed) /\ << >> \in Seq(Lines) /\ << >> \in Seq({"line", "bogus"})
        /\ Len(<< >>) = 0 /\ 1 .. 0 = {}
      OBVIOUS
  <1>s. served = FALSE /\ sendQueue = << >> /\ ToSend = << >>
      BY DEF Init, ToSend
  <1>f. typed \in [Authors -> 0 .. MaxTyped] /\ fairQMap \in [Authors -> Seq(Filed)]
      BY <1>1, <1>e DEF Init
  <1>2. TypeOK
      BY <1>1, <1>e, <1>f, <1>s DEF Init, TypeOK
  <1>q. \A a \in Authors : Len(fairQMap[a]) = 0
      BY <1>e DEF Init
  <1>p. Len(printed) = 0 /\ Len(ToSend) = 0
      BY <1>e, <1>s DEF Init
  <1>a. ahead = {} /\ ownCopy = {} /\ asMember = ~Founded
      BY DEF Init
  <1>3. Queues /\ OwnCopy
      BY <1>1, <1>e, <1>q, <1>p, <1>a, <1>s DEF Queues, OwnCopy
  <1>4. \A l \in Lines : /\ ~Shown(l) /\ ~Sending(l)
                         /\ ~FiledAs("CHAT", l) /\ ~FiledAs("SEQ_CHAT", l)
      BY <1>e, <1>q, <1>p, Items DEF Shown, Sending, FiledAs
  <1>5. Apart
      BY <1>4, <1>e, <1>q, <1>p DEF Apart
  <1>6. Somewhere
    <2> SUFFICES ASSUME NEW l \in Lines, l.n <= typed[l.from] PROVE FALSE
        BY DEF Somewhere
    <2>1. l.from \in Authors /\ l.n \in Nat /\ l.n >= 1
        BY <1>1, Items
    <2>. QED  BY <2>1 DEF Init
  <1>7. InTurn
      BY <1>4, <1>e, <1>q, <1>p DEF InTurn
  <1>w. OwnWait
      BY <1>4, <1>e, <1>p DEF OwnWait
  <1>8. OneUnnumbered
      BY <1>4 DEF OneUnnumbered, Unnumbered
  <1>. QED  BY <1>2, <1>3, <1>5, <1>6, <1>7, <1>w, <1>8 DEF IInv

-----------------------------------------------------------------------------
(* What of the sendQueue is to be sent. *)
LEMMA ToBeSent ==
  ASSUME IInv
  PROVE  /\ sendQueue \in Seq(Filed) /\ ToSend \in Seq(Filed) /\ served \in BOOLEAN
         /\ served => sendQueue # << >> /\ ownCopy = {}
         /\ IF served THEN ToSend = Tail(sendQueue) ELSE ToSend = sendQueue
  <1>1. sendQueue \in Seq(Filed) /\ served \in BOOLEAN /\ (served => sendQueue # << >> /\ ownCopy = {})
      BY DEF IInv, TypeOK, Queues
  <1>2. IF served THEN ToSend = Tail(sendQueue) ELSE ToSend = sendQueue
      BY DEF ToSend
  <1>3. ToSend \in Seq(Filed)
      BY <1>1, <1>2, TailOf
  <1>. QED  BY <1>1, <1>2, <1>3

LEMMA Pushed ==
  ASSUME IInv, NEW m \in Filed, sendQueue' = Append(sendQueue, m), served' = served
  PROVE  /\ sendQueue' \in Seq(Filed) /\ sendQueue' # << >>
         /\ ToSend' = Append(ToSend, m)
  <1>1. /\ sendQueue \in Seq(Filed) /\ served \in BOOLEAN
        /\ served => sendQueue # << >>
        /\ IF served THEN ToSend = Tail(sendQueue) ELSE ToSend = sendQueue
      BY ToBeSent
  <1>2. sendQueue' \in Seq(Filed) /\ sendQueue' # << >>
      BY <1>1, AppendTo
  <1>3. IF served THEN ToSend' = Tail(Append(sendQueue, m)) ELSE ToSend' = Append(sendQueue, m)
      BY DEF ToSend
  <1>4. sendQueue # << >> => Tail(Append(sendQueue, m)) = Append(Tail(sendQueue), m)
      BY <1>1
  <1>. QED  BY <1>1, <1>2, <1>3, <1>4

(* A step that leaves the lines where they are. *)
LEMMA LinesStay ==
  ASSUME IInv, TypeOK', OwnCopy',
         UNCHANGED <<typed, fairQMap, ToSend, printed>>,
         UNCHANGED <<asMember, served>> \/ asMember' = FALSE,
         served' => sendQueue' # << >> /\ ownCopy' = {},
         ToSet(ordered) \subseteq ToSet(ordered)',
         \A a \in ahead' : a \in Authors /\ fairQMap[a] # << >>
  PROVE  IInv'
  <1>1. Queues'
      BY DEF IInv, Queues
  <1>2. \A l : /\ Shown(l)' <=> Shown(l)
               /\ Sending(l)' <=> Sending(l)
               /\ \A t : FiledAs(t, l)' <=> FiledAs(t, l)
      BY DEF Shown, Sending, FiledAs
  <1>3. Apart'
      BY <1>2 DEF IInv, Apart
  <1>4. Somewhere'
      BY <1>2 DEF IInv, Somewhere
  <1>5. InTurn'
      BY <1>2 DEF IInv, InTurn
  <1>6. OneUnnumbered'
      BY <1>2 DEF IInv, OneUnnumbered, Unnumbered
  <1>w. OwnWait'
      BY <1>2 DEF IInv, OwnWait
  <1>. QED  BY <1>1, <1>3, <1>4, <1>5, <1>w, <1>6 DEF IInv

LEMMA LocalSteps ==
  ASSUME IInv,
         \/ ReceiveHeld \/ BeginSweep \/ EndSweep \/ TestMember \/ ProcessHeld
         \/ TakeOver \/ PushBogus \/ UNCHANGED vars
  PROVE  IInv'
  <1> USE DEF memberVars, processVars, sendVars
  <1>1. UNCHANGED <<typed, fairQMap, sendVars, printed>>
      BY DEF ReceiveHeld, BeginSweep, EndSweep, TestMember, ProcessHeld, TakeOver, PushBogus, vars
  <1>2. TypeOK /\ OwnCopy /\ \A a \in ahead : a \in Authors /\ fairQMap[a] # << >>
      BY DEF IInv, TypeOK, Queues
  <1>3. ahead' \in {ahead, Waiting}
      BY DEF ReceiveHeld, BeginSweep, EndSweep, TestMember, ProcessHeld, TakeOver, PushBogus, vars
  <1>4. \A a \in ahead' : a \in Authors /\ fairQMap[a] # << >>
      BY <1>2, <1>3 DEF Waiting
  <1>c. checkLeader' = checkLeader \/ checkLeader' = TRUE
      BY DEF ReceiveHeld, BeginSweep, EndSweep, TestMember, ProcessHeld, TakeOver, PushBogus, vars
  <1>b. bogusDue' = bogusDue \/ bogusDue' = FALSE \/ bogusDue' = ~Alone
      BY DEF ReceiveHeld, BeginSweep, EndSweep, TestMember, ProcessHeld, TakeOver, PushBogus, vars, Asked
  <1>h. held' = held \/ held' = held + 1
      BY DEF ReceiveHeld, BeginSweep, EndSweep, TestMember, ProcessHeld, TakeOver, PushBogus, vars
  <1>r. processPc' = processPc \/ processPc' \in {"test", "front", "sweep"}
      BY DEF ReceiveHeld, BeginSweep, EndSweep, TestMember, ProcessHeld, TakeOver, PushBogus, vars
  <1>5. /\ checkLeader' \in BOOLEAN /\ held' \in Nat /\ bogusDue' \in BOOLEAN
        /\ processPc' \in {"test", "front", "sweep"}
    <2>1. checkLeader' \in BOOLEAN
        BY <1>2, <1>c DEF TypeOK
    <2>2. bogusDue' \in BOOLEAN
        BY <1>2, <1>b, FairQueueAssumption, Zenon DEF TypeOK
    <2>3. held' \in Nat /\ processPc' \in {"test", "front", "sweep"}
        BY <1>2, <1>h, <1>r DEF TypeOK
    <2>. QED  BY <2>1, <2>2, <2>3
  <1>6. holdbackQueue' \in Seq({"line", "bogus"})
    <2>1. \/ holdbackQueue' = holdbackQueue
          \/ holdbackQueue # << >> /\ holdbackQueue' = Tail(holdbackQueue)
          \/ holdbackQueue' = Append(holdbackQueue, "line")
          \/ holdbackQueue' = Append(holdbackQueue, "bogus")
        BY DEF ReceiveHeld, BeginSweep, EndSweep, TestMember, ProcessHeld, TakeOver, PushBogus, vars
    <2>2. holdbackQueue \in Seq({"line", "bogus"})
        BY <1>2 DEF TypeOK
    <2>. QED  BY <2>1, <2>2
  <1>7. TypeOK'
      BY <1>1, <1>2, <1>4, <1>5, <1>6 DEF TypeOK
  <1>9. ToSend' = ToSend /\ (served' => sendQueue' # << >> /\ ownCopy' = {})
      BY <1>1, ToBeSent DEF ToSend
  <1>8. OwnCopy'
      BY <1>1, <1>2, <1>9 DEF OwnCopy
  <1>. QED  BY <1>1, <1>4, <1>7, <1>8, <1>9, LinesStay

(* The line being sent has gone to where its copy is. *)
LEMMA SendDoneIInv ==
  ASSUME IInv, SendDone
  PROVE  IInv'
  <1>1. /\ UNCHANGED <<checkLeader, holdbackQueue, held, bogusDue, processPc, ahead, typed,
                       fairQMap, ownCopy, ordered, printed>>
        /\ served /\ served' = FALSE /\ sendQueue' = Tail(sendQueue) /\ asMember' = FALSE
      BY DEF SendDone, memberVars, processVars
  <1>2. TypeOK /\ Queues
      BY DEF IInv
  <1>3. sendQueue \in Seq(Filed) /\ sendQueue # << >> /\ ownCopy = {} /\ ToSend = Tail(sendQueue)
      BY <1>1, ToBeSent
  <1>4. sendQueue' \in Seq(Filed) /\ ToSend' = ToSend
      BY <1>1, <1>3, TailOf DEF ToSend
  <1>5. TypeOK'
      BY <1>1, <1>2, <1>4 DEF TypeOK
  <1>6. OwnCopy'
      BY <1>1, <1>3 DEF OwnCopy
  <1>7. \A a \in ahead' : a \in Authors /\ fairQMap[a] # << >>
      BY <1>1, <1>2 DEF TypeOK, Queues
  <1>8. ToSet(ordered) \subseteq ToSet(ordered)'
      BY <1>1
  <1>. QED  BY <1>1, <1>4, <1>5, <1>6, <1>7, <1>8, LinesStay

LEMMA SendFrontIInv ==
  ASSUME IInv, SendFront
  PROVE  IInv'
  <1> DEFINE m == Head(ToSend)
  <1>0. UNCHANGED <<served, sendQueue>> /\ ~served /\ ToSend = sendQueue
      BY DEF SendFront, ToSend
  <1>1. /\ UNCHANGED <<checkLeader, holdbackQueue, held, bogusDue, processPc, ahead, typed,
                       fairQMap, asMember, ToSend, printed>>
        /\ ToSend # << >>
        /\ \/ asMember /\ ownCopy' = {m} /\ ordered' = ordered
           \/ ~asMember /\ ownCopy' = {Item("SEQ_CHAT", m.line)} /\ ordered' = Append(ordered, m.line)
      BY <1>0 DEF SendFront, memberVars, processVars, ToSend
  <1>2. TypeOK /\ Queues
      BY DEF IInv
  <1>3. m \in Filed /\ m.line \in Lines /\ Item("SEQ_CHAT", m.line) \in Filed
        /\ Item("SEQ_CHAT", m.line).type = "SEQ_CHAT" /\ Item("SEQ_CHAT", m.line).line = m.line
      BY <1>1, ToBeSent, TailOf, Items
  <1> HIDE DEF m
  <1>4. /\ ordered \in Seq(Lines) /\ ordered' \in Seq(Lines)
        /\ \A i \in 1 .. Len(ordered) : i \in 1 .. Len(ordered') /\ ordered'[i] = ordered[i]
        /\ ~asMember => \E i \in 1 .. Len(ordered') : ordered'[i] = m.line
    <2>1. ordered \in Seq(Lines)
        BY <1>2 DEF TypeOK
    <2>2. CASE ordered' = ordered
        BY <1>1, <2>1, <2>2
    <2>3. CASE ordered' = Append(ordered, m.line)
        BY <1>3, <2>1, <2>3
    <2>4. CASE asMember /\ ordered' = ordered
        BY <2>1, <2>4
    <2>. QED  BY <1>1, <2>3, <2>4
  <1>5. ToSet(ordered) \subseteq ToSet(ordered)' /\ (~asMember => m.line \in ToSet(ordered)')
      BY <1>4 DEF ToSet
  <1>6. TypeOK'
    <2>1. ownCopy' \subseteq Filed
        BY <1>1, <1>3
    <2>. QED  BY <1>0, <1>1, <1>2, <1>4, <2>1 DEF TypeOK
  <1>7. OwnCopy'
    <2>1. CASE asMember
      <3>1. ownCopy' = {m} /\ asMember'
          BY <1>1, <2>1
      <3>. QED  BY <1>1, <3>1 DEF OwnCopy, m
    <2>2. CASE ~asMember
      <3>1. ownCopy' = {Item("SEQ_CHAT", m.line)} /\ ~asMember'
          BY <1>1, <2>2
      <3>2. m = Head(ToSend)'
          BY <1>1 DEF m
      <3>. QED  BY <1>1, <1>3, <1>5, <2>2, <3>1, <3>2 DEF OwnCopy
    <2>. QED  BY <2>1, <2>2
  <1>. QED  BY <1>0, <1>1, <1>2, <1>5, <1>6, <1>7, LinesStay DEF TypeOK, Queues

-----------------------------------------------------------------------------
(* The five ways in which a line comes to a place or leaves it. *)
LEMMA FiledAtEnd ==
  ASSUME fairQMap \in [Authors -> Seq(Filed)], NEW m \in Filed,
         fairQMap' = [fairQMap EXCEPT ![m.line.from] = Append(@, m)]
  PROVE  /\ fairQMap' \in [Authors -> Seq(Filed)]
         /\ \A t : \A l \in Lines : FiledAs(t, l)' <=> FiledAs(t, l) \/ Item(t, l) = m
         /\ \A a \in Authors :
              /\ Len(fairQMap[a]) \in Nat
              /\ fairQMap[a] # << >> => fairQMap'[a] # << >>
              /\ \A i \in 1 .. Len(fairQMap'[a]) :
                   \/ i \in 1 .. Len(fairQMap[a]) /\ fairQMap'[a][i] = fairQMap[a][i]
                   \/ /\ a = m.line.from /\ i = Len(fairQMap[a]) + 1
                      /\ fairQMap'[a][i] = m
  <1> DEFINE b == m.line.from
  <1>1. b \in Authors /\ m.line \in Lines
      BY Items
  <1>2. /\ fairQMap[b] \in Seq(Filed) /\ Append(fairQMap[b], m) \in Seq(Filed)
        /\ \A a \in Authors : fairQMap'[a] = IF a = b THEN Append(fairQMap[b], m) ELSE fairQMap[a]
      BY <1>1, AppendTo
  <1>3. fairQMap' \in [Authors -> Seq(Filed)]
      BY <1>1, <1>2
  <1>4. ASSUME NEW t, NEW l \in Lines
        PROVE  FiledAs(t, l)' <=> FiledAs(t, l) \/ Item(t, l) = m
    <2>1. l.from \in Authors /\ Item(t, l).line = l
        BY Items
    <2>2. CASE l.from = b
      <3>1. FiledAs(t, l)' <=> \E i \in 1 .. Len(Append(fairQMap[b], m)) : Append(fairQMap[b], m)[i] = Item(t, l)
          BY <1>2, <2>1, <2>2 DEF FiledAs
      <3>2. FiledAs(t, l) <=> \E i \in 1 .. Len(fairQMap[b]) : fairQMap[b][i] = Item(t, l)
          BY <2>2 DEF FiledAs
      <3>3. (\E i \in 1 .. Len(Append(fairQMap[b], m)) : Append(fairQMap[b], m)[i] = Item(t, l))
              <=> (\E i \in 1 .. Len(fairQMap[b]) : fairQMap[b][i] = Item(t, l)) \/ Item(t, l) = m
        <4> DEFINE q == fairQMap[b]
        <4>1. q \in Seq(Filed) /\ m \in Filed
            BY <1>2
        <4> HIDE DEF q
        <4>2. ASSUME NEW x
              PROVE  (\E i \in 1 .. Len(Append(q, m)) : Append(q, m)[i] = x)
                       <=> (\E i \in 1 .. Len(q) : q[i] = x) \/ x = m
            BY <4>1, FoundAfterAppend
        <4>. QED  BY <4>2 DEF q
      <3>. QED  BY <3>1, <3>2, <3>3
    <2>3. CASE l.from # b
      <3>1. Item(t, l) # m
          BY <2>1, <2>3
      <3>. QED  BY <1>2, <2>1, <2>3, <3>1 DEF FiledAs
    <2>. QED  BY <2>2, <2>3
  <1>5. ASSUME NEW a \in Authors
        PROVE  /\ Len(fairQMap[a]) \in Nat
               /\ fairQMap[a] # << >> => fairQMap'[a] # << >>
               /\ \A i \in 1 .. Len(fairQMap'[a]) :
                    \/ i \in 1 .. Len(fairQMap[a]) /\ fairQMap'[a][i] = fairQMap[a][i]
                    \/ /\ a = m.line.from /\ i = Len(fairQMap[a]) + 1
                       /\ fairQMap'[a][i] = m
    <2>1. fairQMap[a] \in Seq(Filed)
        OBVIOUS
    <2>2. CASE a = b
      <3>1. /\ Len(fairQMap[a]) \in Nat /\ Len(Append(fairQMap[a], m)) = Len(fairQMap[a]) + 1
            /\ Append(fairQMap[a], m)[Len(fairQMap[a]) + 1] = m
            /\ Append(fairQMap[a], m) # << >>
            /\ \A i \in 1 .. Len(fairQMap[a]) : Append(fairQMap[a], m)[i] = fairQMap[a][i]
            /\ \A i \in 1 .. Len(Append(fairQMap[a], m)) : i \in 1 .. Len(fairQMap[a]) \/ i = Len(fairQMap[a]) + 1
          BY <2>1, AppendTo
      <3>2. fairQMap'[a] = Append(fairQMap[a], m)
          BY <1>2, <2>2
      <3>. QED  BY <2>2, <3>1, <3>2
    <2>3. CASE a # b
        BY <1>2, <2>1, <2>3
    <2>. QED  BY <2>2, <2>3
  <1>. QED  BY <1>3, <1>4, <1>5

LEMMA FiledTaken ==
  ASSUME fairQMap \in [Authors -> Seq(Filed)], NEW a \in Authors, fairQMap[a] # << >>,
         Head(fairQMap[a]).line.from = a,
         \A i, j \in 1 .. Len(fairQMap[a]) : fairQMap[a][i].line = fairQMap[a][j].line => i = j,
         fairQMap' = [fairQMap EXCEPT ![a] = Tail(@)]
  PROVE  /\ fairQMap' \in [Authors -> Seq(Filed)]
         /\ \A t : \A l \in Lines : FiledAs(t, l)' <=> FiledAs(t, l) /\ Item(t, l) # Head(fairQMap[a])
         /\ \A b \in Authors \ {a} : fairQMap'[b] = fairQMap[b]
         /\ Len(fairQMap[a]) \in Nat /\ 1 \in 1 .. Len(fairQMap[a])
         /\ Head(fairQMap[a]) = fairQMap[a][1] /\ Head(fairQMap[a]) \in Filed
         /\ \A i \in 1 .. Len(fairQMap'[a]) : /\ i + 1 \in 1 .. Len(fairQMap[a])
                                              /\ fairQMap'[a][i] = fairQMap[a][i + 1]
  <1> DEFINE s == fairQMap[a]
  <1>1. /\ s \in Seq(Filed) /\ Tail(s) \in Seq(Filed)
        /\ \A b \in Authors : fairQMap'[b] = IF b = a THEN Tail(s) ELSE fairQMap[b]
      BY TailOf
  <1>2. fairQMap' \in [Authors -> Seq(Filed)]
      BY <1>1
  <1>3. /\ Len(s) \in Nat \ {0}
        /\ Head(s) = s[1] /\ s[1] \in Filed
        /\ \A i \in 1 .. Len(Tail(s)) : Tail(s)[i] = s[i + 1] /\ i + 1 \in 1 .. Len(s)
      BY <1>1, TailOf
  <1>4. \A i, j \in 1 .. Len(s) : s[i] = s[j] => i = j
      OBVIOUS
  <1>5. ASSUME NEW t, NEW l \in Lines
        PROVE  FiledAs(t, l)' <=> FiledAs(t, l) /\ Item(t, l) # Head(s)
    <2>1. l.from \in Authors /\ Item(t, l).line = l
        BY Items
    <2>2. CASE l.from = a
      <3>1. FiledAs(t, l)' <=> \E i \in 1 .. Len(Tail(s)) : Tail(s)[i] = Item(t, l)
          BY <1>1, <2>1, <2>2 DEF FiledAs
      <3>2. FiledAs(t, l) <=> \E i \in 1 .. Len(s) : s[i] = Item(t, l)
          BY <2>2 DEF FiledAs
      <3>3. (\E i \in 1 .. Len(Tail(s)) : Tail(s)[i] = Item(t, l))
              <=> (\E i \in 1 .. Len(s) : s[i] = Item(t, l)) /\ Item(t, l) # Head(s)
          BY <1>1, <1>4, FoundAfterTail
      <3>. QED  BY <3>1, <3>2, <3>3
    <2>3. CASE l.from # a
      <3>1. Item(t, l) # Head(s)
          BY <2>1, <2>3
      <3>. QED  BY <1>1, <2>1, <2>3, <3>1 DEF FiledAs
    <2>. QED  BY <2>2, <2>3
  <1>6. fairQMap'[a] = Tail(s) /\ \A b \in Authors \ {a} : fairQMap'[b] = fairQMap[b]
      BY <1>1
  <1>. QED  BY <1>2, <1>3, <1>5, <1>6

LEMMA SentAtEnd ==
  ASSUME ToSend \in Seq(Filed), NEW m \in Filed, ToSend' = Append(ToSend, m)
  PROVE  /\ ToSend' \in Seq(Filed) /\ ToSend' # << >> /\ Len(ToSend) \in Nat
         /\ \A l : Sending(l)' <=> Sending(l) \/ l = m.line
         /\ \A i \in 1 .. Len(ToSend') :
              \/ i \in 1 .. Len(ToSend) /\ ToSend'[i] = ToSend[i]
              \/ i = Len(ToSend) + 1 /\ ToSend'[i] = m
         /\ ToSend # << >> => Head(ToSend') = Head(ToSend)
  <1>1. ASSUME NEW l PROVE Sending(l)' <=> Sending(l) \/ l = m.line
    <2>1. Sending(l)' <=> \E i \in 1 .. Len(Append(ToSend, m)) : Append(ToSend, m)[i].line = l
        BY DEF Sending
    <2>2. (\E i \in 1 .. Len(Append(ToSend, m)) : Append(ToSend, m)[i].line = l)
            <=> (\E i \in 1 .. Len(ToSend) : ToSend[i].line = l) \/ l = m.line
        BY LineAfterAppend
    <2>. QED  BY <2>1, <2>2 DEF Sending
  <1>2. /\ Append(ToSend, m) \in Seq(Filed)
        /\ Len(ToSend) \in Nat
        /\ Append(ToSend, m)[Len(ToSend) + 1] = m
        /\ \A i \in 1 .. Len(ToSend) : Append(ToSend, m)[i] = ToSend[i]
        /\ \A i \in 1 .. Len(Append(ToSend, m)) : i \in 1 .. Len(ToSend) \/ i = Len(ToSend) + 1
      BY AppendTo
  <1>3. /\ Append(ToSend, m) # << >>
        /\ ToSend # << >> => Head(Append(ToSend, m)) = Head(ToSend)
      OBVIOUS
  <1>. QED  BY <1>1, <1>2, <1>3

LEMMA SentTaken ==
  ASSUME ToSend \in Seq(Filed), ToSend # << >>,
         \A i, j \in 1 .. Len(ToSend) : ToSend[i].line = ToSend[j].line => i = j,
         ToSend' = Tail(ToSend)
  PROVE  /\ ToSend' \in Seq(Filed)
         /\ \A l : Sending(l)' <=> Sending(l) /\ l # Head(ToSend).line
         /\ Len(ToSend) \in Nat /\ 1 \in 1 .. Len(ToSend)
         /\ Head(ToSend) = ToSend[1] /\ Head(ToSend) \in Filed
         /\ \A i \in 1 .. Len(ToSend') : /\ i + 1 \in 1 .. Len(ToSend)
                                            /\ ToSend'[i] = ToSend[i + 1]
  <1>1. ASSUME NEW l PROVE Sending(l)' <=> Sending(l) /\ l # Head(ToSend).line
    <2>1. Sending(l)' <=> \E i \in 1 .. Len(Tail(ToSend)) : Tail(ToSend)[i].line = l
        BY DEF Sending
    <2>2. (\E i \in 1 .. Len(Tail(ToSend)) : Tail(ToSend)[i].line = l)
            <=> (\E i \in 1 .. Len(ToSend) : ToSend[i].line = l) /\ l # Head(ToSend).line
        BY LineAfterTail
    <2>. QED  BY <2>1, <2>2 DEF Sending
  <1>2. /\ Tail(ToSend) \in Seq(Filed)
        /\ Len(ToSend) \in Nat \ {0}
        /\ Head(ToSend) = ToSend[1] /\ ToSend[1] \in Filed
        /\ \A i \in 1 .. Len(Tail(ToSend)) : Tail(ToSend)[i] = ToSend[i + 1] /\ i + 1 \in 1 .. Len(ToSend)
      BY TailOf
  <1>. QED  BY <1>1, <1>2

LEMMA ShownAtEnd ==
  ASSUME printed \in Seq(Lines), NEW k \in Lines, printed' = Append(printed, k)
  PROVE  /\ printed' \in Seq(Lines) /\ Len(printed) \in Nat
         /\ \A l : Shown(l)' <=> Shown(l) \/ l = k
         /\ \A i \in 1 .. Len(printed') :
              \/ i \in 1 .. Len(printed) /\ printed'[i] = printed[i]
              \/ i = Len(printed) + 1 /\ printed'[i] = k
  <1>1. ASSUME NEW l PROVE Shown(l)' <=> Shown(l) \/ l = k
    <2>1. Shown(l)' <=> \E i \in 1 .. Len(Append(printed, k)) : Append(printed, k)[i] = l
        BY DEF Shown
    <2>2. (\E i \in 1 .. Len(Append(printed, k)) : Append(printed, k)[i] = l)
            <=> (\E i \in 1 .. Len(printed) : printed[i] = l) \/ l = k
        BY FoundAfterAppend
    <2>. QED  BY <2>1, <2>2 DEF Shown
  <1>2. /\ Append(printed, k) \in Seq(Lines) /\ Len(printed) \in Nat
        /\ Append(printed, k)[Len(printed) + 1] = k
        /\ \A i \in 1 .. Len(printed) : Append(printed, k)[i] = printed[i]
        /\ \A i \in 1 .. Len(Append(printed, k)) : i \in 1 .. Len(printed) \/ i = Len(printed) + 1
      BY AppendTo
  <1>. QED  BY <1>1, <1>2
-----------------------------------------------------------------------------
(* What is found in a place is a line received. *)
LEMMA Found ==
  ASSUME IInv
  PROVE  /\ \A i \in 1 .. Len(printed) : printed[i] \in Lines /\ Shown(printed[i])
         /\ \A i \in 1 .. Len(ToSend) : /\ ToSend[i] \in Filed /\ ToSend[i].line \in Lines
                                           /\ Sending(ToSend[i].line)
         /\ \A a \in Authors : \A i \in 1 .. Len(fairQMap[a]) :
              /\ fairQMap[a][i] \in Filed /\ fairQMap[a][i].line \in Lines
              /\ fairQMap[a][i].type \in {"CHAT", "SEQ_CHAT"}
              /\ fairQMap[a][i].line.from = a
              /\ FiledAs(fairQMap[a][i].type, fairQMap[a][i].line)
         /\ \A k \in Lines : Shown(k) \/ Sending(k) \/ FiledAs("CHAT", k) \/ FiledAs("SEQ_CHAT", k)
                               => k.n <= typed[k.from]
  <1>1. TypeOK /\ Queues
      BY DEF IInv
  <1>2. /\ printed \in Seq(Lines) /\ ToSend \in Seq(Filed)
        /\ \A a \in Authors : fairQMap[a] \in Seq(Filed)
      BY <1>1, ToBeSent DEF TypeOK
  <1>3. \A i \in 1 .. Len(printed) : printed[i] \in Lines /\ Shown(printed[i])
      BY <1>2 DEF Shown
  <1>4. \A i \in 1 .. Len(ToSend) : /\ ToSend[i] \in Filed /\ ToSend[i].line \in Lines
                                       /\ Sending(ToSend[i].line)
      BY <1>2, Items DEF Sending
  <1>5. ASSUME NEW a \in Authors, NEW i \in 1 .. Len(fairQMap[a])
        PROVE  /\ fairQMap[a][i] \in Filed /\ fairQMap[a][i].line \in Lines
               /\ fairQMap[a][i].type \in {"CHAT", "SEQ_CHAT"}
               /\ fairQMap[a][i].line.from = a
               /\ FiledAs(fairQMap[a][i].type, fairQMap[a][i].line)
    <2>1. fairQMap[a][i] \in Filed
        BY <1>2
    <2>2. /\ fairQMap[a][i].line \in Lines /\ fairQMap[a][i].type \in {"CHAT", "SEQ_CHAT"}
          /\ fairQMap[a][i] = Item(fairQMap[a][i].type, fairQMap[a][i].line)
        BY <2>1, Items
    <2>3. fairQMap[a][i].line.from = a
        BY <1>1 DEF Queues
    <2>. QED  BY <2>1, <2>2, <2>3 DEF FiledAs
  <1>6. ASSUME NEW k \in Lines,
               Shown(k) \/ Sending(k) \/ FiledAs("CHAT", k) \/ FiledAs("SEQ_CHAT", k)
        PROVE  k.n <= typed[k.from]
    <2>1. CASE Shown(k)
        BY <1>1, <2>1 DEF Shown, Queues
    <2>2. CASE Sending(k)
        BY <1>1, <2>2 DEF Sending, Queues
    <2>3. ASSUME NEW t, FiledAs(t, k) PROVE k.n <= typed[k.from]
      <3>1. PICK i \in 1 .. Len(fairQMap[k.from]) : fairQMap[k.from][i] = Item(t, k)
          BY <2>3 DEF FiledAs
      <3>2. fairQMap[k.from][i].line = k /\ k.from \in Authors
          BY <3>1, Items
      <3>. QED  BY <1>1, <3>2 DEF Queues
    <2>. QED  BY <1>6, <2>1, <2>2, <2>3
  <1>. QED  BY <1>3, <1>4, <1>5, <1>6

(* A line just typed is in no place yet, and the author's last. *)
LEMMA NewLine ==
  ASSUME IInv, NEW a \in Authors, typed[a] < MaxTyped, typed' = [typed EXCEPT ![a] = @ + 1]
  PROVE  \E l \in Lines :
           /\ l = [from |-> a, n |-> typed[a] + 1] /\ l.from = a
           /\ typed' \in [Authors -> 0 .. MaxTyped]
           /\ \A b \in Authors : \A n \in 1 .. MaxTyped : n <= typed[b] => n <= typed'[b]
           /\ l.n <= typed'[a]
           /\ \A k \in Lines : k.n <= typed'[k.from] => k.n <= typed[k.from] \/ k = l
           /\ \A k \in Lines : Shown(k) \/ Sending(k) \/ FiledAs("CHAT", k) \/ FiledAs("SEQ_CHAT", k)
                                 => k # l /\ Follows(k, l)
  <1> DEFINE l == [from |-> a, n |-> typed[a] + 1]
  <1>1. typed \in [Authors -> 0 .. MaxTyped] /\ MaxTyped \in Nat
      BY FairQueueAssumption DEF IInv, TypeOK
  <1>2. /\ typed[a] \in 0 .. MaxTyped /\ typed'[a] = typed[a] + 1 /\ l.from = a
        /\ l.n = typed[a] + 1
        /\ \A b \in Authors : b # a => typed'[b] = typed[b]
      BY <1>1
  <1>3. l.n \in 1 .. MaxTyped /\ typed'[a] \in 0 .. MaxTyped
      BY <1>1, <1>2
  <1>4. l \in Lines
      BY <1>3 DEF Lines
  <1> HIDE DEF l
  <1>5. typed' \in [Authors -> 0 .. MaxTyped]
      BY <1>1, <1>3
  <1>6. \A b \in Authors : \A n \in 1 .. MaxTyped : n <= typed[b] => n <= typed'[b]
      BY <1>1, <1>2
  <1>7. ASSUME NEW k \in Lines, k.n <= typed'[k.from]
        PROVE  k.n <= typed[k.from] \/ k = l
    <2>1. k.from \in Authors /\ k.n \in 1 .. MaxTyped /\ k = [from |-> k.from, n |-> k.n]
        BY Items
    <2>2. CASE k.from = a /\ k.n = typed[a] + 1
        BY <2>1, <2>2 DEF l
    <2>3. CASE k.from = a /\ k.n # typed[a] + 1
        BY <1>1, <1>2, <1>7, <2>1, <2>3
    <2>4. CASE k.from # a
        BY <1>2, <1>7, <2>1, <2>4
    <2>. QED  BY <2>2, <2>3, <2>4
  <1>8. ASSUME NEW k \in Lines,
               Shown(k) \/ Sending(k) \/ FiledAs("CHAT", k) \/ FiledAs("SEQ_CHAT", k)
        PROVE  k # l /\ Follows(k, l)
    <2>1. k.n <= typed[k.from] /\ k.n \in 1 .. MaxTyped
        BY <1>8, Found, Items
    <2>. QED  BY <1>1, <1>2, <2>1 DEF Follows
  <1>9. l = [from |-> a, n |-> typed[a] + 1]
      BY DEF l
  <1>. QED  BY <1>2, <1>4, <1>5, <1>6, <1>7, <1>8, <1>9
-----------------------------------------------------------------------------
(* A line of another author arrives. *)
LEMMA ReceiveChatIInv ==
  ASSUME IInv, NEW a \in Authors, ReceiveChat(a)
  PROVE  IInv'
  <1>n. typed[a] < MaxTyped /\ typed' = [typed EXCEPT ![a] = @ + 1]
    <2>1. typed[a] \in Nat /\ typed[a] < MaxOthers /\ MaxOthers \in 0 .. MaxTyped /\ MaxTyped \in Nat
        BY FairQueueAssumption DEF ReceiveChat, IInv, TypeOK
    <2>2. typed[a] < MaxTyped
        BY <2>1
    <2>. QED  BY <2>2 DEF ReceiveChat
  <1>2. PICK l \in Lines :
          /\ l = [from |-> a, n |-> typed[a] + 1] /\ l.from = a
          /\ typed' \in [Authors -> 0 .. MaxTyped]
          /\ \A b \in Authors : \A n \in 1 .. MaxTyped : n <= typed[b] => n <= typed'[b]
          /\ l.n <= typed'[a]
          /\ \A k \in Lines : k.n <= typed'[k.from] => k.n <= typed[k.from] \/ k = l
          /\ \A k \in Lines : Shown(k) \/ Sending(k) \/ FiledAs("CHAT", k) \/ FiledAs("SEQ_CHAT", k)
                                => k # l /\ Follows(k, l)
      BY <1>n, NewLine
  <1>1. /\ UNCHANGED <<checkLeader, holdbackQueue, held, bogusDue, processPc, ahead,
                       asMember, ToSend, sendQueue, served, ownCopy, ordered, printed>>
        /\ a # Self
        /\ fairQMap' = [fairQMap EXCEPT ![Item("CHAT", l).line.from] = Append(@, Item("CHAT", l))]
      BY <1>2 DEF ReceiveChat, File, memberVars, processVars, sendVars, ToSend
  <1>3. Item("CHAT", l) \in Filed /\ Item("CHAT", l).type = "CHAT" /\ Item("CHAT", l).line = l
      BY <1>2, Items
  <1>t. TypeOK /\ Queues /\ OwnCopy /\ Apart /\ Somewhere /\ InTurn /\ OwnWait /\ OneUnnumbered
      BY DEF IInv
  <1>4. /\ fairQMap' \in [Authors -> Seq(Filed)]
        /\ \A t : \A k \in Lines : FiledAs(t, k)' <=> FiledAs(t, k) \/ Item(t, k) = Item("CHAT", l)
        /\ \A b \in Authors :
             /\ Len(fairQMap[b]) \in Nat
             /\ fairQMap[b] # << >> => fairQMap'[b] # << >>
             /\ \A i \in 1 .. Len(fairQMap'[b]) :
                  \/ i \in 1 .. Len(fairQMap[b]) /\ fairQMap'[b][i] = fairQMap[b][i]
                  \/ /\ b = l.from /\ i = Len(fairQMap[b]) + 1
                     /\ fairQMap'[b][i] = Item("CHAT", l)
    <2>1. fairQMap \in [Authors -> Seq(Filed)]
        BY <1>t DEF TypeOK
    <2>2. PICK m \in Filed : m = Item("CHAT", l) /\ m.line = l
        BY <1>3
    <2>3. fairQMap' = [fairQMap EXCEPT ![m.line.from] = Append(@, m)]
        BY <1>1, <2>2
    <2>4. /\ fairQMap' \in [Authors -> Seq(Filed)]
          /\ \A t : \A k \in Lines : FiledAs(t, k)' <=> FiledAs(t, k) \/ Item(t, k) = m
          /\ \A b \in Authors :
               /\ Len(fairQMap[b]) \in Nat
               /\ fairQMap[b] # << >> => fairQMap'[b] # << >>
               /\ \A i \in 1 .. Len(fairQMap'[b]) :
                    \/ i \in 1 .. Len(fairQMap[b]) /\ fairQMap'[b][i] = fairQMap[b][i]
                    \/ /\ b = m.line.from /\ i = Len(fairQMap[b]) + 1
                       /\ fairQMap'[b][i] = m
        BY <2>1, <2>3, FiledAtEnd
    <2>. QED  BY <2>2, <2>4
  <1>5. \A k \in Lines : /\ FiledAs("CHAT", k)' <=> FiledAs("CHAT", k) \/ k = l
                         /\ FiledAs("SEQ_CHAT", k)' <=> FiledAs("SEQ_CHAT", k)
                         /\ Shown(k)' <=> Shown(k)
                         /\ Sending(k)' <=> Sending(k)
    <2>1. ASSUME NEW k \in Lines
          PROVE  /\ FiledAs("CHAT", k)' <=> FiledAs("CHAT", k) \/ k = l
                 /\ FiledAs("SEQ_CHAT", k)' <=> FiledAs("SEQ_CHAT", k)
      <3>1. Item("CHAT", k) = Item("CHAT", l) <=> k = l
          BY Items
      <3>2. Item("SEQ_CHAT", k) # Item("CHAT", l)
          BY Items
      <3>. QED  BY <1>4, <3>1, <3>2
    <2>2. \A k : (Shown(k)' <=> Shown(k)) /\ (Sending(k)' <=> Sending(k))
        BY <1>1 DEF Shown, Sending
    <2>. QED  BY <2>1, <2>2
  <1>f. /\ \A i \in 1 .. Len(printed) : printed[i] \in Lines /\ Shown(printed[i])
        /\ \A i \in 1 .. Len(ToSend) : ToSend[i].line \in Lines
        /\ \A b \in Authors : \A i \in 1 .. Len(fairQMap[b]) :
             /\ fairQMap[b][i].line \in Lines /\ fairQMap[b][i].type \in {"CHAT", "SEQ_CHAT"}
             /\ fairQMap[b][i].line.from = b
             /\ FiledAs(fairQMap[b][i].type, fairQMap[b][i].line)
        /\ \A k \in Lines : k.from \in Authors /\ k.n \in 1 .. MaxTyped
      BY Found, Items
  <1>g. \A b \in Authors : \A i \in 1 .. Len(fairQMap[b]) :
          fairQMap[b][i].line # l /\ Follows(fairQMap[b][i].line, l)
      BY <1>2, <1>f, SMTT(30)
  <1>6. TypeOK'
      BY <1>1, <1>2, <1>4, <1>t DEF TypeOK
  <1>7. Queues'
    <2>1. \A i \in 1 .. Len(printed) : printed[i].n <= typed'[printed[i].from]
        BY <1>2, <1>f, <1>t DEF Queues
    <2>2. \A i \in 1 .. Len(ToSend) :
            /\ ToSend[i].line.n <= typed'[ToSend[i].line.from]
            /\ ToSend[i].type = "CHAT" => ToSend[i].line.from = Self
        BY <1>2, <1>f, <1>t DEF Queues
    <2>3. ASSUME NEW b \in Authors, NEW i \in 1 .. Len(fairQMap'[b])
          PROVE  /\ fairQMap'[b][i].line.from = b /\ fairQMap'[b][i].line.n <= typed'[b]
                 /\ b = Self /\ fairQMap'[b][i].type = "CHAT" => ~InOrder(fairQMap'[b][i].line)
      <3>1. CASE i \in 1 .. Len(fairQMap[b]) /\ fairQMap'[b][i] = fairQMap[b][i]
          BY <1>2, <1>f, <1>t, <3>1, SMTT(30) DEF Queues
      <3>2. CASE b = l.from /\ fairQMap'[b][i] = Item("CHAT", l)
          BY <1>1, <1>2, <1>3, <3>2
      <3>. QED  BY <1>4, <3>1, <3>2
    <2>4. \A b \in ahead : fairQMap'[b] # << >>
        BY <1>4, <1>t DEF Queues, TypeOK
    <2>. QED  BY <1>1, <1>t, <2>1, <2>2, <2>3, <2>4 DEF Queues
  <1>8. OwnCopy'
      BY <1>1, <1>t DEF OwnCopy
  <1>9. Apart'
    <2>1. ASSUME NEW b \in Authors, NEW i \in 1 .. Len(fairQMap'[b]), NEW j \in 1 .. Len(fairQMap'[b]),
                 fairQMap'[b][i].line = fairQMap'[b][j].line
          PROVE  i = j
      <3>1. CASE i \in 1 .. Len(fairQMap[b]) /\ fairQMap'[b][i] = fairQMap[b][i]
        <4>1. fairQMap[b][i].line # Item("CHAT", l).line
            BY <1>3, <1>g, <3>1
        <4>2. j \in 1 .. Len(fairQMap[b]) /\ fairQMap'[b][j] = fairQMap[b][j]
            BY <1>4, <2>1, <3>1, <4>1
        <4>. QED  BY <1>t, <2>1, <3>1, <4>2 DEF Apart
      <3>2. CASE i = Len(fairQMap[b]) + 1 /\ fairQMap'[b][i] = Item("CHAT", l)
        <4>1. \A h \in 1 .. Len(fairQMap[b]) : fairQMap[b][h].line # Item("CHAT", l).line
            BY <1>3, <1>g
        <4>2. j = Len(fairQMap[b]) + 1
            BY <1>4, <2>1, <3>2, <4>1
        <4>. QED  BY <3>2, <4>2
      <3>. QED  BY <1>4, <3>1, <3>2
    <2>2. ASSUME NEW k \in Lines
          PROVE  /\ ~(Shown(k)' /\ Sending(k)')
                 /\ ~(Shown(k)' /\ (FiledAs("CHAT", k)' \/ FiledAs("SEQ_CHAT", k)'))
                 /\ ~(Sending(k)' /\ (FiledAs("CHAT", k)' \/ FiledAs("SEQ_CHAT", k)'))
        BY <1>2, <1>5, <1>t DEF Apart
    <2>. QED  BY <1>1, <1>t, <2>1, <2>2 DEF Apart
  <1>10. Somewhere'
      BY <1>2, <1>5, <1>t DEF Somewhere
  <1>11. InTurn'
    <2>1. ASSUME NEW b \in Authors, NEW i \in 1 .. Len(fairQMap'[b]), NEW j \in 1 .. Len(fairQMap'[b]),
                 fairQMap'[b][i].type = fairQMap'[b][j].type, i < j
          PROVE  Follows(fairQMap'[b][i].line, fairQMap'[b][j].line)
      <3>1. i \in 1 .. Len(fairQMap[b]) /\ fairQMap'[b][i] = fairQMap[b][i]
        <4>1. i # Len(fairQMap[b]) + 1
            BY <1>4, <2>1
        <4>. QED  BY <1>4, <4>1
      <3>2. CASE j \in 1 .. Len(fairQMap[b]) /\ fairQMap'[b][j] = fairQMap[b][j]
          BY <1>t, <2>1, <3>1, <3>2 DEF InTurn
      <3>3. CASE fairQMap'[b][j] = Item("CHAT", l)
          BY <1>3, <1>g, <3>1, <3>3
      <3>. QED  BY <1>4, <3>2, <3>3
    <2>2. ASSUME NEW j \in Lines, NEW k \in Lines
          PROVE  /\ Shown(j)' /\ (FiledAs("SEQ_CHAT", k)' \/ Sending(k)' \/ FiledAs("CHAT", k)') => Follows(j, k)
                 /\ FiledAs("SEQ_CHAT", j)' /\ (Sending(k)' \/ FiledAs("CHAT", k)') => Follows(j, k)
                 /\ Sending(j)' /\ FiledAs("CHAT", k)' => Follows(j, k)
        BY <1>2, <1>5, <1>t DEF InTurn
    <2>3. \A j, k : Follows(j, k)' <=> Follows(j, k)
        BY DEF Follows, InOrder
    <2>. QED  BY <1>1, <1>t, <2>1, <2>2, <2>3 DEF InTurn
  <1>12. OneUnnumbered'
      BY <1>1, <1>5, <1>t DEF OneUnnumbered, Unnumbered
  <1>w. OwnWait'
      BY <1>1, <1>2, <1>5, <1>t DEF OwnWait
  <1>. QED  BY <1>6, <1>7, <1>8, <1>9, <1>10, <1>11, <1>w, <1>12 DEF IInv

(* A line is typed here. *)
LEMMA TypeOwnIInv ==
  ASSUME IInv, TypeOwn
  PROVE  IInv'
  <1>n. typed[Self] < MaxTyped /\ typed' = [typed EXCEPT ![Self] = @ + 1] /\ Self \in Authors
      BY FairQueueAssumption DEF TypeOwn
  <1>2. PICK l \in Lines :
          /\ l = [from |-> Self, n |-> typed[Self] + 1] /\ l.from = Self
          /\ typed' \in [Authors -> 0 .. MaxTyped]
          /\ \A b \in Authors : \A n \in 1 .. MaxTyped : n <= typed[b] => n <= typed'[b]
          /\ l.n <= typed'[Self]
          /\ \A k \in Lines : k.n <= typed'[k.from] => k.n <= typed[k.from] \/ k = l
          /\ \A k \in Lines : Shown(k) \/ Sending(k) \/ FiledAs("CHAT", k) \/ FiledAs("SEQ_CHAT", k)
                                => k # l /\ Follows(k, l)
      BY <1>n, NewLine
  <1>1. /\ UNCHANGED <<checkLeader, holdbackQueue, held, bogusDue, processPc, ahead,
                       fairQMap, asMember, ownCopy, served, ordered, printed>>
        /\ sendQueue' = Append(sendQueue, Item("CHAT", l))
      BY <1>2 DEF TypeOwn, memberVars, processVars
  <1>t. TypeOK /\ Queues /\ OwnCopy /\ Apart /\ Somewhere /\ InTurn /\ OwnWait /\ OneUnnumbered
      BY DEF IInv
  <1>4. PICK m \in Filed :
          /\ m = Item("CHAT", l) /\ m.line = l /\ m.type = "CHAT"
          /\ sendQueue' \in Seq(Filed) /\ sendQueue' # << >>
          /\ ToSend' \in Seq(Filed) /\ ToSend' # << >> /\ Len(ToSend) \in Nat
          /\ \A k : Sending(k)' <=> Sending(k) \/ k = l
          /\ \A i \in 1 .. Len(ToSend') :
               \/ i \in 1 .. Len(ToSend) /\ ToSend'[i] = ToSend[i]
               \/ i = Len(ToSend) + 1 /\ ToSend'[i] = m
          /\ ToSend # << >> => Head(ToSend') = Head(ToSend)
    <2>1. ToSend \in Seq(Filed)
        BY ToBeSent
    <2>2. PICK m \in Filed : m = Item("CHAT", l) /\ m.line = l /\ m.type = "CHAT"
        BY <1>2, Items
    <2>3. /\ sendQueue' \in Seq(Filed) /\ sendQueue' # << >>
          /\ ToSend' = Append(ToSend, m)
        BY <1>1, <2>2, Pushed
    <2>4. /\ ToSend' \in Seq(Filed) /\ ToSend' # << >> /\ Len(ToSend) \in Nat
          /\ \A k : Sending(k)' <=> Sending(k) \/ k = m.line
          /\ \A i \in 1 .. Len(ToSend') :
               \/ i \in 1 .. Len(ToSend) /\ ToSend'[i] = ToSend[i]
               \/ i = Len(ToSend) + 1 /\ ToSend'[i] = m
          /\ ToSend # << >> => Head(ToSend') = Head(ToSend)
        BY <2>1, <2>3, SentAtEnd
    <2>. QED  BY <2>2, <2>3, <2>4
  <1>5. \A k \in Lines : /\ FiledAs("CHAT", k)' <=> FiledAs("CHAT", k)
                         /\ FiledAs("SEQ_CHAT", k)' <=> FiledAs("SEQ_CHAT", k)
                         /\ Shown(k)' <=> Shown(k)
                         /\ Sending(k)' <=> Sending(k) \/ k = l
    <2>1. \A k : /\ Shown(k)' <=> Shown(k)
                 /\ \A t : FiledAs(t, k)' <=> FiledAs(t, k)
        BY <1>1 DEF Shown, FiledAs
    <2>. QED  BY <1>4, <2>1
  <1>f. /\ \A i \in 1 .. Len(printed) : printed[i] \in Lines
        /\ \A i \in 1 .. Len(ToSend) : ToSend[i].line \in Lines /\ Sending(ToSend[i].line)
        /\ \A b \in Authors : \A i \in 1 .. Len(fairQMap[b]) : fairQMap[b][i].line \in Lines
        /\ \A k \in Lines : k.from \in Authors /\ k.n \in 1 .. MaxTyped
      BY Found, Items
  <1>g. \A i \in 1 .. Len(ToSend) :
          ToSend[i].line # l /\ Follows(ToSend[i].line, l)
      BY <1>2, <1>f
  <1>6. TypeOK'
      BY <1>1, <1>2, <1>4, <1>t DEF TypeOK
  <1>7. Queues'
    <2>1. \A i \in 1 .. Len(printed) : printed[i].n <= typed'[printed[i].from]
        BY <1>2, <1>f, <1>t DEF Queues
    <2>2. ASSUME NEW i \in 1 .. Len(ToSend')
          PROVE  /\ ToSend'[i].line.n <= typed'[ToSend'[i].line.from]
                 /\ ToSend'[i].type = "CHAT" => ToSend'[i].line.from = Self
      <3>1. CASE i \in 1 .. Len(ToSend) /\ ToSend'[i] = ToSend[i]
          BY <1>2, <1>f, <1>t, <3>1 DEF Queues
      <3>2. CASE ToSend'[i] = m
          BY <1>2, <1>4, <3>2
      <3>. QED  BY <1>4, <3>1, <3>2
    <2>3. \A b \in Authors : \A i \in 1 .. Len(fairQMap[b]) :
            /\ fairQMap[b][i].line.from = b /\ fairQMap[b][i].line.n <= typed'[b]
            /\ b = Self /\ fairQMap[b][i].type = "CHAT" => ~InOrder(fairQMap[b][i].line)
        BY <1>2, <1>f, <1>t DEF Queues
    <2>. QED  BY <1>1, <1>4, <1>t, <2>1, <2>2, <2>3 DEF Queues
  <1>8. OwnCopy'
      BY <1>1, <1>4, <1>t DEF OwnCopy
  <1>9. Apart'
    <2>1. ASSUME NEW i \in 1 .. Len(ToSend'), NEW j \in 1 .. Len(ToSend'),
                 ToSend'[i].line = ToSend'[j].line
          PROVE  i = j
      <3>1. CASE i \in 1 .. Len(ToSend) /\ ToSend'[i] = ToSend[i]
        <4>1. ToSend[i].line # m.line
            BY <1>4, <1>g, <3>1
        <4>2. j \in 1 .. Len(ToSend) /\ ToSend'[j] = ToSend[j]
            BY <1>4, <2>1, <3>1, <4>1
        <4>. QED  BY <1>t, <2>1, <3>1, <4>2 DEF Apart
      <3>2. CASE i = Len(ToSend) + 1 /\ ToSend'[i] = m
        <4>1. \A h \in 1 .. Len(ToSend) : ToSend[h].line # m.line
            BY <1>4, <1>g
        <4>2. j = Len(ToSend) + 1
            BY <1>4, <2>1, <3>2, <4>1
        <4>. QED  BY <3>2, <4>2
      <3>. QED  BY <1>4, <3>1, <3>2
    <2>2. ASSUME NEW k \in Lines
          PROVE  /\ ~(Shown(k)' /\ Sending(k)')
                 /\ ~(Shown(k)' /\ (FiledAs("CHAT", k)' \/ FiledAs("SEQ_CHAT", k)'))
                 /\ ~(Sending(k)' /\ (FiledAs("CHAT", k)' \/ FiledAs("SEQ_CHAT", k)'))
        BY <1>2, <1>5, <1>t DEF Apart
    <2>. QED  BY <1>1, <1>t, <2>1, <2>2 DEF Apart
  <1>10. Somewhere'
      BY <1>2, <1>5, <1>t DEF Somewhere
  <1>11. InTurn'
    <2>1. ASSUME NEW i \in 1 .. Len(ToSend'), NEW j \in 1 .. Len(ToSend'), i < j
          PROVE  Follows(ToSend'[i].line, ToSend'[j].line)
      <3>1. i \in 1 .. Len(ToSend) /\ ToSend'[i] = ToSend[i]
        <4>1. i # Len(ToSend) + 1
            BY <1>4, <2>1
        <4>. QED  BY <1>4, <4>1
      <3>2. CASE j \in 1 .. Len(ToSend) /\ ToSend'[j] = ToSend[j]
          BY <1>t, <2>1, <3>1, <3>2 DEF InTurn
      <3>3. CASE ToSend'[j] = m
          BY <1>4, <1>g, <3>1, <3>3
      <3>. QED  BY <1>4, <3>2, <3>3
    <2>2. ASSUME NEW k \in Lines, FiledAs("CHAT", k)
          PROVE  Follows(l, k)
      <3>1. PICK i \in 1 .. Len(fairQMap[k.from]) : fairQMap[k.from][i] = Item("CHAT", k)
          BY <2>2 DEF FiledAs
      <3>2. fairQMap[k.from][i].type = "CHAT" /\ k.from \in Authors
          BY <3>1, Items
      <3>3. k.from = Self => ~InOrder(k)
          BY <1>t, <3>1, <3>2, Items DEF Queues
      <3>. QED  BY <1>2, <3>3 DEF Follows
    <2>3. ASSUME NEW j \in Lines, NEW k \in Lines
          PROVE  /\ Shown(j)' /\ (FiledAs("SEQ_CHAT", k)' \/ Sending(k)' \/ FiledAs("CHAT", k)') => Follows(j, k)
                 /\ FiledAs("SEQ_CHAT", j)' /\ (Sending(k)' \/ FiledAs("CHAT", k)') => Follows(j, k)
                 /\ Sending(j)' /\ FiledAs("CHAT", k)' => Follows(j, k)
        BY <1>2, <1>5, <1>t, <2>2 DEF InTurn
    <2>4. \A j, k : Follows(j, k)' <=> Follows(j, k)
        BY DEF Follows, InOrder
    <2>. QED  BY <1>1, <1>t, <2>1, <2>3, <2>4 DEF InTurn
  <1>12. OneUnnumbered'
      BY <1>1, <1>5, <1>t DEF OneUnnumbered, Unnumbered
  (* Behind all the others that wait. *)
  <1>w. OwnWait'
    <2> SUFFICES ASSUME asMember, ~served PROVE OwnWait'
        BY <1>1 DEF OwnWait
    <2>1. \A k \in Lines : k.from = Self => ~Shown(k)' /\ ~FiledAs("CHAT", k)' /\ ~FiledAs("SEQ_CHAT", k)'
        BY <1>5, <1>t DEF OwnWait
    <2>2. ASSUME NEW i \in 1 .. Len(ToSend'), NEW j \in 1 .. Len(ToSend'), i < j,
                 ToSend'[i].line.from = Self, ToSend'[j].line.from = Self
          PROVE  ToSend'[i].line.n < ToSend'[j].line.n
      <3>1. i \in 1 .. Len(ToSend) /\ ToSend'[i] = ToSend[i]
        <4>1. i # Len(ToSend) + 1
            BY <1>4, <2>2
        <4>. QED  BY <1>4, <4>1
      <3>2. CASE j \in 1 .. Len(ToSend) /\ ToSend'[j] = ToSend[j]
          BY <1>t, <2>2, <3>1, <3>2 DEF OwnWait
      <3>3. CASE ToSend'[j] = m
        <4>1. ToSend[i].line.n <= typed[Self] /\ ToSend[i].line.n \in Nat /\ typed[Self] \in Nat
            BY <1>f, <1>n, <1>t, <2>2, <3>1, SMTT(30) DEF Queues, TypeOK
        <4>2. m.line.n = typed[Self] + 1
            BY <1>2, <1>4
        <4>. QED  BY <3>1, <3>3, <4>1, <4>2
      <3>. QED  BY <1>4, <3>2, <3>3
    <2>. QED  BY <2>1, <2>2 DEF OwnWait
  <1>. QED  BY <1>6, <1>7, <1>8, <1>9, <1>10, <1>11, <1>w, <1>12 DEF IInv

(* A line of its own, or one it numbered, comes back to the sequencer.     *)
(* It is still the head of the sendQueue: it moves from there.             *)
LEMMA ReceiveOwnIInv ==
  ASSUME IInv, ReceiveOwn
  PROVE  IInv'
  <1>t. TypeOK /\ Queues /\ OwnCopy /\ Apart /\ Somewhere /\ InTurn /\ OwnWait /\ OneUnnumbered
      BY DEF IInv
  <1>1. PICK m \in ownCopy :
          /\ UNCHANGED <<checkLeader, holdbackQueue, held, bogusDue, processPc, ahead, typed,
                         asMember, sendQueue, ordered, printed>>
          /\ fairQMap' = [fairQMap EXCEPT ![m.line.from] = Append(@, m)]
          /\ ownCopy' = {} /\ served' = TRUE
      BY DEF ReceiveOwn, File, memberVars, processVars
  <1>s. ~served /\ ToSend = sendQueue /\ ToSend' = Tail(ToSend) /\ ToSend \in Seq(Filed)
    <2>1. ~served /\ ToSend = sendQueue /\ ToSend \in Seq(Filed)
        BY ToBeSent
    <2>. QED  BY <1>1, <2>1 DEF ToSend
  <1>2. /\ m \in Filed /\ ToSend # << >> /\ ToSend \in Seq(Filed)
        /\ fairQMap \in [Authors -> Seq(Filed)]
        /\ m.line = Head(ToSend).line
        /\ asMember => m = Head(ToSend)
        /\ ~asMember => m.type = "SEQ_CHAT" /\ m.line \in ToSet(ordered)
      BY <1>s, <1>t DEF TypeOK, OwnCopy
  <1>3. /\ ToSend' \in Seq(Filed)
        /\ \A k : Sending(k)' <=> Sending(k) /\ k # m.line
        /\ Len(ToSend) \in Nat /\ 1 \in 1 .. Len(ToSend)
        /\ Head(ToSend) = ToSend[1]
        /\ \A i \in 1 .. Len(ToSend') : /\ i + 1 \in 1 .. Len(ToSend)
                                           /\ ToSend'[i] = ToSend[i + 1]
    <2>1. \A i, j \in 1 .. Len(ToSend) : ToSend[i].line = ToSend[j].line => i = j
        BY <1>t, SMTT(30) DEF Apart
    <2>. QED  BY <1>s, <1>2, <2>1, SentTaken
  <1>4. /\ fairQMap' \in [Authors -> Seq(Filed)]
        /\ \A t : \A k \in Lines : FiledAs(t, k)' <=> FiledAs(t, k) \/ Item(t, k) = m
        /\ \A b \in Authors :
             /\ Len(fairQMap[b]) \in Nat
             /\ fairQMap[b] # << >> => fairQMap'[b] # << >>
             /\ \A i \in 1 .. Len(fairQMap'[b]) :
                  \/ i \in 1 .. Len(fairQMap[b]) /\ fairQMap'[b][i] = fairQMap[b][i]
                  \/ /\ b = m.line.from /\ i = Len(fairQMap[b]) + 1
                     /\ fairQMap'[b][i] = m
      BY <1>1, <1>2, FiledAtEnd
  <1>f. /\ \A i \in 1 .. Len(ToSend) : ToSend[i].line \in Lines /\ Sending(ToSend[i].line)
        /\ \A b \in Authors : \A i \in 1 .. Len(fairQMap[b]) :
             /\ fairQMap[b][i].line \in Lines /\ fairQMap[b][i].type \in {"CHAT", "SEQ_CHAT"}
             /\ FiledAs(fairQMap[b][i].type, fairQMap[b][i].line)
        /\ \A k \in Lines : Shown(k) \/ Sending(k) \/ FiledAs("CHAT", k) \/ FiledAs("SEQ_CHAT", k)
                              => k.n <= typed[k.from]
      BY Found
  <1>m. /\ m.line \in Lines /\ m.line.from \in Authors /\ m.type \in {"CHAT", "SEQ_CHAT"}
        /\ Sending(m.line) /\ m.line = ToSend[1].line
        /\ m.line.n <= typed[m.line.from]
      BY <1>2, <1>3, <1>f, Items
  (* One sent from the member branch is the first typed here. *)
  <1>c. ASSUME m.type = "CHAT" PROVE asMember /\ m.line.from = Self /\ ~InOrder(m.line)
    <2>1. asMember /\ m = ToSend[1]
        BY <1>2, <1>3, <1>c
    <2>2. ~Founded /\ m.line.from = Self
        BY <1>3, <1>c, <1>t, <2>1 DEF Queues
    <2>3. MaxTyped \in Nat /\ m.line.n \in 1 .. MaxTyped /\ m.line = [from |-> Self, n |-> m.line.n]
        BY <1>m, <2>2, Items, FairQueueAssumption
    <2>4. ASSUME m.line.n # 1 PROVE FALSE
      <3>1. PICK l \in Lines : l = [from |-> Self, n |-> 1] /\ l.from = Self /\ l.n = 1
        <4>1. [from |-> Self, n |-> 1] \in Lines
            BY <2>3, FairQueueAssumption DEF Lines
        <4>. QED  BY <4>1
      <3>2. l.n <= typed[l.from]
        <4>1. typed[Self] \in 0 .. MaxTyped
            BY <1>t, FairQueueAssumption DEF TypeOK
        <4>. QED  BY <1>m, <2>2, <2>3, <3>1, <4>1
      <3>3. Sending(l)
          BY <1>s, <1>t, <2>1, <3>1, <3>2 DEF OwnWait, Somewhere
      <3>4. PICK i \in 1 .. Len(ToSend) : ToSend[i].line = l
          BY <3>3 DEF Sending
      <3>5. i # 1 /\ 1 < i
          BY <1>3, <2>1, <2>4, <3>1, <3>4
      <3>6. ToSend[1].line.n < ToSend[i].line.n
          BY <1>3, <1>s, <1>t, <2>1, <2>2, <3>1, <3>4, <3>5 DEF OwnWait
      <3>. QED  BY <2>1, <2>3, <3>1, <3>4, <3>6
    <2>5. m.line = [from |-> Self, n |-> 1]
        BY <2>3, <2>4
    <2>. QED  BY <2>1, <2>2, <2>5 DEF InOrder
  <1>5. \A k \in Lines : /\ FiledAs("CHAT", k)' <=> FiledAs("CHAT", k) \/ (k = m.line /\ m.type = "CHAT")
                         /\ FiledAs("SEQ_CHAT", k)'
                              <=> FiledAs("SEQ_CHAT", k) \/ (k = m.line /\ m.type = "SEQ_CHAT")
                         /\ Shown(k)' <=> Shown(k)
                         /\ Sending(k)' <=> Sending(k) /\ k # m.line
    <2>1. ASSUME NEW k \in Lines, NEW t
          PROVE  Item(t, k) = m <=> k = m.line /\ m.type = t
      <3>1. m = Item(m.type, m.line)
          BY <1>2, Items
      <3>2. Item(t, k) = Item(m.type, m.line) <=> t = m.type /\ k = m.line
          BY Items
      <3>. QED  BY <3>1, <3>2
    <2>2. \A k : Shown(k)' <=> Shown(k)
        BY <1>1 DEF Shown
    <2>3. \A k \in Lines :
            /\ FiledAs("CHAT", k)' <=> FiledAs("CHAT", k) \/ Item("CHAT", k) = m
            /\ FiledAs("SEQ_CHAT", k)' <=> FiledAs("SEQ_CHAT", k) \/ Item("SEQ_CHAT", k) = m
        BY <1>4
    <2>. QED  BY <1>3, <2>1, <2>2, <2>3
  (* The line was being sent, so it was not filed and not shown. *)
  <1>g. \A b \in Authors : \A i \in 1 .. Len(fairQMap[b]) : fairQMap[b][i].line # m.line
    <2>1. ~FiledAs("CHAT", m.line) /\ ~FiledAs("SEQ_CHAT", m.line)
        BY <1>m, <1>t DEF Apart
    <2>. QED  BY <1>f, <2>1
  <1>6. TypeOK'
      BY <1>1, <1>3, <1>4, <1>t, SMTT(30) DEF TypeOK
  <1>7. Queues'
    <2>1. \A i \in 1 .. Len(ToSend') :
            /\ ToSend'[i].line.n <= typed[ToSend'[i].line.from]
            /\ ToSend'[i].type = "CHAT" => ToSend'[i].line.from = Self
        BY <1>3, <1>t DEF Queues
    <2>2. ASSUME NEW b \in Authors, NEW i \in 1 .. Len(fairQMap'[b])
          PROVE  /\ fairQMap'[b][i].line.from = b /\ fairQMap'[b][i].line.n <= typed[b]
                 /\ b = Self /\ fairQMap'[b][i].type = "CHAT" => ~InOrder(fairQMap'[b][i].line)
      <3>1. CASE i \in 1 .. Len(fairQMap[b]) /\ fairQMap'[b][i] = fairQMap[b][i]
          BY <1>t, <3>1 DEF Queues
      <3>2. CASE b = m.line.from /\ fairQMap'[b][i] = m
          BY <1>c, <1>m, <3>2
      <3>. QED  BY <1>4, <3>1, <3>2
    <2>3. \A b \in ahead : fairQMap'[b] # << >>
        BY <1>4, <1>t DEF Queues, TypeOK
    <2>. QED  BY <1>1, <1>2, <1>s, <1>t, <2>1, <2>2, <2>3, ZenonT(30) DEF Queues
  <1>8. OwnCopy'
      BY <1>1 DEF OwnCopy
  <1>9. Apart'
    <2>1. ASSUME NEW b \in Authors, NEW i \in 1 .. Len(fairQMap'[b]), NEW j \in 1 .. Len(fairQMap'[b]),
                 fairQMap'[b][i].line = fairQMap'[b][j].line
          PROVE  i = j
      <3>1. CASE i \in 1 .. Len(fairQMap[b]) /\ fairQMap'[b][i] = fairQMap[b][i]
        <4>1. fairQMap[b][i].line # m.line
            BY <1>g, <3>1
        <4>2. j \in 1 .. Len(fairQMap[b]) /\ fairQMap'[b][j] = fairQMap[b][j]
            BY <1>4, <2>1, <3>1, <4>1
        <4>. QED  BY <1>t, <2>1, <3>1, <4>2 DEF Apart
      <3>2. CASE i = Len(fairQMap[b]) + 1 /\ fairQMap'[b][i] = m
        <4>1. j = Len(fairQMap[b]) + 1
            BY <1>4, <1>g, <2>1, <3>2
        <4>. QED  BY <3>2, <4>1
      <3>. QED  BY <1>4, <3>1, <3>2
    <2>2. ASSUME NEW i \in 1 .. Len(ToSend'), NEW j \in 1 .. Len(ToSend'),
                 ToSend'[i].line = ToSend'[j].line
          PROVE  i = j
      <3>1. /\ i + 1 \in 1 .. Len(ToSend) /\ j + 1 \in 1 .. Len(ToSend)
            /\ ToSend[i + 1].line = ToSend[j + 1].line
          BY <1>3, <2>2
      <3>2. \A h, k \in 1 .. Len(ToSend) : ToSend[h].line = ToSend[k].line => h = k
          BY <1>t DEF Apart
      <3>3. i + 1 = j + 1
          BY <3>1, <3>2
      <3>. QED  BY <3>3
    <2>3. ASSUME NEW k \in Lines
          PROVE  /\ ~(Shown(k)' /\ Sending(k)')
                 /\ ~(Shown(k)' /\ (FiledAs("CHAT", k)' \/ FiledAs("SEQ_CHAT", k)'))
                 /\ ~(Sending(k)' /\ (FiledAs("CHAT", k)' \/ FiledAs("SEQ_CHAT", k)'))
        BY <1>5, <1>m, <1>t DEF Apart
    <2>. QED  BY <1>1, <1>t, <2>1, <2>2, <2>3 DEF Apart
  <1>10. Somewhere'
      BY <1>1, <1>5, <1>m, <1>t DEF Somewhere
  (* A line filed as CHAT is in no order; one filed as SEQ_CHAT comes after  *)
  (* those of its author that were filed so, and before the other ones.      *)
  <1>11. InTurn'
    <2>1. m.type = "CHAT" => \A k : Follows(k, m.line)
        BY <1>c DEF Follows
    <2>2. ASSUME NEW k \in Lines, FiledAs(m.type, k)
          PROVE  Follows(k, m.line)
      <3>1. CASE m.type = "CHAT"
          BY <2>1, <3>1
      <3>2. CASE m.type = "SEQ_CHAT"
          BY <1>m, <1>t, <2>2, <3>2 DEF InTurn
      <3>. QED  BY <1>m, <3>1, <3>2
    <2>3. ASSUME NEW b \in Authors, NEW i \in 1 .. Len(fairQMap'[b]), NEW j \in 1 .. Len(fairQMap'[b]),
                 fairQMap'[b][i].type = fairQMap'[b][j].type, i < j
          PROVE  Follows(fairQMap'[b][i].line, fairQMap'[b][j].line)
      <3>1. i \in 1 .. Len(fairQMap[b]) /\ fairQMap'[b][i] = fairQMap[b][i]
        <4>1. i # Len(fairQMap[b]) + 1
            BY <1>4, <2>3
        <4>. QED  BY <1>4, <4>1
      <3>2. CASE j \in 1 .. Len(fairQMap[b]) /\ fairQMap'[b][j] = fairQMap[b][j]
          BY <1>t, <2>3, <3>1, <3>2 DEF InTurn
      <3>3. CASE fairQMap'[b][j] = m
          BY <1>f, <2>2, <2>3, <3>1, <3>3
      <3>. QED  BY <1>4, <3>2, <3>3
    <2>4. ASSUME NEW i \in 1 .. Len(ToSend'), NEW j \in 1 .. Len(ToSend'), i < j
          PROVE  Follows(ToSend'[i].line, ToSend'[j].line)
      <3>1. i + 1 < j + 1
          BY <2>4
      <3>. QED  BY <1>3, <1>t, <3>1 DEF InTurn
    <2>5. ASSUME NEW k \in Lines, Sending(k)'
          PROVE  Follows(m.line, k)
      <3>1. PICK i \in 1 .. Len(ToSend') : ToSend'[i].line = k
          BY <2>5 DEF Sending
      <3>2. i + 1 \in 1 .. Len(ToSend) /\ ToSend[i + 1].line = k /\ 1 < i + 1
          BY <1>3, <3>1
      <3>. QED  BY <1>3, <1>m, <1>t, <3>2 DEF InTurn
    <2>6. \A k \in Lines : /\ Shown(k) => Follows(k, m.line)
                           /\ FiledAs("SEQ_CHAT", k) => Follows(k, m.line)
                           /\ FiledAs("CHAT", k) => Follows(m.line, k)
        BY <1>m, <1>t DEF InTurn
    <2>7. ASSUME NEW j \in Lines, NEW k \in Lines
          PROVE  /\ Shown(j)' /\ (FiledAs("SEQ_CHAT", k)' \/ Sending(k)' \/ FiledAs("CHAT", k)') => Follows(j, k)
                 /\ FiledAs("SEQ_CHAT", j)' /\ (Sending(k)' \/ FiledAs("CHAT", k)') => Follows(j, k)
                 /\ Sending(j)' /\ FiledAs("CHAT", k)' => Follows(j, k)
      <3>1. Shown(j)' /\ (FiledAs("SEQ_CHAT", k)' \/ Sending(k)' \/ FiledAs("CHAT", k)') => Follows(j, k)
          BY <1>5, <1>t, <2>6 DEF InTurn
      <3>2. FiledAs("SEQ_CHAT", j)' /\ (Sending(k)' \/ FiledAs("CHAT", k)') => Follows(j, k)
        <4>1. CASE FiledAs("SEQ_CHAT", j)
            BY <1>5, <1>t, <2>6, <4>1 DEF InTurn
        <4>2. CASE j = m.line /\ m.type = "SEQ_CHAT"
            BY <1>5, <2>5, <2>6, <4>2
        <4>. QED  BY <1>5, <4>1, <4>2
      <3>3. Sending(j)' /\ FiledAs("CHAT", k)' => Follows(j, k)
          BY <1>5, <1>t, <2>1 DEF InTurn
      <3>. QED  BY <3>1, <3>2, <3>3
    <2>8. \A j, k : Follows(j, k)' <=> Follows(j, k)
        BY DEF Follows, InOrder
    <2>. QED  BY <1>1, <1>t, <2>3, <2>4, <2>7, <2>8 DEF InTurn
  <1>12. OneUnnumbered'
    <2>1. ASSUME NEW k \in Lines, Unnumbered(k)'
          PROVE  Unnumbered(k) \/ (k = m.line /\ asMember)
        BY <1>1, <1>2, <1>5, <2>1 DEF Unnumbered
    <2>2. ASSUME NEW j \in Lines, NEW k \in Lines, Unnumbered(j)', Unnumbered(k)'
          PROVE  j = k
        BY <1>s, <1>t, <2>1, <2>2 DEF OneUnnumbered
    <2>. QED  BY <1>1, <2>2 DEF OneUnnumbered
  <1>w. OwnWait'
      BY <1>1 DEF OwnWait
  <1>. QED  BY <1>6, <1>7, <1>8, <1>9, <1>10, <1>11, <1>w, <1>12 DEF IInv

(* The sweep takes the head of a queue: to the screen, or to the sendQueue. *)
LEMMA SweepIInv ==
  ASSUME IInv, NEW a \in Authors, Sweep(a)
  PROVE  IInv'
  <1>t. TypeOK /\ Queues /\ OwnCopy /\ Apart /\ Somewhere /\ InTurn /\ OwnWait /\ OneUnnumbered
      BY DEF IInv
  <1>0. /\ a \in ahead /\ fairQMap[a] # << >>
        /\ fairQMap \in [Authors -> Seq(Filed)] /\ ToSend \in Seq(Filed) /\ printed \in Seq(Lines)
      BY <1>t, ToBeSent DEF Sweep, NextAhead, Queues, TypeOK
  <1>1. PICK h : /\ h = Head(fairQMap[a]) /\ Dispatch(h)
                 /\ UNCHANGED <<checkLeader, holdbackQueue, held, bogusDue, typed,
                                processPc, asMember, ownCopy, served, ordered>>
                 /\ fairQMap' = [fairQMap EXCEPT ![a] = Tail(@)]
                 /\ ahead' = ahead \ {a}
      BY DEF Sweep, memberVars
  <1>f. /\ \A i \in 1 .. Len(printed) : printed[i] \in Lines /\ Shown(printed[i])
        /\ \A i \in 1 .. Len(ToSend) : ToSend[i].line \in Lines /\ Sending(ToSend[i].line)
        /\ \A b \in Authors : \A i \in 1 .. Len(fairQMap[b]) :
             /\ fairQMap[b][i] \in Filed
             /\ fairQMap[b][i].line \in Lines /\ fairQMap[b][i].type \in {"CHAT", "SEQ_CHAT"}
             /\ fairQMap[b][i].line.from = b
             /\ FiledAs(fairQMap[b][i].type, fairQMap[b][i].line)
        /\ \A k \in Lines : Shown(k) \/ Sending(k) \/ FiledAs("CHAT", k) \/ FiledAs("SEQ_CHAT", k)
                              => k.n <= typed[k.from]
      BY Found
  <1>h. /\ h = fairQMap[a][1] /\ 1 \in 1 .. Len(fairQMap[a])
        /\ h \in Filed /\ h.line \in Lines /\ h.type \in {"CHAT", "SEQ_CHAT"}
        /\ h.line.from = a /\ FiledAs(h.type, h.line)
        /\ h.line.n <= typed[h.line.from]
    <2>1. fairQMap[a] \in Seq(Filed)
        BY <1>0
    <2>2. Head(fairQMap[a]) = fairQMap[a][1] /\ Len(fairQMap[a]) \in Nat \ {0}
        BY <1>0, <2>1, TailOf
    <2>3. 1 \in 1 .. Len(fairQMap[a])
        BY <2>2
    <2>. QED  BY <1>1, <1>f, <2>2, <2>3
  <1>2. \A i, j \in 1 .. Len(fairQMap[a]) : fairQMap[a][i].line = fairQMap[a][j].line => i = j
      BY <1>t DEF Apart
  <1>3. /\ fairQMap' \in [Authors -> Seq(Filed)]
        /\ \A t : \A l \in Lines : FiledAs(t, l)' <=> FiledAs(t, l) /\ Item(t, l) # h
        /\ \A b \in Authors \ {a} : fairQMap'[b] = fairQMap[b]
        /\ \A i \in 1 .. Len(fairQMap'[a]) : /\ i + 1 \in 1 .. Len(fairQMap[a])
                                             /\ fairQMap'[a][i] = fairQMap[a][i + 1]
    <2>1. /\ fairQMap' = [fairQMap EXCEPT ![a] = Tail(@)] /\ h = Head(fairQMap[a])
          /\ Head(fairQMap[a]).line.from = a
        BY <1>1, <1>h
    <2>2. /\ fairQMap' \in [Authors -> Seq(Filed)]
          /\ \A t : \A l \in Lines : FiledAs(t, l)' <=> FiledAs(t, l) /\ Item(t, l) # Head(fairQMap[a])
          /\ \A b \in Authors \ {a} : fairQMap'[b] = fairQMap[b]
          /\ \A i \in 1 .. Len(fairQMap'[a]) : /\ i + 1 \in 1 .. Len(fairQMap[a])
                                               /\ fairQMap'[a][i] = fairQMap[a][i + 1]
        BY <1>0, <1>2, <2>1, FiledTaken
    <2>. QED  BY <2>1, <2>2
  (* Its head is filed once only. *)
  <1>4. ASSUME NEW t, FiledAs(t, h.line) PROVE t = h.type
    <2>1. PICK i \in 1 .. Len(fairQMap[a]) : fairQMap[a][i] = Item(t, h.line)
        BY <1>4, <1>h DEF FiledAs
    <2>2. fairQMap[a][i].line = h.line /\ fairQMap[a][i].type = t
        BY <2>1, Items
    <2>3. i = 1
        BY <1>2, <1>h, <2>2
    <2>. QED  BY <1>h, <2>2, <2>3
  <1>5. ASSUME NEW t, NEW l \in Lines
        PROVE  FiledAs(t, l)' <=> FiledAs(t, l) /\ l # h.line
    <2>1. h = Item(h.type, h.line)
        BY <1>h, Items
    <2>2. Item(t, l) = Item(h.type, h.line) <=> t = h.type /\ l = h.line
        BY Items
    <2>. QED  BY <1>3, <1>4, <2>1, <2>2
  (* A place that remains in a queue is a later place of the same queue. *)
  <1>6. ASSUME NEW b \in Authors
        PROVE  \E d \in {0, 1} :
                 \A i \in 1 .. Len(fairQMap'[b]) : /\ i + d \in 1 .. Len(fairQMap[b])
                                                   /\ fairQMap'[b][i] = fairQMap[b][i + d]
    <2>1. CASE b = a
        BY <1>3, <2>1
    <2>2. CASE b # a
      <3>1. fairQMap'[b] = fairQMap[b] /\ \A i \in 1 .. Len(fairQMap[b]) : i + 0 = i
          BY <1>3, <2>2
      <3>. QED  BY <3>1
    <2>. QED  BY <2>1, <2>2
  <1>7. ASSUME NEW l \in Lines, FiledAs(h.type, l)'
        PROVE  Follows(h.line, l)
    <2>1. FiledAs(h.type, l) /\ l # h.line
        BY <1>5, <1>7
    <2>2. PICK i \in 1 .. Len(fairQMap[l.from]) : fairQMap[l.from][i] = Item(h.type, l)
        BY <2>1 DEF FiledAs
    <2>3. fairQMap[l.from][i].line = l /\ fairQMap[l.from][i].type = h.type /\ l.from \in Authors
        BY <2>2, Items
    <2>4. CASE l.from = a
      <3>1. i # 1 /\ 1 < i
          BY <1>h, <2>1, <2>3, <2>4
      <3>. QED  BY <1>h, <1>t, <2>3, <2>4, <3>1 DEF InTurn
    <2>5. CASE l.from # a
        BY <1>h, <2>5 DEF Follows
    <2>. QED  BY <2>4, <2>5
  <1>8. /\ \A b \in Authors : \A i \in 1 .. Len(fairQMap'[b]) :
             /\ fairQMap'[b][i].line.from = b /\ fairQMap'[b][i].line.n <= typed[b]
             /\ b = Self /\ fairQMap'[b][i].type = "CHAT" => ~InOrder(fairQMap'[b][i].line)
        /\ \A b \in ahead' : b \in Authors /\ fairQMap'[b] # << >>
        /\ ahead' \subseteq Authors
    <2>1. ASSUME NEW b \in Authors, NEW i \in 1 .. Len(fairQMap'[b])
          PROVE  \E j \in 1 .. Len(fairQMap[b]) : fairQMap'[b][i] = fairQMap[b][j]
        BY <1>6
    <2>2. \A b \in ahead' : b \in Authors /\ fairQMap'[b] # << >>
        BY <1>1, <1>3, <1>t DEF Queues, TypeOK
    <2>3. \A b \in Authors : \A i \in 1 .. Len(fairQMap[b]) :
             /\ fairQMap[b][i].line.from = b /\ fairQMap[b][i].line.n <= typed[b]
             /\ b = Self /\ fairQMap[b][i].type = "CHAT" => ~InOrder(fairQMap[b][i].line)
        BY <1>t DEF Queues
    <2>4. \A b \in Authors : \A i \in 1 .. Len(fairQMap'[b]) :
             /\ fairQMap'[b][i].line.from = b /\ fairQMap'[b][i].line.n <= typed[b]
             /\ b = Self /\ fairQMap'[b][i].type = "CHAT" => ~InOrder(fairQMap'[b][i].line)
        BY <2>1, <2>3, SMTT(30)
    <2>. QED  BY <2>2, <2>4
  <1>9. ASSUME NEW b \in Authors, NEW i \in 1 .. Len(fairQMap'[b]), NEW j \in 1 .. Len(fairQMap'[b])
        PROVE  /\ fairQMap'[b][i].line = fairQMap'[b][j].line => i = j
               /\ fairQMap'[b][i].type = fairQMap'[b][j].type /\ i < j =>
                    Follows(fairQMap'[b][i].line, fairQMap'[b][j].line)
    <2>1. PICK d \in {0, 1} : \A k \in 1 .. Len(fairQMap'[b]) :
                                /\ k + d \in 1 .. Len(fairQMap[b])
                                /\ fairQMap'[b][k] = fairQMap[b][k + d]
        BY <1>6
    <2>2. (i + d = j + d => i = j) /\ (i < j => i + d < j + d)
        OBVIOUS
    <2>3. fairQMap[b][i + d].line = fairQMap[b][j + d].line => i + d = j + d
        BY <1>t, <2>1 DEF Apart
    <2>4. fairQMap[b][i + d].type = fairQMap[b][j + d].type /\ i + d < j + d =>
            Follows(fairQMap[b][i + d].line, fairQMap[b][j + d].line)
        BY <1>t, <2>1 DEF InTurn
    <2>. QED  BY <2>1, <2>2, <2>3, <2>4
  <1>10. \A j, k : Follows(j, k)' <=> Follows(j, k)
      BY DEF Follows, InOrder
  <1>11. /\ \A k \in Lines : /\ Shown(k) /\ FiledAs(h.type, h.line) => Follows(k, h.line)
                             /\ h.type = "CHAT" /\ (FiledAs("SEQ_CHAT", k) \/ Sending(k))
                                  => Follows(k, h.line)
                             /\ h.type = "SEQ_CHAT" /\ (FiledAs("CHAT", k) \/ Sending(k))
                                  => Follows(h.line, k)
         /\ ~Shown(h.line) /\ ~Sending(h.line)
    <2>1. \A k \in Lines : /\ Shown(k) /\ FiledAs(h.type, h.line) => Follows(k, h.line)
                           /\ h.type = "CHAT" /\ (FiledAs("SEQ_CHAT", k) \/ Sending(k))
                                => Follows(k, h.line)
                           /\ h.type = "SEQ_CHAT" /\ (FiledAs("CHAT", k) \/ Sending(k))
                                => Follows(h.line, k)
        BY <1>h, <1>t DEF InTurn
    <2>2. FiledAs("CHAT", h.line) \/ FiledAs("SEQ_CHAT", h.line)
        BY <1>h
    <2>3. ~Shown(h.line) /\ ~Sending(h.line)
        BY <1>h, <1>t, <2>2 DEF Apart
    <2>. QED  BY <2>1, <2>3
  <1>12. CASE h.type = "SEQ_CHAT"
    <2>1. printed' = Append(printed, h.line) /\ sendQueue' = sendQueue /\ ToSend' = ToSend
        BY <1>1, <1>12 DEF Dispatch, ToSend
    <2>2. /\ printed' \in Seq(Lines) /\ Len(printed) \in Nat
          /\ \A l : Shown(l)' <=> Shown(l) \/ l = h.line
          /\ \A i \in 1 .. Len(printed') :
               \/ i \in 1 .. Len(printed) /\ printed'[i] = printed[i]
               \/ i = Len(printed) + 1 /\ printed'[i] = h.line
        BY <1>0, <1>h, <2>1, ShownAtEnd
    <2>3. \A l : Sending(l)' <=> Sending(l)
        BY <2>1 DEF Sending
    <2>4. \A l \in Lines : /\ FiledAs("CHAT", l)' <=> FiledAs("CHAT", l) /\ l # h.line
                           /\ FiledAs("SEQ_CHAT", l)' <=> FiledAs("SEQ_CHAT", l) /\ l # h.line
        BY <1>5
    <2>5. FiledAs("SEQ_CHAT", h.line) /\ ~FiledAs("CHAT", h.line)
        BY <1>4, <1>12, <1>h
    <2>6. TypeOK'
        BY <1>1, <1>3, <1>8, <1>t, <2>1, <2>2 DEF TypeOK
    <2>7. Queues'
      <3>1. \A i \in 1 .. Len(printed') : printed'[i].n <= typed[printed'[i].from]
          BY <1>h, <1>t, <2>2 DEF Queues
      <3>. QED  BY <1>1, <1>8, <1>t, <2>1, <3>1 DEF Queues
    <2>8. OwnCopy'
        BY <1>1, <1>t, <2>1 DEF OwnCopy
    <2>9. Apart'
      <3>1. ASSUME NEW i \in 1 .. Len(printed'), NEW j \in 1 .. Len(printed'), printed'[i] = printed'[j]
            PROVE  i = j
        <4>1. \A k \in 1 .. Len(printed) : printed[k] # h.line
            BY <1>11, <1>f
        <4>2. CASE i \in 1 .. Len(printed) /\ j \in 1 .. Len(printed)
            BY <1>t, <2>2, <3>1, <4>2 DEF Apart
        <4>3. CASE i = Len(printed) + 1 /\ j = Len(printed) + 1
            BY <4>3
        <4>. QED  BY <2>2, <3>1, <4>1, <4>2, <4>3
      <3>2. ASSUME NEW k \in Lines
            PROVE  /\ ~(Shown(k)' /\ Sending(k)')
                   /\ ~(Shown(k)' /\ (FiledAs("CHAT", k)' \/ FiledAs("SEQ_CHAT", k)'))
                   /\ ~(Sending(k)' /\ (FiledAs("CHAT", k)' \/ FiledAs("SEQ_CHAT", k)'))
          BY <1>11, <1>t, <2>2, <2>3, <2>4 DEF Apart
      <3>. QED  BY <1>9, <1>t, <2>1, <3>1, <3>2 DEF Apart
    <2>10. Somewhere'
        BY <1>1, <1>t, <2>2, <2>3, <2>4 DEF Somewhere
    <2>11. InTurn'
      <3>1. ASSUME NEW i \in 1 .. Len(printed'), NEW j \in 1 .. Len(printed'), i < j
            PROVE  Follows(printed'[i], printed'[j])
        <4>1. i \in 1 .. Len(printed) /\ printed'[i] = printed[i]
          <5>1. i # Len(printed) + 1
              BY <2>2, <3>1
          <5>. QED  BY <2>2, <5>1
        <4>2. CASE j \in 1 .. Len(printed) /\ printed'[j] = printed[j]
            BY <1>t, <3>1, <4>1, <4>2 DEF InTurn
        <4>3. CASE printed'[j] = h.line
            BY <1>11, <1>f, <1>h, <4>1, <4>3
        <4>. QED  BY <2>2, <4>2, <4>3
      <3>2. ASSUME NEW j \in Lines, NEW k \in Lines
            PROVE  /\ Shown(j)' /\ (FiledAs("SEQ_CHAT", k)' \/ Sending(k)' \/ FiledAs("CHAT", k)') => Follows(j, k)
                   /\ FiledAs("SEQ_CHAT", j)' /\ (Sending(k)' \/ FiledAs("CHAT", k)') => Follows(j, k)
                   /\ Sending(j)' /\ FiledAs("CHAT", k)' => Follows(j, k)
        <4>1. FiledAs("SEQ_CHAT", k)' => Follows(h.line, k)
            BY <1>7, <1>12
        <4>2. Shown(j)' /\ (FiledAs("SEQ_CHAT", k)' \/ Sending(k)' \/ FiledAs("CHAT", k)') => Follows(j, k)
          <5>1. CASE Shown(j)
              BY <1>t, <2>3, <2>4, <5>1 DEF InTurn
          <5>2. CASE j = h.line
              BY <1>11, <1>12, <2>3, <2>4, <4>1, <5>2
          <5>. QED  BY <2>2, <5>1, <5>2
        <4>3. /\ FiledAs("SEQ_CHAT", j)' /\ (Sending(k)' \/ FiledAs("CHAT", k)') => Follows(j, k)
              /\ Sending(j)' /\ FiledAs("CHAT", k)' => Follows(j, k)
            BY <1>t, <2>3, <2>4 DEF InTurn
        <4>. QED  BY <4>2, <4>3
      <3>. QED  BY <1>9, <1>10, <1>t, <2>1, <3>1, <3>2 DEF InTurn
    <2>12. OneUnnumbered'
      <3>1. \A k \in Lines : Unnumbered(k)' => Unnumbered(k)
          BY <1>1, <2>2, <2>4, <2>5 DEF Unnumbered
      <3>. QED  BY <1>1, <1>t, <3>1 DEF OneUnnumbered
    <2>w. OwnWait'
      <3>1. asMember /\ ~served => h.line.from # Self
          BY <1>h, <1>t DEF OwnWait
      <3>2. \A k \in Lines : Shown(k)' => Shown(k) \/ k = h.line
          BY <2>2
      <3>. QED  BY <1>1, <1>t, <2>1, <2>4, <3>1, <3>2 DEF OwnWait
    <2>. QED  BY <2>6, <2>7, <2>8, <2>9, <2>10, <2>11, <2>w, <2>12 DEF IInv
  <1>13. CASE h.type = "CHAT"
    <2>1. printed' = printed /\ sendQueue' = Append(sendQueue, Item("SEQ_CHAT", h.line))
        BY <1>1, <1>13 DEF Dispatch
    <2>m. PICK m \in Filed : m = Item("SEQ_CHAT", h.line) /\ m.line = h.line /\ m.type = "SEQ_CHAT"
        BY <1>h, Items
    <2>2. /\ sendQueue' \in Seq(Filed) /\ sendQueue' # << >>
          /\ ToSend' \in Seq(Filed) /\ ToSend' # << >> /\ Len(ToSend) \in Nat
          /\ \A l : Sending(l)' <=> Sending(l) \/ l = m.line
          /\ \A i \in 1 .. Len(ToSend') :
               \/ i \in 1 .. Len(ToSend) /\ ToSend'[i] = ToSend[i]
               \/ i = Len(ToSend) + 1 /\ ToSend'[i] = m
          /\ ToSend # << >> => Head(ToSend') = Head(ToSend)
      <3>1. sendQueue' \in Seq(Filed) /\ sendQueue' # << >> /\ ToSend' = Append(ToSend, m)
          BY <1>1, <2>1, <2>m, Pushed
      <3>. QED  BY <1>0, <3>1, SentAtEnd
    <2>3. \A l : Shown(l)' <=> Shown(l)
        BY <2>1 DEF Shown
    <2>4. \A l \in Lines : /\ FiledAs("CHAT", l)' <=> FiledAs("CHAT", l) /\ l # h.line
                           /\ FiledAs("SEQ_CHAT", l)' <=> FiledAs("SEQ_CHAT", l) /\ l # h.line
                           /\ Sending(l)' <=> Sending(l) \/ l = h.line
        BY <1>5, <2>2, <2>m
    <2>6. TypeOK'
        BY <1>1, <1>3, <1>8, <1>t, <2>1, <2>2 DEF TypeOK
    <2>7. Queues'
      <3>1. \A i \in 1 .. Len(ToSend') :
              /\ ToSend'[i].line.n <= typed[ToSend'[i].line.from]
              /\ ToSend'[i].type = "CHAT" => ToSend'[i].line.from = Self
          BY <1>h, <1>t, <2>2, <2>m, SMTT(30) DEF Queues
      <3>. QED  BY <1>1, <1>8, <1>t, <2>1, <2>2, <3>1 DEF Queues
    <2>8. OwnCopy'
        BY <1>1, <1>t, <2>2 DEF OwnCopy
    <2>9. Apart'
      <3>1. ASSUME NEW i \in 1 .. Len(ToSend'), NEW j \in 1 .. Len(ToSend'),
                   ToSend'[i].line = ToSend'[j].line
            PROVE  i = j
        <4>1. \A k \in 1 .. Len(ToSend) : ToSend[k].line # m.line
            BY <1>11, <1>f, <2>m
        <4>2. CASE i \in 1 .. Len(ToSend) /\ j \in 1 .. Len(ToSend)
            BY <1>t, <2>2, <3>1, <4>2 DEF Apart
        <4>3. CASE i = Len(ToSend) + 1 /\ j = Len(ToSend) + 1
            BY <4>3
        <4>. QED  BY <2>2, <3>1, <4>1, <4>2, <4>3
      <3>2. ASSUME NEW k \in Lines
            PROVE  /\ ~(Shown(k)' /\ Sending(k)')
                   /\ ~(Shown(k)' /\ (FiledAs("CHAT", k)' \/ FiledAs("SEQ_CHAT", k)'))
                   /\ ~(Sending(k)' /\ (FiledAs("CHAT", k)' \/ FiledAs("SEQ_CHAT", k)'))
          BY <1>11, <1>t, <2>3, <2>4 DEF Apart
      <3>. QED  BY <1>9, <1>t, <2>1, <3>1, <3>2 DEF Apart
    <2>10. Somewhere'
        BY <1>1, <1>t, <2>3, <2>4 DEF Somewhere
    <2>11. InTurn'
      <3>1. ASSUME NEW i \in 1 .. Len(ToSend'), NEW j \in 1 .. Len(ToSend'), i < j
            PROVE  Follows(ToSend'[i].line, ToSend'[j].line)
        <4>1. i \in 1 .. Len(ToSend) /\ ToSend'[i] = ToSend[i]
          <5>1. i # Len(ToSend) + 1
              BY <2>2, <3>1
          <5>. QED  BY <2>2, <5>1
        <4>2. CASE j \in 1 .. Len(ToSend) /\ ToSend'[j] = ToSend[j]
            BY <1>t, <3>1, <4>1, <4>2 DEF InTurn
        <4>3. CASE ToSend'[j] = m
            BY <1>11, <1>13, <1>f, <2>m, <4>1, <4>3
        <4>. QED  BY <2>2, <4>2, <4>3
      <3>2. ASSUME NEW j \in Lines, NEW k \in Lines
            PROVE  /\ Shown(j)' /\ (FiledAs("SEQ_CHAT", k)' \/ Sending(k)' \/ FiledAs("CHAT", k)') => Follows(j, k)
                   /\ FiledAs("SEQ_CHAT", j)' /\ (Sending(k)' \/ FiledAs("CHAT", k)') => Follows(j, k)
                   /\ Sending(j)' /\ FiledAs("CHAT", k)' => Follows(j, k)
        <4>1. FiledAs("CHAT", k)' => Follows(h.line, k)
            BY <1>7, <1>13
        <4>2. Shown(j)' /\ (FiledAs("SEQ_CHAT", k)' \/ Sending(k)' \/ FiledAs("CHAT", k)') => Follows(j, k)
            BY <1>11, <1>h, <1>t, <2>3, <2>4 DEF InTurn
        <4>3. FiledAs("SEQ_CHAT", j)' /\ (Sending(k)' \/ FiledAs("CHAT", k)') => Follows(j, k)
            BY <1>11, <1>13, <1>t, <2>4 DEF InTurn
        <4>4. Sending(j)' /\ FiledAs("CHAT", k)' => Follows(j, k)
            BY <1>t, <2>4, <4>1 DEF InTurn
        <4>. QED  BY <4>2, <4>3, <4>4
      <3>. QED  BY <1>9, <1>10, <1>t, <2>1, <3>1, <3>2 DEF InTurn
    <2>12. OneUnnumbered'
      <3>1. \A k \in Lines : Unnumbered(k)' => Unnumbered(k)
          BY <1>1, <2>3, <2>4 DEF Unnumbered
      <3>. QED  BY <1>1, <1>t, <3>1 DEF OneUnnumbered
    <2>w. OwnWait'
      <3>1. asMember /\ ~served => m.line.from # Self
          BY <1>h, <1>t, <2>m DEF OwnWait
      <3>2. \A k \in Lines : Shown(k)' => Shown(k)
          BY <2>3
      <3>. QED  BY <1>1, <1>t, <2>2, <2>4, <3>1, <3>2 DEF OwnWait
    <2>. QED  BY <2>6, <2>7, <2>8, <2>9, <2>10, <2>11, <2>w, <2>12 DEF IInv
  <1>. QED  BY <1>12, <1>13, <1>h

LEMMA NextIInv == IInv /\ [Next]_vars => IInv'
  <1> SUFFICES ASSUME IInv, [Next]_vars PROVE IInv'
      OBVIOUS
  <1>1. CASE ReceiveHeld \/ BeginSweep \/ EndSweep \/ TestMember \/ ProcessHeld \/ TakeOver \/ PushBogus \/ UNCHANGED vars
      BY <1>1, LocalSteps
  <1>2. CASE ReceiveOwn
      BY <1>2, ReceiveOwnIInv
  <1>3. CASE TypeOwn
      BY <1>3, TypeOwnIInv
  <1>4. CASE SendFront
      BY <1>4, SendFrontIInv
  <1>7. CASE SendDone
      BY <1>7, SendDoneIInv
  <1>5. ASSUME NEW a \in Authors, ReceiveChat(a) PROVE IInv'
      BY <1>5, ReceiveChatIInv
  <1>6. ASSUME NEW a \in Authors, Sweep(a) PROVE IInv'
      BY <1>6, SweepIInv
  <1>. QED  BY <1>1, <1>2, <1>3, <1>4, <1>5, <1>6, <1>7 DEF Next, ProcessMessage, HeartbeatReceive

-----------------------------------------------------------------------------
(* The properties follow. *)
LEMMA AuthorOrderHolds == IInv => AuthorOrder
  <1> SUFFICES ASSUME IInv, NEW i \in 1 .. Len(printed), InOrder(printed[i])
               PROVE  /\ \A j \in 1 .. i - 1 :
                           printed[j].from = printed[i].from /\ InOrder(printed[j]) =>
                             printed[j].n < printed[i].n
                      /\ \A l \in Lines :
                           l.from = printed[i].from /\ l.n < printed[i].n /\ InOrder(l) =>
                             \E j \in 1 .. i - 1 : printed[j] = l
      BY DEF AuthorOrder
  <1>1. TypeOK /\ Queues /\ Apart /\ Somewhere /\ InTurn
      BY DEF IInv
  <1>2. /\ printed \in Seq(Lines) /\ Len(printed) \in Nat
        /\ printed[i] \in Lines /\ Shown(printed[i])
        /\ typed \in [Authors -> 0 .. MaxTyped] /\ MaxTyped \in Nat
      BY <1>1, FairQueueAssumption DEF TypeOK, Shown
  <1>3. ASSUME NEW j \in 1 .. i - 1, printed[j].from = printed[i].from, InOrder(printed[j])
        PROVE  printed[j].n < printed[i].n
    <2>1. j \in 1 .. Len(printed) /\ j < i
        BY <1>2
    <2>. QED  BY <1>1, <1>3, <2>1 DEF InTurn, Follows
  <1>4. ASSUME NEW l \in Lines, l.from = printed[i].from, l.n < printed[i].n, InOrder(l)
        PROVE  \E j \in 1 .. i - 1 : printed[j] = l
    <2>1. printed[i].from \in Authors /\ printed[i].n \in 1 .. MaxTyped /\ l.n \in 1 .. MaxTyped
        BY <1>2, Items
    <2>2. ~(printed[i].n < l.n) /\ l.n <= typed[l.from]
        BY <1>1, <1>2, <1>4, <2>1 DEF Queues
    <2>4. ~Follows(printed[i], l)
        BY <1>4, <2>2 DEF Follows
    <2>5. Shown(l) \/ Sending(l) \/ FiledAs("CHAT", l) \/ FiledAs("SEQ_CHAT", l)
        BY <1>1, <2>2 DEF Somewhere
    <2>6. Shown(l)
        BY <1>1, <1>2, <2>4, <2>5 DEF InTurn
    <2>7. PICK j \in 1 .. Len(printed) : printed[j] = l
        BY <2>6 DEF Shown
    <2>8. ~(i < j) /\ j # i
        BY <1>1, <1>4, <2>1, <2>4, <2>7 DEF InTurn
    <2>9. j \in 1 .. i - 1
        BY <1>2, <2>8
    <2>. QED  BY <2>7, <2>9
  <1>. QED  BY <1>3, <1>4

LEMMA OneLineHolds == IInv => KeepsOneLine
  <1> SUFFICES ASSUME IInv, NEW i \in 1 .. Len(printed), NEW j \in 1 .. Len(printed),
                      printed[i] \notin ToSet(ordered), printed[j] \notin ToSet(ordered)
               PROVE  i = j
      BY DEF KeepsOneLine
  <1>1. /\ printed[i] \in Lines /\ Shown(printed[i])
        /\ printed[j] \in Lines /\ Shown(printed[j])
      BY DEF IInv, TypeOK, Shown
  <1>2. printed[i] = printed[j]
      BY <1>1 DEF IInv, OneUnnumbered, Unnumbered
  <1>. QED  BY <1>2 DEF IInv, Apart

LEMMA InOnePlaceHolds == IInv => InOnePlace
  <1> SUFFICES ASSUME IInv, NEW a \in Authors, NEW n \in 1 .. typed[a],
                      NEW l, l = [from |-> a, n |-> n]
               PROVE  \E place \in Places(l) : Places(l) = {place}
      BY DEF InOnePlace, IInv
  <1>1. TypeOK /\ Apart /\ Somewhere
      BY DEF IInv
  <1>2. l \in Lines /\ l.from = a /\ l.n <= typed[l.from]
    <2>1. typed[a] \in 0 .. MaxTyped /\ MaxTyped \in Nat
        BY <1>1, FairQueueAssumption DEF TypeOK
    <2>2. n \in 1 .. MaxTyped /\ l.from = a /\ l.n = n /\ n <= typed[a]
        BY <2>1
    <2>. QED  BY <2>2 DEF Lines
  <1>3. ASSUME NEW p \in Places(l), NEW q \in Places(l) PROVE p = q
    <2> DEFINE filed == FiledAs("CHAT", l) \/ FiledAs("SEQ_CHAT", l)
    <2>1. /\ \A i, j \in 1 .. Len(printed) : printed[i] = printed[j] => i = j
          /\ \A i, j \in 1 .. Len(ToSend) : ToSend[i].line = ToSend[j].line => i = j
          /\ \A i, j \in 1 .. Len(fairQMap[a]) : fairQMap[a][i].line = fairQMap[a][j].line => i = j
          /\ ~(Shown(l) /\ Sending(l)) /\ ~(Shown(l) /\ filed) /\ ~(Sending(l) /\ filed)
        BY <1>1, <1>2 DEF Apart
    <2>2. ASSUME NEW i \in 1 .. Len(fairQMap[a]), fairQMap[a][i].line = l PROVE filed
        BY <1>2, <2>2, Found
    <2> HIDE DEF filed
    <2>3. ASSUME NEW r \in Places(l)
          PROVE  \/ /\ Shown(l)
                    /\ \E i \in 1 .. Len(printed) : r = <<"shown", i>> /\ printed[i] = l
                 \/ /\ Sending(l)
                    /\ \E i \in 1 .. Len(ToSend) : r = <<"sending", i>> /\ ToSend[i].line = l
                 \/ /\ filed
                    /\ \E i \in 1 .. Len(fairQMap[a]) : r = <<"filed", i>> /\ fairQMap[a][i].line = l
        BY <1>2, <2>2 DEF Places, Shown, Sending
    <2>4. CASE Shown(l)
        BY <2>1, <2>3, <2>4
    <2>5. CASE Sending(l)
        BY <2>1, <2>3, <2>5
    <2>6. CASE filed
        BY <2>1, <2>3, <2>6
    <2>. QED  BY <2>3, <2>4, <2>5, <2>6
  <1>4. \E p : p \in Places(l)
    <2>1. Shown(l) \/ Sending(l) \/ FiledAs("CHAT", l) \/ FiledAs("SEQ_CHAT", l)
        BY <1>1, <1>2 DEF Somewhere
    <2>2. CASE Shown(l)
      <3>1. PICK i \in 1 .. Len(printed) : printed[i] = l
          BY <2>2 DEF Shown
      <3>2. <<"shown", i>> \in Places(l)
          BY <3>1 DEF Places
      <3>. QED  BY <3>2
    <2>3. CASE Sending(l)
      <3>1. PICK i \in 1 .. Len(ToSend) : ToSend[i].line = l
          BY <2>3 DEF Sending
      <3>2. <<"sending", i>> \in Places(l)
          BY <3>1 DEF Places
      <3>. QED  BY <3>2
    <2>4. ASSUME NEW t, FiledAs(t, l) PROVE \E p : p \in Places(l)
      <3>1. PICK i \in 1 .. Len(fairQMap[l.from]) : fairQMap[l.from][i] = Item(t, l)
          BY <2>4 DEF FiledAs
      <3>2. fairQMap[l.from][i].line = l
          BY <3>1, Items
      <3>3. <<"filed", i>> \in Places(l)
          BY <3>2 DEF Places
      <3>. QED  BY <3>3
    <2>. QED  BY <2>1, <2>2, <2>3, <2>4
  <1>5. PICK p : p \in Places(l)
      BY <1>4
  <1>6. Places(l) = {p}
      BY <1>3, <1>5
  <1>. QED  BY <1>5, <1>6

-----------------------------------------------------------------------------
(***************************************************************************)
(* The sequencer's lines stay in their queues, apart and in turn           *)
(* (receiveMessage, sendMessage, processMessage of dchat_fairQ.cpp).       *)
(***************************************************************************)
THEOREM IInvCorrect == Spec => []IInv
  <1>. QED  BY InitIInv, NextIInv, PTL DEF Spec

(***************************************************************************)
(* Every line that reached the sequencer is in exactly one place, and      *)
(* every variable has its type.                                            *)
(***************************************************************************)
THEOREM OnePlaceCorrect == Spec => []InOnePlace
  <1>. QED  BY IInvCorrect, InOnePlaceHolds, PTL

(***************************************************************************)
(* The sequencer shows the lines of each author in the order in which they *)
(* were typed, with none left out, but for the first typed at a process    *)
(* that took over.                                                         *)
(***************************************************************************)
THEOREM AuthorOrderCorrect == Spec => []AuthorOrder
  <1>. QED  BY IInvCorrect, AuthorOrderHolds, PTL

(***************************************************************************)
(* A new sequencer shows one line at most that it gave no number.          *)
(***************************************************************************)
THEOREM OneLineCorrect == Spec => []KeepsOneLine
  <1>. QED  BY IInvCorrect, OneLineHolds, PTL
=============================================================================
