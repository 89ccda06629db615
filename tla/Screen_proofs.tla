---------------------------- MODULE Screen_proofs ----------------------------
(***************************************************************************)
(* The screen queue.  PrintQueue first: the chat lines reach the screen in *)
(* order, whatever the number of lines and notices.  IInv is inductive;    *)
(* ChatsInOrder is a part of it.  Then Screen: what printMessage writes    *)
(* does not change how the queue goes, so that Screen implements           *)
(* PrintQueue and what is proved of that holds here.  And what encrypt     *)
(* does to a text, decrypt undoes.                                         *)
(***************************************************************************)
EXTENDS Screen, TLAPS

(* The three ways in which the threads change a queue. *)
LEMMA AppendItem ==
  ASSUME NEW q \in Seq(Items), NEW e \in Items
  PROVE  /\ Append(q, e) \in Seq(Items)
         /\ Len(Append(q, e)) = Len(q) + 1
         /\ Append(q, e)[Len(q) + 1] = e
         /\ \A i \in 1 .. Len(q) : Append(q, e)[i] = q[i]
  OBVIOUS

LEMMA PrependItem ==
  ASSUME NEW q \in Seq(Items), NEW e \in Items
  PROVE  /\ <<e>> \o q \in Seq(Items)
         /\ Len(<<e>> \o q) = Len(q) + 1
         /\ (<<e>> \o q)[1] = e
         /\ Head(<<e>> \o q) = e
         /\ <<e>> \o q # << >>
         /\ \A i \in 2 .. Len(q) + 1 : (<<e>> \o q)[i] = q[i - 1]
  OBVIOUS

LEMMA TakeItem ==
  ASSUME NEW q \in Seq(Items), q # << >>
  PROVE  /\ Tail(q) \in Seq(Items)
         /\ Len(q) \in Nat \ {0}
         /\ Len(Tail(q)) = Len(q) - 1
         /\ Head(q) = q[1]
         /\ q[1] \in Items
         /\ \A i \in 1 .. Len(q) - 1 : Tail(q)[i] = q[i + 1]
  OBVIOUS

LEMMA ItemAt ==
  ASSUME NEW q \in Seq(Items), NEW i \in 1 .. Len(q)
  PROVE  /\ q[i] \in Items
         /\ q[i].kind = "chat" \/ q[i].kind = "notice"
         /\ q[i].n \in Nat \ {0}
         /\ q[i].kind = "chat" => q[i] = Chat(q[i].n)
  <1>1. q[i] \in Items
      OBVIOUS
  <1> DEFINE e == q[i]
  <1>2. e \in Items
      BY <1>1
  <1> HIDE DEF e
  <1>3. e.kind \in Kinds /\ e.n \in Nat \ {0} /\ e = [kind |-> e.kind, n |-> e.n]
      BY <1>2 DEF Items
  <1>4. e.kind = "chat" => e = Chat(e.n)
      BY <1>3 DEF Chat
  <1>. QED  BY <1>1, <1>3, <1>4 DEF e, Kinds

LEMMA InitIInv == Init => IInv
  <1> SUFFICES ASSUME Init PROVE IInv
      OBVIOUS
  <1>1. TypeOK
    <2>1. NoItem \in Items
        BY DEF NoItem, Items, Kinds
    <2>2. queue \in Seq(Items) /\ shown \in Seq(Items)
        BY DEF Init
    <2>. QED  BY <2>1, <2>2 DEF Init, TypeOK
  <1>2. Len(queue) = 0 /\ Len(shown) = 0 /\ pushed["chat"] = 0
      BY DEF Init, Kinds
  <1>3. QueueAscends /\ ScreenOlder /\ NoneLost /\ ChatsInOrder
      BY <1>2 DEF QueueAscends, ScreenOlder, NoneLost, ChatsInOrder
  <1>4. PrintingOldest /\ PopTakesWhatIsPrinted /\ NoLostWakeup
      BY DEF Init, PrintingOldest, PopTakesWhatIsPrinted, NoLostWakeup
  <1>. QED  BY <1>1, <1>3, <1>4 DEF IInv

-----------------------------------------------------------------------------
LEMMA PushStep == IInv /\ Push => IInv'
  <1> SUFFICES ASSUME IInv, Push PROVE IInv'
      OBVIOUS
  <1> DEFINE c == Chat(pushed["chat"] + 1)
  <1>1. TypeOK
      BY DEF IInv
  <1>2. /\ pushed["chat"] \in Nat
        /\ pushed'["chat"] = pushed["chat"] + 1
        /\ pushed' \in [Kinds -> Nat]
      BY <1>1 DEF Push, Pushing, TypeOK, Kinds
  <1>3. c \in Items /\ c.kind = "chat" /\ c.n = pushed["chat"] + 1
      BY <1>2 DEF Chat, Items, Kinds
  <1>4. queue \in Seq(Items) /\ queue' = Append(queue, c)
      BY <1>1 DEF Push, TypeOK
  <1>5. /\ queue' \in Seq(Items)
        /\ Len(queue') = Len(queue) + 1
        /\ queue'[Len(queue) + 1] = c
        /\ \A i \in 1 .. Len(queue) : queue'[i] = queue[i]
      <2> HIDE DEF c
      <2>. QED  BY <1>3, <1>4, AppendItem
  <1>6. /\ UNCHANGED <<pc, asleep, printMsg, shown>>
        /\ notifying' = [notifying EXCEPT !["chat"] = TRUE]
      BY DEF Push, Pushing
  <1>7. Len(queue) \in Nat
      BY <1>4
  <1> HIDE DEF c
  <1>8. TypeOK'
      BY <1>1, <1>2, <1>5, <1>6 DEF TypeOK, Kinds
  <1>9. QueueAscends'
      BY <1>2, <1>3, <1>4, <1>5, <1>7, ItemAt DEF IInv, QueueAscends
  <1>10. ScreenOlder'
      <2> SUFFICES ASSUME NEW i \in 1 .. Len(shown), shown[i].kind = "chat"
                   PROVE  /\ shown[i].n <= pushed["chat"] + 1
                          /\ \A j \in 1 .. Len(queue') :
                               queue'[j].kind = "chat" => shown[i].n <= queue'[j].n
          BY <1>2, <1>6 DEF ScreenOlder
      <2>1. shown[i].n \in Nat
          BY <1>1, ItemAt DEF TypeOK
      <2>2. /\ shown[i].n <= pushed["chat"]
            /\ \A j \in 1 .. Len(queue) :
                 queue[j].kind = "chat" => shown[i].n <= queue[j].n
          BY DEF IInv, ScreenOlder
      <2>3. shown[i].n <= pushed["chat"] + 1
          BY <1>2, <2>1, <2>2
      <2>4. ASSUME NEW j \in 1 .. Len(queue'), queue'[j].kind = "chat"
            PROVE  shown[i].n <= queue'[j].n
          BY <1>3, <1>5, <1>7, <2>2, <2>3, <2>4
      <2>. QED  BY <2>3, <2>4
  <1>11. \A d \in Items : InQueue(d) => InQueue(d)'
      BY <1>5, <1>7 DEF InQueue
  <1>12. PrintingOldest'
      <2> SUFFICES ASSUME pc = "pop", printMsg.kind = "chat"
                   PROVE  /\ InQueue(printMsg)'
                          /\ \A i \in 1 .. Len(queue') :
                               queue'[i].kind = "chat" => printMsg.n <= queue'[i].n
          BY <1>6 DEF PrintingOldest, InQueue
      <2>1. printMsg \in Items /\ printMsg.n \in Nat
          BY <1>1 DEF TypeOK, Items
      <2>2. PICK k \in 1 .. Len(queue) : queue[k] = printMsg
          BY DEF IInv, PrintingOldest, InQueue
      <2>3. printMsg.n <= pushed["chat"]
          BY <2>2 DEF IInv, QueueAscends
      <2>4. InQueue(printMsg)'
          BY <1>6, <2>1, <2>2, <1>5, <1>7 DEF InQueue
      <2>5. \A i \in 1 .. Len(queue') : queue'[i].kind = "chat" => printMsg.n <= queue'[i].n
          BY <2>1, <2>3, <1>2, <1>3, <1>5, <1>7 DEF IInv, PrintingOldest
      <2>. QED  BY <2>4, <2>5
  <1>13. NoneLost'
      <2> SUFFICES ASSUME NEW n \in 1 .. pushed["chat"] + 1
                   PROVE  InQueue(Chat(n))' \/ OnScreen(Chat(n))'
          BY <1>2 DEF NoneLost
      <2>1. CASE n = pushed["chat"] + 1
          BY <2>1, <1>5, <1>7 DEF InQueue, c
      <2>2. CASE n # pushed["chat"] + 1
          <3>1. n \in 1 .. pushed["chat"]
              BY <2>2, <1>2
          <3>2. InQueue(Chat(n)) \/ OnScreen(Chat(n))
              BY <3>1 DEF IInv, NoneLost
          <3>3. Chat(n) \in Items
              BY <3>1 DEF Chat, Items, Kinds
          <3>. QED  BY <3>2, <3>3, <1>6, <1>11 DEF OnScreen
      <2>. QED  BY <2>1, <2>2
  <1>14. PopTakesWhatIsPrinted'
      BY <1>4, <1>5, <1>6, <1>7, TakeItem DEF IInv, PopTakesWhatIsPrinted
  <1>15. NoLostWakeup'
      BY <1>1, <1>6 DEF NoLostWakeup, TypeOK, Kinds
  <1>16. ChatsInOrder'
      BY <1>6 DEF IInv, ChatsInOrder
  <1>. QED  BY <1>8, <1>9, <1>10, <1>12, <1>13, <1>14, <1>15, <1>16 DEF IInv

(* A notice at the front leaves the chat lines where they are.             *)
LEMMA PushFrontStep == IInv /\ PushFront => IInv'
  <1> SUFFICES ASSUME IInv, PushFront PROVE IInv'
      OBVIOUS
  <1> DEFINE e == [kind |-> "notice", n |-> pushed["notice"] + 1]
  <1>1. TypeOK
      BY DEF IInv
  <1>2. /\ pushed["notice"] \in Nat
        /\ pushed'["chat"] = pushed["chat"]
        /\ pushed' \in [Kinds -> Nat]
      BY <1>1 DEF PushFront, Pushing, TypeOK, Kinds
  <1>3. e \in Items /\ e.kind = "notice"
      BY <1>2 DEF Items, Kinds
  <1>4. queue \in Seq(Items) /\ queue' = <<e>> \o queue
      BY <1>1 DEF PushFront, TypeOK
  <1>5. /\ queue' \in Seq(Items)
        /\ Len(queue') = Len(queue) + 1
        /\ queue'[1] = e /\ Head(queue') = e /\ queue' # << >>
        /\ \A i \in 2 .. Len(queue) + 1 : queue'[i] = queue[i - 1]
      <2> HIDE DEF e
      <2>. QED  BY <1>3, <1>4, PrependItem
  <1>6. /\ UNCHANGED <<pc, asleep, printMsg, shown>>
        /\ notifying' = [notifying EXCEPT !["notice"] = TRUE]
      BY DEF PushFront, Pushing
  <1>7. Len(queue) \in Nat
      BY <1>4
  <1> HIDE DEF e
  (* Every chat line of the new queue is one of the old, one place later.  *)
  <1>8. \A i \in 1 .. Len(queue') : queue'[i].kind = "chat" =>
          i - 1 \in 1 .. Len(queue) /\ queue'[i] = queue[i - 1]
      BY <1>3, <1>5, <1>7
  <1>9. \A d : InQueue(d) => InQueue(d)'
    <2> SUFFICES ASSUME NEW d, NEW k \in 1 .. Len(queue), queue[k] = d
                 PROVE  \E i \in 1 .. Len(queue') : queue'[i] = d
        BY DEF InQueue
    <2>1. k + 1 \in 2 .. Len(queue) + 1 /\ k + 1 \in 1 .. Len(queue') /\ (k + 1) - 1 = k
        BY <1>5, <1>7
    <2>. QED  BY <1>5, <2>1
  <1>10. TypeOK'
      BY <1>1, <1>2, <1>5, <1>6 DEF TypeOK, Kinds
  <1>11. QueueAscends'
    <2> SUFFICES ASSUME NEW i \in 1 .. Len(queue'), queue'[i].kind = "chat"
                 PROVE  /\ queue'[i].n <= pushed["chat"]
                        /\ \A j \in 1 .. i - 1 :
                             queue'[j].kind = "chat" => queue'[j].n < queue'[i].n
        BY <1>2 DEF QueueAscends
    <2>1. i - 1 \in 1 .. Len(queue) /\ queue'[i] = queue[i - 1]
        BY <1>8
    <2>2. \A j \in 1 .. i - 1 : queue'[j].kind = "chat" =>
            j - 1 \in 1 .. (i - 1) - 1 /\ queue'[j] = queue[j - 1]
        BY <1>8, <1>5, <1>7
    <2>. QED  BY <2>1, <2>2 DEF IInv, QueueAscends
  <1>12. ScreenOlder'
      BY <1>2, <1>6, <1>8 DEF IInv, ScreenOlder
  <1>13. PrintingOldest'
      BY <1>6, <1>8, <1>9 DEF IInv, PrintingOldest, InQueue
  <1>14. NoneLost'
    <2> SUFFICES ASSUME NEW n \in 1 .. pushed["chat"]
                 PROVE  InQueue(Chat(n))' \/ OnScreen(Chat(n))'
        BY <1>2 DEF NoneLost
    <2>1. InQueue(Chat(n)) \/ OnScreen(Chat(n))
        BY DEF IInv, NoneLost
    <2>. QED  BY <2>1, <1>6, <1>9 DEF OnScreen
  <1>15. PopTakesWhatIsPrinted'
      BY <1>3, <1>5 DEF PopTakesWhatIsPrinted
  <1>16. NoLostWakeup'
      BY <1>1, <1>6 DEF NoLostWakeup, TypeOK, Kinds
  <1>17. ChatsInOrder'
      BY <1>6 DEF IInv, ChatsInOrder
  <1>. QED  BY <1>10, <1>11, <1>12, <1>13, <1>14, <1>15, <1>16, <1>17 DEF IInv

-----------------------------------------------------------------------------
(* The steps that change neither the queue nor the screen.                 *)
LEMMA QuietStep ==
  ASSUME IInv, UNCHANGED <<queue, pushed, pc, printMsg, shown>>,
         NoLostWakeup', asleep' \in BOOLEAN, notifying' \in [Kinds -> BOOLEAN]
  PROVE  IInv'
  BY DEF IInv, TypeOK, QueueAscends, ScreenOlder, PrintingOldest, NoneLost,
         PopTakesWhatIsPrinted, ChatsInOrder, InQueue, OnScreen

(* front() returns the oldest chat line, if it returns a chat line.        *)
LEMMA FrontStep == IInv /\ Front => IInv'
  <1> SUFFICES ASSUME IInv, Front PROVE IInv'
      OBVIOUS
  <1>1. TypeOK
      BY DEF IInv
  <1>2. /\ queue \in Seq(Items) /\ queue # << >>
        /\ printMsg' = Head(queue) /\ pc' = "pop"
        /\ UNCHANGED <<queue, pushed, notifying, asleep, shown>>
      BY <1>1 DEF Front, TypeOK
  <1>3. Len(queue) \in Nat \ {0} /\ Head(queue) = queue[1] /\ queue[1] \in Items
      BY <1>2, TakeItem
  <1>4. TypeOK'
      BY <1>1, <1>2, <1>3 DEF TypeOK
  <1>5. PrintingOldest'
    <2> SUFFICES ASSUME queue[1].kind = "chat"
                 PROVE  /\ InQueue(queue[1])
                        /\ \A i \in 1 .. Len(queue) :
                             queue[i].kind = "chat" => queue[1].n <= queue[i].n
        BY <1>2, <1>3 DEF PrintingOldest, InQueue
    <2>1. \A i \in 1 .. Len(queue) : queue[i].n \in Nat
        BY <1>2, ItemAt
    <2>2. \A i \in 1 .. Len(queue) : queue[i].kind = "chat" => queue[1].n <= queue[i].n
      <3> SUFFICES ASSUME NEW i \in 1 .. Len(queue), queue[i].kind = "chat", i # 1
                   PROVE  queue[1].n <= queue[i].n
          BY <1>3, <2>1
      <3>1. 1 \in 1 .. i - 1 /\ 1 \in 1 .. Len(queue)
          BY <1>3
      <3>2. queue[1].n < queue[i].n
          BY <3>1 DEF IInv, QueueAscends
      <3>. QED  BY <2>1, <3>1, <3>2
    <2>. QED  BY <2>2, <1>3 DEF InQueue
  <1>6. PopTakesWhatIsPrinted'
      BY <1>2 DEF PopTakesWhatIsPrinted
  <1>. QED  BY <1>2, <1>4, <1>5, <1>6
            DEF IInv, QueueAscends, ScreenOlder, NoneLost, NoLostWakeup, ChatsInOrder,
                InQueue, OnScreen

(* pop() removes a notice, or the very chat line that is now written.      *)
LEMMA PopStep == IInv /\ Pop => IInv'
  <1> SUFFICES ASSUME IInv, Pop PROVE IInv'
      OBVIOUS
  <1>1. TypeOK
      BY DEF IInv
  <1>2. /\ queue \in Seq(Items) /\ queue # << >> /\ shown \in Seq(Items)
        /\ queue' = Tail(queue) /\ shown' = Append(shown, printMsg)
        /\ pc = "pop" /\ pc' = "front" /\ ~asleep
        /\ UNCHANGED <<pushed, notifying, asleep, printMsg>>
      BY <1>1 DEF Pop, TypeOK
  <1>3. /\ queue' \in Seq(Items)
        /\ Len(queue) \in Nat \ {0} /\ Len(queue') = Len(queue) - 1
        /\ Head(queue) = queue[1]
        /\ \A i \in 1 .. Len(queue) - 1 : queue'[i] = queue[i + 1]
      BY <1>2, TakeItem
  <1>4. printMsg \in Items /\ printMsg.n \in Nat \ {0} /\ pushed["chat"] \in Nat
      BY <1>1 DEF TypeOK, Items, Kinds
  <1>5. /\ shown' \in Seq(Items)
        /\ Len(shown') = Len(shown) + 1
        /\ shown'[Len(shown) + 1] = printMsg
        /\ \A i \in 1 .. Len(shown) : shown'[i] = shown[i]
      BY <1>2, <1>4, AppendItem
  <1>6. Len(shown) \in Nat
      BY <1>2
  <1>7. \A i \in 1 .. Len(queue') : i + 1 \in 1 .. Len(queue) /\ queue'[i] = queue[i + 1]
      BY <1>3
  <1>8. TypeOK'
      BY <1>1, <1>2, <1>3, <1>5 DEF TypeOK
  <1>9. QueueAscends'
    <2> SUFFICES ASSUME NEW i \in 1 .. Len(queue'), queue'[i].kind = "chat"
                 PROVE  /\ queue'[i].n <= pushed["chat"]
                        /\ \A j \in 1 .. i - 1 :
                             queue'[j].kind = "chat" => queue'[j].n < queue'[i].n
        BY <1>2 DEF QueueAscends
    <2>1. \A j \in 1 .. i - 1 : j \in 1 .. Len(queue') /\ j + 1 \in 1 .. (i + 1) - 1
        BY <1>3
    <2>2. \A j \in 1 .. i - 1 : queue'[j] = queue[j + 1]
        BY <1>7, <2>1
    <2>. QED  BY <1>7, <2>1, <2>2 DEF IInv, QueueAscends
  (* A chat line being written is still in the queue, the oldest there.    *)
  <1>10. ASSUME printMsg.kind = "chat"
         PROVE  /\ printMsg.n <= pushed["chat"]
                /\ \A i \in 1 .. Len(queue) :
                     queue[i].kind = "chat" => printMsg.n <= queue[i].n
                /\ \A i \in 1 .. Len(shown) :
                     shown[i].kind = "chat" => shown[i].n <= printMsg.n
                /\ printMsg = Chat(printMsg.n)
    <2>1. PICK k \in 1 .. Len(queue) : queue[k] = printMsg
        BY <1>2, <1>10 DEF IInv, PrintingOldest, InQueue
    <2>2. printMsg = Chat(printMsg.n)
        BY <1>2, <1>10, <2>1, ItemAt
    <2>. QED  BY <1>2, <1>10, <2>1, <2>2
              DEF IInv, PrintingOldest, QueueAscends, ScreenOlder
  <1>11. ScreenOlder'
    <2> SUFFICES ASSUME NEW i \in 1 .. Len(shown'), shown'[i].kind = "chat"
                 PROVE  /\ shown'[i].n <= pushed["chat"]
                        /\ \A j \in 1 .. Len(queue') :
                             queue'[j].kind = "chat" => shown'[i].n <= queue'[j].n
        BY <1>2 DEF ScreenOlder
    <2>1. CASE i \in 1 .. Len(shown)
        BY <2>1, <1>5, <1>7 DEF IInv, ScreenOlder
    <2>2. CASE i = Len(shown) + 1
        BY <2>2, <1>5, <1>7, <1>10
    <2>. QED  BY <2>1, <2>2, <1>5, <1>6
  <1>12. NoneLost'
    <2> SUFFICES ASSUME NEW n \in 1 .. pushed["chat"]
                 PROVE  InQueue(Chat(n))' \/ OnScreen(Chat(n))'
        BY <1>2 DEF NoneLost
    <2>1. CASE OnScreen(Chat(n))
        BY <2>1, <1>5, <1>6 DEF OnScreen
    <2>2. CASE InQueue(Chat(n))
      <3>1. PICK k \in 1 .. Len(queue) : queue[k] = Chat(n)
          BY <2>2 DEF InQueue
      <3>2. CASE k = 1
        <4>1. Head(queue).kind = "chat"
            BY <1>3, <3>1, <3>2 DEF Chat
        <4>2. printMsg = Chat(n)
            BY <1>2, <1>3, <3>1, <3>2, <4>1 DEF IInv, PopTakesWhatIsPrinted
        <4>. QED  BY <4>2, <1>5, <1>6 DEF OnScreen
      <3>3. CASE k # 1
        <4>1. k - 1 \in 1 .. Len(queue') /\ k - 1 \in 1 .. Len(queue) - 1 /\ (k - 1) + 1 = k
            BY <1>3, <3>3
        <4>. QED  BY <1>3, <3>1, <4>1 DEF InQueue
      <3>. QED  BY <3>2, <3>3
    <2>. QED  BY <2>1, <2>2 DEF IInv, NoneLost
  <1>13. ChatsInOrder'
    <2> SUFFICES ASSUME NEW i \in 1 .. Len(shown'), shown'[i].kind = "chat"
                 PROVE  /\ \A j \in 1 .. i :
                             shown'[j].kind = "chat" => shown'[j].n <= shown'[i].n
                        /\ shown'[i].n > 1 =>
                             \E j \in 1 .. i : shown'[j] = Chat(shown'[i].n - 1)
        BY DEF ChatsInOrder
    <2>1. CASE i \in 1 .. Len(shown)
      <3>1. \A j \in 1 .. i : j \in 1 .. Len(shown) /\ shown'[j] = shown[j]
          BY <2>1, <1>5, <1>6
      <3>2. i \in 1 .. i
          BY <2>1
      <3>. QED  BY <2>1, <3>1, <3>2 DEF IInv, ChatsInOrder
    <2>2. CASE i = Len(shown) + 1
      <3>1. /\ shown'[i] = printMsg /\ printMsg.kind = "chat"
            /\ \A j \in 1 .. Len(shown) : j \in 1 .. i
            /\ \A j \in 1 .. i : j \in 1 .. Len(shown) \/ j = i
          BY <2>2, <1>5, <1>6
      <3>2. \A j \in 1 .. i : shown'[j].kind = "chat" => shown'[j].n <= printMsg.n
          BY <3>1, <1>4, <1>5, <1>10
      <3>3. ASSUME printMsg.n > 1
            PROVE  \E j \in 1 .. i : shown'[j] = Chat(printMsg.n - 1)
        <4>1. printMsg.n - 1 \in 1 .. pushed["chat"]
            BY <3>1, <3>3, <1>4, <1>10
        <4>2. ~InQueue(Chat(printMsg.n - 1))
            BY <3>1, <1>4, <1>10 DEF InQueue, Chat
        <4>3. OnScreen(Chat(printMsg.n - 1))
            BY <4>1, <4>2 DEF IInv, NoneLost
        <4>. QED  BY <4>3, <3>1, <1>5 DEF OnScreen
      <3>. QED  BY <3>1, <3>2, <3>3
    <2>. QED  BY <2>1, <2>2, <1>5, <1>6
  <1>14. PrintingOldest' /\ PopTakesWhatIsPrinted'
      BY <1>2 DEF PrintingOldest, PopTakesWhatIsPrinted
  <1>15. NoLostWakeup'
      BY <1>2 DEF NoLostWakeup
  <1>. QED  BY <1>8, <1>9, <1>11, <1>12, <1>13, <1>14, <1>15 DEF IInv

-----------------------------------------------------------------------------
LEMMA NextStep == IInv /\ [Next]_vars => IInv'
  <1> SUFFICES ASSUME IInv, [Next]_vars PROVE IInv'
      OBVIOUS
  <1>1. TypeOK
      BY DEF IInv
  <1>2. CASE Push
      BY <1>2, PushStep
  <1>3. CASE PushFront
      BY <1>3, PushFrontStep
  <1>4. ASSUME NEW k \in Kinds, NotifyOne(k) PROVE IInv'
    <2>1. NoLostWakeup' /\ asleep' \in BOOLEAN /\ notifying' \in [Kinds -> BOOLEAN]
        BY <1>1, <1>4 DEF NotifyOne, NoLostWakeup, TypeOK
    <2>. QED  BY <1>4, <2>1, QuietStep DEF NotifyOne
  <1>5. CASE Front
      BY <1>5, FrontStep
  <1>6. CASE Pop
      BY <1>6, PopStep
  <1>7. CASE Wait
    <2>1. NoLostWakeup' /\ asleep' \in BOOLEAN /\ notifying' \in [Kinds -> BOOLEAN]
        BY <1>1, <1>7 DEF Wait, NoLostWakeup, TypeOK
    <2>. QED  BY <1>7, <2>1, QuietStep DEF Wait
  <1>8. CASE WakeSpuriously
    <2>1. NoLostWakeup' /\ asleep' \in BOOLEAN /\ notifying' \in [Kinds -> BOOLEAN]
        BY <1>1, <1>8 DEF WakeSpuriously, NoLostWakeup, TypeOK
    <2>. QED  BY <1>8, <2>1, QuietStep DEF WakeSpuriously
  <1>9. CASE UNCHANGED vars
    <2>1. NoLostWakeup' /\ asleep' \in BOOLEAN /\ notifying' \in [Kinds -> BOOLEAN]
        BY <1>1, <1>9 DEF IInv, vars, NoLostWakeup, TypeOK
    <2>. QED  BY <1>9, <2>1, QuietStep DEF vars
  <1>. QED  BY <1>2, <1>3, <1>4, <1>5, <1>6, <1>7, <1>8, <1>9 DEF Next, PrintMessage

(* The inductive invariant holds in every reachable state.                 *)
THEOREM IInvCorrect == Spec => []IInv
  BY InitIInv, NextStep, PTL DEF Spec

(* Chat lines reach the screen in the order in which processMessage pushed *)
(* them, and none is skipped, although printMessage calls front() and      *)
(* pop() separately (dchat.cpp:1122-1123).                                 *)
THEOREM ScreenInOrder == Spec => []ChatsInOrder
  <1>1. IInv => ChatsInOrder
      BY DEF IInv
  <1>. QED  BY <1>1, IInvCorrect, PTL

(* printMessage never sleeps on a queue with something in it unless a      *)
(* notify_one is on its way (Queue, structures.h:84-168).                  *)
THEOREM WakeupsArrive == Spec => []NoLostWakeup
  <1>1. IInv => NoLostWakeup
      BY DEF IInv
  <1>. QED  BY <1>1, IInvCorrect, PTL

-----------------------------------------------------------------------------
(* The shift of one byte, with the wrap-around of char, and back. *)
LEMMA ShiftBack ==
  ASSUME NEW b \in Byte
  PROVE  /\ (b + 3) % 256 \in Byte
         /\ (((b + 3) % 256) - 3) % 256 = b
  <1>1. CASE b < 253
    <2>1. (b + 3) % 256 = b + 3
        BY <1>1 DEF Byte
    <2>2. (b + 3) - 3 = b /\ b % 256 = b
        BY DEF Byte
    <2>. QED  BY <1>1, <2>1, <2>2 DEF Byte
  <1>2. CASE b >= 253
    <2>1. (b + 3) % 256 = b - 253
        BY <1>2 DEF Byte
    <2>2. (b - 253 - 3) % 256 = b
        BY <1>2 DEF Byte
    <2>. QED  BY <1>2, <2>1, <2>2 DEF Byte
  <1>. QED  BY <1>1, <1>2 DEF Byte

(* decrypt gives back every text that encrypt was given, of whatever bytes *)
(* and length, and encrypt keeps the length (dchat.cpp:1268-1291).  What   *)
(* LinesReadable finds lost is lost in parseMessage and strcpy.            *)
THEOREM DecryptUndoesEncrypt ==
  \A t \in Seq(Byte) : /\ Encrypt(t) \in Seq(Byte)
                       /\ Len(Encrypt(t)) = Len(t)
                       /\ Decrypt(Encrypt(t)) = t
  <1>1. SUFFICES ASSUME NEW t \in Seq(Byte)
                 PROVE  /\ Encrypt(t) \in Seq(Byte)
                        /\ Len(Encrypt(t)) = Len(t)
                        /\ Decrypt(Encrypt(t)) = t
      OBVIOUS
  <1>2. t \in [1 .. Len(t) -> Byte] /\ Len(t) \in Nat /\ DOMAIN t = 1 .. Len(t)
      OBVIOUS
  <1>3. Encrypt(t) \in [1 .. Len(t) -> Byte]
      BY <1>2, ShiftBack DEF Encrypt
  <1>4. Encrypt(t) \in Seq(Byte) /\ Len(Encrypt(t)) = Len(t)
      BY <1>2, <1>3
  <1>5. \A i \in 1 .. Len(t) : (Encrypt(t)[i] - 3) % 256 = t[i]
      BY <1>2, ShiftBack DEF Encrypt
  <1>6. Decrypt(Encrypt(t)) = [i \in 1 .. Len(t) |-> t[i]]
      BY <1>3, <1>5 DEF Decrypt
  <1>. QED  BY <1>2, <1>4, <1>6

(* Every step of Screen is one of PrintQueue, or leaves its queue alone. *)
LEMMA ScreenStep == [ScreenNext]_allVars => [Next]_vars
  BY DEF ScreenNext, Write, Queueing, TakeOver, Next, PrintMessage, allVars

(* The screen that decrypts implements the queue that only passes on. *)
THEOREM ScreenIsPrintQueue == ScreenSpec => Spec
  <1>1. ScreenInit => Init
      BY DEF ScreenInit
  <1>. QED  BY <1>1, ScreenStep, PTL DEF ScreenSpec, Spec

(* The inductive invariant of the queue, whatever is written. *)
THEOREM ScreenIInv == ScreenSpec => []IInv
  BY ScreenIsPrintQueue, IInvCorrect, PTL

(* The lines that printMessage writes come in the order in which they were *)
(* pushed, in dchat.cpp and dchat_encrypt.cpp, before and after a takeover *)
(* (printMessage, dchat.cpp:1122-1134).                                    *)
THEOREM WrittenInOrder == ScreenSpec => []ChatsInOrder
  BY ScreenIsPrintQueue, ScreenInOrder, PTL
=============================================================================
