----------------------------- MODULE PrintQueue -----------------------------
(***************************************************************************)
(* The blocking Queue of structures.h as printMessage uses it: two threads *)
(* feed the screen, processMessage with chat lines at the back and         *)
(* noticeThread with notices at the front, and printMessage takes a line   *)
(* in two calls, front() and then pop(), between which the others may run. *)
(*                                                                         *)
(* A critical section of the queue's mutex is one step; notify_one comes   *)
(* after the unlock, and is a step of its own.                             *)
(***************************************************************************)
EXTENDS Integers, Sequences

CONSTANTS MaxChats, MaxNotices   \* bounds: chat lines and notices pushed

ASSUME BoundAssumption == MaxChats \in Nat /\ MaxNotices \in Nat

VARIABLES
  queue,      \* queue_ of printQueue
  pushed,     \* pushed[k]: items of kind k pushed so far
  notifying,  \* notifying[k]: the thread that pushes k is about to notify
  pc,         \* the call printMessage is in: "front" or "pop"
  asleep,     \* ... and whether it sleeps on cond_
  printMsg,   \* what front() returned
  shown       \* history: the items written to the screen

vars == <<queue, pushed, notifying, pc, asleep, printMsg, shown>>

Kinds == {"chat", "notice"}

(* The n-th chat line or notice pushed. *)
Items == [kind : Kinds, n : Nat \ {0}]

Chat(n) == [kind |-> "chat", n |-> n]

NoItem == [kind |-> "notice", n |-> 1]    \* before the first front()

TypeOK ==
  /\ queue \in Seq(Items)
  /\ pushed \in [Kinds -> Nat]
  /\ notifying \in [Kinds -> BOOLEAN]
  /\ pc \in {"front", "pop"}
  /\ asleep \in BOOLEAN
  /\ printMsg \in Items
  /\ shown \in Seq(Items)

Init ==
  /\ queue = << >>
  /\ pushed = [k \in Kinds |-> 0]
  /\ notifying = [k \in Kinds |-> FALSE]
  /\ pc = "front"
  /\ asleep = FALSE
  /\ printMsg = NoItem
  /\ shown = << >>

-----------------------------------------------------------------------------
(* Wrong variant: the notify is forgotten. *)
PushingSilently(k, bound) ==
  /\ pushed[k] < bound
  /\ pushed' = [pushed EXCEPT ![k] = @ + 1]
  /\ UNCHANGED <<notifying, pc, asleep, printMsg, shown>>

Pushing(k, bound) ==
  /\ ~notifying[k]
  /\ pushed[k] < bound
  /\ pushed' = [pushed EXCEPT ![k] = @ + 1]
  /\ notifying' = [notifying EXCEPT ![k] = TRUE]
  /\ UNCHANGED <<pc, asleep, printMsg, shown>>

(* Wrong variant: chat lines pushed at the front, like notices. *)
PushAtFront == /\ Pushing("chat", MaxChats)
               /\ queue' = <<Chat(pushed["chat"] + 1)>> \o queue

(* processMessage: printQueue.push. *)
Push == /\ Pushing("chat", MaxChats)
        /\ queue' = Append(queue, Chat(pushed["chat"] + 1))

(* noticeThread: printQueue.push_front. *)
PushFront == /\ Pushing("notice", MaxNotices)
             /\ queue' = <<[kind |-> "notice", n |-> pushed["notice"] + 1]>> \o queue

(* Wrong variant: the notification wakes nobody. *)
NotifyNobody(k) ==
  /\ notifying[k]
  /\ notifying' = [notifying EXCEPT ![k] = FALSE]
  /\ UNCHANGED <<queue, pushed, pc, asleep, printMsg, shown>>

(* notify_one: printMessage is the only thread that ever sleeps here. *)
NotifyOne(k) ==
  /\ notifying[k]
  /\ notifying' = [notifying EXCEPT ![k] = FALSE]
  /\ asleep' = FALSE
  /\ UNCHANGED <<queue, pushed, pc, printMsg, shown>>

-----------------------------------------------------------------------------
Front ==
  /\ pc = "front"
  /\ ~asleep
  /\ queue # << >>
  /\ printMsg' = Head(queue)
  /\ pc' = "pop"
  /\ UNCHANGED <<queue, pushed, notifying, asleep, shown>>

(* Wrong variant: pop() removes the last element. *)
PopBack ==
  /\ pc = "pop"
  /\ ~asleep
  /\ queue # << >>
  /\ queue' = SubSeq(queue, 1, Len(queue) - 1)
  /\ shown' = Append(shown, printMsg)
  /\ pc' = "front"
  /\ UNCHANGED <<pushed, notifying, asleep, printMsg>>

(* pop(), and the line that front() returned is written. *)
Pop ==
  /\ pc = "pop"
  /\ ~asleep
  /\ queue # << >>
  /\ queue' = Tail(queue)
  /\ shown' = Append(shown, printMsg)
  /\ pc' = "front"
  /\ UNCHANGED <<pushed, notifying, asleep, printMsg>>

(* cond_.wait, in either call: the mutex is released as the sleep begins. *)
Wait ==
  /\ ~asleep
  /\ queue = << >>
  /\ asleep' = TRUE
  /\ UNCHANGED <<queue, pushed, notifying, pc, printMsg, shown>>

(* A condition variable may also wake for no reason; the while loop copes. *)
WakeSpuriously ==
  /\ asleep
  /\ asleep' = FALSE
  /\ UNCHANGED <<queue, pushed, notifying, pc, printMsg, shown>>

PrintMessage == Front \/ Pop \/ Wait

Next == Push \/ PushFront \/ (\E k \in Kinds : NotifyOne(k)) \/ PrintMessage
        \/ WakeSpuriously

Spec == Init /\ [][Next]_vars

(* The threads run; nobody has to type, and no spurious wake-up is needed. *)
FairSpec == Spec /\ WF_vars(PrintMessage) /\ \A k \in Kinds : WF_vars(NotifyOne(k))

-----------------------------------------------------------------------------
(***************************************************************************)
(* Properties.                                                             *)
(***************************************************************************)
(***************************************************************************)
(* The chat lines appear in the order in which they were pushed, and none  *)
(* is left out, although pop() may remove another item than the one that   *)
(* front() returned (printMessage, dchat.cpp:1122-1123).  A line may be    *)
(* repeated at once, when a notice overtook it between the two calls.      *)
(***************************************************************************)
ChatsInOrder ==
  \A i \in 1 .. Len(shown) : shown[i].kind = "chat" =>
    /\ \A j \in 1 .. i : shown[j].kind = "chat" => shown[j].n <= shown[i].n
    /\ shown[i].n > 1 => \E j \in 1 .. i : shown[j] = Chat(shown[i].n - 1)

(***************************************************************************)
(* No wake-up is lost: printMessage never sleeps on a queue with something *)
(* in it, unless a notify_one is on its way.                               *)
(***************************************************************************)
NoLostWakeup == asleep /\ queue # << >> => \E k \in Kinds : notifying[k]

(***************************************************************************)
(* What front() has seen cannot vanish: pop() finds the queue non-empty    *)
(* (printMessage is its only consumer), and a chat line found at the head  *)
(* there is the one being printed.                                         *)
(***************************************************************************)
PopTakesWhatIsPrinted ==
  pc = "pop" => /\ queue # << >>
                /\ Head(queue).kind = "chat" => printMsg = Head(queue)

(***************************************************************************)
(* Every chat line pushed is eventually written.  (A notice need not be:   *)
(* one pushed between front() and pop() is removed unseen.)                *)
(***************************************************************************)
EveryChatWritten ==
  \A n \in 1 .. MaxChats :
    pushed["chat"] >= n ~> \E i \in 1 .. Len(shown) : shown[i] = Chat(n)

-----------------------------------------------------------------------------
(***************************************************************************)
(* The inductive invariant behind ChatsInOrder.                            *)
(***************************************************************************)
InQueue(c) == \E i \in 1 .. Len(queue) : queue[i] = c
OnScreen(c) == \E i \in 1 .. Len(shown) : shown[i] = c

(* The chat lines of the queue ascend. *)
QueueAscends ==
  \A i \in 1 .. Len(queue) : queue[i].kind = "chat" =>
    /\ queue[i].n <= pushed["chat"]
    /\ \A j \in 1 .. i - 1 : queue[j].kind = "chat" => queue[j].n < queue[i].n

(* Nothing on the screen is newer than what is still queued or printed. *)
ScreenOlder ==
  \A i \in 1 .. Len(shown) : shown[i].kind = "chat" =>
    /\ shown[i].n <= pushed["chat"]
    /\ \A j \in 1 .. Len(queue) : queue[j].kind = "chat" => shown[i].n <= queue[j].n

(* Between front() and pop(), the line being printed is the oldest queued. *)
PrintingOldest ==
  pc = "pop" /\ printMsg.kind = "chat" =>
    /\ InQueue(printMsg)
    /\ \A i \in 1 .. Len(queue) : queue[i].kind = "chat" => printMsg.n <= queue[i].n

NoneLost == \A n \in 1 .. pushed["chat"] : InQueue(Chat(n)) \/ OnScreen(Chat(n))

IInv == /\ TypeOK
        /\ QueueAscends
        /\ ScreenOlder
        /\ PrintingOldest
        /\ NoneLost
        /\ PopTakesWhatIsPrinted
        /\ NoLostWakeup
        /\ ChatsInOrder
=============================================================================
