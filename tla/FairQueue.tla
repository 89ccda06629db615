------------------------------ MODULE FairQueue ------------------------------
(***************************************************************************)
(* The sequencer of dchat_fairQ.cpp, which takes the lines to be ordered   *)
(* from one queue per author: receiveMessage files every datagram under    *)
(* the author's address, and processMessage sweeps over the queues and     *)
(* takes one item of each.  The sequencer's own copies of the lines it     *)
(* multicasts are filed in the same queues, under their author.            *)
(*                                                                         *)
(* A process that becomes the sequencer has a processMessage that may be   *)
(* blocked on holdbackQueue, where a member finds its lines, and a         *)
(* sendMessage that is still in its member branch, from where it sends the *)
(* next line to the address of the sequencer, now its own.  The module     *)
(* also models how both get from there to the sequencer's branches.        *)
(*                                                                         *)
(* fairQMap_mutex is held for a whole sweep, so that nothing is filed      *)
(* meanwhile; sendMessage and main go on.  sendMessage takes a line off    *)
(* its queue only when the last client is served, while receiveMessage has *)
(* long filed its own copy.  The process's datagrams to itself, and their  *)
(* ACKs, arrive within the second for which sendMessage waits.             *)
(***************************************************************************)
EXTENDS Integers, Sequences, FiniteSets, SequencesExt

CONSTANTS
  Authors,    \* the processes that type, as numbers in the order of the map
  Self,       \* the process modelled
  Founded,    \* it founded the chat; otherwise it is a member at first
  Alone,      \* when it takes over nobody else is left, though some join later
  MaxTyped,   \* bound: lines per author
  MaxOthers,  \* bound: lines per other author
  MaxHeld     \* bound: lines accepted as a member

ASSUME FairQueueAssumption ==
         /\ Authors \subseteq Int /\ Self \in Authors
         /\ Founded \in BOOLEAN /\ Alone \in BOOLEAN
         /\ MaxTyped \in Nat /\ MaxOthers \in 0 .. MaxTyped /\ MaxHeld \in Nat

VARIABLES
  checkLeader,    \* the process is the sequencer
  holdbackQueue,  \* what its processMessage finds as a member
  held,           \* lines it accepted as a member
  bogusDue,       \* heartbeatReceive has still to push the bogus message
  processPc,      \* processMessage: "test" of checkLeader, in "front" or "sweep"
  ahead,          \* the authors whose queues the sweep has still to come to
  typed,          \* typed[a]: lines by a that reached the sequencer
  fairQMap,       \* fairQMap[a]: the queue of author a
  asMember,       \* sendMessage is in its member branch
  sendQueue,      \* lines waiting for their number
  ownCopy,        \* the datagram sendMessage sent to its own chat port
  served,         \* it was filed: only other clients are still to be served
  ordered,        \* history: the lines given a number, in that order
  printed         \* the lines pushed to printQueue as the sequencer

memberVars == <<checkLeader, holdbackQueue, held, bogusDue>>
sendVars == <<asMember, sendQueue, ownCopy, served, ordered>>

processVars == <<processPc, ahead>>

vars == <<memberVars, processVars, typed, fairQMap, sendVars, printed>>

Lines == [from : Authors, n : 1 .. MaxTyped]
Filed == [type : {"CHAT", "SEQ_CHAT"}, line : Lines]

TypeOK ==
  /\ checkLeader \in BOOLEAN
  /\ holdbackQueue \in Seq({"line", "bogus"})
  /\ held \in Nat
  /\ bogusDue \in BOOLEAN
  /\ processPc \in {"test", "front", "sweep"}
  /\ ahead \subseteq Authors
  /\ typed \in [Authors -> 0 .. MaxTyped]
  /\ fairQMap \in [Authors -> Seq(Filed)]
  /\ asMember \in BOOLEAN
  /\ sendQueue \in Seq(Filed)
  /\ ownCopy \in SUBSET Filed
  /\ served \in BOOLEAN
  /\ ordered \in Seq(Lines)
  /\ printed \in Seq(Lines)

Init ==
  /\ checkLeader = Founded
  /\ holdbackQueue = << >>
  /\ held = 0
  /\ bogusDue = FALSE
  /\ processPc = "test"
  /\ ahead = {}
  /\ typed = [a \in Authors |-> 0]
  /\ fairQMap = [a \in Authors |-> << >>]
  /\ asMember = ~Founded
  /\ sendQueue = << >>
  /\ ownCopy = {}
  /\ served = FALSE
  /\ ordered = << >>
  /\ printed = << >>

-----------------------------------------------------------------------------
(***************************************************************************)
(* receiveMessage.                                                         *)
(***************************************************************************)
Item(type, l) == [type |-> type, line |-> l]

File(m) == /\ processPc # "sweep"
           /\ fairQMap' = [fairQMap EXCEPT ![m.line.from] = Append(@, m)]

(* As a member: the number after its own. *)
ReceiveHeld ==
  /\ ~checkLeader
  /\ held < MaxHeld
  /\ held' = held + 1
  /\ holdbackQueue' = Append(holdbackQueue, "line")
  /\ UNCHANGED <<checkLeader, bogusDue, processVars, typed, fairQMap, sendVars, printed>>

(* As the sequencer: a CHAT of some other author ... *)
ReceiveChat(a) ==
  /\ checkLeader
  /\ a # Self
  /\ typed[a] < MaxOthers
  /\ typed' = [typed EXCEPT ![a] = @ + 1]
  /\ File(Item("CHAT", [from |-> a, n |-> typed[a] + 1]))
  /\ UNCHANGED <<memberVars, processVars, sendVars, printed>>

(* ... or a datagram of its own. *)
ReceiveOwn ==
  /\ checkLeader
  /\ \E m \in ownCopy : File(m)
  /\ ownCopy' = {}
  /\ served' = TRUE
  /\ UNCHANGED <<memberVars, processVars, typed, asMember, sendQueue, ordered, printed>>

-----------------------------------------------------------------------------
(* main: a line typed here.  (A member's lines that its old sequencer      *)
(* acknowledged are not this sequencer's and are left out.)                *)
TypeOwn ==
  /\ typed[Self] < MaxTyped
  /\ typed' = [typed EXCEPT ![Self] = @ + 1]
  /\ sendQueue' = Append(sendQueue, Item("CHAT", [from |-> Self, n |-> typed[Self] + 1]))
  /\ UNCHANGED <<memberVars, processVars, fairQMap, asMember, ownCopy, served, ordered, printed>>

(* sendMessage: the sequencer's branch marks the line SEQ_CHAT, numbers it *)
(* and sends it to everybody; the member branch sends the line as it is to *)
(* the sequencer, that is, to this process.                                *)
SendFront ==
  /\ checkLeader
  /\ ownCopy = {} /\ ~served
  /\ sendQueue # << >>
  /\ LET m == Head(sendQueue)
     IN  \/ /\ asMember
            /\ ownCopy' = {m}
            /\ UNCHANGED ordered
         \/ /\ ~asMember
            /\ ownCopy' = {Item("SEQ_CHAT", m.line)}
            /\ ordered' = Append(ordered, m.line)
  /\ UNCHANGED <<memberVars, processVars, typed, fairQMap, asMember, sendQueue, served, printed>>

(* Wrong variant: sendMessage never leaves its member branch. *)
SendDoneStays ==
  /\ served
  /\ served' = FALSE
  /\ sendQueue' = Tail(sendQueue)
  /\ UNCHANGED <<memberVars, processVars, typed, fairQMap, asMember, ownCopy, ordered, printed>>

(* Everybody has the line, or, in the member branch, it was acknowledged.  *)
SendDone ==
  /\ served
  /\ served' = FALSE
  /\ sendQueue' = Tail(sendQueue)
  /\ asMember' = FALSE
  /\ UNCHANGED <<memberVars, processVars, typed, fairQMap, ownCopy, ordered, printed>>

-----------------------------------------------------------------------------
(***************************************************************************)
(* processMessage.                                                         *)
(***************************************************************************)
Waiting == {a \in Authors : fairQMap[a] # << >>}

(* The sequencer locks fairQMap_mutex, again and again, and has a sweep    *)
(* before it over the queues that have an item, if any ...                 *)
BeginSweep ==
  /\ checkLeader
  /\ processPc = "test"
  /\ processPc' = "sweep"
  /\ ahead' = Waiting
  /\ UNCHANGED <<memberVars, typed, fairQMap, sendVars, printed>>

(* A numbered line goes to the screen, another to the sendQueue, marked    *)
(* SEQ_CHAT already.                                                       *)
Dispatch(m) ==
  \/ m.type = "SEQ_CHAT" /\ printed' = Append(printed, m.line) /\ UNCHANGED sendQueue
  \/ m.type = "CHAT" /\ sendQueue' = Append(sendQueue, Item("SEQ_CHAT", m.line))
                     /\ UNCHANGED printed

NextAhead(a) == a \in ahead /\ \A b \in ahead : a <= b

(* Wrong variants: the queue is emptied from the back; a line shown is not *)
(* removed from its queue.                                                 *)
SweepFromBack(a) ==
  /\ processPc = "sweep"
  /\ NextAhead(a)
  /\ Dispatch(Last(fairQMap[a]))
  /\ fairQMap' = [fairQMap EXCEPT ![a] = SubSeq(@, 1, Len(@) - 1)]
  /\ ahead' = ahead \ {a}
  /\ UNCHANGED <<memberVars, processPc, typed, asMember, ownCopy, served, ordered>>

SweepKeeps(a) ==
  /\ processPc = "sweep"
  /\ NextAhead(a)
  /\ Dispatch(Head(fairQMap[a]))
  /\ fairQMap' = [fairQMap EXCEPT ![a] = IF Head(@).type = "CHAT" THEN Tail(@) ELSE @]
  /\ ahead' = ahead \ {a}
  /\ UNCHANGED <<memberVars, processPc, typed, asMember, ownCopy, served, ordered>>

(* ... takes the first item of each, in the order of the map ... *)
Sweep(a) ==
  /\ processPc = "sweep"
  /\ NextAhead(a)
  /\ Dispatch(Head(fairQMap[a]))
  /\ fairQMap' = [fairQMap EXCEPT ![a] = Tail(@)]
  /\ ahead' = ahead \ {a}
  /\ UNCHANGED <<memberVars, processPc, typed, asMember, ownCopy, served, ordered>>

(* ... and unlocks the mutex. *)
EndSweep ==
  /\ processPc = "sweep"
  /\ ahead = {}
  /\ processPc' = "test"
  /\ UNCHANGED <<memberVars, ahead, typed, fairQMap, sendVars, printed>>

(* A member: wait for the head of holdbackQueue ... *)
TestMember ==
  /\ ~checkLeader
  /\ processPc = "test"
  /\ processPc' = "front"
  /\ UNCHANGED <<memberVars, ahead, typed, fairQMap, sendVars, printed>>

(* ... and show it.  The bogus message has no type, and stays unless what  *)
(* was in its memory happens to read SEQ_CHAT.                             *)
ProcessHeld ==
  /\ processPc = "front"
  /\ holdbackQueue # << >>
  /\ \/ holdbackQueue' = Tail(holdbackQueue)
     \/ Head(holdbackQueue) = "bogus" /\ UNCHANGED holdbackQueue
  /\ processPc' = "test"
  /\ UNCHANGED <<checkLeader, held, bogusDue, ahead, typed, fairQMap, sendVars, printed>>

-----------------------------------------------------------------------------
(* An ELECTION made the process the sequencer, and a bogus message is to   *)
(* unblock processMessage.  One that sendElection finds alone becomes the  *)
(* sequencer there, and that is all.                                       *)
Asked == ~Alone

(* Wrong variant: the bogus message is never sent. *)
TakeOverQuietly ==
  /\ ~checkLeader
  /\ checkLeader' = TRUE
  /\ UNCHANGED <<holdbackQueue, held, bogusDue, processVars, typed, fairQMap, sendVars, printed>>

TakeOver ==
  /\ ~checkLeader
  /\ checkLeader' = TRUE
  /\ bogusDue' = Asked
  /\ UNCHANGED <<holdbackQueue, held, processVars, typed, fairQMap, sendVars,
                 printed>>

PushBogus ==
  /\ bogusDue
  /\ bogusDue' = FALSE
  /\ holdbackQueue' = Append(holdbackQueue, "bogus")
  /\ UNCHANGED <<checkLeader, held, processVars, typed, fairQMap, sendVars,
                 printed>>

-----------------------------------------------------------------------------
ProcessMessage == \/ BeginSweep \/ EndSweep \/ TestMember \/ ProcessHeld
                  \/ \E a \in Authors : Sweep(a)
HeartbeatReceive == TakeOver \/ PushBogus

Next == \/ ReceiveHeld \/ ReceiveOwn \/ TypeOwn \/ SendFront \/ SendDone
        \/ \E a \in Authors : ReceiveChat(a)
        \/ ProcessMessage
        \/ HeartbeatReceive

(* The threads run; whether anybody types is open.  receiveMessage         *)
(* competes for a mutex that processMessage gives up and takes at once: it *)
(* is to get it some time.                                                 *)
Spec == /\ Init /\ [][Next]_vars
        /\ SF_vars(ReceiveOwn) /\ WF_vars(SendFront) /\ WF_vars(SendDone)
        /\ WF_vars(ProcessMessage) /\ WF_vars(PushBogus)

-----------------------------------------------------------------------------
(***************************************************************************)
(* Properties.                                                             *)
(***************************************************************************)
(***************************************************************************)
(* The sequencer shows the lines of each author in the order in which they *)
(* were typed, and none without those before it, although its copies wait  *)
(* behind lines still to be ordered.  One line is exempt: the first typed  *)
(* at a process that took over, which goes round by its receiveMessage if  *)
(* it is sent from the member branch, and which later ones may overtake.   *)
(* (Between authors its screen may differ from the order it gave out.)     *)
(***************************************************************************)
InOrder(l) == l # [from |-> Self, n |-> 1] \/ Founded

AuthorOrder ==
  \A i \in 1 .. Len(printed) : InOrder(printed[i]) =>
    /\ \A j \in 1 .. i - 1 :
         printed[j].from = printed[i].from /\ InOrder(printed[j]) => printed[j].n < printed[i].n
    /\ \A l \in Lines :
         l.from = printed[i].from /\ l.n < printed[i].n /\ InOrder(l) =>
           \E j \in 1 .. i - 1 : printed[j] = l

(***************************************************************************)
(* A new sequencer shows one line at most that nobody else gets: the first *)
(* that its sendMessage takes, still as a member.                          *)
(***************************************************************************)
KeepsOneLine ==
  \A i, j \in 1 .. Len(printed) :
    printed[i] \notin ToSet(ordered) /\ printed[j] \notin ToSet(ordered) => i = j

(***************************************************************************)
(* Every line received is in exactly one place: in the queue of its        *)
(* author, waiting to be ordered or to be shown, or in the sendQueue, or   *)
(* on the screen (receiveMessage, processMessage, sendMessage).  Only the  *)
(* line that sendMessage still sends to other clients is at the head of    *)
(* the sendQueue as well as where its own copy got to.  (Stated with the   *)
(* types of the places.)                                                   *)
(***************************************************************************)
ToSend == IF served THEN Tail(sendQueue) ELSE sendQueue

Places(l) == {<<"shown", i>> : i \in {k \in 1 .. Len(printed) : printed[k] = l}}
             \cup {<<"sending", i>> : i \in {k \in 1 .. Len(ToSend) : ToSend[k].line = l}}
             \cup {<<"filed", i>> : i \in {k \in 1 .. Len(fairQMap[l.from]) :
                                           fairQMap[l.from][k].line = l}}

InOnePlace ==
  /\ TypeOK
  /\ \A a \in Authors : \A n \in 1 .. typed[a] :
       \E place \in Places([from |-> a, n |-> n]) : Places([from |-> a, n |-> n]) = {place}

(***************************************************************************)
(* Every line that reached the sequencer is shown by it: no author is kept *)
(* waiting for ever by the others.                                         *)
(***************************************************************************)
EveryLineShown ==
  \A a \in Authors : \A k \in 1 .. MaxTyped :
    checkLeader /\ typed[a] >= k
      ~> \E i \in 1 .. Len(printed) : printed[i] = [from |-> a, n |-> k]

(***************************************************************************)
(* A process that becomes the sequencer leaves the queue it served as a    *)
(* member (dchat_fairQ.cpp:967, "send a bogus message to unblock the       *)
(* participant in the processMessage function").                           *)
(***************************************************************************)
Unblocked == checkLeader ~> processPc = "test"

-----------------------------------------------------------------------------
(***************************************************************************)
(* The inductive invariant behind the three properties above.              *)
(***************************************************************************)

(* A line on its way through the sequencer. *)
Shown(l) == \E i \in 1 .. Len(printed) : printed[i] = l
Sending(l) == \E i \in 1 .. Len(ToSend) : ToSend[i].line = l
FiledAs(type, l) == \E i \in 1 .. Len(fairQMap[l.from]) : fairQMap[l.from][i] = Item(type, l)

(* What a queue can hold, and a sweep come to. *)
Queues ==
  /\ \A i \in 1 .. Len(printed) : printed[i].n <= typed[printed[i].from]
  /\ \A i \in 1 .. Len(ToSend) :
       /\ ToSend[i].line.n <= typed[ToSend[i].line.from]
       /\ ToSend[i].type = "CHAT" => ToSend[i].line.from = Self
  /\ \A a \in Authors : \A i \in 1 .. Len(fairQMap[a]) :
       /\ fairQMap[a][i].line.from = a /\ fairQMap[a][i].line.n <= typed[a]
       /\ a = Self /\ fairQMap[a][i].type = "CHAT" => ~InOrder(fairQMap[a][i].line)
  /\ \A a \in ahead : fairQMap[a] # << >>
  /\ Founded => ~asMember
  /\ served => sendQueue # << >> /\ ownCopy = {}

(* sendMessage sends itself the head of its queue, numbered if it is not   *)
(* in the branch of a member.                                              *)
OwnCopy ==
  \A m \in ownCopy :
    /\ ownCopy = {m} /\ ToSend # << >>
    /\ m.line = Head(ToSend).line
    /\ IF asMember THEN m = Head(ToSend)
                   ELSE m.type = "SEQ_CHAT" /\ m.line \in ToSet(ordered)

(* No line is in two places, and each is in one. *)
Apart ==
  /\ \A i, j \in 1 .. Len(printed) : printed[i] = printed[j] => i = j
  /\ \A i, j \in 1 .. Len(ToSend) : ToSend[i].line = ToSend[j].line => i = j
  /\ \A a \in Authors : \A i, j \in 1 .. Len(fairQMap[a]) :
       fairQMap[a][i].line = fairQMap[a][j].line => i = j
  /\ \A l \in Lines :
       LET filed == FiledAs("CHAT", l) \/ FiledAs("SEQ_CHAT", l)
       IN ~(Shown(l) /\ Sending(l)) /\ ~(Shown(l) /\ filed) /\ ~(Sending(l) /\ filed)

Somewhere ==
  \A l \in Lines : l.n <= typed[l.from] =>
    Shown(l) \/ Sending(l) \/ FiledAs("CHAT", l) \/ FiledAs("SEQ_CHAT", l)

(* An author's lines follow one another: shown, to be shown, in the        *)
(* sendQueue, to be ordered; and so they do within each of these.          *)
Follows(k, l) == k.from = l.from /\ InOrder(k) /\ InOrder(l) => k.n < l.n

InTurn ==
  /\ \A i, j \in 1 .. Len(printed) : i < j => Follows(printed[i], printed[j])
  /\ \A i, j \in 1 .. Len(ToSend) : i < j => Follows(ToSend[i].line, ToSend[j].line)
  /\ \A a \in Authors : \A i, j \in 1 .. Len(fairQMap[a]) :
       fairQMap[a][i].type = fairQMap[a][j].type /\ i < j =>
         Follows(fairQMap[a][i].line, fairQMap[a][j].line)
  /\ \A k, l \in Lines :
       /\ Shown(k) /\ (FiledAs("SEQ_CHAT", l) \/ Sending(l) \/ FiledAs("CHAT", l)) => Follows(k, l)
       /\ FiledAs("SEQ_CHAT", k) /\ (Sending(l) \/ FiledAs("CHAT", l)) => Follows(k, l)
       /\ Sending(k) /\ FiledAs("CHAT", l) => Follows(k, l)

(* Until sendMessage has sent a line from its member branch, the lines     *)
(* typed here are still to be sent, in the order in which they were typed: *)
(* the one that may go round is the first.                                 *)
OwnWait ==
  asMember /\ ~served =>
    /\ \A l \in Lines : l.from = Self => ~Shown(l) /\ ~FiledAs("CHAT", l) /\ ~FiledAs("SEQ_CHAT", l)
    /\ \A i, j \in 1 .. Len(ToSend) :
         i < j /\ ToSend[i].line.from = Self /\ ToSend[j].line.from = Self =>
           ToSend[i].line.n < ToSend[j].line.n

(* Only the line sent as a member gets to the screen without a number. *)
Unnumbered(l) == l \notin ToSet(ordered) /\ (Shown(l) \/ FiledAs("SEQ_CHAT", l))

OneUnnumbered ==
  \A k, l \in Lines : Unnumbered(k) /\ Unnumbered(l) => k = l /\ (asMember => served)

(* A line is in one place at a time, and behind its author's earlier ones  *)
(* (receiveMessage, sendMessage, processMessage).                          *)
IInv == TypeOK /\ Queues /\ OwnCopy /\ Apart /\ Somewhere /\ InTurn /\ OwnWait /\ OneUnnumbered
=============================================================================
