------------------------------ MODULE QueueChat ------------------------------
(***************************************************************************)
(* dchat_queue.cpp: the earlier program, in which the sequencer relays     *)
(* every line and numbers nothing.  Its receiving threads leave the source *)
(* of the last datagram in a global, theirAddress at the sequencer and     *)
(* leaderAddress at a member, and the other threads answer to that global, *)
(* whoever sent the datagram they are answering.                           *)
(*                                                                         *)
(* box[p] is the buffer of p's chat socket; the datagrams of one host are  *)
(* neither lost nor reordered.  The threads of the sequencer are Receive,  *)
(* Serve... and Multicast (seqProcessMessage), SeqSend... (sendMessage)    *)
(* and SeqType (seqGetInput); those of a member are its namesakes.  Only   *)
(* seqProcessMessage writes userList; sendMessage reads it meanwhile,      *)
(* without a lock, one entry a step.  removeMember's loop moves the        *)
(* entries up one at a time and counts them last: userList stays what it   *)
(* was until then, and Walked is what sendMessage finds there.             *)
(*                                                                         *)
(* The iterator over fairQMap skips a key after each datagram it serves,   *)
(* and runs past the end: ServeJoin, ServeLeave and ServeLine take the     *)
(* next datagram of any key.  Not modelled: heartbeats, the type left over *)
(* in the buffer when a COUNT reaches a member already in the chat, and    *)
(* what the unlocked containers do when two threads are in one at a time.  *)
(***************************************************************************)
EXTENDS Integers, Sequences, FiniteSets, SequencesExt

CONSTANTS
  S,          \* the sequencer
  Joiners,    \* the processes that join
  Contact,    \* Contact[m]: the process on m's command line
  LineKeys,   \* what a line's unset ip and port can name in fairQMap
  Nobody,     \* an entry made of an unset ip and port
  MaxInputs,  \* bound: lines and ends of input, at all terminals together
  MaxAfter    \* ... the same, once a joiner has strayed

Proc == {S} \cup Joiners

ASSUME QueueChatAssumption ==
         /\ S \notin Joiners /\ Nobody \notin Proc
         /\ Contact \in [Joiners -> Proc]
         /\ \A m \in Joiners : Contact[m] # m
         /\ LineKeys # {} /\ LineKeys \cap (Proc \cup {Nobody}) = {}
         /\ MaxInputs \in Nat /\ MaxAfter \in Nat

VARIABLES
  box,            \* box[p]: datagrams in the buffer of p's chat socket
  typed,          \* typed[p]: lines p has typed
  bye,            \* bye[p]: how far p is with leaving
  sendQueue,      \* sendQueue[p]
  sent,           \* sent[p]: the next test of isDead comes before a datagram
  stage,          \* stage[p]: how far connectChat is; "in" the chat; "gone"
  \* the sequencer
  theirAddress,   \* the source of the last datagram received
  fairQMap,       \* fairQMap[k]: the queue of key k
  userList,       \* where lines are relayed to, but for a removal under way
  beyond,         \* what removals left in the entries after the last
  shift,          \* removeMember's loop: the queue its LEAVE heads, or Nobody,
                  \* whom it looks for, the entries it has been through
  memberList,     \* who is in the chat
  pending,        \* the joiner between its reply and multicast, or Nobody
  burst,          \* [to, left]: the datagrams multicast has still to send
  sendAt,         \* the next entry for sendMessage; 0 when the loop is over
  relayed,        \* the datagrams relayed
  \* the members
  leaderAddress,  \* leaderAddress[m]
  lineKey,        \* lineKey[m]: what the ip and port of m's lines name
  receiveQueue,   \* receiveQueue[m]
  known,          \* known[m]: memberList
  no_of_members,  \* no_of_members[m]
  shown,          \* shown[m]: what m printed, the notices apart
  \* history
  crossed,        \* a datagram or a removal went to another than was meant
  strayed         \* joiners that took another datagram than the one due

netVars == <<box, crossed>>
typeVars == <<typed, bye, sendQueue, sent>>
workVars == <<userList, beyond, memberList, pending, burst, relayed>>
seqVars == <<theirAddress, fairQMap, shift, workVars>>
joinVars == <<strayed, lineKey>>
listVars == <<known, no_of_members>>
chatVars == <<receiveQueue, listVars, shown>>

vars == <<netVars, typeVars, stage, seqVars, sendAt, joinVars, leaderAddress, chatVars>>

Kinds == {"JOIN", "OK", "COUNT", "USER", "ENTRY", "REDIRECT", "NEWUSER",
          "LEFT", "LINE", "LEAVE", "LEAVESEQ"}

(* who: the process a datagram is about; n: the number of a line, a count. *)
Datagrams == [kind : Kinds, who : Proc \cup {Nobody}, n : Nat, from : Proc]

Datagram(kind, who, n, from) == [kind |-> kind, who |-> who, n |-> n, from |-> from]

Keys == Proc \cup LineKeys

NoShift == [key |-> Nobody, of |-> Nobody, at |-> 0]

Joining == {"reply", "count", "users", "entries"}

TypeOK ==
  /\ box \in [Proc -> Seq(Datagrams)]
  /\ crossed \in BOOLEAN
  /\ typed \in [Proc -> Nat]
  /\ bye \in [Proc -> {"no", "dead", "pushed", "sent"}]
  /\ sendQueue \in [Proc -> Seq(Datagrams)]
  /\ sent \in [Proc -> BOOLEAN]
  /\ stage \in [Proc -> {"out", "in", "gone"} \cup Joining]
  /\ theirAddress \in Joiners \cup {Nobody}
  /\ fairQMap \in [Keys -> Seq(Datagrams)]
  /\ userList \in Seq(Joiners) /\ IsInjective(userList)
  /\ beyond \in Seq(Joiners)
  /\ shift \in [key : Keys \cup {Nobody}, of : Joiners \cup {Nobody}, at : Nat]
  /\ memberList \in Seq(Joiners)
  /\ pending \in Joiners \cup {Nobody}
  /\ burst \in [to : Joiners \cup {Nobody}, left : Seq(Seq(Datagrams))]
  /\ relayed \in Seq(Datagrams)
  /\ sendAt \in Nat
  /\ strayed \subseteq Joiners
  /\ lineKey \in [Joiners -> LineKeys]
  /\ leaderAddress \in [Joiners -> Proc]
  /\ receiveQueue \in [Joiners -> Seq(Datagrams)]
  /\ known \in [Joiners -> SUBSET (Proc \cup {Nobody})]
  /\ no_of_members \in [Joiners -> Int]
  /\ shown \in [Joiners -> Seq(Datagrams)]

Init ==
  /\ box = [p \in Proc |-> << >>]
  /\ crossed = FALSE
  /\ typed = [p \in Proc |-> 0]
  /\ bye = [p \in Proc |-> "no"]
  /\ sendQueue = [p \in Proc |-> << >>]
  /\ sent = [p \in Proc |-> FALSE]
  /\ stage = [p \in Proc |-> IF p = S THEN "in" ELSE "out"]
  /\ theirAddress = Nobody
  /\ fairQMap = [k \in Keys |-> << >>]
  /\ userList = << >>
  /\ beyond = << >>
  /\ shift = NoShift
  /\ memberList = << >>
  /\ pending = Nobody
  /\ burst = [to |-> Nobody, left |-> << >>]
  /\ relayed = << >>
  /\ sendAt = 1
  /\ strayed = {}
  /\ lineKey \in [Joiners -> LineKeys]
  /\ leaderAddress = Contact
  /\ receiveQueue = [m \in Joiners |-> << >>]
  /\ known = [m \in Joiners |-> {}]
  /\ no_of_members = [m \in Joiners |-> 0]
  /\ shown = [m \in Joiners |-> << >>]

-----------------------------------------------------------------------------
(***************************************************************************)
(* The sockets: a datagram to a closed one is lost.                        *)
(***************************************************************************)
Up(p) == stage[p] \notin {"out", "gone"}

Deliver(b, P, d) ==
  [p \in Proc |-> IF p \in P /\ Up(p) THEN Append(b[p], d) ELSE b[p]]

(* Datagram d to address a, when it is meant for process p.                *)
SendTo(b, a, d, p) ==
  /\ box' = Deliver(b, {a}, d)
  /\ crossed' = (crossed \/ a # p)

Emptied(p) == [box EXCEPT ![p] = << >>]

Popped(p) == [box EXCEPT ![p] = Tail(@)]

-----------------------------------------------------------------------------
(***************************************************************************)
(* seqGetInput and memberGetInput.  At the end of the input isDead is set  *)
(* first and LEAVE or LEAVESEQ pushed afterwards; the thread then goes on  *)
(* pushing it, which nobody sees.  The sending thread tests isDead after   *)
(* each look at sendQueue, empty or not: it sends one more datagram, or,   *)
(* when it is just before the test, none.                                  *)
(***************************************************************************)
InputLeft ==
  LET n == FoldFunction(+, 0, typed) + Cardinality({p \in Proc : bye[p] # "no"})
  IN n < MaxInputs /\ (strayed # {} => n < MaxAfter)

Type(p) ==
  /\ stage[p] = "in" /\ bye[p] = "no"
  /\ InputLeft
  /\ typed' = [typed EXCEPT ![p] = @ + 1]
  /\ sendQueue' = [sendQueue EXCEPT ![p] = Append(@, Datagram("LINE", p, typed[p] + 1, p))]
  /\ UNCHANGED <<netVars, bye, sent, stage, seqVars, sendAt, joinVars, leaderAddress, chatVars>>

EndInput(p) ==
  /\ stage[p] = "in" /\ bye[p] = "no"
  /\ InputLeft
  /\ bye' = [bye EXCEPT ![p] = "dead"]
  /\ \E b \in BOOLEAN : sent' = [sent EXCEPT ![p] = b]
  /\ UNCHANGED <<netVars, typed, sendQueue, stage, seqVars, sendAt, joinVars, leaderAddress, chatVars>>

Leaving(p) == Datagram(IF p = S THEN "LEAVESEQ" ELSE "LEAVE", p, 0, p)

(* Wrong variant: the farewell jumps the queue. *)
PushLeaveFirst(p) ==
  /\ stage[p] = "in" /\ bye[p] = "dead"
  /\ bye' = [bye EXCEPT ![p] = "pushed"]
  /\ sendQueue' = [sendQueue EXCEPT ![p] = <<Leaving(p)>> \o @]
  /\ UNCHANGED <<netVars, typed, sent, stage, seqVars, sendAt, joinVars, leaderAddress, chatVars>>

PushLeave(p) ==
  /\ stage[p] = "in" /\ bye[p] = "dead"
  /\ bye' = [bye EXCEPT ![p] = "pushed"]
  /\ sendQueue' = [sendQueue EXCEPT ![p] = Append(@, Leaving(p))]
  /\ UNCHANGED <<netVars, typed, sent, stage, seqVars, sendAt, joinVars, leaderAddress, chatVars>>

(* The head of p's sendQueue is popped. *)
PopSent(p) ==
  /\ sent' = [sent EXCEPT ![p] = bye[p] # "no"]
  /\ sendQueue' = [sendQueue EXCEPT ![p] = Tail(@)]
  /\ bye' = [bye EXCEPT ![p] = IF Head(sendQueue[p]).kind = "LINE" THEN @ ELSE "sent"]
  /\ UNCHANGED typed

-----------------------------------------------------------------------------
(***************************************************************************)
(* sendMessage: every entry of userList, whose length and contents change  *)
(* under its hands.  From the entry of the one it removes on, the loop of  *)
(* removeMember gives each the value of the next; the one after the last   *)
(* was never set, or is left over from a removal that found nobody.        *)
(***************************************************************************)
Walked(i) ==
  IF i <= shift.at /\ shift.of \in Range(SubSeq(userList, 1, i))
  THEN (userList \o Append(beyond, Nobody))[i + 1]
  ELSE userList[i]

SeqSend ==
  /\ stage[S] = "in" /\ sendQueue[S] # << >> /\ (sendAt = 1 => ~sent[S])
  /\ IF sendAt <= Len(userList)
     THEN /\ box' = Deliver(box, {Walked(sendAt)}, Head(sendQueue[S]))
          /\ sendAt' = sendAt + 1
          /\ UNCHANGED typeVars
     ELSE /\ PopSent(S)
          /\ sendAt' = 1
          /\ UNCHANGED box
  /\ UNCHANGED <<crossed, stage, seqVars, joinVars, leaderAddress, chatVars>>

(* exit(0) *)
TestDead(p) ==
  /\ stage[p] = "in" /\ bye[p] # "no"
  /\ sent[p] \/ sendQueue[p] = << >>
  /\ p = S => sendAt = 1
  /\ stage' = [stage EXCEPT ![p] = "gone"]
  /\ box' = Emptied(p)
  /\ UNCHANGED <<crossed, typeVars, seqVars, sendAt, joinVars, leaderAddress, chatVars>>

(* receiveMessage: ip and port are set in a JOIN and in a redirection only. *)
Key(d) == IF d.kind \in {"LINE", "LEAVE"} THEN lineKey[d.who] ELSE d.who

SeqReceive ==
  /\ stage[S] = "in" /\ box[S] # << >>
  /\ LET d == Head(box[S])
     IN /\ theirAddress' = d.from
        /\ fairQMap' = [fairQMap EXCEPT ![Key(d)] = Append(@, d)]
  /\ box' = Popped(S)
  /\ UNCHANGED <<crossed, typeVars, stage, shift, workVars, sendAt, joinVars, leaderAddress, chatVars>>

(* seqProcessMessage takes d from the queue of k. *)
Serve(k, d) ==
  /\ stage[S] = "in" /\ pending = Nobody /\ burst.left = << >>
  /\ shift.key \in {Nobody, k}
  /\ fairQMap[k] # << >> /\ d = Head(fairQMap[k])
  /\ fairQMap' = [fairQMap EXCEPT ![k] = Tail(@)]
  /\ UNCHANGED <<typeVars, theirAddress, burst, sendAt, joinVars, leaderAddress, chatVars>>

ServeJoin(k) == \E d \in Range(fairQMap[k]) :
  /\ d.kind = "JOIN" /\ Serve(k, d)
  /\ SendTo(box, theirAddress, Datagram("OK", Nobody, 0, S), d.who)
  /\ pending' = d.who
  /\ UNCHANGED <<stage, userList, beyond, shift, memberList, relayed>>

(* Wrong variant: the second loop stops one short. *)
WelcomeShort(list) ==
  <<<<Datagram("COUNT", Nobody, Len(list), S)>>,
    [i \in 1 .. Len(list) |-> Datagram("USER", Nobody, 0, S)],
    [i \in 1 .. Len(list) - 1 |-> Datagram("ENTRY", list[i], 0, S)]>>

(* The count, the members as lines to print, the members as list entries:  *)
(* one loop over the list after another.                                   *)
Welcome(list) ==
  <<<<Datagram("COUNT", Nobody, Len(list), S)>>,
    [i \in 1 .. Len(list) |-> Datagram("USER", Nobody, 0, S)],
    [i \in 1 .. Len(list) |-> Datagram("ENTRY", list[i], 0, S)]>>

(* multicast: of the joiner, to what theirAddress is by now. *)
Multicast ==
  /\ stage[S] = "in" /\ pending # Nobody
  /\ LET new == theirAddress \notin Range(userList)
     IN /\ userList' = IF new THEN Append(userList, theirAddress) ELSE userList
        /\ beyond' = IF new /\ beyond # << >> THEN Tail(beyond) ELSE beyond
        /\ box' = Deliver(box, IF new THEN Range(userList) ELSE {},
                          Datagram("NEWUSER", pending, 0, S))
  /\ crossed' = (crossed \/ theirAddress # pending)
  /\ memberList' = Append(memberList, pending)
  /\ burst' = [to |-> theirAddress, left |-> Welcome(memberList')]
  /\ pending' = Nobody
  /\ UNCHANGED <<typeVars, stage, theirAddress, fairQMap, shift, relayed, sendAt, joinVars,
                 leaderAddress, chatVars>>

Welcoming ==
  /\ stage[S] = "in" /\ burst.left # << >>
  /\ box' = IF Up(burst.to) THEN [box EXCEPT ![burst.to] = @ \o Head(burst.left)] ELSE box
  /\ burst' = IF Len(burst.left) = 1 THEN [to |-> Nobody, left |-> << >>]
              ELSE [burst EXCEPT !.left = Tail(@)]
  /\ UNCHANGED <<crossed, typeVars, stage, theirAddress, fairQMap, userList, beyond, shift,
                 memberList, pending, relayed, sendAt, joinVars, leaderAddress, chatVars>>

(* LEAVE, of whoever theirAddress is when userID is read. *)
StartLeave(k) ==
  /\ stage[S] = "in" /\ pending = Nobody /\ burst.left = << >> /\ shift.key = Nobody
  /\ fairQMap[k] # << >> /\ Head(fairQMap[k]).kind = "LEAVE"
  /\ shift' = [key |-> k, of |-> theirAddress, at |-> 0]
  /\ UNCHANGED <<netVars, typeVars, stage, theirAddress, fairQMap, workVars, sendAt, joinVars,
                 leaderAddress, chatVars>>

(* removeMember's loop goes through one more entry. *)
ShiftEntry ==
  /\ stage[S] = "in" /\ shift.key # Nobody /\ shift.at < Len(userList)
  /\ shift' = [shift EXCEPT !.at = @ + 1]
  /\ UNCHANGED <<netVars, typeVars, stage, theirAddress, fairQMap, workVars, sendAt, joinVars,
                 leaderAddress, chatVars>>

(* userList after the loop and no_of_members--, found or not. *)
Shifted(list, a) == IF a \in Range(list) THEN RemoveFirst(list, a)
                    ELSE IF list = << >> THEN list ELSE Front(list)

(* The entry after the last gets, or keeps, a value. *)
LeftBeyond(list, a) ==
  CASE a \in Range(list) /\ beyond # << >> -> <<Head(beyond)>> \o beyond
    [] a \notin Range(list) /\ list # << >> -> <<Last(list)>> \o beyond
    [] OTHER -> beyond

(* What follows the loop.  When memberList does not hold the process,      *)
(* delete is called through an iterator that was never set.                *)
ServeLeave(k) == \E d \in Range(fairQMap[k]) :
  /\ d.kind = "LEAVE" /\ Serve(k, d)
  /\ shift.key = k /\ shift.at = Len(userList)
  /\ userList' = Shifted(userList, shift.of)
  /\ beyond' = LeftBeyond(userList, shift.of)
  /\ shift' = NoShift
  /\ crossed' = (crossed \/ shift.of # d.who)
  /\ IF shift.of \in Range(memberList)
     THEN /\ memberList' = RemoveFirst(memberList, shift.of)
          /\ box' = Deliver(box, Range(userList'), Datagram("LEFT", shift.of, 0, S))
          /\ UNCHANGED stage
     ELSE /\ stage' = [stage EXCEPT ![S] = "gone"]
          /\ box' = Emptied(S)
          /\ UNCHANGED memberList
  /\ UNCHANGED <<pending, relayed>>

(* Wrong variant: relayed to all but the author. *)
ServeLineToOthers(k) == \E d \in Range(fairQMap[k]) :
  /\ d.kind \notin {"JOIN", "LEAVE"} /\ Serve(k, d)
  /\ relayed' = Append(relayed, [d EXCEPT !.from = S])
  /\ box' = Deliver(box, Range(userList) \ {d.who}, [d EXCEPT !.from = S])
  /\ UNCHANGED <<crossed, stage, userList, beyond, shift, memberList, pending>>

ServeLine(k) == \E d \in Range(fairQMap[k]) :
  /\ d.kind \notin {"JOIN", "LEAVE"} /\ Serve(k, d)
  /\ relayed' = Append(relayed, [d EXCEPT !.from = S])
  /\ box' = Deliver(box, Range(userList), [d EXCEPT !.from = S])
  /\ UNCHANGED <<crossed, stage, userList, beyond, shift, memberList, pending>>

SeqProcess == Multicast \/ Welcoming \/ ShiftEntry
              \/ \E k \in Keys : ServeJoin(k) \/ StartLeave(k) \/ ServeLeave(k) \/ ServeLine(k)

-----------------------------------------------------------------------------
(***************************************************************************)
(* connectChat: JOIN, then four kinds of datagram, each taken for what is  *)
(* due at that place.  Every recvfrom writes leaderAddress.                *)
(***************************************************************************)
Ask(m) ==
  /\ stage[m] = "out"
  /\ stage' = [stage EXCEPT ![m] = "reply"]
  /\ box' = Deliver(box, {Contact[m]}, Datagram("JOIN", m, 0, m))
  /\ UNCHANGED <<crossed, typeVars, seqVars, sendAt, joinVars, leaderAddress, chatVars>>

(* "no chat is active": only the first answer has a timeout. *)
GiveUp(m) ==
  /\ stage[m] = "reply" /\ box[m] = << >>
  /\ stage' = [stage EXCEPT ![m] = "gone"]
  /\ UNCHANGED <<netVars, typeVars, seqVars, sendAt, joinVars, leaderAddress, chatVars>>

(* The next n datagrams, at a stage where a kind of Expected is due.  A    *)
(* loop that takes n of them is one step: nobody sees it before its end.   *)
Taken(m, n) == SubSeq(box[m], 1, n)

Take(m, at, to, n, Expected) ==
  /\ stage[m] = at /\ box[m] # << >> /\ Len(box[m]) >= n
  /\ stage' = [stage EXCEPT ![m] = to]
  /\ box' = [box EXCEPT ![m] = SubSeq(@, n + 1, Len(@))]
  /\ leaderAddress' = [leaderAddress EXCEPT ![m] = box[m][n].from]
  /\ strayed' = IF \A i \in 1 .. n : box[m][i].kind \in Expected THEN strayed
                ELSE strayed \cup {m}
  /\ UNCHANGED <<crossed, typeVars, seqVars, sendAt, lineKey, receiveQueue>>

Shows(m, ds) == shown' = [shown EXCEPT ![m] = @ \o ds]

TakeReply(m) ==
  /\ Take(m, "reply", "count", 1, {"OK"})
  /\ Head(box[m]).kind # "REDIRECT"
  /\ Shows(m, Taken(m, 1))
  /\ UNCHANGED listVars

(* A new socket, and the same from the start. *)
TakeRedirect(m) ==
  /\ stage[m] = "reply" /\ box[m] # << >>
  /\ LET d == Head(box[m])
     IN /\ d.kind = "REDIRECT"
        /\ box' = Deliver(Emptied(m), {d.who}, Datagram("JOIN", m, 0, m))
        /\ leaderAddress' = [leaderAddress EXCEPT ![m] = d.who]
  /\ UNCHANGED <<crossed, typeVars, stage, seqVars, sendAt, joinVars, chatVars>>

(* atoi gives 0 for any other text. *)
TakeCount(m) ==
  /\ box[m] # << >>
  /\ LET d == Head(box[m])
         n == IF d.kind = "COUNT" THEN d.n ELSE 0
     IN /\ Take(m, "count", IF n = 0 THEN "in" ELSE "users", 1, {"COUNT"})
        /\ no_of_members' = [no_of_members EXCEPT ![m] = n]
  /\ UNCHANGED <<known, shown>>

TakeUsers(m) ==
  /\ Take(m, "users", "entries", no_of_members[m], {"USER"})
  /\ Shows(m, Taken(m, no_of_members[m]))
  /\ UNCHANGED listVars

(* addToMemberList reads the ip and port of whatever came. *)
Named(d) == IF d.kind \in {"ENTRY", "JOIN", "LEFT", "REDIRECT"} THEN d.who ELSE Nobody

TakeEntries(m) ==
  /\ Take(m, "entries", "in", no_of_members[m], {"ENTRY"})
  /\ known' = [known EXCEPT ![m] = @ \cup {Named(d) : d \in Range(Taken(m, no_of_members[m]))}]
  /\ UNCHANGED <<no_of_members, shown>>

-----------------------------------------------------------------------------
(***************************************************************************)
(* memberSend, memberReceive and memberProcessMessage.                     *)
(***************************************************************************)
MemberSend(m) ==
  /\ stage[m] = "in" /\ ~sent[m] /\ sendQueue[m] # << >>
  /\ SendTo(box, leaderAddress[m], Head(sendQueue[m]), S)
  /\ PopSent(m)
  /\ UNCHANGED <<stage, seqVars, sendAt, joinVars, leaderAddress, receiveQueue, listVars, shown>>

MemberReceive(m) ==
  /\ stage[m] = "in" /\ box[m] # << >>
  /\ leaderAddress' = [leaderAddress EXCEPT ![m] = Head(box[m]).from]
  /\ receiveQueue' = [receiveQueue EXCEPT ![m] = Append(@, Head(box[m]))]
  /\ box' = Popped(m)
  /\ UNCHANGED <<crossed, typeVars, stage, seqVars, sendAt, joinVars, listVars, shown>>

Process(m, d) ==
  /\ stage[m] = "in" /\ receiveQueue[m] # << >> /\ d = Head(receiveQueue[m])
  /\ receiveQueue' = [receiveQueue EXCEPT ![m] = Tail(@)]
  /\ UNCHANGED <<typeVars, seqVars, sendAt, joinVars, leaderAddress>>

(* The joiner is told the address on m's own command line: connectChat     *)
(* writes the one it was redirected to into its parameter, not the global. *)
Redirect(m) == \E d \in Range(receiveQueue[m]) :
  /\ d.kind = "JOIN" /\ Process(m, d)
  /\ SendTo(box, leaderAddress[m], Datagram("REDIRECT", Contact[m], 0, m), d.who)
  /\ UNCHANGED <<stage, listVars, shown>>

AddNotice(m) == \E d \in Range(receiveQueue[m]) :
  /\ d.kind = "NEWUSER" /\ Process(m, d)
  /\ known' = [known EXCEPT ![m] = @ \cup {d.who}]
  /\ no_of_members' = [no_of_members EXCEPT ![m] = @ + (IF d.who \in known[m] THEN 0 ELSE 1)]
  /\ UNCHANGED <<netVars, stage, shown>>

(* Wrong variant: the number of members stays. *)
RemoveUncounted(m) == \E d \in Range(receiveQueue[m]) :
  /\ d.kind \in {"LEFT", "LEAVESEQ"} /\ Process(m, d)
  /\ known' = [known EXCEPT ![m] = @ \ {d.who}]
  /\ UNCHANGED <<netVars, stage, no_of_members, shown>>

(* LEFT, and LEAVESEQ, which removes leaderAddress: the sequencer is in no *)
(* member's list, and delete goes through an iterator that was never set.  *)
RemoveFromList(m) == \E d \in Range(receiveQueue[m]) :
  /\ d.kind \in {"LEFT", "LEAVESEQ"} /\ Process(m, d)
  /\ LET a == IF d.kind = "LEFT" THEN d.who ELSE leaderAddress[m]
     IN /\ known' = [known EXCEPT ![m] = @ \ {a}]
        /\ no_of_members' = [no_of_members EXCEPT ![m] = @ - 1]
        /\ IF d.kind = "LEAVESEQ" /\ a \notin known[m]
           THEN /\ stage' = [stage EXCEPT ![m] = "gone"]
                /\ box' = Emptied(m)
           ELSE UNCHANGED <<stage, box>>
  /\ UNCHANGED <<crossed, shown>>

PrintOther(m) == \E d \in Range(receiveQueue[m]) :
  /\ d.kind \notin {"JOIN", "NEWUSER", "LEFT", "LEAVESEQ"} /\ Process(m, d)
  /\ Shows(m, <<d>>)
  /\ UNCHANGED <<netVars, stage, listVars>>

MemberProcess(m) == Redirect(m) \/ AddNotice(m) \/ RemoveFromList(m) \/ PrintOther(m)

ConnectChat(m) == \/ TakeReply(m) \/ TakeRedirect(m) \/ TakeCount(m)
                  \/ TakeUsers(m) \/ TakeEntries(m) \/ GiveUp(m)

Next == SeqSend \/ SeqReceive \/ SeqProcess
        \/ (\E p \in Proc : Type(p) \/ EndInput(p) \/ PushLeave(p) \/ TestDead(p))
        \/ (\E m \in Joiners : \/ Ask(m) \/ ConnectChat(m) \/ MemberSend(m)
                               \/ MemberReceive(m) \/ MemberProcess(m))

Spec == Init /\ [][Next]_vars

(* The threads run on, and a receive times out; nobody has to join, to     *)
(* type or to leave.                                                       *)
Threads == SeqSend \/ SeqReceive \/ SeqProcess \/ (\E p \in Proc : TestDead(p))
           \/ (\E m \in Joiners : \/ ConnectChat(m) \/ MemberSend(m)
                                  \/ MemberReceive(m) \/ MemberProcess(m))

FairSpec == Spec /\ WF_vars(Threads)

-----------------------------------------------------------------------------
(***************************************************************************)
(* Properties.                                                             *)
(***************************************************************************)
Settled(m) == /\ stage[m] = "in" /\ bye[m] # "sent" /\ m \notin strayed
              /\ box[m] = << >> /\ receiveQueue[m] = << >>

(***************************************************************************)
(* All that ever upsets the lists is an answer that went to another than   *)
(* the one it was for.  Without one, the sequencer stays up until it       *)
(* leaves, its two lists are the same, and a member that has caught up     *)
(* knows those members and no others (seqProcessMessage, multicast,        *)
(* removeMember; addNoticeMember and removeMemberFromList).  (Of userList  *)
(* as it is between two datagrams: in the middle of removeMember's loop an *)
(* entry stands in it twice.  Stated with the types of the lists.)         *)
(***************************************************************************)
TablesExact ==
  /\ TypeOK
  /\ ~crossed =>
       /\ stage[S] = "gone" => bye[S] # "no"
       /\ userList = memberList
       /\ \A m \in Joiners : Settled(m) =>
            /\ known[m] = Range(memberList)
            /\ no_of_members[m] = Len(memberList)

(***************************************************************************)
(* There are no numbers, but the members' lines are in one order all the   *)
(* same, that in which seqProcessMessage relays them, each author's as     *)
(* typed and none twice: whatever comes by way of the sequencer is shown   *)
(* in that order, and one that has caught up shows the last of them        *)
(* without a gap.  The sequencer's own lines keep their order too, and have *)
(* neither repetition nor gap until a member leaves: then removeMember     *)
(* shifts userList while sendMessage walks along it.                       *)
(***************************************************************************)
ByWayOf(d, Authors) == d.kind = "LINE" /\ d.from = S /\ d.who \in Authors

LineBySeq(p, n) == Datagram("LINE", p, n, S)

Before(s, d, e) == \E k, l \in DOMAIN s : k < l /\ s[k] = d /\ s[l] = e

RelayedAsTyped ==
  \A k, l \in DOMAIN relayed :
    /\ k < l /\ relayed[k].kind = "LINE" /\ relayed[l].kind = "LINE"
    /\ relayed[k].who = relayed[l].who
    => relayed[k].n < relayed[l].n

SomeoneLeft == \E p \in Joiners : bye[p] = "sent"

ShownInOrder(m) ==
  \A i, j \in DOMAIN shown[m] :
    LET d == shown[m][i]
        e == shown[m][j]
    IN /\ ByWayOf(d, Joiners) => d \in Range(relayed)
       /\ i < j /\ ByWayOf(d, Joiners) /\ ByWayOf(e, Joiners) => Before(relayed, d, e)
       /\ i < j /\ ByWayOf(d, {S}) /\ ByWayOf(e, {S}) =>
            d.n < e.n \/ (d.n = e.n /\ (crossed \/ SomeoneLeft))

ShownWithoutGap(m) ==
  /\ \A k, l \in DOMAIN relayed :
       k < l /\ relayed[k] \in Range(shown[m]) => relayed[l] \in Range(shown[m])
  /\ sendAt = 1 /\ ~SomeoneLeft =>
       \A n, o \in 1 .. typed[S] :
         /\ n < o /\ LineBySeq(S, n) \in Range(shown[m])
         /\ LineBySeq(S, o) \notin Range(sendQueue[S])
         => LineBySeq(S, o) \in Range(shown[m])

ShownAsRelayed ==
  /\ RelayedAsTyped
  /\ \A m \in Joiners : /\ ShownInOrder(m)
                        /\ ~crossed /\ Settled(m) => ShownWithoutGap(m)

(***************************************************************************)
(* A member may exit with lines unsent and without a LEAVE (isDead is set  *)
(* before LEAVE is pushed), but a LEAVE that is sent is the last of its    *)
(* datagrams: the sequencer removes nobody before relaying all it typed.   *)
(* (Until multicast has listed it a member has not been removed; one that  *)
(* strayed may have typed and left by then.)                               *)
(***************************************************************************)
LinesBeforeLeave ==
  \A m \in Joiners : bye[m] = "sent" =>
    /\ sendQueue[m] = << >>
    /\ ~crossed /\ m \notin Range(memberList) /\ pending # m =>
         \A n \in 1 .. typed[m] : LineBySeq(m, n) \in Range(relayed)

(* The sequencer has gone, or the answers have gone astray.                *)
Lost(m) == crossed \/ m \in strayed \/ stage[S] = "gone"

(***************************************************************************)
(* A join ends: only the first answer has a timeout, but a joiner that got *)
(* it gets the rest, if nothing else comes in between.                     *)
(***************************************************************************)
JoinEnds == <>[](\A m \in Joiners : stage[m] \in Joining => Lost(m))

(***************************************************************************)
(* A member that stays sees its own lines, by way of the sequencer.        *)
(***************************************************************************)
OwnLinesReturn ==
  <>[](\A m \in Joiners : stage[m] = "in" /\ ~Lost(m) =>
         \A n \in 1 .. typed[m] : LineBySeq(m, n) \in Range(shown[m]))
=============================================================================
