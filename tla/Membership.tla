----------------------------- MODULE Membership -----------------------------
(***************************************************************************)
(* How processes join and leave the chat of dchat.cpp under one sequencer: *)
(* main of a joining process, noticeThread of the sequencer and of the     *)
(* members, heartbeats and checkForDeadMembers, and the walk of the        *)
(* sequencer's sendMessage over socketList, which holds no lock while      *)
(* noticeThread changes that list.                                         *)
(*                                                                         *)
(* The network is prompt: datagrams to a join port arrive in the order in  *)
(* which they were sent, a datagram to a port nobody has open is lost, and *)
(* a receive timeout fires only when no answer is on its way.  A line is   *)
(* reduced to its number; its path is the subject of SequencedChat.        *)
(***************************************************************************)
EXTENDS Integers, Sequences, FiniteSets, SequencesExt

CONSTANTS
  Leader,       \* the sequencer
  Joiners,      \* the processes that may join, each once
  Contact,      \* Contact[j]: the address given to j on the command line
  MaxLines,     \* bound: lines multicast
  MaxCrashes,   \* bound: members that crash
  MaxReports    \* bound: LEAVEs of one member that wait for the sequencer's noticeThread

Procs == Joiners \cup {Leader}

ASSUME MembershipAssumption ==
         /\ Leader \notin Joiners
         /\ Procs \subseteq Int
         /\ Contact \in [Joiners -> Procs]
         /\ MaxLines \in Nat /\ MaxCrashes \in Nat /\ MaxReports \in Nat \ {0}

VARIABLES
  stage,         \* stage[p]: "out", "joining", "in", "left" or "crashed"
  mail,          \* mail[p]: datagrams in p's join port
  chatMembers,   \* chatMembers[p]: the keys of p's member table
  socketList,    \* socketList[p]
  checklist,     \* heartbeatChecklist of the sequencer
  admitting,     \* the joiners noticeThread has answered but not yet listed
  sendPc, it,    \* where the sequencer's sendMessage is, and its iterator
  current        \* current[p]: currentSequenceNumber

vars == <<stage, mail, chatMembers, socketList, checklist, admitting, sendPc, it,
          current>>

views == <<chatMembers, socketList>>
sending == <<sendPc, it>>

Msg(type, p) == [type |-> type, of |-> p]

Notices == [type : {"JOIN", "LEAVE", "NOTICE", "LEAVENOTICE"}, of : Procs]
Indirects == [type : {"INDIRECT"}, ld : Procs]
Replies == [type : {"REPLY"}, list : Seq(Procs), seq : Nat]
Datagrams == Notices \cup Indirects \cup Replies

TypeOK ==
  /\ stage \in [Procs -> {"out", "joining", "in", "left", "crashed"}]
  /\ mail \in [Procs -> Seq(Datagrams)]
  /\ chatMembers \in [Procs -> SUBSET Procs]
  /\ socketList \in [Procs -> Seq(Procs)]
  /\ checklist \subseteq Procs
  /\ admitting \subseteq Joiners
  /\ sendPc \in {"front", "walk", "dangling", "done"}
  /\ it \in Nat \ {0}
  /\ current \in [Procs -> Nat]

Init ==
  /\ stage = [p \in Procs |-> IF p = Leader THEN "in" ELSE "out"]
  /\ mail = [p \in Procs |-> << >>]
  /\ chatMembers = [p \in Procs |-> IF p = Leader THEN {p} ELSE {}]
  /\ socketList = [p \in Procs |-> IF p = Leader THEN <<p>> ELSE << >>]
  /\ checklist = {}
  /\ admitting = {}
  /\ sendPc = "front"
  /\ it = 1
  /\ current = [p \in Procs |-> IF p = Leader THEN 1 ELSE 0]

-----------------------------------------------------------------------------
In(p) == stage[p] = "in"

(* The join port is open from the start of main to the end of the process. *)
Reachable(p) == stage[p] \in {"joining", "in"}

Sent(box, p, m) == IF Reachable(p) THEN [box EXCEPT ![p] = Append(@, m)] ELSE box

(* m to every entry of list: an entry that occurs twice gets it twice. *)
ToList(box, list, m) ==
  [p \in Procs |-> IF Reachable(p)
                   THEN box[p] \o [n \in 1 .. Cardinality({i \in 1 .. Len(list) : list[i] = p}) |-> m]
                   ELSE box[p]]

Received(p, type) == In(p) /\ mail[p] # << >> /\ Head(mail[p]).type = type

Rest(p) == [mail EXCEPT ![p] = Tail(@)]

Place(list, p) == SelectLastInSeq(list, LAMBDA b : b = p)

Erase(list, p) == IF p \in ToSet(list) THEN RemoveAt(list, Place(list, p)) ELSE list

-----------------------------------------------------------------------------
(***************************************************************************)
(* main of a joining process, which asks a contact that has joined: while  *)
(* that one is joining, its own main would take the JOIN for its answer.   *)
(***************************************************************************)
Join(j) ==
  /\ stage[j] = "out"
  /\ stage[Contact[j]] \notin {"out", "joining"}
  /\ stage' = [stage EXCEPT ![j] = "joining"]
  /\ mail' = Sent(mail, Contact[j], Msg("JOIN", j))
  /\ UNCHANGED <<views, checklist, admitting, sending, current>>

(* The contact was not the sequencer: ask whom it names. *)
Redirected(j) ==
  /\ stage[j] = "joining"
  /\ mail[j] # << >>
  /\ Head(mail[j]).type = "INDIRECT"
  /\ mail' = Sent(Rest(j), Head(mail[j]).ld, Msg("JOIN", j))
  /\ UNCHANGED <<stage, views, checklist, admitting, sending, current>>

(* Wrong variant: two less than the number of the reply. *)
JoinedTwoBehind(j) ==
  /\ stage[j] = "joining"
  /\ mail[j] # << >>
  /\ Head(mail[j]).type = "REPLY"
  /\ chatMembers' = [chatMembers EXCEPT ![j] = ToSet(Head(mail[j]).list)]
  /\ socketList' = [socketList EXCEPT ![j] = Head(mail[j]).list]
  /\ current' = [current EXCEPT ![j] = Head(mail[j]).seq - 2]
  /\ stage' = [stage EXCEPT ![j] = "in"]
  /\ mail' = Rest(j)
  /\ UNCHANGED <<checklist, admitting, sending>>

(* The user list becomes both tables; the number is one less than that of  *)
(* the reply.  The threads start; the first heartbeat leaves at once.      *)
Joined(j) ==
  /\ stage[j] = "joining"
  /\ mail[j] # << >>
  /\ Head(mail[j]).type = "REPLY"
  /\ chatMembers' = [chatMembers EXCEPT ![j] = ToSet(Head(mail[j]).list)]
  /\ socketList' = [socketList EXCEPT ![j] = Head(mail[j]).list]
  /\ current' = [current EXCEPT ![j] = Head(mail[j]).seq - 1]
  /\ stage' = [stage EXCEPT ![j] = "in"]
  /\ mail' = Rest(j)
  /\ UNCHANGED <<checklist, admitting, sending>>

(* No answer within two seconds: "no chat is active". *)
GiveUp(j) ==
  /\ stage[j] = "joining"
  /\ mail[j] = << >>
  /\ \A p \in Procs : In(p) => Msg("JOIN", j) \notin ToSet(mail[p])
  /\ stage' = [stage EXCEPT ![j] = "left"]
  /\ UNCHANGED <<mail, views, checklist, admitting, sending, current>>

(* End of input: LEAVE to the process that answered the JOIN, then exit. *)
Leave(q) ==
  /\ q \in Joiners
  /\ In(q)
  /\ stage' = [stage EXCEPT ![q] = "left"]
  /\ mail' = [Sent(mail, Leader, Msg("LEAVE", q)) EXCEPT ![q] = << >>]
  /\ UNCHANGED <<views, checklist, admitting, sending, current>>

Crash(q) ==
  /\ Reachable(q)
  /\ Cardinality({p \in Joiners : stage[p] = "crashed"}) < MaxCrashes
  /\ stage' = [stage EXCEPT ![q] = "crashed"]
  /\ mail' = [mail EXCEPT ![q] = << >>]
  /\ UNCHANGED <<views, checklist, admitting, sending, current>>

-----------------------------------------------------------------------------
(***************************************************************************)
(* noticeThread.                                                           *)
(***************************************************************************)
(* The list of users as the reply carries it: the map from its end.        *)
UserList(S) == CHOOSE list \in [1 .. Cardinality(S) -> S] :
                 \A i, k \in 1 .. Cardinality(S) : i < k => list[i] > list[k]

(* Wrong variant: the reply is built before the joiner is added. *)
AnswerJoinEarly ==
  /\ Received(Leader, "JOIN")
  /\ admitting = {}
  /\ LET j == Head(mail[Leader]).of
     IN  /\ chatMembers' = [chatMembers EXCEPT ![Leader] = @ \cup {j}]
         /\ mail' = Sent(Rest(Leader), j, [type |-> "REPLY", seq |-> current[Leader],
                                           list |-> UserList(chatMembers[Leader])])
         /\ admitting' = {j}
  /\ UNCHANGED <<stage, socketList, checklist, sending, current>>

(* JOIN at the sequencer, up to the reply ... *)
AnswerJoin ==
  /\ Received(Leader, "JOIN")
  /\ admitting = {}
  /\ LET j == Head(mail[Leader]).of
     IN  /\ chatMembers' = [chatMembers EXCEPT ![Leader] = @ \cup {j}]
         /\ mail' = Sent(Rest(Leader), j, [type |-> "REPLY", seq |-> current[Leader],
                                           list |-> UserList(chatMembers'[Leader])])
         /\ admitting' = {j}
  /\ UNCHANGED <<stage, socketList, checklist, sending, current>>

(* ... then the NOTICE to those listed so far, and the new entry. *)
Admit(j) ==
  /\ In(Leader)
  /\ j \in admitting
  /\ mail' = ToList(mail, socketList[Leader], Msg("NOTICE", j))
  /\ socketList' = [socketList EXCEPT ![Leader] = Append(@, j)]
  /\ admitting' = {}
  /\ UNCHANGED <<stage, chatMembers, checklist, sending, current>>

(* Wrong variant: a member ignores the JOIN. *)
RedirectNobody(p) ==
  /\ p # Leader
  /\ Received(p, "JOIN")
  /\ mail' = Rest(p)
  /\ UNCHANGED <<stage, views, checklist, admitting, sending, current>>

(* JOIN at a member: INDIRECT, with the address of the sequencer. *)
Redirect(p) ==
  /\ p # Leader
  /\ Received(p, "JOIN")
  /\ mail' = Sent(Rest(p), Head(mail[p]).of, [type |-> "INDIRECT", ld |-> Leader])
  /\ UNCHANGED <<stage, views, checklist, admitting, sending, current>>

(* Wrong variant: the iterator keeps its position, not its entry. *)
IteratorByPosition(k) == UNCHANGED sending

(* erase invalidates the iterator of sendMessage if it stands on the entry. *)
IteratorAfterErase(k) ==
  IF sendPc = "walk" /\ k = it THEN sendPc' = "dangling" /\ it' = it
  ELSE sendPc' = sendPc /\ it' = IF sendPc # "front" /\ k \in 1 .. it - 1 THEN it - 1 ELSE it

(* LEAVE at the sequencer: forget the member, then tell the others. *)
HandleLeave ==
  /\ Received(Leader, "LEAVE")
  /\ admitting = {}
  /\ LET q == Head(mail[Leader]).of
         list == Erase(socketList[Leader], q)
     IN  /\ socketList' = [socketList EXCEPT ![Leader] = list]
         /\ chatMembers' = [chatMembers EXCEPT ![Leader] = @ \ {q}]
         /\ checklist' = checklist \ {q}
         /\ mail' = ToList(Rest(Leader), list, Msg("LEAVENOTICE", q))
         /\ IteratorAfterErase(Place(socketList[Leader], q))
  /\ UNCHANGED <<stage, admitting, current>>

(* Wrong variant: the sequencer lists the newcomer a second time. *)
HandleNoticeEverywhere(p) ==
  /\ Received(p, "NOTICE")
  /\ p = Leader => admitting = {}
  /\ mail' = Rest(p)
  /\ LET j == Head(mail[p]).of
     IN  /\ chatMembers' = [chatMembers EXCEPT ![p] = @ \cup {j}]
         /\ socketList' = [socketList EXCEPT ![p] = Append(@, j)]
  /\ UNCHANGED <<stage, checklist, admitting, sending, current>>

(* NOTICE and LEAVENOTICE: a member updates its tables; all print. *)
HandleNotice(p) ==
  /\ Received(p, "NOTICE")
  /\ p = Leader => admitting = {}
  /\ mail' = Rest(p)
  /\ LET j == Head(mail[p]).of
     IN  IF p = Leader THEN UNCHANGED views
         ELSE /\ chatMembers' = [chatMembers EXCEPT ![p] = @ \cup {j}]
              /\ socketList' = [socketList EXCEPT ![p] = Append(@, j)]
  /\ UNCHANGED <<stage, checklist, admitting, sending, current>>

HandleLeaveNotice(p) ==
  /\ Received(p, "LEAVENOTICE")
  /\ p = Leader => admitting = {}
  /\ mail' = Rest(p)
  /\ LET q == Head(mail[p]).of
     IN  IF p = Leader THEN UNCHANGED views
         ELSE /\ chatMembers' = [chatMembers EXCEPT ![p] = @ \ {q}]
              /\ socketList' = [socketList EXCEPT ![p] = Erase(@, q)]
  /\ UNCHANGED <<stage, checklist, admitting, sending, current>>

-----------------------------------------------------------------------------
(***************************************************************************)
(* Heartbeats: an ALIVE puts its sender on the checklist.                  *)
(***************************************************************************)
Heartbeat(q) ==
  /\ q \in Joiners
  /\ In(q) /\ In(Leader)
  /\ q \notin checklist
  /\ checklist' = checklist \cup {q}
  /\ UNCHANGED <<stage, mail, views, admitting, sending, current>>

Reports(q) == Cardinality({i \in 1 .. Len(mail[Leader]) : mail[Leader][i] = Msg("LEAVE", q)})

(* Wrong variant: the comparison with the ten seconds is inverted. *)
DeclareLiveDead(q) ==
  /\ In(Leader)
  /\ q \in checklist
  /\ In(q)
  /\ Reports(q) < MaxReports
  /\ mail' = Sent(mail, Leader, Msg("LEAVE", q))
  /\ UNCHANGED <<stage, views, checklist, admitting, sending, current>>

(* checkForDeadMembers: a member that has been silent for ten seconds is   *)
(* reported to the sequencer's own noticeThread, again each second until   *)
(* that has taken it off the checklist.                                    *)
DeclareDead(q) ==
  /\ In(Leader)
  /\ q \in checklist
  /\ ~In(q)
  /\ Reports(q) < MaxReports
  /\ mail' = Sent(mail, Leader, Msg("LEAVE", q))
  /\ UNCHANGED <<stage, views, checklist, admitting, sending, current>>

-----------------------------------------------------------------------------
(***************************************************************************)
(* sendMessage of the sequencer.                                           *)
(***************************************************************************)
TakeLine ==
  /\ In(Leader)
  /\ sendPc = "front"
  /\ current[Leader] <= MaxLines
  /\ sendPc' = "walk"
  /\ it' = 1
  /\ UNCHANGED <<stage, mail, views, checklist, admitting, current>>

(* One client is served: it accepts the number after its own and answers.  *)
(* The answer of a process that is joining comes when its threads run; a   *)
(* client that is gone is skipped after five attempts.                     *)
Serve ==
  /\ In(Leader)
  /\ sendPc = "walk"
  /\ it <= Len(socketList[Leader])
  /\ LET q == socketList[Leader][it]
     IN  /\ stage[q] # "joining"
         /\ IF In(q) /\ q # Leader /\ current[q] + 1 = current[Leader]
            THEN current' = [current EXCEPT ![q] = @ + 1]
            ELSE UNCHANGED current
  /\ it' = it + 1
  /\ UNCHANGED <<stage, mail, views, checklist, admitting, sendPc>>

(* The entry under the iterator has been erased, and its memory released:  *)
(* the process dies, or the old link still leads to the following entry.   *)
Dangle ==
  /\ In(Leader)
  /\ sendPc = "dangling"
  /\ \/ stage' = [stage EXCEPT ![Leader] = "crashed"] /\ UNCHANGED sendPc
     \/ sendPc' = "walk" /\ UNCHANGED stage
  /\ UNCHANGED <<mail, views, checklist, admitting, it, current>>

(* it == end: leave the loop ... *)
WalkEnds ==
  /\ In(Leader)
  /\ sendPc = "walk"
  /\ it > Len(socketList[Leader])
  /\ sendPc' = "done"
  /\ UNCHANGED <<stage, mail, views, checklist, admitting, it, current>>

(* ... then take the next number. *)
NextNumber ==
  /\ In(Leader)
  /\ sendPc = "done"
  /\ current' = [current EXCEPT ![Leader] = @ + 1]
  /\ sendPc' = "front"
  /\ it' = 1
  /\ UNCHANGED <<stage, mail, views, checklist, admitting>>

-----------------------------------------------------------------------------
Main(j) == Redirected(j) \/ Joined(j) \/ GiveUp(j)

NoticeThread(p) == \/ p = Leader /\ (AnswerJoin \/ HandleLeave \/ \E j \in Joiners : Admit(j))
                   \/ Redirect(p) \/ HandleNotice(p) \/ HandleLeaveNotice(p)

SendMessage == TakeLine \/ Serve \/ Dangle \/ WalkEnds \/ NextNumber

Next ==
  \/ \E j \in Joiners : \/ Join(j) \/ Leave(j) \/ Crash(j) \/ Main(j)
                        \/ Heartbeat(j) \/ DeclareDead(j)
  \/ \E p \in Procs : NoticeThread(p)
  \/ SendMessage

Spec == Init /\ [][Next]_vars

(* The threads run; nobody has to join, leave, type or crash. *)
FairSpec ==
  /\ Spec
  /\ WF_vars(Serve \/ Dangle \/ WalkEnds \/ NextNumber)
  /\ \A p \in Procs : WF_vars(NoticeThread(p))
  /\ \A j \in Joiners : WF_vars(Main(j)) /\ WF_vars(Heartbeat(j)) /\ WF_vars(DeclareDead(j))

-----------------------------------------------------------------------------
(***************************************************************************)
(* Properties.                                                             *)
(***************************************************************************)
(* What was there, or comes with a, and does not go with a later b, in s.  *)
Kept(s, there, a, b) ==
  \/ there /\ b \notin ToSet(s)
  \/ \E i \in 1 .. Len(s) : s[i] = a /\ \A k \in i + 1 .. Len(s) : s[k] # b

(* A member's table, once the notices in its join port are handled.        *)
AfterMail(q) ==
  {p \in Procs : Kept(mail[q], p \in chatMembers[q], Msg("NOTICE", p), Msg("LEAVENOTICE", p))}

(***************************************************************************)
(* Every member the sequencer lists has, or is about to have, the          *)
(* sequencer's own table: a join or leave is never missed, in whatever     *)
(* order joins, redirections and departures interleave (noticeThread).     *)
(***************************************************************************)
ViewsConverge ==
  In(Leader) /\ admitting = {} =>
    \A q \in ToSet(socketList[Leader]) : In(q) => AfterMail(q) = chatMembers[Leader]

(***************************************************************************)
(* The two tables of a process stay in step: socketList has each key of    *)
(* chatMembers exactly once (socketAction appends without looking).        *)
(***************************************************************************)
TablesAgree ==
  \A p \in Procs : In(p) =>
    /\ \A i, k \in 1 .. Len(socketList[p]) : socketList[p][i] = socketList[p][k] => i = k
    /\ ToSet(socketList[p]) = chatMembers[p] \ (IF p = Leader THEN admitting ELSE {})

Listed(q) == In(Leader) /\ In(q) /\ q \in ToSet(socketList[Leader])

(* The turn of q in a walk of the list. *)
Turn(list, q) == SelectInSeq(list, LAMBDA b : b = q)

(* What q should have when the walk of sendMessage is where it is: the     *)
(* current number if it has been served, and one less if it has not.       *)
InStep(q) ==
  LET served == sendPc = "done" \/ (sendPc # "front" /\ Turn(socketList[Leader], q) < it)
  IN  current[q] = IF served THEN current[Leader] ELSE current[Leader] - 1

(***************************************************************************)
(* A listed member that is in step is never left behind, nor served twice, *)
(* by what happens to socketList under the walk of sendMessage: appended   *)
(* entries, erased entries before the iterator, under it or after it.      *)
(***************************************************************************)
StaysInStep ==
  [][\A q \in Joiners : Listed(q) /\ InStep(q) /\ Listed(q)' => InStep(q)']_vars

(***************************************************************************)
(* A member that ends, by LEAVE or by a crash after its first heartbeat,   *)
(* is eventually forgotten by a sequencer that stays up.                   *)
(***************************************************************************)
GoneAreForgotten ==
  \A q \in Joiners :
    (stage[q] \in {"left", "crashed"} /\ q \in checklist)
      ~> (~In(Leader) \/ q \notin chatMembers[Leader] \cup ToSet(socketList[Leader]))

(***************************************************************************)
(* A process that joins by way of a member, or directly, is in as long as  *)
(* that member and the sequencer stay: no answer is lost between main, the *)
(* noticeThread that redirects it and the one that admits it.              *)
(***************************************************************************)
JoinsSucceed ==
  \A j \in Joiners :
    stage[j] = "joining"
      ~> (stage[j] \in {"in", "crashed"} \/ ~In(Leader) \/ ~In(Contact[j]))

-----------------------------------------------------------------------------
(***************************************************************************)
(* The inductive invariant behind ViewsConverge and TablesAgree.           *)
(***************************************************************************)
Twice(s, m) == \E i, k \in 1 .. Len(s) : i # k /\ s[i] = m /\ s[k] = m

Distinct(s) == \A i, k \in 1 .. Len(s) : s[i] = s[k] => i = k

Answered(q) == stage[q] = "joining" /\ mail[q] # << >> /\ Head(mail[q]).type = "REPLY"

Indirected(q) == mail[q] = <<[type |-> "INDIRECT", ld |-> Leader]>>

(* Those that have tables, or will have the table of the reply. *)
HasTable(q) == In(q) \/ Answered(q)
Table(q) == IF In(q) THEN chatMembers[q] ELSE ToSet(Head(mail[q]).list)

Knows(q, p) == Kept(mail[q], p \in Table(q), Msg("NOTICE", p), Msg("LEAVENOTICE", p))

(* The JOIN of j is still to be sent, or under way, or to be sent again. *)
Asking(j) == stage[j] = "out" \/ Indirected(j) \/ \E p \in Procs : Msg("JOIN", j) \in ToSet(mail[p])

(* What a process can have in its join port. *)
BoxOf(p) ==
  /\ {Msg("JOIN", Leader), Msg("LEAVE", Leader)} \cap ToSet(mail[p]) = {}
  /\ In(p) \/ p = Leader => ToSet(mail[p]) \subseteq Notices
  /\ ~Reachable(p) /\ p # Leader => mail[p] = << >>
  /\ stage[p] = "joining" =>
       \/ mail[p] = << >> \/ Indirected(p)
       \/ /\ Answered(p)
          /\ Head(mail[p]) \in Replies
          /\ Head(mail[p]).seq >= 1 /\ Distinct(Head(mail[p]).list)
          /\ ToSet(Tail(mail[p])) \subseteq Notices

(* One JOIN for each joiner, whom nobody knows before it is handled; those *)
(* the sequencer lists are about to know it only when it is listed too.    *)
Newcomers ==
  \A j \in Joiners :
    /\ stage[j] = "out" \/ Indirected(j) => \A p \in Procs : Msg("JOIN", j) \notin ToSet(mail[p])
    /\ \A p \in Procs :
         /\ ~Twice(mail[p], Msg("JOIN", j))
         /\ \A q \in Procs : Msg("JOIN", j) \in ToSet(mail[p]) \cap ToSet(mail[q]) => p = q
    /\ Asking(j) =>
         /\ j \notin chatMembers[Leader] \cup checklist /\ ~HasTable(j)
         /\ {Msg("LEAVE", j), Msg("LEAVENOTICE", j)} \cap ToSet(mail[Leader]) = {}
    /\ Asking(j) \/ j \in admitting =>
         \A p \in Joiners \ {j} : /\ HasTable(p) => j \notin Table(p)
                                 /\ Msg("NOTICE", j) \notin ToSet(mail[p])
    /\ stage[j] = "joining" /\ j \in chatMembers[Leader] => Answered(j)

(* A NOTICE is news, and comes once. *)
News ==
  \A q \in Joiners : HasTable(q) =>
    \A p \in Procs : Msg("NOTICE", p) \in ToSet(mail[q]) =>
      p \notin Table(q) /\ ~Twice(mail[q], Msg("NOTICE", p))

(* Those listed, and the one about to be, will know what the sequencer     *)
(* knows; the others hear of the one about to be listed when it is.        *)
Shared ==
  In(Leader) => \A p \in Procs :
    /\ Knows(Leader, p) <=> p \in chatMembers[Leader]
    /\ \A q \in Joiners : HasTable(q) /\ q \in ToSet(socketList[Leader]) \cup admitting =>
         (Knows(q, p) <=> p \in chatMembers[Leader] /\ (p \in admitting => q = p))

(* The sequencer lists itself, and admits one at a time. *)
Listing ==
  /\ stage[Leader] \in {"in", "crashed"} /\ current[Leader] >= 1
  /\ Leader \in chatMembers[Leader] /\ IsFiniteSet(chatMembers[Leader])
  /\ admitting \subseteq chatMembers[Leader] /\ \A i, j \in admitting : i = j
  /\ checklist \subseteq Joiners

(***************************************************************************)
(* What noticeThread and the start of main keep true on a network that     *)
(* delivers in order: a joiner sends one JOIN, whom nobody knows before;   *)
(* the sequencer announces nobody twice; and a member whose join port is   *)
(* handled has the sequencer's table, so that tables differ only by the    *)
(* notices still on their way.                                             *)
(***************************************************************************)
IInv == /\ TypeOK /\ Listing /\ Newcomers /\ News /\ Shared /\ TablesAgree
        /\ \A p \in Procs : BoxOf(p)
=============================================================================
