------------------------------- MODULE Roster -------------------------------
(***************************************************************************)
(* The addresses in the tables of a sequencer of dchat.cpp when datagrams  *)
(* are lost or late and processes start again: a process that finds port   *)
(* 3000 free takes it, so that one started after a crash has the address   *)
(* of the one that crashed (getPortNumber).                                *)
(*                                                                         *)
(* The sequencer may have taken over from another: the members it has then *)
(* send their LEAVE to the address on their command line, where nobody is. *)
(* Lines, numbers and the members' own tables are left out; Membership has *)
(* them, for joiners that join once over a prompt network.  The processes  *)
(* at one address are taken to be of one user: the keys of the checklist   *)
(* have the name, those of the tables only the address.                    *)
(***************************************************************************)
EXTENDS Integers, Sequences, FiniteSets, SequencesExt, Functions

CONSTANTS
  Addrs,       \* the addresses of processes other than the sequencer
  MaxStarts,   \* bound: processes, those of Init included
  MaxLosses,   \* bound: heartbeats lost
  MaxReports   \* bound: LEAVEs of one address that wait for noticeThread

ASSUME RosterAssumption ==
         /\ IsFiniteSet(Addrs)
         /\ MaxStarts \in Nat /\ MaxLosses \in Nat /\ MaxReports \in Nat \ {0}

VARIABLES
  \* the process at an address
  stage,         \* stage[a]: "none", "asking" or "in"
  veteran,       \* those that joined under the former sequencer
  marked,        \* those whose heartbeats happen to have type 0, as ALIVE
  answer,        \* answer[a]: the first datagram in a's join port, or "none"
  \* the sequencer
  mail,          \* the datagrams in its join port
  beats,         \* the addresses with an ALIVE on its way
  chatMembers, socketList, heartbeatChecklist,
  admitting,     \* the joiner that noticeThread has answered and not yet listed
  periods,       \* periods[a]: heartbeats missed since a's last ALIVE
  \* counters for the bounds, and history
  starts,        \* starts[a]: processes started at a
  losses,        \* heartbeats lost
  back           \* those put on the checklist after their departure

procVars == <<stage, veteran, marked, answer>>
watchVars == <<heartbeatChecklist, periods>>
listVars == <<chatMembers, socketList, admitting>>

vars == <<procVars, mail, beats, listVars, watchVars, starts, losses, back>>

(* checkForDeadMembers waits for ten seconds, heartbeatSend for three. *)
Patience == 3

Mail == [type : {"JOIN", "LEAVE"}, of : Addrs]

TypeOK ==
  /\ stage \in [Addrs -> {"none", "asking", "in"}]
  /\ veteran \subseteq Addrs /\ marked \subseteq Addrs
  /\ answer \in [Addrs -> {"none", "reply", "notice"}]
  /\ mail \in Seq(Mail)
  /\ beats \subseteq Addrs
  /\ chatMembers \subseteq Addrs
  /\ socketList \in Seq(Addrs)
  /\ admitting \in {{}} \cup {{a} : a \in Addrs}
  /\ heartbeatChecklist \subseteq Addrs
  /\ periods \in [Addrs -> 0 .. Patience]
  /\ starts \in [Addrs -> Nat]
  /\ losses \in Nat
  /\ back \subseteq Addrs

(* A chat just founded, or just taken over. *)
Init ==
  /\ veteran \in SUBSET Addrs
  /\ stage = [a \in Addrs |-> IF a \in veteran THEN "in" ELSE "none"]
  /\ marked \in SUBSET veteran
  /\ answer = [a \in Addrs |-> "none"]
  /\ mail = << >>
  /\ beats = {}
  /\ chatMembers = veteran
  /\ socketList = SetToSeq(veteran)
  /\ admitting = {}
  /\ heartbeatChecklist = {}
  /\ periods = [a \in Addrs |-> 0]
  /\ starts = [a \in Addrs |-> IF a \in veteran THEN 1 ELSE 0]
  /\ losses = 0
  /\ back = {}

-----------------------------------------------------------------------------
Listed(a) == a \in Range(socketList)

(* Sending to the join port of the sequencer: the datagram may be lost. *)
Post(type, a) == mail' \in {mail, Append(mail, [type |-> type, of |-> a])}

Ends(a) == /\ stage' = [stage EXCEPT ![a] = "none"]
           /\ answer' = [answer EXCEPT ![a] = "none"]
           /\ veteran' = veteran \ {a}
           /\ marked' = marked \ {a}

-----------------------------------------------------------------------------
(***************************************************************************)
(* main of a process: JOIN, directly or after an INDIRECT.                 *)
(***************************************************************************)
Start(a) ==
  /\ stage[a] = "none"
  /\ SumFunction(starts) < MaxStarts
  /\ starts' = [starts EXCEPT ![a] = @ + 1]
  /\ stage' = [stage EXCEPT ![a] = "asking"]
  /\ Post("JOIN", a)
  /\ marked' \in {marked, marked \cup {a}}
  /\ UNCHANGED <<veteran, answer, beats, listVars, watchVars, losses, back>>

(* The list of users ends the join.  A notice of the chat, whose sequencer *)
(* still lists the address, is read as a list too: it has not four parts,  *)
(* and main reads beyond the end of a vector.                              *)
TakeAnswer(a) ==
  /\ stage[a] = "asking"
  /\ \/ /\ answer[a] = "reply"
        /\ stage' = [stage EXCEPT ![a] = "in"]
        /\ answer' = [answer EXCEPT ![a] = "none"]
        /\ UNCHANGED <<veteran, marked>>
     \/ answer[a] = "notice" /\ Ends(a)
  /\ UNCHANGED <<mail, beats, listVars, watchVars, starts, losses, back>>

(* No answer in two seconds: main exits, or, after an INDIRECT, reads that *)
(* as a list of users, as above.                                           *)
GiveUp(a) ==
  /\ stage[a] = "asking" /\ answer[a] = "none"
  /\ Ends(a)
  /\ UNCHANGED <<mail, beats, listVars, watchVars, starts, losses, back>>

(* End of input.  connectIP and connectPort do not follow an election. *)
Leave(a) ==
  /\ stage[a] = "in"
  /\ Ends(a)
  /\ IF a \in veteran THEN UNCHANGED mail ELSE Post("LEAVE", a)
  /\ UNCHANGED <<beats, listVars, watchVars, starts, losses, back>>

Crash(a) ==
  /\ stage[a] # "none"
  /\ Ends(a)
  /\ UNCHANGED <<mail, beats, listVars, watchVars, starts, losses, back>>

(* heartbeatSend never sets message_type: a process sends whatever is in   *)
(* that place, and always the same.                                        *)
SendAlive(a) ==
  /\ stage[a] = "in" /\ a \in marked
  /\ a \notin beats
  /\ beats' = beats \cup {a}
  /\ UNCHANGED <<procVars, mail, listVars, watchVars, starts, losses, back>>

-----------------------------------------------------------------------------
(***************************************************************************)
(* noticeThread of the sequencer.                                          *)
(***************************************************************************)
First(type, a) == mail # << >> /\ Head(mail) = [type |-> type, of |-> a]

(* A datagram to every entry of list; at a process in the chat it only     *)
(* changes what this module leaves out.                                    *)
Notified(ans, list) ==
  [b \in Addrs |-> IF b \in Range(list) /\ stage[b] = "asking" /\ ans[b] = "none"
                   THEN "notice" ELSE ans[b]]

Answered(a) == IF stage[a] = "asking" /\ answer[a] = "none"
               THEN [answer EXCEPT ![a] = "reply"] ELSE answer

(* JOIN: the entry in chatMembers and the reply, which may be lost ...     *)
AnswerJoin(a) ==
  /\ admitting = {}
  /\ First("JOIN", a)
  /\ mail' = Tail(mail)
  /\ chatMembers' = chatMembers \cup {a}
  /\ answer' \in {answer, Answered(a)}
  /\ admitting' = {a}
  /\ UNCHANGED <<stage, veteran, marked, beats, socketList, watchVars, starts, losses, back>>

(* ... the NOTICE to those listed and the entry in socketList.  An address *)
(* already listed is entered a second time.                                *)
Admit(a) ==
  /\ a \in admitting
  /\ admitting' = {}
  /\ answer' = Notified(answer, socketList)
  /\ socketList' = Append(socketList, a)
  /\ UNCHANGED <<stage, veteran, marked, mail, beats, chatMembers, watchVars, starts,
                 losses, back>>

(* Wrong variant: the iterator is used whether or not the search found it. *)
ErasedUnfound(list, a) ==
  IF list = << >> THEN list
  ELSE RemoveAt(list, IF a \in Range(list) THEN SelectLastInSeq(list, LAMBDA b : b = a)
                      ELSE Len(list))

Erased(list, a) == IF a \in Range(list) THEN RemoveAt(list, SelectLastInSeq(list, LAMBDA b : b = a))
                   ELSE list

(* Wrong variant: the checklist keeps who left. *)
HandleLeaveWatching(a) ==
  /\ admitting = {}
  /\ First("LEAVE", a)
  /\ mail' = Tail(mail)
  /\ socketList' = Erased(socketList, a)
  /\ chatMembers' = chatMembers \ {a}
  /\ answer' = Notified(answer, socketList')
  /\ UNCHANGED <<stage, veteran, marked, beats, admitting, watchVars, starts, losses, back>>

(* LEAVE: out of all tables, and the LEAVENOTICE to the others. *)
HandleLeave(a) ==
  /\ admitting = {}
  /\ First("LEAVE", a)
  /\ mail' = Tail(mail)
  /\ socketList' = Erased(socketList, a)
  /\ chatMembers' = chatMembers \ {a}
  /\ heartbeatChecklist' = heartbeatChecklist \ {a}
  /\ periods' = [periods EXCEPT ![a] = 0]
  /\ answer' = Notified(answer, socketList')
  /\ UNCHANGED <<stage, veteran, marked, beats, admitting, starts, losses, back>>

-----------------------------------------------------------------------------
(***************************************************************************)
(* heartbeatReceive and checkForDeadMembers of the sequencer.              *)
(***************************************************************************)
(* An ALIVE, perhaps after the departure of its sender. *)
ReceiveAlive(a) ==
  /\ a \in beats
  /\ beats' = beats \ {a}
  /\ heartbeatChecklist' = heartbeatChecklist \cup {a}
  /\ periods' = [periods EXCEPT ![a] = 0]
  /\ back' = IF a \in chatMembers THEN back ELSE back \cup {a}
  /\ UNCHANGED <<procVars, mail, listVars, starts, losses>>

(* Three seconds without one: it was lost, or nobody sends any. *)
Silence(a) ==
  /\ a \in heartbeatChecklist
  /\ periods[a] < Patience
  /\ a \notin beats
  /\ \/ (stage[a] # "in" \/ a \notin marked) /\ UNCHANGED losses
     \/ stage[a] = "in" /\ losses < MaxLosses /\ losses' = losses + 1
  /\ periods' = [periods EXCEPT ![a] = @ + 1]
  /\ UNCHANGED <<procVars, mail, beats, listVars, heartbeatChecklist, starts, back>>

Reports(a) == Cardinality({i \in 1 .. Len(mail) : mail[i] = [type |-> "LEAVE", of |-> a]})

(* Wrong variant: the limit is shorter than three periods. *)
DeclareDeadEarly(a) ==
  /\ a \in heartbeatChecklist
  /\ periods[a] >= Patience - 1
  /\ Reports(a) < MaxReports
  /\ mail' = Append(mail, [type |-> "LEAVE", of |-> a])
  /\ UNCHANGED <<procVars, beats, listVars, watchVars, starts, losses, back>>

(* Wrong variant: one that is not listed is not looked at. *)
DeclareDeadListed(a) ==
  /\ a \in heartbeatChecklist /\ a \in chatMembers
  /\ periods[a] = Patience
  /\ Reports(a) < MaxReports
  /\ mail' = Append(mail, [type |-> "LEAVE", of |-> a])
  /\ UNCHANGED <<procVars, beats, listVars, watchVars, starts, losses, back>>

(* More than ten seconds: LEAVE, in the name of the silent one, to itself, *)
(* and again each second until noticeThread has erased the key.            *)
DeclareDead(a) ==
  /\ a \in heartbeatChecklist
  /\ periods[a] = Patience
  /\ Reports(a) < MaxReports
  /\ mail' = Append(mail, [type |-> "LEAVE", of |-> a])
  /\ UNCHANGED <<procVars, beats, listVars, watchVars, starts, losses, back>>

Next == \E a \in Addrs :
          \/ Start(a) \/ TakeAnswer(a) \/ GiveUp(a) \/ Leave(a) \/ Crash(a) \/ SendAlive(a)
          \/ AnswerJoin(a) \/ Admit(a) \/ HandleLeave(a)
          \/ ReceiveAlive(a) \/ Silence(a) \/ DeclareDead(a)

Spec == Init /\ [][Next]_vars

(* The sequencer's threads run, heartbeats are sent and arrive, and time   *)
(* passes; nobody has to start, to leave or to crash.                      *)
FairSpec ==
  /\ Spec
  /\ \A a \in Addrs :
       /\ WF_vars(TakeAnswer(a) \/ GiveUp(a)) /\ WF_vars(SendAlive(a)) /\ WF_vars(ReceiveAlive(a))
       /\ WF_vars(AnswerJoin(a) \/ Admit(a) \/ HandleLeave(a))
       /\ WF_vars(Silence(a)) /\ WF_vars(DeclareDead(a))

-----------------------------------------------------------------------------
(***************************************************************************)
(* Properties.                                                             *)
(***************************************************************************)
(***************************************************************************)
(* A member that was the first at its address, and whose heartbeats were   *)
(* not lost three times, stays in both tables while it runs; from its      *)
(* reply on, but for the entry that is about to be made.  (One started     *)
(* again can be removed for the silence of the one before it, and is sent  *)
(* no line from then on: DeclareDead knows addresses, not processes.)      *)
(***************************************************************************)
InTables(a) == a \in chatMembers /\ (Listed(a) \/ a \in admitting)

LiveStayListed ==
  \A a \in Addrs : stage[a] = "in" /\ starts[a] = 1 /\ losses < Patience => InTables(a)

(***************************************************************************)
(* A departure, once handled, is over: it is reported again only if an     *)
(* ALIVE came after it, and the reports that are still under way, one for  *)
(* each second that noticeThread was late, find nothing more to erase (of  *)
(* an address used once; heartbeatReceive, checkForDeadMembers,            *)
(* socketAction and noticeThread together).                                *)
(***************************************************************************)
Reported(a) == stage' = stage /\ mail' = Append(mail, [type |-> "LEAVE", of |-> a])

RepeatsHarmless ==
  [][ \A a \in Addrs : a \notin chatMembers =>
        /\ Reported(a) => a \in back
        /\ First("LEAVE", a) /\ mail' = Tail(mail) /\ starts[a] <= 1 =>
             UNCHANGED <<chatMembers, socketList>> ]_vars

(***************************************************************************)
(* Whoever is on the checklist and gone is off it and off chatMembers in   *)
(* the end, whatever was lost on the way, unless the address is used       *)
(* again; and off socketList, unless it was: erase takes one entry.  Only  *)
(* those the sequencer has not heard of can stay for ever: their reply was *)
(* lost, they crashed or left too early, or their heartbeats have not the  *)
(* type 0.                                                                 *)
(***************************************************************************)
HeardAreForgotten ==
  \A a \in Addrs :
    a \in heartbeatChecklist /\ stage[a] = "none" ~>
      \/ stage[a] # "none"
      \/ /\ a \notin heartbeatChecklist /\ a \notin chatMembers
         /\ Listed(a) => starts[a] > 1

-----------------------------------------------------------------------------
(***************************************************************************)
(* The inductive invariant behind LiveStayListed and RepeatsHarmless.      *)
(***************************************************************************)
Waits(type, a) == \E i \in 1 .. Len(mail) : mail[i] = [type |-> type, of |-> a]

Watched(a) == a \in beats \cup heartbeatChecklist

(* Nothing is known of an address that nobody has used. *)
UnusedUnknown ==
  \A a \in Addrs : starts[a] = 0 =>
    /\ stage[a] = "none" /\ answer[a] = "none" /\ periods[a] = 0
    /\ ~Waits("JOIN", a) /\ ~Waits("LEAVE", a) /\ ~Watched(a)
    /\ a \notin chatMembers \cup admitting /\ ~Listed(a)

(* The first process at an address is heard of only when it is in, is sent *)
(* a reply when it is listed, and is off the tables only after it left, or *)
(* after as many heartbeats were lost as DeclareDead waits for.            *)
FirstLife ==
  \A a \in Addrs : starts[a] = 1 /\ losses < Patience =>
    /\ stage[a] # "none" => ~Waits("LEAVE", a) /\ periods[a] <= losses
    /\ stage[a] = "asking" => ~Watched(a)
    /\ stage[a] = "asking" /\ answer[a] = "reply" => InTables(a)
    /\ stage[a] = "in" => InTables(a) /\ (Watched(a) => a \in marked)

(* An address used once has a JOIN under way, or is in both tables (the    *)
(* second entry perhaps about to be made) and once in each, or in none.    *)
Once(s, e) == \A i, j \in 1 .. Len(s) : s[i] = e /\ s[j] = e => i = j

EnteredOnce ==
  \A a \in Addrs : starts[a] <= 1 =>
    /\ a \in chatMembers <=> Listed(a) \/ a \in admitting
    /\ ~(Listed(a) /\ a \in admitting)
    /\ Waits("JOIN", a) => a \notin chatMembers
    /\ Once(socketList, a) /\ Once(mail, [type |-> "JOIN", of |-> a])

(* The checklist has nobody who is gone, unless an ALIVE came late. *)
WatchedIn == heartbeatChecklist \subseteq chatMembers \cup back

(***************************************************************************)
(* What noticeThread, heartbeatReceive and checkForDeadMembers keep true   *)
(* of an address used once: nobody knows it before its JOIN, a live        *)
(* process there has been listed before it is in, and is not reported      *)
(* unless its heartbeats are lost, and it has one entry in each table.     *)
(***************************************************************************)
IInv == TypeOK /\ UnusedUnknown /\ FirstLife /\ EnteredOnce /\ WatchedIn
=============================================================================
