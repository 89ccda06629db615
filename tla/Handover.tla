------------------------------ MODULE Handover ------------------------------
(***************************************************************************)
(* What happens to the numbering of lines when the sequencer of dchat.cpp  *)
(* changes: a sequencer crashes, possibly in the middle of a multicast,    *)
(* and another process takes over with the currentSequenceNumber it had as *)
(* a member, the last number it accepted.                                  *)
(*                                                                         *)
(* The election itself is the subject of Election and the transport of a   *)
(* line that of SequencedChat; here the network is prompt, a live client   *)
(* gets each line once, and a dead one is skipped.                         *)
(*                                                                         *)
(* The thread sendMessage of a new sequencer is still in its member        *)
(* branch, waiting in sendQueue.front(): the next line it takes it sends   *)
(* to the address of the sequencer, which is its own.                      *)
(***************************************************************************)
EXTENDS Integers

CONSTANTS
  Procs,       \* the processes of the chat
  Founder,     \* the first sequencer
  MaxLines,    \* bound: lines that sequencers take
  MaxCrashes   \* bound: sequencers or members that crash

ASSUME HandoverAssumption ==
         /\ Founder \in Procs
         /\ MaxLines \in Nat /\ MaxCrashes \in Nat

VARIABLES
  alive,      \* the processes that have not crashed
  leader,     \* the process whose checkLeader was set last
  current,    \* current[p]: currentSequenceNumber
  sending,    \* the sequencer is between the first and the last client
  pending,    \* the clients its multicast has not reached yet
  asMember,   \* the sequencer's sendMessage is still in its member branch
  lines,      \* lines the sequencers took so far; a line is its position
  since,      \* history: lines taken by the present sequencer
  lastShown,  \* history: the last line each process has shown
  crashes     \* crashes so far

vars == <<alive, leader, current, sending, pending, asMember, lines, since, lastShown,
          crashes>>

TypeOK ==
  /\ alive \in SUBSET Procs
  /\ leader \in Procs
  /\ current \in [Procs -> Nat]
  /\ sending \in BOOLEAN
  /\ pending \in SUBSET Procs
  /\ asMember \in BOOLEAN
  /\ lines \in Nat
  /\ since \in Nat
  /\ lastShown \in [Procs -> Nat]
  /\ crashes \in Nat

Init ==
  /\ alive = Procs
  /\ leader = Founder
  /\ current = [p \in Procs |-> IF p = Founder THEN 1 ELSE 0]
  /\ sending = FALSE
  /\ pending = {}
  /\ asMember = FALSE
  /\ lines = 0
  /\ since = 0
  /\ lastShown = [p \in Procs |-> 0]
  /\ crashes = 0

-----------------------------------------------------------------------------
(* sendMessage takes the next line and starts on its clients, itself among *)
(* them; the order of socketList differs from process to process.          *)
StartLine ==
  /\ leader \in alive
  /\ ~sending
  /\ ~asMember
  /\ lines < MaxLines
  /\ lines' = lines + 1
  /\ since' = since + 1
  /\ sending' = TRUE
  /\ pending' = alive
  /\ UNCHANGED <<alive, leader, current, asMember, lastShown, crashes>>

(* receiveMessage: the sequencer takes everything, a member only the       *)
(* number after its own.                                                   *)
Serve(q) ==
  /\ leader \in alive
  /\ sending
  /\ q \in pending
  /\ pending' = pending \ {q}
  /\ LET accepts == q \in alive /\ q # leader /\ current[q] + 1 = current[leader]
     IN  /\ current' = [current EXCEPT ![q] = IF accepts THEN @ + 1 ELSE @]
         /\ lastShown' = [lastShown EXCEPT ![q] = IF accepts \/ q = leader THEN lines
                                                                          ELSE @]
  /\ UNCHANGED <<alive, leader, sending, asMember, lines, since, crashes>>

(* Every client served: the next number. *)
LineDone ==
  /\ leader \in alive
  /\ sending
  /\ pending = {}
  /\ sending' = FALSE
  /\ current' = [current EXCEPT ![leader] = @ + 1]
  /\ UNCHANGED <<alive, leader, pending, asMember, lines, since, lastShown, crashes>>

(* The member branch: a line that processMessage already marked SEQ_CHAT   *)
(* comes back to receiveMessage as if it had been multicast, is shown, and *)
(* goes nowhere else.                                                      *)
KeepLine ==
  /\ leader \in alive
  /\ asMember
  /\ lines < MaxLines
  /\ lines' = lines + 1
  /\ since' = since + 1
  /\ lastShown' = [lastShown EXCEPT ![leader] = lines + 1]
  /\ asMember' = FALSE
  /\ UNCHANGED <<alive, leader, current, sending, pending, crashes>>

(* A line typed there is still a CHAT, and comes back to be ordered.       *)
ReturnLine ==
  /\ leader \in alive
  /\ asMember
  /\ asMember' = FALSE
  /\ UNCHANGED <<alive, leader, current, sending, pending, lines, since, lastShown,
                 crashes>>

-----------------------------------------------------------------------------
Crash(p) ==
  /\ p \in alive
  /\ crashes < MaxCrashes
  /\ crashes' = crashes + 1
  /\ alive' = alive \ {p}
  /\ UNCHANGED <<leader, current, sending, pending, asMember, lines, since, lastShown>>

(* Wrong variants: the new sequencer takes the number after its own, or    *)
(* starts from 1 as a founder does.                                        *)
TakeOverNext(p) ==
  /\ leader \notin alive
  /\ p \in alive
  /\ leader' = p
  /\ current' = [current EXCEPT ![p] = @ + 1]
  /\ sending' = FALSE
  /\ pending' = {}
  /\ asMember' = TRUE
  /\ since' = 0
  /\ UNCHANGED <<alive, lines, lastShown, crashes>>

TakeOverAfresh(p) ==
  /\ leader \notin alive
  /\ p \in alive
  /\ leader' = p
  /\ current' = [current EXCEPT ![p] = 1]
  /\ sending' = FALSE
  /\ pending' = {}
  /\ asMember' = TRUE
  /\ since' = 0
  /\ UNCHANGED <<alive, lines, lastShown, crashes>>

(* heartbeatReceive or sendElection sets checkLeader; nothing touches      *)
(* currentSequenceNumber.                                                  *)
TakeOver(p) ==
  /\ leader \notin alive
  /\ p \in alive
  /\ leader' = p
  /\ sending' = FALSE
  /\ pending' = {}
  /\ asMember' = TRUE
  /\ since' = 0
  /\ UNCHANGED <<alive, current, lines, lastShown, crashes>>

Next == \/ StartLine
        \/ LineDone
        \/ KeepLine \/ ReturnLine
        \/ \E p \in Procs : Serve(p) \/ Crash(p) \/ TakeOver(p)

Spec == Init /\ [][Next]_vars

-----------------------------------------------------------------------------
(***************************************************************************)
(* Properties.                                                             *)
(***************************************************************************)
Clients == alive \ {leader}

(***************************************************************************)
(* However often the sequencer crashes, and wherever in its multicast, no  *)
(* live member waits for a number that its sequencer will not send again:  *)
(* a member that is behind never accepts anything more (receiveMessage).   *)
(***************************************************************************)
NobodyLeftBehind ==
  leader \in alive =>
    \A q \in Clients : current[q] >= current[leader] - 1

(***************************************************************************)
(* A new sequencer may keep a line to itself, and gives out numbers its    *)
(* members have already seen, which they drop (and acknowledge).  That     *)
(* costs its first three lines at most: the fourth, and every later one,   *)
(* is shown by every live process.                                         *)
(***************************************************************************)
FourthLineShown ==
  leader \in alive /\ ~sending /\ since >= 4 => \A p \in alive : lastShown[p] = lines

(* The processes that may have to agree on the next number.  A sequencer   *)
(* that is alive runs ahead of them by its own count.                      *)
OneApart == \A q, r \in Clients : current[q] <= current[r] + 1

(* Whoever the multicast has passed is not behind.                         *)
PassedHaveIt ==
  leader \in alive /\ sending => \A q \in Clients \ pending : current[q] >= current[leader]

(* How far clients may be ahead of the sequencer's numbers: one after a    *)
(* takeover, and one less after each line it multicasts.                   *)
CatchUp ==
  leader \in alive =>
    \A q \in Clients :
      /\ current[q] <= current[leader] + 1
      /\ since >= 2 /\ ~sending => current[q] <= current[leader]
      /\ since >= 3 => current[q] <= current[leader]
      /\ since >= 3 /\ ~sending => current[q] <= current[leader] - 1
      /\ since >= 4 /\ q \in pending => current[q] <= current[leader] - 1

(* The fourth line is shown by those the multicast has passed.             *)
PassedShowIt ==
  leader \in alive /\ sending /\ since >= 4 =>
    \A p \in alive \ pending : lastShown[p] = lines

(* A sequencer still in its member branch has taken no line.               *)
NoneTakenYet == asMember => ~sending /\ since = 0

Core == TypeOK /\ NobodyLeftBehind /\ OneApart /\ PassedHaveIt

IInv == Core /\ CatchUp /\ PassedShowIt /\ NoneTakenYet /\ FourthLineShown
=============================================================================
