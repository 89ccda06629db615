# The distributed chat in TLA+

TLA+ models, model-checking configurations and machine-checked proofs for the
distributed text-based chat in `src/`. The program that `make` builds is
`dchat.cpp` with `structures.h` and `server_udp.cpp`; `make fair` builds the
variant `dchat_fairQ.cpp`, `make encrypt` the variant `dchat_encrypt.cpp`, and
`dchat_queue.cpp` with `structures_queue.h` is an earlier program in which the
sequencer relays lines without numbering them. There are no tests and no documentation beside the comments; the models are
translations of the code.

## 1. The system

A chat is a group of processes that exchange UDP datagrams. One of them is the
*sequencer* (`checkLeader == true`; the comments also say leader), the others are
*members*. Each process opens five ports: join (`p`), chat (`p+1`), heartbeat
send (`p+2`), ack (`p+3`), heartbeat receive (`p+4`), and runs `main` and eight
threads, which share three queues, two tables and a counter.

| component | state | operations | talks to |
|---|---|---|---|
| data path: `main`'s input loop, `sendMessage`, `receiveMessage`, `processMessage` | `sendQueue`, `holdbackQueue`, `currentSequenceNumber`, `retry_send`, the iterator over `socketList` | type, send to the sequencer until an ACK, number and multicast with five attempts per client, accept the next number, show or queue | chat and ack ports; `printQueue` |
| screen queue: `Queue<T>`, `printMessage` | a deque, a mutex, a condition variable | `push`, `push_front`, `front`, `pop` | filled by `processMessage` and `noticeThread` |
| membership: start of `main`, `noticeThread`, `checkForDeadMembers`, `memberAddition`, `socketAction` | `chatMembers`, `socketList`, `heartbeatChecklist` | join, redirect, admit, leave, notices, report the dead | join ports; the list `sendMessage` walks over |
| election: `heartbeatSend`, `heartbeatReceive`, `sendElection`, `removeHigherMembers` | `checkLeader`, `ld`, `highestIpPort`, `retry`, the socket's timeout | heartbeats, ELECTION, OK, LEADERS, rounds after silence | heartbeat ports |
| handover | `currentSequenceNumber` and the position of `sendMessage` when `checkLeader` changes | takeover | data path and election |
| fair-queue variant | `fairQMap`, a queue per author | file a datagram under its author, sweep, takeover with a bogus message | as the data path |
| codec: `encrypt`, `decrypt`, `parseMessage` | none | pure functions | `main`, `printMessage`, user lists |
| earlier program: `connectChat`, `seqProcessMessage`, `multicast`, `memberProcessMessage` and the threads around them | `fairQMap`, `userList`, `memberList`, `no_of_members`, and the globals `theirAddress` and `leaderAddress`, the source of the last datagram | join, redirect, exchange the list, relay, leave | one chat socket per process |
| sockets, start-up | `Server` objects | open, bind, find an address and a free port | the operating system |

What is hard: eight threads share queues and lists, some without the lock
(`sendMessage`, 665, and `heartbeatSend`, 817, walk `socketList` unlocked);
datagrams are lost, repeated and reordered, ACKs name no line, and timeouts race
with late ACKs; clients and sequencers die in the middle of a multicast or of a
burst of heartbeats; the election is made of timeouts; a takeover switches the
roles of threads that are blocked in the branch of the old role.

What makes each component correct:

* data path: all members show prefixes of one order, without gap or repetition;
  on a network that behaves, each line is numbered once and everybody alive
  shows it; a dead client does not stop the others;
* screen queue: chat lines in order, none lost, no wake-up lost;
* membership: the tables converge; a member in step is neither skipped nor
  served twice by changes of the list; the dead are forgotten; joins end;
* election: at most one sequencer; after the death of one, all agree on another;
* handover: no member waits for a number that is past;
* fair queue: lines of an author keep their order, none is lost or repeated, no
  author is starved;
* codec and screen: who reads a line reads what was typed, who joins reads the
  users that are there;
* earlier program: the sequencer's two lists and the members' lists agree, lines
  come in the order of the relay, joins end, a member sees its own lines.

## 2. The modules

| module | what it is | lines of code |
|---|---|---|
| `TotalOrder` | abstract: lines are put into one order, members show prefixes of it | – |
| `SequencedChat` | the data path of `dchat.cpp` for a fixed group | `main` 226-271, 588-797 |
| `MCSequencedChat` | small groups for TLC | – |
| `SequencedChat_proofs` | its invariants, the refinement of `TotalOrder`, and what holds on a prompt network | – |
| `PrintQueue` | template `Queue` with `printMessage` | `structures.h` 85-168, `dchat.cpp` 1115-1142 |
| `Membership`, `MCMembership`, `Membership_proofs` | joins, departures, the failure detector, the unlocked walk, and proofs | 73-256, 363-587, 636-709, 865-891, 1075-1113 |
| `Election`, `Election_proofs` | replacement of a dead sequencer, in seconds, and proofs | 800-1072, 1184-1242 |
| `Handover`, `Handover_proofs` | the numbering across takeovers, and proofs | 610-709, 908-956 |
| `Roster`, `Roster_proofs` | the sequencer's tables when datagrams are lost and addresses used again, and proofs | 74-256, 312-332, 401-427, 443-548, 800-891, 1075-1113 |
| `Codec` | the text of lines and of the list of users | 170-206, 257-269, 453-462, 1145-1163, 1268-1291 |
| `Screen`, `MCScreen`, `Screen_proofs` | `PrintQueue` with what `printMessage` writes, and proofs about both | `dchat_encrypt.cpp` 1115-1142 |
| `QueueChat`, `MCQueueChat`, `QueueChat_proofs` | the earlier program, without its heartbeats, and proofs | `dchat_queue.cpp` 129-985, 1286-1375 |
| `FairQueue`, `FairQueue_proofs` | the sequencer of `dchat_fairQ.cpp`, and proofs | 599-809, 899-970, 1205-1215 of that file |

Each module names the code's variables as the code does; its header says what
it leaves to others. An action is one thread up to the next point at which
another thread or process can tell the difference: a blocking call, a datagram,
a change of a shared queue, list or number. A thread that blocks in the middle of
its loop has a program counter (`waiting`, `leaderPc`, `sendPc`, `processPc`,
`pc`, `asMember`). Datagrams are records without the text; a line is its author
and its position among that author's lines. Definitions headed "Wrong variant"
are not part of any specification: they are the plausible mistakes on which the
properties are tried (`mutants` of `PROJECT.json`), kept beside what they would
replace.

`SequencedChat`. `sendQueue[p]`, `holdback[p]`, `current[p]`, `printed[p]` are the
queues and `currentSequenceNumber` of each process; `chatNet` is the set of
datagrams in flight to chat ports, `acks[p]` the number of ACKs in flight to p
(they all look the same). `log` is a history variable: what the sequencer gave
the numbers 1, 2, ... to. With `Prompt = FALSE` a send may lose its datagram, any
datagram may stay in flight for ever or be overtaken, and a timeout may fire at
any time (which is how duplicates and stale ACKs come about); with `Prompt = TRUE`
nothing is lost and a receive times out only if no answer can come any more.

`PrintQueue`. `push` is two steps, because `notify_one` follows the unlock; the
consumer's `front()` and `pop()` are two calls with a gap in between, in which
`noticeThread` may push to the front: `pop()` then discards the notice and the
chat line is printed again. `ChatsInOrder` is therefore monotonicity, not equality.

`Membership`. `mail[p]` is p's join port. `AnswerJoin` and `Admit` are the two halves
of the JOIN branch, between which a multicast may end. `sendPc`/`it` are the walk of
`sendMessage`; `IteratorAfterErase` says what `list::erase` does to it, and `Dangle`
what the next `++it` on a released node can do.

`Election`. `timer`, `burst` and `Tick` are the clock; every datagram arrives within
the second in which it was sent. The numbers 5, 15, 3, 3 are those of the code.
A process number stands for the "ip:port" string that the code compares. A takeover is
three steps (`takeover`): forgetting the old sequencer (908-923), the loop over LEADERS
(935-941), in which a crash may leave some members untold, and `checkLeader = true`
(944). `heartbeatSend` is then still in the sleep of its member branch (838), so that
the first heartbeats of a new sequencer come 0 to 3 seconds later (`BecomeLeader`).

`Handover`. Only the numbers: who accepted which, who takes over with which, which
clients an interrupted multicast had reached. `asMember` is the `sendMessage` of a
new sequencer still blocked in `sendQueue.front()` of the member branch (611).

`Roster`. `stage[a]` is the process at address a, `answer[a]` the first datagram in its
join port, `mail` the sequencer's join port, `beats` the ALIVEs on their way. `veteran`
are members that joined under a former sequencer and send their LEAVE there;
`marked` those whose uninitialised `message_type` happens to be the 0 that
`heartbeatReceive` asks for. The ten seconds of `checkForDeadMembers` are three
periods of `heartbeatSend` (`Patience`). A joiner that takes a notice, or the
INDIRECT after a timeout, for a list of users reads beyond a vector; it is
modelled as ending there. As in `Membership`, a JOIN is two steps: `AnswerJoin` enters the
joiner in `chatMembers` and answers, `Admit` sends the NOTICE and enters it in
`socketList`; `admitting` is the joiner in between. `DeclareDead` sends a LEAVE each second
until the key is gone, whatever is under way; `MaxReports`, here and in `Membership`,
bounds those of one address that wait for a slow `noticeThread`. The processes of
one address are taken to be of one user (the keys of the checklist have the name too).

`Codec` and `Screen`. A text is a sequence of bytes; `Encrypt` wraps around at 256,
`CString` is what `strcpy` leaves. `Screen` extends `PrintQueue`: its queue moves as
there (`Queueing`, and `Pop` within `Write`), and the text that goes with a chat line
is formed by `LineMessage` and taken apart by `Printed`. `keepsCipher` chooses between
`dchat.cpp` and `dchat_encrypt.cpp`.

`QueueChat`. `box[p]` is the buffer of the chat socket, in order and without loss, as on
one host. `burst` and `pending` are how far `multicast` is; `sendAt` is the loop of
`sendMessage` over `userList`; `stage[m]` is how far `connectChat` is. `shift` is the loop of
`removeMember` over `userList`, one entry a step (`StartLeave`, `ShiftEntry`, and
`ServeLeave` for what follows the loop). `userList` keeps its value from before the loop
until `no_of_members` is decremented; what `sendMessage` finds meanwhile in an entry is
`Walked`: from the one looked for on, each entry already passed has the value of the
next, and the last that of the entry behind the list, which earlier removals may have
filled (`beyond`). `sent` and `bye` are
the race between `isDead` and the farewell. `relayed` and `shown[m]` are histories: what
`seqProcessMessage` relayed or removed, in its order, and what m printed, as datagrams. Two more variables tell when the
program has got into a state it was not written for: `crossed`, an answer, removal
or line went to another process than the one it was for, and `strayed`, the joiners
that took another datagram for the one due. What the properties say holds up to
that point, and shows that nothing else can upset the program.

`FairQueue`. `fairQMap[a]` is the queue of author a; `asMember` as in `Handover`;
`processPc`, `holdbackQueue` and `bogusDue` are the way of `processMessage` from the
member's queue to the sweeps. A sweep is one step for each queue that has an item:
`ahead` are the authors still to come; a sweep over empty queues takes the lock all the
same (`BeginSweep`, `EndSweep`). `sendMessage` and `main` go on meanwhile, but nothing is
filed, because a sweep holds `fairQMap_mutex` from beginning to end. `SendFront` sends a
line, `ReceiveOwn` files the process's own copy of it, and `SendDone` takes it off the
`sendQueue` when the last client has it (`served` in between): sweeps may show the
copy before.

## 3. The runs

Every run has its `.cfg`; each property of a passing run is falsified by a wrong
variant of the code. Deadlock is not checked in any of them: a chat in which
nobody types, and the bounds are used up, may rest.

| run | instance | what it shows |
|---|---|---|
| `chat_lossy` | 3 processes, one line of the sequencer and one of a member, 2 timeouts, a client skipped after 1 attempt | `IInv`, `MembersFollowLog`, refinement of `TotalOrder`, whatever is lost, late or repeated. A skipped live member, a retransmitted CHAT (numbered twice), retransmitted SEQ_CHATs (the attempt counter is not reset when a client is skipped, so the next is retried) and stale ACKs all occur |
| `chat_prompt` | 3 processes, 3 lines, one crash, 2 attempts, fair | `LinesNumberedOnce`, `SequencerShowsLog`, `LiveMembersKeepUp`, `EveryLineShown` |
| `print_queue` | 2 chat lines, 2 notices, 3 names, 9 lines, both programs, a takeover, fair | `IInv`, `ChatsInOrder`, `NoLostWakeup`, `EveryChatWritten`; `LinesReadable` and `UsersReadBack` |
| `membership` | a sequencer, two joiners (one by way of the other), 2 lines, one crash, 2 LEAVEs of one process under way, fair | `IInv`, `ViewsConverge`, `TablesAgree`, `StaysInStep`, `GoneAreForgotten`, `JoinsSucceed` |
| `roster` | 2 addresses, 3 processes, 2 lost heartbeats, any JOIN, reply and LEAVE lost, 2 LEAVEs of one address under way, fair | `IInv`, `LiveStayListed`, `RepeatsHarmless`, `HeardAreForgotten` |
| `queue_chat` | a sequencer, two joiners (one by way of the other), 2 inputs (a line or an end of input) anywhere, fair | `TablesExact` (with the types), `ShownAsRelayed`, `LinesBeforeLeave`, `JoinEnds`, `OwnLinesReturn` |
| `handover` | 4 processes, 7 lines, 2 crashes | `IInv`, `NobodyLeftBehind`, `FourthLineShown` (with "third" it is false) |
| `election` | 4 processes, the sequencer in the middle of their order, 2 crashes, also during a burst or an announcement, first heartbeats of a new sequencer 0 to 3 seconds late, fair | `IInv` (with `TypeOK`, in which nobody dies but by a crash), `AtMostOneLeader` and `NoFalseSuspicion` for two crashes; `HighestLeads` and `SurvivorsAgree` for one |
| `fair_queue` | 3 lines typed at the process, 2 by another author, a takeover, fair | `AuthorOrder`, `KeepsOneLine`, `InOnePlace` (with the types), `EveryLineShown` |
| `chat_stale_ack` | sequencer and member, 2 lines, 1 timeout | violates `AckedLinesReachSequencer` |
| `election_alone` | 3 processes, 2 crashes, fair | violates `LeaderInTheEnd` |
| `fair_queue_alone` | a takeover with nobody else left, fair | violates `Unblocked` |

Why the bounds suffice. The order properties compare neighbours in a log: two lines
by two authors and two readers are enough to swap, skip or repeat one, and the
theorems remove the bound. Two crashes are what the two-crash defects need. In
`handover` three lines can come before a takeover and four after it, the bound it
states, with a second takeover in other behaviours. `MaxTries` is 5 in the code;
2 or 1 gives the same branches. In
`print_queue` the second line and notice suffice for the overtaking between
`front()` and `pop()`, and the theorems remove the bound; the nine lines have no '7',
one before, after, within and alone, a ':' of their own, and a byte that ends the
string. In `roster` a third process makes an address used twice beside another; two
lost heartbeats are one less than a wrong report takes (that of a live member is left
to the theorems, whose conditions name it), and the second LEAVE under way
(`MaxReports`) finds the tables as the first left them, as any further one would. In
`fair_queue` the third own line is the one that may overtake the first after the
second went the right way (`MaxOthers` keeps the other author to two). In `queue_chat` two inputs
are enough for a line beside a leave, a line beside a join, and two leaves; after a
joiner has strayed one is enough (`MaxAfter`), because what follows is beyond the
properties. (The theorems about its safety remove all three bounds.) `Founder = 2` of four lets the election be won by a process above and lost
by one below the old sequencer.

### Fairness

Weak fairness of every thread of a live process: they are kernel threads that loop
and block only in `recvfrom`, `sleep` or on a condition variable. (`QueueChat` has one
condition for all threads together, which is weaker than one for each.) `Tick` is fair: time
passes. Nothing makes a user type, join or leave, or a process crash or take over.
Strong fairness is assumed once, of `receiveMessage` in `FairQueue` (`ReceiveOwn`): it
competes for `fairQMap_mutex` with a `processMessage` that gives the lock up and takes it
again at once. A default mutex promises nothing to either; `EveryLineShown` says that
lines are shown if `receiveMessage` gets its turn.
In the liveness runs the network is prompt, because over one that may lose
everything nothing has to happen; in `roster`, where any JOIN, reply or LEAVE may be
lost, the heartbeats lost are bounded, and the rest of them arrive.

## 4. What the runs found

The three violations are findings of `PROJECT.json`: a stale ACK ends the wait for
another line (628); a last member with dead lower ones in its list never elects
itself (958, 1197); a lone new sequencer of the fair variant stays blocked
(`dchat_fairQ.cpp` 1205). Two more, seen while modelling, have no run of their own:
`retry_send` survives the break after five attempts (696), so that two dead clients
in a row stop the chat (`chat_prompt` has one crash); a joiner can be given a number
that the sequencer passes before it lists the joiner (464, 493), and then drops all
it is sent (`StaysInStep` is about those that are in step).

Behaviour that no comment contradicts, and that the properties therefore bound:

* The first line a new sequencer orders may be shown on its own screen only: its
  `sendMessage` takes it in the member branch and sends it to itself
  (`KeepsOneLine`, `FourthLineShown`). If that line is its own, it goes round, and the
  next may overtake it, which is why `AuthorOrder` exempts the first own line of a
  process that was once a member, and only that.
* A new sequencer repeats up to two numbers, whose lines its members drop while
  acknowledging them (`FourthLineShown`).
* A notice may be lost from the screen and a chat line printed twice (`PrintQueue`).
* A CHAT retransmitted because of a late ACK is numbered twice (`TotalOrder!Order`).
* A line with a '7' inside is shown empty, 7s around a line are lost, byte 253 ends
  it, and a name with ':' hides every line of its bearer (`LinesReadable`).
* A member that was not heard of stays in the tables for ever: its reply was lost,
  it ended before its first heartbeat, or its heartbeats have not the type 0. One
  started again at the address of a crashed one is entered twice in `socketList`, of
  which a removal takes one, and can be removed for the silence of its predecessor.
  A LEAVE is sent each second while `noticeThread` is late, and each is announced to the
  members; a departure is reported again when an ALIVE overtaken by it comes late.
  (`Roster`: the exceptions in `LiveStayListed`, `RepeatsHarmless`, `HeardAreForgotten`.)
* In `dchat_queue.cpp` nearly every reply depends on who sent last: the sequencer may
  send the list of members to another than the joiner, or remove another than the
  leaver, and end itself; a member may send its line to a joiner; a joiner may take a
  line for a list entry and wait for ever (`crossed`, `strayed`). Every removal moves
  the list under the loop of `sendMessage`: the line on its way then misses a member or
  reaches one twice, [a, b] without a being [b, b] for a moment. `ShownAsRelayed` therefore
  lets the sequencer's own lines repeat or be missing once a member has left.
* The election rests on timeouts, and in a large group they contradict each other.
  Every ELECTION restarts the silence of those that receive it, so that rounds of
  lower members can keep the highest from its own; a lower one that is in its third
  round by then forgets it (`removeHigherMembers`) and takes over. TLC finds two
  sequencers after one crash in a group of seven or more, in a search outside the runs
  (no property covers it: the state space is beyond an exhaustive run); with two crashes the new sequencer need not be the
  highest in smaller groups either. `AtMostOneLeader`, `HighestLeads` and
  `SurvivorsAgree` are therefore about small groups (the run has four processes), and
  the last two about one crash. What holds for every group is proved (section 5).

## 5. The proofs

For all values of the constants (any group, any number of lines, crashes and
timeouts). The assumptions are the named ASSUMEs on the constants, which give their
types and that the sequencer is one of the processes, and two more, each named
where it is used: `HeartbeatsInTime` in `Election`, and `Prompt` with
`EachListedOnce` for three theorems about `SequencedChat`.

* `SequencedChat_proofs`: `TypeCorrect`, `IInvCorrect`, `MembersFollow`, `Refinement`.
  "A member's screen and holdback are a prefix of the log" is not inductive by
  itself: a member accepts a datagram for its number alone, so one needs that every
  numbered datagram in flight carries the line of that number (`DatagramsNumbered`),
  that the line being multicast is the last of the log (`Multicasting`), that the
  log is as long as the counter says (`Numbered`), that members hold only numbered
  lines (`MembersHoldNumbered`) and that nothing in any queue was not typed
  (`NothingInvented`, which gives the guard of `TotalOrder!Order`). `IInv` is their
  conjunction. The refinement maps `order` to `log` and `shown` to what a member has
  printed; every step is a step of `TotalOrder` or stutters.
* In the same module, on a prompt network: `NumberedOnce`, `SequencerFollows`,
  `MembersKeepUp`. The ACKs name no line, so the proof has to show that the one
  received is the one awaited: `OneClientAtATime` and `OneLineAtATime` say that a
  waiting thread has exactly one datagram or one ACK under way, and nothing else has.
  `InTypedOrder` then follows an author's lines from the socket to the holdback, the
  `sendQueue` and the log, and `OwnCopiesFollow` the sequencer's copies to its screen.
  `Prompt` is the network of the run; that `socketList` has each process once
  (`EachListedOnce`) is what `Membership_proofs` proves of `noticeThread`.
* `Membership_proofs`: `TypeCorrect`, `TablesAgreeCorrect`, `ViewsConvergeCorrect`,
  `StaysInStepCorrect`, for any set of joiners and any ways to the sequencer, on a
  network that delivers in order. That a member will know whom the sequencer knows
  (`Shared`) is kept by a notice only if it is news to the member (`News`), which needs
  that one JOIN at most of each joiner is under way and that nobody knows the joiner
  before (`Newcomers`), and what a join port can hold at all (`BoxOf`).
* `Roster_proofs`: `TypeCorrect`, `LiveStay`, `RepeatsHarmlessCorrect`, with any loss, any
  number of LEAVEs under way, any finite set of addresses and processes that come back
  at an address. The invariant is about the first process at an address: nobody has
  heard of it before (`UnusedUnknown`), it is listed before it is in (`FirstLife`), it has
  one entry in each table or in none, the second perhaps about to be made
  (`EnteredOnce`), so that one LEAVE takes all there is; and the checklist has nobody
  who is gone unless an ALIVE came late (`WatchedIn`).
* `Election_proofs`: `TypeCorrect` (with "nobody dies but by a crash": no LEADERS comes
  from a process its receiver has forgotten, which would end the receiver),
  `NeverSuspected`, `FounderStays`; for any group, any number of crashes and any
  timeouts longer than the pause between heartbeats (`HeartbeatsInTime`; 3 seconds
  against 5 and 15 in the code). Whom somebody follows has announced itself, even if it
  is not the sequencer yet, and knows its follower (`Told`, `Followed`), a LEADERS is
  received before its sender can be suspected (`Announced`), and the next heartbeat is
  on its way or due before the silence ends, which the LEADERS has just restarted and
  which is longer than all a new sequencer's `heartbeatSend` can still sleep (`InTime`,
  `Reassured`).
* `FairQueue_proofs`: `OnePlaceCorrect`, `AuthorOrderCorrect`, `OneLineCorrect`, for any
  authors, whether the process founded the chat or took over. A line passes through
  its author's queue twice, as CHAT and as SEQ_CHAT, with the `sendQueue` in between;
  it is in one place at a time (`Apart`, `Somewhere`), but for the line still being sent,
  which counts where its own copy is (`ToSend`), and no line of its author is in a later
  place than an earlier line's (`InTurn`). Only the line that `sendMessage` took as a
  member comes back without a number (`OneUnnumbered`, `OwnCopy`), and own lines wait in
  their order (`OwnWait`), so that but for the first of a former member none overtakes
  another.
* `QueueChat_proofs`: `TypeCorrect`, `IInvCorrect`, `ListsAgree`, `OneOrder`, `LeaveIsLast`, for
  any joiners, whoever they ask, and any number of lines. The invariant has two parts.
  `Orders` holds whatever the answers do: the types and how `multicast` is getting on
  (`Base`); an author's lines on their way, from its `sendQueue` over the sequencer's buffer
  and `fairQMap` to the relay, are in the order typed with the LEAVE behind them (`Paths`);
  what m has shown, holds in `receiveQueue` and has in its buffer, read as one row, is in the
  order of the relay and, as to the sequencer's own lines, of their numbers (`Pipes`,
  `SeqLines`). `Undisturbed` holds as long as no answer has crossed another. A joiner has
  one request on its way or one redirection to ask again at most (`TicketsOf`), so that
  nobody is listed twice and an answer finds the one it is for (`NoRedirects`, `Answered`);
  `userList` is `memberList` and has whoever can still send a line (`Rolls`); a line typed is
  in its path or relayed (`Accounted`); the sequencer's own, until somebody has left, reach a
  member once (`SeqOnce`) and from the first datagram on without a gap (`SeqFull`, `NoGaps`). Last, what a member knows:
  nobody has heard of one that is not listed (`Strangers`), members send each other
  nothing but requests and redirections (`Direct`), and the list a member has, changed
  by the notices that wait for it in `receiveQueue` and in its buffer, in their order, is
  the sequencer's, with the right number at every stage of `connectChat` (`Views`;
  `LeaderNew` for the LEAVESEQ). With nothing left
  to read, this is `TablesExact`.
  The proof corrected two properties that TLC's instance had let pass: a member that
  strayed can type and leave before it is listed, and its lines are then not relayed
  (beyond `MaxAfter = 1`); and a removal shifts `userList` under the loop of `sendMessage`,
  which skips a member or sends it the same line twice. Its steps between two entries
  are in the model, and the proof needs of them only what `Walked` can yield: while no
  leave has been sent there is no removal (`WalkedCalm`), and otherwise some address of the
  list or nobody, so that the order of the lines survives.
* `Screen_proofs`: `IInvCorrect`, `ScreenInOrder`, `WakeupsArrive` about `PrintQueue`. The
  invariant says where the chat lines are: those in the queue ascend and are above
  those on the screen, and while `printMessage` is between `front()` and `pop()` its
  line is the oldest chat line of the queue, still there. `ScreenIsPrintQueue`,
  `ScreenIInv`, `WrittenInOrder` about `Screen`: each of its steps is a step of
  `PrintQueue` or leaves its variables alone, so that `PrintQueue`'s theorems hold where
  the lines are written. `DecryptUndoesEncrypt` is about bytes: the shift wraps around
  and comes back, for every text.
* `Handover_proofs`: `IInvCorrect`, `NobodyIsLeftBehind`, `FourthLineIsShown`. That no
  member is more than one behind its sequencer does not survive a crash in the middle
  of a multicast by itself; that members are never more than one number apart
  (`OneApart`), and that those already served have the number (`PassedHaveIt`), makes
  it inductive. For the fourth line `CatchUp` counts how far members can be ahead of
  a new sequencer's numbers, one less with each line.

Only model-checked:

* `AtMostOneLeader` and `HighestLeads`, which are false for large groups (section 4);
* `LinesReadable` and `UsersReadBack`, which depend on the recursive tokenizer
  (induction over texts is out of the prover's reach);
* all liveness, since proofs under fairness need ENABLED, which TLAPS does not offer:
  `EveryLineShown`, `EveryChatWritten`, `GoneAreForgotten`, `JoinsSucceed`,
  `HeardAreForgotten`, `JoinEnds`, `OwnLinesReturn`, `SurvivorsAgree`.

## 6. What is not modelled

`leader_election.cpp`, a prototype that is not built and does not compile;
`structures_final.h` and `crypto.h`, included nowhere; the socket wrapper and the
start-up, pure I/O (`Roster` takes from `getPortNumber` that an address can be used
again); `messageCounts` and, in `dchat.cpp`, `userList`, which nothing reads.

Of `dchat_queue.cpp` the heartbeats: `sendHeartbeatMessage` waits for an ACK of every
member, and after a crash for ever (1034); members then call an election every ten
seconds which nobody can win, because `LEADER` is sent with `sizeof(acklen)` for the
length of an address (1137). None of it touches the chat. Nor are there, in
`QueueChat`: a typed line that reads JOIN, LEAVE or LEAVESEQ and is taken for the
command; the `message_type` left over in a buffer; the iterator that runs past the
end of `fairQMap` (537); two threads inside one container.

Within what is modelled: membership and election are not composed (a JOIN during
an election), except that a sequencer of `Roster` may have taken over with the
members it has; the stray unlock (705) and a missing return value (1182) are
undefined behaviour described under `hazards` only, as is the `message_type` that the
reply to a JOIN never sets (461), taken not to read INDIRECT.

## 7. Plan

1. Done: data path, screen queue and screen, codec, membership, roster, election,
   handover, fair queue, the earlier program; the theorems above.
2. Composition: a change of sequencer under the data path (`SequencedChat` with
   `Handover`'s takeover), JOIN during an election; the heartbeats of `dchat_queue.cpp`.
3. More proofs: that composition; what a prover with induction over data could say of
   the codec.
