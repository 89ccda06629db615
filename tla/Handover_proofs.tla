--------------------------- MODULE Handover_proofs ---------------------------
(***************************************************************************)
(* Handover: for any number of processes, crashes and changes of           *)
(* sequencer, no live member is left behind, and a new sequencer's fourth  *)
(* line is shown by everybody.  The inductive invariant adds that the      *)
(* members are at most one number apart, which is what survives the crash  *)
(* of a sequencer in the middle of a multicast, and how far ahead of a new *)
(* sequencer they can be after each of its lines.                          *)
(***************************************************************************)
EXTENDS Handover, TLAPS

LEMMA InitCore == Init => Core
  <1> SUFFICES ASSUME Init PROVE Core
      OBVIOUS
  <1>1. TypeOK
      BY HandoverAssumption DEF Init, TypeOK
  <1>2. /\ leader = Founder /\ ~sending /\ Founder \in Procs
        /\ current[Founder] = 1
        /\ \A q \in Clients : current[q] = 0
      BY HandoverAssumption DEF Init, Clients
  <1>. QED  BY <1>1, <1>2 DEF IInv, Core, NobodyLeftBehind, OneApart, PassedHaveIt

LEMMA TypeStep == TypeOK /\ [Next]_vars => TypeOK'
  <1> SUFFICES ASSUME TypeOK, [Next]_vars PROVE TypeOK'
      OBVIOUS
  <1>1. CASE StartLine
      BY <1>1 DEF StartLine, TypeOK
  <1>2. CASE LineDone
    <2>1. current' \in [Procs -> Nat]
      <3>1. current[leader] + 1 \in Nat
          BY DEF TypeOK
      <3>. QED  BY <1>2, <3>1 DEF LineDone, TypeOK
    <2>. QED  BY <1>2, <2>1 DEF LineDone, TypeOK
  <1>3. CASE KeepLine
    <2>1. lines + 1 \in Nat /\ since + 1 \in Nat
        BY DEF TypeOK
    <2>2. lastShown' \in [Procs -> Nat]
        BY <1>3, <2>1 DEF KeepLine, TypeOK
    <2>. QED  BY <1>3, <2>1, <2>2 DEF KeepLine, TypeOK
  <1>4. CASE ReturnLine
      BY <1>4 DEF ReturnLine, TypeOK
  <1>5. ASSUME NEW p \in Procs, Serve(p) PROVE TypeOK'
      BY <1>5 DEF Serve, TypeOK
  <1>6. ASSUME NEW p \in Procs, Crash(p) PROVE TypeOK'
      BY <1>6 DEF Crash, TypeOK
  <1>7. ASSUME NEW p \in Procs, TakeOver(p) PROVE TypeOK'
      BY <1>7 DEF TakeOver, TypeOK
  <1>8. CASE UNCHANGED vars
      BY <1>8 DEF vars, TypeOK
  <1>. QED  BY <1>1, <1>2, <1>3, <1>4, <1>5, <1>6, <1>7, <1>8 DEF Next

(* A client that accepts moves from one behind to the sequencer's number:  *)
(* nobody else can then be more than one away from it.                     *)
LEMMA ServeStep == IInv /\ (\E p \in Procs : Serve(p)) => Core'
  <1> SUFFICES ASSUME IInv, NEW p \in Procs, Serve(p) PROVE Core'
      OBVIOUS
  <1>1. TypeOK'
      BY TypeStep DEF IInv, Core, Next
  <1>2. /\ leader \in alive /\ sending
        /\ UNCHANGED <<alive, leader, sending>>
        /\ pending' = pending \ {p}
      BY DEF Serve
  <1>3. \A q \in Procs : current[q] \in Nat
      BY DEF IInv, Core, TypeOK
  <1>4. \A q \in Procs \ {p} : current'[q] = current[q]
      BY DEF Serve, IInv, Core, TypeOK
  <1>5. Clients' = Clients /\ Clients \subseteq Procs /\ leader \in Procs
      BY <1>2 DEF Clients, IInv, Core, TypeOK
  <1>6. /\ \A q \in Clients : current[q] >= current[leader] - 1
        /\ \A q, r \in Clients : current[q] <= current[r] + 1
        /\ \A q \in Clients \ pending : current[q] >= current[leader]
      BY <1>2 DEF IInv, Core, NobodyLeftBehind, OneApart, PassedHaveIt
  <1>7. CASE p \in Clients /\ current[p] + 1 = current[leader]
    <2>1. current'[p] = current[p] + 1 /\ p # leader
        BY <1>7 DEF Serve, Clients, IInv, Core, TypeOK
    <2>2. current'[leader] = current[leader]
        BY <2>1, <1>4, <1>5
    <2>3. NobodyLeftBehind'
        BY <1>2, <1>3, <1>4, <1>5, <1>6, <2>1, <2>2 DEF NobodyLeftBehind
    <2>4. OneApart'
      <3> SUFFICES ASSUME NEW q \in Clients, NEW r \in Clients
                   PROVE  current'[q] <= current'[r] + 1
          BY <1>5 DEF OneApart
      <3>1. current[q] >= current[leader] - 1 /\ current[r] >= current[leader] - 1
          BY <1>6
      <3>2. current[q] <= current[r] + 1
          BY <1>6
      <3>3. /\ current'[q] = IF q = p THEN current[q] + 1 ELSE current[q]
            /\ current'[r] = IF r = p THEN current[r] + 1 ELSE current[r]
          BY <1>4, <1>5, <2>1
      <3>. QED  BY <1>3, <1>5, <1>7, <3>1, <3>2, <3>3
    <2>5. PassedHaveIt'
        BY <1>2, <1>3, <1>4, <1>5, <1>6, <1>7, <2>1, <2>2 DEF PassedHaveIt
    <2>. QED  BY <1>1, <2>3, <2>4, <2>5 DEF Core
  <1>8. CASE ~(p \in Clients /\ current[p] + 1 = current[leader])
    <2>1. current' = current
        BY <1>8 DEF Serve, Clients, IInv, Core, TypeOK
    <2>2. PassedHaveIt'
        BY <1>2, <1>3, <1>5, <1>6, <1>8, <2>1 DEF PassedHaveIt
    <2>. QED  BY <1>1, <1>2, <1>5, <1>6, <2>1, <2>2
              DEF IInv, Core, NobodyLeftBehind, OneApart
  <1>. QED  BY <1>7, <1>8

LEMMA LineDoneStep == IInv /\ LineDone => Core'
  <1> SUFFICES ASSUME IInv, LineDone PROVE Core'
      OBVIOUS
  <1>1. TypeOK'
      BY TypeStep DEF IInv, Core, Next
  <1>2. /\ leader \in alive /\ sending /\ pending = {} /\ ~sending'
        /\ UNCHANGED <<alive, leader>>
        /\ leader \in Procs /\ alive \subseteq Procs
        /\ current'[leader] = current[leader] + 1
        /\ \A q \in Clients : current'[q] = current[q]
        /\ \A q \in Procs : current[q] \in Nat
      BY DEF LineDone, IInv, Core, TypeOK, Clients
  <1>3. \A q \in Clients : current[q] >= current[leader]
      BY <1>2 DEF IInv, Core, PassedHaveIt
  <1>4. Clients' = Clients /\ Clients \subseteq Procs
      BY <1>2 DEF Clients
  <1>5. NobodyLeftBehind'
      BY <1>2, <1>3, <1>4 DEF NobodyLeftBehind
  <1>6. OneApart'
      BY <1>2, <1>4 DEF IInv, Core, OneApart
  <1>7. PassedHaveIt'
      BY <1>2 DEF PassedHaveIt
  <1>. QED  BY <1>1, <1>5, <1>6, <1>7 DEF Core

(* The new sequencer is one of those that were at most one apart.          *)
LEMMA TakeOverStep == IInv /\ (\E p \in Procs : TakeOver(p)) => Core'
  <1> SUFFICES ASSUME IInv, NEW p \in Procs, TakeOver(p) PROVE Core'
      OBVIOUS
  <1>1. TypeOK'
      BY TypeStep DEF IInv, Core, Next
  <1>2. /\ leader \notin alive /\ p \in alive /\ leader' = p /\ ~sending'
        /\ UNCHANGED <<alive, current>>
        /\ \A q \in Procs : current[q] \in Nat
        /\ alive \subseteq Procs
      BY DEF TakeOver, IInv, Core, TypeOK
  <1>3. Clients = alive /\ Clients' = alive \ {p}
      BY <1>2 DEF Clients
  <1>4. \A q, r \in alive : current[q] <= current[r] + 1
      BY <1>3 DEF IInv, Core, OneApart
  <1>5. NobodyLeftBehind'
      BY <1>2, <1>3, <1>4 DEF NobodyLeftBehind
  <1>6. OneApart'
      BY <1>2, <1>3, <1>4 DEF OneApart
  <1>7. PassedHaveIt'
      BY <1>2 DEF PassedHaveIt
  <1>. QED  BY <1>1, <1>5, <1>6, <1>7 DEF Core

LEMMA CoreStep == IInv /\ [Next]_vars => Core'
  <1> SUFFICES ASSUME IInv, [Next]_vars PROVE Core'
      OBVIOUS
  <1>1. TypeOK'
      BY TypeStep DEF IInv, Core
  <1>2. CASE StartLine
    <2>1. /\ UNCHANGED <<alive, leader, current>> /\ pending' = alive
        BY <1>2 DEF StartLine
    <2>. QED  BY <1>1, <2>1
              DEF IInv, Core, NobodyLeftBehind, OneApart, PassedHaveIt, Clients
  <1>3. CASE LineDone
      BY <1>3, LineDoneStep
  <1>4. CASE KeepLine \/ ReturnLine
    <2>1. UNCHANGED <<alive, leader, current, sending, pending>>
        BY <1>4 DEF KeepLine, ReturnLine
    <2>. QED  BY <1>1, <2>1
              DEF IInv, Core, NobodyLeftBehind, OneApart, PassedHaveIt, Clients
  <1>5. CASE \E p \in Procs : Serve(p)
      BY <1>5, ServeStep
  <1>6. ASSUME NEW p \in Procs, Crash(p) PROVE Core'
    <2>1. /\ alive' = alive \ {p}
          /\ UNCHANGED <<leader, current, sending, pending>>
        BY <1>6 DEF Crash
    <2>. QED  BY <1>1, <2>1
              DEF IInv, Core, NobodyLeftBehind, OneApart, PassedHaveIt, Clients
  <1>7. CASE \E p \in Procs : TakeOver(p)
      BY <1>7, TakeOverStep
  <1>8. CASE UNCHANGED vars
      BY <1>1, <1>8
      DEF vars, IInv, Core, NobodyLeftBehind, OneApart, PassedHaveIt, Clients
  <1>. QED  BY <1>2, <1>3, <1>4, <1>5, <1>6, <1>7, <1>8 DEF Next

LEMMA InitIInv == Init => IInv
  <1> SUFFICES ASSUME Init PROVE IInv
      OBVIOUS
  <1>1. /\ since = 0 /\ ~sending /\ leader = Founder /\ Founder \in Procs
        /\ current[Founder] = 1
        /\ \A q \in Clients : current[q] = 0
      BY HandoverAssumption DEF Init, Clients
  <1>. QED  BY <1>1, InitCore
            DEF IInv, CatchUp, PassedShowIt, NoneTakenYet, FourthLineShown

(* A member that the fourth line reaches is exactly one behind, and shows  *)
(* it; the others have shown it.                                           *)
LEMMA ServeShown ==
  IInv /\ (\E p \in Procs : Serve(p)) => (CatchUp /\ PassedShowIt)'
  <1> SUFFICES ASSUME IInv, NEW p \in Procs, Serve(p)
               PROVE  (CatchUp /\ PassedShowIt)'
      OBVIOUS
  <1>1. /\ leader \in alive /\ sending /\ p \in pending
        /\ UNCHANGED <<alive, leader, sending, since, lines>>
        /\ pending' = pending \ {p}
        /\ alive \subseteq Procs /\ leader \in Procs
        /\ lines \in Nat /\ since \in Nat
        /\ \A q \in Procs : current[q] \in Nat
        /\ Clients' = Clients /\ Clients = alive \ {leader}
      BY DEF Serve, IInv, Core, TypeOK, Clients
  <1>2. /\ \A q \in Procs \ {p} : current'[q] = current[q] /\ lastShown'[q] = lastShown[q]
        /\ current'[leader] = current[leader]
      BY DEF Serve, IInv, Core, TypeOK
  <1>3. current'[p] = IF p \in alive /\ p # leader /\ current[p] + 1 = current[leader]
                      THEN current[p] + 1 ELSE current[p]
      BY <1>1 DEF Serve, IInv, Core, TypeOK
  <1>4. lastShown'[p] = IF p \in alive /\ (p = leader \/ current[p] + 1 = current[leader])
                        THEN lines ELSE lastShown[p]
      BY <1>1 DEF Serve, IInv, Core, TypeOK
  <1>5. CatchUp'
      BY <1>1, <1>2, <1>3 DEF IInv, CatchUp
  <1>6. PassedShowIt'
    <2> SUFFICES ASSUME since >= 4, NEW q \in alive \ (pending \ {p})
                 PROVE  lastShown'[q] = lines
        BY <1>1 DEF PassedShowIt
    <2>1. CASE q # p
        BY <1>1, <1>2, <2>1 DEF IInv, PassedShowIt
    <2>2. CASE q = p /\ q # leader
      <3>1. current[q] <= current[leader] - 1 /\ current[q] >= current[leader] - 1
          BY <1>1, <2>2 DEF IInv, Core, CatchUp, NobodyLeftBehind
      <3>. QED  BY <1>1, <1>4, <2>2, <3>1
    <2>3. CASE q = p /\ q = leader
        BY <1>4, <2>3
    <2>. QED  BY <2>1, <2>2, <2>3
  <1>. QED  BY <1>5, <1>6

LEMMA ShownStep ==
  IInv /\ [Next]_vars => (CatchUp /\ PassedShowIt /\ NoneTakenYet)'
  <1> SUFFICES ASSUME IInv, [Next]_vars
               PROVE  (CatchUp /\ PassedShowIt /\ NoneTakenYet)'
      OBVIOUS
  <1>1. /\ leader \in Procs /\ alive \subseteq Procs /\ pending \subseteq Procs
        /\ since \in Nat /\ current \in [Procs -> Nat]
        /\ \A q \in Procs : current[q] \in Nat
      BY DEF IInv, Core, TypeOK
  <1>2. CASE StartLine
    <2>1. /\ UNCHANGED <<alive, leader, current>> /\ pending' = alive
          /\ leader \in alive /\ ~sending /\ sending' /\ ~asMember' /\ since' = since + 1
        BY <1>2 DEF StartLine
    <2>. QED  BY <1>1, <2>1 DEF IInv, CatchUp, PassedShowIt, NoneTakenYet, Clients
  <1>3. CASE LineDone
    <2>1. /\ leader \in alive /\ sending /\ pending = {} /\ ~sending'
          /\ UNCHANGED <<alive, leader, asMember, since, pending>>
          /\ current'[leader] = current[leader] + 1
          /\ \A q \in Clients : current'[q] = current[q]
        BY <1>1, <1>3 DEF LineDone, Clients
    <2>. QED  BY <1>1, <2>1 DEF IInv, CatchUp, PassedShowIt, NoneTakenYet, Clients
  <1>4. CASE KeepLine
    <2>1. /\ UNCHANGED <<alive, leader, current, sending, pending>>
          /\ ~sending /\ since' = 1 /\ ~asMember'
        BY <1>4 DEF KeepLine, IInv, NoneTakenYet
    <2>. QED  BY <1>1, <2>1 DEF IInv, CatchUp, PassedShowIt, NoneTakenYet, Clients
  <1>5. CASE ReturnLine
      BY <1>5 DEF ReturnLine, IInv, CatchUp, PassedShowIt, NoneTakenYet, Clients
  <1>6. ASSUME NEW p \in Procs, Serve(p)
        PROVE  (CatchUp /\ PassedShowIt /\ NoneTakenYet)'
    <2>1. UNCHANGED <<asMember, sending, since>>
        BY <1>6 DEF Serve
    <2>. QED  BY <1>6, <2>1, ServeShown DEF IInv, NoneTakenYet
  <1>7. ASSUME NEW p \in Procs, Crash(p)
        PROVE  (CatchUp /\ PassedShowIt /\ NoneTakenYet)'
      BY <1>7 DEF Crash, IInv, CatchUp, PassedShowIt, NoneTakenYet, Clients
  <1>8. ASSUME NEW p \in Procs, TakeOver(p)
        PROVE  (CatchUp /\ PassedShowIt /\ NoneTakenYet)'
    <2>1. /\ leader \notin alive /\ p \in alive /\ leader' = p /\ ~sending' /\ since' = 0
          /\ pending' = {} /\ UNCHANGED <<alive, current>>
        BY <1>8 DEF TakeOver
    <2>2. \A q, r \in alive : current[q] <= current[r] + 1
        BY <2>1 DEF IInv, Core, OneApart, Clients
    <2>. QED  BY <1>1, <2>1, <2>2 DEF CatchUp, PassedShowIt, NoneTakenYet, Clients
  <1>9. CASE UNCHANGED vars
      BY <1>9 DEF vars, IInv, CatchUp, PassedShowIt, NoneTakenYet, Clients
  <1>. QED  BY <1>2, <1>3, <1>4, <1>5, <1>6, <1>7, <1>8, <1>9 DEF Next

(* A line is over when the multicast has passed everybody.                 *)
LEMMA FourthLineStep == IInv /\ [Next]_vars => FourthLineShown'
  <1> SUFFICES ASSUME IInv, [Next]_vars PROVE FourthLineShown'
      OBVIOUS
  <1>1. CASE StartLine
      BY <1>1 DEF StartLine, FourthLineShown
  <1>2. CASE LineDone
    <2>1. /\ leader \in alive /\ sending /\ pending = {}
          /\ UNCHANGED <<alive, leader, since, lines, lastShown>>
        BY <1>2 DEF LineDone
    <2>. QED  BY <2>1 DEF IInv, PassedShowIt, FourthLineShown
  <1>3. CASE KeepLine
      BY <1>3 DEF KeepLine, IInv, NoneTakenYet, FourthLineShown
  <1>4. CASE ReturnLine
      BY <1>4 DEF ReturnLine, IInv, FourthLineShown
  <1>5. ASSUME NEW p \in Procs, Serve(p) PROVE FourthLineShown'
      BY <1>5 DEF Serve, FourthLineShown
  <1>6. ASSUME NEW p \in Procs, Crash(p) PROVE FourthLineShown'
      BY <1>6 DEF Crash, IInv, FourthLineShown
  <1>7. ASSUME NEW p \in Procs, TakeOver(p) PROVE FourthLineShown'
      BY <1>7 DEF TakeOver, FourthLineShown
  <1>8. CASE UNCHANGED vars
      BY <1>8 DEF vars, IInv, FourthLineShown
  <1>. QED  BY <1>1, <1>2, <1>3, <1>4, <1>5, <1>6, <1>7, <1>8 DEF Next

LEMMA NextStep == IInv /\ [Next]_vars => IInv'
  BY CoreStep, ShownStep, FourthLineStep DEF IInv

(* The inductive invariant holds in every reachable state.                 *)
THEOREM IInvCorrect == Spec => []IInv
  BY InitIInv, NextStep, PTL DEF Spec

(* No live member ever waits for a number its sequencer is past, whatever  *)
(* the crashes (receiveMessage, dchat.cpp:728; takeover, 899-955).         *)
THEOREM NobodyIsLeftBehind == Spec => []NobodyLeftBehind
  <1>1. IInv => NobodyLeftBehind
      BY DEF IInv, Core
  <1>. QED  BY <1>1, IInvCorrect, PTL

(* A new sequencer loses, or shows to itself alone, three lines at most:   *)
(* when its fourth is done, and after every later one, every live process  *)
(* has shown it (sendMessage's member branch after a takeover, and         *)
(* receiveMessage, dchat.cpp:728).                                         *)
THEOREM FourthLineIsShown == Spec => []FourthLineShown
  <1>1. IInv => FourthLineShown
      BY DEF IInv
  <1>. QED  BY <1>1, IInvCorrect, PTL
=============================================================================
