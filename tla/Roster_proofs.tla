---------------------------- MODULE Roster_proofs ----------------------------
(***************************************************************************)
(* Proofs about Roster, for every set of addresses, every number of        *)
(* processes that start, leave and crash, and every number of losses and   *)
(* of repeated reports: who is the first at an address stays in the        *)
(* sequencer's tables, and after its departure no report changes them.     *)
(***************************************************************************)
EXTENDS Roster, FiniteSetTheorems, SequenceTheorems, TLAPS

-----------------------------------------------------------------------------
(***************************************************************************)
(* The search for an entry of socketList, erase, and the list of a set.    *)
(***************************************************************************)
(* Every set of natural numbers that is not empty has a smallest element.  *)
LEMMA SmallestIn ==
  ASSUME NEW T, T \subseteq Nat, T # {}
  PROVE  \E n \in T : \A m \in T : n <= m
  <1>1. PICK n \in T : \A m \in T : ~ (<<m, n>> \in OpToRel(<, Nat))
      BY NatLessThanWellFounded, WFMin
  <1>2. ASSUME NEW m \in T PROVE n <= m
    <2>1. m \in Nat /\ n \in Nat
        OBVIOUS
    <2>2. ~ (m < n)
        BY <1>1, <2>1 DEF OpToRel
    <2>. QED  BY <2>1, <2>2
  <1>. QED  BY <1>2

(* ... and one that is bounded a largest. *)
LEMMA LargestUpTo ==
  ASSUME NEW n \in Nat, NEW T, T \subseteq 1 .. n, T # {}
  PROVE  \E k \in T : \A i \in T : k >= i
  <1> DEFINE D == {d \in Nat : n - d \in T}
  <1>1. D \subseteq Nat /\ D # {}
    <2>1. PICK i \in T : TRUE
        OBVIOUS
    <2>2. n - i \in Nat /\ n - (n - i) = i
        BY <2>1
    <2>3. n - i \in D
        BY <2>1, <2>2
    <2>. QED  BY <2>3
  <1>2. PICK d \in D : \A e \in D : d <= e
      BY <1>1, SmallestIn
  <1>3. \A i \in T : n - i \in D /\ d <= n - i
    <2> SUFFICES ASSUME NEW i \in T PROVE n - i \in D
        BY <1>2
    <2>1. n - i \in Nat /\ n - (n - i) = i
        OBVIOUS
    <2>. QED  BY <2>1
  <1>4. \A i \in T : n - d >= i
      BY <1>3
  <1>. QED  BY <1>2, <1>4

(* The search from the back finds an entry that is there. *)
LEMMA LastIndex ==
  ASSUME NEW S, NEW s \in Seq(S), NEW e, NEW i \in 1 .. Len(s), s[i] = e
  PROVE  /\ SelectLastInSeq(s, LAMBDA b : b = e) \in 1 .. Len(s)
         /\ s[SelectLastInSeq(s, LAMBDA b : b = e)] = e
  <1> DEFINE I == {j \in 1 .. Len(s) : s[j] = e}
  <1>1. I \subseteq 1 .. Len(s) /\ I # {} /\ Len(s) \in Nat
      OBVIOUS
  <1>2. \E k \in I : \A j \in I : k >= j
      BY <1>1, LargestUpTo
  <1>3. Max(I) \in I
      BY <1>2 DEF Max
  <1>4. SelectLastInSeq(s, LAMBDA b : b = e) = Max(I)
      BY <1>1 DEF SelectLastInSeq
  <1>. QED  BY <1>3, <1>4

(* erase: the other entries keep their order. *)
LEMMA RemovedAt ==
  ASSUME NEW S, NEW s \in Seq(S), NEW k \in 1 .. Len(s)
  PROVE  /\ RemoveAt(s, k) \in Seq(S)
         /\ Len(RemoveAt(s, k)) = Len(s) - 1
         /\ \A i \in 1 .. Len(s) - 1 : RemoveAt(s, k)[i] = s[IF i < k THEN i ELSE i + 1]
  <1> DEFINE a == SubSeq(s, 1, k - 1)
             b == SubSeq(s, k + 1, Len(s))
  <1>1. /\ a \in Seq(S) /\ Len(a) = k - 1 /\ k \in Nat /\ Len(s) \in Nat
        /\ \A i \in 1 .. k - 1 : a[i] = s[i]
      OBVIOUS
  <1>2. /\ b \in Seq(S) /\ Len(b) = Len(s) - k
        /\ \A i \in 1 .. Len(s) - k : b[i] = s[k + i]
      OBVIOUS
  <1> HIDE DEF a, b
  <1>3. /\ a \o b \in Seq(S) /\ Len(a \o b) = Len(s) - 1
        /\ \A i \in 1 .. Len(s) - 1 : (a \o b)[i] = IF i < k THEN a[i] ELSE b[i - (k - 1)]
    <2>1. a \o b \in Seq(S) /\ Len(a \o b) = Len(a) + Len(b)
        BY <1>1, <1>2, ConcatProperties
    <2>2. \A i \in 1 .. Len(a) + Len(b) :
            (a \o b)[i] = IF i <= Len(a) THEN a[i] ELSE b[i - Len(a)]
        BY <1>1, <1>2, ConcatProperties
    <2>. QED  BY <1>1, <1>2, <2>1, <2>2
  <1>4. ASSUME NEW i \in 1 .. Len(s) - 1
        PROVE  (a \o b)[i] = s[IF i < k THEN i ELSE i + 1]
    <2>1. CASE i < k
        BY <1>1, <1>3, <2>1
    <2>2. CASE ~ (i < k)
      <3>1. i - (k - 1) \in 1 .. Len(s) - k /\ k + (i - (k - 1)) = i + 1
          BY <1>1, <2>2
      <3>. QED  BY <1>2, <1>3, <2>2, <3>1
    <2>. QED  BY <2>1, <2>2
  <1>. QED  BY <1>3, <1>4 DEF RemoveAt, a, b

(* An injective list of as many elements as a finite set has, has them all. *)
LEMMA ListsAll ==
  ASSUME NEW S, IsFiniteSet(S), NEW f \in [1 .. Cardinality(S) -> S],
         \A i, k \in 1 .. Cardinality(S) : f[i] = f[k] => i = k
  PROVE  /\ f \in Seq(S) /\ Len(f) = Cardinality(S)
         /\ \A x \in S : \E i \in 1 .. Len(f) : f[i] = x
  <1> DEFINE n == Cardinality(S)
  <1>1. n \in Nat
      BY FS_CardinalityType
  <1>2. f \in Seq(S) /\ Len(f) = n
      BY <1>1
  <1>3. f \in Injection(1 .. n, S)
      BY DEF Injection, IsInjective
  <1>4. IsFiniteSet(1 .. n) /\ Cardinality(1 .. n) = n
      BY <1>1, FS_Interval
  <1>5. f \in Surjection(1 .. n, S)
      BY <1>3, <1>4, FS_Injection
  <1>. QED  BY <1>2, <1>5 DEF Surjection

(* The list of a finite set has each of its elements once. *)
LEMMA ListOfSet ==
  ASSUME NEW S, IsFiniteSet(S)
  PROVE  /\ SetToSeq(S) \in Seq(S)
         /\ \A x \in S : \E i \in 1 .. Len(SetToSeq(S)) : SetToSeq(S)[i] = x
         /\ \A i, j \in 1 .. Len(SetToSeq(S)) : SetToSeq(S)[i] = SetToSeq(S)[j] => i = j
  <1> DEFINE n == Cardinality(S)
             f == SetToSeq(S)
  <1>1. ExistsBijection(1 .. n, S)
      BY FS_CardinalityType
  <1>2. \E g \in [1 .. n -> S] : IsInjective(g)
      BY <1>1 DEF ExistsBijection, Bijection, Injection, IsInjective
  <1>3. f \in [1 .. n -> S] /\ \A i, j \in 1 .. n : f[i] = f[j] => i = j
      BY <1>2 DEF SetToSeq, IsInjective
  <1> HIDE DEF f
  <1>4. /\ f \in Seq(S) /\ Len(f) = n
        /\ \A x \in S : \E i \in 1 .. Len(f) : f[i] = x
      BY <1>3, ListsAll
  <1>. QED  BY <1>3, <1>4 DEF f

-----------------------------------------------------------------------------
LEMMA ListedAt ==
  ASSUME NEW s \in Seq(Addrs), NEW a
  PROVE  a \in Range(s) <=> \E i \in 1 .. Len(s) : s[i] = a
  BY DEF Range

LEMMA InitIInv == Init => IInv
  <1> SUFFICES ASSUME Init PROVE IInv
      OBVIOUS
  <1>1. IsFiniteSet(veteran)
      BY RosterAssumption, FS_Subset DEF Init
  <1>2. /\ socketList \in Seq(veteran)
        /\ \A a \in veteran : \E i \in 1 .. Len(socketList) : socketList[i] = a
        /\ \A i, j \in 1 .. Len(socketList) : socketList[i] = socketList[j] => i = j
      BY <1>1, ListOfSet DEF Init
  <1>3. socketList \in Seq(Addrs) /\ \A i \in 1 .. Len(socketList) : socketList[i] \in veteran
      BY <1>2 DEF Init
  <1>4. \A a : a \in veteran <=> Listed(a)
      BY <1>2, <1>3, ListedAt DEF Listed
  <1>5. TypeOK
      BY <1>3 DEF Init, TypeOK, Patience
  <1>6. \A a \in Addrs : (\A t : ~Waits(t, a)) /\ ~Watched(a)
      BY DEF Init, Waits, Watched
  <1>7. UnusedUnknown
      BY <1>4, <1>6 DEF Init, UnusedUnknown
  <1>8. FirstLife
      BY <1>4, <1>6 DEF Init, FirstLife, InTables
  <1>9. EnteredOnce
    <2>1. \A a : Once(socketList, a)
        BY <1>2 DEF Once
    <2>2. \A m : Once(mail, m)
        BY DEF Init, Once
    <2>. QED  BY <1>4, <1>6, <2>1, <2>2 DEF Init, EnteredOnce
  <1>10. WatchedIn
      BY DEF Init, WatchedIn
  <1>. QED  BY <1>5, <1>7, <1>8, <1>9, <1>10 DEF IInv

-----------------------------------------------------------------------------
(* What is once in a sequence. *)
LEMMA OnceAppended ==
  ASSUME NEW S, NEW s \in Seq(S), NEW m \in S, NEW e, Once(s, e),
         m = e => \A i \in 1 .. Len(s) : s[i] # e
  PROVE  Once(Append(s, m), e)
  <1> DEFINE r == Append(s, m)
  <1>1. /\ Len(r) = Len(s) + 1 /\ Len(s) \in Nat
        /\ \A i \in 1 .. Len(s) : r[i] = s[i]
        /\ r[Len(s) + 1] = m
      OBVIOUS
  <1> HIDE DEF r
  <1>2. \A i \in 1 .. Len(r) : i \in 1 .. Len(s) \/ i = Len(s) + 1
      BY <1>1
  <1>3. \A i, j \in 1 .. Len(s) : s[i] = e /\ s[j] = e => i = j
      BY DEF Once
  <1>4. ASSUME NEW i \in 1 .. Len(r), NEW j \in 1 .. Len(r), r[i] = e, r[j] = e
        PROVE  i = j
    <2>1. CASE i \in 1 .. Len(s) /\ j \in 1 .. Len(s)
        BY <1>1, <1>3, <1>4, <2>1
    <2>2. CASE i \in 1 .. Len(s) /\ j = Len(s) + 1
        BY <1>1, <1>4, <2>2
    <2>3. CASE i = Len(s) + 1 /\ j \in 1 .. Len(s)
        BY <1>1, <1>4, <2>3
    <2>. QED  BY <1>2, <2>1, <2>2, <2>3
  <1>. QED  BY <1>4 DEF Once, r

LEMMA OnceShrinks ==
  ASSUME NEW S, NEW s \in Seq(S), s # << >>, NEW e, Once(s, e)
  PROVE  /\ Once(Tail(s), e)
         /\ Head(s) = e => \A i \in 1 .. Len(Tail(s)) : Tail(s)[i] # e
  <1> DEFINE r == Tail(s)
  <1>1. /\ Len(r) = Len(s) - 1 /\ Len(s) \in Nat /\ 1 \in 1 .. Len(s)
        /\ Head(s) = s[1]
        /\ \A i \in 1 .. Len(r) : r[i] = s[i + 1] /\ i + 1 \in 1 .. Len(s)
      OBVIOUS
  <1> HIDE DEF r
  <1>2. \A i, j \in 1 .. Len(s) : s[i] = e /\ s[j] = e => i = j
      BY DEF Once
  <1>3. ASSUME NEW i \in 1 .. Len(r), NEW j \in 1 .. Len(r), r[i] = e, r[j] = e
        PROVE  i = j
    <2>1. i + 1 = j + 1
        BY <1>1, <1>2, <1>3
    <2>. QED  BY <1>1, <2>1
  <1>4. ASSUME Head(s) = e, NEW i \in 1 .. Len(r), r[i] = e PROVE FALSE
    <2>1. i + 1 = 1
        BY <1>1, <1>2, <1>4
    <2>. QED  BY <1>1, <2>1
  <1>. QED  BY <1>3, <1>4 DEF Once, r

(* The join port of the sequencer. *)
LEMMA MailGrows ==
  ASSUME NEW m \in Mail, mail \in Seq(Mail), mail' = Append(mail, m)
  PROVE  /\ mail' \in Seq(Mail)
         /\ \A t, a : Waits(t, a)' <=> Waits(t, a) \/ m = [type |-> t, of |-> a]
  <1>1. /\ Len(mail') = Len(mail) + 1 /\ Len(mail) \in Nat /\ mail' \in Seq(Mail)
        /\ \A i \in 1 .. Len(mail) : mail'[i] = mail[i]
        /\ mail'[Len(mail) + 1] = m
      OBVIOUS
  <1>2. ASSUME NEW t, NEW a
        PROVE  Waits(t, a)' <=> Waits(t, a) \/ m = [type |-> t, of |-> a]
    <2>1. \A i \in 1 .. Len(mail') : i \in 1 .. Len(mail) \/ i = Len(mail) + 1
        BY <1>1
    <2>2. 1 .. Len(mail) \subseteq 1 .. Len(mail') /\ Len(mail) + 1 \in 1 .. Len(mail')
        BY <1>1
    <2>. QED  BY <1>1, <2>1, <2>2 DEF Waits
  <1>. QED  BY <1>1, <1>2

LEMMA MailShrinks ==
  ASSUME mail \in Seq(Mail), mail # << >>, mail' = Tail(mail)
  PROVE  /\ mail' \in Seq(Mail)
         /\ Len(mail') = Len(mail) - 1 /\ Len(mail) \in Nat /\ 1 \in 1 .. Len(mail)
         /\ Head(mail) = mail[1]
         /\ \A i \in 1 .. Len(mail') : mail'[i] = mail[i + 1] /\ i + 1 \in 1 .. Len(mail)
         /\ \A t, a : Waits(t, a)' => Waits(t, a)
  <1>1. /\ mail' \in Seq(Mail)
        /\ Len(mail') = Len(mail) - 1 /\ Len(mail) \in Nat /\ 1 \in 1 .. Len(mail)
        /\ Head(mail) = mail[1]
        /\ \A i \in 1 .. Len(mail') : mail'[i] = mail[i + 1] /\ i + 1 \in 1 .. Len(mail)
      OBVIOUS
  <1>. QED  BY <1>1 DEF Waits

(* erase takes an entry of the address itself. *)
LEMMA ErasedOthers ==
  ASSUME NEW s \in Seq(Addrs), NEW b
  PROVE  /\ Erased(s, b) \in Seq(Addrs)
         /\ \A a : a # b => (a \in Range(s) <=> a \in Range(Erased(s, b)))
         /\ \A a : Once(s, a) => Once(Erased(s, b), a)
         /\ Once(s, b) => b \notin Range(Erased(s, b))
  <1>1. CASE b \notin Range(s)
      BY <1>1 DEF Erased
  <1>2. CASE b \in Range(s)
    <2> DEFINE k == SelectLastInSeq(s, LAMBDA c : c = b)
               r == RemoveAt(s, k)
    <2>1. k \in 1 .. Len(s) /\ s[k] = b
        BY <1>2, ListedAt, LastIndex
    <2>2. Erased(s, b) = r
        BY <1>2 DEF Erased
    <2> HIDE DEF k
    <2>3. /\ r \in Seq(Addrs) /\ Len(r) = Len(s) - 1 /\ Len(s) \in Nat
          /\ \A i \in 1 .. Len(s) - 1 : r[i] = s[IF i < k THEN i ELSE i + 1]
        BY <2>1, RemovedAt
    <2> HIDE DEF r
    <2>4. ASSUME NEW a, a # b, a \in Range(s) PROVE a \in Range(r)
      <3>1. PICK i \in 1 .. Len(s) : s[i] = a
          BY <2>4, ListedAt
      <3>2. i # k
          BY <2>1, <2>4, <3>1
      <3>3. CASE i < k
        <4>1. i \in 1 .. Len(r) /\ r[i] = a
            BY <2>1, <2>3, <3>1, <3>3
        <4>. QED  BY <2>3, <4>1, ListedAt
      <3>4. CASE k < i
        <4>1. i - 1 \in 1 .. Len(r) /\ ~ (i - 1 < k) /\ (i - 1) + 1 = i
            BY <2>1, <2>3, <3>4
        <4>2. r[i - 1] = a
            BY <2>3, <3>1, <4>1
        <4>. QED  BY <2>3, <4>1, <4>2, ListedAt
      <3>. QED  BY <2>1, <3>2, <3>3, <3>4
    <2> DEFINE old(i) == IF i < k THEN i ELSE i + 1
    <2>5. /\ \A i \in 1 .. Len(r) : old(i) \in 1 .. Len(s) /\ old(i) # k /\ r[i] = s[old(i)]
          /\ \A i, j \in 1 .. Len(r) : old(i) = old(j) => i = j
        BY <2>1, <2>3
    <2> HIDE DEF old
    <2>6. ASSUME NEW a, a \in Range(r) PROVE a \in Range(s)
      <3>1. PICK i \in 1 .. Len(r) : r[i] = a
          BY <2>3, <2>6, ListedAt
      <3>. QED  BY <2>5, <3>1, ListedAt
    <2>7. ASSUME NEW a, Once(s, a) PROVE Once(r, a)
      <3>1. ASSUME NEW i \in 1 .. Len(r), NEW j \in 1 .. Len(r), r[i] = a, r[j] = a
            PROVE  i = j
        <4>1. old(i) = old(j)
            BY <2>5, <2>7, <3>1 DEF Once
        <4>. QED  BY <2>5, <4>1
      <3>. QED  BY <3>1 DEF Once
    <2>8. ASSUME Once(s, b), b \in Range(r) PROVE FALSE
      <3>1. PICK i \in 1 .. Len(r) : r[i] = b
          BY <2>3, <2>8, ListedAt
      <3>2. old(i) = k
          BY <2>1, <2>5, <2>8, <3>1 DEF Once
      <3>. QED  BY <2>5, <3>2
    <2>. QED  BY <2>2, <2>3, <2>4, <2>6, <2>7, <2>8
  <1>. QED  BY <1>1, <1>2

LEMMA AppendedListed ==
  ASSUME NEW s \in Seq(Addrs), NEW b \in Addrs
  PROVE  /\ Append(s, b) \in Seq(Addrs)
         /\ b \in Range(Append(s, b))
         /\ \A a : a \in Range(Append(s, b)) <=> a \in Range(s) \/ a = b
  <1>1. /\ Append(s, b) \in Seq(Addrs) /\ Len(Append(s, b)) = Len(s) + 1 /\ Len(s) \in Nat
        /\ \A i \in 1 .. Len(s) : Append(s, b)[i] = s[i]
        /\ Append(s, b)[Len(s) + 1] = b
      OBVIOUS
  <1>2. b \in Range(Append(s, b))
    <2>1. Len(s) + 1 \in 1 .. Len(Append(s, b))
        BY <1>1
    <2>. QED  BY <1>1, <2>1, ListedAt
  <1>3. ASSUME NEW a, a \in Range(s) PROVE a \in Range(Append(s, b))
    <2>1. PICK i \in 1 .. Len(s) : s[i] = a
        BY <1>3, ListedAt
    <2>2. i \in 1 .. Len(Append(s, b)) /\ Append(s, b)[i] = a
        BY <1>1, <2>1
    <2>. QED  BY <1>1, <2>2, ListedAt
  <1>4. ASSUME NEW a, a \in Range(Append(s, b)), a # b PROVE a \in Range(s)
    <2>1. PICK i \in 1 .. Len(Append(s, b)) : Append(s, b)[i] = a
        BY <1>1, <1>4, ListedAt
    <2>2. i \in 1 .. Len(s)
        BY <1>1, <1>4, <2>1
    <2>. QED  BY <1>1, <2>1, <2>2, ListedAt
  <1>. QED  BY <1>1, <1>2, <1>3, <1>4

LEMMA NotifiedOnly ==
  ASSUME NEW ans \in [Addrs -> {"none", "reply", "notice"}], NEW list
  PROVE  /\ Notified(ans, list) \in [Addrs -> {"none", "reply", "notice"}]
         /\ \A a \in Addrs : Notified(ans, list)[a] = "reply" => ans[a] = "reply"
         /\ \A a \in Addrs : stage[a] # "asking" => Notified(ans, list)[a] = ans[a]
  BY DEF Notified

-----------------------------------------------------------------------------
(* What touches neither the join port nor the tables.                      *)
LEMMA QuietMail ==
  ASSUME UNCHANGED <<mail, listVars>>
  PROVE  /\ \A t, a : Waits(t, a)' <=> Waits(t, a)
         /\ \A a : Listed(a)' <=> Listed(a)
         /\ \A a : InTables(a)' <=> InTables(a)
         /\ UNCHANGED <<chatMembers, socketList, admitting>>
  BY DEF listVars, Waits, Listed, InTables

LEMMA ProcessStep ==
  ASSUME IInv, NEW b \in Addrs, TakeAnswer(b) \/ GiveUp(b) \/ Crash(b) \/ SendAlive(b)
  PROVE  IInv'
  <1> USE QuietMail
  <1>0. /\ TypeOK /\ UnusedUnknown /\ FirstLife /\ EnteredOnce /\ WatchedIn
        /\ UNCHANGED <<mail, listVars, watchVars, starts, losses, back>>
      BY DEF IInv, TakeAnswer, GiveUp, Crash, SendAlive
  <1>1. UNCHANGED <<mail, chatMembers, socketList, admitting, heartbeatChecklist, periods,
                    starts, losses, back>>
      BY <1>0 DEF listVars, watchVars
  <1>2. TypeOK'
      BY <1>0, <1>1 DEF TypeOK, TakeAnswer, GiveUp, Crash, SendAlive, Ends, procVars
  <1>3. /\ \A a \in Addrs : a # b => stage'[a] = stage[a] /\ answer'[a] = answer[a]
        /\ stage'[b] \in {"none", "in"}
        /\ stage[b] # "none"
      BY <1>0 DEF TypeOK, TakeAnswer, GiveUp, Crash, SendAlive, Ends, procVars
  <1>4. UnusedUnknown'
    <2> SUFFICES ASSUME NEW a \in Addrs, starts[a] = 0
                 PROVE  /\ stage'[a] = "none" /\ answer'[a] = "none" /\ periods'[a] = 0
                        /\ ~Waits("JOIN", a)' /\ ~Waits("LEAVE", a)' /\ ~Watched(a)'
                        /\ a \notin chatMembers' \cup admitting' /\ ~Listed(a)'
        BY <1>1 DEF UnusedUnknown
    <2>1. a # b
        BY <1>0, <1>3 DEF UnusedUnknown
    <2>2. Watched(a)' => Watched(a)
        BY <1>1, <2>1 DEF Watched, TakeAnswer, GiveUp, Crash, SendAlive
    <2>. QED  BY <1>0, <1>1, <1>3, <2>1, <2>2 DEF UnusedUnknown
  <1>5. FirstLife'
    <2> SUFFICES ASSUME NEW a \in Addrs, starts[a] = 1, losses < Patience
                 PROVE  /\ stage'[a] # "none" => ~Waits("LEAVE", a) /\ periods[a] <= losses
                        /\ stage'[a] = "asking" => ~Watched(a)'
                        /\ stage'[a] = "asking" /\ answer'[a] = "reply" => InTables(a)
                        /\ stage'[a] = "in" => InTables(a) /\ (Watched(a)' => a \in marked')
        BY <1>0, <1>1 DEF FirstLife
    <2>1. CASE a # b
      <3>1. (Watched(a)' <=> Watched(a)) /\ (a \in marked' <=> a \in marked)
          BY <1>1, <2>1 DEF Watched, TakeAnswer, GiveUp, Crash, SendAlive, Ends, procVars
      <3>. QED  BY <1>0, <1>3, <2>1, <3>1 DEF FirstLife
    <2>2. CASE a = b /\ TakeAnswer(b)
      <3>1. Watched(a)' <=> Watched(a)
          BY <1>1, <2>2 DEF Watched, TakeAnswer
      <3>2. stage[a] = "asking" /\ (stage'[a] = "in" => answer[a] = "reply")
          BY <1>0, <2>2 DEF TakeAnswer, Ends, TypeOK
      <3>. QED  BY <1>0, <1>3, <2>2, <3>1, <3>2 DEF FirstLife
    <2>3. CASE a = b /\ (GiveUp(b) \/ Crash(b))
      <3>1. stage'[a] = "none"
          BY <1>0, <2>3 DEF GiveUp, Crash, Ends, TypeOK
      <3>. QED  BY <3>1
    <2>4. CASE a = b /\ SendAlive(b)
      <3>1. stage[a] = "in" /\ a \in marked /\ stage' = stage /\ marked' = marked
          BY <2>4 DEF SendAlive, procVars
      <3>. QED  BY <1>0, <3>1 DEF FirstLife
    <2>. QED  BY <2>1, <2>2, <2>3, <2>4
  <1>6. EnteredOnce' /\ WatchedIn'
      BY <1>0, <1>1 DEF EnteredOnce, WatchedIn, Waits, Listed
  <1>. QED  BY <1>2, <1>4, <1>5, <1>6 DEF IInv

(* A JOIN or a LEAVE that is sent to the sequencer, unless it is lost.     *)
LEMMA PostedTo ==
  ASSUME NEW b \in Addrs, NEW t \in {"JOIN", "LEAVE"}, mail \in Seq(Mail), Post(t, b)
  PROVE  /\ mail' \in Seq(Mail)
         /\ mail' = mail \/ mail' = Append(mail, [type |-> t, of |-> b])
         /\ \A u, a : Waits(u, a)' => Waits(u, a) \/ (u = t /\ a = b)
  <1> DEFINE m == [type |-> t, of |-> b]
  <1>1. m \in Mail /\ m.type = t /\ m.of = b
      BY DEF Mail
  <1>2. mail' = mail \/ mail' = Append(mail, m)
      BY DEF Post
  <1>3. \A u, a : m = [type |-> u, of |-> a] => u = t /\ a = b
      OBVIOUS
  <1> HIDE DEF m
  <1>4. CASE mail' = mail
      BY <1>4 DEF Waits, m
  <1>5. CASE mail' = Append(mail, m)
      BY <1>1, <1>3, <1>5, MailGrows DEF m
  <1>. QED  BY <1>2, <1>4, <1>5

LEMMA StartStep ==
  ASSUME IInv, NEW b \in Addrs, Start(b)
  PROVE  IInv'
  <1>0. /\ TypeOK /\ UnusedUnknown /\ FirstLife /\ EnteredOnce /\ WatchedIn /\ mail \in Seq(Mail)
        /\ starts \in [Addrs -> Nat] /\ stage \in [Addrs -> {"none", "asking", "in"}]
      BY DEF IInv, TypeOK
  <1>1. /\ starts' = [starts EXCEPT ![b] = @ + 1] /\ stage' = [stage EXCEPT ![b] = "asking"]
        /\ Post("JOIN", b) /\ marked' \in {marked, marked \cup {b}}
        /\ UNCHANGED <<veteran, answer, beats, chatMembers, socketList, admitting,
                       heartbeatChecklist, periods, losses, back>>
      BY DEF Start, listVars, watchVars
  <1>2. /\ mail' \in Seq(Mail)
        /\ \A a : Waits("LEAVE", a)' => Waits("LEAVE", a)
        /\ \A a : Waits("JOIN", a)' => Waits("JOIN", a) \/ a = b
        /\ mail' = mail \/ mail' = Append(mail, [type |-> "JOIN", of |-> b])
      BY <1>0, <1>1, PostedTo
  <1>3. /\ \A a : InTables(a)' <=> InTables(a)
        /\ \A a : Listed(a)' <=> Listed(a)
        /\ \A a : Watched(a)' <=> Watched(a)
      BY <1>1 DEF InTables, Listed, Watched
  <1>4. TypeOK'
    <2>1. starts' \in [Addrs -> Nat] /\ stage' \in [Addrs -> {"none", "asking", "in"}]
        BY <1>0, <1>1
    <2>. QED  BY <1>0, <1>1, <1>2, <2>1 DEF TypeOK
  <1>5. /\ \A a \in Addrs : a # b => starts'[a] = starts[a] /\ stage'[a] = stage[a]
        /\ starts'[b] = starts[b] + 1 /\ stage'[b] = "asking"
        /\ starts[b] \in Nat
      BY <1>0, <1>1
  <1>6. UnusedUnknown'
      BY <1>0, <1>1, <1>2, <1>3, <1>5 DEF UnusedUnknown
  <1>7. FirstLife'
    <2> SUFFICES ASSUME NEW a \in Addrs, starts'[a] = 1, losses < Patience
                 PROVE  /\ stage'[a] # "none" => ~Waits("LEAVE", a)' /\ periods[a] <= losses
                        /\ stage'[a] = "asking" => ~Watched(a)
                        /\ stage'[a] = "asking" /\ answer[a] = "reply" => InTables(a)
                        /\ stage'[a] = "in" => InTables(a) /\ (Watched(a) => a \in marked')
        BY <1>1, <1>3 DEF FirstLife
    <2>1. CASE a # b
        BY <1>0, <1>1, <1>2, <1>5, <2>1 DEF FirstLife
    <2>2. CASE a = b
      <3>1. starts[a] = 0 /\ losses \in Nat
          BY <1>0, <1>5, <2>2 DEF TypeOK
      <3>. QED  BY <1>0, <1>2, <1>5, <2>2, <3>1 DEF UnusedUnknown
    <2>. QED  BY <2>1, <2>2
  <1>8. EnteredOnce'
    <2> DEFINE join(a) == [type |-> "JOIN", of |-> a]
    <2>1. ASSUME NEW a \in Addrs, starts'[a] <= 1
          PROVE  /\ a \in chatMembers <=> Listed(a) \/ a \in admitting
                 /\ ~(Listed(a) /\ a \in admitting)
                 /\ Waits("JOIN", a)' => a \notin chatMembers
                 /\ Once(socketList, a)
      <3>1. starts[a] <= 1 /\ (a = b => starts[a] = 0)
          BY <1>5, <2>1
      <3>. QED  BY <1>0, <1>2, <3>1 DEF EnteredOnce, UnusedUnknown
    <2>2. ASSUME NEW a \in Addrs, starts'[a] <= 1 PROVE Once(mail', join(a))
      <3>1. starts[a] <= 1 /\ (a = b => starts[a] = 0)
          BY <1>5, <2>2
      <3>2. Once(mail, join(a)) /\ join(b) \in Mail
          BY <1>0, <3>1 DEF EnteredOnce, Mail
      <3>3. join(b) = join(a) => a = b
          OBVIOUS
      <3>4. a = b => \A i \in 1 .. Len(mail) : mail[i] # join(a)
          BY <1>0, <3>1 DEF UnusedUnknown, Waits
      <3>5. mail' = mail \/ mail' = Append(mail, join(b))
          BY <1>2
      <3> HIDE DEF join
      <3>. QED  BY <1>0, <3>2, <3>3, <3>4, <3>5, OnceAppended
    <2>. QED  BY <1>1, <1>3, <2>1, <2>2 DEF EnteredOnce
  <1>9. WatchedIn'
      BY <1>0, <1>1 DEF WatchedIn
  <1>. QED  BY <1>4, <1>6, <1>7, <1>8, <1>9 DEF IInv

(* A LEAVE: sent by the process that ends, or on behalf of one that was    *)
(* silent for too long.                                                    *)
LEMMA DepartStep ==
  ASSUME IInv, NEW b \in Addrs, Leave(b) \/ DeclareDead(b)
  PROVE  IInv'
  <1> DEFINE m == [type |-> "LEAVE", of |-> b]
  <1>0. /\ TypeOK /\ UnusedUnknown /\ FirstLife /\ EnteredOnce /\ WatchedIn /\ mail \in Seq(Mail)
        /\ m \in Mail
      BY DEF IInv, TypeOK, Mail
  <1>1. UNCHANGED <<beats, chatMembers, socketList, admitting, heartbeatChecklist, periods,
                    starts, losses, back>>
      BY DEF Leave, DeclareDead, listVars, watchVars
  <1>2. mail' = mail \/ mail' = Append(mail, m)
      BY DEF Leave, DeclareDead, Post
  <1>3. /\ mail' \in Seq(Mail)
        /\ \A a : Waits("LEAVE", a)' => Waits("LEAVE", a) \/ a = b
        /\ \A a : Waits("JOIN", a)' => Waits("JOIN", a)
    <2>1. CASE mail' = mail
        BY <1>0, <2>1 DEF Waits
    <2>2. CASE mail' = Append(mail, m)
      <3>1. \A a : /\ m = [type |-> "LEAVE", of |-> a] => a = b
                   /\ m # [type |-> "JOIN", of |-> a]
          OBVIOUS
      <3> HIDE DEF m
      <3>. QED  BY <1>0, <2>2, <3>1, MailGrows
    <2>. QED  BY <1>2, <2>1, <2>2
  <1>4. /\ \A a : InTables(a)' <=> InTables(a)
        /\ \A a : Listed(a)' <=> Listed(a)
        /\ \A a : Watched(a)' <=> Watched(a)
      BY <1>1 DEF InTables, Listed, Watched
  <1>5. /\ \A a \in Addrs : a # b => /\ stage'[a] = stage[a] /\ answer'[a] = answer[a]
                                     /\ (a \in marked' <=> a \in marked)
        /\ starts[b] # 0
        /\ starts[b] = 1 /\ losses < Patience => stage'[b] = "none"
    <2>1. CASE Leave(b)
      <3>1. /\ stage[b] = "in" /\ stage'[b] = "none"
            /\ \A a \in Addrs : a # b => /\ stage'[a] = stage[a] /\ answer'[a] = answer[a]
                                         /\ (a \in marked' <=> a \in marked)
          BY <1>0, <2>1 DEF Leave, Ends, TypeOK
      <3>. QED  BY <1>0, <3>1 DEF UnusedUnknown, FirstLife, InTables
    <2>2. CASE DeclareDead(b)
      <3>1. /\ UNCHANGED <<stage, answer, marked>> /\ b \in heartbeatChecklist
            /\ periods[b] = Patience
          BY <2>2 DEF DeclareDead, procVars
      <3>3. starts[b] # 0
          BY <1>0, <3>1 DEF UnusedUnknown, Watched
      <3>4. starts[b] = 1 /\ losses < Patience => stage[b] = "none"
        <4>1. losses \in Nat
            BY <1>0 DEF TypeOK
        <4>. QED  BY <1>0, <3>1, <4>1 DEF FirstLife, Patience
      <3>. QED  BY <3>1, <3>3, <3>4
    <2>. QED  BY <2>1, <2>2
  <1>6. TypeOK'
      BY <1>0, <1>1, <1>3 DEF TypeOK, Leave, DeclareDead, Ends, procVars
  <1>7. UnusedUnknown'
      BY <1>0, <1>1, <1>3, <1>4, <1>5 DEF UnusedUnknown
  <1>8. FirstLife'
    <2> SUFFICES ASSUME NEW a \in Addrs, starts[a] = 1, losses < Patience
                 PROVE  /\ stage'[a] # "none" => ~Waits("LEAVE", a)' /\ periods[a] <= losses
                        /\ stage'[a] = "asking" => ~Watched(a)
                        /\ stage'[a] = "asking" /\ answer'[a] = "reply" => InTables(a)
                        /\ stage'[a] = "in" => InTables(a) /\ (Watched(a) => a \in marked')
        BY <1>1, <1>4 DEF FirstLife
    <2>1. CASE a # b
        BY <1>0, <1>3, <1>5, <2>1 DEF FirstLife
    <2>2. CASE a = b
        BY <1>5, <2>2
    <2>. QED  BY <2>1, <2>2
  <1>9. EnteredOnce'
    <2> DEFINE join(a) == [type |-> "JOIN", of |-> a]
    <2>1. ASSUME NEW a \in Addrs, starts[a] <= 1 PROVE Once(mail', join(a))
      <3>1. Once(mail, join(a)) /\ m # join(a)
          BY <1>0, <2>1 DEF EnteredOnce
      <3> HIDE DEF join, m
      <3>. QED  BY <1>0, <1>2, <3>1, OnceAppended
    <2>. QED  BY <1>0, <1>1, <1>3, <1>4, <2>1 DEF EnteredOnce
  <1>10. WatchedIn'
      BY <1>0, <1>1 DEF WatchedIn
  <1>. QED  BY <1>6, <1>7, <1>8, <1>9, <1>10 DEF IInv

-----------------------------------------------------------------------------
(* noticeThread: a datagram out of the join port. *)
LEMMA AnswerStep ==
  ASSUME IInv, NEW b \in Addrs, AnswerJoin(b)
  PROVE  IInv'
  <1> DEFINE join(a) == [type |-> "JOIN", of |-> a]
  <1>0. /\ TypeOK /\ UnusedUnknown /\ FirstLife /\ EnteredOnce /\ WatchedIn /\ mail \in Seq(Mail)
        /\ socketList \in Seq(Addrs) /\ chatMembers \subseteq Addrs
        /\ answer \in [Addrs -> {"none", "reply", "notice"}]
      BY DEF IInv, TypeOK
  <1>1. /\ mail # << >> /\ Head(mail) = join(b) /\ mail' = Tail(mail)
        /\ chatMembers' = chatMembers \cup {b}
        /\ admitting = {} /\ admitting' = {b}
        /\ UNCHANGED <<stage, veteran, marked, beats, socketList, heartbeatChecklist, periods,
                       starts, losses, back>>
      BY DEF AnswerJoin, First, watchVars
  <1>2. answer' = answer \/ answer' = Answered(b)
      BY DEF AnswerJoin
  <1>3. /\ mail' \in Seq(Mail) /\ Waits("JOIN", b)
        /\ \A t, a : Waits(t, a)' => Waits(t, a)
      BY <1>0, <1>1, MailShrinks DEF Waits
  <1>4. /\ InTables(b)' /\ \A a : InTables(a) => InTables(a)'
        /\ \A a : Watched(a)' <=> Watched(a)
        /\ \A a : Listed(a)' <=> Listed(a)
      BY <1>0, <1>1 DEF InTables, Listed, Watched
  <1>5. /\ answer' \in [Addrs -> {"none", "reply", "notice"}]
        /\ \A a \in Addrs : a # b \/ stage[a] # "asking" => answer'[a] = answer[a]
      BY <1>0, <1>2 DEF Answered
  <1>6. TypeOK'
      BY <1>0, <1>1, <1>3, <1>5 DEF TypeOK
  <1>7. starts[b] # 0
      BY <1>0, <1>3 DEF UnusedUnknown
  <1>8. UnusedUnknown'
      BY <1>0, <1>1, <1>3, <1>4, <1>5, <1>7 DEF UnusedUnknown
  <1>9. FirstLife'
      BY <1>0, <1>1, <1>3, <1>4, <1>5 DEF FirstLife
  <1>10. EnteredOnce'
    <2>1. ASSUME NEW a \in Addrs, starts[a] <= 1
          PROVE  Once(mail', join(a)) /\ (a = b => ~Waits("JOIN", a)')
      <3>1. Once(mail, join(a))
          BY <1>0, <2>1 DEF EnteredOnce
      <3>2. /\ Once(mail', join(a))
            /\ a = b => \A i \in 1 .. Len(mail') : mail'[i] # join(a)
        <4> HIDE DEF join
        <4>. QED  BY <1>0, <1>1, <3>1, OnceShrinks
      <3>. QED  BY <3>2 DEF Waits
    <2>2. ASSUME NEW a \in Addrs, starts[a] <= 1
          PROVE  /\ a \in chatMembers' <=> Listed(a) \/ a \in admitting'
                 /\ ~(Listed(a) /\ a \in admitting')
                 /\ Waits("JOIN", a)' => a \notin chatMembers'
                 /\ Once(socketList, a)
        BY <1>0, <1>1, <1>3, <2>1, <2>2 DEF EnteredOnce
    <2>. QED  BY <1>1, <1>4, <2>1, <2>2 DEF EnteredOnce
  <1>11. WatchedIn'
      BY <1>0, <1>1 DEF WatchedIn
  <1>. QED  BY <1>6, <1>8, <1>9, <1>10, <1>11 DEF IInv

LEMMA AdmitStep ==
  ASSUME IInv, NEW b \in Addrs, Admit(b)
  PROVE  IInv'
  <1>0. /\ TypeOK /\ UnusedUnknown /\ FirstLife /\ EnteredOnce /\ WatchedIn
        /\ socketList \in Seq(Addrs)
        /\ answer \in [Addrs -> {"none", "reply", "notice"}]
        /\ admitting \in {{}} \cup {{a} : a \in Addrs}
      BY DEF IInv, TypeOK
  <1>1. /\ b \in admitting /\ admitting' = {}
        /\ answer' = Notified(answer, socketList)
        /\ socketList' = Append(socketList, b)
        /\ UNCHANGED <<stage, veteran, marked, mail, beats, chatMembers, heartbeatChecklist,
                       periods, starts, losses, back>>
      BY DEF Admit, watchVars
  <1>2. admitting = {b}
      BY <1>0, <1>1
  <1>3. /\ socketList' \in Seq(Addrs)
        /\ \A a : Listed(a)' <=> Listed(a) \/ a = b
        /\ \A t, a : Waits(t, a)' <=> Waits(t, a)
        /\ \A a : Watched(a)' <=> Watched(a)
      BY <1>0, <1>1, AppendedListed DEF Listed, Watched, Waits
  <1>4. \A a : InTables(a) => InTables(a)'
      BY <1>1, <1>2, <1>3 DEF InTables
  <1>5. /\ answer' \in [Addrs -> {"none", "reply", "notice"}]
        /\ \A a \in Addrs : answer'[a] = "reply" => answer[a] = "reply"
        /\ \A a \in Addrs : stage[a] # "asking" => answer'[a] = answer[a]
      BY <1>0, <1>1, NotifiedOnly
  <1>6. TypeOK'
      BY <1>0, <1>1, <1>3, <1>5 DEF TypeOK
  <1>7. starts[b] # 0
      BY <1>0, <1>1 DEF UnusedUnknown
  <1>8. UnusedUnknown'
      BY <1>0, <1>1, <1>3, <1>5, <1>7 DEF UnusedUnknown
  <1>9. FirstLife'
      BY <1>0, <1>1, <1>3, <1>4, <1>5 DEF FirstLife
  <1>10. EnteredOnce'
    <2>1. ASSUME NEW a \in Addrs, starts[a] <= 1 PROVE Once(socketList', a)
      <3>1. Once(socketList, a) /\ (a = b => ~Listed(a))
          BY <1>0, <1>1, <2>1 DEF EnteredOnce
      <3>2. a = b => \A i \in 1 .. Len(socketList) : socketList[i] # a
          BY <1>0, <3>1, ListedAt DEF Listed
      <3>. QED  BY <1>0, <1>1, <3>1, <3>2, OnceAppended
    <2>2. ASSUME NEW a \in Addrs, starts[a] <= 1
          PROVE  a \in chatMembers <=> Listed(a) \/ a = b
        BY <1>0, <1>2, <2>2 DEF EnteredOnce
    <2>. QED  BY <1>0, <1>1, <1>3, <2>1, <2>2 DEF EnteredOnce
  <1>11. WatchedIn'
      BY <1>0, <1>1 DEF WatchedIn
  <1>. QED  BY <1>6, <1>8, <1>9, <1>10, <1>11 DEF IInv

LEMMA LeaveStep ==
  ASSUME IInv, NEW b \in Addrs, HandleLeave(b)
  PROVE  IInv'
  <1> DEFINE m == [type |-> "LEAVE", of |-> b]
  <1>0. /\ TypeOK /\ UnusedUnknown /\ FirstLife /\ EnteredOnce /\ WatchedIn /\ mail \in Seq(Mail)
        /\ socketList \in Seq(Addrs) /\ chatMembers \subseteq Addrs
        /\ periods \in [Addrs -> 0 .. Patience] /\ heartbeatChecklist \subseteq Addrs
        /\ answer \in [Addrs -> {"none", "reply", "notice"}] /\ losses \in Nat
      BY DEF IInv, TypeOK
  <1>1. /\ mail # << >> /\ Head(mail) = m /\ mail' = Tail(mail)
        /\ chatMembers' = chatMembers \ {b} /\ socketList' = Erased(socketList, b)
        /\ heartbeatChecklist' = heartbeatChecklist \ {b}
        /\ periods' = [periods EXCEPT ![b] = 0]
        /\ answer' = Notified(answer, socketList')
        /\ admitting = {} /\ admitting' = {}
        /\ UNCHANGED <<stage, veteran, marked, beats, starts, losses, back>>
      BY DEF HandleLeave, First
  <1>2. /\ mail' \in Seq(Mail) /\ Waits("LEAVE", b)
        /\ \A t, a : Waits(t, a)' => Waits(t, a)
      BY <1>0, <1>1, MailShrinks DEF Waits
  <1>3. /\ socketList' \in Seq(Addrs)
        /\ \A a : a # b /\ InTables(a) => InTables(a)'
        /\ \A a : a # b => (Listed(a)' <=> Listed(a))
        /\ \A a : Once(socketList, a) => Once(socketList', a)
        /\ Once(socketList, b) => ~Listed(b)'
        /\ \A a : Watched(a)' => Watched(a)
      BY <1>0, <1>1, ErasedOthers DEF InTables, Listed, Watched
  <1>4. /\ answer' \in [Addrs -> {"none", "reply", "notice"}]
        /\ \A a \in Addrs : answer'[a] = "reply" => answer[a] = "reply"
        /\ \A a \in Addrs : stage[a] # "asking" => answer'[a] = answer[a]
      BY <1>0, <1>1 DEF Notified
  <1>5. /\ periods' \in [Addrs -> 0 .. Patience]
        /\ \A a \in Addrs : a # b => periods'[a] = periods[a]
        /\ periods'[b] = 0
      BY <1>0, <1>1 DEF Patience
  <1>6. TypeOK'
    <2>1. heartbeatChecklist' \subseteq Addrs /\ chatMembers' \subseteq Addrs
        BY <1>0, <1>1
    <2>. QED  BY <1>0, <1>1, <1>2, <1>3, <1>4, <1>5, <2>1 DEF TypeOK
  <1>7. UnusedUnknown'
    <2>1. starts[b] # 0
        BY <1>0, <1>2 DEF UnusedUnknown
    <2>. QED  BY <1>0, <1>1, <1>2, <1>3, <1>4, <1>5, <2>1 DEF UnusedUnknown
  <1>8. FirstLife'
    <2> SUFFICES ASSUME NEW a \in Addrs, starts[a] = 1, losses < Patience
                 PROVE  /\ stage[a] # "none" => ~Waits("LEAVE", a)' /\ periods'[a] <= losses
                        /\ stage[a] = "asking" => ~Watched(a)'
                        /\ stage[a] = "asking" /\ answer'[a] = "reply" => InTables(a)'
                        /\ stage[a] = "in" => InTables(a)' /\ (Watched(a)' => a \in marked)
        BY <1>1 DEF FirstLife
    <2>1. CASE a # b
        BY <1>0, <1>1, <1>2, <1>3, <1>4, <1>5, <2>1 DEF FirstLife
    <2>2. CASE a = b
      <3>1. stage[b] = "none"
          BY <1>0, <1>2, <2>2 DEF FirstLife
      <3>. QED  BY <2>2, <3>1
    <2>. QED  BY <2>1, <2>2
  <1>9. EnteredOnce'
    <2> DEFINE join(a) == [type |-> "JOIN", of |-> a]
    <2>1. ASSUME NEW a \in Addrs, starts[a] <= 1 PROVE Once(mail', join(a))
      <3>1. Once(mail, join(a))
          BY <1>0, <2>1 DEF EnteredOnce
      <3> HIDE DEF join
      <3>. QED  BY <1>0, <1>1, <3>1, OnceShrinks
    <2>. QED  BY <1>0, <1>1, <1>2, <1>3, <2>1 DEF EnteredOnce
  <1>10. WatchedIn'
      BY <1>0, <1>1 DEF WatchedIn
  <1>. QED  BY <1>6, <1>7, <1>8, <1>9, <1>10 DEF IInv

-----------------------------------------------------------------------------
(* The failure detector. *)
LEMMA AliveStep ==
  ASSUME IInv, NEW b \in Addrs, ReceiveAlive(b)
  PROVE  IInv'
  <1> USE QuietMail
  <1>0. /\ TypeOK /\ UnusedUnknown /\ FirstLife /\ EnteredOnce /\ WatchedIn /\ back \subseteq Addrs
        /\ periods \in [Addrs -> 0 .. Patience] /\ heartbeatChecklist \subseteq Addrs
        /\ beats \subseteq Addrs /\ losses \in Nat
      BY DEF IInv, TypeOK
  <1>1. /\ b \in beats /\ beats' = beats \ {b}
        /\ heartbeatChecklist' = heartbeatChecklist \cup {b}
        /\ periods' = [periods EXCEPT ![b] = 0]
        /\ back' = IF b \in chatMembers THEN back ELSE back \cup {b}
        /\ UNCHANGED <<mail, listVars>>
        /\ UNCHANGED <<stage, veteran, marked, answer, chatMembers, socketList, admitting,
                       starts, losses>>
      BY DEF ReceiveAlive, procVars, listVars
  <1>2. /\ periods' \in [Addrs -> 0 .. Patience]
        /\ \A a \in Addrs : a # b => periods'[a] = periods[a]
        /\ periods'[b] = 0
      BY <1>0, <1>1 DEF Patience
  <1>3. Watched(b) /\ \A a : Watched(a)' <=> Watched(a)
      BY <1>1 DEF Watched
  <1>4. TypeOK'
    <2>1. /\ heartbeatChecklist' \subseteq Addrs /\ beats' \subseteq Addrs
          /\ back' \subseteq Addrs
        BY <1>0, <1>1
    <2>. QED  BY <1>0, <1>1, <1>2, <2>1 DEF TypeOK
  <1>5. UnusedUnknown'
      BY <1>0, <1>1, <1>2, <1>3 DEF UnusedUnknown
  <1>6. FirstLife'
      BY <1>0, <1>1, <1>2, <1>3 DEF FirstLife
  <1>7. EnteredOnce' /\ WatchedIn'
      BY <1>0, <1>1 DEF EnteredOnce, WatchedIn
  <1>. QED  BY <1>4, <1>5, <1>6, <1>7 DEF IInv

LEMMA SilenceStep ==
  ASSUME IInv, NEW b \in Addrs, Silence(b)
  PROVE  IInv'
  <1> USE QuietMail
  <1>0. /\ TypeOK /\ UnusedUnknown /\ FirstLife /\ EnteredOnce /\ WatchedIn
        /\ periods \in [Addrs -> 0 .. Patience] /\ losses \in Nat
      BY DEF IInv, TypeOK
  <1>1. /\ b \in heartbeatChecklist /\ periods[b] < Patience
        /\ periods' = [periods EXCEPT ![b] = @ + 1]
        /\ losses' = losses \/ losses' = losses + 1
        /\ stage[b] = "in" /\ b \in marked => losses' = losses + 1
        /\ UNCHANGED <<mail, listVars>>
        /\ UNCHANGED <<stage, veteran, marked, answer, beats, chatMembers, socketList,
                       admitting, heartbeatChecklist, starts, back>>
      BY DEF Silence, procVars, listVars
  <1>2. /\ periods' \in [Addrs -> 0 .. Patience]
        /\ \A a \in Addrs : a # b => periods'[a] = periods[a]
        /\ periods'[b] = periods[b] + 1 /\ periods[b] \in Nat
      BY <1>0, <1>1 DEF Patience
  <1>3. /\ losses' \in Nat /\ losses' >= losses
        /\ losses' < Patience => losses < Patience
      BY <1>0, <1>1 DEF Patience
  <1>4. Watched(b) /\ \A a : Watched(a)' <=> Watched(a)
      BY <1>1 DEF Watched
  <1>5. TypeOK'
      BY <1>0, <1>1, <1>2, <1>3 DEF TypeOK
  <1>6. UnusedUnknown'
      BY <1>0, <1>1, <1>2, <1>4 DEF UnusedUnknown
  <1>7. FirstLife'
    <2> SUFFICES ASSUME NEW a \in Addrs, starts[a] = 1, losses' < Patience
                 PROVE  /\ stage[a] # "none" => ~Waits("LEAVE", a) /\ periods'[a] <= losses'
                        /\ stage[a] = "asking" => ~Watched(a)
                        /\ stage[a] = "asking" /\ answer[a] = "reply" => InTables(a)
                        /\ stage[a] = "in" => InTables(a) /\ (Watched(a) => a \in marked)
        BY <1>1, <1>4 DEF FirstLife
    <2>1. /\ stage[a] # "none" => ~Waits("LEAVE", a) /\ periods[a] <= losses
          /\ stage[a] = "asking" => ~Watched(a)
          /\ stage[a] = "asking" /\ answer[a] = "reply" => InTables(a)
          /\ stage[a] = "in" => InTables(a) /\ (Watched(a) => a \in marked)
        BY <1>0, <1>3 DEF FirstLife
    <2>2. ASSUME stage[a] # "none" PROVE periods'[a] <= losses'
      <3>1. CASE a # b
        <4>1. periods'[a] = periods[a] /\ periods[a] \in Nat
            BY <1>0, <1>2, <3>1
        <4>. QED  BY <1>0, <1>3, <2>1, <2>2, <4>1
      <3>2. CASE a = b
        <4>1. stage[b] = "in" /\ b \in marked
            BY <1>0, <1>4, <2>1, <2>2, <3>2 DEF TypeOK
        <4>2. losses' = losses + 1 /\ periods[b] <= losses
            BY <1>1, <2>1, <2>2, <3>2, <4>1
        <4>. QED  BY <1>0, <1>2, <3>2, <4>2
      <3>. QED  BY <3>1, <3>2
    <2>. QED  BY <2>1, <2>2
  <1>8. EnteredOnce' /\ WatchedIn'
      BY <1>0, <1>1 DEF EnteredOnce, WatchedIn
  <1>. QED  BY <1>5, <1>6, <1>7, <1>8 DEF IInv

-----------------------------------------------------------------------------
LEMMA NextStep == IInv /\ [Next]_vars => IInv'
  <1> SUFFICES ASSUME IInv, [Next]_vars PROVE IInv'
      OBVIOUS
  <1>1. ASSUME NEW b \in Addrs, Start(b) PROVE IInv'
      BY <1>1, StartStep
  <1>2. ASSUME NEW b \in Addrs, TakeAnswer(b) \/ GiveUp(b) \/ Crash(b) \/ SendAlive(b)
        PROVE  IInv'
      BY <1>2, ProcessStep
  <1>3. ASSUME NEW b \in Addrs, Leave(b) \/ DeclareDead(b) PROVE IInv'
      BY <1>3, DepartStep
  <1>4. ASSUME NEW b \in Addrs, AnswerJoin(b) \/ Admit(b) PROVE IInv'
      BY <1>4, AnswerStep, AdmitStep
  <1>5. ASSUME NEW b \in Addrs, HandleLeave(b) PROVE IInv'
      BY <1>5, LeaveStep
  <1>6. ASSUME NEW b \in Addrs, ReceiveAlive(b) PROVE IInv'
      BY <1>6, AliveStep
  <1>7. ASSUME NEW b \in Addrs, Silence(b) PROVE IInv'
      BY <1>7, SilenceStep
  <1>8. CASE UNCHANGED vars
      BY <1>8, SMTT(30) DEF vars, procVars, listVars, watchVars, IInv, TypeOK, UnusedUnknown,
              FirstLife, EnteredOnce, WatchedIn, Once, Waits, Watched, InTables, Listed
  <1>. QED  BY <1>1, <1>2, <1>3, <1>4, <1>5, <1>6, <1>7, <1>8 DEF Next

(***************************************************************************)
(* What the sequencer's tables, its join port and the checklist have to do *)
(* with each other, in every reachable state, whatever is lost.            *)
(***************************************************************************)
THEOREM IInvCorrect == Spec => []IInv
  BY InitIInv, NextStep, PTL DEF Spec

(* The variables of Roster have their types. *)
THEOREM TypeCorrect == Spec => []TypeOK
  <1>1. IInv => TypeOK
      BY DEF IInv
  <1>. QED  BY <1>1, IInvCorrect, PTL

(***************************************************************************)
(* The first process at an address stays in chatMembers and socketList     *)
(* while it runs, unless three heartbeats were lost: neither a late ALIVE, *)
(* nor the LEAVE of somebody else, nor DeclareDead takes it off.           *)
(***************************************************************************)
THEOREM LiveStay == Spec => []LiveStayListed
  <1>1. IInv => LiveStayListed
      BY DEF IInv, FirstLife, LiveStayListed, InTables
  <1>. QED  BY <1>1, IInvCorrect, PTL

(* Which steps report, and which take a LEAVE out of the join port. *)
LEMMA MailSteps ==
  ASSUME TypeOK, Next, NEW a \in Addrs
  PROVE  /\ Reported(a) => a \in heartbeatChecklist
         /\ First("LEAVE", a) /\ mail' = Tail(mail) => HandleLeave(a)
  <1> DEFINE l(b) == [type |-> "LEAVE", of |-> b]
             j(b) == [type |-> "JOIN", of |-> b]
  <1>0. mail \in Seq(Mail) /\ stage \in [Addrs -> {"none", "asking", "in"}]
      BY DEF TypeOK
  <1>1. PICK b \in Addrs :
          \/ Start(b) \/ TakeAnswer(b) \/ GiveUp(b) \/ Leave(b) \/ Crash(b) \/ SendAlive(b)
          \/ AnswerJoin(b) \/ Admit(b) \/ HandleLeave(b)
          \/ ReceiveAlive(b) \/ Silence(b) \/ DeclareDead(b)
      BY DEF Next
  <1>2. /\ l(a) \in Mail /\ l(b) \in Mail /\ j(b) \in Mail
        /\ \A c \in Addrs : l(c) = l(a) => c = a
        /\ \A c \in Addrs : j(c) # l(a)
      BY DEF Mail
  <1> HIDE DEF l, j
  <1>3. \A m \in Mail : Append(mail, m) # mail /\ Len(Append(mail, m)) = Len(mail) + 1
      BY <1>0
  <1>4. mail # << >> => Len(Tail(mail)) = Len(mail) - 1 /\ Len(mail) \in Nat
      BY <1>0
  <1>5. Len(mail) \in Nat
      BY <1>0
  <1>6. CASE Start(b)
    <2>1. stage' # stage
        BY <1>0, <1>6 DEF Start
    <2>2. mail' = mail \/ mail' = Append(mail, j(b))
        BY <1>6 DEF Start, Post, j
    <2>3. First("LEAVE", a) => mail' # Tail(mail)
        BY <1>2, <1>3, <1>4, <1>5, <2>2 DEF First
    <2>. QED  BY <2>1, <2>3 DEF Reported
  <1>7. CASE Leave(b)
    <2>1. stage' # stage
        BY <1>0, <1>7 DEF Leave, Ends
    <2>2. mail' = mail \/ mail' = Append(mail, l(b))
        BY <1>7 DEF Leave, Post, l
    <2>3. First("LEAVE", a) => mail' # Tail(mail)
        BY <1>2, <1>3, <1>4, <1>5, <2>2 DEF First
    <2>. QED  BY <2>1, <2>3 DEF Reported
  <1>8. CASE \/ TakeAnswer(b) \/ GiveUp(b) \/ Crash(b) \/ SendAlive(b) \/ Admit(b)
             \/ ReceiveAlive(b) \/ Silence(b)
    <2>1. mail' = mail
        BY <1>8 DEF TakeAnswer, GiveUp, Crash, SendAlive, Admit, ReceiveAlive, Silence
    <2>2. First("LEAVE", a) => mail' # Tail(mail)
        BY <1>4, <1>5, <2>1 DEF First
    <2>3. mail' # Append(mail, l(a))
        BY <1>2, <1>3, <2>1
    <2>. QED  BY <2>2, <2>3 DEF Reported, l
  <1>9. CASE AnswerJoin(b) \/ HandleLeave(b)
    <2>1. mail # << >> /\ mail' = Tail(mail)
          /\ (AnswerJoin(b) => Head(mail) = j(b)) /\ (HandleLeave(b) => Head(mail) = l(b))
        BY <1>9 DEF AnswerJoin, HandleLeave, First, l, j
    <2>2. mail' # Append(mail, l(a))
        BY <1>2, <1>3, <1>4, <1>5, <2>1
    <2>3. First("LEAVE", a) => HandleLeave(a)
      <3>1. First("LEAVE", a) => Head(mail) = l(a)
          BY DEF First, l
      <3>. QED  BY <1>2, <1>9, <2>1, <3>1
    <2>. QED  BY <2>2, <2>3 DEF Reported, l
  <1>10. CASE DeclareDead(b)
    <2>1. mail' = Append(mail, l(b)) /\ b \in heartbeatChecklist
        BY <1>10 DEF DeclareDead, l
    <2>2. mail' = Append(mail, l(a)) => l(a) = l(b)
      <3>1. \A m \in Mail : Append(mail, m)[Len(mail) + 1] = m
          BY <1>0
      <3>. QED  BY <1>2, <2>1, <3>1
    <2>3. First("LEAVE", a) => mail' # Tail(mail)
        BY <1>2, <1>3, <1>4, <1>5, <2>1 DEF First
    <2>. QED  BY <1>2, <2>1, <2>2, <2>3 DEF Reported, l
  <1>. QED  BY <1>1, <1>6, <1>7, <1>8, <1>9, <1>10

(***************************************************************************)
(* A departure, once handled, is over: only an ALIVE that came after it    *)
(* makes checkForDeadMembers report it again, and what noticeThread still  *)
(* finds of its reports changes neither table (of an address used once).   *)
(***************************************************************************)
THEOREM RepeatsHarmlessCorrect == Spec => RepeatsHarmless
  <1>1. IInv /\ [Next]_vars =>
          [ \A a \in Addrs : a \notin chatMembers =>
              /\ Reported(a) => a \in back
              /\ First("LEAVE", a) /\ mail' = Tail(mail) /\ starts[a] <= 1 =>
                   UNCHANGED <<chatMembers, socketList>> ]_vars
    <2> SUFFICES ASSUME IInv, Next, NEW a \in Addrs, a \notin chatMembers
                 PROVE  /\ Reported(a) => a \in back
                        /\ First("LEAVE", a) /\ mail' = Tail(mail) /\ starts[a] <= 1 =>
                             UNCHANGED <<chatMembers, socketList>>
        OBVIOUS
    <2>1. TypeOK /\ EnteredOnce /\ WatchedIn
        BY DEF IInv
    <2>2. /\ Reported(a) => a \in heartbeatChecklist
          /\ First("LEAVE", a) /\ mail' = Tail(mail) => HandleLeave(a)
        BY <2>1, MailSteps
    <2>3. Reported(a) => a \in back
        BY <2>1, <2>2 DEF WatchedIn
    <2>4. ASSUME HandleLeave(a), starts[a] <= 1 PROVE UNCHANGED <<chatMembers, socketList>>
      <3>1. a \notin Range(socketList)
          BY <2>1, <2>4 DEF EnteredOnce, Listed
      <3>2. chatMembers' = chatMembers \ {a} /\ socketList' = Erased(socketList, a)
          BY <2>4 DEF HandleLeave
      <3>. QED  BY <3>1, <3>2 DEF Erased
    <2>. QED  BY <2>2, <2>3, <2>4
  <1>. QED  BY <1>1, IInvCorrect, PTL DEF Spec, RepeatsHarmless
=============================================================================
