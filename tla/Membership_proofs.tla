--------------------------- MODULE Membership_proofs ---------------------------
(***************************************************************************)
(* Proofs about Membership, for every set of joiners, whoever they ask,    *)
(* and every number of crashes: the tables of a process stay in step, all  *)
(* members get the sequencer's table, and a member that is in step stays   *)
(* so.                                                                     *)
(***************************************************************************)
EXTENDS Membership, Functions, FiniteSetTheorems, SequenceTheorems, TLAPS

-----------------------------------------------------------------------------
(***************************************************************************)
(* The search for an entry of socketList, erase, and the list of a set.    *)
(***************************************************************************)
(* Every set of natural numbers that is not empty has a smallest element.  *)
LEMMA SmallestIn ==
  ASSUME NEW T, T \subseteq Nat, T # {}
  PROVE  \E n \in T : \A m \in T : n <= m
  <1>1. PICK n \in T : \A m \in T : ~ (<<m, n>> \in OpToRel(<, Nat))
      BY NatLessThanWellFounded, WFMin
  <1>2. ASSUME NEW m \in T PROVE n <= m
    <2>1. m \in Nat /\ n \in Nat
        OBVIOUS
    <2>2. ~ (m < n)
        BY <1>1, <2>1 DEF OpToRel
    <2>. QED  BY <2>1, <2>2
  <1>. QED  BY <1>2

(* ... and one that is bounded a largest. *)
LEMMA LargestUpTo ==
  ASSUME NEW n \in Nat, NEW T, T \subseteq 1 .. n, T # {}
  PROVE  \E k \in T : \A i \in T : k >= i
  <1> DEFINE D == {d \in Nat : n - d \in T}
  <1>1. D \subseteq Nat /\ D # {}
    <2>1. PICK i \in T : TRUE
        OBVIOUS
    <2>2. n - i \in Nat /\ n - (n - i) = i
        BY <2>1
    <2>3. n - i \in D
        BY <2>1, <2>2
    <2>. QED  BY <2>3
  <1>2. PICK d \in D : \A e \in D : d <= e
      BY <1>1, SmallestIn
  <1>3. \A i \in T : n - i \in D /\ d <= n - i
    <2> SUFFICES ASSUME NEW i \in T PROVE n - i \in D
        BY <1>2
    <2>1. n - i \in Nat /\ n - (n - i) = i
        OBVIOUS
    <2>. QED  BY <2>1
  <1>4. \A i \in T : n - d >= i
      BY <1>3
  <1>. QED  BY <1>2, <1>4

(* erase: the other entries keep their order. *)
LEMMA RemovedAt ==
  ASSUME NEW S, NEW s \in Seq(S), NEW k \in 1 .. Len(s)
  PROVE  /\ RemoveAt(s, k) \in Seq(S)
         /\ Len(RemoveAt(s, k)) = Len(s) - 1
         /\ \A i \in 1 .. Len(s) - 1 : RemoveAt(s, k)[i] = s[IF i < k THEN i ELSE i + 1]
  <1> DEFINE a == SubSeq(s, 1, k - 1)
             b == SubSeq(s, k + 1, Len(s))
  <1>1. /\ a \in Seq(S) /\ Len(a) = k - 1 /\ k \in Nat /\ Len(s) \in Nat
        /\ \A i \in 1 .. k - 1 : a[i] = s[i]
      OBVIOUS
  <1>2. /\ b \in Seq(S) /\ Len(b) = Len(s) - k
        /\ \A i \in 1 .. Len(s) - k : b[i] = s[k + i]
      OBVIOUS
  <1> HIDE DEF a, b
  <1>3. /\ a \o b \in Seq(S) /\ Len(a \o b) = Len(s) - 1
        /\ \A i \in 1 .. Len(s) - 1 : (a \o b)[i] = IF i < k THEN a[i] ELSE b[i - (k - 1)]
    <2>1. a \o b \in Seq(S) /\ Len(a \o b) = Len(a) + Len(b)
        BY <1>1, <1>2, ConcatProperties
    <2>2. \A i \in 1 .. Len(a) + Len(b) :
            (a \o b)[i] = IF i <= Len(a) THEN a[i] ELSE b[i - Len(a)]
        BY <1>1, <1>2, ConcatProperties
    <2>. QED  BY <1>1, <1>2, <2>1, <2>2, SMTT(30)
  <1>4. ASSUME NEW i \in 1 .. Len(s) - 1
        PROVE  (a \o b)[i] = s[IF i < k THEN i ELSE i + 1]
    <2>1. CASE i < k
        BY <1>1, <1>3, <2>1
    <2>2. CASE ~ (i < k)
      <3>1. i - (k - 1) \in 1 .. Len(s) - k /\ k + (i - (k - 1)) = i + 1
          BY <1>1, <2>2
      <3>. QED  BY <1>2, <1>3, <2>2, <3>1
    <2>. QED  BY <2>1, <2>2
  <1>. QED  BY <1>3, <1>4 DEF RemoveAt, a, b

(* An injective list of as many elements as a finite set has, has them all. *)
LEMMA ListsAll ==
  ASSUME NEW S, IsFiniteSet(S), NEW f \in [1 .. Cardinality(S) -> S],
         \A i, k \in 1 .. Cardinality(S) : f[i] = f[k] => i = k
  PROVE  /\ f \in Seq(S) /\ Len(f) = Cardinality(S)
         /\ \A x \in S : \E i \in 1 .. Len(f) : f[i] = x
  <1> DEFINE n == Cardinality(S)
  <1>1. n \in Nat
      BY FS_CardinalityType
  <1>2. f \in Seq(S) /\ Len(f) = n
      BY <1>1
  <1>3. f \in Injection(1 .. n, S)
      BY DEF Injection, IsInjective
  <1>4. IsFiniteSet(1 .. n) /\ Cardinality(1 .. n) = n
      BY <1>1, FS_Interval
  <1>5. f \in Surjection(1 .. n, S)
      BY <1>3, <1>4, FS_Injection
  <1>. QED  BY <1>2, <1>5 DEF Surjection

(* A finite set of integers has a smallest element ... *)
LEMMA SmallestOf ==
  ASSUME NEW S, S \subseteq Int, IsFiniteSet(S), S # {}
  PROVE  \E x \in S : \A y \in S : x <= y
  <1> DEFINE HasNone(T) == T # {} /\ \A x \in T : \E y \in T : y < x
             Bad == {n \in Nat : \E T \in SUBSET Int : /\ IsFiniteSet(T) /\ Cardinality(T) = n
                                                       /\ HasNone(T)}
  <1>1. ASSUME Bad # {} PROVE FALSE
    <2>1. PICK n \in Bad : \A m \in Bad : n <= m
        BY <1>1, SmallestIn
    <2>2. PICK T \in SUBSET Int : IsFiniteSet(T) /\ Cardinality(T) = n /\ HasNone(T)
        OBVIOUS
    <2>3. PICK x \in T : TRUE
        BY <2>2
    <2> DEFINE U == T \ {x}
    <2>4. /\ IsFiniteSet(U) /\ Cardinality(U) = n - 1 /\ U \in SUBSET Int
          /\ Cardinality(U) \in Nat
        BY <2>2, <2>3, FS_RemoveElement, FS_CardinalityType
    <2>5. Cardinality(U) \notin Bad
      <3>1. n \in Int /\ Cardinality(U) < n
          BY <2>4
      <3>2. \A k \in Bad : n <= k
          BY <2>1
      <3>3. \A k \in Bad : k \in Nat
          OBVIOUS
      <3> HIDE DEF Bad, U
      <3>. QED  BY <2>4, <3>1, <3>2, <3>3
    <2>6. ~HasNone(U)
        BY <2>4, <2>5
    <2>7. CASE U = {}
      <3>1. \A y \in T : y = x
          BY <2>7
      <3>. QED  BY <2>2, <2>3, <3>1
    <2>8. CASE U # {}
      <3>1. PICK u \in U : \A y \in U : ~ (y < u)
          BY <2>6, <2>8
      <3>2. u \in T /\ \A y \in T : y = x \/ ~ (y < u)
          BY <3>1
      <3>3. CASE x < u
        <4>1. \A y \in T : ~ (y < x)
            BY <2>2, <2>3, <3>2, <3>3
        <4>. QED  BY <2>2, <2>3, <4>1
      <3>4. CASE ~ (x < u)
          BY <2>2, <3>2, <3>4
      <3>. QED  BY <3>3, <3>4
    <2>. QED  BY <2>7, <2>8
  <1>2. ~HasNone(S)
    <2>1. Cardinality(S) \in Nat /\ Cardinality(S) \notin Bad
        BY <1>1, FS_CardinalityType
    <2>. QED  BY <2>1
  <1>. QED  BY <1>2

(* ... so that its elements can be listed from the largest to the smallest. *)
LEMMA Descending ==
  ASSUME NEW S, S \subseteq Int, IsFiniteSet(S)
  PROVE  \E f \in [1 .. Cardinality(S) -> S] :
           \A i, k \in 1 .. Cardinality(S) : i < k => f[i] > f[k]
  <1> DEFINE Lists(T, n) == {f \in [1 .. n -> T] : \A i, k \in 1 .. n : i < k => f[i] > f[k]}
             Bad == {n \in Nat : \E T \in SUBSET Int : /\ IsFiniteSet(T) /\ Cardinality(T) = n
                                                       /\ Lists(T, n) = {}}
  <1>1. ASSUME Bad # {} PROVE FALSE
    <2>1. PICK n \in Bad : \A m \in Bad : n <= m
        BY <1>1, SmallestIn
    <2>2. PICK T \in SUBSET Int : IsFiniteSet(T) /\ Cardinality(T) = n /\ Lists(T, n) = {}
        OBVIOUS
    <2>3. CASE T = {}
      <3>1. n = 0
          BY <2>2, <2>3, FS_EmptySet
      <3>2. [i \in 1 .. n |-> i] \in Lists(T, n)
          BY <2>3, <3>1
      <3>. QED  BY <2>2, <3>2
    <2>4. CASE T # {}
      <3>1. PICK x \in T : \A y \in T : x <= y
          BY <2>2, <2>4, SmallestOf
      <3> DEFINE U == T \ {x}
      <3>2. /\ IsFiniteSet(U) /\ Cardinality(U) = n - 1 /\ U \in SUBSET Int
            /\ Cardinality(U) \in Nat
          BY <2>2, <3>1, FS_RemoveElement, FS_CardinalityType
      <3>3. n - 1 \in Nat /\ n - 1 \notin Bad
          BY <2>1, <3>2
      <3>4. PICK g : g \in Lists(U, n - 1)
          BY <3>2, <3>3
      <3> DEFINE f == [i \in 1 .. n |-> IF i = n THEN x ELSE g[i]]
      <3>5. \A i \in 1 .. n : i = n \/ i \in 1 .. n - 1
          BY <3>3
      <3>6. g \in [1 .. n - 1 -> U] /\ \A i, k \in 1 .. n - 1 : i < k => g[i] > g[k]
          BY <3>4
      <3>7. \A i \in 1 .. n - 1 : g[i] \in T /\ g[i] > x
        <4>1. \A y \in U : y \in T /\ y \in Int /\ x \in Int /\ x <= y /\ y # x
            BY <2>2, <3>1
        <4> HIDE DEF U
        <4>. QED  BY <3>6, <4>1
      <3>8. f \in [1 .. n -> T]
          BY <3>1, <3>5, <3>7
      <3>9. ASSUME NEW i \in 1 .. n, NEW k \in 1 .. n, i < k PROVE f[i] > f[k]
        <4>1. i \in 1 .. n - 1 /\ f[i] = g[i]
            BY <3>3, <3>9
        <4>2. CASE k = n
            BY <3>7, <4>1, <4>2
        <4>3. CASE k # n
          <5>1. k \in 1 .. n - 1 /\ f[k] = g[k]
              BY <3>5, <4>3
          <5>. QED  BY <3>6, <3>9, <4>1, <5>1
        <4>. QED  BY <4>2, <4>3
      <3> HIDE DEF f
      <3>10. f \in Lists(T, n)
          BY <3>8, <3>9
      <3>. QED  BY <2>2, <3>10
    <2>. QED  BY <2>3, <2>4
  <1>2. Cardinality(S) \in Nat /\ Cardinality(S) \notin Bad
      BY <1>1, FS_CardinalityType
  <1>3. Lists(S, Cardinality(S)) # {}
      BY <1>2
  <1>. QED  BY <1>3

-----------------------------------------------------------------------------
(* A datagram more in a join port, and one less. *)
LEMMA BoxGrows ==
  ASSUME NEW M, NEW s \in Seq(M), NEW m \in M
  PROVE  /\ Append(s, m) \in Seq(M)
         /\ ToSet(Append(s, m)) = ToSet(s) \cup {m}
         /\ Append(s, m) # << >>
         /\ s # << >> => Head(Append(s, m)) = Head(s) /\ Tail(Append(s, m)) = Append(Tail(s), m)
         /\ s = << >> => Append(s, m) = <<m>>
  <1> DEFINE t == Append(s, m)
  <1>1. /\ t \in Seq(M) /\ Len(t) = Len(s) + 1 /\ Len(s) \in Nat
        /\ \A i \in 1 .. Len(s) : t[i] = s[i]
        /\ t[Len(s) + 1] = m
      OBVIOUS
  <1>2. \A i \in 1 .. Len(t) : i \in 1 .. Len(s) \/ i = Len(s) + 1
      BY <1>1
  <1>3. 1 .. Len(s) \subseteq 1 .. Len(t) /\ Len(s) + 1 \in 1 .. Len(t)
      BY <1>1
  <1>4. DOMAIN s = 1 .. Len(s) /\ DOMAIN t = 1 .. Len(t)
      BY <1>1
  <1>5. ASSUME s # << >>
        PROVE  Head(t) = Head(s) /\ Tail(t) = Append(Tail(s), m)
    <2>1. Len(s) # 0 /\ 1 \in 1 .. Len(s)
        BY <1>5, EmptySeq
    <2>2. Head(t) = Head(s)
        BY <1>1, <2>1
    <2>3. Len(Tail(t)) = Len(s) /\ Tail(t) \in Seq(M) /\ Tail(s) \in Seq(M) /\ Len(Tail(s)) = Len(s) - 1
          /\ \A i \in 1 .. Len(s) : Tail(t)[i] = t[i + 1]
          /\ \A k \in 1 .. Len(s) - 1 : Tail(s)[k] = s[k + 1]
        BY <1>1, <2>1
    <2>4. Tail(t) = Append(Tail(s), m)
        BY <1>1, <2>1, <2>3
    <2>. QED  BY <2>2, <2>4
  <1> HIDE DEF t
  <1>6. ToSet(t) = ToSet(s) \cup {m}
      BY <1>1, <1>2, <1>3, <1>4 DEF ToSet
  <1>7. t # << >>
      BY <1>1
  <1>8. s = << >> => t = <<m>>
      BY DEF t
  <1>. QED  BY <1>1, <1>5, <1>6, <1>7, <1>8 DEF t

LEMMA BoxShrinks ==
  ASSUME NEW M, NEW s \in Seq(M), s # << >>
  PROVE  /\ Tail(s) \in Seq(M) /\ Head(s) \in M
         /\ ToSet(s) = ToSet(Tail(s)) \cup {Head(s)}
  <1> DEFINE t == Tail(s)
  <1>1. /\ t \in Seq(M) /\ Len(t) = Len(s) - 1 /\ Len(s) \in Nat /\ 1 \in 1 .. Len(s)
        /\ \A i \in 1 .. Len(t) : t[i] = s[i + 1] /\ i + 1 \in 1 .. Len(s)
        /\ Head(s) = s[1]
      BY EmptySeq
  <1>2. DOMAIN s = 1 .. Len(s) /\ DOMAIN t = 1 .. Len(t)
      BY <1>1
  <1>3. \A i \in 1 .. Len(s) : i = 1 \/ (i - 1 \in 1 .. Len(t) /\ (i - 1) + 1 = i)
      BY <1>1
  <1> HIDE DEF t
  <1>4. ToSet(s) = ToSet(t) \cup {Head(s)}
    <2>1. ASSUME NEW x \in ToSet(s) PROVE x \in ToSet(t) \cup {Head(s)}
      <3>1. PICK i \in 1 .. Len(s) : s[i] = x
          BY <1>2 DEF ToSet
      <3>2. i = 1 \/ (i - 1 \in 1 .. Len(t) /\ t[i - 1] = x)
          BY <1>1, <1>3, <3>1
      <3>. QED  BY <1>1, <1>2, <3>1, <3>2 DEF ToSet
    <2>2. ASSUME NEW x \in ToSet(t) \cup {Head(s)} PROVE x \in ToSet(s)
        BY <1>1, <1>2, <2>2 DEF ToSet
    <2>. QED  BY <2>1, <2>2
  <1>. QED  BY <1>1, <1>4 DEF t

LEMMA TwiceGrows ==
  ASSUME NEW M, NEW s \in Seq(M), NEW m \in M, NEW x, ~Twice(s, x), m = x => x \notin ToSet(s)
  PROVE  ~Twice(Append(s, m), x)
  <1> DEFINE t == Append(s, m)
  <1>1. /\ Len(t) = Len(s) + 1 /\ Len(s) \in Nat
        /\ \A i \in 1 .. Len(s) : t[i] = s[i]
        /\ t[Len(s) + 1] = m
      OBVIOUS
  <1> HIDE DEF t
  <1>2. m = x => \A i \in 1 .. Len(s) : s[i] # x
      BY DEF ToSet
  <1> SUFFICES ASSUME NEW i \in 1 .. Len(t), NEW k \in 1 .. Len(t), i # k, t[i] = x, t[k] = x
               PROVE  FALSE
      BY DEF Twice, t
  <1>3. CASE i \in 1 .. Len(s) /\ k \in 1 .. Len(s)
      BY <1>1, <1>3 DEF Twice
  <1>4. CASE i = Len(s) + 1
      BY <1>1, <1>2, <1>4
  <1>5. CASE k = Len(s) + 1
      BY <1>1, <1>2, <1>5
  <1>. QED  BY <1>1, <1>3, <1>4, <1>5

LEMMA TwiceShrinks ==
  ASSUME NEW M, NEW s \in Seq(M), s # << >>, NEW x, ~Twice(s, x)
  PROVE  ~Twice(Tail(s), x) /\ (Head(s) = x => x \notin ToSet(Tail(s)))
  <1> DEFINE t == Tail(s)
  <1>1. /\ t \in Seq(M) /\ Len(t) = Len(s) - 1 /\ Len(s) \in Nat /\ 1 \in 1 .. Len(s)
        /\ \A i \in 1 .. Len(t) : t[i] = s[i + 1] /\ i + 1 \in 1 .. Len(s)
        /\ Head(s) = s[1] /\ DOMAIN t = 1 .. Len(t)
      BY EmptySeq
  <1> HIDE DEF t
  <1>2. ~Twice(t, x)
    <2> SUFFICES ASSUME NEW i \in 1 .. Len(t), NEW k \in 1 .. Len(t), i # k, t[i] = x, t[k] = x
                 PROVE  FALSE
        BY DEF Twice
    <2>1. i + 1 # k + 1
        BY <1>1
    <2>. QED  BY <1>1, <2>1 DEF Twice
  <1>3. ASSUME Head(s) = x, x \in ToSet(t) PROVE FALSE
    <2>1. PICK i \in 1 .. Len(t) : t[i] = x
        BY <1>1, <1>3 DEF ToSet
    <2>2. i + 1 # 1
        BY <1>1
    <2>. QED  BY <1>1, <1>3, <2>1, <2>2 DEF Twice
  <1>. QED  BY <1>2, <1>3 DEF t

LEMMA KeptGrows ==
  ASSUME NEW M, NEW s \in Seq(M), NEW m \in M, NEW there \in BOOLEAN, NEW a, NEW b, a # b
  PROVE  Kept(Append(s, m), there, a, b) <=> m = a \/ (m # b /\ Kept(s, there, a, b))
  <1> DEFINE t == Append(s, m)
  <1>1. /\ Len(t) = Len(s) + 1 /\ Len(s) \in Nat
        /\ \A i \in 1 .. Len(s) : t[i] = s[i]
        /\ t[Len(s) + 1] = m
      OBVIOUS
  <1>2. ToSet(t) = ToSet(s) \cup {m}
      BY BoxGrows
  <1> HIDE DEF t
  <1>3. CASE m = a
    <2>1. Len(s) + 1 \in 1 .. Len(t) /\ \A k \in (Len(s) + 1) + 1 .. Len(t) : t[k] # b
        BY <1>1
    <2>. QED  BY <1>1, <1>3, <2>1 DEF Kept, t
  <1>4. CASE m = b
    <2>1. ASSUME NEW i \in 1 .. Len(t), t[i] = a, \A k \in i + 1 .. Len(t) : t[k] # b PROVE FALSE
      <3>1. CASE i = Len(s) + 1
          BY <1>1, <1>4, <2>1, <3>1
      <3>2. CASE i # Len(s) + 1
        <4>1. Len(s) + 1 \in i + 1 .. Len(t)
            BY <1>1, <3>2
        <4>. QED  BY <1>1, <1>4, <2>1, <4>1
      <3>. QED  BY <3>1, <3>2
    <2>. QED  BY <1>2, <1>4, <2>1 DEF Kept, t
  <1>5. CASE m # a /\ m # b
    <2>1. ASSUME NEW i \in 1 .. Len(s)
          PROVE  (\A k \in i + 1 .. Len(t) : t[k] # b) <=> (\A k \in i + 1 .. Len(s) : s[k] # b)
      <3>1. \A k \in i + 1 .. Len(t) : k = Len(s) + 1 \/ (k \in i + 1 .. Len(s) /\ k \in 1 .. Len(s))
          BY <1>1
      <3>2. \A k \in i + 1 .. Len(s) : k \in i + 1 .. Len(t) /\ k \in 1 .. Len(s)
          BY <1>1
      <3>. QED  BY <1>1, <1>5, <3>1, <3>2
    <2>2. \A i \in 1 .. Len(t) : i = Len(s) + 1 \/ i \in 1 .. Len(s)
        BY <1>1
    <2>3. 1 .. Len(s) \subseteq 1 .. Len(t)
        BY <1>1
    <2>. QED  BY <1>1, <1>2, <1>5, <2>1, <2>2, <2>3 DEF Kept, t
  <1>. QED  BY <1>3, <1>4, <1>5

(* A notice that is taken out, whether the table follows it or had it.     *)
LEMMA KeptShrinks ==
  ASSUME NEW M, NEW s \in Seq(M), s # << >>, NEW there \in BOOLEAN, NEW a, NEW b, a # b
  PROVE  /\ Kept(s, there, a, b) <=>
              Kept(Tail(s), Head(s) = a \/ (Head(s) # b /\ there), a, b)
         /\ (Kept(s, there, a, b) <=> there) => (Kept(Tail(s), there, a, b) <=> there)
  <1> DEFINE t == Tail(s)
  <1>1. /\ t \in Seq(M) /\ Len(t) = Len(s) - 1 /\ Len(s) \in Nat /\ 1 \in 1 .. Len(s)
        /\ \A i \in 1 .. Len(t) : t[i] = s[i + 1] /\ i + 1 \in 1 .. Len(s)
        /\ Head(s) = s[1]
      BY EmptySeq
  <1>2. ToSet(s) = ToSet(t) \cup {Head(s)}
      BY BoxShrinks
  <1>3. DOMAIN t = 1 .. Len(t)
      BY <1>1
  <1> HIDE DEF t
  <1> DEFINE last == \E i \in 1 .. Len(t) : t[i] = a /\ \A k \in i + 1 .. Len(t) : t[k] # b
  <1>4. ASSUME NEW i \in 1 .. Len(t)
        PROVE  (\A k \in i + 1 .. Len(t) : t[k] # b) <=> (\A k \in (i + 1) + 1 .. Len(s) : s[k] # b)
    <2>1. \A k \in i + 1 .. Len(t) : k \in 1 .. Len(t) /\ k + 1 \in (i + 1) + 1 .. Len(s)
        BY <1>1
    <2>2. \A k \in (i + 1) + 1 .. Len(s) : /\ k - 1 \in i + 1 .. Len(t) /\ k - 1 \in 1 .. Len(t)
                                           /\ (k - 1) + 1 = k
        BY <1>1
    <2>3. ASSUME \A k \in (i + 1) + 1 .. Len(s) : s[k] # b, NEW k \in i + 1 .. Len(t)
          PROVE  t[k] # b
        BY <1>1, <2>1, <2>3
    <2>4. ASSUME \A k \in i + 1 .. Len(t) : t[k] # b, NEW k \in (i + 1) + 1 .. Len(s)
          PROVE  s[k] # b
      <3>1. t[k - 1] = s[k]
          BY <1>1, <2>2
      <3>. QED  BY <2>2, <2>4, <3>1
    <2>. QED  BY <2>3, <2>4
  <1>5. (\A k \in 2 .. Len(s) : s[k] # b) <=> b \notin ToSet(t)
    <2>1. \A k \in 2 .. Len(s) : k - 1 \in 1 .. Len(t) /\ (k - 1) + 1 = k
        BY <1>1
    <2>2. \A i \in 1 .. Len(t) : i + 1 \in 2 .. Len(s)
        BY <1>1
    <2>3. \A k \in 2 .. Len(s) : t[k - 1] = s[k]
        BY <1>1, <2>1
    <2>4. \A i \in 1 .. Len(t) : s[i + 1] = t[i]
        BY <1>1
    <2>5. b \in ToSet(t) <=> \E i \in 1 .. Len(t) : t[i] = b
        BY <1>3 DEF ToSet
    <2>6. ASSUME NEW i \in 1 .. Len(t), t[i] = b PROVE \E k \in 2 .. Len(s) : s[k] = b
      <3>1. i + 1 \in 2 .. Len(s) /\ s[i + 1] = b
          BY <2>2, <2>4, <2>6
      <3>. QED  BY <3>1
    <2>7. ASSUME NEW k \in 2 .. Len(s), s[k] = b PROVE \E i \in 1 .. Len(t) : t[i] = b
      <3>1. k - 1 \in 1 .. Len(t) /\ t[k - 1] = b
          BY <2>1, <2>3, <2>7
      <3>. QED  BY <3>1
    <2>. QED  BY <2>5, <2>6, <2>7
  <1>6. (\E i \in 1 .. Len(s) : s[i] = a /\ \A k \in i + 1 .. Len(s) : s[k] # b)
          <=> (Head(s) = a /\ b \notin ToSet(t)) \/ last
    <2>1. \A i \in 1 .. Len(s) : i = 1 \/ (i - 1 \in 1 .. Len(t) /\ (i - 1) + 1 = i)
        BY <1>1
    <2>2. ASSUME NEW i \in 1 .. Len(s), s[i] = a, \A k \in i + 1 .. Len(s) : s[k] # b
          PROVE  (Head(s) = a /\ b \notin ToSet(t)) \/ last
      <3>1. CASE i = 1
        <4>1. Head(s) = a /\ \A k \in 2 .. Len(s) : s[k] # b
            BY <1>1, <2>2, <3>1
        <4>. QED  BY <1>5, <4>1
      <3>2. CASE i # 1
        <4> DEFINE n == i - 1
        <4>1. n \in 1 .. Len(t) /\ n + 1 = i
            BY <2>1, <3>2
        <4> HIDE DEF n
        <4>2. t[n] = a /\ \A k \in (n + 1) + 1 .. Len(s) : s[k] # b
            BY <1>1, <2>2, <4>1
        <4>3. \A k \in n + 1 .. Len(t) : t[k] # b
            BY <1>4, <4>1, <4>2
        <4>. QED  BY <4>1, <4>2, <4>3
      <3>. QED  BY <3>1, <3>2
    <2>3. ASSUME Head(s) = a, b \notin ToSet(t)
          PROVE  \E i \in 1 .. Len(s) : s[i] = a /\ \A k \in i + 1 .. Len(s) : s[k] # b
      <3>1. s[1] = a /\ \A k \in 1 + 1 .. Len(s) : s[k] # b
          BY <1>1, <1>5, <2>3
      <3>. QED  BY <1>1, <3>1
    <2>4. ASSUME NEW i \in 1 .. Len(t), t[i] = a, \A k \in i + 1 .. Len(t) : t[k] # b
          PROVE  \E n \in 1 .. Len(s) : s[n] = a /\ \A k \in n + 1 .. Len(s) : s[k] # b
      <3>1. i + 1 \in 1 .. Len(s) /\ s[i + 1] = a /\ \A k \in (i + 1) + 1 .. Len(s) : s[k] # b
          BY <1>1, <1>4, <2>4
      <3>. QED  BY <3>1
    <2>. QED  BY <2>2, <2>3, <2>4
  <1>7. Kept(s, there, a, b) <=>
          (there /\ Head(s) # b /\ b \notin ToSet(t)) \/ (Head(s) = a /\ b \notin ToSet(t)) \/ last
      BY <1>2, <1>6 DEF Kept
  <1>8. \A in \in BOOLEAN : Kept(t, in, a, b) <=> (in /\ b \notin ToSet(t)) \/ last
      BY DEF Kept
  <1>9. /\ Kept(t, there, a, b) <=> (there /\ b \notin ToSet(t)) \/ last
        /\ Kept(t, Head(s) = a \/ (Head(s) # b /\ there), a, b)
             <=> ((Head(s) = a \/ (Head(s) # b /\ there)) /\ b \notin ToSet(t)) \/ last
      BY DEF Kept
  <1>10. last => \E i \in 1 .. Len(t) : t[i] = a
      OBVIOUS
  <1> HIDE DEF last
  <1>11. Kept(s, there, a, b) <=> Kept(t, Head(s) = a \/ (Head(s) # b /\ there), a, b)
      BY <1>7, <1>9
  <1>12. (Kept(s, there, a, b) <=> there) => (Kept(t, there, a, b) <=> there)
      BY <1>7, <1>9
  <1>. QED  BY <1>11, <1>12 DEF t

-----------------------------------------------------------------------------
(* The lists: erase, append, the list of users, a datagram to a list. *)
LEMMA PlaceOf ==
  ASSUME NEW P, NEW s \in Seq(P), NEW q
  PROVE  \/ q \notin ToSet(s) /\ Place(s, q) = 0
         \/ q \in ToSet(s) /\ Place(s, q) \in 1 .. Len(s) /\ s[Place(s, q)] = q
  <1> DEFINE I == {i \in 1 .. Len(s) : s[i] = q}
  <1>1. I \subseteq 1 .. Len(s) /\ Len(s) \in Nat
      OBVIOUS
  <1>2. q \in ToSet(s) <=> I # {}
      BY DEF ToSet
  <1>3. Place(s, q) = IF I # {} THEN Max(I) ELSE 0
      BY DEF Place, SelectLastInSeq
  <1>4. ASSUME I # {} PROVE Max(I) \in I
    <2>1. \E k \in I : \A j \in I : k >= j
        BY <1>1, <1>4, LargestUpTo
    <2>. QED  BY <2>1 DEF Max
  <1>5. \A k \in I : k \in 1 .. Len(s) /\ s[k] = q
      OBVIOUS
  <1> HIDE DEF I
  <1>. QED  BY <1>2, <1>3, <1>4, <1>5

LEMMA PlaceErased ==
  ASSUME NEW P, NEW s \in Seq(P), Distinct(s), NEW q, NEW k, k = Place(s, q)
  PROVE  \/ q \notin ToSet(s) /\ Erase(s, q) = s /\ k = 0
         \/ /\ k \in 1 .. Len(s) /\ s[k] = q
            /\ Erase(s, q) \in Seq(P)
            /\ Len(Erase(s, q)) = Len(s) - 1
            /\ \A i \in 1 .. Len(s) - 1 : Erase(s, q)[i] = s[IF i < k THEN i ELSE i + 1]
  BY PlaceOf, RemovedAt, ZenonT(30) DEF Erase

LEMMA ErasedList ==
  ASSUME NEW P, NEW s \in Seq(P), Distinct(s), NEW q
  PROVE  /\ Erase(s, q) \in Seq(P) /\ Distinct(Erase(s, q))
         /\ ToSet(Erase(s, q)) = ToSet(s) \ {q}
  <1> DEFINE k == Place(s, q)
             e == Erase(s, q)
  <1>1. \/ q \notin ToSet(s) /\ e = s /\ k = 0
        \/ /\ k \in 1 .. Len(s) /\ s[k] = q
           /\ e \in Seq(P)
           /\ Len(e) = Len(s) - 1
           /\ \A i \in 1 .. Len(s) - 1 : e[i] = s[IF i < k THEN i ELSE i + 1]
      BY PlaceErased
  <1> HIDE DEF k, e
  <1>2. CASE q \notin ToSet(s) /\ e = s
      BY <1>2 DEF e
  <1>3. CASE /\ k \in 1 .. Len(s) /\ s[k] = q
             /\ e \in Seq(P)
             /\ Len(e) = Len(s) - 1
             /\ \A i \in 1 .. Len(s) - 1 : e[i] = s[IF i < k THEN i ELSE i + 1]
    <2>1. /\ DOMAIN s = 1 .. Len(s) /\ DOMAIN e = 1 .. Len(e) /\ Len(s) \in Nat
          /\ \A i \in 1 .. Len(e) : /\ (IF i < k THEN i ELSE i + 1) \in 1 .. Len(s)
                                    /\ (IF i < k THEN i ELSE i + 1) # k
        BY <1>3
    <2>2. Distinct(e)
      <3> SUFFICES ASSUME NEW i \in 1 .. Len(e), NEW n \in 1 .. Len(e), e[i] = e[n]
                   PROVE  i = n
          BY DEF Distinct
      <3>1. (IF i < k THEN i ELSE i + 1) = (IF n < k THEN n ELSE n + 1)
          BY <1>3, <2>1 DEF Distinct
      <3>. QED  BY <1>3, <3>1
    <2>3. ASSUME NEW x \in ToSet(e) PROVE x \in ToSet(s) \ {q}
      <3>1. PICK i \in 1 .. Len(e) : e[i] = x
          BY <2>1 DEF ToSet
      <3> DEFINE n == IF i < k THEN i ELSE i + 1
      <3>2. n \in 1 .. Len(s) /\ n # k /\ s[n] = x
          BY <1>3, <2>1, <3>1
      <3> HIDE DEF n
      <3>. QED  BY <1>3, <2>1, <3>2 DEF Distinct, ToSet
    <2>4. ASSUME NEW x \in ToSet(s), x # q PROVE x \in ToSet(e)
      <3>1. PICK n \in 1 .. Len(s) : s[n] = x
          BY <2>1 DEF ToSet
      <3>2. n # k
          BY <1>3, <2>4, <3>1
      <3>3. CASE n < k
        <4>1. n \in 1 .. Len(e) /\ e[n] = x
            BY <1>3, <3>1, <3>3
        <4>. QED  BY <2>1, <4>1 DEF ToSet
      <3>4. CASE k < n
        <4>1. n - 1 \in 1 .. Len(e) /\ ~ (n - 1 < k) /\ (n - 1) + 1 = n
            BY <1>3, <2>1, <3>1, <3>4
        <4>2. e[n - 1] = x
            BY <1>3, <3>1, <4>1
        <4>. QED  BY <2>1, <4>1, <4>2 DEF ToSet
      <3>. QED  BY <1>3, <3>2, <3>3, <3>4
    <2>. QED  BY <1>3, <2>2, <2>3, <2>4 DEF e
  <1>. QED  BY <1>1, <1>2, <1>3

LEMMA AppendedList ==
  ASSUME NEW P, NEW s \in Seq(P), Distinct(s), NEW q \in P, q \notin ToSet(s)
  PROVE  /\ Append(s, q) \in Seq(P) /\ Distinct(Append(s, q))
         /\ ToSet(Append(s, q)) = ToSet(s) \cup {q}
  <1> DEFINE t == Append(s, q)
  <1>1. /\ Len(t) = Len(s) + 1 /\ Len(s) \in Nat
        /\ \A i \in 1 .. Len(s) : t[i] = s[i]
        /\ t[Len(s) + 1] = q
      OBVIOUS
  <1> HIDE DEF t
  <1>2. \A i \in 1 .. Len(s) : s[i] # q
      BY DEF ToSet
  <1>3. Distinct(t)
    <2> SUFFICES ASSUME NEW i \in 1 .. Len(t), NEW n \in 1 .. Len(t), t[i] = t[n]
                 PROVE  i = n
        BY DEF Distinct
    <2>1. CASE i \in 1 .. Len(s) /\ n \in 1 .. Len(s)
        BY <1>1, <2>1 DEF Distinct
    <2>2. CASE i = Len(s) + 1 /\ n \in 1 .. Len(s)
        BY <1>1, <1>2, <2>2
    <2>3. CASE i \in 1 .. Len(s) /\ n = Len(s) + 1
        BY <1>1, <1>2, <2>3
    <2>. QED  BY <1>1, <2>1, <2>2, <2>3
  <1>. QED  BY <1>3, BoxGrows DEF t

LEMMA UserListOf ==
  ASSUME NEW S, S \subseteq Procs, IsFiniteSet(S)
  PROVE  /\ UserList(S) \in Seq(S) /\ Distinct(UserList(S))
         /\ ToSet(UserList(S)) = S
  <1> DEFINE n == Cardinality(S)
             f == UserList(S)
  <1>1. S \subseteq Int /\ n \in Nat
      BY MembershipAssumption, FS_CardinalityType
  <1>2. f \in [1 .. n -> S] /\ \A i, k \in 1 .. n : i < k => f[i] > f[k]
      BY <1>1, Descending DEF UserList
  <1> HIDE DEF f
  <1>3. \A i, k \in 1 .. n : f[i] = f[k] => i = k
    <2> SUFFICES ASSUME NEW i \in 1 .. n, NEW k \in 1 .. n, f[i] = f[k], i # k PROVE FALSE
        OBVIOUS
    <2>1. f[i] \in Int /\ f[k] \in Int
        BY <1>1, <1>2
    <2>2. i < k \/ k < i
        BY <1>1
    <2>. QED  BY <1>2, <2>1, <2>2
  <1>4. /\ f \in Seq(S) /\ Len(f) = n
        /\ \A x \in S : \E i \in 1 .. Len(f) : f[i] = x
      BY <1>2, <1>3, ListsAll
  <1>5. DOMAIN f = 1 .. Len(f) /\ \A i \in 1 .. Len(f) : f[i] \in S
      BY <1>4
  <1>6. ToSet(f) = S
      BY <1>4, <1>5 DEF ToSet
  <1>. QED  BY <1>3, <1>4, <1>6 DEF f, Distinct

LEMMA OneMore ==
  ASSUME NEW M, NEW s \in Seq(M), NEW m \in M
  PROVE  s \o [n \in 1 .. 1 |-> m] = Append(s, m) /\ s \o [n \in 1 .. 0 |-> m] = s
  <1> DEFINE u == [n \in 1 .. 1 |-> m]
             v == [n \in 1 .. 0 |-> m]
  <1>1. u \in Seq(M) /\ Len(u) = 1 /\ u[1] = m /\ v \in Seq(M) /\ Len(v) = 0
      OBVIOUS
  <1> HIDE DEF u, v
  <1>2. /\ s \o u \in Seq(M) /\ Len(s \o u) = Len(s) + 1
        /\ \A i \in 1 .. Len(s) + 1 : (s \o u)[i] = IF i <= Len(s) THEN s[i] ELSE u[i - Len(s)]
    <2>1. /\ s \o u \in Seq(M) /\ Len(s \o u) = Len(s) + Len(u)
          /\ \A i \in 1 .. Len(s) + Len(u) :
               (s \o u)[i] = IF i <= Len(s) THEN s[i] ELSE u[i - Len(s)]
        BY <1>1, ConcatProperties
    <2>. QED  BY <1>1, <2>1
  <1>3. s \o u = Append(s, m)
    <2>1. /\ Append(s, m) \in Seq(M) /\ Len(Append(s, m)) = Len(s) + 1 /\ Len(s) \in Nat
          /\ \A i \in 1 .. Len(s) : Append(s, m)[i] = s[i]
          /\ Append(s, m)[Len(s) + 1] = m
        OBVIOUS
    <2> DEFINE c == s \o u
               d == Append(s, m)
    <2>2. ASSUME NEW i \in 1 .. Len(s) + 1 PROVE c[i] = d[i]
      <3>1. CASE i <= Len(s)
          BY <1>2, <2>1, <3>1
      <3>2. CASE i = Len(s) + 1
        <4>1. ~ (i <= Len(s)) /\ i - Len(s) = 1
            BY <2>1, <3>2
        <4>. QED  BY <1>1, <1>2, <2>1, <3>2, <4>1
      <3>3. i <= Len(s) \/ i = Len(s) + 1
          BY <2>1
      <3> HIDE DEF c, d
      <3>. QED  BY <3>1, <3>2, <3>3
    <2>. QED  BY <1>2, <2>1, <2>2, SeqEqual
  <1>4. s \o v = s
    <2>1. v = << >>
        BY <1>1, EmptySeq
    <2>. QED  BY <2>1, ConcatEmptySeq
  <1>. QED  BY <1>3, <1>4 DEF u, v

LEMMA ToListed ==
  ASSUME NEW box \in [Procs -> Seq(Datagrams)], NEW list \in Seq(Procs), Distinct(list),
         NEW m \in Datagrams, NEW p \in Procs
  PROVE  /\ ToList(box, list, m)[p] = IF Reachable(p) /\ p \in ToSet(list) THEN Append(box[p], m)
                                      ELSE box[p]
         /\ ToList(box, list, m)[p] \in Seq(Datagrams)
  <1> DEFINE I == {i \in 1 .. Len(list) : list[i] = p}
  <1>0. box[p] \in Seq(Datagrams)
      OBVIOUS
  <1>1. ASSUME p \in ToSet(list)
        PROVE  box[p] \o [n \in 1 .. Cardinality(I) |-> m] = Append(box[p], m)
    <2>1. PICK i \in 1 .. Len(list) : list[i] = p
        BY <1>1 DEF ToSet
    <2>2. I = {i}
        BY <2>1 DEF Distinct
    <2>3. Cardinality(I) = 1
        BY <2>2, FS_Singleton
    <2>. QED  BY <1>0, <1>1, <2>3, OneMore
  <1>2. ASSUME p \notin ToSet(list)
        PROVE  box[p] \o [n \in 1 .. Cardinality(I) |-> m] = box[p]
    <2>1. I = {}
        BY <1>2 DEF ToSet
    <2>2. Cardinality(I) = 0
        BY <2>1, FS_EmptySet
    <2>3. box[p] \o [n \in 1 .. 0 |-> m] = box[p]
        BY <1>0, OneMore
    <2> HIDE DEF I
    <2>. QED  BY <2>2, <2>3
  <1> HIDE DEF I
  <1> DEFINE l == box[p] \o [n \in 1 .. Cardinality(I) |-> m]
             r == IF p \in ToSet(list) THEN Append(box[p], m) ELSE box[p]
  <1>3. l = r
      BY <1>1, <1>2
  <1>4. ToList(box, list, m)[p] = IF Reachable(p) THEN l ELSE box[p]
      BY DEF ToList, I
  <1>5. Append(box[p], m) \in Seq(Datagrams)
      BY <1>0, BoxGrows
  <1> HIDE DEF l
  <1>. QED  BY <1>0, <1>3, <1>4, <1>5

-----------------------------------------------------------------------------
(* The datagrams. *)
LEMMA Datagram ==
  /\ \A t \in {"JOIN", "LEAVE", "NOTICE", "LEAVENOTICE"} : \A p \in Procs :
       Msg(t, p) \in Notices /\ Msg(t, p) \in Datagrams
  /\ \A t, u, p, q : Msg(t, p) = Msg(u, q) => t = u /\ p = q
  /\ \A t, p : Msg(t, p).type = t /\ Msg(t, p).of = p
  /\ \A m \in Datagrams : m.type \in {"JOIN", "LEAVE", "NOTICE", "LEAVENOTICE"} =>
       m \in Notices /\ m.of \in Procs /\ m = Msg(m.type, m.of)
  /\ \A m \in Notices : m \in Datagrams /\ m.type \in {"JOIN", "LEAVE", "NOTICE", "LEAVENOTICE"}
  /\ \A m \in Datagrams : m.type = "REPLY" => m \in Replies
  /\ \A m \in Replies : /\ m \in Datagrams /\ m.type = "REPLY"
                        /\ m.list \in Seq(Procs) /\ m.seq \in Nat
  <1>1. \A t \in {"JOIN", "LEAVE", "NOTICE", "LEAVENOTICE"} : \A p \in Procs : Msg(t, p) \in Notices
      BY DEF Msg, Notices
  <1>2. \A t, p : Msg(t, p).type = t /\ Msg(t, p).of = p
      BY DEF Msg
  <1>3. ASSUME NEW t, NEW u, NEW p, NEW q, Msg(t, p) = Msg(u, q) PROVE t = u /\ p = q
    <2>1. Msg(t, p).type = t /\ Msg(t, p).of = p /\ Msg(u, q).type = u /\ Msg(u, q).of = q
        BY <1>2
    <2>. QED  BY <1>3, <2>1
  <1>4. \A m \in Notices : /\ m.of \in Procs /\ m = Msg(m.type, m.of)
                           /\ m.type \in {"JOIN", "LEAVE", "NOTICE", "LEAVENOTICE"}
      BY DEF Msg, Notices
  <1>5. \A m \in Indirects : m.type = "INDIRECT"
      BY DEF Indirects
  <1>6. \A m \in Replies : m.type = "REPLY" /\ m.list \in Seq(Procs) /\ m.seq \in Nat
      BY DEF Replies
  <1>7. \A m \in Datagrams : m \in Notices \/ m \in Indirects \/ m \in Replies
      BY DEF Datagrams
  <1>8. Notices \subseteq Datagrams /\ Replies \subseteq Datagrams
      BY DEF Datagrams
  <1>. QED  BY <1>1, <1>2, <1>3, <1>4, <1>5, <1>6, <1>7, <1>8

LEMMA Indirect ==
  /\ [type |-> "INDIRECT", ld |-> Leader] \in Datagrams
  /\ [type |-> "INDIRECT", ld |-> Leader].type = "INDIRECT"
  /\ [type |-> "INDIRECT", ld |-> Leader].ld = Leader
  /\ \A t, p : t # "INDIRECT" => Msg(t, p) # [type |-> "INDIRECT", ld |-> Leader]
  BY DEF Datagrams, Indirects, Procs, Msg

LEMMA Processes == Leader \in Procs /\ Leader \notin Joiners /\ \A j \in Joiners : j \in Procs
  BY MembershipAssumption DEF Procs

(* The datagrams of a port that has one entry. *)
LEMMA OneIn ==
  ASSUME NEW m
  PROVE  /\ ToSet(<<m>>) = {m} /\ ToSet(<< >>) = {} /\ <<m>> # << >>
         /\ Head(<<m>>) = m /\ Tail(<<m>>) = << >>
         /\ \A x : ~Twice(<<m>>, x) /\ ~Twice(<< >>, x)
  BY DEF ToSet, Twice

LEMMA NotOnlyNotices ==
  ASSUME NEW s, s = <<[type |-> "INDIRECT", ld |-> Leader]>>
  PROVE  ~ (ToSet(s) \subseteq Notices) /\ s # << >> /\ Head(s).type = "INDIRECT"
  <1> DEFINE m == [type |-> "INDIRECT", ld |-> Leader]
  <1>1. m.type = "INDIRECT"
      BY Indirect
  <1> HIDE DEF m
  <1>2. ToSet(s) = {m} /\ s # << >> /\ Head(s) = m
      BY OneIn DEF m
  <1>3. m \notin Notices
      BY <1>1, Datagram
  <1>. QED  BY <1>1, <1>2, <1>3

LEMMA KeptNone ==
  ASSUME NEW M, NEW s \in Seq(M), NEW there \in BOOLEAN, NEW a, NEW b, a \notin ToSet(s),
         b \notin ToSet(s)
  PROVE  Kept(s, there, a, b) <=> there
  <1>1. \A i \in 1 .. Len(s) : s[i] # a
      BY DEF ToSet
  <1>. QED  BY <1>1 DEF Kept

LEMMA InitIInv == Init => IInv
  <1> SUFFICES ASSUME Init PROVE IInv
      OBVIOUS
  <1> USE Processes
  <1>1. /\ stage \in [Procs -> {"in", "out"}] /\ stage[Leader] = "in"
        /\ \A j \in Joiners : stage[j] = "out"
        /\ \A p \in Procs : mail[p] = << >>
        /\ chatMembers[Leader] = {Leader} /\ socketList[Leader] = <<Leader>>
        /\ admitting = {} /\ checklist = {} /\ current[Leader] = 1
      BY DEF Init, Procs
  <1>2. TypeOK
    <2>1. mail \in [Procs -> Seq(Datagrams)]
        BY DEF Init
    <2>2. chatMembers \in [Procs -> SUBSET Procs]
        BY DEF Init
    <2>3. socketList \in [Procs -> Seq(Procs)] /\ current \in [Procs -> Nat]
        BY DEF Init
    <2>. QED  BY <1>1, <2>1, <2>2, <2>3 DEF Init, TypeOK
  <1>3. \A p \in Procs : ToSet(mail[p]) = {} /\ \A x : ~Twice(mail[p], x)
      BY <1>1 DEF ToSet, Twice
  <1>4. \A j \in Joiners : ~In(j) /\ ~HasTable(j) /\ ~Reachable(j)
      BY <1>1 DEF In, HasTable, Answered, Reachable
  <1>5. Listing
    <2>1. IsFiniteSet({Leader})
        BY FS_Singleton
    <2>. QED  BY <1>1, <2>1 DEF Listing
  <1>6. Newcomers
    <2> SUFFICES ASSUME NEW j \in Joiners
                 PROVE  j \notin chatMembers[Leader] \cup checklist
        BY <1>1, <1>3, <1>4 DEF Newcomers
    <2>. QED  BY <1>1
  <1>7. News
      BY <1>4 DEF News
  <1>8. Shared
    <2>1. In(Leader) /\ Table(Leader) = chatMembers[Leader]
        BY <1>1 DEF Table, In
    <2>2. \A p \in Procs : Knows(Leader, p) <=> p \in chatMembers[Leader]
        BY <1>1, <1>3, <2>1 DEF Knows, Kept
    <2>. QED  BY <1>4, <2>2 DEF Shared
  <1>9. TablesAgree
    <2> SUFFICES ASSUME NEW p \in Procs, In(p)
                 PROVE  /\ \A i, k \in 1 .. Len(socketList[p]) :
                             socketList[p][i] = socketList[p][k] => i = k
                        /\ ToSet(socketList[p])
                             = chatMembers[p] \ (IF p = Leader THEN admitting ELSE {})
        BY DEF TablesAgree
    <2>1. p = Leader
        BY <1>4 DEF Procs
    <2>2. ToSet(<<Leader>>) = {Leader} /\ \A i, k \in 1 .. Len(<<Leader>>) : i = k
        BY OneIn
    <2>. QED  BY <1>1, <2>1, <2>2
  <1>10. ASSUME NEW p \in Procs PROVE BoxOf(p)
    <2>1. stage[p] # "joining" /\ (p # Leader => ~In(p))
        BY <1>1, <1>4 DEF Procs
    <2>. QED  BY <1>1, <1>3, <2>1 DEF BoxOf
  <1>. QED  BY <1>2, <1>5, <1>6, <1>7, <1>8, <1>9, <1>10 DEF IInv

-----------------------------------------------------------------------------
(* One process: nothing happens to it, it gets a notice, it takes one.     *)
LEMMA SameAt ==
  ASSUME NEW p, stage'[p] = stage[p], mail'[p] = mail[p], chatMembers'[p] = chatMembers[p]
  PROVE  /\ In(p)' <=> In(p)
         /\ Answered(p)' <=> Answered(p)
         /\ HasTable(p)' <=> HasTable(p)
         /\ Table(p)' = Table(p)
         /\ Indirected(p)' <=> Indirected(p)
         /\ \A k : Knows(p, k)' <=> Knows(p, k)
         /\ BoxOf(p)' <=> BoxOf(p)
  <1>1. (In(p)' <=> In(p)) /\ (Answered(p)' <=> Answered(p))
      BY DEF In, Answered
  <1>2. (HasTable(p)' <=> HasTable(p)) /\ Table(p)' = Table(p)
      BY <1>1 DEF HasTable, Table
  <1>3. \A k : Knows(p, k)' <=> Knows(p, k)
      BY <1>2 DEF Knows
  <1>4. Indirected(p)' <=> Indirected(p)
      BY DEF Indirected
  <1>5. BoxOf(p)' <=> BoxOf(p)
      BY <1>1, <1>4 DEF BoxOf, Reachable
  <1>. QED  BY <1>1, <1>2, <1>3, <1>4, <1>5

LEMMA GrownAt ==
  ASSUME NEW p \in Procs, NEW m \in Notices, m \notin {Msg("JOIN", Leader), Msg("LEAVE", Leader)},
         mail[p] \in Seq(Datagrams), BoxOf(p), HasTable(p),
         stage'[p] = stage[p], chatMembers'[p] = chatMembers[p], mail'[p] = Append(mail[p], m)
  PROVE  /\ mail'[p] \in Seq(Datagrams)
         /\ ToSet(mail'[p]) = ToSet(mail[p]) \cup {m}
         /\ In(p)' <=> In(p)
         /\ Answered(p)' <=> Answered(p)
         /\ HasTable(p)' /\ Table(p)' = Table(p)
         /\ ~Indirected(p) /\ ~Indirected(p)'
         /\ \A k : Knows(p, k)' <=> m = Msg("NOTICE", k) \/ (m # Msg("LEAVENOTICE", k) /\ Knows(p, k))
         /\ BoxOf(p)'
  <1>1. /\ m \in Datagrams /\ mail'[p] \in Seq(Datagrams)
        /\ ToSet(mail'[p]) = ToSet(mail[p]) \cup {m} /\ mail'[p] # << >>
        /\ mail[p] # << >> => Head(mail'[p]) = Head(mail[p])
                              /\ Tail(mail'[p]) = Append(Tail(mail[p]), m)
      BY Datagram, BoxGrows
  <1>2. In(p)' <=> In(p)
      BY DEF In
  <1>3. In(p) \/ (Answered(p) /\ mail[p] # << >>)
      BY DEF HasTable, Answered
  <1>4. (Answered(p)' <=> Answered(p)) /\ (HasTable(p)' <=> HasTable(p)) /\ Table(p)' = Table(p)
      BY <1>1, <1>2, <1>3 DEF Answered, HasTable, Table, In
  <1>5. ~Indirected(p) /\ ~Indirected(p)'
    <2>1. CASE In(p)
      <3>1. ToSet(mail[p]) \cup {m} \subseteq Notices
          BY <2>1 DEF BoxOf
      <3>. QED  BY <1>1, <3>1, NotOnlyNotices DEF Indirected
    <2>2. CASE Answered(p)
        BY <1>4, <2>2, NotOnlyNotices DEF Indirected, Answered
    <2>. QED  BY <1>3, <2>1, <2>2
  <1>6. ASSUME NEW k
        PROVE  Knows(p, k)' <=> m = Msg("NOTICE", k) \/ (m # Msg("LEAVENOTICE", k) /\ Knows(p, k))
    <2>1. Msg("NOTICE", k) # Msg("LEAVENOTICE", k)
        BY Datagram
    <2> DEFINE there == k \in Table(p)
    <2>2. there \in BOOLEAN
        OBVIOUS
    <2>3. Knows(p, k)' <=> Kept(Append(mail[p], m), there, Msg("NOTICE", k), Msg("LEAVENOTICE", k))
        BY <1>4 DEF Knows
    <2>4. Knows(p, k) <=> Kept(mail[p], there, Msg("NOTICE", k), Msg("LEAVENOTICE", k))
        BY DEF Knows
    <2> HIDE DEF there
    <2>5. Kept(Append(mail[p], m), there, Msg("NOTICE", k), Msg("LEAVENOTICE", k))
            <=> m = Msg("NOTICE", k) \/ (m # Msg("LEAVENOTICE", k)
                  /\ Kept(mail[p], there, Msg("NOTICE", k), Msg("LEAVENOTICE", k)))
        BY <1>1, <2>1, <2>2, KeptGrows
    <2>. QED  BY <2>3, <2>4, <2>5
  <1>7. BoxOf(p)'
    <2>1. {Msg("JOIN", Leader), Msg("LEAVE", Leader)} \cap ToSet(mail'[p]) = {}
        BY <1>1 DEF BoxOf
    <2>2. In(p) \/ p = Leader => ToSet(mail'[p]) \subseteq Notices
        BY <1>1 DEF BoxOf
    <2>3. ~Reachable(p)' => ~HasTable(p)
        BY DEF Reachable, HasTable, In, Answered
    <2>4. CASE In(p)
        BY <1>2, <2>1, <2>2, <2>3, <2>4 DEF BoxOf, In
    <2>5. CASE Answered(p)
      <3>1. stage[p] = "joining" /\ mail[p] # << >> /\ ~Indirected(p)
          BY <1>5, <2>5 DEF Answered
      <3>2. /\ Head(mail[p]) \in Replies
            /\ Head(mail[p]).seq >= 1 /\ Distinct(Head(mail[p]).list)
            /\ ToSet(Tail(mail[p])) \subseteq Notices
          BY <3>1 DEF BoxOf
      <3>3. ToSet(Tail(mail'[p])) = ToSet(Tail(mail[p])) \cup {m}
        <4> DEFINE u == Tail(mail[p])
        <4>1. u \in Seq(Datagrams)
            BY <3>1, BoxShrinks
        <4>2. Tail(mail'[p]) = Append(u, m)
            BY <1>1, <3>1
        <4> HIDE DEF u
        <4>3. ToSet(Append(u, m)) = ToSet(u) \cup {m}
            BY <1>1, <4>1, BoxGrows
        <4>. QED  BY <4>2, <4>3 DEF u
      <3>. QED  BY <1>1, <1>2, <1>4, <2>1, <2>2, <2>3, <2>5, <3>1, <3>2, <3>3 DEF BoxOf
    <2>. QED  BY <1>3, <2>4, <2>5
  <1>. QED  BY <1>1, <1>2, <1>4, <1>5, <1>6, <1>7

LEMMA ShrunkAt ==
  ASSUME NEW p \in Procs, mail[p] \in Seq(Datagrams), mail[p] # << >>, In(p), BoxOf(p),
         stage'[p] = stage[p], mail'[p] = Tail(mail[p])
  PROVE  /\ mail'[p] \in Seq(Datagrams) /\ Head(mail[p]) \in Notices
         /\ ToSet(mail[p]) = ToSet(mail'[p]) \cup {Head(mail[p])}
         /\ In(p)' /\ HasTable(p) /\ HasTable(p)'
         /\ Table(p) = chatMembers[p] /\ Table(p)' = chatMembers'[p]
         /\ ~Indirected(p) /\ ~Indirected(p)'
         /\ BoxOf(p)'
  <1>1. /\ mail'[p] \in Seq(Datagrams)
        /\ ToSet(mail[p]) = ToSet(mail'[p]) \cup {Head(mail[p])}
      BY BoxShrinks
  <1>2. ToSet(mail[p]) \subseteq Notices
      BY DEF BoxOf
  <1>3. In(p)' /\ HasTable(p) /\ HasTable(p)' /\ Table(p) = chatMembers[p] /\ Table(p)' = chatMembers'[p]
      BY DEF In, HasTable, Table
  <1>4. ~Indirected(p) /\ ~Indirected(p)'
      BY <1>1, <1>2, NotOnlyNotices DEF Indirected
  <1>5. BoxOf(p)'
      BY <1>1, <1>2, <1>3 DEF BoxOf, In, Reachable
  <1>. QED  BY <1>1, <1>2, <1>3, <1>4, <1>5

-----------------------------------------------------------------------------
(* What the steps below have in common: the JOINs are those there were,    *)
(* and whoever has a table had it before.                                  *)
LEMMA StillNew ==
  ASSUME Newcomers, Listing, chatMembers'[Leader] \subseteq chatMembers[Leader],
         checklist' \subseteq checklist, admitting' \subseteq admitting,
         \A j \in Joiners : /\ stage'[j] = "out" => stage[j] = "out"
                            /\ Indirected(j)' => Indirected(j)
                            /\ stage'[j] = "joining" => stage[j] = "joining",
         \A j \in Joiners : Answered(j) => stage'[j] # "joining" \/ Answered(j)',
         \A p \in Joiners : HasTable(p)' =>
           /\ HasTable(p)
           /\ \A j \in Joiners : j \in Table(p)' =>
                j \in Table(p) \/ Msg("NOTICE", j) \in ToSet(mail[p]),
         \A p \in Procs : \A j \in Joiners :
           /\ Msg("JOIN", j) \in ToSet(mail'[p]) => Msg("JOIN", j) \in ToSet(mail[p])
           /\ Twice(mail'[p], Msg("JOIN", j)) => Twice(mail[p], Msg("JOIN", j)),
         \A p \in Joiners : \A j \in Joiners : Msg("NOTICE", j) \in ToSet(mail'[p]) =>
           Msg("NOTICE", j) \in ToSet(mail[p]) \/ j \in admitting \ admitting',
         \A j \in Joiners : \A t \in {"LEAVE", "LEAVENOTICE"} :
           Msg(t, j) \in ToSet(mail'[Leader]) =>
             Msg(t, j) \in ToSet(mail[Leader]) \/ ~Asking(j)
  PROVE  Newcomers'
  <1> SUFFICES ASSUME NEW j \in Joiners
               PROVE
      /\ (stage[j] = "out" \/ Indirected(j) => \A p \in Procs : Msg("JOIN", j) \notin ToSet(mail[p]))'
      /\ (\A p \in Procs :
            /\ ~Twice(mail[p], Msg("JOIN", j))
            /\ \A q \in Procs : Msg("JOIN", j) \in ToSet(mail[p]) \cap ToSet(mail[q]) => p = q)'
      /\ (Asking(j) =>
            /\ j \notin chatMembers[Leader] \cup checklist /\ ~HasTable(j)
            /\ {Msg("LEAVE", j), Msg("LEAVENOTICE", j)} \cap ToSet(mail[Leader]) = {})'
      /\ (Asking(j) \/ j \in admitting =>
            \A p \in Joiners \ {j} : /\ HasTable(p) => j \notin Table(p)
                                     /\ Msg("NOTICE", j) \notin ToSet(mail[p]))'
      /\ (stage[j] = "joining" /\ j \in chatMembers[Leader] => Answered(j))'
      BY DEF Newcomers
  <1> USE Processes
  <1>0. Asking(j)' => Asking(j)
      BY DEF Asking
  <1>1. (stage[j] = "out" \/ Indirected(j) => \A p \in Procs : Msg("JOIN", j) \notin ToSet(mail[p]))'
      BY DEF Newcomers
  <1>2. \A p \in Procs :
          /\ ~Twice(mail[p], Msg("JOIN", j))'
          /\ \A q \in Procs : (Msg("JOIN", j) \in ToSet(mail[p]) \cap ToSet(mail[q]) => p = q)'
      BY DEF Newcomers
  <1>3. ASSUME Asking(j)'
        PROVE  /\ j \notin chatMembers'[Leader] \cup checklist' /\ ~HasTable(j)'
               /\ {Msg("LEAVE", j), Msg("LEAVENOTICE", j)} \cap ToSet(mail'[Leader]) = {}
      BY <1>0, <1>3 DEF Newcomers
  <1>4. ASSUME Asking(j)' \/ j \in admitting', NEW p \in Joiners \ {j}
        PROVE  /\ HasTable(p)' => j \notin Table(p)'
               /\ Msg("NOTICE", j) \notin ToSet(mail'[p])
    <2>1. Asking(j) \/ j \in admitting
        BY <1>0, <1>4
    <2>2. (HasTable(p) => j \notin Table(p)) /\ Msg("NOTICE", j) \notin ToSet(mail[p])
        BY <2>1 DEF Newcomers
    <2>3. HasTable(p)' => j \notin Table(p)'
        BY <2>2
    <2>4. j \notin admitting \ admitting'
        BY <1>0, <1>4 DEF Newcomers, Listing
    <2>. QED  BY <2>2, <2>3, <2>4
  <1>5. (stage[j] = "joining" /\ j \in chatMembers[Leader] => Answered(j))'
      BY DEF Newcomers
  <1>. QED  BY <1>1, <1>2, <1>3, <1>4, <1>5

(* Somebody ends, or is reported to have ended. *)
LEMMA GoneStep ==
  ASSUME IInv, TypeOK', NEW q \in Joiners,
         \A p \in Procs : p # q => stage'[p] = stage[p],
         \A p \in Procs : p # q /\ p # Leader => mail'[p] = mail[p],
         \/ stage'[q] = stage[q] /\ mail'[q] = mail[q]
         \/ stage'[q] \in {"left", "crashed"} /\ mail'[q] = << >>,
         \/ mail'[Leader] = mail[Leader]
         \/ /\ mail'[Leader] = Append(mail[Leader], Msg("LEAVE", q))
            /\ ~Asking(q) /\ In(Leader),
         UNCHANGED <<chatMembers, socketList, checklist, admitting>>,
         current'[Leader] = current[Leader]
  PROVE  IInv'
  <1> USE Processes
  <1>0. /\ TypeOK /\ Listing /\ Newcomers /\ News /\ Shared /\ TablesAgree
        /\ \A p \in Procs : BoxOf(p) /\ mail[p] \in Seq(Datagrams)
        /\ \A p \in Procs : chatMembers'[p] = chatMembers[p] /\ socketList'[p] = socketList[p]
      BY DEF IInv, TypeOK
  <1>1. ASSUME NEW p \in Procs, p # q, p # Leader
        PROVE  /\ stage'[p] = stage[p] /\ mail'[p] = mail[p]
               /\ In(p)' <=> In(p)
               /\ Answered(p)' <=> Answered(p)
               /\ HasTable(p)' <=> HasTable(p)
               /\ Table(p)' = Table(p)
               /\ Indirected(p)' <=> Indirected(p)
               /\ \A k : Knows(p, k)' <=> Knows(p, k)
               /\ BoxOf(p)'
    <2>1. stage'[p] = stage[p] /\ mail'[p] = mail[p] /\ chatMembers'[p] = chatMembers[p]
        BY <1>0, <1>1
    <2>. QED  BY <1>0, <2>1, SameAt
  <1>2. /\ stage'[Leader] = stage[Leader] /\ (In(Leader)' <=> In(Leader))
        /\ In(Leader) => \A k \in Procs : Knows(Leader, k)' <=> Knows(Leader, k)
        /\ BoxOf(Leader)'
        /\ \A x : x \in ToSet(mail'[Leader]) =>
             x \in ToSet(mail[Leader]) \/ (x = Msg("LEAVE", q) /\ ~Asking(q))
        /\ \A x : x # Msg("LEAVE", q) /\ ~Twice(mail[Leader], x) => ~Twice(mail'[Leader], x)
    <2>1. stage'[Leader] = stage[Leader] /\ (In(Leader)' <=> In(Leader))
        BY <1>0 DEF In
    <2>2. CASE mail'[Leader] = mail[Leader]
      <3>1. /\ \A k : Knows(Leader, k)' <=> Knows(Leader, k)
            /\ BoxOf(Leader)' <=> BoxOf(Leader)
          BY <1>0, <2>1, <2>2, SameAt
      <3>. QED  BY <1>0, <2>1, <2>2, <3>1
    <2>3. CASE mail'[Leader] = Append(mail[Leader], Msg("LEAVE", q)) /\ ~Asking(q) /\ In(Leader)
      <3> DEFINE m == Msg("LEAVE", q)
      <3>1. /\ m \in Notices /\ m \in Datagrams /\ m \notin {Msg("JOIN", Leader), Msg("LEAVE", Leader)}
            /\ \A k : m # Msg("NOTICE", k) /\ m # Msg("LEAVENOTICE", k)
          BY Datagram
      <3>2. HasTable(Leader)
          BY <2>3 DEF HasTable
      <3>3. mail'[Leader] = Append(mail[Leader], m)
          BY <2>3
      <3> HIDE DEF m
      <3>4. /\ ToSet(mail'[Leader]) = ToSet(mail[Leader]) \cup {m}
            /\ \A k : Knows(Leader, k)' <=> m = Msg("NOTICE", k)
                        \/ (m # Msg("LEAVENOTICE", k) /\ Knows(Leader, k))
            /\ BoxOf(Leader)'
          BY <1>0, <2>1, <3>1, <3>2, <3>3, GrownAt
      <3>5. \A x : x # m /\ ~Twice(mail[Leader], x) => ~Twice(mail'[Leader], x)
          BY <1>0, <3>1, <3>3, TwiceGrows
      <3>. QED  BY <2>1, <2>3, <3>1, <3>4, <3>5 DEF m
    <2>. QED  BY <2>2, <2>3
  <1>3. /\ In(q)' => In(q)
        /\ stage'[q] \in {"out", "joining"} => stage'[q] = stage[q]
        /\ HasTable(q)' => HasTable(q) /\ Table(q)' = Table(q) /\ \A k : Knows(q, k)' <=> Knows(q, k)
        /\ Indirected(q)' => Indirected(q)
        /\ Answered(q) => stage'[q] # "joining" \/ Answered(q)'
        /\ BoxOf(q)'
        /\ ToSet(mail'[q]) \subseteq ToSet(mail[q])
        /\ \A x : Twice(mail'[q], x) => Twice(mail[q], x)
    <2>1. CASE stage'[q] = stage[q] /\ mail'[q] = mail[q]
      <3>1. chatMembers'[q] = chatMembers[q]
          BY <1>0
      <3>2. /\ In(q)' <=> In(q)
            /\ Answered(q)' <=> Answered(q)
            /\ HasTable(q)' <=> HasTable(q)
            /\ Table(q)' = Table(q)
            /\ Indirected(q)' <=> Indirected(q)
            /\ \A k : Knows(q, k)' <=> Knows(q, k)
            /\ BoxOf(q)'
          BY <1>0, <2>1, <3>1, SameAt
      <3>. QED  BY <2>1, <3>2
    <2>2. CASE stage'[q] \in {"left", "crashed"} /\ mail'[q] = << >>
      <3>1. ~In(q)' /\ ~HasTable(q)' /\ ~Indirected(q)'
          BY <2>2, NotOnlyNotices DEF In, HasTable, Answered, Indirected
      <3>2. ToSet(mail'[q]) = {} /\ \A x : ~Twice(mail'[q], x)
          BY <2>2, OneIn
      <3>3. BoxOf(q)'
          BY <2>2, <3>1, <3>2 DEF BoxOf
      <3>. QED  BY <2>2, <3>1, <3>2, <3>3
    <2>. QED  BY <2>1, <2>2
  <1>4. /\ \A p \in Joiners : HasTable(p)' =>
             HasTable(p) /\ Table(p)' = Table(p) /\ \A k : Knows(p, k)' <=> Knows(p, k)
        /\ \A p \in Procs : In(p)' => In(p)
        /\ \A p \in Joiners : ToSet(mail'[p]) \subseteq ToSet(mail[p])
                              /\ \A x : Twice(mail'[p], x) => Twice(mail[p], x)
        /\ \A p \in Procs : BoxOf(p)'
      BY <1>1, <1>2, <1>3
  <1>5. Listing'
      BY <1>0, <1>2 DEF Listing
  <1>6. Newcomers'
    <2>1. \A j \in Joiners : /\ stage'[j] = "out" => stage[j] = "out"
                             /\ Indirected(j)' => Indirected(j)
                             /\ stage'[j] = "joining" => stage[j] = "joining"
                             /\ Answered(j) => stage'[j] # "joining" \/ Answered(j)'
        BY <1>1, <1>3
    <2>2. \A j \in Joiners : Msg("JOIN", j) # Msg("LEAVE", q)
        BY Datagram
    <2>3. \A p \in Procs : \A j \in Joiners :
            /\ Msg("JOIN", j) \in ToSet(mail'[p]) => Msg("JOIN", j) \in ToSet(mail[p])
            /\ Twice(mail'[p], Msg("JOIN", j)) => Twice(mail[p], Msg("JOIN", j))
        BY <1>2, <1>4, <2>2 DEF Procs
    <2>4. \A j \in Joiners : \A t \in {"LEAVE", "LEAVENOTICE"} :
            Msg(t, j) \in ToSet(mail'[Leader]) => Msg(t, j) \in ToSet(mail[Leader]) \/ ~Asking(j)
      <3>1. \A j \in Joiners : \A t : Msg(t, j) = Msg("LEAVE", q) => j = q
          BY Datagram
      <3>. QED  BY <1>2, <3>1
    <2>. QED  BY <1>0, <1>4, <2>1, <2>3, <2>4, StillNew
  <1>7. News'
      BY <1>0, <1>4 DEF News
  <1>8. Shared'
      BY <1>0, <1>2, <1>4 DEF Shared
  <1>9. TablesAgree'
      BY <1>0, <1>4 DEF TablesAgree
  <1>. QED  BY <1>4, <1>5, <1>6, <1>7, <1>8, <1>9 DEF IInv

LEMMA SentAt ==
  ASSUME NEW box \in [Procs -> Seq(Datagrams)], NEW p \in Procs, NEW m \in Datagrams
  PROVE  /\ Sent(box, p, m) \in [Procs -> Seq(Datagrams)]
         /\ \A r \in Procs : Sent(box, p, m)[r] = IF r = p /\ Reachable(p) THEN Append(box[r], m)
                                                  ELSE box[r]
  <1>1. Append(box[p], m) \in Seq(Datagrams)
    <2>1. box[p] \in Seq(Datagrams)
        OBVIOUS
    <2>. QED  BY <2>1, BoxGrows
  <1>. QED  BY <1>1 DEF Sent

LEMMA EndStep ==
  ASSUME IInv, NEW j \in Joiners, Leave(j) \/ Crash(j) \/ GiveUp(j) \/ DeclareDead(j)
  PROVE  IInv'
  <1> USE Processes
  <1> DEFINE m == Msg("LEAVE", j)
             sent == Sent(mail, Leader, m)
  <1>0. /\ TypeOK /\ Listing /\ Newcomers /\ BoxOf(j) /\ m \in Datagrams
        /\ stage \in [Procs -> {"out", "joining", "in", "left", "crashed"}]
        /\ mail \in [Procs -> Seq(Datagrams)]
      BY Datagram DEF IInv, TypeOK
  <1>1. UNCHANGED <<chatMembers, socketList, checklist, admitting, sendPc, it, current>>
      BY DEF Leave, Crash, GiveUp, DeclareDead, views, sending
  <1>2. /\ sent \in [Procs -> Seq(Datagrams)]
        /\ \A r \in Procs : r # Leader => sent[r] = mail[r]
        /\ sent[Leader] = mail[Leader] \/ (sent[Leader] = Append(mail[Leader], m) /\ In(Leader))
    <2>1. Reachable(Leader) => In(Leader)
        BY <1>0 DEF Listing, Reachable, In
    <2>2. m \in Datagrams /\ mail \in [Procs -> Seq(Datagrams)] /\ Leader \in Procs
        BY <1>0
    <2> HIDE DEF m
    <2>3. /\ Sent(mail, Leader, m) \in [Procs -> Seq(Datagrams)]
          /\ \A r \in Procs : Sent(mail, Leader, m)[r] = IF r = Leader /\ Reachable(Leader)
                                                         THEN Append(mail[r], m) ELSE mail[r]
        BY <2>2, SentAt
    <2>4. sent = Sent(mail, Leader, m)
        BY DEF m
    <2> HIDE DEF sent
    <2>. QED  BY <2>1, <2>2, <2>3, <2>4
  <1> HIDE DEF sent
  <1>3. /\ \A p \in Procs : p # j => stage'[p] = stage[p]
        /\ \A p \in Procs : p # j /\ p # Leader => mail'[p] = mail[p]
        /\ \/ stage'[j] = stage[j] /\ mail'[j] = mail[j]
           \/ stage'[j] \in {"left", "crashed"} /\ mail'[j] = << >>
        /\ \/ mail'[Leader] = mail[Leader]
           \/ mail'[Leader] = Append(mail[Leader], m) /\ ~Asking(j) /\ In(Leader)
        /\ stage' \in [Procs -> {"out", "joining", "in", "left", "crashed"}]
        /\ mail' \in [Procs -> Seq(Datagrams)]
    <2>0. << >> \in Seq(Datagrams)
        OBVIOUS
    <2>1. CASE Leave(j)
      <3>1. ~Asking(j)
          BY <1>0, <2>1 DEF Newcomers, Leave, HasTable
      <3>2. stage' = [stage EXCEPT ![j] = "left"] /\ mail' = [sent EXCEPT ![j] = << >>]
          BY <2>1 DEF Leave, sent
      <3>. QED  BY <1>0, <1>2, <2>0, <3>1, <3>2
    <2>2. CASE Crash(j)
      <3>1. stage' = [stage EXCEPT ![j] = "crashed"] /\ mail' = [mail EXCEPT ![j] = << >>]
          BY <2>2 DEF Crash
      <3>. QED  BY <1>0, <2>0, <3>1
    <2>3. CASE GiveUp(j)
      <3>1. stage' = [stage EXCEPT ![j] = "left"] /\ mail' = mail /\ mail[j] = << >>
          BY <2>3 DEF GiveUp
      <3>. QED  BY <1>0, <3>1
    <2>4. CASE DeclareDead(j)
      <3>1. ~Asking(j)
          BY <1>0, <2>4 DEF Newcomers, DeclareDead
      <3>2. stage' = stage /\ mail' = sent
          BY <2>4 DEF DeclareDead, sent
      <3>. QED  BY <1>0, <1>2, <3>1, <3>2
    <2>. QED  BY <2>1, <2>2, <2>3, <2>4
  <1>4. TypeOK'
      BY <1>0, <1>1, <1>3 DEF TypeOK
  <1>. QED  BY <1>1, <1>3, <1>4, GoneStep

(* The threads that change neither tables nor join ports. *)
LEMMA QuietStep ==
  ASSUME IInv, TypeOK', UNCHANGED <<stage, mail, chatMembers, socketList, admitting>>,
         \A q \in checklist' : q \in checklist \/ (q \in Joiners /\ In(q)),
         current'[Leader] >= 1
  PROVE  IInv'
  <1> USE Processes
  <1>0. /\ TypeOK /\ Listing /\ Newcomers /\ News /\ Shared /\ TablesAgree
        /\ \A p \in Procs : BoxOf(p)
      BY DEF IInv
  <1>1. ASSUME NEW p \in Procs
        PROVE  /\ In(p)' <=> In(p)
               /\ Answered(p)' <=> Answered(p)
               /\ HasTable(p)' <=> HasTable(p)
               /\ Table(p)' = Table(p)
               /\ Indirected(p)' <=> Indirected(p)
               /\ \A k : Knows(p, k)' <=> Knows(p, k)
               /\ BoxOf(p)' <=> BoxOf(p)
    <2>1. stage'[p] = stage[p] /\ mail'[p] = mail[p] /\ chatMembers'[p] = chatMembers[p]
        OBVIOUS
    <2>. QED  BY <2>1, SameAt
  <1>2. \A j \in Joiners : Asking(j)' <=> Asking(j)
      BY <1>1 DEF Asking
  <1>3. \A j \in Joiners : Asking(j) => j \notin checklist'
      BY <1>0 DEF Newcomers, HasTable
  <1>4. Listing'
      BY <1>0 DEF Listing
  <1>5. Newcomers'
      BY <1>0, <1>1, <1>2, <1>3 DEF Newcomers
  <1>6. News'
      BY <1>0, <1>1 DEF News
  <1>7. Shared'
      BY <1>0, <1>1 DEF Shared
  <1>8. TablesAgree'
      BY <1>0, <1>1 DEF TablesAgree
  <1>. QED  BY <1>0, <1>1, <1>4, <1>5, <1>6, <1>7, <1>8 DEF IInv

LEMMA SendStep ==
  ASSUME IInv, SendMessage \/ \E q \in Joiners : Heartbeat(q)
  PROVE  IInv'
  <1> USE Processes
  <1>0. /\ TypeOK /\ Listing /\ Newcomers /\ News /\ Shared /\ TablesAgree
        /\ \A p \in Procs : BoxOf(p)
        /\ current \in [Procs -> Nat] /\ current[Leader] >= 1
      BY DEF IInv, TypeOK, Listing
  <1>1. CASE \E q \in Joiners : Heartbeat(q)
    <2>1. PICK q \in Joiners : Heartbeat(q)
        BY <1>1
    <2>2. /\ In(q) /\ checklist' = checklist \cup {q}
          /\ UNCHANGED <<stage, mail, chatMembers, socketList, admitting, sendPc, it, current>>
        BY <2>1 DEF Heartbeat, views, sending
    <2>3. TypeOK'
        BY <1>0, <2>2 DEF TypeOK
    <2>. QED  BY <1>0, <2>2, <2>3, QuietStep
  <1>2. CASE TakeLine \/ WalkEnds \/ NextNumber
    <2>1. /\ UNCHANGED <<stage, mail, chatMembers, socketList, admitting, checklist>>
          /\ current' = current \/ current' = [current EXCEPT ![Leader] = @ + 1]
          /\ sendPc' \in {"front", "walk", "dangling", "done"} /\ it' \in {it, 1}
        BY <1>2 DEF TakeLine, WalkEnds, NextNumber, views
    <2>2. current' \in [Procs -> Nat] /\ current'[Leader] >= 1
        BY <1>0, <2>1
    <2>3. TypeOK'
        BY <1>0, <2>1, <2>2 DEF TypeOK
    <2>. QED  BY <2>1, <2>2, <2>3, QuietStep
  <1>3. CASE Serve
    <2>1. /\ UNCHANGED <<stage, mail, chatMembers, socketList, admitting, checklist, sendPc>>
          /\ it' = it + 1
        BY <1>3 DEF Serve, views
    <2>2. current' \in [Procs -> Nat] /\ current'[Leader] >= 1
      <3> DEFINE q == socketList[Leader][it]
      <3>1. current' = current \/ (q # Leader /\ current' = [current EXCEPT ![q] = @ + 1])
          BY <1>3 DEF Serve
      <3>2. socketList[Leader] \in Seq(Procs) /\ it <= Len(socketList[Leader]) /\ it \in Nat
          BY <1>0, <1>3 DEF TypeOK, Serve
      <3> HIDE DEF q
      <3>. QED  BY <1>0, <3>1
    <2>3. TypeOK'
        BY <1>0, <2>1, <2>2 DEF TypeOK
    <2>. QED  BY <2>1, <2>2, <2>3, QuietStep
  <1>4. CASE Dangle /\ UNCHANGED stage
    <2>1. UNCHANGED <<stage, mail, chatMembers, socketList, admitting, checklist, it, current>>
        BY <1>4 DEF Dangle, views
    <2>2. TypeOK'
        BY <1>0, <1>4, <2>1 DEF TypeOK, Dangle
    <2>. QED  BY <1>0, <2>1, <2>2, QuietStep
  <1>5. CASE Dangle /\ stage' = [stage EXCEPT ![Leader] = "crashed"]
    <2>1. /\ UNCHANGED <<mail, chatMembers, socketList, admitting, checklist, it, current>>
          /\ stage'[Leader] = "crashed" /\ \A p \in Joiners : stage'[p] = stage[p]
          /\ In(Leader)
        BY <1>0, <1>5 DEF Dangle, views, TypeOK
    <2>2. ASSUME NEW p \in Joiners
          PROVE  /\ In(p)' <=> In(p)
                 /\ Answered(p)' <=> Answered(p)
                 /\ HasTable(p)' <=> HasTable(p)
                 /\ Table(p)' = Table(p)
                 /\ Indirected(p)' <=> Indirected(p)
                 /\ \A k : Knows(p, k)' <=> Knows(p, k)
                 /\ BoxOf(p)' <=> BoxOf(p)
      <3>1. stage'[p] = stage[p] /\ mail'[p] = mail[p] /\ chatMembers'[p] = chatMembers[p]
          BY <2>1
      <3>. QED  BY <3>1, SameAt
    <2>3. ~In(Leader)' /\ BoxOf(Leader)'
        BY <1>0, <2>1 DEF BoxOf, In
    <2>4. \A j \in Joiners : Asking(j)' <=> Asking(j)
        BY <2>1, <2>2 DEF Asking
    <2>5. TypeOK'
        BY <1>0, <1>5, <2>1 DEF TypeOK, Dangle
    <2>6. Listing'
        BY <1>0, <2>1 DEF Listing
    <2>7. Newcomers'
        BY <1>0, <2>1, <2>2, <2>4 DEF Newcomers
    <2>8. News'
        BY <1>0, <2>1, <2>2 DEF News
    <2>9. Shared'
        BY <2>3 DEF Shared
    <2>10. TablesAgree'
        BY <1>0, <2>1, <2>2, <2>3 DEF TablesAgree, Procs
    <2>. QED  BY <1>0, <2>2, <2>3, <2>5, <2>6, <2>7, <2>8, <2>9, <2>10 DEF IInv, Procs
  <1>6. Dangle => UNCHANGED stage \/ stage' = [stage EXCEPT ![Leader] = "crashed"]
      BY DEF Dangle
  <1>. QED  BY <1>1, <1>2, <1>3, <1>4, <1>5, <1>6 DEF SendMessage

(* A JOIN is sent, to the contact or to the sequencer. *)
LEMMA AskStep ==
  ASSUME IInv, TypeOK', NEW j \in Joiners, NEW c \in Procs, c # j, Asking(j),
         \A p \in Procs : Msg("JOIN", j) \notin ToSet(mail[p]),
         stage'[j] = "joining", mail'[j] = << >>,
         \A p \in Procs : p # j => stage'[p] = stage[p],
         \A p \in Procs : p # j /\ p # c => mail'[p] = mail[p],
         \/ mail'[c] = mail[c]
         \/ mail'[c] = Append(mail[c], Msg("JOIN", j)) /\ In(c),
         UNCHANGED <<chatMembers, socketList, checklist, admitting, current>>
  PROVE  IInv'
  <1> USE Processes
  <1>0. /\ TypeOK /\ Listing /\ Newcomers /\ News /\ Shared /\ TablesAgree
        /\ \A p \in Procs : BoxOf(p) /\ mail[p] \in Seq(Datagrams)
        /\ \A p \in Procs : chatMembers'[p] = chatMembers[p] /\ socketList'[p] = socketList[p]
      BY DEF IInv, TypeOK
  <1> DEFINE m == Msg("JOIN", j)
  <1>1. ASSUME NEW p \in Procs, p # j
        PROVE  /\ In(p)' <=> In(p)
               /\ Answered(p)' <=> Answered(p)
               /\ HasTable(p)' <=> HasTable(p)
               /\ Table(p)' = Table(p)
               /\ Indirected(p)' <=> Indirected(p)
               /\ \A k : Knows(p, k)' <=> Knows(p, k)
               /\ BoxOf(p)'
               /\ \A x : x \in ToSet(mail'[p]) => x \in ToSet(mail[p]) \/ (p = c /\ x = m)
               /\ \A x : ~Twice(mail[p], x) => ~Twice(mail'[p], x)
    <2>0. stage'[p] = stage[p] /\ chatMembers'[p] = chatMembers[p] /\ BoxOf(p)
          /\ mail[p] \in Seq(Datagrams)
        BY <1>0, <1>1
    <2>1. CASE mail'[p] = mail[p]
      <3>1. /\ In(p)' <=> In(p)
            /\ Answered(p)' <=> Answered(p)
            /\ HasTable(p)' <=> HasTable(p)
            /\ Table(p)' = Table(p)
            /\ Indirected(p)' <=> Indirected(p)
            /\ \A k : Knows(p, k)' <=> Knows(p, k)
            /\ BoxOf(p)'
          BY <2>0, <2>1, SameAt
      <3>. QED  BY <2>1, <3>1
    <2>2. CASE p = c /\ mail'[p] = Append(mail[p], m) /\ In(p)
      <3>1. /\ m \in Notices /\ m \in Datagrams /\ m \notin {Msg("JOIN", Leader), Msg("LEAVE", Leader)}
            /\ \A k : m # Msg("NOTICE", k) /\ m # Msg("LEAVENOTICE", k)
          BY Datagram
      <3>2. HasTable(p) /\ mail'[p] = Append(mail[p], m)
          BY <2>2 DEF HasTable
      <3>3. m \notin ToSet(mail[p])
          OBVIOUS
      <3> HIDE DEF m
      <3>4. /\ ToSet(mail'[p]) = ToSet(mail[p]) \cup {m}
            /\ In(p)' <=> In(p)
            /\ Answered(p)' <=> Answered(p)
            /\ HasTable(p)' /\ Table(p)' = Table(p)
            /\ ~Indirected(p) /\ ~Indirected(p)'
            /\ \A k : Knows(p, k)' <=> m = Msg("NOTICE", k)
                        \/ (m # Msg("LEAVENOTICE", k) /\ Knows(p, k))
            /\ BoxOf(p)'
          BY <2>0, <3>1, <3>2, GrownAt
      <3>5. \A x : ~Twice(mail[p], x) => ~Twice(mail'[p], x)
          BY <2>0, <3>1, <3>2, <3>3, TwiceGrows
      <3>. QED  BY <2>2, <3>1, <3>2, <3>4, <3>5
    <2>. QED  BY <1>1, <2>1, <2>2
  <1>2. /\ ~In(j)' /\ ~HasTable(j)' /\ ~Indirected(j)' /\ BoxOf(j)'
        /\ ToSet(mail'[j]) = {} /\ \A x : ~Twice(mail'[j], x)
    <2>1. ~In(j)' /\ ~HasTable(j)' /\ ~Indirected(j)'
        BY NotOnlyNotices DEF In, HasTable, Answered, Indirected
    <2>2. ToSet(mail'[j]) = {} /\ \A x : ~Twice(mail'[j], x)
        BY OneIn
    <2>. QED  BY <2>1, <2>2 DEF BoxOf, Reachable
  <1>3. ~HasTable(j) /\ j \notin chatMembers[Leader]
      BY <1>0 DEF Newcomers
  <1>4. Listing'
      BY <1>0 DEF Listing
  <1>5. Newcomers'
    <2> SUFFICES ASSUME NEW k \in Joiners
                 PROVE
        /\ (stage[k] = "out" \/ Indirected(k) => \A p \in Procs : Msg("JOIN", k) \notin ToSet(mail[p]))'
        /\ (\A p \in Procs :
              /\ ~Twice(mail[p], Msg("JOIN", k))
              /\ \A q \in Procs : Msg("JOIN", k) \in ToSet(mail[p]) \cap ToSet(mail[q]) => p = q)'
        /\ (Asking(k) =>
              /\ k \notin chatMembers[Leader] \cup checklist /\ ~HasTable(k)
              /\ {Msg("LEAVE", k), Msg("LEAVENOTICE", k)} \cap ToSet(mail[Leader]) = {})'
        /\ (Asking(k) \/ k \in admitting =>
              \A p \in Joiners \ {k} : /\ HasTable(p) => k \notin Table(p)
                                       /\ Msg("NOTICE", k) \notin ToSet(mail[p]))'
        /\ (stage[k] = "joining" /\ k \in chatMembers[Leader] => Answered(k))'
        BY DEF Newcomers
    <2>1. \A t : Msg(t, k) = m => t = "JOIN" /\ k = j
        BY Datagram
    <2>2. \A p \in Procs : \A t : Msg(t, k) \in ToSet(mail'[p]) =>
            Msg(t, k) \in ToSet(mail[p]) \/ (p = c /\ t = "JOIN" /\ k = j)
        BY <1>1, <1>2, <2>1
    <2>3. Asking(k)' => Asking(k)
        BY <1>1, <1>2, <2>2 DEF Asking
    <2>4. \A p \in Procs : HasTable(p)' => p # j /\ HasTable(p) /\ Table(p)' = Table(p)
        BY <1>1, <1>2
    <2>5. (stage[k] = "out" \/ Indirected(k) => \A p \in Procs : Msg("JOIN", k) \notin ToSet(mail[p]))'
        BY <1>0, <1>1, <1>2, <2>2 DEF Newcomers
    <2>6. \A p \in Procs : ~Twice(mail'[p], Msg("JOIN", k))
        BY <1>0, <1>1, <1>2 DEF Newcomers
    <2>7. \A p \in Procs : \A q \in Procs :
            Msg("JOIN", k) \in ToSet(mail'[p]) \cap ToSet(mail'[q]) => p = q
        BY <1>0, <2>2 DEF Newcomers
    <2>8. (Asking(k) =>
              /\ k \notin chatMembers[Leader] \cup checklist /\ ~HasTable(k)
              /\ {Msg("LEAVE", k), Msg("LEAVENOTICE", k)} \cap ToSet(mail[Leader]) = {})'
        BY <1>0, <2>2, <2>3, <2>4 DEF Newcomers
    <2>9. (Asking(k) \/ k \in admitting =>
              \A p \in Joiners \ {k} : /\ HasTable(p) => k \notin Table(p)
                                       /\ Msg("NOTICE", k) \notin ToSet(mail[p]))'
        BY <1>0, <2>2, <2>3, <2>4 DEF Newcomers
    <2>10. (stage[k] = "joining" /\ k \in chatMembers[Leader] => Answered(k))'
        BY <1>0, <1>1, <1>3 DEF Newcomers
    <2>. QED  BY <2>5, <2>6, <2>7, <2>8, <2>9, <2>10
  <1>6. News'
    <2>1. \A p \in Joiners : HasTable(p)' => p # j /\ HasTable(p) /\ Table(p)' = Table(p)
        BY <1>1, <1>2
    <2>2. \A k : Msg("NOTICE", k) # m
        BY Datagram
    <2>. QED  BY <1>0, <1>1, <2>1, <2>2, ZenonT(30) DEF News
  <1>7. Shared'
    <2>1. \A p \in Joiners : HasTable(p)' => p # j /\ HasTable(p)
        BY <1>1, <1>2
    <2>. QED  BY <1>0, <1>1, <2>1 DEF Shared
  <1>8. TablesAgree'
      BY <1>0, <1>1, <1>2 DEF TablesAgree
  <1>. QED  BY <1>1, <1>2, <1>4, <1>5, <1>6, <1>7, <1>8 DEF IInv

LEMMA JoinStep ==
  ASSUME IInv, NEW j \in Joiners, Join(j) \/ Redirected(j)
  PROVE  IInv'
  <1> USE Processes
  <1> DEFINE m == Msg("JOIN", j)
  <1>0. /\ TypeOK /\ Newcomers /\ BoxOf(j) /\ m \in Datagrams /\ Listing
        /\ stage \in [Procs -> {"out", "joining", "in", "left", "crashed"}]
        /\ mail \in [Procs -> Seq(Datagrams)] /\ << >> \in Seq(Datagrams)
      BY Datagram DEF IInv, TypeOK
  <1>1. UNCHANGED <<chatMembers, socketList, checklist, admitting, sendPc, it, current>>
      BY DEF Join, Redirected, views, sending
  <1>2. ASSUME NEW box \in [Procs -> Seq(Datagrams)], NEW c \in Procs
        PROVE  /\ Sent(box, c, m) \in [Procs -> Seq(Datagrams)]
               /\ \A r \in Procs : Sent(box, c, m)[r] = IF r = c /\ Reachable(c) THEN Append(box[r], m)
                                                        ELSE box[r]
    <2> HIDE DEF m
    <2>. QED  BY <1>0, SentAt
  <1>3. CASE Join(j)
    <2> DEFINE c == Contact[j]
    <2>1. c \in Procs
        BY MembershipAssumption
    <2>2. /\ stage[j] = "out" /\ stage[c] \notin {"out", "joining"}
          /\ stage' = [stage EXCEPT ![j] = "joining"]
          /\ mail' = Sent(mail, c, m)
        BY <1>3 DEF Join
    <2> HIDE DEF c
    <2>3. c # j /\ Asking(j) /\ \A p \in Procs : m \notin ToSet(mail[p])
        BY <1>0, <2>2 DEF Asking, Newcomers
    <2>4. /\ stage'[j] = "joining" /\ \A p \in Procs : p # j => stage'[p] = stage[p]
          /\ stage' \in [Procs -> {"out", "joining", "in", "left", "crashed"}]
        BY <1>0, <2>2
    <2>5. mail' \in [Procs -> Seq(Datagrams)]
          /\ \A r \in Procs : mail'[r] = IF r = c /\ Reachable(c) THEN Append(mail[r], m) ELSE mail[r]
        BY <1>0, <1>2, <2>1, <2>2
    <2>6. Reachable(c) => In(c)
        BY <2>2 DEF Reachable, In
    <2>7. mail'[j] = << >>
      <3>1. ~Reachable(j) /\ j # Leader
          BY <2>2 DEF Reachable
      <3>. QED  BY <1>0, <2>3, <2>5, <3>1 DEF BoxOf
    <2>8. TypeOK'
        BY <1>0, <1>1, <2>4, <2>5, SMTT(30) DEF TypeOK
    <2>9. /\ \A p \in Procs : p # j /\ p # c => mail'[p] = mail[p]
          /\ mail'[c] = mail[c] \/ (mail'[c] = Append(mail[c], m) /\ In(c))
        BY <2>1, <2>5, <2>6
    <2>. QED  BY <1>1, <2>1, <2>3, <2>4, <2>7, <2>8, <2>9, AskStep
  <1>4. CASE Redirected(j)
    <2>1. stage[j] = "joining" /\ mail[j] # << >> /\ Head(mail[j]).type = "INDIRECT"
          /\ mail' = Sent(Rest(j), Head(mail[j]).ld, m) /\ stage' = stage
        BY <1>4 DEF Redirected
    <2>2. Indirected(j)
        BY <1>0, <2>1 DEF BoxOf, Answered
    <2>3. Head(mail[j]).ld = Leader /\ Tail(mail[j]) = << >>
      <3> DEFINE i == [type |-> "INDIRECT", ld |-> Leader]
      <3>1. mail[j] = <<i>> /\ i.ld = Leader
          BY <2>2, Indirect DEF Indirected
      <3> HIDE DEF i
      <3>. QED  BY <3>1, OneIn
    <2>4. /\ Rest(j) \in [Procs -> Seq(Datagrams)] /\ Rest(j)[j] = << >>
          /\ \A p \in Procs : p # j => Rest(j)[p] = mail[p]
        BY <1>0, <2>3 DEF Rest
    <2>5. Asking(j) /\ \A p \in Procs : m \notin ToSet(mail[p])
        BY <1>0, <2>2 DEF Asking, Newcomers
    <2> DEFINE box == Rest(j)
    <2>6. mail' = Sent(box, Leader, m)
        BY <2>1, <2>3
    <2> HIDE DEF box
    <2>7. mail' \in [Procs -> Seq(Datagrams)]
          /\ \A r \in Procs : mail'[r] = IF r = Leader /\ Reachable(Leader) THEN Append(box[r], m)
                                         ELSE box[r]
        BY <1>2, <2>4, <2>6 DEF box
    <2>8. Reachable(Leader) => In(Leader)
        BY <1>0 DEF Listing, Reachable, In
    <2>9. TypeOK'
        BY <1>0, <1>1, <2>1, <2>7 DEF TypeOK
    <2>10. /\ mail'[j] = << >> /\ \A p \in Procs : p # j /\ p # Leader => mail'[p] = mail[p]
           /\ mail'[Leader] = mail[Leader] \/ (mail'[Leader] = Append(mail[Leader], m) /\ In(Leader))
        BY <2>4, <2>7, <2>8 DEF box
    <2>. QED  BY <1>1, <2>1, <2>5, <2>9, <2>10, AskStep
  <1>. QED  BY <1>3, <1>4

(* A process takes a datagram out and follows it; a reply makes it a member. *)
LEMMA TakenStep ==
  ASSUME IInv, TypeOK', NEW p \in Procs, HasTable(p), p = Leader => In(p),
         stage'[p] = "in", In(p)', mail[p] # << >>, mail'[p] = Tail(mail[p]), BoxOf(p)',
         ~Indirected(p)',
         \A q \in Procs : q # p => /\ stage'[q] = stage[q] /\ mail'[q] = mail[q]
                                   /\ chatMembers'[q] = chatMembers[q]
                                   /\ socketList'[q] = socketList[q],
         UNCHANGED <<checklist, admitting>>, current'[Leader] >= 1,
         p = Leader => chatMembers'[p] = chatMembers[p] /\ socketList'[p] = socketList[p],
         \A k \in Procs : Knows(p, k)' <=> Knows(p, k),
         \A k \in Procs : p # Leader /\ k \in chatMembers'[p] =>
           k \in Table(p) \/ Msg("NOTICE", k) \in ToSet(mail[p]),
         \A k \in Procs : p # Leader /\ Msg("NOTICE", k) \in ToSet(mail'[p]) =>
           k \notin chatMembers'[p],
         p # Leader => Distinct(socketList'[p]) /\ ToSet(socketList'[p]) = chatMembers'[p]
  PROVE  IInv'
  <1> USE Processes
  <1>0. /\ TypeOK /\ Listing /\ Newcomers /\ News /\ Shared /\ TablesAgree
        /\ \A q \in Procs : BoxOf(q) /\ mail[q] \in Seq(Datagrams)
      BY DEF IInv, TypeOK
  <1>1. ASSUME NEW q \in Procs, q # p
        PROVE  /\ In(q)' <=> In(q)
               /\ Answered(q)' <=> Answered(q)
               /\ HasTable(q)' <=> HasTable(q)
               /\ Table(q)' = Table(q)
               /\ Indirected(q)' <=> Indirected(q)
               /\ \A k : Knows(q, k)' <=> Knows(q, k)
               /\ BoxOf(q)'
    <2>1. stage'[q] = stage[q] /\ mail'[q] = mail[q] /\ chatMembers'[q] = chatMembers[q]
        BY <1>1
    <2>. QED  BY <1>0, <2>1, SameAt
  <1>2. /\ ToSet(mail'[p]) \subseteq ToSet(mail[p])
        /\ \A x : ~Twice(mail[p], x) => ~Twice(mail'[p], x)
        /\ HasTable(p)' /\ Table(p)' = chatMembers'[p]
      BY <1>0, BoxShrinks, TwiceShrinks DEF HasTable, Table
  <1>3. \A q \in Procs : /\ ToSet(mail'[q]) \subseteq ToSet(mail[q])
                         /\ \A x : Twice(mail'[q], x) => Twice(mail[q], x)
                         /\ HasTable(q)' => HasTable(q)
                         /\ \A k \in Procs : Knows(q, k)' <=> Knows(q, k)
                         /\ BoxOf(q)'
      BY <1>1, <1>2
  <1>4. /\ In(Leader)' <=> In(Leader)
        /\ stage'[Leader] \in {"in", "crashed"}
        /\ chatMembers'[Leader] = chatMembers[Leader] /\ socketList'[Leader] = socketList[Leader]
    <2>1. CASE p = Leader
        BY <2>1
    <2>2. CASE p # Leader
        BY <1>0, <1>1, <2>2 DEF Listing
    <2>. QED  BY <2>1, <2>2
  <1>5. Listing'
      BY <1>0, <1>4 DEF Listing
  <1>6. Newcomers'
    <2>1. \A j \in Joiners : /\ stage'[j] = "out" => stage[j] = "out"
                             /\ Indirected(j)' => Indirected(j)
                             /\ stage'[j] = "joining" => stage[j] = "joining"
        BY <1>1
    <2>2. \A j \in Joiners : Answered(j) => stage'[j] # "joining" \/ Answered(j)'
        BY <1>1
    <2>3. \A q \in Joiners : HasTable(q)' =>
            /\ HasTable(q)
            /\ \A j \in Joiners : j \in Table(q)' =>
                 j \in Table(q) \/ Msg("NOTICE", j) \in ToSet(mail[q])
        BY <1>1, <1>2
    <2>4. \A q \in Procs : \A j \in Joiners :
            /\ Msg("JOIN", j) \in ToSet(mail'[q]) => Msg("JOIN", j) \in ToSet(mail[q])
            /\ Twice(mail'[q], Msg("JOIN", j)) => Twice(mail[q], Msg("JOIN", j))
        BY <1>3
    <2>5. \A q \in Joiners : \A j \in Joiners : Msg("NOTICE", j) \in ToSet(mail'[q]) =>
            Msg("NOTICE", j) \in ToSet(mail[q]) \/ j \in admitting \ admitting'
        BY <1>3
    <2>6. \A j \in Joiners : \A t \in {"LEAVE", "LEAVENOTICE"} :
            Msg(t, j) \in ToSet(mail'[Leader]) => Msg(t, j) \in ToSet(mail[Leader]) \/ ~Asking(j)
        BY <1>3
    <2>. QED  BY <1>0, <1>4, <2>1, <2>2, <2>3, <2>4, <2>5, <2>6, StillNew
  <1>7. News'
      BY <1>0, <1>1, <1>2, <1>3 DEF News
  <1>8. Shared'
      BY <1>0, <1>3, <1>4 DEF Shared
  <1>9. TablesAgree'
    <2> SUFFICES ASSUME NEW q \in Procs, In(q)'
                 PROVE  /\ \A i, k \in 1 .. Len(socketList'[q]) :
                             socketList'[q][i] = socketList'[q][k] => i = k
                        /\ ToSet(socketList'[q])
                             = chatMembers'[q] \ (IF q = Leader THEN admitting' ELSE {})
        BY DEF TablesAgree
    <2>1. CASE q = p /\ p # Leader
        BY <2>1 DEF Distinct
    <2>2. CASE q = p /\ p = Leader
        BY <1>0, <2>2 DEF TablesAgree
    <2>3. CASE q # p
        BY <1>0, <1>1, <2>3 DEF TablesAgree
    <2>. QED  BY <2>1, <2>2, <2>3
  <1>. QED  BY <1>3, <1>5, <1>6, <1>7, <1>8, <1>9 DEF IInv

LEMMA JoinedStep ==
  ASSUME IInv, NEW j \in Joiners, Joined(j)
  PROVE  IInv'
  <1> USE Processes
  <1> DEFINE r == Head(mail[j])
  <1>0. /\ TypeOK /\ BoxOf(j) /\ Listing
        /\ stage \in [Procs -> {"out", "joining", "in", "left", "crashed"}]
        /\ mail \in [Procs -> Seq(Datagrams)] /\ chatMembers \in [Procs -> SUBSET Procs]
        /\ socketList \in [Procs -> Seq(Procs)] /\ current \in [Procs -> Nat]
        /\ mail[j] \in Seq(Datagrams)
      BY DEF IInv, TypeOK
  <1>1. /\ stage[j] = "joining" /\ mail[j] # << >> /\ Answered(j) /\ HasTable(j) /\ ~In(j)
        /\ Table(j) = ToSet(r.list)
        /\ chatMembers' = [chatMembers EXCEPT ![j] = ToSet(r.list)]
        /\ socketList' = [socketList EXCEPT ![j] = r.list]
        /\ current' = [current EXCEPT ![j] = r.seq - 1]
        /\ stage' = [stage EXCEPT ![j] = "in"]
        /\ mail' = [mail EXCEPT ![j] = Tail(@)]
        /\ UNCHANGED <<checklist, admitting, sendPc, it>>
      BY DEF Joined, Answered, HasTable, In, Table, Rest, sending
  <1>2. ~Indirected(j)
      BY <1>1, NotOnlyNotices DEF Indirected, Answered
  <1>3. /\ r \in Replies /\ r.seq >= 1 /\ Distinct(r.list) /\ ToSet(Tail(mail[j])) \subseteq Notices
        /\ r.type = "REPLY" /\ r.list \in Seq(Procs) /\ r.seq \in Nat
      BY <1>0, <1>1, <1>2, Datagram DEF BoxOf
  <1>4. r.seq - 1 \in Nat /\ ToSet(r.list) \in SUBSET Procs
      BY <1>3 DEF ToSet
  <1>5. /\ Tail(mail[j]) \in Seq(Datagrams) /\ ToSet(Tail(mail[j])) \subseteq ToSet(mail[j])
      BY <1>0, <1>1, BoxShrinks
  <1>6. ASSUME NEW k \in Procs
        PROVE  Knows(j, k)' <=> Knows(j, k)
    <2> DEFINE a == Msg("NOTICE", k)
               b == Msg("LEAVENOTICE", k)
               there == k \in Table(j)
    <2>1. a # b /\ r # a /\ r # b /\ there \in BOOLEAN
        BY <1>3, Datagram
    <2>2. /\ Knows(j, k) <=> Kept(mail[j], there, a, b)
          /\ Knows(j, k)' <=> Kept(Tail(mail[j]), there, a, b)
      <3>1. mail'[j] = Tail(mail[j]) /\ Table(j)' = Table(j)
          BY <1>0, <1>1, <1>4 DEF Table, In
      <3>. QED  BY <3>1 DEF Knows
    <2> HIDE DEF a, b, there
    <2>3. Kept(mail[j], there, a, b) <=>
            Kept(Tail(mail[j]), Head(mail[j]) = a \/ (Head(mail[j]) # b /\ there), a, b)
        BY <1>0, <1>1, <2>1, KeptShrinks
    <2>4. (Head(mail[j]) = a \/ (Head(mail[j]) # b /\ there)) = there
        BY <2>1
    <2>. QED  BY <2>2, <2>3, <2>4
  <1> HIDE DEF r
  <1>7. TypeOK'
      BY <1>0, <1>1, <1>3, <1>4, <1>5 DEF TypeOK
  <1>8. /\ stage'[j] = "in" /\ mail'[j] = Tail(mail[j]) /\ chatMembers'[j] = Table(j)
        /\ socketList'[j] = r.list
        /\ current'[Leader] >= 1
        /\ \A q \in Procs : q # j => /\ stage'[q] = stage[q] /\ mail'[q] = mail[q]
                                     /\ chatMembers'[q] = chatMembers[q]
                                     /\ socketList'[q] = socketList[q]
    <2>1. current[Leader] >= 1
        BY <1>0 DEF Listing
    <2>. QED  BY <1>0, <1>1, <1>3, <1>4, <1>5, <2>1
  <1>9. In(j)' /\ BoxOf(j)' /\ ~Indirected(j)'
    <2>1. In(j)' /\ ToSet(mail'[j]) \subseteq Notices
        BY <1>3, <1>8 DEF In
    <2>2. {Msg("JOIN", Leader), Msg("LEAVE", Leader)} \cap ToSet(mail'[j]) = {}
        BY <1>0, <1>5, <1>8 DEF BoxOf
    <2>3. ~Indirected(j)'
        BY <2>1, NotOnlyNotices DEF Indirected
    <2>. QED  BY <1>8, <2>1, <2>2, <2>3 DEF BoxOf, Reachable
  <1>10. \A k \in Procs : Msg("NOTICE", k) \in ToSet(mail'[j]) => k \notin chatMembers'[j]
    <2>1. \A k \in Procs : Msg("NOTICE", k) \in ToSet(mail[j]) => k \notin Table(j)
        BY <1>1 DEF IInv, News
    <2>. QED  BY <1>5, <1>8, <2>1
  <1>11. Distinct(socketList'[j]) /\ ToSet(socketList'[j]) = chatMembers'[j]
      BY <1>1, <1>3, <1>8
  <1>. QED  BY <1>1, <1>6, <1>7, <1>8, <1>9, <1>10, <1>11, TakenStep

LEMMA NoticeStep ==
  ASSUME IInv, NEW p \in Procs, HandleNotice(p) \/ HandleLeaveNotice(p)
  PROVE  IInv'
  <1> USE Processes
  <1> DEFINE m == Head(mail[p])
             k0 == m.of
  <1>0. /\ TypeOK /\ BoxOf(p) /\ Listing /\ TablesAgree /\ News
        /\ stage \in [Procs -> {"out", "joining", "in", "left", "crashed"}]
        /\ mail \in [Procs -> Seq(Datagrams)] /\ chatMembers \in [Procs -> SUBSET Procs]
        /\ socketList \in [Procs -> Seq(Procs)]
        /\ mail[p] \in Seq(Datagrams) /\ socketList[p] \in Seq(Procs)
      BY DEF IInv, TypeOK
  <1>1. /\ In(p) /\ mail[p] # << >> /\ m.type \in {"NOTICE", "LEAVENOTICE"}
        /\ mail' = [mail EXCEPT ![p] = Tail(@)]
        /\ UNCHANGED <<stage, checklist, admitting, sendPc, it, current>>
        /\ p = Leader => UNCHANGED <<chatMembers, socketList>>
        /\ p # Leader /\ m.type = "NOTICE" =>
             /\ chatMembers' = [chatMembers EXCEPT ![p] = @ \cup {k0}]
             /\ socketList' = [socketList EXCEPT ![p] = Append(@, k0)]
        /\ p # Leader /\ m.type = "LEAVENOTICE" =>
             /\ chatMembers' = [chatMembers EXCEPT ![p] = @ \ {k0}]
             /\ socketList' = [socketList EXCEPT ![p] = Erase(@, k0)]
      BY DEF HandleNotice, HandleLeaveNotice, Received, Rest, views, sending
  <1>2. m \in Datagrams /\ Tail(mail[p]) \in Seq(Datagrams)
        /\ ToSet(mail[p]) = ToSet(Tail(mail[p])) \cup {m}
      BY <1>0, <1>1, BoxShrinks
  <1>3. m = Msg(m.type, k0) /\ k0 \in Procs
      BY <1>1, <1>2, Datagram
  <1>4. /\ mail'[p] = Tail(mail[p]) /\ stage'[p] = stage[p] /\ stage'[p] = "in"
        /\ mail' \in [Procs -> Seq(Datagrams)]
        /\ \A q \in Procs : q # p => mail'[q] = mail[q]
      BY <1>0, <1>1, <1>2 DEF In
  <1>5. In(p)' /\ HasTable(p) /\ Table(p) = chatMembers[p] /\ Table(p)' = chatMembers'[p]
        /\ ~Indirected(p)' /\ BoxOf(p)'
      BY <1>0, <1>1, <1>4, ShrunkAt
  <1> HIDE DEF m, k0
  <1>6. CASE p = Leader
    <2>1. chatMembers' = chatMembers /\ socketList' = socketList
        BY <1>1, <1>6
    <2>2. TypeOK'
        BY <1>0, <1>1, <1>4, <2>1 DEF TypeOK
    <2>3. ASSUME NEW k \in Procs PROVE Knows(p, k)' <=> Knows(p, k)
      <3> DEFINE a == Msg("NOTICE", k)
                 b == Msg("LEAVENOTICE", k)
                 there == k \in chatMembers[p]
      <3>1. a # b /\ there \in BOOLEAN
          BY Datagram
      <3>2. /\ Knows(p, k) <=> Kept(mail[p], there, a, b)
            /\ Knows(p, k)' <=> Kept(Tail(mail[p]), there, a, b)
          BY <1>4, <1>5, <2>1 DEF Knows
      <3>3. Knows(p, k) <=> there
          BY <1>1, <1>6 DEF IInv, Shared
      <3> HIDE DEF a, b, there
      <3>4. (Kept(mail[p], there, a, b) <=> there) => (Kept(Tail(mail[p]), there, a, b) <=> there)
          BY <1>0, <1>1, <3>1, KeptShrinks
      <3>. QED  BY <3>2, <3>3, <3>4
    <2>4. current'[Leader] >= 1
        BY <1>0, <1>1 DEF Listing
    <2>. QED  BY <1>1, <1>4, <1>5, <1>6, <2>1, <2>2, <2>3, <2>4, TakenStep
  <1>7. CASE p # Leader
    <2>1. p \in Joiners
        BY <1>7 DEF Procs
    <2>2. Distinct(socketList[p]) /\ ToSet(socketList[p]) = chatMembers[p]
      <3>1. TablesAgree /\ In(p) /\ chatMembers[p] \ {} = chatMembers[p]
          BY <1>0, <1>1
      <3>2. /\ \A i, k \in 1 .. Len(socketList[p]) : socketList[p][i] = socketList[p][k] => i = k
            /\ ToSet(socketList[p]) = chatMembers[p] \ {}
          BY <1>7, <3>1 DEF TablesAgree
      <3>. QED  BY <3>1, <3>2 DEF Distinct
    <2>3. \A k \in Procs : Msg("NOTICE", k) \in ToSet(mail[p]) =>
            k \notin chatMembers[p] /\ ~Twice(mail[p], Msg("NOTICE", k))
        BY <1>0, <1>5, <2>1 DEF News
    <2>4. /\ \A q \in Procs : q # p => chatMembers'[q] = chatMembers[q] /\ socketList'[q] = socketList[q]
          /\ chatMembers' \in [Procs -> SUBSET Procs] /\ socketList' \in [Procs -> Seq(Procs)]
          /\ Distinct(socketList'[p]) /\ ToSet(socketList'[p]) = chatMembers'[p]
          /\ m.type = "NOTICE" => chatMembers'[p] = chatMembers[p] \cup {k0}
          /\ m.type = "LEAVENOTICE" => chatMembers'[p] = chatMembers[p] \ {k0}
      <3>1. CASE m.type = "NOTICE"
        <4>1. k0 \notin ToSet(socketList[p])
            BY <1>2, <1>3, <2>2, <2>3, <3>1
        <4> DEFINE s == socketList[p]
        <4>2. s \in Seq(Procs) /\ Distinct(s) /\ k0 \notin ToSet(s)
            BY <1>0, <2>2, <4>1
        <4> HIDE DEF s
        <4>3. /\ Append(s, k0) \in Seq(Procs) /\ Distinct(Append(s, k0))
              /\ ToSet(Append(s, k0)) = ToSet(s) \cup {k0}
            BY <1>3, <4>2, AppendedList
        <4>4. /\ chatMembers' = [chatMembers EXCEPT ![p] = chatMembers[p] \cup {k0}]
              /\ socketList' = [socketList EXCEPT ![p] = Append(s, k0)]
            BY <1>1, <1>7, <3>1 DEF s
        <4>5. ToSet(s) = chatMembers[p]
            BY <2>2 DEF s
        <4>. QED  BY <1>0, <1>3, <3>1, <4>3, <4>4, <4>5
      <3>2. CASE m.type = "LEAVENOTICE"
        <4> DEFINE s == socketList[p]
        <4>1. s \in Seq(Procs) /\ Distinct(s)
            BY <1>0, <2>2
        <4>2. /\ Erase(s, k0) \in Seq(Procs) /\ Distinct(Erase(s, k0))
              /\ ToSet(Erase(s, k0)) = ToSet(s) \ {k0}
            BY <4>1, ErasedList
        <4> HIDE DEF s
        <4>4. /\ chatMembers' = [chatMembers EXCEPT ![p] = chatMembers[p] \ {k0}]
              /\ socketList' = [socketList EXCEPT ![p] = Erase(s, k0)]
            BY <1>1, <1>7, <3>2 DEF s
        <4>5. ToSet(s) = chatMembers[p]
            BY <2>2 DEF s
        <4>. QED  BY <1>0, <1>3, <3>2, <4>2, <4>4, <4>5
      <3>. QED  BY <1>1, <3>1, <3>2
    <2>5. TypeOK'
        BY <1>0, <1>1, <1>4, <2>4 DEF TypeOK
    <2>6. ASSUME NEW k \in Procs PROVE Knows(p, k)' <=> Knows(p, k)
      <3> DEFINE a == Msg("NOTICE", k)
                 b == Msg("LEAVENOTICE", k)
                 there == k \in chatMembers[p]
                 then == k \in chatMembers'[p]
      <3>1. a # b /\ there \in BOOLEAN
          BY Datagram
      <3>2. /\ Knows(p, k) <=> Kept(mail[p], there, a, b)
            /\ Knows(p, k)' <=> Kept(Tail(mail[p]), then, a, b)
          BY <1>4, <1>5, <2>1 DEF Knows
      <3>3. (m = a \/ (m # b /\ there)) = then
        <4>1. m = a <=> m.type = "NOTICE" /\ k0 = k
            BY <1>3, Datagram
        <4>2. m = b <=> m.type = "LEAVENOTICE" /\ k0 = k
            BY <1>3, Datagram
        <4>3. m.type = "NOTICE" => m.type # "LEAVENOTICE"
            OBVIOUS
        <4> HIDE DEF a, b
        <4>. QED  BY <1>1, <2>4, <4>1, <4>2, <4>3
      <3> HIDE DEF a, b, there, then
      <3>4. Kept(mail[p], there, a, b) <=>
              Kept(Tail(mail[p]), Head(mail[p]) = a \/ (Head(mail[p]) # b /\ there), a, b)
          BY <1>0, <1>1, <3>1, KeptShrinks
      <3>5. (Head(mail[p]) = a \/ (Head(mail[p]) # b /\ there)) = then
          BY <3>3 DEF m
      <3>. QED  BY <3>2, <3>4, <3>5
    <2>7. current'[Leader] >= 1
        BY <1>0, <1>1 DEF Listing
    <2>8. \A k \in Procs : k \in chatMembers'[p] =>
            k \in Table(p) \/ Msg("NOTICE", k) \in ToSet(mail[p])
        BY <1>1, <1>2, <1>3, <1>5, <2>4
    <2>9. \A k \in Procs : Msg("NOTICE", k) \in ToSet(mail'[p]) => k \notin chatMembers'[p]
      <3> SUFFICES ASSUME NEW k \in Procs, Msg("NOTICE", k) \in ToSet(mail'[p]) PROVE k \notin chatMembers'[p]
          OBVIOUS
      <3>1. k \notin chatMembers[p] /\ ~Twice(mail[p], Msg("NOTICE", k))
          BY <1>2, <1>4, <2>3
      <3>2. Head(mail[p]) # Msg("NOTICE", k)
          BY <1>0, <1>1, <1>4, <3>1, TwiceShrinks
      <3>3. m.type = "NOTICE" => k # k0
          BY <1>3, <3>2 DEF m
      <3>. QED  BY <1>1, <2>4, <3>1, <3>3
    <2>. QED  BY <1>1, <1>4, <1>5, <1>7, <2>4, <2>5, <2>6, <2>7, <2>8, <2>9, TakenStep
  <1>. QED  BY <1>6, <1>7

(* The JOIN at the head of a join port: whose it is, and what is known of it. *)
LEMMA JoinAtHead ==
  ASSUME IInv, NEW p \in Procs, Received(p, "JOIN")
  PROVE  LET j == Head(mail[p]).of
         IN  /\ j \in Joiners /\ j # p /\ Head(mail[p]) = Msg("JOIN", j)
             /\ Asking(j) /\ ~HasTable(j) /\ ~In(j) /\ stage[j] # "out" /\ ~Indirected(j)
             /\ Reachable(j) => stage[j] = "joining" /\ mail[j] = << >>
             /\ \A q \in Procs : Msg("JOIN", j) \in ToSet(mail[q]) => q = p
             /\ Msg("JOIN", j) \notin ToSet(Tail(mail[p]))
  <1> USE Processes
  <1> DEFINE m == Head(mail[p])
             j == m.of
  <1>1. /\ Newcomers /\ BoxOf(p) /\ \A q \in Procs : mail[q] \in Seq(Datagrams) /\ BoxOf(q)
        /\ In(p) /\ mail[p] # << >> /\ m.type = "JOIN"
      BY DEF IInv, TypeOK, Received
  <1>2. m \in Datagrams /\ m \in ToSet(mail[p])
      BY <1>1, BoxShrinks
  <1>3. m = Msg("JOIN", j) /\ j \in Procs
      BY <1>1, <1>2, Datagram
  <1> HIDE DEF m, j
  <1>4. j \in Joiners
      BY <1>1, <1>2, <1>3 DEF BoxOf, Procs
  <1>5. Asking(j) /\ Msg("JOIN", j) \in ToSet(mail[p])
      BY <1>2, <1>3 DEF Asking
  <1>6. ~HasTable(j) /\ ~In(j) /\ ~Answered(j) /\ stage[j] # "out" /\ ~Indirected(j)
        /\ ~Twice(mail[p], Msg("JOIN", j))
      BY <1>1, <1>4, <1>5 DEF Newcomers, HasTable
  <1>7. Reachable(j) => stage[j] = "joining" /\ mail[j] = << >>
      BY <1>1, <1>4, <1>6 DEF BoxOf, Reachable, In
  <1>8. \A q \in Procs : Msg("JOIN", j) \in ToSet(mail[q]) => q = p
      BY <1>1, <1>4, <1>5 DEF Newcomers
  <1>9. Msg("JOIN", j) \notin ToSet(Tail(mail[p]))
      BY <1>1, <1>3, <1>6, TwiceShrinks DEF m
  <1>. QED  BY <1>1, <1>3, <1>4, <1>5, <1>6, <1>7, <1>8, <1>9 DEF m, j

(* What p has of the others is not changed by the JOIN it takes out. *)
LEMMA JoinTaken ==
  ASSUME NEW p, NEW k, mail[p] \in Seq(Datagrams), mail[p] # << >>, NEW j,
         Head(mail[p]) = Msg("JOIN", j), NEW there \in BOOLEAN
  PROVE  Kept(mail[p], there, Msg("NOTICE", k), Msg("LEAVENOTICE", k))
           <=> Kept(Tail(mail[p]), there, Msg("NOTICE", k), Msg("LEAVENOTICE", k))
  <1> DEFINE a == Msg("NOTICE", k)
             b == Msg("LEAVENOTICE", k)
             s == mail[p]
  <1>1. a # b /\ Head(s) # a /\ Head(s) # b /\ s \in Seq(Datagrams) /\ s # << >>
      BY Datagram
  <1> HIDE DEF a, b, s
  <1>2. Kept(s, there, a, b) <=> Kept(Tail(s), Head(s) = a \/ (Head(s) # b /\ there), a, b)
      BY <1>1, KeptShrinks
  <1>3. (Head(s) = a \/ (Head(s) # b /\ there)) = there
      BY <1>1
  <1>4. Kept(s, there, a, b) <=> Kept(Tail(s), there, a, b)
      BY <1>2, <1>3
  <1>. QED  BY <1>4 DEF a, b, s

LEMMA RedirectStep ==
  ASSUME IInv, NEW p \in Procs, Redirect(p)
  PROVE  IInv'
  <1> USE Processes
  <1> DEFINE i == [type |-> "INDIRECT", ld |-> Leader]
             rest == Rest(p)
  <1>0. /\ TypeOK /\ Listing /\ Newcomers /\ News /\ Shared /\ TablesAgree
        /\ \A q \in Procs : BoxOf(q) /\ mail[q] \in Seq(Datagrams)
        /\ mail \in [Procs -> Seq(Datagrams)]
      BY DEF IInv, TypeOK
  <1>1. /\ p # Leader /\ Received(p, "JOIN") /\ In(p) /\ mail[p] # << >>
        /\ mail' = Sent(rest, Head(mail[p]).of, i)
        /\ UNCHANGED <<stage, chatMembers, socketList, checklist, admitting, sendPc, it, current>>
      BY DEF Redirect, Received, views, sending
  <1>2. PICK j \in Joiners :
        /\ j = Head(mail[p]).of /\ j # p /\ Head(mail[p]) = Msg("JOIN", j)
        /\ Asking(j) /\ ~HasTable(j) /\ ~In(j) /\ stage[j] # "out" /\ ~Indirected(j)
        /\ Reachable(j) => stage[j] = "joining" /\ mail[j] = << >>
        /\ \A q \in Procs : Msg("JOIN", j) \in ToSet(mail[q]) => q = p
        /\ Msg("JOIN", j) \notin ToSet(Tail(mail[p]))
      BY <1>1, JoinAtHead
  <1>3. Tail(mail[p]) \in Seq(Datagrams) /\ ToSet(Tail(mail[p])) \subseteq ToSet(mail[p])
        /\ \A x : ~Twice(mail[p], x) => ~Twice(Tail(mail[p]), x)
      BY <1>0, <1>1, BoxShrinks, TwiceShrinks
  <1>4. rest \in [Procs -> Seq(Datagrams)] /\ rest[p] = Tail(mail[p])
        /\ \A q \in Procs : q # p => rest[q] = mail[q]
      BY <1>0, <1>3 DEF Rest
  <1>5. i \in Datagrams
      BY Indirect
  <1> HIDE DEF i, rest
  <1>6. /\ mail' \in [Procs -> Seq(Datagrams)]
        /\ \A q \in Procs : mail'[q] = IF q = j /\ Reachable(j) THEN Append(rest[q], i) ELSE rest[q]
    <2>1. mail' = Sent(rest, j, i) /\ j \in Procs
        BY <1>1, <1>2
    <2>2. /\ Sent(rest, j, i) \in [Procs -> Seq(Datagrams)]
          /\ \A q \in Procs : Sent(rest, j, i)[q] = IF q = j /\ Reachable(j) THEN Append(rest[q], i)
                                                  ELSE rest[q]
        BY <1>4, <1>5, <2>1, SentAt
    <2>. QED  BY <2>1, <2>2
  <1>7. TypeOK'
      BY <1>0, <1>1, <1>6 DEF TypeOK
  <1>8. ASSUME NEW q \in Procs, q # p, q # j \/ ~Reachable(j)
        PROVE  /\ mail'[q] = mail[q]
               /\ In(q)' <=> In(q)
               /\ Answered(q)' <=> Answered(q)
               /\ HasTable(q)' <=> HasTable(q)
               /\ Table(q)' = Table(q)
               /\ Indirected(q)' <=> Indirected(q)
               /\ \A k : Knows(q, k)' <=> Knows(q, k)
               /\ BoxOf(q)'
    <2>1. stage'[q] = stage[q] /\ mail'[q] = mail[q] /\ chatMembers'[q] = chatMembers[q]
        BY <1>1, <1>4, <1>6, <1>8
    <2>. QED  BY <1>0, <2>1, SameAt
  <1>9. /\ mail'[p] = Tail(mail[p])
        /\ In(p)' /\ HasTable(p) /\ HasTable(p)' /\ Table(p)' = Table(p)
        /\ ~Indirected(p)' /\ BoxOf(p)' /\ ~Answered(p) /\ ~Answered(p)'
        /\ \A k : Knows(p, k)' <=> Knows(p, k)
    <2>1. mail'[p] = Tail(mail[p]) /\ stage'[p] = stage[p] /\ chatMembers'[p] = chatMembers[p]
        BY <1>1, <1>2, <1>4, <1>6
    <2>2. /\ In(p)' /\ HasTable(p) /\ HasTable(p)'
          /\ Table(p) = chatMembers[p] /\ Table(p)' = chatMembers'[p]
          /\ ~Indirected(p)' /\ BoxOf(p)'
        BY <1>0, <1>1, <2>1, ShrunkAt
    <2>3. ASSUME NEW k PROVE Knows(p, k)' <=> Knows(p, k)
      <3> DEFINE there == k \in chatMembers[p]
      <3>1. there \in BOOLEAN
          OBVIOUS
      <3>2. /\ Knows(p, k) <=> Kept(mail[p], there, Msg("NOTICE", k), Msg("LEAVENOTICE", k))
            /\ Knows(p, k)' <=> Kept(Tail(mail[p]), there, Msg("NOTICE", k), Msg("LEAVENOTICE", k))
          BY <2>1, <2>2 DEF Knows
      <3> HIDE DEF there
      <3>. QED  BY <1>0, <1>1, <1>2, <3>1, <3>2, JoinTaken
    <2>. QED  BY <1>1, <2>1, <2>2, <2>3 DEF Answered, In
  <1>10. ASSUME Reachable(j)
         PROVE  /\ stage[j] = "joining" /\ mail'[j] = <<i>> /\ ~HasTable(j)' /\ ~In(j)' /\ BoxOf(j)'
                /\ \A t, k : Msg(t, k) \in ToSet(mail'[j]) => t = "INDIRECT"
                /\ \A x : ~Twice(mail'[j], x)
    <2>1. stage[j] = "joining" /\ stage'[j] = "joining" /\ mail'[j] = <<i>>
      <3>1. rest[j] = << >> /\ stage[j] = "joining"
          BY <1>2, <1>4, <1>10
      <3>2. mail'[j] = Append(rest[j], i) /\ j \in Procs
          BY <1>6, <1>10
      <3>3. Append(<< >>, i) = <<i>>
          OBVIOUS
      <3>. QED  BY <1>1, <3>1, <3>2, <3>3
    <2>2. ToSet(mail'[j]) = {i} /\ mail'[j] # << >> /\ Head(mail'[j]) = i /\ \A x : ~Twice(mail'[j], x)
        BY <2>1, OneIn
    <2>3. \A t, k : Msg(t, k) = i => t = "INDIRECT"
        BY Indirect DEF i
    <2>4. i.type = "INDIRECT"
        BY Indirect DEF i
    <2>5. Indirected(j)'
        BY <2>1 DEF Indirected, i
    <2>6. ~HasTable(j)' /\ ~In(j)'
        BY <2>1, <2>2, <2>4 DEF HasTable, Answered, In
    <2>7. Msg("JOIN", Leader) # i /\ Msg("LEAVE", Leader) # i
        BY <2>3
    <2>8. BoxOf(j)'
        BY <1>2, <2>1, <2>2, <2>5, <2>6, <2>7 DEF BoxOf, Reachable
    <2>. QED  BY <2>1, <2>2, <2>3, <2>6, <2>8
  <1>11. /\ \A q \in Procs : In(q)' => In(q)
         /\ \A q \in Procs : HasTable(q)' => HasTable(q) /\ Table(q)' = Table(q)
                                             /\ \A k : Knows(q, k)' <=> Knows(q, k)
         /\ \A q \in Procs : \A t \in {"JOIN", "LEAVE", "NOTICE", "LEAVENOTICE"} : \A k :
              Msg(t, k) \in ToSet(mail'[q]) => Msg(t, k) \in ToSet(mail[q])
         /\ \A q \in Procs : \A x : ~Twice(mail[q], x) => ~Twice(mail'[q], x)
         /\ \A q \in Procs : BoxOf(q)'
         /\ \A q \in Procs : Answered(q) => Answered(q)'
         /\ \A q \in Procs : q # j => (Indirected(q)' => Indirected(q))
         /\ In(Leader)' <=> In(Leader)
         /\ Msg("JOIN", j) \notin ToSet(mail'[p])
      BY <1>1, <1>2, <1>3, <1>8, <1>9, <1>10 DEF HasTable
  <1>12. Listing'
      BY <1>0, <1>1 DEF Listing
  <1>13. Newcomers'
    <2> SUFFICES ASSUME NEW k \in Joiners
                 PROVE
        /\ (stage[k] = "out" \/ Indirected(k) => \A q \in Procs : Msg("JOIN", k) \notin ToSet(mail[q]))'
        /\ (\A q \in Procs :
              /\ ~Twice(mail[q], Msg("JOIN", k))
              /\ \A r \in Procs : Msg("JOIN", k) \in ToSet(mail[q]) \cap ToSet(mail[r]) => q = r)'
        /\ (Asking(k) =>
              /\ k \notin chatMembers[Leader] \cup checklist /\ ~HasTable(k)
              /\ {Msg("LEAVE", k), Msg("LEAVENOTICE", k)} \cap ToSet(mail[Leader]) = {})'
        /\ (Asking(k) \/ k \in admitting =>
              \A q \in Joiners \ {k} : /\ HasTable(q) => k \notin Table(q)
                                       /\ Msg("NOTICE", k) \notin ToSet(mail[q]))'
        /\ (stage[k] = "joining" /\ k \in chatMembers[Leader] => Answered(k))'
        BY DEF Newcomers
    <2>1. Asking(k)' => Asking(k)
        BY <1>1, <1>2, <1>11 DEF Asking
    <2>2. (stage[k] = "out" \/ Indirected(k) => \A q \in Procs : Msg("JOIN", k) \notin ToSet(mail[q]))'
      <3>1. CASE k = j
          BY <1>2, <1>11, <3>1
      <3>2. CASE k # j
          BY <1>0, <1>1, <1>11, <3>2 DEF Newcomers
      <3>. QED  BY <3>1, <3>2
    <2>3. \A q \in Procs :
            /\ ~Twice(mail'[q], Msg("JOIN", k))
            /\ \A r \in Procs : Msg("JOIN", k) \in ToSet(mail'[q]) \cap ToSet(mail'[r]) => q = r
        BY <1>0, <1>11 DEF Newcomers
    <2>4. (Asking(k) =>
              /\ k \notin chatMembers[Leader] \cup checklist /\ ~HasTable(k)
              /\ {Msg("LEAVE", k), Msg("LEAVENOTICE", k)} \cap ToSet(mail[Leader]) = {})'
        BY <1>0, <1>1, <1>11, <2>1 DEF Newcomers
    <2>5. (Asking(k) \/ k \in admitting =>
              \A q \in Joiners \ {k} : /\ HasTable(q) => k \notin Table(q)
                                       /\ Msg("NOTICE", k) \notin ToSet(mail[q]))'
        BY <1>0, <1>1, <1>11, <2>1 DEF Newcomers
    <2>6. (stage[k] = "joining" /\ k \in chatMembers[Leader] => Answered(k))'
        BY <1>0, <1>1, <1>11 DEF Newcomers
    <2>. QED  BY <2>2, <2>3, <2>4, <2>5, <2>6
  <1>14. News'
      BY <1>0, <1>11 DEF News
  <1>15. Shared'
      BY <1>0, <1>1, <1>8, <1>11, <1>2 DEF Shared
  <1>16. TablesAgree'
      BY <1>0, <1>1, <1>11 DEF TablesAgree
  <1>. QED  BY <1>7, <1>11, <1>12, <1>13, <1>14, <1>15, <1>16 DEF IInv

LEMMA AnswerStep ==
  ASSUME IInv, AnswerJoin
  PROVE  IInv'
  <1> USE Processes
  <1> DEFINE rest == Rest(Leader)
             cm == chatMembers'[Leader]
             r == [type |-> "REPLY", seq |-> current[Leader], list |-> UserList(cm)]
  <1>0. /\ TypeOK /\ Listing /\ Newcomers /\ News /\ Shared /\ TablesAgree
        /\ \A q \in Procs : BoxOf(q) /\ mail[q] \in Seq(Datagrams)
        /\ mail \in [Procs -> Seq(Datagrams)] /\ chatMembers \in [Procs -> SUBSET Procs]
        /\ current[Leader] \in Nat /\ current[Leader] >= 1
      BY DEF IInv, TypeOK, Listing
  <1>1. /\ Received(Leader, "JOIN") /\ In(Leader) /\ mail[Leader] # << >> /\ admitting = {}
        /\ chatMembers' = [chatMembers EXCEPT ![Leader] = @ \cup {Head(mail[Leader]).of}]
        /\ mail' = Sent(rest, Head(mail[Leader]).of, r)
        /\ admitting' = {Head(mail[Leader]).of}
        /\ UNCHANGED <<stage, socketList, checklist, sendPc, it, current>>
      BY DEF AnswerJoin, Received, sending
  <1>2. PICK j \in Joiners :
        /\ j = Head(mail[Leader]).of /\ j # Leader /\ Head(mail[Leader]) = Msg("JOIN", j)
        /\ Asking(j) /\ ~HasTable(j) /\ ~In(j) /\ stage[j] # "out" /\ ~Indirected(j)
        /\ Reachable(j) => stage[j] = "joining" /\ mail[j] = << >>
        /\ \A q \in Procs : Msg("JOIN", j) \in ToSet(mail[q]) => q = Leader
        /\ Msg("JOIN", j) \notin ToSet(Tail(mail[Leader]))
      BY <1>1, JoinAtHead
  <1>3. /\ Tail(mail[Leader]) \in Seq(Datagrams)
        /\ ToSet(Tail(mail[Leader])) \subseteq ToSet(mail[Leader])
        /\ \A x : ~Twice(mail[Leader], x) => ~Twice(Tail(mail[Leader]), x)
      BY <1>0, <1>1, BoxShrinks, TwiceShrinks
  <1>4. rest \in [Procs -> Seq(Datagrams)] /\ rest[Leader] = Tail(mail[Leader])
        /\ \A q \in Procs : q # Leader => rest[q] = mail[q]
      BY <1>0, <1>3 DEF Rest
  <1>5. /\ chatMembers' \in [Procs -> SUBSET Procs]
        /\ cm = chatMembers[Leader] \cup {j} /\ cm \subseteq Procs /\ IsFiniteSet(cm)
        /\ \A q \in Procs : q # Leader => chatMembers'[q] = chatMembers[q]
    <2>1. /\ chatMembers' \in [Procs -> SUBSET Procs]
          /\ cm = chatMembers[Leader] \cup {j} /\ cm \subseteq Procs
          /\ \A q \in Procs : q # Leader => chatMembers'[q] = chatMembers[q]
        BY <1>0, <1>1, <1>2
    <2>2. IsFiniteSet(chatMembers[Leader] \cup {j})
        BY <1>0, FS_AddElement DEF Listing
    <2>. QED  BY <2>1, <2>2
  <1>6. /\ r \in Replies /\ r \in Datagrams /\ r.type = "REPLY" /\ r.seq >= 1 /\ Distinct(r.list)
        /\ ToSet(r.list) = cm /\ \A t, k : Msg(t, k) = r => t = "REPLY"
    <2> HIDE DEF cm
    <2>1. UserList(cm) \in Seq(cm) /\ Distinct(UserList(cm)) /\ ToSet(UserList(cm)) = cm
        BY <1>5, UserListOf
    <2>2. UserList(cm) \in Seq(Procs)
        BY <1>5, <2>1
    <2>3. r \in Replies
        BY <1>0, <2>2 DEF Replies
    <2>4. r.type = "REPLY" /\ r.seq = current[Leader] /\ r.list = UserList(cm)
        OBVIOUS
    <2>5. \A t, k : Msg(t, k).type = t
        BY Datagram
    <2> HIDE DEF r
    <2>. QED  BY <1>0, <2>1, <2>3, <2>4, <2>5, Datagram
  <1> HIDE DEF r, rest, cm
  <1>7. /\ mail' \in [Procs -> Seq(Datagrams)]
        /\ \A q \in Procs : mail'[q] = IF q = j /\ Reachable(j) THEN Append(rest[q], r) ELSE rest[q]
    <2>1. mail' = Sent(rest, j, r) /\ j \in Procs
        BY <1>1, <1>2
    <2>2. /\ Sent(rest, j, r) \in [Procs -> Seq(Datagrams)]
          /\ \A q \in Procs : Sent(rest, j, r)[q] = IF q = j /\ Reachable(j) THEN Append(rest[q], r)
                                                  ELSE rest[q]
        BY <1>4, <1>6, <2>1, SentAt
    <2>. QED  BY <2>1, <2>2
  <1>8. TypeOK'
      BY <1>0, <1>1, <1>2, <1>5, <1>7, SMTT(30) DEF TypeOK
  <1>9. ASSUME NEW q \in Procs, q # Leader, q # j \/ ~Reachable(j)
        PROVE  /\ mail'[q] = mail[q]
               /\ In(q)' <=> In(q)
               /\ Answered(q)' <=> Answered(q)
               /\ HasTable(q)' <=> HasTable(q)
               /\ Table(q)' = Table(q)
               /\ Indirected(q)' <=> Indirected(q)
               /\ \A k : Knows(q, k)' <=> Knows(q, k)
               /\ BoxOf(q)'
    <2>1. stage'[q] = stage[q] /\ mail'[q] = mail[q] /\ chatMembers'[q] = chatMembers[q]
        BY <1>1, <1>4, <1>5, <1>7, <1>9
    <2>. QED  BY <1>0, <2>1, SameAt
  <1>10. /\ mail'[Leader] = Tail(mail[Leader]) /\ stage'[Leader] = stage[Leader]
         /\ In(Leader)' /\ ~Indirected(Leader)' /\ BoxOf(Leader)'
         /\ \A k \in Procs : Knows(Leader, k)' <=> k \in cm
    <2>1. mail'[Leader] = Tail(mail[Leader]) /\ stage'[Leader] = stage[Leader]
        BY <1>1, <1>2, <1>4, <1>7
    <2>2. /\ In(Leader)' /\ Table(Leader) = chatMembers[Leader] /\ Table(Leader)' = chatMembers'[Leader]
          /\ ~Indirected(Leader)' /\ BoxOf(Leader)'
        BY <1>0, <1>1, <2>1, ShrunkAt
    <2>3. ASSUME NEW k \in Procs PROVE Knows(Leader, k)' <=> k \in cm
      <3> DEFINE a == Msg("NOTICE", k)
                 b == Msg("LEAVENOTICE", k)
                 there == k \in chatMembers[Leader]
      <3>1. there \in BOOLEAN
          OBVIOUS
      <3>2. /\ Knows(Leader, k) <=> Kept(mail[Leader], there, a, b)
            /\ Knows(Leader, k)' <=> Kept(Tail(mail[Leader]), k \in cm, a, b)
          BY <2>1, <2>2 DEF Knows, cm
      <3>3. Knows(Leader, k) <=> there
          BY <1>0, <1>1 DEF Shared
      <3>4. Kept(mail[Leader], there, a, b) <=> Kept(Tail(mail[Leader]), there, a, b)
        <4> HIDE DEF there
        <4>. QED  BY <1>0, <1>1, <1>2, <3>1, JoinTaken
      <3>5. CASE k # j
        <4>1. (k \in cm) = there
            BY <1>5, <3>5
        <4> HIDE DEF there, a, b
        <4>. QED  BY <3>2, <3>3, <3>4, <4>1
      <3>6. CASE k = j
        <4>1. b \notin ToSet(Tail(mail[Leader]))
            BY <1>0, <1>2, <1>3, <3>6 DEF Newcomers
        <4>2. k \in cm
            BY <1>5, <3>6
        <4>. QED  BY <3>2, <4>1, <4>2 DEF Kept
      <3>. QED  BY <3>5, <3>6
    <2>. QED  BY <2>1, <2>2, <2>3
  <1>11. ASSUME Reachable(j)
         PROVE  /\ mail'[j] = <<r>> /\ HasTable(j)' /\ ~In(j)' /\ BoxOf(j)' /\ Answered(j)'
                /\ Table(j)' = cm /\ ~Indirected(j)'
                /\ \A t, k : Msg(t, k) \in ToSet(mail'[j]) => t = "REPLY"
                /\ \A x : ~Twice(mail'[j], x)
                /\ \A k : Knows(j, k)' <=> k \in cm
    <2>1. stage'[j] = "joining" /\ mail'[j] = <<r>>
      <3>1. rest[j] = << >> /\ stage[j] = "joining"
          BY <1>2, <1>4, <1>11
      <3>2. mail'[j] = Append(rest[j], r) /\ j \in Procs
          BY <1>7, <1>11
      <3>3. Append(<< >>, r) = <<r>>
          OBVIOUS
      <3>. QED  BY <1>1, <3>1, <3>2, <3>3
    <2>2. ToSet(mail'[j]) = {r} /\ mail'[j] # << >> /\ Head(mail'[j]) = r /\ \A x : ~Twice(mail'[j], x)
          /\ Tail(mail'[j]) = << >> /\ ToSet(Tail(mail'[j])) = {}
        BY <2>1, OneIn
    <2>3. ~In(j)' /\ Answered(j)' /\ HasTable(j)' /\ Table(j)' = cm
        BY <1>6, <2>1, <2>2 DEF Answered, HasTable, In, Table
    <2>4. ~Indirected(j)'
        BY <1>6, <2>2, NotOnlyNotices DEF Indirected
    <2>5. Msg("JOIN", Leader) # r /\ Msg("LEAVE", Leader) # r
        BY <1>6
    <2>6. BoxOf(j)'
        BY <1>2, <1>6, <2>1, <2>2, <2>3, <2>5 DEF BoxOf, Reachable
    <2>7. ASSUME NEW k PROVE Knows(j, k)' <=> k \in cm
      <3>1. Msg("NOTICE", k) # r /\ Msg("LEAVENOTICE", k) # r
          BY <1>6
      <3>2. Msg("NOTICE", k) \notin ToSet(mail'[j]) /\ Msg("LEAVENOTICE", k) \notin ToSet(mail'[j])
          BY <2>2, <3>1
      <3>3. Knows(j, k)' <=> Kept(<<r>>, k \in cm, Msg("NOTICE", k), Msg("LEAVENOTICE", k))
          BY <2>1, <2>3 DEF Knows
      <3> DEFINE there == k \in cm
      <3>4. there \in BOOLEAN /\ <<r>> \in Seq(Datagrams)
          BY <1>6
      <3> HIDE DEF there
      <3>5. Kept(<<r>>, there, Msg("NOTICE", k), Msg("LEAVENOTICE", k)) <=> there
          BY <2>1, <3>2, <3>4, KeptNone
      <3>. QED  BY <3>3, <3>5 DEF there
    <2>. QED  BY <1>6, <2>1, <2>2, <2>3, <2>4, <2>6, <2>7
  <1>12. /\ \A q \in Procs : In(q)' <=> In(q)
         /\ \A q \in Joiners : HasTable(q)' /\ q # j => HasTable(q) /\ Table(q)' = Table(q)
                                                       /\ \A k : Knows(q, k)' <=> Knows(q, k)
         /\ HasTable(j)' => Reachable(j)
         /\ \A q \in Procs : \A t \in {"JOIN", "LEAVE", "NOTICE", "LEAVENOTICE"} : \A k :
              Msg(t, k) \in ToSet(mail'[q]) => Msg(t, k) \in ToSet(mail[q])
         /\ \A q \in Procs : \A x : ~Twice(mail[q], x) => ~Twice(mail'[q], x)
         /\ \A q \in Procs : BoxOf(q)'
         /\ \A q \in Procs : q # Leader /\ Answered(q) => Answered(q)'
         /\ \A q \in Procs : Indirected(q)' => Indirected(q) /\ q # j
         /\ Msg("JOIN", j) \notin ToSet(mail'[Leader])
    <2>1. ASSUME NEW q \in Procs PROVE In(q)' <=> In(q)
      <3>1. CASE q = Leader
          BY <1>1, <1>2, <1>10, <3>1
      <3>2. CASE q = j /\ Reachable(j)
          BY <1>2, <1>11, <3>2
      <3>3. CASE q # Leader /\ (q # j \/ ~Reachable(j))
          BY <1>9, <3>3
      <3>. QED  BY <3>1, <3>2, <3>3
    <2>2. \A q \in Joiners : HasTable(q)' /\ q # j => HasTable(q) /\ Table(q)' = Table(q)
                                                      /\ \A k : Knows(q, k)' <=> Knows(q, k)
        BY <1>2, <1>9
    <2>3. HasTable(j)' => Reachable(j)
        BY <1>1, <1>2, <1>9
    <2>4. \A q \in Procs : \A t \in {"JOIN", "LEAVE", "NOTICE", "LEAVENOTICE"} : \A k :
            Msg(t, k) \in ToSet(mail'[q]) => Msg(t, k) \in ToSet(mail[q])
        BY <1>2, <1>3, <1>9, <1>10, <1>11
    <2>5. \A q \in Procs : \A x : ~Twice(mail[q], x) => ~Twice(mail'[q], x)
        BY <1>2, <1>3, <1>9, <1>10, <1>11
    <2>6. \A q \in Procs : BoxOf(q)'
        BY <1>2, <1>9, <1>10, <1>11
    <2>7. \A q \in Procs : q # Leader /\ Answered(q) => Answered(q)'
        BY <1>2, <1>9, <1>11
    <2>8. \A q \in Procs : Indirected(q)' => Indirected(q) /\ q # j
        BY <1>1, <1>2, <1>9, <1>10, <1>11
    <2>9. Msg("JOIN", j) \notin ToSet(mail'[Leader])
        BY <1>1, <1>2, <1>3, <1>10
    <2>. QED  BY <2>1, <2>2, <2>3, <2>4, <2>5, <2>6, <2>7, <2>8, <2>9
  <1>13. j \notin chatMembers[Leader] /\ \A q \in Joiners : HasTable(q) => j \notin Table(q)
    <2>1. j \notin chatMembers[Leader] /\ \A q \in Joiners \ {j} : HasTable(q) => j \notin Table(q)
        BY <1>0, <1>2 DEF Newcomers
    <2>. QED  BY <1>2, <2>1
  <1>14. Listing'
      BY <1>0, <1>1, <1>2, <1>5 DEF Listing, cm
  <1>15. Newcomers'
    <2> SUFFICES ASSUME NEW k \in Joiners
                 PROVE
        /\ (stage[k] = "out" \/ Indirected(k) => \A q \in Procs : Msg("JOIN", k) \notin ToSet(mail[q]))'
        /\ (\A q \in Procs :
              /\ ~Twice(mail[q], Msg("JOIN", k))
              /\ \A p \in Procs : Msg("JOIN", k) \in ToSet(mail[q]) \cap ToSet(mail[p]) => q = p)'
        /\ (Asking(k) =>
              /\ k \notin chatMembers[Leader] \cup checklist /\ ~HasTable(k)
              /\ {Msg("LEAVE", k), Msg("LEAVENOTICE", k)} \cap ToSet(mail[Leader]) = {})'
        /\ (Asking(k) \/ k \in admitting =>
              \A q \in Joiners \ {k} : /\ HasTable(q) => k \notin Table(q)
                                       /\ Msg("NOTICE", k) \notin ToSet(mail[q]))'
        /\ (stage[k] = "joining" /\ k \in chatMembers[Leader] => Answered(k))'
        BY DEF Newcomers
    <2>1. Asking(k)' => Asking(k) /\ k # j
      <3>1. \A q \in Procs : Msg("JOIN", j) \notin ToSet(mail'[q])
          BY <1>2, <1>12
      <3>. QED  BY <1>1, <1>2, <1>12, <3>1 DEF Asking
    <2>2. (stage[k] = "out" \/ Indirected(k) => \A q \in Procs : Msg("JOIN", k) \notin ToSet(mail[q]))'
        BY <1>0, <1>1, <1>12 DEF Newcomers
    <2>3. \A q \in Procs :
            /\ ~Twice(mail'[q], Msg("JOIN", k))
            /\ \A p \in Procs : Msg("JOIN", k) \in ToSet(mail'[q]) \cap ToSet(mail'[p]) => q = p
        BY <1>0, <1>12 DEF Newcomers
    <2>4. (Asking(k) =>
              /\ k \notin chatMembers[Leader] \cup checklist /\ ~HasTable(k)
              /\ {Msg("LEAVE", k), Msg("LEAVENOTICE", k)} \cap ToSet(mail[Leader]) = {})'
      <3> SUFFICES ASSUME Asking(k)'
                   PROVE  /\ k \notin cm \cup checklist /\ ~HasTable(k)'
                          /\ {Msg("LEAVE", k), Msg("LEAVENOTICE", k)} \cap ToSet(mail'[Leader]) = {}
          BY <1>1 DEF cm
      <3>1. /\ k # j /\ k \notin chatMembers[Leader] \cup checklist /\ ~HasTable(k)
            /\ {Msg("LEAVE", k), Msg("LEAVENOTICE", k)} \cap ToSet(mail[Leader]) = {}
          BY <1>0, <2>1 DEF Newcomers
      <3>. QED  BY <1>5, <1>12, <3>1
    <2>5. (Asking(k) \/ k \in admitting =>
              \A q \in Joiners \ {k} : /\ HasTable(q) => k \notin Table(q)
                                       /\ Msg("NOTICE", k) \notin ToSet(mail[q]))'
      <3> SUFFICES ASSUME Asking(k)' \/ k \in admitting', NEW q \in Joiners \ {k}
                   PROVE  /\ HasTable(q)' => k \notin Table(q)'
                          /\ Msg("NOTICE", k) \notin ToSet(mail'[q])
          OBVIOUS
      <3>1. Asking(k)
          BY <1>1, <1>2, <2>1
      <3>2. /\ HasTable(q) => k \notin Table(q)
            /\ Msg("NOTICE", k) \notin ToSet(mail[q])
            /\ k \notin chatMembers[Leader]
          BY <1>0, <3>1 DEF Newcomers
      <3>. QED  BY <1>5, <1>11, <1>12, <3>2
    <2>6. (stage[k] = "joining" /\ k \in chatMembers[Leader] => Answered(k))'
      <3> SUFFICES ASSUME stage[k] = "joining", k \in cm PROVE Answered(k)'
          BY <1>1 DEF cm
      <3>1. CASE k = j
          BY <1>11, <3>1 DEF Reachable
      <3>2. CASE k # j
          BY <1>0, <1>5, <1>12, <3>2 DEF Newcomers
      <3>. QED  BY <3>1, <3>2
    <2>. QED  BY <2>2, <2>3, <2>4, <2>5, <2>6
  <1>16. News'
    <2>1. ASSUME NEW q \in Joiners, HasTable(q)', NEW k \in Procs, Msg("NOTICE", k) \in ToSet(mail'[q])
          PROVE  k \notin Table(q)' /\ ~Twice(mail'[q], Msg("NOTICE", k))
      <3>1. q # j
          BY <1>11, <1>12, <2>1
      <3>2. /\ HasTable(q) /\ Table(q)' = Table(q) /\ Msg("NOTICE", k) \in ToSet(mail[q])
          BY <1>12, <2>1, <3>1
      <3>. QED  BY <1>0, <1>12, <3>2 DEF News
    <2>. QED  BY <2>1 DEF News
  <1>17. Shared'
    <2> SUFFICES ASSUME NEW k \in Procs
                 PROVE  /\ Knows(Leader, k)' <=> k \in cm
                        /\ \A q \in Joiners : HasTable(q)' /\ q \in ToSet(socketList[Leader]) \cup {j} =>
                             (Knows(q, k)' <=> k \in cm /\ (k = j => q = k))
        BY <1>1, <1>2 DEF Shared, cm
    <2>1. ASSUME NEW q \in Joiners, HasTable(q)', q \in ToSet(socketList[Leader]) \cup {j}
          PROVE  Knows(q, k)' <=> k \in cm /\ (k = j => q = k)
      <3>1. CASE q = j
          BY <1>11, <1>12, <2>1, <3>1
      <3>2. CASE q # j
        <4>1. HasTable(q) /\ (Knows(q, k)' <=> Knows(q, k)) /\ q \in ToSet(socketList[Leader])
            BY <1>12, <2>1, <3>2
        <4>2. Knows(q, k) <=> k \in chatMembers[Leader]
            BY <1>0, <1>1, <4>1 DEF Shared
        <4>. QED  BY <1>5, <1>13, <3>2, <4>1, <4>2
      <3>. QED  BY <3>1, <3>2
    <2>. QED  BY <1>10, <2>1
  <1>18. TablesAgree'
    <2> SUFFICES ASSUME NEW q \in Procs, In(q)
                 PROVE  /\ \A i, k \in 1 .. Len(socketList[q]) : socketList[q][i] = socketList[q][k] => i = k
                        /\ ToSet(socketList[q]) = chatMembers'[q] \ (IF q = Leader THEN {j} ELSE {})
        BY <1>1, <1>2, <1>12 DEF TablesAgree
    <2>1. /\ \A i, k \in 1 .. Len(socketList[q]) : socketList[q][i] = socketList[q][k] => i = k
          /\ ToSet(socketList[q]) = chatMembers[q] \ {}
        BY <1>0, <1>1 DEF TablesAgree
    <2>. QED  BY <1>5, <1>13, <2>1 DEF cm
  <1>. QED  BY <1>8, <1>12, <1>14, <1>15, <1>16, <1>17, <1>18 DEF IInv

(* Whoever is listed and can be reached has a table, or is about to. *)
LEMMA ListedHave ==
  ASSUME IInv, In(Leader)
  PROVE  /\ socketList[Leader] \in Seq(Procs) /\ Distinct(socketList[Leader])
         /\ ToSet(socketList[Leader]) = chatMembers[Leader] \ admitting
         /\ Leader \in ToSet(socketList[Leader])
         /\ \A p \in ToSet(socketList[Leader]) : p \in Procs /\ (Reachable(p) => HasTable(p))
  <1> USE Processes
  <1>0. /\ TypeOK /\ Listing /\ Newcomers /\ TablesAgree
        /\ socketList[Leader] \in Seq(Procs) /\ chatMembers[Leader] \subseteq Procs
        /\ admitting \subseteq Joiners
      BY DEF IInv, TypeOK
  <1>1. /\ Distinct(socketList[Leader])
        /\ ToSet(socketList[Leader]) = chatMembers[Leader] \ admitting
      BY <1>0 DEF TablesAgree, Distinct
  <1>2. Leader \in ToSet(socketList[Leader])
      BY <1>0, <1>1 DEF Listing
  <1>3. ASSUME NEW p \in ToSet(socketList[Leader])
        PROVE  p \in Procs /\ (Reachable(p) => HasTable(p))
    <2>1. p \in Procs /\ p \in chatMembers[Leader]
        BY <1>0, <1>1
    <2>2. CASE p = Leader
        BY <2>1, <2>2 DEF HasTable
    <2>3. CASE p # Leader
      <3>1. p \in Joiners
          BY <2>1, <2>3 DEF Procs
      <3>. QED  BY <1>0, <2>1, <3>1 DEF Newcomers, HasTable, Reachable, In
    <2>. QED  BY <2>2, <2>3
  <1>. QED  BY <1>0, <1>1, <1>2, <1>3

LEMMA AdmitStep ==
  ASSUME IInv, NEW j \in Joiners, Admit(j)
  PROVE  IInv'
  <1> USE Processes
  <1> DEFINE m == Msg("NOTICE", j)
             list == socketList[Leader]
  <1>0. /\ TypeOK /\ Listing /\ Newcomers /\ News /\ Shared /\ TablesAgree
        /\ \A q \in Procs : BoxOf(q) /\ mail[q] \in Seq(Datagrams)
        /\ mail \in [Procs -> Seq(Datagrams)] /\ socketList \in [Procs -> Seq(Procs)]
      BY DEF IInv, TypeOK
  <1>1. /\ In(Leader) /\ j \in admitting /\ j \in chatMembers[Leader]
        /\ mail' = ToList(mail, list, m)
        /\ socketList' = [socketList EXCEPT ![Leader] = Append(list, j)]
        /\ admitting' = {} /\ admitting = {j}
        /\ UNCHANGED <<stage, chatMembers, checklist, sendPc, it, current>>
      BY <1>0 DEF Admit, sending, Listing
  <1>2. /\ list \in Seq(Procs) /\ Distinct(list) /\ ToSet(list) = chatMembers[Leader] \ {j}
        /\ Leader \in ToSet(list)
        /\ \A p \in ToSet(list) : p \in Procs /\ (Reachable(p) => HasTable(p))
      BY <1>1, ListedHave
  <1>3. /\ m \in Notices /\ m \in Datagrams /\ m \notin {Msg("JOIN", Leader), Msg("LEAVE", Leader)}
        /\ \A k : (m = Msg("NOTICE", k) <=> k = j) /\ m # Msg("LEAVENOTICE", k)
        /\ \A t, k : Msg(t, k) = m => t = "NOTICE" /\ k = j
      BY Datagram
  <1> HIDE DEF m, list
  <1>4. \A q \in Procs :
          mail'[q] = IF Reachable(q) /\ q \in ToSet(list) THEN Append(mail[q], m) ELSE mail[q]
    <2>1. \A q \in Procs :
            ToList(mail, list, m)[q] = IF Reachable(q) /\ q \in ToSet(list) THEN Append(mail[q], m)
                                       ELSE mail[q]
        BY <1>0, <1>2, <1>3, ToListed
    <2>. QED  BY <1>1, <2>1
  <1>5. /\ Append(list, j) \in Seq(Procs) /\ Distinct(Append(list, j))
        /\ ToSet(Append(list, j)) = chatMembers[Leader]
    <2>1. j \notin ToSet(list)
        BY <1>2
    <2>2. /\ Append(list, j) \in Seq(Procs) /\ Distinct(Append(list, j))
          /\ ToSet(Append(list, j)) = ToSet(list) \cup {j}
        BY <1>2, <2>1, AppendedList
    <2>. QED  BY <1>1, <1>2, <2>2
  <1>6. /\ socketList' \in [Procs -> Seq(Procs)] /\ socketList'[Leader] = Append(list, j)
        /\ \A q \in Procs : q # Leader => socketList'[q] = socketList[q]
      BY <1>0, <1>1, <1>5
  <1>7. ASSUME NEW q \in Procs
        PROVE  /\ mail'[q] \in Seq(Datagrams)
               /\ In(q)' <=> In(q)
               /\ Answered(q)' <=> Answered(q)
               /\ HasTable(q)' <=> HasTable(q)
               /\ Table(q)' = Table(q)
               /\ Indirected(q)' <=> Indirected(q)
               /\ BoxOf(q)'
               /\ \A x : x \in ToSet(mail'[q]) => x \in ToSet(mail[q]) \/ (x = m /\ q \in ToSet(list))
               /\ \A x : (x = m => x \notin ToSet(mail[q])) /\ ~Twice(mail[q], x) => ~Twice(mail'[q], x)
               /\ HasTable(q) => \A k : Knows(q, k)' <=> (q \in ToSet(list) /\ k = j) \/ Knows(q, k)
    <2>1. stage'[q] = stage[q] /\ chatMembers'[q] = chatMembers[q]
        BY <1>1
    <2>2. CASE Reachable(q) /\ q \in ToSet(list)
      <3>1. mail'[q] = Append(mail[q], m) /\ HasTable(q)
          BY <1>2, <1>4, <2>2
      <3>2. /\ mail'[q] \in Seq(Datagrams)
            /\ ToSet(mail'[q]) = ToSet(mail[q]) \cup {m}
            /\ In(q)' <=> In(q)
            /\ Answered(q)' <=> Answered(q)
            /\ HasTable(q)' /\ Table(q)' = Table(q)
            /\ ~Indirected(q) /\ ~Indirected(q)'
            /\ \A k : Knows(q, k)' <=> m = Msg("NOTICE", k)
                        \/ (m # Msg("LEAVENOTICE", k) /\ Knows(q, k))
            /\ BoxOf(q)'
          BY <1>0, <1>3, <2>1, <3>1, GrownAt
      <3>3. \A x : (x = m => x \notin ToSet(mail[q])) /\ ~Twice(mail[q], x) => ~Twice(mail'[q], x)
          BY <1>0, <1>3, <3>1, TwiceGrows
      <3>. QED  BY <1>3, <2>2, <3>1, <3>2, <3>3
    <2>3. CASE ~ (Reachable(q) /\ q \in ToSet(list))
      <3>1. mail'[q] = mail[q]
          BY <1>4, <2>3
      <3>2. /\ In(q)' <=> In(q)
            /\ Answered(q)' <=> Answered(q)
            /\ HasTable(q)' <=> HasTable(q)
            /\ Table(q)' = Table(q)
            /\ Indirected(q)' <=> Indirected(q)
            /\ \A k : Knows(q, k)' <=> Knows(q, k)
            /\ BoxOf(q)'
          BY <1>0, <2>1, <3>1, SameAt
      <3>3. HasTable(q) => Reachable(q)
          BY DEF HasTable, Reachable, In, Answered
      <3>. QED  BY <1>0, <2>3, <3>1, <3>2, <3>3
    <2>. QED  BY <2>2, <2>3
  <1>8. TypeOK'
    <2>1. mail' \in [Procs -> Seq(Datagrams)]
        BY <1>1, <1>7 DEF ToList
    <2>. QED  BY <1>0, <1>1, <1>6, <2>1 DEF TypeOK
  <1>9. Listing'
      BY <1>0, <1>1 DEF Listing
  <1>10. \A p \in Joiners : p # j => (HasTable(p) => j \notin Table(p)) /\ m \notin ToSet(mail[p])
      BY <1>0, <1>1 DEF Newcomers, m
  <1>11. Newcomers'
    <2>1. \A i \in Joiners : /\ stage'[i] = "out" => stage[i] = "out"
                             /\ Indirected(i)' => Indirected(i)
                             /\ stage'[i] = "joining" => stage[i] = "joining"
        BY <1>1, <1>7
    <2>2. \A i \in Joiners : Answered(i) => stage'[i] # "joining" \/ Answered(i)'
        BY <1>7
    <2>3. \A q \in Joiners : HasTable(q)' =>
            /\ HasTable(q)
            /\ \A i \in Joiners : i \in Table(q)' =>
                 i \in Table(q) \/ Msg("NOTICE", i) \in ToSet(mail[q])
        BY <1>7
    <2>4. \A q \in Procs : \A i \in Joiners :
            /\ Msg("JOIN", i) \in ToSet(mail'[q]) => Msg("JOIN", i) \in ToSet(mail[q])
            /\ Twice(mail'[q], Msg("JOIN", i)) => Twice(mail[q], Msg("JOIN", i))
      <3> SUFFICES ASSUME NEW q \in Procs, NEW i \in Joiners
                   PROVE  /\ Msg("JOIN", i) \in ToSet(mail'[q]) => Msg("JOIN", i) \in ToSet(mail[q])
                          /\ Twice(mail'[q], Msg("JOIN", i)) => Twice(mail[q], Msg("JOIN", i))
          OBVIOUS
      <3> DEFINE x == Msg("JOIN", i)
      <3>1. x # m
          BY <1>3
      <3> HIDE DEF x
      <3>2. x \in ToSet(mail'[q]) => x \in ToSet(mail[q]) \/ (x = m /\ q \in ToSet(list))
          BY <1>7
      <3>3. (x = m => x \notin ToSet(mail[q])) /\ ~Twice(mail[q], x) => ~Twice(mail'[q], x)
          BY <1>7
      <3>4. Twice(mail'[q], x) => Twice(mail[q], x)
          BY <3>1, <3>3
      <3>. QED  BY <3>1, <3>2, <3>4 DEF x
    <2>5. \A q \in Joiners : \A i \in Joiners : Msg("NOTICE", i) \in ToSet(mail'[q]) =>
            Msg("NOTICE", i) \in ToSet(mail[q]) \/ i \in admitting \ admitting'
        BY <1>1, <1>3, <1>7
    <2>6. \A i \in Joiners : \A t \in {"LEAVE", "LEAVENOTICE"} :
            Msg(t, i) \in ToSet(mail'[Leader]) => Msg(t, i) \in ToSet(mail[Leader]) \/ ~Asking(i)
        BY <1>3, <1>7
    <2>7. /\ chatMembers'[Leader] \subseteq chatMembers[Leader] /\ checklist' \subseteq checklist
          /\ admitting' \subseteq admitting
        BY <1>1
    <2>. QED  BY <1>0, <2>1, <2>2, <2>3, <2>4, <2>5, <2>6, <2>7, StillNew
  <1>12. News'
    <2>1. ASSUME NEW q \in Joiners, HasTable(q)', NEW k \in Procs, Msg("NOTICE", k) \in ToSet(mail'[q])
          PROVE  k \notin Table(q)' /\ ~Twice(mail'[q], Msg("NOTICE", k))
      <3>1. HasTable(q) /\ Table(q)' = Table(q)
          BY <1>7, <2>1
      <3>2. CASE Msg("NOTICE", k) = m /\ q \in ToSet(list)
        <4>1. k = j /\ q # j
            BY <1>2, <1>3, <3>2
        <4>2. Msg("NOTICE", k) \notin ToSet(mail[q])
            BY <1>10, <3>2, <4>1
        <4>3. ~Twice(mail[q], Msg("NOTICE", k))
            BY <4>2 DEF Twice, ToSet
        <4>. QED  BY <1>7, <1>10, <3>1, <4>1, <4>2, <4>3
      <3>3. CASE ~ (Msg("NOTICE", k) = m /\ q \in ToSet(list))
        <4>1. Msg("NOTICE", k) \in ToSet(mail[q])
            BY <1>7, <2>1, <3>3
        <4>2. k \notin Table(q) /\ ~Twice(mail[q], Msg("NOTICE", k))
            BY <1>0, <3>1, <4>1 DEF News
        <4>3. CASE Msg("NOTICE", k) = m
          <5>1. mail'[q] = mail[q]
              BY <1>4, <3>3, <4>3
          <5>. QED  BY <3>1, <4>2, <5>1
        <4>4. CASE Msg("NOTICE", k) # m
            BY <1>7, <3>1, <4>2, <4>4
        <4>. QED  BY <4>3, <4>4
      <3>. QED  BY <3>2, <3>3
    <2>. QED  BY <2>1 DEF News
  <1>13. Shared'
    <2> SUFFICES ASSUME NEW k \in Procs
                 PROVE  /\ Knows(Leader, k)' <=> k \in chatMembers[Leader]
                        /\ \A q \in Joiners : HasTable(q)' /\ q \in chatMembers[Leader] =>
                             (Knows(q, k)' <=> k \in chatMembers[Leader])
        BY <1>1, <1>5, <1>6 DEF Shared
    <2>1. Knows(Leader, k)' <=> k \in chatMembers[Leader]
      <3>1. HasTable(Leader)
          BY <1>1 DEF HasTable
      <3>2. Knows(Leader, k) <=> k \in chatMembers[Leader]
          BY <1>0, <1>1 DEF Shared
      <3>. QED  BY <1>1, <1>2, <1>7, <3>1, <3>2
    <2>2. ASSUME NEW q \in Joiners, HasTable(q)', q \in chatMembers[Leader]
          PROVE  Knows(q, k)' <=> k \in chatMembers[Leader]
      <3>1. HasTable(q) /\ q \in ToSet(list) \cup {j}
          BY <1>2, <1>7, <2>2
      <3>2. Knows(q, k) <=> k \in chatMembers[Leader] /\ (k = j => q = k)
        <4>1. q \in ToSet(socketList[Leader]) \cup admitting
            BY <1>1, <3>1 DEF list
        <4>. QED  BY <1>0, <1>1, <3>1, <4>1 DEF Shared
      <3>3. Knows(q, k)' <=> (q \in ToSet(list) /\ k = j) \/ Knows(q, k)
          BY <1>7, <3>1
      <3>. QED  BY <1>1, <3>1, <3>2, <3>3
    <2>. QED  BY <2>1, <2>2
  <1>14. TablesAgree'
    <2> SUFFICES ASSUME NEW q \in Procs, In(q)
                 PROVE  /\ \A i, k \in 1 .. Len(socketList'[q]) :
                             socketList'[q][i] = socketList'[q][k] => i = k
                        /\ ToSet(socketList'[q]) = chatMembers[q] \ {}
        BY <1>1, <1>7 DEF TablesAgree
    <2>1. CASE q = Leader
        BY <1>5, <1>6, <2>1, ZenonT(30) DEF Distinct
    <2>2. CASE q # Leader
        BY <1>0, <1>6, <2>2 DEF TablesAgree
    <2>. QED  BY <2>1, <2>2
  <1>. QED  BY <1>7, <1>8, <1>9, <1>11, <1>12, <1>13, <1>14 DEF IInv

LEMMA LeaveStep ==
  ASSUME IInv, HandleLeave
  PROVE  IInv'
  <1> USE Processes
  <1> DEFINE rest == Rest(Leader)
             old == socketList[Leader]
             head == Head(mail[Leader])
  <1>0. /\ TypeOK /\ Listing /\ Newcomers /\ News /\ Shared /\ TablesAgree
        /\ \A p \in Procs : BoxOf(p) /\ mail[p] \in Seq(Datagrams)
        /\ mail \in [Procs -> Seq(Datagrams)] /\ socketList \in [Procs -> Seq(Procs)]
        /\ chatMembers \in [Procs -> SUBSET Procs]
      BY DEF IInv, TypeOK
  <1>1. /\ In(Leader) /\ mail[Leader] # << >> /\ head.type = "LEAVE" /\ admitting = {}
        /\ mail' = ToList(rest, Erase(old, head.of), Msg("LEAVENOTICE", head.of))
        /\ socketList' = [socketList EXCEPT ![Leader] = Erase(old, head.of)]
        /\ chatMembers' = [chatMembers EXCEPT ![Leader] = @ \ {head.of}]
        /\ checklist' = checklist \ {head.of}
        /\ IteratorAfterErase(Place(old, head.of))
        /\ UNCHANGED <<stage, admitting, current>>
      BY DEF HandleLeave, Received
  <1>2. /\ Tail(mail[Leader]) \in Seq(Datagrams) /\ head \in Datagrams
        /\ ToSet(mail[Leader]) = ToSet(Tail(mail[Leader])) \cup {head}
        /\ \A x : ~Twice(mail[Leader], x) => ~Twice(Tail(mail[Leader]), x)
      BY <1>0, <1>1, BoxShrinks, TwiceShrinks
  <1>3. PICK g \in Joiners : g = head.of /\ head = Msg("LEAVE", g) /\ ~Asking(g)
    <2>1. head = Msg("LEAVE", head.of) /\ head.of \in Procs
        BY <1>1, <1>2, Datagram
    <2>2. head.of \in Joiners
        BY <1>0, <1>2, <2>1 DEF BoxOf, Procs
    <2>3. ~Asking(head.of)
        BY <1>0, <1>2, <2>1, <2>2 DEF Newcomers
    <2>. QED  BY <2>1, <2>2, <2>3
  <1> DEFINE m == Msg("LEAVENOTICE", g)
             list == Erase(old, g)
  <1>4. /\ m \in Notices /\ m \in Datagrams /\ m \notin {Msg("JOIN", Leader), Msg("LEAVE", Leader)}
        /\ \A k : (m = Msg("LEAVENOTICE", k) <=> k = g) /\ m # Msg("NOTICE", k)
        /\ \A t, k : Msg(t, k) = m => t = "LEAVENOTICE" /\ k = g
      BY Datagram
  <1>5. /\ old \in Seq(Procs) /\ Distinct(old) /\ ToSet(old) = chatMembers[Leader]
        /\ Leader \in ToSet(old)
        /\ \A p \in ToSet(old) : p \in Procs /\ (Reachable(p) => HasTable(p))
      BY <1>1, ListedHave
  <1>6. /\ list \in Seq(Procs) /\ Distinct(list) /\ ToSet(list) = chatMembers[Leader] \ {g}
        /\ Leader \in ToSet(list)
        /\ \A p \in ToSet(list) : p \in Procs /\ (Reachable(p) => HasTable(p))
    <2> HIDE DEF old
    <2>1. list \in Seq(Procs) /\ Distinct(list) /\ ToSet(list) = ToSet(old) \ {g}
        BY <1>5, ErasedList
    <2> HIDE DEF list
    <2>. QED  BY <1>3, <1>5, <2>1
  <1>7. /\ rest \in [Procs -> Seq(Datagrams)] /\ rest[Leader] = Tail(mail[Leader])
        /\ \A p \in Procs : p # Leader => rest[p] = mail[p]
      BY <1>0, <1>2 DEF Rest
  <1>8. mail' = ToList(rest, list, m) /\ socketList' = [socketList EXCEPT ![Leader] = list]
        /\ chatMembers' = [chatMembers EXCEPT ![Leader] = chatMembers[Leader] \ {g}]
        /\ checklist' = checklist \ {g}
      BY <1>1, <1>3
  <1> HIDE DEF m, list, old, rest, head
  <1>9. \A p \in Procs :
          /\ mail'[p] = IF Reachable(p) /\ p \in ToSet(list) THEN Append(rest[p], m) ELSE rest[p]
          /\ mail'[p] \in Seq(Datagrams)
    <2>1. \A p \in Procs :
            /\ ToList(rest, list, m)[p] = IF Reachable(p) /\ p \in ToSet(list) THEN Append(rest[p], m)
                                          ELSE rest[p]
            /\ ToList(rest, list, m)[p] \in Seq(Datagrams)
        BY <1>4, <1>6, <1>7, ToListed
    <2>. QED  BY <1>8, <2>1
  <1>10. /\ socketList' \in [Procs -> Seq(Procs)] /\ socketList'[Leader] = list
         /\ \A p \in Procs : p # Leader => socketList'[p] = socketList[p]
         /\ chatMembers' \in [Procs -> SUBSET Procs]
         /\ chatMembers'[Leader] = chatMembers[Leader] \ {g}
         /\ \A p \in Procs : p # Leader => chatMembers'[p] = chatMembers[p]
      BY <1>0, <1>6, <1>8
  <1>11. TypeOK'
    <2>1. mail' \in [Procs -> Seq(Datagrams)]
        BY <1>8, <1>9 DEF ToList
    <2>2. sendPc' \in {"front", "walk", "dangling", "done"} /\ it' \in Nat \ {0}
      <3>1. sendPc \in {"front", "walk", "dangling", "done"} /\ it \in Nat \ {0}
          BY <1>0 DEF TypeOK
      <3>2. \A k : k \in 1 .. it - 1 => it - 1 \in Nat \ {0}
          BY <3>1
      <3>. QED  BY <1>1, <3>1, <3>2 DEF IteratorAfterErase
    <2>. QED  BY <1>0, <1>1, <1>8, <1>10, <2>1, <2>2 DEF TypeOK
  <1>12. ASSUME NEW p \in Joiners
         PROVE  /\ In(p)' <=> In(p)
                /\ Answered(p)' <=> Answered(p)
                /\ HasTable(p)' <=> HasTable(p)
                /\ Table(p)' = Table(p)
                /\ Indirected(p)' <=> Indirected(p)
                /\ BoxOf(p)'
                /\ \A x : x \in ToSet(mail'[p]) => x \in ToSet(mail[p]) \/ x = m
                /\ \A x : x # m => (~Twice(mail[p], x) => ~Twice(mail'[p], x))
                /\ HasTable(p) /\ p \in ToSet(list) =>
                     \A k : Knows(p, k)' <=> k # g /\ Knows(p, k)
    <2>1. stage'[p] = stage[p] /\ chatMembers'[p] = chatMembers[p] /\ p \in Procs /\ rest[p] = mail[p]
        BY <1>1, <1>7, <1>10
    <2>2. CASE Reachable(p) /\ p \in ToSet(list)
      <3>1. mail'[p] = Append(mail[p], m) /\ HasTable(p)
          BY <1>6, <1>9, <2>1, <2>2
      <3>2. /\ ToSet(mail'[p]) = ToSet(mail[p]) \cup {m}
            /\ In(p)' <=> In(p)
            /\ Answered(p)' <=> Answered(p)
            /\ HasTable(p)' /\ Table(p)' = Table(p)
            /\ ~Indirected(p) /\ ~Indirected(p)'
            /\ \A k : Knows(p, k)' <=> m = Msg("NOTICE", k)
                        \/ (m # Msg("LEAVENOTICE", k) /\ Knows(p, k))
            /\ BoxOf(p)'
          BY <1>0, <1>4, <2>1, <3>1, GrownAt
      <3>3. \A x : x # m => (~Twice(mail[p], x) => ~Twice(mail'[p], x))
          BY <1>0, <1>4, <2>1, <3>1, TwiceGrows
      <3>. QED  BY <1>4, <3>1, <3>2, <3>3
    <2>3. CASE ~ (Reachable(p) /\ p \in ToSet(list))
      <3>1. mail'[p] = mail[p]
          BY <1>9, <2>1, <2>3
      <3>2. /\ In(p)' <=> In(p)
            /\ Answered(p)' <=> Answered(p)
            /\ HasTable(p)' <=> HasTable(p)
            /\ Table(p)' = Table(p)
            /\ Indirected(p)' <=> Indirected(p)
            /\ BoxOf(p)'
          BY <1>0, <2>1, <3>1, SameAt
      <3>3. HasTable(p) => Reachable(p)
          BY DEF HasTable, Reachable, In, Answered
      <3>. QED  BY <2>3, <3>1, <3>2, <3>3
    <2>. QED  BY <2>2, <2>3
  <1>13. /\ mail'[Leader] = Append(Tail(mail[Leader]), m) /\ In(Leader)' /\ stage'[Leader] = stage[Leader]
         /\ \A x : x \in ToSet(mail'[Leader]) => x \in ToSet(mail[Leader]) \/ x = m
         /\ \A x : x # m => (~Twice(mail[Leader], x) => ~Twice(mail'[Leader], x))
         /\ BoxOf(Leader)'
    <2>1. /\ mail'[Leader] = Append(Tail(mail[Leader]), m) /\ In(Leader)'
          /\ stage'[Leader] = stage[Leader] /\ stage'[Leader] = "in"
        BY <1>1, <1>6, <1>7, <1>9 DEF In, Reachable
    <2> DEFINE u == Tail(mail[Leader])
    <2>2. u \in Seq(Datagrams) /\ ToSet(u) \subseteq ToSet(mail[Leader])
          /\ \A x : ~Twice(mail[Leader], x) => ~Twice(u, x)
        BY <1>2
    <2>3. mail'[Leader] = Append(u, m)
        BY <2>1
    <2> HIDE DEF u
    <2>4. ToSet(mail'[Leader]) = ToSet(u) \cup {m}
        BY <1>4, <2>2, <2>3, BoxGrows
    <2>5. \A x : x # m => (~Twice(u, x) => ~Twice(mail'[Leader], x))
        BY <1>4, <2>2, <2>3, TwiceGrows
    <2>6. ToSet(mail[Leader]) \subseteq Notices
          /\ {Msg("JOIN", Leader), Msg("LEAVE", Leader)} \cap ToSet(mail[Leader]) = {}
        BY <1>0 DEF BoxOf
    <2>7. ToSet(mail'[Leader]) \subseteq Notices
          /\ {Msg("JOIN", Leader), Msg("LEAVE", Leader)} \cap ToSet(mail'[Leader]) = {}
        BY <1>4, <2>2, <2>4, <2>6
    <2>8. BoxOf(Leader)'
        BY <2>1, <2>7 DEF BoxOf
    <2>. QED  BY <2>1, <2>2, <2>4, <2>5, <2>8
  <1>14. ASSUME NEW k \in Procs
         PROVE  Knows(Leader, k)' <=> k \in chatMembers'[Leader]
    <2> DEFINE a == Msg("NOTICE", k)
               b == Msg("LEAVENOTICE", k)
               there == k \in chatMembers[Leader]
               then == k \in chatMembers'[Leader]
               u == Tail(mail[Leader])
    <2>1. /\ a # b /\ there \in BOOLEAN /\ then \in BOOLEAN /\ u \in Seq(Datagrams)
          /\ m # a /\ (m = b <=> k = g) /\ Head(mail[Leader]) # a /\ Head(mail[Leader]) # b
        BY <1>2, <1>3, <1>4, Datagram DEF head
    <2>2. then <=> there /\ k # g
        BY <1>10
    <2>3. /\ Knows(Leader, k) <=> Kept(mail[Leader], there, a, b)
          /\ Knows(Leader, k)' <=> Kept(Append(u, m), then, a, b)
        BY <1>1, <1>13 DEF Knows, Table
    <2>4. Knows(Leader, k) <=> there
        BY <1>0, <1>1 DEF Shared
    <2> HIDE DEF a, b, there, then, u
    <2>5. Kept(Append(u, m), then, a, b) <=> m = a \/ (m # b /\ Kept(u, then, a, b))
        BY <1>4, <2>1, KeptGrows
    <2>6. Kept(u, there, a, b) <=> there
      <3>1. Kept(mail[Leader], there, a, b) <=>
              Kept(Tail(mail[Leader]), Head(mail[Leader]) = a \/ (Head(mail[Leader]) # b /\ there), a, b)
          BY <1>0, <1>1, <2>1, KeptShrinks
      <3>2. (Head(mail[Leader]) = a \/ (Head(mail[Leader]) # b /\ there)) = there
          BY <2>1
      <3>. QED  BY <2>3, <2>4, <3>1, <3>2 DEF u
    <2>7. ASSUME k = g PROVE Knows(Leader, k)' <=> then
        BY <2>1, <2>2, <2>3, <2>5, <2>7
    <2>8. ASSUME k # g PROVE Knows(Leader, k)' <=> then
      <3>1. then = there
          BY <2>1, <2>2, <2>8
      <3>2. Kept(u, then, a, b) <=> there
          BY <2>6, <3>1
      <3>. QED  BY <2>1, <2>2, <2>3, <2>5, <2>8, <3>2
    <2>. QED  BY <2>7, <2>8 DEF then
  <1>15. /\ \A p \in Procs : In(p)' <=> In(p)
         /\ \A p \in Procs : \A x : x \in ToSet(mail'[p]) => x \in ToSet(mail[p]) \/ x = m
         /\ \A p \in Procs : \A x : x # m => (~Twice(mail[p], x) => ~Twice(mail'[p], x))
         /\ \A p \in Procs : BoxOf(p)'
      BY <1>1, <1>12, <1>13 DEF Procs
  <1>16. Listing'
    <2>1. IsFiniteSet(chatMembers[Leader] \ {g})
        BY <1>0, FS_RemoveElement, FS_Subset DEF Listing
    <2>. QED  BY <1>0, <1>1, <1>3, <1>8, <1>10, <2>1 DEF Listing
  <1>17. Newcomers'
    <2>1. \A i \in Joiners : /\ stage'[i] = "out" => stage[i] = "out"
                             /\ Indirected(i)' => Indirected(i)
                             /\ stage'[i] = "joining" => stage[i] = "joining"
        BY <1>1, <1>12
    <2>2. \A i \in Joiners : Answered(i) => stage'[i] # "joining" \/ Answered(i)'
        BY <1>12
    <2>3. \A p \in Joiners : HasTable(p)' =>
            /\ HasTable(p)
            /\ \A i \in Joiners : i \in Table(p)' =>
                 i \in Table(p) \/ Msg("NOTICE", i) \in ToSet(mail[p])
        BY <1>12
    <2>4. ASSUME NEW p \in Procs, NEW i \in Joiners
          PROVE  /\ Msg("JOIN", i) \in ToSet(mail'[p]) => Msg("JOIN", i) \in ToSet(mail[p])
                 /\ Twice(mail'[p], Msg("JOIN", i)) => Twice(mail[p], Msg("JOIN", i))
      <3> DEFINE x == Msg("JOIN", i)
      <3>1. x # m
          BY <1>4
      <3> HIDE DEF x
      <3>2. x \in ToSet(mail'[p]) => x \in ToSet(mail[p]) \/ x = m
          BY <1>15
      <3>3. x # m => (~Twice(mail[p], x) => ~Twice(mail'[p], x))
          BY <1>15
      <3>. QED  BY <3>1, <3>2, <3>3 DEF x
    <2>5. ASSUME NEW p \in Joiners, NEW i \in Joiners, Msg("NOTICE", i) \in ToSet(mail'[p])
          PROVE  Msg("NOTICE", i) \in ToSet(mail[p])
        BY <1>4, <1>15, <2>5
    <2>6. ASSUME NEW i \in Joiners, NEW t \in {"LEAVE", "LEAVENOTICE"}, Msg(t, i) \in ToSet(mail'[Leader])
          PROVE  Msg(t, i) \in ToSet(mail[Leader]) \/ ~Asking(i)
        BY <1>3, <1>4, <1>15, <2>6
    <2>7. /\ chatMembers'[Leader] \subseteq chatMembers[Leader] /\ checklist' \subseteq checklist
          /\ admitting' \subseteq admitting
        BY <1>1, <1>8, <1>10
    <2>. QED  BY <1>0, <2>1, <2>2, <2>3, <2>4, <2>5, <2>6, <2>7, StillNew
  <1>18. News'
    <2>1. ASSUME NEW p \in Joiners, HasTable(p)', NEW k \in Procs, Msg("NOTICE", k) \in ToSet(mail'[p])
          PROVE  k \notin Table(p)' /\ ~Twice(mail'[p], Msg("NOTICE", k))
      <3>1. HasTable(p) /\ Table(p)' = Table(p)
          BY <1>12, <2>1
      <3>2. Msg("NOTICE", k) # m
          BY <1>4
      <3>3. Msg("NOTICE", k) \in ToSet(mail[p])
          BY <1>15, <2>1, <3>2
      <3>4. k \notin Table(p) /\ ~Twice(mail[p], Msg("NOTICE", k))
          BY <1>0, <3>1, <3>3 DEF News
      <3>. QED  BY <1>15, <3>1, <3>2, <3>4
    <2>. QED  BY <2>1 DEF News
  <1>19. Shared'
    <2> SUFFICES ASSUME NEW k \in Procs
                 PROVE  /\ Knows(Leader, k)' <=> k \in chatMembers'[Leader]
                        /\ \A p \in Joiners : HasTable(p)' /\ p \in ToSet(list) =>
                             (Knows(p, k)' <=> k \in chatMembers'[Leader])
        BY <1>1, <1>10 DEF Shared
    <2>1. ASSUME NEW p \in Joiners, HasTable(p)', p \in ToSet(list)
          PROVE  Knows(p, k)' <=> k \in chatMembers'[Leader]
      <3>1. HasTable(p) /\ (Knows(p, k)' <=> k # g /\ Knows(p, k)) /\ p \in ToSet(old)
          BY <1>5, <1>6, <1>12, <2>1
      <3>2. Knows(p, k) <=> k \in chatMembers[Leader]
          BY <1>0, <1>1, <3>1 DEF Shared, old
      <3>. QED  BY <1>10, <3>1, <3>2
    <2>. QED  BY <1>14, <2>1
  <1>20. TablesAgree'
    <2> SUFFICES ASSUME NEW p \in Procs, In(p)
                 PROVE  /\ \A i, k \in 1 .. Len(socketList'[p]) :
                             socketList'[p][i] = socketList'[p][k] => i = k
                        /\ ToSet(socketList'[p]) = chatMembers'[p] \ {}
        BY <1>1, <1>15 DEF TablesAgree
    <2>1. CASE p = Leader
        BY <1>6, <1>10, <2>1 DEF Distinct
    <2>2. CASE p # Leader
        BY <1>0, <1>10, <2>2 DEF TablesAgree
    <2>. QED  BY <2>1, <2>2
  <1>. QED  BY <1>11, <1>15, <1>16, <1>17, <1>18, <1>19, <1>20 DEF IInv

-----------------------------------------------------------------------------
LEMMA NextStep ==
  ASSUME IInv, [Next]_vars
  PROVE  IInv'
  <1>1. CASE UNCHANGED vars
    <2>1. UNCHANGED <<stage, mail, chatMembers, socketList, admitting, checklist, sendPc, it, current>>
        BY <1>1 DEF vars
    <2>2. TypeOK'
        BY <2>1 DEF IInv, TypeOK
    <2>3. current'[Leader] >= 1
        BY <2>1 DEF IInv, Listing
    <2>. QED  BY <2>1, <2>2, <2>3, QuietStep
  <1>2. ASSUME NEW j \in Joiners,
               Join(j) \/ Leave(j) \/ Crash(j) \/ Main(j) \/ Heartbeat(j) \/ DeclareDead(j)
        PROVE  IInv'
      BY <1>2, JoinStep, JoinedStep, EndStep, SendStep DEF Main
  <1>3. ASSUME NEW p \in Procs, NoticeThread(p)
        PROVE  IInv'
      BY <1>3, AnswerStep, AdmitStep, LeaveStep, RedirectStep, NoticeStep DEF NoticeThread
  <1>4. CASE SendMessage
      BY <1>4, SendStep
  <1>. QED  BY <1>1, <1>2, <1>3, <1>4 DEF Next

(***************************************************************************)
(* Every reachable state is one of the inductive invariant: what the join  *)
(* ports hold and whom the tables name fit together, in whatever order     *)
(* main, noticeThread and sendMessage of the processes run.                *)
(***************************************************************************)
THEOREM IInvCorrect == Spec => []IInv
  <1>1. Init => IInv
      BY InitIInv
  <1>2. IInv /\ [Next]_vars => IInv'
      BY NextStep
  <1>. QED  BY <1>1, <1>2, PTL DEF Spec

(***************************************************************************)
(* The variables stay what the program declares: a joining process takes a *)
(* number from a reply that has one, and a list that is a list.            *)
(***************************************************************************)
THEOREM TypeCorrect == Spec => []TypeOK
  <1>1. IInv => TypeOK
      BY DEF IInv
  <1>. QED  BY <1>1, IInvCorrect, PTL

(***************************************************************************)
(* socketList and chatMembers of a process never get out of step, though   *)
(* socketAction appends without looking: whoever is announced was unknown. *)
(***************************************************************************)
THEOREM TablesAgreeCorrect == Spec => []TablesAgree
  <1>1. IInv => TablesAgree
      BY DEF IInv
  <1>. QED  BY <1>1, IInvCorrect, PTL

(***************************************************************************)
(* However many join, are redirected, leave and are declared dead at the   *)
(* same time, a listed member never misses a NOTICE or a LEAVENOTICE.      *)
(***************************************************************************)
THEOREM ViewsConvergeCorrect == Spec => []ViewsConverge
  <1>1. ASSUME IInv PROVE ViewsConverge
    <2> SUFFICES ASSUME In(Leader), admitting = {}, NEW q \in ToSet(socketList[Leader]), In(q)
                 PROVE  AfterMail(q) = chatMembers[Leader]
        BY DEF ViewsConverge
    <2>1. q \in Procs /\ chatMembers[Leader] \subseteq Procs
        BY <1>1, ListedHave, Processes DEF IInv, TypeOK
    <2>2. ASSUME NEW p \in Procs
          PROVE  Kept(mail[q], p \in chatMembers[q], Msg("NOTICE", p), Msg("LEAVENOTICE", p))
                   <=> p \in chatMembers[Leader]
      <3>1. Knows(q, p)
              <=> Kept(mail[q], p \in chatMembers[q], Msg("NOTICE", p), Msg("LEAVENOTICE", p))
          BY DEF Knows, Table
      <3>2. Knows(q, p) <=> p \in chatMembers[Leader]
        <4>1. Shared /\ HasTable(q)
            BY <1>1 DEF IInv, HasTable
        <4>2. q = Leader \/ q \in Joiners
            BY <2>1 DEF Procs
        <4>. QED  BY <4>1, <4>2 DEF Shared
      <3>. QED  BY <3>1, <3>2
    <2>. QED  BY <2>1, <2>2 DEF AfterMail
  <1>. QED  BY <1>1, IInvCorrect, PTL

-----------------------------------------------------------------------------
(* The walk of sendMessage over a list without repetitions. *)
LEMMA TurnOf ==
  ASSUME NEW P, NEW s \in Seq(P), Distinct(s), NEW q, NEW i \in 1 .. Len(s), s[i] = q
  PROVE  Turn(s, q) = i
  <1> DEFINE I == {k \in 1 .. Len(s) : s[k] = q}
  <1>1. I = {i}
      BY DEF Distinct
  <1>2. Turn(s, q) = IF I # {} THEN Min(I) ELSE 0
      BY DEF Turn, SelectInSeq
  <1> HIDE DEF I
  <1>3. Min(I) = i
      BY <1>1 DEF Min
  <1>. QED  BY <1>1, <1>2, <1>3

LEMMA TurnThere ==
  ASSUME NEW P, NEW s \in Seq(P), Distinct(s), NEW q, q \in ToSet(s)
  PROVE  Turn(s, q) \in 1 .. Len(s) /\ s[Turn(s, q)] = q
  <1>1. PICK i \in 1 .. Len(s) : s[i] = q
      BY DEF ToSet
  <1>2. Turn(s, q) = i
      BY <1>1, TurnOf
  <1>. QED  BY <1>1, <1>2

LEMMA InStepStays ==
  ASSUME IInv, IInv', [Next]_vars, NEW q \in Joiners, Listed(q), InStep(q), Listed(q)'
  PROVE  InStep(q)'
  <1> USE Processes
  <1> DEFINE list == socketList[Leader]
             then == socketList'[Leader]
             t == Turn(list, q)
             u == Turn(then, q)
  <1>0. /\ current \in [Procs -> Nat] /\ current[q] \in Nat /\ current[Leader] \in Nat
        /\ sendPc \in {"front", "walk", "dangling", "done"} /\ it \in Nat \ {0}
        /\ q \in Procs /\ q # Leader /\ In(q) /\ In(Leader)
        /\ socketList \in [Procs -> Seq(Procs)]
      BY DEF IInv, TypeOK, Listed
  <1>1. list \in Seq(Procs) /\ Distinct(list) /\ q \in ToSet(list)
      BY <1>0, ListedHave DEF Listed
  <1>2. then \in Seq(Procs) /\ Distinct(then) /\ q \in ToSet(then)
    <2>1. In(Leader)' /\ Leader \in Procs /\ TypeOK' /\ TablesAgree' /\ q \in ToSet(then)
        BY DEF Listed, IInv
    <2>. QED  BY <2>1 DEF TablesAgree, Distinct, TypeOK
  <1> HIDE DEF list, then
  <1>3. t \in 1 .. Len(list) /\ list[t] = q /\ Len(list) \in Nat
      BY <1>1, TurnThere
  <1>4. u \in 1 .. Len(then) /\ then[u] = q /\ Len(then) \in Nat
      BY <1>2, TurnThere
  <1> HIDE DEF t, u
  <1>5. ASSUME NEW i \in 1 .. Len(then), then[i] = q
        PROVE  u = i
      BY <1>2, <1>4, <1>5 DEF Distinct
  <1>6. current[q] = IF sendPc = "done" \/ (sendPc # "front" /\ t < it)
                     THEN current[Leader] ELSE current[Leader] - 1
      BY DEF InStep, list, t
  <1>8. ASSUME then = list, UNCHANGED <<sendPc, it>>, current'[q] = current[q],
               current'[Leader] = current[Leader]
        PROVE  InStep(q)'
    <2>1. u = t
        BY <1>3, <1>5, <1>8
    <2>. QED  BY <1>6, <1>8, <2>1 DEF InStep, then, u
  <1>9. CASE UNCHANGED vars
    <2>1. then = list /\ UNCHANGED <<sendPc, it, current>>
        BY <1>9 DEF vars, then, list
    <2>. QED  BY <1>8, <2>1
  <1>10. ASSUME NEW j \in Joiners,
                Join(j) \/ Leave(j) \/ Crash(j) \/ Main(j) \/ Heartbeat(j) \/ DeclareDead(j)
         PROVE  InStep(q)'
    <2>1. CASE Joined(j)
      <3>1. j # q /\ j # Leader
          BY <1>0, <2>1 DEF Joined, In
      <3>2. /\ socketList' = [socketList EXCEPT ![j] = Head(mail[j]).list]
            /\ current' = [current EXCEPT ![j] = Head(mail[j]).seq - 1]
            /\ UNCHANGED <<sendPc, it>>
          BY <2>1 DEF Joined, sending
      <3>3. then = list /\ current'[q] = current[q] /\ current'[Leader] = current[Leader]
          BY <1>0, <3>1, <3>2 DEF then, list
      <3>. QED  BY <1>8, <3>2, <3>3
    <2>2. CASE ~Joined(j)
      <3>1. UNCHANGED <<socketList, sendPc, it, current>>
          BY <1>10, <2>2 DEF Join, Leave, Crash, Main, Redirected, GiveUp, Heartbeat, DeclareDead,
                             views, sending
      <3>. QED  BY <1>8, <3>1 DEF then, list
    <2>. QED  BY <2>1, <2>2
  <1>11. CASE \E j \in Joiners : Admit(j)
    <2>1. PICK j \in Joiners : Admit(j)
        BY <1>11
    <2>2. then = Append(list, j) /\ UNCHANGED <<sendPc, it, current>>
        BY <1>0, <2>1 DEF Admit, sending, then, list
    <2>3. u = t
      <3>1. t \in 1 .. Len(then) /\ then[t] = q
          BY <1>1, <1>3, <2>2
      <3>. QED  BY <1>5, <3>1
    <2>. QED  BY <1>6, <2>2, <2>3 DEF InStep, then, u
  <1>12. CASE HandleLeave
    <2> DEFINE g == Head(mail[Leader]).of
               k == Place(list, g)
    <2>1. then = Erase(list, g) /\ IteratorAfterErase(k) /\ UNCHANGED current
        BY <1>0, <1>12 DEF HandleLeave, then, list
    <2>2. \/ g \notin ToSet(list) /\ Erase(list, g) = list /\ k = 0
          \/ /\ k \in 1 .. Len(list) /\ list[k] = g
             /\ Erase(list, g) \in Seq(Procs)
             /\ Len(Erase(list, g)) = Len(list) - 1
             /\ \A i \in 1 .. Len(list) - 1 : Erase(list, g)[i] = list[IF i < k THEN i ELSE i + 1]
        BY <1>1, PlaceErased
    <2> HIDE DEF g, k
    <2>3. CASE then = list /\ k = 0
      <3>1. u = t
          BY <1>3, <1>5, <2>3
      <3>2. it' = it /\ (sendPc' = sendPc \/ (sendPc = "walk" /\ sendPc' = "dangling"))
          BY <1>0, <2>1, <2>3 DEF IteratorAfterErase
      <3>. QED  BY <1>6, <2>1, <3>1, <3>2 DEF InStep, then, u
    <2>4. CASE /\ k \in 1 .. Len(list) /\ list[k] = g
               /\ then \in Seq(Procs) /\ Len(then) = Len(list) - 1
               /\ \A i \in 1 .. Len(list) - 1 : then[i] = list[IF i < k THEN i ELSE i + 1]
      <3>1. t # k
        <4>1. CASE t = k
          <5>1. list[IF u < k THEN u ELSE u + 1] = q
              BY <1>4, <2>4
          <5>2. (IF u < k THEN u ELSE u + 1) \in 1 .. Len(list)
              BY <1>3, <1>4, <2>4
          <5>3. (IF u < k THEN u ELSE u + 1) = t
              BY <1>1, <1>3, <5>1, <5>2 DEF Distinct
          <5>. QED  BY <1>4, <4>1, <5>3
        <4>. QED  BY <4>1
      <3>2. u = IF t < k THEN t ELSE t - 1
        <4>1. CASE t < k
          <5>1. t \in 1 .. Len(list) - 1 /\ then[t] = q
              BY <1>3, <2>4, <4>1
          <5>. QED  BY <1>5, <2>4, <4>1, <5>1
        <4>2. CASE ~ (t < k)
          <5>1. t - 1 \in 1 .. Len(list) - 1 /\ ~ (t - 1 < k) /\ (t - 1) + 1 = t
              BY <1>3, <2>4, <3>1, <4>2
          <5>2. then[t - 1] = q
              BY <1>3, <2>4, <5>1
          <5>. QED  BY <1>5, <2>4, <4>2, <5>1, <5>2
        <4>. QED  BY <4>1, <4>2
      <3>3. CASE sendPc = "walk" /\ k = it
        <4>1. sendPc' = "dangling" /\ it' = it
            BY <2>1, <3>3 DEF IteratorAfterErase
        <4>2. u < it' <=> t < it
            BY <1>0, <1>3, <2>4, <3>1, <3>2, <3>3, <4>1
        <4>. QED  BY <1>6, <2>1, <3>3, <4>1, <4>2 DEF InStep, then, u
      <3>4. CASE ~ (sendPc = "walk" /\ k = it) /\ sendPc # "front"
        <4>1. sendPc' = sendPc /\ it' = IF k \in 1 .. it - 1 THEN it - 1 ELSE it
            BY <2>1, <3>4 DEF IteratorAfterErase
        <4>2. u < it' <=> t < it
            BY <1>0, <1>3, <2>4, <3>1, <3>2, <4>1, SMTT(30)
        <4>. QED  BY <1>6, <2>1, <4>1, <4>2 DEF InStep, then, u
      <3>5. CASE sendPc = "front"
        <4>1. sendPc' = sendPc
            BY <2>1, <3>5 DEF IteratorAfterErase
        <4>. QED  BY <1>6, <2>1, <3>5, <4>1 DEF InStep, then, u
      <3>. QED  BY <3>3, <3>4, <3>5
    <2>. QED  BY <2>1, <2>2, <2>3, <2>4
  <1>13. ASSUME NEW p \in Procs, AnswerJoin \/ Redirect(p) \/ HandleNotice(p) \/ HandleLeaveNotice(p)
         PROVE  InStep(q)'
    <2>1. UNCHANGED <<sendPc, it, current>>
        BY <1>13 DEF AnswerJoin, Redirect, HandleNotice, HandleLeaveNotice, sending
    <2>2. then = list
      <3>1. \/ UNCHANGED socketList
            \/ p # Leader /\ \E l : socketList' = [socketList EXCEPT ![p] = l]
          BY <1>13 DEF AnswerJoin, Redirect, HandleNotice, HandleLeaveNotice, views
      <3>. QED  BY <1>0, <3>1 DEF then, list
    <2>. QED  BY <1>8, <2>1, <2>2
  <1>14. CASE TakeLine \/ WalkEnds \/ NextNumber \/ Dangle
    <2>1. then = list
        BY <1>14 DEF TakeLine, WalkEnds, NextNumber, Dangle, views, then, list
    <2>2. u = t
        BY <1>3, <1>5, <2>1
    <2>3. CASE TakeLine
      <3>1. sendPc = "front" /\ sendPc' = "walk" /\ it' = 1 /\ UNCHANGED current
          BY <2>3 DEF TakeLine
      <3>2. ~ (u < it')
          BY <1>4, <3>1
      <3>. QED  BY <1>6, <3>1, <3>2 DEF InStep, then, u
    <2>4. CASE WalkEnds
      <3>1. /\ sendPc = "walk" /\ sendPc' = "done" /\ it > Len(list) /\ UNCHANGED current
          BY <2>4 DEF WalkEnds, list
      <3>2. t < it
          BY <1>0, <1>3, <3>1
      <3>. QED  BY <1>6, <3>1, <3>2 DEF InStep, then, u
    <2>5. CASE NextNumber
      <3>1. /\ sendPc = "done" /\ sendPc' = "front"
            /\ current'[Leader] = current[Leader] + 1 /\ current'[q] = current[q]
          BY <1>0, <2>5 DEF NextNumber
      <3>2. current'[q] = current'[Leader] - 1
          BY <1>0, <1>6, <3>1
      <3>. QED  BY <3>1, <3>2 DEF InStep, then, u
    <2>6. CASE Dangle
      <3>1. /\ sendPc = "dangling" /\ UNCHANGED <<it, current>>
            /\ sendPc' = "walk" \/ sendPc' = "dangling"
          BY <2>6 DEF Dangle
      <3>. QED  BY <1>6, <2>2, <3>1 DEF InStep, then, u
    <2>. QED  BY <1>14, <2>3, <2>4, <2>5, <2>6
  <1>15. CASE Serve
    <2> DEFINE r == list[it]
    <2>1. /\ sendPc = "walk" /\ UNCHANGED sendPc /\ it <= Len(list) /\ it' = it + 1
          /\ then = list
          /\ IF In(r) /\ r # Leader /\ current[r] + 1 = current[Leader]
             THEN current' = [current EXCEPT ![r] = @ + 1]
             ELSE UNCHANGED current
        BY <1>15 DEF Serve, views, then, list
    <2>2. u = t
        BY <1>3, <1>5, <2>1
    <2> HIDE DEF r
    <2>3. CASE it = t
      <3>1. r = q
          BY <1>3, <2>3 DEF r
      <3>2. current[q] = current[Leader] - 1
          BY <1>0, <1>6, <2>1, <2>3
      <3>3. current'[q] = current[q] + 1 /\ current'[Leader] = current[Leader]
          BY <1>0, <2>1, <3>1, <3>2
      <3>4. current'[q] = current'[Leader] /\ u < it'
          BY <1>0, <2>1, <2>2, <2>3, <3>2, <3>3
      <3>. QED  BY <2>1, <3>4 DEF InStep, then, u
    <2>4. CASE it # t
      <3>1. (u < it' <=> t < it)
          BY <1>0, <1>3, <2>1, <2>2, <2>4
      <3>2. current'[q] = current[q] /\ current'[Leader] = current[Leader]
        <4>1. it \in 1 .. Len(list)
            BY <1>0, <1>3, <2>1
        <4>2. r # q
            BY <1>1, <1>3, <2>4, <4>1 DEF Distinct, r
        <4>. QED  BY <1>0, <2>1, <4>2
      <3>. QED  BY <1>6, <2>1, <3>1, <3>2 DEF InStep, then, u
    <2>. QED  BY <2>3, <2>4
  <1>16. ASSUME NEW p \in Procs, NoticeThread(p)
         PROVE  InStep(q)'
      BY <1>11, <1>12, <1>13, <1>16 DEF NoticeThread, InStep, then, u
  <1>. QED  BY <1>9, <1>10, <1>14, <1>15, <1>16 DEF Next, SendMessage, InStep, then, u

(***************************************************************************)
(* Whatever noticeThread does to socketList under the walk of sendMessage, *)
(* a listed member is served neither too late nor twice: entries are       *)
(* appended at the end, and an erased one before the iterator takes it     *)
(* one entry back.                                                         *)
(***************************************************************************)
THEOREM StaysInStepCorrect == Spec => StaysInStep
  <1>1. ASSUME IInv, [Next]_vars
        PROVE  [\A q \in Joiners : Listed(q) /\ InStep(q) /\ Listed(q)' => InStep(q)']_vars
      BY <1>1, NextStep, InStepStays
  <1>2. IInv /\ [Next]_vars
          => [\A q \in Joiners : Listed(q) /\ InStep(q) /\ Listed(q)' => InStep(q)']_vars
      BY <1>1
  <1>. QED  BY <1>2, IInvCorrect, PTL DEF Spec, StaysInStep
=============================================================================
