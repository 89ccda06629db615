--------------------------- MODULE QueueChat_proofs ---------------------------
(***************************************************************************)
(* Proofs about QueueChat, for every set of joiners, whoever they ask, and *)
(* every number of lines.                                                  *)
(***************************************************************************)
EXTENDS QueueChat, Functions, FiniteSetTheorems, SequenceTheorems, TLAPS

-----------------------------------------------------------------------------
(***************************************************************************)
(* Sequences.                                                              *)
(***************************************************************************)
LEMMA AppendTo ==
  ASSUME NEW T, NEW s \in Seq(T), NEW e \in T
  PROVE  /\ Append(s, e) \in Seq(T)
         /\ Len(s) \in Nat /\ Len(Append(s, e)) = Len(s) + 1
         /\ Append(s, e)[Len(s) + 1] = e
         /\ Append(s, e) # << >>
         /\ \A i \in 1 .. Len(s) : Append(s, e)[i] = s[i]
         /\ \A i \in 1 .. Len(Append(s, e)) : i \in 1 .. Len(s) \/ i = Len(s) + 1
  <1>1. /\ Append(s, e) \in Seq(T)
        /\ Len(s) \in Nat /\ Len(Append(s, e)) = Len(s) + 1
        /\ Append(s, e)[Len(s) + 1] = e
        /\ \A i \in 1 .. Len(s) : Append(s, e)[i] = s[i]
        /\ \A i \in 1 .. Len(Append(s, e)) : i \in 1 .. Len(s) \/ i = Len(s) + 1
      OBVIOUS
  <1>. QED  BY <1>1

LEMMA TailOf ==
  ASSUME NEW T, NEW s \in Seq(T), s # << >>
  PROVE  /\ Tail(s) \in Seq(T)
         /\ Len(s) \in Nat \ {0} /\ Len(Tail(s)) = Len(s) - 1
         /\ Head(s) = s[1] /\ s[1] \in T
         /\ \A i \in 1 .. Len(Tail(s)) : Tail(s)[i] = s[i + 1] /\ i + 1 \in 1 .. Len(s)
         /\ \A i \in 1 .. Len(s) : i = 1 \/ (i - 1 \in 1 .. Len(Tail(s)) /\ Tail(s)[i - 1] = s[i])
  OBVIOUS

(* u is s with e at its end. *)
Adds(T, s, e, u) == s \in Seq(T) /\ e \in T /\ u = Append(s, e)

Grown(s, e, u) ==
  /\ \A j \in DOMAIN s : j \in DOMAIN u /\ u[j] = s[j]
  /\ Len(s) \in Nat /\ Len(s) + 1 \in DOMAIN u /\ u[Len(s) + 1] = e
  /\ \A j \in DOMAIN u : j \in DOMAIN s \/ (j = Len(s) + 1 /\ u[j] = e)

LEMMA Appended ==
  ASSUME NEW T, NEW s, NEW e, NEW u, Adds(T, s, e, u)
  PROVE  Grown(s, e, u)
  BY DEF Adds, Grown

LEMMA NoneLeft ==
  ASSUME NEW T, NEW s \in Seq(T)
  PROVE  s = << >> <=> Len(s) = 0
  OBVIOUS

LEMMA Wider ==
  ASSUME NEW T, NEW U, T \subseteq U, NEW s \in Seq(T)
  PROVE  s \in Seq(U)
  OBVIOUS

LEMMA InRange ==
  ASSUME NEW T, NEW s \in Seq(T), NEW x
  PROVE  /\ DOMAIN s = 1 .. Len(s) /\ Len(s) \in Nat
         /\ x \in Range(s) <=> \E i \in 1 .. Len(s) : s[i] = x
         /\ Range(s) \subseteq T
  BY DEF Range

LEMMA RangeAppend ==
  ASSUME NEW T, NEW s \in Seq(T), NEW e \in T
  PROVE  Range(Append(s, e)) = Range(s) \cup {e}
  <1> DEFINE t == Append(s, e)
  <1>1. /\ t \in Seq(T) /\ Len(s) \in Nat /\ Len(t) = Len(s) + 1 /\ t[Len(s) + 1] = e
        /\ \A i \in 1 .. Len(s) : t[i] = s[i]
        /\ \A i \in 1 .. Len(t) : i \in 1 .. Len(s) \/ i = Len(s) + 1
      BY AppendTo
  <1> HIDE DEF t
  <1>2. \A x : x \in Range(t) <=> x \in Range(s) \/ x = e
      BY <1>1, InRange
  <1>. QED  BY <1>2 DEF t

(* erase: the other entries keep their order. *)
LEMMA RemovedAt ==
  ASSUME NEW T, NEW s \in Seq(T), NEW k \in 1 .. Len(s)
  PROVE  /\ RemoveAt(s, k) \in Seq(T)
         /\ Len(RemoveAt(s, k)) = Len(s) - 1
         /\ \A i \in 1 .. Len(s) - 1 : RemoveAt(s, k)[i] = s[IF i < k THEN i ELSE i + 1]
  <1> DEFINE a == SubSeq(s, 1, k - 1)
             b == SubSeq(s, k + 1, Len(s))
  <1>1. /\ a \in Seq(T) /\ Len(a) = k - 1 /\ k \in Nat /\ Len(s) \in Nat
        /\ \A i \in 1 .. k - 1 : a[i] = s[i]
      OBVIOUS
  <1>2. /\ b \in Seq(T) /\ Len(b) = Len(s) - k
        /\ \A i \in 1 .. Len(s) - k : b[i] = s[k + i]
      OBVIOUS
  <1> HIDE DEF a, b
  <1>3. /\ a \o b \in Seq(T) /\ Len(a \o b) = Len(s) - 1
        /\ \A i \in 1 .. Len(s) - 1 : (a \o b)[i] = IF i < k THEN a[i] ELSE b[i - (k - 1)]
    <2>1. a \o b \in Seq(T) /\ Len(a \o b) = Len(a) + Len(b)
        BY <1>1, <1>2, ConcatProperties
    <2>. QED  BY <1>1, <1>2, <2>1, ConcatProperties
  <1>4. ASSUME NEW i \in 1 .. Len(s) - 1
        PROVE  (a \o b)[i] = s[IF i < k THEN i ELSE i + 1]
      BY <1>1, <1>3, <1>2
  <1>. QED  BY <1>3, <1>4 DEF RemoveAt, a, b

LEMMA SmallestIn ==
  ASSUME NEW T, T \subseteq Nat, T # {}
  PROVE  \E n \in T : \A m \in T : n <= m
  <1>1. PICK n \in T : \A m \in T : ~ (<<m, n>> \in OpToRel(<, Nat))
      BY NatLessThanWellFounded, WFMin
  <1>2. ASSUME NEW m \in T PROVE n <= m
    <2>1. m \in Nat /\ n \in Nat
        OBVIOUS
    <2>2. ~ (m < n)
        BY <1>1, <2>1 DEF OpToRel
    <2>. QED  BY <2>1, <2>2
  <1>. QED  BY <1>2

LEMMA RemovedFirst ==
  ASSUME NEW T, NEW s \in Seq(T), NEW e \in Range(s)
  PROVE  \E k \in 1 .. Len(s) :
           /\ s[k] = e
           /\ RemoveFirst(s, e) \in Seq(T)
           /\ Len(RemoveFirst(s, e)) = Len(s) - 1
           /\ \A i \in 1 .. Len(s) - 1 : RemoveFirst(s, e)[i] = s[IF i < k THEN i ELSE i + 1]
  <1> DEFINE I == {i \in 1 .. Len(s) : s[i] = e}
             k == Min(I)
  <1>1. \E i \in 1 .. Len(s) : s[i] = e
      BY InRange
  <1>2. I \subseteq Nat /\ I # {}
      BY <1>1
  <1>3. k \in I
      BY <1>2, SmallestIn DEF Min
  <1>4. RemoveFirst(s, e) = RemoveAt(s, k)
      BY <1>1 DEF RemoveFirst, SelectInSeq
  <1> HIDE DEF k
  <1>. QED  BY <1>4, <1>3, RemovedAt

(* What is left of a list without repetitions. *)
LEMMA LeftOver ==
  ASSUME NEW T, NEW s \in Seq(T), IsInjective(s), NEW e \in Range(s)
  PROVE  /\ IsInjective(RemoveFirst(s, e))
         /\ Range(RemoveFirst(s, e)) = Range(s) \ {e}
  <1> DEFINE t == RemoveFirst(s, e)
  <1>1. PICK k \in 1 .. Len(s) :
          /\ s[k] = e /\ t \in Seq(T) /\ Len(t) = Len(s) - 1
          /\ \A i \in 1 .. Len(s) - 1 : t[i] = s[IF i < k THEN i ELSE i + 1]
      BY RemovedFirst, ZenonT(30)
  <1> HIDE DEF t
  <1>2. \A i, j \in 1 .. Len(s) : s[i] = s[j] => i = j
      BY DEF IsInjective
  <1>3. Len(s) \in Nat /\ DOMAIN t = 1 .. Len(s) - 1
      BY <1>1
  <1>4. \A i \in 1 .. Len(s) - 1 : (IF i < k THEN i ELSE i + 1) \in 1 .. Len(s) \ {k}
      BY <1>3
  <1>5. \A i, j \in 1 .. Len(s) - 1 : t[i] = t[j] => i = j
    <2> SUFFICES ASSUME NEW i \in 1 .. Len(s) - 1, NEW j \in 1 .. Len(s) - 1, t[i] = t[j]
                 PROVE  i = j
        OBVIOUS
    <2>. QED  BY <1>3, <1>1, <1>2, <1>4
  <1>6. \A x : /\ x \in Range(s) <=> \E i \in 1 .. Len(s) : s[i] = x
               /\ x \in Range(t) <=> \E i \in 1 .. Len(s) - 1 : t[i] = x
      BY <1>1, InRange
  <1>7. ASSUME NEW x \in Range(s), x # e PROVE x \in Range(t)
    <2>1. PICK j \in 1 .. Len(s) : s[j] = x
        BY <1>6
    <2>2. j # k
        BY <1>1, <1>7, <2>1
    <2>3. CASE j < k
        BY <1>1, <1>3, <2>1, <2>3, <1>6
    <2>4. CASE j > k
      <3>1. j - 1 \in 1 .. Len(s) - 1 /\ ~ (j - 1 < k) /\ (j - 1) + 1 = j
          BY <1>3, <2>4
      <3>. QED  BY <1>6, <3>1, <1>1, <2>1
    <2>. QED  BY <1>3, <2>2, <2>3, <2>4
  <1>8. Range(t) = Range(s) \ {e}
      BY <1>7, <1>1, <1>2, <1>4, <1>6
  <1>. QED  BY <1>8, <1>3, <1>5 DEF t, IsInjective

-----------------------------------------------------------------------------
(***************************************************************************)
(* A datagram passes through one queue after another.  c is the row of     *)
(* these queues, the last one first; InOrder(c, R) says that of any two    *)
(* things in them the one that is ahead is in relation R to the other.     *)
(***************************************************************************)
InOrder(c, R) ==
  \A a, b \in DOMAIN c : \A i \in DOMAIN c[a], j \in DOMAIN c[b] :
    a < b \/ (a = b /\ i < j) => <<c[a][i], c[b][j]>> \in R

(* t is the end of s. *)
IsEnd(t, s) == \E k \in Nat : \A i \in DOMAIN t : i + k \in DOMAIN s /\ t[i] = s[i + k]

LEMMA Ends ==
  ASSUME NEW T, NEW s \in Seq(T)
  PROVE  /\ IsEnd(s, s)
         /\ IsEnd(<< >>, s)
         /\ s # << >> => IsEnd(Tail(s), s)
         /\ \A n \in Nat : n <= Len(s) => /\ SubSeq(s, n + 1, Len(s)) \in Seq(T)
                                          /\ Len(SubSeq(s, n + 1, Len(s))) = Len(s) - n
                                          /\ \A i \in 1 .. Len(s) - n : SubSeq(s, n + 1, Len(s))[i] = s[i + n]
                                          /\ IsEnd(SubSeq(s, n + 1, Len(s)), s)
  <1>1. IsEnd(s, s)
    <2>1. \A i \in DOMAIN s : i + 0 \in DOMAIN s /\ s[i] = s[i + 0]
        OBVIOUS
    <2>. QED  BY <2>1 DEF IsEnd
  <1>2. IsEnd(<< >>, s)
      BY DEF IsEnd
  <1>3. ASSUME s # << >> PROVE IsEnd(Tail(s), s)
      BY <1>3, TailOf DEF IsEnd
  <1>4. ASSUME NEW n \in Nat, n <= Len(s)
        PROVE  /\ SubSeq(s, n + 1, Len(s)) \in Seq(T)
               /\ Len(SubSeq(s, n + 1, Len(s))) = Len(s) - n
               /\ \A i \in 1 .. Len(s) - n : SubSeq(s, n + 1, Len(s))[i] = s[i + n]
               /\ IsEnd(SubSeq(s, n + 1, Len(s)), s)
    <2> DEFINE t == SubSeq(s, n + 1, Len(s))
    <2>1. /\ t \in Seq(T) /\ Len(t) = Len(s) - n /\ Len(s) \in Nat
          /\ \A i \in 1 .. Len(s) - n : t[i] = s[i + n]
        BY <1>4
    <2> HIDE DEF t
    <2>2. \A i \in DOMAIN t : i + n \in DOMAIN s /\ t[i] = s[i + n]
        BY <2>1, <1>4
    <2>. QED  BY <2>1, <2>2 DEF t, IsEnd
  <1>. QED  BY <1>1, <1>2, <1>3, <1>4

(* Things are taken from the heads of the queues. *)
LEMMA OrderKept ==
  ASSUME NEW n \in Nat, NEW T, NEW R,
         NEW c \in [1 .. n -> Seq(T)], NEW d \in [1 .. n -> Seq(T)],
         InOrder(c, R), \A a \in 1 .. n : IsEnd(d[a], c[a])
  PROVE  InOrder(d, R)
  <1> SUFFICES ASSUME NEW a \in 1 .. n, NEW b \in 1 .. n,
                      NEW i \in DOMAIN d[a], NEW j \in DOMAIN d[b],
                      a < b \/ (a = b /\ i < j)
               PROVE  <<d[a][i], d[b][j]>> \in R
      BY DEF InOrder
  <1>0. \A p, q \in 1 .. n : \A x \in DOMAIN c[p], y \in DOMAIN c[q] :
          p < q \/ (p = q /\ x < y) => <<c[p][x], c[q][y]>> \in R
      BY DEF InOrder
  <1>1. PICK k \in Nat : \A e \in DOMAIN d[a] : e + k \in DOMAIN c[a] /\ d[a][e] = c[a][e + k]
      BY DEF IsEnd
  <1>2. PICK l \in Nat : \A e \in DOMAIN d[b] : e + l \in DOMAIN c[b] /\ d[b][e] = c[b][e + l]
      BY DEF IsEnd
  <1>3. CASE a < b
    <2>1. <<c[a][i + k], c[b][j + l]>> \in R
        BY <1>0, <1>1, <1>2, <1>3
    <2>. QED  BY <2>1, <1>1, <1>2
  <1>4. CASE a = b /\ i < j
    <2>1. j + k \in DOMAIN c[a] /\ d[a][j] = c[a][j + k] /\ i + k < j + k
        BY <1>1, <1>4
    <2>. QED  BY <1>1, <1>4, <2>1, <1>0
  <1>. QED  BY <1>3, <1>4

(* A thing joins a queue, perhaps from the head of one behind it. *)
Joins(n, T, R, c, d, a, e) ==
  /\ n \in Nat /\ a \in 1 .. n /\ e \in T
  /\ c \in [1 .. n -> Seq(T)] /\ d \in [1 .. n -> Seq(T)]
  /\ InOrder(c, R)
  /\ d[a] = Append(c[a], e)
  /\ \A b \in 1 .. n : b # a => IsEnd(d[b], c[b])
  /\ \A b \in 1 .. n : \A i \in DOMAIN d[b] :
       /\ b < a => <<d[b][i], e>> \in R
       /\ a < b => <<e, d[b][i]>> \in R
  /\ \A i \in DOMAIN c[a] : <<c[a][i], e>> \in R

LEMMA OrderJoined ==
  ASSUME NEW n, NEW T, NEW R, NEW c, NEW d, NEW a, NEW e, Joins(n, T, R, c, d, a, e)
  PROVE  InOrder(d, R)
  <1> USE DEF Joins
  <1> DEFINE u == [d EXCEPT ![a] = c[a]]
  <1>1. /\ u \in [1 .. n -> Seq(T)] /\ u[a] = c[a]
        /\ \A b \in 1 .. n : b # a => u[b] = d[b]
      OBVIOUS
  <1>2. c[a] \in Seq(T)
      OBVIOUS
  <1>3. IsEnd(c[a], c[a])
      BY <1>2, Ends
  <1> HIDE DEF u
  <1>4. InOrder(u, R)
      BY <1>1, <1>3, OrderKept
  <1>5. /\ Len(c[a]) \in Nat /\ DOMAIN c[a] = 1 .. Len(c[a]) /\ DOMAIN d[a] = 1 .. Len(d[a])
        /\ d[a][Len(c[a]) + 1] = e
        /\ \A i \in DOMAIN c[a] : d[a][i] = c[a][i]
        /\ \A i \in DOMAIN d[a] : i \in DOMAIN c[a] \/ i = Len(c[a]) + 1
      BY <1>2, AppendTo
  <1> SUFFICES ASSUME NEW b1 \in 1 .. n, NEW b2 \in 1 .. n,
                      NEW i \in DOMAIN d[b1], NEW j \in DOMAIN d[b2],
                      b1 < b2 \/ (b1 = b2 /\ i < j)
               PROVE  <<d[b1][i], d[b2][j]>> \in R
      BY DEF InOrder
  <1>6. CASE b1 = a /\ b2 = a
    <2>1. i \in DOMAIN c[a] /\ i < j
        BY <1>5, <1>6
    <2>2. CASE j \in DOMAIN c[a]
        BY <1>1, <1>4, <1>5, <1>6, <2>1, <2>2 DEF InOrder
    <2>3. CASE j = Len(c[a]) + 1
        BY <1>5, <1>6, <2>1, <2>3
    <2>. QED  BY <1>5, <1>6, <2>2, <2>3
  <1>7. CASE b1 = a /\ b2 # a
      BY <1>1, <1>4, <1>5, <1>7, ZenonT(30) DEF InOrder
  <1>8. CASE b1 # a /\ b2 = a
      BY <1>1, <1>4, <1>5, <1>8 DEF InOrder
  <1>9. CASE b1 # a /\ b2 # a
      BY <1>1, <1>4, <1>9 DEF InOrder
  <1>. QED  BY <1>6, <1>7, <1>8, <1>9

(* To the others, e is what h is. *)
StandsFor(e, h, T, R) ==
  \A x \in T : /\ <<x, h>> \in R => <<x, e>> \in R
               /\ <<h, x>> \in R => <<e, x>> \in R

(* The head of a queue goes to the end of the one ahead of it, as e. *)
Moves(n, T, R, c, d, a, e) ==
  /\ n \in Nat /\ a \in 1 .. n /\ a + 1 \in 1 .. n /\ e \in T
  /\ c \in [1 .. n -> Seq(T)] /\ d \in [1 .. n -> Seq(T)]
  /\ InOrder(c, R)
  /\ c[a + 1] # << >> /\ StandsFor(e, Head(c[a + 1]), T, R)
  /\ d[a] = Append(c[a], e) /\ d[a + 1] = Tail(c[a + 1])
  /\ \A b \in 1 .. n : b # a /\ b # a + 1 => d[b] = c[b]

LEMMA OrderMoved ==
  ASSUME NEW n, NEW T, NEW R, NEW c, NEW d, NEW a, NEW e, Moves(n, T, R, c, d, a, e)
  PROVE  InOrder(d, R)
  <1> USE DEF Moves
  <1> DEFINE h == Head(c[a + 1])
  <1>1. /\ c[a] \in Seq(T) /\ c[a + 1] \in Seq(T) /\ h = c[a + 1][1]
        /\ 1 \in DOMAIN c[a + 1]
        /\ \A i \in DOMAIN d[a + 1] : i + 1 \in DOMAIN c[a + 1] /\ d[a + 1][i] = c[a + 1][i + 1] /\ 1 < i + 1
      BY TailOf, SMTT(30)
  <1>2. \A b \in 1 .. n : b # a => IsEnd(d[b], c[b])
    <2> SUFFICES ASSUME NEW b \in 1 .. n, b # a PROVE IsEnd(d[b], c[b])
        OBVIOUS
    <2>1. IsEnd(c[b], c[b]) /\ (c[b] # << >> => IsEnd(Tail(c[b]), c[b]))
        BY Ends
    <2>2. CASE b = a + 1
        BY <2>1, <2>2
    <2>3. CASE b # a + 1
        BY <2>1, <2>3
    <2>. QED  BY <2>2, <2>3
  <1>3. \A x \in T : /\ <<x, h>> \in R => <<x, e>> \in R
                     /\ <<h, x>> \in R => <<e, x>> \in R
      BY DEF StandsFor
  <1> HIDE DEF h
  <1>0. \A b \in 1 .. n : \A i \in DOMAIN d[b] : d[b][i] \in T
    <2> SUFFICES ASSUME NEW b \in 1 .. n, NEW i \in DOMAIN d[b] PROVE d[b][i] \in T
        OBVIOUS
    <2>. QED  OBVIOUS
  <1>4. \A i \in DOMAIN c[a] : <<c[a][i], e>> \in R
    <2>1. a < a + 1
        OBVIOUS
    <2>2. \A i \in DOMAIN c[a] : c[a][i] \in T
        BY <1>1
    <2>. QED  BY <1>3, <2>2, <1>1, <2>1 DEF InOrder
  <1>5. ASSUME NEW b \in 1 .. n, NEW i \in DOMAIN d[b], b < a PROVE <<d[b][i], e>> \in R
    <2>1. d[b] = c[b] /\ b < a + 1
        BY <1>5
    <2>. QED  BY <1>0, <1>3, <1>1, <1>5, <2>1 DEF InOrder
  <1>6. ASSUME NEW b \in 1 .. n, NEW i \in DOMAIN d[b], a < b PROVE <<e, d[b][i]>> \in R
    <2>1. CASE b = a + 1
        BY <1>1, <2>1, <1>0, <1>3 DEF InOrder
    <2>2. CASE b # a + 1
      <3>1. d[b] = c[b] /\ a + 1 < b
          BY <1>6, <2>2
      <3>. QED  BY <1>0, <1>3, <1>1, <1>6, <3>1 DEF InOrder
    <2>. QED  BY <2>1, <2>2
  <1>. QED  BY <1>2, <1>4, <1>5, <1>6, OrderJoined DEF Joins

-----------------------------------------------------------------------------
(***************************************************************************)
(* What can be where.  Sane are the datagrams somebody sends; the          *)
(* sequencer gets none but those of joiners, and answers no others.        *)
(***************************************************************************)
Sane ==
  {d \in Datagrams :
     /\ d.kind \in {"JOIN", "LEAVE"} => d.who \in Joiners /\ d.from = d.who
     /\ d.kind = "LINE" => d.who \in Proc /\ d.from \in {d.who, S}
     /\ d.kind = "REDIRECT" => d.who \in Proc
     /\ d.kind \in {"OK", "COUNT", "USER", "LEAVESEQ"} => d.from = S
     /\ d.kind \in {"ENTRY", "NEWUSER", "LEFT"} => d.from = S /\ d.who \in Joiners}

Requests == {d \in Sane : d.from \in Joiners}
KeptAt(k, key) ==
  {d \in Requests : k = IF d.kind \in {"LINE", "LEAVE"} THEN key[d.who] ELSE d.who}
Relays == {d \in Sane : d.from = S /\ (d.kind = "REDIRECT" \/ (d.kind = "LINE" /\ d.who \in Joiners))}
Own(p) == {d \in Sane : d.from = p /\ d.who = p /\ d.kind \in {"LINE", "LEAVE", "LEAVESEQ"}}

Shifts == [key : Keys \cup {Nobody}, of : Joiners \cup {Nobody}, at : Nat]

Scalars ==
  /\ crossed \in BOOLEAN
  /\ typed \in [Proc -> Nat]
  /\ bye \in [Proc -> {"no", "dead", "pushed", "sent"}]
  /\ sent \in [Proc -> BOOLEAN]
  /\ stage \in [Proc -> {"out", "in", "gone"} \cup Joining]
  /\ theirAddress \in Joiners \cup {Nobody}
  /\ pending \in Joiners \cup {Nobody}
  /\ sendAt \in Nat \ {0}
  /\ strayed \subseteq Joiners
  /\ lineKey \in [Joiners -> LineKeys]
  /\ leaderAddress \in [Joiners -> Proc]
  /\ known \in [Joiners -> SUBSET (Proc \cup {Nobody})]
  /\ no_of_members \in [Joiners -> Int]
  /\ shift \in Shifts

Lists == /\ userList \in Seq(Joiners) /\ IsInjective(userList)
         /\ beyond \in Seq(Joiners) /\ memberList \in Seq(Joiners)

Boxed(b) == b \in [Proc -> Seq(Sane)] /\ b[S] \in Seq(Requests)

Origins ==
  /\ Boxed(box)
  /\ sendQueue \in [Proc -> Seq(Sane)] /\ (\A p \in Proc : sendQueue[p] \in Seq(Own(p)))
  /\ fairQMap \in [Keys -> Seq(Sane)] /\ (\A k \in Keys : fairQMap[k] \in Seq(KeptAt(k, lineKey)))
  /\ receiveQueue \in [Joiners -> Seq(Sane)]
  /\ shown \in [Joiners -> Seq(Sane)]
  /\ relayed \in Seq(Relays)

Stages ==
  /\ stage[S] \in {"in", "gone"}
  /\ \A p \in Proc : ~Up(p) => box[p] = << >>
  /\ \A p \in Proc : stage[p] \notin {"in", "gone"} =>
       bye[p] = "no" /\ sendQueue[p] = << >> /\ typed[p] = 0
  /\ \A m \in Joiners :
       /\ stage[m] \notin {"in", "gone"} => receiveQueue[m] = << >> /\ known[m] = {}
       /\ stage[m] \in {"users", "entries"} => no_of_members[m] >= 1
       /\ stage[m] = "out" => shown[m] = << >>

Serving ==
  /\ (\E k \in Keys : fairQMap[k] # << >>) \/ pending # Nobody => theirAddress \in Joiners
  /\ pending # Nobody => burst.left = << >>
  /\ burst \in [to : Joiners \cup {Nobody}, left : Seq(Seq(Sane))]
  /\ burst.left = << >> <=> burst.to = Nobody
  /\ Len(burst.left) \in 0 .. 3
  /\ \A i \in 1 .. Len(burst.left) :
       burst.left[i] = Welcome(memberList)[3 - Len(burst.left) + i]

Base == Scalars /\ Lists /\ Origins /\ Stages /\ Serving

USE DEF netVars, typeVars, workVars, seqVars, joinVars, listVars, chatVars

LEMMA Kinds1 ==
  /\ S \in Proc /\ Joiners \subseteq Proc /\ S \notin Joiners /\ Nobody \notin Proc
  /\ \A p \in Proc : p = S \/ p \in Joiners
  /\ Requests \subseteq Sane /\ Relays \subseteq Sane /\ Sane \subseteq Datagrams
  /\ \A p : Own(p) \subseteq Sane
  /\ \A k, key : KeptAt(k, key) \subseteq Requests
  BY QueueChatAssumption DEF Proc, Requests, Relays, Own, KeptAt, Sane

LEMMA BaseTypes == Base => TypeOK
  <1> SUFFICES ASSUME Base PROVE TypeOK
      OBVIOUS
  <1>1. \A s \in Seq(Sane) : s \in Seq(Datagrams)
      BY Kinds1, Wider
  <1>2. burst \in [to : Joiners \cup {Nobody}, left : Seq(Seq(Datagrams))]
      BY <1>1 DEF Base, Serving
  <1>. QED  BY <1>2, <1>1, Kinds1, Wider DEF Base, Scalars, Lists, TypeOK, Origins, Boxed, Shifts

LEMMA InitBase == Init => Base
  <1> SUFFICES ASSUME Init PROVE Base
      OBVIOUS
  <1>e. \A T : << >> \in Seq(T) /\ Len(<< >>) = 0
      OBVIOUS
  <1>s. /\ crossed \in BOOLEAN /\ sent \in [Proc -> BOOLEAN] /\ typed \in [Proc -> Nat]
        /\ theirAddress = Nobody /\ pending = Nobody /\ sendAt = 1 /\ strayed = {}
        /\ lineKey \in [Joiners -> LineKeys] /\ leaderAddress \in [Joiners -> Proc]
        /\ shift \in Shifts
      BY QueueChatAssumption DEF Init, NoShift, Shifts
  <1>1. Scalars
      BY <1>s DEF Scalars, Init
  <1>2. Lists
      BY <1>e DEF Init, Lists, IsInjective
  <1>3. Origins
      BY <1>e, Kinds1 DEF Init, Origins, Boxed
  <1>4. Stages
      BY Kinds1 DEF Init, Stages, Up
  <1>5. Serving
      BY <1>e DEF Init, Serving
  <1>. QED  BY <1>1, <1>2, <1>3, <1>4, <1>5 DEF Base

LEMMA TypeBase ==
  ASSUME Base, NEW p \in Proc, Type(p) \/ EndInput(p) \/ PushLeave(p)
  PROVE  Base'
  <1> USE DEF Type, EndInput, PushLeave
  <1>b. /\ typed \in [Proc -> Nat] /\ sent \in [Proc -> BOOLEAN]
        /\ bye \in [Proc -> {"no", "dead", "pushed", "sent"}]
        /\ sendQueue \in [Proc -> Seq(Sane)] /\ \A q \in Proc : sendQueue[q] \in Seq(Own(q))
      BY DEF Base, Scalars, Origins
  <1>t. bye' \in [Proc -> {"no", "dead", "pushed", "sent"}]
      BY <1>b
  <1>u. sent' \in [Proc -> BOOLEAN]
      BY <1>b
  <1>1. Scalars'
    <2>1. /\ typed' \in [Proc -> Nat]
          /\ UNCHANGED <<crossed, stage, theirAddress, pending, shift, sendAt, strayed, lineKey,
                         leaderAddress, known, no_of_members>>
        BY <1>b
    <2> HIDE DEF Type, EndInput, PushLeave
    <2>. QED  BY <2>1, <1>t, <1>u DEF Base, Scalars
  <1>2. Lists'
      BY DEF Base, Lists
  <1>l. \A n \in Nat : Datagram("LINE", p, n, p) \in Own(p) /\ Leaving(p) \in Own(p)
      BY Kinds1 DEF Datagram, Own, Sane, Datagrams, Kinds, Leaving
  <1>q. \E d \in Own(p) : sendQueue' = sendQueue \/ sendQueue' = [sendQueue EXCEPT ![p] = Append(@, d)]
      BY <1>b, <1>l
  <1>3. Origins'
    <2>1. PICK d \in Own(p) : \/ sendQueue' = sendQueue
                               \/ sendQueue' = [sendQueue EXCEPT ![p] = Append(sendQueue[p], d)]
        BY <1>q
    <2>2. Append(sendQueue[p], d) \in Seq(Sane) /\ Append(sendQueue[p], d) \in Seq(Own(p))
        BY <1>b, Kinds1
    <2>3. UNCHANGED <<box, fairQMap, lineKey, receiveQueue, shown, relayed>>
        OBVIOUS
    <2> HIDE DEF Type, EndInput, PushLeave
    <2>. QED  BY <2>3, <1>b, <2>1, <2>2 DEF Base, Origins, Boxed
  <1>4. Stages'
      BY <1>b DEF Base, Stages, Up
  <1>. QED  BY <1>1, <1>2, <1>3, <1>4 DEF Base, Serving

LEMMA DeliverBoxed ==
  ASSUME NEW b, Boxed(b), NEW P, NEW d \in Sane, S \in P => d \in Requests
  PROVE  /\ Boxed(Deliver(b, P, d))
         /\ \A p \in Proc :
              Deliver(b, P, d)[p] = IF p \in P /\ Up(p) THEN Append(b[p], d) ELSE b[p]
  <1>1. Deliver(b, P, d) \in [Proc -> Seq(Sane)]
    <2> DEFINE New(p) == IF p \in P /\ Up(p) THEN Append(b[p], d) ELSE b[p]
    <2>1. \A p \in Proc : New(p) \in Seq(Sane)
        BY DEF Boxed
    <2>2. Deliver(b, P, d) = [p \in Proc |-> New(p)]
        BY DEF Deliver
    <2> HIDE DEF New
    <2>. QED  BY <2>1, <2>2
  <1>. QED  BY <1>1, Kinds1 DEF Boxed, Deliver

(* The other ways in which a buffer changes: of p's, an end is left. *)
LEMMA EndBoxed ==
  ASSUME Boxed(box), NEW p \in Proc
  PROVE  /\ Boxed(Emptied(p)) /\ Emptied(p)[p] = << >>
         /\ \A q \in Proc : q # p => Emptied(p)[q] = box[q]
         /\ box[p] # << >> => /\ Boxed(Popped(p)) /\ Popped(p)[p] = Tail(box[p])
                              /\ \A q \in Proc : q # p => Popped(p)[q] = box[q]
  <1>. QED  BY Kinds1 DEF Boxed, Emptied, Popped

LEMMA PopSentBase ==
  ASSUME Base, NEW p \in Proc, sendQueue[p] # << >>, PopSent(p)
  PROVE  /\ Head(sendQueue[p]) \in Own(p)
         /\ sendQueue' \in [Proc -> Seq(Sane)] /\ \A q \in Proc : sendQueue'[q] \in Seq(Own(q))
         /\ sent' \in [Proc -> BOOLEAN]
         /\ bye' \in [Proc -> {"no", "dead", "pushed", "sent"}]
         /\ \A q \in Proc : q # p => bye'[q] = bye[q] /\ sendQueue'[q] = sendQueue[q]
         /\ sendQueue'[p] = Tail(sendQueue[p])
         /\ bye'[p] = IF Head(sendQueue[p]).kind = "LINE" THEN bye[p] ELSE "sent"
         /\ typed' = typed
  <1>. QED  BY SMTT(30) DEF PopSent, Base, Scalars, Origins

(* Stages' for a step that leaves the stages alone. *)
LEMMA StagesStay ==
  ASSUME Base, UNCHANGED <<stage, typed, no_of_members>>,
         \A p \in Proc : ~Up(p) => box'[p] = box[p],
         \A p \in Proc : stage[p] \notin {"in", "gone"} =>
           bye'[p] = bye[p] /\ sendQueue'[p] = sendQueue[p],
         \A m \in Joiners : stage[m] \notin {"in", "gone"} =>
           receiveQueue'[m] = receiveQueue[m] /\ known'[m] = known[m] /\ shown'[m] = shown[m]
  PROVE  Stages'
  BY DEF Base, Stages, Up

(* What sendMessage finds in an entry, a removal under way or not. *)
LEMMA WalkedIn ==
  ASSUME Base, NEW i \in 1 .. Len(userList)
  PROVE  Walked(i) \in Joiners \cup {Nobody} /\ Walked(i) # S
  <1> DEFINE b == Append(beyond, Nobody)
             T == Joiners \cup {Nobody}
  <1>1. userList \in Seq(Joiners) /\ beyond \in Seq(Joiners) /\ S \notin T
      BY QueueChatAssumption DEF Base, Lists, Proc
  <1>2. userList \in Seq(T) /\ b \in Seq(T) /\ Len(b) = Len(beyond) + 1
    <2>1. beyond \in Seq(T) /\ userList \in Seq(T) /\ Nobody \in T
        BY <1>1, Wider
    <2>. QED  BY <2>1, AppendTo
  <1> HIDE DEF b
  <1>3. (userList \o b)[i + 1] \in T
    <2>1. userList \o b \in Seq(T) /\ Len(userList \o b) = Len(userList) + Len(b)
        BY <1>2, ConcatProperties
    <2>2. i + 1 \in 1 .. Len(userList \o b)
        BY <2>1, <1>2, <1>1
    <2> HIDE DEF T
    <2>. QED  BY <2>1, <2>2
  <1>. QED  BY <1>1, <1>3 DEF Walked, b

LEMMA SeqSendDoes ==
  ASSUME Base, SeqSend
  PROVE  /\ stage[S] = "in" /\ sendQueue[S] # << >>
         /\ UNCHANGED <<crossed, stage, seqVars, joinVars, leaderAddress, chatVars>>
         /\ \/ /\ sendAt \in 1 .. Len(userList)
               /\ Walked(sendAt) \in Joiners \cup {Nobody} /\ Walked(sendAt) # S
               /\ box' = Deliver(box, {Walked(sendAt)}, Head(sendQueue[S]))
               /\ sendAt' = sendAt + 1
               /\ UNCHANGED typeVars
            \/ PopSent(S) /\ sendAt' = 1 /\ box' = box
  <1>1. sendAt \in Nat \ {0} /\ Len(userList) \in Nat
      BY DEF Base, Scalars, Lists
  <1>2. CASE sendAt <= Len(userList)
    <2>1. sendAt \in 1 .. Len(userList)
        BY <1>1, <1>2
    <2>. QED  BY <1>2, <2>1, WalkedIn DEF SeqSend
  <1>3. CASE ~(sendAt <= Len(userList))
      BY <1>3 DEF SeqSend
  <1>. QED  BY <1>2, <1>3

LEMMA SeqSendBase ==
  ASSUME Base, SeqSend
  PROVE  Base'
  <1>1. /\ stage[S] = "in" /\ sendQueue[S] # << >>
        /\ UNCHANGED <<crossed, stage, seqVars, joinVars, leaderAddress, chatVars>>
        /\ \/ /\ sendAt \in 1 .. Len(userList) /\ Walked(sendAt) # S
              /\ box' = Deliver(box, {Walked(sendAt)}, Head(sendQueue[S]))
              /\ sendAt' = sendAt + 1
              /\ UNCHANGED typeVars
           \/ PopSent(S) /\ sendAt' = 1 /\ box' = box
      BY SeqSendDoes
  <1>2. Lists'
      BY <1>1 DEF Base, Lists
  <1>3. Serving'
      BY <1>1 DEF Base, Serving
  <1>4. CASE /\ sendAt \in 1 .. Len(userList) /\ Walked(sendAt) # S
             /\ box' = Deliver(box, {Walked(sendAt)}, Head(sendQueue[S]))
             /\ sendAt' = sendAt + 1
             /\ UNCHANGED typeVars
    <2>1. Head(sendQueue[S]) \in Sane /\ Boxed(box)
        BY <1>1, Kinds1 DEF Base, Origins
    <2>2. /\ Boxed(box')
          /\ \A p \in Proc : box'[p] = IF p \in {Walked(sendAt)} /\ Up(p)
                                       THEN Append(box[p], Head(sendQueue[S])) ELSE box[p]
        BY <1>4, <2>1, DeliverBoxed, Kinds1
    <2>3. Scalars'
        BY <1>1, <1>4 DEF Base, Scalars
    <2>. QED  BY <1>2, <1>3, <2>3, <1>1, <1>4, <2>2, StagesStay DEF Base, Origins
  <1>5. CASE PopSent(S) /\ sendAt' = 1 /\ box' = box
    <2>1. /\ sendQueue' \in [Proc -> Seq(Sane)] /\ \A q \in Proc : sendQueue'[q] \in Seq(Own(q))
          /\ sent' \in [Proc -> BOOLEAN]
          /\ bye' \in [Proc -> {"no", "dead", "pushed", "sent"}]
          /\ \A q \in Proc : q # S => bye'[q] = bye[q] /\ sendQueue'[q] = sendQueue[q]
          /\ typed' = typed
        BY <1>1, <1>5, PopSentBase, Kinds1
    <2>. QED  BY <1>2, <1>3, <1>1, <1>5, <2>1, StagesStay DEF Base, Origins, Scalars
  <1>. QED  BY <1>1, <1>4, <1>5

LEMMA TestDeadBase ==
  ASSUME Base, NEW p \in Proc, TestDead(p)
  PROVE  Base'
  <1>1. /\ UNCHANGED <<crossed, typeVars, seqVars, sendAt, joinVars, leaderAddress, chatVars>>
        /\ stage[p] = "in" /\ stage' = [stage EXCEPT ![p] = "gone"] /\ box' = Emptied(p)
      BY DEF TestDead
  <1>2. Boxed(box)
      BY DEF Base, Origins
  <1>3. /\ Boxed(box') /\ box'[p] = << >>
        /\ \A q \in Proc : q # p => box'[q] = box[q]
      BY <1>1, <1>2, EndBoxed
  <1>4. Lists'
      BY <1>1 DEF Base, Lists
  <1>5. Serving'
      BY <1>1 DEF Base, Serving
  <1>. QED  BY <1>4, <1>5, <1>1, <1>3, Kinds1 DEF Base, Scalars, Stages, Up, Origins

LEMMA SeqReceiveDoes ==
  ASSUME Base, SeqReceive
  PROVE  \E d \in Requests :
           /\ d = Head(box[S]) /\ d.from \in Joiners
           /\ Key(d) \in Keys /\ d \in KeptAt(Key(d), lineKey)
           /\ stage[S] = "in" /\ box[S] # << >>
           /\ theirAddress' = d.from
           /\ fairQMap' \in [Keys -> Seq(Sane)]
           /\ fairQMap'[Key(d)] = Append(fairQMap[Key(d)], d)
           /\ \A k \in Keys : k # Key(d) => fairQMap'[k] = fairQMap[k]
           /\ Boxed(box') /\ box'[S] = Tail(box[S])
           /\ \A p \in Proc : p # S => box'[p] = box[p]
           /\ UNCHANGED <<crossed, typeVars, stage, shift, workVars, sendAt, joinVars, leaderAddress, chatVars>>
  <1> DEFINE d == Head(box[S])
  <1>1. Boxed(box) /\ box[S] \in Seq(Requests) /\ box[S] # << >>
      BY DEF Base, Origins, Boxed, SeqReceive
  <1>2. d \in Requests
      BY <1>1
  <1>3. lineKey \in [Joiners -> LineKeys] /\ fairQMap \in [Keys -> Seq(Sane)]
      BY DEF Base, Scalars, Origins
  <1>4. d.from \in Joiners /\ Key(d) \in Keys /\ d \in KeptAt(Key(d), lineKey)
      BY <1>2, <1>3, Kinds1 DEF Requests, Sane, Datagrams, Key, Keys, Kinds, KeptAt
  <1>5. /\ theirAddress' = d.from /\ box' = Popped(S)
        /\ fairQMap' = [fairQMap EXCEPT ![Key(d)] = Append(@, d)]
        /\ stage[S] = "in"
        /\ UNCHANGED <<crossed, typeVars, stage, shift, workVars, sendAt, joinVars, leaderAddress, chatVars>>
      BY DEF SeqReceive
  <1>6. /\ Boxed(box') /\ box'[S] = Tail(box[S])
        /\ \A p \in Proc : p # S => box'[p] = box[p]
      BY <1>1, <1>5, Kinds1, EndBoxed
  <1> HIDE DEF d
  <1>7. d \in Sane
      BY <1>2, Kinds1
  <1>. QED  BY <1>1, <1>2, <1>4, <1>5, <1>6, <1>3, <1>7 DEF d

LEMMA SeqReceiveBase ==
  ASSUME Base, SeqReceive
  PROVE  Base'
  <1>1. PICK d \in Requests :
          /\ d.from \in Joiners
          /\ Key(d) \in Keys /\ d \in KeptAt(Key(d), lineKey)
          /\ stage[S] = "in"
          /\ theirAddress' = d.from
          /\ fairQMap' \in [Keys -> Seq(Sane)]
          /\ fairQMap'[Key(d)] = Append(fairQMap[Key(d)], d)
          /\ \A k \in Keys : k # Key(d) => fairQMap'[k] = fairQMap[k]
          /\ Boxed(box')
          /\ \A p \in Proc : p # S => box'[p] = box[p]
          /\ UNCHANGED <<crossed, typeVars, stage, shift, workVars, sendAt, joinVars, leaderAddress, chatVars>>
      BY SeqReceiveDoes
  <1>2. Origins'
    <2>1. \A k \in Keys : fairQMap[k] \in Seq(KeptAt(k, lineKey))
        BY DEF Base, Origins
    <2>2. \A k \in Keys : fairQMap'[k] \in Seq(KeptAt(k, lineKey))
        BY <1>1, <2>1, SMTT(30)
    <2>3. /\ sendQueue' = sendQueue /\ receiveQueue' = receiveQueue
          /\ shown' = shown /\ relayed' = relayed /\ lineKey' = lineKey
        BY <1>1
    <2>4. Boxed(box') /\ fairQMap' \in [Keys -> Seq(Sane)]
        BY <1>1
    <2>. QED  BY <2>2, <2>3, <2>4 DEF Base, Origins
  <1>3. Stages'
      BY <1>1, StagesStay DEF Up
  <1>. QED  BY <1>2, <1>3, <1>1 DEF Base, Scalars, Serving, Lists

(* The datagram seqProcessMessage takes. *)
LEMMA ServeDoes ==
  ASSUME Base, NEW k \in Keys, NEW d \in Range(fairQMap[k]), Serve(k, d)
  PROVE  /\ d \in KeptAt(k, lineKey) /\ d \in Requests /\ d \in Sane
         /\ d.kind \in {"JOIN", "LEAVE", "LINE", "REDIRECT"}
         /\ d.who \in Proc /\ (d.kind # "REDIRECT" => d.who \in Joiners)
         /\ fairQMap[k] # << >> /\ d = Head(fairQMap[k])
         /\ fairQMap' \in [Keys -> Seq(Sane)]
         /\ \A l \in Keys : fairQMap'[l] \in Seq(KeptAt(l, lineKey))
         /\ fairQMap'[k] = Tail(fairQMap[k])
         /\ \A l \in Keys : l # k => fairQMap'[l] = fairQMap[l]
         /\ stage[S] = "in" /\ pending = Nobody /\ burst.left = << >> /\ burst.to = Nobody
         /\ theirAddress \in Joiners
         /\ UNCHANGED <<typeVars, theirAddress, burst, sendAt, joinVars, leaderAddress, chatVars>>
  <1>1. /\ fairQMap[k] # << >> /\ d = Head(fairQMap[k])
        /\ fairQMap' = [fairQMap EXCEPT ![k] = Tail(@)]
        /\ stage[S] = "in" /\ pending = Nobody /\ burst.left = << >>
        /\ UNCHANGED <<typeVars, theirAddress, burst, sendAt, joinVars, leaderAddress, chatVars>>
      BY DEF Serve
  <1>2. theirAddress \in Joiners /\ burst.to = Nobody
      BY <1>1 DEF Base, Serving
  <1>. QED  BY <1>1, <1>2, Kinds1 DEF Requests, Sane, Datagrams, Kinds, Base, Origins

LEMMA Answers ==
  /\ Datagram("OK", Nobody, 0, S) \in Sane
  /\ \A n \in Nat : Datagram("COUNT", Nobody, n, S) \in Sane
  /\ Datagram("USER", Nobody, 0, S) \in Sane
  /\ \A x \in Joiners : \A k \in {"ENTRY", "NEWUSER", "LEFT"} : Datagram(k, x, 0, S) \in Sane
  /\ \A x \in Joiners : Datagram("JOIN", x, 0, x) \in Requests
  /\ \A x \in Joiners, p \in Proc : Datagram("REDIRECT", p, 0, x) \in Requests
  BY Kinds1 DEF Datagram, Requests, Sane, Datagrams, Kinds

LEMMA Relaying ==
  ASSUME NEW d \in Requests, d.kind \notin {"JOIN", "LEAVE"}
  PROVE  /\ [d EXCEPT !.from = S] \in Relays /\ [d EXCEPT !.from = S] \in Sane
         /\ [d EXCEPT !.from = S].kind = d.kind /\ [d EXCEPT !.from = S].who = d.who
         /\ [d EXCEPT !.from = S].n = d.n /\ [d EXCEPT !.from = S].from = S
  <1>. QED  BY Kinds1 DEF Relays, Sane, Datagrams, Kinds, Requests

LEMMA Welcomes ==
  ASSUME NEW list \in Seq(Joiners)
  PROVE  /\ Welcome(list) \in Seq(Seq(Sane)) /\ Len(Welcome(list)) = 3
         /\ Welcome(list)[1] = <<Datagram("COUNT", Nobody, Len(list), S)>>
         /\ Welcome(list)[2] = [i \in 1 .. Len(list) |-> Datagram("USER", Nobody, 0, S)]
         /\ Welcome(list)[3] = [i \in 1 .. Len(list) |-> Datagram("ENTRY", list[i], 0, S)]
  <1>. QED  BY Answers DEF Welcome

(* Origins' for a step that leaves the members' and the senders' queues. *)
LEMMA ServeOrigins ==
  ASSUME Base, NEW k \in Keys, NEW d \in Range(fairQMap[k]), Serve(k, d),
         Boxed(box'), relayed' \in Seq(Relays)
  PROVE  Origins'
  <1>. QED  BY ServeDoes DEF Base, Origins

LEMMA ServeJoinBase ==
  ASSUME Base, NEW k \in Keys, ServeJoin(k)
  PROVE  Base'
  <1>1. PICK d \in Range(fairQMap[k]) :
          /\ d.kind = "JOIN" /\ Serve(k, d)
          /\ SendTo(box, theirAddress, Datagram("OK", Nobody, 0, S), d.who)
          /\ pending' = d.who
          /\ UNCHANGED <<stage, userList, beyond, shift, memberList, relayed>>
      BY DEF ServeJoin
  <1>2. /\ d.who \in Joiners /\ theirAddress \in Joiners
        /\ burst.left = << >>
        /\ UNCHANGED <<typeVars, theirAddress, burst, sendAt, joinVars, leaderAddress, chatVars>>
      BY <1>1, ServeDoes
  <1>3. /\ box' = Deliver(box, {theirAddress}, Datagram("OK", Nobody, 0, S))
        /\ crossed' \in BOOLEAN
      BY <1>1 DEF Base, Scalars, SendTo
  <1>4. /\ Boxed(box')
        /\ \A p \in Proc : ~Up(p) => box'[p] = box[p]
    <2>1. S \notin {theirAddress} /\ Boxed(box)
        BY <1>2, Kinds1 DEF Base, Origins
    <2>. QED  BY <1>3, <2>1, DeliverBoxed, Answers
  <1>. QED
      BY <1>1, <1>2, <1>3, <1>4, ServeOrigins, StagesStay DEF Base, Scalars, Serving, Origins, Lists

LEMMA ServeLineDoes ==
  ASSUME Base, NEW k \in Keys, ServeLine(k)
  PROVE  \E d \in Range(fairQMap[k]) :
           /\ Serve(k, d)
           /\ d.kind \in {"LINE", "REDIRECT"}
           /\ [d EXCEPT !.from = S] \in Relays /\ [d EXCEPT !.from = S] \in Sane
           /\ [d EXCEPT !.from = S].kind = d.kind /\ [d EXCEPT !.from = S].who = d.who
           /\ [d EXCEPT !.from = S].n = d.n /\ [d EXCEPT !.from = S].from = S
           /\ relayed' = Append(relayed, [d EXCEPT !.from = S])
           /\ Boxed(box')
           /\ \A p \in Proc : box'[p] = IF p \in Range(userList) /\ Up(p)
                                        THEN Append(box[p], [d EXCEPT !.from = S]) ELSE box[p]
           /\ UNCHANGED <<crossed, stage, userList, beyond, shift, memberList, pending>>
  <1>1. PICK d \in Range(fairQMap[k]) :
          /\ d.kind \notin {"JOIN", "LEAVE"} /\ Serve(k, d)
          /\ relayed' = Append(relayed, [d EXCEPT !.from = S])
          /\ box' = Deliver(box, Range(userList), [d EXCEPT !.from = S])
          /\ UNCHANGED <<crossed, stage, userList, beyond, shift, memberList, pending>>
      BY DEF ServeLine
  <1>2. d \in Requests /\ d.kind \in {"LINE", "REDIRECT"}
      BY <1>1, ServeDoes
  <1>3. /\ [d EXCEPT !.from = S] \in Relays /\ [d EXCEPT !.from = S] \in Sane
        /\ [d EXCEPT !.from = S].kind = d.kind /\ [d EXCEPT !.from = S].who = d.who
        /\ [d EXCEPT !.from = S].n = d.n /\ [d EXCEPT !.from = S].from = S
      BY <1>2, Relaying
  <1>4. Boxed(box) /\ S \notin Range(userList)
      BY InRange, Kinds1 DEF Base, Lists, Origins
  <1>5. /\ Boxed(box')
        /\ \A p \in Proc : box'[p] = IF p \in Range(userList) /\ Up(p)
                                     THEN Append(box[p], [d EXCEPT !.from = S]) ELSE box[p]
    <2> DEFINE r == [d EXCEPT !.from = S]
    <2> HIDE DEF r
    <2>. QED  BY <1>4, <1>1, <1>3, DeliverBoxed DEF r
  <1>. QED  BY <1>1, <1>2, <1>3, <1>5

LEMMA ServeLineBase ==
  ASSUME Base, NEW k \in Keys, ServeLine(k)
  PROVE  Base'
  <1>1. PICK d \in Range(fairQMap[k]) :
           /\ Serve(k, d)
           /\ [d EXCEPT !.from = S] \in Relays
           /\ relayed' = Append(relayed, [d EXCEPT !.from = S])
           /\ Boxed(box')
           /\ \A p \in Proc : box'[p] = IF p \in Range(userList) /\ Up(p)
                                        THEN Append(box[p], [d EXCEPT !.from = S]) ELSE box[p]
           /\ UNCHANGED <<crossed, stage, userList, beyond, shift, memberList, pending>>
      BY ServeLineDoes
  <1>2. UNCHANGED <<typeVars, theirAddress, burst, sendAt, joinVars, leaderAddress, chatVars>>
        /\ theirAddress \in Joiners
      BY <1>1, ServeDoes
  <1>3. relayed' \in Seq(Relays)
      BY <1>1 DEF Base, Origins
  <1>4. Origins'
      BY <1>1, <1>3, ServeOrigins
  <1>. QED  BY <1>4, <1>1, <1>2, StagesStay DEF Base, Scalars, Serving, Lists

LEMMA ShiftedList ==
  ASSUME NEW T, NEW s \in Seq(T), IsInjective(s), NEW a
  PROVE  Shifted(s, a) \in Seq(T) /\ IsInjective(Shifted(s, a))
  <1>1. CASE a \in Range(s)
      BY <1>1, RemovedFirst, LeftOver DEF Shifted
  <1>2. CASE a \notin Range(s) /\ s = << >>
      BY <1>2 DEF Shifted
  <1>3. CASE a \notin Range(s) /\ s # << >>
    <2>1. Front(s) = SubSeq(s, 1, Len(s) - 1) /\ Len(s) \in Nat \ {0}
        BY <1>3 DEF Front
    <2>2. /\ Front(s) \in Seq(T) /\ Len(Front(s)) = Len(s) - 1
          /\ \A i \in 1 .. Len(s) - 1 : Front(s)[i] = s[i]
      <3>1. \A k \in 1 .. Len(s) : /\ SubSeq(s, 1, k - 1) \in Seq(T)
                                   /\ Len(SubSeq(s, 1, k - 1)) = k - 1
                                   /\ \A i \in 1 .. k - 1 : SubSeq(s, 1, k - 1)[i] = s[i]
          OBVIOUS
      <3>2. Len(s) \in 1 .. Len(s)
          BY <2>1
      <3>. QED  BY <2>1, <3>1, <3>2
    <2>. QED  BY <1>3, <2>2, <2>1 DEF Shifted, IsInjective
  <1>. QED  BY <1>1, <1>2, <1>3

LEMMA BeyondList ==
  ASSUME beyond \in Seq(Joiners), NEW s \in Seq(Joiners), NEW a
  PROVE  LeftBeyond(s, a) \in Seq(Joiners)
  <1>1. \A x \in Joiners : <<x>> \o beyond \in Seq(Joiners)
      OBVIOUS
  <1>2. (beyond # << >> => Head(beyond) \in Joiners) /\ (s # << >> => Last(s) \in Joiners)
      BY DEF Last
  <1>. QED  BY <1>1, <1>2 DEF LeftBeyond

LEMMA ServeLeaveDoes ==
  ASSUME Base, NEW k \in Keys, ServeLeave(k)
  PROVE  \E d \in Range(fairQMap[k]) :
           /\ Serve(k, d) /\ d.kind = "LEAVE"
           /\ shift.key = k /\ shift.at = Len(userList)
           /\ userList' = Shifted(userList, shift.of)
           /\ userList' \in Seq(Joiners) /\ IsInjective(userList')
           /\ beyond' = LeftBeyond(userList, shift.of) /\ beyond' \in Seq(Joiners)
           /\ shift' = NoShift
           /\ memberList' \in Seq(Joiners)
           /\ crossed' = (crossed \/ shift.of # d.who)
           /\ Boxed(box')
           /\ \/ /\ shift.of \in Range(memberList) /\ shift.of \in Joiners
                 /\ memberList' = RemoveFirst(memberList, shift.of)
                 /\ \A p \in Proc : box'[p] =
                      IF p \in Range(userList') /\ Up(p)
                      THEN Append(box[p], Datagram("LEFT", shift.of, 0, S)) ELSE box[p]
                 /\ UNCHANGED stage
              \/ /\ shift.of \notin Range(memberList)
                 /\ stage' = [stage EXCEPT ![S] = "gone"]
                 /\ box'[S] = << >> /\ \A p \in Proc : p # S => box'[p] = box[p]
                 /\ UNCHANGED memberList
           /\ UNCHANGED <<pending, relayed>>
  <1>1. PICK d \in Range(fairQMap[k]) :
          /\ d.kind = "LEAVE" /\ Serve(k, d)
          /\ shift.key = k /\ shift.at = Len(userList)
          /\ userList' = Shifted(userList, shift.of)
          /\ beyond' = LeftBeyond(userList, shift.of) /\ shift' = NoShift
          /\ crossed' = (crossed \/ shift.of # d.who)
          /\ IF shift.of \in Range(memberList)
             THEN /\ memberList' = RemoveFirst(memberList, shift.of)
                  /\ box' = Deliver(box, Range(userList'), Datagram("LEFT", shift.of, 0, S))
                  /\ UNCHANGED stage
             ELSE /\ stage' = [stage EXCEPT ![S] = "gone"]
                  /\ box' = Emptied(S)
                  /\ UNCHANGED memberList
          /\ UNCHANGED <<pending, relayed>>
      BY DEF ServeLeave
  <1>2. /\ userList \in Seq(Joiners) /\ IsInjective(userList) /\ memberList \in Seq(Joiners)
        /\ Boxed(box)
      BY DEF Base, Lists, Origins
  <1>3. userList' \in Seq(Joiners) /\ IsInjective(userList') /\ beyond' \in Seq(Joiners)
      BY <1>1, <1>2, ShiftedList, BeyondList DEF Base, Lists
  <1>4. CASE shift.of \in Range(memberList)
    <2> DEFINE r == Datagram("LEFT", shift.of, 0, S)
               P == Range(userList')
    <2>0. shift.of \in Joiners
        BY <1>2, <1>4, InRange
    <2>1. r \in Sane /\ box' = Deliver(box, P, r) /\ S \notin P
        BY <1>1, <1>4, <1>3, <2>0, Answers, InRange, Kinds1
    <2> HIDE DEF r, P
    <2>. QED  BY <1>1, <1>3, <1>4, <1>2, <2>0, <2>1, DeliverBoxed, RemovedFirst, SMTT(30) DEF r, P
  <1>5. CASE shift.of \notin Range(memberList)
    <2>1. Boxed(box') /\ box'[S] = << >> /\ \A p \in Proc : p # S => box'[p] = box[p]
        BY <1>1, <1>5, <1>2, EndBoxed, Kinds1
    <2>. QED  BY <1>1, <1>2, <1>5, <1>3, <2>1
  <1>. QED  BY <1>4, <1>5

LEMMA ServeLeaveBase ==
  ASSUME Base, NEW k \in Keys, ServeLeave(k)
  PROVE  Base'
  <1>1. PICK d \in Range(fairQMap[k]) :
           /\ Serve(k, d)
           /\ userList' \in Seq(Joiners) /\ IsInjective(userList')
           /\ beyond' \in Seq(Joiners) /\ shift' = NoShift
           /\ memberList' \in Seq(Joiners)
           /\ crossed' = (crossed \/ shift.of # d.who)
           /\ Boxed(box')
           /\ \/ /\ \A p \in Proc : box'[p] =
                      IF p \in Range(userList') /\ Up(p)
                      THEN Append(box[p], Datagram("LEFT", shift.of, 0, S)) ELSE box[p]
                 /\ UNCHANGED stage
              \/ /\ stage' = [stage EXCEPT ![S] = "gone"]
                 /\ box'[S] = << >> /\ \A p \in Proc : p # S => box'[p] = box[p]
           /\ UNCHANGED <<pending, relayed>>
      BY ServeLeaveDoes
  <1>2. /\ UNCHANGED <<typeVars, theirAddress, burst, sendAt, joinVars, leaderAddress, chatVars>>
        /\ theirAddress \in Joiners /\ burst.left = << >> /\ stage[S] = "in"
        /\ pending = Nobody
      BY <1>1, ServeDoes
  <1>3. /\ stage' \in [Proc -> {"out", "in", "gone"} \cup Joining]
        /\ crossed' \in BOOLEAN
        /\ shift' \in Shifts
      BY <1>1 DEF Base, Scalars, NoShift, Shifts
  <1>4. Lists'
      BY <1>1 DEF Lists
  <1>5. Stages'
    <2>1. CASE /\ \A p \in Proc : box'[p] =
                    IF p \in Range(userList') /\ Up(p)
                    THEN Append(box[p], Datagram("LEFT", shift.of, 0, S)) ELSE box[p]
               /\ UNCHANGED stage
        BY <1>2, <2>1, StagesStay
    <2>2. CASE /\ stage' = [stage EXCEPT ![S] = "gone"]
               /\ box'[S] = << >> /\ \A p \in Proc : p # S => box'[p] = box[p]
        BY <2>2, <1>2, Kinds1 DEF Base, Scalars, Stages, Up
    <2>. QED  BY <1>1, <2>1, <2>2
  <1>6. Serving'
      BY <1>2, <1>1, Kinds1 DEF Base, Serving
  <1>. QED  BY <1>4, <1>5, <1>6, <1>1, <1>2, <1>3, ServeOrigins DEF Base, Origins, Scalars

LEMMA MulticastDoes ==
  ASSUME Base, Multicast
  PROVE  /\ stage[S] = "in" /\ pending \in Joiners /\ theirAddress \in Joiners
         /\ burst.left = << >>
         /\ \/ theirAddress \notin Range(userList) /\ userList' = Append(userList, theirAddress)
            \/ theirAddress \in Range(userList) /\ userList' = userList
         /\ userList' \in Seq(Joiners) /\ IsInjective(userList')
         /\ beyond' \in Seq(Joiners) /\ (beyond = << >> => beyond' = << >>)
         /\ memberList' = Append(memberList, pending) /\ memberList' \in Seq(Joiners)
         /\ burst' = [to |-> theirAddress, left |-> Welcome(memberList')]
         /\ pending' = Nobody
         /\ crossed' = (crossed \/ theirAddress # pending)
         /\ Boxed(box')
         /\ \A p \in Proc : box'[p] =
              IF theirAddress \notin Range(userList) /\ p \in Range(userList) /\ Up(p)
              THEN Append(box[p], Datagram("NEWUSER", pending, 0, S)) ELSE box[p]
         /\ UNCHANGED <<typeVars, stage, theirAddress, fairQMap, shift, relayed, sendAt, joinVars,
                        leaderAddress, chatVars>>
  <1>1. /\ userList \in Seq(Joiners) /\ IsInjective(userList) /\ memberList \in Seq(Joiners)
        /\ Boxed(box) /\ pending \in Joiners /\ theirAddress \in Joiners /\ burst.left = << >>
        /\ beyond' \in Seq(Joiners) /\ (beyond = << >> => beyond' = << >>)
      BY DEF Base, Scalars, Lists, Origins, Serving, Multicast
  <1>2. Append(userList, theirAddress) \in Seq(Joiners) /\ Append(memberList, pending) \in Seq(Joiners)
      BY <1>1
  <1>3. ASSUME theirAddress \notin Range(userList)
        PROVE  IsInjective(Append(userList, theirAddress))
      BY <1>1, <1>3, <1>2, InRange, AppendTo DEF IsInjective
  <1> DEFINE P == IF theirAddress \notin Range(userList) THEN Range(userList) ELSE {}
             r == Datagram("NEWUSER", pending, 0, S)
  <1> HIDE DEF r, P
  <1>. QED  BY <1>1, <1>2, <1>3, DeliverBoxed, Answers, InRange, Kinds1 DEF P, r, Multicast

LEMMA MulticastBase ==
  ASSUME Base, Multicast
  PROVE  Base'
  <1>1. /\ pending \in Joiners /\ theirAddress \in Joiners
        /\ userList' \in Seq(Joiners) /\ IsInjective(userList') /\ memberList' \in Seq(Joiners)
        /\ beyond' \in Seq(Joiners)
        /\ burst' = [to |-> theirAddress, left |-> Welcome(memberList')]
        /\ pending' = Nobody
        /\ crossed' = (crossed \/ theirAddress # pending)
        /\ Boxed(box')
        /\ \A p \in Proc : ~Up(p) => box'[p] = box[p]
        /\ UNCHANGED <<typeVars, stage, theirAddress, fairQMap, shift, relayed, sendAt, joinVars,
                       leaderAddress, chatVars>>
      BY MulticastDoes
  <1>2. Lists'
      BY <1>1 DEF Lists
  <1>3. Stages'
      BY <1>1, StagesStay
  <1>4. Serving'
    <2> DEFINE w == Welcome(memberList')
    <2>1. w \in Seq(Seq(Sane)) /\ Len(w) = 3
        BY <1>1, Welcomes
    <2> HIDE DEF w
    <2>2. w # << >> /\ theirAddress # Nobody /\ 3 \in 0 .. 3
      <3>1. w # << >>
          BY <2>1, NoneLeft
      <3>. QED  BY <3>1, <1>1, Kinds1
    <2>3. \A i \in 1 .. 3 : w[i] = w[3 - 3 + i]
        OBVIOUS
    <2>. QED  BY <1>1, <2>1, <2>2, <2>3 DEF Base, Serving, w
  <1>. QED  BY <1>2, <1>3, <1>4, <1>1 DEF Base, Scalars, Origins

LEMMA WelcomingDoes ==
  ASSUME Base, Welcoming
  PROVE  /\ stage[S] = "in" /\ pending = Nobody
         /\ burst.to \in Joiners /\ burst.left # << >> /\ Len(burst.left) \in 1 .. 3
         /\ Head(burst.left) = Welcome(memberList)[4 - Len(burst.left)]
         /\ Head(burst.left) \in Seq(Sane)
         /\ Boxed(box')
         /\ \A p \in Proc : box'[p] = IF p = burst.to /\ Up(p)
                                      THEN box[p] \o Head(burst.left) ELSE box[p]
         /\ \/ /\ Len(burst.left) = 1
               /\ burst' = [to |-> Nobody, left |-> << >>]
            \/ /\ Len(burst.left) \in 2 .. 3
               /\ burst' = [burst EXCEPT !.left = Tail(burst.left)]
               /\ burst'.to = burst.to /\ burst'.left = Tail(burst.left)
         /\ UNCHANGED <<crossed, typeVars, stage, theirAddress, fairQMap, userList, beyond,
                        shift, memberList, pending, relayed, sendAt, joinVars,
                        leaderAddress, chatVars>>
  <1>1. /\ stage[S] = "in" /\ burst.left # << >>
        /\ box' = IF Up(burst.to) THEN [box EXCEPT ![burst.to] = @ \o Head(burst.left)] ELSE box
        /\ burst' = IF Len(burst.left) = 1 THEN [to |-> Nobody, left |-> << >>]
                    ELSE [burst EXCEPT !.left = Tail(@)]
        /\ UNCHANGED <<crossed, typeVars, stage, theirAddress, fairQMap, userList, beyond,
                       shift, memberList, pending, relayed, sendAt, joinVars,
                       leaderAddress, chatVars>>
      BY DEF Welcoming
  <1>2. /\ pending \in Joiners \cup {Nobody} /\ (pending # Nobody => burst.left = << >>)
        /\ burst \in [to : Joiners \cup {Nobody}, left : Seq(Seq(Sane))]
        /\ (burst.left = << >> <=> burst.to = Nobody)
        /\ Len(burst.left) \in 0 .. 3
        /\ \A i \in 1 .. Len(burst.left) :
             burst.left[i] = Welcome(memberList)[3 - Len(burst.left) + i]
      BY DEF Base, Scalars, Serving
  <1>3. pending = Nobody /\ burst.to \in Joiners /\ burst.left \in Seq(Seq(Sane))
      BY <1>1, <1>2
  <1>4. /\ Len(burst.left) \in 1 .. 3
        /\ Head(burst.left) = burst.left[1] /\ burst.left[1] \in Seq(Sane)
      BY <1>1, <1>3, <1>2
  <1>5. Head(burst.left) = Welcome(memberList)[4 - Len(burst.left)]
      BY <1>4, <1>2
  <1>6. /\ Boxed(box')
        /\ \A p \in Proc : box'[p] = IF p = burst.to /\ Up(p)
                                     THEN box[p] \o Head(burst.left) ELSE box[p]
    <2> DEFINE w == Head(burst.left)
               t == burst.to
    <2> HIDE DEF w, t
    <2>. QED  BY <1>1, <1>3, <1>4, ConcatProperties, Kinds1 DEF w, t, Boxed, Base, Origins
  <1>. QED  BY <1>1, <1>3, <1>4, <1>5, <1>6, <1>2

LEMMA WelcomingBase ==
  ASSUME Base, Welcoming
  PROVE  Base'
  <1>1. /\ pending = Nobody
        /\ burst.to \in Joiners /\ burst.left # << >> /\ Len(burst.left) \in 1 .. 3
        /\ Boxed(box')
        /\ \A p \in Proc : box'[p] = IF p = burst.to /\ Up(p)
                                     THEN box[p] \o Head(burst.left) ELSE box[p]
        /\ \/ /\ Len(burst.left) = 1
              /\ burst' = [to |-> Nobody, left |-> << >>]
           \/ /\ Len(burst.left) \in 2 .. 3
              /\ burst' = [burst EXCEPT !.left = Tail(burst.left)]
              /\ burst'.to = burst.to /\ burst'.left = Tail(burst.left)
        /\ UNCHANGED <<crossed, typeVars, stage, theirAddress, fairQMap, userList, beyond,
                       shift, memberList, pending, relayed, sendAt, joinVars,
                       leaderAddress, chatVars>>
      BY WelcomingDoes
  <1>2. Stages'
      BY <1>1, StagesStay
  <1>3. Serving'
    <2>0. /\ burst \in [to : Joiners \cup {Nobody}, left : Seq(Seq(Sane))]
          /\ burst.left \in Seq(Seq(Sane))
          /\ \A i \in 1 .. Len(burst.left) :
               burst.left[i] = Welcome(memberList)[3 - Len(burst.left) + i]
        BY DEF Base, Serving
    <2>1. CASE burst' = [to |-> Nobody, left |-> << >>]
        BY <2>1, <1>1 DEF Base, Serving
    <2>2. CASE /\ Len(burst.left) \in 2 .. 3
               /\ burst' = [burst EXCEPT !.left = Tail(burst.left)]
               /\ burst'.to = burst.to /\ burst'.left = Tail(burst.left)
      <3> DEFINE l == burst.left
      <3>1. l \in Seq(Seq(Sane)) /\ l # << >> /\ Len(l) \in 2 .. 3
          BY <1>1, <2>0, <2>2
      <3> HIDE DEF l
      <3>2. /\ Tail(l) \in Seq(Seq(Sane)) /\ Len(Tail(l)) = Len(l) - 1
            /\ \A i \in 1 .. Len(Tail(l)) : Tail(l)[i] = l[i + 1] /\ i + 1 \in 1 .. Len(l)
          BY <3>1, TailOf
      <3>3. Tail(l) # << >> /\ Len(Tail(l)) \in 0 .. 3
        <4>1. Len(Tail(l)) \in 1 .. 2
            BY <3>1, <3>2
        <4>2. Len(Tail(l)) # 0 /\ Len(Tail(l)) \in 0 .. 3
            BY <4>1
        <4>3. Tail(l) # << >>
          <5> DEFINE r == Tail(l)
          <5>1. r \in Seq(Seq(Sane)) /\ Len(r) # 0
              BY <3>2, <4>2
          <5> HIDE DEF r
          <5>2. r # << >>
              BY <5>1
          <5>. QED  BY <5>2 DEF r
        <4>. QED  BY <4>2, <4>3
      <3>4. \A i \in 1 .. Len(Tail(l)) :
              Tail(l)[i] = Welcome(memberList)[3 - Len(Tail(l)) + i]
        <4> SUFFICES ASSUME NEW i \in 1 .. Len(Tail(l))
                     PROVE  Tail(l)[i] = Welcome(memberList)[3 - Len(Tail(l)) + i]
            OBVIOUS
        <4>1. 3 - Len(l) + (i + 1) = 3 - Len(Tail(l)) + i
            BY <3>1, <3>2
        <4>. QED  BY <3>2, <4>1, <2>0 DEF l
      <3>. QED  BY <1>1, <3>3, <3>4, <2>0, <2>2, <3>2, Kinds1 DEF Base, Serving, l
    <2>. QED  BY <1>1, <2>1, <2>2
  <1>. QED  BY <1>2, <1>3, <1>1 DEF Base, Scalars, Origins, Lists

LEMMA AskDoes ==
  ASSUME Base, NEW m \in Joiners, Ask(m)
  PROVE  /\ stage[m] = "out"
         /\ stage' \in [Proc -> {"out", "in", "gone"} \cup Joining]
         /\ stage'[m] = "reply" /\ \A p \in Proc : p # m => stage'[p] = stage[p]
         /\ Datagram("JOIN", m, 0, m) \in Requests /\ Contact[m] \in Proc /\ Contact[m] # m
         /\ Boxed(box')
         /\ \A p \in Proc : box'[p] = IF p = Contact[m] /\ Up(p)
                                      THEN Append(box[p], Datagram("JOIN", m, 0, m)) ELSE box[p]
         /\ UNCHANGED <<crossed, typeVars, seqVars, sendAt, joinVars, leaderAddress, chatVars>>
  <1>1. /\ Contact[m] \in Proc /\ Contact[m] # m
        /\ Boxed(box) /\ stage \in [Proc -> {"out", "in", "gone"} \cup Joining]
      BY QueueChatAssumption DEF Base, Origins, Scalars
  <1>2. Datagram("JOIN", m, 0, m) \in Requests
      BY Answers
  <1> DEFINE r == Datagram("JOIN", m, 0, m)
             a == Contact[m]
  <1> HIDE DEF r, a
  <1>. QED  BY <1>1, <1>2, Kinds1, DeliverBoxed DEF r, a, Joining, Ask

LEMMA AskBase ==
  ASSUME Base, NEW m \in Joiners, Ask(m)
  PROVE  Base'
  <1>1. /\ stage[m] = "out"
        /\ stage' \in [Proc -> {"out", "in", "gone"} \cup Joining]
        /\ stage'[m] = "reply" /\ \A p \in Proc : p # m => stage'[p] = stage[p]
        /\ Boxed(box')
        /\ \A p \in Proc : ~Up(p) => box'[p] = box[p]
        /\ UNCHANGED <<crossed, typeVars, seqVars, sendAt, joinVars, leaderAddress, chatVars>>
      BY AskDoes
  <1>2. Stages'
      BY <1>1, Kinds1 DEF Base, Stages, Up
  <1>. QED  BY <1>2, <1>1 DEF Base, Scalars, Origins, Serving, Lists

LEMMA GiveUpDoes ==
  ASSUME Base, NEW m \in Joiners, GiveUp(m)
  PROVE  /\ stage[m] = "reply" /\ box[m] = << >>
         /\ stage' \in [Proc -> {"out", "in", "gone"} \cup Joining]
         /\ stage'[m] = "gone" /\ \A p \in Proc : p # m => stage'[p] = stage[p]
         /\ UNCHANGED <<netVars, typeVars, seqVars, sendAt, joinVars, leaderAddress, chatVars>>
  <1>. QED  BY Kinds1 DEF GiveUp, Base, Scalars

LEMMA GiveUpBase ==
  ASSUME Base, NEW m \in Joiners, GiveUp(m)
  PROVE  Base'
  <1>1. /\ stage[m] = "reply" /\ box[m] = << >>
        /\ stage' \in [Proc -> {"out", "in", "gone"} \cup Joining]
        /\ stage'[m] = "gone" /\ \A p \in Proc : p # m => stage'[p] = stage[p]
        /\ UNCHANGED <<netVars, typeVars, seqVars, sendAt, joinVars, leaderAddress, chatVars>>
      BY GiveUpDoes
  <1>. QED  BY <1>1, Kinds1, ZenonT(30) DEF Base, Scalars, Origins, Boxed, Serving, Stages, Up, Lists

LEMMA TakeRedirectDoes ==
  ASSUME Base, NEW m \in Joiners, TakeRedirect(m)
  PROVE  /\ stage[m] = "reply" /\ box[m] # << >>
         /\ Head(box[m]).kind = "REDIRECT" /\ Head(box[m]) \in Sane /\ Head(box[m]).who \in Proc
         /\ Boxed(box')
         /\ \A p \in Proc : box'[p] = IF p = Head(box[m]).who /\ Up(p)
                                      THEN Append(Emptied(m)[p], Datagram("JOIN", m, 0, m))
                                      ELSE Emptied(m)[p]
         /\ Emptied(m)[m] = << >> /\ \A p \in Proc : p # m => Emptied(m)[p] = box[p]
         /\ leaderAddress' \in [Joiners -> Proc] /\ leaderAddress'[m] = Head(box[m]).who
         /\ \A p \in Joiners : p # m => leaderAddress'[p] = leaderAddress[p]
         /\ UNCHANGED <<crossed, typeVars, stage, seqVars, sendAt, joinVars, chatVars>>
  <1> DEFINE d == Head(box[m])
             r == Datagram("JOIN", m, 0, m)
  <1>1. /\ stage[m] = "reply" /\ box[m] # << >> /\ d.kind = "REDIRECT"
        /\ box' = Deliver(Emptied(m), {d.who}, r)
        /\ leaderAddress' = [leaderAddress EXCEPT ![m] = d.who]
        /\ UNCHANGED <<crossed, typeVars, stage, seqVars, sendAt, joinVars, chatVars>>
      BY DEF TakeRedirect
  <1>2. Boxed(box) /\ leaderAddress \in [Joiners -> Proc]
      BY DEF Base, Origins, Scalars
  <1>3. d \in Sane /\ d.who \in Proc
    <2>1. d \in Sane
        BY <1>1, <1>2, Kinds1 DEF Boxed
    <2>. QED  BY <1>1, <2>1 DEF Sane
  <1> HIDE DEF r, d
  <1>. QED  BY <1>1, <1>3, <1>2, DeliverBoxed, EndBoxed, Kinds1, Answers DEF r, d

LEMMA TakeRedirectBase ==
  ASSUME Base, NEW m \in Joiners, TakeRedirect(m)
  PROVE  Base'
  <1>1. /\ stage[m] = "reply"
        /\ Boxed(box')
        /\ \A p \in Proc : ~Up(p) => box'[p] = Emptied(m)[p]
        /\ Emptied(m)[m] = << >> /\ \A p \in Proc : p # m => Emptied(m)[p] = box[p]
        /\ leaderAddress' \in [Joiners -> Proc]
        /\ UNCHANGED <<crossed, typeVars, stage, seqVars, sendAt, joinVars, chatVars>>
      BY TakeRedirectDoes
  <1>2. Stages'
      BY <1>1, StagesStay DEF Up
  <1>. QED  BY <1>2, <1>1 DEF Base, Scalars, Origins, Serving, Lists

LEMMA TakeDoes ==
  ASSUME Base, NEW m \in Joiners, NEW at \in Joining, NEW to \in {"in"} \cup Joining,
         NEW n \in Nat \ {0}, NEW Expected, Take(m, at, to, n, Expected)
  PROVE  /\ stage[m] = at /\ n <= Len(box[m]) /\ box[m] # << >>
         /\ stage' \in [Proc -> {"out", "in", "gone"} \cup Joining]
         /\ stage'[m] = to /\ \A p \in Proc : p # m => stage'[p] = stage[p]
         /\ Boxed(box') /\ box'[m] = SubSeq(box[m], n + 1, Len(box[m]))
         /\ \A p \in Proc : p # m => box'[p] = box[p]
         /\ leaderAddress' \in [Joiners -> Proc] /\ leaderAddress'[m] = box[m][n].from
         /\ \A p \in Joiners : p # m => leaderAddress'[p] = leaderAddress[p]
         /\ strayed \subseteq strayed' /\ strayed' \subseteq strayed \cup {m}
         /\ m \notin strayed' => \A i \in 1 .. n : box[m][i].kind \in Expected
         /\ Taken(m, n) \in Seq(Sane) /\ Len(Taken(m, n)) = n
         /\ \A i \in 1 .. n : Taken(m, n)[i] = box[m][i]
         /\ UNCHANGED <<crossed, typeVars, seqVars, sendAt, lineKey, receiveQueue>>
  <1>1. /\ stage[m] = at /\ box[m] # << >> /\ Len(box[m]) >= n
        /\ stage' = [stage EXCEPT ![m] = to]
        /\ box' = [box EXCEPT ![m] = SubSeq(@, n + 1, Len(@))]
        /\ leaderAddress' = [leaderAddress EXCEPT ![m] = box[m][n].from]
        /\ strayed' = IF \A i \in 1 .. n : box[m][i].kind \in Expected THEN strayed
                      ELSE strayed \cup {m}
        /\ UNCHANGED <<crossed, typeVars, seqVars, sendAt, lineKey, receiveQueue>>
      BY DEF Take
  <1>2. /\ Boxed(box) /\ leaderAddress \in [Joiners -> Proc]
        /\ stage \in [Proc -> {"out", "in", "gone"} \cup Joining]
      BY DEF Base, Origins, Scalars
  <1>3. box[m] \in Seq(Sane) /\ m # S /\ m \in Proc /\ Len(box[m]) \in Nat
      BY <1>2, Kinds1 DEF Boxed
  <1>4. n <= Len(box[m])
      BY <1>1, <1>3
  <1>5. /\ Boxed(box') /\ box'[m] = SubSeq(box[m], n + 1, Len(box[m]))
        /\ \A p \in Proc : p # m => box'[p] = box[p]
      BY <1>1, <1>2, <1>3, <1>4, Ends DEF Boxed
  <1>. QED  BY <1>1, <1>4, <1>5, <1>2, <1>3 DEF Taken, Sane, Datagrams

(* What such a step leaves to the others. *)
LEMMA TakeFrame ==
  ASSUME Base, NEW m \in Joiners, NEW at \in Joining, NEW to \in {"in"} \cup Joining,
         NEW n \in Nat \ {0}, NEW Expected, Take(m, at, to, n, Expected)
  PROVE  /\ stage[m] = at /\ stage'[m] = to
         /\ \A p \in Proc : p # m => stage'[p] = stage[p] /\ box'[p] = box[p]
         /\ UNCHANGED <<crossed, typeVars, seqVars, sendAt, lineKey, receiveQueue>>
  <1>1. /\ stage \in [Proc -> {"out", "in", "gone"} \cup Joining]
        /\ box \in [Proc -> Seq(Sane)] /\ m \in Proc
      BY Kinds1 DEF Base, Scalars, Origins, Boxed
  <1>2. /\ stage[m] = at /\ stage' = [stage EXCEPT ![m] = to]
        /\ box' = [box EXCEPT ![m] = SubSeq(@, n + 1, Len(@))]
        /\ UNCHANGED <<crossed, typeVars, seqVars, sendAt, lineKey, receiveQueue>>
      BY DEF Take
  <1>3. stage'[m] = to /\ \A p \in Proc : p # m => stage'[p] = stage[p]
      BY <1>1, <1>2
  <1>4. \A p \in Proc : p # m => box'[p] = box[p]
      BY <1>1, <1>2
  <1>. QED  BY <1>2, <1>3, <1>4

(* Base' for a step of connectChat that takes datagrams. *)
LEMMA TakeBase ==
  ASSUME Base, NEW m \in Joiners, NEW at \in Joining, NEW to \in {"in"} \cup Joining,
         NEW n \in Nat \ {0}, NEW Expected, Take(m, at, to, n, Expected),
         known' \in [Joiners -> SUBSET (Proc \cup {Nobody})],
         no_of_members' \in [Joiners -> Int],
         shown' \in [Joiners -> Seq(Sane)],
         \A k \in Joiners : k # m => /\ known'[k] = known[k] /\ no_of_members'[k] = no_of_members[k]
                                     /\ shown'[k] = shown[k],
         to # "in" => known'[m] = known[m],
         to \in {"users", "entries"} => no_of_members'[m] >= 1
  PROVE  Base'
  <1>1. /\ stage[m] = at
        /\ stage' \in [Proc -> {"out", "in", "gone"} \cup Joining]
        /\ stage'[m] = to /\ \A p \in Proc : p # m => stage'[p] = stage[p]
        /\ Boxed(box') /\ \A p \in Proc : p # m => box'[p] = box[p]
        /\ leaderAddress' \in [Joiners -> Proc]
        /\ strayed' \subseteq strayed \cup {m}
        /\ UNCHANGED <<crossed, typeVars, seqVars, sendAt, lineKey, receiveQueue>>
    <2>1. Base /\ Take(m, at, to, n, Expected)
        OBVIOUS
    <2>2. /\ stage[m] = at /\ stage'[m] = to
          /\ \A p \in Proc : p # m => stage'[p] = stage[p]
          /\ \A p \in Proc : p # m => box'[p] = box[p]
        BY <2>1, TakeFrame
    <2>3. /\ stage' \in [Proc -> {"out", "in", "gone"} \cup Joining] /\ Boxed(box')
          /\ leaderAddress' \in [Joiners -> Proc] /\ strayed' \subseteq strayed \cup {m}
        BY <2>1, TakeDoes
    <2>4. UNCHANGED <<crossed, typeVars, seqVars, sendAt, lineKey, receiveQueue>>
        BY DEF Take
    <2>. QED  BY <2>2, <2>3, <2>4
  <1>2. Stages'
    <2>1. /\ at \notin {"out", "in", "gone"} /\ to \notin {"out", "gone"}
          /\ (to = "in" \/ to \notin {"in", "gone"})
        BY DEF Joining
    <2>. QED  BY <1>1, <2>1, Kinds1, ZenonT(30) DEF Base, Stages, Up
  <1>. QED  BY <1>2, <1>1 DEF Base, Scalars, Origins, Serving, Lists

(* What each of these steps takes, and what it does with it. *)
LEMMA ShowsDoes ==
  ASSUME Base, NEW m \in Joiners, NEW ds \in Seq(Sane), Shows(m, ds)
  PROVE  /\ shown' \in [Joiners -> Seq(Sane)] /\ shown'[m] = shown[m] \o ds
         /\ \A k \in Joiners : k # m => shown'[k] = shown[k]
  <1>. QED  BY ConcatProperties DEF Shows, Base, Origins

LEMMA TakeReplyDoes ==
  ASSUME Base, NEW m \in Joiners, TakeReply(m)
  PROVE  /\ Take(m, "reply", "count", 1, {"OK"})
         /\ Head(box[m]).kind # "REDIRECT"
         /\ shown' \in [Joiners -> Seq(Sane)] /\ shown'[m] = shown[m] \o Taken(m, 1)
         /\ \A k \in Joiners : k # m => shown'[k] = shown[k]
         /\ UNCHANGED listVars
  <1>. QED  BY ShowsDoes, TakeDoes DEF Joining, TakeReply

LEMMA TakeCountDoes ==
  ASSUME Base, NEW m \in Joiners, TakeCount(m)
  PROVE  \E n \in Nat :
           /\ n = IF Head(box[m]).kind = "COUNT" THEN Head(box[m]).n ELSE 0
           /\ Take(m, "count", IF n = 0 THEN "in" ELSE "users", 1, {"COUNT"})
           /\ no_of_members' \in [Joiners -> Int] /\ no_of_members'[m] = n
           /\ \A k \in Joiners : k # m => no_of_members'[k] = no_of_members[k]
           /\ UNCHANGED <<known, shown>>
  <1> DEFINE n == IF Head(box[m]).kind = "COUNT" THEN Head(box[m]).n ELSE 0
  <1>1. /\ box[m] # << >>
        /\ Take(m, "count", IF n = 0 THEN "in" ELSE "users", 1, {"COUNT"})
        /\ no_of_members' = [no_of_members EXCEPT ![m] = n]
        /\ UNCHANGED <<known, shown>>
      BY DEF TakeCount
  <1>2. n \in Nat
    <2>1. box[m] \in Seq(Sane)
        BY Kinds1 DEF Base, Origins, Boxed
    <2>. QED  BY <1>1, <2>1 DEF Sane, Datagrams
  <1>3. no_of_members \in [Joiners -> Int] /\ n \in Int
      BY <1>2 DEF Base, Scalars
  <1> HIDE DEF n
  <1>. QED  BY <1>1, <1>2, <1>3 DEF n

LEMMA TakeUsersDoes ==
  ASSUME Base, NEW m \in Joiners, TakeUsers(m)
  PROVE  /\ no_of_members[m] \in Nat \ {0}
         /\ Take(m, "users", "entries", no_of_members[m], {"USER"})
         /\ shown' \in [Joiners -> Seq(Sane)]
         /\ shown'[m] = shown[m] \o Taken(m, no_of_members[m])
         /\ \A k \in Joiners : k # m => shown'[k] = shown[k]
         /\ UNCHANGED listVars
  <1>1. /\ Take(m, "users", "entries", no_of_members[m], {"USER"})
        /\ Shows(m, Taken(m, no_of_members[m])) /\ UNCHANGED listVars
      BY DEF TakeUsers
  <1>2. no_of_members[m] \in Nat \ {0}
      BY <1>1 DEF Take, Base, Stages, Scalars
  <1>3. Taken(m, no_of_members[m]) \in Seq(Sane)
      BY <1>1, <1>2, TakeDoes DEF Joining
  <1>. QED  BY <1>1, <1>2, <1>3, ShowsDoes

LEMMA TakeEntriesDoes ==
  ASSUME Base, NEW m \in Joiners, TakeEntries(m)
  PROVE  /\ no_of_members[m] \in Nat \ {0}
         /\ Take(m, "entries", "in", no_of_members[m], {"ENTRY"})
         /\ known[m] = {} /\ known' \in [Joiners -> SUBSET (Proc \cup {Nobody})]
         /\ known'[m] = {Named(box[m][i]) : i \in 1 .. no_of_members[m]}
         /\ \A k \in Joiners : k # m => known'[k] = known[k]
         /\ UNCHANGED <<no_of_members, shown>>
  <1> DEFINE t == Taken(m, no_of_members[m])
  <1>1. /\ Take(m, "entries", "in", no_of_members[m], {"ENTRY"})
        /\ known' = [known EXCEPT ![m] = known[m] \cup {Named(d) : d \in Range(t)}]
        /\ UNCHANGED <<no_of_members, shown>>
      BY DEF TakeEntries
  <1>2. no_of_members[m] \in Nat \ {0} /\ known[m] = {}
    <2>1. no_of_members[m] \in Int /\ no_of_members[m] >= 1 /\ known[m] = {}
        BY <1>1 DEF Base, Stages, Scalars, Take
    <2>. QED  BY <2>1
  <1>3. /\ t \in Seq(Sane) /\ Len(t) = no_of_members[m]
        /\ \A i \in 1 .. no_of_members[m] : t[i] = box[m][i]
    <2> DEFINE n == no_of_members[m]
               E == {"ENTRY"}
    <2>1. "entries" \in Joining /\ "in" \in {"in"} \cup Joining
        BY DEF Joining
    <2>2. n \in Nat \ {0} /\ Take(m, "entries", "in", n, E)
        BY <1>1, <1>2
    <2> HIDE DEF n, E
    <2>3. Taken(m, n) \in Seq(Sane) /\ Len(Taken(m, n)) = n
        BY <2>1, <2>2, TakeDoes
    <2>4. \A i \in 1 .. n : Taken(m, n)[i] = box[m][i]
        BY <2>1, <2>2, TakeDoes
    <2>. QED  BY <2>3, <2>4 DEF n
  <1> HIDE DEF t
  <1>4. \A d \in Sane : Named(d) \in Proc \cup {Nobody}
      BY DEF Sane, Datagrams, Named
  <1>5. /\ {Named(d) : d \in Range(t)} \subseteq Proc \cup {Nobody}
        /\ {Named(d) : d \in Range(t)} = {Named(box[m][i]) : i \in 1 .. no_of_members[m]}
      BY <1>4, <1>3, InRange
  <1>. QED  BY <1>1, <1>2, <1>5 DEF Base, Scalars

LEMMA ConnectChatBase ==
  ASSUME Base, NEW m \in Joiners, ConnectChat(m)
  PROVE  Base'
  <1>0. /\ shown \in [Joiners -> Seq(Sane)]
        /\ known \in [Joiners -> SUBSET (Proc \cup {Nobody})]
        /\ no_of_members \in [Joiners -> Int]
      BY DEF Base, Scalars, Origins
  <1>1. CASE TakeReply(m)
    <2>1. "reply" \in Joining /\ "count" \in {"in"} \cup Joining /\ 1 \in Nat \ {0}
          /\ "count" \notin {"users", "entries"}
        BY DEF Joining
    <2>. QED  BY <1>0, <2>1, <1>1, TakeBase, TakeReplyDoes
  <1>2. CASE TakeCount(m)
    <2>1. PICK n \in Nat :
           /\ Take(m, "count", IF n = 0 THEN "in" ELSE "users", 1, {"COUNT"})
           /\ no_of_members' \in [Joiners -> Int] /\ no_of_members'[m] = n
           /\ \A k \in Joiners : k # m => no_of_members'[k] = no_of_members[k]
           /\ known' = known /\ shown' = shown
        BY <1>2, TakeCountDoes
    <2> DEFINE to == IF n = 0 THEN "in" ELSE "users"
    <2>2. "count" \in Joining /\ to \in {"in"} \cup Joining /\ 1 \in Nat \ {0}
          /\ (to \in {"users", "entries"} => n >= 1)
        BY DEF Joining
    <2>3. Take(m, "count", to, 1, {"COUNT"})
        BY <2>1
    <2> HIDE DEF to
    <2>. QED  BY <1>0, <2>1, <2>2, <2>3, TakeBase
  <1>3. CASE TakeUsers(m)
    <2>1. /\ no_of_members[m] \in Nat \ {0}
          /\ Take(m, "users", "entries", no_of_members[m], {"USER"})
          /\ shown' \in [Joiners -> Seq(Sane)]
          /\ \A k \in Joiners : k # m => shown'[k] = shown[k]
          /\ known' = known /\ no_of_members' = no_of_members
        BY <1>3, TakeUsersDoes
    <2>2. "users" \in Joining /\ "entries" \in {"in"} \cup Joining /\ no_of_members[m] >= 1
        BY <2>1 DEF Joining
    <2>. QED  BY <1>0, <2>1, <2>2, TakeBase
  <1>4. CASE TakeEntries(m)
      BY <1>4, <1>0, TakeEntriesDoes, TakeBase DEF Joining
  <1>. QED  BY <1>1, <1>2, <1>3, <1>4, TakeRedirectBase, GiveUpBase DEF ConnectChat

LEMMA MemberSendDoes ==
  ASSUME Base, NEW m \in Joiners, MemberSend(m)
  PROVE  /\ stage[m] = "in" /\ sendQueue[m] # << >>
         /\ Head(sendQueue[m]) \in Own(m) /\ Head(sendQueue[m]) \in Requests
         /\ Head(sendQueue[m]) \in Sane
         /\ leaderAddress[m] \in Proc
         /\ Boxed(box')
         /\ \A p \in Proc : box'[p] = IF p = leaderAddress[m] /\ Up(p)
                                      THEN Append(box[p], Head(sendQueue[m])) ELSE box[p]
         /\ crossed' = (crossed \/ leaderAddress[m] # S)
         /\ PopSent(m)
         /\ UNCHANGED <<stage, seqVars, sendAt, joinVars, leaderAddress, receiveQueue, listVars, shown>>
  <1>1. /\ stage[m] = "in" /\ sendQueue[m] # << >>
        /\ box' = Deliver(box, {leaderAddress[m]}, Head(sendQueue[m]))
        /\ crossed' = (crossed \/ leaderAddress[m] # S)
        /\ PopSent(m)
        /\ UNCHANGED <<stage, seqVars, sendAt, joinVars, leaderAddress, receiveQueue, listVars, shown>>
      BY DEF MemberSend, SendTo
  <1>2. Head(sendQueue[m]) \in Own(m) /\ leaderAddress[m] \in Proc /\ Boxed(box)
      BY <1>1, PopSentBase, Kinds1 DEF Base, Scalars, Origins
  <1> DEFINE r == Head(sendQueue[m])
             a == leaderAddress[m]
  <1> HIDE DEF r, a
  <1>. QED  BY <1>1, <1>2, DeliverBoxed, Kinds1 DEF r, a, Own, Requests

LEMMA MemberSendBase ==
  ASSUME Base, NEW m \in Joiners, MemberSend(m)
  PROVE  Base'
  <1>1. /\ stage[m] = "in" /\ sendQueue[m] # << >>
        /\ Boxed(box') /\ \A p \in Proc : ~Up(p) => box'[p] = box[p]
        /\ crossed' = (crossed \/ leaderAddress[m] # S)
        /\ PopSent(m)
        /\ UNCHANGED <<stage, seqVars, sendAt, joinVars, leaderAddress, receiveQueue, listVars, shown>>
      BY MemberSendDoes
  <1>. QED  BY <1>1, StagesStay, PopSentBase, Kinds1 DEF Base, Scalars, Origins, Serving, Lists

LEMMA MemberReceiveDoes ==
  ASSUME Base, NEW m \in Joiners, MemberReceive(m)
  PROVE  /\ stage[m] = "in" /\ box[m] # << >> /\ Head(box[m]) \in Sane
         /\ leaderAddress' \in [Joiners -> Proc] /\ leaderAddress'[m] = Head(box[m]).from
         /\ \A p \in Joiners : p # m => leaderAddress'[p] = leaderAddress[p]
         /\ receiveQueue' \in [Joiners -> Seq(Sane)]
         /\ receiveQueue'[m] = Append(receiveQueue[m], Head(box[m]))
         /\ \A p \in Joiners : p # m => receiveQueue'[p] = receiveQueue[p]
         /\ Boxed(box') /\ box'[m] = Tail(box[m])
         /\ \A p \in Proc : p # m => box'[p] = box[p]
         /\ UNCHANGED <<crossed, typeVars, stage, seqVars, sendAt, joinVars, listVars, shown>>
  <1> DEFINE d == Head(box[m])
  <1>1. /\ stage[m] = "in" /\ box[m] # << >>
        /\ leaderAddress' = [leaderAddress EXCEPT ![m] = d.from]
        /\ receiveQueue' = [receiveQueue EXCEPT ![m] = Append(receiveQueue[m], d)]
        /\ box' = Popped(m)
        /\ UNCHANGED <<crossed, typeVars, stage, seqVars, sendAt, joinVars, listVars, shown>>
      BY DEF MemberReceive
  <1>2. /\ Boxed(box) /\ leaderAddress \in [Joiners -> Proc] /\ receiveQueue \in [Joiners -> Seq(Sane)]
      BY DEF Base, Origins, Scalars
  <1>3. d \in Sane /\ d.from \in Proc
    <2>1. d \in Sane
        BY <1>1, <1>2, Kinds1 DEF Boxed
    <2>. QED  BY <2>1 DEF Sane, Datagrams
  <1> HIDE DEF d
  <1>. QED  BY <1>1, <1>3, <1>2, EndBoxed, Kinds1 DEF d

LEMMA MemberReceiveBase ==
  ASSUME Base, NEW m \in Joiners, MemberReceive(m)
  PROVE  Base'
  <1>1. /\ stage[m] = "in"
        /\ leaderAddress' \in [Joiners -> Proc]
        /\ receiveQueue' \in [Joiners -> Seq(Sane)]
        /\ \A p \in Joiners : p # m => receiveQueue'[p] = receiveQueue[p]
        /\ Boxed(box')
        /\ \A p \in Proc : p # m => box'[p] = box[p]
        /\ UNCHANGED <<crossed, typeVars, stage, seqVars, sendAt, joinVars, listVars, shown>>
      BY MemberReceiveDoes
  <1>2. Stages'
      BY <1>1, StagesStay DEF Up
  <1>. QED  BY <1>2, <1>1 DEF Base, Scalars, Origins, Serving, Lists

LEMMA ProcessDoes ==
  ASSUME Base, NEW m \in Joiners, NEW d, Process(m, d)
  PROVE  /\ stage[m] = "in" /\ receiveQueue[m] # << >> /\ d = Head(receiveQueue[m]) /\ d \in Sane
         /\ receiveQueue' \in [Joiners -> Seq(Sane)]
         /\ receiveQueue'[m] = Tail(receiveQueue[m])
         /\ \A p \in Joiners : p # m => receiveQueue'[p] = receiveQueue[p]
         /\ UNCHANGED <<typeVars, seqVars, sendAt, joinVars, leaderAddress>>
  <1>. QED  BY DEF Process, Base, Origins

(* Base' for a step of memberProcessMessage that stays in the chat. *)
LEMMA ProcessBase ==
  ASSUME Base, NEW m \in Joiners, NEW d, Process(m, d), stage' = stage,
         crossed' \in BOOLEAN, Boxed(box'), \A p \in Proc : ~Up(p) => box'[p] = box[p],
         known' \in [Joiners -> SUBSET (Proc \cup {Nobody})],
         no_of_members' \in [Joiners -> Int],
         shown' \in [Joiners -> Seq(Sane)],
         \A k \in Joiners : k # m => /\ known'[k] = known[k] /\ no_of_members'[k] = no_of_members[k]
                                     /\ shown'[k] = shown[k]
  PROVE  Base'
  <1>1. /\ stage[m] = "in"
        /\ receiveQueue' \in [Joiners -> Seq(Sane)]
        /\ \A p \in Joiners : p # m => receiveQueue'[p] = receiveQueue[p]
        /\ UNCHANGED <<typeVars, seqVars, sendAt, joinVars, leaderAddress>>
      BY ProcessDoes
  <1>2. Stages'
      BY <1>1, Kinds1 DEF Base, Stages, Up
  <1>. QED  BY <1>2, <1>1 DEF Base, Scalars, Origins, Serving, Lists

LEMMA RedirectDoes ==
  ASSUME Base, NEW m \in Joiners, Redirect(m)
  PROVE  \E d \in Sane :
           /\ d.kind = "JOIN" /\ d.who \in Joiners /\ Process(m, d)
           /\ leaderAddress[m] \in Proc /\ Contact[m] \in Proc
           /\ Datagram("REDIRECT", Contact[m], 0, m) \in Requests
           /\ crossed' = (crossed \/ leaderAddress[m] # d.who)
           /\ Boxed(box')
           /\ \A p \in Proc : box'[p] = IF p = leaderAddress[m] /\ Up(p)
                THEN Append(box[p], Datagram("REDIRECT", Contact[m], 0, m)) ELSE box[p]
           /\ UNCHANGED <<stage, listVars, shown>>
  <1>1. PICK d \in Range(receiveQueue[m]) :
          /\ d.kind = "JOIN" /\ Process(m, d)
          /\ box' = Deliver(box, {leaderAddress[m]}, Datagram("REDIRECT", Contact[m], 0, m))
          /\ crossed' = (crossed \/ leaderAddress[m] # d.who)
          /\ UNCHANGED <<stage, listVars, shown>>
      BY DEF Redirect, SendTo
  <1>2. leaderAddress[m] \in Proc /\ Contact[m] \in Proc /\ Boxed(box)
      BY QueueChatAssumption DEF Base, Scalars, Origins
  <1> DEFINE r == Datagram("REDIRECT", Contact[m], 0, m)
             a == leaderAddress[m]
  <1> HIDE DEF r, a
  <1>. QED  BY <1>1, <1>2, DeliverBoxed, Answers, Kinds1, ProcessDoes DEF r, a, Sane

LEMMA AddNoticeDoes ==
  ASSUME Base, NEW m \in Joiners, AddNotice(m)
  PROVE  \E d \in Sane :
           /\ d.kind = "NEWUSER" /\ d.who \in Joiners /\ Process(m, d)
           /\ known' \in [Joiners -> SUBSET (Proc \cup {Nobody})]
           /\ known'[m] = known[m] \cup {d.who}
           /\ \A k \in Joiners : k # m => known'[k] = known[k]
           /\ no_of_members' \in [Joiners -> Int]
           /\ no_of_members'[m] = no_of_members[m] + (IF d.who \in known[m] THEN 0 ELSE 1)
           /\ \A k \in Joiners : k # m => no_of_members'[k] = no_of_members[k]
           /\ UNCHANGED <<netVars, stage, shown>>
  <1>1. PICK d \in Range(receiveQueue[m]) :
          /\ d.kind = "NEWUSER" /\ Process(m, d)
          /\ known' = [known EXCEPT ![m] = @ \cup {d.who}]
          /\ no_of_members' = [no_of_members EXCEPT ![m] = @ + (IF d.who \in known[m] THEN 0 ELSE 1)]
          /\ UNCHANGED <<netVars, stage, shown>>
      BY DEF AddNotice
  <1>2. d \in Sane /\ d.who \in Joiners
      BY <1>1, ProcessDoes DEF Sane
  <1>. QED  BY <1>1, <1>2, Kinds1 DEF Base, Scalars

LEMMA RemoveFromListDoes ==
  ASSUME Base, NEW m \in Joiners, RemoveFromList(m)
  PROVE  \E d \in Sane, a \in Proc :
           /\ d.kind \in {"LEFT", "LEAVESEQ"} /\ Process(m, d)
           /\ d.kind = "LEFT" => a = d.who /\ a \in Joiners
           /\ d.kind = "LEAVESEQ" => a = leaderAddress[m]
           /\ known' \in [Joiners -> SUBSET (Proc \cup {Nobody})]
           /\ known'[m] = known[m] \ {a}
           /\ \A k \in Joiners : k # m => known'[k] = known[k]
           /\ no_of_members' \in [Joiners -> Int]
           /\ no_of_members'[m] = no_of_members[m] - 1
           /\ \A k \in Joiners : k # m => no_of_members'[k] = no_of_members[k]
           /\ \/ /\ d.kind = "LEAVESEQ" /\ a \notin known[m]
                 /\ stage' \in [Proc -> {"out", "in", "gone"} \cup Joining]
                 /\ stage'[m] = "gone" /\ \A p \in Proc : p # m => stage'[p] = stage[p]
                 /\ Boxed(box') /\ box'[m] = << >> /\ \A p \in Proc : p # m => box'[p] = box[p]
              \/ /\ ~(d.kind = "LEAVESEQ" /\ a \notin known[m])
                 /\ UNCHANGED <<stage, box>>
           /\ UNCHANGED <<crossed, shown>>
  <1>1. PICK d \in Range(receiveQueue[m]) :
          /\ d.kind \in {"LEFT", "LEAVESEQ"} /\ Process(m, d)
          /\ LET a == IF d.kind = "LEFT" THEN d.who ELSE leaderAddress[m]
             IN /\ known' = [known EXCEPT ![m] = @ \ {a}]
                /\ no_of_members' = [no_of_members EXCEPT ![m] = @ - 1]
                /\ IF d.kind = "LEAVESEQ" /\ a \notin known[m]
                   THEN /\ stage' = [stage EXCEPT ![m] = "gone"]
                        /\ box' = Emptied(m)
                   ELSE UNCHANGED <<stage, box>>
          /\ UNCHANGED <<crossed, shown>>
      BY DEF RemoveFromList
  <1>0. /\ known \in [Joiners -> SUBSET (Proc \cup {Nobody})]
        /\ no_of_members \in [Joiners -> Int] /\ leaderAddress \in [Joiners -> Proc]
        /\ stage \in [Proc -> {"out", "in", "gone"} \cup Joining]
        /\ Boxed(box)
      BY DEF Base, Scalars, Origins
  <1> DEFINE a == IF d.kind = "LEFT" THEN d.who ELSE leaderAddress[m]
  <1>2. /\ known' = [known EXCEPT ![m] = known[m] \ {a}]
        /\ no_of_members' = [no_of_members EXCEPT ![m] = no_of_members[m] - 1]
        /\ \/ /\ d.kind = "LEAVESEQ" /\ a \notin known[m]
              /\ stage' = [stage EXCEPT ![m] = "gone"] /\ box' = Emptied(m)
           \/ /\ ~(d.kind = "LEAVESEQ" /\ a \notin known[m])
              /\ UNCHANGED <<stage, box>>
      BY <1>1
  <1> HIDE DEF a
  <1>3. known[m] \ {a} \in SUBSET (Proc \cup {Nobody}) /\ no_of_members[m] - 1 \in Int
      BY <1>0
  <1>4. /\ known' \in [Joiners -> SUBSET (Proc \cup {Nobody})]
        /\ known'[m] = known[m] \ {a}
        /\ \A k \in Joiners : k # m => known'[k] = known[k]
      BY <1>0, <1>2, <1>3
  <1>5. /\ no_of_members' \in [Joiners -> Int]
        /\ no_of_members'[m] = no_of_members[m] - 1
        /\ \A k \in Joiners : k # m => no_of_members'[k] = no_of_members[k]
      BY <1>0, <1>2, <1>3
  <1>6. \/ /\ d.kind = "LEAVESEQ" /\ a \notin known[m]
           /\ stage' \in [Proc -> {"out", "in", "gone"} \cup Joining]
           /\ stage'[m] = "gone" /\ \A p \in Proc : p # m => stage'[p] = stage[p]
           /\ Boxed(box') /\ box'[m] = << >> /\ \A p \in Proc : p # m => box'[p] = box[p]
        \/ /\ ~(d.kind = "LEAVESEQ" /\ a \notin known[m])
           /\ UNCHANGED <<stage, box>>
      BY <1>0, <1>2, Kinds1, EndBoxed
  <1>7. d \in Sane /\ a \in Proc /\ (d.kind = "LEFT" => a = d.who /\ a \in Joiners)
        /\ (d.kind = "LEAVESEQ" => a = leaderAddress[m])
    <2>1. d \in Sane
        BY <1>1, ProcessDoes
    <2>. QED  BY <2>1, <1>1, <1>0, Kinds1 DEF Sane, a
  <1>. QED  BY <1>1, <1>4, <1>5, <1>6, <1>7

LEMMA PrintOtherDoes ==
  ASSUME Base, NEW m \in Joiners, PrintOther(m)
  PROVE  \E d \in Sane :
           /\ d.kind \notin {"JOIN", "NEWUSER", "LEFT", "LEAVESEQ"} /\ Process(m, d)
           /\ shown' \in [Joiners -> Seq(Sane)] /\ shown'[m] = Append(shown[m], d)
           /\ \A k \in Joiners : k # m => shown'[k] = shown[k]
           /\ UNCHANGED <<netVars, stage, listVars>>
  <1>1. PICK d \in Range(receiveQueue[m]) :
          /\ d.kind \notin {"JOIN", "NEWUSER", "LEFT", "LEAVESEQ"} /\ Process(m, d)
          /\ Shows(m, <<d>>)
          /\ UNCHANGED <<netVars, stage, listVars>>
      BY DEF PrintOther
  <1>2. d \in Sane
      BY <1>1, ProcessDoes
  <1>3. shown \in [Joiners -> Seq(Sane)] /\ <<d>> \in Seq(Sane)
      BY <1>2 DEF Base, Origins
  <1>4. shown[m] \o <<d>> = Append(shown[m], d)
      BY <1>3, <1>2
  <1>. QED  BY <1>1, <1>2, <1>4, <1>3, ShowsDoes

LEMMA MemberProcessBase ==
  ASSUME Base, NEW m \in Joiners, MemberProcess(m)
  PROVE  Base'
  <1>0. /\ shown \in [Joiners -> Seq(Sane)]
        /\ known \in [Joiners -> SUBSET (Proc \cup {Nobody})]
        /\ no_of_members \in [Joiners -> Int]
        /\ Boxed(box) /\ crossed \in BOOLEAN
      BY DEF Base, Scalars, Origins
  <1>1. CASE Redirect(m)
      BY <1>1, <1>0, RedirectDoes, ProcessBase
  <1>2. CASE AddNotice(m)
      BY <1>2, <1>0, AddNoticeDoes, ProcessBase
  <1>3. CASE RemoveFromList(m)
    <2>1. PICK d \in Sane, a \in Proc :
           /\ Process(m, d)
           /\ known' \in [Joiners -> SUBSET (Proc \cup {Nobody})]
           /\ \A k \in Joiners : k # m => known'[k] = known[k]
           /\ no_of_members' \in [Joiners -> Int]
           /\ \A k \in Joiners : k # m => no_of_members'[k] = no_of_members[k]
           /\ \/ /\ stage' \in [Proc -> {"out", "in", "gone"} \cup Joining]
                 /\ stage'[m] = "gone" /\ \A p \in Proc : p # m => stage'[p] = stage[p]
                 /\ Boxed(box') /\ box'[m] = << >> /\ \A p \in Proc : p # m => box'[p] = box[p]
              \/ UNCHANGED <<stage, box>>
           /\ UNCHANGED <<crossed, shown>>
        BY <1>3, RemoveFromListDoes
    <2>2. CASE UNCHANGED <<stage, box>>
        BY <1>0, <2>1, <2>2, ProcessBase
    <2>3. CASE /\ stage' \in [Proc -> {"out", "in", "gone"} \cup Joining]
               /\ stage'[m] = "gone" /\ \A p \in Proc : p # m => stage'[p] = stage[p]
               /\ Boxed(box') /\ box'[m] = << >> /\ \A p \in Proc : p # m => box'[p] = box[p]
      <3>1. /\ receiveQueue' \in [Joiners -> Seq(Sane)]
            /\ \A p \in Joiners : p # m => receiveQueue'[p] = receiveQueue[p]
            /\ UNCHANGED <<typeVars, seqVars, sendAt, joinVars, leaderAddress>>
        <4>1. Process(m, d)
            BY <2>1
        <4>2. receiveQueue \in [Joiners -> Seq(Sane)]
            BY DEF Base, Origins
        <4>. QED  BY <4>1, <4>2 DEF Process
      <3>2. Stages'
          BY <2>1, <2>3, <3>1, Kinds1, ZenonT(30) DEF Base, Stages, Up
      <3>. QED  BY <3>2, <2>1, <2>3, <3>1 DEF Base, Scalars, Origins, Serving, Lists
    <2>. QED  BY <2>1, <2>2, <2>3
  <1>4. CASE PrintOther(m)
      BY <1>4, <1>0, PrintOtherDoes, ProcessBase
  <1>. QED  BY <1>1, <1>2, <1>3, <1>4 DEF MemberProcess

(* All that the loop of removeMember leaves alone until it is through. *)
Others == <<netVars, typeVars, stage, theirAddress, fairQMap, workVars, sendAt, joinVars,
            leaderAddress, chatVars>>

Looping == ShiftEntry \/ \E k \in Keys : StartLeave(k)

LEMMA OthersStay ==
  /\ UNCHANGED vars => UNCHANGED Others
  /\ ShiftEntry => UNCHANGED Others
  /\ \A k \in Keys : StartLeave(k) => UNCHANGED Others
  BY DEF vars, Others, ShiftEntry, StartLeave

LEMMA StutterBase ==
  ASSUME Base, UNCHANGED vars \/ Looping
  PROVE  Base'
  <1>0. UNCHANGED Others
      BY OthersStay DEF Looping
  <1>1. Stages'
      BY <1>0 DEF Others, Base, Stages, Up
  <1>2. shift' \in Shifts
    <2>1. /\ shift \in Shifts
          /\ theirAddress \in Joiners \cup {Nobody}
        BY DEF Base, Scalars
    <2>2. CASE UNCHANGED vars
        BY <2>1, <2>2 DEF vars
    <2>3. CASE ShiftEntry
        BY <2>1, <2>3 DEF ShiftEntry, Shifts
    <2>4. ASSUME NEW k \in Keys, StartLeave(k)
          PROVE  shift' \in Shifts
        BY <2>1, <2>4 DEF StartLeave, Shifts
    <2>. QED  BY <2>2, <2>3, <2>4 DEF Looping
  <1>. QED  BY <1>0, <1>1, <1>2 DEF Others, Base, Scalars, Lists, Origins, Boxed, Serving

LEMMA NextBase == Base /\ [Next]_vars => Base'
  <1> SUFFICES ASSUME Base, [Next]_vars PROVE Base'
      OBVIOUS
  <1>1. CASE SeqSend
      BY <1>1, SeqSendBase
  <1>2. CASE SeqReceive
      BY <1>2, SeqReceiveBase
  <1>3. CASE SeqProcess
      BY <1>3, MulticastBase, WelcomingBase, ServeJoinBase, ServeLeaveBase, ServeLineBase,
         StutterBase DEF SeqProcess, Looping
  <1>4. ASSUME NEW p \in Proc, Type(p) \/ EndInput(p) \/ PushLeave(p) \/ TestDead(p) PROVE Base'
      BY <1>4, TypeBase, TestDeadBase
  <1>5. ASSUME NEW m \in Joiners, Ask(m) \/ ConnectChat(m) \/ MemberSend(m) \/ MemberReceive(m) \/ MemberProcess(m)
        PROVE  Base'
      BY <1>5, AskBase, ConnectChatBase, MemberSendBase, MemberReceiveBase, MemberProcessBase
  <1>6. CASE UNCHANGED vars
      BY <1>6, StutterBase
  <1>. QED  BY <1>1, <1>2, <1>3, <1>4, <1>5, <1>6 DEF Next

-----------------------------------------------------------------------------
(***************************************************************************)
(* The way of a member's lines: from its sendQueue through the sequencer's *)
(* buffer and one queue of fairQMap to relayed.  c is the row of the four, *)
(* t and b are the member's typed and bye.                                 *)
(***************************************************************************)
OfAuthor(d, m) == d.who = m /\ d.kind \in {"LINE", "LEAVE"}

InTurn(m) ==
  {r \in Sane \X Sane : OfAuthor(r[1], m) /\ OfAuthor(r[2], m) =>
                          r[1].kind = "LINE" /\ (r[2].kind = "LINE" => r[1].n < r[2].n)}

Numbered(d, a, t, b) ==
  IF d.kind = "LINE" THEN d.n \in 1 .. t ELSE b = IF a = 4 THEN "pushed" ELSE "sent"

PathOK(c, m, t, b) ==
  /\ InOrder(c, InTurn(m))
  /\ \A a \in 1 .. 4 : \A i \in DOMAIN c[a] : OfAuthor(c[a][i], m) => Numbered(c[a][i], a, t, b)
  /\ b = "sent" => c[4] = << >>

Path(m) == <<relayed, fairQMap[lineKey[m]], box[S], sendQueue[m]>>

Paths == \A m \in Joiners : PathOK(Path(m), m, typed[m], bye[m])

LEMMA Four ==
  ASSUME NEW T, NEW r \in Seq(T), NEW f \in Seq(T), NEW b \in Seq(T), NEW q \in Seq(T)
  PROVE  /\ <<r, f, b, q>> \in [1 .. 4 -> Seq(T)]
         /\ <<r, f, b, q>>[1] = r /\ <<r, f, b, q>>[2] = f
         /\ <<r, f, b, q>>[3] = b /\ <<r, f, b, q>>[4] = q
  OBVIOUS

LEMMA IsEndIn ==
  ASSUME NEW T, NEW t \in Seq(T), NEW s \in Seq(T), IsEnd(t, s)
  PROVE  /\ \A i \in DOMAIN t : \E j \in DOMAIN s : t[i] = s[j]
         /\ s = << >> => t = << >>
  <1>1. PICK k \in Nat : \A i \in DOMAIN t : i + k \in DOMAIN s /\ t[i] = s[i + k]
      BY DEF IsEnd
  <1>2. ASSUME s = << >> PROVE t = << >>
      BY <1>2, <1>1, NoneLeft, SMTT(30)
  <1>. QED  BY <1>1, <1>2

LEMMA PathKept ==
  ASSUME NEW m, NEW t, NEW b,
         NEW c \in [1 .. 4 -> Seq(Sane)], NEW d \in [1 .. 4 -> Seq(Sane)],
         PathOK(c, m, t, b), \A a \in 1 .. 4 : IsEnd(d[a], c[a])
  PROVE  PathOK(d, m, t, b)
  <1>1. InOrder(d, InTurn(m))
      BY OrderKept DEF PathOK
  <1>2. ASSUME NEW a \in 1 .. 4, NEW i \in DOMAIN d[a]
        PROVE  \E j \in DOMAIN c[a] : d[a][i] = c[a][j]
      BY IsEndIn, SMTT(30)
  <1>. QED  BY <1>1, <1>2, IsEndIn DEF PathOK

(* Something else joins one of the queues. *)
LEMMA PathOther ==
  ASSUME NEW m, NEW t, NEW b,
         NEW c \in [1 .. 4 -> Seq(Sane)], NEW d \in [1 .. 4 -> Seq(Sane)],
         PathOK(c, m, t, b), NEW a \in 1 .. 3, NEW e \in Sane, ~OfAuthor(e, m),
         d[a] = Append(c[a], e), \A k \in 1 .. 4 : k # a => IsEnd(d[k], c[k])
  PROVE  PathOK(d, m, t, b)
  <1>0. a \in 1 .. 4 /\ 4 \in Nat
      OBVIOUS
  <1>s. \A k \in 1 .. 4 : c[k] \in Seq(Sane) /\ d[k] \in Seq(Sane)
      OBVIOUS
  <1>1. ASSUME NEW k \in 1 .. 4
        PROVE  /\ \A i \in DOMAIN d[k] : d[k][i] \in Sane
               /\ \A i \in DOMAIN c[k] : c[k][i] \in Sane
      BY <1>s, SMTT(30)
  <1>2. Joins(4, Sane, InTurn(m), c, d, a, e)
      BY <1>0, <1>1 DEF Joins, InTurn, PathOK
  <1>3. /\ \A j \in DOMAIN c[a] : d[a][j] = c[a][j]
        /\ \A j \in DOMAIN d[a] : j \in DOMAIN c[a] \/ d[a][j] = e
    <2>1. Grown(c[a], e, d[a])
        BY <1>0, <1>s, Appended DEF Adds
    <2>. QED  BY <2>1 DEF Grown
  <1>4. ASSUME NEW k \in 1 .. 4, NEW i \in DOMAIN d[k], OfAuthor(d[k][i], m)
        PROVE  Numbered(d[k][i], k, t, b)
    <2>1. \E j \in DOMAIN c[k] : d[k][i] = c[k][j]
      <3>1. CASE k # a
          BY <1>s, <3>1, IsEndIn
      <3>2. CASE k = a
          BY <1>4, <1>3, <3>2
      <3>. QED  BY <3>1, <3>2
    <2>. QED  BY <1>4, <2>1 DEF PathOK
  <1>. QED  BY <1>4, <1>s, <1>2, IsEndIn, OrderJoined DEF PathOK

LEMMA Alike ==
  ASSUME NEW h \in Sane, NEW e \in Sane, e.kind = h.kind, e.who = h.who, e.n = h.n, NEW m
  PROVE  /\ OfAuthor(e, m) <=> OfAuthor(h, m)
         /\ StandsFor(e, h, Sane, InTurn(m))
  BY DEF OfAuthor, InTurn, StandsFor

(* A datagram goes from one of the queues at the sequencer to the next. *)
Hop(c, d, a, e) ==
  /\ c \in [1 .. 4 -> Seq(Sane)] /\ d \in [1 .. 4 -> Seq(Sane)]
  /\ a \in 1 .. 2 /\ e \in Sane /\ c[a + 1] # << >>
  /\ e.kind = Head(c[a + 1]).kind /\ e.who = Head(c[a + 1]).who /\ e.n = Head(c[a + 1]).n
  /\ d[a] = Append(c[a], e) /\ d[a + 1] = Tail(c[a + 1])
  /\ \A k \in 1 .. 4 : k # a /\ k # a + 1 => d[k] = c[k]

LEMMA PathMoved ==
  ASSUME NEW m, NEW t, NEW b, NEW c, NEW d, NEW a, NEW e,
         PathOK(c, m, t, b), Hop(c, d, a, e)
  PROVE  PathOK(d, m, t, b)
  <1> USE DEF Hop
  <1>0. a \in 1 .. 4 /\ a + 1 \in 1 .. 4 /\ 4 \in Nat /\ a # 4 /\ a + 1 # 4
      BY SMTT(30)
  <1>s. \A k \in 1 .. 4 : c[k] \in Seq(Sane) /\ d[k] \in Seq(Sane)
      OBVIOUS
  <1>1. /\ Head(c[a + 1]) = c[a + 1][1] /\ c[a + 1][1] \in Sane /\ 1 \in DOMAIN c[a + 1]
        /\ IsEnd(Tail(c[a + 1]), c[a + 1])
      BY <1>0, <1>s, TailOf, Ends, SMTT(30)
  <1>2. /\ OfAuthor(e, m) <=> OfAuthor(Head(c[a + 1]), m)
        /\ StandsFor(e, Head(c[a + 1]), Sane, InTurn(m))
      BY <1>1, Alike
  <1>3. Moves(4, Sane, InTurn(m), c, d, a, e)
      BY <1>0, <1>2 DEF Moves, PathOK
  <1>4. OfAuthor(e, m) => Numbered(e, a, t, b)
      BY <1>0, <1>1, <1>2, SMTT(30) DEF PathOK, Numbered
  <1>5. ASSUME NEW k \in 1 .. 4, NEW i \in DOMAIN d[k], OfAuthor(d[k][i], m)
        PROVE  Numbered(d[k][i], k, t, b)
    <2>1. CASE k # a
      <3>1. \E j \in DOMAIN c[k] : d[k][i] = c[k][j]
        <4>1. IsEnd(d[k], c[k])
            BY <1>1, <1>s, <2>1, Ends, ZenonT(30)
        <4>. QED  BY <1>s, <4>1, IsEndIn, SMTT(30)
      <3>2. PICK j \in DOMAIN c[k] : d[k][i] = c[k][j]
          BY <3>1
      <3>3. OfAuthor(c[k][j], m)
          BY <1>5, <3>2
      <3>4. Numbered(c[k][j], k, t, b)
          BY <3>3 DEF PathOK
      <3>. QED  BY <3>2, <3>4
    <2>2. CASE k = a
      <3>1. /\ \A j \in DOMAIN c[a] : d[a][j] = c[a][j]
            /\ \A j \in DOMAIN d[a] : j \in DOMAIN c[a] \/ d[a][j] = e
        <4>1. Grown(c[a], e, d[a])
            BY <1>0, <1>s, Appended DEF Adds
        <4>. QED  BY <4>1 DEF Grown
      <3>2. CASE i \in DOMAIN c[a]
          BY <1>5, <2>2, <3>1, <3>2 DEF PathOK
      <3>3. CASE d[a][i] = e
          BY <1>4, <1>5, <2>2, <3>3
      <3>. QED  BY <2>2, <3>1, <3>2, <3>3
    <2>. QED  BY <2>1, <2>2
  <1>6. d[4] = c[4]
      BY <1>0
  <1>. QED  BY <1>5, <1>6, <1>3, OrderMoved DEF PathOK

(* The member sends the head of its sendQueue, to the sequencer or not. *)
Sending(c, d, m, b, b2) ==
  /\ c \in [1 .. 4 -> Seq(Sane)] /\ d \in [1 .. 4 -> Seq(Sane)]
  /\ c[4] # << >> /\ \A i \in DOMAIN c[4] : OfAuthor(c[4][i], m)
  /\ b2 = IF Head(c[4]).kind = "LINE" THEN b ELSE "sent"
  /\ d[4] = Tail(c[4]) /\ (d[3] = Append(c[3], Head(c[4])) \/ d[3] = c[3])
  /\ d[1] = c[1] /\ d[2] = c[2]

LEMMA PathSent ==
  ASSUME NEW m, NEW t, NEW b, NEW b2, NEW c, NEW d,
         PathOK(c, m, t, b), Sending(c, d, m, b, b2)
  PROVE  PathOK(d, m, t, b2)
  <1> USE DEF Sending
  <1>s. \A k \in 1 .. 4 : c[k] \in Seq(Sane) /\ d[k] \in Seq(Sane)
      OBVIOUS
  <1>1. /\ Head(c[4]) = c[4][1] /\ c[4][1] \in Sane /\ 1 \in DOMAIN c[4]
        /\ IsEnd(Tail(c[4]), c[4])
        /\ DOMAIN c[4] = 1 .. Len(c[4]) /\ Len(c[4]) \in Nat \ {0}
        /\ Tail(c[4]) \in Seq(Sane) /\ Len(Tail(c[4])) = Len(c[4]) - 1
      BY <1>s, TailOf, Ends
  <1>2. InOrder(c, InTurn(m)) /\ b # "sent"
      BY DEF PathOK
  <1>3. ASSUME NEW k \in 1 .. 4 PROVE IsEnd(c[k], c[k])
      BY <1>s, Ends
  <1>4. InOrder(d, InTurn(m))
    <2>1. CASE d[3] = c[3]
      <3>1. ASSUME NEW k \in 1 .. 4 PROVE IsEnd(d[k], c[k])
        <4>1. CASE k = 4
            BY <1>1, <4>1
        <4>2. CASE k # 4
            BY <2>1, <4>2, <1>3
        <4>. QED  BY <4>1, <4>2
      <3>. QED  BY <1>2, <3>1, OrderKept
    <2>2. CASE d[3] = Append(c[3], Head(c[4]))
      <3>1. Moves(4, Sane, InTurn(m), c, d, 3, Head(c[4]))
          BY <1>1, <1>2, <2>2 DEF Moves, StandsFor
      <3>. QED  BY <3>1, OrderMoved
    <2>. QED  BY <2>1, <2>2
  <1>5. ASSUME Head(c[4]).kind # "LINE" PROVE Tail(c[4]) = << >>
    <2>1. \A j \in DOMAIN c[4] : 1 < j => <<c[4][1], c[4][j]>> \in InTurn(m)
        BY <1>1, <1>2, SMTT(30) DEF InOrder
    <2>2. \A j \in DOMAIN c[4] : 1 < j => c[4][1].kind = "LINE"
        BY <1>1, <2>1 DEF InTurn
    <2>3. Len(c[4]) = 1
      <3>1. ASSUME Len(c[4]) # 1 PROVE FALSE
        <4>1. 2 \in DOMAIN c[4]
          <5>1. \A l \in Nat \ {0} : l # 1 => 2 \in 1 .. l
              OBVIOUS
          <5>. QED  BY <1>1, <3>1, <5>1
        <4>2. c[4][1].kind = "LINE"
            BY <2>2, <4>1
        <4>. QED  BY <1>1, <1>5, <4>2
      <3>. QED  BY <3>1
    <2>. QED  BY <1>1, <2>3, NoneLeft, SMTT(30)
  <1>6. ASSUME NEW k \in 1 .. 4, NEW i \in DOMAIN d[k], OfAuthor(d[k][i], m)
        PROVE  (\E j \in DOMAIN c[k] : d[k][i] = c[k][j]) \/ (k = 3 /\ d[3][i] = Head(c[4]))
    <2>1. CASE k = 4
      <3>1. c[4] \in Seq(Sane) /\ d[4] \in Seq(Sane) /\ IsEnd(d[4], c[4])
          BY <1>1, <1>s
      <3>2. \A l \in DOMAIN d[4] : \E j \in DOMAIN c[4] : d[4][l] = c[4][j]
          BY <3>1, IsEndIn
      <3>. QED  BY <2>1, <3>2
    <2>2. CASE k = 3 /\ d[3] = Append(c[3], Head(c[4]))
        BY <1>1, <1>s, <2>2, Appended, SMTT(30) DEF Adds, Grown
    <2>3. CASE k \in 1 .. 2 \/ (k = 3 /\ d[3] = c[3])
        BY <2>3
    <2>. QED  BY <2>1, <2>2, <2>3
  <1>7. Numbered(Head(c[4]), 4, t, b)
    <2>1. OfAuthor(c[4][1], m)
        BY <1>1
    <2>. QED  BY <1>1, <2>1 DEF PathOK
  <1>8. ASSUME NEW k \in 1 .. 4, NEW i \in DOMAIN d[k], OfAuthor(d[k][i], m)
        PROVE  Numbered(d[k][i], k, t, b2)
    <2>1. CASE k = 3 /\ d[3][i] = Head(c[4])
        BY <1>7, <2>1 DEF Numbered
    <2>2. CASE \E j \in DOMAIN c[k] : d[k][i] = c[k][j]
      <3>1. Numbered(d[k][i], k, t, b)
          BY <1>8, <2>2 DEF PathOK
      <3>2. CASE Head(c[4]).kind = "LINE"
          BY <3>1, <3>2
      <3>3. CASE Head(c[4]).kind # "LINE"
        <4>1. k # 4
          <5>1. DOMAIN d[4] = {}
              BY <1>5, <3>3
          <5>. QED  BY <5>1
        <4>. QED  BY <1>2, <3>1, <3>3, <4>1 DEF Numbered
      <3>. QED  BY <3>2, <3>3
    <2>. QED  BY <1>6, <1>8, <2>1, <2>2
  <1>. QED  BY <1>4, <1>8, <1>2, <1>5 DEF PathOK

(* The member's input thread writes its sendQueue, or bye. *)
Pushing(c, d, m, e, t, b, t2, b2) ==
  /\ c \in [1 .. 4 -> Seq(Sane)] /\ d \in [1 .. 4 -> Seq(Sane)]
  /\ t \in Nat /\ b \in {"no", "dead"} /\ e \in Sane /\ OfAuthor(e, m)
  /\ \/ e.kind = "LINE" /\ e.n = t + 1 /\ t2 = t + 1 /\ b2 = b
     \/ e.kind = "LEAVE" /\ t2 = t /\ b2 = "pushed"
  /\ d[4] = Append(c[4], e) /\ \A k \in 1 .. 3 : d[k] = c[k]

LEMMA PathTyped ==
  ASSUME NEW m, NEW t, NEW b, NEW t2, NEW b2, NEW c, NEW d, NEW e,
         PathOK(c, m, t, b), Pushing(c, d, m, e, t, b, t2, b2)
  PROVE  PathOK(d, m, t2, b2)
  <1> USE DEF Pushing
  <1>s. \A k \in 1 .. 4 : c[k] \in Seq(Sane) /\ d[k] \in Seq(Sane)
      OBVIOUS
  <1>1. ASSUME NEW k \in 1 .. 4, NEW i \in DOMAIN c[k], OfAuthor(c[k][i], m)
        PROVE  c[k][i].kind = "LINE" /\ c[k][i].n \in 1 .. t
      BY <1>1 DEF PathOK, Numbered
  <1>2. ASSUME NEW k \in 1 .. 4, NEW i \in DOMAIN c[k]
        PROVE  <<c[k][i], e>> \in InTurn(m)
      BY <1>s, <1>1, SMTT(30) DEF InTurn
  <1>3. ASSUME NEW k \in 1 .. 3 PROVE IsEnd(d[k], c[k])
      BY <1>s, Ends
  <1>4. Joins(4, Sane, InTurn(m), c, d, 4, e)
      BY <1>3, <1>2 DEF Joins, PathOK
  <1>5. ASSUME NEW k \in 1 .. 4, NEW i \in DOMAIN d[k], OfAuthor(d[k][i], m)
        PROVE  Numbered(d[k][i], k, t2, b2)
    <2>1. CASE \E j \in DOMAIN c[k] : d[k][i] = c[k][j]
        BY <1>1, <1>5, <2>1, SMTT(30) DEF Numbered
    <2>2. CASE k = 4 /\ d[k][i] = e
        BY <2>2 DEF Numbered
    <2>3. (\E j \in DOMAIN c[k] : d[k][i] = c[k][j]) \/ (k = 4 /\ d[k][i] = e)
      <3>1. CASE k \in 1 .. 3
          BY <3>1
      <3>2. CASE k = 4
        <4>1. Adds(Sane, c[4], e, d[4])
            BY <1>s DEF Adds
        <4>2. Grown(c[4], e, d[4])
            BY <4>1, Appended
        <4>. QED  BY <3>2, <4>2 DEF Grown
      <3>. QED  BY <3>1, <3>2
    <2>. QED  BY <2>1, <2>2, <2>3
  <1>. QED  BY <1>5, <1>4, OrderJoined DEF PathOK

LEMMA PathRow ==
  ASSUME Base, NEW m \in Joiners
  PROVE  /\ Path(m) \in [1 .. 4 -> Seq(Sane)] /\ lineKey[m] \in Keys
         /\ relayed \in Seq(Sane) /\ fairQMap[lineKey[m]] \in Seq(Sane)
         /\ box[S] \in Seq(Sane) /\ sendQueue[m] \in Seq(Sane)
         /\ Path(m)[1] = relayed /\ Path(m)[2] = fairQMap[lineKey[m]]
         /\ Path(m)[3] = box[S] /\ Path(m)[4] = sendQueue[m]
  <1>. QED  BY Four, Kinds1, Wider DEF Path, Base, Scalars, Origins, Boxed, Keys

LEMMA PathRowNext ==
  ASSUME Base', NEW m \in Joiners
  PROVE  /\ Path(m)' \in [1 .. 4 -> Seq(Sane)]
         /\ relayed' \in Seq(Sane) /\ fairQMap'[lineKey'[m]] \in Seq(Sane)
         /\ box'[S] \in Seq(Sane) /\ sendQueue'[m] \in Seq(Sane)
         /\ Path(m)'[1] = relayed' /\ Path(m)'[2] = fairQMap'[lineKey'[m]]
         /\ Path(m)'[3] = box'[S] /\ Path(m)'[4] = sendQueue'[m]
  <1>. QED  BY Four, Kinds1, Wider DEF Path, Base, Scalars, Origins, Boxed, Keys

LEMMA PathStays ==
  ASSUME Base, Base', Paths, NEW m \in Joiners,
         lineKey' = lineKey, relayed' = relayed, typed'[m] = typed[m], bye'[m] = bye[m],
         IsEnd(fairQMap'[lineKey[m]], fairQMap[lineKey[m]]), IsEnd(box'[S], box[S]),
         sendQueue'[m] = sendQueue[m]
  PROVE  PathOK(Path(m)', m, typed'[m], bye'[m])
  <1> DEFINE c == Path(m)
             d == Path(m)'
  <1>1. /\ c \in [1 .. 4 -> Seq(Sane)] /\ d \in [1 .. 4 -> Seq(Sane)]
        /\ c[1] \in Seq(Sane) /\ c[4] \in Seq(Sane)
        /\ d[1] = c[1] /\ d[4] = c[4] /\ IsEnd(d[2], c[2]) /\ IsEnd(d[3], c[3])
      BY PathRow, PathRowNext
  <1>2. PathOK(c, m, typed[m], bye[m])
      BY DEF Paths
  <1> HIDE DEF c, d
  <1>3. \A a \in 1 .. 4 : IsEnd(d[a], c[a])
      BY <1>1, Ends
  <1>. QED  BY <1>1, <1>2, <1>3, PathKept DEF d

(* Another's datagram reaches the sequencer. *)
LEMMA PathGets ==
  ASSUME Base, Base', Paths, NEW m \in Joiners, NEW e \in Sane, ~OfAuthor(e, m),
         lineKey' = lineKey, relayed' = relayed, typed'[m] = typed[m], bye'[m] = bye[m],
         fairQMap' = fairQMap, box'[S] = Append(box[S], e), sendQueue'[m] = sendQueue[m]
  PROVE  PathOK(Path(m)', m, typed'[m], bye'[m])
  <1> DEFINE c == Path(m)
             d == Path(m)'
  <1>1. /\ c \in [1 .. 4 -> Seq(Sane)] /\ d \in [1 .. 4 -> Seq(Sane)]
        /\ c[1] \in Seq(Sane) /\ c[2] \in Seq(Sane) /\ c[4] \in Seq(Sane)
        /\ d[1] = c[1] /\ d[4] = c[4] /\ d[2] = c[2] /\ d[3] = Append(c[3], e)
      BY PathRow, PathRowNext
  <1>2. PathOK(c, m, typed[m], bye[m])
      BY DEF Paths
  <1> HIDE DEF c, d
  <1>3. \A a \in 1 .. 4 : a # 3 => IsEnd(d[a], c[a])
      BY <1>1, Ends
  <1>4. 3 \in 1 .. 3 /\ d[3] = Append(c[3], e)
      BY <1>1
  <1>. QED  BY <1>2, <1>3, <1>4, <1>1, PathOther DEF d

LEMMA TypePaths ==
  ASSUME Base, Base', Paths, NEW p \in Proc, Type(p) \/ EndInput(p) \/ PushLeave(p),
         NEW m \in Joiners
  PROVE  PathOK(Path(m)', m, typed'[m], bye'[m])
  <1>0. /\ UNCHANGED <<box, fairQMap, relayed, lineKey>>
        /\ typed \in [Proc -> Nat] /\ bye \in [Proc -> {"no", "dead", "pushed", "sent"}]
        /\ sendQueue \in [Proc -> Seq(Sane)] /\ m \in Proc /\ m # S
      BY Kinds1 DEF Base, Scalars, Origins, Type, EndInput, PushLeave
  <1>1. CASE p # m
      BY <1>0, <1>1, PathStays, Ends, PathRow DEF Type, EndInput, PushLeave
  <1> DEFINE c == Path(m)
             d == Path(m)'
  <1>2. /\ c \in [1 .. 4 -> Seq(Sane)] /\ d \in [1 .. 4 -> Seq(Sane)]
        /\ PathOK(c, m, typed[m], bye[m])
        /\ \A k \in 1 .. 3 : d[k] = c[k]
        /\ c[4] = sendQueue[m] /\ d[4] = sendQueue'[m]
      BY <1>0, PathRow, PathRowNext DEF Paths
  <1> HIDE DEF c, d
  <1>3. CASE p = m /\ EndInput(m)
    <2>1. bye[m] = "no" /\ bye'[m] = "dead" /\ typed' = typed /\ sendQueue' = sendQueue
        BY <1>0, <1>3 DEF EndInput
    <2>2. c[4] \in Seq(Sane)
        BY <1>2
    <2>3. \A k \in 1 .. 4 : d[k] = c[k]
        BY <1>2, <2>1
    <2>4. d = c
        BY <1>2, <2>3, SMTT(30)
    <2>. QED  BY <2>1, <2>4, <1>2 DEF d, PathOK, Numbered
  <1>4. CASE p = m /\ Type(m)
    <2> DEFINE e == Datagram("LINE", m, typed[m] + 1, m)
    <2>1. /\ bye[m] = "no" /\ bye' = bye /\ typed'[m] = typed[m] + 1
          /\ sendQueue'[m] = Append(sendQueue[m], e)
        BY <1>0, <1>4 DEF Type
    <2>2. e \in Sane /\ OfAuthor(e, m) /\ e.kind = "LINE" /\ e.n = typed[m] + 1
        BY <1>0, Kinds1 DEF Datagram, Sane, Datagrams, Kinds, OfAuthor
    <2> HIDE DEF e
    <2>3. Pushing(c, d, m, e, typed[m], bye[m], typed'[m], bye'[m])
        BY <1>0, <1>2, <2>1, <2>2 DEF Pushing
    <2>. QED  BY <1>2, <2>3, PathTyped DEF d
  <1>5. CASE p = m /\ PushLeave(m)
    <2> DEFINE e == Leaving(m)
    <2>1. /\ bye[m] = "dead" /\ bye'[m] = "pushed" /\ typed' = typed
          /\ sendQueue'[m] = Append(sendQueue[m], e)
        BY <1>0, <1>5 DEF PushLeave
    <2>2. e \in Sane /\ OfAuthor(e, m) /\ e.kind = "LEAVE"
        BY <1>0, Kinds1 DEF Leaving, Datagram, Sane, Datagrams, Kinds, OfAuthor
    <2> HIDE DEF e
    <2>3. Pushing(c, d, m, e, typed[m], bye[m], typed'[m], bye'[m])
        BY <1>0, <1>2, <2>1, <2>2 DEF Pushing
    <2>. QED  BY <1>2, <2>3, PathTyped DEF d
  <1>. QED  BY <1>1, <1>3, <1>4, <1>5

LEMMA SeqReceivePaths ==
  ASSUME Base, Base', Paths, SeqReceive, NEW m \in Joiners
  PROVE  PathOK(Path(m)', m, typed'[m], bye'[m])
  <1>1. PICK d \in Requests :
          /\ d = Head(box[S]) /\ Key(d) \in Keys
          /\ box[S] # << >>
          /\ fairQMap'[Key(d)] = Append(fairQMap[Key(d)], d)
          /\ \A k \in Keys : k # Key(d) => fairQMap'[k] = fairQMap[k]
          /\ box'[S] = Tail(box[S])
          /\ UNCHANGED <<typeVars, relayed, lineKey>>
      BY SeqReceiveDoes
  <1>2. CASE Key(d) # lineKey[m]
      BY <1>1, <1>2, Ends, PathStays, PathRow
  <1>3. CASE Key(d) = lineKey[m]
    <2> DEFINE c == Path(m)
               e == Path(m)'
    <2>0. /\ PathOK(c, m, typed[m], bye[m])
          /\ lineKey'[m] = lineKey[m] /\ sendQueue' = sendQueue
          /\ fairQMap'[lineKey[m]] = Append(fairQMap[lineKey[m]], d)
        BY <1>1, <1>3 DEF Paths
    <2>1. /\ c \in [1 .. 4 -> Seq(Sane)] /\ e \in [1 .. 4 -> Seq(Sane)]
          /\ PathOK(c, m, typed[m], bye[m])
          /\ e[1] = c[1] /\ e[4] = c[4] /\ c[3] # << >>
          /\ e[2] = Append(c[2], d) /\ e[3] = Tail(c[3]) /\ d = Head(c[3])
      <3>1. /\ c \in [1 .. 4 -> Seq(Sane)] /\ c[1] = relayed /\ c[2] = fairQMap[lineKey[m]]
            /\ c[3] = box[S] /\ c[4] = sendQueue[m]
          BY PathRow
      <3>2. /\ e \in [1 .. 4 -> Seq(Sane)] /\ e[1] = relayed' /\ e[2] = fairQMap'[lineKey'[m]]
            /\ e[3] = box'[S] /\ e[4] = sendQueue'[m]
          BY PathRowNext
      <3> HIDE DEF c, e
      <3>. QED  BY <1>1, <2>0, <3>1, <3>2
    <2> HIDE DEF c, e
    <2>2. Hop(c, e, 2, d)
        BY <2>1, Kinds1 DEF Hop
    <2>. QED  BY <1>1, <2>1, <2>2, PathMoved DEF e
  <1>. QED  BY <1>2, <1>3

LEMMA ServePaths ==
  ASSUME Base, Base', Paths, NEW k \in Keys, NEW d \in Range(fairQMap[k]), Serve(k, d),
         relayed' = relayed, IsEnd(box'[S], box[S]), NEW m \in Joiners
  PROVE  PathOK(Path(m)', m, typed'[m], bye'[m])
  <1>1. fairQMap[lineKey[m]] \in Seq(Sane) /\ lineKey[m] \in Keys
      BY PathRow
  <1>. QED  BY <1>1, PathStays, Ends, ServeDoes, ZenonT(30)

LEMMA ServeLinePaths ==
  ASSUME Base, Base', Paths, NEW k \in Keys, ServeLine(k), NEW m \in Joiners
  PROVE  PathOK(Path(m)', m, typed'[m], bye'[m])
  <1>1. PICK h \in Range(fairQMap[k]) :
           /\ Serve(k, h)
           /\ h.kind \in {"LINE", "REDIRECT"}
           /\ [h EXCEPT !.from = S] \in Sane
           /\ [h EXCEPT !.from = S].kind = h.kind /\ [h EXCEPT !.from = S].who = h.who
           /\ [h EXCEPT !.from = S].n = h.n
           /\ relayed' = Append(relayed, [h EXCEPT !.from = S])
           /\ \A p \in Proc : box'[p] = IF p \in Range(userList) /\ Up(p)
                                        THEN Append(box[p], [h EXCEPT !.from = S]) ELSE box[p]
      BY ServeLineDoes
  <1>2. /\ h \in KeptAt(k, lineKey) /\ h \in Sane
        /\ fairQMap[k] # << >> /\ h = Head(fairQMap[k]) /\ fairQMap'[k] = Tail(fairQMap[k])
        /\ \A l \in Keys : l # k => fairQMap'[l] = fairQMap[l]
        /\ UNCHANGED <<typeVars, lineKey>>
      BY <1>1, ServeDoes
  <1>3. box'[S] = box[S]
      BY <1>1, InRange, Kinds1 DEF Base, Lists
  <1> DEFINE e == [h EXCEPT !.from = S]
             c == Path(m)
             d == Path(m)'
  <1>4. /\ e \in Sane /\ e.kind = h.kind /\ e.who = h.who /\ e.n = h.n
      BY <1>1
  <1>5. /\ c \in [1 .. 4 -> Seq(Sane)] /\ d \in [1 .. 4 -> Seq(Sane)]
        /\ PathOK(c, m, typed[m], bye[m])
        /\ d[1] = Append(c[1], e) /\ d[3] = c[3] /\ d[4] = c[4]
        /\ c[2] = fairQMap[lineKey[m]] /\ d[2] = fairQMap'[lineKey[m]] /\ lineKey[m] \in Keys
      BY <1>1, <1>2, <1>3, PathRow, PathRowNext, ZenonT(30) DEF Paths
  <1> HIDE DEF c, d, e
  <1>6. CASE k = lineKey[m]
    <2>1. \A l \in 1 .. 4 : l # 1 /\ l # 1 + 1 => d[l] = c[l]
        BY <1>5
    <2>2. 1 \in 1 .. 2 /\ 1 + 1 = 2
        OBVIOUS
    <2>3. Hop(c, d, 1, e)
        BY <1>4, <1>5, <2>1, <2>2, <1>2, <1>6 DEF Hop
    <2>. QED  BY <1>2, <1>5, <2>3, PathMoved DEF d
  <1>7. CASE k # lineKey[m]
    <2>1. ~OfAuthor(e, m)
        BY <1>1, <1>2, <1>4, <1>7 DEF OfAuthor, KeptAt
    <2>2. \A l \in 1 .. 4 : l # 1 => IsEnd(d[l], c[l])
        BY <1>5, <1>2, <1>7, Ends
    <2>3. 1 \in 1 .. 3 /\ d[1] = Append(c[1], e) /\ PathOK(c, m, typed[m], bye[m])
          /\ c \in [1 .. 4 -> Seq(Sane)] /\ d \in [1 .. 4 -> Seq(Sane)]
        BY <1>5
    <2>. QED  BY <1>2, <1>4, <2>1, <2>2, <2>3, PathOther DEF d
  <1>. QED  BY <1>6, <1>7

LEMMA MemberSendPaths ==
  ASSUME Base, Base', Paths, NEW p \in Joiners, MemberSend(p), NEW m \in Joiners
  PROVE  PathOK(Path(m)', m, typed'[m], bye'[m])
  <1>1. /\ stage[p] = "in" /\ sendQueue[p] # << >>
        /\ Head(sendQueue[p]) \in Own(p) /\ Head(sendQueue[p]) \in Sane
        /\ \A q \in Proc : box'[q] = IF q = leaderAddress[p] /\ Up(q)
                                     THEN Append(box[q], Head(sendQueue[p])) ELSE box[q]
        /\ PopSent(p)
        /\ UNCHANGED <<fairQMap, relayed, lineKey>>
      BY MemberSendDoes
  <1>2. /\ \A q \in Proc : q # p => bye'[q] = bye[q] /\ sendQueue'[q] = sendQueue[q]
        /\ sendQueue'[p] = Tail(sendQueue[p])
        /\ bye'[p] = IF Head(sendQueue[p]).kind = "LINE" THEN bye[p] ELSE "sent"
        /\ typed' = typed /\ p \in Proc /\ m \in Proc /\ S \in Proc
      BY <1>1, PopSentBase, Kinds1
  <1>3. box'[S] = Append(box[S], Head(sendQueue[p])) \/ box'[S] = box[S]
      BY <1>1, <1>2
  <1>4. CASE p # m
    <2>1. CASE box'[S] = Append(box[S], Head(sendQueue[p]))
        BY <1>1, <1>2, <1>4, <2>1, PathGets DEF Own, OfAuthor
    <2>2. CASE box'[S] = box[S]
        BY <1>1, <2>2, <1>2, <1>4, PathRow, Ends, PathStays
    <2>. QED  BY <1>3, <2>1, <2>2
  <1>5. CASE p = m
    <2> DEFINE c == Path(m)
               d == Path(m)'
    <2>1. /\ c \in [1 .. 4 -> Seq(Sane)] /\ c[1] = relayed /\ c[2] = fairQMap[lineKey[m]]
          /\ c[3] = box[S] /\ c[4] = sendQueue[m]
        BY PathRow
    <2>2. /\ d \in [1 .. 4 -> Seq(Sane)] /\ d[1] = relayed' /\ d[2] = fairQMap'[lineKey'[m]]
          /\ d[3] = box'[S] /\ d[4] = sendQueue'[m]
        BY PathRowNext
    <2>3. PathOK(c, m, typed[m], bye[m])
        BY DEF Paths
    <2>4. \A i \in DOMAIN sendQueue[m] : OfAuthor(sendQueue[m][i], m)
      <3>1. sendQueue[m] \in Seq(Own(m))
          BY <1>2 DEF Base, Origins
      <3>. QED  BY <3>1, Kinds1 DEF Own, Sane, OfAuthor
    <2> HIDE DEF c, d
    <2>5. Sending(c, d, m, bye[m], bye'[m])
        BY <1>1, <1>2, <1>3, <1>5, <2>1, <2>2, <2>4 DEF Sending
    <2>. QED  BY <1>2, <2>3, <2>5, PathSent DEF d
  <1>. QED  BY <1>4, <1>5

(* Whatever else changes the sequencer's buffer. *)
LEMMA NoLinePaths ==
  ASSUME Base, Base', Paths, UNCHANGED <<typed, bye, sendQueue, fairQMap, relayed, lineKey>>,
         NEW e \in Sane, e.kind \notin {"LINE", "LEAVE"},
         box'[S] = box[S] \/ box'[S] = << >> \/ box'[S] = Append(box[S], e), NEW m \in Joiners
  PROVE  PathOK(Path(m)', m, typed'[m], bye'[m])
  <1>1. CASE box'[S] = box[S] \/ box'[S] = << >>
      BY <1>1, PathRow, Ends, PathStays
  <1>2. CASE box'[S] = Append(box[S], e)
      BY <1>2, PathGets DEF OfAuthor
  <1>. QED  BY <1>1, <1>2

LEMMA NextPaths ==
  ASSUME Base, Base', Paths, [Next]_vars
  PROVE  Paths'
  <1> SUFFICES ASSUME NEW m \in Joiners PROVE PathOK(Path(m)', m, typed'[m], bye'[m])
      BY DEF Paths
  <1>s. S \in Proc /\ S \notin Joiners /\ Joiners \subseteq Proc /\ m # S
      BY Kinds1
  <1>e. /\ Datagram("OK", Nobody, 0, S) \in Sane
        /\ Datagram("OK", Nobody, 0, S).kind = "OK"
        /\ \A p \in Joiners : Datagram("JOIN", p, 0, p) \in Sane /\ Datagram("JOIN", p, 0, p).kind = "JOIN"
        /\ \A p \in Joiners, q \in Proc : /\ Datagram("REDIRECT", q, 0, p) \in Sane
                                          /\ Datagram("REDIRECT", q, 0, p).kind = "REDIRECT"
      BY Answers, Kinds1 DEF Datagram
  <1>1. CASE SeqSend
    <2>1. UNCHANGED <<fairQMap, relayed, lineKey>> /\ sendQueue[S] # << >>
        BY <1>1 DEF SeqSend
    <2>2. box'[S] = box[S]
      <3>1. CASE box' = box
          BY <3>1
      <3>2. CASE Walked(sendAt) # S /\ box' = Deliver(box, {Walked(sendAt)}, Head(sendQueue[S]))
          BY <1>s, <3>2 DEF Deliver
      <3>. QED  BY <1>1, <3>1, <3>2, SeqSendDoes
    <2>3. typed' = typed /\ bye'[m] = bye[m] /\ sendQueue'[m] = sendQueue[m]
        BY <1>s, <2>1, <1>1, PopSentBase DEF SeqSend
    <2>. QED  BY <2>1, <2>3, <2>2, PathStays, PathRow, Ends
  <1>2. CASE SeqReceive
      BY <1>2, SeqReceivePaths
  <1>3. CASE Multicast
      BY <1>3, <1>s, <1>e, MulticastDoes, InRange, NoLinePaths DEF Base, Lists
  <1>4. CASE Welcoming
      BY <1>s, <1>4, <1>e, WelcomingDoes, NoLinePaths
  <1>5. ASSUME NEW k \in Keys, ServeJoin(k) PROVE PathOK(Path(m)', m, typed'[m], bye'[m])
    <2>1. PICK d \in Range(fairQMap[k]) :
            /\ Serve(k, d) /\ relayed' = relayed
            /\ box' = Deliver(box, {theirAddress}, Datagram("OK", Nobody, 0, S))
        BY <1>5 DEF ServeJoin, SendTo
    <2>. QED  BY <2>1, <1>s, ServePaths, PathRow, Ends, ServeDoes DEF Deliver
  <1>6. ASSUME NEW k \in Keys, ServeLeave(k) PROVE PathOK(Path(m)', m, typed'[m], bye'[m])
    <2>1. PICK d \in Range(fairQMap[k]) :
            /\ Serve(k, d) /\ relayed' = relayed /\ userList' \in Seq(Joiners)
            /\ \/ \A p \in Proc : box'[p] =
                    IF p \in Range(userList') /\ Up(p)
                    THEN Append(box[p], Datagram("LEFT", shift.of, 0, S)) ELSE box[p]
               \/ box'[S] = << >>
        BY <1>6, ServeLeaveDoes
    <2>2. box'[S] = box[S] \/ box'[S] = << >>
        BY <1>s, <2>1, InRange
    <2>. QED  BY <2>1, <2>2, ServePaths, PathRow, Ends
  <1>7. ASSUME NEW k \in Keys, ServeLine(k) PROVE PathOK(Path(m)', m, typed'[m], bye'[m])
      BY <1>7, ServeLinePaths
  <1>8. ASSUME NEW p \in Proc, Type(p) \/ EndInput(p) \/ PushLeave(p)
        PROVE  PathOK(Path(m)', m, typed'[m], bye'[m])
      BY <1>8, TypePaths
  <1>9. ASSUME NEW p \in Proc, TestDead(p) PROVE PathOK(Path(m)', m, typed'[m], bye'[m])
      BY <1>9, <1>s, <1>e, NoLinePaths DEF TestDead, Emptied, Base, Origins, Boxed
  <1>10. ASSUME NEW p \in Joiners, Ask(p) PROVE PathOK(Path(m)', m, typed'[m], bye'[m])
      BY <1>s, <1>10, <1>e, AskDoes, NoLinePaths
  <1>11. ASSUME NEW p \in Joiners, GiveUp(p) PROVE PathOK(Path(m)', m, typed'[m], bye'[m])
      BY <1>11, <1>e, GiveUpDoes, NoLinePaths
  <1>12. ASSUME NEW p \in Joiners, TakeRedirect(p) PROVE PathOK(Path(m)', m, typed'[m], bye'[m])
    <2>1. /\ UNCHANGED <<typed, bye, sendQueue, fairQMap, relayed, lineKey>>
          /\ box'[S] = Emptied(p)[S] \/ box'[S] = Append(Emptied(p)[S], Datagram("JOIN", p, 0, p))
          /\ Emptied(p)[S] = box[S]
        BY <1>s, <1>12, TakeRedirectDoes, ZenonT(30)
    <2>. QED  BY <1>e, <2>1, NoLinePaths
  <1>13. ASSUME NEW p \in Joiners, TakeReply(p) \/ TakeCount(p) \/ TakeUsers(p) \/ TakeEntries(p)
         PROVE  PathOK(Path(m)', m, typed'[m], bye'[m])
      BY <1>13, <1>s, <1>e, NoLinePaths DEF TakeReply, TakeCount, TakeUsers, TakeEntries, Take,
         Base, Origins, Boxed
  <1>14. ASSUME NEW p \in Joiners, MemberSend(p) PROVE PathOK(Path(m)', m, typed'[m], bye'[m])
      BY <1>14, MemberSendPaths
  <1>15. ASSUME NEW p \in Joiners, MemberReceive(p) PROVE PathOK(Path(m)', m, typed'[m], bye'[m])
      BY <1>s, <1>15, <1>e, MemberReceiveDoes, NoLinePaths, SMTT(30)
  <1>16. ASSUME NEW p \in Joiners, Redirect(p) PROVE PathOK(Path(m)', m, typed'[m], bye'[m])
    <2>1. PICK d \in Sane :
            /\ Process(p, d) /\ Contact[p] \in Proc
            /\ \A q \in Proc : box'[q] = IF q = leaderAddress[p] /\ Up(q)
                 THEN Append(box[q], Datagram("REDIRECT", Contact[p], 0, p)) ELSE box[q]
        BY <1>16, RedirectDoes
    <2>. QED  BY <1>e, <2>1, <1>s, NoLinePaths, ProcessDoes
  <1>17. ASSUME NEW p \in Joiners, AddNotice(p) \/ RemoveFromList(p) \/ PrintOther(p)
         PROVE  PathOK(Path(m)', m, typed'[m], bye'[m])
      BY <1>17, <1>s, <1>e, ProcessDoes, NoLinePaths DEF AddNotice, RemoveFromList, PrintOther,
         Emptied, Base, Origins, Boxed
  <1>18. CASE UNCHANGED Others
      BY <1>e, <1>18, NoLinePaths DEF Others
  <1>. QED  BY OthersStay, <1>1, <1>2, <1>3, <1>4, <1>5, <1>6, <1>7, <1>8, <1>9, <1>10, <1>11,
               <1>12, <1>13,
               <1>14, <1>15, <1>16, <1>17, <1>18
            DEF Next, SeqProcess, ConnectChat, MemberProcess

-----------------------------------------------------------------------------
(***************************************************************************)
(* What a member has been sent: shown, waiting in receiveQueue or still in *)
(* the buffer.  c is the row of the three.                                 *)
(***************************************************************************)
Pipe(m) == <<shown[m], receiveQueue[m], box[m]>>

Row == [1 .. 3 -> Seq(Sane)]

InRow(c, x) == \E a \in 1 .. 3 : \E i \in DOMAIN c[a] : c[a][i] = x

(* d holds some of what c does, in no other order. *)
Within(d, c) ==
  /\ \A R : InOrder(c, R) => InOrder(d, R)
  /\ \A x : InRow(d, x) => InRow(c, x)

(* w comes into the buffer. *)
Gains(c, d, w) ==
  /\ c \in Row /\ d \in Row /\ w \in Seq(Sane)
  /\ d[1] = c[1] /\ d[2] = c[2] /\ d[3] = c[3] \o w

LEMMA Three ==
  ASSUME NEW s \in Seq(Sane), NEW q \in Seq(Sane), NEW b \in Seq(Sane)
  PROVE  /\ <<s, q, b>> \in Row
         /\ <<s, q, b>>[1] = s /\ <<s, q, b>>[2] = q /\ <<s, q, b>>[3] = b
  BY DEF Row

LEMMA RowRows ==
  ASSUME NEW c \in Row
  PROVE  /\ c[1] \in Seq(Sane) /\ c[2] \in Seq(Sane) /\ c[3] \in Seq(Sane)
         /\ \A a \in 1 .. 3 : c[a] \in Seq(Sane)
         /\ \A a \in 1 .. 3 : a = 1 \/ a = 2 \/ a = 3
         /\ 1 \in 1 .. 3 /\ 2 \in 1 .. 3 /\ 3 \in 1 .. 3 /\ 3 \in Nat
         /\ \A x : InRow(c, x) => x \in Sane
  <1>1. \A a \in 1 .. 3 : c[a] \in Seq(Sane)
      BY DEF Row
  <1>2. ASSUME NEW a \in 1 .. 3, NEW i \in DOMAIN c[a] PROVE c[a][i] \in Sane
      BY <1>1
  <1>. QED  BY <1>1, <1>2 DEF InRow

(* u is s and then w. *)
Strung(T, s, w, u) == s \in Seq(T) /\ w \in Seq(T) /\ u = s \o w

LEMMA Joined ==
  ASSUME NEW T, NEW s \in Seq(T), NEW w \in Seq(T)
  PROVE  /\ s \o w \in Seq(T) /\ Len(s) \in Nat /\ Len(w) \in Nat
         /\ Len(s \o w) = Len(s) + Len(w)
         /\ \A i \in DOMAIN s : i \in DOMAIN (s \o w) /\ (s \o w)[i] = s[i] /\ i \in Nat /\ i <= Len(s)
         /\ \A i \in DOMAIN w : Len(s) + i \in DOMAIN (s \o w) /\ (s \o w)[Len(s) + i] = w[i]
         /\ \A i \in DOMAIN (s \o w) :
              i \in DOMAIN s \/ (i - Len(s) \in DOMAIN w /\ i > Len(s) /\ (s \o w)[i] = w[i - Len(s)])
  <1> DEFINE t == s \o w
  <1>1. /\ t \in Seq(T) /\ Len(s) \in Nat /\ Len(w) \in Nat /\ Len(t) = Len(s) + Len(w)
        /\ \A i \in 1 .. Len(s) + Len(w) : t[i] = IF i <= Len(s) THEN s[i] ELSE w[i - Len(s)]
      BY ConcatProperties
  <1>2. DOMAIN s = 1 .. Len(s) /\ DOMAIN w = 1 .. Len(w) /\ DOMAIN t = 1 .. Len(s) + Len(w)
      BY <1>1
  <1> HIDE DEF t
  <1>3. ASSUME NEW i \in DOMAIN w PROVE Len(s) + i \in DOMAIN t /\ t[Len(s) + i] = w[i]
      BY <1>1, <1>2
  <1>4. ASSUME NEW i \in DOMAIN t, i \notin DOMAIN s
        PROVE  i - Len(s) \in DOMAIN w /\ i > Len(s) /\ t[i] = w[i - Len(s)]
      BY <1>1, <1>2, <1>4
  <1>. QED  BY <1>1, <1>3, <1>4, <1>2 DEF t

LEMMA WithinSame ==
  ASSUME NEW c, NEW d, c = d
  PROVE  Within(d, c)
  BY DEF Within

(* Something is taken away. *)
LEMMA WithinEnds ==
  ASSUME NEW c \in Row, NEW d \in Row,
         IsEnd(d[1], c[1]), IsEnd(d[2], c[2]), IsEnd(d[3], c[3])
  PROVE  Within(d, c)
  <1>1. \A a \in 1 .. 3 : IsEnd(d[a], c[a])
      BY RowRows
  <1>2. ASSUME NEW R, InOrder(c, R) PROVE InOrder(d, R)
      BY <1>1, <1>2, OrderKept, RowRows DEF Row
  <1>3. ASSUME NEW a \in 1 .. 3, NEW i \in DOMAIN d[a] PROVE \E j \in DOMAIN c[a] : d[a][i] = c[a][j]
      BY <1>1, RowRows, IsEndIn
  <1>. QED  BY <1>2, <1>3 DEF Within, InRow

(* The head of a queue goes to the one ahead. *)
Steps(c, d, a) ==
  /\ c \in Row /\ d \in Row /\ a \in 1 .. 2 /\ c[a + 1] # << >>
  /\ d[a] = Append(c[a], Head(c[a + 1])) /\ d[a + 1] = Tail(c[a + 1])
  /\ \A b \in 1 .. 3 : b # a /\ b # a + 1 => d[b] = c[b]

LEMMA WithinSteps ==
  ASSUME NEW c, NEW d, NEW a, Steps(c, d, a)
  PROVE  Within(d, c) /\ (\A x : InRow(c, x) => InRow(d, x))
  <1> USE DEF Steps
  <1> DEFINE e == Head(c[a + 1])
  <1>0. a \in 1 .. 3 /\ a + 1 \in 1 .. 3 /\ 3 \in Nat /\ \A k \in 1 .. 3 : c[k] \in Seq(Sane) /\ d[k] \in Seq(Sane)
      BY DEF Row
  <1>1. /\ e = c[a + 1][1] /\ 1 \in DOMAIN c[a + 1] /\ e \in Sane
        /\ \A i \in DOMAIN d[a + 1] : i + 1 \in DOMAIN c[a + 1] /\ d[a + 1][i] = c[a + 1][i + 1]
        /\ \A i \in DOMAIN c[a + 1] : i = 1 \/ (i - 1 \in DOMAIN d[a + 1] /\ d[a + 1][i - 1] = c[a + 1][i])
    <2> DEFINE s == c[a + 1]
    <2>1. s \in Seq(Sane) /\ s # << >> /\ d[a + 1] = Tail(s)
        BY <1>0
    <2>2. e = Head(s)
        OBVIOUS
    <2> HIDE DEF Steps, s, e
    <2>. QED  BY <2>1, <2>2, TailOf DEF s
  <1> HIDE DEF e
  <1>2. Grown(c[a], e, d[a])
      BY <1>0, <1>1, Appended DEF Adds, e
  <1>3. ASSUME NEW R, InOrder(c, R) PROVE InOrder(d, R)
    <2>1. Moves(3, Sane, R, c, d, a, e)
        BY <1>0, <1>1, <1>3 DEF Moves, Row, e, StandsFor
    <2>. QED  BY <2>1, OrderMoved
  <1>4. ASSUME NEW k \in 1 .. 3, NEW i \in DOMAIN d[k] PROVE InRow(c, d[k][i])
    <2>1. CASE k = a
      <3>1. CASE i \in DOMAIN c[a]
          BY <1>2, <2>1, <3>1, <1>0 DEF Grown, InRow
      <3>2. CASE d[a][i] = e
        <4> HIDE DEF Steps
        <4>. QED  BY <1>0, <1>1, <2>1, <3>2 DEF InRow
      <3>. QED  BY <3>1, <3>2, <1>2, <2>1 DEF Grown
    <2>2. CASE k = a + 1
        BY <1>0, <1>1, <2>2 DEF InRow
    <2>3. CASE k # a /\ k # a + 1
        BY <2>3 DEF InRow
    <2>. QED  BY <2>1, <2>2, <2>3
  <1>5. ASSUME NEW k \in 1 .. 3, NEW i \in DOMAIN c[k] PROVE InRow(d, c[k][i])
    <2>1. CASE k = a
        BY <1>0, <1>2, <2>1 DEF Grown, InRow
    <2>2. CASE k = a + 1
      <3>1. CASE i = 1
          BY <1>2, <1>0, <1>1, <2>2, <3>1, SMTT(30) DEF Grown, InRow
      <3>2. CASE i # 1
          BY <1>1, <2>2, <3>2, <1>0 DEF InRow
      <3>. QED  BY <3>1, <3>2
    <2>3. CASE k # a /\ k # a + 1
        BY <2>3 DEF InRow
    <2>. QED  BY <2>1, <2>2, <2>3
  <1>. QED  BY <1>3, <1>4, <1>5 DEF Within, InRow

LEMMA StrungDoes ==
  ASSUME NEW T, NEW s, NEW w, NEW u, Strung(T, s, w, u)
  PROVE  /\ u \in Seq(T) /\ Len(s) \in Nat
         /\ \A i \in DOMAIN s : i \in DOMAIN u /\ u[i] = s[i] /\ i \in Nat /\ i <= Len(s)
         /\ \A i \in DOMAIN w : Len(s) + i \in DOMAIN u /\ u[Len(s) + i] = w[i]
         /\ \A i \in DOMAIN u : i \in DOMAIN s \/ (i - Len(s) \in DOMAIN w /\ i > Len(s) /\ u[i] = w[i - Len(s)])
  <1>1. s \in Seq(T) /\ w \in Seq(T) /\ u = s \o w
      BY DEF Strung
  <1> DEFINE t == s \o w
  <1>2. u = t
      BY <1>1
  <1> HIDE DEF t
  <1>. QED  BY <1>2, <1>1, Joined

LEMMA GainsIn ==
  ASSUME NEW c, NEW d, NEW w, Gains(c, d, w)
  PROVE  \A x : InRow(d, x) <=> InRow(c, x) \/ \E i \in DOMAIN w : w[i] = x
  <1>1. /\ c[3] \in Seq(Sane) /\ w \in Seq(Sane) /\ d[3] = c[3] \o w /\ d[1] = c[1] /\ d[2] = c[2]
        /\ 1 \in 1 .. 3 /\ 2 \in 1 .. 3 /\ 3 \in 1 .. 3
        /\ \A a \in 1 .. 3 : a = 1 \/ a = 2 \/ a = 3
      BY RowRows DEF Gains
  <1>2. /\ \A i \in DOMAIN c[3] : i \in DOMAIN d[3] /\ d[3][i] = c[3][i]
        /\ \A i \in DOMAIN w : Len(c[3]) + i \in DOMAIN d[3] /\ d[3][Len(c[3]) + i] = w[i]
        /\ \A i \in DOMAIN d[3] :
              i \in DOMAIN c[3] \/ (i - Len(c[3]) \in DOMAIN w /\ d[3][i] = w[i - Len(c[3])])
    <2>1. Strung(Sane, c[3], w, d[3])
        BY <1>1 DEF Strung
    <2>. QED  BY <2>1, StrungDoes
  <1>3. ASSUME NEW k \in 1 .. 3, NEW i \in DOMAIN d[k]
        PROVE  InRow(c, d[k][i]) \/ \E j \in DOMAIN w : w[j] = d[k][i]
    <2>1. CASE k = 3
        BY <1>1, <1>2, <2>1, ZenonT(30) DEF InRow
    <2>2. CASE k # 3
        BY <1>1, <2>2 DEF InRow
    <2>. QED  BY <2>1, <2>2
  <1>4. ASSUME NEW k \in 1 .. 3, NEW i \in DOMAIN c[k] PROVE InRow(d, c[k][i])
      BY <1>1, <1>2 DEF InRow
  <1>5. ASSUME NEW i \in DOMAIN w PROVE InRow(d, w[i])
      BY <1>1, <1>2 DEF InRow
  <1>. QED  BY <1>3, <1>4, <1>5 DEF InRow

LEMMA GainsOrder ==
  ASSUME NEW c, NEW d, NEW w, NEW R, Gains(c, d, w), InOrder(c, R),
         \A x : InRow(c, x) => \A i \in DOMAIN w : <<x, w[i]>> \in R,
         \A i, j \in DOMAIN w : i < j => <<w[i], w[j]>> \in R
  PROVE  InOrder(d, R)
  <1>1. /\ c[3] \in Seq(Sane) /\ w \in Seq(Sane) /\ d[3] = c[3] \o w /\ d[1] = c[1] /\ d[2] = c[2]
        /\ 3 \in 1 .. 3 /\ DOMAIN c = 1 .. 3 /\ DOMAIN d = 1 .. 3
        /\ \A a \in 1 .. 3 : a = 1 \/ a = 2 \/ a = 3
      BY RowRows DEF Gains, Row
  <1> DEFINE n == Len(c[3])
  <1>2. /\ n \in Nat
        /\ \A i \in DOMAIN c[3] : i \in DOMAIN d[3] /\ d[3][i] = c[3][i] /\ i \in Nat /\ i <= n
        /\ \A i \in DOMAIN d[3] :
              i \in DOMAIN c[3] \/ (i - n \in DOMAIN w /\ i > n /\ d[3][i] = w[i - n])
      BY <1>1, StrungDoes DEF Strung
  <1>w. DOMAIN w \subseteq Nat /\ DOMAIN d[3] \subseteq Nat
      BY <1>1, RowRows DEF Gains
  <1> HIDE DEF n
  <1> SUFFICES ASSUME NEW a \in 1 .. 3, NEW b \in 1 .. 3,
                      NEW i \in DOMAIN d[a], NEW j \in DOMAIN d[b],
                      a < b \/ (a = b /\ i < j)
               PROVE  <<d[a][i], d[b][j]>> \in R
      BY <1>1 DEF InOrder
  <1>3. ASSUME NEW x \in 1 .. 3, NEW y \in DOMAIN c[x], NEW z \in DOMAIN w
        PROVE  <<c[x][y], w[z]>> \in R
      BY DEF InRow
  <1>4. CASE b # 3 \/ j \in DOMAIN c[3]
    <2>1. j \in DOMAIN c[b] /\ d[b][j] = c[b][j]
        BY <1>1, <1>2, <1>4
    <2>2. i \in DOMAIN c[a] /\ d[a][i] = c[a][i]
      <3>1. CASE a # 3
          BY <1>1, <3>1
      <3>2. CASE a = 3
          BY <1>1, <1>2, <1>4, <3>2, <1>w, SMTT(30)
      <3>. QED  BY <3>1, <3>2
    <2>. QED  BY <2>1, <2>2, <1>1 DEF InOrder
  <1>5. CASE b = 3 /\ j \notin DOMAIN c[3]
    <2>1. j - n \in DOMAIN w /\ d[b][j] = w[j - n]
        BY <1>2, <1>5
    <2>2. CASE a # 3 \/ i \in DOMAIN c[3]
      <3>1. i \in DOMAIN c[a] /\ d[a][i] = c[a][i]
          BY <1>1, <1>2, <2>2
      <3>. QED  BY <1>3, <2>1, <3>1
    <2>3. CASE a = 3 /\ i \notin DOMAIN c[3]
        BY <1>2, <1>5, <2>3, <1>w, <2>1
    <2>. QED  BY <2>2, <2>3
  <1>. QED  BY <1>4, <1>5

(* connectChat takes the first n datagrams of the buffer and prints them. *)
Draws(c, d, n) ==
  /\ c \in Row /\ d \in Row /\ n \in Nat /\ n <= Len(c[3])
  /\ c[2] = << >> /\ d[2] = << >>
  /\ d[1] = c[1] \o SubSeq(c[3], 1, n) /\ d[3] = SubSeq(c[3], n + 1, Len(c[3]))

LEMMA DrawsPlaces ==
  ASSUME NEW c, NEW d, NEW n, Draws(c, d, n)
  PROVE  /\ Len(c[1]) \in Nat /\ n \in Nat
         /\ DOMAIN c[1] \subseteq Nat /\ DOMAIN c[3] \subseteq Nat
         /\ DOMAIN d[1] \subseteq Nat /\ DOMAIN d[3] \subseteq Nat
         /\ DOMAIN c[2] = {} /\ DOMAIN d[2] = {}
         /\ \A i \in DOMAIN d[1] :
              \/ i \in DOMAIN c[1] /\ d[1][i] = c[1][i] /\ i <= Len(c[1])
              \/ /\ i - Len(c[1]) \in DOMAIN c[3] /\ d[1][i] = c[3][i - Len(c[1])]
                 /\ i > Len(c[1]) /\ i - Len(c[1]) <= n
         /\ \A i \in DOMAIN d[3] : i + n \in DOMAIN c[3] /\ d[3][i] = c[3][i + n] /\ i >= 1
         /\ \A i \in DOMAIN c[1] : i \in DOMAIN d[1] /\ d[1][i] = c[1][i]
         /\ \A i \in DOMAIN c[3] :
              \/ Len(c[1]) + i \in DOMAIN d[1] /\ d[1][Len(c[1]) + i] = c[3][i]
              \/ i - n \in DOMAIN d[3] /\ d[3][i - n] = c[3][i]
  <1> USE DEF Draws
  <1> DEFINE t == SubSeq(c[3], 1, n)
             l == Len(c[1])
  <1>1. /\ c[1] \in Seq(Sane) /\ c[3] \in Seq(Sane) /\ d[1] \in Seq(Sane) /\ d[3] \in Seq(Sane)
      BY RowRows
  <1>2. /\ DOMAIN c[1] = 1 .. Len(c[1]) /\ DOMAIN c[3] = 1 .. Len(c[3])
        /\ DOMAIN d[1] = 1 .. Len(d[1]) /\ DOMAIN d[3] = 1 .. Len(d[3])
        /\ Len(c[1]) \in Nat /\ Len(c[3]) \in Nat
      BY <1>1
  <1>3. t \in Seq(Sane) /\ DOMAIN t = 1 .. n /\ \A i \in 1 .. n : t[i] = c[3][i] /\ i \in DOMAIN c[3]
    <2>1. t \in Seq(Sane) /\ Len(t) = n /\ \A i \in 1 .. n : t[i] = c[3][i]
        BY <1>1
    <2> HIDE DEF t
    <2>. QED  BY <1>2, <2>1
  <1>4. d[1] = c[1] \o t
      OBVIOUS
  <1> HIDE DEF t
  <1>5. /\ \A i \in DOMAIN c[1] : i \in DOMAIN d[1] /\ d[1][i] = c[1][i] /\ i \in Nat /\ i <= l
        /\ \A i \in DOMAIN t : l + i \in DOMAIN d[1] /\ d[1][l + i] = t[i]
        /\ \A i \in DOMAIN d[1] : i \in DOMAIN c[1] \/ (i - l \in DOMAIN t /\ i > l /\ d[1][i] = t[i - l])
    <2>1. Strung(Sane, c[1], t, d[1])
        BY <1>1, <1>3, <1>4 DEF Strung
    <2> HIDE DEF Draws
    <2>. QED  BY <2>1, StrungDoes
  <1>6. /\ Len(d[3]) = Len(c[3]) - n
        /\ \A i \in 1 .. Len(c[3]) - n : d[3][i] = c[3][i + n]
      BY <1>1, Ends
  <1>n. n \in Nat /\ n <= Len(c[3]) /\ DOMAIN c[2] = {} /\ DOMAIN d[2] = {}
      OBVIOUS
  <1> HIDE DEF Draws
  <1>7. \A i \in DOMAIN d[3] : i + n \in DOMAIN c[3] /\ d[3][i] = c[3][i + n] /\ i >= 1
      BY <1>n, <1>2, <1>6, SMTT(30)
  <1>8. ASSUME NEW i \in DOMAIN c[3]
        PROVE  \/ l + i \in DOMAIN d[1] /\ d[1][l + i] = c[3][i]
               \/ i - n \in DOMAIN d[3] /\ d[3][i - n] = c[3][i]
    <2>1. CASE i <= n
        BY <1>2, <2>1, <1>3, <1>5, SMTT(30)
    <2>2. CASE ~ (i <= n)
      <3>1. i - n \in 1 .. Len(c[3]) - n /\ (i - n) + n = i
          BY <1>n, <1>2, <2>2
      <3>. QED  BY <1>2, <1>6, <3>1
    <2>. QED  BY <2>1, <2>2
  <1>9. ASSUME NEW i \in DOMAIN d[1]
        PROVE  \/ i \in DOMAIN c[1] /\ d[1][i] = c[1][i] /\ i <= l
               \/ /\ i - l \in DOMAIN c[3] /\ d[1][i] = c[3][i - l]
                  /\ i > l /\ i - l <= n
      BY <1>5, <1>3
  <1>. QED  BY <1>n, <1>5, <1>7, <1>8, <1>9, <1>1, <1>2

LEMMA DrawsWithin ==
  ASSUME NEW c, NEW d, NEW n, Draws(c, d, n)
  PROVE  Within(d, c) /\ (\A x : InRow(c, x) => InRow(d, x))
  <1> DEFINE l == Len(c[1])
  <1>1. /\ l \in Nat /\ n \in Nat
        /\ DOMAIN c[1] \subseteq Nat /\ DOMAIN c[3] \subseteq Nat
        /\ DOMAIN d[1] \subseteq Nat /\ DOMAIN d[3] \subseteq Nat
        /\ DOMAIN c[2] = {} /\ DOMAIN d[2] = {}
      BY DrawsPlaces
  <1>2. \A i \in DOMAIN d[1] :
              \/ i \in DOMAIN c[1] /\ d[1][i] = c[1][i] /\ i <= l
              \/ i - l \in DOMAIN c[3] /\ d[1][i] = c[3][i - l] /\ i > l /\ i - l <= n
      BY DrawsPlaces
  <1>3. \A i \in DOMAIN d[3] : i + n \in DOMAIN c[3] /\ d[3][i] = c[3][i + n] /\ i >= 1
      BY DrawsPlaces
  <1>4. /\ DOMAIN c = 1 .. 3 /\ DOMAIN d = 1 .. 3
        /\ 1 \in 1 .. 3 /\ 2 \in 1 .. 3 /\ 3 \in 1 .. 3
        /\ \A a \in 1 .. 3 : a = 1 \/ a = 2 \/ a = 3
      BY RowRows DEF Draws, Row
  <1> HIDE DEF l
  <1>5. ASSUME NEW R, InOrder(c, R) PROVE InOrder(d, R)
    <2>1. /\ \A x, y \in DOMAIN c[1] : x < y => <<c[1][x], c[1][y]>> \in R
          /\ \A x, y \in DOMAIN c[3] : x < y => <<c[3][x], c[3][y]>> \in R
          /\ \A x \in DOMAIN c[1], y \in DOMAIN c[3] : <<c[1][x], c[3][y]>> \in R
        BY <1>4, <1>5 DEF InOrder
    <2> SUFFICES ASSUME NEW a \in 1 .. 3, NEW b \in 1 .. 3,
                        NEW i \in DOMAIN d[a], NEW j \in DOMAIN d[b],
                        a < b \/ (a = b /\ i < j)
                 PROVE  <<d[a][i], d[b][j]>> \in R
        BY <1>4 DEF InOrder
    <2>2. CASE a = 1 /\ b = 1
        BY <2>1, <2>2, <1>1, <1>2
    <2>3. CASE a = 1 /\ b = 3
      <3>1. j + n \in DOMAIN c[3] /\ d[3][j] = c[3][j + n] /\ j >= 1
          BY <1>3, <2>3
      <3>2. CASE i \in DOMAIN c[1] /\ d[1][i] = c[1][i]
          BY <2>1, <2>3, <3>1, <3>2
      <3>3. CASE i - l \in DOMAIN c[3] /\ d[1][i] = c[3][i - l] /\ i > l /\ i - l <= n
          BY <2>1, <2>3, <3>1, <3>3, <1>1
      <3>. QED  BY <1>2, <2>3, <3>2, <3>3
    <2>4. CASE a = 3 /\ b = 3
        BY <1>1, <2>4, <1>3, <2>1
    <2>. QED  BY <1>1, <1>4, <2>2, <2>3, <2>4
  <1>6. ASSUME NEW a \in 1 .. 3, NEW i \in DOMAIN d[a] PROVE InRow(c, d[a][i])
      BY <1>2, <1>4, <1>3, <1>1 DEF InRow
  <1>7. ASSUME NEW a \in 1 .. 3, NEW i \in DOMAIN c[a] PROVE InRow(d, c[a][i])
      BY <1>4, <1>1, DrawsPlaces DEF InRow
  <1>. QED  BY <1>5, <1>6, <1>7 DEF Within, InRow

(* The first n datagrams of the buffer, or the head of receiveQueue, are   *)
(* taken and not printed.                                                  *)
LEMMA WithinDrops ==
  ASSUME NEW c \in Row, NEW d \in Row, d[1] = c[1], d[2] = c[2],
         NEW n \in Nat, n <= Len(c[3]), d[3] = SubSeq(c[3], n + 1, Len(c[3]))
  PROVE  /\ Within(d, c)
         /\ \A x : InRow(c, x) => InRow(d, x) \/ \E i \in 1 .. n : c[3][i] = x
  <1>0. /\ \A a \in 1 .. 3 : c[a] \in Seq(Sane) /\ d[a] \in Seq(Sane)
        /\ 1 \in 1 .. 3 /\ 2 \in 1 .. 3 /\ 3 \in 1 .. 3
        /\ \A a \in 1 .. 3 : a = 1 \/ a = 2 \/ a = 3
      BY RowRows
  <1>1. /\ IsEnd(d[1], c[1]) /\ IsEnd(d[2], c[2]) /\ IsEnd(d[3], c[3])
        /\ Len(d[3]) = Len(c[3]) - n
        /\ \A i \in 1 .. Len(c[3]) - n : d[3][i] = c[3][i + n]
      BY <1>0, Ends
  <1>2. Within(d, c)
      BY <1>1, WithinEnds
  <1>3. ASSUME NEW i \in DOMAIN c[3], ~ (i \in 1 .. n) PROVE InRow(d, c[3][i])
    <2>1. i - n \in 1 .. Len(c[3]) - n /\ (i - n) + n = i /\ DOMAIN d[3] = 1 .. Len(d[3])
        BY <1>0, <1>3, SMTT(30)
    <2>. QED  BY <1>0, <1>1, <2>1 DEF InRow
  <1>4. ASSUME NEW a \in 1 .. 3, NEW i \in DOMAIN c[a]
        PROVE  InRow(d, c[a][i]) \/ \E j \in 1 .. n : c[3][j] = c[a][i]
    <2>1. CASE a # 3
        BY <1>0, <2>1 DEF InRow
    <2>2. CASE a = 3
        BY <2>2, <1>3
    <2>. QED  BY <2>1, <2>2
  <1>5. ASSUME NEW x, InRow(c, x) PROVE InRow(d, x) \/ \E i \in 1 .. n : c[3][i] = x
    <2>1. PICK a \in 1 .. 3 : \E i \in DOMAIN c[a] : c[a][i] = x
        BY <1>5 DEF InRow
    <2>. QED  BY <1>4, <2>1
  <1>. QED  BY <1>2, <1>5

LEMMA WithinTail ==
  ASSUME NEW c \in Row, NEW d \in Row, d[1] = c[1], d[3] = c[3],
         c[2] # << >>, d[2] = Tail(c[2])
  PROVE  /\ Within(d, c)
         /\ \A x : InRow(c, x) => InRow(d, x) \/ x = Head(c[2])
  <1>0. /\ \A a \in 1 .. 3 : c[a] \in Seq(Sane) /\ d[a] \in Seq(Sane)
        /\ 1 \in 1 .. 3 /\ 2 \in 1 .. 3 /\ 3 \in 1 .. 3
        /\ \A a \in 1 .. 3 : a = 1 \/ a = 2 \/ a = 3
      BY RowRows
  <1>1. Within(d, c)
      BY <1>0, WithinEnds, Ends
  <1>2. /\ Head(c[2]) = c[2][1]
        /\ \A i \in DOMAIN c[2] : i = 1 \/ (i - 1 \in DOMAIN d[2] /\ d[2][i - 1] = c[2][i])
      BY <1>0, TailOf, SMTT(30)
  <1>3. ASSUME NEW a \in 1 .. 3, NEW i \in DOMAIN c[a]
        PROVE  InRow(d, c[a][i]) \/ c[a][i] = Head(c[2])
      BY <1>0, <1>2 DEF InRow
  <1>. QED  BY <1>1, <1>3 DEF InRow

LEMMA PipeRow ==
  ASSUME Base, NEW m \in Joiners
  PROVE  /\ Pipe(m) \in Row /\ Pipe(m)[1] = shown[m] /\ Pipe(m)[2] = receiveQueue[m] /\ Pipe(m)[3] = box[m]
         /\ shown[m] \in Seq(Sane) /\ receiveQueue[m] \in Seq(Sane) /\ box[m] \in Seq(Sane)
  <1>. QED  BY Three, Kinds1 DEF Pipe, Base, Origins, Boxed

LEMMA PipeRowNext ==
  ASSUME Base', NEW m \in Joiners
  PROVE  /\ Pipe(m)' \in Row /\ Pipe(m)'[1] = shown'[m] /\ Pipe(m)'[2] = receiveQueue'[m]
         /\ Pipe(m)'[3] = box'[m]
         /\ shown'[m] \in Seq(Sane) /\ receiveQueue'[m] \in Seq(Sane) /\ box'[m] \in Seq(Sane)
  <1>. QED  BY Three, Kinds1 DEF Pipe, Base, Origins, Boxed

(* Some of c goes, no line of it if keep, and then w comes. *)
Changes(c, d, w, keep) ==
  \E u \in Row : /\ Within(u, c) /\ Gains(u, d, w)
                 /\ keep => \A x : x.kind = "LINE" /\ InRow(c, x) => InRow(u, x)

LEMMA NothingComes ==
  ASSUME NEW c \in Row, NEW d \in Row, NEW keep, Within(d, c),
         keep => \A x : x.kind = "LINE" /\ InRow(c, x) => InRow(d, x)
  PROVE  Changes(c, d, << >>, keep)
  <1>. QED  BY ConcatEmptySeq, RowRows DEF Changes, Gains

LEMMA OneComes ==
  ASSUME NEW c \in Row, NEW u \in Row, NEW d \in Row, NEW keep, Within(u, c),
         keep => \A x : x.kind = "LINE" /\ InRow(c, x) => InRow(u, x),
         NEW e \in Sane, d[1] = u[1], d[2] = u[2], d[3] = Append(u[3], e)
  PROVE  Changes(c, d, <<e>>, keep)
  <1>1. u[3] \in Seq(Sane) /\ <<e>> \in Seq(Sane)
      BY RowRows
  <1>. QED  BY <1>1, AppendIsConcat DEF Changes, Gains

Redirected(m) == stage[m] = "reply" /\ box[m] # << >> /\ Head(box[m]).kind = "REDIRECT"

Keep(m) == m \notin strayed' /\ stage'[m] # "gone" /\ ~Redirected(m)

(* What a step may put into the buffer of m. *)
Brings(m, w) ==
  \/ /\ \E k \in Keys : ServeLine(k)
     /\ m \in Range(userList)
     /\ \E e \in Relays : w = <<e>> /\ relayed' = Append(relayed, e)
  \/ /\ SeqSend /\ sendAt \in 1 .. Len(userList) /\ Walked(sendAt) = m
     /\ w = <<Head(sendQueue[S])>>
  \/ /\ Multicast /\ theirAddress \notin Range(userList) /\ m \in Range(userList)
     /\ w = <<Datagram("NEWUSER", pending, 0, S)>>
  \/ Welcoming /\ burst.to = m /\ w = Head(burst.left)
  \/ /\ \E k \in Keys : ServeJoin(k)
     /\ theirAddress = m /\ w = <<Datagram("OK", Nobody, 0, S)>>
  \/ /\ \E k \in Keys : ServeLeave(k)
     /\ m \in Range(userList') /\ w = <<Datagram("LEFT", shift.of, 0, S)>>
  \/ /\ \E p \in Joiners : MemberSend(p) \/ Ask(p) \/ TakeRedirect(p) \/ Redirect(p)
     /\ \E e \in Requests : w = <<e>> /\ (e.kind \in {"JOIN", "REDIRECT"} \/ crossed')

PipeChanges(m) ==
  \E w \in Seq(Sane) : Changes(Pipe(m), Pipe(m)', w, Keep(m)) /\ (w = << >> \/ Brings(m, w))

LEMMA PipeStays ==
  ASSUME Base, Base', NEW m \in Joiners,
         shown'[m] = shown[m], IsEnd(receiveQueue'[m], receiveQueue[m]), IsEnd(box'[m], box[m]),
         (receiveQueue'[m] = receiveQueue[m] /\ box'[m] = box[m]) \/ ~Keep(m)
  PROVE  PipeChanges(m)
  <1> DEFINE c == Pipe(m)
             d == Pipe(m)'
  <1>1. /\ c \in Row /\ d \in Row /\ d[1] = c[1] /\ c[3] = box[m] /\ d[3] = box'[m]
        /\ c[2] = receiveQueue[m] /\ d[2] = receiveQueue'[m]
      BY PipeRow, PipeRowNext
  <1> HIDE DEF c, d
  <1>2. /\ \A a \in 1 .. 3 : c[a] \in Seq(Sane) /\ d[a] \in Seq(Sane)
        /\ 1 \in 1 .. 3 /\ 2 \in 1 .. 3 /\ \A a \in 1 .. 3 : a = 1 \/ a = 2 \/ a = 3
      BY <1>1, RowRows
  <1>3. Keep(m) => \A x : x.kind = "LINE" /\ InRow(c, x) => InRow(d, x)
    <2> SUFFICES ASSUME receiveQueue'[m] = receiveQueue[m], box'[m] = box[m]
                 PROVE  \A x : InRow(c, x) => InRow(d, x)
        OBVIOUS
    <2>. QED  BY <1>1, <1>2 DEF InRow
  <1>4. << >> \in Seq(Sane)
      OBVIOUS
  <1>. QED  BY <1>4, <1>1, <1>3, <1>2, NothingComes, WithinEnds, Ends DEF PipeChanges, c, d

(* A datagram comes, when perhaps another has gone. *)
LEMMA PipeGets ==
  ASSUME Base, Base', NEW m \in Joiners, NEW e \in Sane, Brings(m, <<e>>),
         shown'[m] = shown[m], NEW b \in Seq(Sane), box'[m] = Append(b, e), IsEnd(b, box[m]),
         b = box[m] \/ ~Keep(m),
         \/ receiveQueue'[m] = receiveQueue[m]
         \/ /\ receiveQueue[m] # << >> /\ Head(receiveQueue[m]).kind # "LINE"
            /\ receiveQueue'[m] = Tail(receiveQueue[m])
  PROVE  PipeChanges(m)
  <1> DEFINE c == Pipe(m)
             d == Pipe(m)'
             u == <<shown'[m], receiveQueue'[m], b>>
  <1>1. /\ c \in Row /\ d \in Row /\ u \in Row
        /\ c[1] = shown[m] /\ c[2] = receiveQueue[m] /\ c[3] = box[m]
        /\ d[1] = u[1] /\ d[2] = u[2] /\ d[3] = Append(u[3], e)
        /\ u[1] = c[1] /\ u[2] = receiveQueue'[m] /\ u[3] = b
      BY PipeRow, PipeRowNext, Three
  <1> HIDE DEF c, d, u
  <1>2. /\ c[1] \in Seq(Sane) /\ c[2] \in Seq(Sane) /\ c[3] \in Seq(Sane)
        /\ \A a \in 1 .. 3 : a = 1 \/ a = 2 \/ a = 3
      BY <1>1, RowRows
  <1>3. Within(u, c)
      BY <1>1, <1>2, WithinEnds, Ends
  <1>4. ASSUME Keep(m), NEW x, x.kind = "LINE", InRow(c, x) PROVE InRow(u, x)
    <2>1. u[3] = c[3]
        BY <1>1, <1>4
    <2>2. CASE receiveQueue'[m] = receiveQueue[m]
        BY <1>1, <1>2, <2>1, <2>2, <1>4 DEF InRow
    <2>3. CASE /\ receiveQueue[m] # << >> /\ Head(receiveQueue[m]).kind # "LINE"
               /\ receiveQueue'[m] = Tail(receiveQueue[m])
        BY <1>1, <2>3, <2>1, <1>4, WithinTail
    <2>. QED  BY <2>2, <2>3
  <1>5. <<e>> \in Seq(Sane)
      OBVIOUS
  <1>. QED  BY <1>5, <1>1, <1>3, <1>4, OneComes DEF PipeChanges, c, d

(* A datagram is delivered to some. *)
LEMMA PipeDelivered ==
  ASSUME Base, Base', NEW m \in Joiners, NEW e \in Sane, NEW P, P => Brings(m, <<e>>),
         shown'[m] = shown[m], receiveQueue'[m] = receiveQueue[m],
         box'[m] = IF P THEN Append(box[m], e) ELSE box[m]
  PROVE  PipeChanges(m)
  <1>1. box[m] \in Seq(Sane) /\ receiveQueue[m] \in Seq(Sane)
      BY PipeRow
  <1>2. IsEnd(box[m], box[m]) /\ IsEnd(receiveQueue[m], receiveQueue[m])
      BY <1>1, Ends
  <1>3. CASE P
      BY <1>1, <1>2, <1>3, PipeGets
  <1>4. CASE ~P
      BY <1>2, <1>4, PipeStays
  <1>. QED  BY <1>3, <1>4

(* receiveQueue hands its head on, or throws it away. *)
LEMMA PipeTail ==
  ASSUME Base, Base', NEW m \in Joiners, box'[m] = box[m],
         receiveQueue[m] # << >>, receiveQueue'[m] = Tail(receiveQueue[m]),
         \/ shown'[m] = shown[m] /\ Head(receiveQueue[m]).kind # "LINE"
         \/ shown'[m] = Append(shown[m], Head(receiveQueue[m]))
  PROVE  PipeChanges(m)
  <1> DEFINE c == Pipe(m)
             d == Pipe(m)'
  <1>1. /\ c \in Row /\ d \in Row
        /\ c[1] = shown[m] /\ c[2] = receiveQueue[m] /\ c[3] = box[m]
        /\ d[1] = shown'[m] /\ d[2] = receiveQueue'[m] /\ d[3] = box'[m]
      BY PipeRow, PipeRowNext
  <1> HIDE DEF c, d
  <1>2. Within(d, c) /\ \A x : x.kind = "LINE" /\ InRow(c, x) => InRow(d, x)
    <2>1. CASE shown'[m] = shown[m] /\ Head(receiveQueue[m]).kind # "LINE"
        BY <1>1, <2>1, WithinTail
    <2>2. CASE shown'[m] = Append(shown[m], Head(receiveQueue[m]))
      <3>1. Steps(c, d, 1)
          BY <1>1, <2>2 DEF Steps
      <3>. QED  BY <3>1, WithinSteps
    <2>. QED  BY <2>1, <2>2
  <1>3. << >> \in Seq(Sane)
      OBVIOUS
  <1>. QED  BY <1>3, <1>1, <1>2, NothingComes DEF PipeChanges, c, d

LEMMA PipeReceives ==
  ASSUME Base, Base', NEW m \in Joiners, box[m] # << >>, box'[m] = Tail(box[m]),
         receiveQueue'[m] = Append(receiveQueue[m], Head(box[m])), shown'[m] = shown[m]
  PROVE  PipeChanges(m)
  <1> DEFINE c == Pipe(m)
             d == Pipe(m)'
  <1>1. /\ c \in Row /\ d \in Row
        /\ c[1] = shown[m] /\ c[2] = receiveQueue[m] /\ c[3] = box[m]
        /\ d[1] = shown'[m] /\ d[2] = receiveQueue'[m] /\ d[3] = box'[m]
      BY PipeRow, PipeRowNext
  <1> HIDE DEF c, d
  <1>2. Steps(c, d, 2)
      BY <1>1 DEF Steps
  <1>3. << >> \in Seq(Sane)
      OBVIOUS
  <1>. QED  BY <1>3, <1>1, <1>2, NothingComes, WithinSteps DEF PipeChanges, c, d

(* connectChat takes n datagrams; it prints them, or they are no lines. *)
LEMMA PipeTakes ==
  ASSUME Base, Base', NEW m \in Joiners, NEW n \in Nat, n <= Len(box[m]),
         box'[m] = SubSeq(box[m], n + 1, Len(box[m])),
         receiveQueue[m] = << >>, receiveQueue'[m] = << >>,
         \/ shown'[m] = shown[m] \o Taken(m, n)
         \/ shown'[m] = shown[m] /\ (Keep(m) => \A i \in 1 .. n : box[m][i].kind # "LINE")
  PROVE  PipeChanges(m)
  <1> DEFINE c == Pipe(m)
             d == Pipe(m)'
  <1>1. /\ c \in Row /\ d \in Row
        /\ c[1] = shown[m] /\ c[2] = receiveQueue[m] /\ c[3] = box[m]
        /\ d[1] = shown'[m] /\ d[2] = receiveQueue'[m] /\ d[3] = box'[m]
      BY PipeRow, PipeRowNext
  <1> HIDE DEF c, d
  <1>2. Within(d, c) /\ (Keep(m) => \A x : x.kind = "LINE" /\ InRow(c, x) => InRow(d, x))
    <2>1. CASE shown'[m] = shown[m] \o Taken(m, n)
        BY <1>1, <2>1, DrawsWithin DEF Draws, Taken
    <2>2. CASE shown'[m] = shown[m] /\ (Keep(m) => \A i \in 1 .. n : box[m][i].kind # "LINE")
      <3>1. /\ Within(d, c)
            /\ \A x : InRow(c, x) => InRow(d, x) \/ \E i \in 1 .. n : c[3][i] = x
        <4>1. /\ c \in Row /\ d \in Row /\ d[1] = c[1] /\ d[2] = c[2]
              /\ n \in Nat /\ n <= Len(c[3]) /\ d[3] = SubSeq(c[3], n + 1, Len(c[3]))
            BY <1>1, <2>2
        <4>. QED  BY <4>1, WithinDrops
      <3>. QED  BY <1>1, <2>2, <3>1
    <2>. QED  BY <2>1, <2>2
  <1>3. << >> \in Seq(Sane)
      OBVIOUS
  <1>. QED  BY <1>3, <1>1, <1>2, NothingComes DEF PipeChanges, c, d

LEMMA PipeIdle ==
  ASSUME Base, Base', NEW m \in Joiners,
         shown'[m] = shown[m], receiveQueue'[m] = receiveQueue[m], box'[m] = box[m]
  PROVE  PipeChanges(m)
  <1>. QED  BY PipeStays, PipeRow, Ends

LEMMA PipeStep ==
  ASSUME Base, Base', [Next]_vars, NEW m \in Joiners
  PROVE  PipeChanges(m)
  <1>s. S \in Proc /\ S \notin Joiners /\ Joiners \subseteq Proc /\ m # S /\ m \in Proc
      BY Kinds1
  <1>e. /\ Datagram("OK", Nobody, 0, S) \in Sane
        /\ \A p \in Joiners : /\ Datagram("NEWUSER", p, 0, S) \in Sane
                              /\ Datagram("LEFT", p, 0, S) \in Sane
      BY Answers
  <1>r. /\ \A p \in Joiners : Datagram("JOIN", p, 0, p) \in Requests
        /\ \A p \in Joiners, q \in Proc : Datagram("REDIRECT", q, 0, p) \in Requests
        /\ Requests \subseteq Sane
      BY Answers, Kinds1
  <1>b. /\ box[m] \in Seq(Sane) /\ receiveQueue[m] \in Seq(Sane)
        /\ IsEnd(box[m], box[m]) /\ IsEnd(receiveQueue[m], receiveQueue[m])
        /\ IsEnd(<< >>, box[m])
        /\ (receiveQueue[m] # << >> => IsEnd(Tail(receiveQueue[m]), receiveQueue[m]))
      BY PipeRow, Ends
  <1>1. CASE SeqSend
    <2>1. UNCHANGED <<shown, receiveQueue>> /\ sendQueue[S] # << >>
        BY <1>1 DEF SeqSend
    <2>2. CASE box' = box
        BY <2>1, <2>2, PipeIdle
    <2>3. CASE /\ sendAt \in 1 .. Len(userList)
               /\ box' = Deliver(box, {Walked(sendAt)}, Head(sendQueue[S]))
      <3>1. Head(sendQueue[S]) \in Sane
          BY <1>s, <2>1, TailOf DEF Base, Origins
      <3>2. m = Walked(sendAt) /\ Up(m) => Brings(m, <<Head(sendQueue[S])>>)
          BY <1>1, <2>3 DEF Brings
      <3>. QED  BY <2>1, <3>1, <3>2, <1>s, <2>3, PipeDelivered DEF Deliver
    <2>. QED  BY <1>1, <2>2, <2>3, SeqSendDoes
  <1>2. CASE SeqReceive
      BY <1>s, <1>2, SeqReceiveDoes, PipeIdle
  <1>3. CASE Multicast
    <2> DEFINE e == Datagram("NEWUSER", pending, 0, S)
    <2>1. /\ UNCHANGED <<shown, receiveQueue>> /\ pending \in Joiners
          /\ box'[m] = IF theirAddress \notin Range(userList) /\ m \in Range(userList) /\ Up(m)
                       THEN Append(box[m], e) ELSE box[m]
        BY <1>s, <1>3, MulticastDoes
    <2>2. theirAddress \notin Range(userList) /\ m \in Range(userList) /\ Up(m) => Brings(m, <<e>>)
        BY <1>3 DEF Brings
    <2>3. e \in Sane
        BY <1>e, <2>1
    <2> HIDE DEF e
    <2>. QED  BY <2>1, <2>2, <2>3, PipeDelivered
  <1>4. CASE Welcoming
    <2> DEFINE w == Head(burst.left)
    <2>1. /\ UNCHANGED <<shown, receiveQueue>> /\ w \in Seq(Sane)
          /\ box'[m] = IF m = burst.to /\ Up(m) THEN box[m] \o w ELSE box[m]
        BY <1>s, <1>4, WelcomingDoes
    <2>2. CASE m = burst.to /\ Up(m)
      <3> DEFINE c == Pipe(m)
                 d == Pipe(m)'
      <3>1. /\ c \in Row /\ d \in Row /\ d[1] = c[1] /\ d[2] = c[2] /\ d[3] = c[3] \o w
          BY <2>1, <2>2, PipeRow, PipeRowNext
      <3>2. Brings(m, w)
          BY <1>4, <2>2 DEF Brings
      <3> HIDE DEF c, d, w
      <3>. QED  BY <2>1, <3>2, <3>1, WithinSame DEF PipeChanges, c, d, Changes, Gains
    <2>3. CASE ~ (m = burst.to /\ Up(m))
        BY <2>1, <2>3, PipeIdle
    <2>. QED  BY <2>2, <2>3
  <1>5. ASSUME NEW k \in Keys, ServeJoin(k) PROVE PipeChanges(m)
    <2> DEFINE e == Datagram("OK", Nobody, 0, S)
    <2>1. PICK h \in Range(fairQMap[k]) :
            /\ Serve(k, h)
            /\ box' = Deliver(box, {theirAddress}, e)
        BY <1>5 DEF ServeJoin, SendTo
    <2>2. m = theirAddress /\ Up(m) => Brings(m, <<e>>)
        BY <1>5 DEF Brings
    <2>3. e \in Sane
        BY <1>e
    <2> HIDE DEF e
    <2>. QED  BY <2>2, <2>3, <1>s, <2>1, PipeDelivered, ServeDoes DEF Deliver
  <1>6. ASSUME NEW k \in Keys, ServeLeave(k) PROVE PipeChanges(m)
    <2> DEFINE e == Datagram("LEFT", shift.of, 0, S)
    <2>1. PICK h \in Range(fairQMap[k]) :
            /\ Serve(k, h)
            /\ \/ /\ shift.of \in Joiners
                  /\ \A p \in Proc : box'[p] = IF p \in Range(userList') /\ Up(p) THEN Append(box[p], e) ELSE box[p]
               \/ \A p \in Proc : p # S => box'[p] = box[p]
        BY <1>6, ServeLeaveDoes
    <2>2. UNCHANGED <<shown, receiveQueue>>
        BY <2>1, ServeDoes
    <2>3. m \in Range(userList') /\ Up(m) => Brings(m, <<e>>)
        BY <1>6 DEF Brings
    <2>4. shift.of \in Joiners => e \in Sane
        BY <1>e
    <2> HIDE DEF e
    <2>. QED  BY <2>2, <2>3, <2>4, <1>s, <2>1, PipeDelivered, PipeIdle
  <1>7. ASSUME NEW k \in Keys, ServeLine(k) PROVE PipeChanges(m)
    <2>1. PICK h \in Range(fairQMap[k]) :
            /\ Serve(k, h)
            /\ [h EXCEPT !.from = S] \in Relays /\ [h EXCEPT !.from = S] \in Sane
            /\ relayed' = Append(relayed, [h EXCEPT !.from = S])
            /\ \A p \in Proc : box'[p] = IF p \in Range(userList) /\ Up(p)
                                         THEN Append(box[p], [h EXCEPT !.from = S]) ELSE box[p]
        BY <1>7, ServeLineDoes
    <2> DEFINE e == [h EXCEPT !.from = S]
    <2> HIDE DEF e
    <2>. QED  BY <1>7, <1>s, <2>1, PipeDelivered, ServeDoes DEF Brings
  <1>8. ASSUME NEW p \in Proc, Type(p) \/ EndInput(p) \/ PushLeave(p) PROVE PipeChanges(m)
      BY <1>8, PipeIdle DEF Type, EndInput, PushLeave
  <1>9. ASSUME NEW p \in Proc, TestDead(p) PROVE PipeChanges(m)
      BY <1>9, <1>b, <1>s, PipeStays, PipeIdle, SMTT(30) DEF TestDead, Keep, Emptied, Base, Origins, Boxed,
         Scalars
  <1>10. ASSUME NEW p \in Joiners, Ask(p) PROVE PipeChanges(m)
    <2> DEFINE e == Datagram("JOIN", p, 0, p)
    <2>1. /\ UNCHANGED <<shown, receiveQueue>>
          /\ box'[m] = IF m = Contact[p] /\ Up(m) THEN Append(box[m], e) ELSE box[m]
        BY <1>s, <1>10, AskDoes
    <2>2. e \in Requests /\ e \in Sane /\ e.kind = "JOIN"
        BY <1>r DEF Datagram
    <2> HIDE DEF e
    <2>. QED  BY <2>1, <2>2, <1>10, PipeDelivered DEF Brings
  <1>11. ASSUME NEW p \in Joiners, GiveUp(p) PROVE PipeChanges(m)
      BY <1>11, GiveUpDoes, PipeIdle
  <1>12. ASSUME NEW p \in Joiners, TakeRedirect(p) PROVE PipeChanges(m)
    <2> DEFINE e == Datagram("JOIN", p, 0, p)
               b == Emptied(p)[m]
    <2>1. /\ UNCHANGED <<shown, receiveQueue>>
          /\ box'[m] = IF m = Head(box[p]).who /\ Up(m) THEN Append(b, e) ELSE b
          /\ p = m => b = << >>
          /\ p # m => b = box[m]
        BY <1>s, <1>12, TakeRedirectDoes
    <2>2. e \in Requests /\ e \in Sane /\ e.kind = "JOIN"
        BY <1>r DEF Datagram
    <2>3. b \in Seq(Sane) /\ IsEnd(b, box[m]) /\ (b = box[m] \/ ~Keep(m))
      <3> HIDE DEF b
      <3>1. CASE p = m
          BY <1>b, <2>1, <3>1, <1>12, TakeRedirectDoes DEF Keep, Redirected
      <3>2. CASE p # m
          BY <1>b, <2>1, <3>2
      <3>. QED  BY <3>1, <3>2
    <2> HIDE DEF e, b
    <2>4. CASE m = Head(box[p]).who /\ Up(m)
        BY <2>1, <2>2, <2>3, <2>4, <1>12, PipeGets DEF Brings
    <2>5. CASE ~ (m = Head(box[p]).who /\ Up(m))
        BY <2>1, <2>5, <1>b, <2>3, PipeStays
    <2>. QED  BY <2>4, <2>5
  <1>13. ASSUME NEW p \in Joiners, NEW n \in Nat \ {0}, NEW at \in Joining, NEW to \in {"in"} \cup Joining,
                NEW E, Take(p, at, to, n, E),
                \A k \in Joiners : k # p => shown'[k] = shown[k],
                \/ shown'[p] = shown[p] \o Taken(p, n)
                \/ shown'[p] = shown[p] /\ "LINE" \notin E
         PROVE  PipeChanges(m)
    <2>1. /\ stage[p] = at /\ n <= Len(box[p])
          /\ box'[p] = SubSeq(box[p], n + 1, Len(box[p]))
          /\ \A q \in Proc : q # p => box'[q] = box[q]
          /\ p \notin strayed' => \A i \in 1 .. n : box[p][i].kind \in E
          /\ receiveQueue' = receiveQueue
        BY <1>13, TakeDoes
    <2>2. CASE p = m
        BY <1>13, <2>1, <2>2, Kinds1, PipeTakes DEF Base, Stages, Joining, Keep
    <2>3. CASE p # m
        BY <1>13, <1>s, <2>1, <2>3, PipeIdle
    <2>. QED  BY <2>2, <2>3
  <1>14. ASSUME NEW p \in Joiners, TakeReply(p) \/ TakeCount(p) \/ TakeUsers(p) \/ TakeEntries(p)
         PROVE  PipeChanges(m)
    <2>1. CASE TakeReply(p)
      <3>1. "reply" \in Joining /\ "count" \in {"in"} \cup Joining /\ 1 \in Nat \ {0}
          BY DEF Joining
      <3>. QED  BY <1>13, <3>1, <2>1, TakeReplyDoes
    <2>2. CASE TakeCount(p)
      <3>1. PICK n \in Nat : /\ Take(p, "count", IF n = 0 THEN "in" ELSE "users", 1, {"COUNT"})
                             /\ shown' = shown
          BY <2>2, TakeCountDoes
      <3>. QED  BY <1>13, <3>1 DEF Joining
    <2>3. CASE TakeUsers(p)
        BY <1>13, <2>3, TakeUsersDoes DEF Joining
    <2>4. CASE TakeEntries(p)
        BY <1>13, <2>4, TakeEntriesDoes DEF Joining
    <2>. QED  BY <1>14, <2>1, <2>2, <2>3, <2>4
  <1>15. ASSUME NEW p \in Joiners, MemberSend(p) PROVE PipeChanges(m)
    <2> DEFINE e == Head(sendQueue[p])
    <2>1. /\ e \in Requests /\ e \in Sane /\ UNCHANGED <<shown, receiveQueue>>
          /\ box'[m] = IF m = leaderAddress[p] /\ Up(m) THEN Append(box[m], e) ELSE box[m]
        BY <1>s, <1>15, MemberSendDoes
    <2> HIDE DEF e
    <2>. QED  BY <2>1, <1>s, <1>15, PipeDelivered, MemberSendDoes DEF Brings
  <1>16. ASSUME NEW p \in Joiners, MemberReceive(p) PROVE PipeChanges(m)
      BY <1>s, <1>16, MemberReceiveDoes, PipeReceives, PipeIdle
  <1>17. ASSUME NEW p \in Joiners, Redirect(p) PROVE PipeChanges(m)
    <2> DEFINE e == Datagram("REDIRECT", Contact[p], 0, p)
    <2>1. PICK h \in Sane :
            /\ h.kind = "JOIN" /\ Process(p, h) /\ e \in Requests
            /\ box'[m] = IF m = leaderAddress[p] /\ Up(m) THEN Append(box[m], e) ELSE box[m]
            /\ shown' = shown
        BY <1>s, <1>17, RedirectDoes
    <2>2. Brings(m, <<e>>) /\ e \in Sane
        BY <1>17, <1>r, <2>1 DEF Datagram, Brings
    <2>3. \/ receiveQueue'[m] = receiveQueue[m]
          \/ /\ receiveQueue[m] # << >> /\ Head(receiveQueue[m]).kind # "LINE"
             /\ receiveQueue'[m] = Tail(receiveQueue[m])
        BY <2>1, ProcessDoes
    <2> HIDE DEF e
    <2>4. CASE m = leaderAddress[p] /\ Up(m)
        BY <2>1, <2>4, <1>b, <2>2, <2>3, PipeGets
    <2>5. CASE ~ (m = leaderAddress[p] /\ Up(m))
        BY <2>1, <2>5, <2>3, PipeIdle, PipeTail
    <2>. QED  BY <2>4, <2>5
  <1>18. ASSUME NEW p \in Joiners, AddNotice(p) PROVE PipeChanges(m)
    <2>1. PICK h \in Sane : h.kind = "NEWUSER" /\ Process(p, h) /\ UNCHANGED <<box, shown>>
        BY <1>18, AddNoticeDoes
    <2>. QED  BY <2>1, PipeIdle, PipeTail, ProcessDoes
  <1>19. ASSUME NEW p \in Joiners, RemoveFromList(p) PROVE PipeChanges(m)
    <2>1. PICK h \in Sane : /\ h.kind \in {"LEFT", "LEAVESEQ"} /\ Process(p, h) /\ shown' = shown
                            /\ \/ /\ stage'[p] = "gone" /\ box'[p] = << >>
                                  /\ \A q \in Proc : q # p => box'[q] = box[q]
                               \/ box' = box
        BY <1>19, RemoveFromListDoes
    <2>2. /\ receiveQueue[p] # << >> /\ h = Head(receiveQueue[p])
          /\ receiveQueue'[p] = Tail(receiveQueue[p])
          /\ p # m => receiveQueue'[m] = receiveQueue[m]
        BY <2>1, ProcessDoes
    <2>3. CASE p = m /\ box' = box
        BY <2>1, <2>2, <2>3, PipeTail
    <2>4. CASE p = m /\ stage'[m] = "gone" /\ box'[m] = << >>
        BY <1>b, <2>1, <2>2, <2>4, PipeStays DEF Keep
    <2>5. CASE p # m
        BY <1>s, <2>1, <2>5, <2>2, PipeIdle
    <2>. QED  BY <2>1, <2>3, <2>4, <2>5
  <1>20. ASSUME NEW p \in Joiners, PrintOther(p) PROVE PipeChanges(m)
    <2>1. PICK h \in Sane : /\ Process(p, h) /\ box' = box /\ shown'[p] = Append(shown[p], h)
                            /\ \A k \in Joiners : k # p => shown'[k] = shown[k]
        BY <1>20, PrintOtherDoes
    <2>. QED  BY <2>1, PipeIdle, PipeTail, ProcessDoes
  <1>21. CASE UNCHANGED Others
      BY <1>21, PipeIdle DEF Others
  <1>. QED  BY OthersStay, <1>1, <1>2, <1>3, <1>4, <1>5, <1>6, <1>7, <1>8, <1>9, <1>10, <1>11,
               <1>12, <1>14,
               <1>15, <1>16, <1>17, <1>18, <1>19, <1>20, <1>21
            DEF Next, SeqProcess, ConnectChat, MemberProcess

-----------------------------------------------------------------------------
(***************************************************************************)
(* The order in which lines come by way of the sequencer: the members' as  *)
(* relayed, the sequencer's own as numbered.                               *)
(***************************************************************************)
InRelayOrder(r) ==
  {q \in Sane \X Sane : ByWayOf(q[1], Joiners) /\ ByWayOf(q[2], Joiners) => Before(r, q[1], q[2])}

Weakly == {q \in Sane \X Sane : ByWayOf(q[1], {S}) /\ ByWayOf(q[2], {S}) => q[1].n <= q[2].n}

SeqLines ==
  \A i, j \in DOMAIN sendQueue[S] :
    /\ sendQueue[S][i].kind = "LINE" => sendQueue[S][i].n \in 1 .. typed[S]
    /\ i < j /\ sendQueue[S][i].kind = "LINE" /\ sendQueue[S][j].kind = "LINE"
         => sendQueue[S][i].n < sendQueue[S][j].n

Pipes ==
  \A m \in Joiners :
    /\ InOrder(Pipe(m), InRelayOrder(relayed))
    /\ InOrder(Pipe(m), Weakly)
    /\ \A x : InRow(Pipe(m), x) =>
         /\ ByWayOf(x, Joiners) => x \in Range(relayed)
         /\ ByWayOf(x, {S}) => /\ x.n \in 1 .. typed[S]
                               /\ \A i \in DOMAIN sendQueue[S] : <<x, sendQueue[S][i]>> \in Weakly

LEMMA WelcomeKinds ==
  ASSUME Base, Welcoming, NEW i \in DOMAIN Head(burst.left)
  PROVE  Head(burst.left)[i].kind \in {"COUNT", "USER", "ENTRY"}
  <1>1. Len(burst.left) \in 1 .. 3 /\ Head(burst.left) = Welcome(memberList)[4 - Len(burst.left)]
      BY WelcomingDoes
  <1>2. /\ Welcome(memberList)[1] = <<Datagram("COUNT", Nobody, Len(memberList), S)>>
        /\ Welcome(memberList)[2] = [k \in 1 .. Len(memberList) |-> Datagram("USER", Nobody, 0, S)]
        /\ Welcome(memberList)[3] = [k \in 1 .. Len(memberList) |-> Datagram("ENTRY", memberList[k], 0, S)]
      BY Welcomes DEF Base, Lists
  <1>3. CASE Len(burst.left) = 3
      BY <1>1, <1>2, <1>3 DEF Datagram
  <1>4. CASE Len(burst.left) = 2
      BY <1>1, <1>2, <1>4 DEF Datagram
  <1>5. CASE Len(burst.left) = 1
      BY <1>1, <1>2, <1>5 DEF Datagram
  <1>. QED  BY <1>1, <1>3, <1>4, <1>5

LEMMA OneOnly ==
  ASSUME NEW e
  PROVE  DOMAIN <<e>> = {1} /\ <<e>>[1] = e
  OBVIOUS

(* Which lines a step brings by way of the sequencer. *)
LEMMA BringsLines ==
  ASSUME Base, NEW m \in Joiners, NEW w \in Seq(Sane), Brings(m, w)
  PROVE  /\ \/ relayed' = relayed /\ \A i \in DOMAIN w : ~ByWayOf(w[i], Joiners)
            \/ \E e \in Relays : w = <<e>> /\ relayed' = Append(relayed, e)
         /\ \/ \A i \in DOMAIN w : ~ByWayOf(w[i], {S})
            \/ /\ SeqSend /\ sendAt \in 1 .. Len(userList) /\ Walked(sendAt) = m
               /\ sendQueue[S] # << >> /\ w = <<Head(sendQueue[S])>>
  <1>s. S \notin Joiners
      BY Kinds1
  <1>1. ASSUME NEW e \in Relays, w = <<e>>, relayed' = Append(relayed, e)
        PROVE  \A i \in DOMAIN w : ~ByWayOf(w[i], {S})
      BY <1>s, <1>1, OneOnly DEF Relays, ByWayOf
  <1>2. CASE /\ SeqSend /\ sendAt \in 1 .. Len(userList) /\ Walked(sendAt) = m
             /\ w = <<Head(sendQueue[S])>>
    <2>1. sendQueue[S] # << >> /\ relayed' = relayed
        BY <1>2 DEF SeqSend
    <2>2. Head(sendQueue[S]) \in Own(S)
        BY <2>1, Kinds1, TailOf DEF Base, Origins
    <2>. QED  BY <1>2, <2>1, <1>s, <2>2, OneOnly DEF Own, ByWayOf
  <1>3. ASSUME NEW e, w = <<e>>, relayed' = relayed, e.kind # "LINE" \/ e.from # S
        PROVE  /\ \A i \in DOMAIN w : ~ByWayOf(w[i], Joiners)
               /\ \A i \in DOMAIN w : ~ByWayOf(w[i], {S})
      BY <1>3, OneOnly DEF ByWayOf
  <1>4. CASE Multicast /\ w = <<Datagram("NEWUSER", pending, 0, S)>>
      BY <1>4, <1>3, MulticastDoes DEF Datagram
  <1>5. CASE Welcoming /\ w = Head(burst.left)
      BY <1>5, WelcomingDoes, WelcomeKinds DEF ByWayOf
  <1>6. CASE (\E k \in Keys : ServeJoin(k)) /\ w = <<Datagram("OK", Nobody, 0, S)>>
      BY <1>6, <1>3 DEF ServeJoin, Datagram
  <1>7. CASE (\E k \in Keys : ServeLeave(k)) /\ w = <<Datagram("LEFT", shift.of, 0, S)>>
      BY <1>7, <1>3 DEF ServeLeave, Datagram
  <1>8. CASE /\ \E p \in Joiners : MemberSend(p) \/ Ask(p) \/ TakeRedirect(p) \/ Redirect(p)
             /\ \E e \in Requests : w = <<e>>
      BY <1>8, <1>3, <1>s DEF MemberSend, Ask, TakeRedirect, Redirect, Process, Requests
  <1>9. CASE \E e \in Relays : w = <<e>> /\ relayed' = Append(relayed, e)
      BY <1>1, <1>9
  <1>. QED  BY <1>2, <1>4, <1>5, <1>6, <1>7, <1>8, <1>9 DEF Brings

LEMMA RelayedStep ==
  ASSUME Base, [Next]_vars
  PROVE  \/ relayed' = relayed
         \/ \E k \in Keys : ServeLine(k) /\ \E e \in Relays : relayed' = Append(relayed, e)
  <1>1. ASSUME NEW k \in Keys, ServeLine(k) PROVE \E e \in Relays : relayed' = Append(relayed, e)
      BY <1>1, ServeLineDoes
  <1>2. ASSUME NEW m \in Joiners, ConnectChat(m) PROVE relayed' = relayed
      BY <1>2 DEF ConnectChat, TakeReply, TakeRedirect, TakeCount, TakeUsers, TakeEntries, GiveUp, Take
  <1>3. ASSUME NEW m \in Joiners, MemberProcess(m) PROVE relayed' = relayed
      BY <1>3 DEF MemberProcess, Redirect, AddNotice, RemoveFromList, PrintOther, Process
  <1>4. ASSUME NEW m \in Joiners, Ask(m) \/ MemberSend(m) \/ MemberReceive(m) PROVE relayed' = relayed
      BY <1>4 DEF Ask, MemberSend, MemberReceive
  <1>5. ASSUME NEW p \in Proc, Type(p) \/ EndInput(p) \/ PushLeave(p) \/ TestDead(p) PROVE relayed' = relayed
      BY <1>5 DEF Type, EndInput, PushLeave, TestDead
  <1>6. ASSUME NEW k \in Keys, ServeJoin(k) \/ ServeLeave(k) PROVE relayed' = relayed
      BY <1>6 DEF ServeJoin, ServeLeave
  <1>7. CASE SeqSend \/ SeqReceive \/ Multicast \/ Welcoming
      BY <1>7 DEF SeqSend, SeqReceive, Multicast, Welcoming
  <1>8. CASE UNCHANGED Others
      BY <1>8 DEF Others
  <1>. QED  BY OthersStay, <1>1, <1>2, <1>3, <1>4, <1>5, <1>6, <1>7, <1>8 DEF Next, SeqProcess

(* What happens to the sequencer's own lines. *)
LEMMA SeqQueueStep ==
  ASSUME Base, [Next]_vars
  PROVE  \/ sendQueue'[S] = sendQueue[S] /\ typed'[S] = typed[S]
         \/ /\ Type(S) /\ UNCHANGED <<box, shown, receiveQueue>>
            /\ sendQueue'[S] = Append(sendQueue[S], Datagram("LINE", S, typed[S] + 1, S))
            /\ typed'[S] = typed[S] + 1
         \/ /\ PushLeave(S) /\ UNCHANGED <<box, shown, receiveQueue>>
            /\ sendQueue'[S] = Append(sendQueue[S], Datagram("LEAVESEQ", S, 0, S))
            /\ typed'[S] = typed[S]
         \/ /\ SeqSend /\ UNCHANGED <<box, shown, receiveQueue>> /\ sendQueue[S] # << >>
            /\ sendAt > Len(userList) /\ sendAt' = 1
            /\ sendQueue'[S] = Tail(sendQueue[S]) /\ typed'[S] = typed[S]
  <1>s. S \in Proc /\ S \notin Joiners /\ Joiners \subseteq Proc /\ \A p \in Proc : p = S \/ p \in Joiners
      BY Kinds1
  <1>t. sendQueue \in [Proc -> Seq(Sane)] /\ typed \in [Proc -> Nat]
      BY DEF Base, Origins, Scalars
  <1>1. CASE SeqSend
      BY <1>1, <1>s, PopSentBase DEF SeqSend, Base, Scalars, Lists
  <1>2. ASSUME NEW p \in Proc, p # S, Type(p) \/ EndInput(p) \/ PushLeave(p)
        PROVE  sendQueue'[S] = sendQueue[S] /\ typed'[S] = typed[S]
      BY <1>2, <1>s, <1>t DEF Type, EndInput, PushLeave
  <1>3. CASE Type(S)
      BY <1>3, <1>s, <1>t DEF Type
  <1>4. CASE EndInput(S)
      BY <1>4 DEF EndInput
  <1>5. CASE PushLeave(S)
      BY <1>5, <1>s, <1>t DEF PushLeave, Leaving
  <1>6. ASSUME NEW p \in Proc, TestDead(p) PROVE UNCHANGED typeVars
      BY <1>6 DEF TestDead
  <1>7. ASSUME NEW m \in Joiners, ConnectChat(m) \/ Ask(m) \/ MemberReceive(m) PROVE UNCHANGED typeVars
      BY <1>7 DEF ConnectChat, TakeReply, TakeRedirect, TakeCount, TakeUsers, TakeEntries, GiveUp, Take,
                  Ask, MemberReceive
  <1>8. ASSUME NEW m \in Joiners, MemberProcess(m) PROVE UNCHANGED typeVars
      BY <1>8 DEF MemberProcess, Redirect, AddNotice, RemoveFromList, PrintOther, Process
  <1>9. ASSUME NEW m \in Joiners, MemberSend(m)
        PROVE  sendQueue'[S] = sendQueue[S] /\ typed'[S] = typed[S]
      BY <1>9, <1>s, MemberSendDoes, PopSentBase
  <1>10. CASE SeqReceive \/ Multicast \/ Welcoming
      BY <1>10 DEF SeqReceive, Multicast, Welcoming
  <1>11. ASSUME NEW k \in Keys, ServeJoin(k) \/ ServeLeave(k) \/ ServeLine(k) PROVE UNCHANGED typeVars
      BY <1>11 DEF ServeJoin, ServeLeave, ServeLine, Serve
  <1>12. CASE UNCHANGED Others
      BY <1>12 DEF Others
  <1> HIDE DEF typeVars
  <1>13. UNCHANGED typeVars => sendQueue'[S] = sendQueue[S] /\ typed'[S] = typed[S]
      BY DEF typeVars
  <1>14. ASSUME NEW p \in Proc, Type(p) \/ EndInput(p) \/ PushLeave(p), p = S
         PROVE  Type(S) \/ EndInput(S) \/ PushLeave(S)
      BY <1>14
  <1>. QED  BY OthersStay, <1>1, <1>2, <1>3, <1>4, <1>5, <1>6, <1>7, <1>8, <1>9, <1>10, <1>11,
               <1>12, <1>13, <1>14
            DEF Next, SeqProcess

LEMMA InitOrders == Init => Paths /\ SeqLines /\ Pipes
  <1> SUFFICES ASSUME Init PROVE Paths /\ SeqLines /\ Pipes
      OBVIOUS
  <1>1. Base
      BY InitBase
  <1>s. S \in Proc /\ Joiners \subseteq Proc
      BY Kinds1
  <1>e. DOMAIN << >> = {}
      OBVIOUS
  <1>2. SeqLines
      BY <1>e, <1>s DEF Init, SeqLines
  <1>3. ASSUME NEW m \in Joiners PROVE PathOK(Path(m), m, typed[m], bye[m])
    <2>1. /\ Path(m) \in [1 .. 4 -> Seq(Sane)] /\ lineKey[m] \in Keys
          /\ Path(m)[1] = relayed /\ Path(m)[2] = fairQMap[lineKey[m]]
          /\ Path(m)[3] = box[S] /\ Path(m)[4] = sendQueue[m]
        BY <1>1, PathRow
    <2>. QED  BY <1>e, <2>1, <1>s DEF PathOK, InOrder, Init
  <1>4. ASSUME NEW m \in Joiners PROVE \A a \in 1 .. 3 : Pipe(m)[a] = << >>
      BY <1>1, <1>s, PipeRow DEF Init
  <1>5. Pipes
      BY <1>4, <1>e, <1>1, PipeRow DEF Pipes, InOrder, InRow, Row
  <1>. QED  BY <1>2, <1>3, <1>5 DEF Paths

LEMMA NextSeqLines ==
  ASSUME Base, SeqLines, [Next]_vars
  PROVE  SeqLines'
  <1> DEFINE q == sendQueue[S]
             r == sendQueue'[S]
  <1>t. q \in Seq(Sane) /\ typed[S] \in Nat
      BY Kinds1 DEF Base, Origins, Scalars
  <1>0. \A i, j \in DOMAIN q :
          /\ q[i].kind = "LINE" => q[i].n \in 1 .. typed[S]
          /\ i < j /\ q[i].kind = "LINE" /\ q[j].kind = "LINE" => q[i].n < q[j].n
      BY DEF SeqLines
  <1> SUFFICES \A i, j \in DOMAIN r :
          /\ r[i].kind = "LINE" => r[i].n \in 1 .. typed'[S]
          /\ i < j /\ r[i].kind = "LINE" /\ r[j].kind = "LINE" => r[i].n < r[j].n
      BY DEF SeqLines
  <1>1. CASE r = q /\ typed'[S] = typed[S]
      BY <1>0, <1>1
  <1>2. ASSUME NEW e \in Sane, r = Append(q, e), typed'[S] >= typed[S], typed'[S] \in Nat,
               e.kind = "LINE" => e.n = typed[S] + 1 /\ typed'[S] = typed[S] + 1
        PROVE  \A i, j \in DOMAIN r :
                 /\ r[i].kind = "LINE" => r[i].n \in 1 .. typed'[S]
                 /\ i < j /\ r[i].kind = "LINE" /\ r[j].kind = "LINE" => r[i].n < r[j].n
    <2> HIDE DEF q, r
    <2>1. /\ Len(q) \in Nat /\ DOMAIN q = 1 .. Len(q)
          /\ \A j \in DOMAIN q : r[j] = q[j]
          /\ \A j \in DOMAIN r : j \in DOMAIN q \/ (j = Len(q) + 1 /\ r[j] = e)
        BY <1>t, <1>2, Appended DEF Grown, Adds
    <2> SUFFICES ASSUME NEW i \in DOMAIN r, NEW j \in DOMAIN r
                 PROVE  /\ r[i].kind = "LINE" => r[i].n \in 1 .. typed'[S]
                        /\ i < j /\ r[i].kind = "LINE" /\ r[j].kind = "LINE" => r[i].n < r[j].n
        OBVIOUS
    <2>2. CASE i \in DOMAIN q
        BY <1>0, <2>1, <2>2, <1>2, <1>t
    <2>3. CASE i = Len(q) + 1 /\ r[i] = e
        BY <2>1, <2>3, <1>2, <1>t
    <2>. QED  BY <2>1, <2>2, <2>3
  <1>3. CASE r = Tail(q) /\ q # << >> /\ typed'[S] = typed[S]
    <2> HIDE DEF q, r
    <2>. QED  BY <1>0, <1>3, <1>t, TailOf, SMTT(30)
  <1>4. /\ Datagram("LINE", S, typed[S] + 1, S) \in Sane
        /\ Datagram("LINE", S, typed[S] + 1, S).n = typed[S] + 1
        /\ Datagram("LEAVESEQ", S, 0, S) \in Sane
        /\ Datagram("LEAVESEQ", S, 0, S).kind = "LEAVESEQ"
      BY <1>t, Kinds1 DEF Datagram, Sane, Datagrams, Kinds
  <1>5. CASE r = Append(q, Datagram("LINE", S, typed[S] + 1, S)) /\ typed'[S] = typed[S] + 1
    <2> DEFINE e == Datagram("LINE", S, typed[S] + 1, S)
    <2>1. e \in Sane /\ e.n = typed[S] + 1
        BY <1>4
    <2>2. r = Append(q, e) /\ typed'[S] >= typed[S] /\ typed'[S] \in Nat /\ typed'[S] = typed[S] + 1
        BY <1>5, <1>t
    <2> HIDE DEF e, q, r
    <2>. QED  BY <1>2, <2>1, <2>2
  <1>6. CASE r = Append(q, Datagram("LEAVESEQ", S, 0, S)) /\ typed'[S] = typed[S]
    <2> DEFINE e == Datagram("LEAVESEQ", S, 0, S)
    <2>1. e \in Sane /\ e.kind # "LINE"
        BY <1>4
    <2>2. r = Append(q, e) /\ typed'[S] >= typed[S] /\ typed'[S] \in Nat
        BY <1>6, <1>t
    <2> HIDE DEF e, q, r
    <2>. QED  BY <1>2, <2>1, <2>2
  <1>. QED  BY <1>1, <1>3, <1>5, <1>6, SeqQueueStep

LEMMA InOrderWider ==
  ASSUME NEW c, NEW R, NEW Q, InOrder(c, R), R \subseteq Q
  PROVE  InOrder(c, Q)
  BY DEF InOrder

LEMMA RelayOrderGrows ==
  ASSUME NEW r \in Seq(Sane), NEW e \in Sane
  PROVE  /\ InRelayOrder(r) \subseteq InRelayOrder(Append(r, e))
         /\ Range(r) \subseteq Range(Append(r, e)) /\ e \in Range(Append(r, e))
         /\ \A x \in Sane : x \in Range(r) => Before(Append(r, e), x, e)
  <1> DEFINE u == Append(r, e)
  <1>1. /\ \A j \in DOMAIN r : j \in DOMAIN u /\ u[j] = r[j]
        /\ Len(r) \in Nat /\ Len(r) + 1 \in DOMAIN u /\ u[Len(r) + 1] = e
        /\ DOMAIN r = 1 .. Len(r)
      BY Appended DEF Grown, Adds
  <1> HIDE DEF u
  <1>2. ASSUME NEW x, NEW y, Before(r, x, y) PROVE Before(u, x, y)
      BY <1>1, <1>2 DEF Before
  <1>3. ASSUME NEW x \in Sane, x \in Range(r) PROVE Before(u, x, e)
      BY <1>3, <1>1 DEF Range, Before
  <1>. QED  BY <1>3, <1>2, RangeAppend DEF u, InRelayOrder

(* x does not come after what the sequencer has still to send. *)
NotLater(x, q, t) ==
  ByWayOf(x, {S}) => x.n \in 1 .. t /\ \A i \in DOMAIN q : <<x, q[i]>> \in Weakly

LEMMA NotLaterStays ==
  ASSUME Base, [Next]_vars, NEW x \in Sane, NotLater(x, sendQueue[S], typed[S])
  PROVE  NotLater(x, sendQueue'[S], typed'[S])
  <1> DEFINE q == sendQueue[S]
             r == sendQueue'[S]
  <1>t. q \in Seq(Sane) /\ typed[S] \in Nat
      BY Kinds1 DEF Base, Origins, Scalars
  <1> SUFFICES ASSUME ByWayOf(x, {S})
               PROVE  x.n \in 1 .. typed'[S] /\ \A i \in DOMAIN r : <<x, r[i]>> \in Weakly
      BY DEF NotLater
  <1>0. x.n \in 1 .. typed[S] /\ \A i \in DOMAIN q : <<x, q[i]>> \in Weakly
      BY DEF NotLater
  <1>1. CASE r = q /\ typed'[S] = typed[S]
      BY <1>0, <1>1
  <1>2. ASSUME NEW e \in Sane, r = Append(q, e), typed'[S] \in {typed[S], typed[S] + 1},
               e.kind = "LINE" => e.n = typed[S] + 1
        PROVE  x.n \in 1 .. typed'[S] /\ \A i \in DOMAIN r : <<x, r[i]>> \in Weakly
    <2> HIDE DEF q, r
    <2>1. x.n \in 1 .. typed'[S]
        BY <1>0, <1>2, <1>t
    <2>. QED  BY <1>0, <2>1, <1>2, <1>t, Appended DEF Grown, ByWayOf, Weakly, Adds
  <1>3. CASE r = Tail(q) /\ q # << >> /\ typed'[S] = typed[S]
    <2> HIDE DEF q, r
    <2>. QED  BY <1>0, <1>3, <1>t, TailOf
  <1>4. /\ Datagram("LINE", S, typed[S] + 1, S) \in Sane
        /\ Datagram("LINE", S, typed[S] + 1, S).n = typed[S] + 1
        /\ Datagram("LEAVESEQ", S, 0, S) \in Sane
        /\ Datagram("LEAVESEQ", S, 0, S).kind = "LEAVESEQ"
      BY <1>t, Kinds1 DEF Datagram, Sane, Datagrams, Kinds
  <1>5. CASE r = Append(q, Datagram("LINE", S, typed[S] + 1, S)) /\ typed'[S] = typed[S] + 1
      BY <1>2, <1>4, <1>5, <1>t
  <1>6. CASE r = Append(q, Datagram("LEAVESEQ", S, 0, S)) /\ typed'[S] = typed[S]
      BY <1>2, <1>4, <1>6, <1>t
  <1>. QED  BY <1>1, <1>3, <1>5, <1>6, SeqQueueStep

(* c is in the order of R, so is what the step brings: d is too. *)
LEMMA OrderChanges ==
  ASSUME NEW c, NEW d, NEW w, NEW keep, NEW R, Changes(c, d, w, keep), InOrder(c, R),
         \A x : InRow(c, x) => \A i \in DOMAIN w : <<x, w[i]>> \in R,
         \A i, j \in DOMAIN w : i < j => <<w[i], w[j]>> \in R
  PROVE  InOrder(d, R)
  <1>1. PICK u \in Row : Within(u, c) /\ Gains(u, d, w)
      BY DEF Changes
  <1>. QED  BY <1>1, GainsOrder DEF Within

LEMMA ChangesIn ==
  ASSUME NEW c, NEW d, NEW w, NEW keep, Changes(c, d, w, keep)
  PROVE  /\ \A x : InRow(d, x) => InRow(c, x) \/ \E i \in DOMAIN w : w[i] = x
         /\ \A i \in DOMAIN w : InRow(d, w[i])
         /\ keep => \A x : x.kind = "LINE" /\ InRow(c, x) => InRow(d, x)
  <1>1. PICK u \in Row : /\ Within(u, c) /\ Gains(u, d, w)
                         /\ keep => \A x : x.kind = "LINE" /\ InRow(c, x) => InRow(u, x)
      BY DEF Changes
  <1>. QED  BY <1>1, GainsIn DEF Within

LEMMA NextPipes ==
  ASSUME Base, Base', SeqLines, Pipes, [Next]_vars
  PROVE  Pipes'
  <1> SUFFICES ASSUME NEW m \in Joiners
               PROVE  /\ InOrder(Pipe(m)', InRelayOrder(relayed'))
                      /\ InOrder(Pipe(m)', Weakly)
                      /\ \A x : InRow(Pipe(m)', x) =>
                           /\ ByWayOf(x, Joiners) => x \in Range(relayed')
                           /\ NotLater(x, sendQueue'[S], typed'[S])
      BY DEF Pipes, NotLater
  <1> DEFINE c == Pipe(m)
             d == Pipe(m)'
             R == InRelayOrder(relayed')
  <1>1. PICK w \in Seq(Sane) : Changes(c, d, w, Keep(m)) /\ (w = << >> \/ Brings(m, w))
      BY PipeStep DEF PipeChanges
  <1>2. /\ c \in Row /\ d \in Row /\ relayed \in Seq(Sane)
        /\ InOrder(c, InRelayOrder(relayed)) /\ InOrder(c, Weakly)
        /\ \A x : InRow(c, x) => /\ ByWayOf(x, Joiners) => x \in Range(relayed)
                                 /\ NotLater(x, sendQueue[S], typed[S])
      BY PipeRow, PipeRowNext, PathRow DEF Pipes, NotLater
  <1> HIDE DEF c, d
  <1>3. /\ \A x : InRow(c, x) => x \in Sane
        /\ \A i \in DOMAIN w : w[i] \in Sane
        /\ \A x : InRow(d, x) => InRow(c, x) \/ \E i \in DOMAIN w : w[i] = x
      BY <1>1, <1>2, RowRows, ChangesIn
  <1>w. w = << >> => DOMAIN w = {}
      OBVIOUS
  <1>4. InOrder(c, R) /\ Range(relayed) \subseteq Range(relayed')
      BY <1>2, RelayOrderGrows, Kinds1, InOrderWider, RelayedStep
  <1>5. InOrder(d, R) /\ \A i \in DOMAIN w : ByWayOf(w[i], Joiners) => w[i] \in Range(relayed')
    <2>1. CASE \A i \in DOMAIN w : ~ByWayOf(w[i], Joiners)
        BY <1>3, <2>1, <1>1, <1>4, OrderChanges DEF InRelayOrder
    <2>2. ASSUME NEW e \in Relays, w = <<e>>, relayed' = Append(relayed, e)
          PROVE  InOrder(d, R) /\ \A i \in DOMAIN w : w[i] \in Range(relayed')
      <3>0. DOMAIN w = {1} /\ w[1] = e /\ e \in Sane
          BY <2>2, OneOnly, Kinds1
      <3>1. /\ e \in Range(relayed')
            /\ \A x \in Sane : x \in Range(relayed) => Before(relayed', x, e)
          BY <1>2, <2>2, <3>0, RelayOrderGrows
      <3>2. \A x : InRow(c, x) => <<x, e>> \in R
          BY <1>2, <1>3, <3>0, <3>1 DEF InRelayOrder
      <3> HIDE DEF R
      <3>. QED  BY <3>0, <3>1, <1>1, <1>4, <3>2, OrderChanges
    <2>. QED  BY <2>1, <2>2, <1>1, <1>w, BringsLines
  <1>6. InOrder(d, Weakly) /\ \A i \in DOMAIN w : NotLater(w[i], sendQueue[S], typed[S])
    <2>1. CASE \A i \in DOMAIN w : ~ByWayOf(w[i], {S})
        BY <1>3, <2>1, <1>1, <1>2, OrderChanges DEF Weakly, NotLater
    <2>2. CASE /\ SeqSend /\ sendAt \in 1 .. Len(userList) /\ sendQueue[S] # << >>
               /\ w = <<Head(sendQueue[S])>>
      <3> DEFINE h == Head(sendQueue[S])
                 q == sendQueue[S]
      <3>1. /\ h = q[1] /\ 1 \in DOMAIN q /\ h \in Sane /\ q \in Seq(Sane) /\ h \in Own(S)
            /\ \A i \in DOMAIN q : i = 1 \/ 1 < i
          BY <2>2, Kinds1, TailOf DEF Base, Origins
      <3> HIDE DEF h
      <3>2. \A x : InRow(c, x) => <<x, h>> \in Weakly
        <4> SUFFICES ASSUME NEW x, InRow(c, x) PROVE <<x, h>> \in Weakly
            OBVIOUS
        <4>1. CASE ByWayOf(x, {S})
            BY <1>2, <3>1, <4>1 DEF NotLater
        <4>2. CASE ~ByWayOf(x, {S})
            BY <1>3, <3>1, <4>2 DEF Weakly
        <4>. QED  BY <4>1, <4>2
      <3>3. NotLater(h, sendQueue[S], typed[S])
        <4> SUFFICES ASSUME ByWayOf(h, {S})
                     PROVE  h.n \in 1 .. typed[S] /\ \A i \in DOMAIN q : <<h, q[i]>> \in Weakly
            BY DEF NotLater
        <4>1. h.kind = "LINE"
            BY DEF ByWayOf
        <4>2. h.n \in 1 .. typed[S] /\ typed[S] \in Nat
            BY <3>1, <4>1, Kinds1 DEF SeqLines, Base, Scalars
        <4>3. ASSUME NEW i \in DOMAIN q, ByWayOf(q[i], {S}) PROVE h.n <= q[i].n
            BY <4>3, <3>1, <4>2, <4>1 DEF ByWayOf, SeqLines
        <4>4. \A i \in DOMAIN q : q[i] \in Sane
            BY <3>1
        <4>. QED  BY <3>1, <4>2, <4>3, <4>4 DEF Weakly
      <3>. QED  BY <3>3, <1>1, <1>2, <3>2, <2>2, OrderChanges, OneOnly DEF h
    <2>. QED  BY <2>1, <2>2, <1>1, <1>w, BringsLines
  <1>7. ASSUME NEW x, InRow(d, x) PROVE NotLater(x, sendQueue[S], typed[S]) /\ x \in Sane
      BY <1>2, <1>3, <1>6, <1>7
  <1>. QED  BY <1>5, <1>6, <1>2, <1>3, <1>4, <1>7, NotLaterStays DEF d, R

-----------------------------------------------------------------------------
(***************************************************************************)
(* Joining.  While no answer has crossed another, a joiner has one request *)
(* on its way or one redirection to ask again at most: its ticket.         *)
(***************************************************************************)
Places == (Proc \X {"box"}) \cup (Joiners \X {"queue"}) \cup (Keys \X {"map"})

PlaceRow == [Places -> Seq(Sane)]

At == [pl \in Places |-> IF pl[2] = "box" THEN box[pl[1]]
                         ELSE IF pl[2] = "queue" THEN receiveQueue[pl[1]] ELSE fairQMap[pl[1]]]

IsTicket(x, pl, m) == (x.kind = "JOIN" /\ x.who = m) \/ (x.kind = "REDIRECT" /\ pl = <<m, "box">>)

NoTicket(c, m) == \A pl \in Places : \A i \in DOMAIN c[pl] : ~IsTicket(c[pl][i], pl, m)

OneTicket(c, m) ==
  \A p, q \in Places : \A i \in DOMAIN c[p], j \in DOMAIN c[q] :
    IsTicket(c[p][i], p, m) /\ IsTicket(c[q][j], q, m) => p = q /\ i = j

(* The tickets of t were in s, past its first n, or else the last of t is  *)
(* one that was not.                                                       *)
Carry(s, t, pl, m, n, last) ==
  \E k \in Nat : /\ k >= n
                 /\ \A i \in DOMAIN t : IsTicket(t[i], pl, m) /\ ~ (last /\ i = Len(t)) =>
                                          i + k \in DOMAIN s /\ t[i] = s[i + k]

(* A ticket may leave at from, and one come in at to. *)
CarryRow(c, d, m, from, to) ==
  \A pl \in Places : Carry(c[pl], d[pl], pl, m, IF pl = from THEN 1 ELSE 0, pl = to)

Nowhere == << >>

LEMMA Carried ==
  ASSUME NEW s \in Seq(Sane), NEW pl, NEW m, NEW last \in BOOLEAN
  PROVE  /\ Carry(s, s, pl, m, 0, last)
         /\ \A t : IsEnd(t, s) => Carry(s, t, pl, m, 0, last)
         /\ s # << >> => Carry(s, Tail(s), pl, m, 1, last)
         /\ \A n \in {0, 1} : Carry(s, << >>, pl, m, n, last)
  <1>1. ASSUME NEW t, IsEnd(t, s) PROVE Carry(s, t, pl, m, 0, last)
      BY <1>1 DEF IsEnd, Carry
  <1>2. IsEnd(s, s)
      BY Ends
  <1>3. ASSUME s # << >> PROVE Carry(s, Tail(s), pl, m, 1, last)
      BY <1>3, TailOf DEF Carry
  <1>4. ASSUME NEW n \in {0, 1} PROVE Carry(s, << >>, pl, m, n, last)
      BY DEF Carry
  <1>. QED  BY <1>1, <1>2, <1>3, <1>4

LEMMA CarriedAnd ==
  ASSUME NEW s \in Seq(Sane), NEW pl, NEW m, NEW last \in BOOLEAN, NEW e \in Sane,
         IsTicket(e, pl, m) => last
  PROVE  /\ Carry(s, Append(s, e), pl, m, 0, last)
         /\ Carry(s, Append(<< >>, e), pl, m, 1, last) /\ Carry(s, Append(<< >>, e), pl, m, 0, last)
  <1>1. Carry(s, Append(s, e), pl, m, 0, last)
    <2> DEFINE t == Append(s, e)
    <2> HIDE DEF t
    <2>1. ASSUME NEW i \in DOMAIN t, IsTicket(t[i], pl, m), ~ (last /\ i = Len(t))
          PROVE  i + 0 \in DOMAIN s /\ t[i] = s[i + 0]
        BY <2>1, AppendTo DEF t
    <2>2. 0 \in Nat /\ 0 >= 0
        OBVIOUS
    <2>. QED  BY <2>1, <2>2 DEF Carry, t
  <1>2. ASSUME NEW n \in {0, 1} PROVE Carry(s, Append(<< >>, e), pl, m, n, last)
      BY DEF Carry
  <1>. QED  BY <1>1, <1>2

LEMMA CarriedWith ==
  ASSUME NEW s \in Seq(Sane), NEW w \in Seq(Sane), NEW pl, NEW m, NEW last \in BOOLEAN,
         \A i \in DOMAIN w : ~IsTicket(w[i], pl, m)
  PROVE  Carry(s, s \o w, pl, m, 0, last)
  <1> DEFINE t == s \o w
  <1>1. \A i \in DOMAIN t : (i \in DOMAIN s /\ t[i] = s[i] /\ i \in Nat) \/ ~IsTicket(t[i], pl, m)
      BY Joined
  <1> HIDE DEF t
  <1>2. \A i \in DOMAIN t : IsTicket(t[i], pl, m) => i + 0 \in DOMAIN s /\ t[i] = s[i + 0]
      BY <1>1
  <1>3. 0 \in Nat /\ 0 >= 0
      OBVIOUS
  <1>. QED  BY <1>2, <1>3 DEF t, Carry

LEMMA PlaceNumbers ==
  ASSUME NEW c \in PlaceRow
  PROVE  \A pl \in Places : DOMAIN c[pl] \subseteq Nat \ {0}
  <1> SUFFICES ASSUME NEW pl \in Places PROVE DOMAIN c[pl] \subseteq Nat \ {0}
      OBVIOUS
  <1>. QED  BY DEF PlaceRow

LEMMA TicketsKept ==
  ASSUME NEW c \in PlaceRow, NEW d \in PlaceRow, NEW m, CarryRow(c, d, m, Nowhere, Nowhere)
  PROVE  /\ OneTicket(c, m) => OneTicket(d, m)
         /\ NoTicket(c, m) => NoTicket(d, m)
  <1>0. Nowhere \notin Places
      BY DEF Places, Nowhere
  <1>1. \A pl \in Places : \E k \in Nat : \A i \in DOMAIN d[pl] :
          IsTicket(d[pl][i], pl, m) => i + k \in DOMAIN c[pl] /\ d[pl][i] = c[pl][i + k]
      BY <1>0 DEF CarryRow, Carry
  <1>2. ASSUME NoTicket(c, m) PROVE NoTicket(d, m)
      BY <1>1, <1>2 DEF NoTicket
  <1>3. ASSUME OneTicket(c, m), NEW p \in Places, NEW q \in Places,
               NEW i \in DOMAIN d[p], NEW j \in DOMAIN d[q],
               IsTicket(d[p][i], p, m), IsTicket(d[q][j], q, m)
        PROVE  p = q /\ i = j
      BY <1>1, <1>3, PlaceNumbers DEF OneTicket
  <1>. QED  BY <1>2, <1>3 DEF OneTicket

(* The ticket at the head of from goes, and may come back at the end of to. *)
LEMMA TicketMoved ==
  ASSUME NEW c \in PlaceRow, NEW d \in PlaceRow, NEW m, NEW from \in Places, NEW to,
         CarryRow(c, d, m, from, to), OneTicket(c, m), c[from] # << >>,
         IsTicket(Head(c[from]), from, m)
  PROVE  OneTicket(d, m) /\ (to \notin Places => NoTicket(d, m))
  <1>1. ASSUME NEW p \in Places, NEW i \in DOMAIN d[p], IsTicket(d[p][i], p, m)
        PROVE  p = to /\ i = Len(d[p])
    <2>1. PICK k \in Nat : /\ k >= (IF p = from THEN 1 ELSE 0)
                           /\ \A x \in DOMAIN d[p] : IsTicket(d[p][x], p, m) /\ ~ (p = to /\ x = Len(d[p])) =>
                                x + k \in DOMAIN c[p] /\ d[p][x] = c[p][x + k]
        BY DEF CarryRow, Carry
    <2>2. SUFFICES ASSUME ~ (p = to /\ i = Len(d[p])) PROVE FALSE
        OBVIOUS
    <2>. QED  BY <2>1, <1>1, <2>2, PlaceNumbers, TailOf DEF OneTicket, PlaceRow
  <1>. QED  BY <1>1 DEF OneTicket, NoTicket

LEMMA TicketCome ==
  ASSUME NEW c \in PlaceRow, NEW d \in PlaceRow, NEW m, NEW to,
         CarryRow(c, d, m, Nowhere, to), NoTicket(c, m)
  PROVE  OneTicket(d, m)
  <1>1. ASSUME NEW p \in Places, NEW i \in DOMAIN d[p], IsTicket(d[p][i], p, m)
        PROVE  p = to /\ i = Len(d[p])
      BY <1>1 DEF CarryRow, Carry, NoTicket, Places, Nowhere
  <1>. QED  BY <1>1 DEF OneTicket

LEMMA AtRow ==
  ASSUME Base
  PROVE  /\ At \in PlaceRow
         /\ \A p \in Proc : <<p, "box">> \in Places /\ At[<<p, "box">>] = box[p]
         /\ \A p \in Joiners : <<p, "queue">> \in Places /\ At[<<p, "queue">>] = receiveQueue[p]
         /\ \A k \in Keys : <<k, "map">> \in Places /\ At[<<k, "map">>] = fairQMap[k]
  <1>1. ASSUME NEW pl \in Places
        PROVE  \/ \E p \in Proc : pl = <<p, "box">>
               \/ \E p \in Joiners : pl = <<p, "queue">>
               \/ \E k \in Keys : pl = <<k, "map">>
      BY DEF Places
  <1>. QED  BY <1>1 DEF PlaceRow, At, Places, Base, Origins, Boxed

LEMMA AtRowNext ==
  ASSUME Base'
  PROVE  /\ At' \in PlaceRow
         /\ \A p \in Proc : <<p, "box">> \in Places /\ At'[<<p, "box">>] = box'[p]
         /\ \A p \in Joiners : <<p, "queue">> \in Places /\ At'[<<p, "queue">>] = receiveQueue'[p]
         /\ \A k \in Keys : <<k, "map">> \in Places /\ At'[<<k, "map">>] = fairQMap'[k]
  <1>1. /\ \A p \in Proc : <<p, "box">> \in Places /\ At'[<<p, "box">>] = box'[p]
        /\ \A p \in Joiners : <<p, "queue">> \in Places /\ At'[<<p, "queue">>] = receiveQueue'[p]
        /\ \A k \in Keys : <<k, "map">> \in Places /\ At'[<<k, "map">>] = fairQMap'[k]
      BY DEF Places, At
  <1>2. /\ \A p \in Proc : box'[p] \in Seq(Sane)
        /\ \A p \in Joiners : receiveQueue'[p] \in Seq(Sane)
        /\ \A k \in Keys : fairQMap'[k] \in Seq(Sane)
      BY DEF Base, Origins, Boxed
  <1>3. ASSUME NEW pl \in Places
        PROVE  \/ \E p \in Proc : pl = <<p, "box">>
               \/ \E p \in Joiners : pl = <<p, "queue">>
               \/ \E k \in Keys : pl = <<k, "map">>
      BY DEF Places
  <1>4. \A pl \in Places : At'[pl] \in Seq(Sane)
      BY <1>1, <1>2, <1>3
  <1>. QED  BY <1>1, <1>4 DEF PlaceRow, At

(* The same of the three sorts of place one at a time. *)
Leaves(pl, from) == IF pl = from THEN 1 ELSE 0

BoxCarry(m, from, to) ==
  \A p \in Proc : Carry(box[p], box'[p], <<p, "box">>, m, Leaves(<<p, "box">>, from), <<p, "box">> = to)

QueueCarry(m, from, to) ==
  \A p \in Joiners : Carry(receiveQueue[p], receiveQueue'[p], <<p, "queue">>, m,
                           Leaves(<<p, "queue">>, from), <<p, "queue">> = to)

MapCarry(m, from, to) ==
  \A k \in Keys : Carry(fairQMap[k], fairQMap'[k], <<k, "map">>, m,
                        Leaves(<<k, "map">>, from), <<k, "map">> = to)

LEMMA CarryAll ==
  ASSUME Base, Base', NEW m, NEW from, NEW to,
         BoxCarry(m, from, to), QueueCarry(m, from, to), MapCarry(m, from, to)
  PROVE  CarryRow(At, At', m, from, to)
  <1> SUFFICES ASSUME NEW pl \in Places
               PROVE  Carry(At[pl], At'[pl], pl, m, Leaves(pl, from), pl = to)
      BY DEF CarryRow, Leaves
  <1>1. CASE \E p \in Proc : pl = <<p, "box">>
      BY <1>1, AtRow, AtRowNext DEF BoxCarry
  <1>2. CASE \E p \in Joiners : pl = <<p, "queue">>
      BY <1>2, AtRow, AtRowNext DEF QueueCarry
  <1>3. CASE \E k \in Keys : pl = <<k, "map">>
      BY <1>3, AtRow, AtRowNext DEF MapCarry
  <1>. QED  BY <1>1, <1>2, <1>3 DEF Places

LEMMA CarrySame ==
  ASSUME Base, NEW m, NEW from, NEW to
  PROVE  /\ UNCHANGED box /\ (\A p \in Proc : from # <<p, "box">>) => BoxCarry(m, from, to)
         /\ UNCHANGED receiveQueue /\ (\A p \in Joiners : from # <<p, "queue">>) => QueueCarry(m, from, to)
         /\ UNCHANGED fairQMap /\ (\A k \in Keys : from # <<k, "map">>) => MapCarry(m, from, to)
  <1>1. /\ \A p \in Proc : box[p] \in Seq(Sane)
        /\ \A p \in Joiners : receiveQueue[p] \in Seq(Sane)
        /\ \A k \in Keys : fairQMap[k] \in Seq(Sane)
      BY DEF Base, Origins, Boxed
  <1>2. ASSUME NEW s \in Seq(Sane), NEW pl, pl # from PROVE Carry(s, s, pl, m, Leaves(pl, from), pl = to)
      BY <1>2, Carried DEF Leaves
  <1>3. ASSUME UNCHANGED box, \A p \in Proc : from # <<p, "box">> PROVE BoxCarry(m, from, to)
      BY <1>1, <1>2, <1>3 DEF BoxCarry
  <1>4. ASSUME UNCHANGED receiveQueue, \A p \in Joiners : from # <<p, "queue">> PROVE QueueCarry(m, from, to)
      BY <1>1, <1>2, <1>4 DEF QueueCarry
  <1>5. ASSUME UNCHANGED fairQMap, \A k \in Keys : from # <<k, "map">> PROVE MapCarry(m, from, to)
      BY <1>1, <1>2, <1>5 DEF MapCarry
  <1>. QED  BY <1>3, <1>4, <1>5

(* Some buffers get e, some lose what they held. *)
LEMMA BoxGains ==
  ASSUME Base, NEW m, NEW from, NEW to, \A p \in Proc : from # <<p, "box">>, NEW e \in Sane,
         \A p \in Proc : \/ IsEnd(box'[p], box[p])
                         \/ /\ box'[p] = Append(box[p], e)
                            /\ IsTicket(e, <<p, "box">>, m) => to = <<p, "box">>
  PROVE  BoxCarry(m, from, to)
  <1> SUFFICES ASSUME NEW p \in Proc
               PROVE  Carry(box[p], box'[p], <<p, "box">>, m, 0, <<p, "box">> = to)
      BY DEF BoxCarry, Leaves
  <1> DEFINE pl == <<p, "box">>
  <1>1. box[p] \in Seq(Sane) /\ (pl = to) \in BOOLEAN
      BY DEF Base, Origins, Boxed
  <1>2. CASE IsEnd(box'[p], box[p])
      BY <1>1, <1>2, Carried
  <1>3. CASE box'[p] = Append(box[p], e) /\ (IsTicket(e, pl, m) => to = pl)
      BY <1>1, <1>3, CarriedAnd
  <1>. QED  BY <1>2, <1>3

LEMMA QueueTail ==
  ASSUME Base, NEW m, NEW from, NEW to, NEW p \in Joiners,
         from = <<p, "queue">> \/ \A q \in Joiners : from # <<q, "queue">>,
         receiveQueue[p] # << >>, receiveQueue'[p] = Tail(receiveQueue[p]),
         \A q \in Joiners : q # p => receiveQueue'[q] = receiveQueue[q]
  PROVE  QueueCarry(m, from, to)
  <1> SUFFICES ASSUME NEW q \in Joiners
               PROVE  Carry(receiveQueue[q], receiveQueue'[q], <<q, "queue">>, m,
                            Leaves(<<q, "queue">>, from), <<q, "queue">> = to)
      BY DEF QueueCarry
  <1> DEFINE pl == <<q, "queue">>
  <1>1. receiveQueue[q] \in Seq(Sane) /\ (pl = to) \in BOOLEAN
      BY DEF Base, Origins
  <1>2. CASE q = p
    <2>1. /\ Carry(receiveQueue[q], Tail(receiveQueue[q]), pl, m, 1, pl = to)
          /\ IsEnd(Tail(receiveQueue[q]), receiveQueue[q])
        BY <1>1, <1>2, Carried, Ends
    <2>. QED  BY <1>2, <2>1, <1>1, Carried DEF Leaves
  <1>3. CASE q # p
    <2>1. pl # from
        BY <1>3
    <2>. QED  BY <1>3, <2>1, <1>1, Carried DEF Leaves
  <1>. QED  BY <1>2, <1>3

LEMMA MapTail ==
  ASSUME Base, NEW m, NEW from, NEW to, NEW k \in Keys,
         from = <<k, "map">> \/ \A l \in Keys : from # <<l, "map">>,
         fairQMap[k] # << >>, fairQMap'[k] = Tail(fairQMap[k]),
         \A l \in Keys : l # k => fairQMap'[l] = fairQMap[l]
  PROVE  MapCarry(m, from, to)
  <1> SUFFICES ASSUME NEW q \in Keys
               PROVE  Carry(fairQMap[q], fairQMap'[q], <<q, "map">>, m,
                            Leaves(<<q, "map">>, from), <<q, "map">> = to)
      BY DEF MapCarry
  <1> DEFINE pl == <<q, "map">>
  <1>1. fairQMap[q] \in Seq(Sane) /\ (pl = to) \in BOOLEAN
      BY DEF Base, Origins
  <1>2. CASE q = k
    <2>1. /\ Carry(fairQMap[q], Tail(fairQMap[q]), pl, m, 1, pl = to)
          /\ IsEnd(Tail(fairQMap[q]), fairQMap[q])
        BY <1>1, <1>2, Carried, Ends
    <2>. QED  BY <1>2, <2>1, <1>1, Carried DEF Leaves
  <1>3. CASE q # k
    <2>1. pl # from
        BY <1>3
    <2>. QED  BY <1>3, <2>1, <1>1, Carried DEF Leaves
  <1>. QED  BY <1>2, <1>3

(* What a step does to the tickets of m. *)
TicketDoes(m) ==
  \E from, to :
    /\ CarryRow(At, At', m, from, to)
    /\ stage'[m] = "out" => stage[m] = "out"
    /\ \/ from = Nowhere /\ to = Nowhere /\ (pending' = m => pending = m)
       \/ /\ from \in Places /\ At[from] # << >> /\ IsTicket(Head(At[from]), from, m)
          /\ pending' = pending \/ (to = Nowhere /\ pending' = m)
       \/ /\ from = Nowhere /\ stage[m] = "out" /\ stage'[m] # "out"
          /\ pending' = pending

Plain(s) == \A i \in DOMAIN s : s[i].kind # "REDIRECT"

NoRedirects == (\A k \in Keys : Plain(fairQMap[k])) /\ Plain(box[S]) /\ Plain(relayed)

LEMMA TicketsStay ==
  ASSUME Base, Base', NEW m \in Joiners, stage'[m] = "out" => stage[m] = "out",
         pending' = m => pending = m,
         BoxCarry(m, Nowhere, Nowhere), QueueCarry(m, Nowhere, Nowhere), MapCarry(m, Nowhere, Nowhere)
  PROVE  TicketDoes(m)
  <1>. QED  BY CarryAll DEF TicketDoes

(* From nowhere and to nowhere. *)
LEMMA NowhereElse ==
  /\ Nowhere \notin Places
  /\ \A p : Nowhere # <<p, "box">> /\ Nowhere # <<p, "queue">> /\ Nowhere # <<p, "map">>
  /\ \A p, q : /\ <<p, "box">> # <<q, "queue">> /\ <<p, "box">> # <<q, "map">>
               /\ <<p, "queue">> # <<q, "map">>
  BY DEF Places, Nowhere

(* Buffers get something that is no ticket. *)
LEMMA TicketsGet ==
  ASSUME Base, Base', NEW m \in Joiners, stage'[m] = "out" => stage[m] = "out",
         pending' = m => pending = m,
         NEW e \in Sane, e.kind \notin {"JOIN", "REDIRECT"},
         \A p \in Proc : box'[p] = box[p] \/ box'[p] = << >> \/ box'[p] = Append(box[p], e),
         QueueCarry(m, Nowhere, Nowhere), MapCarry(m, Nowhere, Nowhere)
  PROVE  TicketDoes(m)
  <1>1. ASSUME NEW p \in Proc PROVE IsEnd(box'[p], box[p]) \/ box'[p] = Append(box[p], e)
      BY Ends DEF Base, Origins, Boxed
  <1>. QED  BY <1>1, TicketsStay, BoxGains, NowhereElse DEF IsTicket

LEMMA SeqReceiveTickets ==
  ASSUME Base, Base', NoRedirects, SeqReceive, NEW m \in Joiners
  PROVE  TicketDoes(m)
  <1>1. PICK d \in Requests :
          /\ d = Head(box[S]) /\ Key(d) \in Keys /\ box[S] # << >>
          /\ fairQMap'[Key(d)] = Append(fairQMap[Key(d)], d)
          /\ \A k \in Keys : k # Key(d) => fairQMap'[k] = fairQMap[k]
          /\ box'[S] = Tail(box[S]) /\ \A p \in Proc : p # S => box'[p] = box[p]
          /\ UNCHANGED <<stage, pending, receiveQueue>>
      BY SeqReceiveDoes
  <1> DEFINE from == IF IsTicket(d, <<S, "box">>, m) THEN <<S, "box">> ELSE Nowhere
             to == IF IsTicket(d, <<S, "box">>, m) THEN <<Key(d), "map">> ELSE Nowhere
  <1>2. d \in Sane /\ S \in Proc /\ S # m
      BY Kinds1
  <1>3. BoxCarry(m, from, to)
    <2> SUFFICES ASSUME NEW p \in Proc
                 PROVE  Carry(box[p], box'[p], <<p, "box">>, m, Leaves(<<p, "box">>, from), <<p, "box">> = to)
        BY DEF BoxCarry
    <2>1. box[p] \in Seq(Sane) /\ (<<p, "box">> = to) \in BOOLEAN
        BY DEF Base, Origins, Boxed
    <2>2. CASE p = S
      <3>1. /\ Carry(box[p], Tail(box[p]), <<p, "box">>, m, 1, <<p, "box">> = to)
            /\ IsEnd(Tail(box[p]), box[p])
          BY <1>1, <2>1, <2>2, Carried, Ends
      <3>. QED  BY <1>1, <2>2, <3>1, <2>1, Carried DEF Leaves
    <2>3. CASE p # S
        BY <2>3, <2>1, <1>1, NowhereElse, Carried DEF Leaves
    <2>. QED  BY <2>2, <2>3
  <1>4. MapCarry(m, from, to)
    <2> SUFFICES ASSUME NEW k \in Keys
                 PROVE  Carry(fairQMap[k], fairQMap'[k], <<k, "map">>, m, 0, <<k, "map">> = to)
        BY NowhereElse DEF MapCarry, Leaves
    <2>1. fairQMap[k] \in Seq(Sane) /\ (<<k, "map">> = to) \in BOOLEAN
        BY DEF Base, Origins
    <2>2. CASE k = Key(d)
      <3>1. IsTicket(d, <<k, "map">>, m) => <<k, "map">> = to
          BY <2>2 DEF IsTicket
      <3>2. fairQMap'[k] = Append(fairQMap[k], d)
          BY <1>1, <2>2
      <3> HIDE DEF to
      <3>. QED  BY <3>2, <1>2, <2>1, <3>1, CarriedAnd
    <2>3. CASE k # Key(d)
        BY <1>1, <2>1, <2>3, Carried
    <2>. QED  BY <2>2, <2>3
  <1>5. CarryRow(At, At', m, from, to)
      BY <1>3, <1>4, <1>1, CarryAll, CarrySame, NowhereElse
  <1>6. from \in Places => At[from] = box[S] /\ IsTicket(d, from, m)
      BY <1>2, AtRow, NowhereElse
  <1>7. from \notin Places => from = Nowhere /\ to = Nowhere
      BY <1>2, AtRow
  <1> HIDE DEF from, to
  <1>. QED  BY <1>1, <1>5, <1>6, <1>7 DEF TicketDoes

LEMMA MemberReceiveTickets ==
  ASSUME Base, Base', NEW p \in Joiners, MemberReceive(p), NEW m \in Joiners
  PROVE  TicketDoes(m)
  <1> DEFINE d == Head(box[p])
             ticket == IsTicket(d, <<p, "box">>, m)
             from == IF ticket THEN <<p, "box">> ELSE Nowhere
             to == IF ticket /\ d.kind = "JOIN" THEN <<p, "queue">> ELSE Nowhere
  <1>1. /\ box[p] # << >> /\ d \in Sane
        /\ receiveQueue'[p] = Append(receiveQueue[p], d)
        /\ \A q \in Joiners : q # p => receiveQueue'[q] = receiveQueue[q]
        /\ box'[p] = Tail(box[p]) /\ \A q \in Proc : q # p => box'[q] = box[q]
        /\ UNCHANGED <<stage, pending, fairQMap>>
      BY MemberReceiveDoes
  <1>2. p \in Proc
      BY Kinds1
  <1>3. BoxCarry(m, from, to)
    <2> SUFFICES ASSUME NEW q \in Proc
                 PROVE  Carry(box[q], box'[q], <<q, "box">>, m, Leaves(<<q, "box">>, from), <<q, "box">> = to)
        BY DEF BoxCarry
    <2>1. box[q] \in Seq(Sane) /\ (<<q, "box">> = to) \in BOOLEAN
        BY DEF Base, Origins, Boxed
    <2>2. CASE q = p
      <3>1. /\ Carry(box[q], Tail(box[q]), <<q, "box">>, m, 1, <<q, "box">> = to)
            /\ IsEnd(Tail(box[q]), box[q])
          BY <1>1, <2>1, <2>2, Carried, Ends
      <3>. QED  BY <1>1, <2>2, <3>1, <2>1, Carried DEF Leaves
    <2>3. CASE q # p
        BY <2>3, <2>1, <1>1, NowhereElse, Carried DEF Leaves
    <2>. QED  BY <2>2, <2>3
  <1>4. QueueCarry(m, from, to)
    <2> SUFFICES ASSUME NEW q \in Joiners
                 PROVE  Carry(receiveQueue[q], receiveQueue'[q], <<q, "queue">>, m, 0, <<q, "queue">> = to)
        BY NowhereElse DEF QueueCarry, Leaves
    <2>1. receiveQueue[q] \in Seq(Sane) /\ (<<q, "queue">> = to) \in BOOLEAN
        BY DEF Base, Origins
    <2>2. CASE q = p
      <3>1. IsTicket(d, <<q, "queue">>, m) => <<q, "queue">> = to
          BY <2>2 DEF IsTicket
      <3>2. d \in Sane /\ receiveQueue'[q] = Append(receiveQueue[q], d)
          BY <1>1, <2>2
      <3>. QED  BY <3>2, <2>1, <3>1, CarriedAnd
    <2>3. CASE q # p
        BY <1>1, <2>1, <2>3, Carried
    <2>. QED  BY <2>2, <2>3
  <1>5. CarryRow(At, At', m, from, to)
      BY <1>3, <1>4, <1>1, CarryAll, CarrySame, NowhereElse
  <1>6. from \in Places => At[from] = box[p] /\ IsTicket(d, from, m)
      BY <1>2, AtRow, NowhereElse
  <1>7. from \notin Places => from = Nowhere /\ to = Nowhere
      BY <1>2, AtRow
  <1> HIDE DEF from, to
  <1>. QED  BY <1>1, <1>5, <1>6, <1>7 DEF TicketDoes

LEMMA ServeJoinTickets ==
  ASSUME Base, Base', ~crossed', NEW k \in Keys, ServeJoin(k), NEW m \in Joiners
  PROVE  TicketDoes(m)
  <1>1. PICK d \in Range(fairQMap[k]) :
          /\ d.kind = "JOIN" /\ Serve(k, d)
          /\ box' = Deliver(box, {theirAddress}, Datagram("OK", Nobody, 0, S))
          /\ pending' = d.who /\ stage' = stage
      BY DEF ServeJoin, SendTo
  <1>2. /\ fairQMap[k] # << >> /\ d = Head(fairQMap[k]) /\ fairQMap'[k] = Tail(fairQMap[k])
        /\ \A l \in Keys : l # k => fairQMap'[l] = fairQMap[l]
        /\ receiveQueue' = receiveQueue
      BY <1>1, ServeDoes
  <1> DEFINE from == IF d.who = m THEN <<k, "map">> ELSE Nowhere
             e == Datagram("OK", Nobody, 0, S)
  <1>3. BoxCarry(m, from, Nowhere)
      BY <1>1, Ends, NowhereElse, BoxGains, Answers DEF Base, Origins, Boxed, Deliver, IsTicket,
         Datagram
  <1>4. CarryRow(At, At', m, from, Nowhere)
      BY <1>3, <1>2, CarryAll, CarrySame, NowhereElse, MapTail
  <1>5. CASE d.who = m
      BY <1>1, <1>5, <1>2, <1>4, AtRow DEF IsTicket, TicketDoes
  <1>6. CASE d.who # m
      BY <1>1, <1>4, <1>6 DEF TicketDoes
  <1>. QED  BY <1>5, <1>6

LEMMA AskTickets ==
  ASSUME Base, Base', NEW p \in Joiners, Ask(p), NEW m \in Joiners
  PROVE  TicketDoes(m)
  <1> DEFINE e == Datagram("JOIN", p, 0, p)
             to == IF p = m THEN <<Contact[p], "box">> ELSE Nowhere
  <1>1. /\ stage[p] = "out" /\ stage'[p] = "reply" /\ \A q \in Proc : q # p => stage'[q] = stage[q]
        /\ e \in Sane /\ m \in Proc
        /\ \A q \in Proc : box'[q] = IF q = Contact[p] /\ Up(q) THEN Append(box[q], e) ELSE box[q]
        /\ UNCHANGED <<receiveQueue, fairQMap, pending>>
      BY AskDoes, Answers, Kinds1
  <1>2. ASSUME NEW q \in Proc
        PROVE  \/ IsEnd(box'[q], box[q])
               \/ box'[q] = Append(box[q], e) /\ (IsTicket(e, <<q, "box">>, m) => to = <<q, "box">>)
      BY <1>1, Ends DEF Base, Origins, Boxed, IsTicket, Datagram
  <1> HIDE DEF e
  <1>3. CarryRow(At, At', m, Nowhere, to)
      BY <1>1, <1>2, CarryAll, CarrySame, NowhereElse, BoxGains
  <1>4. p # m => to = Nowhere
      OBVIOUS
  <1> HIDE DEF to
  <1>5. CASE p = m
      BY <1>1, <1>3, <1>5 DEF TicketDoes
  <1>6. CASE p # m
      BY <1>1, <1>3, <1>4, <1>6 DEF TicketDoes
  <1>. QED  BY <1>5, <1>6

LEMMA TakeRedirectTickets ==
  ASSUME Base, Base', NEW p \in Joiners, TakeRedirect(p), NEW m \in Joiners
  PROVE  TicketDoes(m)
  <1> DEFINE e == Datagram("JOIN", p, 0, p)
             q == Head(box[p]).who
             from == IF p = m THEN <<p, "box">> ELSE Nowhere
             to == IF p = m THEN <<q, "box">> ELSE Nowhere
  <1>1. /\ box[p] # << >> /\ Head(box[p]).kind = "REDIRECT"
        /\ \A r \in Proc : box'[r] = IF r = q /\ Up(r) THEN Append(Emptied(p)[r], e) ELSE Emptied(p)[r]
        /\ Emptied(p)[p] = << >> /\ \A r \in Proc : r # p => Emptied(p)[r] = box[r]
        /\ UNCHANGED <<stage, receiveQueue, fairQMap, pending>>
        /\ e \in Sane /\ p \in Proc
      BY TakeRedirectDoes, Answers, Kinds1
  <1>2. e.kind = "JOIN" /\ e.who = p
      BY DEF Datagram
  <1> HIDE DEF e
  <1>3. BoxCarry(m, from, to)
    <2> SUFFICES ASSUME NEW r \in Proc
                 PROVE  Carry(box[r], box'[r], <<r, "box">>, m, Leaves(<<r, "box">>, from), <<r, "box">> = to)
        BY DEF BoxCarry
    <2> DEFINE pl == <<r, "box">>
    <2>1. box[r] \in Seq(Sane) /\ (pl = to) \in BOOLEAN
        BY DEF Base, Origins, Boxed
    <2>2. r = q => (IsTicket(e, pl, m) => pl = to)
        BY <1>2 DEF IsTicket
    <2>3. (Leaves(pl, from) = 0 /\ (r = p => p # m)) \/ (Leaves(pl, from) = 1 /\ r = p)
        BY NowhereElse DEF Leaves
    <2> HIDE DEF pl, from, to, q
    <2>4. CASE r = q /\ Up(r)
      <3>1. /\ Carry(box[r], Append(box[r], e), pl, m, 0, pl = to)
            /\ Carry(box[r], Append(<< >>, e), pl, m, 1, pl = to)
            /\ Carry(box[r], Append(<< >>, e), pl, m, 0, pl = to)
          BY <1>1, <2>1, <2>2, <2>4, CarriedAnd
      <3>2. CASE r = p
          BY <1>1, <2>4, <3>2, <2>3, <3>1 DEF pl
      <3>3. CASE r # p
          BY <1>1, <2>3, <2>4, <3>3, <3>1 DEF pl
      <3>. QED  BY <3>2, <3>3
    <2>5. CASE ~ (r = q /\ Up(r))
        BY <2>1, <1>1, <2>5, <2>3, Carried DEF pl
    <2>. QED  BY <2>4, <2>5
  <1>4. CarryRow(At, At', m, from, to)
      BY <1>3, <1>1, CarryAll, NowhereElse, CarrySame
  <1>5. CASE p = m
      BY <1>1, <1>5, <1>4, AtRow DEF IsTicket, TicketDoes
  <1>6. CASE p # m
      BY <1>6, <1>1, <1>4 DEF TicketDoes
  <1>. QED  BY <1>5, <1>6

LEMMA RedirectTickets ==
  ASSUME Base, Base', ~crossed', NEW p \in Joiners, Redirect(p), NEW m \in Joiners
  PROVE  TicketDoes(m)
  <1> DEFINE e == Datagram("REDIRECT", Contact[p], 0, p)
  <1>1. PICK d \in Sane :
          /\ d.kind = "JOIN" /\ Process(p, d) /\ leaderAddress[p] = d.who
          /\ e \in Sane
          /\ \A q \in Proc : box'[q] = IF q = leaderAddress[p] /\ Up(q) THEN Append(box[q], e) ELSE box[q]
          /\ UNCHANGED stage
      BY RedirectDoes, Kinds1
  <1>2. /\ receiveQueue[p] # << >> /\ d = Head(receiveQueue[p])
        /\ receiveQueue'[p] = Tail(receiveQueue[p])
        /\ \A q \in Joiners : q # p => receiveQueue'[q] = receiveQueue[q]
        /\ UNCHANGED <<pending, fairQMap>>
      BY <1>1, ProcessDoes
  <1> DEFINE from == IF d.who = m THEN <<p, "queue">> ELSE Nowhere
             to == IF d.who = m THEN <<m, "box">> ELSE Nowhere
  <1>3. BoxCarry(m, from, to)
    <2>1. ASSUME NEW r \in Proc
          PROVE  \/ IsEnd(box'[r], box[r])
                 \/ box'[r] = Append(box[r], e) /\ (IsTicket(e, <<r, "box">>, m) => to = <<r, "box">>)
        BY <1>1, Ends DEF Base, Origins, Boxed, IsTicket, Datagram
    <2>2. \A r \in Proc : from # <<r, "box">>
        BY NowhereElse
    <2> HIDE DEF e, from, to
    <2>. QED  BY <1>1, <2>1, <2>2, BoxGains
  <1>4. CarryRow(At, At', m, from, to)
      BY <1>3, <1>2, CarryAll, NowhereElse, QueueTail, CarrySame
  <1>5. CASE d.who = m
      BY <1>1, <1>5, <1>2, <1>4, AtRow DEF IsTicket, TicketDoes
  <1>6. CASE d.who # m
      BY <1>6, <1>1, <1>2, <1>4 DEF TicketDoes
  <1>. QED  BY <1>5, <1>6

LEMMA TicketStep ==
  ASSUME Base, Base', NoRedirects, ~crossed', [Next]_vars, NEW m \in Joiners
  PROVE  TicketDoes(m)
  <1>s. S \in Proc /\ S \notin Joiners /\ Joiners \subseteq Proc /\ m # S /\ m \in Proc
      BY Kinds1
  <1>e. /\ Datagram("OK", Nobody, 0, S) \in Sane /\ Datagram("OK", Nobody, 0, S).kind = "OK"
        /\ \A p \in Joiners :
             /\ Datagram("NEWUSER", p, 0, S) \in Sane /\ Datagram("NEWUSER", p, 0, S).kind = "NEWUSER"
             /\ Datagram("LEFT", p, 0, S) \in Sane /\ Datagram("LEFT", p, 0, S).kind = "LEFT"
      BY Answers DEF Datagram
  <1>q. UNCHANGED receiveQueue => QueueCarry(m, Nowhere, Nowhere)
      BY CarrySame, NowhereElse
  <1>f. UNCHANGED fairQMap => MapCarry(m, Nowhere, Nowhere)
      BY CarrySame, NowhereElse
  <1>t. ASSUME NEW k \in Keys, NEW d \in Range(fairQMap[k]), Serve(k, d)
        PROVE  /\ QueueCarry(m, Nowhere, Nowhere) /\ MapCarry(m, Nowhere, Nowhere)
               /\ d \in Sane /\ theirAddress \in Joiners
      BY <1>t, <1>q, ServeDoes, MapTail, NowhereElse
  <1>p. ASSUME NEW p \in Joiners, NEW d, Process(p, d)
        PROVE  QueueCarry(m, Nowhere, Nowhere) /\ MapCarry(m, Nowhere, Nowhere) /\ pending' = pending
      BY <1>p, <1>f, ProcessDoes, QueueTail, NowhereElse
  <1>1. CASE SeqSend
    <2> DEFINE e == Head(sendQueue[S])
    <2>1. UNCHANGED <<stage, pending, receiveQueue, fairQMap>> /\ sendQueue[S] # << >>
        BY <1>1 DEF SeqSend
    <2>2. e \in Own(S) /\ e \in Sane /\ e.kind \notin {"JOIN", "REDIRECT"}
      <3>1. e \in Own(S)
          BY <2>1, <1>s, TailOf DEF Base, Origins
      <3>. QED  BY <3>1 DEF Own
    <2>3. \A p \in Proc : box'[p] = box[p] \/ box'[p] = Append(box[p], e)
        BY <1>1 DEF SeqSend, Deliver
    <2> HIDE DEF e
    <2>. QED  BY <1>q, <1>f, <2>1, <2>2, <2>3, TicketsGet
  <1>2. CASE SeqReceive
      BY <1>2, SeqReceiveTickets
  <1>3. CASE Multicast
    <2> DEFINE e == Datagram("NEWUSER", pending, 0, S)
    <2>1. /\ UNCHANGED <<receiveQueue, fairQMap, stage>> /\ pending' = Nobody /\ pending \in Joiners
          /\ \A p \in Proc : box'[p] = box[p] \/ box'[p] = Append(box[p], e)
        BY <1>3, MulticastDoes
    <2>2. e \in Sane /\ e.kind = "NEWUSER"
        BY <1>e, <2>1
    <2> HIDE DEF e
    <2>. QED  BY <1>q, <1>f, <2>1, <2>2, <1>s, TicketsGet, Kinds1
  <1>4. CASE Welcoming
    <2>1. /\ UNCHANGED <<receiveQueue, fairQMap, stage, pending>> /\ Head(burst.left) \in Seq(Sane)
          /\ \A p \in Proc : box'[p] = box[p] \/ box'[p] = box[p] \o Head(burst.left)
        BY <1>4, WelcomingDoes
    <2>2. BoxCarry(m, Nowhere, Nowhere)
      <3> SUFFICES ASSUME NEW p \in Proc
                   PROVE  Carry(box[p], box'[p], <<p, "box">>, m, 0, FALSE)
          BY NowhereElse DEF BoxCarry, Leaves
      <3>. QED  BY <2>1, <1>4, Carried, CarriedWith, WelcomeKinds DEF IsTicket, Base, Origins, Boxed
    <2>. QED  BY <1>q, <1>f, <2>1, <2>2, TicketsStay
  <1>5. ASSUME NEW k \in Keys, ServeJoin(k) PROVE TicketDoes(m)
      BY <1>5, ServeJoinTickets
  <1>6. ASSUME NEW k \in Keys, ServeLeave(k) PROVE TicketDoes(m)
    <2> DEFINE e == Datagram("LEFT", shift.of, 0, S)
    <2>1. PICK h \in Range(fairQMap[k]) :
            /\ Serve(k, h) /\ UNCHANGED pending
            /\ \/ /\ \A p \in Proc : box'[p] = IF p \in Range(userList') /\ Up(p) THEN Append(box[p], e) ELSE box[p]
                  /\ UNCHANGED stage /\ shift.of \in Joiners
               \/ /\ \A p \in Proc : box'[p] = box[p] \/ box'[p] = << >>
                  /\ stage' = [stage EXCEPT ![S] = "gone"]
        BY <1>6, ServeLeaveDoes
    <2>2. shift.of \in Joiners => e \in Sane /\ e.kind = "LEFT"
        BY <1>e
    <2> HIDE DEF e
    <2>. QED  BY <2>2, <2>1, <1>e, <1>t, <1>s, TicketsGet DEF Base, Scalars
  <1>7. ASSUME NEW k \in Keys, ServeLine(k) PROVE TicketDoes(m)
    <2>1. PICK h \in Range(fairQMap[k]) :
            /\ Serve(k, h) /\ h.kind \in {"LINE", "REDIRECT"}
            /\ [h EXCEPT !.from = S] \in Sane /\ [h EXCEPT !.from = S].kind = h.kind
            /\ \A p \in Proc : box'[p] = IF p \in Range(userList) /\ Up(p)
                                         THEN Append(box[p], [h EXCEPT !.from = S]) ELSE box[p]
            /\ UNCHANGED <<stage, pending>>
        BY <1>7, ServeLineDoes
    <2> DEFINE e == [h EXCEPT !.from = S]
    <2>2. h.kind # "REDIRECT"
      <3>1. fairQMap[k] \in Seq(Sane)
          BY DEF Base, Origins
      <3>. QED  BY <3>1, InRange DEF NoRedirects, Plain
    <2> HIDE DEF e
    <2>. QED  BY <2>1, <2>2, <1>t, TicketsGet
  <1>8. ASSUME NEW p \in Proc, Type(p) \/ EndInput(p) \/ PushLeave(p) PROVE TicketDoes(m)
      BY <1>8, <1>e, <1>q, <1>f, TicketsGet DEF Type, EndInput, PushLeave
  <1>9. ASSUME NEW p \in Proc, TestDead(p) PROVE TicketDoes(m)
      BY <1>9, <1>s, <1>e, <1>q, <1>f, TicketsGet DEF TestDead, Emptied, Base, Origins, Boxed,
         Scalars
  <1>10. ASSUME NEW p \in Joiners, Ask(p) PROVE TicketDoes(m)
      BY <1>10, AskTickets
  <1>11. ASSUME NEW p \in Joiners, GiveUp(p) PROVE TicketDoes(m)
      BY <1>11, <1>s, <1>e, <1>q, <1>f, GiveUpDoes, TicketsGet
  <1>12. ASSUME NEW p \in Joiners, TakeRedirect(p) PROVE TicketDoes(m)
      BY <1>12, TakeRedirectTickets
  <1>13. ASSUME NEW p \in Joiners, TakeReply(p) \/ TakeCount(p) \/ TakeUsers(p) \/ TakeEntries(p)
         PROVE  TicketDoes(m)
    <2>1. /\ box'[p] \in Seq(Sane) /\ IsEnd(box'[p], box[p])
          /\ \A q \in Proc : q # p => box'[q] = box[q]
          /\ UNCHANGED <<receiveQueue, fairQMap, pending>>
          /\ stage'[p] # "out" /\ \A q \in Proc : q # p => stage'[q] = stage[q]
      <3>1. ASSUME NEW at \in Joining, NEW to \in {"in"} \cup Joining,
                   NEW n \in Nat \ {0}, NEW E, Take(p, at, to, n, E)
            PROVE  /\ box'[p] \in Seq(Sane) /\ IsEnd(box'[p], box[p])
                   /\ \A q \in Proc : q # p => box'[q] = box[q]
                   /\ UNCHANGED <<receiveQueue, fairQMap, pending>>
                   /\ stage'[p] # "out" /\ \A q \in Proc : q # p => stage'[q] = stage[q]
        <4>1. /\ n <= Len(box[p]) /\ box'[p] = SubSeq(box[p], n + 1, Len(box[p]))
              /\ \A q \in Proc : q # p => box'[q] = box[q]
              /\ UNCHANGED <<receiveQueue, fairQMap, pending>>
              /\ stage'[p] = to /\ \A q \in Proc : q # p => stage'[q] = stage[q]
          <5>1. /\ \A q \in Proc : q # p => stage'[q] = stage[q] /\ box'[q] = box[q]
                /\ UNCHANGED <<seqVars, receiveQueue>> /\ stage'[p] = to
              BY <3>1, TakeFrame
          <5>2. n <= Len(box[p]) /\ box'[p] = SubSeq(box[p], n + 1, Len(box[p]))
              BY <3>1, TakeDoes
          <5>. QED  BY <5>1, <5>2
        <4>2. box[p] \in Seq(Sane) /\ n \in Nat
            BY Kinds1 DEF Base, Origins, Boxed
        <4>. QED  BY <4>1, <4>2, Ends DEF Joining
      <3>2. CASE TakeReply(p)
          BY <3>2, <3>1, TakeReplyDoes DEF Joining
      <3>3. CASE TakeCount(p)
          BY <3>3, <3>1, TakeCountDoes DEF Joining
      <3>4. CASE TakeUsers(p)
          BY <3>1, <3>4, TakeUsersDoes DEF Joining
      <3>5. CASE TakeEntries(p)
          BY <3>1, <3>5, TakeEntriesDoes DEF Joining
      <3>. QED  BY <1>13, <3>2, <3>3, <3>4, <3>5
    <2>2. ASSUME NEW q \in Proc PROVE IsEnd(box'[q], box[q])
        BY <2>1, Ends DEF Base, Origins, Boxed
    <2>3. BoxCarry(m, Nowhere, Nowhere)
        BY <1>e, <2>2, BoxGains, NowhereElse
    <2>. QED  BY <1>s, <1>q, <1>f, <2>1, <2>3, TicketsStay
  <1>14. ASSUME NEW p \in Joiners, MemberSend(p) PROVE TicketDoes(m)
    <2> DEFINE e == Head(sendQueue[p])
    <2>1. /\ e \in Own(p) /\ e \in Sane /\ UNCHANGED <<stage, pending, receiveQueue, fairQMap>>
          /\ \A q \in Proc : box'[q] = box[q] \/ box'[q] = Append(box[q], e)
        BY <1>14, MemberSendDoes
    <2> HIDE DEF e
    <2>. QED  BY <1>q, <1>f, <2>1, TicketsGet DEF Own
  <1>15. ASSUME NEW p \in Joiners, MemberReceive(p) PROVE TicketDoes(m)
      BY <1>15, MemberReceiveTickets
  <1>16. ASSUME NEW p \in Joiners, Redirect(p) PROVE TicketDoes(m)
      BY <1>16, RedirectTickets
  <1>17. ASSUME NEW p \in Joiners, AddNotice(p) \/ RemoveFromList(p) \/ PrintOther(p)
         PROVE  TicketDoes(m)
    <2>1. PICK d : /\ Process(p, d)
                   /\ \A q \in Proc : box'[q] = box[q] \/ box'[q] = << >>
                   /\ stage'[m] = "out" => stage[m] = "out"
        BY <1>s, <1>17, AddNoticeDoes, RemoveFromListDoes, PrintOtherDoes
    <2>. QED  BY <1>e, <2>1, <1>p, TicketsGet
  <1>18. CASE UNCHANGED Others
      BY <1>18, <1>e, <1>q, <1>f, TicketsGet DEF Others
  <1>. QED  BY OthersStay, <1>1, <1>2, <1>3, <1>4, <1>5, <1>6, <1>7, <1>8, <1>9, <1>10, <1>11,
               <1>12, <1>13,
               <1>14, <1>15, <1>16, <1>17, <1>18
            DEF Next, SeqProcess, ConnectChat, MemberProcess

TicketsOf(m) ==
  /\ OneTicket(At, m)
  /\ ~NoTicket(At, m) => stage[m] # "out" /\ pending # m
  /\ pending = m => stage[m] # "out"

LEMMA NextTicketsOf ==
  ASSUME Base, Base', NoRedirects, ~crossed', [Next]_vars, NEW m \in Joiners, TicketsOf(m)
  PROVE  TicketsOf(m)' /\ (NoTicket(At, m) => NoTicket(At', m) \/ stage[m] = "out")
  <1>1. PICK from, to :
          /\ CarryRow(At, At', m, from, to)
          /\ stage'[m] = "out" => stage[m] = "out"
          /\ \/ from = Nowhere /\ to = Nowhere /\ (pending' = m => pending = m)
             \/ /\ from \in Places /\ At[from] # << >> /\ IsTicket(Head(At[from]), from, m)
                /\ pending' = pending \/ (to = Nowhere /\ pending' = m)
             \/ /\ from = Nowhere /\ stage[m] = "out" /\ stage'[m] # "out"
                /\ pending' = pending
      BY TicketStep DEF TicketDoes
  <1>2. At \in PlaceRow /\ At' \in PlaceRow
      BY AtRow, AtRowNext
  <1> DEFINE c == At
             d == At'
  <1>3. OneTicket(c, m) /\ (~NoTicket(c, m) => stage[m] # "out" /\ pending # m) /\ (pending = m => stage[m] # "out")
      BY DEF TicketsOf
  <1>4. ASSUME OneTicket(d, m), ~NoTicket(d, m) => stage'[m] # "out" /\ pending' # m,
               pending' = m => stage'[m] # "out",
               NoTicket(c, m) => NoTicket(d, m) \/ stage[m] = "out"
        PROVE  TicketsOf(m)' /\ (NoTicket(At, m) => NoTicket(At', m) \/ stage[m] = "out")
      BY <1>4 DEF TicketsOf, OneTicket, NoTicket, Places, IsTicket
  <1>5. CASE from = Nowhere /\ to = Nowhere /\ (pending' = m => pending = m)
      BY <1>1, <1>5, <1>2, <1>3, <1>4, TicketsKept DEF c, d
  <1>6. CASE /\ from \in Places /\ At[from] # << >> /\ IsTicket(Head(At[from]), from, m)
             /\ pending' = pending \/ (to = Nowhere /\ pending' = m)
    <2>1. /\ CarryRow(c, d, m, from, to) /\ c[from] # << >> /\ IsTicket(Head(c[from]), from, m)
          /\ c \in PlaceRow /\ d \in PlaceRow
        BY <1>1, <1>2, <1>6
    <2> HIDE DEF c, d
    <2>2. OneTicket(d, m) /\ (to \notin Places => NoTicket(d, m))
        BY <1>3, <1>6, <2>1, TicketMoved
    <2>. QED  BY <1>1, <1>3, <1>4, <1>6, <2>2, <2>1, NowhereElse DEF PlaceRow, NoTicket
  <1>7. CASE from = Nowhere /\ stage[m] = "out" /\ stage'[m] # "out" /\ pending' = pending
      BY <1>1, <1>2, <1>7, <1>3, <1>4, TicketCome
  <1>. QED  BY <1>1, <1>5, <1>6, <1>7

(* A step that leaves the way of the members' lines alone. *)
Quiet ==
  /\ UNCHANGED <<fairQMap, relayed>>
  /\ \A m \in Joiners : /\ sendQueue'[m] = sendQueue[m] /\ typed'[m] = typed[m] /\ bye'[m] = bye[m]
  /\ \/ box'[S] = box[S]
     \/ box'[S] = << >> /\ stage'[S] = "gone"
     \/ \E e \in Requests : e.kind = "JOIN" /\ box'[S] = Append(box[S], e)
  /\ UNCHANGED <<memberList, pending>> \/ Multicast

LEMMA SeqSide ==
  ASSUME Base, ~crossed', [Next]_vars
  PROVE  \/ Quiet
         \/ SeqReceive
         \/ \E k \in Keys : ServeJoin(k) \/ ServeLeave(k) \/ ServeLine(k)
         \/ \E p \in Joiners : Type(p) \/ EndInput(p) \/ PushLeave(p) \/ MemberSend(p)
  <1>s. S \in Proc /\ S \notin Joiners /\ Joiners \subseteq Proc /\ \A p \in Proc : p = S \/ p \in Joiners
      BY Kinds1
  <1>j. \A p \in Joiners : Datagram("JOIN", p, 0, p) \in Requests /\ Datagram("JOIN", p, 0, p).kind = "JOIN"
      BY Answers DEF Datagram
  <1>1. CASE SeqSend
    <2>1. box'[S] = box[S]
      <3>1. CASE box' = box
          BY <3>1
      <3>2. CASE Walked(sendAt) # S /\ box' = Deliver(box, {Walked(sendAt)}, Head(sendQueue[S]))
          BY <1>s, <3>2 DEF Deliver
      <3>. QED  BY <1>1, <3>1, <3>2, SeqSendDoes
    <2>. QED  BY <2>1, <1>s, <1>1, PopSentBase DEF Quiet, SeqSend
  <1>2. CASE Multicast
      BY <1>2, <1>s, MulticastDoes, InRange DEF Base, Lists, Quiet
  <1>3. CASE Welcoming
      BY <1>s, <1>3, WelcomingDoes DEF Quiet
  <1>4. ASSUME NEW p \in Proc, Type(p) \/ EndInput(p) \/ PushLeave(p), p \notin Joiners PROVE Quiet
      BY <1>s, <1>4 DEF Base, Scalars, Origins, Type, EndInput, PushLeave, Quiet
  <1>5. ASSUME NEW p \in Proc, TestDead(p) PROVE Quiet
      BY <1>5, <1>s DEF TestDead, Emptied, Base, Origins, Boxed, Scalars, Quiet
  <1>6. ASSUME NEW p \in Joiners, Ask(p) PROVE Quiet
    <2> DEFINE e == Datagram("JOIN", p, 0, p)
    <2>1. /\ UNCHANGED <<typed, bye, sendQueue, fairQMap, relayed, memberList, pending>>
          /\ box'[S] = box[S] \/ box'[S] = Append(box[S], e)
        BY <1>s, <1>6, AskDoes
    <2>2. e \in Requests /\ e.kind = "JOIN"
        BY <1>j
    <2> HIDE DEF e
    <2>. QED  BY <2>1, <2>2 DEF Quiet
  <1>7. ASSUME NEW p \in Joiners, GiveUp(p) PROVE Quiet
      BY <1>7, GiveUpDoes DEF Quiet
  <1>8. ASSUME NEW p \in Joiners, TakeRedirect(p) PROVE Quiet
    <2> DEFINE e == Datagram("JOIN", p, 0, p)
    <2>1. /\ UNCHANGED <<typed, bye, sendQueue, fairQMap, relayed, memberList, pending>>
          /\ box'[S] = Emptied(p)[S] \/ box'[S] = Append(Emptied(p)[S], e)
          /\ Emptied(p)[S] = box[S]
        BY <1>s, <1>8, TakeRedirectDoes
    <2>2. e \in Requests /\ e.kind = "JOIN"
        BY <1>j
    <2> HIDE DEF e
    <2>. QED  BY <2>1, <2>2 DEF Quiet
  <1>9. ASSUME NEW p \in Joiners, TakeReply(p) \/ TakeCount(p) \/ TakeUsers(p) \/ TakeEntries(p)
        PROVE  Quiet
    <2>1. PICK at, to, n, E : Take(p, at, to, n, E)
        BY <1>9 DEF TakeReply, TakeCount, TakeUsers, TakeEntries
    <2>. QED  BY <1>s, <2>1 DEF Quiet, Base, Origins, Boxed, Take
  <1>10. ASSUME NEW p \in Joiners, MemberReceive(p) PROVE Quiet
      BY <1>s, <1>10, MemberReceiveDoes DEF Quiet
  <1>11. ASSUME NEW p \in Joiners, Redirect(p) PROVE Quiet
    <2>1. PICK d \in Sane :
            /\ Process(p, d) /\ d.who \in Joiners
            /\ crossed' = (crossed \/ leaderAddress[p] # d.who)
            /\ \A q \in Proc : box'[q] = IF q = leaderAddress[p] /\ Up(q)
                 THEN Append(box[q], Datagram("REDIRECT", Contact[p], 0, p)) ELSE box[q]
        BY <1>11, RedirectDoes
    <2>. QED  BY <2>1, <1>s, ProcessDoes DEF Quiet
  <1>12. ASSUME NEW p \in Joiners, AddNotice(p) \/ RemoveFromList(p) \/ PrintOther(p) PROVE Quiet
      BY <1>12, <1>s, ProcessDoes DEF AddNotice, RemoveFromList, PrintOther, Emptied, Base,
         Origins, Boxed, Quiet
  <1>13. CASE UNCHANGED Others
      BY <1>13 DEF Others, Quiet
  <1>. QED  BY OthersStay, <1>1, <1>2, <1>3, <1>4, <1>5, <1>6, <1>7, <1>8, <1>9, <1>10, <1>11,
               <1>12, <1>13
            DEF Next, SeqProcess, ConnectChat, MemberProcess

LEMMA ServeDone ==
  ASSUME Base, ~crossed', NEW k \in Keys, ServeJoin(k) \/ ServeLeave(k) \/ ServeLine(k)
  PROVE  \E d \in Requests :
           /\ d \in KeptAt(k, lineKey) /\ (d.kind # "REDIRECT" => d.who \in Joiners)
           /\ fairQMap[k] # << >> /\ d = Head(fairQMap[k])
           /\ fairQMap'[k] = Tail(fairQMap[k])
           /\ \A l \in Keys : l # k => fairQMap'[l] = fairQMap[l]
           /\ stage[S] = "in" /\ pending = Nobody /\ burst.to = Nobody
           /\ UNCHANGED <<typeVars, burst, sendAt, joinVars, leaderAddress, chatVars>>
           /\ \/ /\ d.kind = "JOIN" /\ ServeJoin(k) /\ theirAddress = d.who /\ pending' = d.who
                 /\ box'[S] = box[S] /\ UNCHANGED <<stage, userList, beyond, shift, memberList, relayed>>
              \/ /\ d.kind = "LEAVE" /\ ServeLeave(k) /\ shift.of = d.who /\ pending' = Nobody
                 /\ relayed' = relayed /\ userList' = Shifted(userList, d.who)
                 /\ \/ /\ d.who \in Range(memberList) /\ memberList' = RemoveFirst(memberList, d.who)
                       /\ box'[S] = box[S] /\ stage' = stage
                    \/ /\ d.who \notin Range(memberList) /\ memberList' = memberList
                       /\ box'[S] = << >> /\ stage'[S] = "gone"
              \/ /\ d.kind \in {"LINE", "REDIRECT"} /\ ServeLine(k)
                 /\ relayed' = Append(relayed, [d EXCEPT !.from = S])
                 /\ box'[S] = box[S] /\ UNCHANGED <<stage, userList, memberList, pending>>
  <1>s. S \in Proc /\ S \notin Joiners
      BY Kinds1
  <1>t. stage \in [Proc -> {"out", "in", "gone"} \cup Joining] /\ userList \in Seq(Joiners)
      BY DEF Base, Scalars, Lists
  <1>1. CASE ServeJoin(k)
      BY <1>1, <1>s, ServeDoes DEF ServeJoin, SendTo, Deliver
  <1>2. CASE ServeLeave(k)
    <2>1. PICK d \in Range(fairQMap[k]) :
            /\ Serve(k, d) /\ d.kind = "LEAVE"
            /\ userList' = Shifted(userList, shift.of) /\ userList' \in Seq(Joiners)
            /\ crossed' = (crossed \/ shift.of # d.who)
            /\ \/ /\ shift.of \in Range(memberList)
                  /\ memberList' = RemoveFirst(memberList, shift.of)
                  /\ \A p \in Proc : box'[p] =
                       IF p \in Range(userList') /\ Up(p)
                       THEN Append(box[p], Datagram("LEFT", shift.of, 0, S)) ELSE box[p]
                  /\ UNCHANGED stage
               \/ /\ shift.of \notin Range(memberList)
                  /\ stage' = [stage EXCEPT ![S] = "gone"]
                  /\ box'[S] = << >>
                  /\ UNCHANGED memberList
            /\ UNCHANGED <<pending, relayed>>
        BY <1>2, ServeLeaveDoes
    <2>2. S \notin Range(userList')
        BY <1>s, <2>1, InRange
    <2>3. \/ /\ d.who \in Range(memberList) /\ memberList' = RemoveFirst(memberList, d.who)
             /\ box'[S] = box[S] /\ stage' = stage
          \/ /\ d.who \notin Range(memberList) /\ memberList' = memberList
             /\ box'[S] = << >> /\ stage'[S] = "gone"
        BY <1>s, <1>t, <2>1, <2>2
    <2>. QED  BY <1>2, <2>1, <2>3, ServeDoes
  <1>3. CASE ServeLine(k)
    <2>1. PICK d \in Range(fairQMap[k]) :
            /\ Serve(k, d) /\ d.kind \in {"LINE", "REDIRECT"}
            /\ relayed' = Append(relayed, [d EXCEPT !.from = S])
            /\ \A p \in Proc : box'[p] = IF p \in Range(userList) /\ Up(p)
                                         THEN Append(box[p], [d EXCEPT !.from = S]) ELSE box[p]
            /\ UNCHANGED <<crossed, stage, userList, beyond, shift, memberList, pending>>
        BY <1>3, ServeLineDoes
    <2>. QED  BY <1>3, <1>s, <2>1, <1>t, ServeDoes, InRange
  <1>. QED  BY <1>1, <1>2, <1>3

LEMMA PlainParts ==
  ASSUME NEW s \in Seq(Sane), Plain(s)
  PROVE  /\ \A e \in Sane : e.kind # "REDIRECT" => Plain(Append(s, e))
         /\ s # << >> => Plain(Tail(s)) /\ Head(s).kind # "REDIRECT"
  <1>1. ASSUME NEW e \in Sane, e.kind # "REDIRECT" PROVE Plain(Append(s, e))
      BY <1>1, Appended DEF Adds, Grown, Plain
  <1>2. ASSUME s # << >> PROVE Plain(Tail(s)) /\ Head(s).kind # "REDIRECT"
      BY <1>2, TailOf DEF Plain
  <1>. QED  BY <1>1, <1>2

LEMMA NextNoRedirects ==
  ASSUME Base, Base', NoRedirects, ~crossed', [Next]_vars
  PROVE  NoRedirects'
  <1>q. /\ box[S] \in Seq(Sane) /\ relayed \in Seq(Sane) /\ \A k \in Keys : fairQMap[k] \in Seq(Sane)
        /\ Requests \subseteq Sane
      BY Kinds1, Wider DEF Base, Origins, Boxed
  <1>p. /\ Plain(box[S]) /\ Plain(relayed) /\ \A k \in Keys : Plain(fairQMap[k])
        /\ Plain(<< >>)
      BY DEF NoRedirects, Plain
  <1> SUFFICES (\A k \in Keys : Plain(fairQMap'[k])) /\ Plain(box'[S]) /\ Plain(relayed')
      BY DEF NoRedirects, Plain
  <1>1. CASE Quiet
      BY <1>1, <1>p, <1>q, PlainParts DEF Quiet
  <1>2. CASE SeqReceive
      BY <1>2, <1>p, <1>q, SeqReceiveDoes, PlainParts
  <1>3. CASE \E k \in Keys : ServeJoin(k) \/ ServeLeave(k) \/ ServeLine(k)
    <2>1. PICK k \in Keys : ServeJoin(k) \/ ServeLeave(k) \/ ServeLine(k)
        BY <1>3
    <2>2. PICK d \in Requests :
            /\ fairQMap[k] # << >> /\ d = Head(fairQMap[k])
            /\ fairQMap'[k] = Tail(fairQMap[k])
            /\ \A l \in Keys : l # k => fairQMap'[l] = fairQMap[l]
            /\ box'[S] = box[S] \/ box'[S] = << >>
            /\ relayed' = relayed \/ (relayed' = Append(relayed, [d EXCEPT !.from = S]) /\ d.kind \notin {"JOIN", "LEAVE"})
        BY <2>1, ServeDone
    <2>. QED  BY <1>p, <2>2, <1>q, Relaying, PlainParts
  <1>4. ASSUME NEW p \in Joiners, Type(p) \/ EndInput(p) \/ PushLeave(p)
        PROVE  (\A k \in Keys : Plain(fairQMap'[k])) /\ Plain(box'[S]) /\ Plain(relayed')
      BY <1>4, <1>p DEF Type, EndInput, PushLeave
  <1>5. ASSUME NEW p \in Joiners, MemberSend(p)
        PROVE  (\A k \in Keys : Plain(fairQMap'[k])) /\ Plain(box'[S]) /\ Plain(relayed')
    <2> DEFINE e == Head(sendQueue[p])
    <2> HIDE DEF e
    <2>. QED  BY <1>p, <1>q, <1>5, PlainParts, Kinds1, MemberSendDoes DEF Own
  <1>. QED  BY <1>1, <1>2, <1>3, <1>4, <1>5, SeqSide

-----------------------------------------------------------------------------
(***************************************************************************)
(* The lists.                                                              *)
(***************************************************************************)
New(m) == stage[m] = "out" \/ pending = m \/ ~NoTicket(At, m)

Listed(m) == pending = m \/ m \in Range(memberList)

Author(s, m) == \E i \in DOMAIN s : OfAuthor(s[i], m)

OnItsWay(m) == Author(fairQMap[lineKey[m]], m) \/ Author(box[S], m)

FromSeq(m) == \E x : InRow(Pipe(m), x) /\ x.from = S

Removal == /\ beyond = << >>
           /\ IF shift.key = Nobody THEN shift.at = 0 ELSE SomeoneLeft

Rolls ==
  /\ userList = memberList
  /\ Removal
  /\ stage[S] = "gone" => bye[S] # "no"
  /\ burst.to # Nobody => burst.to \in Range(memberList)
  /\ \A m \in Joiners :
       /\ New(m) => m \notin Range(memberList)
       /\ bye[m] # "sent" /\ FromSeq(m) => Listed(m)
       /\ bye[m] # "sent" /\ stage[m] \notin {"out", "reply", "gone"} /\ leaderAddress[m] = S => Listed(m)
       /\ OnItsWay(m) => Listed(m)

LEMMA KeysStay ==
  ASSUME [Next]_vars
  PROVE  lineKey' = lineKey
  <1>1. ASSUME NEW m \in Joiners, ConnectChat(m) PROVE lineKey' = lineKey
      BY <1>1 DEF ConnectChat, TakeReply, TakeRedirect, TakeCount, TakeUsers, TakeEntries, GiveUp, Take
  <1>2. ASSUME NEW m \in Joiners, MemberProcess(m) PROVE lineKey' = lineKey
      BY <1>2 DEF MemberProcess, Redirect, AddNotice, RemoveFromList, PrintOther, Process
  <1>3. ASSUME NEW m \in Joiners, Ask(m) \/ MemberSend(m) \/ MemberReceive(m) PROVE lineKey' = lineKey
      BY <1>3 DEF Ask, MemberSend, MemberReceive
  <1>4. ASSUME NEW p \in Proc, Type(p) \/ EndInput(p) \/ PushLeave(p) \/ TestDead(p) PROVE lineKey' = lineKey
      BY <1>4 DEF Type, EndInput, PushLeave, TestDead
  <1>5. ASSUME NEW k \in Keys, ServeJoin(k) \/ ServeLeave(k) \/ ServeLine(k) PROVE lineKey' = lineKey
      BY <1>5 DEF ServeJoin, ServeLeave, ServeLine, Serve
  <1>6. CASE SeqSend \/ SeqReceive \/ Multicast \/ Welcoming
      BY <1>6 DEF SeqSend, SeqReceive, Multicast, Welcoming
  <1>7. CASE UNCHANGED Others
      BY <1>7 DEF Others
  <1>. QED  BY OthersStay, <1>1, <1>2, <1>3, <1>4, <1>5, <1>6, <1>7 DEF Next, SeqProcess

LEMMA WorkStep ==
  ASSUME [Next]_vars
  PROVE  \/ UNCHANGED workVars
         \/ Multicast \/ Welcoming
         \/ \E k \in Keys : ServeJoin(k) \/ ServeLeave(k) \/ ServeLine(k)
  <1>1. ASSUME NEW m \in Joiners, ConnectChat(m) PROVE UNCHANGED workVars
      BY <1>1 DEF ConnectChat, TakeReply, TakeRedirect, TakeCount, TakeUsers, TakeEntries, GiveUp, Take
  <1>2. ASSUME NEW m \in Joiners, MemberProcess(m) PROVE UNCHANGED workVars
      BY <1>2 DEF MemberProcess, Redirect, AddNotice, RemoveFromList, PrintOther, Process
  <1>3. ASSUME NEW m \in Joiners, Ask(m) \/ MemberSend(m) \/ MemberReceive(m) PROVE UNCHANGED workVars
      BY <1>3 DEF Ask, MemberSend, MemberReceive
  <1>4. ASSUME NEW p \in Proc, Type(p) \/ EndInput(p) \/ PushLeave(p) \/ TestDead(p) PROVE UNCHANGED workVars
      BY <1>4 DEF Type, EndInput, PushLeave, TestDead
  <1>5. CASE SeqSend \/ SeqReceive
      BY <1>5 DEF SeqSend, SeqReceive
  <1>6. CASE UNCHANGED Others
      BY <1>6 DEF Others
  <1> HIDE DEF workVars
  <1>. QED  BY OthersStay, <1>1, <1>2, <1>3, <1>4, <1>5, <1>6 DEF Next, SeqProcess

LEMMA ByeStep ==
  ASSUME Base, ~crossed', [Next]_vars, NEW m \in Joiners
  PROVE  bye[m] = "sent" => bye'[m] = "sent"
  <1>t. m \in Proc /\ bye \in [Proc -> {"no", "dead", "pushed", "sent"}]
      BY Kinds1 DEF Base, Scalars
  <1>1. CASE Quiet
      BY <1>1 DEF Quiet
  <1>2. CASE SeqReceive
      BY <1>2 DEF SeqReceive
  <1>3. CASE \E k \in Keys : ServeJoin(k) \/ ServeLeave(k) \/ ServeLine(k)
      BY <1>3 DEF ServeJoin, ServeLeave, ServeLine, Serve
  <1>4. ASSUME NEW p \in Joiners, Type(p) \/ EndInput(p) \/ PushLeave(p)
        PROVE  bye[m] = "sent" => bye'[m] = "sent"
      BY <1>4, <1>t DEF Type, EndInput, PushLeave
  <1>5. ASSUME NEW p \in Joiners, MemberSend(p) PROVE bye[m] = "sent" => bye'[m] = "sent"
      BY <1>5, <1>t, MemberSendDoes, Kinds1, PopSentBase
  <1>. QED  BY <1>1, <1>2, <1>3, <1>4, <1>5, SeqSide

LEMMA AuthorParts ==
  ASSUME NEW s \in Seq(Sane), NEW m
  PROVE  /\ ~Author(<< >>, m)
         /\ \A e \in Sane : Author(Append(s, e), m) => Author(s, m) \/ OfAuthor(e, m)
         /\ s # << >> => /\ Author(Tail(s), m) => Author(s, m)
                         /\ OfAuthor(Head(s), m) => Author(s, m)
  <1>1. ASSUME NEW e \in Sane PROVE Author(Append(s, e), m) => Author(s, m) \/ OfAuthor(e, m)
      BY Appended DEF Adds, Grown, Author
  <1>2. ASSUME s # << >> PROVE /\ Author(Tail(s), m) => Author(s, m)
                               /\ OfAuthor(Head(s), m) => Author(s, m)
      BY <1>2, TailOf DEF Author
  <1>. QED  BY <1>1, <1>2 DEF Author

(* Lines and LEAVEs reach the sequencer from their author only. *)
LEMMA WayStep ==
  ASSUME Base, ~crossed', [Next]_vars, NEW m \in Joiners, OnItsWay(m)'
  PROVE  \/ OnItsWay(m)
         \/ /\ stage[m] = "in" /\ leaderAddress[m] = S /\ sendQueue[m] # << >>
            /\ UNCHANGED <<memberList, pending>>
  <1>w. (OnItsWay(m))' <=> Author(fairQMap'[lineKey[m]], m) \/ Author(box'[S], m)
      BY KeysStay DEF OnItsWay, Author
  <1>q. /\ box[S] \in Seq(Sane) /\ lineKey[m] \in Keys /\ fairQMap[lineKey[m]] \in Seq(Sane)
        /\ Requests \subseteq Sane /\ \A k \in Keys : fairQMap[k] \in Seq(Sane)
      BY PathRow, Kinds1 DEF Base, Origins
  <1>n. ~Author(<< >>, m)
      BY DEF Author
  <1>1. CASE Quiet
    <2>1. Author(box'[S], m) => Author(box[S], m)
      <3>1. CASE \E e \in Requests : e.kind = "JOIN" /\ box'[S] = Append(box[S], e)
          BY <3>1, <1>q, AuthorParts DEF OfAuthor
      <3>. QED  BY <1>1, <1>n, <3>1 DEF Quiet
    <2>. QED  BY <1>w, <2>1, <1>1 DEF OnItsWay, Quiet
  <1>2. CASE SeqReceive
    <2>1. PICK d \in Requests :
            /\ d = Head(box[S]) /\ Key(d) \in Keys /\ box[S] # << >>
            /\ fairQMap'[Key(d)] = Append(fairQMap[Key(d)], d)
            /\ \A k \in Keys : k # Key(d) => fairQMap'[k] = fairQMap[k]
            /\ box'[S] = Tail(box[S])
        BY <1>2, SeqReceiveDoes
    <2>2. Author(fairQMap'[lineKey[m]], m) => Author(fairQMap[lineKey[m]], m) \/ Author(box[S], m)
      <3>1. CASE Key(d) = lineKey[m]
        <4>1. Author(Append(fairQMap[lineKey[m]], d), m) => Author(fairQMap[lineKey[m]], m) \/ OfAuthor(d, m)
            BY <1>q, AuthorParts
        <4>. QED  BY <2>1, <3>1, <4>1, <1>q, AuthorParts
      <3>2. CASE Key(d) # lineKey[m]
          BY <1>q, <2>1, <3>2
      <3>. QED  BY <3>1, <3>2
    <2>. QED  BY <1>w, <2>2, <1>q, <2>1, AuthorParts DEF OnItsWay
  <1>3. CASE \E k \in Keys : ServeJoin(k) \/ ServeLeave(k) \/ ServeLine(k)
    <2>1. PICK k \in Keys : ServeJoin(k) \/ ServeLeave(k) \/ ServeLine(k)
        BY <1>3
    <2>2. /\ fairQMap[k] # << >> /\ fairQMap'[k] = Tail(fairQMap[k])
          /\ \A l \in Keys : l # k => fairQMap'[l] = fairQMap[l]
          /\ box'[S] = box[S] \/ box'[S] = << >>
        BY <2>1, ServeDone
    <2>. QED  BY <1>w, <1>q, <2>2, <1>n, AuthorParts DEF OnItsWay
  <1>4. ASSUME NEW p \in Joiners, Type(p) \/ EndInput(p) \/ PushLeave(p) PROVE OnItsWay(m)
      BY <1>4, <1>w DEF Type, EndInput, PushLeave, OnItsWay
  <1>5. ASSUME NEW p \in Joiners, MemberSend(p)
        PROVE  \/ OnItsWay(m)
               \/ /\ stage[m] = "in" /\ leaderAddress[m] = S /\ sendQueue[m] # << >>
                  /\ UNCHANGED <<memberList, pending>>
    <2> DEFINE e == Head(sendQueue[p])
    <2>1. /\ UNCHANGED <<fairQMap, memberList, pending>> /\ e \in Own(p) /\ e \in Sane
          /\ box'[S] = box[S] \/ box'[S] = Append(box[S], e)
          /\ stage[p] = "in" /\ sendQueue[p] # << >> /\ crossed' = (crossed \/ leaderAddress[p] # S)
        BY <1>5, Kinds1, MemberSendDoes
    <2>2. OfAuthor(e, m) => p = m
        BY <2>1 DEF Own, OfAuthor
    <2> HIDE DEF e
    <2>. QED  BY <1>w, <2>1, <2>2, <1>q, AuthorParts DEF OnItsWay
  <1>. QED  BY <1>1, <1>2, <1>3, <1>4, <1>5, SeqSide

(* What a step does to the lists. *)
ListsStep ==
  \/ UNCHANGED <<userList, memberList, pending>> /\ burst'.to \in {burst.to, Nobody}
  \/ \E j \in Joiners : /\ \E k \in Keys : ServeJoin(k)
                        /\ theirAddress = j /\ pending = Nobody /\ pending' = j
                        /\ UNCHANGED <<userList, memberList, burst>>
  \/ /\ Multicast /\ pending \in Joiners /\ theirAddress = pending /\ pending' = Nobody
     /\ pending \notin Range(memberList)
     /\ memberList' = Append(memberList, pending) /\ userList' = memberList'
     /\ burst'.to = pending /\ burst'.left = Welcome(memberList')
     /\ burst.to = Nobody
  \/ \E j \in Joiners :
       /\ \E k \in Keys : ServeLeave(k)
       /\ shift.of = j /\ pending = Nobody /\ burst.to = Nobody
       /\ UNCHANGED <<pending, burst, stage, typed, bye, relayed, sendQueue>>
       /\ j \in Range(memberList) /\ memberList' = RemoveFirst(memberList, j) /\ userList' = memberList'
       /\ bye[j] = "sent" /\ ~OnItsWay(j)'

(* Whoever a LEAVE at the head of a queue is of has said it.                *)
LEMMA LeaveHead ==
  ASSUME Base, Paths, NEW k \in Keys, fairQMap[k] # << >>, Head(fairQMap[k]).kind = "LEAVE"
  PROVE  Head(fairQMap[k]).who \in Joiners /\ bye[Head(fairQMap[k]).who] = "sent"
  <1> DEFINE s == fairQMap[k]
             d == Head(s)
             j == d.who
  <1>1. s \in Seq(Sane) /\ 1 \in DOMAIN s /\ s[1] = d /\ d \in KeptAt(k, lineKey)
      BY TailOf DEF Base, Origins
  <1>2. j \in Joiners /\ k = lineKey[j] /\ OfAuthor(d, j) /\ d.kind = "LEAVE"
    <2>1. d \in Sane
        BY <1>1, TailOf
    <2>. QED  BY <1>1, <2>1 DEF KeptAt, OfAuthor, Sane
  <1>3. PathOK(Path(j), j, typed[j], bye[j]) /\ Path(j)[2] = s
      BY <1>2, PathRow DEF Paths
  <1> HIDE DEF j, s, d
  <1>. QED  BY <1>1, <1>2, <1>3 DEF Numbered, PathOK, s, d, j

LEMMA ServeLeaveCalm ==
  ASSUME Base, Paths, Rolls, ~crossed', NEW k \in Keys, ServeLeave(k)
  PROVE  \E j \in Joiners :
           /\ shift.of = j /\ pending = Nobody /\ burst.to = Nobody
           /\ UNCHANGED <<pending, burst, stage, typed, bye, relayed, sendQueue>>
           /\ j \in Range(memberList) /\ memberList' = RemoveFirst(memberList, j) /\ userList' = memberList'
           /\ beyond' = << >> /\ shift' = NoShift
           /\ bye[j] = "sent" /\ ~OnItsWay(j)'
  <1>1. PICK d \in Range(fairQMap[k]) :
          /\ Serve(k, d) /\ d.kind = "LEAVE"
          /\ userList' = Shifted(userList, shift.of)
          /\ beyond' = LeftBeyond(userList, shift.of) /\ shift' = NoShift
          /\ crossed' = (crossed \/ shift.of # d.who)
          /\ \/ /\ shift.of \in Range(memberList)
                /\ memberList' = RemoveFirst(memberList, shift.of)
                /\ \A p \in Proc : box'[p] =
                     IF p \in Range(userList') /\ Up(p)
                     THEN Append(box[p], Datagram("LEFT", shift.of, 0, S)) ELSE box[p]
                /\ UNCHANGED stage
             \/ shift.of \notin Range(memberList)
          /\ userList' \in Seq(Joiners)
          /\ UNCHANGED <<pending, relayed>>
      BY ServeLeaveDoes
  <1>2. /\ d \in KeptAt(k, lineKey) /\ d \in Sane /\ (d.kind # "REDIRECT" => d.who \in Joiners)
        /\ fairQMap[k] # << >> /\ d = Head(fairQMap[k])
        /\ fairQMap'[k] = Tail(fairQMap[k])
        /\ pending = Nobody /\ burst.to = Nobody
        /\ UNCHANGED <<typeVars, burst, joinVars>>
      BY <1>1, ServeDoes
  <1> DEFINE j == d.who
             s == fairQMap[k]
  <1>3. shift.of = j /\ j \in Joiners /\ k = lineKey[j] /\ OfAuthor(d, j)
      BY <1>1, <1>2 DEF KeptAt, OfAuthor
  <1>4. s \in Seq(Sane) /\ 1 \in DOMAIN s /\ s[1] = d
      BY <1>2 DEF Base, Origins
  <1>5. bye[j] = "sent" /\ Listed(j)
    <2>1. bye[j] = "sent"
        BY <1>1, <1>2, LeaveHead
    <2>2. OnItsWay(j)
        BY <1>3, <1>4, SMTT(30) DEF OnItsWay, Author
    <2>. QED  BY <1>3, <2>1, <2>2 DEF Rolls
  <1>6. j \in Range(memberList)
      BY <1>2, <1>3, <1>5, Kinds1, ZenonT(30) DEF Listed
  <1>7. box'[S] = box[S]
      BY <1>1, <1>3, <1>6, InRange, Kinds1, SMTT(30)
  <1>8. ~OnItsWay(j)'
    <2>1. InOrder(Path(j), InTurn(j)) /\ Path(j)[2] = s /\ Path(j)[3] = box[S] /\ DOMAIN Path(j) = 1 .. 4
        BY <1>3, PathRow DEF Paths, PathOK
    <2>2. \A e : <<d, e>> \in InTurn(j) => ~OfAuthor(e, j)
        BY <1>1, <1>3 DEF InTurn
    <2>3. ~Author(box[S], j)
      <3>1. \A i \in DOMAIN box[S] : <<s[1], box[S][i]>> \in InTurn(j)
          BY <1>4, <2>1 DEF InOrder
      <3>. QED  BY <1>4, <2>2, <3>1 DEF Author
    <2>4. ~Author(Tail(s), j)
      <3> HIDE DEF s
      <3>1. \A i \in DOMAIN Tail(s) : i + 1 \in DOMAIN s /\ Tail(s)[i] = s[i + 1] /\ 1 < i + 1
          BY <1>2, <1>4, TailOf
      <3>2. \A i \in DOMAIN Tail(s) : <<s[1], Tail(s)[i]>> \in InTurn(j)
          BY <1>4, <2>1, <3>1 DEF InOrder
      <3>. QED  BY <1>4, <2>2, <3>2 DEF Author
    <2>. QED  BY <1>2, <1>3, <1>7, <2>3, <2>4, ZenonT(30) DEF OnItsWay, Author
  <1> HIDE DEF j
  <1>9. beyond' = << >> /\ userList' = RemoveFirst(memberList, j)
      BY <1>1, <1>3, <1>6 DEF Rolls, Removal, LeftBeyond, Shifted
  <1>. QED  BY <1>1, <1>2, <1>3, <1>5, <1>6, <1>8, <1>9

LEMMA NextLists ==
  ASSUME Base, Base', Paths, Rolls, ~crossed', [Next]_vars
  PROVE  ListsStep
  <1>1. CASE UNCHANGED workVars
      BY <1>1 DEF ListsStep
  <1>2. CASE Welcoming
      BY <1>2, WelcomingDoes DEF ListsStep
  <1>3. CASE Multicast
    <2>1. /\ pending \in Joiners /\ burst.left = << >>
          /\ \/ theirAddress \notin Range(userList) /\ userList' = Append(userList, theirAddress)
             \/ theirAddress \in Range(userList)
          /\ memberList' = Append(memberList, pending)
          /\ burst' = [to |-> theirAddress, left |-> Welcome(memberList')]
          /\ pending' = Nobody
          /\ crossed' = (crossed \/ theirAddress # pending)
        BY <1>3, MulticastDoes
    <2>. QED  BY <1>3, <2>1 DEF ListsStep, Rolls, New, Base, Serving
  <1>4. ASSUME NEW k \in Keys, ServeJoin(k) PROVE ListsStep
    <2>1. PICK d \in Requests :
            /\ d.kind = "JOIN" /\ d.who \in Joiners
            /\ pending = Nobody /\ theirAddress = d.who /\ pending' = d.who
            /\ UNCHANGED <<userList, memberList, burst>>
      <3>1. pending' \in Joiners
          BY <1>4, ServeDoes DEF ServeJoin
      <3>. QED  BY <1>4, <3>1, ServeDone, Kinds1
    <2>. QED  BY <1>4, <2>1 DEF ListsStep
  <1>5. ASSUME NEW k \in Keys, ServeLine(k) PROVE ListsStep
      BY <1>5, ServeLineDoes, ServeDoes DEF ListsStep
  <1>6. ASSUME NEW k \in Keys, ServeLeave(k) PROVE ListsStep
      BY <1>6, ServeLeaveCalm DEF ListsStep
  <1>. QED  BY <1>1, <1>2, <1>3, <1>4, <1>5, <1>6, WorkStep

LEMMA ShiftStep ==
  ASSUME [Next]_vars
  PROVE  \/ UNCHANGED shift
         \/ ShiftEntry \/ \E k \in Keys : StartLeave(k) \/ ServeLeave(k)
  <1>1. ASSUME NEW m \in Joiners, ConnectChat(m) PROVE UNCHANGED shift
      BY <1>1 DEF ConnectChat, TakeReply, TakeRedirect, TakeCount, TakeUsers, TakeEntries, GiveUp, Take
  <1>2. ASSUME NEW m \in Joiners, MemberProcess(m) PROVE UNCHANGED shift
      BY <1>2 DEF MemberProcess, Redirect, AddNotice, RemoveFromList, PrintOther, Process
  <1>3. ASSUME NEW m \in Joiners, Ask(m) \/ MemberSend(m) \/ MemberReceive(m) PROVE UNCHANGED shift
      BY <1>3 DEF Ask, MemberSend, MemberReceive
  <1>4. ASSUME NEW p \in Proc, Type(p) \/ EndInput(p) \/ PushLeave(p) \/ TestDead(p) PROVE UNCHANGED shift
      BY <1>4 DEF Type, EndInput, PushLeave, TestDead
  <1>5. ASSUME NEW k \in Keys, ServeJoin(k) \/ ServeLine(k) PROVE UNCHANGED shift
      BY <1>5 DEF ServeJoin, ServeLine
  <1>6. CASE SeqSend \/ SeqReceive \/ Multicast \/ Welcoming
      BY <1>6 DEF SeqSend, SeqReceive, Multicast, Welcoming
  <1>7. CASE UNCHANGED vars
      BY <1>7 DEF vars
  <1>. QED  BY <1>1, <1>2, <1>3, <1>4, <1>5, <1>6, <1>7 DEF Next, SeqProcess

LEMMA SomeoneStep ==
  ASSUME Base, ~crossed', [Next]_vars, SomeoneLeft
  PROVE  SomeoneLeft'
  BY ByeStep DEF SomeoneLeft

LEMMA NextRemoval ==
  ASSUME Base, Paths, Rolls, ~crossed', [Next]_vars
  PROVE  Removal'
  <1>r. beyond = << >> /\ IF shift.key = Nobody THEN shift.at = 0 ELSE SomeoneLeft
      BY DEF Rolls, Removal
  <1>1. beyond' = << >>
    <2>1. CASE Multicast
        BY <2>1, <1>r, MulticastDoes
    <2>2. ASSUME NEW k \in Keys, ServeLeave(k) PROVE beyond' = << >>
        BY <2>2, ServeLeaveCalm
    <2>3. ASSUME NEW k \in Keys, ServeJoin(k) \/ ServeLine(k) PROVE beyond' = beyond
        BY <2>3 DEF ServeJoin, ServeLine
    <2>4. CASE Welcoming
        BY <2>4, <1>r DEF Welcoming
    <2>. QED  BY <1>r, <2>1, <2>2, <2>3, <2>4, WorkStep
  <1>2. IF shift'.key = Nobody THEN shift'.at = 0 ELSE SomeoneLeft'
    <2>1. CASE UNCHANGED shift
        BY <2>1, <1>r, SomeoneStep
    <2>2. CASE ShiftEntry
        BY <2>2, <1>r, SomeoneStep DEF ShiftEntry, Base, Scalars, Shifts
    <2>3. ASSUME NEW k \in Keys, StartLeave(k) PROVE SomeoneLeft'
        BY <2>3, LeaveHead, SomeoneStep DEF StartLeave, SomeoneLeft
    <2>4. ASSUME NEW k \in Keys, StartLeave(k) PROVE shift'.key = k /\ k # Nobody
        BY <2>4, QueueChatAssumption DEF StartLeave, Keys
    <2>5. ASSUME NEW k \in Keys, ServeLeave(k) PROVE shift'.at = 0 /\ shift'.key = Nobody
        BY <2>5, ServeLeaveCalm DEF NoShift
    <2>. QED  BY <2>1, <2>2, <2>3, <2>4, <2>5, ShiftStep
  <1>. QED  BY <1>1, <1>2 DEF Removal

(* An entry sendMessage looks at holds itself or the next, which it does   *)
(* only in the middle of a removal.                                        *)
LEMMA WalkedCalm ==
  ASSUME Base, Rolls, NEW i \in 1 .. Len(userList)
  PROVE  \/ Walked(i) = userList[i]
         \/ /\ SomeoneLeft
            /\ Walked(i) = Nobody \/ (i + 1 \in 1 .. Len(userList) /\ Walked(i) = userList[i + 1])
  <1>1. /\ userList \in Seq(Joiners) /\ shift.at \in Nat /\ beyond = << >>
        /\ IF shift.key = Nobody THEN shift.at = 0 ELSE SomeoneLeft
      BY DEF Base, Lists, Scalars, Shifts, Rolls, Removal
  <1>2. /\ Append(beyond, Nobody) = <<Nobody>> /\ Len(userList) \in Nat
        /\ userList \in Seq(Joiners \cup {Nobody}) /\ <<Nobody>> \in Seq(Joiners \cup {Nobody})
      BY <1>1, Wider
  <1>3. /\ i + 1 \in 1 .. Len(userList) => (userList \o <<Nobody>>)[i + 1] = userList[i + 1]
        /\ i + 1 \notin 1 .. Len(userList) => (userList \o <<Nobody>>)[i + 1] = Nobody
    <2>1. CASE i + 1 \in 1 .. Len(userList)
        BY <1>2, <2>1, ConcatProperties
    <2>2. CASE i + 1 \notin 1 .. Len(userList)
      <3>1. i + 1 = Len(userList) + 1 /\ Len(userList) + 1 \in 1 .. Len(userList) + Len(<<Nobody>>)
          BY <1>2, <2>2
      <3>. QED  BY <1>2, <2>2, <3>1, ConcatProperties
    <2>. QED  BY <2>1, <2>2
  <1>4. i <= shift.at => SomeoneLeft
      BY <1>1
  <1>. QED  BY <1>2, <1>3, <1>4 DEF Walked

LEMMA WalkedListed ==
  ASSUME Base, Rolls, NEW i \in 1 .. Len(userList), NEW m \in Joiners, Walked(i) = m
  PROVE  m \in Range(userList)
  BY WalkedCalm, InRange, Kinds1 DEF Base, Lists

LEMMA ServeJoinCalm ==
  ASSUME NEW k \in Keys, ServeJoin(k), ~crossed'
  PROVE  pending' = theirAddress
  BY DEF ServeJoin, SendTo

(* Nobody becomes new again, and nobody is new once the others are told.   *)
LEMMA NewStep ==
  ASSUME Base, Base', NoRedirects, ~crossed', [Next]_vars, NEW m \in Joiners, TicketsOf(m), New(m)'
  PROVE  New(m) /\ (pending = m => pending' = m)
  <1>. QED
      BY TicketStep, AtRow, NextTicketsOf DEF New, TicketDoes, PlaceRow, NoTicket, TicketsOf,
         Places, IsTicket

LEMMA OneList ==
  ASSUME Base, Rolls
  PROVE  /\ memberList \in Seq(Joiners) /\ IsInjective(memberList)
         /\ \A j \in Range(memberList) : Range(RemoveFirst(memberList, j)) = Range(memberList) \ {j}
         /\ \A j \in Joiners : Range(Append(memberList, j)) = Range(memberList) \cup {j}
  <1>. QED  BY LeftOver, RangeAppend DEF Base, Lists, Rolls

LEMMA ListedStep ==
  ASSUME Base, Rolls, ListsStep, NEW m \in Joiners, Listed(m)
  PROVE  Listed(m)' \/ (bye[m] = "sent" /\ ~OnItsWay(m)')
  <1>1. CASE UNCHANGED <<userList, memberList, pending>>
      BY <1>1 DEF Listed, Range
  <1>2. CASE \E j \in Joiners : pending = Nobody /\ pending' = j /\ UNCHANGED <<userList, memberList, burst>>
      BY <1>2, Kinds1 DEF Listed, Range
  <1>3. CASE /\ pending \in Joiners /\ memberList' = Append(memberList, pending)
      BY <1>3, OneList DEF Listed, Range
  <1>4. CASE \E j \in Joiners :
               /\ pending = Nobody /\ UNCHANGED pending
               /\ j \in Range(memberList) /\ memberList' = RemoveFirst(memberList, j)
               /\ bye[j] = "sent" /\ ~OnItsWay(j)'
    <2>1. PICK j \in Joiners :
               /\ pending = Nobody /\ UNCHANGED pending
               /\ j \in Range(memberList) /\ memberList' = RemoveFirst(memberList, j)
               /\ bye[j] = "sent" /\ ~OnItsWay(j)'
        BY <1>4
    <2>2. Range(memberList') = Range(memberList) \ {j}
        BY <2>1, OneList
    <2>3. CASE m = j
        BY <2>3, <2>1
    <2>4. CASE m # j
        BY <2>1, <2>2, <2>4, Kinds1 DEF Listed, Range
    <2>. QED  BY <2>3, <2>4
  <1>. QED  BY <1>1, <1>2, <1>3, <1>4 DEF ListsStep

(* leaderAddress[m] is S by a datagram of the sequencer.                    *)
LEMMA LeaderStep ==
  ASSUME Base, [Next]_vars, NEW m \in Joiners,
         stage'[m] \notin {"out", "reply", "gone"}, leaderAddress'[m] = S
  PROVE  FromSeq(m) \/ (stage[m] \notin {"out", "reply", "gone"} /\ leaderAddress[m] = S)
  <1>s. m \in Proc /\ m # S /\ Joiners \subseteq Proc
      BY Kinds1
  <1>r. /\ Pipe(m)[3] = box[m] /\ box[m] \in Seq(Sane) /\ 3 \in 1 .. 3
      BY PipeRow
  <1>i. \A i \in DOMAIN box[m] : box[m][i].from = S => FromSeq(m)
      BY <1>r DEF FromSeq, InRow
  <1>t. stage \in [Proc -> {"out", "in", "gone"} \cup Joining]
      BY DEF Base, Scalars
  <1>1. ASSUME UNCHANGED <<stage, leaderAddress>> PROVE stage[m] \notin {"out", "reply", "gone"} /\ leaderAddress[m] = S
      BY <1>1
  <1>2. CASE SeqSend \/ SeqReceive \/ Multicast \/ Welcoming
      BY <1>2 DEF SeqSend, SeqReceive, Multicast, Welcoming
  <1>3. ASSUME NEW k \in Keys, ServeJoin(k) \/ ServeLeave(k) \/ ServeLine(k)
        PROVE  leaderAddress' = leaderAddress /\ stage'[m] = stage[m]
      BY <1>3, <1>s, <1>t DEF ServeJoin, ServeLeave, ServeLine, Serve
  <1>4. ASSUME NEW p \in Proc, Type(p) \/ EndInput(p) \/ PushLeave(p)
        PROVE  UNCHANGED <<stage, leaderAddress>>
      BY <1>4 DEF Type, EndInput, PushLeave
  <1>5. ASSUME NEW p \in Proc, TestDead(p) PROVE leaderAddress' = leaderAddress /\ stage'[m] = stage[m]
      BY <1>5, <1>s, <1>t DEF TestDead
  <1>6. ASSUME NEW p \in Joiners, Ask(p) PROVE leaderAddress' = leaderAddress /\ stage'[m] = stage[m]
      BY <1>6, <1>s, AskDoes
  <1>7. ASSUME NEW p \in Joiners, GiveUp(p) PROVE leaderAddress' = leaderAddress /\ stage'[m] = stage[m]
      BY <1>7, <1>s, GiveUpDoes
  <1>8. ASSUME NEW p \in Joiners, TakeRedirect(p) PROVE leaderAddress'[m] = leaderAddress[m] /\ stage'[m] = stage[m]
      BY <1>8, <1>s, TakeRedirectDoes
  <1>9. ASSUME NEW p \in Joiners, NEW at \in Joining, NEW to \in {"in"} \cup Joining,
               NEW n \in Nat \ {0}, NEW E, Take(p, at, to, n, E)
        PROVE  FromSeq(m) \/ (leaderAddress'[m] = leaderAddress[m] /\ stage'[m] = stage[m])
      BY <1>s, <1>i, <1>r, <1>9, TakeDoes
  <1>10. ASSUME NEW p \in Joiners, TakeReply(p) \/ TakeCount(p) \/ TakeUsers(p) \/ TakeEntries(p)
         PROVE  FromSeq(m) \/ (leaderAddress'[m] = leaderAddress[m] /\ stage'[m] = stage[m])
    <2>1. CASE TakeReply(p)
        BY <2>1, <1>9, TakeReplyDoes DEF Joining
    <2>2. CASE TakeCount(p)
        BY <2>2, <1>9, TakeCountDoes DEF Joining
    <2>3. CASE TakeUsers(p)
        BY <1>9, <2>3, TakeUsersDoes DEF Joining
    <2>4. CASE TakeEntries(p)
        BY <1>9, <2>4, TakeEntriesDoes DEF Joining
    <2>. QED  BY <1>10, <2>1, <2>2, <2>3, <2>4
  <1>11. ASSUME NEW p \in Joiners, MemberSend(p) PROVE UNCHANGED <<stage, leaderAddress>>
      BY <1>11, MemberSendDoes
  <1>12. ASSUME NEW p \in Joiners, MemberReceive(p)
         PROVE  FromSeq(m) \/ (leaderAddress'[m] = leaderAddress[m] /\ stage'[m] = stage[m])
    <2>1. CASE p = m
      <3>1. /\ box[m] # << >> /\ leaderAddress'[m] = Head(box[m]).from
            /\ Head(box[m]) = box[m][1] /\ 1 \in DOMAIN box[m]
          BY <1>12, <1>r, <2>1, MemberReceiveDoes
      <3>. QED  BY <1>i, <3>1
    <2>2. CASE p # m
        BY <1>12, <2>2, MemberReceiveDoes
    <2>. QED  BY <2>1, <2>2
  <1>13. ASSUME NEW p \in Joiners, MemberProcess(p)
         PROVE  leaderAddress'[m] = leaderAddress[m] /\ (stage'[m] = stage[m] \/ stage'[m] = "gone")
      BY <1>13, <1>s, <1>t DEF MemberProcess, Redirect, AddNotice, RemoveFromList, PrintOther,
         Process
  <1>14. CASE UNCHANGED Others
      BY <1>14 DEF Others
  <1>. QED  BY OthersStay, <1>1, <1>2, <1>3, <1>4, <1>5, <1>6, <1>7, <1>8, <1>10, <1>11, <1>12,
               <1>13, <1>14
            DEF Next, SeqProcess, ConnectChat

(* The sequencer goes when it leaves, and not before.                       *)
LEMMA SeqStays ==
  ASSUME Base, Paths, Rolls, ~crossed', [Next]_vars
  PROVE  stage'[S] = "gone" => bye'[S] # "no"
  <1>s. S \in Proc /\ S \notin Joiners /\ Joiners \subseteq Proc /\ \A p \in Proc : p = S \/ p \in Joiners
      BY Kinds1
  <1>t. /\ bye \in [Proc -> {"no", "dead", "pushed", "sent"}]
        /\ stage \in [Proc -> {"out", "in", "gone"} \cup Joining]
        /\ stage[S] = "gone" => bye[S] # "no"
      BY DEF Base, Scalars, Rolls
  <1>p. ASSUME NEW p \in Proc, PopSent(p), sendQueue[p] # << >>
        PROVE  bye[S] # "no" => bye'[S] # "no"
      BY <1>p, <1>s, <1>t, PopSentBase
  <1>1. CASE SeqSend
      BY <1>1, <1>s, <1>t, <1>p DEF SeqSend
  <1>2. CASE SeqReceive \/ Multicast \/ Welcoming
      BY <1>2, <1>t DEF SeqReceive, Multicast, Welcoming
  <1>3. ASSUME NEW k \in Keys, ServeJoin(k) \/ ServeLine(k)
        PROVE  stage'[S] = "gone" => bye'[S] # "no"
      BY <1>3, <1>t DEF ServeJoin, ServeLine, Serve
  <1>4. ASSUME NEW k \in Keys, ServeLeave(k)
        PROVE  stage'[S] = "gone" => bye'[S] # "no"
      BY <1>4, <1>t, ServeLeaveCalm
  <1>5. ASSUME NEW p \in Proc, Type(p) \/ EndInput(p) \/ PushLeave(p)
        PROVE  stage'[S] = "gone" => bye'[S] # "no"
      BY <1>5, <1>s, <1>t DEF Type, EndInput, PushLeave
  <1>6. ASSUME NEW p \in Proc, TestDead(p)
        PROVE  stage'[S] = "gone" => bye'[S] # "no"
      BY <1>6, <1>s, <1>t DEF TestDead
  <1>7. ASSUME NEW p \in Joiners, Ask(p)
        PROVE  stage'[S] = "gone" => bye'[S] # "no"
      BY <1>7, <1>s, <1>t DEF Ask
  <1>8. ASSUME NEW p \in Joiners, ConnectChat(p)
        PROVE  stage'[S] = "gone" => bye'[S] # "no"
      BY <1>8, <1>s, <1>t DEF ConnectChat, TakeReply, TakeRedirect, TakeCount, TakeUsers, TakeEntries,
                              GiveUp, Take
  <1>9. ASSUME NEW p \in Joiners, MemberSend(p)
        PROVE  stage'[S] = "gone" => bye'[S] # "no"
      BY <1>9, <1>s, <1>t, <1>p, MemberSendDoes
  <1>10. ASSUME NEW p \in Joiners, MemberReceive(p)
        PROVE  stage'[S] = "gone" => bye'[S] # "no"
      BY <1>10, <1>t DEF MemberReceive
  <1>11. ASSUME NEW p \in Joiners, MemberProcess(p)
        PROVE  stage'[S] = "gone" => bye'[S] # "no"
      BY <1>11, <1>s, <1>t DEF MemberProcess, Redirect, AddNotice, RemoveFromList, PrintOther,
         Process
  <1>12. CASE UNCHANGED Others
      BY <1>12, <1>t DEF Others
  <1>. QED  BY OthersStay, <1>1, <1>2, <1>3, <1>4, <1>5, <1>6, <1>7, <1>8, <1>9, <1>10, <1>11, <1>12
            DEF Next, SeqProcess

(* Whoever a datagram of the sequencer is put into the buffer of is listed. *)
LEMMA BroughtListed ==
  ASSUME Base, Base', Rolls, ListsStep, ~crossed', NEW m \in Joiners, NEW w \in Seq(Sane), Brings(m, w),
         NEW i \in DOMAIN w, w[i].from = S
  PROVE  Listed(m)'
  <1>l. (Listed(m))' <=> pending' = m \/ m \in Range(memberList')
      BY DEF Listed, Range
  <1>u. userList = memberList
      BY DEF Rolls
  <1>g. m \in Range(memberList) /\ UNCHANGED memberList => Listed(m)'
      BY <1>l
  <1>1. CASE (\E k \in Keys : ServeLine(k)) /\ m \in Range(userList)
      BY <1>1, <1>u, <1>g DEF ServeLine
  <1>2. CASE SeqSend /\ sendAt \in 1 .. Len(userList) /\ Walked(sendAt) = m
      BY <1>2, <1>u, <1>g, WalkedListed DEF SeqSend
  <1>3. CASE Multicast /\ m \in Range(userList)
      BY <1>3, <1>l, <1>u, MulticastDoes, OneList
  <1>4. CASE Welcoming /\ burst.to = m
      BY <1>4, <1>g, Kinds1 DEF Welcoming, Rolls
  <1>5. CASE (\E k \in Keys : ServeJoin(k)) /\ theirAddress = m
      BY <1>5, <1>l, ServeJoinCalm
  <1>6. CASE (\E k \in Keys : ServeLeave(k)) /\ m \in Range(userList')
      BY <1>u, <1>6, <1>l DEF ListsStep
  <1>7. CASE \E e \in Requests : w = <<e>>
      BY <1>7, OneOnly, Kinds1 DEF Requests
  <1>. QED  BY <1>1, <1>2, <1>3, <1>4, <1>5, <1>6, <1>7 DEF Brings

LEMMA NextRolls ==
  ASSUME Base, Base', Paths, NoRedirects, Rolls, \A m \in Joiners : TicketsOf(m), ~crossed', [Next]_vars
  PROVE  Rolls'
  <1>l. ListsStep
      BY NextLists
  <1>1. ASSUME NEW m \in Joiners
        PROVE  /\ (New(m))' => m \notin Range(memberList')
               /\ bye'[m] # "sent" /\ (FromSeq(m))' => (Listed(m))'
               /\ bye'[m] # "sent" /\ stage'[m] \notin {"out", "reply", "gone"} /\ leaderAddress'[m] = S
                    => (Listed(m))'
               /\ (OnItsWay(m))' => (Listed(m))'
    <2>l. (Listed(m))' <=> pending' = m \/ m \in Range(memberList')
        BY DEF Listed, Range
    <2>s. Listed(m) => (Listed(m))' \/ (bye[m] = "sent" /\ ~(OnItsWay(m))')
        BY <1>l, ListedStep
    <2>b. bye[m] = "sent" => bye'[m] = "sent"
        BY ByeStep
    <2>1. ASSUME (New(m))' PROVE m \notin Range(memberList')
      <3>1. New(m) /\ (pending = m => pending' = m) /\ m # Nobody
          BY <2>1, NewStep, Kinds1
      <3>2. m \notin Range(memberList)
          BY <3>1 DEF Rolls
      <3>3. CASE UNCHANGED memberList
          BY <3>2, <3>3
      <3>4. CASE pending \in Joiners /\ pending' = Nobody /\ memberList' = Append(memberList, pending)
          BY <3>1, <3>4, <3>2, OneList
      <3>5. CASE \E j \in Joiners : j \in Range(memberList) /\ memberList' = RemoveFirst(memberList, j)
          BY <3>2, <3>5, OneList
      <3>. QED  BY <1>l, <3>3, <3>4, <3>5 DEF ListsStep
    <2>2. ASSUME bye'[m] # "sent", (FromSeq(m))' PROVE (Listed(m))'
      <3> DEFINE c == Pipe(m)
                 d == Pipe(m)'
      <3>1. PICK x : InRow(d, x) /\ x.from = S
          BY <2>2 DEF FromSeq, InRow, Pipe
      <3>2. PICK w \in Seq(Sane) : Changes(c, d, w, Keep(m)) /\ (w = << >> \/ Brings(m, w))
          BY PipeStep DEF PipeChanges
      <3>3. InRow(c, x) => FromSeq(m)
          BY <3>1 DEF FromSeq
      <3> HIDE DEF c, d
      <3>4. FromSeq(m) => (Listed(m))'
          BY <2>2, <2>b, <2>s DEF Rolls
      <3>. QED  BY <3>3, <3>4, <1>l, <3>1, <3>2, BroughtListed, ChangesIn
    <2>3. ASSUME bye'[m] # "sent", stage'[m] \notin {"out", "reply", "gone"}, leaderAddress'[m] = S
          PROVE  (Listed(m))'
        BY <2>3, <2>b, <2>s, LeaderStep DEF Rolls
    <2>4. ASSUME (OnItsWay(m))' PROVE (Listed(m))'
      <3>1. CASE OnItsWay(m)
          BY <3>1, <2>4, <2>s DEF Rolls
      <3>2. CASE /\ stage[m] = "in" /\ leaderAddress[m] = S /\ sendQueue[m] # << >>
                 /\ UNCHANGED <<memberList, pending>>
          BY <3>2, <2>l, PathRow DEF Paths, PathOK, Rolls, Listed
      <3>. QED  BY <3>1, <3>2, <2>4, WayStep
    <2>. QED  BY <2>1, <2>2, <2>3, <2>4
  <1>2. Removal'
      BY NextRemoval
  <1>. QED  BY <1>1, <1>2, <1>l, OneList, SeqStays DEF Rolls, Range, ListsStep

-----------------------------------------------------------------------------
(***************************************************************************)
(* What becomes of the members' lines.                                     *)
(***************************************************************************)
Has(s, x) == \E i \in DOMAIN s : s[i] = x

Coming(m, n) ==
  LET x == Datagram("LINE", m, n, m)
  IN Has(fairQMap[lineKey[m]], x) \/ Has(box[S], x) \/ Has(sendQueue[m], x)

Due(m, n) == Coming(m, n) \/ LineBySeq(m, n) \in Range(relayed)

Accounted ==
  \A m \in Joiners : \A n \in 1 .. typed[m] :
    /\ stage[S] = "in" => Due(m, n)
    /\ bye[m] = "sent" /\ ~Listed(m) => LineBySeq(m, n) \in Range(relayed)

LEMMA HasParts ==
  ASSUME NEW s \in Seq(Sane), NEW x
  PROVE  /\ \A e \in Sane : Has(Append(s, e), x) <=> Has(s, x) \/ e = x
         /\ s # << >> => (Has(s, x) <=> Has(Tail(s), x) \/ Head(s) = x)
  <1>1. ASSUME NEW e \in Sane PROVE Has(Append(s, e), x) <=> Has(s, x) \/ e = x
      BY Appended DEF Adds, Grown, Has
  <1>2. ASSUME s # << >> PROVE Has(s, x) <=> Has(Tail(s), x) \/ Head(s) = x
    <2>1. /\ Head(s) = s[1] /\ 1 \in DOMAIN s
          /\ \A i \in DOMAIN Tail(s) : Tail(s)[i] = s[i + 1] /\ i + 1 \in DOMAIN s
          /\ \A i \in DOMAIN s : i = 1 \/ (i - 1 \in DOMAIN Tail(s) /\ Tail(s)[i - 1] = s[i])
        BY <1>2, TailOf
    <2>. QED  BY <2>1, ZenonT(30) DEF Has
  <1>. QED  BY <1>1, <1>2

LEMMA SeqWasUp ==
  ASSUME Base, [Next]_vars, stage'[S] = "in"
  PROVE  stage[S] = "in"
  <1>s. S \in Proc /\ S \notin Joiners /\ stage \in [Proc -> {"out", "in", "gone"} \cup Joining]
      BY Kinds1 DEF Base, Scalars
  <1>1. CASE SeqSend \/ SeqReceive \/ Multicast \/ Welcoming
      BY <1>1 DEF SeqSend, SeqReceive, Multicast, Welcoming
  <1>2. ASSUME NEW k \in Keys, ServeJoin(k) \/ ServeLeave(k) \/ ServeLine(k) PROVE stage[S] = "in"
      BY <1>2 DEF ServeJoin, ServeLeave, ServeLine, Serve
  <1>3. ASSUME NEW p \in Proc, Type(p) \/ EndInput(p) \/ PushLeave(p) \/ TestDead(p) PROVE stage[S] = "in"
      BY <1>3, <1>s DEF Type, EndInput, PushLeave, TestDead
  <1>4. ASSUME NEW p \in Joiners, Ask(p) \/ ConnectChat(p) PROVE stage[S] = "in"
      BY <1>4, <1>s DEF Ask, ConnectChat, TakeReply, TakeRedirect, TakeCount, TakeUsers, TakeEntries,
                        GiveUp, Take
  <1>5. ASSUME NEW p \in Joiners, MemberSend(p) \/ MemberReceive(p) PROVE stage[S] = "in"
      BY <1>5 DEF MemberSend, MemberReceive
  <1>6. ASSUME NEW p \in Joiners, MemberProcess(p) PROVE stage[S] = "in"
      BY <1>6, <1>s DEF MemberProcess, Redirect, AddNotice, RemoveFromList, PrintOther
  <1>7. CASE UNCHANGED Others
      BY <1>7 DEF Others
  <1>. QED  BY OthersStay, <1>1, <1>2, <1>3, <1>4, <1>5, <1>6, <1>7 DEF Next, SeqProcess

(* A line typed is on its way or relayed, as long as the sequencer is up.  *)
LEMMA DueStep ==
  ASSUME Base, Base', ~crossed', [Next]_vars, stage'[S] = "in",
         NEW m \in Joiners, NEW n \in 1 .. typed'[m], n \in 1 .. typed[m] => Due(m, n)
  PROVE  (Due(m, n))'
  <1> DEFINE x == Datagram("LINE", m, n, m)
             y == LineBySeq(m, n)
  <1>x. /\ x.kind = "LINE" /\ x.who = m /\ x.n = n /\ x.from = m
        /\ \A d \in Sane : d = x => [d EXCEPT !.from = S] = y
      BY DEF Datagram, LineBySeq
  <1>d. /\ Due(m, n) <=> Has(fairQMap[lineKey[m]], x) \/ Has(box[S], x) \/ Has(sendQueue[m], x) \/ y \in Range(relayed)
        /\ (Due(m, n))' <=> Has(fairQMap'[lineKey[m]], x) \/ Has(box'[S], x) \/ Has(sendQueue'[m], x)
                            \/ y \in Range(relayed')
      BY KeysStay DEF Due, Coming, Has, Range
  <1> HIDE DEF x, y
  <1>q. /\ box[S] \in Seq(Sane) /\ lineKey[m] \in Keys /\ fairQMap[lineKey[m]] \in Seq(Sane)
        /\ Requests \subseteq Sane /\ \A k \in Keys : fairQMap[k] \in Seq(Sane)
        /\ sendQueue[m] \in Seq(Sane) /\ relayed \in Seq(Sane) /\ typed[m] \in Nat
        /\ m \in Proc /\ S \in Proc /\ m # S
      BY PathRow, Kinds1 DEF Base, Origins, Scalars
  <1>u. stage[S] = "in"
      BY SeqWasUp
  <1>1. CASE Quiet
    <2>1. Has(box[S], x) => Has(box'[S], x)
      <3>1. CASE \E e \in Requests : box'[S] = Append(box[S], e)
          BY <3>1, <1>q, HasParts
      <3>. QED  BY <1>1, <3>1 DEF Quiet
    <2>. QED  BY <1>d, <2>1, <1>1 DEF Quiet
  <1>2. CASE SeqReceive
    <2>1. PICK d \in Requests :
            /\ d = Head(box[S]) /\ Key(d) \in Keys /\ box[S] # << >>
            /\ fairQMap'[Key(d)] = Append(fairQMap[Key(d)], d)
            /\ \A k \in Keys : k # Key(d) => fairQMap'[k] = fairQMap[k]
            /\ box'[S] = Tail(box[S])
            /\ UNCHANGED <<typed, sendQueue, relayed>>
        BY <1>2, SeqReceiveDoes, SMTT(30)
    <2>2. d = x => Has(fairQMap'[lineKey[m]], x)
      <3>1. Has(Append(fairQMap[lineKey[m]], d), x) <=> Has(fairQMap[lineKey[m]], x) \/ d = x
          BY <1>q, HasParts
      <3>. QED  BY <2>1, <3>1, <1>x, ZenonT(30) DEF Key
    <2>3. Has(fairQMap[lineKey[m]], x) => Has(fairQMap'[lineKey[m]], x)
      <3>1. CASE Key(d) = lineKey[m]
        <4>1. Has(Append(fairQMap[lineKey[m]], d), x) <=> Has(fairQMap[lineKey[m]], x) \/ d = x
            BY <1>q, HasParts
        <4>. QED  BY <2>1, <3>1, <4>1
      <3>2. CASE Key(d) # lineKey[m]
          BY <1>q, <2>1, <3>2
      <3>. QED  BY <3>1, <3>2
    <2>. QED  BY <1>d, <2>1, <2>2, <2>3, <1>q, HasParts
  <1>3. CASE \E k \in Keys : ServeJoin(k) \/ ServeLeave(k) \/ ServeLine(k)
    <2>1. PICK k \in Keys : ServeJoin(k) \/ ServeLeave(k) \/ ServeLine(k)
        BY <1>3
    <2>2. PICK d \in Requests :
            /\ fairQMap[k] # << >> /\ d = Head(fairQMap[k]) /\ fairQMap'[k] = Tail(fairQMap[k])
            /\ \A l \in Keys : l # k => fairQMap'[l] = fairQMap[l]
            /\ UNCHANGED <<typed, sendQueue>>
            /\ \/ d.kind \in {"JOIN", "LEAVE"} /\ relayed' = relayed
                  /\ (box'[S] = box[S] \/ stage'[S] = "gone")
               \/ /\ d.kind \in {"LINE", "REDIRECT"} /\ box'[S] = box[S]
                  /\ relayed' = Append(relayed, [d EXCEPT !.from = S])
        BY <2>1, ServeDone
    <2>3. relayed' = relayed \/ Range(relayed') = Range(relayed) \cup {[d EXCEPT !.from = S]}
      <3>1. CASE relayed' = Append(relayed, [d EXCEPT !.from = S]) /\ relayed' # relayed
        <4>1. [d EXCEPT !.from = S] \in Sane
            BY <2>2, <3>1, Relaying
        <4>. QED  BY <1>q, <3>1, <4>1, RangeAppend
      <3>. QED  BY <2>2, <3>1
    <2>4. d = x => y \in Range(relayed')
      <3>1. y \in Sane => Range(Append(relayed, y)) = Range(relayed) \cup {y}
          BY <1>q, RangeAppend
      <3>. QED  BY <3>1, <2>2, <1>q, <1>x, Relaying
    <2>5. Has(fairQMap[lineKey[m]], x) => Has(fairQMap'[lineKey[m]], x) \/ d = x
      <3>1. CASE k = lineKey[m]
          BY <1>q, <2>2, <3>1, HasParts
      <3>2. CASE k # lineKey[m]
          BY <1>q, <2>2, <3>2
      <3>. QED  BY <3>1, <3>2
    <2>. QED  BY <1>d, <2>2, <2>4, <2>5, <2>3
  <1>4. ASSUME NEW p \in Joiners, Type(p) \/ EndInput(p) \/ PushLeave(p) PROVE (Due(m, n))'
    <2>1. CASE n \in 1 .. typed[m]
      <3>1. Has(sendQueue[m], x) => Has(sendQueue'[m], x)
        <4>1. CASE sendQueue'[m] = sendQueue[m]
            BY <4>1
        <4>2. CASE \E e \in Sane : sendQueue'[m] = Append(sendQueue[m], e)
            BY <1>q, <4>2, HasParts
        <4>3. sendQueue'[m] = sendQueue[m] \/ \E e \in Sane : sendQueue'[m] = Append(sendQueue[m], e)
          <5>1. /\ sendQueue \in [Proc -> Seq(Sane)] /\ p \in Proc /\ p # S
                /\ \A i \in Nat : Datagram("LINE", p, i, p) \in Sane
                /\ Datagram("LEAVE", p, 0, p) \in Sane /\ typed[p] \in Nat
              BY Kinds1 DEF Base, Origins, Scalars, Sane, Datagrams, Datagram, Kinds
          <5>2. CASE Type(p)
              BY <1>q, <5>1, <5>2 DEF Type
          <5>3. CASE EndInput(p)
              BY <5>3 DEF EndInput
          <5>4. CASE PushLeave(p)
              BY <1>q, <5>1, <5>4 DEF PushLeave, Leaving
          <5>. QED  BY <1>4, <5>2, <5>3, <5>4
        <4>. QED  BY <4>1, <4>2, <4>3
      <3>. QED  BY <1>d, <2>1, <3>1, <1>4 DEF Type, EndInput, PushLeave
    <2>2. CASE n \notin 1 .. typed[m]
      <3>1. Type(p) /\ p = m /\ n = typed[m] + 1
        <4>1. typed \in [Proc -> Nat] /\ p \in Proc
            BY Kinds1 DEF Base, Scalars
        <4>. QED  BY <1>q, <2>2, <4>1, <1>4 DEF Type, EndInput, PushLeave
      <3>2. sendQueue'[m] = Append(sendQueue[m], x) /\ x \in Sane
        <4>1. sendQueue \in [Proc -> Seq(Sane)] /\ x = Datagram("LINE", m, typed[m] + 1, m)
            BY <3>1 DEF x, Base, Origins
        <4>. QED  BY <1>q, <3>1, <4>1 DEF Type, Datagram, Sane, Datagrams, Kinds
      <3>. QED  BY <1>d, <1>q, <3>2, HasParts
    <2>. QED  BY <2>1, <2>2
  <1>5. ASSUME NEW p \in Joiners, MemberSend(p) PROVE (Due(m, n))'
    <2> DEFINE e == Head(sendQueue[p])
    <2>1. /\ UNCHANGED <<fairQMap, relayed>> /\ e \in Sane
          /\ box'[S] = Append(box[S], e)
          /\ sendQueue[p] # << >> /\ PopSent(p) /\ p \in Proc
        BY <1>5, <1>u, Kinds1, MemberSendDoes DEF Up
    <2>2. /\ typed' = typed /\ sendQueue'[p] = Tail(sendQueue[p])
          /\ \A q \in Proc : q # p => sendQueue'[q] = sendQueue[q]
        BY <2>1, PopSentBase
    <2>3. Has(sendQueue[m], x) => Has(sendQueue'[m], x) \/ e = x
      <3>1. CASE p = m
          BY <1>q, <2>1, <2>2, <3>1, HasParts
      <3>2. CASE p # m
          BY <1>q, <2>2, <3>2
      <3>. QED  BY <3>1, <3>2
    <2> HIDE DEF e
    <2>. QED  BY <1>d, <2>1, <2>2, <2>3, <1>q, HasParts
  <1>. QED  BY <1>1, <1>2, <1>3, <1>4, <1>5, SeqSide

LEMMA TypedEnds ==
  ASSUME Base, ~crossed', [Next]_vars, NEW m \in Joiners, bye'[m] = "sent"
  PROVE  /\ typed'[m] = typed[m]
         /\ bye[m] = "sent" \/ (stage[m] = "in" /\ leaderAddress[m] = S /\ UNCHANGED <<memberList, pending>>)
  <1>t. m \in Proc /\ bye \in [Proc -> {"no", "dead", "pushed", "sent"}] /\ typed \in [Proc -> Nat]
      BY Kinds1 DEF Base, Scalars
  <1>1. CASE Quiet
      BY <1>1 DEF Quiet
  <1>2. CASE SeqReceive
      BY <1>2 DEF SeqReceive
  <1>3. CASE \E k \in Keys : ServeJoin(k) \/ ServeLeave(k) \/ ServeLine(k)
      BY <1>3 DEF ServeJoin, ServeLeave, ServeLine, Serve
  <1>4. ASSUME NEW p \in Joiners, Type(p) \/ EndInput(p) \/ PushLeave(p)
        PROVE  typed'[m] = typed[m] /\ bye[m] = "sent"
      BY <1>4, <1>t, Kinds1 DEF Type, EndInput, PushLeave
  <1>5. ASSUME NEW p \in Joiners, MemberSend(p)
        PROVE  /\ typed'[m] = typed[m]
               /\ bye[m] = "sent" \/ (stage[m] = "in" /\ leaderAddress[m] = S /\ UNCHANGED <<memberList, pending>>)
    <2>1. /\ stage[p] = "in" /\ sendQueue[p] # << >> /\ PopSent(p) /\ p \in Proc
          /\ crossed' = (crossed \/ leaderAddress[p] # S) /\ UNCHANGED <<memberList, pending>>
        BY <1>5, MemberSendDoes, Kinds1
    <2>. QED  BY <1>t, <2>1, PopSentBase
  <1>. QED  BY <1>1, <1>2, <1>3, <1>4, <1>5, SeqSide

LEMMA NextAccounted ==
  ASSUME Base, Base', Paths, Paths', Rolls, Accounted, ~crossed', [Next]_vars
  PROVE  Accounted'
  <1> SUFFICES ASSUME NEW m \in Joiners, NEW n \in 1 .. typed'[m]
               PROVE  /\ stage'[S] = "in" => (Due(m, n))'
                      /\ bye'[m] = "sent" /\ ~(Listed(m))' => LineBySeq(m, n) \in Range(relayed')
    <2>. QED  BY DEF Accounted, Due, Coming, Has, Listed, LineBySeq, Range
  <1>1. ASSUME stage'[S] = "in" PROVE (Due(m, n))'
      BY <1>1, SeqWasUp, DueStep DEF Accounted
  <1>2. ASSUME bye'[m] = "sent", ~(Listed(m))' PROVE LineBySeq(m, n) \in Range(relayed')
    <2>1. CASE ~Listed(m)
      <3>1. LineBySeq(m, n) \in Range(relayed)
          BY <2>1, <1>2, TypedEnds DEF Accounted, Rolls, Listed, Range
      <3>2. CASE \E e \in Relays : relayed' = Append(relayed, e)
          BY <3>2, <3>1, RangeAppend DEF Base, Origins
      <3>. QED  BY <3>1, <3>2, RelayedStep
    <2>2. CASE Listed(m)
      <3>1. \E j \in Joiners : j = m /\ pending = Nobody /\ UNCHANGED <<stage, pending>> /\ ~(OnItsWay(j))'
                               /\ \E k \in Keys : ServeLeave(k)
        <4>1. CASE UNCHANGED <<memberList, pending>>
            BY <1>2, <2>2, <4>1 DEF Listed, Range
        <4>2. CASE UNCHANGED memberList /\ pending = Nobody
            BY <1>2, <2>2, <4>2, Kinds1 DEF Listed, Range
        <4>3. CASE /\ pending \in Joiners /\ memberList' = Append(memberList, pending)
            BY <4>3, <1>2, <2>2, OneList DEF Listed, Range
        <4>4. CASE \E j \in Joiners :
                     /\ \E k \in Keys : ServeLeave(k)
                     /\ pending = Nobody /\ UNCHANGED <<stage, pending>>
                     /\ j \in Range(memberList) /\ memberList' = RemoveFirst(memberList, j)
                     /\ ~(OnItsWay(j))'
          <5>1. PICK j \in Joiners :
                     /\ \E k \in Keys : ServeLeave(k)
                     /\ pending = Nobody /\ UNCHANGED <<stage, pending>>
                     /\ j \in Range(memberList) /\ memberList' = RemoveFirst(memberList, j)
                     /\ ~(OnItsWay(j))'
              BY <4>4
          <5>2. Range(memberList') = Range(memberList) \ {j} /\ m # Nobody
              BY <5>1, OneList, Kinds1
          <5>. QED  BY <5>1, <1>2, <2>2, <5>2 DEF Listed, Range
        <4>. QED  BY <4>1, <4>2, <4>3, <4>4, NextLists DEF ListsStep
      <3>2. PICK k \in Keys : ServeLeave(k)
          BY <3>1
      <3>3. sendQueue'[m] = << >>
          BY <1>2, PathRowNext DEF Paths, Path, PathOK, InOrder, Numbered
      <3> DEFINE x == Datagram("LINE", m, n, m)
      <3>4. OfAuthor(x, m)
          BY DEF OfAuthor, Datagram
      <3>5. (Due(m, n))' <=> Has(fairQMap'[lineKey'[m]], x) \/ Has(box'[S], x) \/ Has(sendQueue'[m], x)
                             \/ LineBySeq(m, n) \in Range(relayed')
          BY DEF Due, Coming, Has, Range, LineBySeq
      <3> HIDE DEF x
      <3>. QED  BY <3>5, <3>3, <3>4, <3>1, <1>1, <3>2 DEF Author, Has, OnItsWay, ServeLeave, Serve
    <2>. QED  BY <2>1, <2>2
  <1>. QED  BY <1>1, <1>2

LEMMA StillCalm ==
  ASSUME [Next]_vars, ~crossed'
  PROVE  ~crossed
  <1>1. CASE SeqSend \/ SeqReceive \/ Multicast \/ Welcoming
      BY <1>1 DEF SeqSend, SeqReceive, Multicast, Welcoming
  <1>2. ASSUME NEW k \in Keys, ServeJoin(k) \/ ServeLeave(k) \/ ServeLine(k) PROVE ~crossed
      BY <1>2 DEF ServeJoin, ServeLeave, ServeLine, SendTo
  <1>3. ASSUME NEW p \in Proc, Type(p) \/ EndInput(p) \/ PushLeave(p) \/ TestDead(p) PROVE ~crossed
      BY <1>3 DEF Type, EndInput, PushLeave, TestDead
  <1>4. ASSUME NEW p \in Joiners, Ask(p) \/ ConnectChat(p) PROVE ~crossed
      BY <1>4 DEF Ask, ConnectChat, TakeReply, TakeRedirect, TakeCount, TakeUsers, TakeEntries, GiveUp, Take
  <1>5. ASSUME NEW p \in Joiners, MemberSend(p) \/ MemberReceive(p) PROVE ~crossed
      BY <1>5 DEF MemberSend, MemberReceive, SendTo
  <1>6. ASSUME NEW p \in Joiners, MemberProcess(p) PROVE ~crossed
      BY <1>6 DEF MemberProcess, Redirect, AddNotice, RemoveFromList, PrintOther, SendTo
  <1>7. CASE UNCHANGED Others
      BY <1>7 DEF Others
  <1>. QED  BY OthersStay, <1>1, <1>2, <1>3, <1>4, <1>5, <1>6, <1>7 DEF Next, SeqProcess

LEMMA InitCalm == Init => NoRedirects /\ (\A m \in Joiners : TicketsOf(m)) /\ Rolls /\ Accounted
  <1> SUFFICES ASSUME Init PROVE NoRedirects /\ (\A m \in Joiners : TicketsOf(m)) /\ Rolls /\ Accounted
      OBVIOUS
  <1>s. S \in Proc /\ S \notin Joiners /\ Joiners \subseteq Proc /\ Nobody \notin Joiners
      BY Kinds1
  <1>1. Base
      BY InitBase
  <1>2. /\ \A p \in Proc : box[p] = << >> /\ sendQueue[p] = << >> /\ typed[p] = 0 /\ bye[p] = "no"
        /\ \A k \in Keys : fairQMap[k] = << >>
        /\ \A m \in Joiners : receiveQueue[m] = << >> /\ shown[m] = << >> /\ stage[m] = "out"
        /\ relayed = << >> /\ userList = << >> /\ memberList = << >>
        /\ pending = Nobody /\ burst.to = Nobody /\ stage[S] = "in"
      BY <1>s DEF Init
  <1>r. Removal
      BY DEF Init, NoShift, Removal
  <1>3. NoRedirects
      BY <1>s, <1>2 DEF NoRedirects, Plain
  <1>4. ASSUME NEW m \in Joiners PROVE TicketsOf(m)
      BY <1>s, <1>2, <1>4 DEF TicketsOf, OneTicket, NoTicket, At, Places
  <1>5. Rolls
      BY <1>s, <1>2, <1>r, <1>1, PathRow DEF Pipe, FromSeq, InRow, OnItsWay, Author, Rolls, Range
  <1>6. Accounted
      BY <1>s, <1>2 DEF Accounted
  <1>. QED  BY <1>3, <1>4, <1>5, <1>6

-----------------------------------------------------------------------------
(***************************************************************************)
(* The sequencer's own lines, in numbers and without gaps.                 *)
(***************************************************************************)
Calm == NoRedirects /\ (\A m \in Joiners : TicketsOf(m)) /\ Rolls /\ Accounted

OnlyOK(c) == \A x : InRow(c, x) /\ x.from = S => x.kind = "OK"

(* A member that is still new has had one answer at most. *)
Answered == \A m \in Joiners : New(m) => OnlyOK(Pipe(m))

LEMMA NewAnswer ==
  ASSUME Base, Base', Calm, Rolls', ListsStep, ~crossed', [Next]_vars, NEW m \in Joiners, (New(m))',
         NEW w \in Seq(Sane), Brings(m, w), NEW i \in DOMAIN w, w[i].from = S
  PROVE  w[i].kind = "OK"
  <1>1. New(m) /\ userList = memberList /\ m \notin Range(memberList)
      BY NewStep DEF Calm, Rolls
  <1>2. CASE (\E k \in Keys : ServeJoin(k)) /\ w = <<Datagram("OK", Nobody, 0, S)>>
      BY <1>2, OneOnly DEF Datagram
  <1>3. CASE m \in Range(userList)
      BY <1>1, <1>3
  <1>4. CASE SeqSend /\ sendAt \in 1 .. Len(userList) /\ Walked(sendAt) = m
      BY <1>1, <1>4, WalkedListed DEF Calm
  <1>5. CASE Welcoming /\ burst.to = m
      BY <1>1, <1>5, Kinds1 DEF Calm, Rolls
  <1>6. CASE m \in Range(userList')
      BY <1>6 DEF Rolls, Range, New, NoTicket, IsTicket, Places
  <1>7. CASE \E e \in Requests : w = <<e>>
      BY <1>7, OneOnly, Kinds1 DEF Requests
  <1>. QED  BY <1>2, <1>3, <1>4, <1>5, <1>6, <1>7 DEF Brings

LEMMA NextAnswered ==
  ASSUME Base, Base', Calm, Rolls', Answered, ListsStep, ~crossed', [Next]_vars
  PROVE  Answered'
  <1> SUFFICES ASSUME NEW m \in Joiners, (New(m))' PROVE OnlyOK(Pipe(m)')
    <2>. QED  BY DEF Answered, New, NoTicket, IsTicket, Places
  <1> DEFINE c == Pipe(m)
             d == Pipe(m)'
  <1>1. PICK w \in Seq(Sane) : Changes(c, d, w, Keep(m)) /\ (w = << >> \/ Brings(m, w))
      BY PipeStep DEF PipeChanges
  <1>2. OnlyOK(c)
      BY NewStep DEF Answered, Calm
  <1> HIDE DEF c, d
  <1>3. ASSUME NEW i \in DOMAIN w, w[i].from = S PROVE w[i].kind = "OK"
      BY <1>3, <1>1, NewAnswer
  <1>4. OnlyOK(d)
      BY <1>2, <1>3, <1>1, ChangesIn DEF OnlyOK
  <1>. QED  BY <1>4 DEF d

(* sendMessage on its walk along userList. *)
LEMMA WalkStep ==
  ASSUME Base, [Next]_vars
  PROVE  \/ sendAt' = sendAt /\ (sendQueue[S] = << >> \/ sendQueue'[S] # << >>)
         \/ /\ SeqSend /\ UNCHANGED userList /\ sendQueue[S] # << >> /\ sendAt <= Len(userList)
            /\ sendAt' = sendAt + 1 /\ sendQueue'[S] = sendQueue[S]
            /\ box' = Deliver(box, {Walked(sendAt)}, Head(sendQueue[S]))
         \/ /\ SeqSend /\ UNCHANGED userList /\ sendQueue[S] # << >> /\ sendAt > Len(userList)
            /\ sendAt' = 1 /\ sendQueue'[S] = Tail(sendQueue[S])
  <1>s. S \in Proc /\ S \notin Joiners /\ Joiners \subseteq Proc
      BY Kinds1
  <1>t. /\ sendQueue \in [Proc -> Seq(Sane)] /\ sendAt \in Nat /\ userList \in Seq(Joiners)
        /\ \A p \in Proc : sendQueue[p] \in Seq(Sane)
      BY DEF Base, Origins, Scalars, Lists
  <1>1. CASE SeqSend
      BY <1>1, <1>t, <1>s, PopSentBase DEF SeqSend
  <1>2. CASE SeqReceive \/ Multicast \/ Welcoming
      BY <1>2 DEF SeqReceive, Multicast, Welcoming
  <1>3. ASSUME NEW k \in Keys, ServeJoin(k) \/ ServeLeave(k) \/ ServeLine(k)
        PROVE  sendAt' = sendAt /\ sendQueue' = sendQueue
      BY <1>3 DEF ServeJoin, ServeLeave, ServeLine, Serve
  <1>4. ASSUME NEW p \in Proc, Type(p) \/ EndInput(p) \/ PushLeave(p)
        PROVE  sendAt' = sendAt /\ (sendQueue[S] = << >> \/ sendQueue'[S] # << >>)
    <2>1. /\ \A i \in Nat : Datagram("LINE", p, i, p) \in Datagrams
          /\ Leaving(p) \in Datagrams /\ typed[p] + 1 \in Nat
        BY DEF Base, Scalars, Datagrams, Datagram, Kinds, Leaving
    <2>2. ASSUME NEW e \in Datagrams, sendQueue' = [sendQueue EXCEPT ![p] = Append(@, e)]
          PROVE  sendQueue'[S] = sendQueue[S] \/ sendQueue'[S] # << >>
        BY <1>s, <1>t, <2>2, Kinds1, Wider, AppendTo
    <2>. QED  BY <2>2, <2>1, <1>4 DEF Type, EndInput, PushLeave
  <1>5. ASSUME NEW p \in Proc, TestDead(p) PROVE sendAt' = sendAt /\ sendQueue' = sendQueue
      BY <1>5 DEF TestDead
  <1>6. ASSUME NEW p \in Joiners, Ask(p) \/ ConnectChat(p) PROVE sendAt' = sendAt /\ sendQueue' = sendQueue
      BY <1>6 DEF Ask, ConnectChat, TakeReply, TakeRedirect, TakeCount, TakeUsers, TakeEntries, GiveUp, Take
  <1>7. ASSUME NEW p \in Joiners, MemberSend(p) PROVE sendAt' = sendAt /\ sendQueue'[S] = sendQueue[S]
      BY <1>7, <1>s, MemberSendDoes, PopSentBase
  <1>8. ASSUME NEW p \in Joiners, MemberReceive(p) PROVE sendAt' = sendAt /\ sendQueue' = sendQueue
      BY <1>8 DEF MemberReceive
  <1>9. ASSUME NEW p \in Joiners, MemberProcess(p) PROVE sendAt' = sendAt /\ sendQueue' = sendQueue
      BY <1>9 DEF MemberProcess, Redirect, AddNotice, RemoveFromList, PrintOther, Process
  <1>10. CASE UNCHANGED Others
      BY <1>10 DEF Others
  <1>. QED  BY OthersStay, <1>1, <1>2, <1>3, <1>4, <1>5, <1>6, <1>7, <1>8, <1>9, <1>10 DEF Next, SeqProcess

(* m is still to get what sendMessage is sending. *)
Waiting(m) == \E i \in DOMAIN userList : i >= sendAt /\ userList[i] = m

(* What happens to the list sendMessage walks along.                        *)
UserListStep ==
  \/ userList' = userList
  \/ /\ pending \in Joiners /\ pending \notin Range(userList) /\ userList' = Append(userList, pending)
  \/ /\ \E k \in Keys : ServeLeave(k)
     /\ \E j \in Joiners : /\ j \in Range(userList) /\ userList' = RemoveFirst(userList, j)
                           /\ bye[j] = "sent" /\ bye' = bye

LEMMA NextUserList ==
  ASSUME Base, Rolls, ListsStep
  PROVE  UserListStep
  <1>. QED  BY DEF UserListStep, ListsStep, Rolls

LEMMA WaitingStep ==
  ASSUME Base, [Next]_vars, UserListStep, NEW m \in Joiners, (Waiting(m))'
  PROVE  \/ Waiting(m) /\ ~(SeqSend /\ sendAt \in 1 .. Len(userList) /\ userList[sendAt] = m)
         \/ SeqSend /\ sendQueue[S] # << >> /\ sendQueue'[S] = Tail(sendQueue[S])
         \/ pending = m
  <1>t. /\ userList \in Seq(Joiners) /\ IsInjective(userList) /\ sendAt \in Nat \ {0} /\ Len(userList) \in Nat
        /\ DOMAIN userList = 1 .. Len(userList)
      BY DEF Base, Lists, Scalars
  <1>1. PICK i \in DOMAIN userList' : i >= sendAt' /\ userList'[i] = m
      BY DEF Waiting
  <1>2. CASE /\ SeqSend /\ UNCHANGED userList /\ sendQueue[S] # << >> /\ sendAt > Len(userList)
             /\ sendAt' = 1 /\ sendQueue'[S] = Tail(sendQueue[S])
      BY <1>2
  <1>3. CASE SeqSend /\ UNCHANGED userList /\ sendAt <= Len(userList) /\ sendAt' = sendAt + 1
      BY <1>1, <1>3, <1>t DEF Waiting, IsInjective
  <1>4. CASE sendAt' = sendAt
    <2>0. i >= sendAt
        BY <1>1, <1>4
    <2>1. ~(SeqSend /\ sendAt \in 1 .. Len(userList))
        BY <1>t, <1>4 DEF SeqSend
    <2>2. CASE userList' = userList
        BY <1>1, <2>0, <2>1, <2>2 DEF Waiting
    <2>3. CASE pending \in Joiners /\ userList' = Append(userList, pending)
        BY <1>t, <2>3, <1>1, <2>0, <2>1, Appended DEF Adds, Grown, Waiting
    <2>4. CASE \E j \in Joiners : j \in Range(userList) /\ userList' = RemoveFirst(userList, j)
      <3>1. PICK j \in Joiners : j \in Range(userList) /\ userList' = RemoveFirst(userList, j)
          BY <2>4
      <3>2. PICK k \in 1 .. Len(userList) :
              /\ userList[k] = j
              /\ RemoveFirst(userList, j) \in Seq(Joiners)
              /\ Len(RemoveFirst(userList, j)) = Len(userList) - 1
              /\ \A n \in 1 .. Len(userList) - 1 : RemoveFirst(userList, j)[n] = userList[IF n < k THEN n ELSE n + 1]
        <4>1. userList \in Seq(Joiners) /\ j \in Range(userList)
            BY <1>t, <3>1
        <4>. QED  BY <4>1, RemovedFirst
      <3>3. i \in 1 .. Len(userList) - 1
          BY <1>1, <3>1, <3>2
      <3>4. userList'[i] = userList[IF i < k THEN i ELSE i + 1]
          BY <3>1, <3>2, <3>3
      <3>. QED  BY <1>t, <2>0, <2>1, <3>3, <1>1, <3>4 DEF Waiting
    <2>. QED  BY <2>2, <2>3, <2>4 DEF UserListStep
  <1>. QED  BY <1>2, <1>3, <1>4, WalkStep

(* Until somebody leaves, the sequencer's lines come to m in numbers that  *)
(* grow, and what is left of them in sendQueue for m has greater ones.     *)
Strictly == {r \in Sane \X Sane : ByWayOf(r[1], {S}) /\ ByWayOf(r[2], {S}) => r[1].n < r[2].n}

Ahead(m) ==
  \A x : \A j \in DOMAIN sendQueue[S] :
    InRow(Pipe(m), x) /\ ByWayOf(x, {S}) /\ sendQueue[S][j].kind = "LINE" /\ (j > 1 \/ Waiting(m))
      => x.n < sendQueue[S][j].n

SeqOnce == ~SomeoneLeft => \A m \in Joiners : InOrder(Pipe(m), Strictly) /\ Ahead(m)

LEMMA SeqQueueHead ==
  ASSUME Base, SeqLines, sendQueue[S] # << >>
  PROVE  /\ sendQueue[S] \in Seq(Sane) /\ Head(sendQueue[S]) = sendQueue[S][1] /\ 1 \in DOMAIN sendQueue[S]
         /\ Head(sendQueue[S]) \in Sane /\ Head(sendQueue[S]) \in Own(S)
         /\ \A j \in DOMAIN sendQueue[S] : /\ j \in Nat \ {0} /\ sendQueue[S][j] \in Sane
                                           /\ sendQueue[S][j] \in Own(S)
         /\ \A i \in DOMAIN Tail(sendQueue[S]) : /\ Tail(sendQueue[S])[i] = sendQueue[S][i + 1]
                                                 /\ i + 1 \in DOMAIN sendQueue[S] /\ i >= 1
         /\ \A j \in DOMAIN sendQueue[S] : j = 1 \/ (j - 1 \in DOMAIN Tail(sendQueue[S])
                                                     /\ Tail(sendQueue[S])[j - 1] = sendQueue[S][j])
  <1> DEFINE q == sendQueue[S]
  <1> HIDE DEF q
  <1>. QED  BY TailOf, Kinds1 DEF q, Base, Origins

LEMMA NextSeqOnce ==
  ASSUME Base, Base', SeqLines, Pipes, Calm, Answered, ListsStep, SeqOnce, ~crossed', [Next]_vars
  PROVE  SeqOnce'
  <1> SUFFICES ASSUME ~SomeoneLeft', NEW m \in Joiners
               PROVE  /\ InOrder(Pipe(m)', Strictly)
                      /\ \A x : \A j \in DOMAIN sendQueue'[S] :
                           /\ InRow(Pipe(m)', x) /\ ByWayOf(x, {S}) /\ sendQueue'[S][j].kind = "LINE"
                           /\ j > 1 \/ (Waiting(m))'
                           => x.n < sendQueue'[S][j].n
    <2>. QED  BY DEF SeqOnce, Ahead
  <1> DEFINE c == Pipe(m)
             d == Pipe(m)'
             q == sendQueue[S]
  <1>1. PICK w \in Seq(Sane) : Changes(c, d, w, Keep(m)) /\ (w = << >> \/ Brings(m, w))
      BY PipeStep DEF PipeChanges
  <1>n. /\ ~SomeoneLeft
        /\ sendAt \in 1 .. Len(userList) => Walked(sendAt) = userList[sendAt]
      BY SomeoneStep, WalkedCalm DEF Calm
  <1>2. c \in Row /\ InOrder(c, Strictly) /\ (New(m) => OnlyOK(c))
      BY <1>n, PipeRow DEF SeqOnce, Answered
  <1>3. \A x : \A j \in DOMAIN q :
          InRow(c, x) /\ ByWayOf(x, {S}) /\ q[j].kind = "LINE" /\ (j > 1 \/ Waiting(m)) => x.n < q[j].n
      BY <1>n DEF SeqOnce, Ahead
  <1>4. \A x : InRow(c, x) /\ ByWayOf(x, {S}) => x.n \in 1 .. typed[S]
      BY DEF Pipes
  <1> HIDE DEF c, d
  <1>5. /\ \A x : InRow(c, x) => x \in Sane
        /\ \A i \in DOMAIN w : w[i] \in Sane
        /\ \A x : InRow(d, x) => InRow(c, x) \/ \E i \in DOMAIN w : w[i] = x
      BY <1>1, <1>2, RowRows, ChangesIn
  <1>6. \/ \A i \in DOMAIN w : ~ByWayOf(w[i], {S})
        \/ /\ SeqSend /\ sendAt \in 1 .. Len(userList) /\ userList[sendAt] = m /\ q # << >>
           /\ w = <<Head(q)>>
    <2>1. w = << >> => DOMAIN w = {}
        OBVIOUS
    <2>. QED  BY <1>1, <1>n, <2>1, BringsLines
  <1>7. UserListStep
      BY NextUserList DEF Calm
  <1>t. /\ userList \in Seq(Joiners) /\ sendAt \in Nat /\ typed[S] \in Nat /\ userList = memberList
        /\ DOMAIN userList = 1 .. Len(userList)
      BY Kinds1 DEF Base, Lists, Scalars, Calm, Rolls
  <1>8. CASE \A i \in DOMAIN w : ~ByWayOf(w[i], {S})
    <2>1. InOrder(d, Strictly)
        BY <1>5, <1>8, <1>1, <1>2, OrderChanges DEF Strictly
    <2>2. ASSUME NEW x, NEW j \in DOMAIN sendQueue'[S], InRow(d, x), ByWayOf(x, {S}),
                 sendQueue'[S][j].kind = "LINE", j > 1 \/ (Waiting(m))'
          PROVE  x.n < sendQueue'[S][j].n
      <3>1. InRow(c, x) /\ x.n \in 1 .. typed[S]
          BY <1>4, <1>5, <1>8, <2>2
      <3>2. j > 1 \/ Waiting(m) \/ (q # << >> /\ sendQueue'[S] = Tail(q))
          BY <1>2, <2>2, <3>1, <1>7, WaitingStep DEF OnlyOK, ByWayOf, New
      <3>3. CASE q # << >> /\ sendQueue'[S] = Tail(q)
        <4>1. sendQueue'[S][j] = q[j + 1] /\ j + 1 \in DOMAIN q /\ j + 1 > 1
            BY <2>2, <3>3, SeqQueueHead, TailOf
        <4>. QED  BY <1>3, <2>2, <3>1, <4>1
      <3>4. CASE sendQueue'[S] = q
          BY <1>3, <2>2, <3>1, <3>2, <3>3, <3>4
      <3>5. ASSUME NEW e \in Sane, sendQueue'[S] = Append(q, e),
                   e.kind = "LINE" => e.n = typed[S] + 1
            PROVE  x.n < sendQueue'[S][j].n
        <4>1. CASE sendQueue'[S][j] = e
            BY <1>t, <2>2, <3>1, <3>5, <4>1
        <4>2. CASE j \in DOMAIN q /\ sendQueue'[S][j] = q[j]
            BY <1>3, <2>2, <3>1, <3>2, <3>3, <4>2
        <4>. QED  BY <4>1, <4>2, <2>2, <3>5, Appended, Kinds1 DEF Grown, Adds, Base, Origins
      <3>6. /\ Datagram("LINE", S, typed[S] + 1, S) \in Sane
            /\ Datagram("LINE", S, typed[S] + 1, S).n = typed[S] + 1
            /\ Datagram("LEAVESEQ", S, 0, S) \in Sane
            /\ Datagram("LEAVESEQ", S, 0, S).kind = "LEAVESEQ"
          BY <1>t, Kinds1 DEF Datagram, Sane, Datagrams, Kinds
      <3>. QED  BY <3>3, <3>4, <3>5, <3>6, SeqQueueStep
    <2>. QED  BY <2>1, <2>2 DEF d
  <1>9. CASE /\ SeqSend /\ sendAt \in 1 .. Len(userList) /\ userList[sendAt] = m /\ q # << >>
             /\ w = <<Head(q)>>
    <2> DEFINE h == Head(q)
    <2>1. /\ h = q[1] /\ h \in Sane /\ 1 \in DOMAIN q /\ DOMAIN w = {1} /\ w[1] = h
          /\ \A j \in DOMAIN q : j \in Nat \ {0}
        BY <1>9, SeqQueueHead, OneOnly
    <2>2. Waiting(m) /\ sendQueue'[S] = q /\ pending # m
        BY <1>9, <1>t, InRange DEF Waiting, SeqSend, Calm, Rolls, New
    <2> HIDE DEF h
    <2>3. InOrder(d, Strictly)
      <3>1. \A x : InRow(c, x) => \A i \in DOMAIN w : <<x, w[i]>> \in Strictly
          BY <1>5, <2>1, <1>3, <2>2 DEF Strictly, ByWayOf
      <3>. QED  BY <1>1, <1>2, <3>1, <2>1, OrderChanges
    <2>4. ASSUME NEW x, NEW j \in DOMAIN q, InRow(d, x), ByWayOf(x, {S}),
                 q[j].kind = "LINE", j > 1 \/ (Waiting(m))'
          PROVE  x.n < q[j].n
      <3>1. j > 1
        <4>1. q # Tail(q)
          <5>1. Len(q) # Len(Tail(q))
              BY <1>9, TailOf, SeqQueueHead
          <5> HIDE DEF q
          <5>. QED  BY <5>1, Zenon
        <4>. QED  BY <2>4, <1>7, <1>9, <2>2, <4>1, WaitingStep
      <3>2. CASE InRow(c, x)
          BY <1>3, <2>4, <3>1, <3>2
      <3>3. CASE x = h
          BY <2>1, <2>4, <3>1, <3>3 DEF ByWayOf, SeqLines
      <3>. QED  BY <1>5, <2>1, <2>4, <3>2, <3>3
    <2>. QED  BY <2>2, <2>3, <2>4 DEF d
  <1>. QED  BY <1>6, <1>8, <1>9

-----------------------------------------------------------------------------
(* The sequencer's queue holds all it typed after what is in it.           *)
SeqFull ==
  /\ sendQueue[S] = << >> => sendAt = 1
  /\ (\A p \in Joiners : bye[p] # "sent") => sendAt <= Len(userList) + 1
  /\ \A i \in DOMAIN sendQueue[S] : \A o \in 1 .. typed[S] :
       sendQueue[S][i].kind = "LINE" /\ sendQueue[S][i].n < o => Has(sendQueue[S], LineBySeq(S, o))

LEMMA NextSeqFull ==
  ASSUME Base, Base', SeqLines, SeqFull, UserListStep, ~crossed', [Next]_vars
  PROVE  SeqFull'
  <1> DEFINE q == sendQueue[S]
             r == sendQueue'[S]
  <1>t. /\ q \in Seq(Sane) /\ typed[S] \in Nat /\ sendAt \in Nat /\ userList \in Seq(Joiners)
        /\ Len(userList) \in Nat
      BY Kinds1 DEF Base, Origins, Scalars, Lists
  <1>u. userList' \in Seq(Joiners) /\ Len(userList') \in Nat
      BY DEF Base, Lists
  <1>w. \/ sendAt' = sendAt /\ (q = << >> \/ r # << >>)
        \/ /\ UNCHANGED userList /\ q # << >> /\ sendAt <= Len(userList)
           /\ sendAt' = sendAt + 1 /\ r = q
        \/ /\ sendAt' = 1
      BY WalkStep
  <1>1. ASSUME \A p \in Joiners : bye'[p] # "sent" PROVE sendAt' <= Len(userList') + 1
      BY <1>1, <1>t, <1>u, <1>w, ByeStep, AppendTo DEF SeqFull, UserListStep
  <1>2. ASSUME NEW i \in DOMAIN r, NEW o \in 1 .. typed'[S], r[i].kind = "LINE", r[i].n < o
        PROVE  Has(r, LineBySeq(S, o))
    <2> DEFINE y == LineBySeq(S, o)
    <2>y. y.kind = "LINE" /\ y.n = o /\ y = Datagram("LINE", S, o, S)
        BY DEF LineBySeq, Datagram
    <2> HIDE DEF y
    <2>0. \A j \in DOMAIN q : o \in 1 .. typed[S] /\ q[j].kind = "LINE" /\ q[j].n < o => Has(q, y)
        BY DEF SeqFull, y
    <2>1. CASE r = q /\ typed'[S] = typed[S]
        BY <1>2, <2>0, <2>1 DEF y
    <2>2. ASSUME NEW e \in Sane, r = Append(q, e), typed'[S] = typed[S], e.kind # "LINE"
          PROVE  Has(r, y)
        BY <1>t, <2>2, <1>2, <2>0, Appended, HasParts DEF Adds, Grown
    <2>3. ASSUME NEW e \in Sane, r = Append(q, e), typed'[S] = typed[S] + 1, e = Datagram("LINE", S, typed[S] + 1, S)
          PROVE  Has(r, y)
      <3>1. CASE o = typed[S] + 1
          BY <2>3, <2>y, <3>1, <1>t, HasParts
      <3>2. CASE o \in 1 .. typed[S]
          BY <1>t, <2>3, <1>2, <2>0, <3>2, HasParts, Appended DEF Grown, Datagram, Adds
      <3>. QED  BY <1>t, <2>3, <3>1, <3>2
    <2>4. CASE r = Tail(q) /\ q # << >> /\ typed'[S] = typed[S]
      <3>1. r[i] = q[i + 1] /\ i + 1 \in DOMAIN q /\ i >= 1 /\ Head(q) = q[1] /\ 1 \in DOMAIN q
          BY <2>4, SeqQueueHead
      <3>2. Head(q) # y
        <4>1. \A k \in DOMAIN q : q[1].kind = "LINE" /\ q[k].kind = "LINE" /\ 1 < k =>
                q[1].n < q[k].n /\ q[1].n \in 1 .. typed[S] /\ q[k].n \in 1 .. typed[S]
            BY <3>1 DEF SeqLines
        <4>2. i \in Nat /\ q[i + 1].kind = "LINE" /\ q[i + 1].n < o /\ 1 < i + 1
            BY <1>2, <1>t, <2>4, <3>1, TailOf
        <4> HIDE DEF q
        <4>. QED  BY <4>1, <4>2, <3>1, <2>y, <1>t
      <3>. QED  BY <2>4, <3>2, <1>t, <1>2, <2>0, <3>1, HasParts DEF y
    <2>5. /\ Datagram("LINE", S, typed[S] + 1, S) \in Sane
          /\ Datagram("LEAVESEQ", S, 0, S) \in Sane
          /\ Datagram("LEAVESEQ", S, 0, S).kind # "LINE"
        BY <1>t, Kinds1 DEF Datagram, Sane, Datagrams, Kinds
    <2>6. Has(r, y)
        BY <2>1, <2>2, <2>3, <2>4, <2>5, SeqQueueStep DEF y
    <2> HIDE DEF r
    <2>. QED  BY <2>6 DEF y
  <1>3. SeqFull' <=> /\ r = << >> => sendAt' = 1
                     /\ (\A p \in Joiners : bye'[p] # "sent") => sendAt' <= Len(userList') + 1
                     /\ \A i \in DOMAIN r : \A o \in 1 .. typed'[S] :
                          r[i].kind = "LINE" /\ r[i].n < o => Has(r, LineBySeq(S, o))
      BY DEF SeqFull, Has, LineBySeq
  <1> HIDE DEF r
  <1>. QED  BY <1>1, <1>2, <1>3, <1>w DEF SeqFull

(* A member that has taken what was due and is still there.                *)
Staying(m) == m \notin strayed /\ stage[m] # "gone" /\ bye[m] # "sent"

LEMMA StayingStep ==
  ASSUME Base, ~crossed', [Next]_vars, NEW m \in Joiners, (Staying(m))'
  PROVE  Staying(m)
  <1>s. m \in Proc /\ S \in Proc /\ m # S /\ stage \in [Proc -> {"out", "in", "gone"} \cup Joining]
      BY Kinds1 DEF Base, Scalars
  <1>1. ASSUME strayed \subseteq strayed', stage[m] = "gone" => stage'[m] = "gone" PROVE Staying(m)
      BY <1>1, ByeStep DEF Staying
  <1>2. CASE SeqSend \/ SeqReceive \/ Multicast \/ Welcoming
      BY <1>1, <1>2 DEF SeqSend, SeqReceive, Multicast, Welcoming
  <1>3. ASSUME NEW k \in Keys, ServeJoin(k) \/ ServeLeave(k) \/ ServeLine(k) PROVE Staying(m)
      BY <1>1, <1>3, <1>s DEF ServeJoin, ServeLeave, ServeLine, Serve
  <1>4. ASSUME NEW p \in Proc, Type(p) \/ EndInput(p) \/ PushLeave(p) \/ TestDead(p) PROVE Staying(m)
      BY <1>1, <1>4, <1>s DEF Type, EndInput, PushLeave, TestDead
  <1>5. ASSUME NEW p \in Joiners, Ask(p) PROVE Staying(m)
      BY <1>1, <1>5, <1>s DEF Ask
  <1>6. ASSUME NEW p \in Joiners, NEW at \in Joining, NEW to, NEW n, NEW E, Take(p, at, to, n, E)
        PROVE  Staying(m)
      BY <1>6, <1>1, <1>s DEF Joining, Take
  <1>7. ASSUME NEW p \in Joiners, ConnectChat(p) PROVE Staying(m)
      BY <1>6, <1>1, <1>s, <1>7, TakeCountDoes DEF TakeReply, Joining, TakeUsers, TakeEntries,
         TakeRedirect, GiveUp, ConnectChat
  <1>8. ASSUME NEW p \in Joiners, MemberSend(p) \/ MemberReceive(p) PROVE Staying(m)
      BY <1>1, <1>8 DEF MemberSend, MemberReceive
  <1>9. ASSUME NEW p \in Joiners, MemberProcess(p) PROVE Staying(m)
      BY <1>9, <1>1, <1>s DEF MemberProcess, Redirect, AddNotice, RemoveFromList, PrintOther,
         Process
  <1>10. CASE UNCHANGED Others
      BY <1>1, <1>10 DEF Others
  <1>. QED  BY OthersStay, <1>2, <1>3, <1>4, <1>5, <1>7, <1>8, <1>9, <1>10 DEF Next, SeqProcess

(* A line that came by way of the sequencer came to one of its list.       *)
LEMMA LineListed ==
  ASSUME Base, Calm, Answered, NEW m \in Joiners, bye[m] # "sent", NEW x, InRow(Pipe(m), x), ByWayOf(x, Proc)
  PROVE  m \in Range(userList) /\ ~New(m) /\ stage[m] # "out" /\ pending # m
  <1>1. ~New(m)
      BY DEF Answered, OnlyOK, ByWayOf
  <1>2. FromSeq(m)
      BY DEF FromSeq, ByWayOf
  <1>. QED  BY <1>1, <1>2 DEF Listed, New, Calm, Rolls

(* No line is lost on its way to somebody who stays.                       *)
LEMMA KeepLines ==
  ASSUME Base, Base', Calm, Answered, [Next]_vars, NEW m \in Joiners, (Staying(m))',
         NEW x, InRow(Pipe(m), x), ByWayOf(x, Proc)
  PROVE  InRow(Pipe(m)', x)
  <1> DEFINE c == Pipe(m)
             d == Pipe(m)'
  <1>1. PICK w \in Seq(Sane) : Changes(c, d, w, Keep(m)) /\ (w = << >> \/ Brings(m, w))
      BY PipeStep DEF PipeChanges
  <1>2. ~Redirected(m)
    <2>1. SUFFICES ASSUME Redirected(m) PROVE New(m)
        BY DEF Answered, OnlyOK, ByWayOf
    <2>2. /\ box[m] # << >> /\ box[m] \in Seq(Sane)
          /\ <<m, "box">> \in Places /\ At[<<m, "box">>] = box[m]
        BY <2>1, AtRow, PipeRow, Kinds1 DEF Redirected
    <2>. QED  BY <2>2, <2>1 DEF New, NoTicket, Redirected, IsTicket
  <1>3. Keep(m)
      BY <1>2 DEF Keep, Staying
  <1>4. InRow(c, x) /\ x.kind = "LINE"
      BY DEF ByWayOf
  <1> HIDE DEF c, d
  <1>5. InRow(d, x)
      BY <1>1, <1>3, <1>4, ChangesIn
  <1>. QED  BY <1>5 DEF d

-----------------------------------------------------------------------------
(***************************************************************************)
(* A member shows what is relayed without a gap: whoever stays and has been *)
(* sent a line has been sent, from then on, every other.                   *)
(***************************************************************************)

(* What m has of the lines relayed has no gap. *)
Unbroken(r, c) == \A k, l \in DOMAIN r : k < l /\ InRow(c, r[k]) => InRow(c, r[l])

LEMMA RelayedLines ==
  ASSUME Base, NoRedirects, NEW k \in DOMAIN relayed
  PROVE  /\ relayed[k].kind = "LINE" /\ relayed[k].who \in Joiners /\ relayed[k] \in Sane
         /\ ByWayOf(relayed[k], Joiners) /\ ByWayOf(relayed[k], Proc)
  <1>. QED  BY Kinds1 DEF Relays, NoRedirects, Plain, ByWayOf, Base, Origins

(* Each author's lines are relayed in numbers that grow. *)
LEMMA RowTyped ==
  ASSUME NEW m, NEW c \in [1 .. 4 -> Seq(Sane)], InOrder(c, InTurn(m)),
         NEW k \in DOMAIN c[1], NEW l \in DOMAIN c[1], k < l,
         c[1][k].kind = "LINE", c[1][l].kind = "LINE", c[1][k].who = m, c[1][l].who = m
  PROVE  c[1][k].n < c[1][l].n
  <1>1. <<c[1][k], c[1][l]>> \in InTurn(m)
      BY DEF InOrder
  <1>. QED  BY <1>1 DEF InTurn, OfAuthor

LEMMA NextUnbroken ==
  ASSUME Base, Base', Paths', NoRedirects', Calm, Answered, ~crossed', [Next]_vars,
         NEW m \in Joiners, (Staying(m))', Unbroken(relayed, Pipe(m))
  PROVE  Unbroken(relayed', Pipe(m)')
  <1> DEFINE c == Pipe(m)
             d == Pipe(m)'
  <1>0. Staying(m)
      BY StayingStep
  <1>1. PICK w \in Seq(Sane) : Changes(c, d, w, Keep(m)) /\ (w = << >> \/ Brings(m, w))
      BY PipeStep DEF PipeChanges
  <1>2. /\ d \in Row /\ d[3] = box'[m] /\ Unbroken(relayed, c)
        /\ relayed \in Seq(Sane) /\ NoRedirects
      BY PipeRowNext, PathRow DEF Calm
  <1>k. \A x : InRow(c, x) /\ ByWayOf(x, Proc) => InRow(d, x)
      BY KeepLines
  <1>l. \A x : InRow(c, x) /\ ByWayOf(x, Proc) => m \in Range(userList) /\ stage[m] # "out"
      BY <1>0, LineListed DEF Staying
  <1> HIDE DEF c, d
  <1>3. \A x : InRow(d, x) => InRow(c, x) \/ \E i \in DOMAIN w : w[i] = x
      BY <1>1, ChangesIn
  <1>4. \/ relayed' = relayed /\ \A i \in DOMAIN w : ~ByWayOf(w[i], Joiners)
        \/ \E e \in Relays : w = <<e>> /\ relayed' = Append(relayed, e)
        \/ w = << >>
      BY <1>1, BringsLines
  <1>w. w = << >> => DOMAIN w = {}
      OBVIOUS
  <1>e. \A e \in Relays : /\ Append(relayed, e) # relayed /\ e \in Sane
                          /\ Len(Append(relayed, e)) = Len(relayed) + 1 /\ Append(relayed, e)[Len(relayed) + 1] = e
                          /\ \A k \in 1 .. Len(relayed) : Append(relayed, e)[k] = relayed[k]
      BY <1>2, Kinds1, AppendTo
  <1>n. DOMAIN relayed = 1 .. Len(relayed) /\ Len(relayed) \in Nat
      BY <1>2
  <1>5. CASE relayed' = relayed
    <2>1. ASSUME NEW k \in DOMAIN relayed, NEW l \in DOMAIN relayed, k < l, InRow(d, relayed[k])
          PROVE  InRow(d, relayed[l])
      <3>1. /\ ByWayOf(relayed[k], Joiners) /\ ByWayOf(relayed[l], Proc)
          BY <1>2, RelayedLines
      <3>2. InRow(c, relayed[k])
          BY <1>3, <1>4, <1>5, <1>w, <1>e, <2>1, <3>1
      <3>. QED  BY <1>k, <3>1, <1>2, <2>1, <3>2 DEF Unbroken
    <2>. QED  BY <1>5, <2>1 DEF Unbroken, d
  <1>6. ASSUME NEW j \in Keys, ServeLine(j), NEW e \in Relays, relayed' = Append(relayed, e)
        PROVE  Unbroken(relayed', Pipe(m)')
    <2>0. /\ Len(relayed') = Len(relayed) + 1 /\ relayed'[Len(relayed) + 1] = e /\ e \in Sane
          /\ \A k \in 1 .. Len(relayed) : relayed'[k] = relayed[k]
          /\ DOMAIN relayed' = 1 .. Len(relayed) + 1
        BY <1>e, <1>6 DEF Base, Origins
    <2>1. m \in Range(userList) /\ stage[m] # "out" => InRow(d, e)
      <3>1. PICK dg : /\ relayed' = Append(relayed, dg)
                      /\ \A p \in Proc : box'[p] = IF p \in Range(userList) /\ Up(p)
                                                   THEN Append(box[p], dg) ELSE box[p]
                      /\ dg \in Relays
          BY <1>6, ServeLineDoes
      <3>2. m \in Range(userList) /\ stage[m] # "out" => box'[m] = Append(box[m], e)
          BY <1>0, <3>1, <1>e, <2>0, Kinds1 DEF Up, Staying
      <3>. QED  BY <1>2, <3>2, <2>0, RowRows, Appended, PipeRow DEF InRow, Adds, Grown
    <2>2. ASSUME NEW k \in DOMAIN relayed', NEW l \in DOMAIN relayed', k < l, InRow(d, relayed'[k])
          PROVE  InRow(d, relayed'[l])
      <3>1. k \in DOMAIN relayed /\ relayed'[k] = relayed[k] /\ ByWayOf(relayed[k], Joiners)
            /\ ByWayOf(relayed[k], Proc)
          BY <1>n, <2>0, <2>2, <1>2, RelayedLines
      <3>2. relayed[k] # e
        <4> SUFFICES ASSUME relayed[k] = e PROVE FALSE
            OBVIOUS
        <4> DEFINE o == Len(relayed) + 1
                   a == e.who
                   p == Path(a)'
        <4>1. o \in DOMAIN relayed' /\ relayed'[o] = e /\ relayed'[k] = e /\ k < o
            BY <1>n, <2>0, <3>1
        <4>2. e.kind = "LINE" /\ a \in Joiners /\ e.n \in Nat
            BY <2>0, <3>1, <4>1 DEF ByWayOf, Sane, Datagrams
        <4>3. InOrder(p, InTurn(a)) /\ p[1] = relayed' /\ p \in [1 .. 4 -> Seq(Sane)]
            BY <4>2, PathRowNext DEF Paths, PathOK
        <4> HIDE DEF p, o
        <4>4. p[1][k].n < p[1][o].n
          <5>1. /\ k \in DOMAIN p[1] /\ o \in DOMAIN p[1] /\ k < o
                /\ p[1][k] = e /\ p[1][o] = e
              BY <2>2, <4>1, <4>3
          <5>2. <<p[1][k], p[1][o]>> \in InTurn(a)
              BY <4>3, <5>1 DEF InOrder
          <5>. QED  BY <4>2, <5>1, <5>2 DEF InTurn, OfAuthor
        <4>. QED  BY <2>2, <4>1, <4>2, <4>3, <4>4
      <3>3. InRow(c, relayed[k])
        <4>1. ASSUME NEW i \in DOMAIN w, w[i] = relayed[k] PROVE FALSE
          <5>1. PICK f \in Relays : w = <<f>> /\ relayed' = Append(relayed, f)
              BY <1>4, <1>w, <3>1, <4>1
          <5>. QED  BY <3>2, <4>1, <1>e, <2>0, <5>1, OneOnly
        <4>. QED  BY <1>3, <2>2, <3>1, <4>1
      <3>4. CASE l = Len(relayed) + 1
          BY <1>l, <2>0, <2>1, <3>1, <3>3, <3>4
      <3>5. CASE l \in DOMAIN relayed
        <4>1. InRow(c, relayed[l]) /\ ByWayOf(relayed[l], Proc)
            BY <1>2, <2>2, <3>1, <3>3, <3>5, RelayedLines DEF Unbroken
        <4>. QED  BY <1>k, <4>1, <1>n, <2>0, <3>5
      <3>. QED  BY <1>n, <2>0, <3>4, <3>5
    <2>. QED  BY <2>2 DEF Unbroken, d
  <1>. QED  BY <1>5, <1>6, RelayedStep

(* m is still to get line o of the sequencer's own. *)
ToCome(m, o) ==
  \E i \in DOMAIN sendQueue[S] : /\ sendQueue[S][i] = LineBySeq(S, o)
                                 /\ i = 1 => sendAt = 1 \/ Waiting(m)

(* What m has and is still to get of the sequencer's own lines has no gap. *)
NoHoles(m) ==
  \A n, o \in 1 .. typed[S] :
    n < o /\ InRow(Pipe(m), LineBySeq(S, n)) => InRow(Pipe(m), LineBySeq(S, o)) \/ ToCome(m, o)

LEMMA SeqLine ==
  ASSUME NEW n
  PROVE  /\ LineBySeq(S, n).n = n /\ LineBySeq(S, n).kind = "LINE"
         /\ ByWayOf(LineBySeq(S, n), {S}) /\ ByWayOf(LineBySeq(S, n), Proc) /\ ~ByWayOf(LineBySeq(S, n), Joiners)
         /\ \A o : LineBySeq(S, n) = LineBySeq(S, o) => n = o
  <1>. QED  BY Kinds1 DEF LineBySeq, Datagram, ByWayOf

LEMMA ToComeStep ==
  ASSUME Base, Base', SeqLines, UserListStep, [Next]_vars, NEW m \in Range(userList),
         \A p \in Joiners : bye'[p] # "sent", NEW o, ToCome(m, o)
  PROVE  \/ (ToCome(m, o))'
         \/ /\ SeqSend /\ sendAt \in 1 .. Len(userList) /\ userList[sendAt] = m
            /\ Head(sendQueue[S]) = LineBySeq(S, o)
  <1> DEFINE q == sendQueue[S]
  <1>1. PICK i \in DOMAIN q : q[i] = LineBySeq(S, o) /\ (i = 1 => sendAt = 1 \/ Waiting(m))
      BY DEF ToCome
  <1>2. /\ q \in Seq(Sane) /\ i \in 1 .. Len(q) /\ Len(q) \in Nat /\ q # << >> /\ Head(q) = q[1]
      BY <1>1, Kinds1 DEF Base, Origins
  <1>3. userList \in Seq(Joiners) /\ sendAt \in Nat \ {0} /\ DOMAIN userList = 1 .. Len(userList)
        /\ Len(userList) \in Nat
      BY DEF Base, Scalars, Lists
  <1>4. PICK h \in 1 .. Len(userList) : userList[h] = m
      BY <1>3 DEF Range
  <1>. QED
    <2>1. \A j \in DOMAIN sendQueue'[S] :
            sendQueue'[S][j] = LineBySeq(S, o) /\ (j # 1 \/ sendAt' = 1 \/ (Waiting(m))') => (ToCome(m, o))'
        BY DEF ToCome, LineBySeq, Datagram
    <2>2. CASE sendAt' = sendAt /\ (q = << >> \/ sendQueue'[S] # << >>)
      <3>1. \/ sendQueue'[S] = q
            \/ \E e \in Sane : sendQueue'[S] = Append(q, e)
        <4>1. sendQueue'[S] \in Seq(Sane)
            BY Kinds1 DEF Base, Origins
        <4>2. Datagram("LINE", S, typed[S] + 1, S) \in Sane /\ Datagram("LEAVESEQ", S, 0, S) \in Sane
          <5>1. typed[S] \in Nat
              BY Kinds1 DEF Base, Scalars
          <5>. QED  BY <5>1, Kinds1 DEF Sane, Datagrams, Datagram, Kinds
        <4>3. CASE sendAt > Len(userList) /\ sendAt' = 1
            BY <1>3, <1>4, <2>2, <4>3
        <4>. QED  BY <4>2, <4>3, SeqQueueStep
      <3>2. Waiting(m) => (Waiting(m))'
          BY <2>2, <1>3 DEF Waiting, UserListStep
      <3>. QED  BY <1>1, <2>1, <2>2, <3>2, <1>2, <3>1
    <2>3. CASE /\ SeqSend /\ UNCHANGED userList /\ q # << >> /\ sendAt <= Len(userList)
               /\ sendAt' = sendAt + 1 /\ sendQueue'[S] = q
        BY <1>1, <2>1, <2>3, <1>3, <1>4, <1>2 DEF Waiting
    <2>4. CASE SeqSend /\ sendAt > Len(userList) /\ sendAt' = 1 /\ sendQueue'[S] = Tail(q)
      <3>1. i # 1
          BY <1>1, <1>3, <1>4, <2>4 DEF Waiting
      <3>2. i - 1 \in DOMAIN Tail(q) /\ Tail(q)[i - 1] = q[i]
          BY <1>2, <3>1
      <3>. QED  BY <1>1, <2>1, <2>4, <3>2
    <2>. QED  BY <2>2, <2>3, <2>4, WalkStep

LEMMA NextNoHoles ==
  ASSUME Base, Base', SeqLines, Pipes, SeqFull, Calm, Answered, UserListStep, ~crossed', [Next]_vars,
         NEW m \in Joiners, (Staying(m))', \A p \in Joiners : bye'[p] # "sent", NoHoles(m)
  PROVE  (NoHoles(m))'
  <1> DEFINE c == Pipe(m)
             d == Pipe(m)'
             q == sendQueue[S]
  <1>0. Staying(m)
      BY StayingStep
  <1>k. \A x : InRow(c, x) /\ ByWayOf(x, Proc) => InRow(d, x) /\ m \in Range(userList) /\ stage[m] # "out"
      BY <1>0, KeepLines, LineListed DEF Staying
  <1>1. PICK w \in Seq(Sane) : Changes(c, d, w, Keep(m)) /\ (w = << >> \/ Brings(m, w))
      BY PipeStep DEF PipeChanges
  <1>2. /\ d \in Row /\ d[3] = box'[m] /\ box[m] \in Seq(Sane) /\ m \in Proc
        /\ \A x : InRow(c, x) /\ ByWayOf(x, {S}) => x.n \in 1 .. typed[S]
      BY PipeRowNext, PipeRow, Kinds1 DEF Pipes
  <1>3. \A n, o \in 1 .. typed[S] :
          n < o /\ InRow(c, LineBySeq(S, n)) => InRow(c, LineBySeq(S, o)) \/ ToCome(m, o)
      BY DEF NoHoles
  <1>4. SUFFICES ASSUME NEW n \in 1 .. typed'[S], NEW o \in 1 .. typed'[S], n < o, InRow(d, LineBySeq(S, n))
                 PROVE  InRow(d, LineBySeq(S, o)) \/ (ToCome(m, o))'
    <2> HIDE DEF d
    <2>. QED  BY DEF NoHoles, LineBySeq, Datagram, d
  <1> HIDE DEF c, d
  <1>5. \A x : InRow(d, x) => InRow(c, x) \/ \E i \in DOMAIN w : w[i] = x
      BY <1>1, ChangesIn
  <1>6. w = << >> => DOMAIN w = {}
      OBVIOUS
  <1>7. typed[S] \in Nat /\ typed'[S] \in Nat /\ q \in Seq(Sane)
        /\ sendAt \in Nat \ {0} /\ userList \in Seq(Joiners)
      BY Kinds1 DEF Base, Scalars, Origins, Lists
  <1>8. CASE InRow(c, LineBySeq(S, n))
    <2>1. m \in Range(userList) /\ stage[m] # "out" /\ n \in 1 .. typed[S]
      <3>1. LineBySeq(S, n).n \in 1 .. typed[S]
          BY <1>2, <1>8, SeqLine
      <3>. QED  BY <1>k, <1>8, <3>1, SeqLine
    <2>2. CASE o \in 1 .. typed[S] /\ InRow(c, LineBySeq(S, o))
        BY <1>k, <2>2, SeqLine
    <2>3. CASE o \in 1 .. typed[S] /\ ToCome(m, o)
      <3>1. CASE /\ SeqSend /\ sendAt \in 1 .. Len(userList) /\ userList[sendAt] = m
                 /\ Head(q) = LineBySeq(S, o)
        <4>0. Walked(sendAt) = m
            BY <3>1, ByeStep, WalkedCalm DEF SomeoneLeft, Calm
        <4>1. box'[m] = Append(box[m], LineBySeq(S, o))
            BY <1>2, <1>7, <3>1, <4>0, <1>0, <2>1, SMTT(30) DEF Deliver, SeqSend, Up, Staying
        <4>. QED  BY <1>2, <4>1, RowRows DEF InRow
      <3>. QED  BY <2>1, <2>3, <3>1, ToComeStep
    <2>4. CASE o \notin 1 .. typed[S]
        BY <1>4, <1>7, <2>4, SeqQueueStep DEF LineBySeq, Type, SeqFull, ToCome, Datagram
    <2>. QED  BY <1>3, <1>4, <1>8, <2>1, <2>2, <2>3, <2>4
  <1>9. CASE ~InRow(c, LineBySeq(S, n))
    <2>1. PICK i \in DOMAIN w : w[i] = LineBySeq(S, n)
        BY <1>4, <1>5, <1>9
    <2>2. /\ SeqSend /\ sendAt \in 1 .. Len(userList) /\ q # << >> /\ w = <<Head(q)>>
      <3>1. Brings(m, w) /\ ByWayOf(w[i], {S})
          BY <1>1, <1>6, <2>1, SeqLine
      <3>. QED  BY <2>1, <3>1, BringsLines
    <2>3. typed' = typed /\ sendQueue' = sendQueue
        BY <1>7, <2>2 DEF SeqSend
    <2>4. 1 \in DOMAIN q /\ q[1] = LineBySeq(S, n)
        BY <1>7, <2>2, <2>1, OneOnly
    <2>5. PICK j \in DOMAIN q : q[j] = LineBySeq(S, o)
        BY <1>4, <2>3, <2>4, SeqLine DEF SeqFull, Has
    <2>6. j # 1
        BY <1>4, <2>4, <2>5, SeqLine
    <2>. QED  BY <2>3, <2>5, <2>6 DEF ToCome, LineBySeq, Datagram
  <1>. QED  BY <1>8, <1>9

(* What a member that stays has of the lines has no gap. *)
NoGaps ==
  \A m \in Joiners : Staying(m) =>
    Unbroken(relayed, Pipe(m)) /\ ((\A p \in Joiners : bye[p] # "sent") => NoHoles(m))

(* The orders hold whatever the answers do. *)
Orders == Base /\ Paths /\ SeqLines /\ Pipes

LEMMA NextNoGaps ==
  ASSUME Orders, Orders', Calm, Answered, SeqFull, NoGaps, NoRedirects', UserListStep, ~crossed', [Next]_vars
  PROVE  NoGaps'
  <1>1. ASSUME NEW m \in Joiners, (Staying(m))'
        PROVE  Unbroken(relayed', Pipe(m)') /\ ((\A p \in Joiners : bye'[p] # "sent") => (NoHoles(m))')
      BY <1>1, StayingStep, NextUnbroken, ByeStep, NextNoHoles DEF Orders, NoGaps
  <1>. QED  BY <1>1 DEF NoGaps, Staying, Unbroken, NoHoles

-----------------------------------------------------------------------------
(***************************************************************************)
(* What a member knows of the others.  Told(a, d, b): datagram d makes the *)
(* list a into b.  Heard(L, q, f, M): what q holds after its first f makes *)
(* L into M, and nobody leaves who was not there.                          *)
(***************************************************************************)
Told(a, d, b) ==
  IF d.kind = "NEWUSER" THEN b = a \cup {d.who}
  ELSE IF d.kind = "LEFT" THEN d.who \in a /\ b = a \ {d.who}
  ELSE b = a

Heard(L, q, f, M) ==
  \E h \in [Nat -> SUBSET Joiners] :
    /\ h[f] = L /\ h[Len(q)] = M
    /\ \A i \in f + 1 .. Len(q) : Told(h[i - 1], q[i], h[i])

LEMMA HeardNothing ==
  ASSUME NEW L \in SUBSET Joiners, NEW q, Len(q) \in Nat
  PROVE  Heard(L, q, Len(q), L)
  <1> DEFINE h == [i \in Nat |-> L]
  <1>1. /\ h \in [Nat -> SUBSET Joiners] /\ h[Len(q)] = L
        /\ \A i \in Len(q) + 1 .. Len(q) : FALSE
      OBVIOUS
  <1>. QED  BY <1>1 DEF Heard

LEMMA HeardMore ==
  ASSUME NEW q \in Seq(Sane), NEW e \in Sane, NEW L, NEW f \in 0 .. Len(q), NEW M, NEW N \in SUBSET Joiners,
         Heard(L, q, f, M), Told(M, e, N)
  PROVE  Heard(L, Append(q, e), f, N)
  <1> DEFINE n == Len(q)
  <1>1. PICK h \in [Nat -> SUBSET Joiners] :
          /\ h[f] = L /\ h[n] = M
          /\ \A i \in f + 1 .. n : Told(h[i - 1], q[i], h[i])
      BY DEF Heard
  <1> DEFINE g == [h EXCEPT ![n + 1] = N]
             r == Append(q, e)
  <1>2. /\ n \in Nat /\ Len(r) = n + 1 /\ r[n + 1] = e /\ \A i \in 1 .. n : r[i] = q[i]
      BY AppendTo
  <1>3. /\ g \in [Nat -> SUBSET Joiners] /\ g[n + 1] = N /\ \A i \in 0 .. n : g[i] = h[i]
      BY <1>2
  <1> HIDE DEF g, r
  <1>4. ASSUME NEW i \in f + 1 .. Len(r) PROVE Told(g[i - 1], r[i], g[i])
      BY <1>1, <1>2, <1>3, <1>4
  <1>. QED  BY <1>3, <1>4, <1>1, <1>2 DEF r, Heard

(* r is q without its first k. *)
Rest(q, k, r) == k \in 0 .. Len(q) /\ Len(r) = Len(q) - k /\ \A i \in 1 .. Len(q) - k : r[i] = q[i + k]

(* The first k go, which Heard does not look at. *)
LEMMA HeardLater ==
  ASSUME NEW q \in Seq(Sane), NEW k \in Nat, NEW f \in Nat, k + f <= Len(q), NEW L, NEW M,
         Heard(L, q, k + f, M), NEW r, Rest(q, k, r)
  PROVE  Heard(L, r, f, M)
  <1>0. Len(r) = Len(q) - k /\ \A i \in 1 .. Len(q) - k : r[i] = q[i + k]
      BY DEF Rest
  <1> DEFINE n == Len(q)
  <1>1. PICK h \in [Nat -> SUBSET Joiners] :
          /\ h[k + f] = L /\ h[n] = M
          /\ \A i \in k + f + 1 .. n : Told(h[i - 1], q[i], h[i])
      BY DEF Heard
  <1> DEFINE g == [i \in Nat |-> h[i + k]]
  <1>2. n \in Nat
      OBVIOUS
  <1>3. /\ g \in [Nat -> SUBSET Joiners] /\ \A i \in Nat : g[i] = h[i + k]
      OBVIOUS
  <1> HIDE DEF g
  <1>4. g[f] = L /\ g[Len(r)] = M
    <2>1. Len(r) \in Nat /\ Len(r) + k = n /\ f + k = k + f
        BY <1>0, <1>2
    <2>. QED  BY <1>1, <1>3, <2>1
  <1>5. ASSUME NEW i \in f + 1 .. Len(r) PROVE Told(g[i - 1], r[i], g[i])
    <2> DEFINE j == i + k
    <2>1. j \in k + f + 1 .. n /\ j - 1 = (i - 1) + k /\ i - 1 \in Nat /\ i \in Nat /\ i \in 1 .. n - k
        BY <1>0, <1>2
    <2>. QED  BY <1>0, <1>3, <2>1, <1>1
  <1>. QED  BY <1>3, <1>4, <1>5 DEF Heard

(* The head is dealt with. *)
LEMMA HeardHead ==
  ASSUME NEW q \in Seq(Sane), q # << >>, NEW L, NEW M, Heard(L, q, 0, M)
  PROVE  \E N \in SUBSET Joiners : Told(L, Head(q), N) /\ Heard(N, Tail(q), 0, M)
  <1> DEFINE n == Len(q)
  <1>1. PICK h \in [Nat -> SUBSET Joiners] :
          /\ h[0] = L /\ h[n] = M
          /\ \A i \in 0 + 1 .. n : Told(h[i - 1], q[i], h[i])
      BY DEF Heard
  <1>2. /\ n \in Nat \ {0} /\ Len(Tail(q)) = n - 1 /\ Head(q) = q[1]
        /\ \A i \in 1 .. n - 1 : Tail(q)[i] = q[i + 1]
      BY TailOf
  <1>3. Heard(h[1], q, 1 + 0, M)
      BY <1>1, <1>2 DEF Heard
  <1>4. Rest(q, 1, Tail(q)) /\ 1 + 0 <= Len(q)
      BY <1>2 DEF Rest
  <1>. QED  BY <1>1, <1>2, <1>3, <1>4, HeardLater

-----------------------------------------------------------------------------
(***************************************************************************)
(* The states of a member on the list: b is its buffer, st its stage, no   *)
(* its no_of_members, M the members.                                       *)
(***************************************************************************)
Bears(b, n) == \A i \in DOMAIN b : b[i].kind = "COUNT" => b[i].n = n

(* multicast is still to send it the n entries. *)
Expecting(b, st, no, n) ==
  /\ st # "in"
  /\ Bears(b, n)
  /\ st \in {"users", "entries"} => no = n
  /\ \A i \in DOMAIN b : b[i].kind \notin {"ENTRY", "NEWUSER", "LEFT"}

Entered(b, a, n) == {b[i].who : i \in a + 1 .. a + n}

(* The n entries are in its buffer, after a other datagrams. *)
Block(b, a, n) ==
  /\ n >= 1 /\ a + n <= Len(b)
  /\ \A i \in DOMAIN b : b[i].kind = "ENTRY" <=> i \in a + 1 .. a + n

Welcomed(b, st, no, M) ==
  \E a, n \in Nat :
    /\ Block(b, a, n)
    /\ IsFiniteSet(Entered(b, a, n)) /\ Cardinality(Entered(b, a, n)) = n
    /\ Heard(Entered(b, a, n), b, a + n, M)
    /\ Bears(b, n)
    /\ st \in {"users", "entries"} => no = n

(* It knows L, and q is what it has not dealt with. *)
Informed(q, L, no, M) == Heard(L, q, 0, M) /\ IsFiniteSet(L) /\ no = Cardinality(L)

LEMMA ExpectingStill ==
  ASSUME NEW b, NEW c, NEW st, NEW sto, NEW no, NEW noto, NEW n, Expecting(b, st, no, n),
         \A i \in DOMAIN c : \/ \E j \in DOMAIN b : c[i] = b[j]
                             \/ /\ c[i].kind \notin {"ENTRY", "NEWUSER", "LEFT"}
                                /\ c[i].kind = "COUNT" => c[i].n = n,
         sto # "in",
         sto \in {"users", "entries"} => \/ st \in {"users", "entries"} /\ noto = no
                                         \/ \E i \in DOMAIN b : b[i].kind = "COUNT" /\ noto = b[i].n
  PROVE  Expecting(c, sto, noto, n)
  <1>. QED  BY DEF Expecting, Bears

LEMMA WelcomedMore ==
  ASSUME NEW b \in Seq(Sane), NEW e \in Sane, NEW st, NEW no, NEW M, NEW N \in SUBSET Joiners,
         Welcomed(b, st, no, M), e.kind \notin {"ENTRY", "COUNT"}, Told(M, e, N)
  PROVE  Welcomed(Append(b, e), st, no, N)
  <1> DEFINE c == Append(b, e)
  <1>1. PICK a \in Nat, n \in Nat :
          /\ Block(b, a, n)
          /\ IsFiniteSet(Entered(b, a, n)) /\ Cardinality(Entered(b, a, n)) = n
          /\ Heard(Entered(b, a, n), b, a + n, M)
          /\ Bears(b, n)
          /\ st \in {"users", "entries"} => no = n
      BY DEF Welcomed
  <1>2. /\ Len(b) \in Nat /\ Len(c) = Len(b) + 1 /\ c[Len(b) + 1] = e /\ \A i \in 1 .. Len(b) : c[i] = b[i]
        /\ DOMAIN b = 1 .. Len(b) /\ DOMAIN c = 1 .. Len(b) + 1
      BY AppendTo
  <1>3. a + n \in 0 .. Len(b) /\ n >= 1
      BY <1>1, <1>2 DEF Block
  <1> HIDE DEF c
  <1>4. Entered(c, a, n) = Entered(b, a, n)
      BY <1>2, <1>3 DEF Entered
  <1>5. Block(c, a, n)
    <2>1. ASSUME NEW i \in DOMAIN c PROVE c[i].kind = "ENTRY" <=> i \in a + 1 .. a + n
        BY <1>1, <1>2, <1>3 DEF Block
    <2>. QED  BY <1>3, <2>1, <1>2 DEF Block
  <1>6. Bears(c, n)
      BY <1>2, <1>1 DEF Bears
  <1>. QED  BY <1>1, <1>4, <1>5, <1>6, <1>3, HeardMore DEF c, Welcomed

(* Things that are no entries are taken. *)
LEMMA WelcomedTakes ==
  ASSUME NEW b \in Seq(Sane), NEW c \in Seq(Sane), NEW k, Rest(b, k, c), \A i \in 1 .. k : b[i].kind # "ENTRY",
         NEW st, NEW sto, NEW no, NEW noto, NEW M, Welcomed(b, st, no, M),
         sto \in {"users", "entries"} => \/ st \in {"users", "entries"} /\ noto = no
                                         \/ \E i \in DOMAIN b : b[i].kind = "COUNT" /\ noto = b[i].n
  PROVE  Welcomed(c, sto, noto, M)
  <1>1. PICK a \in Nat, n \in Nat :
          /\ Block(b, a, n)
          /\ IsFiniteSet(Entered(b, a, n)) /\ Cardinality(Entered(b, a, n)) = n
          /\ Heard(Entered(b, a, n), b, a + n, M)
          /\ Bears(b, n)
          /\ st \in {"users", "entries"} => no = n
      BY DEF Welcomed
  <1>2. /\ Len(b) \in Nat /\ k \in Nat /\ k <= Len(b)
        /\ Len(c) = Len(b) - k /\ \A i \in 1 .. Len(b) - k : c[i] = b[i + k]
        /\ DOMAIN b = 1 .. Len(b) /\ DOMAIN c = 1 .. Len(b) - k
      BY DEF Rest
  <1>3. a + n \in 0 .. Len(b) /\ n >= 1 /\ \A i \in DOMAIN b : b[i].kind = "ENTRY" <=> i \in a + 1 .. a + n
      BY <1>1, <1>2 DEF Block
  <1>4. k <= a
    <2>1. SUFFICES ASSUME a + 1 <= k PROVE FALSE
        BY <1>2
    <2>2. a + 1 \in DOMAIN b /\ a + 1 \in a + 1 .. a + n /\ a + 1 \in 1 .. k
        BY <1>2, <1>3, <2>1
    <2>. QED  BY <1>3, <2>2
  <1> DEFINE f == a - k
  <1>5. f \in Nat /\ a = f + k /\ a + n = k + (f + n) /\ f + n \in Nat /\ k + (f + n) <= Len(b)
      BY <1>2, <1>3, <1>4
  <1> HIDE DEF f
  <1>6. Entered(c, f, n) = Entered(b, a, n)
    <2>1. ASSUME NEW x \in Entered(c, f, n) PROVE x \in Entered(b, a, n)
      <3>1. PICK i \in f + 1 .. f + n : x = c[i].who
          BY <2>1 DEF Entered
      <3>2. i + k \in a + 1 .. a + n /\ c[i] = b[i + k]
          BY <1>2, <1>5
      <3>. QED  BY <3>1, <3>2 DEF Entered
    <2>2. ASSUME NEW x \in Entered(b, a, n) PROVE x \in Entered(c, f, n)
      <3>1. PICK i \in a + 1 .. a + n : x = b[i].who
          BY <2>2 DEF Entered
      <3>2. i - k \in f + 1 .. f + n /\ c[i - k] = b[i]
          BY <1>2, <1>5
      <3>. QED  BY <3>1, <3>2 DEF Entered
    <2>. QED  BY <2>1, <2>2
  <1>7. Block(c, f, n)
    <2>1. ASSUME NEW i \in DOMAIN c PROVE c[i].kind = "ENTRY" <=> i \in f + 1 .. f + n
      <3>1. /\ c[i] = b[i + k] /\ i + k \in DOMAIN b
            /\ i + k \in a + 1 .. a + n <=> i \in f + 1 .. f + n
        <4>1. i \in 1 .. Len(b) - k
            BY <1>2
        <4>2. i + k \in a + 1 .. a + n <=> i \in f + 1 .. f + n
            BY <1>2, <1>5, <4>1
        <4>. QED  BY <4>2, <1>2, <4>1
      <3>. QED  BY <1>3, <3>1
    <2>. QED  BY <1>3, <2>1, <1>2, <1>5 DEF Block
  <1>8. Bears(c, n)
    <2>1. \A i \in DOMAIN c : i + k \in DOMAIN b /\ c[i] = b[i + k]
        BY <1>2
    <2>. QED  BY <1>1, <2>1 DEF Bears
  <1>. QED  BY <1>1, <1>5, <1>6, <1>7, <1>8, <1>2, HeardLater DEF Welcomed, Bears

(* The entries are taken. *)
LEMMA WelcomedIn ==
  ASSUME NEW b \in Seq(Sane), NEW no, NEW M, Welcomed(b, "entries", no, M),
         NEW c, Rest(b, no, c), \A i \in 1 .. no : b[i].kind = "ENTRY"
  PROVE  Informed(c, {b[i].who : i \in 1 .. no}, no, M)
  <1>1. PICK a \in Nat, n \in Nat :
          /\ Block(b, a, n)
          /\ IsFiniteSet(Entered(b, a, n)) /\ Cardinality(Entered(b, a, n)) = n
          /\ Heard(Entered(b, a, n), b, a + n, M)
          /\ no = n
      BY DEF Welcomed
  <1>2. a = 0
      BY <1>1 DEF Block, Rest
  <1>. QED  BY <1>1, <1>2, HeardLater DEF Informed, Entered, Block

LEMMA ListSize ==
  ASSUME NEW list \in Seq(Joiners), IsInjective(list)
  PROVE  IsFiniteSet(Range(list)) /\ Cardinality(Range(list)) = Len(list)
  <1> DEFINE n == Len(list)
  <1>1. n \in Nat /\ DOMAIN list = 1 .. n
      OBVIOUS
  <1>2. list \in Surjection(1 .. n, Range(list)) /\ list \in Injection(1 .. n, Range(list))
      BY <1>1 DEF Surjection, Injection, IsInjective, Range
  <1>3. IsFiniteSet(1 .. n) /\ Cardinality(1 .. n) = n
      BY <1>1, FS_Interval
  <1>. QED  BY <1>2, <1>3, FS_Surjection

(* The entries come. *)
EntriesAfter(b, list, c) ==
  /\ Len(c) = Len(b) + Len(list) /\ (\A i \in 1 .. Len(b) : c[i] = b[i])
  /\ \A i \in 1 .. Len(list) : c[Len(b) + i] = Datagram("ENTRY", list[i], 0, S)

LEMMA WelcomedNow ==
  ASSUME NEW b \in Seq(Sane), NEW list \in Seq(Joiners), IsInjective(list), list # << >>,
         NEW st, NEW no, Expecting(b, st, no, Len(list)), NEW c \in Seq(Sane), EntriesAfter(b, list, c)
  PROVE  Welcomed(c, st, no, Range(list))
  <1> DEFINE a == Len(b)
             n == Len(list)
  <1>1. a \in Nat /\ n \in Nat \ {0} /\ DOMAIN c = 1 .. a + n /\ Len(c) = a + n /\ DOMAIN b = 1 .. a
        /\ DOMAIN list = 1 .. n
      BY DEF EntriesAfter
  <1>2. /\ \A i \in 1 .. a : c[i] = b[i]
        /\ \A i \in 1 .. n : c[a + i] = Datagram("ENTRY", list[i], 0, S)
      BY DEF EntriesAfter
  <1> HIDE DEF a, n
  <1>3. ASSUME NEW i \in a + 1 .. a + n
        PROVE  c[i].kind = "ENTRY" /\ i - a \in 1 .. n /\ c[i].who = list[i - a]
    <2>1. i - a \in 1 .. n /\ a + (i - a) = i
        BY <1>1
    <2>2. c[i] = Datagram("ENTRY", list[i - a], 0, S)
        BY <1>2, <2>1
    <2>. QED  BY <2>1, <2>2 DEF Datagram
  <1>4. Entered(c, a, n) = Range(list)
    <2>1. ASSUME NEW i \in 1 .. n PROVE list[i] \in Entered(c, a, n)
      <3>1. a + i \in a + 1 .. a + n /\ (a + i) - a = i
          BY <1>1
      <3>. QED  BY <3>1, <1>3 DEF Entered
    <2>. QED  BY <1>1, <2>1, <1>3 DEF Range, Entered
  <1>5. IsFiniteSet(Range(list)) /\ Cardinality(Range(list)) = n /\ Range(list) \subseteq Joiners
      BY ListSize DEF n, Range
  <1>6. Block(c, a, n)
      BY <1>1, <1>2, <1>3 DEF Expecting, Block
  <1>7. Bears(c, n)
      BY <1>1, <1>2, <1>3, SMTT(30) DEF Expecting, Bears, n
  <1>8. Heard(Range(list), c, a + n, Range(list))
      BY <1>1, <1>5, HeardNothing
  <1>. QED  BY <1>1, <1>4, <1>5, <1>6, <1>7, <1>8 DEF Welcomed, Expecting, n

LEMMA InformedMore ==
  ASSUME NEW q \in Seq(Sane), NEW e \in Sane, NEW L, NEW no, NEW M, NEW N \in SUBSET Joiners,
         Informed(q, L, no, M), Told(M, e, N)
  PROVE  Informed(Append(q, e), L, no, N)
  <1>. QED  BY HeardMore DEF Informed

LEMMA InformedHead ==
  ASSUME NEW q \in Seq(Sane), q # << >>, NEW L, NEW no, NEW M, Informed(q, L, no, M)
  PROVE  LET d == Head(q)
         IN /\ d.kind = "NEWUSER" =>
                 Informed(Tail(q), L \cup {d.who}, no + (IF d.who \in L THEN 0 ELSE 1), M)
            /\ d.kind = "LEFT" => Informed(Tail(q), L \ {d.who}, no - 1, M)
            /\ d.kind \notin {"NEWUSER", "LEFT"} => Informed(Tail(q), L, no, M)
  <1> DEFINE d == Head(q)
  <1>1. PICK N \in SUBSET Joiners : Told(L, d, N) /\ Heard(N, Tail(q), 0, M)
      BY HeardHead DEF Informed
  <1>2. IsFiniteSet(L) /\ no = Cardinality(L) /\ no \in Nat
      BY FS_CardinalityType DEF Informed
  <1>3. /\ IsFiniteSet(L \cup {d.who})
        /\ Cardinality(L \cup {d.who}) = no + (IF d.who \in L THEN 0 ELSE 1)
      BY <1>2, FS_AddElement
  <1>4. IsFiniteSet(L \ {d.who}) /\ (d.who \in L => Cardinality(L \ {d.who}) = no - 1)
      BY <1>2, FS_RemoveElement
  <1>. QED  BY <1>1, <1>2, <1>3, <1>4 DEF Told, Informed

-----------------------------------------------------------------------------
(***************************************************************************)
(* What a step does to m and its buffer.                                   *)
(***************************************************************************)
Neutral(e) == e.kind \notin {"COUNT", "ENTRY", "NEWUSER", "LEFT"}

Apart(m) ==
  /\ stage'[m] = stage[m] /\ leaderAddress'[m] = leaderAddress[m] /\ receiveQueue'[m] = receiveQueue[m]
  /\ known'[m] = known[m] /\ no_of_members'[m] = no_of_members[m]

(* Nothing of importance comes. *)
Idle(m) ==
  /\ UNCHANGED <<userList, memberList, burst>>
  /\ box'[m] = box[m] \/ \E e \in Sane : Neutral(e) /\ box'[m] = Append(box[m], e)

ByItself(m) == Ask(m) \/ ConnectChat(m) \/ MemberReceive(m) \/ MemberProcess(m) \/ TestDead(m)

LEMMA MineStep ==
  ASSUME Base, [Next]_vars, NEW m \in Joiners
  PROVE  \/ ByItself(m)
         \/ Apart(m) /\ (Idle(m) \/ Multicast \/ Welcoming \/ \E k \in Keys : ServeLeave(k))
  <1>s. S \in Proc /\ S \notin Joiners /\ Joiners \subseteq Proc /\ m # S /\ m \in Proc
      BY Kinds1
  <1>t. /\ stage \in [Proc -> {"out", "in", "gone"} \cup Joining] /\ leaderAddress \in [Joiners -> Proc]
        /\ box \in [Proc -> Seq(Sane)] /\ receiveQueue \in [Joiners -> Seq(Sane)]
      BY DEF Base, Scalars, Origins, Boxed
  <1>k. /\ \A p \in Joiners : Datagram("JOIN", p, 0, p) \in Sane /\ Neutral(Datagram("JOIN", p, 0, p))
        /\ \A p \in Joiners, q \in Proc :
             Datagram("REDIRECT", q, 0, p) \in Sane /\ Neutral(Datagram("REDIRECT", q, 0, p))
        /\ Datagram("OK", Nobody, 0, S) \in Sane /\ Neutral(Datagram("OK", Nobody, 0, S))
      BY Answers, Kinds1 DEF Neutral, Datagram
  <1>n. \A p \in Proc : \A e \in Own(p) : e \in Sane /\ Neutral(e)
      BY DEF Own, Neutral
  <1>1. CASE SeqSend
    <2>1. box'[m] = box[m] \/ box'[m] = Append(box[m], Head(sendQueue[S]))
        BY <1>1, <1>s DEF SeqSend, Deliver
    <2>. QED  BY <2>1, <1>s, <1>n, <1>1 DEF Idle, Base, Origins, SeqSend, Apart
  <1>2. CASE SeqReceive
      BY <1>s, <1>2, SeqReceiveDoes DEF SeqReceive, Apart, Idle
  <1>3. CASE Multicast \/ Welcoming
      BY <1>3 DEF Multicast, Welcoming, Apart
  <1>4. ASSUME NEW k \in Keys, ServeJoin(k) PROVE Apart(m) /\ Idle(m)
      BY <1>4, <1>s, <1>k DEF ServeJoin, SendTo, Serve, Apart, Deliver, Idle
  <1>5. ASSUME NEW k \in Keys, ServeLeave(k) PROVE Apart(m)
      BY <1>5, <1>s, <1>t DEF ServeLeave, Serve, Apart
  <1>6. ASSUME NEW k \in Keys, ServeLine(k) PROVE Apart(m) /\ Idle(m)
    <2>1. PICK d \in Range(fairQMap[k]) :
            /\ Serve(k, d)
            /\ d.kind \in {"LINE", "REDIRECT"}
            /\ [d EXCEPT !.from = S] \in Sane
            /\ [d EXCEPT !.from = S].kind = d.kind
            /\ \A p \in Proc : box'[p] = IF p \in Range(userList) /\ Up(p)
                                         THEN Append(box[p], [d EXCEPT !.from = S]) ELSE box[p]
            /\ UNCHANGED <<stage, userList, memberList>>
        BY <1>6, ServeLineDoes
    <2> DEFINE e == [d EXCEPT !.from = S]
    <2> HIDE DEF e
    <2>. QED  BY <1>s, <2>1 DEF Idle, Neutral, Serve, Apart
  <1>7. ASSUME NEW p \in Proc, Type(p) \/ EndInput(p) \/ PushLeave(p) PROVE Apart(m) /\ Idle(m)
      BY <1>7 DEF Type, EndInput, PushLeave, Apart, Idle
  <1>8. ASSUME NEW p \in Proc, TestDead(p), p # m PROVE Apart(m) /\ Idle(m)
      BY <1>8, <1>s, <1>t DEF TestDead, Emptied, Apart, Idle
  <1>9. ASSUME NEW p \in Joiners, Ask(p), p # m PROVE Apart(m) /\ Idle(m)
    <2>1. /\ stage'[m] = stage[m] /\ UNCHANGED <<seqVars, leaderAddress, chatVars>>
          /\ box'[m] = box[m] \/ box'[m] = Append(box[m], Datagram("JOIN", p, 0, p))
        BY <1>9, <1>s, AskDoes
    <2>. QED  BY <1>k, <2>1 DEF Apart, Idle
  <1>10. ASSUME NEW p \in Joiners, p # m, NEW n \in Nat \ {0}, NEW at \in Joining, NEW to \in {"in"} \cup Joining,
                NEW E, Take(p, at, to, n, E), known'[m] = known[m], no_of_members'[m] = no_of_members[m]
         PROVE  Apart(m) /\ Idle(m)
      BY <1>10, <1>s, TakeDoes DEF Apart, Idle
  <1>11. ASSUME NEW p \in Joiners, ConnectChat(p), p # m PROVE Apart(m) /\ Idle(m)
    <2>1. CASE TakeReply(p)
      <3>1. Take(p, "reply", "count", 1, {"OK"}) /\ UNCHANGED listVars
          BY <2>1, TakeReplyDoes
      <3>. QED  BY <1>10, <1>11, <3>1 DEF Joining
    <2>2. CASE TakeCount(p)
        BY <2>2, <1>10, <1>11, TakeCountDoes DEF Joining
    <2>3. CASE TakeUsers(p)
        BY <1>10, <1>11, <2>3, TakeUsersDoes DEF Joining
    <2>4. CASE TakeEntries(p)
        BY <1>10, <1>11, <2>4, TakeEntriesDoes DEF Joining
    <2>5. CASE TakeRedirect(p)
      <3> DEFINE e == Datagram("JOIN", p, 0, p)
                 b == Emptied(p)[m]
      <3>1. /\ box'[m] = IF m = Head(box[p]).who /\ Up(m) THEN Append(b, e) ELSE b
            /\ p # m => b = box[m]
          BY <1>s, <2>5, TakeRedirectDoes
      <3>. QED  BY <1>k, <1>11, <3>1, <2>5, TakeRedirectDoes DEF Apart, Idle
    <2>6. CASE GiveUp(p)
        BY <1>11, <1>s, <2>6, GiveUpDoes DEF Apart, Idle
    <2>. QED  BY <1>11, <2>1, <2>2, <2>3, <2>4, <2>5, <2>6 DEF ConnectChat
  <1>12. ASSUME NEW p \in Joiners, MemberSend(p) PROVE Apart(m) /\ Idle(m)
      BY <1>12, <1>s, <1>n, MemberSendDoes DEF Apart, Idle
  <1>13. ASSUME NEW p \in Joiners, MemberReceive(p), p # m PROVE Apart(m) /\ Idle(m)
      BY <1>13, <1>s, MemberReceiveDoes DEF Apart, Idle
  <1>14. ASSUME NEW p \in Joiners, p # m, NEW d, Process(p, d), stage'[m] = stage[m], box'[m] = box[m],
                known'[m] = known[m], no_of_members'[m] = no_of_members[m]
         PROVE  Apart(m) /\ Idle(m)
      BY <1>14, ProcessDoes DEF Apart, Idle
  <1>15. ASSUME NEW p \in Joiners, MemberProcess(p), p # m PROVE Apart(m) /\ Idle(m)
    <2>1. CASE Redirect(p)
      <3>1. PICK d \in Sane :
              /\ Process(p, d)
              /\ box'[m] = box[m] \/ box'[m] = Append(box[m], Datagram("REDIRECT", Contact[p], 0, p))
              /\ Contact[p] \in Proc /\ UNCHANGED <<stage, listVars>>
          BY <1>15, <1>s, <2>1, RedirectDoes
      <3>. QED  BY <1>k, <3>1, <1>15, ProcessDoes DEF Apart, Idle
    <2>2. CASE AddNotice(p)
        BY <1>15, <2>2, <1>14, AddNoticeDoes
    <2>3. CASE RemoveFromList(p)
        BY <2>3, <1>15, <1>s, <1>t, <1>14 DEF RemoveFromList, Emptied, Base, Scalars
    <2>4. CASE PrintOther(p)
        BY <2>4, <1>14, <1>15 DEF PrintOther
    <2>. QED  BY <1>15, <2>1, <2>2, <2>3, <2>4 DEF MemberProcess
  <1>16. CASE UNCHANGED Others
      BY <1>16 DEF Others, Apart, Idle
  <1>. QED  BY OthersStay, <1>1, <1>2, <1>3, <1>4, <1>5, <1>6, <1>7, <1>8, <1>9, <1>11, <1>12,
               <1>13, <1>15, <1>16
            DEF Next, SeqProcess, ByItself

-----------------------------------------------------------------------------
(***************************************************************************)
(* Nobody has heard of a joiner that is still new.                         *)
(***************************************************************************)
About(d, k) == d.kind \in {"ENTRY", "NEWUSER", "LEFT"} /\ d.who = k

Unheard(c, k) == \A x : InRow(c, x) => ~About(x, k)

Strangers ==
  \A k, m \in Joiners : New(k) => Unheard(Pipe(m), k) /\ (Staying(m) => k \notin known[m])

(* The entries are the members. *)
LEMMA EntriesListed ==
  ASSUME Base, Welcoming, NEW i \in DOMAIN Head(burst.left), Head(burst.left)[i].kind = "ENTRY"
  PROVE  Head(burst.left)[i].who \in Range(memberList)
  <1>1. memberList \in Seq(Joiners) /\ Len(memberList) \in Nat
      BY DEF Base, Lists
  <1>2. Len(burst.left) \in 1 .. 3 /\ Head(burst.left) = Welcome(memberList)[4 - Len(burst.left)]
      BY WelcomingDoes
  <1>3. /\ Welcome(memberList)[1] = <<Datagram("COUNT", Nobody, Len(memberList), S)>>
        /\ Welcome(memberList)[2] = [k \in 1 .. Len(memberList) |-> Datagram("USER", Nobody, 0, S)]
        /\ Welcome(memberList)[3] = [k \in 1 .. Len(memberList) |-> Datagram("ENTRY", memberList[k], 0, S)]
      BY <1>1, Welcomes
  <1>4. CASE Len(burst.left) = 3
      BY <1>2, <1>3, <1>4 DEF Datagram
  <1>5. CASE Len(burst.left) = 2
      BY <1>2, <1>3, <1>5 DEF Datagram
  <1>6. CASE Len(burst.left) = 1
    <2>1. i \in 1 .. Len(memberList) /\ Head(burst.left)[i].who = memberList[i]
        BY <1>2, <1>3, <1>6 DEF Datagram
    <2>. QED  BY <1>1, <2>1, InRange
  <1>. QED  BY <1>2, <1>4, <1>5, <1>6

LEMMA NewUnheard ==
  ASSUME Base, Base', Orders, Calm, ~crossed', [Next]_vars, NEW k \in Joiners, (New(k))',
         NEW m \in Joiners, NEW w \in Seq(Sane), Brings(m, w), NEW i \in DOMAIN w
  PROVE  ~About(w[i], k)
  <1>1. New(k) /\ (pending = k => pending' = k) /\ k \notin Range(memberList) /\ k # Nobody
      BY NewStep, Kinds1 DEF Calm, Rolls
  <1>2. ASSUME NEW e, w = <<e>>, ~About(e, k) PROVE ~About(w[i], k)
      BY <1>2, OneOnly
  <1>3. ASSUME NEW e, e.kind \notin {"ENTRY", "NEWUSER", "LEFT"} PROVE ~About(e, k)
      BY <1>3 DEF About
  <1>4. ASSUME NEW e \in Relays, w = <<e>> PROVE ~About(w[i], k)
      BY <1>2, <1>3, <1>4 DEF Relays
  <1>5. CASE SeqSend /\ w = <<Head(sendQueue[S])>>
    <2>1. Head(sendQueue[S]) \in Own(S)
        BY <1>5, Kinds1, TailOf DEF Base, Origins, SeqSend
    <2>. QED  BY <1>2, <1>3, <1>5, <2>1 DEF Own
  <1>6. CASE Multicast /\ w = <<Datagram("NEWUSER", pending, 0, S)>>
      BY <1>6, <1>1, <1>2, MulticastDoes DEF About, Datagram
  <1>7. CASE Welcoming /\ w = Head(burst.left)
      BY <1>1, <1>7, WelcomeKinds, EntriesListed DEF About
  <1>8. CASE w = <<Datagram("OK", Nobody, 0, S)>>
      BY <1>2, <1>3, <1>8 DEF Datagram
  <1>9. ASSUME NEW l \in Keys, ServeLeave(l), w = <<Datagram("LEFT", shift.of, 0, S)>>
        PROVE  ~About(w[i], k)
      BY <1>9, <1>1, <1>2, ServeLeaveCalm DEF Orders, Calm, About, Datagram
  <1>10. ASSUME NEW e \in Requests, w = <<e>> PROVE ~About(w[i], k)
      BY <1>2, <1>3, <1>10, Kinds1 DEF Requests, Sane
  <1>. QED  BY <1>4, <1>5, <1>6, <1>7, <1>8, <1>9, <1>10 DEF Brings

(* What a member adds to its list it was sent. *)
LEMMA KnownStep ==
  ASSUME Base, [Next]_vars, NEW m \in Joiners, m \notin strayed', NEW x \in known'[m], x \in Joiners
  PROVE  x \in known[m] \/ ~Unheard(Pipe(m), x)
  <1> DEFINE c == Pipe(m)
  <1>1. /\ c \in Row /\ c[2] = receiveQueue[m] /\ c[3] = box[m]
        /\ receiveQueue[m] \in Seq(Sane) /\ box[m] \in Seq(Sane)
      BY PipeRow
  <1>2. x \notin {Nobody}
      BY Kinds1
  <1> HIDE DEF c
  <1>3. ASSUME NEW y, InRow(c, y), About(y, x) PROVE ~Unheard(c, x)
      BY <1>3 DEF Unheard
  <1>4. CASE TakeEntries(m)
      BY <1>4, <1>3, <1>1, TakeEntriesDoes, TakeDoes, SMTT(30) DEF Joining, c, Named, About, InRow
  <1>5. CASE AddNotice(m)
    <2>1. PICK d \in Sane : d.kind = "NEWUSER" /\ Process(m, d) /\ known'[m] = known[m] \cup {d.who}
        BY <1>5, AddNoticeDoes
    <2>2. CASE x = d.who
        BY <2>1, <1>1, <2>2, <1>3, ProcessDoes, TailOf DEF InRow, About, c
    <2>. QED  BY <2>1, <2>2
  <1>6. CASE RemoveFromList(m)
      BY <1>6, RemoveFromListDoes
  <1>7. CASE known'[m] = known[m]
      BY <1>7
  <1>8. CASE Ask(m) \/ TakeReply(m) \/ TakeRedirect(m) \/ TakeCount(m) \/ TakeUsers(m) \/ GiveUp(m)
             \/ MemberReceive(m) \/ Redirect(m) \/ PrintOther(m) \/ TestDead(m)
    <2>1. known' = known
        BY <1>8 DEF Ask, TakeReply, TakeRedirect, TakeCount, TakeUsers, GiveUp, MemberReceive, Redirect,
                    PrintOther, TestDead
    <2>. QED  BY <2>1
  <1>9. CASE Apart(m)
      BY <1>9 DEF Apart
  <1>. QED  BY <1>4, <1>5, <1>6, <1>8, <1>9, MineStep DEF ByItself, ConnectChat, MemberProcess

LEMMA NextStrangers ==
  ASSUME Base, Base', Orders, Calm, Strangers, ~crossed', [Next]_vars
  PROVE  Strangers'
  <1> SUFFICES ASSUME NEW k \in Joiners, NEW m \in Joiners, (New(k))'
               PROVE  Unheard(Pipe(m)', k) /\ ((Staying(m))' => k \notin known'[m])
    <2>. QED  BY DEF Strangers, New, NoTicket, IsTicket, Places
  <1> DEFINE c == Pipe(m)
             d == Pipe(m)'
  <1>1. PICK w \in Seq(Sane) : Changes(c, d, w, Keep(m)) /\ (w = << >> \/ Brings(m, w))
      BY PipeStep DEF PipeChanges
  <1>2. New(k)
      BY NewStep DEF Calm
  <1>3. Unheard(c, k) /\ (Staying(m) => k \notin known[m])
      BY <1>2 DEF Strangers
  <1>4. (Staying(m))' => k \notin known'[m]
    <2>1. SUFFICES ASSUME (Staying(m))', k \in known'[m] PROVE FALSE
        OBVIOUS
    <2>. QED  BY <1>3, <2>1, KnownStep, StayingStep DEF Staying
  <1> HIDE DEF c, d
  <1>5. ASSUME NEW i \in DOMAIN w PROVE ~About(w[i], k)
      BY <1>5, <1>1, NewUnheard
  <1>6. Unheard(d, k)
      BY <1>3, <1>5, <1>1, ChangesIn DEF Unheard
  <1>. QED  BY <1>4, <1>6 DEF d

(* From another joiner a member gets nothing but requests to join and      *)
(* redirections.                                                           *)
OnlyAsks(c) == \A x : InRow(c, x) /\ x.from \in Joiners => x.kind \in {"JOIN", "REDIRECT"}

Direct == \A m \in Joiners : OnlyAsks(Pipe(m))

LEMMA NextDirect ==
  ASSUME Base, Base', Direct, ~crossed', [Next]_vars
  PROVE  Direct'
  <1> SUFFICES ASSUME NEW m \in Joiners PROVE OnlyAsks(Pipe(m)')
      BY DEF Direct
  <1> DEFINE c == Pipe(m)
             d == Pipe(m)'
  <1>1. PICK w \in Seq(Sane) : Changes(c, d, w, Keep(m)) /\ (w = << >> \/ Brings(m, w))
      BY PipeStep DEF PipeChanges
  <1>2. OnlyAsks(c)
      BY DEF Direct
  <1> HIDE DEF c, d
  <1>s. S \notin Joiners
      BY Kinds1
  <1>3. ASSUME Brings(m, w), NEW i \in DOMAIN w, w[i].from \in Joiners PROVE w[i].kind \in {"JOIN", "REDIRECT"}
    <2>1. ASSUME NEW e, w = <<e>>, e.from = S PROVE FALSE
        BY <1>3, <1>s, <2>1, OneOnly
    <2>2. ASSUME NEW e \in Relays, w = <<e>> PROVE FALSE
        BY <2>1, <2>2 DEF Relays
    <2>3. CASE SeqSend /\ w = <<Head(sendQueue[S])>>
      <3>1. Head(sendQueue[S]) \in Own(S)
          BY <2>3, Kinds1, TailOf DEF Base, Origins, SeqSend
      <3>. QED  BY <2>1, <2>3, <3>1 DEF Own
    <2>4. CASE w = <<Datagram("NEWUSER", pending, 0, S)>> \/ w = <<Datagram("OK", Nobody, 0, S)>>
               \/ w = <<Datagram("LEFT", shift.of, 0, S)>>
        BY <2>1, <2>4 DEF Datagram
    <2>5. CASE Welcoming /\ w = Head(burst.left)
        BY <2>5, <1>3, <1>s, WelcomeKinds DEF Sane
    <2>6. ASSUME NEW e \in Requests, w = <<e>>, e.kind \in {"JOIN", "REDIRECT"} \/ crossed'
          PROVE  w[i].kind \in {"JOIN", "REDIRECT"}
        BY <2>6, OneOnly
    <2>. QED  BY <1>3, <2>2, <2>3, <2>4, <2>5, <2>6 DEF Brings
  <1>4. ASSUME NEW i \in DOMAIN w, w[i].from \in Joiners PROVE w[i].kind \in {"JOIN", "REDIRECT"}
      BY <1>4, <1>1, <1>3
  <1>5. OnlyAsks(d)
      BY <1>2, <1>4, <1>1, ChangesIn DEF OnlyAsks
  <1>. QED  BY <1>5 DEF d

-----------------------------------------------------------------------------
(***************************************************************************)
(* What a member is told adds up to the sequencer's list.  Seen is this of *)
(* a joiner m: list is the sequencer's, to whom multicast is welcoming, st *)
(* m's stage, b its buffer, q its receiveQueue, L and no what it knows.    *)
(***************************************************************************)
Seen(m, list, to, st, b, q, L, no) ==
  IF m \notin Range(list) THEN st \in {"reply", "count"}
  ELSE IF to = m THEN Expecting(b, st, no, Len(list))
  ELSE IF st # "in" THEN Welcomed(b, st, no, Range(list))
  ELSE Informed(q \o b, L, no, Range(list))

View(m) == Seen(m, memberList, burst.to, stage[m], box[m], receiveQueue[m], known[m], no_of_members[m])

Views == \A m \in Joiners : Staying(m) /\ stage[m] # "out" => View(m)

(* Whoever a member takes for the sequencer and is not is none it knows.   *)
LeaderNew ==
  \A m \in Joiners : Staying(m) /\ stage[m] = "in" /\ leaderAddress[m] # S =>
    /\ leaderAddress[m] \notin known[m]
    /\ \A i \in DOMAIN receiveQueue[m] :
         ~ (receiveQueue[m][i].kind = "NEWUSER" /\ receiveQueue[m][i].who = leaderAddress[m])

(* A redirection is waiting for none of the members. *)
LEMMA TicketsAtHome ==
  ASSUME Base, NEW m \in Joiners
  PROVE  /\ \A i \in DOMAIN box[m] : /\ box[m][i].kind = "REDIRECT" => New(m)
                                     /\ box[m][i].kind = "JOIN" => New(box[m][i].who)
         /\ \A i \in DOMAIN receiveQueue[m] : receiveQueue[m][i].kind = "JOIN" => New(receiveQueue[m][i].who)
  <1>1. /\ <<m, "box">> \in Places /\ At[<<m, "box">>] = box[m]
        /\ <<m, "queue">> \in Places /\ At[<<m, "queue">>] = receiveQueue[m]
      BY AtRow, Kinds1
  <1>2. ASSUME NEW p, NEW pl \in Places, NEW i \in DOMAIN At[pl], IsTicket(At[pl][i], pl, p) PROVE New(p)
      BY <1>2 DEF New, NoTicket
  <1>3. ASSUME NEW i \in DOMAIN box[m], box[m][i].kind = "REDIRECT" PROVE New(m)
      BY <1>1, <1>2, <1>3 DEF IsTicket
  <1>4. ASSUME NEW i \in DOMAIN box[m], box[m][i].kind = "JOIN" PROVE New(box[m][i].who)
      BY <1>1, <1>2, <1>4 DEF IsTicket
  <1>5. ASSUME NEW i \in DOMAIN receiveQueue[m], receiveQueue[m][i].kind = "JOIN" PROVE New(receiveQueue[m][i].who)
      BY <1>1, <1>2, <1>5 DEF IsTicket
  <1>. QED  BY <1>3, <1>4, <1>5

LEMMA NextLeaderNew ==
  ASSUME Base, Base', Calm, Strangers, Direct, Views, LeaderNew, ~crossed', [Next]_vars
  PROVE  LeaderNew'
  <1> SUFFICES ASSUME NEW m \in Joiners, (Staying(m))', stage'[m] = "in", leaderAddress'[m] # S
               PROVE  /\ leaderAddress'[m] \notin known'[m]
                      /\ \A i \in DOMAIN receiveQueue'[m] :
                           ~ (receiveQueue'[m][i].kind = "NEWUSER" /\ receiveQueue'[m][i].who = leaderAddress'[m])
      BY DEF LeaderNew
  <1>s. Staying(m) /\ m \notin strayed' /\ S \in Proc /\ S \notin Joiners /\ m \in Proc /\ m # S
        /\ \A p \in Proc : p = S \/ p \in Joiners
      BY StayingStep, Kinds1 DEF Staying
  <1>t. box[m] \in Seq(Sane) /\ receiveQueue[m] \in Seq(Sane)
      BY <1>s DEF Base, Origins, Boxed
  <1>l. stage[m] = "in" /\ leaderAddress[m] # S =>
          /\ leaderAddress[m] \notin known[m]
          /\ \A i \in DOMAIN receiveQueue[m] :
               ~ (receiveQueue[m][i].kind = "NEWUSER" /\ receiveQueue[m][i].who = leaderAddress[m])
      BY <1>s DEF LeaderNew
  <1>1. CASE Apart(m)
      BY <1>1, <1>l DEF Apart
  <1>2. CASE Ask(m)
      BY <1>2, AskDoes
  <1>3. ASSUME NEW at \in Joining, NEW to \in {"in"} \cup Joining, NEW n \in Nat \ {0}, NEW E, Take(m, at, to, n, E),
               to = "in" => E \in {{"COUNT"}, {"ENTRY"}}
        PROVE  FALSE
    <2>1. Base /\ Take(m, at, to, n, E)
        BY <1>s, <1>3
    <2>2. /\ n <= Len(box[m]) /\ stage'[m] = to /\ leaderAddress'[m] = box[m][n].from
          /\ m \notin strayed' => \A i \in 1 .. n : box[m][i].kind \in E
        BY <1>3, <2>1, TakeDoes
    <2>3. to = "in" /\ E \in {{"COUNT"}, {"ENTRY"}} /\ box[m][n].kind \in E
        BY <1>3, <1>s, <2>2
    <2>4. box[m][n] \in Sane
        BY <1>t, <2>2
    <2>. QED  BY <2>2, <2>3, <2>4 DEF Sane
  <1>4. CASE ConnectChat(m)
    <2>1. CASE TakeReply(m)
      <3>1. Take(m, "reply", "count", 1, {"OK"})
          BY <2>1, TakeReplyDoes
      <3>. QED  BY <1>3, <3>1 DEF Joining
    <2>2. CASE TakeCount(m)
      <3>1. PICK n \in Nat : Take(m, "count", IF n = 0 THEN "in" ELSE "users", 1, {"COUNT"})
          BY <2>2, TakeCountDoes
      <3>2. (IF n = 0 THEN "in" ELSE "users") \in {"in"} \cup Joining
          BY DEF Joining
      <3>. QED  BY <1>3, <3>1, <3>2 DEF Joining
    <2>3. CASE TakeUsers(m)
        BY <1>3, <2>3, TakeUsersDoes DEF Joining
    <2>4. CASE TakeEntries(m)
        BY <1>3, <2>4, TakeEntriesDoes DEF Joining
    <2>5. CASE TakeRedirect(m)
        BY <2>5, TakeRedirectDoes
    <2>6. CASE GiveUp(m)
        BY <2>6, GiveUpDoes
    <2>. QED  BY <1>4, <2>1, <2>2, <2>3, <2>4, <2>5, <2>6 DEF ConnectChat
  <1>5. CASE MemberReceive(m)
    <2> DEFINE h == Head(box[m])
    <2>1. /\ stage[m] = "in" /\ box[m] # << >> /\ leaderAddress'[m] = h.from
          /\ receiveQueue'[m] = Append(receiveQueue[m], h) /\ UNCHANGED listVars
        BY <1>5, MemberReceiveDoes
    <2>2. h = box[m][1] /\ 1 \in DOMAIN box[m] /\ h \in Sane
        BY <1>t, <2>1, TailOf
    <2>3. h.from \in Proc
        BY <2>2 DEF Sane, Datagrams
    <2>4. h.kind \in {"JOIN", "REDIRECT"}
        BY <1>s, <2>1, <2>3, <2>2, PipeRow DEF Direct, OnlyAsks, InRow
    <2>5. h.kind = "JOIN" /\ h.who = h.from /\ h.from \in Joiners /\ New(h.from)
        BY <2>2, <2>4, <2>1, <1>s, TicketsAtHome DEF Sane, Calm, Rolls, Views, View, Seen
    <2>6. h.from \notin known[m] /\ Unheard(Pipe(m), h.from)
        BY <1>s, <2>5 DEF Strangers
    <2>7. ASSUME NEW i \in DOMAIN receiveQueue[m] PROVE ~ (receiveQueue[m][i].kind = "NEWUSER" /\ receiveQueue[m][i].who = h.from)
        BY <2>6, PipeRow DEF InRow, Unheard, About
    <2> HIDE DEF h
    <2>. QED  BY <2>1, <2>5, <2>6, <2>7, <1>t, <2>2
  <1>6. CASE MemberProcess(m)
    <2>1. PICK d : Process(m, d)
        BY <1>6 DEF MemberProcess, Redirect, AddNotice, RemoveFromList, PrintOther
    <2>2. /\ stage[m] = "in" /\ leaderAddress' = leaderAddress /\ receiveQueue[m] # << >>
          /\ receiveQueue'[m] = Tail(receiveQueue[m])
        BY <2>1, ProcessDoes
    <2>3. leaderAddress[m] \notin known'[m]
      <3>1. CASE AddNotice(m)
        <4>1. PICK e \in Sane : e.kind = "NEWUSER" /\ Process(m, e) /\ known'[m] = known[m] \cup {e.who}
            BY <3>1, AddNoticeDoes
        <4>. QED  BY <1>l, <2>2, <4>1, <1>t, TailOf, ProcessDoes
      <3>2. CASE RemoveFromList(m)
          BY <3>2, <1>l, <2>2, RemoveFromListDoes
      <3>3. CASE Redirect(m) \/ PrintOther(m)
          BY <3>3, <1>l, <2>2 DEF Redirect, PrintOther
      <3>. QED  BY <1>6, <3>1, <3>2, <3>3 DEF MemberProcess
    <2>. QED  BY <1>l, <2>2, <2>3, <1>t
  <1>7. CASE TestDead(m)
      BY <1>7, <1>s DEF TestDead, Base, Scalars
  <1>. QED  BY <1>1, <1>2, <1>4, <1>5, <1>6, <1>7, MineStep DEF ByItself

(* A datagram comes, by which the members become those of list2. *)
LEMMA SeenMore ==
  ASSUME NEW m, NEW list, NEW list2 \in Seq(Joiners), NEW to, NEW to2, NEW st, NEW b \in Seq(Sane),
         NEW q \in Seq(Sane), NEW L, NEW no, Seen(m, list, to, st, b, q, L, no),
         NEW e \in Sane, e.kind \notin {"ENTRY", "COUNT"}, Told(Range(list), e, Range(list2)),
         m \in Range(list) <=> m \in Range(list2), to # m, to2 # m
  PROVE  Seen(m, list2, to2, st, Append(b, e), q, L, no)
  <1> DEFINE M == Range(list)
             N == Range(list2)
  <1>1. N \in SUBSET Joiners
      BY InRange
  <1>2. CASE m \notin M
      BY <1>2 DEF Seen
  <1>3. CASE m \in M /\ st # "in"
      BY <1>3, <1>1, WelcomedMore DEF Seen, M, N
  <1>4. CASE m \in M /\ st = "in"
    <2>1. q \o b \in Seq(Sane) /\ Append(q \o b, e) = q \o Append(b, e)
        BY SMTT(30)
    <2> HIDE DEF M, N
    <2>. QED  BY <1>4, <2>1, <1>1, InformedMore DEF Seen, M, N
  <1>. QED  BY <1>2, <1>3, <1>4

LEMMA SeenNeutral ==
  ASSUME NEW m, NEW list \in Seq(Joiners), NEW to, NEW st, NEW b \in Seq(Sane), NEW q \in Seq(Sane),
         NEW L, NEW no, Seen(m, list, to, st, b, q, L, no), NEW e \in Sane, Neutral(e)
  PROVE  Seen(m, list, to, st, Append(b, e), q, L, no)
  <1>1. e.kind \notin {"ENTRY", "COUNT", "NEWUSER", "LEFT"}
      BY DEF Neutral
  <1>2. CASE to # m
      BY <1>1, <1>2, SeenMore DEF Told
  <1>3. CASE m \notin Range(list)
      BY <1>3 DEF Seen
  <1>4. CASE to = m /\ m \in Range(list)
    <2> DEFINE n == Len(list)
               c == Append(b, e)
    <2>1. Expecting(b, st, no, n)
        BY <1>4 DEF Seen
    <2>2. \A i \in DOMAIN c : (i \in DOMAIN b /\ c[i] = b[i]) \/ c[i] = e
        OBVIOUS
    <2>3. st # "in"
        BY <2>1 DEF Expecting
    <2> HIDE DEF c, n
    <2>. QED  BY <1>4, <2>1, <2>3, <1>1, <2>2, ExpectingStill DEF Seen, c, n
  <1>. QED  BY <1>2, <1>3, <1>4

(* multicast lists it. *)
LEMMA SeenFirst ==
  ASSUME NEW m, NEW list, NEW list2, m \notin Range(list), m \in Range(list2),
         NEW to, NEW st, NEW b, NEW q, NEW L, NEW no, Seen(m, list, to, st, b, q, L, no),
         \A i \in DOMAIN b : Neutral(b[i])
  PROVE  Seen(m, list2, m, st, b, q, L, no)
  <1>. QED  BY DEF Seen, Expecting, Bears, Neutral

(* The count comes, or the members as lines to print. *)
LEMMA SeenGreeted ==
  ASSUME NEW m, NEW list, m \in Range(list), NEW st, NEW b \in Seq(Sane), NEW q, NEW L, NEW no,
         Seen(m, list, m, st, b, q, L, no), NEW w \in Seq(Sane),
         \A i \in DOMAIN w : w[i].kind = "USER" \/ (w[i].kind = "COUNT" /\ w[i].n = Len(list))
  PROVE  Seen(m, list, m, st, b \o w, q, L, no)
  <1> DEFINE n == Len(list)
             c == b \o w
  <1>1. Expecting(b, st, no, n)
      BY DEF Seen
  <1>2. st # "in"
      BY <1>1 DEF Expecting
  <1>3. \A i \in DOMAIN c : \/ i \in DOMAIN b /\ c[i] = b[i]
                            \/ i - Len(b) \in DOMAIN w /\ c[i] = w[i - Len(b)]
      BY Joined
  <1> HIDE DEF c
  <1>4. \A i \in DOMAIN c : \/ \E j \in DOMAIN b : c[i] = b[j]
                            \/ /\ c[i].kind \notin {"ENTRY", "NEWUSER", "LEFT"}
                               /\ c[i].kind = "COUNT" => c[i].n = n
      BY <1>3
  <1> HIDE DEF n
  <1>5. Expecting(c, st, no, n)
      BY <1>1, <1>2, <1>4, ExpectingStill
  <1>. QED  BY <1>5 DEF Seen, c, n

(* The entries come. *)
LEMMA SeenEntries ==
  ASSUME NEW m, NEW list \in Seq(Joiners), IsInjective(list), m \in Range(list), NEW to2, to2 # m,
         NEW st, NEW b \in Seq(Sane), NEW q, NEW L, NEW no, Seen(m, list, m, st, b, q, L, no),
         NEW w, w = [i \in 1 .. Len(list) |-> Datagram("ENTRY", list[i], 0, S)], w \in Seq(Sane)
  PROVE  Seen(m, list, to2, st, b \o w, q, L, no)
  <1> DEFINE n == Len(list)
             c == b \o w
  <1>1. list # << >> /\ Len(list) \in Nat /\ Len(w) = Len(list)
      BY InRange
  <1>2. EntriesAfter(b, list, c) /\ c \in Seq(Sane)
      BY <1>1 DEF EntriesAfter
  <1> HIDE DEF c
  <1>. QED  BY <1>1, <1>2, WelcomedNow DEF Seen, c, Expecting

LEMMA ViewParts ==
  ASSUME Base, Rolls, NEW m \in Joiners
  PROVE  /\ m \in Proc /\ m # S /\ m # Nobody /\ box[m] \in Seq(Sane) /\ receiveQueue[m] \in Seq(Sane)
         /\ memberList \in Seq(Joiners) /\ IsInjective(memberList) /\ Len(memberList) \in Nat
         /\ \A j \in Range(memberList) : Range(RemoveFirst(memberList, j)) = Range(memberList) \ {j}
         /\ \A j \in Joiners : Range(Append(memberList, j)) = Range(memberList) \cup {j}
         /\ New(m) => m \notin Range(memberList)
  BY OneList, Kinds1, SMTT(30) DEF Base, Origins, Boxed, Lists, Rolls

(* multicast lists a joiner and tells the others. *)
LEMMA ViewMulticast ==
  ASSUME Base, Base', Calm, Answered, ~crossed', Multicast, NEW m \in Joiners, Apart(m),
         stage[m] \notin {"out", "gone"}, View(m)
  PROVE  (View(m))'
  <1> DEFINE p == pending
             b == box[m]
             e == Datagram("NEWUSER", p, 0, S)
  <1>1. /\ p \in Joiners /\ theirAddress = p /\ burst.left = << >> /\ userList = memberList
        /\ memberList' = Append(memberList, p) /\ memberList' \in Seq(Joiners)
        /\ burst'.to = p
        /\ box'[m] = IF p \notin Range(userList) /\ m \in Range(userList) THEN Append(b, e) ELSE b
    <2>1. theirAddress = pending
        BY MulticastDoes
    <2>. QED  BY <2>1, MulticastDoes, Kinds1 DEF Calm, Rolls, Up
  <1>2. /\ m # Nobody /\ b \in Seq(Sane) /\ receiveQueue[m] \in Seq(Sane) /\ memberList \in Seq(Joiners)
        /\ Range(memberList') = Range(memberList) \cup {p}
      BY <1>1, ViewParts DEF Calm
  <1>3. New(p) /\ p \notin Range(memberList)
      BY <1>1 DEF New, Calm, Rolls
  <1>4. Seen(m, memberList, Nobody, stage[m], b, receiveQueue[m], known[m], no_of_members[m])
      BY <1>1 DEF View, Base, Serving
  <1>5. /\ stage'[m] = stage[m] /\ receiveQueue'[m] = receiveQueue[m] /\ known'[m] = known[m]
        /\ no_of_members'[m] = no_of_members[m]
      BY DEF Apart
  <1>6. CASE m = p
    <2>1. \A i \in DOMAIN b : Neutral(b[i])
      <3>1. SUFFICES ASSUME NEW i \in DOMAIN b PROVE Neutral(b[i])
          OBVIOUS
      <3>2. InRow(Pipe(m), b[i]) /\ b[i] \in Sane
          BY <1>2, PipeRow DEF InRow
      <3>. QED  BY <3>2, <1>3, <1>6 DEF Sane, Neutral, OnlyOK, Answered
    <2> HIDE DEF b
    <2>2. Seen(m, memberList', m, stage[m], b, receiveQueue[m], known[m], no_of_members[m])
        BY <1>4, <2>1, <1>2, <1>3, <1>6, SeenFirst
    <2>. QED  BY <1>1, <1>5, <1>6, <2>2, <1>3 DEF View
  <1>7. CASE m # p /\ m \notin Range(memberList)
      BY <1>2, <1>4, <1>7, <1>5 DEF Seen, View
  <1>8. CASE m # p /\ m \in Range(memberList)
    <2>1. box'[m] = Append(b, e) /\ burst'.to # m
        BY <1>1, <1>3, <1>8
    <2>2. e \in Sane /\ e.kind = "NEWUSER" /\ e.who = p
        BY <1>1, Answers DEF Datagram
    <2> DEFINE list2 == memberList'
               to2 == burst'.to
    <2>3. list2 \in Seq(Joiners) /\ Told(Range(memberList), e, Range(list2)) /\ to2 # m
          /\ (m \in Range(memberList) <=> m \in Range(list2))
        BY <1>1, <2>1, <1>2, <1>8, <2>2 DEF Told
    <2> HIDE DEF b, e, list2, to2
    <2>4. Seen(m, list2, to2, stage[m], Append(b, e), receiveQueue[m], known[m], no_of_members[m])
        BY <1>2, <1>4, <2>2, <2>3, SeenMore
    <2>. QED  BY <1>5, <2>1, <2>4 DEF View, list2, to2
  <1>. QED  BY <1>6, <1>7, <1>8

(* seqProcessMessage takes a member off the list and tells the others. *)
LEMMA ViewLeave ==
  ASSUME Base, Base', Paths, Calm, ~crossed', NEW k \in Keys, ServeLeave(k), NEW m \in Joiners, Apart(m),
         stage[m] \notin {"out", "gone"}, bye[m] # "sent", View(m)
  PROVE  (View(m))'
  <1>1. PICK j \in Joiners :
          /\ shift.of = j /\ burst.to = Nobody /\ UNCHANGED burst
          /\ j \in Range(memberList) /\ memberList' = RemoveFirst(memberList, j) /\ userList' = memberList'
          /\ bye[j] = "sent"
      BY ServeLeaveCalm DEF Calm
  <1> DEFINE b == box[m]
             e == Datagram("LEFT", j, 0, S)
             list2 == memberList'
  <1>2. /\ m # Nobody /\ m \in Proc /\ b \in Seq(Sane) /\ receiveQueue[m] \in Seq(Sane)
        /\ Range(list2) = Range(memberList) \ {j} /\ list2 \in Seq(Joiners)
      BY <1>1, ViewParts DEF Base, Lists, Calm
  <1>3. Seen(m, memberList, Nobody, stage[m], b, receiveQueue[m], known[m], no_of_members[m])
      BY <1>1 DEF View
  <1>4. /\ stage'[m] = stage[m] /\ receiveQueue'[m] = receiveQueue[m] /\ known'[m] = known[m]
        /\ no_of_members'[m] = no_of_members[m] /\ burst'.to = Nobody
      BY <1>1 DEF Apart
  <1>5. m \in Range(memberList) <=> m \in Range(list2)
      BY <1>1, <1>2
  <1>6. CASE m \notin Range(memberList)
      BY <1>3, <1>5, <1>6, <1>4 DEF Seen, View
  <1>7. CASE m \in Range(memberList)
    <2>1. box'[m] = Append(b, e)
        BY <1>5, <1>7, <1>1, <1>2, ServeLeaveDoes DEF Up
    <2>2. e \in Sane /\ e.kind = "LEFT" /\ e.who = j
        BY Answers DEF Datagram
    <2> HIDE DEF b, e, list2
    <2>3. Seen(m, list2, Nobody, stage[m], Append(b, e), receiveQueue[m], known[m], no_of_members[m])
        BY <1>2, <1>3, <1>5, <2>2, <1>1, SeenMore DEF Told
    <2>. QED  BY <1>4, <2>1, <2>3 DEF View, list2
  <1>. QED  BY <1>6, <1>7

(* multicast welcomes a joiner. *)
LEMMA ViewWelcoming ==
  ASSUME Base, Base', Calm, Welcoming, NEW m \in Joiners, Apart(m),
         stage[m] \notin {"out", "gone"}, View(m)
  PROVE  (View(m))'
  <1> DEFINE b == box[m]
             w == Head(burst.left)
             n == Len(memberList)
  <1>1. /\ burst.to \in Joiners /\ Len(burst.left) \in 1 .. 3 /\ memberList' = memberList
        /\ w = Welcome(memberList)[4 - Len(burst.left)] /\ w \in Seq(Sane)
        /\ box'[m] = IF m = burst.to THEN b \o w ELSE b
        /\ burst'.to = IF Len(burst.left) = 1 THEN Nobody ELSE burst.to
    <2>1. burst'.to = IF Len(burst.left) = 1 THEN Nobody ELSE burst.to
      <3>1. \/ /\ Len(burst.left) = 1
               /\ burst' = [to |-> Nobody, left |-> << >>]
            \/ /\ Len(burst.left) \in 2 .. 3
               /\ burst' = [burst EXCEPT !.left = Tail(burst.left)]
               /\ burst'.to = burst.to /\ burst'.left = Tail(burst.left)
          BY WelcomingDoes
      <3>. QED  BY <3>1
    <2>. QED  BY <2>1, WelcomingDoes, Kinds1 DEF Up
  <1>2. /\ m # Nobody /\ m \in Proc /\ b \in Seq(Sane) /\ receiveQueue[m] \in Seq(Sane)
        /\ memberList \in Seq(Joiners) /\ IsInjective(memberList) /\ n \in Nat
        /\ burst.to \in Range(memberList)
      BY <1>1, Kinds1, ViewParts DEF Calm, Rolls
  <1>3. Seen(m, memberList, burst.to, stage[m], b, receiveQueue[m], known[m], no_of_members[m])
      BY DEF View
  <1>4. /\ stage'[m] = stage[m] /\ receiveQueue'[m] = receiveQueue[m] /\ known'[m] = known[m]
        /\ no_of_members'[m] = no_of_members[m]
      BY DEF Apart
  <1>5. CASE m # burst.to
      BY <1>1, <1>2, <1>5, <1>3, <1>4 DEF Seen, View
  <1>6. CASE m = burst.to
    <2>1. /\ Welcome(memberList)[1] = <<Datagram("COUNT", Nobody, n, S)>>
          /\ Welcome(memberList)[2] = [k \in 1 .. n |-> Datagram("USER", Nobody, 0, S)]
          /\ Welcome(memberList)[3] = [k \in 1 .. n |-> Datagram("ENTRY", memberList[k], 0, S)]
        BY <1>2, Welcomes
    <2>2. Seen(m, memberList, m, stage[m], b, receiveQueue[m], known[m], no_of_members[m])
        BY <1>3, <1>6
    <2>3. box'[m] = b \o w /\ m \in Range(memberList)
        BY <1>1, <1>2, <1>6
    <2>4. ASSUME Len(burst.left) # 1, \A i \in DOMAIN w : w[i].kind = "USER" \/ (w[i].kind = "COUNT" /\ w[i].n = n)
          PROVE  (View(m))'
      <3> HIDE DEF b, w
      <3>1. Seen(m, memberList, m, stage[m], b \o w, receiveQueue[m], known[m], no_of_members[m])
          BY <1>1, <1>2, <2>2, <2>3, <2>4, SeenGreeted
      <3>. QED  BY <1>1, <1>4, <2>3, <3>1, <1>6, <2>4 DEF View
    <2>5. CASE Len(burst.left) = 3
        BY <1>1, <2>1, <2>5, <2>4, OneOnly DEF Datagram
    <2>6. CASE Len(burst.left) = 2
      <3>1. w = [k \in 1 .. n |-> Datagram("USER", Nobody, 0, S)]
          BY <1>1, <2>1, <2>6
      <3>2. \A i \in DOMAIN w : w[i].kind = "USER"
          BY <3>1 DEF Datagram
      <3> HIDE DEF w
      <3>. QED  BY <2>6, <3>2, <2>4
    <2>7. CASE Len(burst.left) = 1
      <3> HIDE DEF b, w
      <3>1. Seen(m, memberList, Nobody, stage[m], b \o w, receiveQueue[m], known[m], no_of_members[m])
          BY <1>1, <1>2, <2>2, <2>3, <2>1, <2>7, SeenEntries, SMTT(30)
      <3>. QED  BY <1>1, <1>4, <2>3, <3>1, <2>7 DEF View
    <2>. QED  BY <1>1, <2>5, <2>6, <2>7
  <1>. QED  BY <1>5, <1>6

(* connectChat takes the first k datagrams of the buffer, no entries. *)
LEMMA SeenTakes ==
  ASSUME NEW m, NEW list, m \in Range(list), NEW to, NEW st, st # "in", NEW sto, sto # "in",
         NEW b \in Seq(Sane), NEW c \in Seq(Sane), NEW q, NEW r, NEW L, NEW N, NEW no, NEW noto,
         Seen(m, list, to, st, b, q, L, no), NEW k, Rest(b, k, c), \A i \in 1 .. k : b[i].kind # "ENTRY",
         sto \in {"users", "entries"} => \/ st \in {"users", "entries"} /\ noto = no
                                         \/ \E i \in DOMAIN b : b[i].kind = "COUNT" /\ noto = b[i].n
  PROVE  Seen(m, list, to, sto, c, r, N, noto)
  <1>1. CASE to = m
    <2> DEFINE n == Len(list)
    <2>1. \A i \in DOMAIN c : \E j \in DOMAIN b : c[i] = b[j]
        BY DEF Rest
    <2> HIDE DEF n
    <2>. QED  BY <1>1, <2>1, ExpectingStill DEF Seen, n
  <1>2. CASE to # m
    <2> DEFINE M == Range(list)
    <2> HIDE DEF M
    <2>. QED  BY <1>2, WelcomedTakes DEF Seen, M
  <1>. QED  BY <1>1, <1>2

(* The count is that of the entries. *)
LEMMA SeenCount ==
  ASSUME NEW m, NEW list \in Seq(Joiners), m \in Range(list), NEW to, NEW st, st # "in", NEW b, NEW q, NEW L, NEW no,
         Seen(m, list, to, st, b, q, L, no), NEW i \in DOMAIN b, b[i].kind = "COUNT"
  PROVE  b[i].n # 0
  <1>1. CASE to = m
      BY <1>1, InRange DEF Seen, Expecting, Bears
  <1>2. CASE to # m
      BY <1>2 DEF Seen, Welcomed, Block, Bears
  <1>. QED  BY <1>1, <1>2

LEMMA RestOf ==
  ASSUME NEW b \in Seq(Sane), NEW k \in Nat, k <= Len(b)
  PROVE  Rest(b, k, SubSeq(b, k + 1, Len(b))) /\ SubSeq(b, k + 1, Len(b)) \in Seq(Sane)
  BY Ends DEF Rest

LEMMA TakesRest ==
  ASSUME Base, NEW m \in Joiners, NEW at \in Joining, NEW to \in {"in"} \cup Joining, NEW n \in Nat \ {0}, NEW E,
         Take(m, at, to, n, E), m \notin strayed'
  PROVE  /\ stage[m] = at /\ stage'[m] = to /\ Rest(box[m], n, box'[m]) /\ n <= Len(box[m])
         /\ \A i \in 1 .. n : i \in DOMAIN box[m] /\ box[m][i].kind \in E
         /\ UNCHANGED <<memberList, burst, receiveQueue>>
  <1>s. m \in Proc /\ box \in [Proc -> Seq(Sane)] /\ stage \in [Proc -> {"out", "in", "gone"} \cup Joining]
      BY Kinds1 DEF Base, Origins, Boxed, Scalars
  <1>. QED  BY <1>s, TakeDoes, RestOf DEF Take

LEMMA ViewConnects ==
  ASSUME Base, Base', Calm, Answered, NEW m \in Joiners, ConnectChat(m), m \notin strayed', bye[m] # "sent",
         stage'[m] # "gone", View(m)
  PROVE  (View(m))'
  <1> DEFINE b == box[m]
             c == box'[m]
             no == no_of_members[m]
  <1>1. /\ b \in Seq(Sane) /\ c \in Seq(Sane) /\ memberList \in Seq(Joiners) /\ m \in Proc
        /\ (New(m) => m \notin Range(memberList))
      BY ViewParts DEF Calm, Base, Origins, Boxed
  <1>2. Seen(m, memberList, burst.to, stage[m], b, receiveQueue[m], known[m], no)
      BY DEF View
  <1>3. ASSUME NEW at \in Joining, NEW to \in {"in"} \cup Joining, NEW n \in Nat \ {0}, NEW E, Take(m, at, to, n, E)
        PROVE  /\ stage[m] = at /\ stage'[m] = to /\ Rest(b, n, c) /\ n <= Len(b)
               /\ \A i \in 1 .. n : i \in DOMAIN b /\ b[i].kind \in E
               /\ UNCHANGED <<memberList, burst, receiveQueue>>
      BY <1>3, TakesRest
  <1>4. ASSUME NEW at \in Joining, NEW to \in Joining, NEW n \in Nat \ {0}, NEW E, Take(m, at, to, n, E),
               "ENTRY" \notin E, m \in Range(memberList),
               to \in {"users", "entries"} =>
                 \/ at \in {"users", "entries"} /\ no_of_members'[m] = no
                 \/ \E i \in DOMAIN b : b[i].kind = "COUNT" /\ no_of_members'[m] = b[i].n
        PROVE  (View(m))'
    <2>1. /\ stage[m] = at /\ stage'[m] = to /\ Rest(b, n, c)
          /\ \A i \in 1 .. n : i \in DOMAIN b /\ b[i].kind \in E
          /\ UNCHANGED <<memberList, burst, receiveQueue>>
        BY <1>4, <1>3
    <2>2. at # "in" /\ to # "in" /\ \A i \in 1 .. n : b[i].kind # "ENTRY"
        BY <1>4, <2>1 DEF Joining
    <2> DEFINE noto == no_of_members'[m]
    <2>3. \/ to \notin {"users", "entries"} \/ (at \in {"users", "entries"} /\ noto = no)
          \/ \E i \in DOMAIN b : b[i].kind = "COUNT" /\ noto = b[i].n
        BY <1>4
    <2> HIDE DEF b, c, no, noto
    <2>4. Seen(m, memberList, burst.to, at, b, receiveQueue[m], known[m], no)
        BY <1>2, <2>1
    <2>5. Seen(m, memberList, burst.to, to, c, receiveQueue'[m], known'[m], noto)
        BY <1>1, <1>4, <2>1, <2>2, <2>3, <2>4, SeenTakes
    <2>. QED  BY <2>1, <2>5 DEF View, c, noto
  <1>5. CASE TakeReply(m)
    <2>1. Take(m, "reply", "count", 1, {"OK"}) /\ UNCHANGED listVars
        BY <1>5, TakeReplyDoes
    <2>2. CASE m \in Range(memberList)
        BY <1>4, <2>1, <2>2 DEF Joining
    <2>3. CASE m \notin Range(memberList)
      <3>1. stage'[m] = "count" /\ UNCHANGED <<memberList, burst>>
          BY <1>3, <2>1 DEF Joining
      <3>. QED  BY <2>3, <3>1 DEF View, Seen
    <2>. QED  BY <2>2, <2>3
  <1>6. CASE TakeRedirect(m)
    <2>1. stage[m] = "reply" /\ b # << >> /\ Head(b).kind = "REDIRECT" /\ UNCHANGED <<stage, memberList>>
        BY <1>6, TakeRedirectDoes
    <2>2. 1 \in DOMAIN b /\ b[1].kind = "REDIRECT"
        BY <1>1, <2>1, TailOf
    <2>3. m \notin Range(memberList)
        BY <1>1, <2>2, TicketsAtHome
    <2>. QED  BY <2>1, <2>3 DEF View, Seen
  <1>7. CASE TakeCount(m)
    <2>1. PICK n \in Nat : /\ n = IF Head(b).kind = "COUNT" THEN Head(b).n ELSE 0
                           /\ Take(m, "count", IF n = 0 THEN "in" ELSE "users", 1, {"COUNT"})
                           /\ no_of_members'[m] = n
        BY <1>7, TakeCountDoes
    <2>2. (IF n = 0 THEN "in" ELSE "users") \in {"in"} \cup Joining /\ "count" \in Joining /\ 1 \in Nat \ {0}
        BY DEF Joining
    <2>3. /\ stage[m] = "count" /\ 1 <= Len(b)
          /\ \A i \in 1 .. 1 : i \in DOMAIN b /\ b[i].kind \in {"COUNT"}
        BY <1>3, <2>1, <2>2
    <2>4. 1 \in DOMAIN b /\ b[1].kind = "COUNT" /\ Head(b) = b[1] /\ n = b[1].n
        BY <1>1, <2>1, <2>3
    <2>5. m \in Range(memberList)
      <3>1. InRow(Pipe(m), b[1]) /\ b[1] \in Sane
          BY <1>1, <2>4, PipeRow DEF InRow
      <3>. QED  BY <2>4, <3>1 DEF Listed, Answered, OnlyOK, New, Calm, Rolls, FromSeq, Sane
    <2>6. n # 0
        BY <1>1, <1>2, <2>3, <2>4, <2>5, SeenCount
    <2>. QED  BY <1>4, <2>1, <2>2, <2>4, <2>5, <2>6 DEF Joining
  <1>8. ASSUME stage[m] \in {"users", "entries"} PROVE m \in Range(memberList)
      BY <1>2, <1>8 DEF Seen
  <1>9. CASE TakeUsers(m)
      BY <1>9, <1>3, <1>8, <1>4, TakeUsersDoes DEF Joining
  <1>10. CASE TakeEntries(m)
    <2>1. /\ no \in Nat \ {0} /\ Take(m, "entries", "in", no, {"ENTRY"})
          /\ known'[m] = {Named(b[i]) : i \in 1 .. no}
          /\ UNCHANGED <<no_of_members, shown>>
        BY <1>10, TakeEntriesDoes
    <2>2. /\ stage[m] = "entries" /\ stage'[m] = "in" /\ Rest(b, no, c) /\ no <= Len(b)
          /\ \A i \in 1 .. no : i \in DOMAIN b /\ b[i].kind \in {"ENTRY"}
          /\ UNCHANGED <<memberList, burst, receiveQueue>>
        BY <1>3, <2>1 DEF Joining
    <2>3. m \in Range(memberList)
        BY <1>8, <2>2
    <2>4. burst.to # m
        BY <2>1, <2>2, <1>2, <2>3 DEF Seen, Expecting
    <2> DEFINE M == Range(memberList)
               N == {b[i].who : i \in 1 .. no}
    <2>5. Welcomed(b, "entries", no, M)
        BY <1>2, <2>2, <2>3, <2>4 DEF Seen
    <2>6. \A i \in 1 .. no : b[i].kind = "ENTRY"
        BY <2>2
    <2>7. known'[m] = N
        BY <2>6, <2>1 DEF Named
    <2> HIDE DEF b, c, M, N, no
    <2>8. Informed(c, N, no, M)
        BY <1>1, <2>2, <2>5, <2>6, WelcomedIn DEF N
    <2>9. receiveQueue'[m] \o c = c /\ no_of_members'[m] = no
        BY <1>1, <2>1, <2>2, SMTT(30) DEF no, Base, Stages
    <2>. QED  BY <2>2, <2>3, <2>4, <2>7, <2>8, <2>9 DEF View, Seen, M, c
  <1>11. CASE GiveUp(m)
      BY <1>11, GiveUpDoes
  <1>. QED  BY <1>5, <1>6, <1>7, <1>9, <1>10, <1>11 DEF ConnectChat

(* In the chat: m is listed, and has the list but for what it is to learn. *)
LEMMA SeenIn ==
  ASSUME NEW m, NEW list, NEW to, NEW b, NEW q, NEW L, NEW no
  PROVE  Seen(m, list, to, "in", b, q, L, no) <=>
           m \in Range(list) /\ to # m /\ Informed(q \o b, L, no, Range(list))
  BY DEF Seen, Expecting

LEMMA TailJoined ==
  ASSUME NEW q \in Seq(Sane), NEW b \in Seq(Sane)
  PROVE  /\ q # << >> => /\ q \o b # << >> /\ Head(q \o b) = Head(q) /\ Tail(q \o b) = Tail(q) \o b
         /\ b # << >> => Append(q, Head(b)) \o Tail(b) = q \o b
         /\ q \o b \in Seq(Sane)
  <1>1. ASSUME q # << >> PROVE Tail(q \o b) = Tail(q) \o b /\ Head(q \o b) = Head(q) /\ q \o b # << >>
      BY <1>1
  <1>2. ASSUME b # << >> PROVE Append(q, Head(b)) \o Tail(b) = q \o b
      BY <1>2, SeqEqual
  <1>3. q \o b \in Seq(Sane)
      OBVIOUS
  <1>. QED  BY <1>1, <1>2, <1>3

LEMMA KnowsJoiners ==
  ASSUME NEW q, NEW L, NEW no, NEW M, Informed(q, L, no, M)
  PROVE  L \subseteq Joiners
  BY DEF Informed, Heard

LEMMA ViewProcesses ==
  ASSUME Base, Base', Calm, LeaderNew, ~crossed', NEW m \in Joiners, MemberProcess(m), Staying(m),
         stage'[m] # "gone", View(m)
  PROVE  (View(m))'
  <1> DEFINE q == receiveQueue[m]
             b == box[m]
             M == Range(memberList)
             L == known[m]
             no == no_of_members[m]
  <1>s. /\ b \in Seq(Sane) /\ q \in Seq(Sane) /\ m \in Proc /\ m # S /\ S \notin Joiners
        /\ (New(m) => m \notin Range(memberList))
      BY ViewParts, Kinds1 DEF Calm
  <1>1. PICK d : Process(m, d)
      BY DEF MemberProcess, Redirect, AddNotice, RemoveFromList, PrintOther
  <1>2. /\ stage[m] = "in" /\ q # << >> /\ d = Head(q) /\ receiveQueue'[m] = Tail(q)
        /\ UNCHANGED <<seqVars, leaderAddress>>
      BY <1>1, ProcessDoes
  <1>3. m \in M /\ burst.to # m /\ Informed(q \o b, L, no, M)
      BY <1>2, SeenIn DEF View
  <1>4. /\ d.kind = "NEWUSER" => Informed(Tail(q) \o b, L \cup {d.who}, no + (IF d.who \in L THEN 0 ELSE 1), M)
        /\ d.kind = "LEFT" => Informed(Tail(q) \o b, L \ {d.who}, no - 1, M)
        /\ d.kind \notin {"NEWUSER", "LEFT"} => Informed(Tail(q) \o b, L, no, M)
    <2> DEFINE p == q \o b
    <2>1. p \in Seq(Sane) /\ p # << >> /\ Head(p) = d /\ Tail(p) = Tail(q) \o b /\ Informed(p, L, no, M)
        BY <1>3, <1>s, <1>2, TailJoined
    <2> HIDE DEF p, L, no, M
    <2>2. /\ Head(p).kind = "NEWUSER" =>
               Informed(Tail(p), L \cup {Head(p).who}, no + (IF Head(p).who \in L THEN 0 ELSE 1), M)
          /\ Head(p).kind = "LEFT" => Informed(Tail(p), L \ {Head(p).who}, no - 1, M)
          /\ Head(p).kind \notin {"NEWUSER", "LEFT"} => Informed(Tail(p), L, no, M)
        BY <2>1, InformedHead
    <2>. QED  BY <2>1, <2>2
  <1>5. ASSUME stage'[m] = "in", box'[m] = b, Informed(Tail(q) \o b, known'[m], no_of_members'[m], M)
        PROVE  (View(m))'
      BY <1>3, <1>5, <1>2, SeenIn DEF View
  <1>6. CASE Redirect(m)
    <2>1. PICK e \in Sane :
            /\ e.kind = "JOIN" /\ e.who \in Joiners /\ Process(m, e)
            /\ crossed' = (crossed \/ leaderAddress[m] # e.who)
            /\ \A p \in Proc : box'[p] = IF p = leaderAddress[m] /\ Up(p)
                 THEN Append(box[p], Datagram("REDIRECT", Contact[m], 0, m)) ELSE box[p]
            /\ UNCHANGED <<stage, listVars, shown>>
        BY <1>6, RedirectDoes
    <2>2. e = d
        BY <1>2, <2>1, ProcessDoes
    <2>3. New(d.who)
        BY <2>1, <2>2, <1>s, <1>2, TicketsAtHome, TailOf
    <2>4. box'[m] = b
        BY <1>s, <2>1, <1>3, <2>2, <2>3
    <2>. QED  BY <1>2, <1>4, <1>5, <2>1, <2>2, <2>4
  <1>7. CASE AddNotice(m)
    <2>1. PICK e \in Sane :
            /\ e.kind = "NEWUSER" /\ Process(m, e) /\ known'[m] = known[m] \cup {e.who}
            /\ no_of_members'[m] = no_of_members[m] + (IF e.who \in known[m] THEN 0 ELSE 1)
            /\ UNCHANGED <<netVars, stage, shown>>
        BY <1>7, AddNoticeDoes
    <2>. QED  BY <1>2, <1>4, <1>5, <2>1, ProcessDoes
  <1>8. CASE RemoveFromList(m)
    <2>1. PICK e \in Sane, a \in Proc :
            /\ e.kind \in {"LEFT", "LEAVESEQ"} /\ Process(m, e)
            /\ e.kind = "LEFT" => a = e.who /\ a \in Joiners
            /\ e.kind = "LEAVESEQ" => a = leaderAddress[m]
            /\ known'[m] = known[m] \ {a}
            /\ no_of_members'[m] = no_of_members[m] - 1
            /\ stage'[m] # "gone" => ~(e.kind = "LEAVESEQ" /\ a \notin known[m]) /\ UNCHANGED <<stage, box>>
        BY <1>8, RemoveFromListDoes
    <2>2. e = d
        BY <1>2, <2>1, ProcessDoes
    <2>3. leaderAddress[m] \notin known[m]
        BY <1>s, <1>3, <1>2, KnowsJoiners DEF LeaderNew
    <2>. QED  BY <1>2, <1>4, <1>5, <2>1, <2>2, <2>3
  <1>9. CASE PrintOther(m)
      BY <1>9, <1>2, <1>4, <1>5, PrintOtherDoes, ProcessDoes
  <1>. QED  BY <1>6, <1>7, <1>8, <1>9 DEF MemberProcess

(* Its own steps. *)
LEMMA ViewByItself ==
  ASSUME Base, Base', Calm, Answered, LeaderNew, Views, ~crossed', [Next]_vars, NEW m \in Joiners, ByItself(m),
         (Staying(m))'
  PROVE  (View(m))'
  <1>1. Staying(m) /\ bye[m] # "sent" /\ m \notin strayed' /\ stage'[m] # "gone" /\ stage[m] # "gone"
      BY StayingStep DEF Staying
  <1>2. stage[m] # "out" => View(m)
      BY <1>1 DEF Views
  <1>s. /\ m \in Proc /\ m # S /\ box[m] \in Seq(Sane) /\ receiveQueue[m] \in Seq(Sane)
        /\ (New(m) => m \notin Range(memberList))
        /\ stage \in [Proc -> {"out", "in", "gone"} \cup Joining]
      BY ViewParts DEF Calm, Base, Scalars
  <1>3. CASE Ask(m)
      BY <1>3, <1>s, AskDoes DEF New, View, Seen
  <1>4. CASE ConnectChat(m)
    <2>1. stage[m] # "out"
      <3>1. stage[m] \in Joining
          BY <1>4 DEF ConnectChat, TakeReply, TakeRedirect, TakeCount, TakeUsers, TakeEntries, GiveUp, Take, Joining
      <3>. QED  BY <3>1 DEF Joining
    <2>. QED  BY <1>1, <1>2, <1>4, <2>1, ViewConnects
  <1>5. CASE MemberReceive(m)
    <2> DEFINE b == box[m]
               q == receiveQueue[m]
    <2>1. /\ stage[m] = "in" /\ b # << >> /\ receiveQueue'[m] = Append(q, Head(b)) /\ box'[m] = Tail(b)
          /\ UNCHANGED <<stage, memberList, burst, listVars>>
        BY <1>5, MemberReceiveDoes
    <2>2. Append(q, Head(b)) \o Tail(b) = q \o b
        BY <1>s, <2>1, TailJoined
    <2>3. Seen(m, memberList, burst.to, "in", b, q, known[m], no_of_members[m])
        BY <1>2, <2>1 DEF View
    <2> HIDE DEF b, q
    <2>4. Seen(m, memberList, burst.to, "in", Tail(b), Append(q, Head(b)), known[m], no_of_members[m])
        BY <2>2, <2>3, SeenIn
    <2>. QED  BY <2>1, <2>4 DEF View
  <1>6. CASE MemberProcess(m)
      BY <1>6, <1>1, <1>2, ProcessDoes, ViewProcesses DEF MemberProcess, Redirect, AddNotice,
         RemoveFromList, PrintOther
  <1>7. CASE TestDead(m)
      BY <1>1, <1>s, <1>7 DEF TestDead
  <1>. QED  BY <1>3, <1>4, <1>5, <1>6, <1>7 DEF ByItself

LEMMA NextViews ==
  ASSUME Base, Base', Paths, Calm, Answered, LeaderNew, Views, ~crossed', [Next]_vars
  PROVE  Views'
  <1> SUFFICES ASSUME NEW m \in Joiners, (Staying(m))', stage'[m] # "out" PROVE (View(m))'
      BY DEF Views
  <1>1. Staying(m) /\ bye[m] # "sent" /\ stage[m] # "gone"
      BY StayingStep DEF Staying
  <1>2. CASE Apart(m)
    <2>1. stage'[m] = stage[m] /\ stage[m] \notin {"out", "gone"}
        BY <1>1, <1>2 DEF Apart
    <2>2. View(m)
        BY <1>1, <2>1 DEF Views
    <2>3. CASE Idle(m)
      <3> DEFINE c == box'[m]
      <3>1. box[m] \in Seq(Sane) /\ receiveQueue[m] \in Seq(Sane) /\ memberList \in Seq(Joiners)
          BY ViewParts DEF Calm
      <3> HIDE DEF c
      <3>. QED  BY <1>2, <2>3, <3>1, <2>2, SeenNeutral DEF View, Apart, Idle, c
    <2>4. CASE Multicast
        BY <1>2, <2>1, <2>2, <2>4, ViewMulticast
    <2>5. CASE Welcoming
        BY <1>2, <2>1, <2>2, <2>5, ViewWelcoming
    <2>6. ASSUME NEW k \in Keys, ServeLeave(k) PROVE (View(m))'
        BY <1>1, <1>2, <2>1, <2>2, <2>6, ViewLeave
    <2>7. CASE ByItself(m)
        BY <2>7, ViewByItself
    <2>. QED  BY <2>3, <2>4, <2>5, <2>6, <2>7, MineStep
  <1>3. CASE ByItself(m)
      BY <1>3, ViewByItself
  <1>. QED  BY <1>2, <1>3, MineStep

(***************************************************************************)
(* The inductive invariant.  The orders hold whatever the answers do; the  *)
(* rest only as long as none has crossed another.                          *)
(***************************************************************************)
Undisturbed ==
  /\ Calm /\ Answered /\ SeqOnce /\ SeqFull /\ NoGaps
  /\ Strangers /\ Direct /\ LeaderNew /\ Views

IInv == Orders /\ (~crossed => Undisturbed)

LEMMA InitUndisturbed == Init => Undisturbed
  <1> SUFFICES ASSUME Init PROVE Undisturbed
      OBVIOUS
  <1>1. Base /\ S \in Proc /\ Joiners \subseteq Proc
      BY InitBase, Kinds1
  <1>e. DOMAIN << >> = {}
      OBVIOUS
  <1>2. /\ \A p \in Proc : box[p] = << >> /\ sendQueue[p] = << >>
        /\ \A m \in Joiners : receiveQueue[m] = << >> /\ shown[m] = << >>
        /\ relayed = << >> /\ sendAt = 1 /\ userList = << >>
      BY <1>1 DEF Init
  <1>3. \A m \in Joiners : /\ DOMAIN Pipe(m) = 1 .. 3
                           /\ \A a \in 1 .. 3 : Pipe(m)[a] = << >>
      BY <1>1, <1>2, PipeRow, RowRows DEF Row
  <1>4. \A m \in Joiners : \A x : ~InRow(Pipe(m), x)
      BY <1>3, <1>e DEF InRow
  <1>5. Answered
      BY <1>4 DEF Answered, OnlyOK
  <1>6. SeqOnce
      BY <1>1, <1>2, <1>3, <1>4, <1>e DEF SeqOnce, InOrder, Ahead
  <1>7. SeqFull
      BY <1>1, <1>2, <1>e DEF SeqFull
  <1>8. NoGaps
      BY <1>4 DEF NoGaps, Unbroken, NoHoles
  <1>9. \A m \in Joiners : stage[m] = "out" /\ known[m] = {}
      BY Kinds1 DEF Init
  <1>10. Strangers /\ Direct
      BY <1>4, <1>9 DEF Strangers, Unheard, Direct, OnlyAsks
  <1>11. Calm
      BY InitCalm DEF Calm
  <1>. QED  BY <1>5, <1>6, <1>7, <1>8, <1>10, <1>11, <1>9 DEF Undisturbed, LeaderNew, Views

LEMMA InitIInv == Init => IInv
  BY InitBase, InitOrders, InitUndisturbed DEF IInv, Orders

LEMMA NextIInv == IInv /\ [Next]_vars => IInv'
  <1> SUFFICES ASSUME IInv, [Next]_vars PROVE IInv'
      OBVIOUS
  <1>1. Base /\ Paths /\ SeqLines /\ Pipes
      BY DEF IInv, Orders
  <1>2. Base'
      BY <1>1, NextBase
  <1>3. Paths' /\ SeqLines' /\ Pipes'
      BY <1>1, <1>2, NextPaths, NextSeqLines, NextPipes
  <1>4. ASSUME ~crossed' PROVE Undisturbed'
    <2>1. /\ Calm /\ Answered /\ SeqOnce /\ SeqFull /\ NoGaps
          /\ Strangers /\ Direct /\ LeaderNew /\ Views
        BY <1>4, StillCalm DEF IInv, Undisturbed
    <2>2. NoRedirects /\ (\A m \in Joiners : TicketsOf(m)) /\ Rolls /\ Accounted
        BY <2>1 DEF Calm
    <2>3. ListsStep
        BY <1>1, <1>2, <1>4, <2>2, NextLists
    <2>4. UserListStep
        BY <1>1, <2>2, <2>3, NextUserList
    <2>5. NoRedirects'
        BY <1>1, <1>2, <1>4, <2>2, NextNoRedirects
    <2>6. (\A m \in Joiners : TicketsOf(m))'
        BY <1>1, <1>2, <1>4, <2>2, NextTicketsOf
    <2>7. Rolls'
        BY <1>1, <1>2, <1>4, <2>2, NextRolls
    <2>8. Accounted'
        BY <1>1, <1>2, <1>3, <1>4, <2>2, NextAccounted
    <2>9. Answered'
        BY <1>1, <1>2, <1>4, <2>1, <2>3, <2>7, NextAnswered
    <2>10. SeqOnce'
        BY <1>1, <1>2, <1>4, <2>1, <2>3, NextSeqOnce
    <2>11. SeqFull'
        BY <1>1, <1>2, <1>4, <2>1, <2>4, NextSeqFull
    <2>12. NoGaps'
        BY <1>1, <1>2, <1>3, <1>4, <2>1, <2>4, <2>5, NextNoGaps DEF Orders
    <2>13. Strangers'
        BY <1>1, <1>2, <1>4, <2>1, NextStrangers DEF Orders
    <2>14. Direct'
        BY <1>1, <1>2, <1>4, <2>1, NextDirect
    <2>15. LeaderNew'
        BY <1>1, <1>2, <1>4, <2>1, NextLeaderNew
    <2>16. Views'
        BY <1>1, <1>2, <1>4, <2>1, NextViews
    <2>. QED  BY <2>5, <2>6, <2>7, <2>8, <2>9, <2>10, <2>11, <2>12, <2>13, <2>14, <2>15, <2>16 DEF Undisturbed, Calm
  <1>. QED  BY <1>2, <1>3, <1>4 DEF IInv, Orders

(***************************************************************************)
(* Of the earlier program: all that is under way is in order, whatever the *)
(* answers do, and while seqProcessMessage, multicast and removeMember     *)
(* reach whom they are for, everybody has been told what concerns it.      *)
(***************************************************************************)
THEOREM IInvCorrect == Spec => []IInv
  <1>1. Init => IInv
      BY InitIInv
  <1>2. IInv /\ [Next]_vars => IInv'
      BY NextIInv
  <1>. QED  BY <1>1, <1>2, PTL DEF Spec

-----------------------------------------------------------------------------
(***************************************************************************)
(* What follows from it.                                                   *)
(***************************************************************************)
LEMMA AsTyped == IInv => RelayedAsTyped
  <1> SUFFICES ASSUME IInv,
                      NEW k \in DOMAIN relayed, NEW l \in DOMAIN relayed, k < l,
                      relayed[k].kind = "LINE", relayed[l].kind = "LINE", relayed[k].who = relayed[l].who
               PROVE  relayed[k].n < relayed[l].n
      BY DEF RelayedAsTyped
  <1> DEFINE a == relayed[k].who
  <1>. QED  BY RowTyped, PathRow, SMTT(30) DEF IInv, Orders, Paths, PathOK, Base, Origins, Relays

LEMMA InOrderShown == IInv => \A m \in Joiners : ShownInOrder(m)
  <1> SUFFICES ASSUME IInv, NEW m \in Joiners, NEW i \in DOMAIN shown[m], NEW j \in DOMAIN shown[m]
               PROVE  LET d == shown[m][i]
                          e == shown[m][j]
                      IN /\ ByWayOf(d, Joiners) => d \in Range(relayed)
                         /\ i < j /\ ByWayOf(d, Joiners) /\ ByWayOf(e, Joiners) => Before(relayed, d, e)
                         /\ i < j /\ ByWayOf(d, {S}) /\ ByWayOf(e, {S}) =>
                              d.n < e.n \/ (d.n = e.n /\ (crossed \/ SomeoneLeft))
      BY DEF ShownInOrder
  <1> DEFINE c == Pipe(m)
             d == shown[m][i]
             e == shown[m][j]
  <1>1. /\ c \in Row /\ c[1] = shown[m] /\ shown[m] \in Seq(Sane)
      BY PipeRow DEF IInv, Orders
  <1>2. /\ InOrder(c, InRelayOrder(relayed)) /\ InOrder(c, Weakly)
        /\ \A x : InRow(c, x) => (ByWayOf(x, Joiners) => x \in Range(relayed))
        /\ ~crossed /\ ~SomeoneLeft => InOrder(c, Strictly)
      BY DEF IInv, Orders, Pipes, Undisturbed, SeqOnce
  <1> HIDE DEF c
  <1>3. InRow(c, d) /\ d \in Sane /\ e \in Sane
      BY <1>1 DEF InRow
  <1>4. ASSUME NEW R, InOrder(c, R), i < j PROVE <<d, e>> \in R
      BY <1>1, <1>4 DEF InOrder, Row
  <1>5. i < j => /\ <<d, e>> \in InRelayOrder(relayed) /\ <<d, e>> \in Weakly
                 /\ ~crossed /\ ~SomeoneLeft => <<d, e>> \in Strictly
      BY <1>2, <1>4
  <1>6. d.n \in Nat /\ e.n \in Nat
      BY <1>3 DEF Sane, Datagrams
  <1> HIDE DEF d, e
  <1>. QED  BY <1>6, <1>2, <1>3, <1>5 DEF d, e, InRelayOrder, Weakly, Strictly

LEMMA WithoutGapShown ==
  ASSUME IInv, ~crossed, NEW m \in Joiners, Settled(m)
  PROVE  ShownWithoutGap(m)
  <1> DEFINE c == Pipe(m)
  <1>1. Unbroken(relayed, c) /\ ((\A p \in Joiners : bye[p] # "sent") => NoHoles(m))
      BY DEF IInv, Undisturbed, NoGaps, Settled, Staying
  <1>2. \A x : InRow(c, x) <=> x \in Range(shown[m])
      BY RowRows, PipeRow DEF InRow, Range, IInv, Orders, Settled
  <1>3. ASSUME NEW k \in DOMAIN relayed, NEW l \in DOMAIN relayed,
               k < l, relayed[k] \in Range(shown[m])
        PROVE  relayed[l] \in Range(shown[m])
      BY <1>1, <1>2, <1>3 DEF Unbroken
  <1>4. ASSUME \A p \in Joiners : bye[p] # "sent", NEW n \in 1 .. typed[S], NEW o \in 1 .. typed[S],
               n < o, LineBySeq(S, n) \in Range(shown[m]), LineBySeq(S, o) \notin Range(sendQueue[S])
        PROVE  LineBySeq(S, o) \in Range(shown[m])
      BY <1>1, <1>2, <1>4 DEF NoHoles, ToCome, Range
  <1>. QED  BY <1>3, <1>4 DEF ShownWithoutGap, SomeoneLeft

(* A LEAVE that is sent is the last datagram of its member, and by the     *)
(* time the sequencer takes the member off its list it has relayed all     *)
(* that the member typed.                                                  *)
LEMMA LastIsLeave == IInv => LinesBeforeLeave
  <1> SUFFICES ASSUME IInv, NEW m \in Joiners, bye[m] = "sent"
               PROVE  /\ sendQueue[m] = << >>
                      /\ ~crossed /\ m \notin Range(memberList) /\ pending # m =>
                           \A n \in 1 .. typed[m] : LineBySeq(m, n) \in Range(relayed)
      BY DEF LinesBeforeLeave
  <1>. QED  BY PathRow DEF Accounted, Listed, IInv, Undisturbed, Calm, Orders, Paths, PathOK

(* One that has nothing more to hear knows the list. *)
LEMMA HeardAll ==
  ASSUME NEW q, q = << >>, NEW L, NEW no, NEW M, Informed(q, L, no, M)
  PROVE  L = M /\ no = Cardinality(M)
  <1>1. PICK h \in [Nat -> SUBSET Joiners] : h[0] = L /\ h[Len(q)] = M
      BY DEF Informed, Heard
  <1>2. Len(q) = 0
      OBVIOUS
  <1>. QED  BY <1>1, <1>2 DEF Informed

LEMMA ListsRight == IInv => TablesExact
  <1> SUFFICES ASSUME IInv PROVE TablesExact
      OBVIOUS
  <1>1. TypeOK
      BY BaseTypes DEF IInv, Orders
  <1>2. ASSUME ~crossed PROVE (stage[S] = "gone" => bye[S] # "no") /\ userList = memberList
      BY <1>2 DEF IInv, Undisturbed, Calm, Rolls
  <1>3. ASSUME ~crossed, NEW m \in Joiners, Settled(m)
        PROVE  known[m] = Range(memberList) /\ no_of_members[m] = Len(memberList)
    <2>1. /\ stage[m] = "in" /\ View(m) /\ receiveQueue[m] \o box[m] = << >>
        BY <1>3 DEF Settled, Staying, IInv, Undisturbed, Views
    <2> DEFINE q == receiveQueue[m] \o box[m]
               M == Range(memberList)
    <2>2. Informed(q, known[m], no_of_members[m], M)
      <3>1. Seen(m, memberList, burst.to, "in", box[m], receiveQueue[m], known[m], no_of_members[m])
          BY <2>1 DEF View
      <3>. QED  BY <3>1, SeenIn
    <2>3. q = << >>
        BY <2>1
    <2> HIDE DEF q, M
    <2>. QED
        BY <2>2, <2>3, <1>3, HeardAll, OneList, ListSize DEF M, IInv, Orders, Undisturbed, Calm
  <1>. QED  BY <1>1, <1>2, <1>3 DEF TablesExact

-----------------------------------------------------------------------------
(***************************************************************************)
(* The types, and among them that userList holds nobody twice: multicast   *)
(* adds theirAddress only if it is not there, and removeMember's shift     *)
(* keeps the others apart (once it is through: in its middle an entry of   *)
(* the array is there twice).                                              *)
(***************************************************************************)
THEOREM TypeCorrect == Spec => []TypeOK
  <1>1. IInv => TypeOK
      BY BaseTypes DEF IInv, Orders
  <1>. QED  BY <1>1, IInvCorrect, PTL

(***************************************************************************)
(* While every answer goes to the one it is for, what each member is told  *)
(* by multicast and in notices adds up, wherever it still waits, to the    *)
(* sequencer's list: a member that has caught up knows the members and no  *)
(* others, and how many they are; userList and memberList stay the same,   *)
(* removeMember never goes through an iterator that was not set, and so    *)
(* the sequencer stays until it leaves.                                    *)
(***************************************************************************)
THEOREM ListsAgree == Spec => []TablesExact
  BY ListsRight, IInvCorrect, PTL

(***************************************************************************)
(* There are no numbers and no sequence to hold lines back for, and yet    *)
(* every member prints the others' lines in the one order in which         *)
(* seqProcessMessage relays them, those of an author as typed, whoever     *)
(* answers whom; and without a gap as long as no answer crossed another.   *)
(* What the sequencer itself types stays in order too, but a removal may   *)
(* make sendMessage skip a member or send it a line again.                 *)
(***************************************************************************)
THEOREM OneOrder == Spec => []ShownAsRelayed
  <1>1. IInv => ShownAsRelayed
      BY AsTyped, InOrderShown, WithoutGapShown DEF ShownAsRelayed
  <1>. QED  BY <1>1, IInvCorrect, PTL

(***************************************************************************)
(* memberGetInput sets isDead before it pushes LEAVE: what was typed may   *)
(* never be sent.  But a LEAVE that is sent comes after all its member's   *)
(* lines, and seqProcessMessage has relayed these before it removes one.   *)
(***************************************************************************)
THEOREM LeaveIsLast == Spec => []LinesBeforeLeave
  BY LastIsLeave, IInvCorrect, PTL

=============================================================================
