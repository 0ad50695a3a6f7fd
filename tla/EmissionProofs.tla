--------------------------- MODULE EmissionProofs ---------------------------
(***************************************************************************)
(* Proofs about Emission: for all items, contents, objects and limits, what *)
(* holds of the memories of both sides and of what the server has learned.  *)
(*                                                                          *)
(* The models' records are not typed: a lemma asks of one that it has the   *)
(* fields it is about, and of a sequence that it is one (IsSeq).  First     *)
(* sequences, the sort and the loops of the learning cycle, each of which   *)
(* is a fold; then traces, families and queues, emissions, and the steps.   *)
(***************************************************************************)
EXTENDS Emission, Induction

----------------------------------------------------------------------------
(* Sequences of which only their own elements are known. *)

IsSeq(s) == s \in Seq(ToSet(s))

\* The elements of a sequence over T are in T.
LEMMA ElementsIn ==
  ASSUME NEW T, NEW s \in Seq(T)
  PROVE  /\ IsSeq(s) /\ ToSet(s) \subseteq T
         /\ \E n \in Nat : n = Len(s) /\ DOMAIN s = 1 .. n /\ s = [i \in 1 .. n |-> s[i]]
<1>1. PICK n \in Nat : n = Len(s) /\ DOMAIN s = 1 .. n /\ s = [i \in 1 .. n |-> s[i]]
  OBVIOUS
<1>2. \A i \in 1 .. n : s[i] \in T /\ s[i] \in ToSet(s)
  BY <1>1 DEF ToSet
<1>3. s \in Seq(ToSet(s))
  BY <1>1, <1>2
<1>4. ToSet(s) \subseteq T
  BY <1>1, <1>2 DEF ToSet
<1>5. QED
  BY <1>1, <1>3, <1>4 DEF IsSeq

LEMMA IsSeqIs ==
  ASSUME NEW s, IsSeq(s)
  PROVE  \E n \in Nat : n = Len(s) /\ DOMAIN s = 1 .. n /\ s = [i \in 1 .. n |-> s[i]]
BY ElementsIn DEF IsSeq

\* An indexed family is a sequence.
LEMMA MadeIsSeq ==
  ASSUME NEW n \in Nat, NEW s, s = [i \in 1 .. n |-> s[i]]
  PROVE  IsSeq(s) /\ Len(s) = n /\ DOMAIN s = 1 .. n
<1>1. \A i \in 1 .. n : s[i] \in ToSet(s)
  BY DEF ToSet
<1>2. s \in Seq(ToSet(s))
  BY <1>1
<1>3. Len(s) = n /\ DOMAIN s = 1 .. n
  OBVIOUS
<1>4. QED
  BY <1>2, <1>3 DEF IsSeq

\* What is appended is all that is new.
LEMMA AppendedIs ==
  ASSUME NEW s, IsSeq(s), NEW e
  PROVE  /\ IsSeq(Append(s, e)) /\ ToSet(Append(s, e)) = ToSet(s) \union {e}
         /\ Len(Append(s, e)) = Len(s) + 1
         /\ \A i \in 1 .. Len(s) + 1 : Append(s, e)[i] = IF i = Len(s) + 1 THEN e ELSE s[i]
<1> DEFINE T == ToSet(s) \union {e}
           t == Append(s, e)
<1>1. PICK n \in Nat : n = Len(s) /\ DOMAIN s = 1 .. n /\ s = [i \in 1 .. n |-> s[i]]
  BY IsSeqIs
<1>2. s \in Seq(T)
  BY <1>1 DEF ToSet
<1>3. /\ t \in Seq(T) /\ Len(t) = n + 1
      /\ \A i \in 1 .. n + 1 : t[i] = IF i = n + 1 THEN e ELSE s[i]
  BY <1>1, <1>2
<1> HIDE DEF t
<1>4. DOMAIN t = 1 .. n + 1
  BY <1>3
<1>5. ToSet(t) = T
  <2>1. ToSet(t) \subseteq T
    BY <1>3, ElementsIn
  <2>2. e \in ToSet(t)
    BY <1>3, <1>4 DEF ToSet
  <2>3. \A i \in 1 .. n : s[i] = t[i] /\ i \in 1 .. n + 1 /\ i # n + 1
    BY <1>3
  <2>4. ToSet(s) \subseteq ToSet(t)
    BY <1>1, <1>4, <2>3 DEF ToSet
  <2>5. QED
    BY <2>1, <2>2, <2>4
<1>6. QED
  BY <1>1, <1>3, <1>5, ElementsIn DEF t

\* The elements kept are some of those there were.
LEMMA KeptAre ==
  ASSUME NEW s, IsSeq(s), NEW S
  PROVE  IsSeq(Kept(s, S)) /\ ToSet(Kept(s, S)) \subseteq ToSet(s) \intersect S
<1> DEFINE T == ToSet(s) \intersect S
           ss == [i \in DOMAIN s |-> IF s[i] \in S THEN <<s[i]>> ELSE << >>]
<1>1. PICK n \in Nat : n = Len(s) /\ DOMAIN s = 1 .. n
  BY IsSeqIs
<1>2. \A i \in 1 .. n : s[i] \in ToSet(s)
  BY <1>1 DEF ToSet
<1> HIDE DEF T
<1>3. ASSUME NEW i \in 1 .. n PROVE (IF s[i] \in S THEN <<s[i]>> ELSE << >>) \in Seq(T)
  <2>1. CASE s[i] \in S
    <3>1. s[i] \in T
      BY <1>2, <2>1 DEF T
    <3>2. QED
      BY <2>1, <3>1
  <2>2. CASE s[i] \notin S
    BY <2>2
  <2>3. QED
    BY <2>1, <2>2
<1>4. ss \in Seq(Seq(T))
  BY <1>1, <1>3
<1>5. FlattenSeq(ss) \in Seq(T)
  <2> HIDE DEF ss
  <2>1. QED
    BY <1>4, FlattenType
<1>6. Kept(s, S) = FlattenSeq(ss)
  BY DEF Kept
<1>7. QED
  BY <1>5, <1>6, ElementsIn DEF T

\* A part of a sequence.
LEMMA PartIs ==
  ASSUME NEW s, IsSeq(s), NEW a \in Nat \ {0}, NEW b \in Int, b <= Len(s)
  PROVE  IsSeq(SubSeq(s, a, b)) /\ ToSet(SubSeq(s, a, b)) \subseteq ToSet(s)
<1>1. PICK n \in Nat : n = Len(s) /\ DOMAIN s = 1 .. n
  BY IsSeqIs
<1>2. SubSeq(s, a, b) \in Seq(ToSet(s))
  BY <1>1, SubSeqProperties DEF IsSeq
<1>3. QED
  BY <1>2, ElementsIn

----------------------------------------------------------------------------
(* Sets of numbers. *)

LEMMA LargestOfIn ==
  ASSUME NEW n \in Nat, NEW S \in SUBSET (0 .. n), S # {}
  PROVE  LargestOf(S) \in S
<1> DEFINE R == {i \in Nat : n - i \in S}
<1>1. R \in SUBSET Nat /\ R # {}
  <2>1. PICK x \in S : TRUE
    OBVIOUS
  <2>2. n - x \in Nat /\ n - (n - x) = x
    BY <2>1
  <2>3. QED
    BY <2>2
<1>2. PICK r \in R : \A k \in R : r <= k
  BY <1>1, LeastNumber
<1>3. n - r \in S /\ \A y \in S : y <= n - r
  <2>1. \A y \in S : n - y \in R
    OBVIOUS
  <2>2. QED
    BY <1>2, <2>1
<1>4. \E x \in S : \A y \in S : y <= x
  BY <1>3
<1>5. QED
  BY <1>4, Zenon DEF LargestOf

LEMMA SmallestOfIn ==
  ASSUME NEW S \in SUBSET Nat, S # {}
  PROVE  SmallestOf(S) \in S
<1>1. \E x \in S : \A y \in S : x <= y
  BY LeastNumber
<1>2. QED
  BY <1>1, Zenon DEF SmallestOf

----------------------------------------------------------------------------
(* Sorting. *)

\* Sequences of different elements of S.
Different(s, S, n) ==
  /\ s \in Seq(S) /\ Len(s) = n
  /\ \A i, j \in 1 .. n : i # j => s[i] # s[j]

\* A new element put somewhere keeps them different.
LEMMA InsertDifferent ==
  ASSUME NEW S, NEW n \in Nat, NEW s, Different(s, S, n), NEW p \in 0 .. n, NEW e \in S,
         \A i \in 1 .. n : s[i] # e
  PROVE  Different(InsertAt(s, p + 1, e), S, n + 1)
<1> DEFINE t == InsertAt(s, p + 1, e)
           l == SubSeq(s, 1, p)
           r == SubSeq(s, p + 1, n)
<1>1. s \in Seq(S) /\ Len(s) = n /\ DOMAIN s = 1 .. n
  BY DEF Different
<1>2. l \in Seq(S) /\ Len(l) = p /\ \A i \in 1 .. p : l[i] = s[i]
  BY <1>1
<1>3. r \in Seq(S) /\ Len(r) = n - p /\ \A i \in 1 .. n - p : r[i] = s[p + i]
  BY <1>1
<1>4. t = (l \o <<e>>) \o r
  <2>1. (p + 1) - 1 = p
    OBVIOUS
  <2>2. QED
    BY <1>1, <2>1 DEF InsertAt
<1> HIDE DEF t, l, r
<1>5. DEFINE u == l \o <<e>>
<1>6. /\ u \in Seq(S) /\ Len(u) = p + 1
      /\ \A i \in 1 .. p : u[i] = l[i]
      /\ u[p + 1] = e
  BY <1>2
<1> HIDE DEF u
<1>7. /\ t \in Seq(S) /\ Len(t) = n + 1
      /\ \A i \in 1 .. p + 1 : t[i] = u[i]
      /\ \A i \in p + 2 .. n + 1 : t[i] = r[i - (p + 1)]
  <2>0. t = u \o r
    BY <1>4 DEF u
  <2>1. t = u \o r /\ Len(u) \in Nat /\ Len(r) \in Nat /\ Len(u) + Len(r) = n + 1
    <3>1. Len(u) = p + 1 /\ Len(r) = n - p
      BY <1>3, <1>6
    <3>2. QED
      BY <2>0, <3>1
  <2>2. /\ t \in Seq(S) /\ Len(t) = n + 1
        /\ \A i \in 1 .. n + 1 : t[i] = IF i <= p + 1 THEN u[i] ELSE r[i - (p + 1)]
    <3>1. /\ t \in Seq(S) /\ Len(t) = Len(u) + Len(r)
          /\ \A i \in 1 .. Len(u) + Len(r) : t[i] = IF i <= Len(u) THEN u[i] ELSE r[i - Len(u)]
      BY <1>3, <1>6, <2>1, ConcatProperties
    <3>2. QED
      BY <1>6, <2>1, <3>1
  <2>3. \A i \in p + 2 .. n + 1 : i \in 1 .. n + 1 /\ ~(i <= p + 1)
    OBVIOUS
  <2>4. \A i \in 1 .. p + 1 : i \in 1 .. n + 1 /\ i <= p + 1
    OBVIOUS
  <2>5. QED
    BY <2>2, <2>3, <2>4
<1>8. \A i \in 1 .. n + 1 : t[i] = IF i <= p THEN s[i] ELSE IF i = p + 1 THEN e ELSE s[i - 1]
  <2>1. SUFFICES ASSUME NEW i \in 1 .. n + 1
                 PROVE  t[i] = IF i <= p THEN s[i] ELSE IF i = p + 1 THEN e ELSE s[i - 1]
    OBVIOUS
  <2>2. CASE i <= p
    <3>1. i \in 1 .. p /\ i \in 1 .. p + 1
      BY <2>2
    <3>2. QED
      BY <1>2, <1>6, <1>7, <2>2, <3>1
  <2>3. CASE i = p + 1
    BY <1>6, <1>7, <2>3
  <2>4. CASE i > p + 1
    <3>1. i \in p + 2 .. n + 1 /\ i - (p + 1) \in 1 .. n - p /\ p + (i - (p + 1)) = i - 1
      BY <2>4
    <3>2. QED
      BY <1>3, <1>7, <2>4, <3>1
  <2>5. QED
    BY <2>2, <2>3, <2>4
<1>9. ASSUME NEW i \in 1 .. n + 1, NEW j \in 1 .. n + 1, i # j PROVE t[i] # t[j]
  <2> DEFINE At(k) == IF k <= p THEN k ELSE k - 1
  <2>1. \A k \in 1 .. n + 1 : k # p + 1 => At(k) \in 1 .. n /\ t[k] = s[At(k)]
    BY <1>8
  <2>2. t[p + 1] = e
    BY <1>8
  <2>3. CASE i # p + 1 /\ j # p + 1
    <3>1. At(i) # At(j)
      BY <1>9, <2>3
    <3>2. QED
      BY <2>1, <2>3, <3>1 DEF Different
  <2>4. CASE i = p + 1
    <3>1. t[j] = s[At(j)] /\ At(j) \in 1 .. n
      BY <1>9, <2>1, <2>4
    <3>2. QED
      BY <2>2, <2>4, <3>1
  <2>5. CASE j = p + 1
    <3>1. t[i] = s[At(i)] /\ At(i) \in 1 .. n
      BY <1>9, <2>1, <2>5
    <3>2. QED
      BY <2>2, <2>5, <3>1
  <2>6. QED
    BY <2>3, <2>4, <2>5
<1>10. Different(t, S, n + 1)
  BY <1>7, <1>9 DEF Different
<1>11. QED
  BY <1>10 DEF t

\* One position more in the order.
LEMMA PlacedDifferent ==
  ASSUME NEW S, NEW n \in Nat, NEW s, Different(s, S, n), NEW e \in S,
         \A i \in 1 .. n : s[i] # e, NEW before
  PROVE  Different(Placed(s, e, before), S, n + 1)
<1> DEFINE L == {0} \union {k \in DOMAIN s : <<e, s[k]>> \notin before}
<1>1. DOMAIN s = 1 .. n
  BY DEF Different
<1>2. L \in SUBSET (0 .. n) /\ L # {}
  BY <1>1
<1> HIDE DEF L
<1>3. LargestOf(L) \in 0 .. n
  BY <1>2, LargestOfIn
<1>4. Placed(s, e, before) = InsertAt(s, LargestOf(L) + 1, e)
  BY DEF Placed, L
<1>5. QED
  BY <1>3, <1>4, InsertDifferent

\* The steps of the loops: a position is placed, a replayed entry ingested, an assembly or a
\* schema promoted, a job run.
Turn(way, x, s, e) ==
  CASE way = "place" -> Placed(s, e, x)
    [] way = "ingest" -> Ingested(s, e, x)
    [] way = "assembly" -> PromoteAssembly(s, e.id, x)
    [] way = "schema" -> PromoteSchema(s, e.id, x)
    [] OTHER -> RunJob(s, e)

\* The function that a loop over n elements is defined by.
Peeling(way, x, first, seq, n, h) ==
  h = [d \in SUBSET (1 .. n) |->
         IF d = {} THEN first ELSE Turn(way, x, h[d \ {Max(d)}], seq[Max(d)])]

\* One element more.
LEMMA PeelingMore ==
  ASSUME NEW way, NEW x, NEW first, NEW seq, NEW n \in Nat, NEW h, Peeling(way, x, first, seq, n, h)
  PROVE  \E g : Peeling(way, x, first, seq, n + 1, g)
<1> DEFINE m == n + 1
           g == [d \in SUBSET (1 .. m) |->
                   IF m \in d THEN Turn(way, x, h[d \ {m}], seq[m]) ELSE h[d]]
<1>1. \A d \in SUBSET (1 .. n) :
        h[d] = IF d = {} THEN first ELSE Turn(way, x, h[d \ {Max(d)}], seq[Max(d)])
  BY Zenon DEF Peeling
<1>2. ASSUME NEW d \in SUBSET (1 .. m)
      PROVE  g[d] = IF d = {} THEN first ELSE Turn(way, x, g[d \ {Max(d)}], seq[Max(d)])
  <2>1. CASE m \in d
    <3>1. Max(d) = m
      BY <2>1, MaxIs
    <3>2. d \ {m} \in SUBSET (1 .. m) /\ m \notin d \ {m} /\ d # {}
      BY <2>1
    <3>3. g[d \ {m}] = h[d \ {m}]
      BY <3>2, Zenon
    <3>4. g[d] = Turn(way, x, h[d \ {m}], seq[m])
      BY <2>1, Zenon
    <3> HIDE DEF g
    <3>5. QED
      BY <3>1, <3>2, <3>3, <3>4
  <2>2. CASE m \notin d
    <3>1. d \in SUBSET (1 .. n)
      BY <2>2
    <3>2. \A c \in SUBSET d : g[c] = h[c]
      BY <2>2
    <3>3. g[d] = h[d] /\ g[d \ {Max(d)}] = h[d \ {Max(d)}]
      BY <3>2
    <3> HIDE DEF g
    <3>4. QED
      BY <1>1, <3>1, <3>3
  <2>3. QED
    BY <2>1, <2>2
<1>3. g = [d \in SUBSET (1 .. m) |-> g[d]]
  OBVIOUS
<1> HIDE DEF g
<1>4. Peeling(way, x, first, seq, m, g)
  BY <1>2, <1>3 DEF Peeling
<1>5. QED
  BY <1>4

LEMMA PeelingExists ==
  ASSUME NEW way, NEW x, NEW first, NEW seq, NEW n \in Nat
  PROVE  \E h : Peeling(way, x, first, seq, n, h)
<1> DEFINE N == {k \in Nat : \E h : Peeling(way, x, first, seq, k, h)}
<1>1. 0 \in N
  <2> DEFINE h == [d \in SUBSET (1 .. 0) |-> first]
  <2>1. h = [d \in SUBSET (1 .. 0) |->
               IF d = {} THEN first ELSE Turn(way, x, h[d \ {Max(d)}], seq[Max(d)])]
    <3>1. \A d \in SUBSET (1 .. 0) : d = {}
      OBVIOUS
    <3>2. QED
      BY <3>1
  <2> HIDE DEF h
  <2>2. Peeling(way, x, first, seq, 0, h)
    BY <2>1 DEF Peeling
  <2>3. QED
    BY <2>2
<1>2. \A k \in N : k + 1 \in N
  BY PeelingMore
<1> HIDE DEF N
<1>3. n \in N
  BY <1>1, <1>2, NatSetInduction
<1>4. QED
  BY <1>3 DEF N

\* The loop's results one after the other.
LEMMA PeelingRuns ==
  ASSUME NEW way, NEW x, NEW first, NEW seq, NEW n \in Nat, NEW h, Peeling(way, x, first, seq, n, h)
  PROVE  /\ h[1 .. 0] = first
         /\ \A k \in 1 .. n : h[1 .. k] = Turn(way, x, h[1 .. (k - 1)], seq[k])
<1>1. \A d \in SUBSET (1 .. n) :
        h[d] = IF d = {} THEN first ELSE Turn(way, x, h[d \ {Max(d)}], seq[Max(d)])
  BY Zenon DEF Peeling
<1>2. h[1 .. 0] = first
  <2>1. 1 .. 0 = {} /\ 1 .. 0 \in SUBSET (1 .. n)
    OBVIOUS
  <2>2. QED
    BY <1>1, <2>1
<1>3. ASSUME NEW k \in 1 .. n PROVE h[1 .. k] = Turn(way, x, h[1 .. (k - 1)], seq[k])
  <2>1. 1 .. k \in SUBSET (1 .. n) /\ 1 .. k # {} /\ Max(1 .. k) = k /\ (1 .. k) \ {k} = 1 .. (k - 1)
    BY PeelInterval
  <2>2. h[1 .. k] = Turn(way, x, h[(1 .. k) \ {Max(1 .. k)}], seq[Max(1 .. k)])
    BY <1>1, <2>1
  <2>3. QED
    BY <2>1, <2>2
<1>4. QED
  BY <1>2, <1>3

\* t has the elements of s, each once.
Shuffled(s, t) ==
  \E order \in [DOMAIN s -> DOMAIN s] :
    /\ \A i, j \in DOMAIN s : i # j => order[i] # order[j]
    /\ t = [i \in DOMAIN s |-> s[order[i]]]

\* The order of n positions has each of them once.
LEMMA OrderedIs ==
  ASSUME NEW n \in Nat, NEW before
  PROVE  Different(Ordered(n, before), 1 .. n, n)
<1> DEFINE ids == [i \in 1 .. n |-> i]
           Solves(h) ==
             h = [s \in SUBSET DOMAIN ids |->
                    IF s = {} THEN << >> ELSE Placed(h[s \ {Max(s)}], ids[Max(s)], before)]
           it == CHOOSE h : Solves(h)
<1>1. Ordered(n, before) = it[DOMAIN ids]
  BY Zenon DEF Ordered, FoldLeft, MapThenFoldSet
<1>2. DOMAIN ids = 1 .. n /\ \A i \in 1 .. n : ids[i] = i
  OBVIOUS
<1> HIDE DEF ids
<1>3. \A h : Solves(h) <=> Peeling("place", before, << >>, ids, n, h)
  BY <1>2, Zenon DEF Peeling, Turn
<1>4. \E h : Solves(h)
  BY <1>3, PeelingExists
<1>5. Solves(it)
  <2> HIDE DEF Solves
  <2>1. QED
    BY <1>4, Zenon
<1>6. Peeling("place", before, << >>, ids, n, it)
  BY <1>3, <1>5
<1> HIDE DEF it, Solves
<1>7. /\ it[1 .. 0] = << >>
      /\ \A k \in 1 .. n : it[1 .. k] = Placed(it[1 .. (k - 1)], k, before)
  BY <1>2, <1>6, PeelingRuns DEF Turn
<1> DEFINE T == {k \in 0 .. n : Different(it[1 .. k], 1 .. k, k)}
<1>8. 0 \in T
  <2>1. Different(<< >>, 1 .. 0, 0)
    BY DEF Different
  <2>2. QED
    BY <1>7, <2>1
<1>9. ASSUME NEW k \in 0 .. n, k \in T, k < n PROVE k + 1 \in T
  <2> DEFINE s == it[1 .. k]
  <2>1. k + 1 \in 1 .. n /\ (k + 1) - 1 = k /\ k + 1 \in 1 .. k + 1
    BY <1>9
  <2>2. it[1 .. (k + 1)] = Placed(s, k + 1, before)
    BY <1>7, <2>1
  <2>3. Different(s, 1 .. k, k)
    BY <1>9
  <2> HIDE DEF s
  <2>4. \A i \in 1 .. k : s[i] \in 1 .. k
    BY <2>3 DEF Different
  <2>5. \A i \in 1 .. k : s[i] # k + 1
    BY <2>4
  <2>6. Different(s, 1 .. k + 1, k)
    <3>1. s = [i \in 1 .. k |-> s[i]] /\ \A i \in 1 .. k : s[i] \in 1 .. k + 1
      BY <2>3, <2>4 DEF Different
    <3>2. s \in Seq(1 .. k + 1)
      BY <3>1
    <3>3. QED
      BY <2>3, <3>2 DEF Different
  <2>7. Different(Placed(s, k + 1, before), 1 .. k + 1, k + 1)
    BY <2>1, <2>5, <2>6, PlacedDifferent
  <2>8. QED
    BY <2>1, <2>2, <2>7
<1> HIDE DEF T
<1>10. 0 .. n \subseteq T
  BY <1>8, <1>9, IntervalInduction
<1>11. QED
  BY <1>1, <1>2, <1>10 DEF T

\* A permutation of the positions of a sequence shuffles it.
LEMMA ShuffledBy ==
  ASSUME NEW s, IsSeq(s), NEW before, NEW t,
         t = [i \in DOMAIN s |-> s[Ordered(Len(s), before)[i]]]
  PROVE  Shuffled(s, t)
<1>1. PICK n \in Nat : n = Len(s) /\ DOMAIN s = 1 .. n
  BY IsSeqIs
<1> DEFINE order == Ordered(n, before)
<1>2. Different(order, 1 .. n, n)
  BY OrderedIs
<1> HIDE DEF order
<1>3. order \in [1 .. n -> 1 .. n]
  BY <1>2 DEF Different
<1>4. QED
  BY <1>1, <1>2, <1>3 DEF Shuffled, Different, order

\* What is shuffled is a sequence of the same elements.
LEMMA ShuffledIs ==
  ASSUME NEW s, IsSeq(s), NEW t, Shuffled(s, t)
  PROVE  IsSeq(t) /\ Len(t) = Len(s) /\ ToSet(t) \subseteq ToSet(s)
<1>1. PICK n \in Nat : n = Len(s) /\ DOMAIN s = 1 .. n
  BY IsSeqIs
<1>2. PICK order \in [1 .. n -> 1 .. n] : t = [i \in 1 .. n |-> s[order[i]]]
  BY <1>1 DEF Shuffled
<1>3. t = [i \in 1 .. n |-> t[i]] /\ \A i \in 1 .. n : t[i] \in ToSet(s)
  BY <1>1, <1>2 DEF ToSet
<1>4. t \in Seq(ToSet(s)) /\ Len(t) = n
  BY <1>3
<1>5. QED
  BY <1>1, <1>4, ElementsIn

----------------------------------------------------------------------------
(* Traces *)

KeyFields == {"obj", "ctx", "partition"}

TraceKey(t) == <<t.obj, t.ctx, t.partition>>

\* Traces with different keys.
TracesFine(ts) ==
  /\ IsSeq(ts)
  /\ \A i \in DOMAIN ts : KeyFields \subseteq DOMAIN ts[i]
  /\ \A i, j \in DOMAIN ts : i # j => TraceKey(ts[i]) # TraceKey(ts[j])

\* Traces that have the same keys, in some order, each once, or fewer.
Fewer(ts, us) ==
  \E n \in Nat : \E at \in [1 .. n -> DOMAIN ts] :
    /\ us = [i \in 1 .. n |-> us[i]]
    /\ \A i, j \in 1 .. n : i # j => at[i] # at[j]
    /\ \A i \in 1 .. n : KeyFields \subseteq DOMAIN us[i] /\ TraceKey(us[i]) = TraceKey(ts[at[i]])

LEMMA FewerFine ==
  ASSUME NEW ts, TracesFine(ts), NEW us, Fewer(ts, us)
  PROVE  TracesFine(us)
<1>0. PICK n \in Nat : \E at \in [1 .. n -> DOMAIN ts] :
         /\ us = [i \in 1 .. n |-> us[i]]
         /\ \A i, j \in 1 .. n : i # j => at[i] # at[j]
         /\ \A i \in 1 .. n : KeyFields \subseteq DOMAIN us[i] /\ TraceKey(us[i]) = TraceKey(ts[at[i]])
  BY DEF Fewer
<1>1. PICK at \in [1 .. n -> DOMAIN ts] :
         /\ us = [i \in 1 .. n |-> us[i]]
         /\ \A i, j \in 1 .. n : i # j => at[i] # at[j]
         /\ \A i \in 1 .. n : KeyFields \subseteq DOMAIN us[i] /\ TraceKey(us[i]) = TraceKey(ts[at[i]])
  BY <1>0
<1>2. IsSeq(us) /\ DOMAIN us = 1 .. n
  BY <1>1, MadeIsSeq
<1>3. \A i, j \in 1 .. n : i # j => TraceKey(us[i]) # TraceKey(us[j])
  BY <1>1 DEF TracesFine
<1>4. QED
  BY <1>1, <1>2, <1>3 DEF TracesFine

\* One trace changed but for its key.
LEMMA ChangedFine ==
  ASSUME NEW ts, TracesFine(ts), NEW i \in DOMAIN ts, NEW t, KeyFields \subseteq DOMAIN t,
         TraceKey(t) = TraceKey(ts[i])
  PROVE  TracesFine([ts EXCEPT ![i] = t])
<1> DEFINE us == [ts EXCEPT ![i] = t]
<1>1. PICK n \in Nat : DOMAIN ts = 1 .. n /\ ts = [k \in 1 .. n |-> ts[k]]
  BY IsSeqIs DEF TracesFine
<1>2. us = [k \in 1 .. n |-> us[k]] /\ \A k \in 1 .. n : us[k] = IF k = i THEN t ELSE ts[k]
  BY <1>1
<1> HIDE DEF us
<1> DEFINE at == [k \in 1 .. n |-> k]
<1>3. at \in [1 .. n -> DOMAIN ts] /\ \A k \in 1 .. n : at[k] = k
  BY <1>1
<1> HIDE DEF at
<1>4. \A k \in 1 .. n : KeyFields \subseteq DOMAIN us[k] /\ TraceKey(us[k]) = TraceKey(ts[at[k]])
  BY <1>1, <1>2, <1>3 DEF TracesFine
<1>5. \A k, l \in 1 .. n : k # l => at[k] # at[l]
  BY <1>3
<1>6. Fewer(ts, us)
  BY <1>2, <1>3, <1>4, <1>5 DEF Fewer
<1>7. QED
  BY <1>6, FewerFine DEF us

\* A trace with a new key.
LEMMA AppendedFine ==
  ASSUME NEW ts, TracesFine(ts), NEW t, KeyFields \subseteq DOMAIN t,
         \A i \in DOMAIN ts : TraceKey(ts[i]) # TraceKey(t)
  PROVE  TracesFine(Append(ts, t))
<1> DEFINE us == Append(ts, t)
<1>1. PICK n \in Nat : n = Len(ts) /\ DOMAIN ts = 1 .. n
  BY IsSeqIs DEF TracesFine
<1>2. /\ IsSeq(us) /\ Len(us) = n + 1
      /\ \A i \in 1 .. n + 1 : us[i] = IF i = n + 1 THEN t ELSE ts[i]
  BY <1>1, AppendedIs DEF TracesFine
<1> HIDE DEF us
<1>3. DOMAIN us = 1 .. n + 1
  BY <1>1, <1>2, IsSeqIs
<1>4. \A i \in 1 .. n + 1 : i # n + 1 => i \in 1 .. n
  BY <1>1
<1>5. \A i \in 1 .. n + 1 : KeyFields \subseteq DOMAIN us[i]
  BY <1>1, <1>2, <1>4 DEF TracesFine
<1>6. \A i, j \in 1 .. n + 1 : i # j => TraceKey(us[i]) # TraceKey(us[j])
  BY <1>1, <1>2, <1>4 DEF TracesFine
<1>7. TracesFine(us)
  BY <1>2, <1>3, <1>5, <1>6 DEF TracesFine
<1>8. QED
  BY <1>7 DEF us

\* What the bound leaves.
LEMMA BoundFine ==
  ASSUME NEW ts, TracesFine(ts)
  PROVE  TracesFine(BoundTraces(ts))
<1>0. MaxTraces \in Nat
  BY EpisodeAssumption
<1>1. PICK n \in Nat : n = Len(ts) /\ DOMAIN ts = 1 .. n
  BY IsSeqIs DEF TracesFine
<1>2. SUFFICES ASSUME n > MaxTraces PROVE TracesFine(BoundTraces(ts))
  BY <1>0, <1>1 DEF BoundTraces
<1> DEFINE sorted == StableSort(ts, SalienceOrder)
           us == SubSeq(sorted, 1, MaxTraces)
<1>3. Shuffled(ts, sorted)
  <2> DEFINE before == {p \in (DOMAIN ts) \X (DOMAIN ts) : SalienceOrder(ts[p[1]], ts[p[2]])}
  <2>1. sorted = [i \in DOMAIN ts |-> ts[Ordered(Len(ts), before)[i]]]
    BY DEF StableSort
  <2> HIDE DEF sorted, before
  <2>2. QED
    BY <2>1, ShuffledBy DEF TracesFine
<1>4. BoundTraces(ts) = us
  BY <1>0, <1>1, <1>2 DEF BoundTraces
<1> HIDE DEF sorted
<1>5. PICK order \in [1 .. n -> 1 .. n] :
         /\ \A i, j \in 1 .. n : i # j => order[i] # order[j]
         /\ sorted = [i \in 1 .. n |-> ts[order[i]]]
  BY <1>1, <1>3 DEF Shuffled
<1> DEFINE m == MaxTraces
           at == [i \in 1 .. m |-> order[i]]
<1>6. \A i \in 1 .. m : i \in 1 .. n
  BY <1>0, <1>2
<1>7. IsSeq(sorted) /\ Len(sorted) = n
  BY <1>1, <1>3, ShuffledIs DEF TracesFine
<1>8. us = [i \in 1 .. m |-> us[i]] /\ \A i \in 1 .. m : us[i] = ts[order[i]]
  <2>1. us = [i \in 1 .. m |-> sorted[i]]
    BY <1>0, <1>2, <1>7 DEF IsSeq
  <2>2. QED
    BY <1>5, <1>6, <2>1
<1> HIDE DEF us
<1>9. at \in [1 .. m -> DOMAIN ts] /\ \A i \in 1 .. m : at[i] = order[i]
  BY <1>1, <1>6
<1> HIDE DEF at
<1>10. \A i \in 1 .. m : KeyFields \subseteq DOMAIN us[i] /\ TraceKey(us[i]) = TraceKey(ts[at[i]])
  BY <1>1, <1>6, <1>8, <1>9 DEF TracesFine
<1>11. \A i, j \in 1 .. m : i # j => at[i] # at[j]
  BY <1>5, <1>6, <1>9
<1>12. Fewer(ts, us)
  BY <1>0, <1>8, <1>9, <1>10, <1>11 DEF Fewer
<1>13. QED
  BY <1>4, <1>12, FewerFine

\* An activation strengthens the trace with its key, or leaves one.
LEMMA IngestFine ==
  ASSUME NEW ts, TracesFine(ts), NEW event, NEW prev
  PROVE  TracesFine(ingest_sparse_trace(ts, event, prev))
<1> DEFINE candidate == fresh(Len(ts) + 1, event, prev)
           same == SameTrace(ts, candidate)
<1>1. candidate.ctx = event.ctx /\ KeyFields \subseteq DOMAIN candidate
  BY DEF fresh, KeyFields
<1>2. ingest_sparse_trace(ts, event, prev) = IngestedAs(ts, candidate, same, event, prev)
  BY DEF ingest_sparse_trace
<1>3. same = {i \in DOMAIN ts : /\ ts[i].obj = candidate.obj
                                /\ ts[i].ctx = candidate.ctx
                                /\ ts[i].partition = candidate.partition}
  BY DEF SameTrace
<1> HIDE DEF candidate, same
<1>4. PICK n \in Nat : n = Len(ts) /\ DOMAIN ts = 1 .. n
  BY IsSeqIs DEF TracesFine
<1>5. CASE same # {}
  <2> DEFINE i == SmallestOf(same)
             t == absorb_activation(ts[i], event, prev)
  <2>1. i \in same
    <3>1. same \in SUBSET Nat
      BY <1>3, <1>4
    <3>2. QED
      BY <1>5, <3>1, SmallestOfIn
  <2>2. i \in DOMAIN ts /\ ts[i].ctx = event.ctx
    BY <1>1, <1>3, <2>1
  <2>3. IngestedAs(ts, candidate, same, event, prev) = [ts EXCEPT ![i] = t]
    BY <1>5 DEF IngestedAs
  <2> HIDE DEF i
  <2>4. KeyFields \subseteq DOMAIN ts[i]
    BY <2>2 DEF TracesFine
  <2>5. KeyFields \subseteq DOMAIN t /\ TraceKey(t) = TraceKey(ts[i])
    <3> DEFINE tr == ts[i]
    <3>1. KeyFields \subseteq DOMAIN tr /\ tr.ctx = event.ctx
      BY <2>2, <2>4
    <3>2. t = absorb_activation(tr, event, prev)
      OBVIOUS
    <3> HIDE DEF tr, t
    <3>3. DOMAIN t = DOMAIN tr /\ t.obj = tr.obj /\ t.ctx = event.ctx /\ t.partition = tr.partition
      BY <3>1, <3>2 DEF absorb_activation, KeyFields
    <3>4. QED
      BY <3>1, <3>3 DEF TraceKey, tr
  <2> HIDE DEF t
  <2>6. TracesFine([ts EXCEPT ![i] = t])
    BY <2>2, <2>5, ChangedFine
  <2>7. QED
    BY <1>2, <2>3, <2>6
<1>6. CASE same = {}
  <2> DEFINE t == [candidate EXCEPT !.slot = diversified_collision_slot(ts, candidate)]
  <2>1. IngestedAs(ts, candidate, same, event, prev) = BoundTraces(Append(ts, t))
    BY <1>6 DEF IngestedAs
  <2>2. DOMAIN t = DOMAIN candidate /\ TraceKey(t) = TraceKey(candidate)
    BY <1>1 DEF KeyFields, TraceKey
  <2> HIDE DEF t
  <2>3. \A k \in DOMAIN ts : TraceKey(ts[k]) # TraceKey(t)
    BY <1>3, <1>6, <2>2 DEF TraceKey
  <2>4. TracesFine(Append(ts, t))
    BY <1>1, <2>2, <2>3, AppendedFine
  <2>5. QED
    BY <1>2, <2>1, <2>4, BoundFine
<1>7. QED
  BY <1>5, <1>6

----------------------------------------------------------------------------
(* Memories *)

MemoryFine(m) == "traces" \in DOMAIN m /\ TracesFine(m.traces)

\* A trace's credit does not change its key.
LEMMA CreditedFine ==
  ASSUME NEW ts, TracesFine(ts), NEW i \in DOMAIN ts, NEW t, DOMAIN t = DOMAIN ts[i],
         t.obj = ts[i].obj, t.ctx = ts[i].ctx, t.partition = ts[i].partition
  PROVE  TracesFine([ts EXCEPT ![i] = t])
<1>1. KeyFields \subseteq DOMAIN t
  BY DEF TracesFine
<1>2. TraceKey(t) = TraceKey(ts[i])
  BY DEF TraceKey
<1>3. QED
  BY <1>1, <1>2, ChangedFine

LEMMA RecreditedFine ==
  ASSUME NEW m, MemoryFine(m), NEW family, NEW tick
  PROVE  TracesFine(Recredited(m, family, tick))
<1> DEFINE ts == ingest_sparse_trace(m.traces, LastEvent(m)[1], previous_working_event(m))
           i == Len(ts)
           t == [ts[i] EXCEPT !.wins = record_win(@, family, TRUE), !.salience = @ + 24,
                              !.support = @ + 1, !.recency = tick]
<1>1. TracesFine(ts)
  BY IngestFine DEF MemoryFine
<1>2. Recredited(m, family, tick) = [ts EXCEPT ![i] = t]
  <2>1. Recredited(m, family, tick) = CreditedLast(ts, family, tick)
    BY DEF Recredited
  <2> HIDE DEF ts
  <2>2. CreditedLast(ts, family, tick) = [ts EXCEPT ![i] = t]
    BY DEF CreditedLast
  <2>3. QED
    BY <2>1, <2>2
<1> HIDE DEF ts
<1>3. CASE i \in DOMAIN ts
  <2>1. KeyFields \subseteq DOMAIN ts[i]
    BY <1>1, <1>3 DEF TracesFine
  <2>2. /\ DOMAIN t = DOMAIN ts[i]
        /\ t.obj = ts[i].obj /\ t.ctx = ts[i].ctx /\ t.partition = ts[i].partition
    BY <2>1 DEF KeyFields
  <2> HIDE DEF t, i
  <2>3. TracesFine([ts EXCEPT ![i] = t])
    BY <1>1, <1>3, <2>2, CreditedFine
  <2>4. QED
    BY <1>2, <2>3
<1>4. CASE i \notin DOMAIN ts
  <2> HIDE DEF t, i
  <2>1. PICK n \in Nat : ts = [k \in 1 .. n |-> ts[k]] /\ DOMAIN ts = 1 .. n
    BY <1>1, IsSeqIs DEF TracesFine
  <2>2. [ts EXCEPT ![i] = t] = ts
    BY <1>4, <2>1
  <2>3. QED
    BY <1>1, <1>2, <2>2
<1>5. QED
  BY <1>3, <1>4

LEMMA OutcomeFine ==
  ASSUME NEW m, MemoryFine(m), NEW family, NEW source, NEW ctx, NEW tick, NEW success
  PROVE  MemoryFine(record_trace_outcome(m, family, source, ctx, tick, success))
<1> DEFINE match == Rewarded(m.traces, source, ctx, tick)
           i == LargestOf(match)
           t == Reinforced(m.traces[i], family, tick, success)
<1>1. PICK n \in Nat : DOMAIN m.traces = 1 .. n
  BY IsSeqIs DEF MemoryFine, TracesFine
<1>2. match \in SUBSET (1 .. n)
  BY <1>1 DEF Rewarded
<1> HIDE DEF match
<1>3. CASE match # {}
  <2>1. i \in DOMAIN m.traces
    <3>1. match \in SUBSET (0 .. n)
      BY <1>2
    <3>2. i \in match
      BY <1>3, <3>1, LargestOfIn
    <3>3. QED
      BY <1>1, <1>2, <3>2
  <2>2. record_trace_outcome(m, family, source, ctx, tick, success) = [m EXCEPT !.traces[i] = t]
    BY <1>3 DEF record_trace_outcome, match
  <2> HIDE DEF i
  <2>3. KeyFields \subseteq DOMAIN m.traces[i]
    BY <2>1 DEF MemoryFine, TracesFine
  <2>4. /\ DOMAIN t = DOMAIN m.traces[i]
        /\ t.obj = m.traces[i].obj /\ t.ctx = m.traces[i].ctx /\ t.partition = m.traces[i].partition
    BY <2>3 DEF KeyFields, Reinforced
  <2> HIDE DEF t
  <2>5. TracesFine([m.traces EXCEPT ![i] = t])
    BY <2>1, <2>4, CreditedFine DEF MemoryFine
  <2>6. [m EXCEPT !.traces[i] = t] = [m EXCEPT !.traces = [m.traces EXCEPT ![i] = t]]
    OBVIOUS
  <2>7. QED
    BY <2>2, <2>5, <2>6 DEF MemoryFine
<1>4. CASE match = {}
  <2>1. CASE success /\ m.events # << >>
    <3>1. record_trace_outcome(m, family, source, ctx, tick, success)
            = [m EXCEPT !.traces = Recredited(m, family, tick)]
      BY <1>4, <2>1 DEF record_trace_outcome, match
    <3>2. TracesFine(Recredited(m, family, tick))
      BY RecreditedFine
    <3>3. QED
      BY <3>1, <3>2 DEF MemoryFine
  <2>2. CASE ~(success /\ m.events # << >>)
    BY <1>4, <2>2 DEF record_trace_outcome, match
  <2>3. QED
    BY <2>1, <2>2
<1>5. QED
  BY <1>3, <1>4

LEMMA ActivationFine ==
  ASSUME NEW m, MemoryFine(m), NEW event
  PROVE  MemoryFine(append_activation(m, event))
<1> DEFINE prev == LastEvent(m)
           events == Trim(Append(m.events, event), MaxEvents)
           node == [id |-> Len(m.nodes) + 1, obj |-> event.obj, ctx |-> event.ctx]
           nodes == Trim(Append(m.nodes, node), MaxNodes)
           edge == NewEdge(nodes, m.edges, event, prev)
           base == IF Len(nodes) >= 2 THEN EdgeAdded(m, event, edge) ELSE m
           ts == ingest_sparse_trace(base.traces, event, prev)
           hashes == recent_context_hashes([m EXCEPT !.events = events])
<1>1. append_activation(m, event)
        = [base EXCEPT !.events = events, !.nodes = nodes, !.traces = ts,
                       !.counts = observe(base.counts, hashes, event.obj)]
  BY Zenon DEF append_activation
<1> HIDE DEF prev, events, node, nodes, edge, hashes
<1>2. "traces" \in DOMAIN base /\ base.traces = m.traces
  BY DEF MemoryFine, EdgeAdded
<1> HIDE DEF base
<1>3. TracesFine(ts)
  BY <1>2, IngestFine DEF MemoryFine
<1> HIDE DEF ts
<1>4. QED
  BY <1>1, <1>2, <1>3 DEF MemoryFine

----------------------------------------------------------------------------
(* The server *)

ObjectFields ==
  {"assemblies", "schemas", "classes", "filed", "shelf", "families", "operations", "behind"}

QueueFields == {"replay", "assemblyQueue", "schemaQueue", "jobs"}

Fields == ObjectFields \union QueueFields \union {"memory"}

Known == Fields \union {"failed"}

\* What an object's copy of its lifecycle is compared with.
World(s) == [families |-> s.families, operations |-> s.operations, behind |-> s.behind]

Retired(w, family) == Operation("Retire", family) \in ToSet(w.operations)

\* Not behind the object, and not ahead unless the object could not be written.
LevelFits(w, family, obj, level) ==
  /\ w.families[family].life.level >= level
  /\ w.families[family].life.level = level \/ obj \in w.behind

\* An object's copy of its lifecycle: the family it names is of this very object, and is the
\* ontology's or was retired.
Mirrors(w, kind, id, life) ==
  /\ {"level", "family"} \subseteq DOMAIN life
  /\ life.level \in 0 .. Canonical
  /\ life.family # << >> =>
       /\ life.family[1][3].kind = kind /\ life.family[1][3].id = id
       /\ IF life.family[1] \in DOMAIN w.families
          THEN LevelFits(w, life.family[1], ObjectRef(kind, id), life.level)
          ELSE Retired(w, life.family[1])

AssembliesFine(w, assemblies) ==
  \A id \in DOMAIN assemblies :
    "life" \in DOMAIN assemblies[id] /\ Mirrors(w, AssemblyKind, id, assemblies[id].life)

\* The file of a class may be older than the class.
ClassesFine(w, classes, filed) ==
  /\ DOMAIN filed = DOMAIN classes
  /\ \A id \in DOMAIN classes :
       /\ "life" \in DOMAIN classes[id] /\ Mirrors(w, TransformKind, id, classes[id].life)
       /\ "life" \in DOMAIN filed[id] /\ Mirrors(w, TransformKind, id, filed[id].life)
       /\ filed[id].life.level <= classes[id].life.level

SchemasFine(w, schemas) ==
  /\ IsSeq(schemas)
  /\ \A schema \in ToSet(schemas) :
       /\ {"id", "life"} \subseteq DOMAIN schema
       /\ Mirrors(w, SchemaKind, schema.id, schema.life)

\* What was never stored is new.
ShelfFine(shelf) ==
  \A id \in DOMAIN shelf : "life" \in DOMAIN shelf[id] /\ shelf[id].life = NewLifecycle

ObjectsFine(s) ==
  /\ AssembliesFine(World(s), s.assemblies)
  /\ ClassesFine(World(s), s.classes, s.filed)
  /\ SchemasFine(World(s), s.schemas)
  /\ ShelfFine(s.shelf) /\ IsSeq(s.operations)

QueuesFine(s) ==
  IsSeq(s.replay) /\ IsSeq(s.assemblyQueue) /\ IsSeq(s.schemaQueue) /\ IsSeq(s.jobs)

ServerFine(s) ==
  /\ Known \subseteq DOMAIN s
  /\ MemoryFine(s.memory)
  /\ QueuesFine(s)
  /\ ObjectsFine(s)

\* The fields one by one.
LEMMA FieldsAre ==
  /\ \A s, t : (\A f \in ObjectFields : t[f] = s[f]) =>
       /\ t.assemblies = s.assemblies /\ t.schemas = s.schemas /\ t.classes = s.classes
       /\ t.filed = s.filed /\ t.shelf = s.shelf /\ t.operations = s.operations
       /\ World(t) = World(s)
  /\ \A s, t : (\A f \in QueueFields : t[f] = s[f]) =>
       /\ t.replay = s.replay /\ t.assemblyQueue = s.assemblyQueue
       /\ t.schemaQueue = s.schemaQueue /\ t.jobs = s.jobs
BY DEF ObjectFields, QueueFields, World

\* What touches neither the memory nor what is learned.
LEMMA SameFine ==
  ASSUME NEW s, ServerFine(s), NEW t, Known \subseteq DOMAIN t,
         \A f \in Fields : t[f] = s[f]
  PROVE  ServerFine(t)
<1>1. (\A f \in ObjectFields : t[f] = s[f]) /\ (\A f \in QueueFields : t[f] = s[f])
      /\ t.memory = s.memory
  BY DEF Fields
<1>2. ObjectsFine(t)
  BY <1>1, FieldsAre DEF ObjectsFine, ServerFine
<1>3. QueuesFine(t)
  BY <1>1, FieldsAre DEF QueuesFine, ServerFine
<1>4. QED
  BY <1>1, <1>2, <1>3 DEF ServerFine

\* A step that changes the memory alone.
LEMMA RememberedFine ==
  ASSUME NEW s, ServerFine(s), NEW m, MemoryFine(m)
  PROVE  ServerFine([s EXCEPT !.memory = m])
<1> DEFINE t == [s EXCEPT !.memory = m]
<1>1. DOMAIN t = DOMAIN s /\ t.memory = m
  BY DEF ServerFine, Known, Fields
<1>2. (\A f \in ObjectFields : t[f] = s[f]) /\ (\A f \in QueueFields : t[f] = s[f])
  BY DEF ServerFine, ObjectFields, QueueFields
<1> HIDE DEF t
<1>3. ObjectsFine(t)
  BY <1>2, FieldsAre DEF ObjectsFine, ServerFine
<1>4. QueuesFine(t)
  BY <1>2, FieldsAre DEF QueuesFine, ServerFine
<1>5. ServerFine(t)
  BY <1>1, <1>3, <1>4 DEF ServerFine
<1>6. QED
  BY <1>5 DEF t

LEMMA DetailFine ==
  ASSUME NEW s, ServerFine(s), NEW family, NEW source, NEW ctx, NEW success, NEW symbol
  PROVE  ServerFine(record_route_outcome_detail(s, family, source, ctx, success, symbol))
<1> DEFINE m == record_trace_outcome(s.memory, family, <<source>>, ctx, s.tick, success)
           u == [s EXCEPT !.memory = m]
           t == record_route_outcome_detail(s, family, source, ctx, success, symbol)
<1>1. MemoryFine(m)
  BY OutcomeFine DEF ServerFine
<1>2. DOMAIN t = DOMAIN s /\ \A f \in Fields : t[f] = u[f]
  BY DEF record_route_outcome_detail, ServerFine, Known, Fields, ObjectFields, QueueFields
<1> HIDE DEF t, m
<1>3. ServerFine(u)
  BY <1>1, RememberedFine
<1> HIDE DEF u
<1>4. ServerFine(t)
  BY <1>2, <1>3, SameFine DEF ServerFine
<1>5. QED
  BY <1>4 DEF t

LEMMA OutcomeRecordedFine ==
  ASSUME NEW s, ServerFine(s), NEW family, NEW source, NEW ctx, NEW success
  PROVE  ServerFine(record_route_outcome(s, family, source, ctx, success))
<1> DEFINE u == record_route_outcome_detail(s, family, source, ctx, success, << >>)
           t == record_route_outcome(s, family, source, ctx, success)
<1>1. ServerFine(u)
  BY DetailFine
<1>2. DOMAIN t = DOMAIN u /\ \A f \in Fields : t[f] = u[f]
  <2> HIDE DEF u
  <2>1. t = [u EXCEPT !.tree = Trained(@, family, s.tick),
                      !.window = Trim(Append(@, family), WindowLimit),
                      !.arms = record_arm(@, family, success)]
    BY DEF record_route_outcome, u
  <2> HIDE DEF t
  <2>2. QED
    BY <1>1, <2>1 DEF ServerFine, Known, Fields, ObjectFields, QueueFields
<1> HIDE DEF t, u
<1>3. ServerFine(t)
  BY <1>1, <1>2, SameFine DEF ServerFine
<1>4. QED
  BY <1>3 DEF t

LEMMA DowngradeFine ==
  ASSUME NEW s, ServerFine(s), NEW planned, NEW source, NEW ctx
  PROVE  ServerFine(record_direct_state_downgrade(s, planned, source, ctx))
<1> DEFINE u == record_route_outcome(s, planned, source, ctx, FALSE)
           t == record_direct_state_downgrade(s, planned, source, ctx)
<1>1. ServerFine(u)
  BY OutcomeRecordedFine
<1>2. DOMAIN t = DOMAIN u /\ \A f \in Fields : t[f] = u[f]
  <2> HIDE DEF u
  <2>1. \A a : LET v == [u EXCEPT !.downgrades = a]
               IN DOMAIN v = DOMAIN u /\ \A f \in Fields : v[f] = u[f]
    BY <1>1 DEF ServerFine, Known, Fields, ObjectFields, QueueFields
  <2>2. QED
    BY <2>1, Zenon DEF record_direct_state_downgrade, u
<1> HIDE DEF t, u
<1>3. ServerFine(t)
  BY <1>1, <1>2, SameFine DEF ServerFine
<1>4. QED
  BY <1>3 DEF t

\* Storing and evicting leave what is learned alone.
LEMMA StoredFine ==
  ASSUME NEW s, ServerFine(s), NEW item, NEW content
  PROVE  /\ ServerFine(Stored(s, item, content))
         /\ ServerFine(store_runtime_object_for_item(s, item, content))
<1>1. ASSUME NEW t, ServerFine(t) PROVE ServerFine(Stored(t, item, content))
  <2>1. /\ DOMAIN Stored(t, item, content) = DOMAIN t
        /\ \A f \in Fields : Stored(t, item, content)[f] = t[f]
    BY <1>1 DEF ServerFine, Known, Fields, ObjectFields, QueueFields, Stored
  <2>2. QED
    BY <1>1, <2>1, SameFine DEF ServerFine
<1>2. ASSUME NEW t, ServerFine(t) PROVE ServerFine(Evicted(t, item))
  <2>1. /\ DOMAIN Evicted(t, item) = DOMAIN t
        /\ \A f \in Fields : Evicted(t, item)[f] = t[f]
    BY <1>2 DEF ServerFine, Known, Fields, ObjectFields, QueueFields, Evicted
  <2>2. QED
    BY <1>2, <2>1, SameFine DEF ServerFine
<1>3. ServerFine([s EXCEPT !.local = insert_block(@, SourceOf(s.bound, item), content)])
  <2> DEFINE v == [s EXCEPT !.local = insert_block(@, SourceOf(s.bound, item), content)]
  <2>1. DOMAIN v = DOMAIN s /\ \A f \in Fields : v[f] = s[f]
    BY DEF ServerFine, Known, Fields, ObjectFields, QueueFields
  <2> HIDE DEF v
  <2>2. ServerFine(v)
    BY <2>1, SameFine DEF ServerFine
  <2>3. QED
    BY <2>2 DEF v
<1>4. ServerFine(store_runtime_object_for_item(s, item, content))
  BY <1>1, <1>2, <1>3, Zenon DEF store_runtime_object_for_item
<1>5. QED
  BY <1>1, <1>4

----------------------------------------------------------------------------
(* Queues *)

Sorted(u, before) == [i \in DOMAIN u |-> u[Ordered(Len(u), before)[i]]]

\* What is sorted is a sequence of the elements that there were.
LEMMA PushedIs ==
  ASSUME NEW q, IsSeq(q), NEW e, NEW before
  PROVE  /\ IsSeq(Sorted(Append(q, e), before))
         /\ ToSet(Sorted(Append(q, e), before)) \subseteq ToSet(q) \union {e}
<1> DEFINE u == Append(q, e)
           t == Sorted(u, before)
<1>1. IsSeq(u) /\ ToSet(u) = ToSet(q) \union {e}
  BY AppendedIs
<1> HIDE DEF u
<1>2. t = [i \in DOMAIN u |-> u[Ordered(Len(u), before)[i]]]
  BY DEF Sorted
<1> HIDE DEF t
<1>3. Shuffled(u, t)
  BY <1>1, <1>2, ShuffledBy
<1>4. IsSeq(t) /\ ToSet(t) \subseteq ToSet(q) \union {e}
  BY <1>1, <1>3, ShuffledIs
<1>5. QED
  BY <1>4 DEF t, u

LEMMA PushesAre ==
  ASSUME NEW q, IsSeq(q), NEW e
  PROVE  /\ IsSeq(push_assembly(q, e)) /\ IsSeq(push_schema(q, e)) /\ IsSeq(push_replay(q, e))
         /\ IsSeq(push_job(q, e))
<1> DEFINE u == Append(q, e)
           pairs == (DOMAIN u) \X (DOMAIN u)
           assembly == {p \in pairs : Outranks(AssemblyRank(u[p[1]]), AssemblyRank(u[p[2]]))}
           schema == {p \in pairs : Outranks(SchemaRank(u[p[1]]), SchemaRank(u[p[2]]))}
           job == {p \in pairs : Outranks(JobRank(u[p[1]]), JobRank(u[p[2]]))}
           replay == {p \in pairs : ReplayBefore(u[p[1]], u[p[2]])}
<1>1. push_assembly(q, e) = Sorted(u, assembly)
  BY Zenon DEF push_assembly, StableSort, Sorted
<1>2. push_schema(q, e) = Sorted(u, schema)
  BY Zenon DEF push_schema, StableSort, Sorted
<1>3. push_job(q, e) = Sorted(u, job)
  BY Zenon DEF push_job, StableSort, Sorted
<1>4. push_replay(q, e) = Sorted(u, replay)
  BY Zenon DEF push_replay, StableSort, Sorted
<1> HIDE DEF assembly, schema, job, replay
<1>5. ASSUME NEW before
      PROVE  IsSeq(Sorted(u, before)) /\ ToSet(Sorted(u, before)) \subseteq ToSet(q) \union {e}
  BY PushedIs
<1> HIDE DEF u
<1>6. QED
  BY <1>1, <1>2, <1>3, <1>4, <1>5

\* A step that changes the queues alone.
LEMMA QueuedFine ==
  ASSUME NEW s, ServerFine(s), NEW t, Known \subseteq DOMAIN t,
         \A f \in Fields \ QueueFields : t[f] = s[f], QueuesFine(t)
  PROVE  ServerFine(t)
<1>1. (\A f \in ObjectFields : t[f] = s[f]) /\ t.memory = s.memory
  BY DEF Fields, ObjectFields, QueueFields
<1>2. ObjectsFine(t)
  BY <1>1, FieldsAre DEF ObjectsFine, ServerFine
<1>3. QED
  BY <1>1, <1>2 DEF ServerFine

\* One queue written.
LEMMA QueueFine ==
  ASSUME NEW s, ServerFine(s), NEW q, IsSeq(q)
  PROVE  /\ ServerFine([s EXCEPT !.assemblyQueue = q])
         /\ ServerFine([s EXCEPT !.schemaQueue = q])
         /\ ServerFine([s EXCEPT !.replay = q])
         /\ ServerFine([s EXCEPT !.jobs = q])
<1>1. ServerFine([s EXCEPT !.assemblyQueue = q])
  <2> DEFINE t == [s EXCEPT !.assemblyQueue = q]
  <2>1. /\ DOMAIN t = DOMAIN s /\ \A f \in Fields \ QueueFields : t[f] = s[f]
        /\ t.assemblyQueue = q /\ t.schemaQueue = s.schemaQueue /\ t.replay = s.replay
        /\ t.jobs = s.jobs
    BY DEF ServerFine, Known, Fields, ObjectFields, QueueFields
  <2> HIDE DEF t
  <2>2. QueuesFine(t)
    BY <2>1 DEF QueuesFine, ServerFine
  <2>3. ServerFine(t)
    BY <2>1, <2>2, QueuedFine DEF ServerFine
  <2>4. QED
    BY <2>3 DEF t
<1>2. ServerFine([s EXCEPT !.schemaQueue = q])
  <2> DEFINE t == [s EXCEPT !.schemaQueue = q]
  <2>1. /\ DOMAIN t = DOMAIN s /\ \A f \in Fields \ QueueFields : t[f] = s[f]
        /\ t.schemaQueue = q /\ t.assemblyQueue = s.assemblyQueue /\ t.replay = s.replay
        /\ t.jobs = s.jobs
    BY DEF ServerFine, Known, Fields, ObjectFields, QueueFields
  <2> HIDE DEF t
  <2>2. QueuesFine(t)
    BY <2>1 DEF QueuesFine, ServerFine
  <2>3. ServerFine(t)
    BY <2>1, <2>2, QueuedFine DEF ServerFine
  <2>4. QED
    BY <2>3 DEF t
<1>3. ServerFine([s EXCEPT !.replay = q])
  <2> DEFINE t == [s EXCEPT !.replay = q]
  <2>1. /\ DOMAIN t = DOMAIN s /\ \A f \in Fields \ QueueFields : t[f] = s[f]
        /\ t.replay = q /\ t.assemblyQueue = s.assemblyQueue /\ t.schemaQueue = s.schemaQueue
        /\ t.jobs = s.jobs
    BY DEF ServerFine, Known, Fields, ObjectFields, QueueFields
  <2> HIDE DEF t
  <2>2. QueuesFine(t)
    BY <2>1 DEF QueuesFine, ServerFine
  <2>3. ServerFine(t)
    BY <2>1, <2>2, QueuedFine DEF ServerFine
  <2>4. QED
    BY <2>3 DEF t
<1>4. ServerFine([s EXCEPT !.jobs = q])
  <2> DEFINE t == [s EXCEPT !.jobs = q]
  <2>1. /\ DOMAIN t = DOMAIN s /\ \A f \in Fields \ QueueFields : t[f] = s[f]
        /\ t.jobs = q /\ t.assemblyQueue = s.assemblyQueue /\ t.schemaQueue = s.schemaQueue
        /\ t.replay = s.replay
    BY DEF ServerFine, Known, Fields, ObjectFields, QueueFields
  <2> HIDE DEF t
  <2>2. QueuesFine(t)
    BY <2>1 DEF QueuesFine, ServerFine
  <2>3. ServerFine(t)
    BY <2>1, <2>2, QueuedFine DEF ServerFine
  <2>4. QED
    BY <2>3 DEF t
<1>5. QED
  BY <1>1, <1>2, <1>3, <1>4

LEMMA EnqueuedFine ==
  ASSUME NEW s, ServerFine(s)
  PROVE  /\ \A id, assembly, savings, ambiguity :
              ServerFine(maybe_enqueue_assembly_promotion(s, id, assembly, savings, ambiguity))
         /\ \A id : ServerFine(maybe_enqueue_transform_promotion(s, id))
         /\ \A schema : ServerFine(maybe_enqueue_schema_promotion(s, schema))
<1>3. ASSUME NEW q PROVE ServerFine([s EXCEPT !.transformQueue = q])
  <2> DEFINE t == [s EXCEPT !.transformQueue = q]
  <2>1. DOMAIN t = DOMAIN s /\ \A f \in Fields : t[f] = s[f]
    BY DEF ServerFine, Known, Fields, ObjectFields, QueueFields
  <2> HIDE DEF t
  <2>2. ServerFine(t)
    BY <2>1, SameFine DEF ServerFine
  <2>3. QED
    BY <2>2 DEF t
<1>4. IsSeq(s.assemblyQueue) /\ IsSeq(s.schemaQueue)
  BY DEF ServerFine, QueuesFine
<1>5. ASSUME NEW e PROVE ServerFine([s EXCEPT !.assemblyQueue = push_assembly(@, e)])
  BY <1>4, PushesAre, QueueFine
<1>6. ASSUME NEW e PROVE ServerFine([s EXCEPT !.schemaQueue = push_schema(@, e)])
  BY <1>4, PushesAre, QueueFine
<1>7. ASSUME NEW id, NEW assembly, NEW savings, NEW ambiguity
      PROVE  ServerFine(maybe_enqueue_assembly_promotion(s, id, assembly, savings, ambiguity))
  BY <1>5, Zenon DEF maybe_enqueue_assembly_promotion
<1>8. ASSUME NEW id PROVE ServerFine(maybe_enqueue_transform_promotion(s, id))
  BY <1>3, Zenon DEF maybe_enqueue_transform_promotion
<1>9. ASSUME NEW schema PROVE ServerFine(maybe_enqueue_schema_promotion(s, schema))
  BY <1>6, Zenon DEF maybe_enqueue_schema_promotion
<1>10. QED
  BY <1>7, <1>8, <1>9

\* An activation that is remembered and replayed later.
LEMMA ActivatedFine ==
  ASSUME NEW s, ServerFine(s), NEW item, NEW event
  PROVE  ServerFine(append_episode_activation_for_item(s, item, event))
<1> DEFINE m == append_activation(s.memory, event)
           u == [s EXCEPT !.memory = m]
           entry == ReplayEntry(m, event)
           t == append_episode_activation_for_item(s, item, event)
<1>1. ServerFine(u)
  <2>1. MemoryFine(m)
    BY ActivationFine DEF ServerFine
  <2> HIDE DEF m
  <2>2. QED
    BY <2>1, RememberedFine
<1>2. t = Queued(u, item, ReplayEntry(u.memory, event))
  BY Zenon DEF append_episode_activation_for_item, Activated
<1> HIDE DEF t, u
<1>3. ASSUME NEW e PROVE ServerFine(Queued(u, item, e))
  <2> DEFINE v == Queued(u, item, e)
  <2>1. /\ DOMAIN v = DOMAIN u /\ \A f \in Fields \ QueueFields : v[f] = u[f]
        /\ v.replay = push_replay(u.replay, e) /\ v.schemaQueue = u.schemaQueue
        /\ v.assemblyQueue = u.assemblyQueue /\ v.jobs = u.jobs
    BY <1>1 DEF ServerFine, Known, Fields, ObjectFields, QueueFields, Queued
  <2> HIDE DEF v
  <2>2. IsSeq(v.replay)
    BY <1>1, <2>1, PushesAre DEF ServerFine, QueuesFine
  <2>3. QueuesFine(v)
    BY <1>1, <2>1, <2>2 DEF QueuesFine, ServerFine
  <2>4. ServerFine(v)
    BY <1>1, <2>1, <2>3, QueuedFine DEF ServerFine
  <2>5. QED
    BY <2>4 DEF v
<1>4. ServerFine(t)
  BY <1>2, <1>3
<1>5. QED
  BY <1>4 DEF t

\* How far a call has come is none of the fields.
LEMMA FlowFine ==
  ASSUME NEW s, ServerFine(s)
  PROVE  /\ ServerFine(Abandoned(s)) /\ ServerFine(LookedUp(s)) /\ ServerFine(Settled(s))
         /\ \A uses : ServerFine([s EXCEPT !.uses = uses])
<1> DEFINE Alike(t) == DOMAIN t = DOMAIN s /\ \A f \in Fields : t[f] = s[f]
<1>1. \A t : Alike(t) => ServerFine(t)
  BY SameFine DEF ServerFine
<1>2. Alike(Abandoned(s)) /\ Alike(LookedUp(s)) /\ Alike(Settled(s))
  BY DEF ServerFine, Known, Fields, ObjectFields, QueueFields, Abandoned, LookedUp, Settled
<1>3. \A uses : Alike([s EXCEPT !.uses = uses])
  BY DEF ServerFine, Known, Fields, ObjectFields, QueueFields
<1> HIDE DEF Alike
<1>4. QED
  BY <1>1, <1>2, <1>3

LEMMA IngestedKnownFine ==
  ASSUME NEW s, ServerFine(s), NEW entry, NEW tick
  PROVE  ServerFine(IngestedKnown(s, entry, tick))
<1> DEFINE u == Requeued(s, entry)
           job == Job(entry, tick, Len(u.jobs))
<1>1. ServerFine(u)
  BY EnqueuedFine DEF Requeued
<1>2. IngestedKnown(s, entry, tick) = [u EXCEPT !.jobs = push_job(u.jobs, job)]
  BY Zenon DEF IngestedKnown
<1> HIDE DEF u, job
<1>3. IsSeq(push_job(u.jobs, job))
  BY <1>1, PushesAre DEF ServerFine, QueuesFine
<1>4. \A q : IsSeq(q) => ServerFine([u EXCEPT !.jobs = q])
  BY <1>1, QueueFine
<1>5. QED
  BY <1>2, <1>3, <1>4, Zenon

LEMMA IngestedFine ==
  ASSUME NEW s, ServerFine(s), NEW entry, NEW tick
  PROVE  ServerFine(Ingested(s, entry, tick))
BY IngestedKnownFine, FlowFine DEF Ingested

----------------------------------------------------------------------------
(* Families and the objects that belong to them *)

Owned(family, kind, id) == family[3].kind = kind /\ family[3].id = id

\* The world v is the world w but for one family, which is at a level and whose owner may be
\* said to be behind it or no longer.
Rewritten(w, v, family, level) ==
  /\ family \in DOMAIN v.families /\ v.families[family].life.level = level
  /\ \A f : f # family => /\ f \in DOMAIN w.families <=> f \in DOMAIN v.families
                          /\ f \in DOMAIN w.families =>
                               v.families[f].life.level = w.families[f].life.level
  /\ ToSet(w.operations) \subseteq ToSet(v.operations)
  /\ \A kind, id : ~Owned(family, kind, id)
                     => (ObjectRef(kind, id) \in w.behind <=> ObjectRef(kind, id) \in v.behind)

\* An object is not told of another object's family.
LEMMA OthersMirror ==
  ASSUME NEW w, NEW v, NEW family, NEW level, Rewritten(w, v, family, level),
         NEW kind, NEW id, NEW life, Mirrors(w, kind, id, life), ~Owned(family, kind, id)
  PROVE  Mirrors(v, kind, id, life)
<1>1. SUFFICES ASSUME life.family # << >>
               PROVE  IF life.family[1] \in DOMAIN v.families
                      THEN LevelFits(v, life.family[1], ObjectRef(kind, id), life.level)
                      ELSE Retired(v, life.family[1])
  BY DEF Mirrors
<1> DEFINE f == life.family[1]
<1>2. f # family
  BY <1>1 DEF Mirrors, Owned
<1>3. IF f \in DOMAIN w.families THEN LevelFits(w, f, ObjectRef(kind, id), life.level) ELSE Retired(w, f)
  BY <1>1 DEF Mirrors
<1> HIDE DEF f
<1>4. IF f \in DOMAIN v.families THEN LevelFits(v, f, ObjectRef(kind, id), life.level) ELSE Retired(v, f)
  BY <1>2, <1>3 DEF Rewritten, LevelFits, Retired
<1>5. QED
  BY <1>4 DEF f

\* The object that joins the family has the family's level.
LEMMA MemberMirrors ==
  ASSUME NEW w, NEW v, NEW family, NEW life, Rewritten(w, v, family, life.level),
         NEW kind, NEW id, {"level", "family"} \subseteq DOMAIN life, life.level \in 0 .. Canonical,
         Owned(family, kind, id)
  PROVE  Mirrors(v, kind, id, Joined(life, family)) /\ Joined(life, family).level = life.level
<1>1. /\ DOMAIN Joined(life, family) = DOMAIN life
      /\ Joined(life, family).family = <<family>>
      /\ Joined(life, family).level = life.level
  BY DEF Joined
<1>2. <<family>>[1] = family
  OBVIOUS
<1>3. LevelFits(v, family, ObjectRef(kind, id), life.level)
  BY DEF Rewritten, LevelFits
<1>4. family \in DOMAIN v.families
  BY DEF Rewritten
<1>5. QED
  BY <1>1, <1>2, <1>3, <1>4 DEF Mirrors, Owned

\* The object that could not be written has not passed the family.
LEMMA StaleMirrors ==
  ASSUME NEW w, NEW v, NEW family, NEW level \in Int, Rewritten(w, v, family, level),
         NEW kind, NEW id, ObjectRef(kind, id) \in v.behind,
         NEW life, Mirrors(w, kind, id, life), life.level <= level
  PROVE  Mirrors(v, kind, id, life)
<1>1. SUFFICES ASSUME life.family # << >>
               PROVE  IF life.family[1] \in DOMAIN v.families
                      THEN LevelFits(v, life.family[1], ObjectRef(kind, id), life.level)
                      ELSE Retired(v, life.family[1])
  BY DEF Mirrors
<1> DEFINE f == life.family[1]
<1>2. IF f \in DOMAIN w.families THEN LevelFits(w, f, ObjectRef(kind, id), life.level) ELSE Retired(w, f)
  BY <1>1 DEF Mirrors
<1>3. life.level \in Int
  BY DEF Mirrors
<1> HIDE DEF f
<1>4. CASE f = family
  <2>1. f \in DOMAIN v.families /\ v.families[f].life.level = level
    BY <1>4 DEF Rewritten
  <2>2. LevelFits(v, f, ObjectRef(kind, id), life.level)
    BY <1>3, <2>1 DEF LevelFits
  <2>3. QED
    BY <2>1, <2>2 DEF f
<1>5. CASE f # family
  <2>1. IF f \in DOMAIN v.families THEN LevelFits(v, f, ObjectRef(kind, id), life.level) ELSE Retired(v, f)
    BY <1>2, <1>5 DEF Rewritten, LevelFits, Retired
  <2>2. QED
    BY <2>1 DEF f
<1>6. QED
  BY <1>4, <1>5

\* The object's life before the promotion or the consolidation, and after it.
LEMMA LivesAre ==
  ASSUME NEW w, NEW kind, NEW id, NEW life, Mirrors(w, kind, id, life), NEW tick
  PROVE  /\ Mirrors(w, kind, id, record_seen(life, tick))
         /\ \A after \in {Promoted(record_seen(life, tick)), record_consolidated(life),
                          Promoted(record_consolidated(life))} :
              /\ {"level", "family"} \subseteq DOMAIN after
              /\ after.level \in 0 .. Canonical /\ life.level <= after.level
<1> DEFINE seen == record_seen(life, tick)
           consolidated == record_consolidated(life)
<1>1. {"level", "family"} \subseteq DOMAIN life /\ life.level \in 0 .. Canonical
  BY DEF Mirrors
<1>2. DOMAIN seen = DOMAIN life /\ seen.level = life.level /\ seen.family = life.family
  BY <1>1 DEF record_seen
<1>3. DOMAIN consolidated = DOMAIN life /\ consolidated.level = life.level
  BY <1>1 DEF record_consolidated
<1> HIDE DEF seen, consolidated
<1>4. ASSUME NEW l, "level" \in DOMAIN l, l.level \in 0 .. Canonical
      PROVE  /\ DOMAIN Promoted(l) = DOMAIN l
             /\ Promoted(l).level \in 0 .. Canonical /\ l.level <= Promoted(l).level
  <2>1. DOMAIN Promoted(l) = DOMAIN l /\ Promoted(l).level = promote_level(l.level)
    BY <1>4 DEF Promoted
  <2>2. \A n \in 0 .. Canonical : promote_level(n) \in 0 .. Canonical /\ n <= promote_level(n)
    BY DEF promote_level, AtMost, Canonical
  <2>3. QED
    BY <1>4, <2>1, <2>2
<1>5. Mirrors(w, kind, id, seen)
  BY <1>2 DEF Mirrors
<1>6. /\ DOMAIN Promoted(seen) = DOMAIN life
      /\ Promoted(seen).level \in 0 .. Canonical /\ life.level <= Promoted(seen).level
  BY <1>1, <1>2, <1>4
<1>7. /\ DOMAIN Promoted(consolidated) = DOMAIN life
      /\ Promoted(consolidated).level \in 0 .. Canonical /\ life.level <= Promoted(consolidated).level
  BY <1>1, <1>3, <1>4
<1>8. consolidated.level \in 0 .. Canonical /\ life.level <= consolidated.level
  BY <1>1, <1>3
<1>9. QED
  BY <1>1, <1>3, <1>5, <1>6, <1>7, <1>8 DEF seen, consolidated

\* Nothing but the families changes, and of them but one.
Registered(s, t, family, level) ==
  /\ DOMAIN t = DOMAIN s
  /\ \A f \in Known \ {"families", "operations"} : t[f] = s[f]
  /\ IsSeq(t.operations)
  /\ Rewritten(World(s), World(t), family, level)

\* The same of a server whose families and operations are given.
LEMMA RewrittenIs ==
  ASSUME NEW s, ServerFine(s), NEW t, DOMAIN t = DOMAIN s,
         \A f \in Known \ {"families", "operations"} : t[f] = s[f],
         NEW family, NEW level, NEW gs, t.families = gs,
         IsSeq(t.operations), ToSet(s.operations) \subseteq ToSet(t.operations),
         DOMAIN gs = DOMAIN s.families \union {family}, gs[family].life.level = level,
         \A f \in DOMAIN s.families : f # family => gs[f].life.level = s.families[f].life.level
  PROVE  Registered(s, t, family, level)
<1>1. t.behind = s.behind
  BY DEF Known, Fields, ObjectFields
<1>2. /\ World(s).families = s.families /\ World(t).families = gs
      /\ World(s).operations = s.operations /\ World(t).operations = t.operations
      /\ World(s).behind = World(t).behind
  BY <1>1 DEF World
<1>3. Rewritten(World(s), World(t), family, level)
  BY <1>2 DEF Rewritten
<1>4. QED
  BY <1>3 DEF Registered

LEMMA RegisteredIs ==
  ASSUME NEW s, ServerFine(s), NEW family, NEW source, NEW kind, NEW life,
         {"level", "family"} \subseteq DOMAIN life
  PROVE  LET t == register_learning_family(s, family, source, kind, life)
         IN /\ Registered(s, t, family, life.level)
            /\ Registered(s, promote_family(t, family, life.level), family, life.level)
            /\ \A label : Registered(s, relabel_family(t, family, label), family, life.level)
<1> DEFINE t == register_learning_family(s, family, source, kind, life)
           p == promote_family(t, family, life.level)
           r(label) == relabel_family(t, family, label)
           kinds == (IF family \in DOMAIN s.families THEN s.families[family].kinds ELSE {}) \union {kind}
           label0 == IF family \in DOMAIN s.families THEN s.families[family].label ELSE "learned"
           entry == [source |-> source, kinds |-> kinds, label |-> label0,
                     life |-> [life EXCEPT !.family = <<family>>]]
           gs == With(s.families, family, entry)
           Same(u) == DOMAIN u = DOMAIN s /\ \A f \in Known \ {"families", "operations"} : u[f] = s[f]
<1>1. t = [s EXCEPT !.families = gs]
  BY DEF register_learning_family
<1>2. entry.life.level = life.level /\ "life" \in DOMAIN entry /\ "level" \in DOMAIN entry.life
  OBVIOUS
<1> HIDE DEF entry
<1>3. /\ DOMAIN gs = DOMAIN s.families \union {family}
      /\ gs[family] = entry
      /\ \A f \in DOMAIN s.families : f # family => gs[f] = s.families[f]
  BY DEF With
<1> HIDE DEF gs, t
<1>4. IsSeq(s.operations)
  BY DEF ServerFine, ObjectsFine
<1>5. Same(t) /\ t.families = gs /\ t.operations = s.operations
  BY <1>1 DEF ServerFine, Known, Fields, ObjectFields, QueueFields
<1>6. Registered(s, t, family, life.level)
  BY <1>2, <1>3, <1>4, <1>5, RewrittenIs
<1>7. ASSUME NEW op
      PROVE  IsSeq(Append(s.operations, op)) /\ ToSet(s.operations) \subseteq ToSet(Append(s.operations, op))
  BY <1>4, AppendedIs
<1>8. Registered(s, p, family, life.level)
  <2> DEFINE g2 == [gs EXCEPT ![family].life.level = life.level]
             ops == Append(s.operations, Operation("Promote", family))
  <2>1. p = [t EXCEPT !.families = g2, !.operations = ops]
    BY <1>5 DEF promote_family
  <2>2. /\ DOMAIN g2 = DOMAIN gs /\ g2[family].life.level = life.level
        /\ \A f \in DOMAIN gs : f # family => g2[f] = gs[f]
    BY <1>2, <1>3
  <2> HIDE DEF g2, p, ops
  <2>3. Same(p) /\ p.families = g2 /\ p.operations = ops
    BY <1>5, <2>1 DEF ServerFine, Known, Fields, ObjectFields, QueueFields
  <2>4. IsSeq(ops) /\ ToSet(s.operations) \subseteq ToSet(ops)
    BY <1>7 DEF ops
  <2>5. QED
    BY <1>3, <2>2, <2>3, <2>4, RewrittenIs
<1>9. ASSUME NEW label PROVE Registered(s, r(label), family, life.level)
  <2> DEFINE g2 == [gs EXCEPT ![family].label = label]
             ops == Append(s.operations, Operation("Relabel", family))
             v == r(label)
  <2>1. v = [t EXCEPT !.families = g2, !.operations = ops]
    BY <1>5 DEF relabel_family
  <2>2. /\ DOMAIN g2 = DOMAIN gs /\ g2[family].life = gs[family].life
        /\ \A f \in DOMAIN gs : f # family => g2[f] = gs[f]
    BY <1>2, <1>3
  <2> HIDE DEF g2, v, ops
  <2>3. Same(v) /\ v.families = g2 /\ v.operations = ops
    BY <1>5, <2>1 DEF ServerFine, Known, Fields, ObjectFields, QueueFields
  <2>4. IsSeq(ops) /\ ToSet(s.operations) \subseteq ToSet(ops)
    BY <1>7 DEF ops
  <2>5. Registered(s, v, family, life.level)
    BY <1>2, <1>3, <2>2, <2>3, <2>4, RewrittenIs
  <2>6. QED
    BY <2>5 DEF v
<1>10. QED
  BY <1>6, <1>8, <1>9 DEF t

\* A server whose objects changed.
LEMMA WrittenFine ==
  ASSUME NEW s, ServerFine(s), NEW t, Known \subseteq DOMAIN t,
         \A f \in Fields \ ObjectFields : t[f] = s[f], ObjectsFine(t)
  PROVE  ServerFine(t)
<1>1. (\A f \in QueueFields : t[f] = s[f]) /\ t.memory = s.memory
  BY DEF Fields, ObjectFields, QueueFields
<1>2. QueuesFine(t)
  BY <1>1, FieldsAre DEF QueuesFine, ServerFine
<1>3. QED
  BY <1>1, <1>2 DEF ServerFine

\* All the objects of other kinds keep their levels.
LEMMA OthersKept ==
  ASSUME NEW w, NEW v, NEW family, NEW level, Rewritten(w, v, family, level)
  PROVE  /\ \A assemblies : AssembliesFine(w, assemblies) /\ family[3].kind # AssemblyKind
                              => AssembliesFine(v, assemblies)
         /\ \A classes, filed : ClassesFine(w, classes, filed) /\ family[3].kind # TransformKind
                                  => ClassesFine(v, classes, filed)
         /\ \A schemas : SchemasFine(w, schemas) /\ family[3].kind # SchemaKind
                           => SchemasFine(v, schemas)
<1>1. \A kind, id, life : Mirrors(w, kind, id, life) /\ family[3].kind # kind
                            => Mirrors(v, kind, id, life)
  BY OthersMirror DEF Owned
<1>2. QED
  BY <1>1 DEF AssembliesFine, ClassesFine, SchemasFine

\* Of which object it is noted whether it is behind.
LEMMA NotedIs ==
  ASSUME NEW s, NEW t, NEW family, NEW level, Registered(s, t, family, level),
         NEW u, DOMAIN u = DOMAIN s, Known \subseteq DOMAIN s,
         \A f \in {"families", "operations", "behind"} : u[f] = t[f],
         NEW kind, NEW id, Owned(family, kind, id)
  PROVE  LET v == Noted(u, ObjectRef(kind, id))
         IN /\ DOMAIN v = DOMAIN s /\ \A f \in Known \ {"behind"} : v[f] = u[f]
            /\ u.failed => ObjectRef(kind, id) \in v.behind
            /\ Rewritten(World(s), World(v), family, level)
            /\ World(v).behind = v.behind /\ IsSeq(v.operations)
<1> DEFINE obj == ObjectRef(kind, id)
           v == Noted(u, obj)
<1>1. /\ DOMAIN v = DOMAIN s /\ \A f \in Known \ {"behind"} : v[f] = u[f]
      /\ v.behind = IF u.failed THEN u.behind \union {obj} ELSE u.behind \ {obj}
  BY DEF Noted, Known, Fields, ObjectFields, QueueFields
<1>2. \A k, i : ~Owned(family, k, i) => ObjectRef(k, i) # obj
  <2>1. \A k, i : ObjectRef(k, i).kind = k /\ ObjectRef(k, i).id = i
    BY DEF ObjectRef
  <2>2. QED
    BY <2>1 DEF Owned
<1> HIDE DEF v, obj
<1>3. v.families = t.families /\ v.operations = t.operations /\ u.behind = t.behind
  BY <1>1 DEF Known, Fields, ObjectFields
<1>4. /\ World(v).families = World(t).families /\ World(v).operations = World(t).operations
      /\ World(t).behind = t.behind /\ World(v).behind = v.behind
  BY <1>3 DEF World
<1>5. \A k, i : ~Owned(family, k, i) =>
        (ObjectRef(k, i) \in World(t).behind <=> ObjectRef(k, i) \in World(v).behind)
  BY <1>1, <1>2, <1>3, <1>4
<1>6. Rewritten(World(s), World(v), family, level)
  BY <1>4, <1>5 DEF Registered, Rewritten
<1>7. IsSeq(v.operations)
  BY <1>3 DEF Registered
<1>8. u.failed => obj \in v.behind
  BY <1>1
<1>9. QED
  BY <1>1, <1>4, <1>6, <1>7, <1>8 DEF v, obj

LEMMA AssemblyJoined ==
  ASSUME NEW s, ServerFine(s), ~s.failed, NEW t, NEW id \in DOMAIN s.assemblies, NEW family, NEW life,
         {"level", "family"} \subseteq DOMAIN life, life.level \in 0 .. Canonical,
         s.assemblies[id].life.level <= life.level, Owned(family, AssemblyKind, id),
         Registered(s, t, family, life.level)
  PROVE  ServerFine(AssemblyJoins(t, id, life, family))
<1> DEFINE l == Joined(life, family)
           new == [s.assemblies[id] EXCEPT !.life = l]
           assemblies == With(s.assemblies, id, new)
           u == persist_assembly(t, id, new)
           v == Noted(u, ObjectRef(AssemblyKind, id))
<1>1. Known \subseteq DOMAIN t /\ DOMAIN t = DOMAIN s /\ Known \subseteq DOMAIN s
  BY DEF Registered, ServerFine
<1>2. /\ t.assemblies = s.assemblies /\ t.schemas = s.schemas /\ t.classes = s.classes
      /\ t.filed = s.filed /\ t.shelf = s.shelf /\ t.failed = s.failed
      /\ \A f \in Fields \ ObjectFields : t[f] = s[f]
  BY DEF Registered, Known, Fields, ObjectFields, QueueFields
<1>3. AssemblyJoins(t, id, life, family) = v
  BY <1>2, Zenon DEF AssemblyJoins
<1>4. family[3].kind # TransformKind /\ family[3].kind # SchemaKind
  BY DEF Owned, AssemblyKind, TransformKind, SchemaKind
<1>5. \A i \in DOMAIN s.assemblies :
        "life" \in DOMAIN s.assemblies[i]
          /\ Mirrors(World(s), AssemblyKind, i, s.assemblies[i].life)
  BY DEF ServerFine, ObjectsFine, AssembliesFine
<1>6. "life" \in DOMAIN new /\ new.life = l
  BY <1>5
<1> HIDE DEF l, new
<1>7. /\ DOMAIN assemblies = DOMAIN s.assemblies /\ assemblies[id] = new
      /\ \A i \in DOMAIN s.assemblies : i # id => assemblies[i] = s.assemblies[i]
  BY DEF With
<1>8. /\ DOMAIN u = DOMAIN s
      /\ \A f \in Known \ {"assemblies", "failed"} : u[f] = t[f]
      /\ \/ u.assemblies = s.assemblies /\ u.failed
         \/ u.assemblies = assemblies
  <2>1. CASE t.uses = 0
    <3>1. u = [t EXCEPT !.failed = TRUE]
      BY <2>1 DEF persist_assembly, Abandoned
    <3> HIDE DEF u
    <3>2. QED
      BY <1>1, <1>2, <3>1 DEF Known, Fields, ObjectFields, QueueFields
  <2>2. CASE t.uses # 0
    <3>1. u = [t EXCEPT !.assemblies = assemblies, !.uses = @ - 1]
      BY <1>2, <2>2 DEF persist_assembly
    <3> HIDE DEF u, assemblies
    <3>2. QED
      BY <1>1, <1>2, <3>1 DEF Known, Fields, ObjectFields, QueueFields
  <2>3. QED
    BY <2>1, <2>2
<1> HIDE DEF u, assemblies
<1>9. \A f \in {"families", "operations", "behind"} : u[f] = t[f]
  BY <1>8 DEF Known, Fields, ObjectFields
<1>10. /\ DOMAIN v = DOMAIN s /\ \A f \in Known \ {"behind"} : v[f] = u[f]
       /\ u.failed => ObjectRef(AssemblyKind, id) \in World(v).behind
       /\ Rewritten(World(s), World(v), family, life.level)
       /\ IsSeq(v.operations)
  BY <1>1, <1>8, <1>9, NotedIs
<1> HIDE DEF v
<1>11. /\ v.assemblies = u.assemblies /\ v.schemas = s.schemas /\ v.classes = s.classes
       /\ v.filed = s.filed /\ v.shelf = s.shelf
       /\ \A f \in Fields \ ObjectFields : v[f] = s[f]
  BY <1>2, <1>8, <1>10 DEF Known, Fields, ObjectFields, QueueFields
<1>12. \A i \in DOMAIN s.assemblies :
         i # id => Mirrors(World(v), AssemblyKind, i, s.assemblies[i].life)
  BY <1>5, <1>10, OthersMirror DEF Owned
<1>13. AssembliesFine(World(v), v.assemblies)
  <2>1. CASE u.assemblies = s.assemblies /\ u.failed
    <3>1. Mirrors(World(v), AssemblyKind, id, s.assemblies[id].life)
      BY <1>5, <1>10, <2>1, StaleMirrors
    <3>2. QED
      BY <1>5, <1>11, <1>12, <2>1, <3>1 DEF AssembliesFine
  <2>2. CASE u.assemblies = assemblies
    <3>1. Mirrors(World(v), AssemblyKind, id, new.life)
      <4>1. Mirrors(World(v), AssemblyKind, id, Joined(life, family))
        BY <1>10, MemberMirrors
      <4>2. QED
        BY <1>6, <4>1 DEF l
    <3>2. QED
      BY <1>5, <1>6, <1>7, <1>11, <1>12, <2>2, <3>1 DEF AssembliesFine
  <2>3. QED
    BY <1>8, <2>1, <2>2
<1>14. ClassesFine(World(v), v.classes, v.filed) /\ SchemasFine(World(v), v.schemas)
  BY <1>4, <1>10, <1>11, OthersKept DEF ServerFine, ObjectsFine
<1>15. ObjectsFine(v)
  BY <1>10, <1>11, <1>13, <1>14 DEF ObjectsFine, ServerFine
<1>16. ServerFine(v)
  BY <1>1, <1>10, <1>11, <1>15, WrittenFine
<1>17. QED
  BY <1>3, <1>16

LEMMA TransformJoined ==
  ASSUME NEW s, ServerFine(s), ~s.failed, NEW t, NEW id \in DOMAIN s.classes, NEW family, NEW life,
         {"level", "family"} \subseteq DOMAIN life, life.level \in 0 .. Canonical,
         s.classes[id].life.level <= life.level, Owned(family, TransformKind, id),
         Registered(s, t, family, life.level), NEW savings
  PROVE  ServerFine(TransformJoins(t, id, life, family, savings))
<1> DEFINE l == Joined(life, family)
           new == [s.classes[id] EXCEPT !.life = l, !.savings = @ + savings]
           classes == [s.classes EXCEPT ![id] = new]
           filed == [s.filed EXCEPT ![id] = new]
           u == persist_transform_class(t, id, new)
           v == Noted(u, ObjectRef(TransformKind, id))
<1>1. Known \subseteq DOMAIN t /\ DOMAIN t = DOMAIN s /\ Known \subseteq DOMAIN s
  BY DEF Registered, ServerFine
<1>2. /\ t.assemblies = s.assemblies /\ t.schemas = s.schemas /\ t.classes = s.classes
      /\ t.filed = s.filed /\ t.shelf = s.shelf /\ t.failed = s.failed
      /\ \A f \in Fields \ ObjectFields : t[f] = s[f]
  BY DEF Registered, Known, Fields, ObjectFields, QueueFields
<1>3. TransformJoins(t, id, life, family, savings) = v
  BY <1>2, Zenon DEF TransformJoins
<1>4. family[3].kind # AssemblyKind /\ family[3].kind # SchemaKind
  BY DEF Owned, AssemblyKind, TransformKind, SchemaKind
<1>5. /\ DOMAIN s.filed = DOMAIN s.classes
      /\ \A i \in DOMAIN s.classes :
           /\ "life" \in DOMAIN s.classes[i] /\ Mirrors(World(s), TransformKind, i, s.classes[i].life)
           /\ "life" \in DOMAIN s.filed[i] /\ Mirrors(World(s), TransformKind, i, s.filed[i].life)
           /\ s.filed[i].life.level <= s.classes[i].life.level
  BY DEF ServerFine, ObjectsFine, ClassesFine
<1>6. "life" \in DOMAIN new /\ new.life = l /\ l.level = life.level
  <2>1. l.level = life.level
    BY DEF Joined
  <2> HIDE DEF l
  <2>2. QED
    BY <1>5, <2>1
<1> HIDE DEF l, new
<1>7. /\ DOMAIN classes = DOMAIN s.classes /\ classes[id] = new
      /\ \A i \in DOMAIN s.classes : i # id => classes[i] = s.classes[i]
  OBVIOUS
<1>8. /\ DOMAIN filed = DOMAIN s.classes /\ filed[id] = new
      /\ \A i \in DOMAIN s.classes : i # id => filed[i] = s.filed[i]
  BY <1>5
<1>9. /\ DOMAIN u = DOMAIN s /\ u.classes = classes
      /\ \A f \in Known \ {"classes", "filed", "failed"} : u[f] = t[f]
      /\ \/ u.filed = s.filed /\ u.failed
         \/ u.filed = filed
  <2>1. CASE t.uses = 0
    <3>1. u = [[t EXCEPT !.classes = classes] EXCEPT !.failed = TRUE]
      BY <1>2, <2>1 DEF persist_transform_class, Abandoned
    <3> HIDE DEF u, classes
    <3>2. QED
      BY <1>1, <1>2, <3>1 DEF Known, Fields, ObjectFields, QueueFields
  <2>2. CASE t.uses # 0
    <3>1. u = [t EXCEPT !.classes = classes, !.filed = filed, !.uses = @ - 1]
      BY <1>2, <2>2 DEF persist_transform_class
    <3> HIDE DEF u, classes, filed
    <3>2. QED
      BY <1>1, <1>2, <3>1 DEF Known, Fields, ObjectFields, QueueFields
  <2>3. QED
    BY <2>1, <2>2
<1> HIDE DEF u, classes, filed
<1>10. \A f \in {"families", "operations", "behind"} : u[f] = t[f]
  BY <1>9 DEF Known, Fields, ObjectFields
<1>11. /\ DOMAIN v = DOMAIN s /\ \A f \in Known \ {"behind"} : v[f] = u[f]
       /\ u.failed => ObjectRef(TransformKind, id) \in World(v).behind
       /\ Rewritten(World(s), World(v), family, life.level)
       /\ IsSeq(v.operations)
  BY <1>1, <1>9, <1>10, NotedIs
<1> HIDE DEF v
<1>12. /\ v.assemblies = s.assemblies /\ v.schemas = s.schemas /\ v.classes = classes
       /\ v.filed = u.filed /\ v.shelf = s.shelf
       /\ \A f \in Fields \ ObjectFields : v[f] = s[f]
  BY <1>2, <1>9, <1>11 DEF Known, Fields, ObjectFields, QueueFields
<1>13. \A i \in DOMAIN s.classes :
         i # id => /\ Mirrors(World(v), TransformKind, i, s.classes[i].life)
                   /\ Mirrors(World(v), TransformKind, i, s.filed[i].life)
  BY <1>5, <1>11, OthersMirror DEF Owned
<1>14. Mirrors(World(v), TransformKind, id, new.life)
  <2>1. Mirrors(World(v), TransformKind, id, Joined(life, family))
    BY <1>11, MemberMirrors
  <2>2. QED
    BY <1>6, <2>1 DEF l
<1>15. ClassesFine(World(v), v.classes, v.filed)
  <2>1. CASE u.filed = s.filed /\ u.failed
    <3>1. s.filed[id].life.level \in Int /\ s.classes[id].life.level \in Int
      BY <1>5 DEF Mirrors
    <3>2. s.filed[id].life.level <= life.level
      BY <1>5, <3>1
    <3>3. Mirrors(World(v), TransformKind, id, s.filed[id].life)
      BY <1>5, <1>11, <2>1, <3>2, StaleMirrors
    <3>4. QED
      BY <1>5, <1>6, <1>7, <1>12, <1>13, <1>14, <2>1, <3>2, <3>3 DEF ClassesFine
  <2>2. CASE u.filed = filed
    <3>1. new.life.level <= new.life.level
      BY <1>6
    <3>2. QED
      BY <1>5, <1>6, <1>7, <1>8, <1>12, <1>13, <1>14, <2>2, <3>1 DEF ClassesFine
  <2>3. QED
    BY <1>9, <2>1, <2>2
<1>16. AssembliesFine(World(v), v.assemblies) /\ SchemasFine(World(v), v.schemas)
  BY <1>4, <1>11, <1>12, OthersKept DEF ServerFine, ObjectsFine
<1>17. ObjectsFine(v)
  BY <1>11, <1>12, <1>15, <1>16 DEF ObjectsFine, ServerFine
<1>18. ServerFine(v)
  BY <1>1, <1>11, <1>12, <1>17, WrittenFine
<1>19. QED
  BY <1>3, <1>18

\* The schema takes the place of the one of its id.
LEMMA ReplacedSchemas ==
  ASSUME NEW w, NEW schemas, IsSeq(schemas), NEW schema,
         \A other \in ToSet(schemas) :
           /\ {"id", "life"} \subseteq DOMAIN other
           /\ other.id # schema.id => Mirrors(w, SchemaKind, other.id, other.life),
         {"id", "life"} \subseteq DOMAIN schema, Mirrors(w, SchemaKind, schema.id, schema.life)
  PROVE  SchemasFine(w, Append(Kept(schemas, {other \in ToSet(schemas) : other.id # schema.id}), schema))
<1> DEFINE S == {other \in ToSet(schemas) : other.id # schema.id}
           k == Kept(schemas, S)
<1>1. IsSeq(k) /\ ToSet(k) \subseteq ToSet(schemas) \intersect S
  BY KeptAre
<1>2. \A other \in ToSet(k) : other \in ToSet(schemas) /\ other.id # schema.id
  BY <1>1
<1> HIDE DEF k
<1>3. IsSeq(Append(k, schema)) /\ ToSet(Append(k, schema)) = ToSet(k) \union {schema}
  BY <1>1, AppendedIs
<1>4. SchemasFine(w, Append(k, schema))
  BY <1>2, <1>3 DEF SchemasFine
<1>5. QED
  BY <1>4 DEF k

LEMMA UpdatedFine ==
  ASSUME NEW s, ServerFine(s), NEW schema, {"id", "life"} \subseteq DOMAIN schema,
         Mirrors(World(s), SchemaKind, schema.id, schema.life)
  PROVE  ServerFine(update_schema(s, schema))
<1> DEFINE schemas == Append(Kept(s.schemas, {other \in ToSet(s.schemas) : other.id # schema.id}), schema)
           v == update_schema(s, schema)
<1>1. SchemasFine(World(s), schemas)
  <2>1. SchemasFine(World(s), s.schemas)
    BY DEF ServerFine, ObjectsFine
  <2>2. QED
    BY <2>1, ReplacedSchemas DEF SchemasFine
<1>2. v = [s EXCEPT !.schemas = schemas]
  BY DEF update_schema
<1> HIDE DEF schemas, v
<1>3. /\ DOMAIN v = DOMAIN s /\ v.schemas = schemas
      /\ \A f \in Known \ {"schemas"} : v[f] = s[f]
  BY <1>2 DEF ServerFine, Known, Fields, ObjectFields, QueueFields
<1>4. /\ World(v) = World(s) /\ v.assemblies = s.assemblies /\ v.classes = s.classes
      /\ v.filed = s.filed /\ v.shelf = s.shelf /\ v.operations = s.operations
      /\ \A f \in Fields \ ObjectFields : v[f] = s[f]
  BY <1>3 DEF World, Known, Fields, ObjectFields, QueueFields
<1>5. ObjectsFine(v)
  BY <1>1, <1>3, <1>4 DEF ObjectsFine, ServerFine
<1>6. ServerFine(v)
  BY <1>3, <1>4, <1>5, WrittenFine DEF ServerFine
<1>7. QED
  BY <1>6 DEF v

LEMMA SchemaJoined ==
  ASSUME NEW s, ServerFine(s), NEW t, NEW schema, {"id", "life"} \subseteq DOMAIN schema,
         NEW family, NEW life,
         {"level", "family"} \subseteq DOMAIN life, life.level \in 0 .. Canonical,
         Owned(family, SchemaKind, schema.id), Registered(s, t, family, life.level)
  PROVE  ServerFine(update_schema(t, [schema EXCEPT !.life = Joined(life, family)]))
<1> DEFINE l == Joined(life, family)
           new == [schema EXCEPT !.life = l]
           schemas == Append(Kept(t.schemas, {other \in ToSet(t.schemas) : other.id # new.id}), new)
           v == update_schema(t, new)
<1>1. /\ Known \subseteq DOMAIN t /\ Known \subseteq DOMAIN s /\ IsSeq(t.operations)
      /\ Rewritten(World(s), World(t), family, life.level)
  BY DEF Registered, ServerFine
<1>2. /\ t.assemblies = s.assemblies /\ t.schemas = s.schemas /\ t.classes = s.classes
      /\ t.filed = s.filed /\ t.shelf = s.shelf
      /\ \A f \in Fields \ ObjectFields : t[f] = s[f]
  BY DEF Registered, Known, Fields, ObjectFields, QueueFields
<1>3. Mirrors(World(t), SchemaKind, schema.id, l)
  BY <1>1, MemberMirrors
<1> HIDE DEF l
<1>4. {"id", "life"} \subseteq DOMAIN new /\ new.id = schema.id /\ new.life = l
  OBVIOUS
<1>5. v = [t EXCEPT !.schemas = schemas]
  BY DEF update_schema
<1> HIDE DEF new, v
<1>6. SchemasFine(World(t), schemas)
  <2>1. /\ IsSeq(s.schemas)
        /\ \A other \in ToSet(s.schemas) : /\ {"id", "life"} \subseteq DOMAIN other
                                           /\ Mirrors(World(s), SchemaKind, other.id, other.life)
    BY DEF ServerFine, ObjectsFine, SchemasFine
  <2>2. \A other \in ToSet(s.schemas) :
          other.id # new.id => Mirrors(World(t), SchemaKind, other.id, other.life)
    BY <1>1, <1>4, <2>1, OthersMirror DEF Owned
  <2>3. Mirrors(World(t), SchemaKind, new.id, new.life)
    BY <1>3, <1>4
  <2>4. QED
    BY <1>2, <1>4, <2>1, <2>2, <2>3, ReplacedSchemas
<1>7. AssembliesFine(World(t), s.assemblies) /\ ClassesFine(World(t), s.classes, s.filed)
  <2>1. family[3].kind # AssemblyKind /\ family[3].kind # TransformKind
    BY DEF Owned, AssemblyKind, TransformKind, SchemaKind
  <2>2. QED
    BY <1>1, <2>1, OthersKept DEF ServerFine, ObjectsFine
<1> HIDE DEF schemas
<1>8. /\ DOMAIN v = DOMAIN t /\ v.schemas = schemas /\ World(v) = World(t)
      /\ v.assemblies = s.assemblies /\ v.classes = s.classes
      /\ v.filed = s.filed /\ v.shelf = s.shelf /\ v.operations = t.operations
      /\ \A f \in Fields \ ObjectFields : v[f] = s[f]
  BY <1>1, <1>2, <1>5 DEF World, Known, Fields, ObjectFields, QueueFields
<1>9. ObjectsFine(v)
  BY <1>1, <1>6, <1>7, <1>8 DEF ObjectsFine, ServerFine
<1>10. ServerFine(v)
  BY <1>1, <1>8, <1>9, WrittenFine
<1>11. QED
  BY <1>10 DEF v, new, l

\* A family goes, whatever belongs to it, and it is said that it was retired.
LEMMA RetiredFine ==
  ASSUME NEW s, ServerFine(s), NEW family
  PROVE  ServerFine(retire_family(s, family))
<1> DEFINE gs == [f \in DOMAIN s.families \ {family} |-> s.families[f]]
           op == Operation("Retire", family)
           ops == Append(s.operations, op)
           t == retire_family(s, family)
<1>1. t = [s EXCEPT !.families = gs, !.operations = ops]
  BY DEF retire_family
<1>2. DOMAIN gs = DOMAIN s.families \ {family} /\ \A f \in DOMAIN gs : gs[f] = s.families[f]
  OBVIOUS
<1>3. IsSeq(ops) /\ ToSet(ops) = ToSet(s.operations) \union {op}
  BY AppendedIs DEF ServerFine, ObjectsFine
<1> HIDE DEF gs, t, ops
<1>4. /\ DOMAIN t = DOMAIN s /\ t.families = gs /\ t.operations = ops
      /\ \A f \in Known \ {"families", "operations"} : t[f] = s[f]
  BY <1>1 DEF ServerFine, Known, Fields, ObjectFields, QueueFields
<1>5. /\ t.assemblies = s.assemblies /\ t.schemas = s.schemas /\ t.classes = s.classes
      /\ t.filed = s.filed /\ t.shelf = s.shelf /\ t.behind = s.behind
      /\ \A f \in Fields \ ObjectFields : t[f] = s[f]
  BY <1>4 DEF Known, Fields, ObjectFields, QueueFields
<1>6. /\ World(s).families = s.families /\ World(t).families = gs
      /\ World(s).operations = s.operations /\ World(t).operations = ops
      /\ World(t).behind = World(s).behind
  BY <1>4, <1>5 DEF World
<1>7. \A f : IF f \in DOMAIN gs
             THEN f \in DOMAIN s.families /\ gs[f] = s.families[f]
             ELSE f \notin DOMAIN s.families \/ Retired(World(t), f)
  BY <1>2, <1>3, <1>6 DEF Retired
<1>8. \A f : Retired(World(s), f) => Retired(World(t), f)
  BY <1>3, <1>6 DEF Retired
<1>9. \A f, obj, level : f \in DOMAIN gs /\ LevelFits(World(s), f, obj, level)
                           => LevelFits(World(t), f, obj, level)
  BY <1>2, <1>6 DEF LevelFits
<1>10. ASSUME NEW kind, NEW id, NEW life, Mirrors(World(s), kind, id, life)
       PROVE  Mirrors(World(t), kind, id, life)
  BY <1>6, <1>7, <1>8, <1>9, <1>10 DEF Mirrors
<1>11. ObjectsFine(t)
  BY <1>3, <1>4, <1>5, <1>10 DEF ServerFine, ObjectsFine, AssembliesFine, ClassesFine, SchemasFine
<1>12. ServerFine(t)
  BY <1>4, <1>5, <1>11, WrittenFine DEF ServerFine
<1>13. QED
  BY <1>12 DEF t

----------------------------------------------------------------------------
(* Promotions and jobs *)

LEMMA FamilyIs ==
  ASSUME NEW plane, NEW source, NEW obj
  PROVE  family_id_for_plane(plane, source, obj)[3] = obj
BY DEF family_id_for_plane

LEMMA PromotedAssemblyFine ==
  ASSUME NEW s, ServerFine(s), NEW id, NEW tick
  PROVE  ServerFine(PromoteAssembly(s, id, tick))
<1>1. SUFFICES ASSUME ~s.failed, id \in DOMAIN s.assemblies
               PROVE  ServerFine(PromoteAssembly(s, id, tick))
  BY DEF PromoteAssembly
<1> DEFINE source == s.assemblies[id].source
           obj == ObjectRef(AssemblyKind, id)
           family == family_id_for_plane(AssemblyPlane, source, obj)
           life == Promoted(record_seen(s.assemblies[id].life, tick))
           t == register_learning_family(s, family, source, AssemblyKind, life)
           p == promote_family(t, family, life.level)
<1>2. PromoteAssembly(s, id, tick) = AssemblyJoins(p, id, life, family)
  BY <1>1, Zenon DEF PromoteAssembly, PromoteAssemblyAs
<1>3. Owned(family, AssemblyKind, id)
  BY FamilyIs DEF Owned, ObjectRef
<1>4. /\ {"level", "family"} \subseteq DOMAIN life
      /\ life.level \in 0 .. Canonical /\ s.assemblies[id].life.level <= life.level
  <2>1. Mirrors(World(s), AssemblyKind, id, s.assemblies[id].life)
    BY <1>1 DEF ServerFine, ObjectsFine, AssembliesFine
  <2>2. QED
    BY <2>1, LivesAre
<1> HIDE DEF family, life
<1>5. Registered(s, p, family, life.level)
  BY <1>4, RegisteredIs
<1> HIDE DEF p
<1>6. QED
  BY <1>1, <1>2, <1>3, <1>4, <1>5, AssemblyJoined

LEMMA SchemaOfIs ==
  ASSUME NEW s, ServerFine(s), NEW id, SchemaAt(s, id) # {}
  PROVE  /\ SchemaOf(s, id).id = id /\ {"id", "life"} \subseteq DOMAIN SchemaOf(s, id)
         /\ Mirrors(World(s), SchemaKind, id, SchemaOf(s, id).life)
<1> DEFINE i == SmallestOf(SchemaAt(s, id))
<1>1. PICK n \in Nat : DOMAIN s.schemas = 1 .. n
  BY IsSeqIs DEF ServerFine, ObjectsFine, SchemasFine
<1>2. i \in SchemaAt(s, id)
  <2>1. SchemaAt(s, id) \in SUBSET Nat
    BY <1>1 DEF SchemaAt
  <2>2. QED
    BY <2>1, SmallestOfIn
<1>3. SchemaOf(s, id) = s.schemas[i]
  BY DEF SchemaOf
<1> HIDE DEF i
<1>4. s.schemas[i].id = id /\ s.schemas[i] \in ToSet(s.schemas)
  BY <1>2 DEF SchemaAt, ToSet
<1>5. QED
  BY <1>3, <1>4 DEF ServerFine, ObjectsFine, SchemasFine

LEMMA PromotedSchemaFine ==
  ASSUME NEW s, ServerFine(s), NEW id, NEW tick
  PROVE  ServerFine(PromoteSchema(s, id, tick))
<1>1. SUFFICES ASSUME SchemaAt(s, id) # {} PROVE ServerFine(PromoteSchema(s, id, tick))
  BY DEF PromoteSchema
<1> DEFINE schema == SchemaOf(s, id)
           obj == ObjectRef(SchemaKind, id)
           family == family_id_for_plane(SchemaPlane, schema.source, obj)
           life == Promoted(record_seen(schema.life, tick))
           t == register_learning_family(s, family, schema.source, SchemaKind, life)
           p == promote_family(t, family, life.level)
<1>2. PromoteSchema(s, id, tick) = update_schema(p, [schema EXCEPT !.life = Joined(life, family)])
  BY <1>1, Zenon DEF PromoteSchema, PromoteSchemaAs
<1>3. schema.id = id /\ {"id", "life"} \subseteq DOMAIN schema
  BY <1>1, SchemaOfIs
<1>4. {"level", "family"} \subseteq DOMAIN life /\ life.level \in 0 .. Canonical
  BY <1>1, SchemaOfIs, LivesAre
<1>5. Owned(family, SchemaKind, schema.id)
  BY <1>3, FamilyIs DEF Owned, ObjectRef
<1> HIDE DEF family, life, schema
<1>6. Registered(s, p, family, life.level)
  BY <1>4, RegisteredIs
<1> HIDE DEF p
<1>7. QED
  BY <1>2, <1>3, <1>4, <1>5, <1>6, SchemaJoined

LEMMA AssemblyConsolidated ==
  ASSUME NEW s, ServerFine(s), ~s.failed, NEW job, job.obj.id \in DOMAIN s.assemblies, NEW family,
         Owned(family, AssemblyKind, job.obj.id)
  PROVE  ServerFine(ConsolidateAssembly(s, job, family))
<1> DEFINE id == job.obj.id
           life == record_consolidated(s.assemblies[id].life)
           t == register_learning_family(s, family, job.source, AssemblyKind, life)
           r == relabel_family(t, family, "assembly_consolidated")
           u == IF job.kind = "AssemblyMerge" THEN r ELSE t
<1>1. ConsolidateAssembly(s, job, family) = AssemblyJoins(u, id, life, family)
  BY Zenon DEF ConsolidateAssembly
<1>2. /\ {"level", "family"} \subseteq DOMAIN life
      /\ life.level \in 0 .. Canonical /\ s.assemblies[id].life.level <= life.level
  <2>1. Mirrors(World(s), AssemblyKind, id, s.assemblies[id].life)
    BY DEF ServerFine, ObjectsFine, AssembliesFine
  <2>2. QED
    BY <2>1, LivesAre
<1> HIDE DEF life
<1>3. Registered(s, t, family, life.level) /\ Registered(s, r, family, life.level)
  BY <1>2, RegisteredIs
<1> HIDE DEF t, r
<1>4. Registered(s, u, family, life.level)
  BY <1>3
<1> HIDE DEF u
<1>5. QED
  BY <1>1, <1>2, <1>4, AssemblyJoined

LEMMA TransformConsolidated ==
  ASSUME NEW s, ServerFine(s), ~s.failed, NEW job, job.obj.id \in DOMAIN s.classes, NEW family,
         Owned(family, TransformKind, job.obj.id)
  PROVE  ServerFine(ConsolidateTransform(s, job, family))
<1> DEFINE id == job.obj.id
           u == LookedUp(s)
           life == Promoted(record_consolidated(s.classes[id].life))
           t == register_learning_family(u, family, job.source, TransformKind, life)
<1>1. ConsolidateTransform(s, job, family)
        = IF Unreadable(s, id) THEN Abandoned(s) ELSE TransformJoins(t, id, life, family, job.savings)
  BY Zenon DEF ConsolidateTransform
<1>2. ServerFine(u) /\ u.classes = s.classes /\ ~u.failed
  <2>1. u.classes = s.classes /\ u.failed = s.failed
    BY DEF LookedUp, ServerFine, Known, Fields, ObjectFields
  <2>2. QED
    BY <2>1, FlowFine
<1>3. /\ {"level", "family"} \subseteq DOMAIN life
      /\ life.level \in 0 .. Canonical /\ s.classes[id].life.level <= life.level
  <2>1. Mirrors(World(s), TransformKind, id, s.classes[id].life)
    BY DEF ServerFine, ObjectsFine, ClassesFine
  <2>2. QED
    BY <2>1, LivesAre
<1> HIDE DEF life, u
<1>4. Registered(u, t, family, life.level)
  BY <1>2, <1>3, RegisteredIs
<1> HIDE DEF t
<1>5. ServerFine(TransformJoins(t, id, life, family, job.savings))
  BY <1>2, <1>3, <1>4, TransformJoined
<1>6. QED
  BY <1>1, <1>5, FlowFine

LEMMA SchemaConsolidated ==
  ASSUME NEW s, ServerFine(s), NEW job, SchemaAt(s, job.obj.id) # {}, NEW family,
         Owned(family, SchemaKind, job.obj.id)
  PROVE  ServerFine(ConsolidateSchema(s, job, family))
<1> DEFINE schema == SchemaOf(s, job.obj.id)
           life == Promoted(record_consolidated(schema.life))
           t == register_learning_family(s, family, job.source, SchemaKind, life)
<1>1. ConsolidateSchema(s, job, family) = update_schema(t, [schema EXCEPT !.life = Joined(life, family)])
  BY Zenon DEF ConsolidateSchema
<1>2. schema.id = job.obj.id /\ {"id", "life"} \subseteq DOMAIN schema
  BY SchemaOfIs
<1>3. {"level", "family"} \subseteq DOMAIN life /\ life.level \in 0 .. Canonical
  BY SchemaOfIs, LivesAre
<1> HIDE DEF life, schema
<1>4. Registered(s, t, family, life.level)
  BY <1>3, RegisteredIs
<1> HIDE DEF t
<1>5. QED
  BY <1>1, <1>2, <1>3, <1>4, SchemaJoined

LEMMA JobFine ==
  ASSUME NEW s, ServerFine(s), NEW job
  PROVE  ServerFine(RunJob(s, job))
<1> DEFINE family == family_id_for_plane(job.plane, job.source, job.obj)
           schemas == family_id_for_plane(SchemaPlane, job.source, job.obj)
           id == job.obj.id
           OfAssembly == /\ job.kind \in {"AssemblyMerge", "AssemblySplit"}
                         /\ job.obj.kind = AssemblyKind /\ id \in DOMAIN s.assemblies
           OfTransform == /\ job.kind = "TransformPromotion"
                          /\ job.obj.kind = TransformKind /\ id \in DOMAIN s.classes
           OfSchema == /\ job.kind \in {"SchemaPromotion", "EpisodeMacroExtraction"}
                       /\ job.obj.kind = SchemaKind /\ SchemaAt(s, id) # {}
<1>1. SUFFICES ASSUME ~s.failed PROVE ServerFine(RunJob(s, job))
  BY DEF RunJob
<1>2. RunJob(s, job) = RunJobIn(s, job, family)
  BY <1>1 DEF RunJob
<1>3. family[3] = job.obj /\ schemas[3] = job.obj
  BY FamilyIs
<1>4. CASE OfAssembly
  <2>1. RunJobIn(s, job, family) = ConsolidateAssembly(s, job, family)
    BY <1>4 DEF RunJobIn
  <2> HIDE DEF family
  <2>2. Owned(family, AssemblyKind, id)
    BY <1>3, <1>4 DEF Owned
  <2>3. QED
    BY <1>1, <1>2, <1>4, <2>1, <2>2, AssemblyConsolidated
<1>5. CASE OfTransform
  <2>1. RunJobIn(s, job, family) = ConsolidateTransform(s, job, family)
    BY <1>5 DEF RunJobIn
  <2> HIDE DEF family
  <2>2. Owned(family, TransformKind, id)
    BY <1>3, <1>5 DEF Owned
  <2>3. QED
    BY <1>1, <1>2, <1>5, <2>1, <2>2, TransformConsolidated
<1>6. CASE OfSchema
  <2>1. RunJobIn(s, job, family) = ConsolidateSchema(s, job, schemas)
    BY <1>6 DEF RunJobIn
  <2> HIDE DEF family, schemas
  <2>2. Owned(schemas, SchemaKind, id)
    BY <1>3, <1>6 DEF Owned
  <2>3. QED
    BY <1>2, <1>6, <2>1, <2>2, SchemaConsolidated
<1>7. CASE job.kind = "ObjectRetirement"
  <2> DEFINE u == retire_family(s, family)
             t == RetireObject(s, job, family)
  <2>1. RunJobIn(s, job, family) = t
    BY <1>7 DEF RunJobIn
  <2>2. ServerFine(u)
    BY RetiredFine
  <2>3. t = [u EXCEPT !.retires = IF Len(@) < MaxRetires
                                  THEN Append(@, [plane |-> job.plane, obj |-> job.obj]) ELSE @]
    BY DEF RetireObject
  <2> HIDE DEF t, u
  <2>4. DOMAIN t = DOMAIN u /\ \A f \in Fields : t[f] = u[f]
    BY <2>2, <2>3 DEF ServerFine, Known, Fields, ObjectFields, QueueFields
  <2>5. ServerFine(t)
    BY <2>2, <2>4, SameFine DEF ServerFine
  <2>6. QED
    BY <1>2, <2>1, <2>5
<1>8. CASE ~OfAssembly /\ ~OfTransform /\ ~OfSchema /\ job.kind # "ObjectRetirement"
  BY <1>2, <1>8 DEF RunJobIn
<1>9. QED
  BY <1>4, <1>5, <1>6, <1>7, <1>8

----------------------------------------------------------------------------
(* Loops *)

\* What a loop of the server leaves.
LEMMA LoopFine ==
  ASSUME NEW way \in {"ingest", "assembly", "schema", "job"}, NEW x, NEW first, ServerFine(first),
         NEW seq, NEW n \in Nat, NEW h, Peeling(way, x, first, seq, n, h)
  PROVE  ServerFine(h[1 .. n])
<1>1. h[1 .. 0] = first /\ \A k \in 1 .. n : h[1 .. k] = Turn(way, x, h[1 .. (k - 1)], seq[k])
  <2>1. Peeling(way, x, first, seq, n, h) /\ n \in Nat
    OBVIOUS
  <2>2. h[1 .. 0] = first
    BY <2>1, PeelingRuns
  <2>3. \A k \in 1 .. n : h[1 .. k] = Turn(way, x, h[1 .. (k - 1)], seq[k])
    BY <2>1, PeelingRuns, SMTT(60)
  <2>4. QED
    BY <2>2, <2>3
<1> DEFINE T == {k \in 0 .. n : ServerFine(h[1 .. k])}
<1>2. 0 \in T
  BY <1>1
<1>3. ASSUME NEW k \in 0 .. n, k \in T, k < n PROVE k + 1 \in T
  <2> DEFINE u == h[1 .. k]
             e == seq[k + 1]
  <2>1. k + 1 \in 1 .. n /\ (k + 1) - 1 = k /\ ServerFine(u)
    BY <1>3
  <2>2. h[1 .. (k + 1)] = Turn(way, x, u, e)
    BY <1>1, <2>1
  <2> HIDE DEF u, e
  <2>4. ServerFine(Turn(way, x, u, e))
    <3>1. CASE way = "ingest"
      BY <2>1, <3>1, IngestedFine DEF Turn
    <3>2. CASE way = "assembly"
      BY <2>1, <3>2, PromotedAssemblyFine DEF Turn
    <3>3. CASE way = "schema"
      BY <2>1, <3>3, PromotedSchemaFine DEF Turn
    <3>4. CASE way = "job"
      BY <2>1, <3>4, JobFine DEF Turn
    <3>5. QED
      BY <3>1, <3>2, <3>3, <3>4
  <2>5. QED
    BY <2>1, <2>2, <2>4
<1> HIDE DEF T
<1>4. 0 .. n \subseteq T
  BY <1>2, <1>3, IntervalInduction
<1>5. QED
  BY <1>4 DEF T

\* The replayed entries, each ingested.
LEMMA IngestsFine ==
  ASSUME NEW s, ServerFine(s), NEW tick
  PROVE  ServerFine(ingest_replay_into_learning_loop(s, tick))
<1> DEFINE first == [s EXCEPT !.replay = << >>]
           seq == s.replay
           Solves(h) ==
             h = [d \in SUBSET DOMAIN seq |->
                    IF d = {} THEN first ELSE Ingested(h[d \ {Max(d)}], seq[Max(d)], tick)]
           it == CHOOSE h : Solves(h)
<1>1. ingest_replay_into_learning_loop(s, tick) = it[DOMAIN seq]
  BY Zenon DEF ingest_replay_into_learning_loop, FoldLeft, MapThenFoldSet
<1>2. PICK n \in Nat : DOMAIN seq = 1 .. n
  BY IsSeqIs DEF ServerFine, QueuesFine
<1>3. ServerFine(first)
  <2>1. IsSeq(<< >>)
    BY DEF IsSeq
  <2>2. QED
    BY <2>1, QueueFine
<1> HIDE DEF seq, first
<1>4. \A h : Solves(h) <=> Peeling("ingest", tick, first, seq, n, h)
  BY <1>2, Zenon DEF Peeling, Turn
<1>5. Solves(it)
  <2>1. \E h : Solves(h)
    BY <1>2, <1>4, PeelingExists
  <2> HIDE DEF Solves
  <2>2. QED
    BY <2>1, Zenon
<1>6. Peeling("ingest", tick, first, seq, n, it)
  BY <1>4, <1>5
<1> HIDE DEF it, Solves
<1>7. ServerFine(it[1 .. n])
  BY <1>3, <1>6, LoopFine
<1>8. QED
  BY <1>1, <1>2, <1>7

\* The ready assemblies, each promoted.
LEMMA AssembliesDrained ==
  ASSUME NEW s, ServerFine(s), NEW tick
  PROVE  ServerFine(DrainAssemblies(s, tick))
<1> DEFINE first == [s EXCEPT !.assemblyQueue = Kept(@, {e \in ToSet(@) : ~AssemblyReady(e)})]
           seq == Kept(s.assemblyQueue, {e \in ToSet(s.assemblyQueue) : AssemblyReady(e)})
           Solves(h) ==
             h = [d \in SUBSET DOMAIN seq |->
                    IF d = {} THEN first ELSE PromoteAssembly(h[d \ {Max(d)}], seq[Max(d)].id, tick)]
           it == CHOOSE h : Solves(h)
<1>1. DrainAssemblies(s, tick) = it[DOMAIN seq]
  BY Zenon DEF DrainAssemblies, FoldLeft, MapThenFoldSet
<1>2. IsSeq(s.assemblyQueue)
  BY DEF ServerFine, QueuesFine
<1>3. PICK n \in Nat : DOMAIN seq = 1 .. n
  BY <1>2, KeptAre, IsSeqIs
<1>4. ServerFine(first)
  BY <1>2, KeptAre, QueueFine
<1> HIDE DEF seq, first
<1>5. \A h : Solves(h) <=> Peeling("assembly", tick, first, seq, n, h)
  BY <1>3, Zenon DEF Peeling, Turn
<1>6. Solves(it)
  <2>1. \E h : Solves(h)
    BY <1>3, <1>5, PeelingExists
  <2> HIDE DEF Solves
  <2>2. QED
    BY <2>1, Zenon
<1>7. Peeling("assembly", tick, first, seq, n, it)
  BY <1>5, <1>6
<1> HIDE DEF it, Solves
<1>8. ServerFine(it[1 .. n])
  BY <1>4, <1>7, LoopFine
<1>9. QED
  BY <1>1, <1>3, <1>8

\* The ready schemas, each promoted.
LEMMA SchemasDrained ==
  ASSUME NEW s, ServerFine(s), NEW tick
  PROVE  ServerFine(DrainSchemas(s, tick))
<1> DEFINE first == [s EXCEPT !.schemaQueue = Kept(@, {e \in ToSet(@) : ~SchemaReady(e)})]
           seq == Kept(s.schemaQueue, {e \in ToSet(s.schemaQueue) : SchemaReady(e)})
           Solves(h) ==
             h = [d \in SUBSET DOMAIN seq |->
                    IF d = {} THEN first ELSE PromoteSchema(h[d \ {Max(d)}], seq[Max(d)].id, tick)]
           it == CHOOSE h : Solves(h)
<1>1. DrainSchemas(s, tick) = it[DOMAIN seq]
  BY Zenon DEF DrainSchemas, FoldLeft, MapThenFoldSet
<1>2. IsSeq(s.schemaQueue)
  BY DEF ServerFine, QueuesFine
<1>3. PICK n \in Nat : DOMAIN seq = 1 .. n
  BY <1>2, KeptAre, IsSeqIs
<1>4. ServerFine(first)
  BY <1>2, KeptAre, QueueFine
<1> HIDE DEF seq, first
<1>5. \A h : Solves(h) <=> Peeling("schema", tick, first, seq, n, h)
  BY <1>3, Zenon DEF Peeling, Turn
<1>6. Solves(it)
  <2>1. \E h : Solves(h)
    BY <1>3, <1>5, PeelingExists
  <2> HIDE DEF Solves
  <2>2. QED
    BY <2>1, Zenon
<1>7. Peeling("schema", tick, first, seq, n, it)
  BY <1>5, <1>6
<1> HIDE DEF it, Solves
<1>8. ServerFine(it[1 .. n])
  BY <1>4, <1>7, LoopFine
<1>9. QED
  BY <1>1, <1>3, <1>8

\* The ready jobs, each run.
LEMMA JobsDrained ==
  ASSUME NEW s, ServerFine(s)
  PROVE  ServerFine(DrainJobs(s))
<1> DEFINE first == [s EXCEPT !.jobs = Kept(@, {j \in ToSet(@) : ~JobReady(j)})]
           seq == Kept(s.jobs, {j \in ToSet(s.jobs) : JobReady(j)})
           Solves(h) ==
             h = [d \in SUBSET DOMAIN seq |->
                    IF d = {} THEN first ELSE RunJob(h[d \ {Max(d)}], seq[Max(d)])]
           it == CHOOSE h : Solves(h)
<1>1. DrainJobs(s) = it[DOMAIN seq]
  BY Zenon DEF DrainJobs, FoldLeft, MapThenFoldSet
<1>2. IsSeq(s.jobs)
  BY DEF ServerFine, QueuesFine
<1>3. PICK n \in Nat : DOMAIN seq = 1 .. n
  BY <1>2, KeptAre, IsSeqIs
<1>4. ServerFine(first)
  <2> DEFINE q == Kept(s.jobs, {j \in ToSet(s.jobs) : ~JobReady(j)})
  <2>1. IsSeq(q) /\ ToSet(q) \subseteq ToSet(s.jobs)
    BY <1>2, KeptAre
  <2>2. first = [s EXCEPT !.jobs = q]
    OBVIOUS
  <2> HIDE DEF q, first
  <2>3. QED
    BY <1>2, <2>1, <2>2, QueueFine
<1> HIDE DEF seq, first
<1>5. \A h : Solves(h) <=> Peeling("job", 0, first, seq, n, h)
  BY <1>3, Zenon DEF Peeling, Turn
<1>6. Solves(it)
  <2>1. \E h : Solves(h)
    BY <1>3, <1>5, PeelingExists
  <2> HIDE DEF Solves
  <2>2. QED
    BY <2>1, Zenon
<1>7. Peeling("job", 0, first, seq, n, it)
  BY <1>5, <1>6
<1> HIDE DEF it, Solves
<1>8. ServerFine(it[1 .. n])
  BY <1>4, <1>7, LoopFine
<1>9. QED
  BY <1>1, <1>3, <1>8

LEMMA CycleFine ==
  ASSUME NEW s, ServerFine(s), NEW uses
  PROVE  ServerFine(schedule_consolidation_from_replay(s, uses))
<1>1. \A u, tick : ServerFine(u) => ServerFine(SchemasAndJobs(u, tick))
  BY SchemasDrained, JobsDrained, Zenon DEF SchemasAndJobs
<1>2. \A u, tick : ServerFine(u) => ServerFine(DrainedUnless(u, tick))
  BY <1>1, AssembliesDrained, Zenon DEF DrainedUnless, drain_learning_queues
<1>3. \A u, tick : ServerFine(u) => ServerFine(run_learning_cycle(u, tick))
  BY <1>2, IngestsFine, Zenon DEF run_learning_cycle
<1>4. ServerFine([s EXCEPT !.uses = uses])
  BY FlowFine
<1>5. \A u : ServerFine(u) => ServerFine(Settled(u))
  BY FlowFine
<1>6. QED
  BY <1>3, <1>4, <1>5, Zenon DEF schedule_consolidation_from_replay

----------------------------------------------------------------------------
(* Emissions *)

LEMMA ExactStateFine ==
  ASSUME NEW s, ServerFine(s), NEW item, NEW content
  PROVE  ServerFine(EmitExactState(s, item, content).sv)
<1> DEFINE u == append_episode_activation_for_item(s, item, ExactEvent(s, item, content))
           v == [u EXCEPT !.local = insert_block(@, SourceOf(s.bound, item), content)]
<1>1. ServerFine(u)
  BY ActivatedFine
<1> HIDE DEF u
<1>2. DOMAIN v = DOMAIN u /\ \A f \in Fields : v[f] = u[f]
  BY <1>1 DEF ServerFine, Known, Fields, ObjectFields, QueueFields
<1> HIDE DEF v
<1>3. ServerFine(v)
  BY <1>1, <1>2, SameFine DEF ServerFine
<1>4. EmitExactState(s, item, content).sv = Stored(v, item, content)
  BY DEF EmitExactState, Emitted, u, v
<1>5. QED
  BY <1>3, <1>4, StoredFine

LEMMA FallbackFine ==
  ASSUME NEW s, ServerFine(s), NEW item, NEW content, NEW family, NEW source, NEW ctx
  PROVE  ServerFine(Fallback(s, item, content, family, source, ctx).sv)
BY DowngradeFine, OutcomeRecordedFine, ExactStateFine, Zenon DEF Fallback

LEMMA RouteFine ==
  ASSUME NEW s, ServerFine(s), NEW item, NEW content, NEW p, NEW source, NEW ctx, NEW overhead
  PROVE  ServerFine(EmitRoute(s, item, content, p, source, ctx, overhead).sv)
<1>1. CASE Inflates(s, p, overhead)
  <2>1. ServerFine(record_direct_state_downgrade(s, p.family, source, ctx))
    BY DowngradeFine
  <2>2. QED
    BY <1>1, <2>1, FallbackFine DEF EmitRoute
<1>2. CASE ~Inflates(s, p, overhead)
  BY <1>2 DEF EmitRoute, Emitted
<1>3. QED
  BY <1>1, <1>2

LEMMA ExactDataFine ==
  ASSUME NEW s, ServerFine(s), NEW item, NEW content, NEW overhead
  PROVE  ServerFine(emit_plain_exact_state_data(s, item, content, overhead).sv)
<1> DEFINE source == SourceOf(s.bound, item)
           u == record_route_outcome(store_runtime_object_for_item(s, item, content),
                                     Hybrid, source, << >>, TRUE)
<1>1. ServerFine(u)
  BY StoredFine, OutcomeRecordedFine
<1> HIDE DEF u
<1>2. ServerFine(EmitRoute(u, item, content, DictionaryPayload(s, content), source, << >>, overhead).sv)
  BY <1>1, RouteFine
<1>3. QED
  BY <1>2, ExactStateFine DEF emit_plain_exact_state_data, u

LEMMA DirectFine ==
  ASSUME NEW s, ServerFine(s), NEW item, NEW content, NEW source, NEW ctx, NEW overhead
  PROVE  ServerFine(EmitDirect(s, item, content, source, ctx, overhead).sv)
BY OutcomeRecordedFine, ExactDataFine DEF EmitDirect

LEMMA CreditFine ==
  ASSUME NEW s, ServerFine(s), NEW plan, NEW sel
  PROVE  ServerFine(Credited(s, plan, sel))
BY DetailFine DEF Credited

LEMMA TransformFine ==
  ASSUME NEW s, ServerFine(s), NEW item, NEW content, NEW plan, NEW sel, NEW overhead
  PROVE  ServerFine(EmitTransform(s, item, content, plan, sel, overhead).sv)
BY CreditFine, DowngradeFine, RouteFine, FallbackFine, Zenon DEF EmitTransform

LEMMA HybridFine ==
  ASSUME NEW s, ServerFine(s), NEW item, NEW content, NEW plan, NEW sel, NEW overhead
  PROVE  ServerFine(EmitHybrid(s, item, content, plan, sel, overhead).sv)
BY CreditFine, RouteFine, FallbackFine, Zenon DEF EmitHybrid

LEMMA AtomFine ==
  ASSUME NEW s, ServerFine(s), NEW item, NEW content, NEW plan, NEW sel, NEW overhead
  PROVE  ServerFine(EmitAtom(s, item, content, plan, sel, overhead).sv)
BY OutcomeRecordedFine, RouteFine, FallbackFine, Zenon DEF EmitAtom

LEMMA EpisodeFine ==
  ASSUME NEW s, ServerFine(s), NEW item, NEW content, NEW c, NEW sel, NEW overhead
  PROVE  ServerFine(emit_episode_completion_route(s, item, content, c, sel, overhead).sv)
BY ActivatedFine, RouteFine, Zenon DEF emit_episode_completion_route

\* The schema sent is the one that is known, seen once more.
LEMMA SchemaFine ==
  ASSUME NEW s, ServerFine(s), NEW item, NEW content, NEW plan, SchemaAt(s, plan.data.id) # {},
         NEW sel, NEW overhead
  PROVE  ServerFine(EmitSchema(s, item, content, plan, sel, overhead).sv)
<1> DEFINE old == SchemaOf(s, plan.data.id)
           schema == [old EXCEPT !.life = record_seen(@, s.tick)]
           u == maybe_enqueue_schema_promotion(s, schema)
           learnt == update_schema(u, schema)
<1>1. /\ {"id", "life"} \subseteq DOMAIN old
      /\ Mirrors(World(s), SchemaKind, old.id, old.life)
  BY SchemaOfIs
<1> HIDE DEF old
<1>2. {"id", "life"} \subseteq DOMAIN schema /\ schema.id = old.id /\ schema.life = record_seen(old.life, s.tick)
  BY <1>1
<1>3. Mirrors(World(s), SchemaKind, schema.id, schema.life)
  BY <1>1, <1>2, LivesAre
<1> HIDE DEF schema
<1>4. ServerFine(u) /\ World(u) = World(s)
  <2>1. World(u) = World(s)
    BY DEF maybe_enqueue_schema_promotion, World, ServerFine, Known, Fields, ObjectFields
  <2>2. QED
    BY <2>1, EnqueuedFine
<1> HIDE DEF u
<1>5. ServerFine(learnt)
  BY <1>2, <1>3, <1>4, UpdatedFine
<1>6. EmitSchema(s, item, content, plan, sel, overhead)
        = EmitSchemaWith(s, item, content, schema, plan, sel, overhead)
  BY DEF EmitSchema, schema, old
<1>7. EmitSchemaWith(s, item, content, schema, plan, sel, overhead)
        = IF AllAdmissible(learnt, SchemaPayload(schema).deps, SchemaPayload(schema).inline)
          THEN EmitRoute(Credited(learnt, plan, sel), item, content, SchemaPayload(schema),
                         sel.source, sel.ctx, overhead)
          ELSE Fallback(learnt, item, content, DirectState, sel.source, sel.ctx)
  BY Zenon DEF EmitSchemaWith, u
<1> HIDE DEF learnt
<1>8. QED
  BY <1>5, <1>6, <1>7, CreditFine, RouteFine, FallbackFine, Zenon

\* Assemblies put into the server or its shelf.
LEMMA AssembliesPut ==
  ASSUME NEW s, ServerFine(s), NEW id, NEW assembly, "life" \in DOMAIN assembly,
         Mirrors(World(s), AssemblyKind, id, assembly.life),
         NEW t, DOMAIN t = DOMAIN s, t.assemblies = With(s.assemblies, id, assembly),
         \A f \in Fields \ {"assemblies"} : t[f] = s[f]
  PROVE  ServerFine(t)
<1>1. /\ World(t) = World(s) /\ t.classes = s.classes /\ t.filed = s.filed /\ t.schemas = s.schemas
      /\ t.shelf = s.shelf /\ t.operations = s.operations
      /\ \A f \in Fields \ ObjectFields : t[f] = s[f]
  BY DEF World, Fields, ObjectFields, QueueFields
<1>2. /\ DOMAIN t.assemblies = DOMAIN s.assemblies \union {id}
      /\ t.assemblies[id] = assembly
      /\ \A i \in DOMAIN s.assemblies : i # id => t.assemblies[i] = s.assemblies[i]
  BY DEF With
<1>3. AssembliesFine(World(s), t.assemblies)
  BY <1>2 DEF AssembliesFine, ServerFine, ObjectsFine
<1>4. ObjectsFine(t)
  BY <1>1, <1>3 DEF ObjectsFine, ServerFine
<1>5. QED
  BY <1>1, <1>4, WrittenFine DEF ServerFine

LEMMA ShelfPut ==
  ASSUME NEW s, ServerFine(s), NEW shelf, ShelfFine(shelf)
  PROVE  ServerFine([s EXCEPT !.shelf = shelf])
<1> DEFINE t == [s EXCEPT !.shelf = shelf]
<1>1. DOMAIN t = DOMAIN s /\ t.shelf = shelf /\ \A f \in Fields \ {"shelf"} : t[f] = s[f]
  BY DEF ServerFine, Known, Fields, ObjectFields, QueueFields
<1> HIDE DEF t
<1>2. /\ World(t) = World(s) /\ t.classes = s.classes /\ t.filed = s.filed /\ t.schemas = s.schemas
      /\ t.assemblies = s.assemblies /\ t.operations = s.operations
      /\ \A f \in Fields \ ObjectFields : t[f] = s[f]
  BY <1>1 DEF World, Fields, ObjectFields, QueueFields
<1>3. ObjectsFine(t)
  BY <1>1, <1>2 DEF ObjectsFine, ServerFine
<1>4. ServerFine(t)
  BY <1>1, <1>2, <1>3, WrittenFine DEF ServerFine
<1>5. QED
  BY <1>4 DEF t

\* A lifecycle that has just begun is of no family.
LEMMA NewMirrors ==
  ASSUME NEW w, NEW kind, NEW id
  PROVE  Mirrors(w, kind, id, NewLifecycle)
BY DEF Mirrors, NewLifecycle, Canonical

\* The assembly is there afterwards unless the call failed.
LEMMA MaterializedFine ==
  ASSUME NEW s, ServerFine(s), NEW c, NEW source
  PROVE  LET t == materialize_or_lookup_assembly(s, c, source)
         IN ServerFine(t) /\ (t.failed \/ c.id \in DOMAIN t.assemblies)
<1> DEFINE new == NewAssembly(c, source)
           t == materialize_or_lookup_assembly(s, c, source)
<1>1. "life" \in DOMAIN new /\ new.life = NewLifecycle
  BY DEF NewAssembly
<1> HIDE DEF new
<1>2. ShelfFine(s.shelf)
  BY DEF ServerFine, ObjectsFine
<1>3. CASE c.id \in DOMAIN s.assemblies
  BY <1>3 DEF materialize_or_lookup_assembly
<1>4. CASE c.id \notin DOMAIN s.assemblies /\ c.id \in DOMAIN s.shelf
  <2>1. t = [s EXCEPT !.assemblies = With(s.assemblies, c.id, s.shelf[c.id])]
    BY <1>4 DEF materialize_or_lookup_assembly
  <2> HIDE DEF t
  <2>2. /\ DOMAIN t = DOMAIN s /\ t.assemblies = With(s.assemblies, c.id, s.shelf[c.id])
        /\ \A f \in Fields \ {"assemblies"} : t[f] = s[f]
    BY <2>1 DEF ServerFine, Known, Fields, ObjectFields, QueueFields
  <2>3. "life" \in DOMAIN s.shelf[c.id] /\ Mirrors(World(s), AssemblyKind, c.id, s.shelf[c.id].life)
    BY <1>2, <1>4, NewMirrors DEF ShelfFine
  <2>4. ServerFine(t)
    BY <2>2, <2>3, AssembliesPut
  <2>5. c.id \in DOMAIN t.assemblies
    BY <2>2 DEF With
  <2>6. QED
    BY <2>4, <2>5 DEF t
<1>5. CASE c.id \notin DOMAIN s.assemblies /\ c.id \notin DOMAIN s.shelf /\ s.uses = 0
  <2> DEFINE shelf == With(s.shelf, c.id, new)
             u == [s EXCEPT !.shelf = shelf]
  <2>1. t = Abandoned(u)
    BY <1>5 DEF materialize_or_lookup_assembly, new
  <2>2. ShelfFine(shelf)
    BY <1>1, <1>2 DEF ShelfFine, With
  <2> HIDE DEF shelf, t
  <2>3. ServerFine(u)
    BY <2>2, ShelfPut
  <2> HIDE DEF u
  <2>4. t.failed
    BY <2>1, <2>3 DEF Abandoned, ServerFine, Known
  <2>5. ServerFine(t)
    BY <2>1, <2>3, FlowFine
  <2>6. QED
    BY <2>4, <2>5 DEF t
<1>6. CASE c.id \notin DOMAIN s.assemblies /\ c.id \notin DOMAIN s.shelf /\ s.uses # 0
  <2>1. t = [s EXCEPT !.assemblies = With(s.assemblies, c.id, new), !.uses = @ - 1]
    BY <1>6 DEF materialize_or_lookup_assembly, new
  <2> HIDE DEF t
  <2>2. /\ DOMAIN t = DOMAIN s /\ t.assemblies = With(s.assemblies, c.id, new)
        /\ \A f \in Fields \ {"assemblies"} : t[f] = s[f]
    BY <2>1 DEF ServerFine, Known, Fields, ObjectFields, QueueFields
  <2>3. Mirrors(World(s), AssemblyKind, c.id, new.life)
    BY <1>1, NewMirrors
  <2>4. ServerFine(t)
    BY <1>1, <2>2, <2>3, AssembliesPut
  <2>5. c.id \in DOMAIN t.assemblies
    BY <2>2 DEF With
  <2>6. QED
    BY <2>4, <2>5 DEF t
<1>7. QED
  BY <1>3, <1>4, <1>5, <1>6

\* The assembly sent is the one of its id, seen once more.
LEMMA SeenAssemblyFine ==
  ASSUME NEW s, ServerFine(s), NEW item, NEW content, NEW c, NEW assembly, "life" \in DOMAIN assembly,
         Mirrors(World(s), AssemblyKind, c.id, assembly.life), NEW source, NEW overhead
  PROVE  ServerFine(EmitSeenAssembly(s, item, content, c, assembly, source, overhead).sv)
<1> DEFINE u == maybe_enqueue_assembly_promotion(
                  s, c.id, assembly, AtLeast(Monus(ByteLen(content), c.wire), 1), c.ambiguity)
           learnt == persist_assembly(u, c.id, assembly)
<1>1. ServerFine(u) /\ World(u) = World(s)
  <2>1. World(u) = World(s)
    BY DEF maybe_enqueue_assembly_promotion, World, ServerFine, Known, Fields, ObjectFields
  <2>2. QED
    BY <2>1, EnqueuedFine
<1>2. EmitSeenAssembly(s, item, content, c, assembly, source, overhead)
        = IF learnt.failed THEN NoRecord(learnt, item)
          ELSE EmitAssemblyAs(learnt, item, content, c, assembly, source, overhead)
  BY Zenon DEF EmitSeenAssembly
<1> HIDE DEF u
<1>3. ServerFine(learnt)
  <2>1. CASE u.uses = 0
    BY <1>1, <2>1, FlowFine DEF persist_assembly
  <2>2. CASE u.uses # 0
    <3>1. learnt = [u EXCEPT !.assemblies = With(u.assemblies, c.id, assembly), !.uses = @ - 1]
      BY <2>2 DEF persist_assembly
    <3> HIDE DEF learnt
    <3>2. /\ DOMAIN learnt = DOMAIN u /\ learnt.assemblies = With(u.assemblies, c.id, assembly)
          /\ \A f \in Fields \ {"assemblies"} : learnt[f] = u[f]
      BY <1>1, <3>1 DEF ServerFine, Known, Fields, ObjectFields, QueueFields
    <3>3. QED
      BY <1>1, <3>2, AssembliesPut
  <2>3. QED
    BY <2>1, <2>2
<1> HIDE DEF learnt
<1>4. ServerFine(NoRecord(learnt, item).sv)
  BY <1>3 DEF NoRecord, Emitted
<1>5. ServerFine(EmitAssemblyAs(learnt, item, content, c, assembly, source, overhead).sv)
  BY <1>3, RouteFine, FallbackFine, Zenon DEF EmitAssemblyAs
<1>6. QED
  BY <1>2, <1>4, <1>5, Zenon

LEMMA AssemblyFine ==
  ASSUME NEW s, ServerFine(s), NEW item, NEW content, NEW c, NEW source, NEW overhead
  PROVE  ServerFine(emit_assembly_route(s, item, content, c, source, overhead).sv)
<1> DEFINE t == materialize_or_lookup_assembly(s, c, source)
           old == t.assemblies[c.id]
           assembly == [old EXCEPT !.life = record_seen(@, t.tick)]
<1>1. ServerFine(t) /\ (t.failed \/ c.id \in DOMAIN t.assemblies)
  BY MaterializedFine
<1> HIDE DEF t
<1>2. EmitMaterialized(t, item, content, c, source, overhead)
        = IF t.failed THEN NoRecord(t, item)
          ELSE EmitSeenAssembly(t, item, content, c, assembly, source, overhead)
  BY Zenon DEF EmitMaterialized
<1>3. ServerFine(NoRecord(t, item).sv)
  BY <1>1 DEF NoRecord, Emitted
<1>4. ASSUME ~t.failed
      PROVE  ServerFine(EmitSeenAssembly(t, item, content, c, assembly, source, overhead).sv)
  <2>1. "life" \in DOMAIN old /\ Mirrors(World(t), AssemblyKind, c.id, old.life)
    BY <1>1, <1>4 DEF ServerFine, ObjectsFine, AssembliesFine
  <2> HIDE DEF old
  <2>2. "life" \in DOMAIN assembly /\ assembly.life = record_seen(old.life, t.tick)
    BY <2>1
  <2>3. Mirrors(World(t), AssemblyKind, c.id, assembly.life)
    BY <2>1, <2>2, LivesAre
  <2> HIDE DEF assembly
  <2>4. QED
    BY <1>1, <2>2, <2>3, SeenAssemblyFine
<1> HIDE DEF assembly
<1>5. ServerFine(EmitMaterialized(t, item, content, c, source, overhead).sv)
  BY <1>2, <1>3, <1>4, Zenon
<1>6. ServerFine(Fallback(s, item, content, DirectState, source, << >>).sv)
  BY FallbackFine
<1>7. QED
  BY <1>5, <1>6, Zenon DEF emit_assembly_route, t

LEMMA PlanFine ==
  ASSUME NEW s, ServerFine(s), NEW item, NEW content, NEW plan, NEW sel, NEW overhead
  PROVE  ServerFine(EmitPlan(s, item, content, plan, sel, overhead).sv)
<1> DEFINE stored == store_runtime_object_for_item(s, item, content)
           e == EmitPlan(s, item, content, plan, sel, overhead)
<1>1. ServerFine(stored) /\ stored.schemas = s.schemas
  <2>1. stored.schemas = s.schemas
    BY DEF store_runtime_object_for_item, Evicted, Stored, ServerFine, Known, Fields, ObjectFields
  <2>2. QED
    BY <2>1, StoredFine
<1>2. SchemaAt(stored, plan.data.id) = SchemaAt(s, plan.data.id)
  BY <1>1 DEF SchemaAt
<1>3. \/ e = emit_plain_exact_state_data(Credited(s, plan, sel), item, content, overhead)
      \/ e = EmitTransform(stored, item, content, plan, sel, overhead)
      \/ e = Fallback(s, item, content, DirectState, sel.source, sel.ctx)
      \/ SchemaAt(s, plan.data.id) # {} /\ e = EmitSchema(stored, item, content, plan, sel, overhead)
      \/ e = EmitHybrid(stored, item, content, plan, sel, overhead)
      \/ e = emit_assembly_route(Credited(stored, plan, sel), item, content, plan.data, sel.source, overhead)
      \/ e = emit_episode_completion_route(Credited(stored, plan, sel), item, content, plan.data, sel, overhead)
      \/ e = EmitAtom(stored, item, content, plan, sel, overhead)
  BY DEF EmitPlan
<1> HIDE DEF e, stored
<1>4. ServerFine(Credited(s, plan, sel)) /\ ServerFine(Credited(stored, plan, sel))
  BY <1>1, CreditFine
<1>5. ServerFine(e.sv)
  BY <1>1, <1>2, <1>3, <1>4, ExactDataFine, TransformFine, FallbackFine, SchemaFine, HybridFine,
     AssemblyFine, EpisodeFine, AtomFine
<1>6. QED
  BY <1>5 DEF e

LEMMA EmissionFine ==
  ASSUME NEW s, ServerFine(s), NEW item, NEW content, NEW overhead
  PROVE  ServerFine(emit_plain_runtime_data(s, item, content, overhead).sv)
<1>1. \A source, ctx : ServerFine(EmitDirect(s, item, content, source, ctx, overhead).sv)
  BY DirectFine
<1>2. \A plan, sel : ServerFine(EmitPlan(s, item, content, plan, sel, overhead).sv)
  BY PlanFine
<1>3. \A sel, assemblies, transforms, episodes, schemas :
        ServerFine(EmitChosen(s, item, content, sel, assemblies, transforms, episodes, schemas, overhead).sv)
  BY <1>1, <1>2, Zenon DEF EmitChosen
<1>4. \A cue, source, ctx, schemas :
        ServerFine(EmitPredictive(s, item, content, cue, source, ctx, schemas, overhead).sv)
  BY <1>3, Zenon DEF EmitPredictive
<1>5. QED
  BY <1>1, <1>4, Zenon DEF emit_plain_runtime_data

----------------------------------------------------------------------------
(* The client *)

ClientFine(c) == "memory" \in DOMAIN c /\ MemoryFine(c.memory)

LEMMA ClientOutcomeFine ==
  ASSUME NEW c, ClientFine(c), NEW family, NEW tick, NEW success, NEW symbol, NEW sync
  PROVE  ClientFine(ClientOutcome(c, family, tick, success, symbol, sync))
<1> DEFINE m == record_trace_outcome(c.memory, family, << >>, << >>, tick, success)
           t == ClientOutcome(c, family, tick, success, symbol, sync)
<1>1. MemoryFine(m)
  BY OutcomeFine DEF ClientFine
<1>2. DOMAIN t = DOMAIN c /\ t.memory = m
  BY DEF ClientOutcome, ClientFine
<1> HIDE DEF t, m
<1>3. ClientFine(t)
  BY <1>1, <1>2 DEF ClientFine
<1>4. QED
  BY <1>3 DEF t

LEMMA RememberingFine ==
  ASSUME NEW c, ClientFine(c), NEW event
  PROVE  ClientFine(Remembered(c, event))
<1> DEFINE m == append_activation(c.memory, event)
<1>1. MemoryFine(m)
  BY ActivationFine DEF ClientFine
<1>2. DOMAIN Remembered(c, event) = DOMAIN c /\ Remembered(c, event).memory = m
  BY DEF Remembered, ClientFine
<1> HIDE DEF m
<1>3. QED
  BY <1>1, <1>2 DEF ClientFine

\* What leaves the client's memory alone.
LEMMA ElsewhereFine ==
  ASSUME NEW c, ClientFine(c)
  PROVE  /\ \A item, kind, bytes : ClientFine(Cached(c, item, kind, bytes))
         /\ \A item : ClientFine(Forget(c, item))
         /\ \A r : ClientFine(Installed(c, r))
         /\ \A d : ClientFine([c EXCEPT !.dictionaries = d])
         /\ ClientFine(ApplyResync(c))
         /\ \A r : ClientFine(ApplyRepair(c, r))
         /\ \A bound : ClientFine([c EXCEPT !.bound = bound])
BY DEF ClientFine, Cached, Forget, Installed, ApplyResync, ApplyRepair

LEMMA DispatchFine ==
  ASSUME NEW c, ClientFine(c), NEW r
  PROVE  ClientFine(ApplyDispatch(c, r))
<1>1. \A d, bytes, cue : ClientFine(d) => ClientFine(Dispatched(d, r, bytes, cue))
  BY ElsewhereFine, RememberingFine, ClientOutcomeFine, Zenon DEF Dispatched
<1>2. ClientFine(Installed(c, r))
      /\ ClientFine([c EXCEPT !.dictionaries = @ \ {obj.id : obj \in r.inline}])
  BY ElsewhereFine
<1>3. \A result : ClientFine(ApplyDispatchWith(c, r, result))
  BY <1>1, <1>2, ClientOutcomeFine, Zenon DEF ApplyDispatchWith
<1>4. QED
  BY <1>3, ClientOutcomeFine, Zenon DEF ApplyDispatch

LEMMA AppliedFine ==
  ASSUME NEW c, ClientFine(c), NEW r
  PROVE  /\ ClientFine(Applied(c, r))
         /\ \A bytes : ClientFine(ApplyExact(c, r, bytes))
<1>1. \A bytes : ClientFine(ApplyExact(c, r, bytes))
  BY ElsewhereFine, RememberingFine, ClientOutcomeFine, Zenon DEF ApplyExact
<1>2. ClientFine(ApplyReplayHint(c, r))
  BY RememberingFine, Zenon DEF ApplyReplayHint
<1>3. ClientFine(ApplyRetire(c, r))
  BY ElsewhereFine DEF ApplyRetire
<1>4. QED
  BY <1>1, <1>2, <1>3, ElsewhereFine, DispatchFine DEF Applied

----------------------------------------------------------------------------
(* Steps *)

LEMMA ControlFine ==
  ASSUME NEW s, ServerFine(s), NEW max, NEW admissible
  PROVE  ServerFine(emit_pending_control_plane_records(s, max, admissible).sv)
<1> DEFINE t == emit_pending_control_plane_records(s, max, admissible).sv
<1>1. DOMAIN t = DOMAIN s /\ \A f \in Fields : t[f] = s[f]
  BY DEF emit_pending_control_plane_records, ServerFine, Known, Fields, ObjectFields, QueueFields
<1> HIDE DEF t
<1>2. ServerFine(t)
  BY <1>1, SameFine DEF ServerFine
<1>3. QED
  BY <1>2 DEF t

\* The clock, the entries and what is said of the peer are none of the fields.
LEMMA AsideFine ==
  ASSUME NEW s, ServerFine(s), NEW a, NEW b, NEW c
  PROVE  /\ ServerFine([s EXCEPT !.tick = a])
         /\ ServerFine([s EXCEPT !.entries = a, !.predicted = b, !.bound = c])
         /\ ServerFine([s EXCEPT !.bound = a])
         /\ ServerFine([s EXCEPT !.predicted = a, !.peer = b, !.confirmed = c])
         /\ ServerFine([s EXCEPT !.version = a])
         /\ ServerFine([s EXCEPT !.peer = a])
         /\ ServerFine([s EXCEPT !.local = a])
         /\ ServerFine([s EXCEPT !.confirmed = a])
<1> DEFINE Alike(t) == DOMAIN t = DOMAIN s /\ \A f \in Fields : t[f] = s[f]
<1>1. \A t : Alike(t) => ServerFine(t)
  BY SameFine DEF ServerFine
<1>2. /\ Alike([s EXCEPT !.tick = a])
      /\ Alike([s EXCEPT !.entries = a, !.predicted = b, !.bound = c])
      /\ Alike([s EXCEPT !.bound = a])
      /\ Alike([s EXCEPT !.predicted = a, !.peer = b, !.confirmed = c])
  BY DEF ServerFine, Known, Fields, ObjectFields, QueueFields
<1>3. /\ Alike([s EXCEPT !.version = a])
      /\ Alike([s EXCEPT !.peer = a])
      /\ Alike([s EXCEPT !.local = a])
      /\ Alike([s EXCEPT !.confirmed = a])
  BY DEF ServerFine, Known, Fields, ObjectFields, QueueFields
<1> HIDE DEF Alike
<1>4. QED
  BY <1>1, <1>2, <1>3

\* A class that its hot map forgets is the one of its file.
LEMMA ClassEvicted ==
  ASSUME NEW s, ServerFine(s), NEW id \in DOMAIN s.classes
  PROVE  ServerFine([s EXCEPT !.classes[id] = s.filed[id]])
<1> DEFINE classes == [s.classes EXCEPT ![id] = s.filed[id]]
           t == [s EXCEPT !.classes[id] = s.filed[id]]
<1>1. t = [s EXCEPT !.classes = classes]
  OBVIOUS
<1>2. /\ DOMAIN classes = DOMAIN s.classes /\ classes[id] = s.filed[id]
      /\ \A i \in DOMAIN s.classes : i # id => classes[i] = s.classes[i]
  OBVIOUS
<1> HIDE DEF t, classes
<1>3. /\ DOMAIN t = DOMAIN s /\ t.classes = classes
      /\ \A f \in Fields \ {"classes"} : t[f] = s[f]
  BY <1>1 DEF ServerFine, Known, Fields, ObjectFields, QueueFields
<1>4. /\ World(t) = World(s) /\ t.assemblies = s.assemblies /\ t.filed = s.filed
      /\ t.schemas = s.schemas /\ t.shelf = s.shelf /\ t.operations = s.operations
      /\ \A f \in Fields \ ObjectFields : t[f] = s[f]
  BY <1>3 DEF World, Fields, ObjectFields, QueueFields
<1>5. ClassesFine(World(s), classes, s.filed)
  <2>1. s.filed[id].life.level <= s.filed[id].life.level
    BY DEF ServerFine, ObjectsFine, ClassesFine, Mirrors
  <2>2. QED
    BY <1>2, <2>1 DEF ServerFine, ObjectsFine, ClassesFine
<1>6. ObjectsFine(t)
  BY <1>3, <1>4, <1>5 DEF ObjectsFine, ServerFine
<1>7. ServerFine(t)
  BY <1>3, <1>4, <1>6, WrittenFine DEF ServerFine
<1>8. QED
  BY <1>7 DEF t

\* Inductive: the memories have their traces apart, and what the server has learned is in order.
EmissionInvariant == ServerFine(server) /\ ClientFine(client)

LEMMA EmptyMemoryFine == MemoryFine(EmptyMemory)
<1>1. TracesFine(<< >>)
  BY DEF TracesFine, IsSeq
<1>2. QED
  BY <1>1 DEF MemoryFine, EmptyMemory

LEMMA EmissionInit ==
  ASSUME Init
  PROVE  EmissionInvariant
<1>1. PICK bound \in Announced : server = ServerStart(bound) /\ client = ClientStart(bound)
  BY DEF Init
<1>2. ClientFine(client)
  BY <1>1, EmptyMemoryFine DEF ClientStart, ClientFine
<1>3. /\ Known \subseteq DOMAIN server
      /\ server.memory = EmptyMemory /\ server.replay = << >> /\ server.assemblyQueue = << >>
      /\ server.schemaQueue = << >> /\ server.jobs = << >> /\ server.assemblies = << >>
      /\ server.schemas = << >> /\ server.classes = Classes /\ server.filed = Classes
      /\ server.shelf = << >> /\ server.operations = << >> /\ "failed" \in DOMAIN server
  <2> DEFINE learning == LearningStart(<< >>, Classes)
  <2>1. /\ learning.memory = EmptyMemory /\ learning.replay = << >> /\ learning.assemblyQueue = << >>
        /\ learning.schemaQueue = << >> /\ learning.jobs = << >> /\ learning.assemblies = << >>
        /\ learning.schemas = << >> /\ learning.classes = Classes /\ learning.filed = Classes
        /\ learning.shelf = << >> /\ learning.operations = << >> /\ "failed" \in DOMAIN learning
        /\ Fields \subseteq DOMAIN learning
    BY DEF LearningStart, Fields, ObjectFields, QueueFields
  <2> HIDE DEF learning
  <2>2. Known \subseteq DOMAIN server /\ \A f \in Fields : server[f] = learning[f]
    BY <1>1, <2>1 DEF ServerStart, Known, Fields, ObjectFields, QueueFields, learning
  <2>3. QED
    <3>1. Fields \subseteq Known /\ "failed" \in Known
      BY DEF Known
    <3>2. "failed" \in DOMAIN server
      BY <2>2, <3>1
    <3>3. QED
      BY <2>1, <2>2, <3>2 DEF Fields, ObjectFields, QueueFields
<1>4. IsSeq(<< >>) /\ ToSet(<< >>) = {}
  BY DEF IsSeq, ToSet
<1>5. QueuesFine(server)
  BY <1>3, <1>4 DEF QueuesFine
<1>6. ClassesFine(World(server), server.classes, server.filed)
  <2>1. \A id \in DOMAIN Classes :
          /\ "life" \in DOMAIN Classes[id] /\ Mirrors(World(server), TransformKind, id, Classes[id].life)
          /\ Classes[id].life.level <= Classes[id].life.level
    BY EmissionAssumption DEF NoFamily, Mirrors
  <2>2. QED
    BY <1>3, <2>1 DEF ClassesFine
<1>7. /\ AssembliesFine(World(server), server.assemblies) /\ SchemasFine(World(server), server.schemas)
      /\ ShelfFine(server.shelf) /\ IsSeq(server.operations)
  BY <1>3, <1>4 DEF AssembliesFine, SchemasFine, ShelfFine
<1>8. QED
  BY <1>2, <1>3, <1>5, <1>6, <1>7, EmptyMemoryFine DEF EmissionInvariant, ServerFine, ObjectsFine, Known

LEMMA EmissionStep ==
  ASSUME EmissionInvariant, Next
  PROVE  EmissionInvariant'
<1>0. ServerFine(server) /\ ClientFine(client) /\ ServerFine(Ticked)
  BY AsideFine DEF EmissionInvariant, Ticked
<1>1. ASSUME NEW s, ServerFine(s), server' = s, UNCHANGED client PROVE EmissionInvariant'
  BY <1>0, <1>1 DEF EmissionInvariant
<1>2. ASSUME NEW s, ServerFine(s), NEW r, Send(s, r) PROVE EmissionInvariant'
  BY <1>1, <1>2 DEF Send
<1>3. ASSUME NEW s, ServerFine(s), Local(s) PROVE EmissionInvariant'
  BY <1>1, <1>3 DEF Local
<1>4. ASSUME NEW item \in Items, NEW content \in Contents(item), NEW overhead \in Overheads(content),
             NEW uses \in StoresOf(content), Upsert(item, content, overhead, uses)
      PROVE  EmissionInvariant'
  <2> DEFINE s == [Ticked EXCEPT !.uses = uses]
             e == emit_plain_runtime_data(s, item, content, overhead)
  <2>1. ServerFine(s)
    BY <1>0, FlowFine
  <2> HIDE DEF s
  <2>2. ServerFine(e.sv)
    BY <2>1, EmissionFine
  <2>3. SendUnlessFailed(e)
    BY <1>4 DEF Upsert, s
  <2> HIDE DEF e
  <2>4. ServerFine(Settled(e.sv)) /\ ServerFine(Settled([e.sv EXCEPT !.tick = server.tick]))
    <3>1. ServerFine([e.sv EXCEPT !.tick = server.tick])
      BY <2>2, AsideFine
    <3>2. QED
      BY <2>2, <3>1, FlowFine
  <2>5. QED
    BY <1>2, <1>3, <2>3, <2>4 DEF SendUnlessFailed
<1>5. ASSUME NEW item \in Items, Evict(item) PROVE EmissionInvariant'
  <2> DEFINE s == [Ticked EXCEPT !.entries = [i \in DOMAIN @ \ {item} |-> @[i]],
                                 !.predicted = @ \ {item},
                                 !.bound = [i \in DOMAIN @ \ {item} |-> @[i]]]
  <2>1. ServerFine(s)
    <3> HIDE DEF Ticked
    <3>1. QED
      BY <1>0, AsideFine
  <2> HIDE DEF s
  <2>2. QED
    BY <1>2, <1>5, <2>1 DEF Evict, s
<1>6. ASSUME NEW item \in Items, NEW source \in Sources, Bind(item, source) PROVE EmissionInvariant'
  <2>1. ServerFine([Ticked EXCEPT !.bound = With(@, item, source)])
    BY <1>0, AsideFine
  <2>2. QED
    BY <1>2, <1>6, <2>1 DEF Bind
<1>7. ASSUME NEW request \in Requests, RepairResponse(request) PROVE EmissionInvariant'
  <2> DEFINE s == [Ticked EXCEPT !.version = @ + 1]
             answer == repair_response(server.local, request, server.version + 1)
  <2>1. ServerFine(s)
    BY <1>0, AsideFine
  <2>2. RepairWith(s, answer)
    BY <1>7 DEF RepairResponse
  <2> HIDE DEF s, answer
  <2>3. ServerFine([s EXCEPT !.peer = apply_sync(@, answer.value).value])
    BY <2>1, AsideFine
  <2>4. ServerFine([s EXCEPT !.tick = server.tick])
    BY <2>1, AsideFine
  <2>5. QED
    BY <1>2, <1>3, <2>2, <2>3, <2>4 DEF RepairWith
<1>8. ASSUME NEW members \in Bundles, DefineBundle(members) PROVE EmissionInvariant'
  <2>1. ServerFine([server EXCEPT !.local = define_bundle(@, members).value])
    BY <1>0, AsideFine
  <2>2. QED
    BY <1>3, <1>8, <2>1 DEF DefineBundle
<1>9. ASSUME Resync PROVE EmissionInvariant'
  <2>1. ServerFine([Ticked EXCEPT !.predicted = {}, !.peer = EmptyCatalog, !.confirmed = {}])
    BY <1>0, AsideFine
  <2>2. QED
    BY <1>2, <1>9, <2>1 DEF Resync
<1>10. ASSUME NEW schema \in Schemas, InstallSchema(schema) PROVE EmissionInvariant'
  <2>1. {"id", "life"} \subseteq DOMAIN schema /\ Mirrors(World(server), SchemaKind, schema.id, schema.life)
    BY EmissionAssumption DEF NoFamily, Mirrors
  <2>2. ServerFine(update_schema(server, schema))
    BY <1>0, <2>1, UpdatedFine
  <2>3. QED
    BY <1>3, <1>10, <2>2 DEF InstallSchema
<1>11. ASSUME NEW obj \in Acks, Acknowledge(obj) PROVE EmissionInvariant'
  <2>1. ServerFine([server EXCEPT !.confirmed = @ \union {obj}])
    BY <1>0, AsideFine
  <2>2. QED
    BY <1>3, <1>11, <2>1 DEF Acknowledge
<1>12. ASSUME NEW event \in Activations, Activate(event) PROVE EmissionInvariant'
  <2>1. \A e : ServerFine(append_episode_activation_for_item(server, 0, e))
    BY <1>0, ActivatedFine
  <2>2. QED
    BY <1>3, <1>12, <2>1 DEF Activate
<1>13. ASSUME NEW uses \in 0 .. MaxUses, LearningCycle(uses) PROVE EmissionInvariant'
  BY <1>0, <1>3, <1>13, CycleFine DEF LearningCycle
<1>14. ASSUME EmitControlPlane PROVE EmissionInvariant'
  <2>1. PICK out, admissible :
          /\ out = emit_pending_control_plane_records(server, MaxControl, admissible)
          /\ server' = [out.sv EXCEPT !.tick = @ + Len(out.records)]
          /\ UNCHANGED client
    BY <1>14 DEF EmitControlPlane
  <2>2. ServerFine(out.sv)
    BY <1>0, <2>1, ControlFine
  <2>3. ServerFine([out.sv EXCEPT !.tick = @ + Len(out.records)])
    BY <2>2, AsideFine
  <2>4. QED
    BY <1>1, <2>1, <2>3
<1>15. ASSUME Deliver PROVE EmissionInvariant'
  <2>1. /\ ClientFine(Applied(client, Head(down)))
        /\ \A bytes : ClientFine(ApplyExact(client, Head(down), bytes))
    BY <1>0, AppliedFine
  <2>2. /\ server' = server
        /\ \/ client' = Applied(client, Head(down))
           \/ \E bytes : client' = ApplyExact(client, Head(down), bytes)
    BY <1>15 DEF Deliver, DeliverExact, DeliverOther
  <2>3. ClientFine(client') /\ ServerFine(server')
    BY <1>0, <2>1, <2>2
  <2>4. QED
    BY <2>3 DEF EmissionInvariant
<1>16. ASSUME NEW job \in HostJobs, EnqueueJob(job) PROVE EmissionInvariant'
  <2>1. IsSeq(push_job(server.jobs, job))
    BY <1>0, PushesAre DEF ServerFine, QueuesFine
  <2>2. ServerFine(enqueue_consolidation_job(server, job))
    BY <1>0, <2>1, QueueFine DEF enqueue_consolidation_job
  <2>3. QED
    BY <1>3, <1>16, <2>2 DEF EnqueueJob
<1>17. ASSUME NEW id \in DOMAIN server.classes, EvictClass(id) PROVE EmissionInvariant'
  <2>1. ServerFine([server EXCEPT !.classes[id] = server.filed[id]])
    BY <1>0, ClassEvicted
  <2>2. QED
    BY <1>3, <1>17, <2>1 DEF EvictClass
<1>18. ASSUME NEW id \in DOMAIN server.shelf, EvictAssembly(id) PROVE EmissionInvariant'
  <2> DEFINE shelf == [other \in DOMAIN server.shelf \ {id} |-> server.shelf[other]]
  <2>1. ShelfFine(shelf)
    BY <1>0 DEF ShelfFine, ServerFine, ObjectsFine
  <2>2. ServerFine([server EXCEPT !.shelf = shelf])
    <3> HIDE DEF shelf
    <3>1. QED
      BY <1>0, <2>1, ShelfPut
  <2>3. QED
    BY <1>3, <1>18, <2>2 DEF EvictAssembly
<1>19. QED
  BY <1>4, <1>5, <1>6, <1>7, <1>8, <1>9, <1>10, <1>11, <1>12, <1>13, <1>14, <1>15, <1>16, <1>17, <1>18
     DEF Next

\* The invariant, of every reachable state (ServerState and ClientState).
THEOREM LearningInvariant == Spec => []EmissionInvariant
<1>1. Init => EmissionInvariant
  BY EmissionInit
<1>2. EmissionInvariant /\ [Next]_vars => EmissionInvariant'
  <2>1. EmissionInvariant /\ UNCHANGED vars => EmissionInvariant'
    BY DEF vars, EmissionInvariant
  <2>2. QED
    BY <2>1, EmissionStep
<1>3. QED
  BY <1>1, <1>2, PTL DEF Spec

\* No two traces of one memory are of one object, context and partition, whatever was absorbed,
\* trimmed and credited (HippocampalShockMemory::ingest, EpisodeMemory::record_route_outcome).
THEOREM TracesStayDistinct == Spec => []TracesDistinct
<1>1. EmissionInvariant => TracesDistinct
  BY DEF EmissionInvariant, ServerFine, ClientFine, MemoryFine, TracesFine, TraceKey, TracesDistinct
<1>2. QED
  BY <1>1, LearningInvariant, PTL

\* An object is at the level of the family it belongs to unless the cache failed between the two
\* writes; the family is then ahead and never behind, and one that is missing was retired, whoever
\* asked for that (drain_learning_queues, persist_assembly, OntologyState::apply).
THEOREM FamiliesMirror == Spec => []FamiliesMirrorObjects
<1>1. ASSUME EmissionInvariant, NEW m \in Learned(server)
      PROVE  \E kind, id : m.obj = ObjectRef(kind, id) /\ Mirrors(World(server), kind, id, m.life)
  <2>0. /\ AssembliesFine(World(server), server.assemblies)
        /\ ClassesFine(World(server), server.classes, server.filed)
        /\ SchemasFine(World(server), server.schemas)
    BY <1>1 DEF EmissionInvariant, ServerFine, ObjectsFine
  <2>1. ASSUME NEW id \in DOMAIN server.assemblies,
               m = [obj |-> ObjectRef(AssemblyKind, id), life |-> server.assemblies[id].life]
        PROVE  m.obj = ObjectRef(AssemblyKind, id) /\ Mirrors(World(server), AssemblyKind, id, m.life)
    BY <2>0, <2>1 DEF AssembliesFine
  <2>2. ASSUME NEW i \in DOMAIN server.schemas,
               m = [obj |-> ObjectRef(SchemaKind, server.schemas[i].id), life |-> server.schemas[i].life]
        PROVE  /\ m.obj = ObjectRef(SchemaKind, server.schemas[i].id)
               /\ Mirrors(World(server), SchemaKind, server.schemas[i].id, m.life)
    BY <2>0, <2>2 DEF SchemasFine, ToSet
  <2>3. ASSUME NEW id \in DOMAIN server.classes,
               m = [obj |-> ObjectRef(TransformKind, id), life |-> server.classes[id].life]
        PROVE  m.obj = ObjectRef(TransformKind, id) /\ Mirrors(World(server), TransformKind, id, m.life)
    BY <2>0, <2>3 DEF ClassesFine
  <2>4. QED
    BY <2>1, <2>2, <2>3 DEF Learned
<1>2. EmissionInvariant => FamiliesMirrorObjects
  <2>1. SUFFICES ASSUME EmissionInvariant, NEW m \in Learned(server), m.life.family # << >>
                 PROVE  IF m.life.family[1] \in DOMAIN server.families
                        THEN /\ server.families[m.life.family[1]].life.level >= m.life.level
                             /\ \/ server.families[m.life.family[1]].life.level = m.life.level
                                \/ m.obj \in server.behind
                        ELSE Operation("Retire", m.life.family[1]) \in ToSet(server.operations)
    BY DEF FamiliesMirrorObjects
  <2>2. PICK kind, id : m.obj = ObjectRef(kind, id) /\ Mirrors(World(server), kind, id, m.life)
    BY <1>1, <2>1
  <2>3. /\ World(server).families = server.families /\ World(server).operations = server.operations
        /\ World(server).behind = server.behind
    BY DEF World
  <2>4. QED
    BY <2>1, <2>2, <2>3 DEF Mirrors, LevelFits, Retired
<1>3. QED
  BY <1>2, LearningInvariant, PTL

=============================================================================
