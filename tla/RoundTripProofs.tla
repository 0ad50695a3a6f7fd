---------------------------- MODULE RoundTripProofs ----------------------------
(***************************************************************************)
(* What is encoded comes back: on the exact path, for every set of items   *)
(* and documents, any limits and any number of records under way, and for  *)
(* the graphs and coded payloads of Reconstruction, for every asset family *)
(* and every payload.                                                      *)
(*                                                                         *)
(* The exact path.  A delta gives its target back on the base it was       *)
(* computed from, whether it copies and inserts (BinaryRight) or patches   *)
(* the places that differ (XorRight), and so any payload is undone by what *)
(* it was made with (UndoneExactly).  Then comes the invariant: the        *)
(* records under way lead from the state of the client to that of the      *)
(* server.  For an item that was sent without loss there is a path of its  *)
(* versions (VersionPath), and as long as the ends are taught the same     *)
(* there is one of what they have learnt (ContextPath).  Neither property  *)
(* is inductive without the path: it says nothing of the records that are  *)
(* still to be applied.                                                    *)
(*                                                                         *)
(* Graphs and codecs.  Each loop of an encoder and of its decoder is first *)
(* restated as a sequence of states, one for every turn (the predicates    *)
(* PutsSparsely, TakesSparsely and so on); an induction over the turns     *)
(* then shows that the decoder, after k turns, holds what the encoder had  *)
(* been given after k turns.  That what is on the wire was put there by    *)
(* one of the senders (OnTheWire) is the inductive invariant.              *)
(***************************************************************************)
EXTENDS ExactPath, Reconstruction, Induction, FiniteSetTheorems, TLAPS

----------------------------------------------------------------------------
(* Parts of sequences. *)

\* The bounds of a slice.
Within(s, a, b) == a \in Nat /\ b \in Nat /\ a <= b /\ b <= Len(s)

\* A slice has the elements of its places.
LEMMA SliceIs ==
  ASSUME NEW T, NEW s \in Seq(T), NEW a, NEW b, Within(s, a, b)
  PROVE  /\ Slice(s, a, b) \in Seq(T) /\ Len(Slice(s, a, b)) = b - a
         /\ \A i \in 1 .. b - a : Slice(s, a, b)[i] = s[a + i]
<1> DEFINE t == SubSeq(s, a + 1, b)
<1>0. a \in Nat /\ b \in Nat /\ a <= b /\ b <= Len(s)
  BY DEF Within
<1>1. a + 1 \in Nat /\ \A i \in a + 1 .. b : i \in 1 .. Len(s)
  BY <1>0
<1>2. t \in Seq(T) /\ Len(t) = b - a /\ \A i \in 1 .. b - a : t[i] = s[a + i]
  BY <1>0, <1>1
<1>3. QED
  BY <1>2 DEF Slice

\* A set of numbers with an upper bound has a largest one.
LEMMA LargestIs ==
  ASSUME NEW n \in Nat, NEW S \in SUBSET (0 .. n), S # {}
  PROVE  Max(S) \in S /\ \A x \in S : x <= Max(S)
<1> DEFINE R == {i \in Nat : n - i \in S}
<1>1. R \in SUBSET Nat /\ R # {}
  <2>1. PICK x \in S : TRUE
    OBVIOUS
  <2>2. n - x \in Nat /\ n - (n - x) = x
    BY <2>1
  <2>3. QED
    BY <2>1, <2>2
<1>2. PICK m \in R : \A k \in R : m <= k
  <2> HIDE DEF R
  <2>1. QED
    BY <1>1, LeastNumber
<1>3. n - m \in S /\ \A x \in S : x <= n - m
  <2>1. ASSUME NEW x \in S PROVE x <= n - m
    <3>1. n - x \in Nat /\ n - (n - x) = x
      OBVIOUS
    <3>2. n - x \in R
      BY <3>1
    <3>3. m <= n - x
      BY <1>2, <3>2
    <3>4. QED
      BY <3>1, <3>3
  <2>2. QED
    BY <1>2, <2>1
<1>4. S \in SUBSET Nat
  OBVIOUS
<1>5. Max(S) = n - m
  BY <1>3, <1>4, MaxIs
<1>6. QED
  BY <1>3, <1>5

\* The length of the longest common beginning of two sequences.
LEMMA PrefixLen ==
  ASSUME NEW T, NEW left \in Seq(T), NEW right \in Seq(T)
  PROVE  LET n == common_prefix_len(left, right)
         IN /\ n \in 0 .. Len(left) /\ n <= Len(right)
            /\ \A i \in 1 .. n : left[i] = right[i]
            /\ (n < Len(left) /\ n < Len(right)) => left[n + 1] # right[n + 1]
<1> DEFINE L == Len(left)
           C == {k \in 0 .. L : k <= Len(right) /\ \A i \in 1 .. k : left[i] = right[i]}
           Fits(k) == /\ k <= Len(right)
                      /\ \A i \in 1 .. k : left[i] = right[i]
                      /\ (k < L /\ k < Len(right)) => left[k + 1] # right[k + 1]
<1>1. L \in Nat /\ Len(right) \in Nat /\ C \in SUBSET (0 .. L) /\ 0 \in C
  OBVIOUS
<1>2. PICK m \in C : \A x \in C : x <= m
  <2> HIDE DEF C, L
  <2>1. QED
    BY <1>1, LargestIs
<1>3. m \in 0 .. L /\ Fits(m)
  <2>1. ASSUME m < L, m < Len(right), left[m + 1] = right[m + 1] PROVE FALSE
    <3>1. m + 1 \in 0 .. L /\ m + 1 <= Len(right)
      BY <1>1, <1>2, <2>1
    <3>2. \A i \in 1 .. m + 1 : i \in 1 .. m \/ i = m + 1
      BY <1>2
    <3>3. m + 1 \in C
      BY <1>2, <2>1, <3>1, <3>2
    <3>4. QED
      BY <1>2, <3>3
  <2>2. QED
    BY <1>2, <2>1
<1> DEFINE c == CHOOSE k \in 0 .. L : Fits(k)
<1>4. c \in 0 .. L /\ Fits(c)
  <2> HIDE DEF Fits, L
  <2>1. QED
    BY <1>3
<1>5. common_prefix_len(left, right) = c
  BY DEF common_prefix_len
<1>6. QED
  BY <1>4, <1>5

----------------------------------------------------------------------------
(* Deltas that copy and insert. *)

\* Every place below n has an element and a later place to go on from ...
Descends(n, R, op, jump) ==
  \A p \in 0 .. n - 1 : op[p] \in R /\ jump[p] \in Nat /\ p < jump[p] /\ jump[p] <= n

\* ... and F collects the elements from a place on.
Descent(n, R, op, jump, F) ==
  /\ F \in [0 .. n -> Seq(R)]
  /\ \A p \in 0 .. n : F[p] = IF p = n THEN << >> ELSE <<op[p]>> \o F[jump[p]]

\* A function that goes down from the end of an interval by given jumps exists.
LEMMA DescentExists ==
  ASSUME NEW n \in Nat, NEW R, NEW op, NEW jump, Descends(n, R, op, jump)
  PROVE  \E F : Descent(n, R, op, jump, F)
<1>0. \A p \in 0 .. n - 1 : op[p] \in R /\ jump[p] \in Nat /\ p < jump[p] /\ jump[p] <= n
  BY DEF Descends
<1> DEFINE Down(k, F) ==
             /\ F \in [n - k .. n -> Seq(R)]
             /\ \A p \in n - k .. n : F[p] = IF p = n THEN << >> ELSE <<op[p]>> \o F[jump[p]]
           S == {k \in 0 .. n : \E F : Down(k, F)}
<1>1. 0 \in S
  <2> DEFINE F == [p \in n .. n |-> << >>]
  <2>1. Down(0, F)
    OBVIOUS
  <2> HIDE DEF F, Down
  <2>2. QED
    BY <2>1
<1>2. ASSUME NEW k \in 0 .. n, k \in S, k < n PROVE k + 1 \in S
  <2> PICK F : Down(k, F)
    BY <1>2
  <2> DEFINE q == n - (k + 1)
             G == [p \in q .. n |-> IF p = q THEN <<op[q]>> \o F[jump[q]] ELSE F[p]]
  <2>1. /\ q \in 0 .. n - 1 /\ q # n /\ n - k = q + 1
        /\ \A p \in q .. n : p = q \/ p \in n - k .. n
        /\ \A p \in n - k .. n : p \in q .. n /\ p # q
    BY <1>2
  <2>2. /\ jump[q] \in n - k .. n
        /\ \A p \in n - k .. n : p # n => jump[p] \in n - k .. n
    <3>1. \A p \in n - k .. n : p # n => p \in 0 .. n - 1
      BY <1>2
    <3>2. QED
      BY <1>0, <2>1, <3>1
  <2> HIDE DEF q
  <2>3. <<op[q]>> \o F[jump[q]] \in Seq(R)
    BY <1>0, <2>1, <2>2
  <2>4. G \in [q .. n -> Seq(R)]
    BY <2>1, <2>3
  <2>5. G[q] = <<op[q]>> \o F[jump[q]] /\ \A p \in n - k .. n : G[p] = F[p]
    <3>1. q \in q .. n
      BY <2>1
    <3>2. QED
      BY <2>1, <3>1
  <2> HIDE DEF G
  <2>6. \A p \in q .. n : G[p] = IF p = n THEN << >> ELSE <<op[p]>> \o G[jump[p]]
    BY <2>1, <2>2, <2>5
  <2>7. Down(k + 1, G)
    BY <2>4, <2>6 DEF q
  <2>8. k + 1 \in 0 .. n
    BY <1>2
  <2> HIDE DEF Down
  <2>9. QED
    BY <2>7, <2>8
<1>3. n \in S
  <2> HIDE DEF S
  <2>1. 0 .. n \subseteq S
    BY <1>1, <1>2, IntervalInduction
  <2>2. QED
    BY <2>1
<1>4. n - n = 0
  OBVIOUS
<1>5. QED
  BY <1>3, <1>4 DEF Descent

\* An operation of a delta carries the target on from where it stands.
LEMMA OpIs ==
  ASSUME NEW T, NEW base \in Seq(T), NEW target \in Seq(T), NEW pos \in 0 .. Len(target) - 1
  PROVE  LET op == OpAt(base, target, pos)
             next == pos + Covers(op)
         IN /\ Covers(op) \in Nat /\ pos < next /\ next <= Len(target)
            /\ Part(base, op) = Done(Slice(target, pos, next))
<1> DEFINE found == Matches(base, target, pos)
           op == OpAt(base, target, pos)
           n == Len(target)
           L == Len(base)
<1>1. n \in Nat /\ L \in Nat /\ pos \in Nat /\ pos < n /\ ChunkSize \in Nat \ {0}
  BY CompressionAssumption
<1>2. CASE found = {}
  <2>1. op = [op |-> "insert", bytes |-> <<target[pos + 1]>>]
    BY <1>2 DEF OpAt
  <2>2. op.op = "insert" /\ op.bytes = <<target[pos + 1]>>
    BY <2>1
  <2> HIDE DEF op
  <2>3. Covers(op) = 1 /\ Part(base, op) = Done(<<target[pos + 1]>>)
    BY <2>2 DEF Covers, Part
  <2>4. Slice(target, pos, pos + 1) = <<target[pos + 1]>>
    <3> DEFINE s == Slice(target, pos, pos + 1)
    <3> DEFINE e == pos + 1
    <3>1. Within(target, pos, e) /\ e - pos = 1
      BY <1>1 DEF Within
    <3>2. s \in Seq(T) /\ Len(s) = 1 /\ s[1] = target[pos + 1]
      <4> HIDE DEF e
      <4>1. Slice(target, pos, e) \in Seq(T) /\ Len(Slice(target, pos, e)) = e - pos
            /\ \A i \in 1 .. e - pos : Slice(target, pos, e)[i] = target[pos + i]
        BY <3>1, SliceIs
      <4>2. s = Slice(target, pos, e)
        BY DEF e
      <4> HIDE DEF s
      <4>3. QED
        BY <3>1, <4>1, <4>2
    <3> HIDE DEF s
    <3>3. s = <<target[pos + 1]>>
      BY <3>2
    <3>4. QED
      BY <3>3 DEF s
  <2>5. QED
    BY <1>1, <2>3, <2>4 DEF op
<1>3. CASE found # {}
  <2> DEFINE o == Max(found)
             left == Slice(base, o, L)
             right == Slice(target, pos, n)
             c == common_prefix_len(left, right)
  <2>1. /\ pos + ChunkSize <= n
        /\ found = {x \in IndexedChunks(base) : ChunkAt(base, x) = ChunkAt(target, pos)}
    BY <1>3 DEF Matches
  <2>2. o \in found
    <3>1. found \in SUBSET (0 .. L)
      BY <2>1 DEF IndexedChunks
    <3> HIDE DEF found, L
    <3>2. QED
      BY <1>1, <1>3, <3>1, LargestIs
  <2>3. op = [op |-> "copy", offset |-> o, length |-> c]
    BY <1>3 DEF OpAt, Copied
  <2>4. op.op = "copy" /\ op.offset = o /\ op.length = c
    BY <2>3
  <2> HIDE DEF op
  <2>5. o \in Nat /\ o + ChunkSize + 1 < L /\ Slice(base, o, o + ChunkSize) = Slice(target, pos, pos + ChunkSize)
    BY <2>1, <2>2 DEF IndexedChunks, ChunkAt
  <2> HIDE DEF o, found
  <2>6. left \in Seq(T) /\ Len(left) = L - o /\ \A i \in 1 .. L - o : left[i] = base[o + i]
    <3>1. Within(base, o, L)
      BY <1>1, <2>5 DEF Within
    <3> HIDE DEF L
    <3>2. QED
      BY <3>1, SliceIs
  <2>7. right \in Seq(T) /\ Len(right) = n - pos /\ \A i \in 1 .. n - pos : right[i] = target[pos + i]
    <3>1. Within(target, pos, n)
      BY <1>1 DEF Within
    <3> HIDE DEF n
    <3>2. QED
      BY <3>1, SliceIs
  <2> HIDE DEF left, right
  <2>8. /\ c \in 0 .. Len(left) /\ c <= Len(right)
        /\ \A i \in 1 .. c : left[i] = right[i]
        /\ (c < Len(left) /\ c < Len(right)) => left[c + 1] # right[c + 1]
    BY <2>6, <2>7, PrefixLen
  <2> HIDE DEF c
  <2>9. c \in Nat /\ c <= L - o /\ c <= n - pos
    BY <1>1, <2>5, <2>6, <2>7, <2>8
  <2>10. \A i \in 1 .. ChunkSize : base[o + i] = target[pos + i]
    <3> DEFINE x == Slice(base, o, o + ChunkSize)
               y == Slice(target, pos, pos + ChunkSize)
               oc == o + ChunkSize
               pc == pos + ChunkSize
    <3>1. Within(base, o, oc) /\ oc - o = ChunkSize
      BY <1>1, <2>5 DEF Within
    <3>2. Within(target, pos, pc) /\ pc - pos = ChunkSize
      BY <1>1, <2>1 DEF Within
    <3> HIDE DEF oc, pc
    <3>3. \A i \in 1 .. oc - o : Slice(base, o, oc)[i] = base[o + i]
      BY <3>1, SliceIs
    <3>4. \A i \in 1 .. pc - pos : Slice(target, pos, pc)[i] = target[pos + i]
      BY <3>2, SliceIs
    <3>5. Slice(base, o, oc) = Slice(target, pos, pc)
      BY <2>5 DEF oc, pc
    <3>6. QED
      BY <3>1, <3>2, <3>3, <3>4, <3>5
  <2>11. c >= ChunkSize
    <3>1. SUFFICES ASSUME c < ChunkSize PROVE FALSE
      BY <1>1, <2>9
    <3>2. c + 1 \in 1 .. ChunkSize /\ c + 1 \in 1 .. L - o /\ c + 1 \in 1 .. n - pos
      BY <1>1, <2>1, <2>5, <2>9, <3>1
    <3>3. left[c + 1] = base[o + (c + 1)] /\ right[c + 1] = target[pos + (c + 1)]
      BY <2>6, <2>7, <3>2
    <3>4. base[o + (c + 1)] = target[pos + (c + 1)]
      BY <2>10, <3>2
    <3>5. c < Len(left) /\ c < Len(right)
      BY <2>6, <2>7, <3>2, <2>9
    <3>6. QED
      BY <2>8, <3>3, <3>4, <3>5
  <2>12. Covers(op) = c /\ Part(base, op) = Done(Slice(base, o, o + c))
    <3>1. o + c <= Len(base)
      BY <1>1, <2>5, <2>9
    <3>2. QED
      BY <2>4, <3>1 DEF Covers, Part
  <2>13. Slice(base, o, o + c) = Slice(target, pos, pos + c)
    <3> DEFINE oc == o + c
               pc == pos + c
               x == Slice(base, o, oc)
               y == Slice(target, pos, pc)
    <3>1. Within(base, o, oc) /\ oc - o = c
      BY <1>1, <2>5, <2>9 DEF Within
    <3>2. Within(target, pos, pc) /\ pc - pos = c
      BY <1>1, <2>9 DEF Within
    <3> HIDE DEF oc, pc
    <3>3. x \in Seq(T) /\ Len(x) = oc - o /\ \A i \in 1 .. oc - o : x[i] = base[o + i]
      BY <3>1, SliceIs
    <3>4. y \in Seq(T) /\ Len(y) = pc - pos /\ \A i \in 1 .. pc - pos : y[i] = target[pos + i]
      BY <3>2, SliceIs
    <3> HIDE DEF x, y
    <3>5. \A i \in 1 .. c : base[o + i] = target[pos + i]
      <4>1. \A i \in 1 .. c : i \in 1 .. L - o /\ i \in 1 .. n - pos
        BY <1>1, <2>5, <2>9
      <4>2. QED
        BY <2>6, <2>7, <2>8, <4>1
    <3>6. Len(x) = Len(y) /\ \A i \in 1 .. Len(x) : x[i] = y[i]
      BY <3>1, <3>2, <3>3, <3>4, <3>5
    <3>7. x = y
      BY <3>3, <3>4, <3>6, SeqEqual
    <3>8. QED
      BY <3>7 DEF x, y, oc, pc
  <2>14. QED
    BY <1>1, <2>9, <2>11, <2>12, <2>13 DEF op
<1>4. QED
  BY <1>2, <1>3

\* What the operations of a delta give, one after the other.
Values(base, ops) == [i \in DOMAIN ops |-> Part(base, ops[i]).value]

\* One more in front.
Foremost(op, ops) == <<op>> \o ops

\* The operations in R give parts of the type T.
Parted(base, R, T) == \A r \in R : Part(base, r).value \in Seq(T)

\* One more operation in front gives its part in front.
LEMMA ValuesCons ==
  ASSUME NEW T, NEW base, NEW R, NEW op \in R, NEW ops \in Seq(R), Parted(base, R, T)
  PROVE  /\ Values(base, ops) \in Seq(Seq(T))
         /\ FlattenSeq(Values(base, Foremost(op, ops))) = Part(base, op).value \o FlattenSeq(Values(base, ops))
<1> DEFINE v == Part(base, op).value
           vs == Values(base, ops)
           all == <<op>> \o ops
           one == <<v>>
<1>1. v \in Seq(T) /\ vs \in Seq(Seq(T)) /\ Len(vs) = Len(ops) /\ \A i \in 1 .. Len(ops) : vs[i] = Part(base, ops[i]).value
  BY DEF Values, Parted
<1>2. /\ all \in Seq(R) /\ Len(all) = Len(ops) + 1 /\ all[1] = op
      /\ \A i \in 1 .. Len(ops) : all[i + 1] = ops[i]
  OBVIOUS
<1> HIDE DEF v, vs, all
<1>3. one \in Seq(Seq(T)) /\ Len(one) = 1 /\ one[1] = v
  BY <1>1
<1>4. one \o vs \in Seq(Seq(T)) /\ Len(one \o vs) = 1 + Len(vs)
      /\ \A i \in 1 .. 1 + Len(vs) : (one \o vs)[i] = IF i <= 1 THEN one[i] ELSE vs[i - 1]
  BY <1>1, <1>3, ConcatProperties
<1>5. Values(base, all) = one \o vs
  <2> DEFINE x == Values(base, all)
             y == one \o vs
  <2>1. /\ x \in Seq(Seq(T)) /\ Len(x) = Len(all)
        /\ \A i \in 1 .. Len(all) : x[i] = Part(base, all[i]).value
    BY <1>2 DEF Values, Parted
  <2>2. ASSUME NEW i \in 1 .. Len(all) PROVE x[i] = y[i]
    <3>1. CASE i = 1
      <4>1. y[1] = one[1]
        BY <1>1, <1>4
      <4>2. QED
        BY <1>2, <1>3, <2>1, <3>1, <4>1 DEF v
    <3>2. CASE i # 1
      <4>1. i - 1 \in 1 .. Len(ops) /\ (i - 1) + 1 = i
        BY <1>2, <3>2
      <4>2. x[i] = Part(base, ops[i - 1]).value
        BY <1>2, <2>1, <4>1
      <4>3. i \in 1 .. 1 + Len(vs) /\ ~ (i <= 1)
        BY <1>1, <4>1
      <4>4. y[i] = vs[i - 1]
        BY <1>4, <4>3
      <4>5. QED
        BY <1>1, <4>1, <4>2, <4>4
    <3>3. QED
      BY <3>1, <3>2
  <2>3. Len(x) = Len(y)
    BY <1>1, <1>2, <1>4, <2>1
  <2> HIDE DEF x, y
  <2>4. x = y
    BY <1>4, <2>1, <2>2, <2>3, SeqEqual DEF y
  <2>5. QED
    BY <2>4 DEF x, y
<1>6. FlattenSeq(one \o vs) = FlattenSeq(one) \o FlattenSeq(vs)
  <2> HIDE DEF one
  <2>1. QED
    BY <1>1, <1>3, FlattenConcat
<1>7. FlattenSeq(one) = v
  <2> DEFINE none == << >>
  <2>1. none \in Seq(Seq(T)) /\ Append(none, v) = one /\ none \o v = v /\ FlattenSeq(none) = none
    BY <1>1, FlattenEmpty
  <2> HIDE DEF none, one
  <2>2. FlattenSeq(Append(none, v)) = FlattenSeq(none) \o v
    BY <1>1, <2>1, FlattenAppend
  <2>3. QED
    BY <2>1, <2>2
<1>8. QED
  BY <1>1, <1>5, <1>6, <1>7 DEF v, vs, all, Foremost

\* A delta gives the target back on the base it was computed from.
LEMMA BinaryRight ==
  ASSUME NEW T, NEW base \in Seq(T), NEW target \in Seq(T)
  PROVE  apply_binary_delta(BinaryDelta(base, target), base) = Done(target)
<1> DEFINE n == Len(target)
           op == [p \in 0 .. n - 1 |-> OpAt(base, target, p)]
           jump == [p \in 0 .. n - 1 |-> p + Covers(OpAt(base, target, p))]
           R == {OpAt(base, target, p) : p \in 0 .. n - 1}
           Solves(F) ==
             F = [pos \in 0 .. n |->
                    IF pos = n THEN << >>
                    ELSE <<OpAt(base, target, pos)>> \o F[pos + Covers(OpAt(base, target, pos))]]
           Ops == CHOOSE F : Solves(F)
           delta == BinaryDelta(base, target)
<1>0. n = Len(target)
  OBVIOUS
<1>1. n \in Nat
  OBVIOUS
<1> HIDE DEF n
<1>2. ASSUME NEW p \in 0 .. n - 1
      PROVE  /\ jump[p] \in 0 .. n /\ p < jump[p] /\ op[p] \in R
             /\ Part(base, op[p]) = Done(Slice(target, p, jump[p]))
             /\ Slice(target, p, jump[p]) \in Seq(T)
             /\ Slice(target, p, jump[p]) \o Slice(target, jump[p], n) = Slice(target, p, n)
  <2> DEFINE o == OpAt(base, target, p)
             j == p + Covers(o)
  <2>1. Covers(o) \in Nat /\ p < j /\ j <= n /\ Part(base, o) = Done(Slice(target, p, j))
    <3> DEFINE L == Len(target)
    <3>1. n = L /\ p \in 0 .. L - 1
      BY <1>0
    <3>2. Covers(o) \in Nat /\ p < j /\ j <= L /\ Part(base, o) = Done(Slice(target, p, j))
      BY <3>1, OpIs
    <3>3. QED
      BY <3>1, <3>2
  <2>2. jump[p] = j /\ op[p] = o /\ o \in R
    OBVIOUS
  <2> HIDE DEF o, jump, op, R
  <2>3. Within(target, p, j) /\ j \in 0 .. n
    BY <1>0, <1>1, <2>1 DEF Within
  <2> HIDE DEF j
  <2>4. Slice(target, p, j) \in Seq(T)
    BY <2>3, SliceIs
  <2>5. Slice(target, p, j) \o Slice(target, j, n) = Slice(target, p, n)
    <3>2. Slice(target, p, j) \o Slice(target, j, n) = Slice(target, p, n)
      <4> DEFINE x == Slice(target, p, j)
                 y == Slice(target, j, n)
                 z == Slice(target, p, n)
      <4>1. Within(target, j, n) /\ Within(target, p, n)
        BY <1>0, <1>1, <2>1, <2>3 DEF Within
      <4>0. Within(target, p, j)
        BY <2>3
      <4>2. x \in Seq(T) /\ Len(x) = j - p /\ \A i \in 1 .. j - p : x[i] = target[p + i]
        BY <4>0, SliceIs
      <4>3. y \in Seq(T) /\ Len(y) = n - j /\ \A i \in 1 .. n - j : y[i] = target[j + i]
        BY <4>1, SliceIs
      <4>4. z \in Seq(T) /\ Len(z) = n - p /\ \A i \in 1 .. n - p : z[i] = target[p + i]
        BY <4>1, SliceIs
      <4> HIDE DEF x, y, z
      <4>5. x \o y \in Seq(T) /\ Len(x \o y) = Len(x) + Len(y)
            /\ \A i \in 1 .. Len(x) + Len(y) : (x \o y)[i] = IF i <= Len(x) THEN x[i] ELSE y[i - Len(x)]
        BY <4>2, <4>3, ConcatProperties
      <4>6. ASSUME NEW i \in 1 .. n - p PROVE (x \o y)[i] = z[i]
        <5>1. z[i] = target[p + i]
          BY <4>4
        <5>2. CASE i <= j - p
          <6>1. i \in 1 .. j - p /\ i \in 1 .. Len(x) + Len(y)
            BY <1>1, <2>3, <4>2, <4>3, <5>2
          <6>2. (x \o y)[i] = x[i]
            BY <4>2, <4>5, <5>2, <6>1
          <6>3. QED
            BY <4>2, <5>1, <6>1, <6>2
        <5>3. CASE ~ (i <= j - p)
          <6>1. i - (j - p) \in 1 .. n - j /\ i \in 1 .. Len(x) + Len(y) /\ j + (i - (j - p)) = p + i
            BY <1>1, <2>3, <4>2, <4>3, <5>3
          <6>2. (x \o y)[i] = y[i - (j - p)]
            BY <4>2, <4>5, <5>3, <6>1
          <6>3. y[i - (j - p)] = target[j + (i - (j - p))]
            BY <4>3, <6>1
          <6>4. QED
            BY <5>1, <6>1, <6>2, <6>3
        <5>4. QED
          BY <5>2, <5>3
      <4>7. Len(x \o y) = Len(z) /\ Len(z) = n - p
        BY <1>1, <2>3, <4>2, <4>3, <4>4, <4>5
      <4>8. x \o y = z
        BY <4>4, <4>5, <4>6, <4>7, SeqEqual
      <4>9. QED
        BY <4>8 DEF x, y, z
    <3>3. QED
      BY <3>2
  <2>6. QED
    BY <2>1, <2>2, <2>3, <2>4, <2>5
<1>3. Descends(n, R, op, jump)
  <2> HIDE DEF op, jump, R
  <2>1. SUFFICES ASSUME NEW p \in 0 .. n - 1
                 PROVE  op[p] \in R /\ jump[p] \in Nat /\ p < jump[p] /\ jump[p] <= n
    BY DEF Descends
  <2> DEFINE j == jump[p]
  <2>2. op[p] \in R /\ j \in 0 .. n /\ p < j
    BY <1>2
  <2> HIDE DEF j
  <2>3. j \in Nat /\ j <= n
    BY <1>1, <2>2
  <2>4. QED
    BY <2>2, <2>3 DEF j
<1>4. \E F : Solves(F)
  <2> HIDE DEF op, jump, R
  <2>0. PICK F : Descent(n, R, op, jump, F)
    BY <1>1, <1>3, DescentExists
  <2>1. /\ F \in [0 .. n -> Seq(R)]
        /\ \A p \in 0 .. n : F[p] = IF p = n THEN << >> ELSE <<op[p]>> \o F[jump[p]]
    BY <2>0 DEF Descent
  <2>2. \A p \in 0 .. n : p # n => op[p] = OpAt(base, target, p) /\ jump[p] = p + Covers(OpAt(base, target, p))
    BY <1>1 DEF op, jump
  <2>3. Solves(F)
    BY <2>1, <2>2
  <2> HIDE DEF Solves
  <2>4. QED
    BY <2>3
<1>5. Solves(Ops)
  <2> HIDE DEF Solves
  <2>1. QED
    BY <1>4, Zenon
<1>6. delta.ops = Ops[0] /\ delta.original_len = Len(base) /\ delta.target_len = n
  <2>1. delta = [form |-> "binary", original_len |-> Len(base), target_len |-> n, ops |-> Ops[0]]
    BY Zenon DEF BinaryDelta, n
  <2> HIDE DEF delta, Ops
  <2>2. QED
    BY <2>1
<1>7. \A p \in 0 .. n : Ops[p] = IF p = n THEN << >> ELSE <<op[p]>> \o Ops[jump[p]]
  <2> HIDE DEF Ops
  <2>1. \A p \in 0 .. n : p # n => op[p] = OpAt(base, target, p) /\ jump[p] = p + Covers(OpAt(base, target, p))
    BY <1>1
  <2>2. QED
    BY <1>5, <2>1
<1> HIDE DEF Ops, Solves, op, jump, R, delta
<1>8. \A r \in R : Part(base, r).ok /\ Part(base, r).value \in Seq(T)
  <2>1. SUFFICES ASSUME NEW p \in 0 .. n - 1 PROVE Part(base, op[p]).ok /\ Part(base, op[p]).value \in Seq(T)
    BY DEF R, op
  <2> DEFINE v == Slice(target, p, jump[p])
  <2>2. Part(base, op[p]) = Done(v) /\ v \in Seq(T)
    BY <1>2
  <2> HIDE DEF v
  <2>3. QED
    BY <2>2 DEF Done
<1> DEFINE Good(p) == /\ Ops[p] \in Seq(R)
                      /\ FlattenSeq(Values(base, Ops[p])) = Slice(target, p, n)
           K == {k \in 0 .. n : \A p \in n - k .. n : Good(p)}
<1>9. 0 \in K
  <2>0. Slice(target, n, n) = << >>
    <3> DEFINE s == Slice(target, n, n)
    <3>1. Within(target, n, n) /\ n - n = 0
      BY <1>0, <1>1 DEF Within
    <3>2. Within(target, n, n)
      BY <3>1
    <3>3. s \in Seq(T) /\ Len(s) = n - n
      BY <3>2, SliceIs
    <3> HIDE DEF s
    <3>4. s = << >>
      BY <3>1, <3>3
    <3>5. QED
      BY <3>4 DEF s
  <2>1. Ops[n] = << >> /\ Slice(target, n, n) = << >>
    <3>1. n \in 0 .. n
      BY <1>1
    <3>2. QED
      BY <1>7, <2>0, <3>1
  <2>2. Values(base, << >>) = << >>
    BY DEF Values
  <2>3. << >> \in Seq(R)
    OBVIOUS
  <2>4. Good(n)
    BY <2>1, <2>2, <2>3, FlattenEmpty
  <2> HIDE DEF Good
  <2>5. \A p \in n - 0 .. n : p = n
    BY <1>1
  <2>6. QED
    BY <1>1, <2>4, <2>5
<1>10. ASSUME NEW k \in 0 .. n, k \in K, k < n PROVE k + 1 \in K
  <2> DEFINE p == n - (k + 1)
  <2>1. p \in 0 .. n - 1 /\ p # n /\ p \in 0 .. n /\ n - k = p + 1
    BY <1>1, <1>10
  <2>2. jump[p] \in n - k .. n
    <3> DEFINE j == jump[p]
    <3>1. j \in 0 .. n /\ p < j
      BY <1>2, <2>1
    <3> HIDE DEF j, p
    <3>2. j \in n - k .. n
      BY <1>1, <2>1, <3>1
    <3>3. QED
      BY <3>2 DEF j
  <2>3. Good(jump[p])
    BY <1>10, <2>2
  <2>4. \A q \in n - (k + 1) .. n : q = p \/ q \in n - k .. n
    BY <1>1, <2>1
  <2> HIDE DEF p
  <2>5. Ops[p] = <<op[p]>> \o Ops[jump[p]] /\ op[p] \in R /\ Ops[jump[p]] \in Seq(R)
    BY <1>2, <1>7, <2>1, <2>3
  <2>6. FlattenSeq(Values(base, Ops[p])) = Part(base, op[p]).value \o FlattenSeq(Values(base, Ops[jump[p]]))
    <3> DEFINE o == op[p]
               rest == Ops[jump[p]]
    <3>1. o \in R /\ rest \in Seq(R) /\ \A r \in R : Part(base, r).value \in Seq(T)
      BY <1>8, <2>5
    <3> HIDE DEF o, rest
    <3>2. FlattenSeq(Values(base, Foremost(o, rest))) = Part(base, o).value \o FlattenSeq(Values(base, rest))
      <4>1. Parted(base, R, T)
        BY <3>1 DEF Parted
      <4>2. o \in R /\ rest \in Seq(R)
        BY <3>1
      <4>3. QED
        BY <4>1, <4>2, ValuesCons
    <3>3. QED
      BY <2>5, <3>2 DEF o, rest, Foremost
  <2>7. Part(base, op[p]).value = Slice(target, p, jump[p])
    <3> DEFINE v == Slice(target, p, jump[p])
    <3>1. Part(base, op[p]) = Done(v)
      BY <1>2, <2>1
    <3> HIDE DEF v
    <3>2. Part(base, op[p]).value = v
      BY <3>1 DEF Done
    <3>3. QED
      BY <3>2 DEF v
  <2>8. Good(p)
    <3>1. Ops[p] \in Seq(R)
      BY <2>5
    <3>2. FlattenSeq(Values(base, Ops[p])) = Slice(target, p, n)
      BY <1>2, <2>1, <2>3, <2>6, <2>7
    <3>3. QED
      BY <3>1, <3>2
  <2> HIDE DEF Good
  <2>9. \A q \in n - (k + 1) .. n : Good(q)
    BY <1>10, <2>4, <2>8
  <2>10. k + 1 \in 0 .. n
    BY <1>1, <1>10
  <2>11. QED
    BY <2>9, <2>10
<1>11. Good(0)
  <2> HIDE DEF K, Good
  <2>1. 0 .. n \subseteq K
    BY <1>1, <1>9, <1>10, IntervalInduction
  <2>2. n \in K /\ 0 \in n - n .. n
    BY <1>1, <2>1
  <2>3. QED
    BY <2>2 DEF K
<1>12. Slice(target, 0, n) = target
  <2> DEFINE s == Slice(target, 0, n)
             z == 0
  <2>1. Within(target, z, n) /\ n - z = n /\ \A i \in 1 .. n : z + i = i
    BY <1>0, <1>1 DEF Within
  <2> HIDE DEF z
  <2>2. s \in Seq(T) /\ Len(s) = n /\ \A i \in 1 .. n : s[i] = target[i]
    <3>1. Slice(target, z, n) \in Seq(T) /\ Len(Slice(target, z, n)) = n - z
          /\ \A i \in 1 .. n - z : Slice(target, z, n)[i] = target[z + i]
      BY <2>1, SliceIs
    <3>2. s = Slice(target, z, n)
      BY DEF z
    <3> HIDE DEF s
    <3>3. QED
      BY <2>1, <3>1, <3>2
  <2> HIDE DEF s
  <2>3. s = target
    BY <1>0, <2>2, SeqEqual
  <2>4. QED
    BY <2>3 DEF s
<1> DEFINE ops == Ops[0]
           parts == [i \in DOMAIN ops |-> Part(base, ops[i])]
<1>13. ops \in Seq(R) /\ FlattenSeq(Values(base, ops)) = target
  BY <1>11, <1>12
<1> HIDE DEF ops
<1>14. \A i \in DOMAIN parts : parts[i].ok
  BY <1>8, <1>13
<1>15. [i \in DOMAIN parts |-> parts[i].value] = Values(base, ops)
  BY DEF Values
<1>16. Len(target) = n
  BY <1>0
<1>17. /\ delta.ops = ops /\ delta.original_len = Len(base) /\ delta.target_len = n
       /\ Done(target).ok /\ Done(target).value = target
  BY <1>6 DEF ops, Done
<1>18. [i \in DOMAIN delta.ops |-> Part(base, delta.ops[i])] = parts
  BY <1>17
<1> HIDE DEF parts
<1>19. apply_binary_delta(delta, base) = Done(target)
  BY <1>13, <1>14, <1>15, <1>16, <1>17, <1>18 DEF apply_binary_delta
<1>20. QED
  BY <1>19 DEF delta
----------------------------------------------------------------------------
(* Deltas of differing places. *)

\* The members of a set of numbers, in ascending order.
Enumerates(S, s) ==
  /\ s \in [1 .. Cardinality(S) -> S]
  /\ Range(s) = S
  /\ \A i, j \in DOMAIN s : i < j => s[i] < s[j]

\* The members of a bounded set of numbers can be put in order.
LEMMA AscendingIs ==
  ASSUME NEW n \in Nat, NEW S \in SUBSET (1 .. n)
  PROVE  IsFiniteSet(S) /\ Enumerates(S, Ascending(S))
<1> DEFINE Upto(k) == S \cap (1 .. k)
           Good(X) == IsFiniteSet(X) /\ \E s : Enumerates(X, s)
           K == {k \in 0 .. n : Good(Upto(k))}
<1>1. 0 \in K
  <2> DEFINE none == {}
             s == [i \in 1 .. 0 |-> 0]
  <2>1. Upto(0) = none
    OBVIOUS
  <2>2. IsFiniteSet(none) /\ Cardinality(none) = 0
    BY FS_EmptySet
  <2>3. Enumerates(none, s)
    BY <2>2 DEF Enumerates, Range
  <2> HIDE DEF s, none
  <2>4. Good(none)
    BY <2>2, <2>3
  <2> HIDE DEF Good
  <2>5. QED
    BY <2>1, <2>4
<1>2. ASSUME NEW k \in 0 .. n, k \in K, k < n PROVE k + 1 \in K
  <2> DEFINE X == Upto(k)
             Y == Upto(k + 1)
             m == Cardinality(X)
  <2>1. IsFiniteSet(X) /\ m \in Nat
    BY <1>2, FS_CardinalityType
  <2>2. PICK s : Enumerates(X, s)
    BY <1>2
  <2>3. k + 1 \in 0 .. n /\ \A i \in Int : i \in 1 .. k + 1 <=> i \in 1 .. k \/ i = k + 1
    BY <1>2
  <2>4. CASE k + 1 \notin S
    <3>1. Y = X
      BY <2>3, <2>4
    <3> HIDE DEF X, Y
    <3>2. Good(Y)
      BY <2>1, <2>2, <3>1
    <3> HIDE DEF Good
    <3>3. QED
      BY <2>3, <3>2 DEF Y
  <2>5. CASE k + 1 \in S
    <3> DEFINE e == k + 1
               t == [i \in 1 .. m + 1 |-> IF i = m + 1 THEN e ELSE s[i]]
    <3>1. Y = X \cup {e} /\ e \notin X /\ \A x \in X : x \in Nat /\ x < e
      BY <2>3, <2>5
    <3>2. s \in [1 .. m -> X] /\ Range(s) = X /\ \A i, j \in 1 .. m : i < j => s[i] < s[j]
      BY <2>2 DEF Enumerates
    <3> HIDE DEF X, Y, e
    <3>3. IsFiniteSet(Y) /\ Cardinality(Y) = m + 1
      BY <2>1, <3>1, FS_AddElement DEF m
    <3> HIDE DEF m
    <3>4. t \in [1 .. m + 1 -> Y] /\ t[m + 1] = e /\ \A i \in 1 .. m : t[i] = s[i] /\ i # m + 1
      <4>1. \A i \in 1 .. m + 1 : i = m + 1 \/ i \in 1 .. m
        BY <2>1
      <4>2. \A i \in 1 .. m : i \in 1 .. m + 1 /\ i # m + 1
        BY <2>1
      <4>3. m + 1 \in 1 .. m + 1
        BY <2>1
      <4>4. QED
        BY <3>1, <3>2, <4>1, <4>2, <4>3
    <3> HIDE DEF t
    <3>5. Range(t) = Y
      <4>1. \A x \in X : \E i \in 1 .. m : s[i] = x
        BY <3>2 DEF Range
      <4>2. \A i \in 1 .. m : i \in 1 .. m + 1
        BY <2>1
      <4>3. m + 1 \in 1 .. m + 1
        BY <2>1
      <4>4. \A x \in Y : \E i \in 1 .. m + 1 : t[i] = x
        BY <3>1, <3>4, <4>1, <4>2, <4>3
      <4>5. QED
        BY <3>4, <4>4 DEF Range
    <3>6. \A i, j \in 1 .. m + 1 : i < j => t[i] < t[j]
      <4>1. SUFFICES ASSUME NEW i \in 1 .. m + 1, NEW j \in 1 .. m + 1, i < j PROVE t[i] < t[j]
        OBVIOUS
      <4>2. i \in 1 .. m
        BY <2>1, <4>1
      <4>3. CASE j = m + 1
        BY <3>1, <3>2, <3>4, <4>2, <4>3
      <4>4. CASE j # m + 1
        <5>1. j \in 1 .. m
          BY <2>1, <4>4
        <5>2. QED
          BY <3>2, <3>4, <4>1, <4>2, <5>1
      <4>5. QED
        BY <4>3, <4>4
    <3>7. Enumerates(Y, t)
      BY <3>3, <3>4, <3>5, <3>6 DEF Enumerates
    <3>8. Good(Y)
      BY <3>3, <3>7
    <3> HIDE DEF Good
    <3>9. QED
      BY <2>3, <3>8 DEF Y
  <2>6. QED
    BY <2>4, <2>5
<1>3. Good(S)
  <2> HIDE DEF K
  <2>1. 0 .. n \subseteq K
    BY <1>1, <1>2, IntervalInduction
  <2>2. n \in K /\ Upto(n) = S
    <3>1. n \in 0 .. n
      OBVIOUS
    <3>2. n \in K
      BY <2>1, <3>1
    <3>3. QED
      BY <3>2
  <2> HIDE DEF Good, Upto
  <2>3. QED
    BY <2>2 DEF K
<1>4. Enumerates(S, Ascending(S))
  <2> DEFINE Q(s) == Range(s) = S /\ \A i, j \in DOMAIN s : i < j => s[i] < s[j]
             P == [1 .. Cardinality(S) -> S]
             c == CHOOSE s \in P : Q(s)
  <2>1. \E s \in P : Q(s)
    BY <1>3 DEF Enumerates
  <2>2. Ascending(S) = c
    BY Zenon DEF Ascending
  <2>3. c \in P /\ Q(c)
    <3> HIDE DEF P, Q
    <3>1. QED
      BY <2>1, Zenon
  <2>4. QED
    BY <2>2, <2>3 DEF Enumerates
<1>5. QED
  BY <1>3, <1>4

\* The exclusive or of two tokens turns the one into the other.
LEMMA XorUndone ==
  ASSUME NEW a, NEW b, a # b
  PROVE  ApplyXor(a, Xor(a, b)) = b
<1> DEFINE x == {a, b}
<1>1. Cardinality(x) = 2
  <2> DEFINE y == {a}
  <2>1. IsFiniteSet(y) /\ Cardinality(y) = 1 /\ b \notin y /\ x = y \cup {b}
    BY FS_Singleton
  <2> HIDE DEF x, y
  <2>2. Cardinality(x) = Cardinality(y) + 1
    BY <2>1, FS_AddElement
  <2>3. QED
    BY <2>1, <2>2
<1>2. ApplyXor(a, x) = CHOOSE t \in x : t # a
  BY <1>1 DEF ApplyXor
<1>3. \A t : t \in x /\ t # a <=> t = b
  OBVIOUS
<1>4. (CHOOSE t \in x : t # a) = b
  BY <1>3, Zenon
<1>5. QED
  BY <1>2, <1>4 DEF Xor

\* The patches of two versions, and a step of the receiver that applies one.
PatchesOf(base, target) == {[at |-> i, xor |-> Xor(base[i], target[i])] : i \in Differing(base, target)}

\* The bytes while the patches are applied to them.
Patched(T, n) == [1 .. n -> T \cup {"garbled"}]

\* The step of the fold in apply_xor_delta.
PatchStep(A, R) == [x \in A \X R |-> Patch(x[1], x[2])]

\* A patch keeps the bytes of their type.
LEMMA PatchStepIs ==
  ASSUME NEW T, NEW n \in Nat, NEW base \in [1 .. n -> T], NEW target \in [1 .. n -> T]
  PROVE  PatchStep(Patched(T, n), PatchesOf(base, target)) \in Steps(Patched(T, n), PatchesOf(base, target))
<1> DEFINE A == Patched(T, n)
           R == PatchesOf(base, target)
<1>1. ASSUME NEW x \in A, NEW p \in R PROVE Patch(x, p) \in A
  <2>1. PICK i \in Differing(base, target) : p = [at |-> i, xor |-> Xor(base[i], target[i])]
    BY DEF PatchesOf
  <2>2. i \in 1 .. n /\ base[i] # target[i] /\ base[i] \in T /\ target[i] \in T
    BY DEF Differing
  <2> DEFINE both == Xor(base[i], target[i])
             v == ApplyXor(x[i], both)
  <2>3. p.at = i /\ p.xor = both
    BY <2>1
  <2>4. v \in T \cup {"garbled"}
    <3>1. \E t \in both : t # x[i]
      BY <2>2 DEF Xor
    <3>2. (CHOOSE t \in both : t # x[i]) \in both
      BY <3>1, Zenon
    <3>3. both \subseteq T
      BY <2>2 DEF Xor
    <3> HIDE DEF both
    <3>4. QED
      BY <3>2, <3>3 DEF ApplyXor
  <2>5. Patch(x, p) = [x EXCEPT ![i] = v]
    BY <2>3 DEF Patch
  <2> HIDE DEF v
  <2>6. QED
    BY <2>2, <2>4, <2>5 DEF Patched
<1> HIDE DEF A, R
<1>2. PatchStep(A, R) \in Steps(A, R)
  BY <1>1 DEF PatchStep, Steps
<1>3. QED
  BY <1>2 DEF A, R

\* apply_xor_delta applies one patch after the other.
LEMMA PatchesFold ==
  ASSUME NEW T, NEW n \in Nat, NEW base \in [1 .. n -> T], NEW target \in [1 .. n -> T],
         NEW seq \in Seq(PatchesOf(base, target))
  PROVE  FoldLeft(Patch, base, seq) =
           Result(PatchStep(Patched(T, n), PatchesOf(base, target)), Patched(T, n), base, seq)
<1> DEFINE A == Patched(T, n)
           R == PatchesOf(base, target)
           f == PatchStep(A, R)
           Solves(h) ==
             h = [s \in SUBSET DOMAIN seq |->
                    IF s = {} THEN base ELSE Patch(h[s \ {Max(s)}], seq[Max(s)])]
           it == CHOOSE h : Solves(h)
<1>1. f \in Steps(A, R) /\ base \in A /\ seq \in Seq(R)
  BY PatchStepIs DEF Patched
<1>2. FoldLeft(Patch, base, seq) = it[DOMAIN seq]
  BY Zenon DEF FoldLeft, MapThenFoldSet
<1>3. \A a \in A, x \in R : f[<<a, x>>] = Patch(a, x)
  BY DEF PatchStep
<1> HIDE DEF A, R, f
<1>4. PICK h : PeelsOf(f, A, R, base, seq, h)
  BY <1>1, PeelOfExists
<1>5. Solves(h)
  BY <1>3, <1>4 DEF PeelsOf
<1>6. Solves(it)
  <2> HIDE DEF Solves
  <2>1. QED
    BY <1>5, Zenon
<1> HIDE DEF it
<1>7. it[{}] = base
  BY <1>6
<1>8. ASSUME NEW d \in SUBSET DOMAIN seq, d # {}, it[d \ {Max(d)}] \in A
      PROVE  it[d] = f[<<it[d \ {Max(d)}], seq[Max(d)]>>]
  <2>1. it[d] = Patch(it[d \ {Max(d)}], seq[Max(d)])
    BY <1>6, <1>8
  <2>2. seq[Max(d)] \in R
    BY <1>4, <1>8 DEF PeelsOf
  <2>3. QED
    BY <1>3, <1>8, <2>1, <2>2
<1>9. PeelsTo(f, A, base, seq, it)
  BY <1>7, <1>8 DEF PeelsTo
<1>10. it[DOMAIN seq] = Result(f, A, base, seq)
  BY <1>1, <1>9, PeelIsResult
<1>11. QED
  BY <1>2, <1>10 DEF A, R, f

\* The patches give the target back on the base they were computed from, when they
\* are few enough for their number to be sent.
LEMMA XorRight ==
  ASSUME NEW T, NEW base \in Seq(T), NEW target \in Seq(T), Len(base) = Len(target),
         Cardinality(Differing(base, target)) < PatchModulus
  PROVE  apply_xor_delta(XorDelta(base, target), base) = Done(target)
<1> DEFINE n == Len(base)
           S == Differing(base, target)
           places == Ascending(S)
           m == Cardinality(S)
           patches == [k \in 1 .. m |-> [at |-> places[k], xor |-> Xor(base[places[k]], target[places[k]])]]
           A == Patched(T, n)
           R == PatchesOf(base, target)
           f == PatchStep(A, R)
           g == [k \in 0 .. m |-> [i \in 1 .. n |-> IF \E j \in 1 .. k : places[j] = i THEN target[i] ELSE base[i]]]
<1>1. n \in Nat /\ base \in [1 .. n -> T] /\ target \in [1 .. n -> T] /\ S \in SUBSET (1 .. n)
  BY DEF Differing
<1>2. IsFiniteSet(S) /\ Enumerates(S, places)
  <2> HIDE DEF S, n
  <2>1. QED
    BY <1>1, AscendingIs
<1>3. m \in Nat /\ places \in [1 .. m -> S] /\ Range(places) = S /\ \A i, j \in 1 .. m : i < j => places[i] < places[j]
  BY <1>2, FS_CardinalityType DEF Enumerates
<1>4. XorDelta(base, target) = [form |-> "xor", original_len |-> n, patches |-> patches]
  <2>1. Len(places) = m
    <3> HIDE DEF places, S, m
    <3>1. QED
      BY <1>3
  <2>2. m % PatchModulus = m
    <3> HIDE DEF m
    <3>1. m < PatchModulus
      BY DEF m
    <3>2. QED
      BY <1>3, <3>1, CompressionAssumption
  <2>3. Len(Ascending(Differing(base, target))) % PatchModulus = m
    BY <2>1, <2>2
  <2>4. QED
    BY <2>3, Zenon DEF XorDelta
<1>5. apply_xor_delta(XorDelta(base, target), base) = Done(FoldLeft(Patch, base, patches))
  <2> DEFINE d == XorDelta(base, target)
  <2>1. d.original_len = n /\ d.patches = patches
    <3> HIDE DEF patches, n
    <3>1. QED
      BY <1>4
  <2> HIDE DEF patches
  <2>2. QED
    BY <2>1, Zenon DEF apply_xor_delta
<1>6. patches \in Seq(R) /\ Len(patches) = m
  <2>1. \A k \in 1 .. m : places[k] \in Differing(base, target)
    BY <1>3
  <2> HIDE DEF places, S, m
  <2>2. \A k \in 1 .. m : patches[k] \in R
    BY <2>1 DEF PatchesOf
  <2> HIDE DEF R
  <2>3. QED
    BY <1>3, <2>2
<1>7. \A k \in 1 .. m : patches[k].at = places[k] /\ patches[k].xor = Xor(base[places[k]], target[places[k]])
  OBVIOUS
<1>8. f \in Steps(A, R) /\ base \in A /\ FoldLeft(Patch, base, patches) = Result(f, A, base, patches)
  <2> HIDE DEF patches, n
  <2>1. FoldLeft(Patch, base, patches) = Result(f, A, base, patches)
    BY <1>1, <1>6, PatchesFold DEF R
  <2>2. f \in Steps(A, R)
    BY <1>1, PatchStepIs
  <2>3. QED
    BY <1>1, <2>1, <2>2 DEF Patched
<1>9. ASSUME NEW a \in A, NEW x \in R PROVE f[<<a, x>>] = Patch(a, x)
  BY DEF PatchStep
<1> HIDE DEF patches, places, S, m, f, R, n
<1>10. g \in [0 .. m -> A]
  <2>1. ASSUME NEW k \in 0 .. m PROVE g[k] \in [1 .. n -> T \cup {"garbled"}]
    BY <1>1
  <2> HIDE DEF g
  <2>2. \A k \in 0 .. m : g[k] \in A
    BY <2>1 DEF A, Patched
  <2> HIDE DEF A
  <2>3. g = [k \in 0 .. m |-> g[k]]
    BY DEF g
  <2>4. QED
    BY <2>2, <2>3
<1>11. g[0] = base
  <2>1. 0 \in 0 .. m /\ 1 .. 0 = {}
    BY <1>3
  <2>2. g[0] = [i \in 1 .. n |-> base[i]]
    BY <2>1
  <2>3. QED
    BY <1>1, <2>2
<1>12. ASSUME NEW k \in 1 .. m PROVE g[k] = Patch(g[k - 1], patches[k])
  <2> DEFINE p == places[k]
             v == g[k - 1]
             w == g[k]
  <2>1. p \in 1 .. n /\ base[p] # target[p]
    BY <1>1, <1>3 DEF S, Differing
  <2>2. k - 1 \in 0 .. m /\ k \in 0 .. m /\ \A j \in 1 .. m : j \in 1 .. k <=> j \in 1 .. k - 1 \/ j = k
    BY <1>3
  <2>3. \A j \in 1 .. k - 1 : j \in 1 .. m /\ places[j] # p
    <3>1. SUFFICES ASSUME NEW j \in 1 .. k - 1 PROVE j \in 1 .. m /\ places[j] # p
      OBVIOUS
    <3>2. j \in 1 .. m /\ j < k
      BY <1>3
    <3>3. places[j] < places[k] /\ places[j] \in Nat /\ places[k] \in Nat
      <4>1. places[j] < places[k]
        BY <1>3, <3>2
      <4>2. places[j] \in 1 .. n /\ places[k] \in 1 .. n
        BY <1>1, <1>3, <3>2
      <4>3. QED
        BY <4>1, <4>2
    <3>4. QED
      BY <3>2, <3>3
  <2>4. v = [i \in 1 .. n |-> IF \E j \in 1 .. k - 1 : places[j] = i THEN target[i] ELSE base[i]]
    BY <2>2
  <2>5. w = [i \in 1 .. n |-> IF \E j \in 1 .. k : places[j] = i THEN target[i] ELSE base[i]]
    BY <2>2
  <2> HIDE DEF v, w
  <2>6. v[p] = base[p]
    <3> HIDE DEF p
    <3>1. ~ \E j \in 1 .. k - 1 : places[j] = p
      BY <2>3
    <3>2. QED
      BY <2>1, <2>4, <3>1
  <2>7. Patch(v, patches[k]) = [v EXCEPT ![p] = target[p]]
    <3>1. ApplyXor(base[p], Xor(base[p], target[p])) = target[p]
      <4> DEFINE a == base[p]
                 b == target[p]
      <4>1. a # b
        BY <2>1
      <4> HIDE DEF a, b
      <4>2. ApplyXor(a, Xor(a, b)) = b
        BY <4>1, XorUndone
      <4>3. QED
        BY <4>2 DEF a, b
    <3> HIDE DEF p
    <3>2. patches[k].at = p /\ patches[k].xor = Xor(base[p], target[p])
      BY <1>7 DEF p
    <3>3. QED
      BY <2>6, <3>1, <3>2 DEF Patch
  <2>8. w = [v EXCEPT ![p] = target[p]]
    <3>1. \A i \in 1 .. n : (\E j \in 1 .. k : places[j] = i) <=> (i = p \/ \E j \in 1 .. k - 1 : places[j] = i)
      <4>1. \A j \in 1 .. k : j \in 1 .. m
        BY <1>3
      <4>2. k \in 1 .. k
        BY <1>3
      <4>3. \A j \in 1 .. k : j \in 1 .. k - 1 \/ j = k
        BY <2>2, <4>1
      <4>4. \A j \in 1 .. k - 1 : j \in 1 .. k
        BY <2>2, <2>3
      <4>5. QED
        BY <4>2, <4>3, <4>4
    <3> HIDE DEF p
    <3>2. QED
      BY <2>1, <2>4, <2>5, <3>1
  <2>9. QED
    BY <2>7, <2>8 DEF v, w
<1> HIDE DEF g
<1>13. RunOf(f, A, base, patches, g)
  <2>1. ASSUME NEW k \in 1 .. m PROVE g[k] = f[<<g[k - 1], patches[k]>>]
    <3>1. g[k - 1] \in A /\ patches[k] \in R
      <4>1. k - 1 \in 0 .. m
        BY <1>3
      <4> HIDE DEF A
      <4>2. QED
        BY <1>6, <1>10, <4>1
    <3> HIDE DEF A
    <3>2. QED
      BY <1>9, <1>12, <3>1
  <2> HIDE DEF A
  <2>2. QED
    BY <1>6, <1>10, <1>11, <2>1 DEF RunOf
<1>14. g[m] = target
  <2>1. m \in 0 .. m
    BY <1>3
  <2>2. g[m] = [i \in 1 .. n |-> IF \E j \in 1 .. m : places[j] = i THEN target[i] ELSE base[i]]
    BY <2>1 DEF g
  <2>3. \A i \in 1 .. n : (~ \E j \in 1 .. m : places[j] = i) => base[i] = target[i]
    <3>1. \A i \in S : \E j \in 1 .. m : places[j] = i
      BY <1>3 DEF Range
    <3>2. QED
      BY <1>1, <3>1 DEF S, Differing
  <2>4. QED
    BY <1>1, <2>2, <2>3
<1>15. Result(f, A, base, patches) = target
  <2> HIDE DEF A
  <2>1. Result(f, A, base, patches) = g[Len(patches)]
    BY <1>6, <1>8, <1>13, ResultIs
  <2>2. QED
    BY <1>6, <1>14, <2>1
<1>16. QED
  BY <1>5, <1>8, <1>15

----------------------------------------------------------------------------
(* Payloads. *)

\* What compress_exact_bytes may make of the bytes sent ...
Carries(payload, sent, templates) ==
  \/ payload = Whole(sent.bytes)
  \/ \E dict : payload = [tag |-> "ZstdDict", id |-> dict.id, dict |-> dict, bytes |-> sent.bytes]
  \/ \E id : payload = [tag |-> "Template", id |-> id,
                        slots |-> SlotValues(extract_values(templates[id], sent.bytes).value)]
  \/ payload = DeltaOf(BinaryDelta(sent.base, sent.bytes))
  \/ Len(sent.base) = Len(sent.bytes) /\ payload = DeltaOf(XorDelta(sent.base, sent.bytes))

\* ... and from what.
Versions(sent) == sent.bytes \in Docs /\ (sent.base \in Docs \/ sent.base = << >>)

\* What undoes a payload is there.
Ready(ctx, kind, prev, payload, sent, templates) ==
  CASE payload.tag = "Whole" -> TRUE
    [] payload.tag = "Delta" -> prev = Done(sent.base) /\ Lossless(payload, sent)
    [] payload.tag = "ZstdDict" -> ctx.dicts[kind] = payload.dict
    [] payload.tag = "Template" -> /\ payload.id \in DOMAIN ctx.templates
                                   /\ ctx.templates[payload.id] = templates[payload.id]
                                   /\ Reproduced(templates[payload.id], sent.bytes)

\* The two versions are sequences of one type.
LEMMA VersionsType ==
  ASSUME NEW sent, Versions(sent)
  PROVE  \E T : sent.base \in Seq(T) /\ sent.bytes \in Seq(T)
<1> DEFINE a == sent.base
           b == sent.bytes
           T == Range(a) \cup Range(b)
<1>1. a \in Seq(Range(a)) /\ b \in Seq(Range(b))
  <2>1. b \in Docs
    BY DEF Versions
  <2>2. CASE a \in Docs
    BY <2>1, <2>2, ExactPathAssumption
  <2>3. CASE a = << >>
    BY <2>1, <2>3, ExactPathAssumption
  <2>4. QED
    BY <2>2, <2>3 DEF Versions
<1> HIDE DEF a, b
<1>2. a \in Seq(T) /\ b \in Seq(T)
  <2> DEFINE R == Range(a)
             S == Range(b)
  <2>1. \A i \in 1 .. Len(a) : a[i] \in R \cup S
    <3> HIDE DEF R, S
    <3>1. a \in Seq(R)
      BY <1>1 DEF R
    <3>2. QED
      BY <3>1
  <2>2. \A i \in 1 .. Len(b) : b[i] \in R \cup S
    <3> HIDE DEF R, S
    <3>1. b \in Seq(S)
      BY <1>1 DEF S
    <3>2. QED
      BY <3>1
  <2>3. Len(a) \in Nat /\ a = [i \in 1 .. Len(a) |-> a[i]] /\ Len(b) \in Nat /\ b = [i \in 1 .. Len(b) |-> b[i]]
    BY <1>1
  <2> HIDE DEF R, S
  <2>4. a \in Seq(R \cup S)
    BY <2>1, <2>3
  <2>5. b \in Seq(R \cup S)
    BY <2>2, <2>3
  <2>6. QED
    BY <2>4, <2>5 DEF R, S
<1>3. QED
  BY <1>2 DEF a, b

\* A payload is undone to the bytes it was made of, by what it was made with.
LEMMA UndoneExactly ==
  ASSUME NEW payload, NEW sent, NEW templates, NEW ctx, NEW kind, NEW prev,
         Carries(payload, sent, templates), Versions(sent), Ready(ctx, kind, prev, payload, sent, templates)
  PROVE  decode_compressed_payload(ctx, kind, prev, payload) = {Done(sent.bytes)}
<1>1. CASE payload = Whole(sent.bytes)
  <2>1. payload.tag = "Whole" /\ payload.bytes = sent.bytes
    BY <1>1 DEF Whole
  <2>2. QED
    BY <2>1, Zenon DEF decode_compressed_payload
<1>2. ASSUME NEW dict, payload = [tag |-> "ZstdDict", id |-> dict.id, dict |-> dict, bytes |-> sent.bytes]
      PROVE  decode_compressed_payload(ctx, kind, prev, payload) = {Done(sent.bytes)}
  <2>1. payload.tag = "ZstdDict" /\ payload.id = dict.id /\ payload.dict = dict /\ payload.bytes = sent.bytes
    BY <1>2
  <2>2. ctx.dicts[kind] = dict
    BY <2>1 DEF Ready
  <2>3. Dictionary(ctx, kind, payload.id) = Done(payload.dict)
    BY <2>1, <2>2 DEF Dictionary
  <2>4. QED
    BY <2>1, <2>3 DEF decode_compressed_payload
<1>3. ASSUME NEW id, payload = [tag |-> "Template", id |-> id,
                                slots |-> SlotValues(extract_values(templates[id], sent.bytes).value)]
      PROVE  decode_compressed_payload(ctx, kind, prev, payload) = {Done(sent.bytes)}
  <2> DEFINE keys == templates[id]
             values == extract_values(keys, sent.bytes)
             slots == SlotValues(values.value)
  <2>1. payload.tag = "Template" /\ payload.id = id /\ payload.slots = slots
    <3> HIDE DEF slots
    <3>1. payload = [tag |-> "Template", id |-> id, slots |-> slots]
      BY <1>3 DEF slots
    <3>2. QED
      BY <3>1
  <2>2. id \in DOMAIN ctx.templates /\ ctx.templates[id] = keys /\ Reproduced(keys, sent.bytes)
    BY <2>1 DEF Ready
  <2> HIDE DEF slots, values
  <2>3. values.ok /\ slots = values /\ reconstruct(keys, values.value) = Done(sent.bytes)
    BY <2>2, Zenon DEF Reproduced, slots, values
  <2> HIDE DEF keys
  <2>4. QED
    BY <2>1, <2>2, <2>3 DEF decode_compressed_payload
<1> DEFINE base == sent.base
           bytes == sent.bytes
           Delta(delta) ==
             /\ payload = DeltaOf(delta)
             /\ IF delta.form = "xor" THEN apply_xor_delta(delta, base) = Done(bytes)
                                      ELSE apply_binary_delta(delta, base) = Done(bytes)
<1>4. PICK T : base \in Seq(T) /\ bytes \in Seq(T)
  BY VersionsType
<1>5. ASSUME NEW delta, Delta(delta) PROVE decode_compressed_payload(ctx, kind, prev, payload) = {Done(sent.bytes)}
  <2>1. payload.tag = "Delta" /\ payload.delta = delta
    BY <1>5 DEF DeltaOf
  <2>2. prev = Done(base) /\ ~ Misread(delta)
    BY <2>1 DEF Ready, Lossless
  <2>3. prev.ok /\ prev.value = base
    BY <2>2 DEF Done
  <2>4. QED
    BY <1>5, <2>1, <2>2, <2>3 DEF decode_compressed_payload
<1>6. CASE payload = DeltaOf(BinaryDelta(base, bytes))
  <2> DEFINE delta == BinaryDelta(base, bytes)
  <2>1. delta.form = "binary"
    BY DEF BinaryDelta
  <2>2. apply_binary_delta(delta, base) = Done(bytes)
    <3> HIDE DEF base, bytes
    <3>1. QED
      BY <1>4, BinaryRight
  <2> HIDE DEF delta
  <2>3. Delta(delta)
    BY <1>6, <2>1, <2>2 DEF delta
  <2>4. QED
    BY <1>5, <2>3
<1>7. CASE Len(base) = Len(bytes) /\ payload = DeltaOf(XorDelta(base, bytes))
  <2> DEFINE delta == XorDelta(base, bytes)
  <2>1. delta.form = "xor"
    BY DEF XorDelta
  <2>2. payload.tag = "Delta" /\ payload.delta = delta
    BY <1>7 DEF DeltaOf
  <2>3. Cardinality(Differing(base, bytes)) < PatchModulus
    <3>1. Lossless(payload, sent)
      BY <2>2 DEF Ready
    <3>2. Cardinality({i \in DOMAIN sent.base : sent.base[i] # sent.bytes[i]}) < PatchModulus
      <4> HIDE DEF delta
      <4>1. QED
        BY <2>1, <2>2, <3>1 DEF Lossless
    <3>3. QED
      BY <3>2 DEF Differing
  <2>4. apply_xor_delta(delta, base) = Done(bytes)
    <3> HIDE DEF base, bytes
    <3>1. QED
      BY <1>4, <1>7, <2>3, XorRight
  <2> HIDE DEF delta
  <2>5. Delta(delta)
    BY <1>7, <2>1, <2>4 DEF delta
  <2>6. QED
    BY <1>5, <2>5
<1>8. QED
  BY <1>1, <1>2, <1>3, <1>6, <1>7 DEF Carries

\* The encoder sends a delta only to the version it has, and from that version.
LEMMA EncodedIs ==
  ASSUME NEW ctx, NEW kind, NEW prev, NEW bytes \in Docs, prev = Failed \/ \E x \in Docs : prev = Done(x),
         NEW payload \in Encodings(ctx, kind, prev, bytes),
         NEW sent, sent = [bytes |-> bytes, base |-> OrElse(prev, << >>)]
  PROVE  /\ Versions(sent)
         /\ Carries(payload, sent, ctx.templates)
         /\ payload.tag = "Delta" => prev = Done(sent.base)
<1> DEFINE updates == prev.ok
           id == find_match(ctx, bytes)
           dict == ctx.dicts[kind]
           slots == SlotValues(extract_values(ctx.templates[id], bytes).value)
           way == select_strategy(ctx, kind, updates, bytes)
<1>1. sent.bytes = bytes /\ sent.base = OrElse(prev, << >>)
  OBVIOUS
<1>2. updates \in BOOLEAN /\ (updates => prev = Done(prev.value) /\ prev.value \in Docs)
      /\ (~ updates => prev = Failed)
  <2>1. CASE prev = Failed
    <3>1. prev.ok = FALSE
      BY <2>1 DEF Failed
    <3>2. QED
      BY <2>1, <3>1
  <2>2. ASSUME NEW x \in Docs, prev = Done(x)
        PROVE  prev.ok = TRUE /\ prev = Done(prev.value) /\ prev.value \in Docs
    <3>1. prev.ok = TRUE /\ prev.value = x
      BY <2>2 DEF Done
    <3>2. QED
      BY <2>2, <3>1
  <2>3. QED
    BY <2>1, <2>2
<1>3. Versions(sent) /\ (updates => sent.base = prev.value)
  BY <1>1, <1>2 DEF Versions, OrElse
<1>4. Len(bytes) \in Nat
  <2>1. bytes \in Seq(Range(bytes))
    BY ExactPathAssumption
  <2> DEFINE R == Range(bytes)
  <2> HIDE DEF R
  <2>2. bytes \in Seq(R)
    BY <2>1 DEF R
  <2>3. QED
    BY <2>2
<1>5. way \in {"Whole", "ZstdDict", "Template", "Delta"} /\ (way = "Delta" <=> updates)
  <2> HIDE DEF updates
  <2>1. CASE updates
    BY <2>1 DEF select_strategy
  <2>2. CASE ~ updates
    <3>1. Len(bytes) < SMALL \/ Len(bytes) >= SMALL
      BY <1>4, CompressionAssumption
    <3>2. CASE Len(bytes) < SMALL
      BY <2>2, <3>2 DEF select_strategy
    <3>3. CASE ~ (Len(bytes) < SMALL)
      <4>1. Len(bytes) >= SMALL
        BY <3>1, <3>3
      <4>2. way = IF kind = "Json" /\ find_match(ctx, bytes) # 0 THEN "Template"
                  ELSE IF ctx.dicts[kind] # NoDict THEN "ZstdDict" ELSE "Whole"
        BY <2>2, <3>3, <4>1 DEF select_strategy
      <4>3. QED
        BY <2>2, <4>2
    <3>4. QED
      BY <3>2, <3>3
  <2>3. QED
    BY <1>2, <2>1, <2>2 DEF updates
<1>6. \/ payload = Whole(bytes)
      \/ payload = [tag |-> "ZstdDict", id |-> dict.id, dict |-> dict, bytes |-> bytes]
      \/ payload = [tag |-> "Template", id |-> id, slots |-> slots]
      \/ updates /\ payload = DeltaOf(BinaryDelta(prev.value, bytes))
      \/ updates /\ Len(prev.value) = Len(bytes) /\ payload = DeltaOf(XorDelta(prev.value, bytes))
  <2>1. payload \in Encodings(ctx, kind, prev, bytes)
    OBVIOUS
  <2> DEFINE more == CASE way = "Whole" -> {}
                       [] way = "ZstdDict" -> {[tag |-> "ZstdDict", id |-> dict.id, dict |-> dict, bytes |-> bytes]}
                       [] way = "Template" -> {[tag |-> "Template", id |-> id, slots |-> slots]}
                       [] way = "Delta" ->
                            {DeltaOf(BinaryDelta(prev.value, bytes))} \union
                            (IF Len(prev.value) = Len(bytes) THEN {DeltaOf(XorDelta(prev.value, bytes))} ELSE {})
  <2>2. Encodings(ctx, kind, prev, bytes) = {Whole(bytes)} \union more
    BY DEF Encodings
  <2> HIDE DEF way, slots, id, dict
  <2>3. payload = Whole(bytes) \/ payload \in more
    <3> HIDE DEF more
    <3>1. QED
      BY <2>1, <2>2
  <2>4. CASE payload \in more
    <3>1. CASE way = "Whole"
      BY <2>4, <3>1
    <3>2. CASE way = "ZstdDict"
      BY <2>4, <3>2
    <3>3. CASE way = "Template"
      BY <2>4, <3>3
    <3>4. CASE way = "Delta"
      BY <1>5, <2>4, <3>4
    <3>5. QED
      BY <1>5, <3>1, <3>2, <3>3, <3>4
  <2>5. QED
    BY <2>3, <2>4
<1>7. Carries(payload, sent, ctx.templates)
  <2>1. CASE payload = Whole(bytes)
    BY <1>1, <2>1 DEF Carries
  <2>2. CASE payload = [tag |-> "ZstdDict", id |-> dict.id, dict |-> dict, bytes |-> bytes]
    <3> HIDE DEF dict
    <3>1. QED
      BY <1>1, <2>2 DEF Carries
  <2>3. CASE payload = [tag |-> "Template", id |-> id, slots |-> slots]
    <3> HIDE DEF id
    <3>1. payload = [tag |-> "Template", id |-> id,
                     slots |-> SlotValues(extract_values(ctx.templates[id], sent.bytes).value)]
      BY <1>1, <2>3
    <3>2. QED
      BY <3>1, Zenon DEF Carries
  <2>4. CASE updates /\ payload = DeltaOf(BinaryDelta(prev.value, bytes))
    BY <1>1, <1>3, <2>4, Zenon DEF Carries
  <2>5. CASE updates /\ Len(prev.value) = Len(bytes) /\ payload = DeltaOf(XorDelta(prev.value, bytes))
    BY <1>1, <1>3, <2>5, Zenon DEF Carries
  <2>6. QED
    BY <1>6, <2>1, <2>2, <2>3, <2>4, <2>5
<1>8. ASSUME payload.tag = "Delta" PROVE prev = Done(sent.base)
  <2>1. updates
    <3>1. SUFFICES ASSUME ~ updates PROVE FALSE
      BY <1>2
    <3> HIDE DEF slots, id, dict, updates
    <3>2. payload.tag # "Delta"
      BY <1>6, <3>1 DEF Whole
    <3>3. QED
      BY <1>8, <3>2
  <2>2. QED
    BY <1>2, <1>3, <2>1
<1>9. QED
  BY <1>3, <1>7, <1>8

----------------------------------------------------------------------------
(* The two sides. *)

\* A side with given parts.
SideOf(ctx, versions, bindings, entries) ==
  [ctx |-> ctx, previous_versions |-> versions, source_bindings |-> bindings, entries |-> entries]

\* A side is a record of its four parts.
IsSide(s) == s = SideOf(s.ctx, s.previous_versions, s.source_bindings, s.entries)

\* The parts of a side.
LEMMA SideParts ==
  ASSUME NEW c, NEW p, NEW b, NEW e, NEW s, s = SideOf(c, p, b, e)
  PROVE  IsSide(s) /\ s.ctx = c /\ s.previous_versions = p /\ s.source_bindings = b /\ s.entries = e
BY DEF SideOf, IsSide

\* What assigning to one part of a side makes.
LEMMA SideChange ==
  ASSUME NEW s, IsSide(s), NEW x
  PROVE  /\ [s EXCEPT !.ctx = x] = SideOf(x, s.previous_versions, s.source_bindings, s.entries)
         /\ [s EXCEPT !.previous_versions = x] = SideOf(s.ctx, x, s.source_bindings, s.entries)
         /\ [s EXCEPT !.source_bindings = x] = SideOf(s.ctx, s.previous_versions, x, s.entries)
         /\ [s EXCEPT !.entries = x] = SideOf(s.ctx, s.previous_versions, s.source_bindings, x)
<1>1. PICK c0, p0, b0, e0 : s = SideOf(c0, p0, b0, e0)
  BY DEF IsSide
<1>2. s.ctx = c0 /\ s.previous_versions = p0 /\ s.source_bindings = b0 /\ s.entries = e0
  BY <1>1, SideParts
<1>3. [s EXCEPT !.ctx = x] = SideOf(x, s.previous_versions, s.source_bindings, s.entries)
  BY <1>1, <1>2 DEF SideOf
<1>4. [s EXCEPT !.previous_versions = x] = SideOf(s.ctx, x, s.source_bindings, s.entries)
  BY <1>1, <1>2 DEF SideOf
<1>5. [s EXCEPT !.source_bindings = x] = SideOf(s.ctx, s.previous_versions, x, s.entries)
  BY <1>1, <1>2 DEF SideOf
<1>6. [s EXCEPT !.entries = x] = SideOf(s.ctx, s.previous_versions, s.source_bindings, x)
  BY <1>1, <1>2 DEF SideOf
<1>7. QED
  BY <1>3, <1>4, <1>5, <1>6

\* Dropping an item, with its source binding.
LEMMA SideDrop ==
  ASSUME NEW s, IsSide(s), NEW item
  PROVE  Without(s, item) = SideOf(s.ctx, s.previous_versions, Drop(s.source_bindings, item), Drop(s.entries, item))
<1> DEFINE e == Drop(s.entries, item)
           b == Drop(s.source_bindings, item)
           u == [s EXCEPT !.entries = e]
<1>0. Without(s, item) = [s EXCEPT !.entries = e, !.source_bindings = b]
  BY DEF Without
<1> HIDE DEF e, b
<1>1. u = SideOf(s.ctx, s.previous_versions, s.source_bindings, e)
  BY SideChange
<1>2. [s EXCEPT !.entries = e, !.source_bindings = b] = [u EXCEPT !.source_bindings = b]
  OBVIOUS
<1> HIDE DEF u
<1>3. IsSide(u) /\ u.ctx = s.ctx /\ u.previous_versions = s.previous_versions /\ u.entries = e
  BY <1>1, SideParts
<1>4. [u EXCEPT !.source_bindings = b] = SideOf(s.ctx, s.previous_versions, b, e)
  <2>1. IsSide(u)
    BY <1>3
  <2>2. [u EXCEPT !.source_bindings = b] = SideOf(u.ctx, u.previous_versions, b, u.entries)
    BY <2>1, SideChange
  <2>3. QED
    BY <1>3, <2>2
<1>5. QED
  BY <1>0, <1>2, <1>4 DEF e, b

\* A side that has learnt, and one that has kept a version as well.
Taught(s, c, e) == [s EXCEPT !.ctx = c, !.entries = e]

TaughtKeeping(s, c, p, e) == [s EXCEPT !.ctx = c, !.previous_versions = p, !.entries = e]

\* Learning from an item and storing it.
LEMMA SideLearn ==
  ASSUME NEW s, IsSide(s), NEW c, NEW e
  PROVE  Taught(s, c, e) = SideOf(c, s.previous_versions, s.source_bindings, e)
<1> DEFINE u == [s EXCEPT !.ctx = c]
<1>1. u = SideOf(c, s.previous_versions, s.source_bindings, s.entries)
  BY SideChange
<1>2. Taught(s, c, e) = [u EXCEPT !.entries = e]
  BY DEF Taught
<1> HIDE DEF u
<1>3. IsSide(u) /\ u.ctx = c /\ u.previous_versions = s.previous_versions /\ u.source_bindings = s.source_bindings
  BY <1>1, SideParts
<1>4. [u EXCEPT !.entries = e] = SideOf(c, s.previous_versions, s.source_bindings, e)
  <2>1. IsSide(u)
    BY <1>3
  <2>2. [u EXCEPT !.entries = e] = SideOf(u.ctx, u.previous_versions, u.source_bindings, e)
    BY <2>1, SideChange
  <2>3. QED
    BY <1>3, <2>2
<1>5. QED
  BY <1>2, <1>4

\* Learning from an item, keeping it as the version before the next, and storing it.
LEMMA SideKeep ==
  ASSUME NEW s, IsSide(s), NEW c, NEW p, NEW e
  PROVE  TaughtKeeping(s, c, p, e) = SideOf(c, p, s.source_bindings, e)
<1> DEFINE u == [s EXCEPT !.ctx = c]
           v == [u EXCEPT !.previous_versions = p]
<1>1. u = SideOf(c, s.previous_versions, s.source_bindings, s.entries)
  BY SideChange
<1>2. TaughtKeeping(s, c, p, e) = [v EXCEPT !.entries = e]
  BY DEF TaughtKeeping
<1> HIDE DEF u
<1>3. IsSide(u) /\ u.ctx = c /\ u.source_bindings = s.source_bindings /\ u.entries = s.entries
  BY <1>1, SideParts
<1>4. v = SideOf(c, p, s.source_bindings, s.entries)
  <2>1. IsSide(u)
    BY <1>3
  <2>2. v = SideOf(u.ctx, p, u.source_bindings, u.entries)
    BY <2>1, SideChange
  <2>3. QED
    BY <1>3, <2>2
<1> HIDE DEF v
<1>5. IsSide(v) /\ v.ctx = c /\ v.previous_versions = p /\ v.source_bindings = s.source_bindings
  BY <1>4, SideParts
<1>6. [v EXCEPT !.entries = e] = SideOf(c, p, s.source_bindings, e)
  <2>1. IsSide(v)
    BY <1>5
  <2>2. [v EXCEPT !.entries = e] = SideOf(v.ctx, v.previous_versions, v.source_bindings, e)
    BY <2>1, SideChange
  <2>3. QED
    BY <1>5, <2>2
<1>7. QED
  BY <1>2, <1>6

----------------------------------------------------------------------------
(* What the records under way do to the state of the client. *)

\* What a record does to the version of an item that has been sent without loss,
\* when the client is in step with the server ...
VersionStep(item, x, r, y) ==
  IF r.type = "ExactState" /\ r.item = item
  THEN /\ y = Done(r.sent.bytes)
       /\ Lossless(r.payload, r.sent)
       /\ r.payload.tag = "Delta" => x = Done(r.sent.base)
  ELSE y = x

\* ... and what they all do, one after the other.
VersionPath(item, w, x, z) ==
  \E v : /\ v[0] = x /\ v[Len(w)] = z
         /\ \A k \in 1 .. Len(w) : VersionStep(item, v[k - 1], w[k], v[k])

\* The kind of an item that is bound, or of one that is not.
KindIn(bindings, item) == IF item \in DOMAIN bindings THEN bindings[item] ELSE "Binary"

\* What a record does to the context and the source bindings, as long as the two
\* ends are taught the same ...
ContextStep(x, r, y) ==
  /\ r.type # "BatchEnvelope"
  /\ r.type = "ExactState" =>
       r.kind = KindIn(x[2], r.item) /\ y = <<Learn(x[1], r.kind, r.sent.bytes), x[2]>>
  /\ r.type = "SourceMeta" => y = <<x[1], Put(x[2], r.item, r.kind)>>
  /\ r.type = "Evict" => y = <<x[1], Drop(x[2], r.item)>>
  /\ r.type = "Resync" => y = x /\ x[2] = Nothing
  /\ r.type = "Predictive" => y = x

\* ... and what they all do.
ContextPath(w, x, z) ==
  \E v : /\ v[0] = x /\ v[Len(w)] = z
         /\ \A k \in 1 .. Len(w) : ContextStep(v[k - 1], w[k], v[k])

\* A path goes on with a record that is sent ...
LEMMA VersionSent ==
  ASSUME NEW S, NEW w \in Seq(S), NEW r \in S, NEW item, NEW x, NEW y, NEW z,
         VersionPath(item, w, x, y), VersionStep(item, y, r, z)
  PROVE  VersionPath(item, Append(w, r), x, z)
<1> DEFINE n == Len(w)
           w2 == Append(w, r)
<1>0. n = Len(w)
  OBVIOUS
<1>1. n \in Nat /\ Len(w2) = n + 1 /\ w2[n + 1] = r /\ \A k \in 1 .. n : w2[k] = w[k]
  OBVIOUS
<1> HIDE DEF n, w2
<1>2. PICK v : v[0] = x /\ v[n] = y /\ \A k \in 1 .. n : VersionStep(item, v[k - 1], w[k], v[k])
  BY <1>0 DEF VersionPath
<1> DEFINE u == [k \in 0 .. n + 1 |-> IF k = n + 1 THEN z ELSE v[k]]
<1>3. u[n + 1] = z /\ \A k \in 0 .. n : u[k] = v[k]
  <2>1. n + 1 \in 0 .. n + 1 /\ \A k \in 0 .. n : k \in 0 .. n + 1 /\ k # n + 1
    BY <1>1
  <2>2. QED
    BY <2>1
<1> HIDE DEF u
<1>4. ASSUME NEW k \in 1 .. n + 1 PROVE VersionStep(item, u[k - 1], w2[k], u[k])
  <2>1. CASE k = n + 1
    <3>1. k - 1 = n /\ n \in 0 .. n
      BY <1>1, <2>1
    <3>2. u[k - 1] = y /\ w2[k] = r /\ u[k] = z
      BY <1>1, <1>2, <1>3, <2>1, <3>1
    <3>3. QED
      BY <3>2
  <2>2. CASE k # n + 1
    <3>1. k \in 1 .. n /\ k - 1 \in 0 .. n /\ k \in 0 .. n
      BY <1>1, <2>2
    <3>2. u[k - 1] = v[k - 1] /\ w2[k] = w[k] /\ u[k] = v[k]
      BY <1>1, <1>3, <3>1
    <3>3. QED
      BY <1>2, <3>1, <3>2
  <2>3. QED
    BY <2>1, <2>2
<1>5. u[0] = x
  <2>1. 0 \in 0 .. n
    BY <1>1
  <2>2. QED
    BY <1>2, <1>3, <2>1
<1>6. VersionPath(item, w2, x, z)
  BY <1>1, <1>3, <1>4, <1>5 DEF VersionPath
<1>7. QED
  BY <1>6 DEF w2

\* ... and is shorter by one that is applied.
LEMMA VersionTaken ==
  ASSUME NEW S, NEW w \in Seq(S), w # << >>, NEW item, NEW x, NEW z, VersionPath(item, w, x, z)
  PROVE  \E y : VersionStep(item, x, Head(w), y) /\ VersionPath(item, Tail(w), y, z)
<1> DEFINE n == Len(w)
           w2 == Tail(w)
<1>0. n = Len(w)
  OBVIOUS
<1>1. /\ n \in Nat \ {0} /\ w2 \in Seq(S) /\ Len(w2) = n - 1 /\ Head(w) = w[1]
      /\ \A k \in 1 .. n - 1 : w2[k] = w[k + 1]
  OBVIOUS
<1> HIDE DEF n, w2
<1>2. PICK v : v[0] = x /\ v[n] = z /\ \A k \in 1 .. n : VersionStep(item, v[k - 1], w[k], v[k])
  BY <1>0 DEF VersionPath
<1> DEFINE u == [k \in 0 .. n - 1 |-> v[k + 1]]
<1>3. u[0] = v[1] /\ u[n - 1] = z /\ \A k \in 1 .. n - 1 : u[k - 1] = v[k] /\ u[k] = v[k + 1]
  <2>1. /\ 0 \in 0 .. n - 1 /\ n - 1 \in 0 .. n - 1 /\ (n - 1) + 1 = n /\ 0 + 1 = 1
        /\ \A k \in 1 .. n - 1 : k \in 0 .. n - 1 /\ k - 1 \in 0 .. n - 1 /\ (k - 1) + 1 = k
    BY <1>1
  <2>2. QED
    BY <1>2, <2>1
<1> HIDE DEF u
<1>4. ASSUME NEW k \in 1 .. n - 1 PROVE VersionStep(item, u[k - 1], w2[k], u[k])
  <2>1. k + 1 \in 1 .. n /\ (k + 1) - 1 = k
    BY <1>1
  <2>2. VersionStep(item, v[(k + 1) - 1], w[k + 1], v[k + 1])
    BY <1>2, <2>1
  <2>3. QED
    BY <1>1, <1>3, <2>1, <2>2
<1>5. VersionPath(item, w2, v[1], z)
  BY <1>1, <1>3, <1>4 DEF VersionPath
<1>6. VersionStep(item, x, Head(w), v[1])
  <2>1. 1 \in 1 .. n /\ 1 - 1 = 0
    BY <1>1
  <2>2. VersionStep(item, v[1 - 1], w[1], v[1])
    BY <1>2, <2>1
  <2>3. QED
    BY <1>1, <1>2, <2>1, <2>2
<1>7. QED
  BY <1>5, <1>6 DEF w2

\* Without an exact state of the item under way the two ends have the same version.
LEMMA VersionQuiet ==
  ASSUME NEW S, NEW w \in Seq(S), NEW item, NEW x, NEW z, VersionPath(item, w, x, z),
         \A i \in DOMAIN w : ~ (w[i].type = "ExactState" /\ w[i].item = item)
  PROVE  x = z
<1> DEFINE n == Len(w)
<1>0. n = Len(w) /\ n \in Nat /\ DOMAIN w = 1 .. n
  OBVIOUS
<1> HIDE DEF n
<1>1. PICK v : v[0] = x /\ v[n] = z /\ \A k \in 1 .. n : VersionStep(item, v[k - 1], w[k], v[k])
  BY <1>0 DEF VersionPath
<1>2. \A k \in 1 .. n : v[k] = v[k - 1]
  BY <1>0, <1>1 DEF VersionStep
<1> DEFINE K == {k \in 0 .. n : v[k] = x}
<1>3. 0 \in K
  BY <1>0, <1>1
<1>4. ASSUME NEW k \in 0 .. n, k \in K, k < n PROVE k + 1 \in K
  <2>1. k + 1 \in 1 .. n /\ (k + 1) - 1 = k /\ k + 1 \in 0 .. n
    BY <1>0, <1>4
  <2>2. v[k + 1] = v[(k + 1) - 1]
    BY <1>2, <2>1
  <2>3. QED
    BY <1>4, <2>1, <2>2
<1>5. 0 .. n \subseteq K
  <2> HIDE DEF K
  <2>1. QED
    BY <1>0, <1>3, <1>4, IntervalInduction
<1>6. n \in 0 .. n
  BY <1>0
<1>7. QED
  BY <1>1, <1>5, <1>6

\* The same of the contexts: a path goes on with a record that is sent ...
LEMMA ContextSent ==
  ASSUME NEW S, NEW w \in Seq(S), NEW r \in S, NEW x, NEW y, NEW z,
         ContextPath(w, x, y), ContextStep(y, r, z)
  PROVE  ContextPath(Append(w, r), x, z)
<1> DEFINE n == Len(w)
           w2 == Append(w, r)
<1>0. n = Len(w)
  OBVIOUS
<1>1. n \in Nat /\ Len(w2) = n + 1 /\ w2[n + 1] = r /\ \A k \in 1 .. n : w2[k] = w[k]
  OBVIOUS
<1> HIDE DEF n, w2
<1>2. PICK v : v[0] = x /\ v[n] = y /\ \A k \in 1 .. n : ContextStep(v[k - 1], w[k], v[k])
  BY <1>0 DEF ContextPath
<1> DEFINE u == [k \in 0 .. n + 1 |-> IF k = n + 1 THEN z ELSE v[k]]
<1>3. u[n + 1] = z /\ \A k \in 0 .. n : u[k] = v[k]
  <2>1. n + 1 \in 0 .. n + 1 /\ \A k \in 0 .. n : k \in 0 .. n + 1 /\ k # n + 1
    BY <1>1
  <2>2. QED
    BY <2>1
<1> HIDE DEF u
<1>4. ASSUME NEW k \in 1 .. n + 1 PROVE ContextStep(u[k - 1], w2[k], u[k])
  <2>1. CASE k = n + 1
    <3>1. k - 1 = n /\ n \in 0 .. n
      BY <1>1, <2>1
    <3>2. u[k - 1] = y /\ w2[k] = r /\ u[k] = z
      BY <1>1, <1>2, <1>3, <2>1, <3>1
    <3>3. QED
      BY <3>2
  <2>2. CASE k # n + 1
    <3>1. k \in 1 .. n /\ k - 1 \in 0 .. n /\ k \in 0 .. n
      BY <1>1, <2>2
    <3>2. u[k - 1] = v[k - 1] /\ w2[k] = w[k] /\ u[k] = v[k]
      BY <1>1, <1>3, <3>1
    <3>3. QED
      BY <1>2, <3>1, <3>2
  <2>3. QED
    BY <2>1, <2>2
<1>5. u[0] = x
  <2>1. 0 \in 0 .. n
    BY <1>1
  <2>2. QED
    BY <1>2, <1>3, <2>1
<1>6. ContextPath(w2, x, z)
  BY <1>1, <1>3, <1>4, <1>5 DEF ContextPath
<1>7. QED
  BY <1>6 DEF w2

\* ... and is shorter by one that is applied.
LEMMA ContextTaken ==
  ASSUME NEW S, NEW w \in Seq(S), w # << >>, NEW x, NEW z, ContextPath(w, x, z)
  PROVE  \E y : ContextStep(x, Head(w), y) /\ ContextPath(Tail(w), y, z)
<1> DEFINE n == Len(w)
           w2 == Tail(w)
<1>0. n = Len(w)
  OBVIOUS
<1>1. /\ n \in Nat \ {0} /\ w2 \in Seq(S) /\ Len(w2) = n - 1 /\ Head(w) = w[1]
      /\ \A k \in 1 .. n - 1 : w2[k] = w[k + 1]
  OBVIOUS
<1> HIDE DEF n, w2
<1>2. PICK v : v[0] = x /\ v[n] = z /\ \A k \in 1 .. n : ContextStep(v[k - 1], w[k], v[k])
  BY <1>0 DEF ContextPath
<1> DEFINE u == [k \in 0 .. n - 1 |-> v[k + 1]]
<1>3. u[0] = v[1] /\ u[n - 1] = z /\ \A k \in 1 .. n - 1 : u[k - 1] = v[k] /\ u[k] = v[k + 1]
  <2>1. /\ 0 \in 0 .. n - 1 /\ n - 1 \in 0 .. n - 1 /\ (n - 1) + 1 = n /\ 0 + 1 = 1
        /\ \A k \in 1 .. n - 1 : k \in 0 .. n - 1 /\ k - 1 \in 0 .. n - 1 /\ (k - 1) + 1 = k
    BY <1>1
  <2>2. QED
    BY <1>2, <2>1
<1> HIDE DEF u
<1>4. ASSUME NEW k \in 1 .. n - 1 PROVE ContextStep(u[k - 1], w2[k], u[k])
  <2>1. k + 1 \in 1 .. n /\ (k + 1) - 1 = k
    BY <1>1
  <2>2. ContextStep(v[(k + 1) - 1], w[k + 1], v[k + 1])
    BY <1>2, <2>1
  <2>3. QED
    BY <1>1, <1>3, <2>1, <2>2
<1>5. ContextPath(w2, v[1], z)
  BY <1>1, <1>3, <1>4 DEF ContextPath
<1>6. ContextStep(x, Head(w), v[1])
  <2>1. 1 \in 1 .. n /\ 1 - 1 = 0
    BY <1>1
  <2>2. ContextStep(v[1 - 1], w[1], v[1])
    BY <1>2, <2>1
  <2>3. QED
    BY <1>1, <1>2, <2>1, <2>2
<1>7. QED
  BY <1>5, <1>6 DEF w2

\* With no records under way the two ends have learnt the same.
LEMMA ContextQuiet ==
  ASSUME NEW x, NEW z, ContextPath(<< >>, x, z)
  PROVE  x = z
BY DEF ContextPath

\* With no records under way, from the same state.
LEMMA NothingSent ==
  ASSUME NEW x
  PROVE  ContextPath(<< >>, x, x) /\ \A item : VersionPath(item, << >>, x, x)
<1> DEFINE v == [k \in 0 .. 0 |-> x]
<1>1. v[0] = x /\ v[Len(<< >>)] = x /\ \A k \in 1 .. Len(<< >>) : FALSE
  OBVIOUS
<1> HIDE DEF v
<1>2. QED
  BY <1>1 DEF ContextPath, VersionPath

----------------------------------------------------------------------------
(* The inductive invariant. *)

\* What an exact state says of how it was made.
Sent(r) == r.type = "ExactState" => Versions(r.sent) /\ Carries(r.payload, r.sent, r.templates)

\* The records under way.
WireOK(w) == (\E S : w \in Seq(S)) /\ \A i \in DOMAIN w : Sent(w[i])

\* The server: its versions are documents, and it has finitely many entries.
ServerOK(s) ==
  /\ IsSide(s)
  /\ \A item \in DOMAIN s.previous_versions : s.previous_versions[item] \in Docs
  /\ IsFiniteSet(DOMAIN s.entries)

\* What a side has learnt, as far as the other side has to learn it too.
Learnt(s) == <<s.ctx, s.source_bindings>>

\* The paths of the versions of the items that were sent without loss ...
VersionsLinked(w, s, c, used) ==
  \A item \in Items :
    item \notin used => VersionPath(item, w, At(c.previous_versions, item), At(s.previous_versions, item))

\* ... and the path of the contexts, until they come apart.
ContextsLinked(w, s, c, apart) == apart \in BOOLEAN /\ (~ apart => ContextPath(w, Learnt(c), Learnt(s)))

\* The server's state is the client's after the records under way: item by item for
\* the versions, and as a whole for what is learnt.
ExactInv ==
  /\ WireOK(wire)
  /\ ServerOK(srv)
  /\ IsSide(cli)
  /\ VersionsLinked(wire, srv, cli, context_used)
  /\ ContextsLinked(wire, srv, cli, diverged)

\* A record more under way.
LEMMA WireSent ==
  ASSUME NEW w, WireOK(w), NEW r, Sent(r)
  PROVE  /\ WireOK(Append(w, r))
         /\ \E S : w \in Seq(S) /\ r \in S
<1>1. PICK S : w \in Seq(S)
  BY DEF WireOK
<1> DEFINE T == S \cup {r}
<1>2. w \in Seq(T) /\ r \in T
  BY <1>1
<1> HIDE DEF T
<1>3. /\ Append(w, r) \in Seq(T) /\ DOMAIN Append(w, r) = 1 .. Len(w) + 1
      /\ Append(w, r)[Len(w) + 1] = r /\ \A i \in 1 .. Len(w) : Append(w, r)[i] = w[i]
      /\ Len(w) \in Nat /\ DOMAIN w = 1 .. Len(w)
  BY <1>2
<1>4. \A i \in DOMAIN Append(w, r) : Sent(Append(w, r)[i])
  <2>1. \A i \in 1 .. Len(w) + 1 : i \in 1 .. Len(w) \/ i = Len(w) + 1
    BY <1>3
  <2>2. \A i \in DOMAIN w : Sent(w[i])
    BY DEF WireOK
  <2>3. QED
    BY <1>3, <2>1, <2>2
<1>5. WireOK(Append(w, r))
  BY <1>3, <1>4 DEF WireOK
<1>6. QED
  BY <1>2, <1>5

\* A record less.
LEMMA WireTaken ==
  ASSUME NEW w, WireOK(w), w # << >>
  PROVE  WireOK(Tail(w)) /\ Sent(Head(w))
<1>1. PICK S : w \in Seq(S)
  BY DEF WireOK
<1> DEFINE n == Len(w)
           t == Tail(w)
<1>2. /\ n \in Nat /\ n # 0 /\ DOMAIN w = 1 .. n /\ Head(w) = w[1]
      /\ t \in Seq(S) /\ DOMAIN t = 1 .. n - 1 /\ \A i \in 1 .. n - 1 : t[i] = w[i + 1]
  BY <1>1
<1> HIDE DEF n, t
<1>3. 1 \in 1 .. n /\ \A i \in 1 .. n - 1 : i + 1 \in 1 .. n
  BY <1>2
<1>4. \A i \in 1 .. n : Sent(w[i])
  BY <1>2 DEF WireOK
<1>5. Sent(w[1]) /\ \A i \in 1 .. n - 1 : Sent(t[i])
  BY <1>2, <1>3, <1>4
<1>6. WireOK(t)
  BY <1>2, <1>5 DEF WireOK
<1>7. QED
  BY <1>2, <1>5, <1>6 DEF t

\* A record is sent: the server's new state follows from its old one by the record.
LEMMA SendLinks ==
  ASSUME NEW w, NEW s, NEW c, NEW used, NEW apart, NEW r, NEW s2, NEW used2, NEW apart2,
         WireOK(w), Sent(r), VersionsLinked(w, s, c, used), ContextsLinked(w, s, c, apart), apart2 \in BOOLEAN,
         \A item \in Items : item \notin used2 =>
            item \notin used /\ VersionStep(item, At(s.previous_versions, item), r, At(s2.previous_versions, item)),
         ~ apart2 => ~ apart /\ ContextStep(Learnt(s), r, Learnt(s2))
  PROVE  VersionsLinked(Append(w, r), s2, c, used2) /\ ContextsLinked(Append(w, r), s2, c, apart2)
<1>1. PICK S : w \in Seq(S) /\ r \in S
  BY WireSent
<1>2. ASSUME NEW item \in Items, item \notin used2
      PROVE  VersionPath(item, Append(w, r), At(c.previous_versions, item), At(s2.previous_versions, item))
  <2> DEFINE x == At(c.previous_versions, item)
             y == At(s.previous_versions, item)
             z == At(s2.previous_versions, item)
  <2>1. VersionPath(item, w, x, y) /\ VersionStep(item, y, r, z)
    BY <1>2 DEF VersionsLinked
  <2> HIDE DEF x, y, z
  <2>2. VersionPath(item, Append(w, r), x, z)
    BY <1>1, <2>1, VersionSent
  <2>3. QED
    BY <2>2 DEF x, z
<1>3. ASSUME ~ apart2 PROVE ContextPath(Append(w, r), Learnt(c), Learnt(s2))
  <2>1. ContextPath(w, Learnt(c), Learnt(s)) /\ ContextStep(Learnt(s), r, Learnt(s2))
    BY <1>3 DEF ContextsLinked
  <2>2. QED
    BY <1>1, <2>1, ContextSent
<1>4. QED
  BY <1>2, <1>3 DEF VersionsLinked, ContextsLinked

\* A record is applied: what the client makes of it is what the record does.
LEMMA ApplyLinks ==
  ASSUME NEW w, NEW s, NEW c, NEW used, NEW apart, NEW c2, NEW apart2,
         WireOK(w), w # << >>, VersionsLinked(w, s, c, used), ContextsLinked(w, s, c, apart), apart2 \in BOOLEAN,
         \A item \in Items : item \notin used => \A y :
            VersionStep(item, At(c.previous_versions, item), Head(w), y) => At(c2.previous_versions, item) = y,
         ~ apart2 => ~ apart /\ \A y : ContextStep(Learnt(c), Head(w), y) => Learnt(c2) = y
  PROVE  VersionsLinked(Tail(w), s, c2, used) /\ ContextsLinked(Tail(w), s, c2, apart2)
<1>1. PICK S : w \in Seq(S)
  BY DEF WireOK
<1>2. ASSUME NEW item \in Items, item \notin used
      PROVE  VersionPath(item, Tail(w), At(c2.previous_versions, item), At(s.previous_versions, item))
  <2> DEFINE x == At(c.previous_versions, item)
             z == At(s.previous_versions, item)
  <2>1. VersionPath(item, w, x, z)
    BY <1>2 DEF VersionsLinked
  <2> HIDE DEF x, z
  <2>2. PICK y : VersionStep(item, x, Head(w), y) /\ VersionPath(item, Tail(w), y, z)
    BY <1>1, <2>1, VersionTaken
  <2>3. At(c2.previous_versions, item) = y
    BY <1>2, <2>2 DEF x
  <2>4. QED
    BY <2>2, <2>3 DEF z
<1>3. ASSUME ~ apart2 PROVE ContextPath(Tail(w), Learnt(c2), Learnt(s))
  <2> DEFINE x == Learnt(c)
             z == Learnt(s)
  <2>1. ContextPath(w, x, z)
    BY <1>3 DEF ContextsLinked
  <2> HIDE DEF x, z
  <2>2. PICK y : ContextStep(x, Head(w), y) /\ ContextPath(Tail(w), y, z)
    BY <1>1, <2>1, ContextTaken
  <2>3. Learnt(c2) = y
    BY <1>3, <2>2 DEF x
  <2>4. QED
    BY <2>2, <2>3 DEF z
<1>4. QED
  BY <1>2, <1>3 DEF VersionsLinked, ContextsLinked

\* What a side that makes room has.
LEMMA EvictedIs ==
  ASSUME NEW s, IsSide(s), IsFiniteSet(DOMAIN s.entries), NEW item, NEW t \in Evicted(s, item)
  PROVE  /\ IsSide(t) /\ t.ctx = s.ctx /\ t.previous_versions = s.previous_versions
         /\ IsFiniteSet(DOMAIN t.entries)
         /\ Cardinality(DOMAIN s.entries) >= MaxEntries =>
              Cardinality(DOMAIN t.entries \cup {item}) <= Cardinality(DOMAIN s.entries)
<1> DEFINE D == DOMAIN s.entries
           N == Cardinality(D)
           others == D \ {item}
<1>1. IsFiniteSet(D) /\ N \in Nat /\ MaxEntries \in Nat /\ MaxEntries > 0
  BY FS_CardinalityType, ExactPathAssumption
<1>2. CASE N >= MaxEntries /\ others # {}
  <2>1. PICK old \in others : t = Without(s, old)
    BY <1>2 DEF Evicted
  <2> DEFINE e == Drop(s.entries, old)
             b == Drop(s.source_bindings, old)
  <2>2. t = SideOf(s.ctx, s.previous_versions, b, e)
    BY <2>1, SideDrop
  <2>3. DOMAIN e = D \ {old}
    BY DEF Drop
  <2> HIDE DEF e, b, D
  <2>5. IsSide(t) /\ t.ctx = s.ctx /\ t.previous_versions = s.previous_versions /\ t.entries = e
    BY <2>2, SideParts
  <2> DEFINE E == D \ {old}
  <2>6. IsFiniteSet(E) /\ Cardinality(E) = N - 1
    BY <1>1, <2>1, FS_RemoveElement
  <2> HIDE DEF E
  <2>7. Cardinality(E \cup {item}) <= N
    <3>1. CASE item \in E
      <4>1. E \cup {item} = E
        BY <3>1
      <4>2. Cardinality(E \cup {item}) = Cardinality(E)
        BY <4>1, Zenon
      <4> HIDE DEF N
      <4>3. QED
        BY <1>1, <2>6, <4>2
    <3>2. CASE item \notin E
      <4>1. Cardinality(E \cup {item}) = Cardinality(E) + 1
        BY <2>6, <3>2, FS_AddElement
      <4> HIDE DEF N
      <4>2. QED
        BY <1>1, <2>6, <4>1
    <3>3. QED
      BY <3>1, <3>2
  <2>8. QED
    BY <2>3, <2>5, <2>6, <2>7 DEF E, D
<1>3. CASE ~ (N >= MaxEntries /\ others # {})
  <2>1. t = s
    BY <1>3 DEF Evicted
  <2>2. ASSUME N >= MaxEntries PROVE Cardinality(D \cup {item}) <= N
    <3>1. D # {}
      <4>1. SUFFICES ASSUME D = {} PROVE FALSE
        OBVIOUS
      <4>2. N = 0
        <5> HIDE DEF D
        <5>1. QED
          BY <4>1, FS_EmptySet
      <4> HIDE DEF N
      <4>3. QED
        BY <1>1, <2>2, <4>2
    <3>2. D \cup {item} = D
      <4>1. others = {}
        BY <1>3, <2>2
      <4> HIDE DEF D
      <4>2. QED
        BY <3>1, <4>1
    <3> HIDE DEF D
    <3>3. Cardinality(D \cup {item}) = N
      BY <3>2
    <3> HIDE DEF N
    <3>4. QED
      BY <1>1, <3>3
  <2>3. QED
    BY <2>1, <2>2
<1>4. QED
  BY <1>2, <1>3

\* A step of the server that sends a record.
LEMMA SendStep ==
  ASSUME ExactInv, NEW r, wire' = Append(wire, r), Sent(r), cli' = cli, ServerOK(srv'), diverged' \in BOOLEAN,
         \A item \in Items : item \notin context_used' =>
            /\ item \notin context_used
            /\ VersionStep(item, At(srv.previous_versions, item), r, At(srv'.previous_versions, item)),
         ~ diverged' => ~ diverged /\ ContextStep(Learnt(srv), r, Learnt(srv'))
  PROVE  ExactInv'
<1>1. WireOK(wire) /\ IsSide(cli) /\ VersionsLinked(wire, srv, cli, context_used) /\ ContextsLinked(wire, srv, cli, diverged)
  BY DEF ExactInv
<1>2. WireOK(Append(wire, r))
  BY <1>1, WireSent
<1>3. /\ VersionsLinked(Append(wire, r), srv', cli, context_used')
      /\ ContextsLinked(Append(wire, r), srv', cli, diverged')
  BY <1>1, SendLinks
<1>4. QED
  BY <1>1, <1>2, <1>3 DEF ExactInv

\* emit_plain_source_meta.
LEMMA BindSourceInv ==
  ASSUME ExactInv, NEW item \in Items, NEW kind \in Kinds, BindSource(item, kind)
  PROVE  ExactInv'
<1> DEFINE r == [type |-> "SourceMeta", item |-> item, kind |-> kind]
           b == Put(srv.source_bindings, item, kind)
<1>1. /\ srv' = [srv EXCEPT !.source_bindings = b]
      /\ wire' = Append(wire, r) /\ cli' = cli /\ context_used' = context_used /\ diverged' = diverged
  BY DEF BindSource, Send
<1>2. ServerOK(srv) /\ IsSide(srv) /\ diverged \in BOOLEAN
  BY DEF ExactInv, ServerOK, ContextsLinked
<1>3. srv' = SideOf(srv.ctx, srv.previous_versions, b, srv.entries)
  <2> HIDE DEF b
  <2>1. QED
    BY <1>1, <1>2, SideChange
<1> HIDE DEF b
<1>4. /\ IsSide(srv') /\ srv'.ctx = srv.ctx /\ srv'.previous_versions = srv.previous_versions
      /\ srv'.source_bindings = b /\ srv'.entries = srv.entries
  BY <1>3, SideParts
<1>5. r.type = "SourceMeta" /\ r.item = item /\ r.kind = kind
  OBVIOUS
<1> HIDE DEF r
<1>6. Sent(r) /\ ServerOK(srv')
  BY <1>2, <1>4, <1>5 DEF Sent, ServerOK
<1>7. \A i \in Items : VersionStep(i, At(srv.previous_versions, i), r, At(srv'.previous_versions, i))
  BY <1>4, <1>5 DEF VersionStep
<1>8. ContextStep(Learnt(srv), r, Learnt(srv'))
  BY <1>4, <1>5 DEF ContextStep, Learnt, b
<1>9. QED
  BY <1>1, <1>2, <1>6, <1>7, <1>8, SendStep

\* emit_batch.
LEMMA EmitBatchInv ==
  ASSUME ExactInv, NEW item \in Items, NEW bytes \in Docs, EmitBatch(item, bytes)
  PROVE  ExactInv'
<1> DEFINE r == [type |-> "BatchEnvelope", item |-> item, kind |-> KindOf(srv, item, "Binary"), bytes |-> bytes]
<1>1. /\ wire' = Append(wire, r) /\ srv' = srv /\ cli' = cli /\ context_used' = context_used /\ diverged' = TRUE
  BY DEF EmitBatch, Send
<1>2. ServerOK(srv)
  BY DEF ExactInv
<1>3. r.type = "BatchEnvelope"
  OBVIOUS
<1> HIDE DEF r
<1>4. Sent(r) /\ ServerOK(srv')
  BY <1>1, <1>2, <1>3 DEF Sent
<1>5. \A i \in Items : VersionStep(i, At(srv.previous_versions, i), r, At(srv'.previous_versions, i))
  BY <1>1, <1>3 DEF VersionStep
<1>6. QED
  BY <1>1, <1>4, <1>5, SendStep

\* store_runtime_object_for_item.
LEMMA StoreObjectInv ==
  ASSUME ExactInv, NEW item \in Items, NEW bytes \in Docs, StoreObject(item, bytes)
  PROVE  ExactInv'
<1> DEFINE r == [type |-> "Predictive", item |-> item, bytes |-> bytes]
<1>0. ServerOK(srv) /\ IsSide(srv) /\ diverged \in BOOLEAN /\ IsFiniteSet(DOMAIN srv.entries)
  BY DEF ExactInv, ServerOK, ContextsLinked
<1>1. PICK side \in Evicted(srv, item) :
        /\ srv' = [side EXCEPT !.entries = Put(@, item, bytes)]
        /\ diverged' = (diverged \/ side.source_bindings # srv.source_bindings)
        /\ wire' = Append(wire, r) /\ cli' = cli /\ context_used' = context_used
  BY DEF StoreObject, Send
<1>2. IsSide(side) /\ side.ctx = srv.ctx /\ side.previous_versions = srv.previous_versions
      /\ IsFiniteSet(DOMAIN side.entries)
  BY <1>0, EvictedIs
<1> DEFINE e == Put(side.entries, item, bytes)
<1>3. srv' = SideOf(side.ctx, side.previous_versions, side.source_bindings, e)
  <2>1. srv' = [side EXCEPT !.entries = e]
    BY <1>1
  <2>2. IsSide(side)
    BY <1>2
  <2> HIDE DEF e
  <2>3. QED
    BY <2>1, <2>2, SideChange
<1>4. IsFiniteSet(DOMAIN e)
  <2> DEFINE D == DOMAIN side.entries
  <2>1. DOMAIN e = D \cup {item}
    BY DEF Put
  <2> HIDE DEF D, e
  <2>2. IsFiniteSet(D \cup {item})
    BY <1>2, FS_AddElement DEF D
  <2>3. QED
    BY <2>1, <2>2
<1> HIDE DEF e
<1>5. /\ IsSide(srv') /\ srv'.ctx = side.ctx /\ srv'.previous_versions = side.previous_versions
      /\ srv'.source_bindings = side.source_bindings /\ srv'.entries = e
  BY <1>3, SideParts
<1>6. r.type = "Predictive"
  OBVIOUS
<1> HIDE DEF r
<1>7. Sent(r) /\ ServerOK(srv')
  BY <1>0, <1>2, <1>4, <1>5, <1>6 DEF Sent, ServerOK
<1>8. \A i \in Items : VersionStep(i, At(srv.previous_versions, i), r, At(srv'.previous_versions, i))
  BY <1>2, <1>5, <1>6 DEF VersionStep
<1>9. ASSUME ~ diverged' PROVE ~ diverged /\ ContextStep(Learnt(srv), r, Learnt(srv'))
  <2>1. ~ diverged /\ side.source_bindings = srv.source_bindings
    BY <1>0, <1>1, <1>9
  <2>2. QED
    BY <1>2, <1>5, <1>6, <2>1 DEF ContextStep, Learnt
<1>10. diverged' \in BOOLEAN
  BY <1>0, <1>1
<1>11. QED
  BY <1>1, <1>7, <1>8, <1>9, <1>10, SendStep

\* emit_plain_control_data, Evict and Invalidate.
LEMMA EvictItemInv ==
  ASSUME ExactInv, NEW item \in Items, EvictItem(item)
  PROVE  ExactInv'
<1> DEFINE r == [type |-> "Evict", item |-> item]
           e == Drop(srv.entries, item)
           b == Drop(srv.source_bindings, item)
<1>1. /\ srv' = Without(srv, item)
      /\ wire' = Append(wire, r) /\ cli' = cli /\ context_used' = context_used /\ diverged' = diverged
  BY DEF EvictItem, Send
<1>2. ServerOK(srv) /\ IsSide(srv) /\ diverged \in BOOLEAN /\ IsFiniteSet(DOMAIN srv.entries)
  BY DEF ExactInv, ServerOK, ContextsLinked
<1>3. DOMAIN e = DOMAIN srv.entries \ {item}
  BY DEF Drop
<1>4. srv' = SideOf(srv.ctx, srv.previous_versions, b, e)
  BY <1>1, <1>2, SideDrop
<1> HIDE DEF e, b
<1>5. /\ IsSide(srv') /\ srv'.ctx = srv.ctx /\ srv'.previous_versions = srv.previous_versions
      /\ srv'.source_bindings = b /\ srv'.entries = e
  BY <1>4, SideParts
<1>6. IsFiniteSet(DOMAIN e)
  <2> DEFINE D == DOMAIN srv.entries
  <2> HIDE DEF D
  <2>1. IsFiniteSet(D \ {item})
    BY <1>2, FS_RemoveElement, FS_Subset DEF D
  <2>2. QED
    BY <1>3, <2>1 DEF D
<1>7. r.type = "Evict" /\ r.item = item
  OBVIOUS
<1> HIDE DEF r
<1>8. Sent(r) /\ ServerOK(srv')
  BY <1>2, <1>5, <1>6, <1>7 DEF Sent, ServerOK
<1>9. \A i \in Items : VersionStep(i, At(srv.previous_versions, i), r, At(srv'.previous_versions, i))
  BY <1>5, <1>7 DEF VersionStep
<1>10. ContextStep(Learnt(srv), r, Learnt(srv'))
  BY <1>5, <1>7 DEF ContextStep, Learnt, b
<1>11. QED
  BY <1>1, <1>2, <1>8, <1>9, <1>10, SendStep

\* emit_plain_resync.
LEMMA ResyncInv ==
  ASSUME ExactInv, Resync
  PROVE  ExactInv'
<1> DEFINE r == [type |-> "Resync"]
<1>1. /\ wire' = Append(wire, r) /\ srv' = srv /\ cli' = cli /\ context_used' = context_used
      /\ diverged' = (diverged \/ srv.source_bindings # Nothing)
  BY DEF Resync, Send
<1>2. ServerOK(srv) /\ diverged \in BOOLEAN
  BY DEF ExactInv, ContextsLinked
<1>3. r.type = "Resync"
  OBVIOUS
<1> HIDE DEF r
<1>4. Sent(r) /\ ServerOK(srv') /\ diverged' \in BOOLEAN
  BY <1>1, <1>2, <1>3 DEF Sent
<1>5. \A i \in Items : VersionStep(i, At(srv.previous_versions, i), r, At(srv'.previous_versions, i))
  BY <1>1, <1>3 DEF VersionStep
<1>6. ~ diverged' => ~ diverged /\ ContextStep(Learnt(srv), r, Learnt(srv'))
  BY <1>1, <1>2, <1>3 DEF ContextStep, Learnt
<1>7. QED
  BY <1>1, <1>4, <1>5, <1>6, SendStep

\* emit_plain_exact_state_data.
LEMMA EmitExactInv ==
  ASSUME ExactInv, NEW item \in Items, NEW bytes \in Docs, EmitExact(item, bytes)
  PROVE  ExactInv'
<1> DEFINE kind == KindOf(srv, item, "Binary")
           prev == At(srv.previous_versions, item)
           sent == [bytes |-> bytes, base |-> OrElse(prev, << >>)]
           ctx == Learn(srv.ctx, kind, bytes)
           p == Put(srv.previous_versions, item, bytes)
           e == Put(srv.entries, item, bytes)
           Record(payload) == [type |-> "ExactState", item |-> item, kind |-> kind, payload |-> payload,
                               sent |-> sent, templates |-> ctx.templates]
<1>1. srv' = TaughtKeeping(srv, ctx, p, e) /\ cli' = cli /\ diverged' = diverged
  BY DEF EmitExact, TaughtKeeping
<1>2. PICK payload \in Encodings(ctx, kind, prev, bytes) :
        /\ wire' = Append(wire, Record(payload))
        /\ context_used' = IF Lossless(payload, sent) THEN context_used ELSE context_used \union {item}
  BY DEF EmitExact, Send
<1> DEFINE r == Record(payload)
<1>3. ServerOK(srv) /\ IsSide(srv) /\ diverged \in BOOLEAN /\ IsFiniteSet(DOMAIN srv.entries)
      /\ \A i \in DOMAIN srv.previous_versions : srv.previous_versions[i] \in Docs
  BY DEF ExactInv, ServerOK, ContextsLinked
<1>4. srv' = SideOf(ctx, p, srv.source_bindings, e)
  <2> HIDE DEF ctx, p, e
  <2>1. QED
    BY <1>1, <1>3, SideKeep
<1>5. /\ DOMAIN p = DOMAIN srv.previous_versions \cup {item} /\ p[item] = bytes
      /\ \A i \in DOMAIN srv.previous_versions : i # item => p[i] = srv.previous_versions[i]
      /\ At(p, item) = Done(bytes) /\ \A i : i # item => At(p, i) = At(srv.previous_versions, i)
  <2> DEFINE f == srv.previous_versions
  <2> HIDE DEF f
  <2>1. /\ DOMAIN Put(f, item, bytes) = DOMAIN f \cup {item} /\ Put(f, item, bytes)[item] = bytes
        /\ \A i \in DOMAIN f : i # item => Put(f, item, bytes)[i] = f[i]
        /\ At(Put(f, item, bytes), item) = Done(bytes) /\ \A i : i # item => At(Put(f, item, bytes), i) = At(f, i)
    BY DEF Put, At
  <2>2. QED
    BY <2>1 DEF f
<1>6. IsFiniteSet(DOMAIN e)
  <2> DEFINE D == DOMAIN srv.entries
  <2>1. DOMAIN e = D \cup {item}
    BY DEF Put
  <2> HIDE DEF D, e
  <2>2. IsFiniteSet(D \cup {item})
    BY <1>3, FS_AddElement DEF D
  <2>3. QED
    BY <2>1, <2>2
<1>7. prev = Failed \/ \E x \in Docs : prev = Done(x)
  BY <1>3 DEF At
<1>8. Versions(sent) /\ Carries(payload, sent, ctx.templates) /\ (payload.tag = "Delta" => prev = Done(sent.base))
  <2> HIDE DEF ctx, kind, prev
  <2> DEFINE t == sent
  <2>1. t = [bytes |-> bytes, base |-> OrElse(prev, << >>)]
    OBVIOUS
  <2> HIDE DEF t
  <2>2. Versions(t) /\ Carries(payload, t, ctx.templates) /\ (payload.tag = "Delta" => prev = Done(t.base))
    BY <1>7, <2>1, EncodedIs
  <2>3. QED
    BY <2>2 DEF t
<1>9. sent.bytes = bytes
  OBVIOUS
<1> HIDE DEF sent, ctx, p, e
<1>10. r.type = "ExactState" /\ r.item = item /\ r.kind = kind /\ r.payload = payload /\ r.sent = sent
       /\ r.templates = ctx.templates
  <2> HIDE DEF kind
  <2>1. QED
    OBVIOUS
<1>11. wire' = Append(wire, r)
  BY <1>2
<1> HIDE DEF Record, r
<1>12. /\ IsSide(srv') /\ srv'.ctx = ctx /\ srv'.previous_versions = p
       /\ srv'.source_bindings = srv.source_bindings /\ srv'.entries = e
  BY <1>4, SideParts
<1>13. Sent(r) /\ ServerOK(srv')
  <2>1. Sent(r)
    BY <1>8, <1>10 DEF Sent
  <2>2. \A i \in DOMAIN p : p[i] \in Docs
    BY <1>3, <1>5
  <2>3. QED
    BY <1>6, <1>12, <2>1, <2>2 DEF ServerOK
<1>14. ASSUME NEW i \in Items, i \notin context_used'
       PROVE  /\ i \notin context_used
              /\ VersionStep(i, At(srv.previous_versions, i), r, At(srv'.previous_versions, i))
  <2>1. i \notin context_used /\ (i = item => Lossless(payload, sent))
    BY <1>2, <1>14
  <2>2. CASE i = item
    BY <1>5, <1>8, <1>9, <1>10, <1>12, <2>1, <2>2 DEF VersionStep
  <2>3. CASE i # item
    BY <1>5, <1>10, <1>12, <2>1, <2>3 DEF VersionStep
  <2>4. QED
    BY <2>2, <2>3
<1>15. ContextStep(Learnt(srv), r, Learnt(srv'))
  <2>1. kind = KindIn(srv.source_bindings, item)
    BY DEF KindOf, KindIn
  <2> HIDE DEF kind
  <2>2. Learnt(srv') = <<Learn(srv.ctx, kind, bytes), srv.source_bindings>>
    BY <1>12 DEF Learnt, ctx
  <2>3. QED
    BY <1>9, <1>10, <2>1, <2>2 DEF ContextStep, Learnt
<1>16. QED
  BY <1>1, <1>3, <1>11, <1>13, <1>14, <1>15, SendStep

\* A step of the client that applies a record.
LEMMA ApplyStep ==
  ASSUME ExactInv, wire # << >>, wire' = Tail(wire), srv' = srv, context_used' = context_used, IsSide(cli'),
         diverged' \in BOOLEAN,
         \A item \in Items : item \notin context_used => \A y :
            VersionStep(item, At(cli.previous_versions, item), Head(wire), y) => At(cli'.previous_versions, item) = y,
         ~ diverged' => ~ diverged /\ \A y : ContextStep(Learnt(cli), Head(wire), y) => Learnt(cli') = y
  PROVE  ExactInv'
<1>1. /\ WireOK(wire) /\ ServerOK(srv) /\ VersionsLinked(wire, srv, cli, context_used)
      /\ ContextsLinked(wire, srv, cli, diverged)
  BY DEF ExactInv
<1>2. WireOK(Tail(wire))
  BY <1>1, WireTaken
<1>3. /\ VersionsLinked(Tail(wire), srv, cli', context_used)
      /\ ContextsLinked(Tail(wire), srv, cli', diverged')
  BY <1>1, ApplyLinks
<1>4. QED
  BY <1>1, <1>2, <1>3 DEF ExactInv

\* A lossless payload is undone by the version that the path says the client has.
LEMMA LosslessUndone ==
  ASSUME NEW c, NEW r, Sent(r), r.type = "ExactState", NEW y,
         VersionStep(r.item, At(c.previous_versions, r.item), r, y)
  PROVE  Results(c, r) = {Done(r.sent.bytes)} /\ y = Done(r.sent.bytes)
<1> DEFINE kind == KindOf(c, r.item, r.kind)
           prev == At(c.previous_versions, r.item)
           payload == r.payload
           sent == r.sent
           templates == r.templates
<1>1. y = Done(sent.bytes) /\ Lossless(payload, sent) /\ (payload.tag = "Delta" => prev = Done(sent.base))
  BY DEF VersionStep
<1>2. Carries(payload, sent, templates) /\ Versions(sent)
  BY DEF Sent
<1>3. Results(c, r) = decode_compressed_payload(c.ctx, kind, prev, payload)
  BY DEF Results
<1> HIDE DEF kind, prev, payload, sent, templates
<1>4. payload.tag = "Whole" \/ payload.tag = "Delta"
  BY <1>1 DEF Lossless
<1> DEFINE ctx == c.ctx
<1> HIDE DEF ctx
<1>5. Ready(ctx, kind, prev, payload, sent, templates)
  BY <1>1, <1>4 DEF Ready
<1>6. decode_compressed_payload(ctx, kind, prev, payload) = {Done(sent.bytes)}
  BY <1>2, <1>5, UndoneExactly
<1>7. QED
  BY <1>1, <1>3, <1>6 DEF ctx, sent

\* apply_data_record, for an exact state.
LEMMA ApplyExactInv ==
  ASSUME ExactInv, Apply, ApplyExact(Head(wire))
  PROVE  ExactInv'
<1> DEFINE r == Head(wire)
<1>1. wire # << >> /\ wire' = Tail(wire) /\ srv' = srv /\ context_used' = context_used
  BY DEF Apply
<1>2. IsSide(cli) /\ diverged \in BOOLEAN /\ WireOK(wire)
  BY DEF ExactInv, ContextsLinked
<1>3. Sent(r)
  BY <1>1, <1>2, WireTaken
<1>4. r.type = "ExactState"
  BY DEF ApplyExact
<1>5. PICK result \in Results(cli, r) :
        /\ cli' = Stored(cli, r, result)
        /\ diverged' = (diverged \/ result # Done(r.sent.bytes))
  BY DEF ApplyExact
<1> HIDE DEF r
<1> DEFINE kind == KindOf(cli, r.item, r.kind)
           bytes == OrElse(result, Junk)
           ctx == Learn(cli.ctx, kind, bytes)
           p == Put(cli.previous_versions, r.item, bytes)
           e == Put(cli.entries, r.item, bytes)
<1>6. cli' = SideOf(ctx, p, cli.source_bindings, e)
  <2>1. cli' = TaughtKeeping(cli, ctx, p, e)
    BY <1>5 DEF Stored, TaughtKeeping
  <2> HIDE DEF ctx, p, e
  <2>2. QED
    BY <1>2, <2>1, SideKeep
<1>7. At(p, r.item) = Done(bytes) /\ \A i : i # r.item => At(p, i) = At(cli.previous_versions, i)
  <2> DEFINE f == cli.previous_versions
             item == r.item
             b == bytes
  <2> HIDE DEF f, item, b
  <2>1. At(Put(f, item, b), item) = Done(b) /\ \A i : i # item => At(Put(f, item, b), i) = At(f, i)
    BY DEF Put, At
  <2>2. QED
    BY <2>1 DEF f, item, b
<1> HIDE DEF p, e, ctx
<1>8. IsSide(cli') /\ cli'.ctx = ctx /\ cli'.previous_versions = p /\ cli'.source_bindings = cli.source_bindings
  BY <1>6, SideParts
<1>9. result = Done(r.sent.bytes) => bytes = r.sent.bytes
  BY DEF Done, OrElse
<1> HIDE DEF bytes
<1>10. ASSUME NEW item \in Items, NEW y, VersionStep(item, At(cli.previous_versions, item), r, y)
       PROVE  At(cli'.previous_versions, item) = y
  <2>1. CASE r.item = item
    <3>1. VersionStep(r.item, At(cli.previous_versions, r.item), r, y)
      BY <1>10, <2>1
    <3>2. Results(cli, r) = {Done(r.sent.bytes)} /\ y = Done(r.sent.bytes)
      <4> DEFINE c == cli
      <4> HIDE DEF c
      <4>1. VersionStep(r.item, At(c.previous_versions, r.item), r, y)
        BY <3>1 DEF c
      <4>2. Results(c, r) = {Done(r.sent.bytes)} /\ y = Done(r.sent.bytes)
        BY <1>3, <1>4, <4>1, LosslessUndone
      <4>3. QED
        BY <4>2 DEF c
    <3>3. result = Done(r.sent.bytes)
      BY <3>2
    <3>4. QED
      BY <1>7, <1>8, <1>9, <2>1, <3>2, <3>3
  <2>2. CASE r.item # item
    BY <1>7, <1>8, <1>10, <2>2 DEF VersionStep
  <2>3. QED
    BY <2>1, <2>2
<1>11. ASSUME ~ diverged', NEW y, ContextStep(Learnt(cli), r, y) PROVE Learnt(cli') = y
  <2>1. result = Done(r.sent.bytes)
    BY <1>2, <1>5, <1>11
  <2>2. r.kind = KindIn(cli.source_bindings, r.item)
        /\ y = <<Learn(cli.ctx, r.kind, r.sent.bytes), cli.source_bindings>>
    BY <1>4, <1>11 DEF ContextStep, Learnt
  <2>3. kind = r.kind
    BY <2>2 DEF KindOf, KindIn
  <2> HIDE DEF kind
  <2>4. QED
    BY <1>8, <1>9, <2>1, <2>2, <2>3 DEF Learnt, ctx
<1>12. diverged' \in BOOLEAN /\ (~ diverged' => ~ diverged)
  BY <1>2, <1>5
<1>13. QED
  BY <1>1, <1>8, <1>10, <1>11, <1>12, ApplyStep DEF r

\* apply_batch_envelope.
LEMMA ApplyBatchInv ==
  ASSUME ExactInv, Apply, ApplyBatch(Head(wire))
  PROVE  ExactInv'
<1> DEFINE r == Head(wire)
<1>1. wire # << >> /\ wire' = Tail(wire) /\ srv' = srv /\ context_used' = context_used
  BY DEF Apply
<1>2. IsSide(cli) /\ diverged \in BOOLEAN
  BY DEF ExactInv, ContextsLinked
<1> DEFINE ctx == Learn(cli.ctx, r.kind, r.bytes)
           e == Put(cli.entries, r.item, r.bytes)
<1>3. r.type = "BatchEnvelope" /\ diverged' = diverged /\ cli' = Taught(cli, ctx, e)
  BY DEF ApplyBatch, Taught
<1> HIDE DEF r, ctx, e
<1>4. cli' = SideOf(ctx, cli.previous_versions, cli.source_bindings, e)
  BY <1>2, <1>3, SideLearn
<1>5. IsSide(cli') /\ cli'.previous_versions = cli.previous_versions
  BY <1>4, SideParts
<1>6. \A item \in Items : \A y :
        VersionStep(item, At(cli.previous_versions, item), r, y) => At(cli'.previous_versions, item) = y
  BY <1>3, <1>5 DEF VersionStep
<1>7. \A y : ~ ContextStep(Learnt(cli), r, y)
  BY <1>3 DEF ContextStep
<1>8. QED
  BY <1>1, <1>2, <1>3, <1>5, <1>6, <1>7, ApplyStep DEF r

\* The records of the other types.
LEMMA ApplyControlInv ==
  ASSUME ExactInv, Apply, ApplyControl(Head(wire))
  PROVE  ExactInv'
<1> DEFINE r == Head(wire)
<1>1. wire # << >> /\ wire' = Tail(wire) /\ srv' = srv /\ context_used' = context_used
  BY DEF Apply
<1>2. IsSide(cli) /\ diverged \in BOOLEAN
  BY DEF ExactInv, ContextsLinked
<1>3. diverged' = diverged /\ \/ r.type = "SourceMeta" /\ cli' = [cli EXCEPT !.source_bindings = Put(@, r.item, r.kind)]
                              \/ r.type = "Evict" /\ cli' = Without(cli, r.item)
                              \/ r.type = "Resync" /\ cli' = [cli EXCEPT !.entries = Nothing, !.source_bindings = Nothing]
                              \/ r.type = "Predictive" /\ cli' = [cli EXCEPT !.entries = Put(@, r.item, r.bytes)]
  BY DEF ApplyControl
<1> HIDE DEF r
<1>4. /\ r.type \in {"SourceMeta", "Evict", "Resync", "Predictive"}
      /\ IsSide(cli') /\ cli'.ctx = cli.ctx /\ cli'.previous_versions = cli.previous_versions
      /\ r.type = "SourceMeta" => cli'.source_bindings = Put(cli.source_bindings, r.item, r.kind)
      /\ r.type = "Evict" => cli'.source_bindings = Drop(cli.source_bindings, r.item)
      /\ r.type = "Resync" => cli'.source_bindings = Nothing
      /\ r.type = "Predictive" => cli'.source_bindings = cli.source_bindings
  <2>1. CASE r.type = "SourceMeta" /\ cli' = [cli EXCEPT !.source_bindings = Put(@, r.item, r.kind)]
    <3> DEFINE b == Put(cli.source_bindings, r.item, r.kind)
    <3>1. cli' = [cli EXCEPT !.source_bindings = b]
      BY <2>1
    <3> HIDE DEF b
    <3>2. cli' = SideOf(cli.ctx, cli.previous_versions, b, cli.entries)
      BY <1>2, <3>1, SideChange
    <3>3. IsSide(cli') /\ cli'.ctx = cli.ctx /\ cli'.previous_versions = cli.previous_versions /\ cli'.source_bindings = b
      BY <3>2, SideParts
    <3>4. QED
      BY <2>1, <3>3 DEF b
  <2>2. CASE r.type = "Evict" /\ cli' = Without(cli, r.item)
    <3> DEFINE b == Drop(cli.source_bindings, r.item)
               e == Drop(cli.entries, r.item)
    <3>1. cli' = SideOf(cli.ctx, cli.previous_versions, b, e)
      BY <1>2, <2>2, SideDrop
    <3> HIDE DEF b, e
    <3>2. IsSide(cli') /\ cli'.ctx = cli.ctx /\ cli'.previous_versions = cli.previous_versions /\ cli'.source_bindings = b
      BY <3>1, SideParts
    <3>3. QED
      BY <2>2, <3>2 DEF b
  <2>3. CASE r.type = "Resync" /\ cli' = [cli EXCEPT !.entries = Nothing, !.source_bindings = Nothing]
    <3> DEFINE u == [cli EXCEPT !.entries = Nothing]
    <3>1. cli' = [u EXCEPT !.source_bindings = Nothing]
      BY <2>3
    <3>2. u = SideOf(cli.ctx, cli.previous_versions, cli.source_bindings, Nothing)
      BY <1>2, SideChange
    <3> HIDE DEF u
    <3>3. IsSide(u) /\ u.ctx = cli.ctx /\ u.previous_versions = cli.previous_versions
      BY <3>2, SideParts
    <3>4. cli' = SideOf(u.ctx, u.previous_versions, Nothing, u.entries)
      <4>1. IsSide(u)
        BY <3>3
      <4>2. QED
        BY <3>1, <4>1, SideChange
    <3>5. IsSide(cli') /\ cli'.ctx = u.ctx /\ cli'.previous_versions = u.previous_versions /\ cli'.source_bindings = Nothing
      BY <3>4, SideParts
    <3>6. QED
      BY <2>3, <3>3, <3>5
  <2>4. CASE r.type = "Predictive" /\ cli' = [cli EXCEPT !.entries = Put(@, r.item, r.bytes)]
    <3> DEFINE e == Put(cli.entries, r.item, r.bytes)
    <3>1. cli' = [cli EXCEPT !.entries = e]
      BY <2>4
    <3> HIDE DEF e
    <3>2. cli' = SideOf(cli.ctx, cli.previous_versions, cli.source_bindings, e)
      BY <1>2, <3>1, SideChange
    <3>3. /\ IsSide(cli') /\ cli'.ctx = cli.ctx /\ cli'.previous_versions = cli.previous_versions
          /\ cli'.source_bindings = cli.source_bindings
      BY <3>2, SideParts
    <3>4. QED
      BY <2>4, <3>3
  <2>5. QED
    BY <1>3, <2>1, <2>2, <2>3, <2>4
<1>5. \A item \in Items : \A y :
        VersionStep(item, At(cli.previous_versions, item), r, y) => At(cli'.previous_versions, item) = y
  BY <1>4 DEF VersionStep
<1>6. ASSUME NEW y, ContextStep(Learnt(cli), r, y) PROVE Learnt(cli') = y
  BY <1>4, <1>6 DEF ContextStep, Learnt
<1>7. QED
  BY <1>1, <1>2, <1>3, <1>4, <1>5, <1>6, ApplyStep DEF r

\* A record is applied by one of the three handlers.
LEMMA ApplyInv ==
  ASSUME ExactInv, Apply
  PROVE  ExactInv'
<1>1. ApplyExact(Head(wire)) \/ ApplyBatch(Head(wire)) \/ ApplyControl(Head(wire))
  BY DEF Apply
<1>2. QED
  BY <1>1, ApplyExactInv, ApplyBatchInv, ApplyControlInv

\* It holds at the start, where both ends have the same source bindings ...
LEMMA InitExact ==
  ASSUME Init
  PROVE  ExactInv
<1>0. PICK bound \in SUBSET Items : \E kinds \in [bound -> Kinds] :
             srv = [Side EXCEPT !.source_bindings = kinds] /\ cli = srv
  BY DEF Init
<1>1. PICK kinds \in [bound -> Kinds] : srv = [Side EXCEPT !.source_bindings = kinds] /\ cli = srv
  BY <1>0
<1>2. wire = << >> /\ diverged = FALSE
  BY DEF Init
<1>3. Side = SideOf(EmptyContext, Nothing, Nothing, Nothing)
  BY DEF Side, SideOf
<1>4. IsSide(Side) /\ Side.previous_versions = Nothing /\ Side.entries = Nothing
  BY <1>3, SideParts
<1>5. srv = SideOf(Side.ctx, Side.previous_versions, kinds, Side.entries)
  <2> DEFINE s == Side
  <2> HIDE DEF s
  <2>1. srv = [s EXCEPT !.source_bindings = kinds]
    BY <1>1 DEF s
  <2>2. IsSide(s)
    BY <1>4 DEF s
  <2>3. srv = SideOf(s.ctx, s.previous_versions, kinds, s.entries)
    BY <2>1, <2>2, SideChange
  <2>4. QED
    BY <2>3 DEF s
<1>6. IsSide(srv) /\ srv.previous_versions = Nothing /\ srv.entries = Nothing
  BY <1>4, <1>5, SideParts
<1>7. DOMAIN Nothing = {}
  BY DEF Nothing
<1>8. ServerOK(srv)
  <2>1. IsFiniteSet(DOMAIN srv.entries)
    BY <1>6, <1>7, FS_EmptySet
  <2>2. QED
    BY <1>6, <1>7, <2>1 DEF ServerOK
<1>9. WireOK(wire)
  <2>1. << >> \in Seq({0}) /\ DOMAIN << >> = {}
    OBVIOUS
  <2>2. QED
    BY <1>2, <2>1 DEF WireOK
<1>10. VersionsLinked(wire, srv, cli, context_used)
  BY <1>1, <1>2, NothingSent DEF VersionsLinked
<1>11. ContextsLinked(wire, srv, cli, diverged)
  BY <1>1, <1>2, NothingSent DEF ContextsLinked
<1>12. QED
  BY <1>1, <1>6, <1>8, <1>9, <1>10, <1>11 DEF ExactInv

\* ... and every step keeps it.
LEMMA NextExact ==
  ASSUME ExactInv, [Next]_vars
  PROVE  ExactInv'
<1>1. ASSUME NEW item \in Items, NEW kind \in Kinds, BindSource(item, kind) PROVE ExactInv'
  BY <1>1, BindSourceInv
<1>2. ASSUME NEW item \in Items, NEW bytes \in Docs, EmitExact(item, bytes) PROVE ExactInv'
  BY <1>2, EmitExactInv
<1>3. ASSUME NEW item \in Items, NEW bytes \in Docs, EmitBatch(item, bytes) PROVE ExactInv'
  BY <1>3, EmitBatchInv
<1>4. ASSUME NEW item \in Items, NEW bytes \in Docs, StoreObject(item, bytes) PROVE ExactInv'
  BY <1>4, StoreObjectInv
<1>5. ASSUME NEW item \in Items, EvictItem(item) PROVE ExactInv'
  BY <1>5, EvictItemInv
<1>6. CASE Resync
  BY <1>6, ResyncInv
<1>7. CASE Apply
  BY <1>7, ApplyInv
<1>8. CASE UNCHANGED vars
  <2>1. wire' = wire /\ srv' = srv /\ cli' = cli /\ context_used' = context_used /\ diverged' = diverged
    BY <1>8 DEF vars
  <2>2. QED
    BY <2>1 DEF ExactInv
<1>9. QED
  BY <1>1, <1>2, <1>3, <1>4, <1>5, <1>6, <1>7, <1>8 DEF Next

----------------------------------------------------------------------------
(* Theorems. *)

\* The server's state is what the client's will be, item by item for the versions of
\* the exact path and as a whole for its context (emit_plain_exact_state_data and
\* apply_data_record).
THEOREM PathsConverge == Spec => []ExactInv
<1>1. Init => ExactInv
  BY InitExact
<1>2. ExactInv /\ [Next]_vars => ExactInv'
  BY NextExact
<1>3. QED
  BY <1>1, <1>2, PTL DEF Spec

\* Once no exact state of an item is under way, and the item was never sent with a
\* template, a dictionary or a delta that loses something, both ends have the same
\* version of it to compute the next delta from (previous_versions of
\* PlainServerState and ClientState).
THEOREM VersionsAgree == Spec => []VersionsInStep
<1>1. ExactInv => VersionsInStep
  <2>1. SUFFICES ASSUME ExactInv, NEW item \in Items, item \notin context_used,
                        ~ \E i \in DOMAIN wire : wire[i].type = "ExactState" /\ wire[i].item = item
                 PROVE  At(cli.previous_versions, item) = At(srv.previous_versions, item)
    BY DEF VersionsInStep
  <2> DEFINE x == At(cli.previous_versions, item)
             z == At(srv.previous_versions, item)
             w == wire
  <2>2. VersionPath(item, w, x, z)
    BY <2>1 DEF ExactInv, VersionsLinked
  <2>3. PICK S : w \in Seq(S)
    BY <2>1 DEF ExactInv, WireOK
  <2>4. \A i \in DOMAIN w : ~ (w[i].type = "ExactState" /\ w[i].item = item)
    BY <2>1
  <2> HIDE DEF x, z, w
  <2>5. x = z
    BY <2>2, <2>3, <2>4, VersionQuiet
  <2>6. QED
    BY <2>5 DEF x, z
<1>2. QED
  BY <1>1, PathsConverge, PTL

\* The client that has applied all there is has learnt what the server has, as long as
\* no batch, no lost source binding and no item stored wrongly has come between
\* (compress_exact_bytes and apply_data_record).
THEOREM ContextsAgree == Spec => []ContextsInStep
<1>1. ExactInv => ContextsInStep
  <2>1. SUFFICES ASSUME ExactInv, wire = << >>, ~ diverged PROVE cli.ctx = srv.ctx
    BY DEF ContextsInStep
  <2> DEFINE x == Learnt(cli)
             z == Learnt(srv)
  <2>2. ContextPath(<< >>, x, z)
    BY <2>1 DEF ExactInv, ContextsLinked
  <2> HIDE DEF x, z
  <2>3. x = z
    BY <2>2, ContextQuiet
  <2>4. QED
    BY <2>3 DEF x, z, Learnt
<1>2. QED
  BY <1>1, PathsConverge, PTL

\* An exact state is undone to the bytes the server was given whenever the client has
\* what it was made with: the version, the dictionary or the template
\* (compress_exact_bytes and decode_compressed_payload).
THEOREM DecodesExactly == Spec => []SharedContextDecodesExactly
<1>1. ExactInv => SharedContextDecodesExactly
  <2> DEFINE r == Head(wire)
             kind == KindOf(cli, r.item, r.kind)
             prev == At(cli.previous_versions, r.item)
             payload == r.payload
             sent == r.sent
             templates == r.templates
             ctx == cli.ctx
             Agreed ==
               CASE payload.tag = "Whole" -> TRUE
                 [] payload.tag = "Delta" -> prev = Done(sent.base) /\ Lossless(payload, sent)
                 [] payload.tag = "ZstdDict" -> ctx.dicts[kind] = payload.dict
                 [] payload.tag = "Template" ->
                      /\ payload.id \in DOMAIN ctx.templates
                      /\ ctx.templates[payload.id] = templates[payload.id]
                      /\ Reproduced(templates[payload.id], sent.bytes)
  <2>1. SUFFICES ASSUME ExactInv, wire # << >>, r.type = "ExactState", Agreed
                 PROVE  Results(cli, r) = {Done(sent.bytes)}
    BY Zenon DEF SharedContextDecodesExactly
  <2>2. Ready(ctx, kind, prev, payload, sent, templates)
    <3> HIDE DEF r, kind, prev, payload, sent, templates, ctx
    <3>1. QED
      BY <2>1 DEF Ready
  <2>3. WireOK(wire)
    BY <2>1 DEF ExactInv
  <2>4. Sent(r)
    BY <2>1, <2>3, WireTaken
  <2> HIDE DEF r
  <2>5. Carries(payload, sent, templates) /\ Versions(sent)
    BY <2>1, <2>4 DEF Sent
  <2>6. Results(cli, r) = decode_compressed_payload(ctx, kind, prev, payload)
    BY DEF Results
  <2> HIDE DEF kind, prev, payload, sent, templates, ctx
  <2>7. decode_compressed_payload(ctx, kind, prev, payload) = {Done(sent.bytes)}
    BY <2>2, <2>5, UndoneExactly
  <2>8. QED
    BY <2>6, <2>7
<1>2. QED
  BY <1>1, PathsConverge, PTL

\* The entries of the server after a step that is not an exact state: once the bound
\* is reached there are no more than before.
LEMMA BoundKept ==
  ASSUME ExactInv, [Next]_vars, ~ \E item \in Items, bytes \in Docs : EmitExact(item, bytes),
         Cardinality(DOMAIN srv.entries) >= MaxEntries
  PROVE  ~ (Cardinality(DOMAIN srv'.entries) > Cardinality(DOMAIN srv.entries))
<1> DEFINE D == DOMAIN srv.entries
           E == DOMAIN srv'.entries
           Same == Cardinality(E) <= Cardinality(D)
<1>1. ServerOK(srv) /\ IsSide(srv) /\ IsFiniteSet(D) /\ Cardinality(D) \in Nat
  BY FS_CardinalityType DEF ExactInv, ServerOK
<1>2. ServerOK(srv') /\ IsFiniteSet(E) /\ Cardinality(E) \in Nat
  <2>1. ExactInv'
    BY NextExact
  <2>2. ServerOK(srv')
    BY <2>1 DEF ExactInv
  <2>3. IsFiniteSet(E)
    BY <2>2 DEF ServerOK
  <2> HIDE DEF E
  <2>4. QED
    BY <2>2, <2>3, FS_CardinalityType
<1>3. ASSUME srv' = srv PROVE Same
  <2>1. E = D
    BY <1>3
  <2> HIDE DEF E, D
  <2>2. Cardinality(E) = Cardinality(D)
    BY <2>1
  <2>3. QED
    BY <1>1, <2>2
<1>4. ASSUME NEW item \in Items, NEW kind \in Kinds, BindSource(item, kind) PROVE Same
  <2> DEFINE b == Put(srv.source_bindings, item, kind)
  <2>1. srv' = [srv EXCEPT !.source_bindings = b]
    BY <1>4 DEF BindSource
  <2> HIDE DEF b
  <2>2. srv' = SideOf(srv.ctx, srv.previous_versions, b, srv.entries)
    BY <1>1, <2>1, SideChange
  <2>3. srv'.entries = srv.entries
    BY <2>2, SideParts
  <2>4. Cardinality(E) = Cardinality(D)
    BY <2>3
  <2> HIDE DEF D, E
  <2>5. QED
    BY <1>1, <2>4
<1>5. ASSUME NEW item \in Items, NEW bytes \in Docs, StoreObject(item, bytes) PROVE Same
  <2>1. PICK side \in Evicted(srv, item) : srv' = [side EXCEPT !.entries = Put(@, item, bytes)]
    BY <1>5 DEF StoreObject
  <2> DEFINE e == Put(side.entries, item, bytes)
             N == Cardinality(D)
  <2>2. /\ IsSide(side)
        /\ Cardinality(DOMAIN srv.entries) >= MaxEntries =>
              Cardinality(DOMAIN side.entries \cup {item}) <= Cardinality(DOMAIN srv.entries)
    BY <1>1, EvictedIs
  <2>3. srv' = [side EXCEPT !.entries = e]
    BY <2>1
  <2>4. DOMAIN e = DOMAIN side.entries \cup {item}
    BY DEF Put
  <2> HIDE DEF e
  <2>5. srv' = SideOf(side.ctx, side.previous_versions, side.source_bindings, e)
    BY <2>2, <2>3, SideChange
  <2>6. srv'.entries = e
    BY <2>5, SideParts
  <2>7. Cardinality(E) = Cardinality(DOMAIN side.entries \cup {item})
    BY <2>4, <2>6
  <2>8. Cardinality(DOMAIN side.entries \cup {item}) <= Cardinality(D)
    BY <2>2
  <2> HIDE DEF D, E
  <2>9. QED
    BY <2>7, <2>8
<1>6. ASSUME NEW item \in Items, EvictItem(item) PROVE Same
  <2> DEFINE e == Drop(srv.entries, item)
             b == Drop(srv.source_bindings, item)
  <2>1. srv' = Without(srv, item)
    BY <1>6 DEF EvictItem
  <2>2. srv' = SideOf(srv.ctx, srv.previous_versions, b, e)
    BY <1>1, <2>1, SideDrop
  <2>3. DOMAIN e \subseteq D
    BY DEF Drop
  <2> HIDE DEF e, b
  <2>4. srv'.entries = e
    BY <2>2, SideParts
  <2>5. E \subseteq D
    BY <2>3, <2>4
  <2> HIDE DEF D, E
  <2>6. QED
    BY <1>1, <2>5, FS_Subset
<1>7. Same
  <2>1. ASSUME NEW item \in Items, NEW bytes \in Docs, EmitBatch(item, bytes) PROVE Same
    BY <1>3, <2>1 DEF EmitBatch
  <2>2. CASE Resync
    BY <1>3, <2>2 DEF Resync
  <2>3. CASE Apply
    BY <1>3, <2>3 DEF Apply
  <2>4. CASE UNCHANGED vars
    BY <1>3, <2>4 DEF vars
  <2> HIDE DEF Same
  <2>5. QED
    BY <1>4, <1>5, <1>6, <2>1, <2>2, <2>3, <2>4 DEF Next
<1> HIDE DEF D, E
<1>8. ~ (Cardinality(E) > Cardinality(D))
  BY <1>1, <1>2, <1>7
<1>9. QED
  BY <1>8 DEF D, E

\* Once MAX_SERVER_ENTRIES is reached, only an exact state adds an entry
\* (maybe_evict_entries_for_insert, which emit_plain_exact_state_data does not call).
THEOREM BoundPassedByExactStates == Spec => OnlyExactStatesPassTheBound
<1>1. ExactInv /\ [Next]_vars =>
        ((Cardinality(DOMAIN srv.entries) >= MaxEntries
          /\ Cardinality(DOMAIN srv'.entries) > Cardinality(DOMAIN srv.entries))
           => \E item \in Items, bytes \in Docs : EmitExact(item, bytes))
  BY BoundKept
<1>2. QED
  BY <1>1, PathsConverge, PTL DEF Spec, OnlyExactStatesPassTheBound

----------------------------------------------------------------------------
(***************************************************************************)
(* Reconstruction graphs.                                                  *)
(***************************************************************************)
\* A function that obeys the equation of the walk, and one that obeys that of the levels.
Walks(graph, held, outputs, run) ==
  run = [active \in SUBSET DOMAIN graph.nodes |->
           [id \in DOMAIN graph.nodes |->
              IF WithinDepth(graph, active) /\ id \notin active
              THEN NodeWorth(graph, id, held, outputs, run[active \cup {id}])
              ELSE Failed]]

Climbs(graph, held, outputs, n, level) ==
  level = [k \in 0 .. n |->
             [id \in DOMAIN graph.nodes |->
                IF k = 0 THEN Failed ELSE NodeWorth(graph, id, held, outputs, level[k - 1])]]

\* A node is worth the same when what lies below it and has a worth keeps it.
LEMMA WorthKept ==
  ASSUME NEW graph, NEW held, NEW outputs, NEW id, NEW below, NEW other,
         \A c \in DOMAIN graph.nodes : below[c].ok => other[c] = below[c],
         NodeWorth(graph, id, held, outputs, below).ok
  PROVE  NodeWorth(graph, id, held, outputs, other) = NodeWorth(graph, id, held, outputs, below)
<1> DEFINE node == graph.nodes[id]
           children == Evaluated(node)
           Parts(b) == [i \in DOMAIN children |->
                          IF children[i] \in DOMAIN graph.nodes THEN b[children[i]] ELSE Failed]
           Value(b) == NodeValue(node, held, outputs, Parts(b))
           Worth(b) == IF Value(b).ok /\ (node.len # 0 => Len(Value(b).value) = node.len)
                       THEN Value(b) ELSE Failed
<1>1. \A b : NodeWorth(graph, id, held, outputs, b) = Worth(b)
  BY DEF NodeWorth
<1>2. SUFFICES Value(other) = Value(below)
  BY <1>1
<1>3. Value(below).ok
  BY <1>1 DEF Failed
<1>4. CASE Parts(other) = Parts(below)
  BY <1>4
<1>5. CASE Parts(other) # Parts(below)
  <2>1. PICK i \in DOMAIN children : Parts(below)[i] # Parts(other)[i]
    BY <1>5
  <2>2. ~ Parts(below)[i].ok
    BY <2>1 DEF Failed
  <2>3. ~ \A j \in DOMAIN Parts(below) : Parts(below)[j].ok
    BY <2>2
  <2> HIDE DEF Parts
  <2>4. \/ node.kind \in {"Literal", "SlotFill"} \/ node.kind = "Noop"
        \/ node.kind \in DOMAIN RefStore \/ node.kind = "SchemaRef"
    BY <1>3, <2>3 DEF NodeValue, Failed
  <2>5. QED
    BY <2>4 DEF NodeValue
<1>6. QED
  BY <1>4, <1>5

\* There is such a walk over any finite graph: every step of the path leaves one node less.
LEMMA WalkExists ==
  ASSUME NEW graph, NEW held, NEW outputs, IsFiniteSet(DOMAIN graph.nodes)
  PROVE  \E run : Walks(graph, held, outputs, run)
<1> DEFINE ids == DOMAIN graph.nodes
           Left(active) == Cardinality(ids \ active)
           Step(run, active) == [id \in ids |-> IF WithinDepth(graph, active) /\ id \notin active
                                                THEN NodeWorth(graph, id, held, outputs, run[active \cup {id}])
                                                ELSE Failed]
           Good(k) == \E run : /\ run = [active \in SUBSET ids |-> run[active]]
                               /\ \A active \in SUBSET ids : Left(active) <= k => run[active] = Step(run, active)
           S == {k \in Nat : Good(k)}
<1>1. \A active \in SUBSET ids : Left(active) \in Nat
  <2> TAKE active \in SUBSET ids
  <2>1. IsFiniteSet(ids \ active)
    BY FS_Subset, (ids \ active) \subseteq ids
  <2>2. QED
    BY <2>1, FS_CardinalityType
<1>2. \A active \in SUBSET ids, id \in ids : id \notin active => Left(active \cup {id}) = Left(active) - 1
  <2> TAKE active \in SUBSET ids, id \in ids
  <2>1. HAVE id \notin active
  <2>2. IsFiniteSet(ids \ active)
    BY FS_Subset, (ids \ active) \subseteq ids
  <2>3. ids \ (active \cup {id}) = (ids \ active) \ {id} /\ id \in ids \ active
    BY <2>1
  <2> DEFINE left == ids \ active
  <2>4. Cardinality(left \ {id}) = Cardinality(left) - 1
    <3>1. IsFiniteSet(left) /\ id \in left
      BY <2>2, <2>3
    <3> HIDE DEF left
    <3>2. QED
      BY <3>1, FS_RemoveElement
  <2>5. QED
    BY <2>3, <2>4
<1>3. 0 \in S
  <2> DEFINE run == [active \in SUBSET ids |-> [id \in ids |-> Failed]]
  <2>1. \A active \in SUBSET ids : Left(active) <= 0 => run[active] = Step(run, active)
    <3> TAKE active \in SUBSET ids
    <3>1. HAVE Left(active) <= 0
    <3>2. ids \ active = {}
      <4>1. Left(active) = 0
        <5> HIDE DEF Left
        <5>1. QED
          BY <1>1, <3>1
      <4>2. IsFiniteSet(ids \ active)
        BY FS_Subset, (ids \ active) \subseteq ids
      <4>3. QED
        BY <4>1, <4>2, FS_EmptySet
    <3>3. QED
      BY <3>2
  <2>2. run = [active \in SUBSET ids |-> run[active]]
    OBVIOUS
  <2>3. Good(0)
    BY <2>1, <2>2
  <2>4. QED
    BY <2>3
<1>4. \A k \in Nat : k \in S => k + 1 \in S
  <2> TAKE k \in Nat
  <2>1. HAVE k \in S
  <2>2. PICK run : /\ run = [active \in SUBSET ids |-> run[active]]
                   /\ \A active \in SUBSET ids : Left(active) <= k => run[active] = Step(run, active)
    BY <2>1
  <2> DEFINE more == [active \in SUBSET ids |-> IF Left(active) <= k THEN run[active] ELSE Step(run, active)]
  <2>3. \A active \in SUBSET ids : Left(active) <= k => more[active] = run[active]
    OBVIOUS
  <2>4. \A active \in SUBSET ids : Left(active) <= k + 1 => more[active] = Step(run, active)
    BY <2>2
  <2>5. \A active \in SUBSET ids : Left(active) <= k + 1 => Step(more, active) = Step(run, active)
    <3> TAKE active \in SUBSET ids
    <3>1. HAVE Left(active) <= k + 1
    <3>2. \A id \in ids : id \notin active => more[active \cup {id}] = run[active \cup {id}]
      <4> TAKE id \in ids
      <4>1. HAVE id \notin active
      <4> HIDE DEF Left, more
      <4>2. Left(active \cup {id}) <= k
        <5>1. Left(active) \in Nat /\ Left(active \cup {id}) = Left(active) - 1
          BY <1>1, <1>2, <4>1
        <5>2. QED
          BY <3>1, <5>1
      <4>3. QED
        BY <2>3, <4>2
    <3> HIDE DEF more, Left
    <3>3. QED
      BY <3>2
  <2>6. more = [active \in SUBSET ids |-> more[active]]
    OBVIOUS
  <2> HIDE DEF more, Left, Step
  <2>7. \A active \in SUBSET ids : Left(active) <= k + 1 => more[active] = Step(more, active)
    BY <2>4, <2>5
  <2>8. Good(k + 1)
    BY <2>6, <2>7
  <2>9. k + 1 \in Nat
    OBVIOUS
  <2> HIDE DEF Good
  <2>10. QED
    BY <2>8, <2>9
<1>5. Left({}) \in S
  <2> HIDE DEF S, Left
  <2>1. QED
    BY <1>1, <1>3, <1>4, NatSetInduction
<1>6. PICK run : /\ run = [active \in SUBSET ids |-> run[active]]
                 /\ \A active \in SUBSET ids : Left(active) <= Left({}) => run[active] = Step(run, active)
  BY <1>5
<1>7. \A active \in SUBSET ids : Left(active) <= Left({})
  <2> TAKE active \in SUBSET ids
  <2>1. ids \ active \subseteq ids \ {} /\ IsFiniteSet(ids \ {})
    OBVIOUS
  <2>2. QED
    BY <2>1, FS_Subset
<1>8. \A active \in SUBSET ids : run[active] = Step(run, active)
  BY <1>6, <1>7
<1>9. run = [active \in SUBSET ids |-> Step(run, active)]
  <2> HIDE DEF Step
  <2>1. QED
    BY <1>6, <1>8
<1>10. Walks(graph, held, outputs, run)
  BY <1>9 DEF Walks
<1>11. QED
  BY <1>10

\* There are levels as far up as one likes.
LEMMA LevelsExist ==
  ASSUME NEW graph, NEW held, NEW outputs, NEW n \in Nat
  PROVE  \E level : Climbs(graph, held, outputs, n, level)
<1> DEFINE ids == DOMAIN graph.nodes
           Up(below) == [id \in ids |-> NodeWorth(graph, id, held, outputs, below)]
           S == {k \in Nat : \E level : Climbs(graph, held, outputs, k, level)}
<1>1. 0 \in S
  <2> DEFINE level == [k \in 0 .. 0 |-> [id \in ids |-> Failed]]
  <2>1. Climbs(graph, held, outputs, 0, level)
    BY DEF Climbs
  <2>2. QED
    BY <2>1
<1>2. \A k \in Nat : k \in S => k + 1 \in S
  <2> TAKE k \in Nat
  <2>1. HAVE k \in S
  <2>2. PICK level : Climbs(graph, held, outputs, k, level)
    BY <2>1
  <2> DEFINE more == [j \in 0 .. k + 1 |-> IF j = k + 1 THEN Up(level[k]) ELSE level[j]]
             Rule(f, j) == [id \in ids |-> IF j = 0 THEN Failed ELSE NodeWorth(graph, id, held, outputs, f[j - 1])]
  <2>3. \A j \in 0 .. k : more[j] = level[j]
    OBVIOUS
  <2>4. \A j \in 0 .. k : level[j] = Rule(level, j)
    BY <2>2 DEF Climbs
  <2>5. \A j \in 0 .. k : more[j] = Rule(more, j)
    <3> TAKE j \in 0 .. k
    <3>1. j = 0 \/ j - 1 \in 0 .. k
      OBVIOUS
    <3>2. j # 0 => more[j - 1] = level[j - 1]
      BY <2>3, <3>1
    <3> HIDE DEF more
    <3>3. Rule(more, j) = Rule(level, j)
      BY <3>2
    <3>4. QED
      BY <2>3, <2>4, <3>3
  <2>6. more[k + 1] = Rule(more, k + 1)
    <3>1. more[k + 1] = Up(level[k]) /\ more[k] = level[k]
      OBVIOUS
    <3> HIDE DEF more
    <3>2. QED
      BY <3>1
  <2>7. more = [j \in 0 .. k + 1 |-> more[j]]
    OBVIOUS
  <2>8. \A j \in 0 .. k + 1 : more[j] = Rule(more, j)
    <3> HIDE DEF more, Rule
    <3>1. QED
      BY <2>5, <2>6
  <2>9. more = [j \in 0 .. k + 1 |-> Rule(more, j)]
    <3> HIDE DEF more, Rule
    <3>1. QED
      BY <2>7, <2>8
  <2>10. Climbs(graph, held, outputs, k + 1, more)
    <3> HIDE DEF more
    <3>1. QED
      BY <2>9 DEF Climbs
  <2>11. QED
    BY <2>10
<1>3. n \in S
  <2> HIDE DEF S
  <2>1. QED
    BY <1>1, <1>2, NatSetInduction
<1>4. QED
  BY <1>3

Rises(graph, n, level) ==
  \A k \in 0 .. n : k < n =>
    \A id \in DOMAIN graph.nodes : level[k][id].ok => level[k + 1][id] = level[k][id]

\* What a node is worth at one level it is worth at the next.
LEMMA LevelKept ==
  ASSUME NEW graph, NEW held, NEW outputs, NEW n \in Nat, NEW level, Climbs(graph, held, outputs, n, level)
  PROVE  Rises(graph, n, level)
<1> DEFINE ids == DOMAIN graph.nodes
           Stays(k) == k < n => \A id \in ids : level[k][id].ok => level[k + 1][id] = level[k][id]
           S == {k \in 0 .. n : Stays(k)}
<1>1. \A id \in ids : level[0][id] = Failed
  BY DEF Climbs
<1>2. \A k \in 0 .. n : k < n => \A id \in ids : level[k + 1][id] = NodeWorth(graph, id, held, outputs, level[k])
  BY DEF Climbs
<1>3. 0 \in S
  BY <1>1 DEF Failed
<1>4. \A k \in 0 .. n : k \in S /\ k < n => k + 1 \in S
  <2> TAKE k \in 0 .. n
  <2>1. HAVE k \in S /\ k < n
  <2>2. SUFFICES ASSUME k + 1 < n, NEW id \in ids, level[k + 1][id].ok
                 PROVE  level[k + 1 + 1][id] = level[k + 1][id]
    BY <2>1
  <2>3. level[k + 1][id] = NodeWorth(graph, id, held, outputs, level[k])
    BY <1>2, <2>1
  <2>4. level[k + 1 + 1][id] = NodeWorth(graph, id, held, outputs, level[k + 1])
    BY <1>2, <2>2
  <2>5. \A c \in DOMAIN graph.nodes : level[k][c].ok => level[k + 1][c] = level[k][c]
    BY <2>1
  <2>6. NodeWorth(graph, id, held, outputs, level[k]).ok
    BY <2>2, <2>3
  <2>7. NodeWorth(graph, id, held, outputs, level[k + 1]) = NodeWorth(graph, id, held, outputs, level[k])
    BY <2>5, <2>6, WorthKept
  <2>8. QED
    BY <2>3, <2>4, <2>7
<1>5. 0 .. n \subseteq S
  <2> HIDE DEF S
  <2>1. QED
    BY <1>3, <1>4, IntervalInduction
<1>6. QED
  BY <1>5 DEF Rises

\* The equation of the walk, node by node.
NodeWalks(graph, held, outputs, run) ==
  \A active \in SUBSET DOMAIN graph.nodes, id \in DOMAIN graph.nodes :
    IF WithinDepth(graph, active) /\ id \notin active
    THEN run[active][id] = NodeWorth(graph, id, held, outputs, run[active \cup {id}])
    ELSE run[active][id] = Failed

\* The depth cap of the graph leaves room for `top' nodes on a path.
Deep(graph, top) ==
  \A active \in SUBSET DOMAIN graph.nodes : WithinDepth(graph, active) <=> Cardinality(active) < top

\* A walk goes node by node.
LEMMA WalkStep ==
  ASSUME NEW graph, NEW held, NEW outputs, NEW run, Walks(graph, held, outputs, run)
  PROVE  NodeWalks(graph, held, outputs, run)
<1> USE DEF NodeWalks
<1> TAKE active \in SUBSET DOMAIN graph.nodes, id \in DOMAIN graph.nodes
<1> DEFINE ids == DOMAIN graph.nodes
           Row(x) == [i \in ids |-> IF WithinDepth(graph, x) /\ i \notin x
                                    THEN NodeWorth(graph, i, held, outputs, run[x \cup {i}]) ELSE Failed]
<1>1. run = [x \in SUBSET ids |-> Row(x)]
  BY DEF Walks
<1> HIDE DEF Row
<1>2. run[active] = Row(active)
  BY <1>1
<1> USE DEF Row
<1>3. Row(active)[id] = IF WithinDepth(graph, active) /\ id \notin active
                        THEN NodeWorth(graph, id, held, outputs, run[active \cup {id}]) ELSE Failed
  OBVIOUS
<1>4. QED
  BY <1>2, <1>3

\* What the walk makes of a node is what it is worth.
WalkedAreWorth(graph, run, level, top) ==
  \A k \in 0 .. top : \A active \in SUBSET DOMAIN graph.nodes, id \in DOMAIN graph.nodes :
    Cardinality(active) = top - k /\ run[active][id].ok => level[k][id] = run[active][id]

\* What the walk makes of a node it is worth at the level that the depth left over allows.
LEMMA WalkIsWorth ==
  ASSUME NEW graph, NEW held, NEW outputs, IsFiniteSet(DOMAIN graph.nodes),
         NEW top \in Nat, Deep(graph, top),
         NEW run, Walks(graph, held, outputs, run),
         NEW level, Climbs(graph, held, outputs, top, level)
  PROVE  WalkedAreWorth(graph, run, level, top)
<1> DEFINE ids == DOMAIN graph.nodes
           Agrees(k) == \A active \in SUBSET ids, id \in ids :
                          Cardinality(active) = top - k /\ run[active][id].ok => level[k][id] = run[active][id]
           S == {k \in 0 .. top : Agrees(k)}
<1>1. NodeWalks(graph, held, outputs, run)
  BY WalkStep
<1>2. \A k \in 0 .. top : k < top => \A id \in ids : level[k + 1][id] = NodeWorth(graph, id, held, outputs, level[k])
  BY DEF Climbs
<1>3. 0 \in S
  <2>1. SUFFICES ASSUME NEW active \in SUBSET ids, NEW id \in ids, Cardinality(active) = top - 0, run[active][id].ok
                 PROVE  FALSE
    OBVIOUS
  <2>2. ~ WithinDepth(graph, active)
    BY <2>1  DEF Deep
  <2>3. run[active][id] = Failed
    BY <1>1, <2>2 DEF NodeWalks
  <2>4. QED
    BY <2>1, <2>3 DEF Failed
<1>4. \A k \in 0 .. top : k \in S /\ k < top => k + 1 \in S
  <2> TAKE k \in 0 .. top
  <2>1. HAVE k \in S /\ k < top
  <2>2. SUFFICES ASSUME NEW active \in SUBSET ids, NEW id \in ids,
                        Cardinality(active) = top - (k + 1), run[active][id].ok
                 PROVE  level[k + 1][id] = run[active][id]
    BY <2>1
  <2>3. id \notin active /\ run[active][id] = NodeWorth(graph, id, held, outputs, run[active \cup {id}])
    BY <1>1, <2>2 DEF NodeWalks, Failed
  <2>4. Cardinality(active \cup {id}) = top - k
    <3>1. IsFiniteSet(active)
      BY FS_Subset
    <3>2. Cardinality(active \cup {id}) = Cardinality(active) + 1
      BY <2>3, <3>1, FS_AddElement
    <3>3. QED
      BY <2>2, <3>2
  <2> DEFINE beyond == run[active \cup {id}]
  <2>5. \A c \in DOMAIN graph.nodes : beyond[c].ok => level[k][c] = beyond[c]
    BY <2>1, <2>4
  <2>6. NodeWorth(graph, id, held, outputs, beyond).ok
    BY <2>2, <2>3
  <2>7. NodeWorth(graph, id, held, outputs, level[k]) = NodeWorth(graph, id, held, outputs, beyond)
    <3> HIDE DEF beyond
    <3>1. QED
      BY <2>5, <2>6, WorthKept
  <2>8. QED
    BY <1>2, <2>1, <2>3, <2>7
<1>5. 0 .. top \subseteq S
  <2> HIDE DEF S
  <2>1. QED
    BY <1>3, <1>4, IntervalInduction
<1>6. QED
  BY <1>5 DEF WalkedAreWorth

\* What a node is worth at a level the walk makes of it, unless something on the path is
\* worth as much at that level: a node is never reached through itself.
LEMMA WorthIsWalk ==
  ASSUME NEW graph, NEW held, NEW outputs, IsFiniteSet(DOMAIN graph.nodes),
         NEW top \in Nat, Deep(graph, top),
         NEW run, Walks(graph, held, outputs, run),
         NEW level, Climbs(graph, held, outputs, top, level)
  PROVE  \A k \in 0 .. top :
           \A active \in SUBSET DOMAIN graph.nodes, id \in DOMAIN graph.nodes :
             /\ Cardinality(active) <= top - k
             /\ \A a \in active : ~ level[k][a].ok
             /\ level[k][id].ok
             => run[active][id] = level[k][id]
<1> DEFINE ids == DOMAIN graph.nodes
           Agrees(k) == \A active \in SUBSET ids, id \in ids :
                          /\ Cardinality(active) <= top - k
                          /\ \A a \in active : ~ level[k][a].ok
                          /\ level[k][id].ok
                          => run[active][id] = level[k][id]
           S == {k \in 0 .. top : Agrees(k)}
<1>1. NodeWalks(graph, held, outputs, run)
  BY WalkStep
<1>2. \A k \in 0 .. top : k < top => \A id \in ids : level[k + 1][id] = NodeWorth(graph, id, held, outputs, level[k])
  BY DEF Climbs
<1>7. \A k \in 0 .. top : k < top =>
        \A id \in DOMAIN graph.nodes : level[k][id].ok => level[k + 1][id] = level[k][id]
  <2> HIDE DEF Agrees, S
  <2>1. Rises(graph, top, level)
    BY LevelKept
  <2>2. QED
    BY <2>1 DEF Rises
<1>3. 0 \in S
  <2>1. \A id \in ids : level[0][id] = Failed
    BY DEF Climbs
  <2>2. QED
    BY <2>1 DEF Failed
<1>4. \A k \in 0 .. top : k \in S /\ k < top => k + 1 \in S
  <2> TAKE k \in 0 .. top
  <2>1. HAVE k \in S /\ k < top
  <2>2. SUFFICES ASSUME NEW active \in SUBSET ids, NEW id \in ids,
                        Cardinality(active) <= top - (k + 1),
                        \A a \in active : ~ level[k + 1][a].ok,
                        level[k + 1][id].ok
                 PROVE  run[active][id] = level[k + 1][id]
    BY <2>1
  <2>3. \A c \in ids : level[k][c].ok => level[k + 1][c] = level[k][c]
    BY <1>7, <2>1
  <2>4. IsFiniteSet(active) /\ Cardinality(active) \in Nat
    BY FS_Subset, FS_CardinalityType
  <2>5. CASE level[k][id].ok
    <3>1. level[k + 1][id] = level[k][id]
      BY <2>3, <2>5
    <3>2. \A a \in active : ~ level[k][a].ok
      BY <2>2, <2>3
    <3>3. Cardinality(active) <= top - k
      BY <2>2, <2>4
    <3>4. QED
      BY <2>1, <2>5, <3>1, <3>2, <3>3
  <2>6. CASE ~ level[k][id].ok
    <3>1. id \notin active /\ Cardinality(active \cup {id}) <= top - k
      <4>1. id \notin active
        BY <2>2
      <4>2. Cardinality(active \cup {id}) = Cardinality(active) + 1
        BY <2>4, <4>1, FS_AddElement
      <4>3. QED
        BY <2>2, <2>4, <4>1, <4>2
    <3>2. WithinDepth(graph, active)
      BY <2>2, <2>4  DEF Deep
    <3>3. run[active][id] = NodeWorth(graph, id, held, outputs, run[active \cup {id}])
      BY <1>1, <3>1, <3>2 DEF NodeWalks
    <3>4. level[k + 1][id] = NodeWorth(graph, id, held, outputs, level[k])
      BY <1>2, <2>1
    <3>5. \A a \in active \cup {id} : ~ level[k][a].ok
      BY <2>2, <2>3, <2>6
    <3> DEFINE beyond == run[active \cup {id}]
    <3>6. \A c \in DOMAIN graph.nodes : level[k][c].ok => beyond[c] = level[k][c]
      BY <2>1, <3>1, <3>5
    <3>7. NodeWorth(graph, id, held, outputs, level[k]).ok
      BY <2>2, <3>4
    <3>8. NodeWorth(graph, id, held, outputs, beyond) = NodeWorth(graph, id, held, outputs, level[k])
      <4> HIDE DEF beyond
      <4>1. QED
        BY <3>6, <3>7, WorthKept
    <3>9. QED
      BY <3>3, <3>4, <3>8
  <2>7. QED
    BY <2>5, <2>6
<1>5. 0 .. top \subseteq S
  <2> HIDE DEF S
  <2>1. QED
    BY <1>3, <1>4, IntervalInduction
<1>6. QED
  BY <1>5

\* The walk makes of a graph what it is worth, whatever its nodes refer to.
LEMMA GraphWorth ==
  ASSUME NEW graph, IsFiniteSet(DOMAIN graph.nodes), graph.cap \in Nat
  PROVE  execute_prg(graph, Held, resolve_schema_output(Held)) = ByLevels(graph)
<1> DEFINE ids == DOMAIN graph.nodes
           top == graph.cap + 1
           outputs == resolve_schema_output(Held)
           Run == CHOOSE run : Walks(graph, Held, outputs, run)
           Level == CHOOSE level : Climbs(graph, Held, outputs, top, level)
<1>8. top \in Nat
  OBVIOUS
<1>0. Deep(graph, top)
  <2> USE DEF Deep
  <2> TAKE active \in SUBSET ids
  <2>1. Cardinality(active) \in Nat
    BY FS_Subset, FS_CardinalityType
  <2>2. QED
    BY <2>1 DEF WithinDepth
<1>1. Walks(graph, Held, outputs, Run)
  BY WalkExists
<1>2. Climbs(graph, Held, outputs, top, Level)
  BY LevelsExist
<1>3. execute_prg_nodes(graph, Held, outputs) = Run[{}]
  BY DEF execute_prg_nodes, Walks
<1>4. Levels(graph, Held, outputs) = Level
  BY DEF Levels, Climbs
<1>5. CASE graph.root \notin ids
  BY <1>5 DEF execute_prg, ByLevels
<1>6. CASE graph.root \in ids
  <2>1. Cardinality({}) = top - top /\ {} \in SUBSET ids /\ top \in 0 .. top
    BY FS_EmptySet
  <2> HIDE DEF Run, Level, outputs, top
  <2>5. WalkedAreWorth(graph, Run, Level, top)
    BY <1>0, <1>8, <1>1, <1>2, WalkIsWorth
  <2>2. Run[{}][graph.root].ok => Level[top][graph.root] = Run[{}][graph.root]
    BY <1>6, <2>1, <2>5 DEF WalkedAreWorth
  <2>3. Level[top][graph.root].ok => Run[{}][graph.root] = Level[top][graph.root]
    BY <1>0, <1>8, <1>1, <1>2, <1>6, <2>1, WorthIsWalk
  <2>4. QED
    BY <1>3, <1>4, <1>6, <2>2, <2>3 DEF execute_prg, ByLevels, outputs, top
<1>7. QED
  BY <1>5, <1>6

----------------------------------------------------------------------------
(* The loops of the encoders and decoders, turn by turn. *)

SumsDigits(bytes, last, n, out) ==
  /\ out[0] = 0
  /\ \A k \in 1 .. n : out[k] = bytes[last + 1 - k].digit + Digit * out[k - 1]

\* Digits are read from the highest down.
LEMMA DigitsRun ==
  ASSUME NEW bytes, NEW last, NEW n \in Nat
  PROVE  \E out : /\ SumsDigits(bytes, last, n, out)
                  /\ DigitsUpTo(bytes, last, n) = out[n]
<1> DEFINE Rule(f, k) == IF k = 0 THEN 0 ELSE bytes[last + 1 - k].digit + Digit * f[k - 1]
           Obeys(f, m) == f = [k \in 0 .. m |-> Rule(f, k)]
           S == {m \in Nat : \E f : Obeys(f, m)}
           out == CHOOSE f : Obeys(f, n)
<1>1. n \in Nat
  OBVIOUS
<1>2. 0 \in S
  <2> DEFINE f == [k \in 0 .. 0 |-> 0]
  <2>1. Obeys(f, 0)
    OBVIOUS
  <2>2. QED
    BY <2>1
<1>3. \A m \in Nat : m \in S => m + 1 \in S
  <2> TAKE m \in Nat
  <2>1. HAVE m \in S
  <2>2. PICK f : Obeys(f, m)
    BY <2>1
  <2> DEFINE g == [k \in 0 .. m + 1 |-> IF k = m + 1 THEN Rule(f, m + 1) ELSE f[k]]
  <2>3. \A k \in 0 .. m : g[k] = f[k]
    OBVIOUS
  <2>4. \A k \in 0 .. m + 1 : Rule(g, k) = Rule(f, k)
    <3> TAKE k \in 0 .. m + 1
    <3>1. k # 0 => k - 1 \in 0 .. m
      OBVIOUS
    <3>2. k # 0 => g[k - 1] = f[k - 1]
      BY <2>3, <3>1
    <3> HIDE DEF g
    <3>3. QED
      BY <3>2
  <2>5. \A k \in 0 .. m : f[k] = Rule(f, k)
    <3> HIDE DEF Rule
    <3>1. QED
      BY <2>2
  <2> HIDE DEF Rule
  <2>6. g = [k \in 0 .. m + 1 |-> Rule(f, k)]
    BY <2>5
  <2> HIDE DEF g
  <2>7. Obeys(g, m + 1)
    BY <2>4, <2>6
  <2> HIDE DEF Obeys
  <2>8. QED
    BY <2>7
<1>4. Obeys(out, n)
  <2> HIDE DEF S, Obeys
  <2>1. Nat \subseteq S
    BY <1>2, <1>3, NatSetInduction
  <2>2. \E f : Obeys(f, n)
    BY <1>1, <2>1 DEF S
  <2>3. QED
    BY <2>2
<1>5. DigitsUpTo(bytes, last, n) = out[n]
  BY DEF DigitsUpTo
<1> HIDE DEF out
<1>6. \A k \in 0 .. n : out[k] = Rule(out, k)
  <2> HIDE DEF Rule
  <2>1. QED
    BY <1>4
<1>7. SumsDigits(bytes, last, n, out)
  <2>1. Rule(out, 0) = 0 /\ 0 \in 0 .. n
    BY <1>1
  <2>2. ASSUME NEW k \in 1 .. n PROVE Rule(out, k) = bytes[last + 1 - k].digit + Digit * out[k - 1] /\ k \in 0 .. n
    BY <1>1
  <2> HIDE DEF Rule
  <2>3. QED
    BY <1>6, <2>1, <2>2 DEF SumsDigits
<1>8. QED
  BY <1>5, <1>7

PutsSparsely(residual, out) ==
  /\ out[0] = [last |-> 0, count |-> 0, bytes |-> <<>>]
  /\ \A k \in 1 .. Len(residual) : out[k] = SparsePut(residual, out[k - 1], k)

\* The sparse coding goes from place to place.
LEMMA EncodesSparsely ==
  ASSUME NEW T, NEW residual \in Seq(T)
  PROVE  \E out : /\ PutsSparsely(residual, out)
                  /\ encode_sparse_residual(residual)
                       = [tag |-> "sparse", count |-> out[Len(residual)].count, bytes |-> out[Len(residual)].bytes]
<1> DEFINE n == Len(residual)
           Rule(f, k) == IF k = 0 THEN [last |-> 0, count |-> 0, bytes |-> <<>>] ELSE SparsePut(residual, f[k - 1], k)
           Obeys(f, m) == f = [k \in 0 .. m |-> Rule(f, k)]
           S == {m \in Nat : \E f : Obeys(f, m)}
           out == CHOOSE f : Obeys(f, n)
<1>1. n \in Nat
  OBVIOUS
<1>2. 0 \in S
  <2> DEFINE f == [k \in 0 .. 0 |-> [last |-> 0, count |-> 0, bytes |-> <<>>]]
  <2>1. Obeys(f, 0)
    OBVIOUS
  <2>2. QED
    BY <2>1
<1>3. \A m \in Nat : m \in S => m + 1 \in S
  <2> TAKE m \in Nat
  <2>1. HAVE m \in S
  <2>2. PICK f : Obeys(f, m)
    BY <2>1
  <2> DEFINE g == [k \in 0 .. m + 1 |-> IF k = m + 1 THEN Rule(f, m + 1) ELSE f[k]]
  <2>3. \A k \in 0 .. m : g[k] = f[k]
    OBVIOUS
  <2>4. \A k \in 0 .. m + 1 : Rule(g, k) = Rule(f, k)
    <3> TAKE k \in 0 .. m + 1
    <3>1. k # 0 => k - 1 \in 0 .. m
      OBVIOUS
    <3>2. k # 0 => g[k - 1] = f[k - 1]
      BY <2>3, <3>1
    <3> HIDE DEF g
    <3>3. QED
      BY <3>2
  <2>5. \A k \in 0 .. m : f[k] = Rule(f, k)
    <3> HIDE DEF Rule
    <3>1. QED
      BY <2>2
  <2> HIDE DEF Rule
  <2>6. g = [k \in 0 .. m + 1 |-> Rule(f, k)]
    BY <2>5
  <2> HIDE DEF g
  <2>7. Obeys(g, m + 1)
    BY <2>4, <2>6
  <2> HIDE DEF Obeys
  <2>8. QED
    BY <2>7
<1>4. Obeys(out, n)
  <2> HIDE DEF S, Obeys, n
  <2>1. Nat \subseteq S
    BY <1>2, <1>3, NatSetInduction
  <2>2. \E f : Obeys(f, n)
    BY <1>1, <2>1 DEF S
  <2>3. QED
    BY <2>2
<1>5. encode_sparse_residual(residual)
                       = [tag |-> "sparse", count |-> out[Len(residual)].count, bytes |-> out[Len(residual)].bytes]
  BY DEF encode_sparse_residual
<1> HIDE DEF out
<1>6. \A k \in 0 .. n : out[k] = Rule(out, k)
  <2> HIDE DEF Rule, n
  <2>1. QED
    BY <1>4
<1>7. PutsSparsely(residual, out)
  <2>1. Rule(out, 0) = [last |-> 0, count |-> 0, bytes |-> <<>>] /\ 0 \in 0 .. n
    BY <1>1
  <2>2. ASSUME NEW k \in 1 .. n PROVE Rule(out, k) = SparsePut(residual, out[k - 1], k) /\ k \in 0 .. n
    BY <1>1
  <2> HIDE DEF Rule
  <2>3. QED
    BY <1>6, <2>1, <2>2 DEF PutsSparsely
<1>8. QED
  BY <1>5, <1>7

TakesSparsely(bytes, n, len, out) ==
  /\ out[0] = Done([index |-> 0, next |-> 1, residual |-> [i \in 1 .. len |-> 0]])
  /\ \A k \in 1 .. n : out[k] = SparseTake(bytes, len, out[k - 1])

\* Its decoding goes from one place written to the next.
LEMMA DecodesSparsely ==
  ASSUME NEW bytes, NEW n \in Nat, NEW len, NEW tag
  PROVE  \E out : /\ TakesSparsely(bytes, n, len, out)
                  /\ decode_sparse_residual([tag |-> tag, count |-> n, bytes |-> bytes], len)
                       = IF out[n].ok /\ out[n].value.next = Len(bytes) + 1 THEN Done(out[n].value.residual) ELSE Failed
<1> DEFINE Rule(f, k) == IF k = 0 THEN Done([index |-> 0, next |-> 1, residual |-> [i \in 1 .. len |-> 0]])
                         ELSE SparseTake(bytes, len, f[k - 1])
           Obeys(f, m) == f = [k \in 0 .. m |-> Rule(f, k)]
           S == {m \in Nat : \E f : Obeys(f, m)}
           out == CHOOSE f : Obeys(f, n)
<1>1. n \in Nat
  OBVIOUS
<1>2. 0 \in S
  <2> DEFINE f == [k \in 0 .. 0 |-> Done([index |-> 0, next |-> 1, residual |-> [i \in 1 .. len |-> 0]])]
  <2>1. Obeys(f, 0)
    OBVIOUS
  <2>2. QED
    BY <2>1
<1>3. \A m \in Nat : m \in S => m + 1 \in S
  <2> TAKE m \in Nat
  <2>1. HAVE m \in S
  <2>2. PICK f : Obeys(f, m)
    BY <2>1
  <2> DEFINE g == [k \in 0 .. m + 1 |-> IF k = m + 1 THEN Rule(f, m + 1) ELSE f[k]]
  <2>3. \A k \in 0 .. m : g[k] = f[k]
    OBVIOUS
  <2>4. \A k \in 0 .. m + 1 : Rule(g, k) = Rule(f, k)
    <3> TAKE k \in 0 .. m + 1
    <3>1. k # 0 => k - 1 \in 0 .. m
      OBVIOUS
    <3>2. k # 0 => g[k - 1] = f[k - 1]
      BY <2>3, <3>1
    <3> HIDE DEF g
    <3>3. QED
      BY <3>2
  <2>5. \A k \in 0 .. m : f[k] = Rule(f, k)
    <3> HIDE DEF Rule
    <3>1. QED
      BY <2>2
  <2> HIDE DEF Rule
  <2>6. g = [k \in 0 .. m + 1 |-> Rule(f, k)]
    BY <2>5
  <2> HIDE DEF g
  <2>7. Obeys(g, m + 1)
    BY <2>4, <2>6
  <2> HIDE DEF Obeys
  <2>8. QED
    BY <2>7
<1>4. Obeys(out, n)
  <2> HIDE DEF S, Obeys
  <2>1. Nat \subseteq S
    BY <1>2, <1>3, NatSetInduction
  <2>2. \E f : Obeys(f, n)
    BY <1>1, <2>1 DEF S
  <2>3. QED
    BY <2>2
<1>5. decode_sparse_residual([tag |-> tag, count |-> n, bytes |-> bytes], len)
                       = IF out[n].ok /\ out[n].value.next = Len(bytes) + 1 THEN Done(out[n].value.residual) ELSE Failed
  BY DEF decode_sparse_residual
<1> HIDE DEF out
<1>6. \A k \in 0 .. n : out[k] = Rule(out, k)
  <2> HIDE DEF Rule
  <2>1. QED
    BY <1>4
<1>7. TakesSparsely(bytes, n, len, out)
  <2>1. Rule(out, 0) = Done([index |-> 0, next |-> 1, residual |-> [i \in 1 .. len |-> 0]]) /\ 0 \in 0 .. n
    BY <1>1
  <2>2. ASSUME NEW k \in 1 .. n PROVE Rule(out, k) = SparseTake(bytes, len, out[k - 1]) /\ k \in 0 .. n
    BY <1>1
  <2> HIDE DEF Rule
  <2>3. QED
    BY <1>6, <2>1, <2>2 DEF TakesSparsely
<1>8. QED
  BY <1>5, <1>7

AddsRuns(data, out) ==
  /\ out[0] = <<>>
  /\ \A k \in 1 .. Len(data) : out[k] = RleAdd(out[k - 1], data[k])

\* Run-length coding goes from byte to byte.
LEMMA EncodesRuns ==
  ASSUME NEW T, NEW data \in Seq(T)
  PROVE  \E out : /\ AddsRuns(data, out)
                  /\ rle_encode(data) = out[Len(data)]
<1> DEFINE n == Len(data)
           Rule(f, k) == IF k = 0 THEN <<>> ELSE RleAdd(f[k - 1], data[k])
           Obeys(f, m) == f = [k \in 0 .. m |-> Rule(f, k)]
           S == {m \in Nat : \E f : Obeys(f, m)}
           out == CHOOSE f : Obeys(f, n)
<1>1. n \in Nat
  OBVIOUS
<1>2. 0 \in S
  <2> DEFINE f == [k \in 0 .. 0 |-> <<>>]
  <2>1. Obeys(f, 0)
    OBVIOUS
  <2>2. QED
    BY <2>1
<1>3. \A m \in Nat : m \in S => m + 1 \in S
  <2> TAKE m \in Nat
  <2>1. HAVE m \in S
  <2>2. PICK f : Obeys(f, m)
    BY <2>1
  <2> DEFINE g == [k \in 0 .. m + 1 |-> IF k = m + 1 THEN Rule(f, m + 1) ELSE f[k]]
  <2>3. \A k \in 0 .. m : g[k] = f[k]
    OBVIOUS
  <2>4. \A k \in 0 .. m + 1 : Rule(g, k) = Rule(f, k)
    <3> TAKE k \in 0 .. m + 1
    <3>1. k # 0 => k - 1 \in 0 .. m
      OBVIOUS
    <3>2. k # 0 => g[k - 1] = f[k - 1]
      BY <2>3, <3>1
    <3> HIDE DEF g
    <3>3. QED
      BY <3>2
  <2>5. \A k \in 0 .. m : f[k] = Rule(f, k)
    <3> HIDE DEF Rule
    <3>1. QED
      BY <2>2
  <2> HIDE DEF Rule
  <2>6. g = [k \in 0 .. m + 1 |-> Rule(f, k)]
    BY <2>5
  <2> HIDE DEF g
  <2>7. Obeys(g, m + 1)
    BY <2>4, <2>6
  <2> HIDE DEF Obeys
  <2>8. QED
    BY <2>7
<1>4. Obeys(out, n)
  <2> HIDE DEF S, Obeys, n
  <2>1. Nat \subseteq S
    BY <1>2, <1>3, NatSetInduction
  <2>2. \E f : Obeys(f, n)
    BY <1>1, <2>1 DEF S
  <2>3. QED
    BY <2>2
<1>5. rle_encode(data) = out[Len(data)]
  BY DEF rle_encode
<1> HIDE DEF out
<1>6. \A k \in 0 .. n : out[k] = Rule(out, k)
  <2> HIDE DEF Rule, n
  <2>1. QED
    BY <1>4
<1>7. AddsRuns(data, out)
  <2>1. Rule(out, 0) = <<>> /\ 0 \in 0 .. n
    BY <1>1
  <2>2. ASSUME NEW k \in 1 .. n PROVE Rule(out, k) = RleAdd(out[k - 1], data[k]) /\ k \in 0 .. n
    BY <1>1
  <2> HIDE DEF Rule
  <2>3. QED
    BY <1>6, <2>1, <2>2 DEF AddsRuns
<1>8. QED
  BY <1>5, <1>7

TakesDeltas(deltas, first, out) ==
  /\ out[0] = Done([values |-> <<first>>, next |-> 1])
  /\ \A k \in 1 .. Len(deltas) : out[k] = DeltaTake(deltas, out[k - 1])

\* The decoding of differences tries once for every byte at most.
LEMMA DecodesDeltas ==
  ASSUME NEW T, NEW deltas \in Seq(T), NEW first
  PROVE  \E out : /\ TakesDeltas(deltas, first, out)
                  /\ delta_u32_decode([first |-> Done(first), deltas |-> deltas])
                       = IF out[Len(deltas)].ok THEN Done(out[Len(deltas)].value.values) ELSE Failed
<1> DEFINE n == Len(deltas)
           Rule(f, k) == IF k = 0 THEN Done([values |-> <<first>>, next |-> 1]) ELSE DeltaTake(deltas, f[k - 1])
           Obeys(f, m) == f = [k \in 0 .. m |-> Rule(f, k)]
           S == {m \in Nat : \E f : Obeys(f, m)}
           out == CHOOSE f : Obeys(f, n)
<1>1. n \in Nat
  OBVIOUS
<1>2. 0 \in S
  <2> DEFINE f == [k \in 0 .. 0 |-> Done([values |-> <<first>>, next |-> 1])]
  <2>1. Obeys(f, 0)
    OBVIOUS
  <2>2. QED
    BY <2>1
<1>3. \A m \in Nat : m \in S => m + 1 \in S
  <2> TAKE m \in Nat
  <2>1. HAVE m \in S
  <2>2. PICK f : Obeys(f, m)
    BY <2>1
  <2> DEFINE g == [k \in 0 .. m + 1 |-> IF k = m + 1 THEN Rule(f, m + 1) ELSE f[k]]
  <2>3. \A k \in 0 .. m : g[k] = f[k]
    OBVIOUS
  <2>4. \A k \in 0 .. m + 1 : Rule(g, k) = Rule(f, k)
    <3> TAKE k \in 0 .. m + 1
    <3>1. k # 0 => k - 1 \in 0 .. m
      OBVIOUS
    <3>2. k # 0 => g[k - 1] = f[k - 1]
      BY <2>3, <3>1
    <3> HIDE DEF g
    <3>3. QED
      BY <3>2
  <2>5. \A k \in 0 .. m : f[k] = Rule(f, k)
    <3> HIDE DEF Rule
    <3>1. QED
      BY <2>2
  <2> HIDE DEF Rule
  <2>6. g = [k \in 0 .. m + 1 |-> Rule(f, k)]
    BY <2>5
  <2> HIDE DEF g
  <2>7. Obeys(g, m + 1)
    BY <2>4, <2>6
  <2> HIDE DEF Obeys
  <2>8. QED
    BY <2>7
<1>4. Obeys(out, n)
  <2> HIDE DEF S, Obeys, n
  <2>1. Nat \subseteq S
    BY <1>2, <1>3, NatSetInduction
  <2>2. \E f : Obeys(f, n)
    BY <1>1, <2>1 DEF S
  <2>3. QED
    BY <2>2
<1>5. delta_u32_decode([first |-> Done(first), deltas |-> deltas])
                       = IF out[Len(deltas)].ok THEN Done(out[Len(deltas)].value.values) ELSE Failed
  BY ZenonT(40) DEF delta_u32_decode, Done
<1> HIDE DEF out
<1>6. \A k \in 0 .. n : out[k] = Rule(out, k)
  <2> HIDE DEF Rule, n
  <2>1. QED
    BY <1>4
<1>7. TakesDeltas(deltas, first, out)
  <2>1. Rule(out, 0) = Done([values |-> <<first>>, next |-> 1]) /\ 0 \in 0 .. n
    BY <1>1
  <2>2. ASSUME NEW k \in 1 .. n PROVE Rule(out, k) = DeltaTake(deltas, out[k - 1]) /\ k \in 0 .. n
    BY <1>1
  <2> HIDE DEF Rule
  <2>3. QED
    BY <1>6, <2>1, <2>2 DEF TakesDeltas
<1>8. QED
  BY <1>5, <1>7

TakesRows(data, lengths, kinds, n, out) ==
  /\ out[0] = Done([at |-> 0, items |-> <<>>])
  /\ \A k \in 1 .. n : out[k] = RowTake(data, lengths, kinds, out[k - 1], k)

\* A batch is taken apart row by row.
LEMMA DecodesRows ==
  ASSUME NEW n \in Nat, NEW runs, NEW column, NEW data, delta_u32_decode(column).ok
  PROVE  \E out : /\ TakesRows(data, delta_u32_decode(column).value, rle_decode(runs), n, out)
                  /\ decode_batch([row_count |-> n, kinds |-> runs, lengths |-> column, data |-> data])
                       = IF out[n].ok THEN Done(out[n].value.items) ELSE Failed
<1> DEFINE Rule(f, k) == IF k = 0 THEN Done([at |-> 0, items |-> <<>>])
                         ELSE RowTake(data, delta_u32_decode(column).value, rle_decode(runs), f[k - 1], k)
           Obeys(f, m) == f = [k \in 0 .. m |-> Rule(f, k)]
           S == {m \in Nat : \E f : Obeys(f, m)}
           out == CHOOSE f : Obeys(f, n)
<1>1. n \in Nat
  OBVIOUS
<1>2. 0 \in S
  <2> DEFINE f == [k \in 0 .. 0 |-> Done([at |-> 0, items |-> <<>>])]
  <2>1. Obeys(f, 0)
    OBVIOUS
  <2>2. QED
    BY <2>1
<1>3. \A m \in Nat : m \in S => m + 1 \in S
  <2> TAKE m \in Nat
  <2>1. HAVE m \in S
  <2>2. PICK f : Obeys(f, m)
    BY <2>1
  <2> DEFINE g == [k \in 0 .. m + 1 |-> IF k = m + 1 THEN Rule(f, m + 1) ELSE f[k]]
  <2>3. \A k \in 0 .. m : g[k] = f[k]
    OBVIOUS
  <2>4. \A k \in 0 .. m + 1 : Rule(g, k) = Rule(f, k)
    <3> TAKE k \in 0 .. m + 1
    <3>1. k # 0 => k - 1 \in 0 .. m
      OBVIOUS
    <3>2. k # 0 => g[k - 1] = f[k - 1]
      BY <2>3, <3>1
    <3> HIDE DEF g
    <3>3. QED
      BY <3>2
  <2>5. \A k \in 0 .. m : f[k] = Rule(f, k)
    <3> HIDE DEF Rule
    <3>1. QED
      BY <2>2
  <2> HIDE DEF Rule
  <2>6. g = [k \in 0 .. m + 1 |-> Rule(f, k)]
    BY <2>5
  <2> HIDE DEF g
  <2>7. Obeys(g, m + 1)
    BY <2>4, <2>6
  <2> HIDE DEF Obeys
  <2>8. QED
    BY <2>7
<1>4. Obeys(out, n)
  <2> HIDE DEF S, Obeys
  <2>1. Nat \subseteq S
    BY <1>2, <1>3, NatSetInduction
  <2>2. \E f : Obeys(f, n)
    BY <1>1, <2>1 DEF S
  <2>3. QED
    BY <2>2
<1>5. decode_batch([row_count |-> n, kinds |-> runs, lengths |-> column, data |-> data])
                       = IF out[n].ok THEN Done(out[n].value.items) ELSE Failed
  BY DEF decode_batch
<1> HIDE DEF out
<1>6. \A k \in 0 .. n : out[k] = Rule(out, k)
  <2> HIDE DEF Rule
  <2>1. QED
    BY <1>4
<1>7. TakesRows(data, delta_u32_decode(column).value, rle_decode(runs), n, out)
  <2>1. Rule(out, 0) = Done([at |-> 0, items |-> <<>>]) /\ 0 \in 0 .. n
    BY <1>1
  <2>2. ASSUME NEW k \in 1 .. n
      PROVE Rule(out, k) = RowTake(data, delta_u32_decode(column).value, rle_decode(runs), out[k - 1], k) /\ k \in 0 .. n
    BY <1>1
  <2> HIDE DEF Rule
  <2>3. QED
    BY <1>6, <2>1, <2>2 DEF TakesRows
<1>8. QED
  BY <1>5, <1>7

TakesPayloads(fields, n, out) ==
  /\ out[0] = Done([at |-> 0, parts |-> <<>>])
  /\ \A k \in 1 .. n : out[k] = PayloadTake(fields, out[k - 1])

\* Joined payloads are taken apart one by one.
LEMMA SplitsPayloads ==
  ASSUME NEW fields, NEW n \in Nat
  PROVE  \E out : /\ TakesPayloads(fields, n, out)
                  /\ split_payloads([count |-> n, fields |-> fields])
                       = IF out[n].ok THEN Done(out[n].value.parts) ELSE Failed
<1> DEFINE Rule(f, k) == IF k = 0 THEN Done([at |-> 0, parts |-> <<>>]) ELSE PayloadTake(fields, f[k - 1])
           Obeys(f, m) == f = [k \in 0 .. m |-> Rule(f, k)]
           S == {m \in Nat : \E f : Obeys(f, m)}
           out == CHOOSE f : Obeys(f, n)
<1>1. n \in Nat
  OBVIOUS
<1>2. 0 \in S
  <2> DEFINE f == [k \in 0 .. 0 |-> Done([at |-> 0, parts |-> <<>>])]
  <2>1. Obeys(f, 0)
    OBVIOUS
  <2>2. QED
    BY <2>1
<1>3. \A m \in Nat : m \in S => m + 1 \in S
  <2> TAKE m \in Nat
  <2>1. HAVE m \in S
  <2>2. PICK f : Obeys(f, m)
    BY <2>1
  <2> DEFINE g == [k \in 0 .. m + 1 |-> IF k = m + 1 THEN Rule(f, m + 1) ELSE f[k]]
  <2>3. \A k \in 0 .. m : g[k] = f[k]
    OBVIOUS
  <2>4. \A k \in 0 .. m + 1 : Rule(g, k) = Rule(f, k)
    <3> TAKE k \in 0 .. m + 1
    <3>1. k # 0 => k - 1 \in 0 .. m
      OBVIOUS
    <3>2. k # 0 => g[k - 1] = f[k - 1]
      BY <2>3, <3>1
    <3> HIDE DEF g
    <3>3. QED
      BY <3>2
  <2>5. \A k \in 0 .. m : f[k] = Rule(f, k)
    <3> HIDE DEF Rule
    <3>1. QED
      BY <2>2
  <2> HIDE DEF Rule
  <2>6. g = [k \in 0 .. m + 1 |-> Rule(f, k)]
    BY <2>5
  <2> HIDE DEF g
  <2>7. Obeys(g, m + 1)
    BY <2>4, <2>6
  <2> HIDE DEF Obeys
  <2>8. QED
    BY <2>7
<1>4. Obeys(out, n)
  <2> HIDE DEF S, Obeys
  <2>1. Nat \subseteq S
    BY <1>2, <1>3, NatSetInduction
  <2>2. \E f : Obeys(f, n)
    BY <1>1, <2>1 DEF S
  <2>3. QED
    BY <2>2
<1>5. split_payloads([count |-> n, fields |-> fields])
                       = IF out[n].ok THEN Done(out[n].value.parts) ELSE Failed
  BY DEF split_payloads
<1> HIDE DEF out
<1>6. \A k \in 0 .. n : out[k] = Rule(out, k)
  <2> HIDE DEF Rule
  <2>1. QED
    BY <1>4
<1>7. TakesPayloads(fields, n, out)
  <2>1. Rule(out, 0) = Done([at |-> 0, parts |-> <<>>]) /\ 0 \in 0 .. n
    BY <1>1
  <2>2. ASSUME NEW k \in 1 .. n PROVE Rule(out, k) = PayloadTake(fields, out[k - 1]) /\ k \in 0 .. n
    BY <1>1
  <2> HIDE DEF Rule
  <2>3. QED
    BY <1>6, <2>1, <2>2 DEF TakesPayloads
<1>8. QED
  BY <1>5, <1>7

Weighs(layer, o, inputs, out) ==
  /\ out[0] = layer.bias[o]
  /\ \A k \in 1 .. Len(inputs) : out[k] = out[k - 1] + (inputs[k] - layer.input_zero) * layer.weights[o][k]

\* The inputs are weighed one after the other.
LEMMA WeighsInputs ==
  ASSUME NEW layer, NEW o, NEW T, NEW inputs \in Seq(T)
  PROVE  \E out : /\ Weighs(layer, o, inputs, out)
                  /\ Weighed(layer, o, inputs) = out[Len(inputs)]
<1> DEFINE n == Len(inputs)
           Rule(f, k) == IF k = 0 THEN layer.bias[o] ELSE f[k - 1] + (inputs[k] - layer.input_zero) * layer.weights[o][k]
           Obeys(f, m) == f = [k \in 0 .. m |-> Rule(f, k)]
           S == {m \in Nat : \E f : Obeys(f, m)}
           out == CHOOSE f : Obeys(f, n)
<1>1. n \in Nat
  OBVIOUS
<1>2. 0 \in S
  <2> DEFINE f == [k \in 0 .. 0 |-> layer.bias[o]]
  <2>1. Obeys(f, 0)
    OBVIOUS
  <2>2. QED
    BY <2>1
<1>3. \A m \in Nat : m \in S => m + 1 \in S
  <2> TAKE m \in Nat
  <2>1. HAVE m \in S
  <2>2. PICK f : Obeys(f, m)
    BY <2>1
  <2> DEFINE g == [k \in 0 .. m + 1 |-> IF k = m + 1 THEN Rule(f, m + 1) ELSE f[k]]
  <2>3. \A k \in 0 .. m : g[k] = f[k]
    OBVIOUS
  <2>4. \A k \in 0 .. m + 1 : Rule(g, k) = Rule(f, k)
    <3> TAKE k \in 0 .. m + 1
    <3>1. k # 0 => k - 1 \in 0 .. m
      OBVIOUS
    <3>2. k # 0 => g[k - 1] = f[k - 1]
      BY <2>3, <3>1
    <3> HIDE DEF g
    <3>3. QED
      BY <3>2
  <2>5. \A k \in 0 .. m : f[k] = Rule(f, k)
    <3> HIDE DEF Rule
    <3>1. QED
      BY <2>2
  <2> HIDE DEF Rule
  <2>6. g = [k \in 0 .. m + 1 |-> Rule(f, k)]
    BY <2>5
  <2> HIDE DEF g
  <2>7. Obeys(g, m + 1)
    BY <2>4, <2>6
  <2> HIDE DEF Obeys
  <2>8. QED
    BY <2>7
<1>4. Obeys(out, n)
  <2> HIDE DEF S, Obeys, n
  <2>1. Nat \subseteq S
    BY <1>2, <1>3, NatSetInduction
  <2>2. \E f : Obeys(f, n)
    BY <1>1, <2>1 DEF S
  <2>3. QED
    BY <2>2
<1>5. Weighed(layer, o, inputs) = out[Len(inputs)]
  BY DEF Weighed
<1> HIDE DEF out
<1>6. \A k \in 0 .. n : out[k] = Rule(out, k)
  <2> HIDE DEF Rule, n
  <2>1. QED
    BY <1>4
<1>7. Weighs(layer, o, inputs, out)
  <2>1. Rule(out, 0) = layer.bias[o] /\ 0 \in 0 .. n
    BY <1>1
  <2>2. ASSUME NEW k \in 1 .. n
      PROVE Rule(out, k) = out[k - 1] + (inputs[k] - layer.input_zero) * layer.weights[o][k] /\ k \in 0 .. n
    BY <1>1
  <2> HIDE DEF Rule
  <2>3. QED
    BY <1>6, <2>1, <2>2 DEF Weighs
<1>8. QED
  BY <1>5, <1>7

PassesLayers(layers, inputs, out) ==
  /\ out[0] = inputs
  /\ \A k \in 1 .. Len(layers) : out[k] = apply_layer(layers[k], out[k - 1])

\* Layers are applied one after the other.
LEMMA LayersRun ==
  ASSUME NEW T, NEW layers \in Seq(T), NEW inputs
  PROVE  \E out : /\ PassesLayers(layers, inputs, out)
                  /\ apply_layers(layers, inputs) = out[Len(layers)]
<1> DEFINE n == Len(layers)
           Rule(f, k) == IF k = 0 THEN inputs ELSE apply_layer(layers[k], f[k - 1])
           Obeys(f, m) == f = [k \in 0 .. m |-> Rule(f, k)]
           S == {m \in Nat : \E f : Obeys(f, m)}
           out == CHOOSE f : Obeys(f, n)
<1>1. n \in Nat
  OBVIOUS
<1>2. 0 \in S
  <2> DEFINE f == [k \in 0 .. 0 |-> inputs]
  <2>1. Obeys(f, 0)
    OBVIOUS
  <2>2. QED
    BY <2>1
<1>3. \A m \in Nat : m \in S => m + 1 \in S
  <2> TAKE m \in Nat
  <2>1. HAVE m \in S
  <2>2. PICK f : Obeys(f, m)
    BY <2>1
  <2> DEFINE g == [k \in 0 .. m + 1 |-> IF k = m + 1 THEN Rule(f, m + 1) ELSE f[k]]
  <2>3. \A k \in 0 .. m : g[k] = f[k]
    OBVIOUS
  <2>4. \A k \in 0 .. m + 1 : Rule(g, k) = Rule(f, k)
    <3> TAKE k \in 0 .. m + 1
    <3>1. k # 0 => k - 1 \in 0 .. m
      OBVIOUS
    <3>2. k # 0 => g[k - 1] = f[k - 1]
      BY <2>3, <3>1
    <3> HIDE DEF g
    <3>3. QED
      BY <3>2
  <2>5. \A k \in 0 .. m : f[k] = Rule(f, k)
    <3> HIDE DEF Rule
    <3>1. QED
      BY <2>2
  <2> HIDE DEF Rule
  <2>6. g = [k \in 0 .. m + 1 |-> Rule(f, k)]
    BY <2>5
  <2> HIDE DEF g
  <2>7. Obeys(g, m + 1)
    BY <2>4, <2>6
  <2> HIDE DEF Obeys
  <2>8. QED
    BY <2>7
<1>4. Obeys(out, n)
  <2> HIDE DEF S, Obeys, n
  <2>1. Nat \subseteq S
    BY <1>2, <1>3, NatSetInduction
  <2>2. \E f : Obeys(f, n)
    BY <1>1, <2>1 DEF S
  <2>3. QED
    BY <2>2
<1>5. apply_layers(layers, inputs) = out[Len(layers)]
  BY DEF apply_layers
<1> HIDE DEF out
<1>6. \A k \in 0 .. n : out[k] = Rule(out, k)
  <2> HIDE DEF Rule, n
  <2>1. QED
    BY <1>4
<1>7. PassesLayers(layers, inputs, out)
  <2>1. Rule(out, 0) = inputs /\ 0 \in 0 .. n
    BY <1>1
  <2>2. ASSUME NEW k \in 1 .. n PROVE Rule(out, k) = apply_layer(layers[k], out[k - 1]) /\ k \in 0 .. n
    BY <1>1
  <2> HIDE DEF Rule
  <2>3. QED
    BY <1>6, <2>1, <2>2 DEF PassesLayers
<1>8. QED
  BY <1>5, <1>7

----------------------------------------------------------------------------
(* Places in sequences. *)

\* What a sequence holds.
LEMMA Holds ==
  ASSUME NEW S, NEW s \in Seq(S)
  PROVE  \A i \in 1 .. Len(s) : s[i] \in S
OBVIOUS

\* The part lies in the sequence from a place on.
Occurs(part, s, at) ==
  /\ at \in Nat \ {0} /\ at + Len(part) - 1 <= Len(s)
  /\ \A i \in 1 .. Len(part) : s[at + i - 1] = part[i]

\* The sequence begins with another one.
Begins(a, s) == Len(a) <= Len(s) /\ \A i \in 1 .. Len(a) : s[i] = a[i]

\* Concatenation, element by element.
LEMMA ConcatParts ==
  ASSUME NEW S, NEW a \in Seq(S), NEW b \in Seq(S)
  PROVE  /\ a \o b \in Seq(S) /\ Len(a \o b) = Len(a) + Len(b)
         /\ Begins(a, a \o b)
         /\ Occurs(b, a \o b, Len(a) + 1)
<1>1. Len(a) \in Nat /\ Len(b) \in Nat
  OBVIOUS
<1>2. a \o b \in Seq(S) /\ Len(a \o b) = Len(a) + Len(b)
  BY ConcatProperties
<1>3. \A i \in 1 .. Len(a) + Len(b) : (a \o b)[i] = IF i <= Len(a) THEN a[i] ELSE b[i - Len(a)]
  BY ConcatProperties
<1>4. \A i \in 1 .. Len(a) : (a \o b)[i] = a[i]
  BY <1>1, <1>3
<1>5. ASSUME NEW i \in 1 .. Len(b) PROVE (a \o b)[Len(a) + 1 + i - 1] = b[i]
  <2>1. Len(a) + 1 + i - 1 \in 1 .. Len(a) + Len(b) /\ ~(Len(a) + 1 + i - 1 <= Len(a)) /\ Len(a) + 1 + i - 1 - Len(a) = i
    BY <1>1
  <2>2. QED
    BY <1>3, <2>1
<1>6. QED
  BY <1>1, <1>2, <1>4, <1>5 DEF Begins, Occurs

\* Where the parts of a concatenation end.
Offsets(ss, at) ==
  /\ at \in [0 .. Len(ss) -> Nat] /\ at[0] = 0
  /\ \A i \in 1 .. Len(ss) : at[i] = at[i - 1] + Len(ss[i])

\* Every part of a concatenation lies where the one before it ends.
Placed(ss, s, at) ==
  /\ Offsets(ss, at)
  /\ at[Len(ss)] = Len(s)
  /\ \A i \in 1 .. Len(ss) : at[i] <= Len(s) /\ Occurs(ss[i], s, at[i - 1] + 1)

\* What begins a sequence begins what that one begins.
LEMMA BeginsOn ==
  ASSUME NEW S, NEW a \in Seq(S), NEW b \in Seq(S), NEW c \in Seq(S), Begins(a, b), Begins(b, c)
  PROVE  Begins(a, c)
<1>1. Len(a) \in Nat /\ Len(b) \in Nat /\ Len(c) \in Nat
  OBVIOUS
<1>2. QED
  BY <1>1 DEF Begins

\* What lies in a sequence lies in what it begins.
LEMMA OccursOn ==
  ASSUME NEW S, NEW part \in Seq(S), NEW b \in Seq(S), NEW c \in Seq(S), NEW at, Occurs(part, b, at), Begins(b, c)
  PROVE  Occurs(part, c, at)
<1>1. Len(part) \in Nat /\ Len(b) \in Nat /\ Len(c) \in Nat
  OBVIOUS
<1>2. QED
  BY <1>1 DEF Begins, Occurs

\* Such places exist.
LEMMA FlattenPlaces ==
  ASSUME NEW S, NEW ss \in Seq(Seq(S))
  PROVE  /\ FlattenSeq(ss) \in Seq(S)
         /\ \E at : Placed(ss, FlattenSeq(ss), at)
<1>1. PICK n \in Nat : Len(ss) = n
  OBVIOUS
<1>2. PICK g \in [0 .. n -> Seq(S)] :
        /\ g[0] = << >>
        /\ \A i \in 1 .. n : g[i] = g[i - 1] \o ss[i]
        /\ FlattenSeq(ss) = g[n]
  BY <1>1, FlattenRun
<1>0. \A i \in 0 .. n : g[i] \in Seq(S)
  OBVIOUS
<1> DEFINE at == [i \in 0 .. n |-> Len(g[i])]
           Under(k) == \A i \in 0 .. k : Begins(g[i], g[k])
           T == {k \in 0 .. n : Under(k)}
<1>3. ASSUME NEW i \in 1 .. n
      PROVE  /\ i - 1 \in 0 .. n /\ i \in 0 .. n
             /\ g[i - 1] \in Seq(S) /\ g[i] \in Seq(S) /\ ss[i] \in Seq(S)
             /\ Len(g[i]) = Len(g[i - 1]) + Len(ss[i])
             /\ Begins(g[i - 1], g[i])
             /\ Occurs(ss[i], g[i], Len(g[i - 1]) + 1)
  <2>1. i - 1 \in 0 .. n /\ i \in 0 .. n
    BY <1>1
  <2>2. g[i - 1] \in Seq(S) /\ g[i] \in Seq(S) /\ ss[i] \in Seq(S)
    BY <1>0, <1>1, <2>1
  <2>3. g[i] = g[i - 1] \o ss[i]
    BY <1>2
  <2>4. QED
    BY <2>1, <2>2, <2>3, ConcatParts
<1>4. 0 .. n \subseteq T
  <2>1. 0 \in T
    BY <1>1, <1>2 DEF Begins
  <2>2. \A k \in 0 .. n : k \in T /\ k < n => k + 1 \in T
    <3> TAKE k \in 0 .. n
    <3>1. HAVE k \in T /\ k < n
    <3>2. k + 1 \in 1 .. n /\ k + 1 - 1 = k
      BY <1>1, <3>1
    <3>3. ASSUME NEW i \in 0 .. k + 1 PROVE Begins(g[i], g[k + 1])
      <4>0. i \in 0 .. n /\ g[i] \in Seq(S)
        BY <1>0, <1>1, <3>2
      <4>1. CASE i = k + 1
        BY <4>0, <4>1 DEF Begins
      <4>2. CASE i # k + 1
        <5>1. i \in 0 .. k
          BY <4>2
        <5>2. Begins(g[i], g[k])
          BY <3>1, <5>1
        <5>3. g[k] \in Seq(S) /\ g[k + 1] \in Seq(S) /\ Begins(g[k], g[k + 1])
          <6> DEFINE h == k + 1
          <6>1. /\ g[h - 1] \in Seq(S) /\ g[h] \in Seq(S)
                /\ Begins(g[h - 1], g[h])
            <7>1. h \in 1 .. n
              BY <3>2
            <7> HIDE DEF h
            <7>2. QED
              BY <1>3, <7>1
          <6>2. QED
            BY <3>2, <6>1
        <5>4. QED
          BY <4>0, <5>2, <5>3, BeginsOn
      <4>3. QED
        BY <4>1, <4>2
    <3>4. QED
      BY <3>2, <3>3
  <2> HIDE DEF T
  <2>3. QED
    BY <1>1, <2>1, <2>2, IntervalInduction
<1>5. Offsets(ss, at)
  <2>1. at \in [0 .. n -> Nat]
    BY <1>0
  <2>2. at[0] = 0
    BY <1>1, <1>2
  <2>3. \A i \in 1 .. n : at[i] = at[i - 1] + Len(ss[i])
    BY <1>3
  <2>4. QED
    BY <1>1, <2>1, <2>2, <2>3 DEF Offsets
<1>6. ASSUME NEW i \in 1 .. n PROVE at[i] <= Len(g[n]) /\ Occurs(ss[i], g[n], at[i - 1] + 1)
  <2>1. n \in T /\ n \in 0 .. n /\ g[n] \in Seq(S)
    BY <1>0, <1>1, <1>4
  <2>2. Begins(g[i], g[n])
    BY <1>3, <2>1
  <2>3. Occurs(ss[i], g[n], Len(g[i - 1]) + 1)
    BY <1>3, <2>1, <2>2, OccursOn
  <2>4. at[i] = Len(g[i]) /\ at[i - 1] = Len(g[i - 1])
    BY <1>3
  <2> HIDE DEF at
  <2>5. QED
    BY <2>2, <2>3, <2>4 DEF Begins
<1>7. at[n] = Len(g[n]) /\ g[n] \in Seq(S)
  BY <1>0, <1>1
<1>8. Placed(ss, g[n], at)
  <2> HIDE DEF at
  <2>1. QED
    BY <1>1, <1>5, <1>6, <1>7 DEF Placed
<1>9. QED
  <2>1. FlattenSeq(ss) = g[n]
    BY <1>2
  <2>2. \E b : Placed(ss, g[n], b)
    <3> HIDE DEF at
    <3>1. QED
      BY <1>8
  <2>3. QED
    BY <1>7, <2>1, <2>2

\* The part is what is cut out where it lies.
LEMMA CutOut ==
  ASSUME NEW S, NEW part \in Seq(S), NEW s \in Seq(S), NEW at, Occurs(part, s, at)
  PROVE  SubSeq(s, at, at + Len(part) - 1) = part
<1> DEFINE cut == SubSeq(s, at, at + Len(part) - 1)
<1>1. at \in Nat \ {0} /\ Len(part) \in Nat /\ Len(s) \in Nat /\ at + Len(part) - 1 <= Len(s)
  BY DEF Occurs
<1>2. cut \in Seq(S) /\ Len(cut) = Len(part) /\ \A i \in 1 .. Len(part) : cut[i] = s[at + i - 1]
  <2>1. PICK l \in Nat : l = Len(part)
    BY <1>1
  <2>2. \A i \in at .. at + l - 1 : s[i] \in S
    BY <1>1, <2>1
  <2>3. at \in Int /\ at + l - 1 \in Int /\ (at <= at + l - 1 <=> l > 0) /\ at + l - 1 - at + 1 = l
    BY <1>1
  <2>4. QED
    BY <2>1, <2>2, <2>3, SubSeqProperties
<1>3. \A i \in 1 .. Len(part) : cut[i] = part[i]
  BY <1>2 DEF Occurs
<1> HIDE DEF cut
<1>5. \A i \in 1 .. Len(cut) : cut[i] = part[i]
  BY <1>2, <1>3
<1>4. cut = part
  BY <1>2, <1>5, SeqEqual
<1>6. QED
  BY <1>4 DEF cut

----------------------------------------------------------------------------
(* Arithmetic of bytes. *)

\* Division with a remainder.
LEMMA Divided ==
  ASSUME NEW v \in Int, NEW d \in Nat \ {0}
  PROVE  /\ v \div d \in Int /\ v % d \in 0 .. d - 1
         /\ v = d * (v \div d) + (v % d)
OBVIOUS

\* There is one way to divide with a remainder.
LEMMA DividedOnce ==
  ASSUME NEW d \in Nat \ {0}, NEW q \in Int, NEW r \in 0 .. d - 1
  PROVE  (d * q + r) \div d = q /\ (d * q + r) % d = r
OBVIOUS

\* A quotient is smaller than what it comes from.
LEMMA QuotientSmaller ==
  ASSUME NEW v \in Nat, NEW d \in Nat \ {0, 1}, v >= d
  PROVE  v \div d \in Nat /\ v \div d < v
OBVIOUS

\* A number below the divisor is its own remainder.
LEMMA Small ==
  ASSUME NEW d \in Nat \ {0}, NEW r \in 0 .. d - 1
  PROVE  r % d = r
OBVIOUS

\* A difference that wraps is made up for by the sum that wraps.
LEMMA Undone ==
  ASSUME NEW d \in Nat \ {0}, NEW a \in 0 .. d - 1, NEW p \in 0 .. d - 1
  PROVE  (a - p) % d \in 0 .. d - 1 /\ (((a - p) % d) + p) % d = a
OBVIOUS

\* The least element of a set of numbers.
LEMMA MinIs ==
  ASSUME NEW S \in SUBSET Nat, NEW m \in S, \A i \in S : m <= i
  PROVE  Min(S) = m
<1>1. \E x \in S : \A y \in S : x <= y
  OBVIOUS
<1> DEFINE c == CHOOSE x \in S : \A y \in S : x <= y
<1>2. c \in S /\ \A y \in S : c <= y
  BY <1>1
<1>3. Min(S) = c
  BY DEF Min
<1> HIDE DEF c
<1>4. Min(S) <= m /\ m <= Min(S) /\ Min(S) \in Int /\ m \in Int
  BY <1>2, <1>3
<1>5. QED
  BY <1>4

----------------------------------------------------------------------------
(* Variable length integers. *)

VarDigit == [digit : Nat, more : BOOLEAN]

\* A digit after the other, the lowest first; val[k] is the value of the highest k.
Spells(enc, v) ==
  /\ enc \in Seq(VarDigit) /\ enc # <<>>
  /\ \A i \in 1 .. Len(enc) : enc[i].more <=> i < Len(enc)
  /\ \E val : /\ val[0] = 0 /\ val[Len(enc)] = v
              /\ \A k \in 1 .. Len(enc) : val[k] = enc[Len(enc) + 1 - k].digit + Digit * val[k - 1]

\* The spelling of a number is found from those of smaller ones.
LEMMA SpellsBySmaller ==
  ASSUME NEW value \in Nat
  PROVE  \E out : /\ \A v \in 0 .. value :
                        out[v] = IF v < Digit THEN <<[digit |-> v, more |-> FALSE]>>
                                 ELSE <<[digit |-> v % Digit, more |-> TRUE]>> \o out[v \div Digit]
                  /\ encode_varint(value) = out[value]
<1> DEFINE Rule(f, v) == IF v < Digit THEN <<[digit |-> v, more |-> FALSE]>>
                         ELSE <<[digit |-> v % Digit, more |-> TRUE]>> \o f[v \div Digit]
           Obeys(f, m) == f = [v \in 0 .. m |-> Rule(f, v)]
           S == {m \in Nat : \E f : Obeys(f, m)}
           out == CHOOSE f : Obeys(f, value)
<1>0. Digit \in Nat \ {0, 1}
  BY CodecAssumption
<1>2. 0 \in S
  <2> DEFINE f == [v \in 0 .. 0 |-> <<[digit |-> v, more |-> FALSE]>>]
  <2>1. \A v \in 0 .. 0 : Rule(f, v) = <<[digit |-> v, more |-> FALSE]>>
    <3> TAKE v \in 0 .. 0
    <3>1. v < Digit
      BY <1>0
    <3>2. QED
      BY <3>1
  <2> HIDE DEF Rule
  <2>3. f = [v \in 0 .. 0 |-> Rule(f, v)]
    BY <2>1
  <2>2. QED
    BY <2>3
<1>3. \A m \in Nat : m \in S => m + 1 \in S
  <2> TAKE m \in Nat
  <2>1. HAVE m \in S
  <2>2. PICK f : Obeys(f, m)
    BY <2>1
  <2> DEFINE g == [v \in 0 .. m + 1 |-> IF v = m + 1 THEN Rule(f, m + 1) ELSE f[v]]
  <2>3. \A v \in 0 .. m : g[v] = f[v]
    OBVIOUS
  <2>4. \A v \in 0 .. m + 1 : Rule(g, v) = Rule(f, v)
    <3> TAKE v \in 0 .. m + 1
    <3>1. v >= Digit => v \div Digit \in 0 .. m
      <4>1. v \in Nat
        OBVIOUS
      <4>2. QED
        BY <1>0, <4>1, QuotientSmaller
    <3>2. v >= Digit => g[v \div Digit] = f[v \div Digit]
      BY <2>3, <3>1
    <3> HIDE DEF g
    <3>3. QED
      BY <1>0, <3>2
  <2>5. \A v \in 0 .. m : f[v] = Rule(f, v)
    <3> HIDE DEF Rule
    <3>1. QED
      BY <2>2
  <2> HIDE DEF Rule
  <2>6. g = [v \in 0 .. m + 1 |-> Rule(f, v)]
    BY <2>5
  <2> HIDE DEF g
  <2>7. Obeys(g, m + 1)
    BY <2>4, <2>6
  <2> HIDE DEF Obeys
  <2>8. QED
    BY <2>7
<1>4. Obeys(out, value)
  <2> HIDE DEF S, Obeys
  <2>1. Nat \subseteq S
    BY <1>2, <1>3, NatSetInduction
  <2>2. \E f : Obeys(f, value)
    BY <2>1 DEF S
  <2>3. QED
    BY <2>2
<1>5. encode_varint(value) = out[value]
  BY DEF encode_varint
<1> HIDE DEF out
<1>6. \A v \in 0 .. value : out[v] = Rule(out, v)
  <2> HIDE DEF Rule
  <2>1. QED
    BY <1>4
<1>7. QED
  BY <1>5, <1>6

\* A digit in front of a spelling.
LEMMA SpellsOn ==
  ASSUME NEW v \in Nat, v >= Digit, NEW enc, Spells(enc, v \div Digit)
  PROVE  Spells(<<[digit |-> v % Digit, more |-> TRUE]>> \o enc, v)
<1>0. Digit \in Nat \ {0, 1}
  BY CodecAssumption
<1> DEFINE d == [digit |-> v % Digit, more |-> TRUE]
<1>1. d \in VarDigit
  BY <1>0 DEF VarDigit
<1>2. enc \in Seq(VarDigit) /\ enc # <<>> /\ (\A i \in 1 .. Len(enc) : enc[i].more <=> i < Len(enc))
  BY DEF Spells
<1>3. PICK n \in Nat : Len(enc) = n
  BY <1>2
<1>4. PICK val : /\ val[0] = 0 /\ val[n] = v \div Digit
                 /\ \A k \in 1 .. n : val[k] = enc[n + 1 - k].digit + Digit * val[k - 1]
  BY <1>3 DEF Spells
<1> DEFINE longer == <<d>> \o enc
           more == [k \in 0 .. n + 1 |-> IF k = n + 1 THEN v ELSE val[k]]
<1>5. /\ longer \in Seq(VarDigit) /\ Len(longer) = n + 1
      /\ longer[1] = d
      /\ \A i \in 2 .. n + 1 : longer[i] = enc[i - 1]
  <2> HIDE DEF d
  <2>1. <<d>> \in Seq(VarDigit) /\ Len(<<d>>) = 1 /\ <<d>>[1] = d
    BY <1>1
  <2>2. QED
    BY <1>2, <1>3, <2>1, ConcatProperties
<1>6. \A i \in 1 .. n + 1 : longer[i].more <=> i < n + 1
  <2> TAKE i \in 1 .. n + 1
  <2>1. CASE i = 1
    <3>1. n # 0
      BY <1>2, <1>3
    <3>2. QED
      BY <1>5, <2>1, <3>1
  <2>2. CASE i # 1
    <3>1. i \in 2 .. n + 1 /\ i - 1 \in 1 .. n
      BY <2>2
    <3> HIDE DEF longer
    <3>2. QED
      BY <1>2, <1>3, <1>5, <3>1
  <2>3. QED
    BY <2>1, <2>2
<1>7. ASSUME NEW k \in 1 .. n + 1 PROVE more[k] = longer[n + 1 + 1 - k].digit + Digit * more[k - 1]
  <2>1. CASE k = n + 1
    <3>1. more[k] = v /\ more[k - 1] = v \div Digit
      BY <1>4, <2>1
    <3>2. n + 1 + 1 - k = 1 /\ longer[1].digit = v % Digit
      BY <1>5, <2>1
    <3> HIDE DEF longer, more
    <3>3. v = Digit * (v \div Digit) + (v % Digit) /\ v \div Digit \in Int /\ v % Digit \in Int
      BY <1>0, Divided
    <3>4. QED
      BY <1>0, <3>1, <3>2, <3>3
  <2>2. CASE k # n + 1
    <3>1. k \in 1 .. n /\ n + 1 + 1 - k \in 2 .. n + 1 /\ n + 1 + 1 - k - 1 = n + 1 - k
      BY <2>2
    <3>2. more[k] = val[k] /\ more[k - 1] = val[k - 1]
      BY <3>1
    <3>3. longer[n + 1 + 1 - k] = enc[n + 1 - k]
      <4> HIDE DEF longer
      <4>1. QED
        BY <1>5, <3>1
    <3> HIDE DEF longer, more
    <3>4. QED
      BY <1>4, <3>1, <3>2, <3>3
  <2>3. QED
    BY <2>1, <2>2
<1>8. more[0] = 0 /\ more[n + 1] = v
  BY <1>4
<1>9. longer # <<>>
  <2> HIDE DEF longer
  <2>1. QED
    BY <1>5
<1>10. \E m : /\ m[0] = 0 /\ m[Len(longer)] = v
              /\ \A k \in 1 .. Len(longer) : m[k] = longer[Len(longer) + 1 - k].digit + Digit * m[k - 1]
  <2> HIDE DEF longer, more
  <2>1. QED
    BY <1>5, <1>7, <1>8
<1> HIDE DEF longer
<1>11. Spells(longer, v)
  BY <1>5, <1>6, <1>9, <1>10 DEF Spells
<1>12. QED
  BY <1>11 DEF longer

\* encode_varint spells the number.
LEMMA VarintSpells ==
  ASSUME NEW value \in Nat
  PROVE  Spells(encode_varint(value), value)
<1>0. Digit \in Nat \ {0, 1}
  BY CodecAssumption
<1>1. PICK out : /\ \A v \in 0 .. value :
                       out[v] = IF v < Digit THEN <<[digit |-> v, more |-> FALSE]>>
                                ELSE <<[digit |-> v % Digit, more |-> TRUE]>> \o out[v \div Digit]
                 /\ encode_varint(value) = out[value]
  BY SpellsBySmaller
<1> DEFINE S == {m \in 0 .. value : \A v \in 0 .. m : Spells(out[v], v)}
<1>2. ASSUME NEW v \in 0 .. value, v < Digit PROVE Spells(out[v], v)
  <2> DEFINE enc == <<[digit |-> v, more |-> FALSE]>>
             val == [k \in 0 .. 1 |-> IF k = 0 THEN 0 ELSE v]
  <2>1. enc \in Seq(VarDigit) /\ Len(enc) = 1 /\ enc # <<>> /\ enc[1].digit = v /\ enc[1].more = FALSE
    BY DEF VarDigit
  <2>2. val[0] = 0 /\ val[1] = v /\ v + Digit * 0 = v /\ v \in Nat
    BY <1>0
  <2>3. \A k \in 1 .. 1 : val[k] = enc[1 + 1 - k].digit + Digit * val[k - 1]
    BY <1>0, <2>1, <2>2
  <2>4. out[v] = enc
    BY <1>1, <1>2
  <2>5. val[0] = 0 /\ val[Len(enc)] = v
    BY <2>1, <2>2
  <2>6. \A k \in 1 .. Len(enc) : val[k] = enc[Len(enc) + 1 - k].digit + Digit * val[k - 1]
    BY <2>1, <2>3
  <2>7. \A i \in 1 .. Len(enc) : enc[i].more <=> i < Len(enc)
    BY <2>1
  <2> HIDE DEF enc, val
  <2>8. Spells(enc, v)
    BY <2>1, <2>5, <2>6, <2>7 DEF Spells
  <2>9. QED
    BY <2>4, <2>8
<1>3. 0 \in S
  <2>1. Spells(out[0], 0)
    BY <1>0, <1>2
  <2>2. QED
    BY <2>1
<1>4. \A m \in 0 .. value : m \in S /\ m < value => m + 1 \in S
  <2> TAKE m \in 0 .. value
  <2>1. HAVE m \in S /\ m < value
  <2> DEFINE v == m + 1
  <2>2. v \in 0 .. value /\ v \in Nat
    BY <2>1
  <2>3. CASE v < Digit
    <3>1. Spells(out[v], v)
      BY <1>2, <2>2, <2>3
    <3>2. QED
      BY <2>1, <2>2, <3>1
  <2>4. CASE v >= Digit
    <3>1. v \div Digit \in 0 .. m
      <4>1. v \div Digit \in Nat /\ v \div Digit < v
        BY <1>0, <2>2, <2>4, QuotientSmaller
      <4>2. QED
        BY <4>1
    <3>2. Spells(out[v \div Digit], v \div Digit)
      BY <2>1, <3>1
    <3>3. out[v] = <<[digit |-> v % Digit, more |-> TRUE]>> \o out[v \div Digit]
      <4>1. ~(v < Digit)
        BY <1>0, <2>2, <2>4
      <4> HIDE DEF v
      <4>2. QED
        BY <1>1, <2>2, <4>1
    <3>4. Spells(out[v], v)
      <4> HIDE DEF v
      <4>1. QED
        BY <2>2, <2>4, <3>2, <3>3, SpellsOn
    <3>5. QED
      BY <2>1, <2>2, <3>4
  <2>5. QED
    BY <1>0, <2>3, <2>4
<1>5. 0 .. value \subseteq S
  <2> HIDE DEF S
  <2>1. QED
    BY <1>3, <1>4, IntervalInduction
<1>6. value \in S
  BY <1>5
<1>7. QED
  BY <1>1, <1>6

\* What is spelt out in a sequence is read back, and reading ends behind it.
LEMMA VarintRead ==
  ASSUME NEW bytes, Len(bytes) \in Nat, DOMAIN bytes = 1 .. Len(bytes), NEW enc, NEW v, Spells(enc, v), Len(enc) <= MAX_DIGITS,
         NEW at, Occurs(enc, bytes, at)
  PROVE  decode_varint(bytes, at) = Done([next |-> at + Len(enc), value |-> v])
<1>1. PICK n \in Nat : Len(enc) = n
  BY DEF Spells
<1>2. n # 0 /\ (\A i \in 1 .. n : enc[i].more <=> i < n) /\ n <= MAX_DIGITS /\ MAX_DIGITS \in Nat
  BY <1>1, CodecAssumption DEF Spells
<1>3. /\ at \in Nat \ {0} /\ at + n - 1 <= Len(bytes)
      /\ \A i \in 1 .. n : bytes[at + i - 1] = enc[i]
  BY <1>1 DEF Occurs
<1> DEFINE ends == {i \in DOMAIN bytes : at <= i /\ i < at + MAX_DIGITS /\ ~ bytes[i].more}
           last == at + n - 1
<1>4. last \in ends
  <2>1. last \in 1 .. Len(bytes) /\ last < at + MAX_DIGITS /\ at <= last
    BY <1>2, <1>3
  <2>2. bytes[last] = enc[n] /\ n \in 1 .. n
    BY <1>2, <1>3
  <2>3. QED
    BY <1>2, <2>1, <2>2
<1>5. \A i \in ends : last <= i
  <2> SUFFICES ASSUME NEW i \in ends, i < last PROVE FALSE
    BY <1>3
  <2>1. i \in Nat /\ at <= i /\ ~ bytes[i].more
    OBVIOUS
  <2>2. i - at + 1 \in 1 .. n /\ at + (i - at + 1) - 1 = i /\ i - at + 1 < n
    BY <1>3, <2>1
  <2>3. bytes[i] = enc[i - at + 1]
    BY <1>3, <2>2
  <2>4. QED
    BY <1>2, <2>1, <2>2, <2>3
<1>6. ends \in SUBSET Nat
  OBVIOUS
<1>7. Min(ends) = last
  <2> HIDE DEF ends, last
  <2>1. QED
    BY <1>4, <1>5, <1>6, MinIs
<1>8. last + 1 = at + n /\ last + 1 - at = n
  BY <1>3
<1>11. last = at + n - 1
  OBVIOUS
<1>9. DigitsUpTo(bytes, last, n) = v
  <2> HIDE DEF last
  <2>1. PICK val : /\ val[0] = 0 /\ val[n] = v
                   /\ \A k \in 1 .. n : val[k] = enc[n + 1 - k].digit + Digit * val[k - 1]
    BY <1>1 DEF Spells
  <2>7. PICK out : SumsDigits(bytes, last, n, out) /\ DigitsUpTo(bytes, last, n) = out[n]
    BY DigitsRun
  <2>2. /\ out[0] = 0
        /\ \A k \in 1 .. n : out[k] = bytes[last + 1 - k].digit + Digit * out[k - 1]
        /\ DigitsUpTo(bytes, last, n) = out[n]
    BY <2>7 DEF SumsDigits
  <2> DEFINE S == {k \in 0 .. n : out[k] = val[k]}
  <2>3. 0 \in S
    BY <2>1, <2>2
  <2>4. \A k \in 0 .. n : k \in S /\ k < n => k + 1 \in S
    <3> TAKE k \in 0 .. n
    <3>1. HAVE k \in S /\ k < n
    <3>2. k + 1 \in 1 .. n /\ k + 1 - 1 = k /\ n + 1 - (k + 1) \in 1 .. n /\ last + 1 - (k + 1) = at + (n + 1 - (k + 1)) - 1
      BY <1>3, <1>11, <3>1
    <3>3. bytes[last + 1 - (k + 1)] = enc[n + 1 - (k + 1)]
      BY <1>3, <3>2
    <3>4. out[k + 1] = val[k + 1]
      <4>1. out[k + 1] = bytes[last + 1 - (k + 1)].digit + Digit * out[k]
        BY <2>2, <3>2
      <4>2. val[k + 1] = enc[n + 1 - (k + 1)].digit + Digit * val[k]
        BY <2>1, <3>2
      <4>3. QED
        BY <3>1, <3>3, <4>1, <4>2
    <3>5. QED
      BY <3>1, <3>4
  <2>5. 0 .. n \subseteq S
    <3> HIDE DEF S
    <3>1. QED
      BY <2>3, <2>4, IntervalInduction
  <2>6. QED
    BY <2>1, <2>2, <2>5
<1>10. QED
  <2> HIDE DEF last
  <2>1. decode_varint(bytes, at) = Done([next |-> Min(ends) + 1, value |-> DigitsUpTo(bytes, Min(ends), Min(ends) + 1 - at)])
    BY <1>4 DEF decode_varint
  <2>2. QED
    BY <1>1, <1>7, <1>8, <1>9, <2>1

----------------------------------------------------------------------------
(* Residuals. *)

Octets == 0 .. Byte - 1

SignedOctets == {Signed(x) : x \in Octets}

\* Every number that is coded as a varint has few enough digits.
VarintsFit == \A v \in 0 .. U32 - 1 : Len(encode_varint(v)) <= MAX_DIGITS

\* A signed byte is what its byte says.
LEMMA SignedBack ==
  /\ \A x \in Octets : Signed(x) \in Int /\ Signed(x) % Byte = x
  /\ \A r \in SignedOctets : r \in Int /\ r % Byte \in Octets /\ Signed(r % Byte) = r
<1>0. Byte \in Nat \ {0}
  BY CodecAssumption
<1>1. ASSUME NEW x \in Octets PROVE Signed(x) \in Int /\ Signed(x) % Byte = x
  <2>1. x \in 0 .. Byte - 1 /\ x % Byte = x
    BY <1>0, Small DEF Octets
  <2>2. (x - Byte) % Byte = x
    BY <1>0, <2>1
  <2>3. QED
    BY <1>0, <2>1, <2>2 DEF Signed
<1>2. QED
  BY <1>1 DEF SignedOctets

\* Reversed twice, a sequence is what it was.
LEMMA ReversedTwice ==
  ASSUME NEW S, NEW s \in Seq(S)
  PROVE  /\ Reverse(s) \in Seq(S) /\ Len(Reverse(s)) = Len(s)
         /\ Reverse(Reverse(s)) = s
<1>1. PICK n \in Nat : Len(s) = n
  OBVIOUS
<1>2. Reverse(s) = [i \in 1 .. n |-> s[n - i + 1]]
  BY <1>1 DEF Reverse
<1>3. \A i \in 1 .. n : n - i + 1 \in 1 .. n /\ n - (n - i + 1) + 1 = i
  OBVIOUS
<1> DEFINE r == [i \in 1 .. n |-> s[n - i + 1]]
<1>4. r \in Seq(S) /\ Len(r) = n
  BY <1>1, <1>3
<1>5. \A i \in 1 .. n : r[n - i + 1] = s[i]
  BY <1>3
<1>6. Reverse(r) = [i \in 1 .. n |-> r[n - i + 1]]
  <2> HIDE DEF r
  <2>1. QED
    BY <1>4 DEF Reverse
<1>7. Reverse(r) = s
  <2> HIDE DEF r
  <2>1. Reverse(r) = [i \in 1 .. n |-> s[i]]
    BY <1>5, <1>6
  <2>2. s = [i \in 1 .. n |-> s[i]]
    BY <1>1
  <2>3. QED
    BY <2>1, <2>2
<1>8. QED
  <2> HIDE DEF r
  <2>1. Reverse(s) = r
    BY <1>2 DEF r
  <2>2. QED
    BY <1>1, <1>4, <1>7, <2>1

\* The entropy coder gives its symbols back.
LEMMA SymbolsBack ==
  ASSUME NEW S, NEW s \in Seq(S), NEW n, n = Len(s)
  PROVE  decode_ans_symbols(encode_ans_symbols(s), n) = Done(s)
BY ReversedTwice DEF decode_ans_symbols, encode_ans_symbols

\* The residual up to a place, and nothing behind it.
KeptUpTo(residual, k) == [i \in 1 .. Len(residual) |-> IF i <= k THEN residual[i] ELSE 0]

\* What the decoder of a sparse residual has read when the encoder has written `out'.
Reads(residual, out, k) ==
  Done([index |-> out.last, next |-> Len(out.bytes) + 1, residual |-> KeptUpTo(residual, k)])

SparseState(k) == [last : 0 .. k, count : Nat, bytes : Seq(VarDigit)]

\* What is put for a place.
LEMMA SparsePutIs ==
  ASSUME NEW residual \in Seq(SignedOctets), NEW i \in 1 .. Len(residual), NEW out \in SparseState(i - 1)
  PROVE  /\ SparsePut(residual, out, i) \in SparseState(i)
         /\ Begins(out.bytes, SparsePut(residual, out, i).bytes)
         /\ residual[i] = 0 => SparsePut(residual, out, i) = out
         /\ residual[i] # 0 =>
              LET gap == encode_varint(SparseGap(out.last, i))
                  put == SparsePut(residual, out, i)
              IN  /\ put.last = i /\ put.count = out.count + 1
                  /\ Len(put.bytes) = Len(out.bytes) + Len(gap) + 1
                  /\ Occurs(gap, put.bytes, Len(out.bytes) + 1)
                  /\ put.bytes[Len(out.bytes) + Len(gap) + 1].digit = residual[i] % Byte
<1>1. /\ out.last \in 0 .. i - 1 /\ out.count \in Nat /\ out.bytes \in Seq(VarDigit)
      /\ i \in Nat /\ residual[i] \in SignedOctets
  BY DEF SparseState
<1>2. CASE residual[i] = 0
  <2>1. SparsePut(residual, out, i) = out
    BY <1>2 DEF SparsePut
  <2>2. out \in SparseState(i)
    BY <1>1 DEF SparseState
  <2>3. Begins(out.bytes, out.bytes)
    BY <1>1 DEF Begins
  <2>4. QED
    BY <1>2, <2>1, <2>2, <2>3
<1>3. CASE residual[i] # 0
  <2> DEFINE gap == encode_varint(SparseGap(out.last, i))
             value == [digit |-> residual[i] % Byte, more |-> FALSE]
             part == gap \o <<value>>
             put == SparsePut(residual, out, i)
  <2>1. SparseGap(out.last, i) \in Nat
    BY <1>1 DEF SparseGap
  <2>2. gap \in Seq(VarDigit)
    BY <2>1, VarintSpells DEF Spells
  <2>3. value \in VarDigit
    BY <1>1, SignedBack DEF VarDigit, Octets
  <2>4. put = [last |-> i, count |-> out.count + 1, bytes |-> out.bytes \o part]
    BY <1>3 DEF SparsePut
  <2> HIDE DEF gap, value, put
  <2>5. <<value>> \in Seq(VarDigit) /\ Len(<<value>>) = 1 /\ <<value>>[1] = value
    BY <2>3
  <2>6. /\ part \in Seq(VarDigit) /\ Len(part) = Len(gap) + 1
        /\ Begins(gap, part) /\ Occurs(<<value>>, part, Len(gap) + 1)
    BY <2>2, <2>5, ConcatParts
  <2>7. part[Len(gap) + 1] = value
    BY <2>2, <2>5, <2>6 DEF Occurs
  <2> HIDE DEF part
  <2>8. /\ put.bytes \in Seq(VarDigit) /\ Len(put.bytes) = Len(out.bytes) + Len(part)
        /\ Begins(out.bytes, put.bytes) /\ Occurs(part, put.bytes, Len(out.bytes) + 1)
    BY <1>1, <2>4, <2>6, ConcatParts
  <2>9. Len(out.bytes) \in Nat /\ Len(gap) \in Nat /\ Len(part) = Len(gap) + 1
    BY <1>1, <2>2, <2>6
  <2>17. PICK o \in Nat, g \in Nat : Len(out.bytes) = o /\ Len(gap) = g /\ Len(part) = g + 1 /\ Len(put.bytes) = o + (g + 1)
    BY <2>8, <2>9
  <2>10. Occurs(gap, put.bytes, Len(out.bytes) + 1)
    <3>1. \A j \in 1 .. g : put.bytes[o + 1 + j - 1] = gap[j]
      <4> TAKE j \in 1 .. g
      <4>1. j \in 1 .. g + 1
        OBVIOUS
      <4>2. put.bytes[o + 1 + j - 1] = part[j]
        BY <2>8, <2>17, <4>1 DEF Occurs
      <4>3. part[j] = gap[j]
        BY <2>6, <2>17 DEF Begins
      <4>4. QED
        BY <4>2, <4>3
    <3>2. o + 1 \in Nat \ {0} /\ o + 1 + g - 1 <= o + (g + 1)
      OBVIOUS
    <3>3. QED
      BY <2>17, <3>1, <3>2 DEF Occurs
  <2>11. put.bytes[Len(out.bytes) + Len(gap) + 1] = value
    <3>1. Len(part) \in 1 .. Len(part) /\ Len(out.bytes) + 1 + Len(part) - 1 = Len(out.bytes) + Len(gap) + 1
      BY <2>9
    <3>2. put.bytes[Len(out.bytes) + 1 + Len(part) - 1] = part[Len(part)]
      BY <2>8, <3>1 DEF Occurs
    <3>3. QED
      BY <2>7, <2>9, <3>1, <3>2
  <2>12. put \in SparseState(i)
    <3>1. i \in 0 .. i /\ out.count + 1 \in Nat
      BY <1>1
    <3>2. put.bytes = out.bytes \o part
      BY <2>4
    <3>3. QED
      BY <2>4, <2>8, <3>1, <3>2 DEF SparseState
  <2>13. value.digit = residual[i] % Byte
    BY DEF value
  <2>14. Len(put.bytes) = Len(out.bytes) + Len(gap) + 1
    BY <2>17
  <2>15. put.last = i /\ put.count = out.count + 1
    BY <2>4
  <2>16. QED
    BY <1>3, <2>8, <2>10, <2>11, <2>12, <2>13, <2>14, <2>15 DEF put, gap
<1>4. QED
  BY <1>2, <1>3

\* The decoder takes what was put.
LEMMA SparseTakeIs ==
  ASSUME VarintsFit, NEW residual \in Seq(SignedOctets), Len(residual) <= U32, NEW i \in 1 .. Len(residual),
         residual[i] # 0, NEW out \in SparseState(i - 1),
         NEW bytes \in Seq(VarDigit), Begins(SparsePut(residual, out, i).bytes, bytes)
  PROVE  SparseTake(bytes, Len(residual), Reads(residual, out, i - 1)) = Reads(residual, SparsePut(residual, out, i), i)
<1> DEFINE put == SparsePut(residual, out, i)
           gap == encode_varint(SparseGap(out.last, i))
           next == Len(out.bytes) + 1
<1>1. /\ out.last \in 0 .. i - 1 /\ out.bytes \in Seq(VarDigit) /\ Len(out.bytes) \in Nat
      /\ Len(residual) \in Nat /\ Len(bytes) \in Nat /\ U32 \in Nat
  BY CodecAssumption DEF SparseState
<1>2. SparseGap(out.last, i) \in 0 .. U32 - 1 /\ SparseGap(out.last, i) = i - out.last - 1
  BY <1>1 DEF SparseGap
<1>3. Spells(gap, SparseGap(out.last, i)) /\ Len(gap) <= MAX_DIGITS
  BY <1>2, VarintSpells DEF VarintsFit
<1>4. /\ put \in SparseState(i)
      /\ put.last = i
      /\ Len(put.bytes) = Len(out.bytes) + Len(gap) + 1
      /\ Occurs(gap, put.bytes, next)
      /\ put.bytes[next + Len(gap)].digit = residual[i] % Byte
  <2>1. PICK g \in Nat, o \in Nat : Len(gap) = g /\ Len(out.bytes) = o
    BY <1>1, <1>3 DEF Spells
  <2>2. next + Len(gap) = Len(out.bytes) + Len(gap) + 1
    BY <2>1
  <2>3. /\ put \in SparseState(i)
        /\ put.last = i
        /\ Len(put.bytes) = Len(out.bytes) + Len(gap) + 1
        /\ Occurs(gap, put.bytes, Len(out.bytes) + 1)
        /\ put.bytes[Len(out.bytes) + Len(gap) + 1].digit = residual[i] % Byte
    BY SparsePutIs
  <2>4. QED
    BY <2>2, <2>3
<1>5. Len(gap) \in Nat /\ put.bytes \in Seq(VarDigit) /\ gap \in Seq(VarDigit)
  BY <1>3, <1>4 DEF Spells, SparseState
<1>6. Begins(put.bytes, bytes)
  OBVIOUS
<1>13. next \in Nat \ {0} /\ next = Len(out.bytes) + 1
  BY <1>1
<1> HIDE DEF put, gap, next
<1>7. Occurs(gap, bytes, next)
  BY <1>4, <1>5, <1>6, OccursOn
<1>8. decode_varint(bytes, next) = Done([next |-> next + Len(gap), value |-> SparseGap(out.last, i)])
  BY <1>1, <1>3, <1>7, VarintRead
<1>9. next + Len(gap) <= Len(bytes) /\ bytes[next + Len(gap)].digit = residual[i] % Byte
  <2>1. next + Len(gap) = Len(put.bytes)
    BY <1>1, <1>4, <1>5, <1>13
  <2>2. Len(put.bytes) \in 1 .. Len(put.bytes)
    BY <1>5, <1>13, <2>1
  <2>3. QED
    BY <1>4, <1>6, <2>1, <2>2 DEF Begins
<1>10. Signed(bytes[next + Len(gap)].digit) = residual[i]
  <2>1. residual[i] \in SignedOctets
    OBVIOUS
  <2>2. QED
    BY <1>9, <2>1, SignedBack
<1>11. [KeptUpTo(residual, i - 1) EXCEPT ![i] = residual[i]] = KeptUpTo(residual, i)
  <2>1. PICK n \in Nat : Len(residual) = n
    BY <1>1
  <2> DEFINE kept == [j \in 1 .. n |-> IF j <= i - 1 THEN residual[j] ELSE 0]
             more == [j \in 1 .. n |-> IF j <= i THEN residual[j] ELSE 0]
  <2>2. i \in 1 .. n /\ i \in Nat
    BY <2>1
  <2>3. \A j \in 1 .. n : more[j] = IF j = i THEN residual[i] ELSE kept[j]
    BY <2>2
  <2>4. [kept EXCEPT ![i] = residual[i]] = [j \in 1 .. n |-> IF j = i THEN residual[i] ELSE kept[j]]
    OBVIOUS
  <2>5. more = [j \in 1 .. n |-> more[j]]
    OBVIOUS
  <2>6. KeptUpTo(residual, i - 1) = kept /\ KeptUpTo(residual, i) = more
    BY <2>1 DEF KeptUpTo
  <2> HIDE DEF kept, more
  <2>7. QED
    BY <2>3, <2>4, <2>5, <2>6
<1>12. QED
  <2> DEFINE state == Reads(residual, out, i - 1)
  <2>1. /\ state.ok /\ state.value.index = out.last /\ state.value.next = next
        /\ state.value.residual = KeptUpTo(residual, i - 1)
    BY <1>13 DEF Reads, Done
  <2>2. out.last + SparseGap(out.last, i) + 1 = i
    BY <1>1, <1>2
  <2>3. next + Len(gap) + 1 = Len(put.bytes) + 1
    BY <1>1, <1>4, <1>5, <1>13
  <2> DEFINE read == decode_varint(bytes, state.value.next)
  <2>4. read.ok /\ read.value.next = next + Len(gap) /\ read.value.value = SparseGap(out.last, i)
    BY <1>8, <2>1 DEF Done
  <2> HIDE DEF state, read
  <2>5. state.value.index + read.value.value + 1 = i /\ i <= Len(residual)
    BY <2>1, <2>2, <2>4
  <2>6. SparseTake(bytes, Len(residual), state)
          = Done([index |-> i, next |-> next + Len(gap) + 1, residual |-> KeptUpTo(residual, i)])
    <3>1. SparseTake(bytes, Len(residual), state)
          = Done([index |-> i, next |-> read.value.next + 1,
                  residual |-> [state.value.residual EXCEPT ![i] = Signed(bytes[read.value.next].digit)]])
      BY <1>9, <2>1, <2>4, <2>5 DEF SparseTake, read
    <3>2. QED
      BY <1>10, <1>11, <2>1, <2>4, <3>1
  <2>7. QED
    BY <1>4, <2>3, <2>6 DEF state, Reads, put

\* A sparse residual is read back.
LEMMA SparseBack ==
  ASSUME VarintsFit, NEW residual \in Seq(SignedOctets), Len(residual) <= U32
  PROVE  decode_sparse_residual(encode_sparse_residual(residual), Len(residual)) = Done(residual)
<1>1. PICK n \in Nat : Len(residual) = n
  OBVIOUS
<1>18. PICK out : /\ PutsSparsely(residual, out)
                  /\ encode_sparse_residual(residual)
                       = [tag |-> "sparse", count |-> out[Len(residual)].count, bytes |-> out[Len(residual)].bytes]
  BY EncodesSparsely
<1>2. /\ out[0] = [last |-> 0, count |-> 0, bytes |-> <<>>]
      /\ \A k \in 1 .. n : out[k] = SparsePut(residual, out[k - 1], k)
      /\ encode_sparse_residual(residual) = [tag |-> "sparse", count |-> out[n].count, bytes |-> out[n].bytes]
  BY <1>1, <1>18 DEF PutsSparsely
<1> DEFINE Grows(k) == /\ out[k] \in SparseState(k)
                       /\ \A i \in 0 .. k : Begins(out[i].bytes, out[k].bytes) /\ out[i].count <= out[k].count
           S == {k \in 0 .. n : Grows(k) /\ \A i \in 0 .. k : out[i].count \in Nat}
<1>3. ASSUME NEW k \in 0 .. n, k < n, out[k] \in SparseState(k)
      PROVE  /\ out[k + 1] \in SparseState(k + 1)
             /\ Begins(out[k].bytes, out[k + 1].bytes)
             /\ out[k + 1] = SparsePut(residual, out[k], k + 1)
             /\ residual[k + 1] = 0 => out[k + 1] = out[k]
             /\ residual[k + 1] # 0 => out[k + 1].count = out[k].count + 1
  <2>1. PICK j \in 1 .. n : j = k + 1 /\ j - 1 = k
    BY <1>3
  <2>2. j \in 1 .. Len(residual) /\ out[k] \in SparseState(j - 1)
    BY <1>1, <1>3, <2>1
  <2>3. out[j] = SparsePut(residual, out[k], j)
    BY <1>2, <2>1
  <2>6. /\ SparsePut(residual, out[k], j) \in SparseState(j)
        /\ Begins(out[k].bytes, SparsePut(residual, out[k], j).bytes)
        /\ residual[j] = 0 => SparsePut(residual, out[k], j) = out[k]
        /\ residual[j] # 0 => SparsePut(residual, out[k], j).count = out[k].count + 1
    BY <2>2, SparsePutIs
  <2>4. /\ out[j] \in SparseState(j)
        /\ Begins(out[k].bytes, out[j].bytes)
        /\ residual[j] = 0 => out[j] = out[k]
        /\ residual[j] # 0 => out[j].count = out[k].count + 1
    BY <2>3, <2>6
  <2>5. QED
    BY <2>1, <2>3, <2>4
<1>4. 0 \in S
  <2>1. out[0] \in SparseState(0)
    BY <1>2 DEF SparseState
  <2>2. Begins(out[0].bytes, out[0].bytes) /\ out[0].count <= out[0].count
    BY <1>2 DEF Begins
  <2>3. QED
    BY <1>2, <2>1, <2>2
<1>5. \A k \in 0 .. n : k \in S /\ k < n => k + 1 \in S
  <2> TAKE k \in 0 .. n
  <2>1. HAVE k \in S /\ k < n
  <2>2. out[k] \in SparseState(k)
    BY <2>1
  <2>3. /\ out[k + 1] \in SparseState(k + 1)
        /\ Begins(out[k].bytes, out[k + 1].bytes)
        /\ residual[k + 1] = 0 => out[k + 1] = out[k]
        /\ residual[k + 1] # 0 => out[k + 1].count = out[k].count + 1
    BY <1>3, <2>1, <2>2
  <2>4. out[k].bytes \in Seq(VarDigit) /\ out[k + 1].bytes \in Seq(VarDigit) /\ out[k].count \in Nat /\ out[k + 1].count \in Nat
    BY <2>2, <2>3 DEF SparseState
  <2>5. out[k].count <= out[k + 1].count
    BY <2>3, <2>4
  <2>6. ASSUME NEW i \in 0 .. k + 1 PROVE Begins(out[i].bytes, out[k + 1].bytes) /\ out[i].count <= out[k + 1].count
    <3>1. CASE i = k + 1
      BY <2>4, <3>1 DEF Begins
    <3>2. CASE i # k + 1
      <4>1. i \in 0 .. k
        BY <3>2
      <4>2. Begins(out[i].bytes, out[k].bytes) /\ out[i].count <= out[k].count
        BY <2>1, <4>1
      <4>3. Begins(out[i].bytes, out[k + 1].bytes)
        <5>1. PICK before \in Seq(VarDigit), after \in Seq(VarDigit) : out[k].bytes = before /\ out[k + 1].bytes = after
          BY <2>4
        <5>2. PICK a \in Nat, b \in Nat : Len(before) = a /\ Len(after) = b
          BY <5>1
        <5>3. Begins(out[i].bytes, before) /\ Begins(before, after)
          BY <2>3, <4>2, <5>1
        <5>4. Begins(out[i].bytes, after)
          BY <5>2, <5>3 DEF Begins
        <5>5. QED
          BY <5>1, <5>4
      <4>5. PICK c \in Nat, d \in Nat : out[k].count = c /\ out[k + 1].count = d
        BY <2>4
      <4>6. out[i].count \in Nat
        BY <2>1, <4>1
      <4>4. QED
        BY <2>5, <4>2, <4>3, <4>5, <4>6
    <3>3. QED
      BY <3>1, <3>2
  <2>7. k + 1 \in 0 .. n
    BY <2>1
  <2>9. \A i \in 0 .. k + 1 : out[i].count \in Nat
    BY <2>1, <2>4
  <2>8. QED
    BY <2>3, <2>6, <2>7, <2>9
<1>6. 0 .. n \subseteq S
  <2> HIDE DEF S
  <2>1. QED
    BY <1>4, <1>5, IntervalInduction
<1>7. ASSUME NEW k \in 0 .. n
      PROVE  /\ out[k] \in SparseState(k) /\ out[k].count \in 0 .. out[n].count
             /\ Begins(out[k].bytes, out[n].bytes)
  <2>1. k \in S /\ n \in S
    BY <1>6
  <2>2. /\ out[k] \in SparseState(k) /\ out[n] \in SparseState(n)
        /\ Begins(out[k].bytes, out[n].bytes) /\ out[k].count <= out[n].count
    BY <2>1
  <2>3. out[k].count \in Nat /\ out[n].count \in Nat
    BY <2>2 DEF SparseState
  <2>4. QED
    BY <2>2, <2>3
<1>8. PICK c \in Nat, bytes \in Seq(VarDigit) : out[n].count = c /\ out[n].bytes = bytes
  <2>1. out[n] \in SparseState(n)
    BY <1>7
  <2>2. QED
    BY <2>1 DEF SparseState
<1>19. PICK read : /\ TakesSparsely(bytes, c, n, read)
                   /\ decode_sparse_residual([tag |-> "sparse", count |-> c, bytes |-> bytes], n)
                        = IF read[c].ok /\ read[c].value.next = Len(bytes) + 1 THEN Done(read[c].value.residual) ELSE Failed
  BY DecodesSparsely
<1>9. /\ read[0] = Done([index |-> 0, next |-> 1, residual |-> [i \in 1 .. n |-> 0]])
      /\ \A k \in 1 .. c : read[k] = SparseTake(bytes, n, read[k - 1])
      /\ decode_sparse_residual([tag |-> "sparse", count |-> c, bytes |-> bytes], n)
           = IF read[c].ok /\ read[c].value.next = Len(bytes) + 1 THEN Done(read[c].value.residual) ELSE Failed
  BY <1>19 DEF TakesSparsely
<1> DEFINE T == {k \in 0 .. n : read[out[k].count] = Reads(residual, out[k], k)}
<1>10. 0 \in T
  <2>1. KeptUpTo(residual, 0) = [i \in 1 .. n |-> 0]
    BY <1>1 DEF KeptUpTo
  <2>2. out[0].count = 0 /\ out[0].last = 0 /\ Len(out[0].bytes) + 1 = 1
    BY <1>2
  <2>3. Reads(residual, out[0], 0) = Done([index |-> 0, next |-> 1, residual |-> [i \in 1 .. n |-> 0]])
    BY <2>1, <2>2 DEF Reads
  <2>4. QED
    BY <1>9, <2>2, <2>3
<1>11. \A k \in 0 .. n : k \in T /\ k < n => k + 1 \in T
  <2> TAKE k \in 0 .. n
  <2>1. HAVE k \in T /\ k < n
  <2>2. out[k] \in SparseState(k) /\ out[k].count \in Nat
    BY <1>7 DEF SparseState
  <2>3. PICK j \in 1 .. n : j = k + 1 /\ j - 1 = k
    BY <2>1
  <2>4. /\ out[j] = SparsePut(residual, out[k], j)
        /\ residual[j] = 0 => out[j] = out[k]
        /\ residual[j] # 0 => out[j].count = out[k].count + 1
    BY <1>3, <2>1, <2>2, <2>3
  <2>5. CASE residual[j] = 0
    <3>1. KeptUpTo(residual, j) = KeptUpTo(residual, k)
      <4>1. \A i \in 1 .. n : (IF i <= j THEN residual[i] ELSE 0) = (IF i <= k THEN residual[i] ELSE 0)
        BY <2>3, <2>5
      <4>2. [i \in 1 .. n |-> IF i <= j THEN residual[i] ELSE 0] = [i \in 1 .. n |-> IF i <= k THEN residual[i] ELSE 0]
        BY <4>1
      <4>3. QED
        BY <1>1, <4>2 DEF KeptUpTo
    <3>2. Reads(residual, out[j], j) = Reads(residual, out[k], k)
      BY <2>4, <2>5, <3>1 DEF Reads
    <3>3. QED
      BY <2>1, <2>3, <2>4, <2>5, <3>2
  <2>6. CASE residual[j] # 0
    <3>1. j \in 1 .. Len(residual) /\ out[k] \in SparseState(j - 1) /\ j \in 0 .. n
      BY <1>1, <2>2, <2>3
    <3>2. Begins(SparsePut(residual, out[k], j).bytes, bytes)
      BY <1>7, <1>8, <2>4, <3>1
    <3>3. SparseTake(bytes, n, Reads(residual, out[k], k)) = Reads(residual, out[j], j)
      <4>3. VarintsFit /\ residual \in Seq(SignedOctets) /\ Len(residual) <= U32
        OBVIOUS
      <4>1. SparseTake(bytes, Len(residual), Reads(residual, out[k], j - 1)) = Reads(residual, SparsePut(residual, out[k], j), j)
        BY <2>6, <3>1, <3>2, <4>3, SparseTakeIs
      <4>2. QED
        BY <1>1, <2>3, <2>4, <4>1
    <3>4. out[j].count \in 1 .. c /\ out[j].count - 1 = out[k].count
      BY <1>7, <1>8, <2>2, <2>4, <2>6, <3>1
    <3>5. read[out[j].count] = SparseTake(bytes, n, read[out[k].count])
      BY <1>9, <3>4
    <3>6. QED
      BY <2>1, <2>3, <3>3, <3>5
  <2>7. QED
    BY <2>5, <2>6
<1>12. 0 .. n \subseteq T
  <2> HIDE DEF T
  <2>1. QED
    BY <1>10, <1>11, IntervalInduction
<1>13. read[c] = Reads(residual, out[n], n)
  <2>1. n \in T
    BY <1>12
  <2>2. QED
    BY <1>8, <2>1
<1>14. KeptUpTo(residual, n) = residual
  <2>1. residual = [i \in 1 .. n |-> residual[i]]
    BY <1>1
  <2>2. [i \in 1 .. n |-> IF i <= n THEN residual[i] ELSE 0] = [i \in 1 .. n |-> residual[i]]
    OBVIOUS
  <2>3. QED
    BY <1>1, <2>1, <2>2 DEF KeptUpTo
<1>15. read[c].ok /\ read[c].value.next = Len(bytes) + 1 /\ read[c].value.residual = residual
  BY <1>8, <1>13, <1>14 DEF Reads, Done
<1>16. encode_sparse_residual(residual) = [tag |-> "sparse", count |-> c, bytes |-> bytes]
  BY <1>2, <1>8
<1>17. QED
  BY <1>1, <1>9, <1>15, <1>16

\* A residual is read back whatever its coding.
LEMMA ResidualBack ==
  ASSUME VarintsFit, NEW residual \in Seq(SignedOctets), Len(residual) <= U32
  PROVE  decode_residual_payload(encode_residual_payload(residual), Len(residual)) = Done(residual)
<1>1. PICK n \in Nat : Len(residual) = n
  OBVIOUS
<1>2. residual = [i \in 1 .. n |-> residual[i]] /\ DOMAIN residual = 1 .. n
  BY <1>1
<1> DEFINE small == Family.small_range
           InRange == \A i \in DOMAIN residual : residual[i] \in - small .. small
           sparse == Cardinality(Nonzero(residual)) * 100 <= Family.sparse_percent * Len(residual)
           coded == encode_residual_payload(residual)
<1>3. CASE Nonzero(residual) = {}
  <2>1. coded = [tag |-> "zero"]
    BY <1>3 DEF encode_residual_payload
  <2>2. decode_residual_payload(coded, n) = Done([i \in 1 .. n |-> 0])
    BY <2>1 DEF decode_residual_payload
  <2>3. \A i \in 1 .. n : residual[i] = 0
    BY <1>2, <1>3 DEF Nonzero
  <2>4. residual = [i \in 1 .. n |-> 0]
    BY <1>2, <2>3
  <2>5. QED
    BY <1>1, <2>2, <2>4
<1>4. CASE Nonzero(residual) # {} /\ InRange
  <2> DEFINE symbols == [i \in DOMAIN residual |-> residual[i] + small]
  <2>1. small \in Nat
    BY CodecAssumption
  <2>2. \A i \in 1 .. n : residual[i] \in Int
    BY <1>1, SignedBack
  <2>3. symbols \in Seq(Int) /\ Len(symbols) = n /\ DOMAIN symbols = 1 .. n
    BY <1>2, <2>1, <2>2
  <2>4. coded = [tag |-> "small", symbols |-> encode_ans_symbols(symbols)]
    BY <1>4 DEF encode_residual_payload
  <2>5. \A i \in 1 .. n : symbols[i] - small = residual[i]
    BY <1>2, <2>1, <2>2
  <2> HIDE DEF symbols, small
  <2>6. decode_ans_symbols(coded.symbols, n) = Done(symbols)
    BY <2>3, <2>4, SymbolsBack
  <2>7. decode_residual_payload(coded, n) = Done([i \in 1 .. n |-> symbols[i] - small])
    <3>1. coded.tag = "small"
      BY <2>4
    <3> HIDE DEF coded
    <3>2. QED
      BY <2>3, <2>6, <3>1 DEF decode_residual_payload, Done, small
  <2>8. [i \in 1 .. n |-> symbols[i] - small] = residual
    BY <1>2, <2>5
  <2>9. QED
    BY <1>1, <2>7, <2>8
<1>5. CASE Nonzero(residual) # {} /\ ~InRange /\ sparse
  <2>1. coded = encode_sparse_residual(residual)
    BY <1>5 DEF encode_residual_payload
  <2>2. coded.tag = "sparse"
    BY <2>1 DEF encode_sparse_residual
  <2> HIDE DEF coded
  <2>3. decode_residual_payload(coded, n) = decode_sparse_residual(coded, n)
    BY <2>2 DEF decode_residual_payload
  <2>4. QED
    BY <1>1, <2>1, <2>3, SparseBack DEF coded
<1>6. CASE Nonzero(residual) # {} /\ ~InRange /\ ~sparse
  <2>1. coded = [tag |-> "literal", values |-> residual]
    BY <1>6 DEF encode_residual_payload
  <2> HIDE DEF coded
  <2>2. coded.tag = "literal" /\ coded.values = residual
    BY <2>1
  <2>3. decode_residual_payload(coded, n) = Done(residual)
    BY <1>1, <2>2 DEF decode_residual_payload
  <2>4. QED
    BY <1>1, <2>3 DEF coded
<1>7. QED
  BY <1>3, <1>4, <1>5, <1>6

----------------------------------------------------------------------------
(* The block model: whatever it predicts, both ends predict the same bytes. *)

Row(width) == {s \in Seq(Int) : Len(s) = width}

LayerOf(layer, inputs) ==
  /\ layer.weights \in Seq(Seq(Int)) /\ \A o \in DOMAIN layer.weights : Len(layer.weights[o]) = inputs
  /\ \A o \in DOMAIN layer.weights : layer.bias[o] \in Int
  /\ {layer.input_zero, layer.output_zero, layer.min, layer.max} \subseteq Int
  /\ layer.divisor \in Nat \ {0}

\* Weighing numbers gives a number.
LEMMA WeighedType ==
  ASSUME NEW width \in Nat, NEW layer, LayerOf(layer, width), NEW o \in DOMAIN layer.weights, NEW inputs \in Row(width)
  PROVE  Weighed(layer, o, inputs) \in Int
<1>1. inputs \in Seq(Int) /\ Len(inputs) = width
  BY DEF Row
<1>2. PICK out : Weighs(layer, o, inputs, out) /\ Weighed(layer, o, inputs) = out[Len(inputs)]
  BY <1>1, WeighsInputs
<1>3. /\ out[0] = layer.bias[o]
      /\ \A k \in 1 .. width : out[k] = out[k - 1] + (inputs[k] - layer.input_zero) * layer.weights[o][k]
  BY <1>1, <1>2 DEF Weighs
<1>4. layer.weights[o] \in Seq(Int) /\ Len(layer.weights[o]) = width /\ layer.bias[o] \in Int /\ layer.input_zero \in Int
  BY DEF LayerOf
<1> DEFINE S == {k \in 0 .. width : out[k] \in Int}
<1>5. 0 \in S
  BY <1>3, <1>4
<1>6. \A k \in 0 .. width : k \in S /\ k < width => k + 1 \in S
  <2> TAKE k \in 0 .. width
  <2>1. HAVE k \in S /\ k < width
  <2>2. PICK j \in 1 .. width : j = k + 1 /\ j - 1 = k
    BY <2>1
  <2>3. out[j] = out[k] + (inputs[j] - layer.input_zero) * layer.weights[o][j]
    BY <1>3, <2>2
  <2>4. inputs[j] \in Int /\ layer.weights[o][j] \in Int /\ out[k] \in Int
    BY <1>1, <1>4, <2>1
  <2>5. out[j] \in Int
    BY <1>4, <2>3, <2>4
  <2>6. QED
    BY <2>2, <2>5
<1>7. 0 .. width \subseteq S
  <2> HIDE DEF S
  <2>1. QED
    BY <1>5, <1>6, IntervalInduction
<1>8. QED
  BY <1>1, <1>2, <1>7

\* A layer makes as many numbers as it has rows of weights.
LEMMA LayerType ==
  ASSUME NEW width \in Nat, NEW layer, LayerOf(layer, width), NEW inputs \in Row(width)
  PROVE  apply_layer(layer, inputs) \in Row(Len(layer.weights))
<1>1. PICK n \in Nat : Len(layer.weights) = n /\ DOMAIN layer.weights = 1 .. n
  BY DEF LayerOf
<1>2. ASSUME NEW o \in 1 .. n PROVE apply_layer(layer, inputs)[o] \in Int
  <2>1. Weighed(layer, o, inputs) \in Int
    BY <1>1, WeighedType
  <2>2. layer.output_zero \in Int /\ layer.min \in Int /\ layer.max \in Int /\ layer.divisor \in Nat \ {0}
    BY DEF LayerOf
  <2>3. ASSUME NEW v \in Int PROVE div_round(v, layer.divisor) \in Int
    <3>1. PICK d \in Nat \ {0} : layer.divisor = d
      BY <2>2
    <3>2. d \div 2 \in Int
      BY Divided
    <3>3. v + d \div 2 \in Int /\ - v + d \div 2 \in Int
      BY <3>2
    <3>4. (v + d \div 2) \div d \in Int /\ (- v + d \div 2) \div d \in Int
      BY <3>3, Divided
    <3>5. QED
      BY <3>1, <3>4 DEF div_round
  <2> DEFINE value == div_round(Weighed(layer, o, inputs), layer.divisor) + layer.output_zero
  <2>4. value \in Int
    BY <2>1, <2>2, <2>3
  <2>5. apply_layer(layer, inputs)[o] = Clamp(IF layer.relu /\ value < 0 THEN 0 ELSE value, layer.min, layer.max)
    BY <1>1 DEF apply_layer
  <2> HIDE DEF value
  <2>6. (IF layer.relu /\ value < 0 THEN 0 ELSE value) \in Int
    BY <2>4
  <2>7. QED
    BY <2>2, <2>5, <2>6 DEF Clamp
<1>3. apply_layer(layer, inputs) = [o \in 1 .. n |-> apply_layer(layer, inputs)[o]]
  BY <1>1 DEF apply_layer
<1> DEFINE out == apply_layer(layer, inputs)
<1> HIDE DEF out
<1>4. out \in Seq(Int) /\ Len(out) = n
  BY <1>2, <1>3 DEF out
<1>5. QED
  BY <1>1, <1>4 DEF Row, out

\* A stack makes as many numbers as its last layer.
LEMMA StackType ==
  ASSUME NEW width \in Nat, NEW layers, Stacked(layers, width), NEW inputs \in Row(width)
  PROVE  apply_layers(layers, inputs) \in Row(Len(layers[Len(layers)].weights))
<1>1. layers \in Seq(ToSet(layers)) /\ layers # <<>>
  BY DEF Stacked
<1>2. PICK n \in Nat \ {0} : Len(layers) = n
  BY <1>1
<1>3. PICK out : PassesLayers(layers, inputs, out) /\ apply_layers(layers, inputs) = out[Len(layers)]
  BY <1>1, LayersRun
<1>4. out[0] = inputs /\ \A k \in 1 .. n : out[k] = apply_layer(layers[k], out[k - 1])
  BY <1>2, <1>3 DEF PassesLayers
<1> DEFINE Wide(k) == IF k = 0 THEN width ELSE Len(layers[k].weights)
           S == {k \in 0 .. n : out[k] \in Row(Wide(k))}
<1>5. ASSUME NEW k \in 1 .. n PROVE LayerOf(layers[k], Wide(k - 1)) /\ Len(layers[k].weights) \in Nat
  <2>1. Wide(k - 1) = IF k = 1 THEN width ELSE Len(layers[k - 1].weights)
    OBVIOUS
  <2> HIDE DEF Wide
  <2>2. LayerOf(layers[k], Wide(k - 1))
    BY <1>2, <2>1 DEF Stacked, LayerOf
  <2>3. QED
    BY <2>2 DEF LayerOf
<1>6. 0 \in S
  BY <1>4
<1>7. \A k \in 0 .. n : k \in S /\ k < n => k + 1 \in S
  <2> TAKE k \in 0 .. n
  <2>1. HAVE k \in S /\ k < n
  <2>2. PICK j \in 1 .. n : j = k + 1 /\ j - 1 = k
    BY <2>1
  <2>3. Wide(k) \in Nat
    BY <1>5
  <2>4. Wide(j) = Len(layers[j].weights)
    OBVIOUS
  <2>5. LayerOf(layers[j], Wide(k))
    BY <1>5, <2>2
  <2>6. out[j] = apply_layer(layers[j], out[k])
    BY <1>4, <2>2
  <2>8. out[k] \in Row(Wide(k))
    BY <2>1
  <2> HIDE DEF Wide, S
  <2>9. out[j] \in Row(Wide(j))
    BY <2>3, <2>4, <2>5, <2>6, <2>8, LayerType
  <2>7. QED
    BY <2>2, <2>9 DEF S
<1>8. 0 .. n \subseteq S
  <2> HIDE DEF S
  <2>1. QED
    BY <1>6, <1>7, IntervalInduction
<1>9. out[n] \in Row(Wide(n)) /\ Wide(n) = Len(layers[n].weights)
  BY <1>8
<1>10. QED
  BY <1>2, <1>3, <1>9

\* There is a nearest level.
LEMMA NearestType ==
  ASSUME NEW value \in Int, NEW levels \in Seq(Int), levels # <<>>
  PROVE  nearest_fsq_code(value, levels) \in DOMAIN levels
<1> DEFINE Distance(i) == IF levels[i] > value THEN levels[i] - value ELSE value - levels[i]
           All == {Distance(i) : i \in DOMAIN levels}
<1>1. PICK n \in Nat \ {0} : DOMAIN levels = 1 .. n
  OBVIOUS
<1>2. \A i \in 1 .. n : Distance(i) \in Nat
  <2> TAKE i \in 1 .. n
  <2>1. levels[i] \in Int
    BY <1>1
  <2>2. QED
    BY <2>1
<1>3. PICK m \in All : \A d \in All : m <= d
  <2>1. All \in SUBSET Nat
    BY <1>1, <1>2
  <2>2. Distance(1) \in All
    BY <1>1
  <2> HIDE DEF All
  <2>3. QED
    BY <2>1, <2>2, LeastNumber
<1> DEFINE Nearest == {i \in DOMAIN levels : Distance(i) = m}
<1>4. PICK c \in Nearest : \A i \in Nearest : c <= i
  <2>1. Nearest \in SUBSET Nat
    BY <1>1
  <2>2. Nearest # {}
    BY <1>3
  <2> HIDE DEF Nearest
  <2>3. QED
    BY <2>1, <2>2, LeastNumber
<1>5. \A j \in DOMAIN levels : Distance(c) < Distance(j) \/ (Distance(c) = Distance(j) /\ c <= j)
  <2> TAKE j \in DOMAIN levels
  <2>1. Distance(c) = m /\ m <= Distance(j)
    BY <1>3, <1>4
  <2>2. Distance(c) \in Nat /\ Distance(j) \in Nat
    BY <1>1, <1>2, <1>4
  <2>3. Distance(j) = m => c <= j
    BY <1>4
  <2> HIDE DEF Distance
  <2>4. QED
    BY <2>1, <2>2, <2>3
<1>6. c \in DOMAIN levels
  BY <1>4
<1> HIDE DEF Nearest
<1>7. QED
  BY <1>5, <1>6 DEF nearest_fsq_code

\* The codes of a block, and the bytes they stand for.
LEMMA BlockCodes ==
  /\ latent_dim \in Nat \ {0}
  /\ \A block \in Row(BLOCK_LEN) :
       encode_block_codes(block) \in Seq(DOMAIN Family.levels) /\ Len(encode_block_codes(block)) = latent_dim
  /\ \A codes \in Seq(DOMAIN Family.levels) :
       Len(codes) = latent_dim =>
         decode_block_codes(codes) \in Seq(Octets) /\ Len(decode_block_codes(codes)) = BLOCK_LEN
<1>0. BLOCK_LEN \in Nat \ {0} /\ Byte \in Nat \ {0}
  BY CodecAssumption
<1>1. /\ Stacked(Family.analysis, BLOCK_LEN) /\ Stacked(Family.synthesis, latent_dim)
      /\ Len(Family.synthesis[Len(Family.synthesis)].weights) = BLOCK_LEN
      /\ Family.levels \in Seq(Int) /\ Family.levels # <<>> /\ latent_dim > 0
  BY FamilyAssumption
<1>2. latent_dim \in Nat \ {0}
  <2>1. Len(Family.analysis) \in Nat \ {0}
    BY <1>1 DEF Stacked
  <2>2. Family.analysis[Len(Family.analysis)].weights \in Seq(Seq(Int))
    BY <1>1, <2>1 DEF Stacked
  <2>3. latent_dim \in Nat
    BY <2>2 DEF latent_dim
  <2>4. QED
    BY <1>1, <2>3
<1>3. ASSUME NEW block \in Row(BLOCK_LEN)
      PROVE  encode_block_codes(block) \in Seq(DOMAIN Family.levels) /\ Len(encode_block_codes(block)) = latent_dim
  <2> DEFINE latent == apply_layers(Family.analysis, block)
  <2>1. latent \in Row(latent_dim)
    BY <1>0, <1>1, StackType DEF latent_dim
  <2>2. encode_block_codes(block) = [i \in DOMAIN latent |-> nearest_fsq_code(latent[i], Family.levels)]
    BY DEF encode_block_codes
  <2> HIDE DEF latent
  <2>3. latent \in Seq(Int) /\ Len(latent) = latent_dim
    BY <2>1 DEF Row
  <2>4. \A i \in DOMAIN latent : nearest_fsq_code(latent[i], Family.levels) \in DOMAIN Family.levels
    <3> TAKE i \in DOMAIN latent
    <3>1. latent[i] \in Int
      BY <2>3
    <3>2. QED
      BY <1>1, <3>1, NearestType
  <2> DEFINE code == [i \in DOMAIN latent |-> nearest_fsq_code(latent[i], Family.levels)]
             Codes == DOMAIN Family.levels
  <2>6. PICK l \in Nat : latent_dim = l /\ DOMAIN latent = 1 .. l
    BY <1>2, <2>3
  <2>7. code \in [1 .. l -> Codes]
    BY <2>4, <2>6
  <2> HIDE DEF code, Codes
  <2>8. code \in Seq(Codes) /\ Len(code) = l
    BY <2>7
  <2>5. QED
    BY <2>2, <2>6, <2>8 DEF code, Codes
<1>4. ASSUME NEW codes \in Seq(DOMAIN Family.levels), Len(codes) = latent_dim
      PROVE  decode_block_codes(codes) \in Seq(Octets) /\ Len(decode_block_codes(codes)) = BLOCK_LEN
  <2> DEFINE inputs == [i \in DOMAIN codes |-> Family.levels[codes[i]]]
             out == apply_layers(Family.synthesis, inputs)
  <2>1. inputs \in Row(latent_dim)
    <3>1. \A i \in 1 .. latent_dim : Family.levels[codes[i]] \in Int
      BY <1>1, <1>4
    <3>2. inputs \in Seq(Int) /\ Len(inputs) = latent_dim
      BY <1>2, <1>4, <3>1
    <3>3. QED
      BY <3>2 DEF Row
  <2> HIDE DEF inputs
  <2>2. out \in Row(BLOCK_LEN)
    BY <1>1, <1>2, <2>1, StackType
  <2>3. decode_block_codes(codes) = [i \in DOMAIN out |-> Clamp(out[i], 0, Byte - 1)]
    BY DEF decode_block_codes, inputs
  <2> HIDE DEF out
  <2>4. out \in Seq(Int) /\ Len(out) = BLOCK_LEN
    BY <2>2 DEF Row
  <2>5. \A i \in DOMAIN out : Clamp(out[i], 0, Byte - 1) \in Octets
    BY <1>0, <2>4 DEF Clamp, Octets
  <2>6. PICK l \in Nat : l = BLOCK_LEN /\ Len(out) = l /\ DOMAIN out = 1 .. l
    BY <1>0, <2>4
  <2> DEFINE read == [i \in DOMAIN out |-> Clamp(out[i], 0, Byte - 1)]
  <2>7. read \in [1 .. l -> Octets]
    BY <2>5, <2>6
  <2> HIDE DEF read
  <2>8. read \in Seq(Octets) /\ Len(read) = l
    BY <2>7
  <2>9. QED
    BY <2>3, <2>6, <2>8 DEF read
<1>5. QED
  BY <1>2, <1>3, <1>4

----------------------------------------------------------------------------
(* Packed payloads. *)

\* Parts of one length are cut out of their concatenation.
LEMMA ChunksOfParts ==
  ASSUME NEW S, NEW n \in Nat \ {0}, NEW ss \in Seq(Seq(S)), \A k \in 1 .. Len(ss) : Len(ss[k]) = n
  PROVE  /\ FlattenSeq(ss) \in Seq(S) /\ Len(FlattenSeq(ss)) = n * Len(ss)
         /\ Chunks(FlattenSeq(ss), n) = ss
<1> DEFINE flat == FlattenSeq(ss)
<1>1. PICK m \in Nat : Len(ss) = m /\ DOMAIN ss = 1 .. m
  OBVIOUS
<1>2. flat \in Seq(S)
  BY FlattenPlaces
<1>3. PICK at : Placed(ss, flat, at)
  BY FlattenPlaces
<1> HIDE DEF flat
<1>4. /\ at[0] = 0 /\ \A i \in 1 .. m : at[i] = at[i - 1] + n
      /\ at[m] = Len(flat)
      /\ \A i \in 1 .. m : at[i] <= Len(flat) /\ Occurs(ss[i], flat, at[i - 1] + 1)
  BY <1>1, <1>3 DEF Placed, Offsets
<1> DEFINE T == {k \in 0 .. m : at[k] = n * k}
<1>5. 0 .. m \subseteq T
  <2>1. 0 \in T
    BY <1>4
  <2>2. \A k \in 0 .. m : k \in T /\ k < m => k + 1 \in T
    <3> TAKE k \in 0 .. m
    <3>1. HAVE k \in T /\ k < m
    <3>2. PICK j \in 1 .. m : j = k + 1 /\ j - 1 = k
      BY <3>1
    <3>3. at[j] = n * k + n
      BY <1>4, <3>1, <3>2
    <3>4. n * k + n = n * (k + 1)
      OBVIOUS
    <3>5. QED
      BY <3>1, <3>2, <3>3, <3>4
  <2> HIDE DEF T
  <2>3. QED
    BY <2>1, <2>2, IntervalInduction
<1>6. Len(flat) = n * m
  <2>1. m \in T
    BY <1>5
  <2>2. QED
    BY <1>4, <2>1
<1>7. (Len(flat) + n - 1) \div n = m
  <2>1. (n * m + (n - 1)) \div n = m
    <3>1. m \in Int /\ n - 1 \in 0 .. n - 1
      OBVIOUS
    <3>2. QED
      BY <3>1, DividedOnce
  <2>2. PICK p \in Nat : p = n * m
    OBVIOUS
  <2>3. Len(flat) + n - 1 = n * m + (n - 1)
    BY <1>6, <2>2
  <2>4. QED
    BY <2>1, <2>3
<1> DEFINE Chunk(k) == SubSeq(flat, (k - 1) * n + 1, IF k * n < Len(flat) THEN k * n ELSE Len(flat))
<1>8. ASSUME NEW k \in 1 .. m PROVE Chunk(k) = ss[k]
  <2>1. k \in T /\ k - 1 \in T /\ k - 1 \in 0 .. m
    <3>1. k \in 0 .. m /\ k - 1 \in 0 .. m
      OBVIOUS
    <3> HIDE DEF T
    <3>2. QED
      BY <1>5, <3>1
  <2>2. at[k] = n * k /\ at[k - 1] = n * (k - 1)
    BY <2>1
  <2>3. PICK p \in Nat, q \in Nat : p = n * k /\ q = n * (k - 1) /\ k * n = p /\ (k - 1) * n = q
    OBVIOUS
  <2>4. /\ p = q + n /\ p <= Len(flat) /\ Occurs(ss[k], flat, q + 1)
        /\ ss[k] \in Seq(S) /\ Len(ss[k]) = n
    BY <1>1, <1>4, <2>2, <2>3
  <2>5. SubSeq(flat, q + 1, q + 1 + Len(ss[k]) - 1) = ss[k]
    BY <1>2, <2>4, CutOut
  <2>6. q + 1 + Len(ss[k]) - 1 = p
    BY <2>4
  <2>7. (IF p < Len(flat) THEN p ELSE Len(flat)) = p
    <3>1. PICK l \in Nat : Len(flat) = l
      BY <1>2
    <3>2. p <= l
      BY <2>4, <3>1
    <3>3. QED
      BY <3>1, <3>2
  <2>8. QED
    BY <2>3, <2>5, <2>6, <2>7
<1>9. Chunks(flat, n) = [k \in 1 .. m |-> Chunk(k)]
  BY <1>7 DEF Chunks
<1>10. [k \in 1 .. m |-> Chunk(k)] = [k \in 1 .. m |-> ss[k]]
  <2> HIDE DEF Chunk
  <2>1. QED
    BY <1>8
<1>11. ss = [k \in 1 .. m |-> ss[k]]
  BY <1>1
<1>12. Chunks(flat, n) = ss
  BY <1>9, <1>10, <1>11
<1>13. QED
  BY <1>1, <1>2, <1>6, <1>12 DEF flat

\* The blocks of a payload cover it.
LEMMA BlocksType ==
  ASSUME NEW S, NEW n \in Nat \ {0}, NEW s \in Seq(S)
  PROVE  /\ Chunks(s, n) \in Seq(Seq(S))
         /\ Len(s) <= n * Len(Chunks(s, n))
         /\ Len(s) > 0 => Len(Chunks(s, n)) > 0
<1>1. PICK l \in Nat : Len(s) = l
  OBVIOUS
<1> DEFINE m == (l + n - 1) \div n
<1>2. m \in Nat /\ l <= n * m /\ (l > 0 => m > 0)
  <2>1. l + n - 1 \in Nat
    OBVIOUS
  <2>2. PICK r \in 0 .. n - 1 : l + n - 1 = n * m + r /\ m \in Nat
    <3>1. (l + n - 1) % n \in 0 .. n - 1 /\ l + n - 1 = n * m + ((l + n - 1) % n)
      BY <2>1, Divided
    <3>2. m \in Nat
      BY <2>1
    <3>3. QED
      BY <3>1, <3>2
  <2> HIDE DEF m
  <2>3. PICK p \in Nat : p = n * m /\ (m = 0 => p = 0)
    BY <2>2
  <2>4. l <= p
    BY <2>2, <2>3
  <2>5. QED
    BY <2>2, <2>3, <2>4
<1> DEFINE Chunk(k) == SubSeq(s, (k - 1) * n + 1, IF k * n < l THEN k * n ELSE l)
<1>3. ASSUME NEW k \in 1 .. m PROVE Chunk(k) \in Seq(S)
  <2>1. k \in Nat \ {0}
    BY <1>2
  <2>2. PICK p \in Nat, q \in Nat : p = k * n /\ q = (k - 1) * n
    BY <2>1
  <2>3. PICK b \in Nat : b = (IF p < l THEN p ELSE l) /\ b <= l
    OBVIOUS
  <2>4. \A i \in q + 1 .. b : s[i] \in S
    BY <1>1, <2>3
  <2>5. SubSeq(s, q + 1, b) \in Seq(S)
    <3>1. q + 1 \in Int /\ b \in Int
      OBVIOUS
    <3>2. QED
      BY <2>4, <3>1, SubSeqProperties
  <2>6. QED
    BY <2>2, <2>3, <2>5
<1>4. Chunks(s, n) = [k \in 1 .. m |-> Chunk(k)]
  BY <1>1 DEF Chunks
<1> HIDE DEF m, Chunk
<1>5. Chunks(s, n) \in Seq(Seq(S)) /\ Len(Chunks(s, n)) = m
  BY <1>2, <1>3, <1>4
<1>6. QED
  BY <1>1, <1>2, <1>5

\* What is left of a longer sequence.
LEMMA TruncatedType ==
  ASSUME NEW S, NEW s \in Seq(S), NEW l \in Nat, l <= Len(s)
  PROVE  Truncated(s, l) \in Seq(S) /\ Len(Truncated(s, l)) = l
<1>1. PICK n \in Nat : Len(s) = n /\ \A i \in 1 .. n : s[i] \in S
  OBVIOUS
<1>2. Truncated(s, l) = SubSeq(s, 1, l)
  BY <1>1 DEF Truncated
<1>3. \A i \in 1 .. l : s[i] \in S
  BY <1>1
<1>4. SubSeq(s, 1, l) \in Seq(S) /\ Len(SubSeq(s, 1, l)) = IF 1 <= l THEN l - 1 + 1 ELSE 0
  BY <1>3, SubSeqProperties
<1>5. QED
  BY <1>2, <1>4

\* The residual makes up for whatever was predicted.
LEMMA ResidualUndone ==
  ASSUME NEW bytes \in Seq(Octets), NEW predicted \in Seq(Octets), Len(predicted) = Len(bytes)
  PROVE  /\ centered_signed_residuals(bytes, predicted) \in Seq(SignedOctets)
         /\ Len(centered_signed_residuals(bytes, predicted)) = Len(bytes)
         /\ apply_centered_signed_residuals(predicted, centered_signed_residuals(bytes, predicted)) = bytes
<1>0. Byte \in Nat \ {0}
  BY CodecAssumption
<1>1. PICK n \in Nat : Len(bytes) = n /\ DOMAIN bytes = 1 .. n /\ DOMAIN predicted = 1 .. n
  OBVIOUS
<1>10. \A i \in 1 .. n : bytes[i] \in Octets /\ predicted[i] \in Octets
  BY <1>1
<1>2. \A i \in 1 .. n : bytes[i] \in 0 .. Byte - 1 /\ predicted[i] \in 0 .. Byte - 1
  BY <1>10 DEF Octets
<1> DEFINE Left(i) == Signed((bytes[i] - predicted[i]) % Byte)
           residual == [i \in 1 .. n |-> Left(i)]
<1>3. centered_signed_residuals(bytes, predicted) = residual
  BY <1>1 DEF centered_signed_residuals, ByteAt
<1>4. ASSUME NEW i \in 1 .. n PROVE Left(i) \in SignedOctets /\ (predicted[i] + Left(i)) % Byte = bytes[i]
  <2>1. PICK a \in 0 .. Byte - 1, p \in 0 .. Byte - 1 : a = bytes[i] /\ p = predicted[i]
    BY <1>2
  <2> DEFINE x == (a - p) % Byte
  <2>2. x \in 0 .. Byte - 1 /\ (x = a - p \/ x = a - p + Byte)
    BY <1>0
  <2>3. Left(i) = Signed(x)
    BY <2>1
  <2> HIDE DEF x, Left
  <2>4. Signed(x) = x \/ Signed(x) = x - Byte
    BY DEF Signed
  <2>5. a % Byte = a /\ (a + Byte) % Byte = a /\ (a - Byte) % Byte = a
    BY <1>0
  <2>6. p + Signed(x) \in {a, a + Byte, a - Byte}
    BY <1>0, <2>2, <2>4
  <2>7. x \in Octets
    BY <2>2 DEF Octets
  <2>8. QED
    BY <2>1, <2>3, <2>5, <2>6, <2>7 DEF SignedOctets
<1> HIDE DEF Left
<1>5. residual \in Seq(SignedOctets) /\ Len(residual) = n /\ DOMAIN residual = 1 .. n
  BY <1>4
<1>6. apply_centered_signed_residuals(predicted, residual) = [i \in 1 .. n |-> (predicted[i] + Left(i)) % Byte]
  BY <1>1 DEF apply_centered_signed_residuals, ByteAt
<1>7. [i \in 1 .. n |-> (predicted[i] + Left(i)) % Byte] = [i \in 1 .. n |-> bytes[i]]
  BY <1>4
<1>8. bytes = [i \in 1 .. n |-> bytes[i]]
  BY <1>1
<1>9. QED
  BY <1>1, <1>3, <1>5, <1>6, <1>7, <1>8

\* A packed payload is unpacked.
LEMMA PackedBack ==
  ASSUME NEW kind, NEW bytes \in Seq(Octets), Len(bytes) <= U32
  PROVE  decode_packed_payload(encode_packed_payload(kind, bytes)) = Done(bytes)
<1>0. BLOCK_LEN \in Nat \ {0} /\ latent_dim \in Nat \ {0} /\ Octets \subseteq Int
  BY CodecAssumption, BlockCodes DEF Octets
<1>1. PICK n \in Nat : Len(bytes) = n
  OBVIOUS
<1> DEFINE blocks == Chunks(bytes, BLOCK_LEN)
           Lv == DOMAIN Family.levels
<1>2. PICK m \in Nat : Len(blocks) = m /\ DOMAIN blocks = 1 .. m /\ blocks \in Seq(Seq(Octets)) /\ n <= BLOCK_LEN * m /\ (n > 0 => m > 0)
  BY <1>0, <1>1, BlocksType
<1> DEFINE codes == [k \in DOMAIN blocks |-> encode_block_codes(pad_block(blocks[k]))]
           parts == [k \in DOMAIN codes |-> decode_block_codes(codes[k])]
           guess == Truncated(FlattenSeq(parts), n)
           residual == centered_signed_residuals(bytes, guess)
           packed == encode_packed_payload(kind, bytes)
<1>3. packed = [kind |-> kind, original_len |-> n, block_count |-> m,
                codes |-> encode_ans_symbols(FlattenSeq(codes)),
                residual |-> encode_residual_payload(residual)]
  BY <1>1, <1>2 DEF encode_packed_payload
<1> HIDE DEF blocks, Lv, packed
<1>4. \A k \in 1 .. m : codes[k] \in Seq(Lv) /\ Len(codes[k]) = latent_dim
  <2> TAKE k \in 1 .. m
  <2>1. pad_block(blocks[k]) \in Row(BLOCK_LEN)
    <3>1. blocks[k] \in Seq(Octets)
      BY <1>2
    <3>5. PICK block : block = blocks[k] /\ block \in Seq(Octets)
      BY <3>1
    <3>6. \A i \in DOMAIN block : block[i] \in Int
      <4>1. DOMAIN block = 1 .. Len(block)
        BY <3>5
      <4>2. QED
        BY <1>0, <3>5, <4>1, Holds
    <3>2. \A i \in 1 .. BLOCK_LEN : ByteAt(blocks[k], i) \in Int
      BY <3>5, <3>6 DEF ByteAt
    <3>3. pad_block(blocks[k]) \in Seq(Int) /\ Len(pad_block(blocks[k])) = BLOCK_LEN
      BY <1>0, <3>2 DEF pad_block
    <3>4. QED
      BY <3>3 DEF Row
  <2>2. codes[k] = encode_block_codes(pad_block(blocks[k]))
    BY <1>2
  <2>3. QED
    BY <2>1, <2>2, BlockCodes DEF Lv
<1>5. codes \in Seq(Seq(Lv)) /\ Len(codes) = m /\ DOMAIN codes = 1 .. m
  <2>1. DOMAIN codes = 1 .. m
    BY <1>2
  <2>2. codes \in [1 .. m -> Seq(Lv)]
    <3>1. codes = [k \in 1 .. m |-> codes[k]]
      BY <2>1
    <3> HIDE DEF codes
    <3>2. QED
      BY <1>4, <3>1
  <2> HIDE DEF codes
  <2>3. QED
    BY <2>1, <2>2
<1> HIDE DEF codes
<1>6. \A k \in 1 .. m : parts[k] \in Seq(Octets) /\ Len(parts[k]) = BLOCK_LEN
  BY <1>4, <1>5, BlockCodes DEF Lv
<1>7. parts \in Seq(Seq(Octets)) /\ Len(parts) = m
  <2>1. parts \in [1 .. m -> Seq(Octets)] /\ DOMAIN parts = 1 .. m
    BY <1>5, <1>6
  <2> HIDE DEF parts
  <2>2. QED
    BY <2>1
<1>8. FlattenSeq(parts) \in Seq(Octets) /\ Len(FlattenSeq(parts)) = BLOCK_LEN * m
  <2> HIDE DEF parts
  <2>1. \A k \in 1 .. Len(parts) : Len(parts[k]) = BLOCK_LEN
    BY <1>6, <1>7
  <2>2. FlattenSeq(parts) \in Seq(Octets) /\ Len(FlattenSeq(parts)) = BLOCK_LEN * Len(parts)
    BY <1>0, <1>7, <2>1, ChunksOfParts
  <2>3. QED
    BY <1>7, <2>2
<1>9. guess \in Seq(Octets) /\ Len(guess) = n
  <2> HIDE DEF parts
  <2>1. n <= Len(FlattenSeq(parts))
    BY <1>2, <1>8
  <2>2. QED
    BY <1>8, <2>1, TruncatedType
<1>10. guess = Truncated(FlattenSeq([k \in DOMAIN codes |-> decode_block_codes(codes[k])]), n)
  OBVIOUS
<1> HIDE DEF parts, guess
<1>11. residual \in Seq(SignedOctets) /\ Len(residual) = n /\ apply_centered_signed_residuals(guess, residual) = bytes
  BY <1>1, <1>9, ResidualUndone
<1> HIDE DEF residual
<1>12. decode_residual_payload(packed.residual, n) = Done(residual)
  BY <1>1, <1>3, <1>11, ResidualBack, VarintAssumption DEF VarintsFit
<1>13. FlattenSeq(codes) \in Seq(Lv) /\ Len(FlattenSeq(codes)) = latent_dim * m /\ Chunks(FlattenSeq(codes), latent_dim) = codes
  <2>1. \A k \in 1 .. Len(codes) : Len(codes[k]) = latent_dim
    BY <1>4, <1>5
  <2>2. /\ FlattenSeq(codes) \in Seq(Lv) /\ Len(FlattenSeq(codes)) = latent_dim * Len(codes)
        /\ Chunks(FlattenSeq(codes), latent_dim) = codes
    BY <1>0, <1>5, <2>1, ChunksOfParts
  <2>3. QED
    BY <1>5, <2>2
<1>14. decode_ans_symbols(packed.codes, m * latent_dim) = Done(FlattenSeq(codes))
  <2>1. m * latent_dim = Len(FlattenSeq(codes))
    BY <1>0, <1>13
  <2>2. QED
    BY <1>3, <1>13, <2>1, SymbolsBack
<1>15. packed.original_len = n /\ packed.block_count = m /\ (packed.original_len > 0 => packed.block_count > 0)
  BY <1>2, <1>3
<1>16. decode_packed_payload(packed)
         = Done(apply_centered_signed_residuals(
                  Truncated(FlattenSeq([k \in DOMAIN codes |-> decode_block_codes(codes[k])]), n), residual))
  <2> DEFINE symbols == decode_ans_symbols(packed.codes, packed.block_count * latent_dim)
             left == decode_residual_payload(packed.residual, packed.original_len)
             unpacked == Chunks(symbols.value, latent_dim)
  <2>1. symbols.ok /\ symbols.value = FlattenSeq(codes) /\ left.ok /\ left.value = residual
    BY <1>12, <1>14, <1>15 DEF Done
  <2>2. unpacked = codes
    BY <1>13, <2>1
  <2>3. decode_packed_payload(packed)
          = Done(apply_centered_signed_residuals(
                   Truncated(FlattenSeq([k \in DOMAIN unpacked |-> decode_block_codes(unpacked[k])]), packed.original_len),
                   left.value))
    BY <1>15, <2>1 DEF decode_packed_payload
  <2> HIDE DEF unpacked, symbols, left
  <2>4. QED
    BY <1>15, <2>1, <2>2, <2>3
<1>17. QED
  BY <1>10, <1>11, <1>16 DEF packed

----------------------------------------------------------------------------
(* Payloads with and without a predictor. *)

\* The delta to a predictor is undone with the same predictor.
LEMMA WrappingUndone ==
  ASSUME NEW bytes \in Seq(Octets), NEW predictor \in Seq(Octets)
  PROVE  /\ wrapping_delta_bytes(bytes, predictor) \in Seq(Octets)
         /\ Len(wrapping_delta_bytes(bytes, predictor)) = Len(bytes)
         /\ apply_wrapping_delta(wrapping_delta_bytes(bytes, predictor), predictor) = bytes
<1>0. Byte \in Nat \ {0}
  BY CodecAssumption
<1>1. PICK n \in Nat : Len(bytes) = n /\ DOMAIN bytes = 1 .. n
  OBVIOUS
<1>2. \A i \in 1 .. n : bytes[i] \in Octets /\ ByteAt(predictor, i) \in Octets
  <2> TAKE i \in 1 .. n
  <2>1. 0 \in Octets
    BY <1>0 DEF Octets
  <2>2. QED
    BY <1>1, <2>1 DEF ByteAt
<1> DEFINE Change(i) == (bytes[i] - ByteAt(predictor, i)) % Byte
           delta == [i \in 1 .. n |-> Change(i)]
<1>3. wrapping_delta_bytes(bytes, predictor) = delta
  BY <1>1 DEF wrapping_delta_bytes
<1>4. \A i \in 1 .. n : Change(i) \in Octets /\ (Change(i) + ByteAt(predictor, i)) % Byte = bytes[i]
  <2> TAKE i \in 1 .. n
  <2>1. PICK a \in 0 .. Byte - 1, p \in 0 .. Byte - 1 : a = bytes[i] /\ p = ByteAt(predictor, i)
    BY <1>2 DEF Octets
  <2>2. (a - p) % Byte \in 0 .. Byte - 1 /\ (((a - p) % Byte) + p) % Byte = a
    BY <1>0, Undone
  <2>3. Change(i) = (a - p) % Byte
    BY <2>1
  <2> HIDE DEF Change
  <2>4. QED
    BY <2>1, <2>2, <2>3 DEF Octets
<1> HIDE DEF Change
<1>5. delta \in Seq(Octets) /\ Len(delta) = n /\ DOMAIN delta = 1 .. n
  BY <1>4
<1>6. apply_wrapping_delta(delta, predictor) = [i \in 1 .. n |-> (Change(i) + ByteAt(predictor, i)) % Byte]
  BY <1>5 DEF apply_wrapping_delta
<1>7. [i \in 1 .. n |-> (Change(i) + ByteAt(predictor, i)) % Byte] = [i \in 1 .. n |-> bytes[i]]
  BY <1>4
<1>8. bytes = [i \in 1 .. n |-> bytes[i]]
  BY <1>1
<1>9. QED
  BY <1>1, <1>3, <1>5, <1>6, <1>7, <1>8

\* Whatever coding is chosen, decoding gives the bytes and their kind back.
LEMMA CodedBack ==
  ASSUME NEW kind, NEW bytes \in Seq(Octets), Len(bytes) <= U32,
         NEW predicted, predicted.ok => predicted.value \in Seq(Octets), NEW preference,
         NEW coded \in BestPayloads(kind, bytes, predicted, preference)
  PROVE  decode_data_payload(coded, predicted) = Done([kind |-> kind, bytes |-> bytes])
<1> DEFINE packed == encode_packed_payload(kind, bytes)
           changed == wrapping_delta_bytes(bytes, predicted.value)
           differing == encode_packed_payload(kind, changed)
<1>1. \/ coded = Encoded("DirectExact", [kind |-> kind, bytes |-> bytes])
      \/ coded = Encoded("PackedExact", packed)
      \/ predicted.ok /\ coded = Encoded("PredictedExact", differing)
  BY DEF BestPayloads
<1>2. CASE coded = Encoded("DirectExact", [kind |-> kind, bytes |-> bytes])
  BY <1>2 DEF decode_data_payload, Encoded
<1>3. CASE coded = Encoded("PackedExact", packed)
  <2>1. packed.kind = kind
    BY DEF encode_packed_payload
  <2>2. decode_packed_payload(packed) = Done(bytes)
    BY PackedBack
  <2> HIDE DEF packed
  <2>3. coded.mode = "PackedExact" /\ coded.payload = packed
    BY <1>3 DEF Encoded
  <2> DEFINE unpacked == decode_packed_payload(coded.payload)
  <2>5. unpacked.ok /\ unpacked.value = bytes
    BY <2>2, <2>3 DEF Done
  <2>6. coded.payload.kind = kind /\ coded.mode # "DirectExact" /\ coded.mode = "PackedExact"
    BY <2>1, <2>3
  <2>7. decode_data_payload(coded, predicted)
          = CASE ~ unpacked.ok -> Failed
              [] unpacked.ok /\ coded.mode = "PackedExact" -> Done([kind |-> coded.payload.kind, bytes |-> unpacked.value])
              [] unpacked.ok /\ coded.mode = "PredictedExact" ->
                    IF predicted.ok
                    THEN Done([kind |-> coded.payload.kind, bytes |-> apply_wrapping_delta(unpacked.value, predicted.value)])
                    ELSE Failed
    BY <2>6 DEF decode_data_payload
  <2> HIDE DEF unpacked
  <2>4. QED
    BY <2>5, <2>6, <2>7
<1>4. CASE predicted.ok /\ coded = Encoded("PredictedExact", differing)
  <2>1. differing.kind = kind
    BY DEF encode_packed_payload
  <2>2. changed \in Seq(Octets) /\ Len(changed) = Len(bytes) /\ apply_wrapping_delta(changed, predicted.value) = bytes
    BY <1>4, WrappingUndone
  <2> HIDE DEF changed
  <2>3. decode_packed_payload(differing) = Done(changed)
    BY <2>2, PackedBack
  <2> HIDE DEF differing
  <2>4. coded.mode = "PredictedExact" /\ coded.payload = differing
    BY <1>4 DEF Encoded
  <2> DEFINE unpacked == decode_packed_payload(coded.payload)
  <2>5. unpacked.ok /\ unpacked.value = changed
    BY <2>3, <2>4 DEF Done
  <2>6. coded.payload.kind = kind /\ coded.mode # "DirectExact" /\ coded.mode # "PackedExact" /\ coded.mode = "PredictedExact"
    BY <2>1, <2>4
  <2>7. decode_data_payload(coded, predicted)
          = CASE ~ unpacked.ok -> Failed
              [] unpacked.ok /\ coded.mode = "PackedExact" -> Done([kind |-> coded.payload.kind, bytes |-> unpacked.value])
              [] unpacked.ok /\ coded.mode = "PredictedExact" ->
                    IF predicted.ok
                    THEN Done([kind |-> coded.payload.kind, bytes |-> apply_wrapping_delta(unpacked.value, predicted.value)])
                    ELSE Failed
    BY <2>6 DEF decode_data_payload
  <2> HIDE DEF unpacked
  <2>8. QED
    BY <1>4, <2>2, <2>5, <2>6, <2>7
<1>5. QED
  BY <1>1, <1>2, <1>3, <1>4

----------------------------------------------------------------------------
(* Columns. *)

\* The first elements of a sequence.
FirstOf(s, k) == [i \in 1 .. k |-> s[i]]

\* One more element, and all of them.
LEMMA FirstOfMore ==
  ASSUME NEW S, NEW s \in Seq(S)
  PROVE  /\ FirstOf(s, 0) = <<>> /\ FirstOf(s, Len(s)) = s
         /\ \A k \in 0 .. Len(s) : FirstOf(s, k) \in Seq(S) /\ Len(FirstOf(s, k)) = k
         /\ \A k \in 1 .. Len(s) : Append(FirstOf(s, k - 1), s[k]) = FirstOf(s, k)
<1>1. PICK n \in Nat : Len(s) = n /\ DOMAIN s = 1 .. n
  OBVIOUS
<1>2. ASSUME NEW k \in 0 .. n PROVE FirstOf(s, k) \in Seq(S) /\ Len(FirstOf(s, k)) = k /\ DOMAIN FirstOf(s, k) = 1 .. k
  BY <1>1 DEF FirstOf
<1>3. ASSUME NEW k \in 1 .. n PROVE Append(FirstOf(s, k - 1), s[k]) = FirstOf(s, k)
  <2>1. k - 1 \in 0 .. n /\ k \in 0 .. n /\ s[k] \in S
    BY <1>1
  <2> DEFINE a == FirstOf(s, k - 1)
             b == FirstOf(s, k)
             c == Append(a, s[k])
  <2>2. a \in Seq(S) /\ Len(a) = k - 1 /\ b \in Seq(S) /\ Len(b) = k
    BY <1>2, <2>1
  <2>3. \A i \in 1 .. k - 1 : a[i] = s[i]
    BY DEF FirstOf
  <2>4. \A i \in 1 .. k : b[i] = s[i]
    BY DEF FirstOf
  <2> HIDE DEF a, b
  <2>5. c \in Seq(S) /\ Len(c) = k /\ c[k] = s[k] /\ \A i \in 1 .. k - 1 : c[i] = a[i]
    BY <2>1, <2>2, AppendProperties
  <2> HIDE DEF c
  <2>6. \A i \in 1 .. Len(c) : c[i] = b[i]
    <3> TAKE i \in 1 .. Len(c)
    <3>1. i = k \/ i \in 1 .. k - 1
      BY <2>5
    <3>2. QED
      BY <2>3, <2>4, <2>5, <3>1
  <2>7. c = b
    BY <2>2, <2>5, <2>6, SeqEqual
  <2>8. QED
    BY <2>7 DEF a, b, c
<1>4. FirstOf(s, 0) = <<>>
  BY DEF FirstOf
<1>5. FirstOf(s, n) = s
  BY <1>1 DEF FirstOf
<1>6. QED
  BY <1>1, <1>2, <1>3, <1>4, <1>5

Runs(T) == [value : T, count : Nat]

SpelledOut(run) == [i \in 1 .. run.count |-> run.value]

Expanded(runs) == [r \in DOMAIN runs |-> SpelledOut(runs[r])]

\* Runs expand to sequences.
LEMMA ExpandedType ==
  ASSUME NEW T, NEW runs \in Seq(Runs(T))
  PROVE  Expanded(runs) \in Seq(Seq(T)) /\ Len(Expanded(runs)) = Len(runs)
<1>1. PICK n \in Nat : Len(runs) = n /\ DOMAIN runs = 1 .. n
  OBVIOUS
<1>2. \A r \in 1 .. n : SpelledOut(runs[r]) \in Seq(T)
  <2> TAKE r \in 1 .. n
  <2>3. runs[r] \in Runs(T)
    BY <1>1
  <2>1. PICK v \in T, c \in Nat : v = runs[r].value /\ c = runs[r].count
    BY <2>3 DEF Runs
  <2>4. [i \in 1 .. c |-> v] \in Seq(T)
    OBVIOUS
  <2>2. QED
    BY <2>1, <2>4 DEF SpelledOut
<1>3. Expanded(runs) \in [1 .. n -> Seq(T)]
  BY <1>1, <1>2 DEF Expanded
<1>4. QED
  BY <1>1, <1>3

\* One more run.
LEMMA ExpandedAppend ==
  ASSUME NEW T, NEW runs \in Seq(Runs(T)), NEW run \in Runs(T)
  PROVE  Expanded(Append(runs, run)) = Append(Expanded(runs), SpelledOut(run))
<1>1. PICK n \in Nat : Len(runs) = n /\ DOMAIN runs = 1 .. n
  OBVIOUS
<1> DEFINE more == Append(runs, run)
<1>2. more \in Seq(Runs(T)) /\ DOMAIN more = 1 .. n + 1 /\ more[n + 1] = run /\ \A i \in 1 .. n : more[i] = runs[i]
  BY <1>1, AppendProperties
<1> HIDE DEF more
<1>3. SpelledOut(run) \in Seq(T)
  <2>1. run.value \in T /\ run.count \in Nat
    BY DEF Runs
  <2>2. QED
    BY <2>1 DEF SpelledOut
<1> DEFINE ex == Expanded(runs)
           longer == Append(ex, SpelledOut(run))
<1>10. PICK part \in Seq(T) : part = SpelledOut(run)
  BY <1>3
<1>4. ex \in Seq(Seq(T)) /\ Len(ex) = n /\ \A i \in 1 .. n : ex[i] = SpelledOut(runs[i])
  BY <1>1, ExpandedType DEF Expanded
<1> HIDE DEF ex
<1>5. longer \in Seq(Seq(T)) /\ Len(longer) = n + 1 /\ longer[n + 1] = SpelledOut(run) /\ \A i \in 1 .. n : longer[i] = ex[i]
  <2>1. /\ Append(ex, part) \in Seq(Seq(T)) /\ Len(Append(ex, part)) = n + 1 /\ Append(ex, part)[n + 1] = part
        /\ \A i \in 1 .. n : Append(ex, part)[i] = ex[i]
    BY <1>4, AppendProperties
  <2>2. QED
    BY <1>10, <2>1
<1> HIDE DEF longer
<1>6. \A i \in 1 .. n + 1 : SpelledOut(more[i]) = longer[i]
  <2> TAKE i \in 1 .. n + 1
  <2>1. i = n + 1 \/ i \in 1 .. n
    OBVIOUS
  <2>2. QED
    BY <1>2, <1>4, <1>5, <2>1
<1>7. Expanded(more) = [i \in 1 .. n + 1 |-> longer[i]]
  BY <1>2, <1>6 DEF Expanded
<1>8. longer = [i \in 1 .. n + 1 |-> longer[i]]
  BY <1>5
<1>9. QED
  BY <1>7, <1>8 DEF more, longer, ex

\* What is added to the runs is added to what they stand for.
LEMMA RleAddIs ==
  ASSUME NEW T, NEW runs \in Seq(Runs(T)), NEW x \in T
  PROVE  /\ RleAdd(runs, x) \in Seq(Runs(T))
         /\ rle_decode(runs) \in Seq(T)
         /\ rle_decode(RleAdd(runs, x)) = Append(rle_decode(runs), x)
<1>0. \A rs : rle_decode(rs) = FlattenSeq(Expanded(rs))
  BY DEF rle_decode, Expanded, SpelledOut
<1>1. rle_decode(runs) \in Seq(T)
  BY <1>0, ExpandedType, FlattenType
<1>2. PICK n \in Nat : Len(runs) = n /\ DOMAIN runs = 1 .. n
  OBVIOUS
<1>3. CASE runs # <<>> /\ runs[n].value = x /\ runs[n].count < U32 - 1
  <2>1. n \in 1 .. n /\ n \in Nat \ {0}
    BY <1>2, <1>3
  <2> DEFINE front == FirstOf(runs, n - 1)
             last == runs[n]
             c == last.count
             one == [value |-> x, count |-> c]
             two == [value |-> x, count |-> c + 1]
  <2>2. c \in Nat /\ last = one /\ one \in Runs(T) /\ two \in Runs(T)
    <3>1. last \in Runs(T)
      BY <1>2, <2>1
    <3>2. QED
      BY <1>3, <3>1 DEF Runs
  <2>3. front \in Seq(Runs(T)) /\ Len(front) = n - 1 /\ Append(front, last) = runs
    <3>1. n - 1 \in 0 .. n /\ n \in 1 .. n
      BY <2>1
    <3>2. /\ FirstOf(runs, n) = runs
          /\ FirstOf(runs, n - 1) \in Seq(Runs(T)) /\ Len(FirstOf(runs, n - 1)) = n - 1
          /\ Append(FirstOf(runs, n - 1), runs[n]) = FirstOf(runs, n)
      BY <1>2, <3>1, FirstOfMore
    <3>3. QED
      BY <3>2
  <2>4. RleAdd(runs, x) = Append(front, two)
    <3>1. RleAdd(runs, x) = [runs EXCEPT ![n].count = c + 1]
      BY <1>2, <1>3 DEF RleAdd
    <3> DEFINE new == [runs EXCEPT ![n].count = c + 1]
               other == Append(front, two)
    <3>2. new[n] = two
      BY <1>2, <2>1, <2>2
    <3>3. \A i \in 1 .. n - 1 : new[i] = runs[i]
      BY <1>2
    <3>4. \A i \in 1 .. n - 1 : front[i] = runs[i]
      BY DEF FirstOf
    <3> HIDE DEF front, two
    <3>5. other \in Seq(Runs(T)) /\ Len(other) = n /\ other[n] = two /\ \A i \in 1 .. n - 1 : other[i] = front[i]
      BY <2>1, <2>2, <2>3, AppendProperties
    <3>6. DOMAIN new = 1 .. n /\ new = [i \in 1 .. n |-> new[i]]
      BY <1>2
    <3> HIDE DEF other, new
    <3>7. \A i \in 1 .. n : new[i] = other[i]
      <4> TAKE i \in 1 .. n
      <4>1. i = n \/ i \in 1 .. n - 1
        OBVIOUS
      <4>2. QED
        BY <3>2, <3>3, <3>4, <3>5, <4>1
    <3>8. other = [i \in 1 .. n |-> other[i]]
      BY <3>5
    <3>9. new = other
      BY <3>6, <3>7, <3>8
    <3>10. QED
      BY <3>1, <3>9 DEF new, other
  <2>5. SpelledOut(two) = Append(SpelledOut(one), x) /\ SpelledOut(one) \in Seq(T)
    <3>1. SpelledOut(one) = [i \in 1 .. c |-> x] /\ SpelledOut(two) = [i \in 1 .. c + 1 |-> x]
      BY DEF SpelledOut
    <3> DEFINE r == [i \in 1 .. c |-> x]
               q == [i \in 1 .. c + 1 |-> x]
    <3>7. c \in Nat
      BY <2>2
    <3> HIDE DEF c
    <3>8. r \in Seq(T) /\ Len(r) = c /\ \A i \in 1 .. c : r[i] = x
      BY <3>7
    <3>9. q \in Seq(T) /\ Len(q) = c + 1
      BY <3>7
    <3>2. r \in Seq(T) /\ Len(r) = c /\ q \in Seq(T) /\ Len(q) = c + 1 /\ \A i \in 1 .. c : r[i] = x
      BY <3>8, <3>9
    <3>5. \A i \in 1 .. c + 1 : q[i] = x
      OBVIOUS
    <3> HIDE DEF r, q
    <3>3. Append(r, x) \in Seq(T) /\ Len(Append(r, x)) = c + 1 /\ \A i \in 1 .. c + 1 : Append(r, x)[i] = q[i]
      BY <2>2, <3>2, <3>5, AppendProperties
    <3>4. Append(r, x) = q
      BY <3>2, <3>3, SeqEqual
    <3>6. QED
      BY <3>1, <3>2, <3>4 DEF r, q
  <2> HIDE DEF front, last, one, two
  <2>6. Expanded(runs) = Append(Expanded(front), SpelledOut(one)) /\ Expanded(RleAdd(runs, x)) = Append(Expanded(front), SpelledOut(two))
    BY <2>2, <2>3, <2>4, ExpandedAppend
  <2>7. Expanded(front) \in Seq(Seq(T)) /\ FlattenSeq(Expanded(front)) \in Seq(T)
    BY <2>3, ExpandedType, FlattenType
  <2>10. SpelledOut(two) \in Seq(T)
    BY <2>5, AppendProperties
  <2>8. /\ FlattenSeq(Expanded(runs)) = FlattenSeq(Expanded(front)) \o SpelledOut(one)
        /\ FlattenSeq(Expanded(RleAdd(runs, x))) = FlattenSeq(Expanded(front)) \o SpelledOut(two)
    BY <2>5, <2>6, <2>7, <2>10, FlattenAppend
  <2>9. FlattenSeq(Expanded(front)) \o Append(SpelledOut(one), x) = Append(FlattenSeq(Expanded(front)) \o SpelledOut(one), x)
    BY <2>5, <2>7, AppendToConcat
  <2>11. RleAdd(runs, x) \in Seq(Runs(T))
    BY <2>2, <2>3, <2>4, AppendProperties
  <2>12. QED
    BY <1>0, <1>1, <2>5, <2>8, <2>9, <2>11
<1>4. CASE ~(runs # <<>> /\ runs[n].value = x /\ runs[n].count < U32 - 1)
  <2> DEFINE run == [value |-> x, count |-> 1]
  <2>1. RleAdd(runs, x) = Append(runs, run) /\ run \in Runs(T)
    BY <1>2, <1>4 DEF RleAdd, Runs
  <2>2. SpelledOut(run) = <<x>> /\ <<x>> \in Seq(T)
    BY DEF SpelledOut
  <2> HIDE DEF run
  <2>3. Expanded(RleAdd(runs, x)) = Append(Expanded(runs), <<x>>)
    BY <2>1, <2>2, ExpandedAppend
  <2>4. FlattenSeq(Expanded(RleAdd(runs, x))) = FlattenSeq(Expanded(runs)) \o <<x>>
    BY <2>2, <2>3, ExpandedType, FlattenAppend
  <2>5. rle_decode(runs) \o <<x>> = Append(rle_decode(runs), x)
    BY <1>1
  <2>6. RleAdd(runs, x) \in Seq(Runs(T))
    BY <2>1, AppendProperties
  <2>7. QED
    BY <1>0, <1>1, <2>4, <2>5, <2>6
<1>5. QED
  BY <1>3, <1>4

\* A column is what its runs stand for.
LEMMA RunsBack ==
  ASSUME NEW T, NEW data \in Seq(T)
  PROVE  rle_decode(rle_encode(data)) = data
<1>1. PICK n \in Nat : Len(data) = n /\ DOMAIN data = 1 .. n
  OBVIOUS
<1>2. PICK out : AddsRuns(data, out) /\ rle_encode(data) = out[Len(data)]
  BY EncodesRuns
<1>3. out[0] = <<>> /\ rle_encode(data) = out[n] /\ \A k \in 1 .. n : out[k] = RleAdd(out[k - 1], data[k])
  BY <1>1, <1>2 DEF AddsRuns
<1> DEFINE S == {k \in 0 .. n : out[k] \in Seq(Runs(T)) /\ rle_decode(out[k]) = FirstOf(data, k)}
<1>4. 0 \in S
  <2>1. out[0] \in Seq(Runs(T))
    BY <1>3
  <2>2. rle_decode(<<>>) = <<>>
    <3>1. [r \in DOMAIN <<>> |-> [i \in 1 .. (<<>>)[r].count |-> (<<>>)[r].value]] = <<>>
      OBVIOUS
    <3>2. QED
      BY <3>1, FlattenEmpty DEF rle_decode
  <2>3. FirstOf(data, 0) = <<>>
    BY FirstOfMore
  <2>5. rle_decode(out[0]) = FirstOf(data, 0)
    BY <1>3, <2>2, <2>3
  <2>6. 0 \in 0 .. n
    OBVIOUS
  <2>4. QED
    BY <2>1, <2>5, <2>6
<1>5. \A k \in 0 .. n : k \in S /\ k < n => k + 1 \in S
  <2> TAKE k \in 0 .. n
  <2>1. HAVE k \in S /\ k < n
  <2>2. PICK j \in 1 .. n : j = k + 1 /\ j - 1 = k
    BY <2>1
  <2>3. out[k] \in Seq(Runs(T)) /\ rle_decode(out[k]) = FirstOf(data, k) /\ data[j] \in T
    BY <1>1, <2>1
  <2>4. out[j] = RleAdd(out[k], data[j])
    BY <1>3, <2>2
  <2>5. RleAdd(out[k], data[j]) \in Seq(Runs(T)) /\ rle_decode(RleAdd(out[k], data[j])) = Append(rle_decode(out[k]), data[j])
    BY <2>3, RleAddIs
  <2>6. Append(FirstOf(data, j - 1), data[j]) = FirstOf(data, j)
    BY <1>1, FirstOfMore
  <2>7. out[j] \in Seq(Runs(T)) /\ rle_decode(out[j]) = FirstOf(data, j)
    BY <2>2, <2>3, <2>4, <2>5, <2>6
  <2>8. QED
    BY <2>2, <2>7
<1> HIDE DEF S
<1>6. 0 .. n \subseteq S
  BY <1>4, <1>5, IntervalInduction
<1>7. rle_decode(out[n]) = FirstOf(data, n)
  BY <1>6 DEF S
<1>8. FirstOf(data, n) = data
  BY <1>1, FirstOfMore
<1>9. QED
  BY <1>3, <1>7, <1>8

\* The varint of the difference between a value and the next.
Difference(values, i) == encode_varint((values[i + 1] - values[i]) % U32)

\* One difference read is one more value.
LEMMA DeltaTakeIs ==
  ASSUME VarintsFit, NEW values \in Seq(0 .. U32 - 1), NEW k \in 1 .. Len(values), k < Len(values),
         NEW deltas \in Seq(VarDigit), NEW p \in Nat, Occurs(Difference(values, k), deltas, p + 1)
  PROVE  /\ Len(Difference(values, k)) \in Nat \ {0}
         /\ DeltaTake(deltas, Done([values |-> FirstOf(values, k), next |-> p + 1]))
              = Done([values |-> FirstOf(values, k + 1), next |-> p + Len(Difference(values, k)) + 1])
<1>0. U32 \in Nat \ {0}
  BY CodecAssumption
<1>1. PICK n \in Nat : Len(values) = n /\ DOMAIN values = 1 .. n
  OBVIOUS
<1>2. PICK a \in 0 .. U32 - 1, b \in 0 .. U32 - 1 : a = values[k] /\ b = values[k + 1]
  <2>1. k \in 1 .. n /\ k + 1 \in 1 .. n
    BY <1>1
  <2>2. \A i \in 1 .. n : values[i] \in 0 .. U32 - 1
    BY <1>1, Holds
  <2>3. QED
    BY <2>1, <2>2
<1> DEFINE d == (b - a) % U32
           part == Difference(values, k)
<1>3. d \in 0 .. U32 - 1 /\ (d + a) % U32 = b /\ d \in Nat
  <2>1. (b - a) % U32 \in 0 .. U32 - 1 /\ (((b - a) % U32) + a) % U32 = b
    BY <1>0, Undone
  <2>2. d \in 0 .. U32 - 1 /\ (d + a) % U32 = b
    BY <2>1
  <2> HIDE DEF d
  <2>3. QED
    BY <1>0, <2>2
<1>4. part = encode_varint(d)
  BY <1>2 DEF Difference
<1> HIDE DEF d
<1>5. Spells(part, d) /\ Len(part) <= MAX_DIGITS
  BY <1>3, <1>4, VarintSpells DEF VarintsFit
<1>6. PICK c \in Nat \ {0} : Len(part) = c
  BY <1>5 DEF Spells
<1>7. PICK L \in Nat : Len(deltas) = L /\ DOMAIN deltas = 1 .. L
  OBVIOUS
<1>8. p + 1 + c - 1 <= L
  BY <1>6, <1>7 DEF Occurs
<1>9. Occurs(part, deltas, p + 1)
  OBVIOUS
<1> HIDE DEF part
<1>10. decode_varint(deltas, p + 1) = Done([next |-> p + 1 + c, value |-> d])
  <2>1. decode_varint(deltas, p + 1) = Done([next |-> p + 1 + Len(part), value |-> d])
    <3>1. Len(deltas) \in Nat /\ DOMAIN deltas = 1 .. Len(deltas)
      BY <1>7
    <3>2. QED
      BY <1>5, <1>9, <3>1, VarintRead, SMTT(60)
  <2>2. QED
    BY <1>6, <2>1
<1> DEFINE seen == FirstOf(values, k)
           more == FirstOf(values, k + 1)
           state == Done([values |-> seen, next |-> p + 1])
           delta == decode_varint(deltas, state.value.next)
<1>11. seen \in Seq(0 .. U32 - 1) /\ Len(seen) = k /\ Append(seen, b) = more
  <2>1. k \in 0 .. n /\ k + 1 \in 1 .. n /\ (k + 1) - 1 = k
    BY <1>1
  <2>2. seen \in Seq(0 .. U32 - 1) /\ Len(seen) = k
    BY <1>1, <2>1, FirstOfMore
  <2>3. Append(FirstOf(values, (k + 1) - 1), values[k + 1]) = FirstOf(values, k + 1)
    BY <1>1, <2>1, FirstOfMore
  <2>4. QED
    BY <1>2, <2>1, <2>2, <2>3
<1>12. seen[k] = a
  BY <1>2 DEF FirstOf
<1> HIDE DEF seen, more
<1>13. state.ok /\ state.value.next = p + 1 /\ state.value.values = seen
  BY DEF Done
<1>14. delta.ok /\ delta.value.value = d /\ delta.value.next = p + 1 + c
  BY <1>10, <1>13 DEF Done
<1>15. ~(p + 1 > L)
  BY <1>8
<1> HIDE DEF state, delta
<1>16. DeltaTake(deltas, state)
         = Done([values |-> Append(state.value.values,
                              (state.value.values[Len(state.value.values)] + delta.value.value) % U32),
                 next |-> delta.value.next])
  BY <1>7, <1>13, <1>14, <1>15 DEF DeltaTake, delta
<1>17. (a + d) % U32 = b
  <2>1. a + d = d + a
    BY <1>2, <1>3
  <2>2. QED
    BY <1>3, <2>1
<1>18. DeltaTake(deltas, state) = Done([values |-> Append(seen, (a + d) % U32), next |-> p + 1 + c])
  BY <1>11, <1>12, <1>13, <1>14, <1>16
<1>19. p + 1 + c = p + c + 1
  OBVIOUS
<1>20. DeltaTake(deltas, state) = Done([values |-> more, next |-> p + c + 1])
  BY <1>11, <1>17, <1>18, <1>19
<1>21. Len(part) \in Nat \ {0} /\ DeltaTake(deltas, state) = Done([values |-> more, next |-> p + Len(part) + 1])
  BY <1>6, <1>20
<1>22. QED
  BY <1>21 DEF part, state, seen, more

\* The lengths are read back from their differences.
LEMMA DeltasBack ==
  ASSUME VarintsFit, NEW values \in Seq(0 .. U32 - 1)
  PROVE  delta_u32_decode(delta_u32_encode(values)) = Done(values)
<1>0. U32 \in Nat \ {0}
  BY CodecAssumption
<1>1. PICK n \in Nat : Len(values) = n /\ DOMAIN values = 1 .. n
  OBVIOUS
<1>2. CASE values = <<>>
  <2>1. delta_u32_encode(values) = [first |-> Failed, deltas |-> <<>>]
    BY <1>2 DEF delta_u32_encode
  <2>2. ~ Failed.ok
    BY DEF Failed
  <2>3. delta_u32_decode([first |-> Failed, deltas |-> <<>>]) = Done(<<>>)
    BY <2>2 DEF delta_u32_decode
  <2>4. QED
    BY <1>2, <2>1, <2>3
<1>3. CASE values # <<>>
  <2>1. n \in 1 .. n /\ n - 1 \in Nat
    BY <1>1, <1>3
  <2> DEFINE m == n - 1
             parts == [i \in 1 .. m |-> Difference(values, i)]
             deltas == FlattenSeq(parts)
  <2>2. delta_u32_encode(values) = [first |-> Done(values[1]), deltas |-> deltas]
    <3>1. delta_u32_encode(values)
            = [first |-> Done(values[1]),
               deltas |-> FlattenSeq([i \in 1 .. Len(values) - 1 |-> encode_varint((values[i + 1] - values[i]) % U32)])]
      BY <1>3 DEF delta_u32_encode
    <3>2. QED
      BY <1>1, <3>1 DEF Difference
  <2>3. parts \in Seq(Seq(VarDigit)) /\ Len(parts) = m
    <3>1. \A i \in 1 .. m : Difference(values, i) \in Seq(VarDigit)
      <4> TAKE i \in 1 .. m
      <4>6. i \in 1 .. n /\ i + 1 \in 1 .. n
        BY <1>1
      <4>7. \A h \in 1 .. n : values[h] \in 0 .. U32 - 1
        BY <1>1, Holds
      <4>1. PICK a \in 0 .. U32 - 1, b \in 0 .. U32 - 1 : a = values[i] /\ b = values[i + 1]
        BY <4>6, <4>7
      <4>2. (b - a) % U32 \in Nat
        BY <1>0, Undone
      <4>3. Spells(encode_varint((b - a) % U32), (b - a) % U32)
        BY <4>2, VarintSpells
      <4>4. encode_varint((b - a) % U32) \in Seq(VarDigit)
        BY <4>3 DEF Spells
      <4>5. QED
        BY <4>1, <4>4 DEF Difference
    <3>2. QED
      BY <2>1, <3>1
  <2>4. \A i \in 1 .. m : parts[i] = Difference(values, i)
    OBVIOUS
  <2> HIDE DEF parts
  <2>5. deltas \in Seq(VarDigit) /\ \E at : Placed(parts, deltas, at)
    BY <2>3, FlattenPlaces
  <2>6. PICK at : Placed(parts, deltas, at)
    BY <2>5
  <2> HIDE DEF deltas
  <2>7. PICK L \in Nat : Len(deltas) = L
    BY <2>5
  <2>8. /\ at \in [0 .. m -> Nat] /\ at[0] = 0 /\ at[m] = L
        /\ \A i \in 1 .. m : at[i] = at[i - 1] + Len(parts[i]) /\ Occurs(parts[i], deltas, at[i - 1] + 1)
    BY <2>3, <2>6, <2>7 DEF Placed, Offsets
  <2>9. PICK out : /\ TakesDeltas(deltas, values[1], out)
                   /\ delta_u32_decode([first |-> Done(values[1]), deltas |-> deltas])
                        = IF out[Len(deltas)].ok THEN Done(out[Len(deltas)].value.values) ELSE Failed
    BY <2>5, DecodesDeltas
  <2>10. /\ out[0] = Done([values |-> <<values[1]>>, next |-> 1])
         /\ \A k \in 1 .. L : out[k] = DeltaTake(deltas, out[k - 1])
    BY <2>7, <2>9 DEF TakesDeltas
  <2> DEFINE State(k) == Done([values |-> FirstOf(values, k + 1), next |-> at[k] + 1])
             S == {k \in 0 .. m : at[k] >= k /\ out[k] = State(k)}
  <2>11. 0 \in S
    <3>1. FirstOf(values, 1) = <<values[1]>>
      BY DEF FirstOf
    <3>2. at[0] + 1 = 1 /\ 0 + 1 = 1
      BY <2>8
    <3>3. State(0) = Done([values |-> <<values[1]>>, next |-> 1])
      BY <3>1, <3>2
    <3>4. QED
      BY <2>1, <2>8, <2>10, <3>3
  <2>12. \A k \in 0 .. m : k \in S /\ k < m => k + 1 \in S
    <3> TAKE k \in 0 .. m
    <3>1. HAVE k \in S /\ k < m
    <3>2. PICK j \in 1 .. m : j = k + 1 /\ j - 1 = k
      BY <3>1, <2>1
    <3>3. PICK p \in Nat, q \in Nat : at[k] = p /\ at[j] = q
      <4>1. k \in 0 .. m /\ j \in 0 .. m
        BY <3>2
      <4>2. \A i \in 0 .. m : at[i] \in Nat
        BY <2>8
      <4>3. QED
        BY <4>1, <4>2
    <3>4. Occurs(Difference(values, j), deltas, p + 1) /\ q = p + Len(Difference(values, j))
      BY <2>4, <2>8, <3>2, <3>3
    <3>5. j \in 1 .. Len(values) /\ j < Len(values)
      BY <1>1, <3>2
    <3>6. /\ Len(Difference(values, j)) \in Nat \ {0}
          /\ DeltaTake(deltas, Done([values |-> FirstOf(values, j), next |-> p + 1]))
               = Done([values |-> FirstOf(values, j + 1), next |-> p + Len(Difference(values, j)) + 1])
      BY <2>5, <3>4, <3>5, DeltaTakeIs
    <3>7. PICK c \in Nat \ {0} : Len(Difference(values, j)) = c
      BY <3>6
    <3>8. q = p + c /\ p >= k /\ p + 1 + c - 1 <= L
      BY <2>7, <3>1, <3>3, <3>4, <3>7 DEF Occurs
    <3>9. q >= j /\ j \in 1 .. L
      BY <3>2, <3>8
    <3>10. out[k] = Done([values |-> FirstOf(values, j), next |-> p + 1])
      BY <3>1, <3>2, <3>3
    <3>11. out[j] = DeltaTake(deltas, out[k])
      BY <2>10, <3>2, <3>9
    <3>12. out[j] = Done([values |-> FirstOf(values, j + 1), next |-> q + 1])
      BY <3>6, <3>7, <3>8, <3>10, <3>11
    <3>13. out[j] = State(j)
      BY <3>3, <3>12
    <3>14. j \in S
      BY <3>3, <3>9, <3>13
    <3>15. QED
      BY <3>2, <3>14
  <2>13. m \in S
    <3> HIDE DEF S
    <3>1. 0 .. m \subseteq S
      BY <2>1, <2>11, <2>12, IntervalInduction
    <3>2. QED
      BY <2>1, <3>1
  <2>14. m <= L /\ out[m] = State(m)
    BY <2>8, <2>13
  <2> DEFINE R == {j \in 0 .. L - m : out[m + j] = State(m)}
  <2>15. 0 \in R
    BY <2>1, <2>14
  <2>16. \A j \in 0 .. L - m : j \in R /\ j < L - m => j + 1 \in R
    <3> TAKE j \in 0 .. L - m
    <3>1. HAVE j \in R /\ j < L - m
    <3>2. PICK k \in 1 .. L : k = m + (j + 1) /\ k - 1 = m + j
      BY <2>1, <2>14, <3>1
    <3>3. State(m).ok /\ State(m).value.next = L + 1
      BY <2>8 DEF Done
    <3>4. DeltaTake(deltas, State(m)) = State(m)
      <4> DEFINE state == State(m)
      <4>1. state.ok /\ state.value.next > Len(deltas)
        BY <2>7, <3>3
      <4> HIDE DEF state
      <4>2. DeltaTake(deltas, state) = state
        BY <4>1 DEF DeltaTake
      <4>3. QED
        BY <4>2 DEF state
    <3>5. out[k] = State(m)
      <4> HIDE DEF State
      <4>1. out[k - 1] = State(m)
        BY <3>1, <3>2
      <4>2. QED
        BY <2>10, <3>2, <3>4, <4>1
    <3>6. QED
      BY <3>1, <3>2, <3>5
  <2>17. L - m \in R
    <3>0. L - m \in Nat
      BY <2>1, <2>14
    <3> HIDE DEF R
    <3>1. 0 .. L - m \subseteq R
      BY <2>15, <2>16, <3>0, IntervalInduction
    <3>2. QED
      BY <3>0, <3>1
  <2>18. out[L] = State(m)
    <3>1. m + (L - m) = L
      BY <2>1
    <3>2. QED
      BY <2>17, <3>1
  <2>19. State(m).ok /\ State(m).value.values = FirstOf(values, n)
    <3>1. m + 1 = n
      BY <2>1
    <3>2. QED
      BY <3>1 DEF Done
  <2>20. FirstOf(values, n) = values
    BY <1>1, FirstOfMore
  <2>21. QED
    <3> HIDE DEF State
    <3>1. QED
      BY <2>2, <2>7, <2>9, <2>18, <2>19, <2>20
<1>4. QED
  BY <1>2, <1>3

----------------------------------------------------------------------------
(* Joined payloads and batches. *)

\* A payload and the number of its bytes in front of it.
Framed(part) == <<Len(part) % U32>> \o part

\* One joined payload is cut out.
LEMMA PayloadTakeIs ==
  ASSUME NEW parts \in Seq(Seq(Octets)), NEW k \in 1 .. Len(parts), Len(parts[k]) < U32,
         NEW fields \in Seq(Nat), NEW p \in Nat, Occurs(Framed(parts[k]), fields, p + 1)
  PROVE  PayloadTake(fields, Done([at |-> p, parts |-> FirstOf(parts, k - 1)]))
           = Done([at |-> p + Len(parts[k]) + 1, parts |-> FirstOf(parts, k)])
<1>0. U32 \in Nat \ {0} /\ Byte \in Nat \ {0}
  BY CodecAssumption
<1>1. PICK n \in Nat : Len(parts) = n /\ k \in 1 .. n
  OBVIOUS
<1>2. PICK part \in Seq(Octets) : part = parts[k]
  BY Holds
<1>3. PICK c \in Nat : Len(part) = c
  OBVIOUS
<1>4. c % U32 = c
  <2>1. c < U32
    BY <1>2, <1>3
  <2>2. c \in 0 .. U32 - 1
    BY <1>0, <2>1
  <2>3. QED
    BY <1>0, <2>2, Small
<1> DEFINE whole == Framed(part)
<1>5. whole = <<c>> \o part
  BY <1>3, <1>4 DEF Framed
<1>6. part \in Seq(Nat) /\ <<c>> \in Seq(Nat) /\ Len(<<c>>) = 1
  <2>1. \A x \in Octets : x \in Nat
    BY <1>0 DEF Octets
  <2>2. \A i \in 1 .. c : part[i] \in Nat
    BY <1>3, <2>1
  <2>3. part = [i \in 1 .. c |-> part[i]]
    BY <1>3
  <2>4. [i \in 1 .. c |-> part[i]] \in Seq(Nat)
    BY <2>2
  <2>5. part \in Seq(Nat)
    BY <2>3, <2>4
  <2>6. <<c>> \in Seq(Nat) /\ Len(<<c>>) = 1
    OBVIOUS
  <2>7. QED
    BY <2>5, <2>6
<1> HIDE DEF whole
<1>7. /\ whole \in Seq(Nat) /\ Len(whole) = 1 + c /\ whole[1] = c
      /\ \A i \in 1 .. c : whole[1 + i] = part[i]
  BY <1>3, <1>5, <1>6
<1>8. PICK L \in Nat : Len(fields) = L /\ DOMAIN fields = 1 .. L
  OBVIOUS
<1>9. p + 1 + (1 + c) - 1 <= L /\ \A i \in 1 .. 1 + c : fields[p + 1 + i - 1] = whole[i]
  <2>1. Occurs(whole, fields, p + 1)
    BY <1>2 DEF whole
  <2>2. QED
    BY <1>7, <1>8, <2>1 DEF Occurs
<1>10. p + 1 \in 1 .. L /\ p + 1 + c <= L /\ fields[p + 1] = c
  <2>1. 1 \in 1 .. 1 + c /\ p + 1 + 1 - 1 = p + 1
    OBVIOUS
  <2>2. fields[p + 1 + 1 - 1] = whole[1]
    BY <1>9, <2>1
  <2>3. QED
    BY <1>7, <1>9, <2>1, <2>2
<1>11. Occurs(part, fields, p + 2)
  <2>1. p + 2 \in Nat \ {0} /\ p + 2 + c - 1 <= L
    BY <1>9
  <2>2. \A i \in 1 .. c : fields[p + 2 + i - 1] = part[i]
    <3> TAKE i \in 1 .. c
    <3>1. 1 + i \in 1 .. 1 + c /\ p + 1 + (1 + i) - 1 = p + 2 + i - 1
      OBVIOUS
    <3>2. QED
      BY <1>7, <1>9, <3>1
  <2>3. QED
    BY <1>3, <1>8, <2>1, <2>2 DEF Occurs
<1>12. SubSeq(fields, p + 2, p + 1 + c) = part
  <2>1. SubSeq(fields, p + 2, p + 2 + Len(part) - 1) = part
    BY <1>6, <1>11, CutOut
  <2>2. p + 2 + c - 1 = p + 1 + c
    OBVIOUS
  <2>3. QED
    BY <1>3, <2>1, <2>2
<1> DEFINE seen == FirstOf(parts, k - 1)
           state == Done([at |-> p, parts |-> seen])
           start == state.value.at + 1
           end == start + ByteAt(fields, start)
<1>13. state.ok /\ state.value.at = p /\ state.value.parts = seen
  BY DEF Done
<1>14. start = p + 1 /\ end = p + 1 + c
  BY <1>8, <1>10, <1>13 DEF ByteAt
<1>15. Append(seen, part) = FirstOf(parts, k)
  BY <1>1, <1>2, FirstOfMore
<1> HIDE DEF seen, state
<1>16. start <= Len(fields) /\ end <= Len(fields) /\ start + 1 = p + 2
  BY <1>8, <1>10, <1>14
<1>17. PayloadTake(fields, state) = Done([at |-> end, parts |-> Append(state.value.parts, SubSeq(fields, start + 1, end))])
  BY <1>13, <1>16 DEF PayloadTake
<1>18. p + 1 + c = p + c + 1
  OBVIOUS
<1>19. PayloadTake(fields, state) = Done([at |-> p + c + 1, parts |-> FirstOf(parts, k)])
  BY <1>12, <1>13, <1>14, <1>15, <1>16, <1>17, <1>18
<1>20. QED
  BY <1>2, <1>3, <1>19 DEF state, seen

\* Joined payloads come apart where they were put together.
LEMMA JoinedBack ==
  ASSUME NEW parts \in Seq(Seq(Octets)), Len(parts) < U16, \A i \in 1 .. Len(parts) : Len(parts[i]) < U32
  PROVE  split_payloads(concatenate_payloads(parts)) = Done(parts)
<1>0. U16 \in Nat \ {0} /\ U32 \in Nat \ {0} /\ Byte \in Nat \ {0}
  BY CodecAssumption
<1>1. PICK n \in Nat : Len(parts) = n /\ DOMAIN parts = 1 .. n
  OBVIOUS
<1> DEFINE framed == [i \in 1 .. n |-> Framed(parts[i])]
           fields == FlattenSeq(framed)
<1>2. concatenate_payloads(parts) = [count |-> n, fields |-> fields]
  <2>4. n \in 0 .. U16 - 1
    BY <1>0, <1>1
  <2>1. n % U16 = n
    BY <1>0, <2>4, Small
  <2>2. concatenate_payloads(parts)
          = [count |-> n % U16, fields |-> FlattenSeq([i \in 1 .. n |-> <<Len(parts[i]) % U32>> \o parts[i]])]
    BY <1>1 DEF concatenate_payloads
  <2>3. QED
    BY <2>1, <2>2 DEF Framed
<1>3. \A i \in 1 .. n : Framed(parts[i]) \in Seq(Nat) /\ Len(Framed(parts[i])) = Len(parts[i]) + 1
  <2> TAKE i \in 1 .. n
  <2>1. PICK part \in Seq(Octets) : part = parts[i]
    BY <1>1, Holds
  <2>2. PICK c \in Nat : Len(part) = c /\ c % U32 = c
    <3>1. Len(part) \in Nat /\ Len(part) < U32
      BY <1>1, <2>1
    <3>2. QED
      BY <1>0, <3>1, Small
  <2>3. part \in Seq(Nat) /\ <<c>> \in Seq(Nat) /\ Len(<<c>>) = 1
    <3>1. \A x \in Octets : x \in Nat
      BY <1>0 DEF Octets
    <3>2. \A j \in 1 .. c : part[j] \in Nat
      BY <2>2, <3>1
    <3>3. part = [j \in 1 .. c |-> part[j]]
      BY <2>2
    <3>4. QED
      BY <3>2, <3>3
  <2>4. <<c>> \o part \in Seq(Nat) /\ Len(<<c>> \o part) = 1 + c
    BY <2>2, <2>3
  <2>5. Framed(part) = <<c>> \o part
    BY <2>2 DEF Framed
  <2>6. QED
    BY <2>1, <2>2, <2>4, <2>5
<1>4. framed \in Seq(Seq(Nat)) /\ Len(framed) = n /\ \A i \in 1 .. n : framed[i] = Framed(parts[i])
  BY <1>3
<1> HIDE DEF framed
<1>5. fields \in Seq(Nat) /\ \E at : Placed(framed, fields, at)
  BY <1>4, FlattenPlaces
<1>6. PICK at : Placed(framed, fields, at)
  BY <1>5
<1> HIDE DEF fields
<1>7. /\ at \in [0 .. n -> Nat] /\ at[0] = 0
      /\ \A i \in 1 .. n : at[i] = at[i - 1] + Len(framed[i]) /\ Occurs(framed[i], fields, at[i - 1] + 1)
  BY <1>4, <1>6 DEF Placed, Offsets
<1>8. PICK out : /\ TakesPayloads(fields, n, out)
                 /\ split_payloads([count |-> n, fields |-> fields])
                      = IF out[n].ok THEN Done(out[n].value.parts) ELSE Failed
  BY SplitsPayloads
<1>9. /\ out[0] = Done([at |-> 0, parts |-> <<>>])
      /\ \A k \in 1 .. n : out[k] = PayloadTake(fields, out[k - 1])
  BY <1>8 DEF TakesPayloads
<1> DEFINE State(k) == Done([at |-> at[k], parts |-> FirstOf(parts, k)])
           S == {k \in 0 .. n : out[k] = State(k)}
<1>10. 0 \in S
  <2>1. FirstOf(parts, 0) = <<>>
    BY FirstOfMore
  <2>2. State(0) = Done([at |-> 0, parts |-> <<>>])
    BY <1>7, <2>1
  <2>3. out[0] = State(0) /\ 0 \in 0 .. n
    BY <1>9, <2>2
  <2>4. QED
    BY <2>3
<1>11. \A k \in 0 .. n : k \in S /\ k < n => k + 1 \in S
  <2> TAKE k \in 0 .. n
  <2>1. HAVE k \in S /\ k < n
  <2>2. PICK j \in 1 .. n : j = k + 1 /\ j - 1 = k
    BY <2>1
  <2>3. PICK p \in Nat, q \in Nat : at[k] = p /\ at[j] = q
    <3>1. k \in 0 .. n /\ j \in 0 .. n
      BY <2>2
    <3>2. \A i \in 0 .. n : at[i] \in Nat
      BY <1>7
    <3>3. QED
      BY <3>1, <3>2
  <2>4. Occurs(Framed(parts[j]), fields, p + 1) /\ q = p + Len(Framed(parts[j]))
    BY <1>4, <1>7, <2>2, <2>3
  <2>5. PICK c \in Nat : Len(parts[j]) = c /\ c < U32
    <3>1. parts[j] \in Seq(Octets)
      BY <1>1, Holds
    <3>2. Len(parts[j]) \in Nat
      BY <3>1
    <3>3. QED
      BY <1>1, <3>2
  <2>6. q = p + c + 1
    <3>1. Len(Framed(parts[j])) = c + 1
      BY <1>3, <2>5
    <3>2. QED
      BY <2>4, <3>1
  <2>7. PayloadTake(fields, Done([at |-> p, parts |-> FirstOf(parts, j - 1)]))
          = Done([at |-> p + Len(parts[j]) + 1, parts |-> FirstOf(parts, j)])
    <3>1. j \in 1 .. Len(parts) /\ Len(parts[j]) < U32
      BY <1>1, <2>5
    <3>2. QED
      BY <1>5, <2>4, <3>1, PayloadTakeIs
  <2>8. out[k] = Done([at |-> p, parts |-> FirstOf(parts, j - 1)])
    BY <2>1, <2>2, <2>3
  <2>9. out[j] = PayloadTake(fields, out[k])
    BY <1>9, <2>2
  <2>10. out[j] = State(j)
    BY <2>3, <2>5, <2>6, <2>7, <2>8, <2>9
  <2>11. QED
    BY <2>2, <2>10
<1>12. n \in S
  <2> HIDE DEF S
  <2>1. 0 .. n \subseteq S
    BY <1>10, <1>11, IntervalInduction
  <2>2. QED
    BY <2>1
<1>13. out[n].ok /\ out[n].value.parts = FirstOf(parts, n)
  BY <1>12 DEF Done
<1>14. FirstOf(parts, n) = parts
  BY <1>1, FirstOfMore
<1>15. QED
  BY <1>2, <1>8, <1>13, <1>14

----------------------------------------------------------------------------

Item == [kind : DOMAIN SourceTag, bytes : Seq(Octets)]

\* A kind is found from its tag.
LEMMA TagBack ==
  ASSUME NEW kind \in DOMAIN SourceTag
  PROVE  TagKind(SourceTag[kind]) = kind
BY DEF TagKind, SourceTag

\* One row is cut out.
LEMMA RowTakeIs ==
  ASSUME NEW items \in Seq(Item), NEW k \in 1 .. Len(items), NEW lengths, NEW tags,
         k \in DOMAIN lengths, lengths[k] = Len(items[k].bytes), k \in DOMAIN tags, tags[k] = SourceTag[items[k].kind],
         NEW data \in Seq(Octets), NEW p \in Nat, Occurs(items[k].bytes, data, p + 1)
  PROVE  RowTake(data, lengths, tags, Done([at |-> p, items |-> FirstOf(items, k - 1)]), k)
           = Done([at |-> p + Len(items[k].bytes), items |-> FirstOf(items, k)])
<1>1. PICK n \in Nat : Len(items) = n /\ k \in 1 .. n
  OBVIOUS
<1>2. items[k] \in Item
  BY Holds
<1>3. PICK kind \in DOMAIN SourceTag, bytes \in Seq(Octets) : items[k] = [kind |-> kind, bytes |-> bytes]
  BY <1>2 DEF Item
<1>4. items[k].kind = kind /\ items[k].bytes = bytes
  BY <1>3
<1>5. PICK c \in Nat : Len(bytes) = c
  OBVIOUS
<1>6. PICK L \in Nat : Len(data) = L
  OBVIOUS
<1>7. Occurs(bytes, data, p + 1) /\ p + 1 + c - 1 <= L
  BY <1>4, <1>5, <1>6 DEF Occurs
<1>8. Slice(data, p, p + c) = bytes
  <2>1. SubSeq(data, p + 1, p + 1 + Len(bytes) - 1) = bytes
    BY <1>7, CutOut
  <2>2. p + 1 + c - 1 = p + c
    OBVIOUS
  <2>3. QED
    BY <1>5, <2>1, <2>2 DEF Slice
<1> DEFINE seen == FirstOf(items, k - 1)
           state == Done([at |-> p, items |-> seen])
           end == state.value.at + ByteAt(lengths, k)
<1>9. state.ok /\ state.value.at = p /\ state.value.items = seen
  BY DEF Done
<1>10. ByteAt(lengths, k) = c
  BY <1>4, <1>5 DEF ByteAt
<1>11. Append(seen, items[k]) = FirstOf(items, k)
  BY <1>1, FirstOfMore
<1>12. TagKind(tags[k]) = kind
  BY <1>4, TagBack
<1> HIDE DEF seen, state
<1>13. end = p + c /\ end <= Len(data)
  BY <1>6, <1>7, <1>9, <1>10
<1>14. RowTake(data, lengths, tags, state, k)
         = Done([at |-> end,
                 items |-> Append(state.value.items,
                             [kind |-> TagKind(tags[k]), bytes |-> Slice(data, state.value.at, end)])])
  BY <1>9, <1>13 DEF RowTake
<1>15. RowTake(data, lengths, tags, state, k) = Done([at |-> p + c, items |-> FirstOf(items, k)])
  BY <1>3, <1>8, <1>9, <1>11, <1>12, <1>13, <1>14
<1>16. QED
  BY <1>4, <1>5, <1>15 DEF state, seen

\* A columnar batch comes apart where it was put together.
LEMMA BatchBack ==
  ASSUME VarintsFit, NEW items \in Seq(Item), Len(items) < U32, \A i \in 1 .. Len(items) : Len(items[i].bytes) < U32
  PROVE  decode_batch(encode_batch(items)) = Done(items)
<1>0. U32 \in Nat \ {0}
  BY CodecAssumption
<1>1. PICK n \in Nat : Len(items) = n /\ DOMAIN items = 1 .. n
  OBVIOUS
<1>2. \A i \in 1 .. n : items[i].kind \in DOMAIN SourceTag /\ items[i].bytes \in Seq(Octets)
  <2> TAKE i \in 1 .. n
  <2>1. items[i] \in Item
    BY <1>1, Holds
  <2>2. QED
    BY <2>1 DEF Item
<1> DEFINE tags == [i \in 1 .. n |-> SourceTag[items[i].kind]]
           lens == [i \in 1 .. n |-> Len(items[i].bytes)]
           pieces == [i \in 1 .. n |-> items[i].bytes]
           data == FlattenSeq(pieces)
           column == delta_u32_encode(lens)
           runs == rle_encode(tags)
<1>3. \A i \in 1 .. n : Len(items[i].bytes) \in 0 .. U32 - 1 /\ Len(items[i].bytes) % U32 = Len(items[i].bytes)
  <2> TAKE i \in 1 .. n
  <2>1. PICK c \in Nat : Len(items[i].bytes) = c
    <3>1. items[i].bytes \in Seq(Octets)
      BY <1>2
    <3>2. QED
      BY <3>1
  <2>2. c < U32
    BY <1>1, <2>1
  <2>3. c \in 0 .. U32 - 1
    BY <1>0, <2>2
  <2>4. QED
    BY <1>0, <2>1, <2>3, Small
<1>4. encode_batch(items) = [row_count |-> n, kinds |-> runs, lengths |-> column, data |-> data]
  <2>1. n % U32 = n
    BY <1>0, <1>1, Small
  <2>2. [i \in 1 .. n |-> Len(items[i].bytes) % U32] = lens
    BY <1>3
  <2>3. encode_batch(items)
          = [row_count |-> n % U32, kinds |-> rle_encode(tags),
             lengths |-> delta_u32_encode([i \in 1 .. n |-> Len(items[i].bytes) % U32]), data |-> FlattenSeq(pieces)]
    BY <1>1 DEF encode_batch
  <2>4. QED
    BY <2>1, <2>2, <2>3
<1>5. delta_u32_decode(column) = Done(lens)
  <2>1. lens \in Seq(0 .. U32 - 1)
    BY <1>3
  <2> HIDE DEF lens
  <2>2. QED
    BY <2>1, DeltasBack
<1>6. rle_decode(runs) = tags
  <2>1. tags \in Seq({SourceTag[kind] : kind \in DOMAIN SourceTag})
    BY <1>2
  <2> HIDE DEF tags
  <2>2. QED
    BY <2>1, RunsBack
<1>7. pieces \in Seq(Seq(Octets)) /\ Len(pieces) = n
  BY <1>2
<1>8. /\ \A i \in 1 .. n : pieces[i] = items[i].bytes /\ tags[i] = SourceTag[items[i].kind] /\ lens[i] = Len(items[i].bytes)
      /\ DOMAIN tags = 1 .. n /\ DOMAIN lens = 1 .. n
  OBVIOUS
<1> HIDE DEF tags, lens, pieces, column, runs
<1>9. data \in Seq(Octets) /\ \E at : Placed(pieces, data, at)
  BY <1>7, FlattenPlaces
<1>10. PICK at : Placed(pieces, data, at)
  BY <1>9
<1> HIDE DEF data
<1>11. /\ at \in [0 .. n -> Nat] /\ at[0] = 0
       /\ \A i \in 1 .. n : at[i] = at[i - 1] + Len(pieces[i]) /\ Occurs(pieces[i], data, at[i - 1] + 1)
  BY <1>7, <1>10 DEF Placed, Offsets
<1>12. delta_u32_decode(column).ok /\ delta_u32_decode(column).value = lens
  BY <1>5 DEF Done
<1>13. PICK out : /\ TakesRows(data, delta_u32_decode(column).value, rle_decode(runs), n, out)
                  /\ decode_batch([row_count |-> n, kinds |-> runs, lengths |-> column, data |-> data])
                       = IF out[n].ok THEN Done(out[n].value.items) ELSE Failed
  BY <1>12, DecodesRows
<1>14. /\ out[0] = Done([at |-> 0, items |-> <<>>])
       /\ \A k \in 1 .. n : out[k] = RowTake(data, lens, tags, out[k - 1], k)
  BY <1>6, <1>12, <1>13 DEF TakesRows
<1> DEFINE State(k) == Done([at |-> at[k], items |-> FirstOf(items, k)])
           S == {k \in 0 .. n : out[k] = State(k)}
<1>15. 0 \in S
  <2>1. FirstOf(items, 0) = <<>>
    BY FirstOfMore
  <2>2. State(0) = Done([at |-> 0, items |-> <<>>])
    BY <1>11, <2>1
  <2>3. out[0] = State(0) /\ 0 \in 0 .. n
    BY <1>14, <2>2
  <2>4. QED
    BY <2>3
<1>16. \A k \in 0 .. n : k \in S /\ k < n => k + 1 \in S
  <2> TAKE k \in 0 .. n
  <2>1. HAVE k \in S /\ k < n
  <2>2. PICK j \in 1 .. n : j = k + 1 /\ j - 1 = k
    BY <2>1
  <2>3. PICK p \in Nat, q \in Nat : at[k] = p /\ at[j] = q
    <3>1. k \in 0 .. n /\ j \in 0 .. n
      BY <2>2
    <3>2. \A i \in 0 .. n : at[i] \in Nat
      BY <1>11
    <3>3. QED
      BY <3>1, <3>2
  <2>4. Occurs(items[j].bytes, data, p + 1) /\ q = p + Len(items[j].bytes)
    BY <1>8, <1>11, <2>2, <2>3
  <2>5. RowTake(data, lens, tags, Done([at |-> p, items |-> FirstOf(items, j - 1)]), j)
          = Done([at |-> p + Len(items[j].bytes), items |-> FirstOf(items, j)])
    <3>1. /\ j \in 1 .. Len(items) /\ j \in DOMAIN lens /\ lens[j] = Len(items[j].bytes)
          /\ j \in DOMAIN tags /\ tags[j] = SourceTag[items[j].kind]
      BY <1>1, <1>8, <2>2
    <3>2. QED
      BY <1>9, <2>4, <3>1, RowTakeIs
  <2>6. out[k] = Done([at |-> p, items |-> FirstOf(items, j - 1)])
    BY <2>1, <2>2, <2>3
  <2>7. out[j] = RowTake(data, lens, tags, out[k], j)
    BY <1>14, <2>2
  <2>8. out[j] = State(j)
    BY <2>3, <2>4, <2>5, <2>6, <2>7
  <2>9. QED
    BY <2>2, <2>8
<1>17. n \in S
  <2> HIDE DEF S
  <2>1. 0 .. n \subseteq S
    BY <1>15, <1>16, IntervalInduction
  <2>2. QED
    BY <2>1
<1>18. out[n].ok /\ out[n].value.items = FirstOf(items, n)
  BY <1>17 DEF Done
<1>19. FirstOf(items, n) = items
  BY <1>1, FirstOfMore
<1>20. QED
  BY <1>4, <1>13, <1>18, <1>19

----------------------------------------------------------------------------
(* What is on the wire is what one of the senders put there. *)

Coded(item, predicted, preference) ==
  \E coded \in BestPayloads(item.kind, item.bytes, predicted, preference) :
    /\ dispatched = [decision |-> "coded", coded |-> coded, predicted |-> predicted]
    /\ original = Tagged(<<item>>)

InColumns(items) ==
  /\ dispatched = [decision |-> "columns", batch |-> encode_batch(items)]
  /\ original = Tagged(items)

Joined(items) ==
  /\ dispatched = [decision |-> "joined", kinds |-> [i \in DOMAIN items |-> items[i].kind],
                   batch |-> concatenate_payloads([i \in DOMAIN items |-> items[i].bytes])]
  /\ original = Tagged(items)

OnTheWire ==
  \/ dispatched.decision \in {"none", "state", "transform", "copy"}
  \/ \E g \in Graphs : dispatched = [decision |-> "graph", graph |-> g, definition |-> SchemaDefPayload(g)]
  \/ \E item \in CodedItems, predicted \in Predictors, preference \in {"Adaptive", "DirectExactOnly"} :
        Coded(item, predicted, preference)
  \/ \E items \in Batches : InColumns(items) \/ Joined(items)

\* A payload is described by a state program, a transform or a copy.
LEMMA ChoiceIsDescribed ==
  ASSUME NEW cat, NEW bytes \in Payloads
  PROVE  choose_predictive_transport_representation(cat, bytes).decision \in Described
<1> DEFINE best == FoldLeft(consider_candidate, Failed, StateCandidates(cat, bytes))
           state == Represent(bytes, best)
<1>1. ASSUME NEW reason PROVE ExactCopy(reason).decision = "copy"
  BY DEF ExactCopy
<1>2. state.decision \in Described
  <2> HIDE DEF best
  <2>4. Len(bytes) \in Nat /\ TINY \in Nat
    BY ReconstructionAssumption
  <2>1. CASE Len(bytes) <= TINY
    BY <1>1, <2>1 DEF Represent, Described
  <2>2. CASE ~(Len(bytes) <= TINY)
    <3>1. Len(bytes) > TINY
      BY <2>2, <2>4
    <3>2. CASE ~best.ok
      BY <1>1, <2>2, <3>1, <3>2 DEF Represent, Described
    <3>3. CASE best.ok
      <4>1. Represent(bytes, best) =
              IF best.value.description < 1 + Unit * Len(bytes)
              THEN [decision |-> "state", program |-> best.value.program, description |-> best.value.description]
              ELSE ExactCopy("StateDescriptionNotCheaper")
        BY <2>2, <3>1, <3>3 DEF Represent
      <4>2. QED
        BY <1>1, <4>1 DEF Described
    <3>4. QED
      BY <3>2, <3>3
  <2>3. QED
    BY <2>1, <2>2
<1>3. QED
  BY <1>2 DEF choose_predictive_transport_representation, choose_transport_representation, PreferTransform, Described

\* The step of a sender or a receiver keeps that.
LEMMA WireKept ==
  ASSUME OnTheWire, [RebuildNext]_rebuildVars
  PROVE  OnTheWire'
<1>1. CASE UNCHANGED <<original, dispatched>>
  BY <1>1 DEF OnTheWire, Coded, InColumns, Joined
<1>2. ASSUME NEW m \in Materials, Grow(m) PROVE OnTheWire'
  BY <1>1, <1>2 DEF Grow
<1>3. ASSUME NEW first \in catalog.blocks, NEW second \in catalog.blocks, DefineBundle(first, second)
      PROVE  OnTheWire'
  BY <1>1, <1>3 DEF DefineBundle
<1>4. ASSUME NEW p \in Payloads, Choose(p) PROVE OnTheWire'
  BY <1>4, ChoiceIsDescribed DEF Choose, OnTheWire, Described
<1>5. CASE ReceiveState \/ ReceiveTransform \/ ReceiveCopy \/ ReceiveGraph \/ ReceiveCoded
  BY <1>1, <1>5 DEF ReceiveState, ReceiveTransform, ReceiveCopy, ReceiveGraph, ReceiveCoded
<1>6. ASSUME NEW g \in Graphs, SendGraph(g) PROVE OnTheWire'
  BY <1>6 DEF SendGraph, OnTheWire
<1>7. ASSUME NEW item \in CodedItems, NEW predicted \in Predictors,
             NEW preference \in {"Adaptive", "DirectExactOnly"}, SendCoded(item, predicted, preference)
      PROVE  OnTheWire'
  <2>1. Coded(item, predicted, preference)'
    BY <1>7 DEF SendCoded, Coded
  <2>2. QED
    BY <2>1 DEF OnTheWire
<1>8. ASSUME NEW items \in Batches, SendColumns(items) PROVE OnTheWire'
  <2>1. InColumns(items)'
    BY <1>8 DEF SendColumns, InColumns
  <2>2. QED
    BY <2>1 DEF OnTheWire
<1>9. ASSUME NEW items \in Batches, SendJoined(items) PROVE OnTheWire'
  <2>1. Joined(items)'
    BY <1>9 DEF SendJoined, Joined
  <2>2. QED
    BY <2>1 DEF OnTheWire
<1>10. CASE UNCHANGED rebuildVars
  BY <1>1, <1>10 DEF rebuildVars
<1>11. QED
  BY <1>2, <1>3, <1>4, <1>5, <1>6, <1>7, <1>8, <1>9, <1>10 DEF RebuildNext

\* What is on the wire is always what a sender put there.
LEMMA WireInvariant == RebuildSpec => []OnTheWire
<1>1. RebuildInit => OnTheWire
  BY DEF RebuildInit, OnTheWire, Unsent
<1>2. QED
  BY <1>1, WireKept, PTL DEF RebuildSpec

\* Every graph that is sent runs to what its definition is worth: a node that is
\* reached twice is not a cycle, a cycle is never followed, and the depth cap cuts
\* off exactly the graphs that are deeper (execute_prg_node).
THEOREM GraphsRun == RebuildSpec => []GraphsRunByLevels
<1>1. OnTheWire => GraphsRunByLevels
  <2> SUFFICES ASSUME OnTheWire, dispatched.decision = "graph"
               PROVE  execute_prg(dispatched.graph, Held, resolve_schema_output(Held)) = ByLevels(dispatched.graph)
    BY DEF GraphsRunByLevels
  <2>1. dispatched.graph \in Graphs
    <3>1. ASSUME NEW item, NEW predicted, NEW preference, Coded(item, predicted, preference) PROVE FALSE
      BY <3>1 DEF Coded
    <3>2. ASSUME NEW items, InColumns(items) \/ Joined(items) PROVE FALSE
      BY <3>2 DEF InColumns, Joined
    <3>3. PICK g \in Graphs : dispatched = [decision |-> "graph", graph |-> g, definition |-> SchemaDefPayload(g)]
      BY <3>1, <3>2 DEF OnTheWire
    <3>4. QED
      BY <3>3
  <2>2. IsFiniteSet(DOMAIN dispatched.graph.nodes) /\ dispatched.graph.cap \in Nat
    BY <2>1, ReconstructionAssumption
  <2>3. QED
    BY <2>2, GraphWorth
<1>2. QED
  BY <1>1, WireInvariant, PTL

\* Whatever was packed, laid out in columns or joined is decoded to what went in.
LEMMA DecodedBack ==
  ASSUME OnTheWire, dispatched.decision \in {"coded", "columns", "joined"}
  PROVE  Decoded(dispatched) = Done(original)
<1>1. VarintsFit
  BY VarintAssumption DEF VarintsFit
<1>2. \A item \in CodedItems : item \in Item /\ Len(item.bytes) < U32
  BY ReconstructionAssumption DEF Item, Octets
<1>3. ASSUME NEW items \in Batches
      PROVE  /\ items \in Seq(Item) /\ Len(items) < U16 /\ Len(items) < U32
             /\ \A i \in 1 .. Len(items) : Len(items[i].bytes) < U32
  <2>1. items \in Seq(CodedItems) /\ Len(items) < U16 /\ Len(items) < U32
    BY ReconstructionAssumption
  <2>2. PICK n \in Nat : Len(items) = n /\ DOMAIN items = 1 .. n
    BY <2>1
  <2>3. \A i \in 1 .. n : items[i] \in CodedItems
    BY <2>1, <2>2, Holds
  <2>4. \A i \in 1 .. n : items[i] \in Item /\ Len(items[i].bytes) < U32
    BY <1>2, <2>3
  <2>5. items = [i \in 1 .. n |-> items[i]]
    BY <2>1, <2>2
  <2>6. [i \in 1 .. n |-> items[i]] \in Seq(Item)
    BY <2>4
  <2>7. items \in Seq(Item)
    BY <2>5, <2>6
  <2>8. QED
    BY <2>1, <2>2, <2>4, <2>7
<1>4. ASSUME NEW item \in CodedItems, NEW predicted \in Predictors, NEW preference \in {"Adaptive", "DirectExactOnly"},
             Coded(item, predicted, preference)
      PROVE  Decoded(dispatched) = Done(original)
  <2>1. PICK coded \in BestPayloads(item.kind, item.bytes, predicted, preference) :
          /\ dispatched = [decision |-> "coded", coded |-> coded, predicted |-> predicted]
          /\ original = Tagged(<<item>>)
    BY <1>4 DEF Coded
  <2>2. PICK kind \in DOMAIN SourceTag, bytes \in Seq(Octets) : item = [kind |-> kind, bytes |-> bytes] /\ Len(bytes) < U32
    BY <1>2 DEF Item
  <2>3. item.kind = kind /\ item.bytes = bytes
    BY <2>2
  <2>4. predicted.ok => predicted.value \in Seq(Octets)
    <3>1. CASE predicted = Failed
      BY <3>1 DEF Failed
    <3>2. ASSUME NEW other \in CodedItems, predicted = Done(other.bytes) PROVE predicted.value \in Seq(Octets)
      <4>1. other \in Item
        BY <1>2
      <4>2. other.bytes \in Seq(Octets)
        BY <4>1 DEF Item
      <4>3. QED
        BY <3>2, <4>2 DEF Done
    <3>3. QED
      BY <3>1, <3>2 DEF Predictors
  <2>5. Len(bytes) <= U32
    <3>1. U32 \in Nat /\ Len(bytes) \in Nat
      BY CodecAssumption
    <3>2. QED
      BY <2>2, <3>1
  <2>6. coded \in BestPayloads(kind, bytes, predicted, preference)
    BY <2>1, <2>3
  <2>7. decode_data_payload(coded, predicted) = Done([kind |-> kind, bytes |-> bytes])
    BY <2>4, <2>5, <2>6, CodedBack
  <2> DEFINE out == decode_data_payload(dispatched.coded, dispatched.predicted)
  <2>8. dispatched.decision = "coded" /\ dispatched.coded = coded /\ dispatched.predicted = predicted
    BY <2>1
  <2>9. out.ok /\ out.value = item
    BY <2>2, <2>7, <2>8 DEF Done
  <2>10. Decoded(dispatched) = IF out.ok THEN Done(Tagged(<<out.value>>)) ELSE Failed
    BY <2>8 DEF Decoded
  <2> HIDE DEF out
  <2>11. QED
    BY <2>1, <2>9, <2>10
<1>5. ASSUME NEW items \in Batches, InColumns(items) PROVE Decoded(dispatched) = Done(original)
  <2>1. dispatched = [decision |-> "columns", batch |-> encode_batch(items)] /\ original = Tagged(items)
    BY <1>5 DEF InColumns
  <2>2. decode_batch(encode_batch(items)) = Done(items)
    BY <1>1, <1>3, BatchBack
  <2> DEFINE out == decode_batch(dispatched.batch)
  <2>3. dispatched.decision = "columns" /\ dispatched.batch = encode_batch(items)
    BY <2>1
  <2>4. out.ok /\ out.value = items
    BY <2>2, <2>3 DEF Done
  <2>5. Decoded(dispatched) = IF out.ok THEN Done(Tagged(out.value)) ELSE Failed
    BY <2>3 DEF Decoded
  <2> HIDE DEF out
  <2>6. QED
    BY <2>1, <2>4, <2>5
<1>6. ASSUME NEW items \in Batches, Joined(items) PROVE Decoded(dispatched) = Done(original)
  <2> DEFINE parts == [i \in DOMAIN items |-> items[i].bytes]
  <2>1. /\ dispatched = [decision |-> "joined", kinds |-> [i \in DOMAIN items |-> items[i].kind],
                         batch |-> concatenate_payloads(parts)]
        /\ original = Tagged(items)
    BY <1>6 DEF Joined
  <2>2. PICK n \in Nat : Len(items) = n /\ DOMAIN items = 1 .. n /\ items = [i \in 1 .. n |-> items[i]]
    BY <1>3
  <2>3. \A i \in 1 .. n : /\ items[i].bytes \in Seq(Octets)
                          /\ items[i] = [kind |-> items[i].kind, bytes |-> items[i].bytes]
    <3> TAKE i \in 1 .. n
    <3>1. items[i] \in Item
      BY <1>3, <2>2, Holds
    <3>2. QED
      BY <3>1 DEF Item
  <2>4. parts \in Seq(Seq(Octets)) /\ Len(parts) = n /\ \A i \in 1 .. n : parts[i] = items[i].bytes
    <3>1. [i \in 1 .. n |-> items[i].bytes] \in Seq(Seq(Octets)) /\ Len([i \in 1 .. n |-> items[i].bytes]) = n
      <4> DEFINE T == Seq(Octets)
      <4>1. \A i \in 1 .. n : items[i].bytes \in T
        BY <2>3
      <4> HIDE DEF T
      <4>2. [i \in 1 .. n |-> items[i].bytes] \in Seq(T) /\ Len([i \in 1 .. n |-> items[i].bytes]) = n
        BY <4>1
      <4>3. QED
        BY <4>2 DEF T
    <3>2. parts = [i \in 1 .. n |-> items[i].bytes]
      BY <2>2
    <3>3. \A i \in 1 .. n : parts[i] = items[i].bytes
      BY <2>2
    <3> HIDE DEF parts
    <3>4. QED
      BY <3>1, <3>2, <3>3
  <2>5. split_payloads(concatenate_payloads(parts)) = Done(parts)
    <3>1. n < U16 /\ \A i \in 1 .. n : Len(items[i].bytes) < U32
      BY <1>3, <2>2
    <3> HIDE DEF parts
    <3>2. Len(parts) < U16 /\ \A i \in 1 .. Len(parts) : Len(parts[i]) < U32
      BY <2>4, <3>1
    <3>3. QED
      BY <2>4, <3>2, JoinedBack
  <2> DEFINE out == split_payloads(dispatched.batch)
             again == [i \in DOMAIN out.value |-> [kind |-> dispatched.kinds[i], bytes |-> out.value[i]]]
  <2>6. /\ dispatched.decision = "joined" /\ dispatched.batch = concatenate_payloads(parts)
        /\ \A i \in 1 .. n : dispatched.kinds[i] = items[i].kind
    BY <2>1, <2>2
  <2>7. out.ok /\ out.value = parts
    <3> HIDE DEF parts
    <3>1. QED
      BY <2>5, <2>6 DEF Done
  <2>8. again = items
    <3>1. DOMAIN parts = 1 .. n
      BY <2>2
    <3> HIDE DEF out, parts
    <3>2. again = [i \in 1 .. n |-> [kind |-> dispatched.kinds[i], bytes |-> parts[i]]]
      BY <2>7, <3>1
    <3>3. \A i \in 1 .. n : [kind |-> dispatched.kinds[i], bytes |-> parts[i]] = items[i]
      BY <2>3, <2>4, <2>6
    <3>4. QED
      BY <2>2, <3>2, <3>3
  <2>9. Decoded(dispatched) = IF out.ok THEN Done(Tagged(again)) ELSE Failed
    BY <2>6 DEF Decoded
  <2> HIDE DEF out, again
  <2>10. QED
    BY <2>1, <2>7, <2>8, <2>9
<1>7. ASSUME NEW g, dispatched = [decision |-> "graph", graph |-> g, definition |-> SchemaDefPayload(g)] PROVE FALSE
  BY <1>7
<1>8. QED
  BY <1>4, <1>5, <1>6, <1>7 DEF OnTheWire

\* Packing loses nothing, whatever the block model predicts: the residual, in each
\* of its four codings, makes up for it, with the same predictor at both ends; and
\* batches come apart where they were put together (encode_best_exact_payload,
\* decode_data_payload, ColumnarBatch, BatchAeadHelper).
THEOREM CodedComesBack == RebuildSpec => []CodecsRoundTrip
<1>1. OnTheWire => CodecsRoundTrip
  BY DecodedBack DEF CodecsRoundTrip
<1>2. QED
  BY <1>1, WireInvariant, PTL
=============================================================================
